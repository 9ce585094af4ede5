----------------------------- MODULE NseProofs -----------------------------
(***************************************************************************)
(* Proofs about the NNF layer as the NSE venue runs it: the keys of its    *)
(* boxes, their heartbeats, and the recovery of what a member missed; for  *)
(* every number of boxes and users, every capacity of the message store    *)
(* and every reading of the clock.                                         *)
(*                                                                         *)
(* NnfNext is the interface: everything that any step of the venue does to *)
(* the boxes, the store and the members.  That the venue implements it is  *)
(* proved once, and the invariants of the layer follow from it alone.      *)
(***************************************************************************)
EXTENDS NseVenue, MarketProofs, FiniteSetTheorems, WellFoundedInduction

----------------------------------------------------------------------------
(* The NNF layer by itself *)

\* A connection that ends, for whatever reason.
Ends(b) ==
    /\ Detach(b)
    /\ inbox' = Unsynced(users[b])
    /\ UNCHANGED << records, last >>

\* A connection that opens with a registration, or with a box sign-on in clear.
Opens(b) ==
    /\ Attach(b, member[b].key)
    /\ box' = [box EXCEPT ![b] = Registered(Attached(@), issued[b])]
    /\ UNCHANGED << users, live, sessions, issued, secrets, retired, storeVars >>

OpensInClear(b) ==
    /\ Attach(b, NoSecret)
    /\ box' = [box EXCEPT ![b] = SignedOn(Attached(@))]
    /\ UNCHANGED << users, live, sessions, issued, secrets, retired, storeVars >>

OpensAgain(b) ==
    /\ Readable(b)
    /\ box' = [box EXCEPT ![b] = Registered(Heard(@), issued[b])]
    /\ member' = [member EXCEPT ![b].cipher = member[b].key]
    /\ UNCHANGED << users, live, sessions, issued, secrets, retired, storeVars >>

TurnedAway(b) ==
    /\ ~Connected(b)
    /\ box' = [box EXCEPT ![b] = [Attached(@) EXCEPT !.state = "DISCONNECTED"]]
    /\ Forget(b)
    /\ UNCHANGED << users, live, sessions, member, secrets, retired, storeVars >>

\* A packet of the box sequence that leaves the users alone.
Hears(b) ==
    /\ Readable(b)
    /\ \/ box' = [box EXCEPT ![b] = SignedOn(Heard(@))]
       \/ box' = [box EXCEPT ![b] = Heard(@)]
    /\ UNCHANGED << users, live, sessions, issued, member, secrets, retired, storeVars >>

Joins(b, u) ==
    /\ Readable(b)
    /\ BoxOf[u] = b
    /\ SignOnUser(b, u)
    /\ box' = [box EXCEPT ![b] = Heard(@)]
    /\ SendTo(u)

LeavesWithReply(u) ==
    /\ SignOff(BoxOf[u], u)
    /\ box' = [box EXCEPT ![BoxOf[u]] = Heard(@)]
    /\ \E now \in Clock : Stamped(now)
    /\ records' = [records EXCEPT ![u] = Recorded(@, last')]
    /\ inbox' = [inbox EXCEPT ![u] = [Noted(@, last', Reaches(u)) EXCEPT !.synced = FALSE]]

LeavesAtOnce(u) ==
    /\ SignOff(BoxOf[u], u)
    /\ inbox' = Unsynced({u})
    /\ UNCHANGED << box, records, last >>

\* A user's message, and what is sent or downloaded at once.
Asks(u) ==
    /\ Readable(BoxOf[u])
    /\ LoggedOn(u)
    /\ box' = [box EXCEPT ![BoxOf[u]] = Heard(@)]
    /\ sessions' = sessions \cup {u}
    /\ UNCHANGED << users, live, issued, member, secrets, retired >>
    /\ \/ UNCHANGED storeVars
       \/ SendTo(u)
       \/ /\ inbox' = [inbox EXCEPT ![u] = [Downloaded(u) EXCEPT !.lost = @ \cup LostTo(u)]]
          /\ UNCHANGED << records, last >>

\* A report, sent to a user or filed for one that is away.
Reports(u) ==
    /\ SendTo(u) \/ (u \notin sessions /\ Retain(u))
    /\ UNCHANGED boxVars

BoxNext(b) ==
    \/ Ends(b) \/ Opens(b) \/ OpensInClear(b) \/ OpensAgain(b) \/ TurnedAway(b)
    \/ Hears(b) \/ GrRequest(b) \/ ConnectionBreaks(b)
    \/ Heartbeat(b) /\ UNCHANGED storeVars

UserNext(u) ==
    \/ \E b \in Boxes : Joins(b, u)
    \/ LeavesWithReply(u) \/ LeavesAtOnce(u) \/ Asks(u) \/ Reports(u)

NnfNext ==
    \/ \E b \in Boxes : BoxNext(b)
    \/ \E u \in Users : UserNext(u)
    \/ PassTime

----------------------------------------------------------------------------
(* Its inductive invariant *)

Secrets == Nat \cup {NoSecret}

BoxStates == {"DISCONNECTED", "AWAITING_REGISTRATION", "AWAITING_BOX_SIGN_ON", "ACTIVE"}

BoxType == [state : BoxStates, cipher : Secrets, drops : Nat, beat : Nat, silence : Nat]

MemberType ==
    [broken : BOOLEAN, key : Secrets, cipher : Secrets, eager : BOOLEAN, beat : Nat]

InboxType ==
    [missing : SUBSET Nat, lost : SUBSET Nat, cursor : Nat, synced : BOOLEAN]

NnfTypeOK ==
    /\ box \in [Boxes -> BoxType]
    /\ users \in [Boxes -> SUBSET Users]
    /\ sessions \subseteq Users
    /\ issued \in [Boxes -> Secrets]
    /\ records \in [Users -> Seq(Nat)]
    /\ last \in Nat
    /\ member \in [Boxes -> MemberType]
    /\ inbox \in [Users -> InboxType]
    /\ secrets \in Nat
    /\ retired \subseteq Nat

\* A key is issued to one box only, ends one connection only, and none is issued
\* before it exists.
KeyInv ==
    /\ \A k \in retired : k <= secrets
    /\ \A b \in Boxes :
          /\ issued[b] # NoSecret => issued[b] <= secrets /\ issued[b] \notin retired
          /\ box[b].cipher # NoSecret =>
                box[b].cipher <= secrets /\ box[b].cipher \notin retired /\ Connected(b)
    /\ \A b, c \in Boxes : b # c =>
          /\ issued[b] # NoSecret => issued[b] # issued[c] /\ issued[b] # box[c].cipher
          /\ box[b].cipher # NoSecret => box[b].cipher # box[c].cipher

\* Until a member has sent a heartbeat on its connection the venue has counted
\* none; after that the venue's age is no less than the member's.
BeatInv ==
    \A b \in Boxes :
        Connected(b) /\ ~member[b].eager =>
            \/ box[b].drops = 0 /\ member[b].beat >= Interval
            \/ box[b].beat >= member[b].beat

\* The application knows exactly the users that are signed on, each over its box.
SignedOnInv ==
    /\ \A b \in Boxes : users[b] # {} => Connected(b)
    /\ \A b \in Boxes : \A u \in users[b] : BoxOf[u] = b
    /\ \A u \in Users : LoggedOn(u) <=> u \in sessions

\* The ring of a user: the newest stamps, in order.
RingInv(ring) ==
    /\ Len(ring) <= Capacity
    /\ \A i, j \in 1..Len(ring) : i < j => ring[i] < ring[j]
    /\ \A i \in 1..Len(ring) : ring[i] <= last

\* What a member misses and the store has not given up on is beyond the member's
\* cursor, and is in the ring unless the ring is full and begins after it.
Recoverable(ring, in) ==
    \A m \in in.missing \ in.lost :
        /\ in.cursor < m
        /\ \/ \E i \in 1..Len(ring) : ring[i] = m
           \/ Len(ring) = Capacity /\ m < ring[1]

\* What a member that has downloaded misses, the store has given up on.
RecoveryOf(u) ==
    /\ RingInv(records[u])
    /\ inbox[u].cursor <= last
    /\ Recoverable(records[u], inbox[u])
    /\ inbox[u].synced => LoggedOn(u)
    /\ inbox[u].synced /\ ~member[BoxOf[u]].broken => inbox[u].missing \subseteq inbox[u].lost

RecoveryInv == \A u \in Users : RecoveryOf(u)

NnfInv == NnfTypeOK /\ KeyInv /\ BeatInv /\ SignedOnInv /\ RecoveryInv

----------------------------------------------------------------------------
(* Records of the layer *)

\* What handling a packet makes of a box.
LEMMA BoxFacts ==
    ASSUME NEW bx \in BoxType
    PROVE  /\ Heard(bx) \in BoxType /\ SignedOn(Heard(bx)) \in BoxType
           /\ SignedOn(Attached(bx)) \in BoxType
           /\ \A key \in Secrets : /\ Registered(Heard(bx), key) \in BoxType
                                   /\ Registered(Attached(bx), key) \in BoxType
           /\ [Attached(bx) EXCEPT !.state = "DISCONNECTED"] \in BoxType
           /\ \A early \in BOOLEAN : Beaten(bx, early) \in BoxType
  <1>1. ASSUME NEW key \in Secrets
        PROVE  /\ Registered(Heard(bx), key) \in BoxType
               /\ Registered(Attached(bx), key) \in BoxType
    <2>1. CASE key = NoSecret
      BY <2>1 DEF BoxType, BoxStates, Heard, Registered, Attached
    <2>2. CASE key # NoSecret
      BY <2>2 DEF BoxType, BoxStates, Heard, Registered, Attached
    <2> QED
      BY <2>1, <2>2
  <1>2. Beaten(bx, TRUE) \in BoxType /\ Beaten(bx, FALSE) \in BoxType
    <2>1. /\ Beaten(bx, TRUE) = Heard([bx EXCEPT !.beat = bx.beat, !.drops = bx.drops + 1])
          /\ Beaten(bx, FALSE) = Heard([bx EXCEPT !.beat = 0, !.drops = bx.drops])
      BY DEF Beaten
    <2>2. Heard([bx EXCEPT !.beat = bx.beat, !.drops = bx.drops + 1]) \in BoxType
      <3>1. PICK more \in Nat : more = bx.drops + 1
        BY DEF BoxType
      <3> QED
        BY <3>1 DEF BoxType, Heard
    <2>3. Heard([bx EXCEPT !.beat = 0, !.drops = bx.drops]) \in BoxType
      BY DEF BoxType, Heard
    <2> QED
      BY <2>1, <2>2, <2>3
  <1>3. /\ Heard(bx) \in BoxType /\ SignedOn(Heard(bx)) \in BoxType
        /\ SignedOn(Attached(bx)) \in BoxType
        /\ [Attached(bx) EXCEPT !.state = "DISCONNECTED"] \in BoxType
    BY DEF BoxType, BoxStates, Heard, SignedOn, Attached
  <1> QED
    BY <1>1, <1>2, <1>3

\* What a report makes of an inbox.
LEMMA NotedFacts ==
    ASSUME NEW in \in InboxType, NEW stamp \in Nat, NEW reaches \in BOOLEAN
    PROVE  Noted(in, stamp, reaches) \in InboxType
  BY DEF InboxType, Noted

\* A stamp is later than every earlier one.
LEMMA StampFacts ==
    ASSUME last \in Nat, \E now \in Clock : Stamped(now)
    PROVE  last' \in Nat /\ last' > last
  BY NnfAssumption DEF Stamped, Sequence

\* Filing a stamp keeps a ring a ring, with the stamp in it; what it drops is older
\* than what is left of a full ring.
LEMMA RecordedFacts ==
    ASSUME NEW ring \in Seq(Nat), NEW stamp \in Nat, NEW before \in Nat,
           before < stamp,
           Len(ring) <= Capacity,
           \A i, j \in 1..Len(ring) : i < j => ring[i] < ring[j],
           \A i \in 1..Len(ring) : ring[i] <= before
    PROVE  LET new == Recorded(ring, stamp)
           IN  /\ new \in Seq(Nat)
               /\ Len(new) <= Capacity
               /\ \A i, j \in 1..Len(new) : i < j => new[i] < new[j]
               /\ \A i \in 1..Len(new) : new[i] <= stamp
               /\ \E i \in 1..Len(new) : new[i] = stamp
               /\ \A i \in 1..Len(ring) :
                     \/ \E j \in 1..Len(new) : new[j] = ring[i]
                     \/ Len(new) = Capacity /\ ring[i] < new[1]
               /\ Len(ring) = Capacity => Len(new) = Capacity /\ ring[1] < new[1]
  <1> DEFINE grown == Append(ring, stamp)
             n == Len(ring)
  <1>1. n \in Nat /\ Capacity \in Nat /\ Capacity >= 1
    BY NnfAssumption
  <1>2. /\ grown \in Seq(Nat) /\ Len(grown) = n + 1
        /\ grown[n + 1] = stamp
        /\ \A i \in 1..n : grown[i] = ring[i]
    OBVIOUS
  <1>3. CASE n + 1 <= Capacity
    <2>1. Recorded(ring, stamp) = grown /\ n # Capacity
      BY <1>1, <1>2, <1>3 DEF Recorded
    <2> HIDE DEF grown
    <2>2. \A i, j \in 1..(n + 1) : i < j => grown[i] < grown[j]
      <3> SUFFICES ASSUME NEW i \in 1..(n + 1), NEW j \in 1..(n + 1), i < j
                   PROVE  grown[i] < grown[j]
        OBVIOUS
      <3>1. i \in 1..n /\ ring[i] \in Nat
        BY <1>1
      <3>2. CASE j = n + 1
        BY <1>2, <3>1, <3>2
      <3>3. CASE j # n + 1
        <4>1. j \in 1..n /\ ring[i] < ring[j]
          BY <1>1, <3>1, <3>3
        <4> QED
          BY <1>2, <3>1, <4>1
      <3> QED
        BY <3>2, <3>3
    <2>3. ASSUME NEW i \in 1..(n + 1) PROVE grown[i] <= stamp
      <3>1. CASE i = n + 1
        BY <1>2, <3>1
      <3>2. CASE i # n + 1
        <4>1. i \in 1..n /\ ring[i] \in Nat /\ ring[i] <= before
          BY <1>1, <3>2
        <4> QED
          BY <1>2, <4>1
      <3> QED
        BY <3>1, <3>2
    <2> QED
      BY <1>1, <1>2, <1>3, <2>1, <2>2, <2>3
  <1>4. CASE n + 1 > Capacity
    <2> DEFINE new == Tail(grown)
    <2>0. n = Capacity
      BY <1>1, <1>4
    <2>1. Recorded(ring, stamp) = new
      BY <1>1, <1>2, <1>4 DEF Recorded
    <2>2. /\ new \in Seq(Nat) /\ Len(new) = n
          /\ \A i \in 1..n : new[i] = grown[i + 1]
      BY <1>1, <1>2
    <2> HIDE DEF new, grown
    <2>3. ASSUME NEW i \in 1..n, i < n PROVE new[i] = ring[i + 1]
      <3>1. i + 1 \in 1..n
        BY <1>1, <2>3
      <3> QED
        BY <1>2, <2>2, <3>1
    <2>4. new[n] = stamp
      BY <1>1, <1>2, <2>0, <2>2
    <2>5. \A i, j \in 1..n : i < j => new[i] < new[j]
      <3> SUFFICES ASSUME NEW i \in 1..n, NEW j \in 1..n, i < j PROVE new[i] < new[j]
        OBVIOUS
      <3>1. i < n /\ i + 1 \in 1..n /\ new[i] = ring[i + 1] /\ ring[i + 1] \in Nat
        BY <1>1, <2>3
      <3>2. CASE j = n
        BY <2>4, <3>1, <3>2
      <3>3. CASE j # n
        <4>1. j < n /\ j + 1 \in 1..n /\ i + 1 < j + 1 /\ new[j] = ring[j + 1]
          BY <1>1, <2>3, <3>3
        <4>2. ring[i + 1] < ring[j + 1]
          BY <3>1, <4>1
        <4> QED
          BY <3>1, <4>1, <4>2
      <3> QED
        BY <3>2, <3>3
    <2>6. ASSUME NEW i \in 1..n PROVE new[i] <= stamp
      <3>1. CASE i = n
        BY <2>4, <3>1
      <3>2. CASE i # n
        <4>1. i + 1 \in 1..n /\ new[i] = ring[i + 1] /\ ring[i + 1] \in Nat
          BY <1>1, <2>3, <3>2
        <4>2. ring[i + 1] <= before
          BY <4>1
        <4> QED
          BY <4>1, <4>2
      <3> QED
        BY <3>1, <3>2
    <2>7. ring[1] < new[1]
      BY <1>1, <2>0, <2>3, <2>4
    <2>8. ASSUME NEW i \in 1..n, i # 1
          PROVE  i - 1 \in 1..n /\ new[i - 1] = ring[i]
      <3>1. i - 1 \in 1..n /\ i - 1 < n /\ (i - 1) + 1 = i
        BY <1>1, <2>8
      <3> QED
        BY <2>3, <3>1
    <2>9. \A i \in 1..n : (\E j \in 1..n : new[j] = ring[i]) \/ ring[i] < new[1]
      BY <2>7, <2>8
    <2>10. n \in 1..n
      BY <1>1, <2>0
    <2> QED
      BY <2>0, <2>1, <2>2, <2>4, <2>5, <2>6, <2>7, <2>9, <2>10
  <1> QED
    BY <1>1, <1>3, <1>4

----------------------------------------------------------------------------
(* Types *)

\* Stamping, filing and noting a report for a user.
LEMMA ReportTypes ==
    ASSUME NnfTypeOK, NEW u \in Users, NEW r \in BOOLEAN, NEW in \in InboxType,
           \E now \in Clock : Stamped(now),
           records' = [records EXCEPT ![u] = Recorded(records[u], last')],
           inbox' = [inbox EXCEPT ![u] = in]
    PROVE  last' \in Nat /\ records' \in [Users -> Seq(Nat)]
           /\ inbox' \in [Users -> InboxType]
  <1>1. last' \in Nat
    BY StampFacts DEF NnfTypeOK
  <1>2. Recorded(records[u], last') \in Seq(Nat)
    <2>1. records[u] \in Seq(Nat)
      BY DEF NnfTypeOK
    <2>2. /\ Append(records[u], last') \in Seq(Nat) /\ Append(records[u], last') # << >>
          /\ Tail(Append(records[u], last')) \in Seq(Nat)
      BY <1>1, <2>1
    <2> QED
      BY <2>2 DEF Recorded
  <1> QED
    BY <1>1, <1>2 DEF NnfTypeOK

\* So does sending or retaining one.
LEMMA SendTypes ==
    ASSUME NnfTypeOK, NEW u \in Users, SendTo(u) \/ Retain(u)
    PROVE  last' \in Nat /\ records' \in [Users -> Seq(Nat)]
           /\ inbox' \in [Users -> InboxType]
  <1>1. PICK r \in BOOLEAN : inbox' = [inbox EXCEPT ![u] = Noted(inbox[u], last', r)]
    BY DEF SendTo, Retain, Reaches
  <1>2. /\ \E now \in Clock : Stamped(now)
        /\ records' = [records EXCEPT ![u] = Recorded(records[u], last')]
    BY DEF SendTo, Retain
  <1>3. inbox[u] \in InboxType /\ last' \in Nat
    BY <1>2, StampFacts DEF NnfTypeOK
  <1>4. Noted(inbox[u], last', r) \in InboxType
    BY <1>3, NotedFacts
  <1> QED
    BY <1>1, <1>2, <1>4, ReportTypes

\* What unsyncing users makes of the inboxes.
LEMMA UnsyncedFacts ==
    ASSUME NnfTypeOK, NEW S, inbox' = Unsynced(S)
    PROVE  /\ inbox' \in [Users -> InboxType]
           /\ \A u \in Users :
                 /\ inbox'[u].missing = inbox[u].missing /\ inbox'[u].lost = inbox[u].lost
                 /\ inbox'[u].cursor = inbox[u].cursor
                 /\ inbox'[u].synced = (u \notin S /\ inbox[u].synced)
  BY DEF NnfTypeOK, Unsynced, InboxType

\* A set of places in a sequence has a last one.
LEMMA GreatestPlace ==
    ASSUME NEW n \in Nat, NEW T, T \subseteq 1..n, T # {}
    PROVE  \E i \in T : \A j \in T : i >= j
  <1> DEFINE U == {n - i : i \in T}
  <1>1. \A i \in T : i \in Nat /\ i <= n /\ n - i \in Nat
    OBVIOUS
  <1>2. U \subseteq Nat /\ U # {}
    BY <1>1
  <1>3. PICK u \in U : \A v \in U : <<v, u>> \notin OpToRel(<, Nat)
    BY <1>2, NatLessThanWellFounded, WFMin
  <1>4. PICK i \in T : u = n - i
    BY <1>3
  <1>5. ASSUME NEW j \in T PROVE i >= j
    <2>1. n - j \in U /\ n - j \in Nat /\ n - i \in Nat
      BY <1>1
    <2>2. ~(n - j < n - i)
      BY <1>3, <1>4, <2>1 DEF OpToRel
    <2> QED
      BY <1>1, <2>2
  <1> QED
    BY <1>5

\* What a download makes of an inbox: every record beyond the cursor is recovered,
\* and the cursor ends at the last of them.
LEMMA DownloadFacts ==
    ASSUME NnfTypeOK, NEW u \in Users
    PROVE  LET ring == records[u]
               in   == inbox[u]
               new  == [Downloaded(u) EXCEPT !.lost = @ \cup LostTo(u)]
           IN  /\ new \in InboxType
               /\ new.missing = {m \in in.missing :
                                    ~\E i \in 1..Len(ring) : ring[i] = m /\ m > in.cursor}
               /\ new.lost = in.lost \cup LostTo(u)
               /\ new.cursor = in.cursor \/ \E i \in 1..Len(ring) : new.cursor = ring[i]
               /\ new.synced
  <1> DEFINE ring == records[u]
             in == inbox[u]
             places == After(u, in.cursor)
             replayed == {ring[i] : i \in places}
             new == [Downloaded(u) EXCEPT !.lost = @ \cup LostTo(u)]
  <1>1. ring \in Seq(Nat) /\ in \in InboxType /\ in.cursor \in Nat
    BY DEF NnfTypeOK, InboxType
  <1>2. places = {i \in 1..Len(ring) : ring[i] > in.cursor} /\ places \subseteq 1..Len(ring)
    BY <1>1 DEF After
  <1>3. replayed \subseteq Nat
    BY <1>1, <1>2
  <1>4. LostTo(u) \subseteq Nat
    BY <1>1 DEF LostTo, InboxType
  <1> DEFINE end == IF places = {} THEN in.cursor ELSE ring[Max(places)]
  <1> HIDE DEF places
  <1>5. places # {} => Max(places) \in places
    <2>1. Len(ring) \in Nat
      BY <1>1
    <2>2. places # {} => \E i \in places : \A j \in places : i >= j
      BY <1>2, <2>1, GreatestPlace
    <2> QED
      BY <2>2 DEF Max
  <1>6. end \in Nat /\ (end = in.cursor \/ \E i \in 1..Len(ring) : end = ring[i])
    <2>1. CASE places = {}
      BY <1>1, <2>1
    <2>2. CASE places # {}
      <3>1. Max(places) \in 1..Len(ring) /\ end = ring[Max(places)]
        BY <1>2, <1>5, <2>2
      <3> QED
        BY <1>1, <3>1
    <2> QED
      BY <2>1, <2>2
  <1>7. new = [in EXCEPT !.missing = in.missing \ replayed, !.cursor = end,
                         !.synced = TRUE, !.lost = in.lost \cup LostTo(u)]
    BY <1>1 DEF Downloaded, InboxType, places
  <1> HIDE DEF end, replayed, in, new
  <1>8. /\ new \in InboxType /\ new.missing = in.missing \ replayed
        /\ new.lost = in.lost \cup LostTo(u) /\ new.cursor = end /\ new.synced
    BY <1>1, <1>3, <1>4, <1>6, <1>7 DEF InboxType
  <1>9. in.missing \ replayed =
          {m \in in.missing : ~\E i \in 1..Len(ring) : ring[i] = m /\ m > in.cursor}
    BY <1>2 DEF replayed
  <1> QED
    BY <1>6, <1>8, <1>9 DEF new, in

\* A user has a box.
LEMMA UserBox == ASSUME NEW u \in Users PROVE BoxOf[u] \in Boxes
  BY NnfAssumption

\* A step of a box keeps the types.
LEMMA BoxTypes == ASSUME NnfTypeOK, NEW b \in Boxes, BoxNext(b) PROVE NnfTypeOK'
  <1> USE DEF NnfTypeOK
  <1>0. /\ box[b] \in BoxType /\ member[b] \in MemberType
        /\ issued[b] \in Secrets /\ NoSecret \in Secrets
    BY DEF Secrets
  <1>1. CASE Ends(b)
    <2>1. Detach(b) /\ inbox' = Unsynced(users[b])
      BY <1>1 DEF Ends
    <2>2. inbox' \in [Users -> InboxType]
      BY <2>1, UnsyncedFacts
    <2>3. box' \in [Boxes -> BoxType]
      BY <1>0, <2>1 DEF Detach, BoxType, BoxStates
    <2>4. member' \in [Boxes -> MemberType]
      BY <1>0, <2>1 DEF Detach, MemberType
    <2>5. retired' \subseteq Nat
      BY <1>0, <2>1 DEF Detach, BoxType, Secrets
    <2>6. issued' \in [Boxes -> Secrets] /\ users' \in [Boxes -> SUBSET Users]
          /\ sessions' \subseteq Users /\ secrets' = secrets
      BY <1>0, <2>1 DEF Detach, Forget
    <2> QED
      BY <1>1, <2>2, <2>3, <2>4, <2>5, <2>6 DEF Ends
  <1>2. CASE Opens(b)
    <2>1. Registered(Attached(box[b]), issued[b]) \in BoxType
      BY <1>0, BoxFacts
    <2>2. box' = [box EXCEPT ![b] = Registered(Attached(box[b]), issued[b])]
      BY <1>2 DEF Opens
    <2>3. member' \in [Boxes -> MemberType]
      BY <1>0, <1>2, NnfAssumption DEF Opens, Attach, MemberType
    <2> QED
      BY <1>2, <2>1, <2>2, <2>3 DEF Opens, storeVars
  <1>9. CASE OpensInClear(b)
    <2>1. SignedOn(Attached(box[b])) \in BoxType
      BY <1>0, BoxFacts
    <2>2. box' = [box EXCEPT ![b] = SignedOn(Attached(box[b]))]
      BY <1>9 DEF OpensInClear
    <2>3. member' \in [Boxes -> MemberType]
      BY <1>0, <1>9, NnfAssumption DEF OpensInClear, Attach, MemberType
    <2> QED
      BY <1>9, <2>1, <2>2, <2>3 DEF OpensInClear, storeVars
  <1>3. CASE OpensAgain(b)
    <2>1. Registered(Heard(box[b]), issued[b]) \in BoxType
      BY <1>0, BoxFacts
    <2>2. box' = [box EXCEPT ![b] = Registered(Heard(box[b]), issued[b])]
      BY <1>3 DEF OpensAgain
    <2>3. member' \in [Boxes -> MemberType]
      BY <1>0, <1>3 DEF OpensAgain, MemberType
    <2> QED
      BY <1>3, <2>1, <2>2, <2>3 DEF OpensAgain, storeVars
  <1>4. CASE TurnedAway(b)
    <2>1. box' = [box EXCEPT ![b] = [Attached(box[b]) EXCEPT !.state = "DISCONNECTED"]]
      BY <1>4 DEF TurnedAway
    <2>2. issued' \in [Boxes -> Secrets]
      BY <1>0, <1>4 DEF TurnedAway, Forget
    <2> QED
      BY <1>0, <1>4, <2>1, <2>2, BoxFacts DEF TurnedAway, storeVars
  <1>5. CASE Hears(b)
    <2>1. \/ box' = [box EXCEPT ![b] = SignedOn(Heard(box[b]))]
          \/ box' = [box EXCEPT ![b] = Heard(box[b])]
      BY <1>5 DEF Hears
    <2> QED
      BY <1>0, <1>5, <2>1, BoxFacts DEF Hears, storeVars
  <1>6. CASE GrRequest(b)
    <2>1. FreshSecret \in Nat /\ FreshSecret \in Secrets
      BY DEF FreshSecret, Secrets
    <2>2. member' \in [Boxes -> MemberType]
      BY <1>0, <1>6, <2>1 DEF GrRequest, MemberType
    <2> QED
      BY <1>6, <2>1, <2>2 DEF GrRequest, Grant, storeVars
  <1>7. CASE ConnectionBreaks(b)
    <2>1. member' \in [Boxes -> MemberType]
      BY <1>0, <1>7 DEF ConnectionBreaks, MemberType
    <2> QED
      BY <1>7, <2>1 DEF ConnectionBreaks, storeVars
  <1>8. CASE Heartbeat(b) /\ UNCHANGED storeVars
    <2>1. /\ box' = [box EXCEPT ![b] = Beaten(box[b], Early(b))]
          /\ Early(b) \in BOOLEAN
      BY <1>8 DEF Heartbeat, Early
    <2>2. Beaten(box[b], Early(b)) \in BoxType
      BY <1>0, <2>1, BoxFacts
    <2>3. member' \in [Boxes -> MemberType]
      BY <1>0, <1>8 DEF Heartbeat, MemberType
    <2> QED
      BY <1>8, <2>1, <2>2, <2>3 DEF Heartbeat, storeVars
  <1> QED
    BY <1>1, <1>2, <1>3, <1>4, <1>5, <1>6, <1>7, <1>8, <1>9 DEF BoxNext

\* So does a step of a user, who has a box that hears it.
LEMMA UserTypes == ASSUME NnfTypeOK, NEW u \in Users, UserNext(u) PROVE NnfTypeOK'
  <1> USE DEF NnfTypeOK
  <1> DEFINE b == BoxOf[u]
  <1>0. /\ b \in Boxes /\ inbox[u] \in InboxType
        /\ [box EXCEPT ![b] = Heard(box[b])] \in [Boxes -> BoxType]
    BY UserBox, BoxFacts
  <1>1. CASE \E c \in Boxes : Joins(c, u)
    <2>1. Joins(b, u)
      BY <1>1 DEF Joins
    <2>2. box' = [box EXCEPT ![b] = Heard(box[b])] /\ SendTo(u)
      BY <2>1 DEF Joins
    <2>3. users' \in [Boxes -> SUBSET Users] /\ sessions' \subseteq Users
      BY <1>0, <2>1 DEF Joins, SignOnUser
    <2> QED
      BY <1>0, <2>1, <2>2, <2>3, SendTypes DEF Joins, SignOnUser
  <1>2. CASE LeavesWithReply(u)
    <2> DEFINE noted == Noted(inbox[u], last', Reaches(u))
               in == [noted EXCEPT !.synced = FALSE]
    <2>1. /\ box' = [box EXCEPT ![b] = Heard(box[b])]
          /\ \E now \in Clock : Stamped(now)
          /\ records' = [records EXCEPT ![u] = Recorded(records[u], last')]
          /\ inbox' = [inbox EXCEPT ![u] = in]
      BY <1>2 DEF LeavesWithReply
    <2>2. last' \in Nat /\ Reaches(u) \in BOOLEAN
      BY <2>1, StampFacts DEF Reaches
    <2>3. noted \in InboxType
      BY <1>0, <2>2, NotedFacts
    <2>4. in \in InboxType
      BY <2>3 DEF InboxType
    <2>5. users' \in [Boxes -> SUBSET Users] /\ sessions' \subseteq Users
      BY <1>0, <1>2 DEF LeavesWithReply, SignOff
    <2> HIDE DEF in, noted
    <2>6. /\ records' \in [Users -> Seq(Nat)] /\ inbox' \in [Users -> InboxType]
      BY <2>1, <2>4, ReportTypes
    <2> QED
      BY <1>0, <1>2, <2>1, <2>2, <2>5, <2>6 DEF LeavesWithReply, SignOff
  <1>3. CASE LeavesAtOnce(u)
    <2>1. inbox' \in [Users -> InboxType]
      BY <1>3, UnsyncedFacts DEF LeavesAtOnce
    <2>2. users' \in [Boxes -> SUBSET Users] /\ sessions' \subseteq Users
      BY <1>0, <1>3 DEF LeavesAtOnce, SignOff
    <2> QED
      BY <1>3, <2>1, <2>2 DEF LeavesAtOnce, SignOff
  <1>4. CASE Asks(u)
    <2>1. /\ box' = [box EXCEPT ![b] = Heard(box[b])]
          /\ sessions' \subseteq Users
          /\ UNCHANGED << users, live, issued, member, secrets, retired >>
      BY <1>4 DEF Asks
    <2>2. CASE UNCHANGED storeVars
      BY <1>0, <2>1, <2>2 DEF storeVars
    <2>3. CASE SendTo(u)
      BY <1>0, <2>1, <2>3, SendTypes
    <2>4. CASE /\ inbox' = [inbox EXCEPT ![u] = [Downloaded(u) EXCEPT !.lost = @ \cup LostTo(u)]]
               /\ UNCHANGED << records, last >>
      <3>1. [Downloaded(u) EXCEPT !.lost = @ \cup LostTo(u)] \in InboxType
        BY DownloadFacts
      <3> QED
        BY <1>0, <2>1, <2>4, <3>1
    <2> QED
      BY <1>4, <2>2, <2>3, <2>4 DEF Asks
  <1>5. CASE Reports(u)
    BY <1>5, SendTypes DEF Reports, boxVars
  <1> QED
    BY <1>1, <1>2, <1>3, <1>4, <1>5 DEF UserNext

\* The types are an invariant of the layer.
LEMMA NnfTypes == NnfTypeOK /\ [NnfNext]_nnfVars => NnfTypeOK'
  <1>1. ASSUME NnfTypeOK, PassTime PROVE NnfTypeOK'
    <2>1. \A age, limit \in Nat : Older(age, limit) \in Nat
      BY DEF Older
    <2>2. Interval \in Nat /\ 2 * Interval \in Nat
      BY NnfAssumption
    <2>3. ASSUME NEW b \in Boxes
          PROVE  /\ [box[b] EXCEPT !.beat = Older(box[b].beat, Interval),
                                   !.silence = Older(box[b].silence, 2 * Interval)] \in BoxType
                 /\ [member[b] EXCEPT !.beat = Older(member[b].beat, Interval)] \in MemberType
      BY <1>1, <2>1, <2>2 DEF NnfTypeOK, BoxType, MemberType
    <2> QED
      BY <1>1, <2>3 DEF PassTime, NnfTypeOK, storeVars
  <1>2. ASSUME NnfTypeOK, UNCHANGED nnfVars PROVE NnfTypeOK'
    BY <1>2 DEF nnfVars, boxVars, storeVars, NnfTypeOK
  <1> QED
    BY <1>1, <1>2, BoxTypes, UserTypes DEF NnfNext

----------------------------------------------------------------------------
(* Keys *)

\* Which fields of a box handling a packet leaves alone.
LEMMA BoxFields ==
    ASSUME NEW bx \in BoxType
    PROVE  /\ Heard(bx).cipher = bx.cipher /\ Heard(bx).state = bx.state
           /\ Heard(bx).drops = bx.drops /\ Heard(bx).beat = bx.beat
           /\ SignedOn(Heard(bx)).cipher = bx.cipher
           /\ SignedOn(Heard(bx)).drops = bx.drops /\ SignedOn(Heard(bx)).beat = bx.beat
           /\ SignedOn(Heard(bx)).state = "ACTIVE"
           /\ \A key : /\ Registered(Heard(bx), key).cipher =
                              IF key = NoSecret THEN bx.cipher ELSE key
                       /\ Registered(Heard(bx), key).state = "AWAITING_BOX_SIGN_ON"
                       /\ Registered(Heard(bx), key).drops = bx.drops
                       /\ Registered(Heard(bx), key).beat = bx.beat
                       /\ Registered(Attached(bx), key).cipher =
                              IF key = NoSecret THEN bx.cipher ELSE key
                       /\ Registered(Attached(bx), key).state = "AWAITING_BOX_SIGN_ON"
                       /\ Registered(Attached(bx), key).drops = 0
           /\ SignedOn(Attached(bx)).cipher = bx.cipher
           /\ SignedOn(Attached(bx)).drops = 0
           /\ SignedOn(Attached(bx)).state = "ACTIVE"
           /\ [Attached(bx) EXCEPT !.state = "DISCONNECTED"].cipher = bx.cipher
           /\ [Attached(bx) EXCEPT !.state = "DISCONNECTED"].state = "DISCONNECTED"
           /\ \A early \in BOOLEAN : /\ Beaten(bx, early).cipher = bx.cipher
                                     /\ Beaten(bx, early).state = bx.state
                                     /\ Beaten(bx, early).beat \in {bx.beat, 0}
                                     /\ early => Beaten(bx, early).beat = bx.beat
  BY DEF BoxType, Heard, SignedOn, Registered, Attached, Beaten

\* What a step does to the keys: at most it forgets what was issued, or it gives
\* a box a key nobody has, or puts a box under the key it was issued, or ends a
\* connection and its key.
KeysKept ==
    /\ UNCHANGED << secrets, retired >>
    /\ \A c \in Boxes : /\ issued'[c] \in {issued[c], NoSecret}
                        /\ box'[c].cipher = box[c].cipher
                        /\ Connected(c) => Connected(c)'

KeyTaken(b) ==
    /\ UNCHANGED << issued, secrets, retired >>
    /\ \A c \in Boxes \ {b} : box'[c] = box[c]
    /\ box'[b].cipher = IF issued[b] = NoSecret THEN box[b].cipher ELSE issued[b]
    /\ Connected(b)'

KeyEffect(b) ==
    \/ KeysKept
    \/ KeyTaken(b)
    \/ GrRequest(b)
    \/ Detach(b)

\* Each step of a box has one of these effects.
LEMMA BoxKeys == ASSUME NnfTypeOK, KeyInv, NEW b \in Boxes, BoxNext(b) PROVE KeyEffect(b)
  <1>0. box[b] \in BoxType /\ \A c \in Boxes : box[c] \in BoxType
    BY DEF NnfTypeOK
  <1>t. box \in [Boxes -> BoxType]
    BY DEF NnfTypeOK
  <1>1. CASE Ends(b)
    BY <1>1 DEF Ends, KeyEffect
  <1>2. CASE Opens(b) \/ OpensAgain(b)
    <2>1. \/ box' = [box EXCEPT ![b] = Registered(Attached(box[b]), issued[b])]
          \/ box' = [box EXCEPT ![b] = Registered(Heard(box[b]), issued[b])]
      BY <1>2 DEF Opens, OpensAgain
    <2>2. UNCHANGED << issued, secrets, retired >>
      BY <1>2 DEF Opens, OpensAgain
    <2>3. /\ box'[b].cipher = IF issued[b] = NoSecret THEN box[b].cipher ELSE issued[b]
          /\ box'[b].state = "AWAITING_BOX_SIGN_ON"
          /\ \A c \in Boxes \ {b} : box'[c] = box[c]
      BY <1>0, <1>t, <2>1, BoxFields
    <2> QED
      BY <2>2, <2>3 DEF KeyEffect, KeyTaken, Connected
  <1>3. CASE TurnedAway(b)
    <2>1. box' = [box EXCEPT ![b] = [Attached(box[b]) EXCEPT !.state = "DISCONNECTED"]]
      BY <1>3 DEF TurnedAway
    <2>2. /\ \A c \in Boxes : box'[c].cipher = box[c].cipher
          /\ \A c \in Boxes \ {b} : box'[c] = box[c]
      BY <1>0, <1>t, <2>1, BoxFields
    <2>3. ~Connected(b) /\ UNCHANGED << secrets, retired >>
      BY <1>3 DEF TurnedAway
    <2>4. \A c \in Boxes : issued'[c] \in {issued[c], NoSecret}
      BY <1>3 DEF TurnedAway, Forget, NnfTypeOK
    <2> QED
      BY <2>2, <2>3, <2>4 DEF KeyEffect, KeysKept, Connected
  <1>7. CASE OpensInClear(b)
    <2>1. box' = [box EXCEPT ![b] = SignedOn(Attached(box[b]))]
      BY <1>7 DEF OpensInClear
    <2>2. \A c \in Boxes : /\ box'[c].cipher = box[c].cipher
                           /\ box'[c].state \in {box[c].state, "ACTIVE"}
      BY <1>0, <1>t, <2>1, BoxFields
    <2>3. UNCHANGED << issued, secrets, retired >>
      BY <1>7 DEF OpensInClear
    <2> QED
      BY <2>2, <2>3 DEF KeyEffect, KeysKept, Connected
  <1>4. CASE Hears(b) \/ Heartbeat(b)
    <2>1. \/ box' = [box EXCEPT ![b] = SignedOn(Heard(box[b]))]
          \/ box' = [box EXCEPT ![b] = Heard(box[b])]
          \/ box' = [box EXCEPT ![b] = Beaten(box[b], Early(b))]
      BY <1>4 DEF Hears, Heartbeat
    <2>2. Early(b) \in BOOLEAN
      BY DEF Early
    <2>3. \A c \in Boxes : /\ box'[c].cipher = box[c].cipher
                           /\ box'[c].state \in {box[c].state, "ACTIVE"}
      BY <1>0, <1>t, <2>1, <2>2, BoxFields
    <2>4. UNCHANGED << issued, secrets, retired >>
      BY <1>4 DEF Hears, Heartbeat
    <2> QED
      BY <2>3, <2>4 DEF KeyEffect, KeysKept, Connected
  <1>5. CASE GrRequest(b)
    BY <1>5 DEF KeyEffect
  <1>6. CASE ConnectionBreaks(b)
    BY <1>6 DEF ConnectionBreaks, KeyEffect, KeysKept, Connected
  <1> QED
    BY <1>1, <1>2, <1>3, <1>4, <1>5, <1>6, <1>7 DEF BoxNext

\* A step of a user, or of time, keeps the keys.
LEMMA UserKeys ==
    ASSUME NnfTypeOK, (\E u \in Users : UserNext(u)) \/ PassTime PROVE KeysKept
  <1>t. box \in [Boxes -> BoxType]
    BY DEF NnfTypeOK
  <1>1. ASSUME NEW u \in Users, box' = [box EXCEPT ![BoxOf[u]] = Heard(box[BoxOf[u]])]
        PROVE  \A c \in Boxes : box'[c].cipher = box[c].cipher /\ box'[c].state = box[c].state
    BY <1>t, <1>1, UserBox, BoxFields
  <1>2. ASSUME NEW u \in Users, UserNext(u) PROVE KeysKept
    <2>1. UNCHANGED << issued, secrets, retired >>
      BY <1>2 DEF UserNext, Joins, SignOnUser, LeavesWithReply, LeavesAtOnce, SignOff,
                  Asks, Reports, boxVars
    <2>2. box' = box \/ box' = [box EXCEPT ![BoxOf[u]] = Heard(box[BoxOf[u]])]
      BY <1>2 DEF UserNext, Joins, LeavesWithReply, LeavesAtOnce, Asks, Reports, boxVars
    <2> QED
      BY <1>1, <2>1, <2>2 DEF KeysKept, Connected
  <1>3. CASE PassTime
    <2>1. \A c \in Boxes : box'[c].cipher = box[c].cipher /\ box'[c].state = box[c].state
      BY <1>t, <1>3 DEF PassTime, BoxType
    <2> QED
      BY <1>3, <2>1 DEF PassTime, KeysKept, Connected
  <1> QED
    BY <1>2, <1>3

\* All of these keep the invariant of the keys.
LEMMA KeyStep ==
    ASSUME NnfTypeOK, KeyInv, NEW b \in Boxes, KeyEffect(b) PROVE KeyInv'
  <1>0. /\ secrets \in Nat /\ retired \subseteq Nat /\ NoSecret \notin Nat
        /\ issued \in [Boxes -> Secrets] /\ \A c \in Boxes : issued[c] \in Secrets
        /\ \A c \in Boxes : box[c].cipher \in Secrets
    BY NnfAssumption DEF NnfTypeOK, BoxType
  <1>1. CASE KeysKept
    BY <1>1 DEF KeyInv, KeysKept
  <1>2. CASE KeyTaken(b)
    BY <1>2 DEF KeyInv, KeyTaken, Connected
  <1>3. CASE GrRequest(b)
    <2>1. /\ secrets' = secrets + 1 /\ retired' = retired /\ box' = box
          /\ issued' = [issued EXCEPT ![b] = secrets + 1]
      BY <1>3 DEF GrRequest, Grant, FreshSecret
    <2>2. secrets + 1 \notin retired /\ secrets + 1 # NoSecret
      BY <1>0 DEF KeyInv
    <2>3. \A c \in Boxes : issued[c] # secrets + 1 /\ box[c].cipher # secrets + 1
      BY <1>0, <2>2 DEF KeyInv
    <2>4. \A k \in Nat : k <= secrets => k <= secrets'
      BY <1>0, <2>1
    <2>5. /\ \A k \in retired' : k <= secrets'
          /\ \A c \in Boxes :
                /\ issued'[c] # NoSecret => issued'[c] <= secrets' /\ issued'[c] \notin retired'
                /\ box'[c].cipher # NoSecret => box'[c].cipher <= secrets'
      <3>1. \A k \in retired' : k <= secrets'
        BY <1>0, <2>1, <2>4 DEF KeyInv
      <3>2. ASSUME NEW c \in Boxes, issued'[c] # NoSecret
            PROVE  issued'[c] <= secrets' /\ issued'[c] \notin retired'
        <4>1. CASE c = b
          BY <1>0, <2>1, <2>2, <4>1
        <4>2. CASE c # b
          <5>1. issued'[c] = issued[c] /\ issued[c] \in Nat
            BY <1>0, <2>1, <3>2, <4>2 DEF Secrets
          <5> QED
            BY <2>1, <2>4, <3>2, <5>1 DEF KeyInv
        <4> QED
          BY <4>1, <4>2
      <3>3. ASSUME NEW c \in Boxes, box'[c].cipher # NoSecret
            PROVE  box'[c].cipher <= secrets'
        <4>1. box[c].cipher \in Nat /\ box'[c] = box[c]
          BY <1>0, <2>1, <3>3 DEF Secrets
        <4> QED
          BY <2>4, <3>3, <4>1 DEF KeyInv
      <3> QED
        BY <3>1, <3>2, <3>3
    <2>6. \A c, d \in Boxes :
             c # d /\ issued'[c] # NoSecret =>
                issued'[c] # issued'[d] /\ issued'[c] # box'[d].cipher
      BY <1>0, <2>1, <2>3 DEF KeyInv
    <2> QED
      BY <2>1, <2>5, <2>6 DEF KeyInv, Connected
  <1>4. CASE Detach(b)
    <2>1. /\ issued' = [issued EXCEPT ![b] = NoSecret] /\ secrets' = secrets
          /\ retired' = retired \cup ({box[b].cipher} \ {NoSecret})
          /\ \A c \in Boxes \ {b} : box'[c] = box[c]
          /\ box'[b].cipher = NoSecret
      BY <1>4 DEF Detach, Forget, NnfTypeOK, BoxType
    <2>2. /\ issued'[b] = NoSecret
          /\ \A c \in Boxes \ {b} : issued'[c] = issued[c]
      BY <1>0, <2>1
    <2>3. \A c \in Boxes \ {b} :
             box[b].cipher # NoSecret => /\ issued[c] # box[b].cipher
                                         /\ box[c].cipher # box[b].cipher
      BY DEF KeyInv
    <2>4. \A k \in retired' : k <= secrets'
      BY <2>1 DEF KeyInv
    <2>5. \A c \in Boxes :
             /\ issued'[c] # NoSecret => issued'[c] <= secrets' /\ issued'[c] \notin retired'
             /\ box'[c].cipher # NoSecret =>
                   box'[c].cipher <= secrets' /\ box'[c].cipher \notin retired' /\ Connected(c)'
      BY <2>1, <2>2, <2>3 DEF KeyInv, Connected
    <2>6. \A c, d \in Boxes : c # d =>
             /\ issued'[c] # NoSecret => issued'[c] # issued'[d] /\ issued'[c] # box'[d].cipher
             /\ box'[c].cipher # NoSecret => box'[c].cipher # box'[d].cipher
      BY <2>1, <2>2 DEF KeyInv
    <2> QED
      BY <2>4, <2>5, <2>6 DEF KeyInv
  <1> QED
    BY <1>1, <1>2, <1>3, <1>4 DEF KeyEffect

----------------------------------------------------------------------------
(* Heartbeats *)

\* What BeatInv asks of one box and its member.
BeatOf(b) ==
    Connected(b) /\ ~member[b].eager =>
        \/ box[b].drops = 0 /\ member[b].beat >= Interval
        \/ box[b].beat >= member[b].beat

\* A step of a box keeps it of the box: a new connection starts without drops, and
\* the first heartbeat sets the member's age back but never the venue's beyond it.
LEMMA BeatOfBox == ASSUME NnfTypeOK, BeatInv, NEW b \in Boxes, BoxNext(b) PROVE BeatOf(b)'
  <1>0. /\ box[b] \in BoxType /\ member[b] \in MemberType
        /\ box \in [Boxes -> BoxType] /\ member \in [Boxes -> MemberType]
        /\ Interval \in Nat
    BY NnfAssumption DEF NnfTypeOK
  <1>b. BeatOf(b)
    BY DEF BeatInv, BeatOf
  <1>1. CASE Ends(b) \/ TurnedAway(b)
    <2>1. CASE Ends(b)
      BY <1>0, <2>1 DEF Ends, Detach, Connected, BoxType, BeatOf
    <2>2. CASE TurnedAway(b)
      <3>1. box' = [box EXCEPT ![b] = [Attached(box[b]) EXCEPT !.state = "DISCONNECTED"]]
        BY <2>2 DEF TurnedAway
      <3> QED
        BY <1>0, <3>1, BoxFields DEF Connected, BeatOf
    <2> QED
      BY <1>1, <2>1, <2>2
  <1>2. CASE Opens(b)
    <2>1. box' = [box EXCEPT ![b] = Registered(Attached(box[b]), issued[b])]
      BY <1>2 DEF Opens
    <2>2. box'[b].drops = 0
      BY <1>0, <2>1, BoxFields
    <2>3. member'[b].beat = Interval
      BY <1>0, <1>2 DEF Opens, Attach, MemberType
    <2> QED
      BY <1>0, <2>2, <2>3 DEF BeatOf
  <1>6. CASE OpensInClear(b)
    <2>1. box' = [box EXCEPT ![b] = SignedOn(Attached(box[b]))]
      BY <1>6 DEF OpensInClear
    <2>2. box'[b].drops = 0
      BY <1>0, <2>1, BoxFields
    <2>3. member'[b].beat = Interval
      BY <1>0, <1>6 DEF OpensInClear, Attach, MemberType
    <2> QED
      BY <1>0, <2>2, <2>3 DEF BeatOf
  <1>3. CASE OpensAgain(b) \/ Hears(b)
    <2>1. /\ box'[b].drops = box[b].drops /\ box'[b].beat = box[b].beat
      <3>1. \/ box' = [box EXCEPT ![b] = Registered(Heard(box[b]), issued[b])]
            \/ box' = [box EXCEPT ![b] = SignedOn(Heard(box[b]))]
            \/ box' = [box EXCEPT ![b] = Heard(box[b])]
        BY <1>3 DEF OpensAgain, Hears
      <3> QED
        BY <1>0, <3>1, BoxFields
    <2>2. /\ member'[b].eager = member[b].eager /\ member'[b].beat = member[b].beat
      BY <1>0, <1>3 DEF OpensAgain, Hears, MemberType
    <2>3. Connected(b)
      BY <1>3 DEF OpensAgain, Hears, Readable
    <2> QED
      BY <1>b, <2>1, <2>2, <2>3 DEF BeatOf
  <1>4. CASE GrRequest(b) \/ ConnectionBreaks(b)
    <2>1. /\ box' = box
          /\ member'[b].eager = member[b].eager /\ member'[b].beat = member[b].beat
      BY <1>0, <1>4 DEF GrRequest, ConnectionBreaks, MemberType
    <2> QED
      BY <1>b, <2>1 DEF BeatOf, Connected
  <1>5. CASE Heartbeat(b)
    <2>1. box' = [box EXCEPT ![b] = Beaten(box[b], Early(b))] /\ Early(b) \in BOOLEAN
      BY <1>5 DEF Heartbeat, Early
    <2>2. box'[b].beat \in {box[b].beat, 0}
      BY <1>0, <2>1, BoxFields
    <2>3. member'[b].beat = 0
      BY <1>0, <1>5 DEF Heartbeat, MemberType
    <2> QED
      BY <1>0, <2>2, <2>3 DEF BeatOf, BoxType
  <1> QED
    BY <1>1, <1>2, <1>3, <1>4, <1>5, <1>6 DEF BoxNext

\* It leaves the other boxes and their members alone.
LEMMA OtherBoxes ==
    ASSUME NnfTypeOK, NEW b \in Boxes, BoxNext(b)
    PROVE  \A c \in Boxes \ {b} : /\ box'[c] = box[c] /\ member'[c] = member[c]
                                  /\ users'[c] = users[c]
  BY DEF NnfTypeOK, BoxNext, Ends, Detach, Opens, OpensInClear, Attach, OpensAgain, TurnedAway, Hears,
         GrRequest, ConnectionBreaks, Heartbeat

\* Users change no ages and no members.
LEMMA UserAges ==
    ASSUME NnfTypeOK, NEW u \in Users, UserNext(u)
    PROVE  /\ member' = member
           /\ \A c \in Boxes : /\ box'[c].drops = box[c].drops /\ box'[c].beat = box[c].beat
                               /\ box'[c].state = box[c].state
  <1>1. member' = member
    BY DEF UserNext, Joins, SignOnUser, LeavesWithReply, LeavesAtOnce, SignOff, Asks,
           Reports, boxVars
  <1>2. box' = box \/ box' = [box EXCEPT ![BoxOf[u]] = Heard(box[BoxOf[u]])]
    BY DEF UserNext, Joins, LeavesWithReply, LeavesAtOnce, Asks, Reports, boxVars
  <1>3. box \in [Boxes -> BoxType]
    BY DEF NnfTypeOK
  <1> QED
    BY <1>1, <1>2, <1>3, UserBox, BoxFields

\* Time ages the venue's view of a heartbeat no slower than the member's.
LEMMA PassTimeFacts ==
    ASSUME NnfTypeOK, PassTime, NEW b \in Boxes
    PROVE  /\ box'[b].drops = box[b].drops /\ box'[b].state = box[b].state
           /\ box'[b].beat = Older(box[b].beat, Interval)
           /\ member'[b].beat = Older(member[b].beat, Interval)
           /\ member'[b].eager = member[b].eager /\ member'[b].broken = member[b].broken
  BY DEF NnfTypeOK, PassTime, BoxType, MemberType

\* So every step keeps the invariant of the heartbeats.
LEMMA BeatStep == NnfTypeOK /\ BeatInv /\ [NnfNext]_nnfVars => BeatInv'
  <1> SUFFICES ASSUME NnfTypeOK, BeatInv, [NnfNext]_nnfVars, NEW c \in Boxes
               PROVE  BeatOf(c)'
    BY DEF BeatInv, BeatOf
  <1>0. BeatOf(c) /\ box[c] \in BoxType /\ member[c] \in MemberType
    BY DEF BeatInv, BeatOf, NnfTypeOK
  <1>1. ASSUME NEW b \in Boxes, BoxNext(b) PROVE BeatOf(c)'
    <2>1. CASE b = c
      BY <1>1, <2>1, BeatOfBox
    <2>2. CASE b # c
      BY <1>0, <1>1, <2>2, OtherBoxes DEF BeatOf, Connected
    <2> QED
      BY <2>1, <2>2
  <1>2. ASSUME NEW u \in Users, UserNext(u) PROVE BeatOf(c)'
    BY <1>0, <1>2, UserAges DEF BeatOf, Connected
  <1>3. CASE PassTime
    <2>1. \A x, y \in Nat : x >= y => Older(x, Interval) >= Older(y, Interval)
      BY NnfAssumption DEF Older
    <2>2. \A x \in Nat : x >= Interval => Older(x, Interval) >= Interval
      BY NnfAssumption DEF Older
    <2> QED
      BY <1>0, <1>3, <2>1, <2>2, PassTimeFacts DEF BeatOf, Connected, BoxType, MemberType
  <1>4. CASE UNCHANGED nnfVars
    BY <1>0, <1>4 DEF nnfVars, boxVars, BeatOf, Connected
  <1> QED
    BY <1>1, <1>2, <1>3, <1>4 DEF NnfNext

----------------------------------------------------------------------------
(* Who is signed on *)

\* Every step keeps sessions and boxes in agreement about who is signed on.
LEMMA SignedOnStep ==
    NnfTypeOK /\ SignedOnInv /\ [NnfNext]_nnfVars => SignedOnInv'
  <1> SUFFICES ASSUME NnfTypeOK, SignedOnInv, [NnfNext]_nnfVars PROVE SignedOnInv'
    OBVIOUS
  <1>0. /\ box \in [Boxes -> BoxType] /\ users \in [Boxes -> SUBSET Users]
        /\ sessions \subseteq Users
    BY DEF NnfTypeOK
  <1>s. ASSUME UNCHANGED << users, sessions >>,
               \A c \in Boxes : Connected(c) => Connected(c)'
        PROVE  SignedOnInv'
    BY <1>s DEF SignedOnInv, LoggedOn
  <1>1. ASSUME NEW b \in Boxes, BoxNext(b) PROVE SignedOnInv'
    <2>1. CASE Ends(b)
      <3>1. /\ users' = [users EXCEPT ![b] = {}] /\ sessions' = sessions \ users[b]
            /\ \A c \in Boxes \ {b} : box'[c] = box[c]
        BY <1>0, <2>1 DEF Ends, Detach
      <3>2. \A u \in Users : u \in users[b] => BoxOf[u] = b
        BY DEF SignedOnInv
      <3>3. \A u \in Users : LoggedOn(u)' <=> u \in sessions'
        BY <1>0, <3>1, <3>2, UserBox DEF SignedOnInv, LoggedOn
      <3> QED
        BY <1>0, <3>1, <3>3 DEF SignedOnInv, Connected
    <2>2. CASE ~Ends(b)
      <3>1. UNCHANGED << users, sessions >>
        BY <1>1, <2>2 DEF BoxNext, Opens, OpensInClear, OpensAgain, TurnedAway, Hears,
                          GrRequest, ConnectionBreaks, Heartbeat
      <3>2. Connected(b) => Connected(b)'
        <4>1. \/ box'[b].state \in {box[b].state, "ACTIVE", "AWAITING_BOX_SIGN_ON"}
              \/ TurnedAway(b)
          <5>1. \/ box' = [box EXCEPT ![b] = Registered(Attached(box[b]), issued[b])]
                \/ box' = [box EXCEPT ![b] = Registered(Heard(box[b]), issued[b])]
                \/ box' = [box EXCEPT ![b] = SignedOn(Attached(box[b]))]
                \/ box' = [box EXCEPT ![b] = SignedOn(Heard(box[b]))]
                \/ box' = [box EXCEPT ![b] = Heard(box[b])]
                \/ box' = [box EXCEPT ![b] = Beaten(box[b], Early(b))]
                \/ box' = box
                \/ TurnedAway(b)
            BY <1>1, <2>2 DEF BoxNext, Opens, OpensInClear, OpensAgain, Hears, GrRequest,
                              ConnectionBreaks, Heartbeat
          <5>2. Early(b) \in BOOLEAN
            BY DEF Early
          <5> QED
            BY <1>0, <5>1, <5>2, BoxFields
        <4>2. TurnedAway(b) => ~Connected(b)
          BY DEF TurnedAway
        <4> QED
          BY <4>1, <4>2 DEF Connected
      <3> QED
        BY <1>1, <1>s, <3>1, <3>2, OtherBoxes DEF Connected
    <2> QED
      BY <2>1, <2>2
  <1>2. ASSUME NEW u \in Users, UserNext(u) PROVE SignedOnInv'
    <2> DEFINE b == BoxOf[u]
    <2>0. b \in Boxes
      BY UserBox
    <2>1. \A c \in Boxes : Connected(c) <=> Connected(c)'
      BY <1>2, UserAges DEF Connected
    <2>2. CASE \E c \in Boxes : Joins(c, u)
      <3>1. Joins(b, u)
        BY <2>2 DEF Joins
      <3>2. /\ users' = [users EXCEPT ![b] = users[b] \cup {u}]
            /\ sessions' = sessions \cup {u} /\ Connected(b)
        BY <3>1 DEF Joins, SignOnUser, Readable
      <3>3. \A c \in Boxes : users'[c] = IF c = b THEN users[c] \cup {u} ELSE users[c]
        BY <1>0, <2>0, <3>2
      <3> QED
        BY <2>0, <2>1, <3>2, <3>3, UserBox DEF SignedOnInv, LoggedOn
    <2>3. CASE LeavesWithReply(u) \/ LeavesAtOnce(u)
      <3>1. /\ users' = [users EXCEPT ![b] = users[b] \ {u}]
            /\ sessions' = sessions \ {u}
        BY <2>3 DEF LeavesWithReply, LeavesAtOnce, SignOff
      <3>2. \A c \in Boxes : users'[c] = IF c = b THEN users[c] \ {u} ELSE users[c]
        BY <1>0, <2>0, <3>1
      <3> QED
        BY <2>0, <2>1, <3>1, <3>2, UserBox DEF SignedOnInv, LoggedOn
    <2>4. CASE Asks(u)
      <3>1. users' = users /\ sessions' = sessions
        BY <2>4 DEF Asks, SignedOnInv, LoggedOn
      <3> QED
        BY <1>s, <2>1, <3>1
    <2>5. CASE Reports(u)
      BY <1>s, <2>5 DEF Reports, boxVars, Connected
    <2> QED
      BY <1>2, <2>2, <2>3, <2>4, <2>5 DEF UserNext
  <1>3. CASE PassTime
    BY <1>3, <1>s, PassTimeFacts DEF PassTime, Connected
  <1>4. CASE UNCHANGED nnfVars
    BY <1>4, <1>s DEF nnfVars, boxVars, Connected
  <1> QED
    BY <1>1, <1>2, <1>3, <1>4 DEF NnfNext

----------------------------------------------------------------------------
(* Recovery *)

\* Nothing happens to what the user misses, nor to the ring.
LEMMA RecoveryKept ==
    ASSUME NnfTypeOK, NnfTypeOK', NEW u \in Users, RecoveryOf(u),
           last <= last', records'[u] = records[u],
           inbox'[u].missing = inbox[u].missing, inbox'[u].lost = inbox[u].lost,
           inbox'[u].cursor = inbox[u].cursor,
           inbox'[u].synced => inbox[u].synced /\ LoggedOn(u)',
           inbox'[u].synced /\ member[BoxOf[u]].broken => member'[BoxOf[u]].broken
    PROVE  RecoveryOf(u)'
  <1>0. /\ last \in Nat /\ last' \in Nat /\ inbox[u] \in InboxType
        /\ records[u] \in Seq(Nat)
    BY DEF NnfTypeOK
  <1>1. RingInv(records[u])'
    <2>1. \A i \in 1..Len(records[u]) : records[u][i] \in Nat
      BY <1>0
    <2> QED
      BY <1>0, <2>1 DEF RecoveryOf, RingInv
  <1>2. Recoverable(records[u], inbox[u])'
    BY DEF RecoveryOf, Recoverable
  <1>3. (inbox[u].cursor <= last)'
    BY <1>0 DEF RecoveryOf, InboxType
  <1>4. /\ (inbox[u].synced => LoggedOn(u))'
        /\ (inbox[u].synced /\ ~member[BoxOf[u]].broken => inbox[u].missing \subseteq inbox[u].lost)'
    BY DEF RecoveryOf
  <1> QED
    BY <1>1, <1>2, <1>3, <1>4 DEF RecoveryOf

\* A report is filed, and missed unless it reaches the user.
LEMMA RecoveryFiled ==
    ASSUME NnfTypeOK, NnfTypeOK', NEW u \in Users, RecoveryOf(u), NEW reaches \in BOOLEAN,
           last < last', records'[u] = Recorded(records[u], last'),
           inbox'[u].missing = Noted(inbox[u], last', reaches).missing,
           inbox'[u].lost = inbox[u].lost,
           inbox'[u].cursor = Noted(inbox[u], last', reaches).cursor,
           inbox'[u].synced => inbox[u].synced /\ LoggedOn(u)',
           reaches => ~member[BoxOf[u]].broken,
           inbox'[u].synced /\ ~member[BoxOf[u]].broken => reaches,
           member' = member
    PROVE  RecoveryOf(u)'
  <1> DEFINE ring == records[u]
             new == Recorded(ring, last')
             in == inbox[u]
             in2 == inbox'[u]
  <1>0. /\ last \in Nat /\ last' \in Nat /\ in \in InboxType /\ ring \in Seq(Nat)
        /\ in.missing \subseteq Nat /\ in.cursor \in Nat
    BY DEF NnfTypeOK, InboxType
  <1>1. RingInv(ring) /\ in.cursor <= last /\ Recoverable(ring, in)
    BY DEF RecoveryOf
  <1>2. /\ new \in Seq(Nat) /\ Len(new) <= Capacity
        /\ \A i, j \in 1..Len(new) : i < j => new[i] < new[j]
        /\ \A i \in 1..Len(new) : new[i] <= last'
        /\ \E i \in 1..Len(new) : new[i] = last'
        /\ \A i \in 1..Len(ring) : \/ \E j \in 1..Len(new) : new[j] = ring[i]
                                   \/ Len(new) = Capacity /\ ring[i] < new[1]
        /\ Len(ring) = Capacity => Len(new) = Capacity /\ ring[1] < new[1]
    BY <1>0, <1>1, RecordedFacts DEF RingInv
  <1>3. /\ in2.missing = (IF reaches THEN in.missing ELSE in.missing \cup {last'})
        /\ in2.lost = in.lost
        /\ in2.cursor = (IF reaches /\ in.synced THEN last' ELSE in.cursor)
    <2>1. inbox[u] \in InboxType /\ last' \in Nat
      BY <1>0
    <2>2. /\ Noted(inbox[u], last', reaches).missing =
               (IF reaches THEN inbox[u].missing ELSE inbox[u].missing \cup {last'})
          /\ Noted(inbox[u], last', reaches).cursor =
               (IF reaches /\ inbox[u].synced THEN last' ELSE inbox[u].cursor)
      BY <2>1 DEF InboxType, Noted
    <2> QED
      BY <2>2
  <1>4. reaches /\ in.synced => in.missing \subseteq in.lost
    BY DEF RecoveryOf
  <1> HIDE DEF new
  <1>5. RingInv(records[u])'
    BY <1>2 DEF RingInv, new
  <1>6. in2.cursor <= last'
    BY <1>0, <1>1, <1>3
  <1>7. ASSUME NEW m \in in2.missing \ in2.lost
        PROVE  /\ in2.cursor < m
               /\ \/ \E i \in 1..Len(new) : new[i] = m
                  \/ Len(new) = Capacity /\ m < new[1]
    <2>1. CASE m \in in.missing
      <3>1. m \in in.missing \ in.lost /\ m \in Nat
        BY <1>0, <1>3, <1>7, <2>1
      <3>2. in2.cursor = in.cursor
        BY <1>3, <1>4, <3>1
      <3>3. /\ in.cursor < m
            /\ \/ \E i \in 1..Len(ring) : ring[i] = m
               \/ Len(ring) = Capacity /\ m < ring[1]
        BY <1>1, <3>1 DEF Recoverable
      <3>4. CASE \E i \in 1..Len(ring) : ring[i] = m
        BY <1>2, <3>2, <3>3, <3>4
      <3>5. CASE Len(ring) = Capacity /\ m < ring[1]
        <4>1. ring[1] \in Nat /\ new[1] \in Nat
          BY <1>0, <1>2, <3>5, NnfAssumption
        <4>2. m < new[1]
          BY <1>2, <3>1, <3>5, <4>1
        <4> QED
          BY <1>2, <3>2, <3>3, <3>5, <4>2
      <3> QED
        BY <3>3, <3>4, <3>5
    <2>2. CASE m \notin in.missing
      <3>1. m = last' /\ ~reaches
        BY <1>3, <1>7, <2>2
      <3> QED
        BY <1>0, <1>1, <1>2, <1>3, <3>1
    <2> QED
      BY <2>1, <2>2
  <1>8. Recoverable(records[u], inbox[u])'
    BY <1>7 DEF Recoverable, new
  <1>9. in2.synced /\ ~member'[BoxOf[u]].broken => in2.missing \subseteq in2.lost
    BY <1>3, <1>4
  <1> QED
    BY <1>5, <1>6, <1>8, <1>9 DEF RecoveryOf

\* A download: what the ring still holds is recovered, and the store says that the
\* rest is lost.
LEMMA RecoveryDownloaded ==
    ASSUME NnfTypeOK, NEW u \in Users, RecoveryOf(u), LoggedOn(u)',
           last' = last, records' = records, member' = member,
           inbox' = [inbox EXCEPT ![u] = [Downloaded(u) EXCEPT !.lost = @ \cup LostTo(u)]]
    PROVE  RecoveryOf(u)'
  <1> DEFINE ring == records[u]
             in == inbox[u]
             in2 == inbox'[u]
  <1>0. /\ last \in Nat /\ in \in InboxType /\ ring \in Seq(Nat) /\ Len(ring) \in Nat
        /\ in.missing \subseteq Nat /\ in.cursor \in Nat /\ Capacity \in Nat \ {0}
    BY NnfAssumption DEF NnfTypeOK, InboxType
  <1>1. /\ RingInv(ring) /\ in.cursor <= last /\ Recoverable(ring, in)
    BY DEF RecoveryOf
  <1>2. /\ in2.missing = {m \in in.missing :
                             ~\E i \in 1..Len(ring) : ring[i] = m /\ m > in.cursor}
        /\ in2.lost = in.lost \cup LostTo(u)
        /\ in2.cursor = in.cursor \/ \E i \in 1..Len(ring) : in2.cursor = ring[i]
        /\ in2.synced
    <2> DEFINE new == [Downloaded(u) EXCEPT !.lost = @ \cup LostTo(u)]
    <2>1. in2 = new
      BY DEF NnfTypeOK
    <2>2. /\ new.missing = {m \in in.missing :
                               ~\E i \in 1..Len(ring) : ring[i] = m /\ m > in.cursor}
          /\ new.lost = in.lost \cup LostTo(u)
          /\ new.cursor = in.cursor \/ \E i \in 1..Len(ring) : new.cursor = ring[i]
          /\ new.synced
      BY Zenon, DownloadFacts
    <2> HIDE DEF in2, new
    <2> QED
      BY <2>1, <2>2, Zenon
  <1>3. in2.cursor <= last
    BY <1>1, <1>2 DEF RingInv
  <1>4. in2.missing \subseteq in2.lost
    <2> SUFFICES ASSUME NEW m \in in2.missing, m \notin in.lost PROVE m \in LostTo(u)
      BY <1>2
    <2>1. /\ m \in in.missing \ in.lost /\ m \in Nat
          /\ ~\E i \in 1..Len(ring) : ring[i] = m /\ m > in.cursor
      BY <1>0, <1>2
    <2>2. in.cursor < m /\ Len(ring) = Capacity /\ m < ring[1]
      BY <1>0, <1>1, <2>1 DEF Recoverable
    <2>3. /\ ring # << >> /\ Head(ring) = ring[1] /\ ring[1] \in Nat
      BY <1>0, <2>2
    <2>4. in.cursor < Head(ring)
      BY <1>0, <2>1, <2>2, <2>3
    <2> QED
      BY <2>1, <2>2, <2>3, <2>4 DEF LostTo, Truncated
  <1>5. Recoverable(ring, in2)
    BY <1>4 DEF Recoverable
  <1> QED
    BY <1>1, <1>2, <1>3, <1>4, <1>5 DEF RecoveryOf, RingInv

\* Whoever a report is for, the others' rings and inboxes stay.
LEMMA OthersKept ==
    ASSUME NnfTypeOK, NEW u \in Users, NEW v \in Users, u # v,
           SendTo(u) \/ Retain(u) \/ LeavesWithReply(u)
    PROVE  inbox'[v] = inbox[v] /\ records'[v] = records[v]
  BY DEF NnfTypeOK, SendTo, Retain, LeavesWithReply

\* A report sent to a user or filed for one who is away, and a reply that goes with
\* the user's sign-off.
LEMMA RecoveryReported ==
    ASSUME NnfTypeOK, NnfTypeOK', SignedOnInv, NEW u \in Users, RecoveryOf(u),
           SendTo(u) \/ (Retain(u) /\ u \notin sessions), member' = member,
           LoggedOn(u) => LoggedOn(u)'
    PROVE  RecoveryOf(u)'
  <1>0. /\ last \in Nat /\ inbox[u] \in InboxType
        /\ inbox \in [Users -> InboxType] /\ records \in [Users -> Seq(Nat)]
    BY DEF NnfTypeOK
  <1>1. /\ \E now \in Clock : Stamped(now)
        /\ records' = [records EXCEPT ![u] = Recorded(records[u], last')]
    BY DEF SendTo, Retain
  <1>2. last' \in Nat /\ last < last'
    BY <1>0, <1>1, StampFacts
  <1>3. records'[u] = Recorded(records[u], last')
    BY <1>0, <1>1
  <1>4. inbox[u].synced => LoggedOn(u) /\ Connected(BoxOf[u])
    BY UserBox DEF RecoveryOf, SignedOnInv, LoggedOn
  <1>5. ASSUME NEW reaches \in BOOLEAN,
               inbox' = [inbox EXCEPT ![u] = Noted(inbox[u], last', reaches)],
               reaches => ~member[BoxOf[u]].broken,
               inbox[u].synced /\ ~member[BoxOf[u]].broken => reaches
        PROVE  RecoveryOf(u)'
    <2>1. inbox'[u] = Noted(inbox[u], last', reaches)
      BY <1>0, <1>5
    <2>2. inbox'[u].lost = inbox[u].lost /\ inbox'[u].synced = inbox[u].synced
      BY <1>0, <2>1 DEF Noted, InboxType
    <2> QED
      BY <1>2, <1>3, <1>4, <1>5, <2>1, <2>2, RecoveryFiled
  <1>6. CASE SendTo(u)
    <2>1. inbox' = [inbox EXCEPT ![u] = Noted(inbox[u], last', Reaches(u))]
      BY <1>6 DEF SendTo
    <2>2. Reaches(u) \in BOOLEAN /\ (Reaches(u) => ~member[BoxOf[u]].broken)
      BY DEF Reaches
    <2>3. inbox[u].synced /\ ~member[BoxOf[u]].broken => Reaches(u)
      BY <1>4 DEF Reaches
    <2> HIDE DEF Reaches
    <2> QED
      BY <1>5, <2>1, <2>2, <2>3
  <1>7. CASE Retain(u) /\ u \notin sessions
    <2>1. inbox' = [inbox EXCEPT ![u] = Noted(inbox[u], last', FALSE)]
      BY <1>7 DEF Retain
    <2>2. ~inbox[u].synced
      BY <1>4, <1>7 DEF SignedOnInv
    <2> QED
      BY <1>5, <2>1, <2>2
  <1> QED
    BY <1>6, <1>7

\* Every step keeps what the members can recover.
LEMMA RecoveryStep ==
    NnfTypeOK /\ NnfTypeOK' /\ SignedOnInv /\ RecoveryInv /\ [NnfNext]_nnfVars
        => RecoveryInv'
  <1> SUFFICES ASSUME NnfTypeOK, NnfTypeOK', SignedOnInv, RecoveryInv,
                      [NnfNext]_nnfVars, NEW v \in Users
               PROVE  RecoveryOf(v)'
    BY DEF RecoveryInv, RecoveryOf
  <1>0. /\ RecoveryOf(v) /\ BoxOf[v] \in Boxes /\ last \in Nat /\ last <= last
        /\ inbox[v] \in InboxType
        /\ inbox \in [Users -> InboxType] /\ records \in [Users -> Seq(Nat)]
        /\ users \in [Boxes -> SUBSET Users] /\ member \in [Boxes -> MemberType]
    BY UserBox DEF RecoveryInv, RecoveryOf, NnfTypeOK
  <1>1. ASSUME NEW b \in Boxes, BoxNext(b) PROVE RecoveryOf(v)'
    <2>1. CASE Ends(b)
      <3>1. inbox' = Unsynced(users[b]) /\ records' = records /\ last' = last
        BY <2>1 DEF Ends
      <3>2. /\ inbox'[v].missing = inbox[v].missing /\ inbox'[v].lost = inbox[v].lost
            /\ inbox'[v].cursor = inbox[v].cursor
            /\ inbox'[v].synced = (v \notin users[b] /\ inbox[v].synced)
        BY <3>1, UnsyncedFacts
      <3>3. BoxOf[v] # b => users'[BoxOf[v]] = users[BoxOf[v]]
                            /\ member'[BoxOf[v]] = member[BoxOf[v]]
        BY <1>0, <1>1, OtherBoxes
      <3>4. inbox'[v].synced => inbox[v].synced /\ BoxOf[v] # b /\ LoggedOn(v)'
        BY <1>0, <3>2, <3>3 DEF RecoveryOf, LoggedOn
      <3> QED
        BY <1>0, <3>1, <3>2, <3>3, <3>4, RecoveryKept
    <2>2. CASE ~Ends(b)
      <3>1. UNCHANGED << users, inbox, records, last >>
        BY <1>1, <2>2 DEF BoxNext, Opens, OpensInClear, OpensAgain, TurnedAway, Hears,
                          GrRequest, ConnectionBreaks, Heartbeat, storeVars
      <3>2. member[BoxOf[v]].broken => member'[BoxOf[v]].broken
        <4>0. member[b] \in MemberType
          BY <1>0
        <4>1. member[b].broken => member'[b].broken
          <5>1. CASE Opens(b)
            BY <1>0, <4>0, <5>1 DEF Opens, Attach, MemberType
          <5>2. CASE OpensAgain(b)
            BY <1>0, <4>0, <5>2 DEF OpensAgain, MemberType
          <5>3. CASE TurnedAway(b) \/ Hears(b)
            BY <5>3 DEF TurnedAway, Hears
          <5>4. CASE GrRequest(b)
            BY <1>0, <4>0, <5>4 DEF GrRequest, MemberType
          <5>5. CASE ConnectionBreaks(b)
            BY <1>0, <4>0, <5>5 DEF ConnectionBreaks, MemberType
          <5>6. CASE Heartbeat(b)
            BY <1>0, <4>0, <5>6 DEF Heartbeat, MemberType
          <5>7. CASE OpensInClear(b)
            BY <1>0, <4>0, <5>7 DEF OpensInClear, Attach, MemberType
          <5> QED
            BY <1>1, <2>2, <5>1, <5>2, <5>3, <5>4, <5>5, <5>6, <5>7 DEF BoxNext
        <4> QED
          BY <1>0, <1>1, <4>1, OtherBoxes
      <3> QED
        BY <1>0, <3>1, <3>2, RecoveryKept DEF RecoveryOf, LoggedOn
    <2> QED
      BY <2>1, <2>2
  <1>2. ASSUME NEW u \in Users, UserNext(u) PROVE RecoveryOf(v)'
    <2>0. member' = member
      BY <1>2, UserAges
    <2>1. CASE (\E b \in Boxes : Joins(b, u)) \/ Asks(u) \/ Reports(u)
      <3>1. \A w \in Users : LoggedOn(w) => LoggedOn(w)'
        <4>1. CASE \E b \in Boxes : Joins(b, u)
          <5>1. PICK b \in Boxes : users' = [users EXCEPT ![b] = users[b] \cup {u}]
            BY <4>1 DEF Joins, SignOnUser
          <5>2. \A c \in Boxes : users[c] \subseteq users'[c]
            BY <1>0, <5>1
          <5> QED
            BY <5>2, UserBox DEF LoggedOn
        <4>2. CASE Asks(u) \/ Reports(u)
          <5>1. users' = users
            BY <4>2 DEF Asks, Reports, boxVars
          <5> QED
            BY <5>1 DEF LoggedOn
        <4> QED
          BY <2>1, <4>1, <4>2
      <3>2. CASE SendTo(u) \/ (Retain(u) /\ u \notin sessions)
        <4>1. CASE u = v
          BY <1>0, <2>0, <3>1, <3>2, <4>1, RecoveryReported
        <4>2. CASE u # v
          <5>1. inbox'[v] = inbox[v] /\ records'[v] = records[v]
            BY <3>2, <4>2, OthersKept
          <5>2. \E now \in Clock : Stamped(now)
            BY <3>2 DEF SendTo, Retain
          <5>3. last <= last'
            BY <1>0, <5>2, StampFacts
          <5> QED
            BY <1>0, <2>0, <3>1, <5>1, <5>3, RecoveryKept DEF RecoveryOf
        <4> QED
          BY <4>1, <4>2
      <3>3. CASE UNCHANGED storeVars
        BY <1>0, <2>0, <3>1, <3>3, RecoveryKept DEF storeVars, RecoveryOf
      <3>4. CASE /\ Asks(u)
                 /\ inbox' = [inbox EXCEPT ![u] =
                                 [Downloaded(u) EXCEPT !.lost = @ \cup LostTo(u)]]
                 /\ UNCHANGED << records, last >>
        <4>1. CASE u = v
          <5>1. LoggedOn(u)'
            BY <3>1, <3>4 DEF Asks
          <5> QED
            BY <1>0, <2>0, <3>4, <4>1, <5>1, RecoveryDownloaded
        <4>2. CASE u # v
          <5>1. inbox'[v] = inbox[v]
            BY <1>0, <3>4, <4>2
          <5> QED
            BY <1>0, <2>0, <3>1, <3>4, <5>1, RecoveryKept DEF RecoveryOf
        <4> QED
          BY <4>1, <4>2
      <3> QED
        BY <2>1, <3>2, <3>3, <3>4 DEF Joins, Asks, Reports
    <2>2. CASE LeavesWithReply(u) \/ LeavesAtOnce(u)
      <3>0. \A w \in Users : w # u /\ LoggedOn(w) => LoggedOn(w)'
        <4>1. users' = [users EXCEPT ![BoxOf[u]] = users[BoxOf[u]] \ {u}]
          BY <2>2 DEF LeavesWithReply, LeavesAtOnce, SignOff
        <4>2. \A c \in Boxes : users[c] \ {u} \subseteq users'[c]
          BY <1>0, <4>1
        <4> QED
          BY <4>2, UserBox DEF LoggedOn
      <3>1. CASE LeavesAtOnce(u)
        <4>1. inbox' = Unsynced({u}) /\ records' = records /\ last' = last
          BY <3>1 DEF LeavesAtOnce
        <4>2. /\ inbox'[v].missing = inbox[v].missing /\ inbox'[v].lost = inbox[v].lost
              /\ inbox'[v].cursor = inbox[v].cursor
              /\ inbox'[v].synced = (v \notin {u} /\ inbox[v].synced)
          BY <4>1, UnsyncedFacts
        <4> QED
          BY <1>0, <2>0, <3>0, <4>1, <4>2, RecoveryKept DEF RecoveryOf
      <3>2. CASE LeavesWithReply(u)
        <4>0. /\ \E now \in Clock : Stamped(now)
              /\ records' = [records EXCEPT ![u] = Recorded(records[u], last')]
              /\ inbox' = [inbox EXCEPT ![u] = [Noted(inbox[u], last', Reaches(u))
                                                    EXCEPT !.synced = FALSE]]
          BY <3>2 DEF LeavesWithReply
        <4>s. last' \in Nat /\ last < last'
          BY <1>0, <4>0, StampFacts
        <4>1. CASE u = v
          <5>1. Reaches(v) \in BOOLEAN /\ (Reaches(v) => ~member[BoxOf[v]].broken)
            BY DEF Reaches
          <5>2. /\ inbox'[v] = [Noted(inbox[v], last', Reaches(v)) EXCEPT !.synced = FALSE]
                /\ records'[v] = Recorded(records[v], last')
            BY <1>0, <4>0, <4>1
          <5>3. Noted(inbox[v], last', Reaches(v)) \in InboxType
            BY <1>0, <4>s, <5>1, NotedFacts
          <5>4. /\ inbox'[v].missing = Noted(inbox[v], last', Reaches(v)).missing
                /\ inbox'[v].cursor = Noted(inbox[v], last', Reaches(v)).cursor
                /\ inbox'[v].lost = Noted(inbox[v], last', Reaches(v)).lost
                /\ ~inbox'[v].synced
            BY <5>2, <5>3 DEF InboxType
          <5>5. Noted(inbox[v], last', Reaches(v)).lost = inbox[v].lost
            BY <1>0 DEF Noted, InboxType
          <5> QED
            BY <1>0, <2>0, <4>s, <5>1, <5>2, <5>4, <5>5, RecoveryFiled
        <4>2. CASE u # v
          <5>1. inbox'[v] = inbox[v] /\ records'[v] = records[v]
            BY <3>2, <4>2, OthersKept
          <5>2. last <= last'
            BY <1>0, <4>s
          <5> QED
            BY <1>0, <2>0, <3>0, <4>2, <5>1, <5>2, RecoveryKept DEF RecoveryOf
        <4> QED
          BY <4>1, <4>2
      <3> QED
        BY <2>2, <3>1, <3>2
    <2> QED
      BY <1>2, <2>1, <2>2 DEF UserNext
  <1>3. CASE PassTime
    <2>1. UNCHANGED << users, inbox, records, last >>
      BY <1>3 DEF PassTime, storeVars
    <2> QED
      BY <1>0, <1>3, <2>1, PassTimeFacts, RecoveryKept DEF RecoveryOf, LoggedOn
  <1>4. CASE UNCHANGED nnfVars
    BY <1>0, <1>4, RecoveryKept DEF nnfVars, boxVars, storeVars, RecoveryOf, LoggedOn
  <1> QED
    BY <1>1, <1>2, <1>3, <1>4 DEF NnfNext

----------------------------------------------------------------------------
(* Together *)

\* Nothing is connected, issued or missed before the first packet.
LEMMA NnfInitInv == NnfInit => NnfInv
  <1> SUFFICES ASSUME NnfInit PROVE NnfInv
    OBVIOUS
  <1>0. NoSecret \in Secrets /\ Interval \in Nat /\ Capacity \in Nat /\ Capacity # 0
    BY NnfAssumption DEF Secrets
  <1>1. NewBox \in BoxType
    BY <1>0 DEF NewBox, BoxType, BoxStates
  <1>2. box \in [Boxes -> BoxType]
    BY <1>1 DEF NnfInit
  <1>3. NnfTypeOK
    BY <1>0, <1>2 DEF NnfInit, NnfTypeOK, MemberType, InboxType
  <1>4. KeyInv
    BY DEF NnfInit, KeyInv, NewBox
  <1>5. BeatInv
    BY DEF NnfInit, BeatInv, NewBox, Connected
  <1>6. SignedOnInv
    BY UserBox DEF NnfInit, SignedOnInv, LoggedOn
  <1>7. RecoveryInv
    <2> SUFFICES ASSUME NEW u \in Users PROVE RecoveryOf(u)
      BY DEF RecoveryInv, RecoveryOf
    <2>1. /\ records[u] = << >> /\ Len(records[u]) = 0 /\ last = 0
          /\ inbox[u] = [missing |-> {}, lost |-> {}, cursor |-> 0, synced |-> FALSE]
      BY DEF NnfInit
    <2> QED
      BY <1>0, <2>1 DEF RecoveryOf, RingInv, Recoverable
  <1> QED
    BY <1>3, <1>4, <1>5, <1>6, <1>7 DEF NnfInv

\* Every step of the layer keeps its invariant.
LEMMA NnfStep == NnfInv /\ [NnfNext]_nnfVars => NnfInv'
  <1> SUFFICES ASSUME NnfInv, [NnfNext]_nnfVars PROVE NnfInv'
    OBVIOUS
  <1>1. NnfTypeOK /\ KeyInv /\ BeatInv /\ SignedOnInv /\ RecoveryInv
    BY DEF NnfInv
  <1>2. NnfTypeOK'
    BY <1>1, NnfTypes
  <1>3. KeyInv'
    <2>1. ASSUME KeysKept PROVE KeyInv'
      BY <1>1, <2>1 DEF KeyInv, KeysKept
    <2>2. UNCHANGED nnfVars => KeysKept
      BY DEF nnfVars, boxVars, KeysKept, Connected
    <2> QED
      BY <1>1, <2>1, <2>2, BoxKeys, UserKeys, KeyStep DEF NnfNext
  <1> QED
    BY <1>1, <1>2, <1>3, BeatStep, SignedOnStep, RecoveryStep DEF NnfInv

----------------------------------------------------------------------------
(* The venue implements the layer *)

\* A timer holds reports to users only.
HeldInv == \E S : (\A h \in S : h.to \in Users) /\ held \in Seq(S)

\* What any handler does to the connection of a box.
LEMMA DisconnectEnds == \A b \in Boxes : Disconnect(b) => Ends(b) /\ held' = held
  BY DEF Disconnect, Ends, CancelOrdersOf

\* Every handler of the box sequence is a step of the layer.
LEMMA BoxSteps ==
    ASSUME NEW b \in Boxes, NseBoxStep(b)
    PROVE  held' = held /\ (BoxNext(b) \/ \E u \in Users : Joins(b, u))
  <1>0. BoxStep(b)
    BY DEF NseBoxStep
  <1>q. Quiescent => held' = held
    BY DEF Quiescent, allVars, entryVars, reportVars
  <1>1. CASE (Ready /\ GrRequest(b) /\ Quiescent) \/ (Ready /\ ConnectionBreaks(b) /\ Quiescent)
    BY <1>1, <1>q DEF BoxNext
  <1>2. CASE OnRegistration(b)
    BY <1>2, <1>q DEF OnRegistration, SendUnfiled, Opens, BoxNext
  <1>3. CASE RegisteredAgain(b)
    BY <1>3, <1>q DEF RegisteredAgain, Inbound, SendUnfiled, OpensAgain, BoxNext
  <1>4. CASE FirstPacketRefused(b)
    BY <1>4, <1>q DEF FirstPacketRefused, FirstPacket, SendUnfiled, TurnedAway, BoxNext
  <1>9. CASE BoxSignOnFirst(b)
    BY <1>9, <1>q DEF BoxSignOnFirst, SendUnfiled, OpensInClear, BoxNext
  <1>5. CASE OnBoxSignOn(b) \/ SignOnRefused(b)
    BY <1>5, <1>q DEF OnBoxSignOn, SignOnRefused, Inbound, SendUnfiled, Hears, BoxNext
  <1>6. CASE \E u \in Users : OnSignOn(b, u)
    BY <1>6, <1>q DEF OnSignOn, Inbound, Joins
  <1>7. CASE Ready /\ Heartbeat(b) /\ SendUnfiled /\ Quiescent
    BY <1>7, <1>q DEF SendUnfiled, BoxNext
  <1>8. CASE Disconnect(b)
    BY <1>8, DisconnectEnds DEF BoxNext
  <1> QED
    BY <1>0, <1>1, <1>2, <1>3, <1>4, <1>5, <1>6, <1>7, <1>8, <1>9
       DEF BoxStep, OnHeartbeat, BoxRefused, ChecksumFailure, ConnectionClosed, BoxKill

\* A request that reaches the engine is heard, and answered later.
LEMMA RequestAsks == \A u \in Users : NseRequest(u) => Asks(u) /\ held' = held
  BY DEF NseRequest, Message, Inbound, Asks

\* Every request of a user is a step of the layer.
LEMMA UserSteps ==
    ASSUME NEW u \in Users, NseUserStep(u)
    PROVE  held' = held /\ UserNext(u)
  <1>q. Quiescent => held' = held
    BY DEF Quiescent, allVars, entryVars, reportVars
  <1>1. ASSUME NseRequest(u) PROVE held' = held /\ UserNext(u)
    BY <1>1, RequestAsks DEF UserNext
  <1>2. ASSUME NEW r \in Requests, NseNewOrder(u, r) PROVE NseRequest(u)
    BY <1>2 DEF NseNewOrder, OnNewOrder
  <1>3. ASSUME NEW o \in OrderIds, NseChange(u, o) PROVE NseRequest(u)
    BY <1>3 DEF NseChange, OnCancel, OnModify, ChangeRejected
  <1>4. ASSUME RejectChange(u) PROVE held' = held /\ UserNext(u)
    BY <1>4, <1>q DEF RejectChange, Message, Inbound, Asks, UserNext
  <1>5. ASSUME OnSystemInformation(u) PROVE held' = held /\ UserNext(u)
    BY <1>5, <1>q DEF OnSystemInformation, SendUnfiled, Message, Inbound, Asks, UserNext
  <1>6. ASSUME NEW stream, OnDownloadRequest(u, stream) PROVE held' = held /\ UserNext(u)
    <2>1. Message(u) /\ held' = held /\ UNCHANGED << records, last >>
      BY <1>6, <1>q DEF OnDownloadRequest
    <2>2. \/ inbox' = inbox
          \/ inbox' = [inbox EXCEPT ![u] = [Downloaded(u) EXCEPT !.lost = @ \cup LostTo(u)]]
      BY <1>6 DEF OnDownloadRequest
    <2> QED
      BY <2>1, <2>2 DEF Message, Inbound, Asks, UserNext, storeVars
  <1>7. ASSUME OnSignOff(u) PROVE held' = held /\ UserNext(u)
    BY <1>7 DEF OnSignOff, CancelOrdersOf, LeavesWithReply, UserNext
  <1>8. ASSUME SessionKill(u) PROVE held' = held /\ UserNext(u)
    BY <1>8 DEF SessionKill, CancelOrdersOf, LeavesAtOnce, UserNext
  <1> QED
    BY <1>1, <1>2, <1>3, <1>4, <1>5, <1>6, <1>7, <1>8 DEF NseUserStep, SessionStep

\* Operators, the matching loop and the auction leave the members alone.
LEMMA IdleSteps ==
    NseOperatorStep \/ AppMatchStep \/ PreOpenAuction => UNCHANGED << nnfVars, held >>
  <1>1. Operator => UNCHANGED << nnfVars, held >>
    BY DEF Operator
  <1>2. NseAdmin => UNCHANGED << nnfVars, held >>
    BY <1>1 DEF NseAdmin, OperatorOrder, OperatorCancel, AppSetBehaviour, SetBehaviour
  <1>3. AppMatchStep => UNCHANGED << nnfVars, held >>
    BY DEF AppMatchStep, EntryMatchStep, Loop, reportVars
  <1> QED
    BY <1>1, <1>2, <1>3 DEF NseOperatorStep, SetTradingState, SetSymbolState,
          StartPreOpenUncross, PreOpenLock, ReloadReferenceData, PreOpenAuction

\* A report is sent to a user, filed for a user, or goes nowhere.
LEMMA EmitSteps ==
    ASSUME NnfTypeOK, HeldInv, NseEmit
    PROVE  HeldInv' /\ ((\E u \in Users : Reports(u)) \/ UNCHANGED nnfVars)
  <1> DEFINE event == Head(events)
             to == TargetFor(event)
  <1>1. Deliver(event, event.order) /\ UNCHANGED boxVars
    BY DEF NseEmit, EmitStep
  <1>2. sessions \subseteq Users
    BY DEF NnfTypeOK
  <1> HIDE DEF event
  <1>3. CASE EmitAway(event)
    BY <1>1, <1>3 DEF EmitAway, Reports, nnfVars, HeldInv
  <1>4. CASE EmitLost(event)
    BY <1>1, <1>4 DEF EmitLost, nnfVars, HeldInv
  <1>5. CASE EmitNow(event)
    BY <1>1, <1>2, <1>5 DEF EmitNow, Reports, HeldInv
  <1>6. CASE EmitLater(event, event.order)
    <2>1. UNCHANGED nnfVars
      BY <1>1, <1>6 DEF EmitLater, nnfVars
    <2>2. PICK h : h.to \in Users /\ held' = Append(held, h)
      <3>1. to \in Users
        BY <1>2, <1>6 DEF EmitLater
      <3> QED
        BY <1>6, <3>1 DEF EmitLater
    <2>3. PICK S : (\A g \in S : g.to \in Users) /\ held \in Seq(S)
      BY DEF HeldInv
    <2>4. held' \in Seq(S \cup {h}) /\ \A g \in S \cup {h} : g.to \in Users
      <3>1. held \in Seq(S \cup {h}) /\ h \in S \cup {h}
        BY <2>3
      <3> QED
        BY <2>2, <2>3, <3>1
    <2> QED
      BY <2>1, <2>4 DEF HeldInv
  <1> QED
    BY <1>1, <1>3, <1>4, <1>5, <1>6 DEF Deliver

\* A timer sends a report to a user.
LEMMA ReleaseSteps ==
    ASSUME HeldInv, NseRelease
    PROVE  HeldInv' /\ \E u \in Users : Reports(u)
  <1>1. PICK i \in DOMAIN held : SendTo(held[i].to) /\ held' = RemoveAt(held, i)
    BY DEF NseRelease, ReleaseHeld
  <1>2. PICK S : (\A h \in S : h.to \in Users) /\ held \in Seq(S)
    BY DEF HeldInv
  <1>3. held[i].to \in Users /\ i \in 1..Len(held)
    BY <1>2
  <1>4. SubSeq(held, 1, i - 1) \in Seq(S) /\ SubSeq(held, i + 1, Len(held)) \in Seq(S)
    BY <1>2, <1>3
  <1>5. held' \in Seq(S)
    BY <1>1, <1>4 DEF RemoveAt
  <1>6. UNCHANGED boxVars
    BY DEF NseRelease, ReleaseHeld
  <1> QED
    BY <1>1, <1>2, <1>3, <1>5, <1>6 DEF HeldInv, Reports

\* Every step of the venue is a step of the layer, or leaves the layer alone.
LEMMA VenueStepsNnf ==
    NnfTypeOK /\ HeldInv /\ [NseNext]_nseAll => HeldInv' /\ [NnfNext]_nnfVars
  <1> SUFFICES ASSUME NnfTypeOK, HeldInv, [NseNext]_nseAll
               PROVE  HeldInv' /\ [NnfNext]_nnfVars
    OBVIOUS
  <1>0. held' = held => HeldInv'
    BY DEF HeldInv
  <1>1. ASSUME NEW b \in Boxes, NseBoxStep(b) PROVE HeldInv' /\ NnfNext
    BY <1>0, <1>1, BoxSteps DEF NnfNext, UserNext
  <1>2. ASSUME NEW u \in Users, NseUserStep(u) PROVE HeldInv' /\ NnfNext
    BY <1>0, <1>2, UserSteps DEF NnfNext
  <1>3. CASE NseOperatorStep \/ AppMatchStep \/ PreOpenAuction
    BY <1>0, <1>3, IdleSteps
  <1>4. CASE NseEmit
    BY <1>4, EmitSteps DEF NnfNext, UserNext
  <1>5. CASE NseRelease
    BY <1>5, ReleaseSteps DEF NnfNext, UserNext
  <1>6. CASE NsePasses
    <2>1. PassTime /\ held' = held
      BY <1>6 DEF NsePasses, Passes, Quiescent, allVars, entryVars, reportVars
    <2> QED
      BY <1>0, <2>1 DEF NnfNext
  <1>7. CASE NseTicks
    BY <1>0, <1>7, DisconnectEnds DEF NseTicks, Ticks, TickDisconnects, NnfNext, BoxNext
  <1>8. CASE UNCHANGED nseAll
    <2>1. UNCHANGED << nnfVars, held >>
      BY <1>8 DEF nseAll, appVars, allVars, entryVars, reportVars
    <2> QED
      BY <1>0, <2>1
  <1> QED
    BY <1>1, <1>2, <1>3, <1>4, <1>5, <1>6, <1>7, <1>8 DEF NseNext, Loops

\* The layer's invariant, with what the timers hold, is the venue's.
LEMMA NnfInvariance == NseSpec => [](NnfInv /\ HeldInv)
  <1>1. NseInit => NnfInit /\ HeldInv
    <2> SUFFICES ASSUME NseInit PROVE NnfInit /\ HeldInv
      OBVIOUS
    <2>1. NnfInit /\ held = << >>
      BY DEF NseInit, AppInit, EntryInit
    <2>2. held \in Seq({}) /\ \A h \in {} : h.to \in Users
      BY <2>1
    <2> QED
      BY <2>1, <2>2 DEF HeldInv
  <1>2. NnfInv /\ HeldInv /\ [NseNext]_nseAll => (NnfInv /\ HeldInv)'
    <2>1. NnfInv => NnfTypeOK
      BY DEF NnfInv
    <2> QED
      BY <2>1, VenueStepsNnf, NnfStep
  <1> QED
    BY <1>1, <1>2, NnfInitInv, PTL DEF NseSpec

\* The venue implements the NNF layer: whatever its handlers, its auction, its
\* operators and its timers do, boxes, keys, rings and members change only by the
\* steps of the layer (nnf/session.py, nnf/recovery.py, gateway_router.py).
THEOREM NseImplementsBoxes == NseSpec => NnfInit /\ [][NnfNext]_nnfVars
  <1>1. NseInit => NnfInit
    BY DEF NseInit, AppInit
  <1>2. NnfInv /\ HeldInv /\ [NseNext]_nseAll => [NnfNext]_nnfVars
    BY VenueStepsNnf DEF NnfInv
  <1> QED
    BY <1>1, <1>2, NnfInvariance, PTL DEF NseSpec

\* No key is in use on two connections that are up.
KeysAreNotShared ==
    \A b, c \in Boxes :
        b # c /\ box[b].cipher # NoSecret => box[b].cipher # box[c].cipher

\* "The key here is fresh per box per connection" (gateway_router.issue): of
\* however many boxes, however often their connections end and their keys are
\* granted anew, none is encrypted with a key that an earlier connection used, nor
\* with one that another connection uses.
THEOREM KeysAreFresh == NseSpec => [](KeyServesOneConnection /\ KeysAreNotShared)
  <1>1. NnfInv => KeyServesOneConnection /\ KeysAreNotShared
    <2> SUFFICES ASSUME NnfInv PROVE KeyServesOneConnection /\ KeysAreNotShared
      OBVIOUS
    <2>1. KeyInv /\ retired \subseteq Nat
      BY DEF NnfInv, NnfTypeOK
    <2> QED
      BY <2>1, NnfAssumption DEF KeyInv, KeyServesOneConnection, KeysAreNotShared
  <1> QED
    BY <1>1, NnfInvariance, PTL

\* A member that never sends two heartbeats within an interval is not disconnected
\* for the next (_on_heartbeat), though the venue compares it with an age that is
\* older than the connection: with any limit that lets one early heartbeat pass.
\* A limit of one would disconnect a member that comes back within an interval.
THEOREM PunctualMembersStay ==
    ASSUME DropLimit >= 2
    PROVE  NseSpec => []PunctualMemberStays
  <1>1. NnfInv => PunctualMemberStays
    <2> SUFFICES ASSUME NnfInv, NEW b \in Boxes, ~member[b].eager,
                        member[b].beat = Interval, LastHeartbeat(b)
                 PROVE  FALSE
      BY DEF PunctualMemberStays
    <2>1. BeatInv /\ box[b] \in BoxType /\ Interval \in Nat /\ DropLimit \in Nat
      BY NnfAssumption DEF NnfInv, NnfTypeOK
    <2>2. Connected(b) /\ box[b].beat < Interval /\ box[b].drops + 1 >= DropLimit
      BY DEF LastHeartbeat, Readable, Early
    <2>3. box[b].drops = 0
      BY <2>1, <2>2 DEF BeatInv, BoxType
    <2> QED
      BY <2>2, <2>3, <2>1, DropLimit >= 2
  <1> QED
    BY <1>1, NnfInvariance, PTL

\* A user that has downloaded since it signed on, over a connection that still
\* stands, misses no report but those that the store has said its ring has lost
\* (_on_download_request): for every capacity of the ring, every clock, any number
\* of reports while it was away, and however often it lost its connection.
THEOREM DownloadsRecover == NseSpec => []DownloadRecovers
  <1>1. NnfInv => DownloadRecovers
    BY DEF NnfInv, RecoveryInv, RecoveryOf, DownloadRecovers
  <1> QED
    BY <1>1, NnfInvariance, PTL

\* The stamps a user's ring holds ascend whatever the clock reads, even when it
\* stands still or goes back, so that a cursor splits the ring in what the member
\* has and what it wants (MessageStore._sequence).
StampsAscend ==
    \A u \in Users : \A i, j \in 1..Len(records[u]) :
        i < j => records[u][i] < records[u][j]

THEOREM StampsAlwaysAscend == NseSpec => []StampsAscend
  <1>1. NnfInv => StampsAscend
    BY DEF NnfInv, RecoveryInv, RecoveryOf, RingInv, StampsAscend
  <1> QED
    BY <1>1, NnfInvariance, PTL

----------------------------------------------------------------------------
(* The market under the venue *)

\* A step that the market knows of changes no order's owner, and leaves no order
\* open that was not open.
Unfinished(o) == IsLive(orders[o]) \/ (task = "match" /\ cur = o)

Carried ==
    /\ OwnersKept
    /\ nextId' = nextId
    /\ \A o \in OrderIds : Unfinished(o)' => Unfinished(o)

LEMMA CarriedAlone ==
    ASSUME UNCHANGED << orders, nextId >>, task' = "match" => task = "match" /\ cur' = cur
    PROVE  Carried
  BY DEF Carried, OwnersKept, Unfinished

LEMMA CarriedCancelled ==
    ASSUME IInv, NEW S, orders' = Cancelled(S), nextId' = nextId, task' = "idle"
    PROVE  Carried
  <1>1. OwnersKept
    BY CancelledOwners DEF IInv
  <1>2. ASSUME NEW o \in OrderIds, Unfinished(o)' PROVE Unfinished(o)
    <2>1. IsLive(orders'[o]) /\ orders[o] \in OrderType
      BY <1>2 DEF Unfinished, IInv, TypeOK
    <2>2. orders'[o] = orders[o] \/ orders'[o] = CancelOrder(orders[o])
      BY DEF Cancelled
    <2>3. CASE orders'[o] = CancelOrder(orders[o])
      BY <2>1, <2>3 DEF CancelOrder, IsLive, LIVE, TERMINAL, OrderType, Unfinished
    <2>4. CASE orders'[o] = orders[o]
      BY <2>1, <2>4 DEF Unfinished
    <2> QED
      BY <2>2, <2>3, <2>4
  <1> QED
    BY <1>1, <1>2 DEF Carried

\* A step that rewrites one or two open orders.
LEMMA CarriedTwo ==
    ASSUME TypeOK, OwnersKept, nextId' = nextId,
           NEW o \in OrderIds, NEW r \in OrderIds, Unfinished(o), Unfinished(r),
           NEW x, NEW y,
           \/ orders' = [orders EXCEPT ![o] = x]
           \/ orders' = [orders EXCEPT ![r] = y]
           \/ orders' = [orders EXCEPT ![o] = x, ![r] = y],
           task' = "match" => cur' = o \/ cur' = r
    PROVE  Carried
  <1>1. ASSUME NEW q \in OrderIds, q # o, q # r, Unfinished(q)' PROVE Unfinished(q)
    <2>1. orders'[q] = orders[q]
      BY <1>1 DEF TypeOK
    <2> QED
      BY <1>1, <2>1 DEF Unfinished
  <1> QED
    BY <1>1 DEF Carried

LEMMA CarriedMatch == IInv /\ MatchStep => Carried
  <1> SUFFICES ASSUME IInv, MatchStep, NEW o \in OrderIds,
                      \/ MatchDone(o)
                      \/ \E r \in OrderIds : \/ MatchExecute(o, r)
                                             \/ StpCancelNewest(o, r)
                                             \/ StpCancelOldest(o, r)
                                             \/ StpDecrement(o, r)
               PROVE  Carried
    BY DEF MatchStep
  <1>1. OwnersKept /\ TypeOK
    BY MatchOwners DEF IInv
  <1>2. CASE MatchDone(o)
    <2>1. /\ nextId' = nextId /\ task' = "idle" /\ Unfinished(o)
          /\ \/ orders' = orders
             \/ orders' = [orders EXCEPT ![o] = CancelOrder(orders[o])]
             \/ orders' = [orders EXCEPT ![o] = Rested(orders[o])]
      BY <1>2 DEF MatchDone, Matching, EndTask, Unfinished
    <2>2. CASE orders' = orders
      BY <2>1, <2>2, CarriedAlone
    <2> QED
      BY <1>1, <2>1, <2>2, CarriedTwo
  <1>3. ASSUME NEW r \in OrderIds, MatchExecute(o, r) PROVE Carried
    <2> DEFINE quantity == Lesser(LeavesQty(orders[o]), LeavesQty(orders[r]))
               price == orders[r].price
    <2>1. /\ Matching(o) /\ LeavesQty(orders[o]) > 0 /\ IsBestMatch(orders[o], r)
          /\ orders' = [orders EXCEPT ![o] = ApplyFill(orders[o], quantity, price),
                                      ![r] = ApplyFill(orders[r], quantity, price)]
          /\ nextId' = nextId /\ task' = task /\ cur' = cur
      BY <1>3 DEF MatchExecute, taskVars
    <2>2. Unfinished(o) /\ Unfinished(r) /\ cur' = o
      BY <2>1, MatchFacts DEF Matching, Unfinished
    <2> HIDE DEF quantity, price
    <2> QED
      BY <1>1, <2>1, <2>2, CarriedTwo
  <1>4. ASSUME NEW r \in OrderIds,
               \/ StpCancelNewest(o, r) \/ StpCancelOldest(o, r) \/ StpDecrement(o, r)
        PROVE  Carried
    <2>1. SelfMatch(o, r)
      BY <1>4 DEF StpCancelNewest, StpCancelOldest, StpDecrement
    <2>2. /\ Unfinished(o) /\ Unfinished(r) /\ nextId' = nextId
          /\ task = "match" /\ cur = o
      BY <2>1, SelfMatchFacts DEF Unfinished
    <2>3. \E x, y : \/ orders' = [orders EXCEPT ![o] = x]
                    \/ orders' = [orders EXCEPT ![r] = y]
                    \/ orders' = [orders EXCEPT ![o] = x, ![r] = y]
      BY <1>4 DEF StpCancelNewest, StpCancelOldest, StpDecrement
    <2>4. task' = "match" => cur' = o
      BY <1>4, <2>2 DEF StpCancelNewest, StpCancelOldest, StpDecrement, EndTask, taskVars
    <2> QED
      BY <1>1, <2>2, <2>3, <2>4, CarriedTwo
  <1> QED
    BY <1>2, <1>3, <1>4

LEMMA CarriedAmend == ASSUME IInv, NEW o \in OrderIds, NEW a, Amend(o, a) PROVE Carried
  <1>1. TypeOK /\ OwnersKept
    BY AmendOwners DEF IInv
  <1>2. /\ nextId' = nextId /\ Unfinished(o) /\ task = "idle"
        /\ task' = "match" => cur' = o
    BY DEF Amend, Submit, SubmitRejected, SubmitAccumulated, SubmitBlocked,
           SubmitMatching, Settle, taskVars, Unfinished
  <1>3. \E x : orders' = [orders EXCEPT ![o] = x]
    BY DEF Amend, Submit, SubmitRejected, SubmitAccumulated, SubmitBlocked,
           SubmitMatching, Settle
  <1> QED
    BY <1>1, <1>2, <1>3, CarriedTwo

LEMMA CarriedAuction == IInv /\ AuctionStep => Carried
  <1> SUFFICES ASSUME IInv, AuctionStep PROVE Carried
    OBVIOUS
  <1>1. CASE FinishUncross
    BY <1>1, CarriedCancelled DEF FinishUncross
  <1>2. ASSUME NEW b \in OrderIds, NEW s \in OrderIds, AuctionTrade(b, s) PROVE Carried
    <2> DEFINE quantity == Lesser(LeavesQty(orders[b]), LeavesQty(orders[s]))
    <2>1. /\ orders[b] \in OrderType /\ orders[s] \in OrderType
          /\ Unfinished(b) /\ Unfinished(s) /\ TypeOK
      BY <1>2, AuctionFacts DEF Unfinished, IInv
    <2>2. quantity \in Nat /\ auctionPrice \in Nat
      BY <2>1, LeavesFacts DEF Lesser, TypeOK
    <2>3. /\ orders' = [orders EXCEPT ![b] = ApplyFill(orders[b], quantity, auctionPrice),
                                      ![s] = ApplyFill(orders[s], quantity, auctionPrice)]
          /\ nextId' = nextId /\ task' # "match"
      BY <1>2 DEF AuctionTrade, taskVars
    <2> HIDE DEF quantity
    <2>4. /\ ApplyFill(orders[b], quantity, auctionPrice).session = orders[b].session
          /\ ApplyFill(orders[s], quantity, auctionPrice).session = orders[s].session
      BY <2>1, <2>2, OwnerFacts
    <2>5. OwnersKept
      BY <2>1, <2>3, <2>4, ExceptTwoOwners
    <2> QED
      BY <2>1, <2>3, <2>5, CarriedTwo
  <1> QED
    BY <1>1, <1>2 DEF AuctionStep

\* The steps of the venue, as the market and the reports see them.  A set of orders
\* of the book is cancelled between requests, ...
CancelsSome(S) ==
    /\ Ready
    /\ orders' = Cancelled(S)
    /\ place' = Removed(place, S)
    /\ CancelEvents(S)
    /\ UNCHANGED << arrivals, nextId, phaseVars, taskVars, amends, kept, shown >>

\* ... the phase changes, and the auction may begin, without a report, ...
ChangesPhase ==
    /\ Ready
    /\ \/ \E s \in Phases : \/ SetMarketState(s) \/ SetInstrumentState(s)
                            \/ StartUncrossAt(s, base)
       \/ /\ Command
          /\ marketState' \in {marketState, "OPENING_AUCTION"}
          /\ UNCHANGED << orders, place, override, stpMode, taskVars >>
    /\ UNCHANGED << events, kept, shown >>

\* ... a user's request reaches the engine, or nothing happens that matters here.
Asking(u) ==
    \/ \E r \in Requests : OnNewOrder(u, r, Validates(r.tif, r.price))
    \/ \E o \in OrderIds : \/ OnCancel(u, o)
                           \/ \E a \in Amendments : OnModify(u, o, a, ValidAmend(o, a))

Unaffected == UNCHANGED << vars, events, kept, shown >>

EngineNext ==
    \/ Unaffected
    \/ \E S \in SUBSET OnBook : CancelsSome(S)
    \/ \E u \in Users : Asking(u)
    \/ \E r \in Requests : OperatorOrder(r, Validates(r.tif, r.price))
    \/ ChangesPhase
    \/ AppMatchStep
    \/ PreOpenAuction
    \/ NseEmit

LEMMA DisconnectCancels ==
    ASSUME NEW b \in Boxes, Disconnect(b) PROVE \E S \in SUBSET OnBook : CancelsSome(S)
  <1> DEFINE gone == {o \in OnBook : orders[o].session \in users[b] \cap CancelOnDisconnect}
  <1>1. CancelsSome(gone)
    BY DEF Disconnect, CancelOrdersOf, CancelsSome, reportMemo
  <1>2. gone \in SUBSET OnBook
    OBVIOUS
  <1> QED
    BY <1>1, <1>2

LEMMA EngineSteps == [NseNext]_nseAll => EngineNext /\ base' \in BasePrices \cup {base}
  <1> SUFFICES ASSUME [NseNext]_nseAll PROVE EngineNext /\ base' \in BasePrices \cup {base}
    OBVIOUS
  <1>q. Quiescent => Unaffected
    BY DEF Quiescent, allVars, entryVars, reportMemo, Unaffected
  <1>o. Operator => UNCHANGED << kept, shown >>
    BY DEF Operator, reportMemo
  <1>1. ASSUME NEW b \in Boxes, NseBoxStep(b) PROVE EngineNext
    <2>1. CASE Quiescent
      BY <1>q, <2>1 DEF EngineNext
    <2>2. CASE Disconnect(b)
      BY <2>2, DisconnectCancels DEF EngineNext
    <2> QED
      BY <1>1, <2>1, <2>2
         DEF NseBoxStep, BoxStep, OnRegistration, RegisteredAgain, FirstPacketRefused,
             BoxSignOnFirst, OnBoxSignOn, SignOnRefused, OnSignOn, OnHeartbeat, BoxRefused,
             ChecksumFailure, ConnectionClosed, BoxKill
  <1>2. ASSUME NEW u \in Users, NseUserStep(u) PROVE EngineNext
    <2>1. CASE Quiescent
      BY <1>q, <2>1 DEF EngineNext
    <2>2. CASE OnSignOff(u) \/ SessionKill(u)
      <3> DEFINE gone == {o \in OnBook : orders[o].session \in {u} \cap CancelOnDisconnect}
      <3>1. CancelsSome(gone)
        BY <2>2 DEF OnSignOff, SessionKill, Inbound, CancelOrdersOf, CancelsSome, reportMemo
      <3>2. gone \in SUBSET OnBook
        OBVIOUS
      <3> HIDE DEF gone
      <3> QED
        BY <3>1, <3>2 DEF EngineNext
    <2>3. CASE Asking(u)
      BY <2>3 DEF EngineNext
    <2> QED
      BY <1>2, <2>1, <2>2, <2>3
         DEF NseUserStep, NseNewOrder, NseChange, Asking, SessionStep, RejectChange,
             OnSystemInformation, OnDownloadRequest
  <1>3. ASSUME NseOperatorStep PROVE EngineNext
    <2>1. ASSUME NseAdmin PROVE EngineNext
      <3>1. ASSUME NEW S, S \subseteq OnBook, OperatorCancel(S) PROVE EngineNext
        <4>1. CancelsSome(S)
          BY <1>o, <3>1 DEF OperatorCancel, CancelsSome
        <4> QED
          BY <3>1, <4>1 DEF EngineNext
      <3>2. ASSUME NEW rule \in RuleChoices, AppSetBehaviour(rule) PROVE EngineNext
        BY <3>2 DEF AppSetBehaviour, SetBehaviour, reportMemo, Unaffected, EngineNext
      <3>3. ASSUME NEW r \in Requests, OperatorOrder(r, Validates(r.tif, r.price))
            PROVE  EngineNext
        BY <3>3 DEF EngineNext
      <3> QED
        BY <2>1, <3>1, <3>2, <3>3 DEF NseAdmin
    <2>2. ASSUME \E s \in Phases : SetTradingState(s) \/ SetSymbolState(s)
                                   \/ StartPreOpenUncross(s)
          PROVE  ChangesPhase
      BY <1>o, <2>2 DEF SetTradingState, SetSymbolState, StartPreOpenUncross, ChangesPhase
    <2>3. ASSUME PreOpenLock \/ ReloadReferenceData PROVE ChangesPhase
      BY <1>o, <2>3 DEF PreOpenLock, ReloadReferenceData, ChangesPhase
    <2> QED
      BY <1>3, <2>1, <2>2, <2>3 DEF NseOperatorStep, EngineNext
  <1>4. ASSUME Loops PROVE EngineNext
    BY <1>4 DEF Loops, EngineNext
  <1>5. ASSUME NseRelease \/ NsePasses PROVE EngineNext
    BY <1>5, <1>q DEF NseRelease, ReleaseHeld, NsePasses, Passes, reportMemo,
                      Unaffected, EngineNext
  <1>6. ASSUME NseTicks PROVE EngineNext
    BY <1>6, DisconnectCancels DEF NseTicks, Ticks, TickDisconnects, EngineNext
  <1>7. ASSUME UNCHANGED nseAll PROVE EngineNext
    BY <1>7 DEF nseAll, appVars, allVars, entryVars, reportMemo, Unaffected, EngineNext
  <1>8. base' \in BasePrices \cup {base}
    <2>1. NseOperatorStep => base' \in BasePrices \cup {base}
      BY DEF NseOperatorStep, SetTradingState, SetSymbolState, StartPreOpenUncross,
             PreOpenLock, ReloadReferenceData, NseAdmin, venueVars
    <2>2. Loops => base' = base
      BY DEF Loops, PreOpenAuction, NseEmit, venueVars
    <2> QED
      BY <2>1, <2>2 DEF NseNext, NseBoxStep, NseUserStep, NseNewOrder, NseChange,
             NseRelease, NsePasses, NseTicks, venueVars, nseAll
  <1> QED
    BY <1>1, <1>2, <1>3, <1>4, <1>5, <1>6, <1>7, <1>8 DEF NseNext

\* The market's invariant holds under everything the venue does to it: cancels that
\* no request asked for, the pre-open and its auction around the base price.
LEMMA EngineMarket == IInv /\ base \in Nat /\ EngineNext => IInv'
  <1> SUFFICES ASSUME IInv, base \in Nat, EngineNext PROVE IInv'
    OBVIOUS
  <1>1. ASSUME [Next]_vars PROVE IInv'
    BY <1>1, NextInv
  <1>2. ASSUME NEW S \in SUBSET OnBook, CancelsSome(S) PROVE IInv'
    <2>1. S \subseteq OrderIds /\ \A o \in S : place[o] # 0
      BY <1>2 DEF OnBook, Resting
    <2> QED
      BY <1>2, <2>1, CancelledInv DEF CancelsSome, Ready
  <1>3. ASSUME NEW u \in Users, Asking(u) PROVE [Next]_vars
    BY <1>3 DEF Asking, OnNewOrder, OnCancel, OnModify, ChangeRejected, Next, ClientStep
  <1>4. ASSUME ChangesPhase PROVE IInv'
    <2>1. CASE \E s \in Phases : SetMarketState(s) \/ SetInstrumentState(s)
      BY <1>1, <2>1 DEF Next, OperatorStep
    <2>2. CASE \E s \in Phases : StartUncrossAt(s, base)
      BY <2>2, StartUncrossInv
    <2>3. CASE /\ Command
               /\ marketState' \in {marketState, "OPENING_AUCTION"}
               /\ UNCHANGED << orders, place, override, stpMode, taskVars >>
      <3>1. /\ orders' \in [OrderIds -> OrderType] /\ place' \in [OrderIds -> Nat]
            /\ StatusAgreesWithFills' /\ BookInv' /\ IssuedInv'
        BY <2>3, QuietFacts DEF Command, taskVars
      <3>2. TypeOK'
        BY <2>3, <3>1, BoundsAssumption
           DEF Command, IInv, TypeOK, taskVars, AllPhases, ACCUMULATING
      <3> QED
        BY <2>3, <3>1, <3>2 DEF Command, taskVars, IInv, TaskInv
    <2> QED
      BY <1>4, <2>1, <2>2, <2>3 DEF ChangesPhase
  <1>5. ASSUME AppMatchStep \/ PreOpenAuction PROVE [Next]_vars
    BY <1>5 DEF AppMatchStep, EntryMatchStep, PreOpenAuction, Next, MatchStep, AuctionStep
  <1>6. ASSUME NEW r \in Requests, OperatorOrder(r, Validates(r.tif, r.price))
        PROVE  [Next]_vars
    BY <1>6 DEF OperatorOrder, Next, ClientStep
  <1>7. ASSUME Unaffected \/ NseEmit PROVE [Next]_vars
    BY <1>7 DEF Unaffected, NseEmit, EmitStep
  <1> QED
    BY <1>1, <1>2, <1>3, <1>4, <1>5, <1>6, <1>7 DEF EngineNext

----------------------------------------------------------------------------
(* The form of the reports *)

FormOf(u) == IF u \in Trimmed THEN "TRIMMED" ELSE "PLAIN"

Forms == {"NONE", "PLAIN", "TRIMMED"}

\* What is remembered of an order is its owner's, from its first request to its last
\* report; nothing is remembered of an order before it is entered.
KeptInv ==
    /\ kept \in [OrderIds -> Forms]
    /\ \A o \in OrderIds :
          /\ o >= nextId => kept[o] = "NONE"
          /\ orders[o].session \in Users =>
                /\ kept[o] \in {"NONE", FormOf(orders[o].session)}
                /\ Unfinished(o) => kept[o] # "NONE"

\* An event that has not been rendered names an order and its owner, and what is
\* remembered of it is still there: ords is the registry, ks the memory.
Reportable(e, ords, ks) ==
    e.order # NoOrder =>
        /\ e.order \in OrderIds
        /\ e.owner = ords[e.order].session
        /\ e.owner \in Users => ks[e.order] # "NONE"

AllReportable(s, ords, ks) == \E E : s \in Seq(E) /\ \A e \in E : Reportable(e, ords, ks)

FormInv == KeptInv /\ AllReportable(events, orders, kept) /\ ReportsKeepTheirForm

\* Sequences of such events.
LEMMA FewReportable ==
    ASSUME NEW ords, NEW ks
    PROVE  /\ AllReportable(<< >>, ords, ks)
           /\ \A e : Reportable(e, ords, ks) => AllReportable(<< e >>, ords, ks)
           /\ \A e, f : Reportable(e, ords, ks) /\ Reportable(f, ords, ks)
                            => AllReportable(<< e, f >>, ords, ks)
  <1>1. AllReportable(<< >>, ords, ks)
    <2> DEFINE E == {}
    <2>1. << >> \in Seq(E) /\ \A x \in E : Reportable(x, ords, ks)
      OBVIOUS
    <2> HIDE DEF E
    <2> QED
      BY <2>1 DEF AllReportable
  <1>2. ASSUME NEW e, Reportable(e, ords, ks) PROVE AllReportable(<< e >>, ords, ks)
    <2> DEFINE E == {e}
    <2>1. << e >> \in Seq(E) /\ \A x \in E : Reportable(x, ords, ks)
      BY <1>2
    <2> HIDE DEF E
    <2> QED
      BY <2>1 DEF AllReportable
  <1>3. ASSUME NEW e, NEW f, Reportable(e, ords, ks), Reportable(f, ords, ks)
        PROVE  AllReportable(<< e, f >>, ords, ks)
    <2> DEFINE E == {e, f}
    <2>1. << e, f >> \in Seq(E) /\ \A x \in E : Reportable(x, ords, ks)
      BY <1>3
    <2> HIDE DEF E
    <2> QED
      BY <2>1 DEF AllReportable
  <1> QED
    BY <1>1, <1>2, <1>3

LEMMA JoinedReportable ==
    ASSUME NEW ords, NEW ks, NEW s, NEW t,
           AllReportable(s, ords, ks), AllReportable(t, ords, ks)
    PROVE  AllReportable(s \o t, ords, ks)
  <1>1. PICK E : s \in Seq(E) /\ \A e \in E : Reportable(e, ords, ks)
    BY DEF AllReportable
  <1>2. PICK F : t \in Seq(F) /\ \A e \in F : Reportable(e, ords, ks)
    BY DEF AllReportable
  <1>3. s \in Seq(E \cup F) /\ t \in Seq(E \cup F)
    BY <1>1, <1>2
  <1>4. s \o t \in Seq(E \cup F) /\ \A e \in E \cup F : Reportable(e, ords, ks)
    BY <1>1, <1>2, <1>3
  <1> QED
    BY <1>4 DEF AllReportable

\* What a step that the market knows of keeps, if the memory stays as it is.
LEMMA CarriedForm ==
    ASSUME IInv, IInv', KeptInv, Carried, kept' = kept
    PROVE  /\ KeptInv'
           /\ \A e : Reportable(e, orders, kept) => Reportable(e, orders', kept')
           /\ AllReportable(events, orders, kept) => AllReportable(events, orders', kept')
  <1>1. KeptInv'
    BY DEF KeptInv, Carried, OwnersKept
  <1>2. ASSUME NEW e, Reportable(e, orders, kept) PROVE Reportable(e, orders', kept')
    BY <1>2 DEF Reportable, Carried, OwnersKept
  <1> QED
    BY <1>1, <1>2 DEF AllReportable

\* The events of an order that is open, or whose owner is remembered.
LEMMA EventReportable ==
    ASSUME NEW o \in OrderIds, OwnersKept,
           orders[o].session \in Users => kept'[o] # "NONE"
    PROVE  /\ \A kind : Reportable(Event(kind, o), orders', kept')
           /\ Reportable(FillEvent(o), orders', kept')
           /\ \A ord : Reportable(AcceptEvent(o, ord, orders[o].session), orders', kept')
  <1>1. orders'[o].session = orders[o].session
    BY DEF OwnersKept
  <1>2. ASSUME NEW e, e.order = o, e.owner = orders[o].session
        PROVE  Reportable(e, orders', kept')
    BY <1>1, <1>2 DEF Reportable
  <1>3. \A kind : Event(kind, o).order = o /\ Event(kind, o).owner = orders[o].session
    BY DEF Event
  <1>4. FillEvent(o).order = o /\ FillEvent(o).owner = orders[o].session
    BY DEF FillEvent, Event
  <1>5. \A ord : /\ AcceptEvent(o, ord, orders[o].session).order = o
                 /\ AcceptEvent(o, ord, orders[o].session).owner = orders[o].session
    BY DEF AcceptEvent, Event
  <1>6. Reportable(FillEvent(o), orders', kept')
    <2> DEFINE e == FillEvent(o)
    <2>1. e.order = o /\ e.owner = orders[o].session
      BY <1>4
    <2> HIDE DEF e
    <2>2. Reportable(e, orders', kept')
      BY <1>2, <2>1
    <2> QED
      BY <2>2 DEF e
  <1>7. ASSUME NEW kind PROVE Reportable(Event(kind, o), orders', kept')
    <2> DEFINE e == Event(kind, o)
    <2>1. e.order = o /\ e.owner = orders[o].session
      BY <1>3
    <2> HIDE DEF e
    <2>2. Reportable(e, orders', kept')
      BY <1>2, <2>1
    <2> QED
      BY <2>2 DEF e
  <1>8. ASSUME NEW ord
        PROVE  Reportable(AcceptEvent(o, ord, orders[o].session), orders', kept')
    <2> DEFINE e == AcceptEvent(o, ord, orders[o].session)
    <2>1. e.order = o /\ e.owner = orders[o].session
      BY <1>5
    <2> HIDE DEF e
    <2>2. Reportable(e, orders', kept')
      BY <1>2, <2>1
    <2> QED
      BY <2>2 DEF e
  <1> QED
    BY <1>6, <1>7, <1>8

\* The cancels of orders of the book.
LEMMA CancelsReportable ==
    ASSUME IInv, KeptInv, OwnersKept, kept' = kept,
           NEW S \in SUBSET OnBook, NEW q \in BookSequences(S)
    PROVE  AllReportable([i \in DOMAIN q |-> Event("CANCELLED", q[i])], orders', kept')
  <1> DEFINE news == [i \in DOMAIN q |-> Event("CANCELLED", q[i])]
             E == {Event("CANCELLED", o) : o \in S}
             n == Cardinality(S)
  <1>1. S \subseteq OrderIds
    BY DEF OnBook, Resting
  <1>2. n \in Nat
    <2>1. IsFiniteSet(OrderIds)
      BY FS_Interval, MaxOrdersAssumption DEF OrderIds
    <2> QED
      BY <1>1, <2>1, FS_Subset, FS_CardinalityType
  <1>3. q \in [1..n -> S]
    BY DEF BookSequences, SetToSeqs
  <1> HIDE DEF n
  <1>4. \A i \in 1..n : Event("CANCELLED", q[i]) \in E
    BY <1>3
  <1> HIDE DEF E
  <1>5. news \in Seq(E)
    BY <1>2, <1>3, <1>4
  <1>6. ASSUME NEW o \in S PROVE Reportable(Event("CANCELLED", o), orders', kept')
    <2>1. o \in OrderIds /\ place[o] # 0
      BY <1>1 DEF OnBook, Resting
    <2>2. (task = "match" /\ cur = o) \/ IsLive(orders[o])
      BY <2>1 DEF IInv, BookInv
    <2>3. orders[o].session \in Users => kept'[o] # "NONE"
      BY <2>1, <2>2 DEF KeptInv, Unfinished
    <2> QED
      BY <2>1, <2>3, EventReportable
  <1>7. \A e \in E : Reportable(e, orders', kept')
    BY <1>6 DEF E
  <1> HIDE DEF news
  <1>8. AllReportable(news, orders', kept')
    BY <1>5, <1>7 DEF AllReportable
  <1> QED
    BY <1>8 DEF news

\* What entering an order, or entering it again, reports before it is matched.
LEMMA SubmitReportable ==
    ASSUME NEW o \in OrderIds, NEW owner, NEW reentry \in BOOLEAN,
           orders'[o].session = owner,
           owner \in Users => kept'[o] # "NONE"
    PROVE  AllReportable(SubmitEvents(o, owner, reentry), orders', kept')
  <1> DEFINE ord == orders'[o]
  <1>1. ASSUME NEW e, e.order = o, e.owner = owner PROVE Reportable(e, orders', kept')
    BY <1>1 DEF Reportable
  <1>2. ASSUME NEW kind
        PROVE  AllReportable(<< [Event(kind, o) EXCEPT !.owner = owner] >>, orders', kept')
    <2> DEFINE e == [Event(kind, o) EXCEPT !.owner = owner]
    <2>1. e.order = o /\ e.owner = owner
      BY DEF Event
    <2> HIDE DEF e
    <2>2. AllReportable(<< e >>, orders', kept')
      BY <1>1, <2>1, FewReportable
    <2> QED
      BY <2>2 DEF e
  <1>3. AllReportable(<< AcceptEvent(o, ord, ord.session) >>, orders', kept')
    <2> DEFINE e == AcceptEvent(o, ord, ord.session)
    <2>1. e.order = o /\ e.owner = owner
      BY DEF AcceptEvent, Event
    <2> HIDE DEF e
    <2>2. AllReportable(<< e >>, orders', kept')
      BY <1>1, <2>1, FewReportable
    <2> QED
      BY <2>2 DEF e
  <1>4. AllReportable(<< >>, orders', kept')
    BY FewReportable
  <1>5. /\ AllReportable(Acknowledged(o, ord, reentry), orders', kept')
        /\ AllReportable(AcceptEvents(o, ord, reentry), orders', kept')
    BY <1>3, <1>4 DEF Acknowledged, AcceptEvents
  <1> DEFINE first == Acknowledged(o, ord, reentry)
             second == IF task' = "match" THEN << >>
                       ELSE IF ord.status = "CANCELLED"
                       THEN << [Event("CANCELLED", o) EXCEPT !.owner = owner] >>
                       ELSE AcceptEvents(o, ord, reentry)
             refusal == << [Event("REJECTED", o) EXCEPT !.owner = owner] >>
  <1>6. SubmitEvents(o, owner, reentry) =
            IF ord.status = "REJECTED" THEN refusal ELSE first \o second
    BY DEF SubmitEvents
  <1>7. AllReportable(second, orders', kept') /\ AllReportable(refusal, orders', kept')
    BY <1>2, <1>4, <1>5
  <1>8. AllReportable(first \o second, orders', kept')
    BY <1>5, <1>7, JoinedReportable
  <1> QED
    BY <1>6, <1>7, <1>8

\* A request about an order leaves its owner's form with it.
LEMMA RememberFacts ==
    ASSUME kept \in [OrderIds -> Forms], NEW u, NEW o \in OrderIds,
           kept[o] \in {"NONE", FormOf(u)}, Remember(u, o)
    PROVE  /\ kept' \in [OrderIds -> Forms] /\ kept'[o] = FormOf(u) /\ kept'[o] # "NONE"
           /\ \A q \in OrderIds \ {o} : kept'[q] = kept[q]
  <1> DEFINE form == IF u \in Trimmed THEN "TRIMMED"
                     ELSE IF kept[o] = "NONE" THEN "PLAIN" ELSE kept[o]
  <1>1. o # NoOrder
    BY MaxOrdersAssumption DEF OrderIds, NoOrder
  <1>2. kept' = [kept EXCEPT ![o] = form]
    BY <1>1 DEF Remember
  <1>3. form = FormOf(u) /\ form \in Forms /\ form # "NONE"
    BY DEF FormOf, Forms
  <1> HIDE DEF form
  <1> QED
    BY <1>2, <1>3

LEMMA AskedForm ==
    ASSUME IInv, KeptInv, Carried, nextId \in Nat,
           NEW u \in Users, NEW o \in OrderIds,
           o < nextId, orders[o].session = u, Remember(u, o)
    PROVE  KeptInv' /\ kept'[o] # "NONE"
  <1>1. /\ kept' \in [OrderIds -> Forms] /\ kept'[o] = FormOf(u) /\ kept'[o] # "NONE"
        /\ \A q \in OrderIds \ {o} : kept'[q] = kept[q]
    BY RememberFacts DEF KeptInv
  <1>2. orders'[o].session = u /\ nextId' = nextId /\ ~(o >= nextId)
    BY DEF Carried, OwnersKept, OrderIds
  <1>3. ASSUME NEW q \in OrderIds
        PROVE  /\ q >= nextId' => kept'[q] = "NONE"
               /\ orders'[q].session \in Users =>
                     /\ kept'[q] \in {"NONE", FormOf(orders'[q].session)}
                     /\ Unfinished(q)' => kept'[q] # "NONE"
    <2>1. CASE q = o
      BY <1>1, <1>2, <2>1
    <2>2. CASE q # o
      BY <1>1, <1>2, <2>2 DEF KeptInv, Carried, OwnersKept
    <2> QED
      BY <2>1, <2>2
  <1> QED
    BY <1>1, <1>3 DEF KeptInv

\* A new order takes the next number and its request's session.
LEMMA NewOrderEffect ==
    ASSUME IInv, NEW r \in Requests, NewOrder(r)
    PROVE  /\ nextId \in OrderIds /\ nextId' = nextId + 1
           /\ orders'[nextId].session = r.session
           /\ \A q \in OrderIds \ {nextId} :
                 /\ orders'[q] = orders[q]
                 /\ Unfinished(q)' => Unfinished(q)
  <1>1. nextId \in OrderIds /\ nextId' = nextId + 1 /\ task = "idle"
        /\ orders \in [OrderIds -> OrderType]
    BY DEF NewOrder, IInv, TypeOK, OrderIds
  <1> DEFINE ord == BuildOrder(r)
  <1>2. /\ \/ orders' = [orders EXCEPT ![nextId] = ord]
           \/ orders' = [orders EXCEPT ![nextId] = [ord EXCEPT !.status = "REJECTED"]]
           \/ orders' = [orders EXCEPT ![nextId] = Rested(ord)]
           \/ orders' = [orders EXCEPT ![nextId] = CancelOrder(ord)]
        /\ task' = "match" => cur' = nextId
    BY <1>1 DEF NewOrder, Submit, SubmitRejected, SubmitAccumulated, SubmitBlocked,
           SubmitMatching, Settle, taskVars
  <1>3. /\ ord.session = r.session
        /\ [ord EXCEPT !.status = "REJECTED"].session = r.session
        /\ Rested(ord).session = r.session
        /\ CancelOrder(ord).session = r.session
    BY DEF BuildOrder, Rested, CancelOrder
  <1> HIDE DEF ord
  <1>4. orders'[nextId].session = r.session
    BY <1>1, <1>2, <1>3
  <1>5. ASSUME NEW q \in OrderIds \ {nextId}
        PROVE  orders'[q] = orders[q] /\ (Unfinished(q)' => Unfinished(q))
    <2>1. orders'[q] = orders[q]
      BY <1>1, <1>2
    <2> QED
      BY <1>2, <2>1 DEF Unfinished
  <1> QED
    BY <1>1, <1>4, <1>5

\* Entering an order, for a user or an operator.
LEMMA NewOrderForm ==
    ASSUME IInv, KeptInv, NEW r \in Requests, NewOrder(r),
           \/ r.session \in Users /\ Remember(r.session, nextId)
           \/ r.session \notin Users /\ kept' = kept
    PROVE  /\ KeptInv'
           /\ AllReportable(SubmitEvents(nextId, r.session, FALSE), orders', kept')
  <1> DEFINE o == nextId
  <1>1. /\ o \in OrderIds /\ nextId' = o + 1 /\ o \in Nat
        /\ orders'[o].session = r.session
        /\ \A q \in OrderIds \ {o} : /\ orders'[q] = orders[q]
                                     /\ Unfinished(q)' => Unfinished(q)
    BY NewOrderEffect DEF OrderIds
  <1>2. kept[o] = "NONE" /\ kept \in [OrderIds -> Forms]
    BY <1>1 DEF KeptInv
  <1>3. /\ kept' \in [OrderIds -> Forms]
        /\ \A q \in OrderIds \ {o} : kept'[q] = kept[q]
        /\ r.session \in Users => kept'[o] = FormOf(r.session) /\ kept'[o] # "NONE"
    BY <1>1, <1>2, RememberFacts
  <1>4. ASSUME NEW q \in OrderIds
        PROVE  /\ q >= nextId' => kept'[q] = "NONE"
               /\ orders'[q].session \in Users =>
                     /\ kept'[q] \in {"NONE", FormOf(orders'[q].session)}
                     /\ Unfinished(q)' => kept'[q] # "NONE"
    <2>1. CASE q = o
      BY <1>1, <1>3, <2>1
    <2>2. CASE q # o
      <3>1. q \in Nat /\ (q >= nextId' => q >= nextId)
        BY <1>1 DEF OrderIds
      <3> QED
        BY <1>1, <1>3, <2>2, <3>1 DEF KeptInv
    <2> QED
      BY <2>1, <2>2
  <1>5. KeptInv'
    BY <1>3, <1>4 DEF KeptInv
  <1>6. AllReportable(SubmitEvents(o, r.session, FALSE), orders', kept')
    BY <1>1, <1>3, SubmitReportable
  <1> QED
    BY <1>5, <1>6

\* Whatever a user asks of the engine.
LEMMA AskingForm ==
    ASSUME IInv, FormInv, NEW u \in Users, Asking(u) PROVE FormInv'
  <1>0. KeptInv /\ TypeOK /\ nextId \in Nat
    BY DEF FormInv, IInv, TypeOK
  <1>1. shown' = shown /\ (ReportsKeepTheirForm => ReportsKeepTheirForm')
    <2>1. shown' = shown
      BY DEF Asking, OnNewOrder, OnCancel, OnModify, ChangeRejected, NseRequest
    <2> QED
      BY <2>1 DEF ReportsKeepTheirForm
  <1>2. ASSUME KeptInv', AllReportable(events', orders', kept') PROVE FormInv'
    BY <1>1, <1>2 DEF FormInv
  <1>3. ASSUME NEW r \in Requests, OnNewOrder(u, r, Validates(r.tif, r.price))
        PROVE  FormInv'
    <2>1. CASE /\ events' = << RejectEvent(u, NoKey) >>
               /\ UNCHANGED << vars, kept >>
      <3>1. Reportable(RejectEvent(u, NoKey), orders', kept')
        BY DEF Reportable, RejectEvent
      <3>2. AllReportable(events', orders', kept')
        BY <2>1, <3>1, FewReportable
      <3>3. KeptInv'
        BY <1>0, <2>1 DEF KeptInv, Unfinished, vars, bookVars, taskVars
      <3> QED
        BY <1>2, <3>2, <3>3
    <2>2. CASE /\ r.session = u /\ NewOrder(r) /\ Remember(u, nextId)
               /\ events' = SubmitEvents(nextId, u, FALSE)
      BY <1>0, <1>2, <2>2, NewOrderForm
    <2> QED
      BY <1>3, <2>1, <2>2 DEF OnNewOrder
  <1>4. ASSUME NEW o \in OrderIds, NEW invalid, ChangeRejected(u, o, invalid)
        PROVE  FormInv'
    <2>1. /\ events' = << CancelRejectEvent(Named(u, o), u, NoKey) >>
          /\ Remember(u, Named(u, o))
          /\ UNCHANGED vars
      BY <1>4 DEF ChangeRejected
    <2>2. Carried /\ orders' = orders
      BY <2>1, CarriedAlone DEF vars, bookVars, taskVars
    <2>3. CASE Named(u, o) = NoOrder
      <3>1. kept' = kept
        BY <2>1, <2>3 DEF Remember
      <3>2. KeptInv'
        BY <1>0, <2>2, <3>1 DEF KeptInv, Carried, OwnersKept
      <3>3. Reportable(CancelRejectEvent(NoOrder, u, NoKey), orders', kept')
        BY DEF Reportable, CancelRejectEvent
      <3> QED
        BY <1>2, <2>1, <2>3, <3>2, <3>3, FewReportable
    <2>4. CASE Named(u, o) # NoOrder
      <3>1. Named(u, o) = o /\ o < nextId /\ orders[o].session = u
        BY <2>4 DEF Named
      <3>2. KeptInv' /\ kept'[o] # "NONE"
        BY <1>0, <2>1, <2>2, <3>1, AskedForm
      <3>3. Reportable(CancelRejectEvent(o, u, NoKey), orders', kept')
        BY <2>2, <3>1, <3>2 DEF Reportable, CancelRejectEvent
      <3> QED
        BY <1>2, <2>1, <3>1, <3>2, <3>3, FewReportable
    <2> QED
      BY <2>3, <2>4
  <1>5. ASSUME NEW o \in OrderIds, Named(u, o) # NoOrder, Carried, Remember(u, o)
        PROVE  /\ KeptInv' /\ orders[o].session = u /\ orders'[o].session = u
               /\ OwnersKept /\ kept'[o] # "NONE"
    <2>1. o < nextId /\ orders[o].session = u
      BY <1>5 DEF Named
    <2>2. OwnersKept
      BY <1>5 DEF Carried
    <2> QED
      BY <1>0, <1>5, <2>1, <2>2, AskedForm DEF OwnersKept
  <1>6. ASSUME NEW o \in OrderIds, OnCancel(u, o) PROVE FormInv'
    <2>1. CASE /\ Named(u, o) # NoOrder /\ Cancel(o) /\ Remember(u, o)
               /\ events' = << Event("CANCELLED", o) >>
      <3>1. Carried
        BY <2>1, CarriedCancelled DEF Cancel, taskVars
      <3>2. /\ KeptInv' /\ OwnersKept /\ kept'[o] # "NONE"
        BY <1>5, <2>1, <3>1
      <3>3. Reportable(Event("CANCELLED", o), orders', kept')
        BY <3>2, EventReportable
      <3> QED
        BY <1>2, <2>1, <3>2, <3>3, FewReportable
    <2> QED
      BY <1>4, <1>6, <2>1 DEF OnCancel
  <1>7. ASSUME NEW o \in OrderIds, NEW a \in Amendments, OnModify(u, o, a, ValidAmend(o, a))
        PROVE  FormInv'
    <2>1. CASE /\ Named(u, o) # NoOrder /\ Amend(o, a) /\ Remember(u, o)
               /\ events' = << Event("REPLACED", o) >> \o SubmitEvents(o, u, TRUE)
      <3>1. Carried
        BY <2>1, CarriedAmend
      <3>2. /\ KeptInv' /\ orders'[o].session = u /\ OwnersKept /\ kept'[o] # "NONE"
        BY <1>5, <2>1, <3>1
      <3>3. Reportable(Event("REPLACED", o), orders', kept')
        BY <3>2, EventReportable
      <3>4. AllReportable(SubmitEvents(o, u, TRUE), orders', kept')
        BY <3>2, SubmitReportable
      <3>5. AllReportable(<< Event("REPLACED", o) >>, orders', kept')
        BY <3>3, FewReportable
      <3> QED
        BY <1>2, <2>1, <3>2, <3>4, <3>5, JoinedReportable
    <2> QED
      BY <1>4, <1>7, <2>1 DEF OnModify
  <1> QED
    BY <1>3, <1>6, <1>7 DEF Asking

\* An iteration of the matching loop.
LEMMA MatchForm == ASSUME IInv, IInv', FormInv, AppMatchStep PROVE FormInv'
  <1>0. KeptInv /\ AllReportable(events, orders, kept) /\ TypeOK
    BY DEF FormInv, IInv
  <1>1. MatchStep /\ kept' = kept /\ shown' = shown
    BY DEF AppMatchStep, EntryMatchStep, MatchStep, reportMemo
  <1>2. Carried /\ OwnersKept
    BY <1>1, CarriedMatch DEF Carried
  <1>3. KeptInv' /\ AllReportable(events, orders', kept')
    BY <1>0, <1>1, <1>2, CarriedForm
  <1>4. ASSUME NEW o \in OrderIds, Unfinished(o)
        PROVE  /\ \A kind : Reportable(Event(kind, o), orders', kept')
               /\ Reportable(FillEvent(o), orders', kept')
               /\ \A ord : Reportable(AcceptEvent(o, ord, orders[o].session), orders', kept')
    <2>1. orders[o].session \in Users => kept'[o] # "NONE"
      BY <1>0, <1>1, <1>4 DEF KeptInv
    <2> QED
      BY <1>2, <2>1, EventReportable
  <1>5. ASSUME NEW more, events' = events \o more, AllReportable(more, orders', kept')
        PROVE  FormInv'
    <2>1. AllReportable(events', orders', kept')
      BY <1>3, <1>5, JoinedReportable
    <2> QED
      BY <1>1, <1>3, <2>1 DEF FormInv, ReportsKeepTheirForm
  <1> SUFFICES ASSUME NEW o \in OrderIds,
                      \/ MatchDone(o) /\ Loop(MatchDoneEvents(o))
                      \/ \E r \in OrderIds :
                            \/ MatchExecute(o, r) /\ Loop(<< FillEvent(r), FillEvent(o) >>)
                            \/ StpCancelNewest(o, r) /\ Loop(<< Event("CANCELLED", o) >>)
                            \/ StpCancelOldest(o, r) /\ Loop(<< Event("CANCELLED", r) >>)
                            \/ StpDecrement(o, r) /\ Loop(DecrementEvents(o, r))
               PROVE  FormInv'
    BY DEF AppMatchStep, EntryMatchStep
  <1>6. CASE MatchDone(o) /\ Loop(MatchDoneEvents(o))
    <2>1. Unfinished(o)
      BY <1>6 DEF MatchDone, Matching, Unfinished
    <2>2. /\ AllReportable(<< >>, orders', kept')
          /\ AllReportable(<< Event("CANCELLED", o) >>, orders', kept')
          /\ AllReportable(<< AcceptEvent(o, orders[o], orders[o].session) >>, orders', kept')
      BY <1>4, <2>1, FewReportable
    <2>3. AllReportable(MatchDoneEvents(o), orders', kept')
      BY <2>2 DEF MatchDoneEvents, AcceptEvents
    <2> QED
      BY <1>5, <1>6, <2>3 DEF Loop
  <1>7. ASSUME NEW r \in OrderIds,
               MatchExecute(o, r) /\ Loop(<< FillEvent(r), FillEvent(o) >>)
        PROVE  FormInv'
    <2>1. Unfinished(o) /\ Unfinished(r)
      BY <1>7, MatchFacts DEF MatchExecute, Unfinished
    <2>2. AllReportable(<< FillEvent(r), FillEvent(o) >>, orders', kept')
      BY <1>4, <2>1, FewReportable
    <2> QED
      BY <1>5, <1>7, <2>2 DEF Loop
  <1>8. ASSUME NEW r \in OrderIds,
               \/ StpCancelNewest(o, r) /\ Loop(<< Event("CANCELLED", o) >>)
               \/ StpCancelOldest(o, r) /\ Loop(<< Event("CANCELLED", r) >>)
               \/ StpDecrement(o, r) /\ Loop(DecrementEvents(o, r))
        PROVE  FormInv'
    <2>1. Unfinished(o) /\ Unfinished(r)
      BY <1>8, SelfMatchFacts DEF StpCancelNewest, StpCancelOldest, StpDecrement, Unfinished
    <2>2. /\ AllReportable(<< Event("CANCELLED", o) >>, orders', kept')
          /\ AllReportable(<< Event("CANCELLED", r) >>, orders', kept')
          /\ \A k1, k2 : /\ AllReportable(<< Event(k1, r), Event(k2, o) >>, orders', kept')
      BY <1>4, <2>1, FewReportable
    <2>3. AllReportable(DecrementEvents(o, r), orders', kept')
      BY <2>2 DEF DecrementEvents
    <2> QED
      BY <1>5, <1>8, <2>2, <2>3 DEF Loop
  <1> QED
    BY <1>6, <1>7, <1>8

\* An iteration of the pre-open's auction, and its end.
LEMMA AuctionForm == ASSUME IInv, IInv', FormInv, PreOpenAuction PROVE FormInv'
  <1>0. KeptInv /\ AllReportable(events, orders, kept)
    BY DEF FormInv
  <1>1. AuctionStep /\ kept' = kept /\ shown' = shown
    BY DEF PreOpenAuction, AuctionStep, Operator, reportMemo
  <1>2. Carried /\ OwnersKept
    BY <1>1, CarriedAuction DEF Carried
  <1>3. KeptInv' /\ AllReportable(events, orders', kept')
    BY <1>0, <1>1, <1>2, CarriedForm
  <1>4. ASSUME NEW more, events' = events \o more, AllReportable(more, orders', kept')
        PROVE  FormInv'
    <2>1. AllReportable(events', orders', kept')
      BY <1>3, <1>4, JoinedReportable
    <2> QED
      BY <1>1, <1>3, <2>1 DEF FormInv, ReportsKeepTheirForm
  <1>5. ASSUME NEW b \in OrderIds, NEW s \in OrderIds, AuctionTrade(b, s),
               events' = events \o << FillEvent(b), FillEvent(s) >>
        PROVE  FormInv'
    <2>1. /\ orders[b].session \in Users => kept'[b] # "NONE"
          /\ orders[s].session \in Users => kept'[s] # "NONE"
      BY <1>0, <1>1, <1>5, AuctionFacts DEF KeptInv, Unfinished
    <2>2. AllReportable(<< FillEvent(b), FillEvent(s) >>, orders', kept')
      BY <1>2, <2>1, EventReportable, FewReportable
    <2> QED
      BY <1>4, <1>5, <2>2
  <1>6. ASSUME NEW S \in SUBSET OnBook, NEW q \in BookSequences(S),
               events' = events \o [i \in DOMAIN q |-> Event("CANCELLED", q[i])]
        PROVE  FormInv'
    <2>1. AllReportable([i \in DOMAIN q |-> Event("CANCELLED", q[i])], orders', kept')
      BY <1>0, <1>1, <1>2, CancelsReportable
    <2> QED
      BY <1>4, <1>6, <2>1
  <1> QED
    BY <1>5, <1>6 DEF PreOpenAuction

\* A report: an event that names its order finds the owner's form; what is forgotten
\* with the handler's last report is no longer named, and belongs to an order that
\* has ended.
LEMMA EmitForm == ASSUME IInv, FormInv, NseEmit PROVE FormInv'
  <1> DEFINE event == Head(events)
  <1>0. /\ KeptInv /\ AllReportable(events, orders, kept)
        /\ task = "idle" /\ events # << >>
        /\ events' = Tail(events) /\ shown' = NseRender(event)
        /\ IF Tail(events) = << >>
           THEN kept' = ForgetEnded(batch \cup {event.order})
           ELSE kept' = kept
        /\ UNCHANGED << orders, nextId, task, cur >>
    BY DEF FormInv, NseEmit, EmitStep, vars, bookVars, taskVars
  <1>1. PICK E : events \in Seq(E) /\ \A e \in E : Reportable(e, orders, kept)
    BY <1>0 DEF AllReportable
  <1>2. event \in E /\ Tail(events) \in Seq(E) /\ Reportable(event, orders, kept)
    BY <1>0, <1>1
  <1> HIDE DEF event
  <1>3. ReportsKeepTheirForm'
    <2> SUFFICES ASSUME event.order # NoOrder, event.owner \in Users
                 PROVE  kept[event.order] = FormOf(event.owner)
      BY <1>0 DEF ReportsKeepTheirForm, NseRender, Form, FormOf
    <2>1. /\ event.order \in OrderIds /\ event.owner = orders[event.order].session
          /\ kept[event.order] # "NONE"
      BY <1>2 DEF Reportable
    <2> QED
      BY <1>0, <2>1 DEF KeptInv
  <1>4. KeptInv'
    <2>1. \A o \in OrderIds : IsLive(orders[o]) => ~HasEnded(o)
      BY DEF IsLive, LIVE, HasEnded
    <2>2. /\ kept' \in [OrderIds -> Forms]
          /\ \A o \in OrderIds : \/ kept'[o] = kept[o]
                                 \/ kept'[o] = "NONE" /\ HasEnded(o)
      BY <1>0 DEF KeptInv, ForgetEnded, Forms
    <2>3. \A o \in OrderIds : Unfinished(o)' => Unfinished(o) /\ ~HasEnded(o)
      BY <1>0, <2>1 DEF Unfinished
    <2> QED
      BY <1>0, <2>2, <2>3 DEF KeptInv
  <1>5. AllReportable(events', orders', kept')
    <2>1. CASE Tail(events) = << >>
      BY <1>0, <2>1, FewReportable
    <2>2. CASE Tail(events) # << >>
      <3>1. events' \in Seq(E) /\ \A e \in E : Reportable(e, orders', kept')
        BY <1>0, <1>1, <1>2, <2>2
      <3> QED
        BY <3>1 DEF AllReportable
    <2> QED
      BY <2>1, <2>2
  <1> QED
    BY <1>3, <1>4, <1>5 DEF FormInv

\* Every step of the venue.
LEMMA FormStep == IInv /\ IInv' /\ FormInv /\ EngineNext => FormInv'
  <1> SUFFICES ASSUME IInv, IInv', FormInv, EngineNext PROVE FormInv'
    OBVIOUS
  <1>0. KeptInv /\ AllReportable(events, orders, kept) /\ ReportsKeepTheirForm
    BY DEF FormInv
  <1>1. ASSUME Carried, UNCHANGED << kept, shown >>, events' = events PROVE FormInv'
    BY <1>0, <1>1, CarriedForm DEF FormInv, ReportsKeepTheirForm
  <1>2. CASE Unaffected
    BY <1>1, <1>2, CarriedAlone DEF Unaffected, vars, bookVars, taskVars
  <1>3. ASSUME NEW S \in SUBSET OnBook, CancelsSome(S) PROVE FormInv'
    <2>1. Carried /\ OwnersKept
      BY <1>3, CarriedCancelled DEF CancelsSome, Ready, taskVars, Carried
    <2>2. PICK q \in BookSequences(S) :
              events' = [i \in DOMAIN q |-> Event("CANCELLED", q[i])]
      BY <1>3 DEF CancelsSome, CancelEvents
    <2>3. kept' = kept /\ shown' = shown
      BY <1>3 DEF CancelsSome
    <2>4. AllReportable([i \in DOMAIN q |-> Event("CANCELLED", q[i])], orders', kept')
      BY <1>0, <2>1, <2>3, CancelsReportable
    <2>5. KeptInv'
      BY <1>0, <2>1, <2>3, CarriedForm
    <2> QED
      BY <1>0, <2>2, <2>3, <2>4, <2>5 DEF FormInv, ReportsKeepTheirForm
  <1>4. ASSUME NEW r \in Requests, OperatorOrder(r, Validates(r.tif, r.price))
        PROVE  FormInv'
    <2>1. /\ r.session \notin Users /\ NewOrder(r) /\ UNCHANGED << kept, shown >>
          /\ events' = SubmitEvents(nextId, r.session, FALSE)
      BY <1>4 DEF OperatorOrder, Operator, reportMemo
    <2> QED
      BY <1>0, <2>1, NewOrderForm DEF FormInv, ReportsKeepTheirForm
  <1>5. CASE ChangesPhase
    <2>1. UNCHANGED << events, kept, shown >> /\ task = "idle" /\ nextId' = nextId
      BY <1>5 DEF ChangesPhase, Ready, SetMarketState, SetInstrumentState,
                  StartUncrossAt, Command
    <2>2. \/ orders' = Cancelled(OnBook) /\ task' = "idle"
          \/ orders' = orders /\ task' # "match"
      BY <1>5, <2>1 DEF ChangesPhase, SetMarketState, SetInstrumentState, ExpireOrders,
                        StartUncrossAt, taskVars
    <2> QED
      BY <1>1, <2>1, <2>2, CarriedAlone, CarriedCancelled
  <1> QED
    BY <1>2, <1>3, <1>4, <1>5, AskingForm, MatchForm, AuctionForm, EmitForm DEF EngineNext

\* The invariants of the market, and of the reports, are the venue's.
LEMMA EngineInvariance == NseSpec => [](IInv /\ FormInv)
  <1>b. BasePrices \subseteq Nat
    BY NseAssumption
  <1>1. NseInit => IInv /\ FormInv /\ base \in Nat
    <2> SUFFICES ASSUME NseInit PROVE IInv /\ FormInv /\ base \in Nat
      OBVIOUS
    <2>1. /\ Init /\ events = << >> /\ kept = [o \in OrderIds |-> "NONE"]
          /\ shown.order = NoOrder /\ base \in BasePrices
      BY DEF NseInit, AppInit, EntryInit
    <2>2. IInv
      BY <2>1, InitInv
    <2>3. \A o \in OrderIds : ~Unfinished(o)
      BY <2>1 DEF Init, Blank, Unfinished, IsLive, LIVE, Unborn
    <2>4. KeptInv
      BY <2>1, <2>3 DEF KeptInv, Forms
    <2> QED
      BY <1>b, <2>1, <2>2, <2>4, FewReportable DEF FormInv, ReportsKeepTheirForm
  <1>2. IInv /\ FormInv /\ base \in Nat /\ [NseNext]_nseAll => (IInv /\ FormInv /\ base \in Nat)'
    <2> SUFFICES ASSUME IInv, FormInv, base \in Nat, [NseNext]_nseAll
                 PROVE  IInv' /\ FormInv' /\ base' \in Nat
      OBVIOUS
    <2>1. EngineNext /\ base' \in Nat
      BY <1>b, EngineSteps
    <2> QED
      BY <2>1, EngineMarket, FormStep
  <1> QED
    BY <1>1, <1>2, PTL DEF NseSpec

\* "A report about an order goes back in the encoding that order arrived in,
\* including the unsolicited ones" (_trimmed): for any number of orders and users,
\* through fills, amendments, expiries, auctions and disconnects, down to the last
\* report of an order, after which _forget drops what was remembered.
THEOREM FormsAreKept == NseSpec => []ReportsKeepTheirForm
  <1>1. FormInv => ReportsKeepTheirForm
    BY DEF FormInv
  <1> QED
    BY <1>1, EngineInvariance, PTL

\* The venue keeps the market consistent: whatever it cancels on a disconnect,
\* expires, locks or uncrosses around the base price, the book holds exactly the
\* live orders and every status agrees with what has traded.
THEOREM NseMarketCorrect == NseSpec => []MarketIsConsistent
  <1>1. IInv => MarketIsConsistent
    BY DEF IInv, BookInv, BookHoldsExactlyTheLiveOrders, MarketIsConsistent
  <1> QED
    BY <1>1, EngineInvariance, PTL

=============================================================================
