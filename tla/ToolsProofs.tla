----------------------------- MODULE ToolsProofs -----------------------------
(***************************************************************************)
(* Proofs about the two programs that stand in front of a venue: the web   *)
(* board (WebConsole) and the scenario runner (Scenario).                  *)
(*                                                                         *)
(* The board's properties hold for every number of browsers and requests,  *)
(* every capacity of the tape and every size of its pages; the runner's    *)
(* for every suite of files and whatever the simulator sends.              *)
(***************************************************************************)
EXTENDS WebConsole, Scenario, FiniteSetTheorems, SequenceTheorems,
        WellFoundedInduction, TLAPS

----------------------------------------------------------------------------
(* The audit tape *)

\* The ring holds the numbers just below the next one, without a gap, and is empty
\* only before the first.
TapeInv(a) ==
    /\ a = [ring |-> a.ring, next |-> a.next]
    /\ a.next \in Nat \ {0} /\ a.ring \in Seq(Nat)
    /\ Len(a.ring) < a.next /\ Len(a.ring) <= Capacity
    /\ a.next > 1 => Len(a.ring) > 0
    /\ \A i \in 1..Len(a.ring) : a.ring[i] = a.next - 1 - Len(a.ring) + i

LEMMA TapeStarts == TapeInv(NewAudit)
  BY ControlAssumption DEF TapeInv, NewAudit

LEMMA TailFacts ==
    ASSUME NEW S, NEW s \in Seq(S), s # << >>
    PROVE  /\ Tail(s) \in Seq(S) /\ Len(Tail(s)) = Len(s) - 1 /\ Head(s) \in S
           /\ \A i \in 1..(Len(s) - 1) : Tail(s)[i] = s[i + 1]
           /\ Head(s) = s[1] /\ Len(s) \in Nat \ {0} /\ DOMAIN s = 1..Len(s)
           /\ DOMAIN Tail(s) = 1..(Len(s) - 1)
  OBVIOUS

LEMMA TapeGrows ==
    ASSUME NEW a, TapeInv(a)
    PROVE  TapeInv(record(a))
  <1> DEFINE ring == Append(a.ring, a.next)
  <1>1. /\ ring \in Seq(Nat) /\ Len(ring) = Len(a.ring) + 1
        /\ \A i \in 1..Len(ring) : ring[i] = a.next - Len(ring) + i
    BY DEF TapeInv
  <1>2. a.next \in Nat /\ Capacity \in Nat /\ Capacity > 0 /\ Len(a.ring) \in Nat
    BY ControlAssumption DEF TapeInv
  <1>3. record(a) = [ring |-> IF Len(ring) > Capacity THEN Tail(ring) ELSE ring,
                     next |-> a.next + 1]
    BY DEF record
  <1>4. Len(a.ring) < a.next /\ Len(a.ring) <= Capacity
    BY DEF TapeInv
  <1> HIDE DEF ring
  <1>5. /\ Len(Tail(ring)) = Len(a.ring) /\ Tail(ring) \in Seq(Nat)
        /\ \A i \in 1..Len(a.ring) : Tail(ring)[i] = ring[i + 1]
    <2>1. ring # << >>
      BY <1>1, <1>2
    <2> QED
      BY <1>1, <1>2, <2>1, TailFacts
  <1> DEFINE b == record(a)
  <1>6. b = [ring |-> b.ring, next |-> b.next] /\ b.next = a.next + 1
    BY <1>3
  <1>7. CASE Len(ring) > Capacity
    <2>1. b.ring = Tail(ring)
      BY <1>3, <1>7
    <2>2. Len(a.ring) = Capacity
      BY <1>1, <1>2, <1>4, <1>7
    <2> HIDE DEF b
    <2>3. ASSUME NEW i \in 1..Len(b.ring)
          PROVE  b.ring[i] = b.next - 1 - Len(b.ring) + i
      <3>0. i \in 1..Len(a.ring)
        BY <2>1, <1>5
      <3>1. i \in 1..Len(a.ring) /\ b.ring[i] = ring[i + 1] /\ i + 1 \in 1..Len(ring)
        BY <3>0, <2>1, <1>1, <1>2, <1>5
      <3>2. ring[i + 1] = a.next - Len(ring) + (i + 1)
        BY <3>1, <1>1
      <3>3. /\ Len(b.ring) = Len(ring) - 1 /\ Len(ring) \in Nat /\ i \in Nat
            /\ b.next = a.next + 1
        BY <2>1, <1>1, <1>2, <1>5, <1>6, <3>1
      <3>4. b.ring[i] = a.next - Len(ring) + (i + 1)
        BY <3>1, <3>2
      <3>5. a.next \in Nat
        BY <1>2
      <3>6. a.next - Len(ring) + (i + 1) = (a.next + 1) - 1 - (Len(ring) - 1) + i
        BY <3>3, <3>5
      <3> HIDE DEF ring
      <3> QED
        BY <3>3, <3>4, <3>6, Zenon
    <2>4. b.ring \in Seq(Nat) /\ Len(b.ring) = Capacity /\ b.next \in Nat \ {0}
      BY <2>1, <2>2, <1>2, <1>5, <1>6
    <2>5. Len(b.ring) < b.next /\ Len(b.ring) <= Capacity /\ Len(b.ring) > 0
      BY <2>4, <2>2, <1>2, <1>4, <1>6
    <2>6. TapeInv(b)
      BY <2>3, <2>4, <2>5, <1>6 DEF TapeInv
    <2> QED
      BY <2>6 DEF b
  <1>8. CASE ~(Len(ring) > Capacity)
    <2>1. b.ring = ring
      BY <1>3, <1>8
    <2> HIDE DEF b
    <2>2. TapeInv(b)
      BY <2>1, <1>1, <1>2, <1>4, <1>6, <1>8 DEF TapeInv
    <2> QED
      BY <2>2 DEF b
  <1> QED
    BY <1>7, <1>8

\* The numbers on the tape, between the oldest and the newest.
LEMMA TapeRange ==
    ASSUME NEW a, TapeInv(a)
    PROVE  \E low \in Nat \ {0}, last \in Nat :
              /\ a.next = last + 1 /\ low <= last + 1
              /\ \A q : q \in Range(a.ring) <=> q \in low..last
              /\ a.ring # << >> => Head(a.ring) = low /\ low <= last
              /\ last > 0 => a.ring # << >>
  <1> DEFINE n == Len(a.ring)
             last == a.next - 1
             low == a.next - n
  <1>1. /\ a.ring \in Seq(Nat) /\ n \in Nat /\ last \in Nat /\ a.next = last + 1
        /\ low \in Nat \ {0} /\ low <= last + 1 /\ n = last + 1 - low
    <2>1. a.ring \in Seq(Nat) /\ a.next \in Nat \ {0} /\ n \in Nat /\ n < a.next
      BY DEF TapeInv
    <2> HIDE DEF n
    <2>2. last \in Nat /\ a.next = last + 1
      BY <2>1
    <2>3. low \in Nat \ {0} /\ low <= last + 1 /\ n = last + 1 - low
      BY <2>1
    <2> QED
      BY <2>1, <2>2, <2>3
  <1>2. \A i \in 1..n : a.ring[i] = a.next - 1 - n + i
    BY DEF TapeInv
  <1>3. last > 0 => n > 0
    BY <1>1 DEF TapeInv
  <1>4. DOMAIN a.ring = 1..n
    BY <1>1
  <1> HIDE DEF n, last, low
  <1>5. \A i \in 1..n : a.ring[i] = low - 1 + i
    BY <1>1, <1>2
  <1>6. ASSUME NEW q PROVE q \in Range(a.ring) <=> q \in low..last
    <2>1. ASSUME q \in Range(a.ring) PROVE q \in low..last
      <3>1. PICK i \in 1..n : q = a.ring[i]
        BY <2>1, <1>4 DEF Range
      <3> QED
        BY <3>1, <1>1, <1>5
    <2>2. ASSUME q \in low..last PROVE q \in Range(a.ring)
      <3>1. q - low + 1 \in 1..n
        BY <2>2, <1>1
      <3>2. a.ring[q - low + 1] = q
        BY <2>2, <3>1, <1>1, <1>5
      <3> QED
        BY <3>1, <3>2, <1>4 DEF Range
    <2> QED
      BY <2>1, <2>2
  <1>7. a.ring # << >> => Head(a.ring) = low /\ low <= last
    <2> SUFFICES ASSUME a.ring # << >> PROVE Head(a.ring) = low /\ low <= last
      OBVIOUS
    <2>1. 1 \in 1..n /\ Head(a.ring) = a.ring[1]
      BY <1>1, <1>4, TailFacts
    <2>2. a.ring[1] = low - 1 + 1
      BY <2>1, <1>5
    <2> QED
      BY <1>1, <2>1, <2>2
  <1>8. last > 0 => a.ring # << >>
    BY <1>1, <1>3, <1>4
  <1> QED
    BY <1>1, <1>6, <1>7, <1>8

\* The newest entries of an unbroken run are an unbroken run up to its end.
LEMMA NewestFacts ==
    ASSUME NEW last \in Nat, NEW new, new \subseteq 1..last,
           \A q \in new : \A r \in q..last : r \in new
    PROVE  /\ newest(new) \subseteq new
           /\ \A q \in newest(new) : \A r \in q..last : r \in newest(new)
           /\ new # {} => newest(new) # {}
  <1> DEFINE above(q) == {r \in new : r >= q}
             shown == newest(new)
  <1>1. PageLimit \in Nat /\ PageLimit >= 1
    BY ControlAssumption
  <1>2. IsFiniteSet(new)
    <2>1. IsFiniteSet(1..last)
      BY FS_Interval, 1 \in Int, last \in Int
    <2> QED
      BY <2>1, FS_Subset
  <1>3. \A q : above(q) \subseteq new
    OBVIOUS
  <1>4. \A q : IsFiniteSet(above(q)) /\ Cardinality(above(q)) \in Nat
    BY <1>2, <1>3, FS_Subset, FS_CardinalityType
  <1>5. \A q : q \in shown <=> q \in new /\ Cardinality(above(q)) <= PageLimit
    BY DEF newest
  <1> HIDE DEF shown
  <1>6. ASSUME NEW q \in shown, NEW r \in q..last PROVE r \in shown
    <2>1. q \in new /\ Cardinality(above(q)) <= PageLimit /\ r \in new
      BY <1>5
    <2>2. q \in Nat /\ r \in Nat /\ r >= q
      BY <2>1
    <2>3. above(r) \subseteq above(q)
      <3> SUFFICES ASSUME NEW x \in new, x >= r PROVE x >= q
        OBVIOUS
      <3>1. x \in Nat
        OBVIOUS
      <3> QED
        BY <3>1, <2>2
    <2>4. Cardinality(above(r)) <= Cardinality(above(q))
      BY <1>4, <2>3, FS_Subset
    <2> HIDE DEF above
    <2>5. Cardinality(above(r)) <= PageLimit
      BY <1>1, <1>4, <2>1, <2>4
    <2> QED
      BY <1>5, <2>1, <2>5
  <1>7. ASSUME new # {} PROVE last \in shown
    <2>1. PICK q \in new : TRUE
      BY <1>7
    <2>2. q \in 1..last /\ last \in q..last
      BY <2>1
    <2>3. last \in new
      BY <2>1, <2>2
    <2>4. \A x \in new : x >= last <=> x = last
      OBVIOUS
    <2>5. above(last) = {last}
      BY <2>3, <2>4, Zenon
    <2>6. Cardinality({last}) = 1
      BY FS_Singleton
    <2> QED
      BY <1>1, <1>5, <2>3, <2>5, <2>6
  <1> QED
    BY <1>5, <1>6, <1>7 DEF shown

\* What a page promises a reader whose cursor was at after: it shows its newest
\* entries without a gap, and everything past the cursor unless it says otherwise.
Sound(page, after) ==
    /\ \A q \in page.seqs : \A r \in q..page.last_seq : r \in page.seqs
    /\ \A q \in page.seqs : q \in 1..page.last_seq
    /\ after # None /\ ~page.truncated => (after + 1)..page.last_seq \subseteq page.seqs
    /\ page.truncated => page.seqs # {}

Pages == [seqs : SUBSET Nat, last_seq : Nat, life : Nat, truncated : BOOLEAN]

LEMMA PageSound ==
    ASSUME NEW a, TapeInv(a), NEW after \in Nat \cup {None}, NEW n \in Nat
    PROVE  /\ [entries(a, after) EXCEPT !.life = n] \in Pages
           /\ [entries(a, after) EXCEPT !.life = n].life = n
           /\ Sound([entries(a, after) EXCEPT !.life = n], after)
  <1>1. PICK low \in Nat \ {0}, last \in Nat :
              /\ a.next = last + 1 /\ low <= last + 1
              /\ \A q : q \in Range(a.ring) <=> q \in low..last
              /\ a.ring # << >> => Head(a.ring) = low /\ low <= last
              /\ last > 0 => a.ring # << >>
    BY TapeRange
  <1> DEFINE new == past(a, after)
             shown == newest(new)
             evicted == after # None /\ a.ring # <<>> /\ after + 1 < Head(a.ring)
             page == [entries(a, after) EXCEPT !.life = n]
  <1>2. page = [seqs |-> shown, last_seq |-> last, life |-> n,
                truncated |-> (shown # new \/ evicted)]
    <2>1. a.next - 1 = last
      BY <1>1
    <2> QED
      BY <2>1 DEF entries, Page
  <1>3. \A q : q \in new <=> q \in low..last /\ (after = None \/ q > after)
    BY <1>1 DEF past
  <1>4. None \notin Nat
    BY BoardAssumption
  <1> HIDE DEF new, evicted, page
  <1>5. new \subseteq 1..last /\ \A q \in new : \A r \in q..last : r \in new
    <2>1. new \subseteq 1..last
      BY <1>3
    <2>2. ASSUME NEW q \in new, NEW r \in q..last PROVE r \in new
      <3>1. q \in low..last /\ (after = None \/ q > after)
        BY <1>3
      <3>2. r \in low..last /\ (after = None \/ r > after)
        BY <3>1, <1>4
      <3> QED
        BY <3>2, <1>3
    <2> QED
      BY <2>1, <2>2
  <1>6. /\ shown \subseteq new /\ (new # {} => shown # {})
        /\ \A q \in shown : \A r \in q..last : r \in shown
    BY <1>5, NewestFacts
  <1> HIDE DEF shown
  <1>7. ASSUME after # None, ~evicted PROVE (after + 1)..last \subseteq new
    <2> SUFFICES ASSUME NEW q \in (after + 1)..last PROVE q \in new
      OBVIOUS
    <2>1. after \in Nat /\ q \in Nat /\ last > 0 /\ q > after
      BY <1>7
    <2>2. ~(after + 1 < low)
      BY <1>1, <1>7, <2>1 DEF evicted
    <2> QED
      BY <2>1, <2>2, <1>3
  <1>8. ASSUME evicted PROVE new # {}
    <2>1. after \in Nat /\ after + 1 < low /\ low <= last
      BY <1>1, <1>8 DEF evicted
    <2>2. last \in new
      BY <2>1, <1>3
    <2> QED
      BY <2>2
  <1>9. evicted \in BOOLEAN
    BY DEF evicted
  <1>10. page \in Pages
    BY <1>2, <1>5, <1>6, <1>9 DEF Pages
  <1>11. Sound(page, after)
    <2>1. /\ \A q \in page.seqs : \A r \in q..page.last_seq : r \in page.seqs
          /\ \A q \in page.seqs : q \in 1..page.last_seq
      BY <1>2, <1>5, <1>6
    <2>2. ASSUME after # None, ~page.truncated
          PROVE  (after + 1)..page.last_seq \subseteq page.seqs
      BY <2>2, <1>2, <1>7
    <2>3. page.truncated => page.seqs # {}
      BY <1>2, <1>6, <1>8
    <2> QED
      BY <2>1, <2>2, <2>3 DEF Sound
  <1> QED
    BY <1>2, <1>10, <1>11 DEF page
----------------------------------------------------------------------------
(* The board's state *)

Codes == {"ok", "unavailable", "timeout", "bad_request", "forbidden", "unauthorised",
          "not_found", "conflict", "unknown_command"}

Replies == [tag : Tags \cup {None}, code : Codes, page : Pages \cup {None}]

HttpType == [open : BOOLEAN, closing : BOOLEAN, buffer : Seq(Requests),
             responder : Requests \cup {None}, stream : BOOLEAN, out : Seq(Replies)]

LinkType == [conn : {"none", "connecting", "open"}, retry : BOOLEAN, ids : Nat,
             pending : SUBSET [id : Nat, tag : Tags], topics : BOOLEAN]

Commands == {"auth", "subscribe"} \cup UNION {Asked[b] : b \in Browsers}

Questions == [id : Nat, cmd : Commands,
              tag : Tags \cup {None}, after : Nat \cup {None}]
Answers == [id : Nat, reply : Replies] \cup {Push}

SessionType == [open : BOOLEAN, authenticated : BOOLEAN, subscribed : BOOLEAN]

Desks == [listed : BOOLEAN, live : {0, 1}]

VenueType == [up : BOOLEAN, life : Nat, ses : SessionType,
              audit : [ring : Seq(Nat), next : Nat],
              desk : Desks]

TailType == [after : Nat \cup {None}, life : Nat,
             seen : SUBSET (Nat \X Nat), gaps : SUBSET (Nat \X Nat)]

BoardTypes ==
    /\ venue \in VenueType
    /\ link \in LinkType
    /\ wire \in [up : Seq(Questions), down : Seq(Answers)]
    /\ http \in [Browsers -> HttpType]
    /\ waits \in [Browsers -> Tags \cup {None}]
    /\ tail \in TailType
    /\ used \in [requests : [Browsers -> Nat], faults : Nat, acts : Nat]

LEMMA NoneIsNothing == None \notin Nat /\ None \notin Tags /\ None \notin Requests
  BY BoardAssumption

LEMMA AnswerFacts ==
    ASSUME NEW h \in HttpType, NEW r \in Replies, h.responder # None
    PROVE  /\ Answer(h, r) \in HttpType
           /\ Answer(h, r).responder = None /\ Answer(h, r).buffer = h.buffer
           /\ Answer(h, r).out = Append(h.out, r)
  <1>1. h.responder \in Requests /\ h.responder.keep \in BOOLEAN
    BY DEF HttpType, Requests
  <1>2. (~h.responder.keep) \in BOOLEAN /\ Append(h.out, r) \in Seq(Replies)
    BY DEF HttpType
  <1> QED
    BY <1>2 DEF Answer, HttpType

LEMMA ReplyFacts ==
    ASSUME NEW tag \in Tags \cup {None}, NEW code \in Codes, NEW page \in Pages \cup {None}
    PROVE  /\ Reply(tag, code, page) \in Replies
           /\ Reply(tag, code, page).tag = tag
           /\ Reply(tag, code, page).code = code
           /\ Reply(tag, code, page).page = page
  BY DEF Reply, Replies

LEMMA LineFacts ==
    ASSUME NEW id \in Nat, NEW cmd \in Commands,
           NEW tag \in Tags \cup {None}, NEW after \in Nat \cup {None}
    PROVE  /\ Line(id, cmd, tag, after) \in Questions
           /\ Line(id, cmd, tag, after).id = id
           /\ Line(id, cmd, tag, after).cmd = cmd
           /\ Line(id, cmd, tag, after).tag = tag
           /\ Line(id, cmd, tag, after).after = after
  BY DEF Line, Questions

LEMMA ConcatFacts ==
    ASSUME NEW S, NEW x \in S, NEW y \in S
    PROVE  << x >> \o << y >> = << x, y >> /\ << x >> \o << >> = << x >> /\ << >> \o << x >> = << x >>
  <1>1. << x >> \in Seq(S) /\ << y >> \in Seq(S)
    OBVIOUS
  <1>2. << x >> \o << y >> = << x, y >>
    <2>1. << x >> \o << y >> \in Seq(S) /\ << x, y >> \in Seq(S)
      BY <1>1, ConcatProperties
    <2>2. Len(<< x >> \o << y >>) = 2 /\ Len(<< x, y >>) = 2
      BY <1>1, ConcatProperties
    <2>3. \A i \in 1..2 : (<< x >> \o << y >>)[i] = << x, y >>[i]
      BY <1>1, ConcatProperties
    <2> QED
      BY <2>1, <2>2, <2>3, SeqEqual
  <1>3. << x >> \o << >> = << x >>
    BY <1>1, ConcatEmptySeq
  <1>4. << >> \o << x >> = << x >>
    BY <1>1, ConcatEmptySeq
  <1> QED
    BY <1>2, <1>3, <1>4

\* The first lines of a connection carry the next numbers, one each, and ask
\* nothing for a browser; the token comes first.
LEMMA GreetingFacts ==
    ASSUME NEW id \in Nat
    PROVE  /\ Greeting(id) \in Seq(Questions)
           /\ \A i \in 1..Len(Greeting(id)) :
                 Greeting(id)[i].id = id + i - 1 /\ Greeting(id)[i].tag = None
           /\ LinkToken # None => Greeting(id) # << >> /\ Head(Greeting(id)).cmd = "auth"
  <1> DEFINE auth(n) == Line(n, "auth", None, None)
             topics(n) == Line(n, "subscribe", None, None)
  <1>1. ASSUME NEW n \in Nat
        PROVE  /\ auth(n) \in Questions /\ topics(n) \in Questions
               /\ auth(n).id = n /\ auth(n).tag = None /\ auth(n).cmd = "auth"
               /\ topics(n).id = n /\ topics(n).tag = None
    <2>1. /\ "auth" \in Commands /\ "subscribe" \in Commands
          /\ None \in Tags \cup {None} /\ None \in Nat \cup {None}
      BY DEF Commands
    <2>2. /\ auth(n) \in Questions
          /\ auth(n).id = n /\ auth(n).tag = None /\ auth(n).cmd = "auth"
      BY <2>1 DEF Line, Questions
    <2>3. topics(n) \in Questions /\ topics(n).id = n /\ topics(n).tag = None
      BY <2>1 DEF Line, Questions
    <2> QED
      BY <2>2, <2>3
  <1>2. /\ AuthLine(id) = IF LinkToken # None THEN << auth(id) >> ELSE << >>
        /\ \A n \in Nat : TopicsLine(n) = IF link.topics THEN << topics(n) >> ELSE << >>
        /\ Greeting(id) = AuthLine(id) \o TopicsLine(id + Len(AuthLine(id)))
    <2>1. AuthLine(id) = IF LinkToken # None THEN << auth(id) >> ELSE << >>
      BY Zenon DEF AuthLine
    <2>2. \A n \in Nat : TopicsLine(n) = IF link.topics THEN << topics(n) >> ELSE << >>
      BY Zenon DEF TopicsLine
    <2>3. Greeting(id) = AuthLine(id) \o TopicsLine(id + Len(AuthLine(id)))
      BY Zenon DEF Greeting
    <2> QED
      BY <2>1, <2>2, <2>3, Zenon
  <1> HIDE DEF auth, topics
  <1>3. CASE LinkToken # None /\ link.topics
    <2>0. AuthLine(id) = << auth(id) >> /\ id + Len(AuthLine(id)) = id + 1
      BY <1>2, <1>3
    <2>5. TopicsLine(id + Len(AuthLine(id))) = << topics(id + 1) >>
      BY <1>2, <1>3, <2>0
    <2>6. << auth(id) >> \o << topics(id + 1) >> = << auth(id), topics(id + 1) >>
      <3>1. auth(id) \in Questions /\ topics(id + 1) \in Questions
        BY <1>1
      <3> QED
        BY <3>1, ConcatFacts, Zenon
    <2>1. Greeting(id) = << auth(id), topics(id + 1) >>
      BY <1>2, <2>0, <2>5, <2>6, Zenon
    <2>2. DOMAIN Greeting(id) = {1, 2} /\ Len(Greeting(id)) = 2 /\ 1..2 = {1, 2}
      <3>1. /\ Len(<< auth(id), topics(id + 1) >>) = 2
            /\ DOMAIN << auth(id), topics(id + 1) >> = 1..2
        OBVIOUS
      <3>2. 1..2 = {1, 2}
        OBVIOUS
      <3> HIDE DEF auth, topics
      <3> QED
        BY <2>1, <3>1, <3>2, Zenon
    <2>3. Greeting(id)[1] = auth(id) /\ Greeting(id)[2] = topics(id + 1)
      BY <2>1
    <2>4. /\ Greeting(id) \in Seq(Questions)
          /\ Greeting(id) # << >> /\ Head(Greeting(id)) = auth(id)
      BY <2>1, <1>1
    <2> QED
      BY <2>2, <2>3, <2>4, <1>1
  <1>4. CASE LinkToken # None /\ ~link.topics
    <2>0. AuthLine(id) = << auth(id) >> /\ id + Len(AuthLine(id)) = id + 1
      BY <1>2, <1>4
    <2>3. TopicsLine(id + Len(AuthLine(id))) = << >>
      BY <1>2, <1>4, <2>0
    <2>4. << auth(id) >> \o << >> = << auth(id) >>
      BY <1>1, ConcatFacts
    <2>1. Greeting(id) = << auth(id) >>
      BY <1>2, <2>0, <2>3, <2>4
    <2>2. /\ Len(<< auth(id) >>) = 1 /\ << auth(id) >>[1] = auth(id)
          /\ << auth(id) >> # << >> /\ Head(<< auth(id) >>) = auth(id)
          /\ << auth(id) >> \in Seq(Questions)
      BY <1>1
    <2> QED
      BY <2>1, <2>2, <1>1
  <1>5. CASE LinkToken = None /\ link.topics
    <2>0. AuthLine(id) = << >> /\ id + Len(AuthLine(id)) = id
      BY <1>2, <1>5
    <2>2. TopicsLine(id + Len(AuthLine(id))) = << topics(id) >>
      BY <1>2, <1>5, <2>0
    <2>1. Greeting(id) = << topics(id) >>
      BY <1>1, <1>2, <2>0, <2>2, ConcatFacts
    <2> QED
      BY <2>1, <1>1, <1>5
  <1>6. CASE LinkToken = None /\ ~link.topics
    <2>0. AuthLine(id) = << >> /\ id + Len(AuthLine(id)) = id
      BY <1>2, <1>6
    <2>1. Greeting(id) = << >>
      BY <1>1, <1>2, <1>6, <2>0
    <2> QED
      BY <2>1, <1>6
  <1> QED
    BY <1>3, <1>4, <1>5, <1>6

\* A callback answers the request in hand of its own browser.
LEMMA SettleFacts ==
    ASSUME BoardTypes, NEW calls, NEW code \in Codes, Settle(calls, code, None)
    PROVE  /\ http' \in [Browsers -> HttpType]
           /\ \A b \in Browsers :
                 \/ http'[b] = http[b]
                 \/ /\ http[b].responder # None
                    /\ http'[b] = Answer(http[b], Reply(http[b].responder.tag, code, None))
  <1>1. \A b \in Browsers : http[b] \in HttpType
    BY DEF BoardTypes
  <1>2. ASSUME NEW b \in Browsers, http[b].responder # None
        PROVE  Answer(http[b], Reply(http[b].responder.tag, code, None)) \in HttpType
    <2>1. http[b].responder \in Requests
      BY <1>1, <1>2 DEF HttpType
    <2>2. http[b].responder.tag \in Tags
      BY <2>1 DEF Requests
    <2> QED
      BY <1>1, <1>2, <2>2, ReplyFacts, AnswerFacts
  <1>3. \A b \in Browsers :
                 \/ http'[b] = http[b]
                 \/ /\ http[b].responder # None
                    /\ http'[b] = Answer(http[b], Reply(http[b].responder.tag, code, None))
    BY DEF Settle
  <1>4. DOMAIN http' = Browsers /\ http' = [b \in Browsers |-> http'[b]]
    BY DEF Settle
  <1>5. \A b \in Browsers : http'[b] \in HttpType
    BY <1>1, <1>2, <1>3
  <1> QED
    BY <1>3, <1>4, <1>5

Elements(s) == {s[i] : i \in 1..Len(s)}

LEMMA ElementsFacts ==
    ASSUME NEW S, NEW s \in Seq(S)
    PROVE  /\ Elements(s) \subseteq S /\ Elements(<< >>) = {}
           /\ \A x \in S : Elements(Append(s, x)) = Elements(s) \cup {x}
           /\ s # << >> => Head(s) \in Elements(s) /\ Elements(Tail(s)) \subseteq Elements(s)
           /\ \A t \in Seq(S) : Elements(s \o t) = Elements(s) \cup Elements(t)
           /\ \A t \in KeptAtClose(s) : t \in Seq(S) /\ Elements(t) \subseteq Elements(s)
  <1>1. Elements(s) \subseteq S /\ Elements(<< >>) = {}
    BY DEF Elements
  <1>2. ASSUME NEW x \in S PROVE Elements(Append(s, x)) = Elements(s) \cup {x}
    <2> DEFINE t == Append(s, x)
    <2>1. /\ Len(s) \in Nat /\ Len(t) = Len(s) + 1 /\ t[Len(s) + 1] = x
          /\ \A i \in 1..Len(s) : t[i] = s[i]
      OBVIOUS
    <2> HIDE DEF t
    <2>2. 1..Len(t) = 1..Len(s) \cup {Len(s) + 1}
      BY <2>1
    <2>3. \A i \in 1..Len(s) : i \in 1..Len(t)
      BY <2>1
    <2>4. Elements(t) \subseteq Elements(s) \cup {x}
      BY <2>1, <2>2 DEF Elements
    <2>5. Elements(s) \subseteq Elements(t)
      BY <2>1, <2>3 DEF Elements
    <2>6. x \in Elements(t)
      BY <2>1, <2>2 DEF Elements
    <2>7. Elements(t) = Elements(s) \cup {x}
      BY <2>4, <2>5, <2>6
    <2> QED
      BY <2>7 DEF t
  <1>3. ASSUME s # << >>
        PROVE  Head(s) \in Elements(s) /\ Elements(Tail(s)) \subseteq Elements(s)
    <2>1. /\ Head(s) = s[1] /\ Len(s) \in Nat \ {0} /\ Len(Tail(s)) = Len(s) - 1
          /\ \A i \in 1..(Len(s) - 1) : Tail(s)[i] = s[i + 1]
      BY <1>3, TailFacts
    <2>2. \A i \in 1..(Len(s) - 1) : i + 1 \in 1..Len(s)
      BY <2>1
    <2>3. 1 \in 1..Len(s)
      BY <2>1
    <2> QED
      BY <2>1, <2>2, <2>3 DEF Elements
  <1>4. ASSUME NEW t \in Seq(S) PROVE Elements(s \o t) = Elements(s) \cup Elements(t)
    <2> DEFINE u == s \o t
    <2>1. /\ Len(s) \in Nat /\ Len(t) \in Nat /\ Len(u) = Len(s) + Len(t)
          /\ \A i \in 1..(Len(s) + Len(t)) :
                u[i] = IF i <= Len(s) THEN s[i] ELSE t[i - Len(s)]
      BY ConcatProperties
    <2> HIDE DEF u
    <2>2. ASSUME NEW i \in 1..Len(u) PROVE u[i] \in Elements(s) \cup Elements(t)
      <3>1. CASE i <= Len(s)
        BY <2>1, <3>1 DEF Elements
      <3>2. CASE ~(i <= Len(s))
        <4>1. i - Len(s) \in 1..Len(t) /\ u[i] = t[i - Len(s)]
          BY <2>1, <3>2
        <4> QED
          BY <4>1 DEF Elements
      <3> QED
        BY <3>1, <3>2
    <2>3. ASSUME NEW i \in 1..Len(s) PROVE s[i] \in Elements(u)
      <3>1. i \in 1..Len(u) /\ u[i] = s[i]
        BY <2>1
      <3> QED
        BY <3>1 DEF Elements
    <2>4. ASSUME NEW i \in 1..Len(t) PROVE t[i] \in Elements(u)
      <3>1. i + Len(s) \in 1..Len(u) /\ i + Len(s) - Len(s) = i /\ ~(i + Len(s) <= Len(s))
        BY <2>1
      <3>2. u[i + Len(s)] = t[i]
        BY <2>1, <3>1
      <3> QED
        BY <3>1, <3>2 DEF Elements
    <2>5. Elements(u) = Elements(s) \cup Elements(t)
      BY <2>2, <2>3, <2>4 DEF Elements
    <2> QED
      BY <2>5 DEF u
  <1>5. ASSUME NEW t \in KeptAtClose(s) PROVE t \in Seq(S) /\ Elements(t) \subseteq Elements(s)
    <2>1. PICK n \in 0..Len(s) : t = SubSeq(s, 1, n)
      BY DEF KeptAtClose
    <2>2. \A i \in 1..n : s[i] \in S
      OBVIOUS
    <2>3. /\ t \in Seq(S) /\ Len(t) = IF 1 <= n THEN n - 1 + 1 ELSE 0
          /\ \A i \in 1..(n - 1 + 1) : t[i] = s[1 + i - 1]
      BY <2>1, <2>2, SubSeqProperties
    <2>4. Len(t) = n /\ \A i \in 1..n : t[i] = s[i] /\ i \in 1..Len(s)
      BY <2>3
    <2> QED
      BY <2>3, <2>4 DEF Elements
  <1> QED
    BY <1>1, <1>2, <1>3, <1>4, <1>5

\* A command answers with its code, never as if it had not been let in, and leaves
\* an order only in an instrument that is listed.
LEMMA HandlerFacts ==
    ASSUME NEW cmd, NEW d \in Desks
    PROVE  /\ handler(cmd, d).desk \in Desks
           /\ handler(cmd, d).code \in Codes \ {"unauthorised"}
           /\ handler(cmd, d).published \in BOOLEAN
           /\ (d.live > 0 => d.listed) =>
                 (handler(cmd, d).desk.live > 0 => handler(cmd, d).desk.listed)
  <1>1. instrument_remove(d) =
           IF ~d.listed THEN Outcome("not_found", d, FALSE)
           ELSE IF d.live > 0 THEN Outcome("conflict", d, FALSE)
           ELSE Outcome("ok", [d EXCEPT !.listed = FALSE], FALSE)
    BY DEF instrument_remove, Refused
  <1> DEFINE o == handler(cmd, d)
             less == [d EXCEPT !.listed = FALSE]
  <1> HIDE DEF less
  <1>2. \/ o = Outcome("not_found", d, FALSE)
        \/ o = Outcome("conflict", d, FALSE)
        \/ o = Outcome("ok", less, FALSE) /\ ~(d.live > 0)
        \/ o = Outcome("ok", d, FALSE)
        \/ o = Outcome("unknown_command", d, FALSE)
    <2>1. CASE cmd = "instrument.remove"
      <3>1. o = instrument_remove(d)
        BY <2>1 DEF handler, QuietCommands, OpenCommands
      <3> HIDE DEF o
      <3> QED
        BY <1>1, <3>1 DEF less
    <2>2. CASE cmd # "instrument.remove" /\ cmd \in QuietCommands
      BY <2>2 DEF handler, Refused
    <2>3. CASE cmd # "instrument.remove" /\ cmd \notin QuietCommands
      BY <2>3 DEF handler, Refused
    <2> QED
      BY <2>1, <2>2, <2>3
  <1> HIDE DEF o
  <1>3. o.desk \in {d, less} /\ o.published = FALSE
    BY <1>2 DEF Outcome
  <1>4. o.code \in {"not_found", "conflict", "ok", "unknown_command"}
    BY <1>2 DEF Outcome
  <1>5. o.desk = d \/ (o.desk = less /\ ~(d.live > 0))
    BY <1>2 DEF Outcome
  <1>6. less \in Desks /\ less.live = d.live
    BY DEF less, Desks
  <1>7. o.desk \in Desks /\ o.published \in BOOLEAN
    BY <1>3, <1>6
  <1>8. o.code \in Codes \ {"unauthorised"}
    BY <1>4 DEF Codes
  <1>9. (d.live > 0 => d.listed) => (o.desk.live > 0 => o.desk.listed)
    BY <1>5, <1>6
  <1> QED
    BY <1>7, <1>8, <1>9 DEF o

Authorised == Token \in {None, LinkToken}

\* The venue's side: its tape, the life of its process, and the session, which is
\* authenticated or about to be.
VenueInv ==
    /\ TapeInv(venue.audit)
    /\ venue.up => venue.life > 0
    /\ venue.ses.open => venue.up
    /\ LiveOrdersAreListed

GreetedInv ==
    Authorised /\ venue.ses.open =>
        venue.ses.authenticated \/ (wire.up # << >> /\ Head(wire.up).cmd = "auth")

PageOK(page, after) == page.life \in 1..venue.life /\ Sound(page, after)

Served(l, published, code, page) ==
    wire' = [up |-> Tail(wire.up),
             down |-> wire.down \o Sent(published, [id |-> l.id, reply |-> Reply(l.tag, code, page)])]

LEMMA VenueReadsFacts ==
    ASSUME BoardTypes, VenueInv, GreetedInv, VenueReads
    PROVE  /\ venue' \in VenueType /\ VenueInv'
           /\ venue'.life = venue.life /\ venue'.ses.open = venue.ses.open
           /\ Authorised => venue'.ses.authenticated
           /\ \E published \in BOOLEAN, code \in Codes, page \in Pages \cup {None} :
                 /\ Served(Head(wire.up), published, code, page)
                 /\ Authorised => code # "unauthorised"
                 /\ page # None => PageOK(page, Head(wire.up).after)
  <1>1. /\ wire.up # << >> /\ wire.up \in Seq(Questions) /\ venue.ses.open
        /\ venue \in VenueType
    BY DEF VenueReads, BoardTypes
  <1>0. PICK first \in Questions : first = Head(wire.up)
    BY <1>1, TailFacts
  <1> DEFINE cmd == first.cmd
  <1>2. Authorised => venue.ses.authenticated \/ cmd = "auth"
    BY <1>0, <1>1 DEF GreetedInv
  <1>3. Authorised => ~unauthorised(venue.ses, cmd)
    BY <1>2 DEF unauthorised, OpenCommands
  <1>4. /\ venue.up /\ venue.life \in Nat /\ venue.life > 0
        /\ venue.audit \in [ring : Seq(Nat), next : Nat] /\ TapeInv(venue.audit)
        /\ venue.ses \in SessionType /\ venue.desk \in Desks
        /\ venue.desk.live > 0 => venue.desk.listed
    BY <1>1 DEF VenueType, VenueInv, LiveOrdersAreListed
  <1>5. /\ record(venue.audit) \in [ring : Seq(Nat), next : Nat]
        /\ TapeInv(record(venue.audit))
    <2>1. TapeInv(record(venue.audit))
      BY <1>4, TapeGrows
    <2> QED
      BY <2>1 DEF TapeInv
  <1>6. /\ {"ok", "unauthorised"} \subseteq Codes /\ FALSE \in BOOLEAN
        /\ None \in Pages \cup {None}
    BY DEF Codes
  <1>7. CASE /\ unauthorised(venue.ses, cmd)
             /\ venue' = [venue EXCEPT !.audit = record(@)]
             /\ Served(first, FALSE, "unauthorised", None)
    <2>1. ~Authorised
      BY <1>3, <1>7
    <2>2. /\ venue' \in VenueType /\ venue'.audit = record(venue.audit)
          /\ venue'.life = venue.life /\ venue'.ses = venue.ses
          /\ venue'.up = venue.up /\ venue'.desk = venue.desk
      BY <1>1, <1>5, <1>7 DEF VenueType
    <2>3. VenueInv'
      BY <2>2, <1>4, <1>5 DEF VenueInv, LiveOrdersAreListed
    <2> QED
      BY <2>1, <2>2, <2>3, <1>0, <1>6, <1>7
  <1>8. CASE /\ cmd = "auth"
             /\ LET good == Token \in {None, LinkToken}
                IN  /\ venue' = [venue EXCEPT !.ses.authenticated = @ \/ good]
                    /\ Served(first, FALSE, IF good THEN "ok" ELSE "unauthorised", None)
    <2>1. (venue.ses.authenticated \/ Authorised) \in BOOLEAN
      BY <1>4 DEF SessionType, Authorised
    <2>2. PICK good \in BOOLEAN : good = (venue.ses.authenticated \/ Authorised)
      BY <2>1
    <2>3. venue' = [venue EXCEPT !.ses.authenticated = good]
      BY <1>8, <2>2 DEF Authorised
    <2>4. /\ venue' \in VenueType /\ venue'.audit = venue.audit
          /\ venue'.life = venue.life /\ venue'.ses.open = venue.ses.open
          /\ venue'.up = venue.up /\ venue'.desk = venue.desk
          /\ venue'.ses.authenticated = good
      BY <2>3, <1>1 DEF VenueType, SessionType
    <2>5. VenueInv'
      BY <2>4, <1>4 DEF VenueInv, LiveOrdersAreListed
    <2>6. PICK code \in {"ok", "unauthorised"} :
             /\ code = IF Token \in {None, LinkToken} THEN "ok" ELSE "unauthorised"
             /\ Served(first, FALSE, code, None)
      BY <1>8
    <2>7. code \in Codes /\ (Authorised => code # "unauthorised")
      BY <2>6, <1>6 DEF Authorised
    <2> QED
      BY <2>2, <2>4, <2>5, <2>6, <2>7, <1>0, <1>4, <1>6
  <1>9. CASE /\ cmd = "subscribe" /\ ~unauthorised(venue.ses, cmd)
             /\ venue' = [venue EXCEPT !.ses.subscribed = TRUE]
             /\ Served(first, FALSE, "ok", None)
    <2>1. /\ venue' \in VenueType /\ venue'.audit = venue.audit
          /\ venue'.life = venue.life /\ venue'.ses.open = venue.ses.open
          /\ venue'.up = venue.up /\ venue'.desk = venue.desk
          /\ venue'.ses.authenticated = venue.ses.authenticated
      BY <1>1, <1>9 DEF VenueType, SessionType
    <2>2. VenueInv'
      BY <2>1, <1>4 DEF VenueInv, LiveOrdersAreListed
    <2>3. Authorised => venue.ses.authenticated
      BY <1>2, <1>9
    <2> QED
      BY <2>1, <2>2, <2>3, <1>0, <1>4, <1>6, <1>9
  <1>10. CASE /\ cmd = "audit" /\ ~unauthorised(venue.ses, cmd)
              /\ UNCHANGED venue
              /\ Served(first, FALSE, "ok", [entries(venue.audit, first.after) EXCEPT !.life = venue.life])
    <2>1. first.after \in Nat \cup {None}
      BY <1>0 DEF Questions
    <2> DEFINE page == [entries(venue.audit, first.after) EXCEPT !.life = venue.life]
    <2>2. page \in Pages /\ page.life = venue.life /\ Sound(page, first.after)
      BY <2>1, <1>4, PageSound
    <2>7. Served(first, FALSE, "ok", page)
      BY <1>10
    <2> HIDE DEF page
    <2>3. PageOK(page, first.after)
      BY <2>2, <1>4 DEF PageOK
    <2>4. Served(first, FALSE, "ok", page) /\ page \in Pages \cup {None}
      BY <2>2, <2>7
    <2>5. Authorised => venue.ses.authenticated
      BY <1>2, <1>10
    <2>6. VenueInv'
      BY <1>10 DEF VenueInv, LiveOrdersAreListed
    <2> QED
      BY <2>3, <2>4, <2>5, <2>6, <1>0, <1>1, <1>4, <1>6, <1>10
  <1>11. CASE /\ cmd \notin {"auth", "subscribe", "audit"} /\ ~unauthorised(venue.ses, cmd)
              /\ LET o == handler(cmd, venue.desk)
                 IN /\ venue' = [venue EXCEPT !.desk = o.desk,
                                              !.audit = dispatched(@, cmd)]
                    /\ Served(first, o.published, o.code, None)
    <2> DEFINE o == handler(cmd, venue.desk)
    <2>0. /\ venue' = [venue EXCEPT !.desk = o.desk, !.audit = dispatched(@, cmd)]
          /\ Served(first, o.published, o.code, None)
      BY <1>11
    <2>1. /\ o.desk \in Desks /\ o.code \in Codes /\ o.code # "unauthorised"
          /\ o.published \in BOOLEAN /\ (o.desk.live > 0 => o.desk.listed)
      BY <1>4, HandlerFacts
    <2> HIDE DEF o
    <2>2. PICK a \in [ring : Seq(Nat), next : Nat] :
             a = dispatched(venue.audit, cmd) /\ TapeInv(a)
      BY <1>4, <1>5 DEF dispatched
    <2>3. /\ venue' \in VenueType /\ venue'.audit = a
          /\ venue'.life = venue.life /\ venue'.ses = venue.ses
          /\ venue'.up = venue.up /\ venue'.desk = o.desk
      BY <2>0, <2>1, <2>2, <1>1 DEF VenueType, Desks
    <2>4. VenueInv'
      BY <2>1, <2>2, <2>3, <1>4 DEF VenueInv, LiveOrdersAreListed
    <2>5. Authorised => venue.ses.authenticated
      BY <1>2, <1>11
    <2> QED
      BY <2>0, <2>1, <2>3, <2>4, <2>5, <1>0, <1>4, <1>6
  <1> QED
    BY <1>0, <1>7, <1>8, <1>9, <1>10, <1>11 DEF VenueReads, Served

----------------------------------------------------------------------------
(* The board's inductive invariant *)

\* Who may still be answered under a number: a call that waits for it, a line on its
\* way to the venue, a reply on its way back.
Claim(id, tag) ==
    \/ \E p \in link.pending : p.id = id /\ p.tag = tag
    \/ \E l \in Elements(wire.up) : l.id = id /\ l.tag = tag
    \/ \E l \in Elements(wire.down) : l # Push /\ l.id = id /\ l.reply.tag = tag

Issued(tag) == \E b \in Browsers : \E k \in 1..used.requests[b] : tag = << b, k >>

\* A number belongs to one request for good, and the next one is new.
ClaimInv ==
    \A id \in Nat, s \in Tags \cup {None} :
        Claim(id, s) =>
            /\ id < link.ids
            /\ s # None => Issued(s)
            /\ \A t \in Tags \cup {None} : Claim(id, t) => s = t

\* A reply on its way: no refusal for want of a token that was given, and a page for
\* the tail goes on from its cursor.
Honest(reply) ==
    /\ Authorised => reply.code # "unauthorised"
    /\ reply.tag # None /\ reply.tag = waits[Tailer] /\ reply.page # None
          => PageOK(reply.page, tail.after)

LineInv ==
    /\ \A l \in Elements(wire.up) :
          l.tag # None /\ l.tag = waits[Tailer] => l.after = tail.after
    /\ \A l \in Elements(wire.down) : l # Push => Honest(l.reply)

Request(b, r) == r.tag = waits[b] /\ (b = Tailer => r.after = tail.after)

Told(b, m) ==
    /\ m.tag = waits[b]
    /\ Authorised => m.code # "unauthorised"
    /\ b = Tailer /\ m.page # None => PageOK(m.page, tail.after)

\* What the board has in hand for a browser: nothing, or one thing only, which is
\* the request that the browser waits for or the answer to it.
Empty(h) == h.buffer = << >> /\ h.responder = None /\ h.out = << >>

Buffered(b, h) ==
    /\ h.responder = None /\ h.out = << >>
    /\ \E r \in Requests : h.buffer = << r >> /\ Request(b, r)

InHand(b, h) ==
    /\ h.buffer = << >> /\ h.out = << >>
    /\ h.responder \in Requests /\ Request(b, h.responder)

Answered(b, h) ==
    /\ h.buffer = << >> /\ h.responder = None
    /\ \E m \in Replies : h.out = << m >> /\ Told(b, m)

HandOf(b) ==
    /\ waits[b] # None => waits[b] = << b, used.requests[b] >>
    /\ \/ Empty(http[b])
       \/ waits[b] # None /\ Buffered(b, http[b])
       \/ waits[b] # None /\ InHand(b, http[b])
       \/ waits[b] # None /\ Answered(b, http[b])

HandInv == \A b \in Browsers : HandOf(b)

TailInv ==
    tail.after # None =>
        /\ venue.life > 0
        /\ tail.life # 0 => {tail.life} \X (1..tail.after) \subseteq tail.seen \cup tail.gaps

BoardInv == BoardTypes /\ VenueInv /\ GreetedInv /\ ClaimInv /\ LineInv /\ HandInv /\ TailInv

\* New lines carry new numbers, all for one request.
LEMMA ClaimStep ==
    ASSUME BoardTypes, BoardTypes', ClaimInv,
           NEW tag \in Tags \cup {None}, tag # None => Issued(tag)',
           link.ids <= link.ids',
           \A b \in Browsers : used.requests[b] <= used'.requests[b],
           \A id \in Nat, s \in Tags \cup {None} :
              Claim(id, s)' => \/ Claim(id, s)
                               \/ link.ids <= id /\ id < link.ids' /\ s = tag
    PROVE  ClaimInv'
  <1>1. link.ids \in Nat /\ link'.ids \in Nat
    BY DEF BoardTypes, LinkType
  <1>2. ASSUME NEW s, Issued(s) PROVE Issued(s)'
    <2>0. PICK b \in Browsers : \E k \in 1..used.requests[b] : s = << b, k >>
      BY <1>2 DEF Issued
    <2>1. PICK k \in 1..used.requests[b] : s = << b, k >>
      BY <2>0
    <2>2. used.requests[b] \in Nat /\ used'.requests[b] \in Nat
      BY DEF BoardTypes
    <2>3. k \in 1..used'.requests[b]
      BY <2>1, <2>2
    <2> QED
      BY <2>1, <2>3 DEF Issued
  <1>3. ASSUME NEW id \in Nat, NEW s \in Tags \cup {None}, Claim(id, s)'
        PROVE  /\ id < link'.ids
               /\ s # None => Issued(s)'
               /\ \A t \in Tags \cup {None} : Claim(id, t)' => s = t
    <2>1. CASE Claim(id, s)
      <3>1. /\ id < link.ids /\ (s # None => Issued(s))
            /\ \A t \in Tags \cup {None} : Claim(id, t) => s = t
        BY <2>1 DEF ClaimInv
      <3>2. id < link'.ids /\ ~(link.ids <= id)
        BY <1>1, <3>1
      <3> QED
        BY <1>2, <3>1, <3>2
    <2>2. CASE link.ids <= id /\ id < link'.ids /\ s = tag
      <3>1. \A t \in Tags \cup {None} : ~Claim(id, t)
        BY <1>1, <2>2 DEF ClaimInv
      <3> QED
        BY <2>2, <3>1
    <2> QED
      BY <1>3, <2>1, <2>2
  <1> QED
    BY <1>3 DEF ClaimInv

\* The tail goes on waiting, or waits no longer, or for something never asked before.
TailerKeeps ==
    /\ venue.life <= venue'.life
    /\ \/ waits'[Tailer] = waits[Tailer] /\ tail'.after = tail.after
       \/ waits'[Tailer] = None
       \/ \E k \in Nat : k > used.requests[Tailer] /\ waits'[Tailer] = << Tailer, k >>

LEMMA PageKept ==
    ASSUME venue.life \in Nat, venue'.life \in Nat, venue.life <= venue'.life,
           tail'.after = tail.after, NEW page, PageOK(page, tail.after)
    PROVE  PageOK(page, tail.after)'
  BY DEF PageOK, Sound

LEMMA LineStep ==
    ASSUME BoardTypes, BoardTypes', ClaimInv, LineInv, TailerKeeps,
           \A l \in Elements(wire'.up) :
              \/ l \in Elements(wire.up)
              \/ l.tag # None /\ l.tag = waits'[Tailer] => l.after = tail'.after,
           \A l \in Elements(wire'.down) :
              l = Push \/ l \in Elements(wire.down) \/ Honest(l.reply)'
    PROVE  LineInv'
  <1>1. /\ Elements(wire.up) \subseteq Questions /\ Elements(wire.down) \subseteq Answers
        /\ venue.life \in Nat /\ venue'.life \in Nat
        /\ used.requests[Tailer] \in Nat
    BY ElementsFacts, BoardAssumption DEF BoardTypes, VenueType
  <1>2. ASSUME NEW s, Issued(s), s = waits'[Tailer], s # None
        PROVE  s = waits[Tailer] /\ tail'.after = tail.after
    <2>0. PICK b \in Browsers : \E k \in 1..used.requests[b] : s = << b, k >>
      BY <1>2 DEF Issued
    <2>1. PICK k \in 1..used.requests[b] : s = << b, k >>
      BY <2>0
    <2>2. ~\E j \in Nat : j > used.requests[Tailer] /\ s = << Tailer, j >>
      BY <1>1, <2>1
    <2> QED
      BY <1>2, <2>2 DEF TailerKeeps
  <1>3. ASSUME NEW l \in Elements(wire'.up), l.tag # None, l.tag = waits'[Tailer],
               l \in Elements(wire.up)
        PROVE  l.after = tail'.after
    <2>1. l.id \in Nat /\ l.tag \in Tags \cup {None} /\ Claim(l.id, l.tag)
      BY <1>1, <1>3 DEF Questions, Claim
    <2>2. Issued(l.tag)
      BY <1>3, <2>1 DEF ClaimInv
    <2> QED
      BY <1>2, <1>3, <2>2 DEF LineInv
  <1>4. ASSUME NEW l \in Elements(wire'.down), l # Push, l \in Elements(wire.down)
        PROVE  Honest(l.reply)'
    <2>1. l.id \in Nat /\ l.reply \in Replies /\ l.reply.tag \in Tags \cup {None}
      BY <1>1, <1>4 DEF Answers, Replies
    <2>2. Claim(l.id, l.reply.tag)
      BY <1>4 DEF Claim
    <2>3. l.reply.tag # None => Issued(l.reply.tag)
      BY <2>1, <2>2 DEF ClaimInv
    <2>4. Honest(l.reply)
      BY <1>4 DEF LineInv
    <2>5. ASSUME l.reply.tag # None, l.reply.tag = waits'[Tailer], l.reply.page # None
          PROVE  PageOK(l.reply.page, tail.after)'
      <3>1. l.reply.tag = waits[Tailer] /\ tail'.after = tail.after
        BY <1>2, <2>3, <2>5
      <3>2. PageOK(l.reply.page, tail.after)
        BY <2>4, <2>5, <3>1 DEF Honest
      <3> QED
        BY <1>1, <3>1, <3>2, PageKept DEF TailerKeeps
    <2> QED
      BY <2>4, <2>5 DEF Honest, Authorised
  <1> QED
    BY <1>3, <1>4 DEF LineInv

\* A browser whose connection and wait nothing has touched.
LEMMA HandKept ==
    ASSUME NEW b \in Browsers, HandOf(b), http'[b] = http[b], waits'[b] = waits[b],
           used'.requests[b] = used.requests[b],
           b = Tailer => tail'.after = tail.after,
           venue.life \in Nat, venue'.life \in Nat, venue.life <= venue'.life
    PROVE  HandOf(b)'
  <1>1. ASSUME NEW r, Request(b, r) PROVE Request(b, r)'
    BY <1>1 DEF Request
  <1>2. ASSUME NEW m, Told(b, m) PROVE Told(b, m)'
    <2>1. b = Tailer /\ m.page # None => PageOK(m.page, tail.after)'
      BY <1>2, PageKept DEF Told
    <2> QED
      BY <1>2, <2>1 DEF Told, Authorised
  <1>3. CASE Empty(http[b])
    BY <1>3 DEF HandOf, Empty
  <1>4. CASE Buffered(b, http[b]) /\ ~Empty(http[b])
    BY <1>1, <1>4 DEF HandOf, Buffered
  <1>5. CASE InHand(b, http[b]) /\ ~Empty(http[b])
    BY <1>1, <1>5 DEF HandOf, InHand
  <1>6. CASE Answered(b, http[b]) /\ ~Empty(http[b])
    BY <1>2, <1>6 DEF HandOf, Answered
  <1> QED
    BY <1>3, <1>4, <1>5, <1>6 DEF HandOf

\* The request in hand is answered.
LEMMA HandAnswered ==
    ASSUME NEW b \in Browsers, http[b] \in HttpType, HandOf(b), http[b].responder # None,
           NEW m \in Replies, http'[b] = Answer(http[b], m), waits'[b] = waits[b],
           used'.requests[b] = used.requests[b],
           tail'.after = tail.after, venue'.life = venue.life,
           m.tag = http[b].responder.tag,
           Authorised => m.code # "unauthorised",
           b = Tailer /\ m.page # None => PageOK(m.page, tail.after)
    PROVE  HandOf(b)'
  <1>1. InHand(b, http[b]) /\ waits[b] # None /\ waits[b] = << b, used.requests[b] >>
    BY DEF HandOf, Empty, Buffered, InHand, Answered
  <1>2. /\ http'[b].responder = None /\ http'[b].buffer = << >>
        /\ http'[b].out = << m >>
    BY <1>1, AnswerFacts DEF InHand
  <1>3. Told(b, m)'
    <2>1. m.tag = waits[b]
      BY <1>1 DEF InHand, Request
    <2> QED
      BY <2>1 DEF Told, Authorised, PageOK, Sound
  <1> QED
    BY <1>1, <1>2, <1>3 DEF HandOf, Answered
\* A step that brings no new number, no new line but a push, and leaves the tail alone.
LEMMA QuietStep ==
    ASSUME BoardInv, BoardTypes', VenueInv', GreetedInv', HandInv',
           venue.life <= venue'.life, waits' = waits, tail' = tail,
           used'.requests = used.requests,
           link'.ids = link.ids, link'.pending \subseteq link.pending,
           Elements(wire'.up) \subseteq Elements(wire.up),
           Elements(wire'.down) \subseteq Elements(wire.down) \cup {Push}
    PROVE  BoardInv'
  <1>1. BoardTypes /\ ClaimInv /\ LineInv /\ TailInv
    BY DEF BoardInv
  <1>2. /\ link.ids \in Nat /\ venue.life \in Nat /\ venue'.life \in Nat
        /\ \A b \in Browsers : used.requests[b] \in Nat
    BY <1>1 DEF BoardTypes, LinkType, VenueType
  <1>3. ClaimInv'
    <2>1. \A id \in Nat, s \in Tags \cup {None} : Claim(id, s)' => Claim(id, s)
      BY DEF Claim
    <2>2. None \in Tags \cup {None} /\ link.ids <= link'.ids
      BY <1>2
    <2>3. \A b \in Browsers : used.requests[b] <= used'.requests[b]
      BY <1>2
    <2> QED
      BY <1>1, <2>1, <2>2, <2>3, ClaimStep
  <1>4. LineInv'
    <2>1. TailerKeeps
      BY DEF TailerKeeps
    <2> QED
      BY <1>1, <2>1, LineStep
  <1>5. TailInv'
    BY <1>1, <1>2 DEF TailInv
  <1> QED
    BY <1>3, <1>4, <1>5 DEF BoardInv

\* Of the calls that end, each browser has at most its own, and is told of no other.
LEMMA HandsStep ==
    ASSUME BoardInv, waits' = waits, tail' = tail, used'.requests = used.requests,
           venue'.life \in Nat, venue.life <= venue'.life,
           \A b \in Browsers :
              \/ http'[b] = http[b]
              \/ /\ http[b].responder # None /\ venue'.life = venue.life
                 /\ \E m \in Replies :
                       /\ http'[b] = Answer(http[b], m)
                       /\ m.tag = http[b].responder.tag
                       /\ Authorised => m.code # "unauthorised"
                       /\ b = Tailer /\ m.page # None => PageOK(m.page, tail.after)
    PROVE  HandInv'
  <1> SUFFICES ASSUME NEW b \in Browsers
               PROVE  HandOf(b)'
    BY DEF HandInv
  <1>1. HandOf(b) /\ http[b] \in HttpType /\ venue.life \in Nat
    BY DEF BoardInv, HandInv, BoardTypes, VenueType
  <1>2. CASE http'[b] = http[b]
    BY <1>1, <1>2, HandKept
  <1>3. CASE http'[b] # http[b]
    <2>1. PICK m \in Replies :
             /\ http'[b] = Answer(http[b], m)
             /\ m.tag = http[b].responder.tag
             /\ Authorised => m.code # "unauthorised"
             /\ b = Tailer /\ m.page # None => PageOK(m.page, tail.after)
      BY <1>3
    <2>2. http[b].responder # None /\ venue'.life = venue.life
      BY <1>3
    <2> QED
      BY <1>1, <2>1, <2>2, HandAnswered
  <1> QED
    BY <1>2, <1>3

\* Calls that end without a word from the venue.
LEMMA SettleStep ==
    ASSUME BoardInv, NEW calls, NEW code \in Codes, code # "unauthorised",
           Settle(calls, code, None), UNCHANGED << venue, waits, tail, used >>,
           link' \in LinkType, link'.ids = link.ids, link'.pending \subseteq link.pending,
           wire' \in [up : Seq(Questions), down : Seq(Answers)],
           Elements(wire'.up) \subseteq Elements(wire.up), wire'.down = wire.down,
           wire'.up = wire.up \/ ~venue.ses.open
    PROVE  BoardInv'
  <1>1. BoardTypes /\ VenueInv /\ GreetedInv
    BY DEF BoardInv
  <1>2. /\ http' \in [Browsers -> HttpType]
        /\ \A b \in Browsers :
                 \/ http'[b] = http[b]
                 \/ /\ http[b].responder # None
                    /\ http'[b] = Answer(http[b], Reply(http[b].responder.tag, code, None))
    BY <1>1, SettleFacts
  <1>3. BoardTypes'
    BY <1>1, <1>2 DEF BoardTypes
  <1>4. VenueInv' /\ GreetedInv'
    BY <1>1 DEF VenueInv, LiveOrdersAreListed, GreetedInv, Authorised
  <1>5. venue.life \in Nat
    BY <1>1 DEF BoardTypes, VenueType
  <1>6. ASSUME NEW b \in Browsers, http'[b] # http[b]
        PROVE  \E m \in Replies :
                  /\ http'[b] = Answer(http[b], m)
                  /\ m.tag = http[b].responder.tag
                  /\ Authorised => m.code # "unauthorised"
                  /\ b = Tailer /\ m.page # None => PageOK(m.page, tail.after)
    <2>1. /\ http[b].responder # None /\ http[b] \in HttpType
          /\ http'[b] = Answer(http[b], Reply(http[b].responder.tag, code, None))
      BY <1>1, <1>2, <1>6 DEF BoardTypes
    <2>2. http[b].responder.tag \in Tags
      BY <2>1 DEF HttpType, Requests
    <2> DEFINE m == Reply(http[b].responder.tag, code, None)
    <2>3. m \in Replies /\ m.tag = http[b].responder.tag /\ m.code = code /\ m.page = None
      BY <2>2, ReplyFacts
    <2> HIDE DEF m
    <2>4. http'[b] = Answer(http[b], m)
      BY <2>1 DEF m
    <2> QED
      BY <2>3, <2>4
  <1>7. HandInv'
    BY <1>2, <1>5, <1>6, HandsStep
  <1>8. venue.life <= venue'.life
    BY <1>5
  <1> QED
    BY <1>3, <1>4, <1>7, <1>8, QuietStep

LEMMA CallsEnd ==
    ASSUME BoardInv,
           \/ ConnectFails \/ LinkCloses \/ \E p \in link.pending : CallExpires(p)
    PROVE  BoardInv'
  <1>1. /\ BoardTypes /\ link \in LinkType /\ wire \in [up : Seq(Questions), down : Seq(Answers)]
        /\ {"unavailable", "timeout"} \subseteq Codes \ {"unauthorised"}
    BY DEF BoardInv, BoardTypes, Codes
  <1>2. ASSUME Closed
        PROVE  link' \in LinkType /\ link'.ids = link.ids /\ link'.pending \subseteq link.pending
    BY <1>1, <1>2 DEF Closed, LinkType
  <1>3. CASE ConnectFails
    BY <1>1, <1>2, <1>3, SettleStep DEF ConnectFails
  <1>4. CASE LinkCloses
    <2>1. /\ wire' \in [up : Seq(Questions), down : Seq(Answers)]
          /\ Elements(wire'.up) = {} /\ wire'.down = wire.down
      BY <1>1, <1>4, ElementsFacts DEF LinkCloses
    <2>2. Elements(wire'.up) \subseteq Elements(wire.up)
      BY <2>1
    <2> QED
      BY <1>1, <1>2, <1>4, <2>1, <2>2, SettleStep DEF LinkCloses
  <1>5. ASSUME NEW p \in link.pending, CallExpires(p)
        PROVE  BoardInv'
    <2>1. link' \in LinkType /\ link'.ids = link.ids /\ link'.pending \subseteq link.pending
      BY <1>1, <1>5 DEF CallExpires, LinkType
    <2> QED
      BY <1>1, <1>5, <2>1, SettleStep DEF CallExpires
  <1> QED
    BY <1>3, <1>4, <1>5
LEMMA RedialStep ==
    ASSUME BoardInv, Redial
    PROVE  BoardInv'
  <1>1. BoardTypes /\ VenueInv /\ GreetedInv /\ venue.life \in Nat
    BY DEF BoardInv, BoardTypes, VenueType
  <1>2. PICK conn \in {"none", "connecting", "open"} : conn = Dialling(link.conn)
    BY <1>1 DEF Dialling, BoardTypes, LinkType
  <1>3. /\ link' = [link EXCEPT !.retry = FALSE, !.conn = conn]
        /\ UNCHANGED << venue, wire, http, waits, tail, used >>
    BY <1>2 DEF Redial
  <1>4. link' \in LinkType /\ link'.ids = link.ids /\ link'.pending = link.pending
    BY <1>1, <1>3 DEF BoardTypes, LinkType
  <1>5. BoardTypes'
    BY <1>1, <1>3, <1>4 DEF BoardTypes
  <1>6. VenueInv' /\ GreetedInv'
    BY <1>1, <1>3 DEF VenueInv, LiveOrdersAreListed, GreetedInv, Authorised
  <1>7. HandInv'
    BY <1>1, <1>3, HandsStep
  <1> QED
    BY <1>1, <1>3, <1>4, <1>5, <1>6, <1>7, QuietStep

LEMMA DrainsStep ==
    ASSUME BoardInv, NEW b \in Browsers, Drains(b)
    PROVE  BoardInv'
  <1>1. BoardTypes /\ VenueInv /\ GreetedInv /\ HandInv /\ venue.life \in Nat
    BY DEF BoardInv, BoardTypes, VenueType
  <1>2. /\ http' = [http EXCEPT ![b] = NoHttp]
        /\ UNCHANGED << venue, link, wire, waits, tail, used >>
    BY DEF Drains
  <1>3. NoHttp \in HttpType /\ Empty(NoHttp)
    BY DEF NoHttp, HttpType, Empty
  <1>4. http' \in [Browsers -> HttpType] /\ http'[b] = NoHttp
        /\ \A c \in Browsers : c # b => http'[c] = http[c]
    BY <1>1, <1>2, <1>3 DEF BoardTypes
  <1>5. BoardTypes'
    BY <1>1, <1>2, <1>4 DEF BoardTypes
  <1>6. VenueInv' /\ GreetedInv'
    BY <1>1, <1>2 DEF VenueInv, LiveOrdersAreListed, GreetedInv, Authorised
  <1>7. ASSUME NEW c \in Browsers PROVE HandOf(c)'
    <2>1. CASE c = b
      BY <1>1, <1>2, <1>3, <1>4, <2>1 DEF HandInv, HandOf, Empty
    <2>2. CASE c # b
      BY <1>1, <1>2, <1>4, <2>2, HandKept DEF HandInv
    <2> QED
      BY <2>1, <2>2
  <1>8. HandInv'
    BY <1>7 DEF HandInv
  <1> QED
    BY <1>1, <1>2, <1>5, <1>6, <1>8, QuietStep

\* The venue's own life: it starts, stops, loses the connection, trades.
LEMMA VenueLives ==
    ASSUME BoardInv, VenueStarts \/ VenueStops \/ Breaks \/ ClientActs
    PROVE  BoardInv'
  <1>1. BoardTypes /\ VenueInv /\ GreetedInv /\ HandInv
    BY DEF BoardInv
  <1>2. /\ venue \in VenueType /\ venue.life \in Nat /\ TapeInv(venue.audit)
        /\ wire \in [up : Seq(Questions), down : Seq(Answers)]
        /\ used \in [requests : [Browsers -> Nat], faults : Nat, acts : Nat]
        /\ Push \in Answers
    BY <1>1 DEF BoardTypes, VenueInv, VenueType, Answers
  <1>3. UNCHANGED << link, http, waits, tail >>
    BY DEF VenueStarts, VenueStops, Breaks, ClientActs
  <1>4. NoSession \in SessionType /\ ~NoSession.open
    BY DEF NoSession, SessionType
  <1>5. /\ used' \in [requests : [Browsers -> Nat], faults : Nat, acts : Nat]
        /\ used'.requests = used.requests
    <2>1. PICK f \in Nat, a \in Nat : f = used.faults + 1 /\ a = used.acts + 1
      BY <1>2
    <2>2. \/ used' = used
          \/ used' = [used EXCEPT !.faults = f]
          \/ used' = [used EXCEPT !.acts = a]
      BY <2>1 DEF VenueStarts, VenueStops, Breaks, ClientActs
    <2> QED
      BY <1>2, <2>2
  <1>6. /\ venue' \in VenueType /\ venue.life <= venue'.life
        /\ VenueInv' /\ GreetedInv'
        /\ wire' \in [up : Seq(Questions), down : Seq(Answers)]
        /\ Elements(wire'.up) \subseteq Elements(wire.up)
        /\ Elements(wire'.down) \subseteq Elements(wire.down) \cup {Push}
    <2>1. CASE VenueStarts
      <3>0. PICK life \in Nat : life = venue.life + 1
        BY <1>2
      <3>2. venue' = [venue EXCEPT !.up = TRUE, !.life = life] /\ wire' = wire
        BY <2>1, <3>0 DEF VenueStarts
      <3>3. venue' \in VenueType /\ venue'.life = life
        BY <1>2, <3>2 DEF VenueType
      <3>4. /\ venue'.ses = venue.ses /\ venue'.audit = venue.audit
            /\ venue'.desk = venue.desk /\ venue'.up
        BY <1>2, <3>2 DEF VenueType
      <3>1. /\ venue' \in VenueType /\ venue.life <= venue'.life
            /\ venue'.life > 0 /\ venue'.ses = venue.ses
            /\ venue'.audit = venue.audit /\ venue'.desk = venue.desk /\ venue'.up
            /\ wire' = wire
        BY <1>2, <3>0, <3>2, <3>3, <3>4
      <3> QED
        BY <1>1, <1>2, <3>1 DEF VenueInv, LiveOrdersAreListed, GreetedInv, Authorised
    <2>2. CASE VenueStops
      <3>1. PICK kept \in KeptAtClose(wire.down) : wire' = [up |-> << >>, down |-> kept]
        BY <2>2 DEF VenueStops
      <3>2. /\ wire' \in [up : Seq(Questions), down : Seq(Answers)]
            /\ Elements(wire'.up) \subseteq Elements(wire.up)
            /\ Elements(wire'.down) \subseteq Elements(wire.down) \cup {Push}
        <4>1. kept \in Seq(Answers) /\ Elements(kept) \subseteq Elements(wire.down)
          BY <1>2, ElementsFacts
        <4>2. << >> \in Seq(Questions) /\ Elements(<< >>) = {}
          BY <1>2, ElementsFacts
        <4> QED
          BY <3>1, <4>1, <4>2
      <3>3. NewDesk \in Desks /\ ~(NewDesk.live > 0)
        BY DEF NewDesk, Desks
      <3>4. NewAudit \in [ring : Seq(Nat), next : Nat] /\ TapeInv(NewAudit)
        BY TapeStarts DEF NewAudit
      <3>5. venue' = [up |-> FALSE, life |-> venue.life, ses |-> NoSession,
                      audit |-> NewAudit, desk |-> NewDesk]
        BY <2>2 DEF VenueStops
      <3>6. venue' \in VenueType /\ venue'.life = venue.life /\ ~venue'.up
            /\ venue'.ses = NoSession /\ venue'.audit = NewAudit /\ venue'.desk = NewDesk
        BY <1>2, <1>4, <3>3, <3>4, <3>5 DEF VenueType
      <3>7. VenueInv' /\ GreetedInv'
        BY <1>4, <3>3, <3>4, <3>6 DEF VenueInv, LiveOrdersAreListed, GreetedInv
      <3> QED
        BY <1>2, <3>2, <3>6, <3>7
    <2>3. CASE Breaks
      <3>1. wire' = [up |-> << >>, down |-> << >>]
        BY <2>3 DEF Breaks
      <3>2. Elements(<< >>) = {}
        BY DEF Elements
      <3>3. venue' = [venue EXCEPT !.ses = NoSession]
        BY <2>3 DEF Breaks
      <3>4. /\ venue' \in VenueType /\ venue'.life = venue.life /\ venue'.up = venue.up
            /\ venue'.ses = NoSession /\ venue'.audit = venue.audit /\ venue'.desk = venue.desk
        BY <1>2, <1>4, <3>3 DEF VenueType
      <3>5. VenueInv' /\ GreetedInv'
        BY <1>1, <1>4, <3>4 DEF VenueInv, LiveOrdersAreListed, GreetedInv
      <3> QED
        BY <1>2, <3>1, <3>2, <3>4, <3>5
    <2>4. CASE ClientActs
      <3> DEFINE n == 1 - venue.desk.live
      <3>1. venue.desk \in Desks /\ n \in {0, 1} /\ venue.desk.live \in {0, 1}
            /\ venue.audit \in [ring : Seq(Nat), next : Nat]
        BY <1>2 DEF VenueType, Desks
      <3>2. TapeInv(record(venue.audit)) /\ record(venue.audit) \in [ring : Seq(Nat), next : Nat]
        <4>1. TapeInv(record(venue.audit))
          BY <1>2, TapeGrows
        <4> QED
          BY <4>1 DEF TapeInv
      <3>3. PICK live \in {0, 1} : live = IF venue.desk.listed THEN n ELSE venue.desk.live
        BY <3>1
      <3>4. venue' = [venue EXCEPT !.desk.live = live, !.audit = record(@)]
        BY <2>4, <3>3 DEF ClientActs
      <3>5. /\ venue' \in VenueType /\ venue'.life = venue.life /\ venue'.up = venue.up
            /\ venue'.ses = venue.ses /\ venue'.audit = record(venue.audit)
            /\ venue'.desk.live = live /\ venue'.desk.listed = venue.desk.listed
        BY <1>2, <3>1, <3>2, <3>4 DEF VenueType, Desks
      <3>6. VenueInv'
        BY <1>1, <3>1, <3>2, <3>3, <3>5 DEF VenueInv, LiveOrdersAreListed
      <3>7. \/ wire' = wire
            \/ wire' = [wire EXCEPT !.down = Append(@, Push)]
        BY <2>4 DEF ClientActs
      <3>12. wire.down \in Seq(Answers)
        BY <1>2
      <3>11. PICK down \in Seq(Answers) : down = Append(wire.down, Push)
        <4>1. Append(wire.down, Push) \in Seq(Answers)
          BY <1>2, <3>12, AppendProperties
        <4> QED
          BY <4>1
      <3>8. wire'.up = wire.up /\ wire' \in [up : Seq(Questions), down : Seq(Answers)]
            /\ (wire'.down = wire.down \/ wire'.down = down)
        BY <1>2, <3>7, <3>11
      <3>9. Elements(wire'.down) \subseteq Elements(wire.down) \cup {Push}
        <4>1. Elements(down) = Elements(wire.down) \cup {Push}
          BY <1>2, <3>11, <3>12, ElementsFacts
        <4> QED
          BY <3>8, <4>1
      <3>10. GreetedInv'
        BY <1>1, <3>5, <3>8 DEF GreetedInv, Authorised
      <3> QED
        BY <1>2, <3>5, <3>6, <3>8, <3>9, <3>10
    <2> QED
      BY <2>1, <2>2, <2>3, <2>4
  <1>7. BoardTypes'
    BY <1>1, <1>3, <1>5, <1>6 DEF BoardTypes
  <1>8. HandInv'
    <2>1. venue'.life \in Nat
      BY <1>6 DEF VenueType
    <2> QED
      BY <1>3, <1>5, <1>6, <2>1, HandsStep
  <1> QED
    BY <1>3, <1>5, <1>6, <1>7, <1>8, QuietStep
\* A reply is for the request that its number was given to.
LEMMA LinkReadsStep ==
    ASSUME BoardInv, LinkReads
    PROVE  BoardInv'
  <1>1. /\ BoardTypes /\ VenueInv /\ GreetedInv /\ ClaimInv /\ LineInv /\ HandInv
        /\ venue.life \in Nat /\ link \in LinkType /\ wire.down # << >>
        /\ wire \in [up : Seq(Questions), down : Seq(Answers)]
        /\ wire.down \in Seq(Answers)
        /\ UNCHANGED << venue, waits, tail, used >>
    BY DEF BoardInv, BoardTypes, VenueType, LinkReads
  <1>2. PICK answer \in Answers : answer = Head(wire.down) /\ answer \in Elements(wire.down)
    BY <1>1, TailFacts, ElementsFacts
  <1> DEFINE calls == {p \in link.pending : p.id = answer.id}
  <1>3. /\ link' = [link EXCEPT !.pending = @ \ calls]
        /\ http' = [b \in Browsers |->
                 IF http[b].responder # None /\ \E p \in calls : p.tag = http[b].responder.tag
                 THEN Answer(http[b], answer.reply)
                 ELSE http[b]]
        /\ wire' = [wire EXCEPT !.down = Tail(@)]
    BY <1>2 DEF LinkReads
  <1>4. link' \in LinkType /\ link'.ids = link.ids /\ link'.pending \subseteq link.pending
    BY <1>1, <1>3 DEF LinkType
  <1>5. /\ wire' \in [up : Seq(Questions), down : Seq(Answers)]
        /\ Elements(wire'.up) = Elements(wire.up)
        /\ Elements(wire'.down) \subseteq Elements(wire.down)
    <2>1. Tail(wire.down) \in Seq(Answers) /\ Elements(Tail(wire.down)) \subseteq Elements(wire.down)
      BY <1>1, TailFacts, ElementsFacts
    <2> QED
      BY <1>1, <1>3, <2>1
  <1>6. ASSUME NEW b \in Browsers, http[b].responder # None,
               NEW p \in calls, p.tag = http[b].responder.tag
        PROVE  /\ answer # Push /\ answer.reply \in Replies
               /\ answer.reply.tag = http[b].responder.tag
               /\ Authorised => answer.reply.code # "unauthorised"
               /\ b = Tailer /\ answer.reply.page # None => PageOK(answer.reply.page, tail.after)
    <2>1. p \in link.pending /\ p.id = answer.id /\ p.id \in Nat /\ p.tag \in Tags
      BY <1>1, <1>6 DEF LinkType
    <2>2. answer # Push
      BY <2>1, NoneIsNothing DEF Push
    <2>3. answer.id \in Nat /\ answer.reply \in Replies /\ answer.reply.tag \in Tags \cup {None}
      BY <1>2, <2>2 DEF Answers, Replies
    <2>4. Claim(answer.id, p.tag)
      BY <2>1 DEF Claim
    <2>5. Claim(answer.id, answer.reply.tag)
      BY <1>2, <2>2 DEF Claim
    <2>6. answer.reply.tag = p.tag
      BY <1>1, <2>1, <2>3, <2>4, <2>5 DEF ClaimInv
    <2>7. Honest(answer.reply)
      BY <1>1, <1>2, <2>2 DEF LineInv
    <2>8. HandOf(b)
      BY <1>1 DEF HandInv
    <2>9. p.tag = waits[b]
      BY <1>6, <2>8 DEF HandOf, Empty, Buffered, InHand, Answered, Request
    <2> QED
      BY <1>6, <2>1, <2>2, <2>3, <2>6, <2>7, <2>9, NoneIsNothing DEF Honest
  <1>7. ASSUME NEW b \in Browsers
        PROVE  \/ http'[b] = http[b]
               \/ /\ http[b].responder # None /\ answer.reply \in Replies
                  /\ http'[b] = Answer(http[b], answer.reply)
                  /\ answer.reply.tag = http[b].responder.tag
                  /\ Authorised => answer.reply.code # "unauthorised"
                  /\ b = Tailer /\ answer.reply.page # None
                        => PageOK(answer.reply.page, tail.after)
    BY <1>3, <1>6
  <1>8. http' \in [Browsers -> HttpType]
    <2>1. \A b \in Browsers : http[b] \in HttpType
      BY <1>1 DEF BoardTypes
    <2>2. \A b \in Browsers : http'[b] \in HttpType
      BY <1>7, <2>1, AnswerFacts
    <2>3. DOMAIN http' = Browsers /\ http' = [b \in Browsers |-> http'[b]]
      BY <1>3
    <2> QED
      BY <2>2, <2>3
  <1> HIDE DEF calls
  <1>9. BoardTypes'
    BY <1>1, <1>4, <1>5, <1>8 DEF BoardTypes
  <1>10. VenueInv' /\ GreetedInv'
    <2>1. wire'.up = wire.up
      BY <1>1, <1>3
    <2> QED
      BY <1>1, <2>1 DEF VenueInv, LiveOrdersAreListed, GreetedInv, Authorised
  <1>11. HandInv'
    BY <1>1, <1>7, HandsStep
  <1> QED
    BY <1>1, <1>4, <1>5, <1>9, <1>10, <1>11, QuietStep

\* The venue answers a line under the line's own number and name.
LEMMA VenueReadsStep ==
    ASSUME BoardInv, VenueReads
    PROVE  BoardInv'
  <1>1. /\ BoardTypes /\ VenueInv /\ GreetedInv /\ ClaimInv /\ LineInv /\ HandInv /\ TailInv
        /\ venue.life \in Nat /\ link.ids \in Nat /\ wire.up # << >>
        /\ wire \in [up : Seq(Questions), down : Seq(Answers)]
        /\ wire.up \in Seq(Questions) /\ wire.down \in Seq(Answers)
        /\ UNCHANGED << link, http, waits, tail, used >>
    BY DEF BoardInv, BoardTypes, VenueType, LinkType, VenueReads
  <1>2. /\ venue' \in VenueType /\ VenueInv'
        /\ venue'.life = venue.life /\ venue'.ses.open = venue.ses.open
        /\ Authorised => venue'.ses.authenticated
        /\ \E published \in BOOLEAN, code \in Codes, page \in Pages \cup {None} :
              /\ Served(Head(wire.up), published, code, page)
              /\ Authorised => code # "unauthorised"
              /\ page # None => PageOK(page, Head(wire.up).after)
    BY <1>1, VenueReadsFacts
  <1>3. PICK published \in BOOLEAN, code \in Codes, page \in Pages \cup {None} :
              /\ Served(Head(wire.up), published, code, page)
              /\ Authorised => code # "unauthorised"
              /\ page # None => PageOK(page, Head(wire.up).after)
    BY <1>2
  <1>4. PICK question \in Questions : question = Head(wire.up) /\ question \in Elements(wire.up)
    BY <1>1, TailFacts, ElementsFacts
  <1>5. question.id \in Nat /\ question.tag \in Tags \cup {None}
    BY <1>4 DEF Questions
  <1> DEFINE reply == Reply(question.tag, code, page)
             answer == [id |-> question.id, reply |-> reply]
  <1>6. reply \in Replies /\ reply.tag = question.tag /\ reply.code = code /\ reply.page = page
    BY <1>5, ReplyFacts
  <1>7. wire' = [up |-> Tail(wire.up), down |-> wire.down \o Sent(published, answer)]
    BY <1>3, <1>4 DEF Served
  <1> HIDE DEF reply
  <1>8. answer \in Answers /\ answer.id = question.id /\ answer.reply = reply /\ Push \in Answers
    BY <1>5, <1>6 DEF Answers
  <1> HIDE DEF answer
  <1>9. /\ Sent(published, answer) \in Seq(Answers)
        /\ Elements(Sent(published, answer)) \subseteq {Push, answer}
    <2>1. /\ << Push, answer >> \in Seq(Answers)
          /\ Elements(<< Push, answer >>) \subseteq {Push, answer}
      <3>1. << Push, answer >> \in Seq(Answers) /\ Len(<< Push, answer >>) = 2
            /\ << Push, answer >>[1] = Push /\ << Push, answer >>[2] = answer
        BY <1>8
      <3>2. \A i \in 1..2 : i = 1 \/ i = 2
        OBVIOUS
      <3> QED
        BY <3>1, <3>2 DEF Elements
    <2>2. << answer >> \in Seq(Answers) /\ Elements(<< answer >>) \subseteq {Push, answer}
      <3>1. << answer >> \in Seq(Answers) /\ Len(<< answer >>) = 1 /\ << answer >>[1] = answer
        BY <1>8
      <3>2. \A i \in 1..1 : i = 1
        OBVIOUS
      <3> QED
        BY <3>1, <3>2 DEF Elements
    <2> QED
      BY <2>1, <2>2 DEF Sent
  <1>10. /\ wire' \in [up : Seq(Questions), down : Seq(Answers)]
         /\ Elements(wire'.up) \subseteq Elements(wire.up)
         /\ Elements(wire'.down) \subseteq Elements(wire.down) \cup {Push, answer}
    <2> DEFINE down == wire.down \o Sent(published, answer)
    <2>1. Tail(wire.up) \in Seq(Questions) /\ Elements(Tail(wire.up)) \subseteq Elements(wire.up)
      BY <1>1, TailFacts, ElementsFacts
    <2>2. /\ down \in Seq(Answers)
          /\ Elements(down) = Elements(wire.down) \cup Elements(Sent(published, answer))
      BY <1>1, <1>9, ElementsFacts, ConcatProperties
    <2>3. wire' = [up |-> Tail(wire.up), down |-> down]
      BY <1>7
    <2> HIDE DEF down
    <2>4. wire' \in [up : Seq(Questions), down : Seq(Answers)]
          /\ wire'.up = Tail(wire.up) /\ wire'.down = down
      BY <2>1, <2>2, <2>3
    <2> QED
      BY <1>9, <2>1, <2>2, <2>4
  <1>11. BoardTypes'
    BY <1>1, <1>2, <1>10 DEF BoardTypes
  <1>12. GreetedInv'
    BY <1>2 DEF GreetedInv, Authorised
  <1>13. ClaimInv'
    <2>1. \A id \in Nat, s \in Tags \cup {None} : Claim(id, s)' => Claim(id, s)
      BY <1>1, <1>4, <1>6, <1>8, <1>10 DEF Claim
    <2>2. None \in Tags \cup {None} /\ link.ids <= link'.ids
      BY <1>1
    <2>3. \A b \in Browsers : used.requests[b] <= used'.requests[b]
      BY <1>1 DEF BoardTypes
    <2> QED
      BY <1>1, <1>11, <2>1, <2>2, <2>3, ClaimStep
  <1>14. LineInv'
    <2>1. TailerKeeps
      BY <1>1, <1>2 DEF TailerKeeps
    <2>2. Honest(answer.reply)'
      <3>1. ASSUME reply.tag # None, reply.tag = waits[Tailer], reply.page # None
            PROVE  PageOK(reply.page, tail.after)
        <4>1. question.after = tail.after
          BY <1>1, <1>4, <1>6, <3>1 DEF LineInv
        <4> QED
          BY <1>3, <1>4, <1>6, <3>1, <4>1
      <3> QED
        BY <1>1, <1>2, <1>3, <1>6, <1>8, <3>1 DEF Honest, Authorised, PageOK, Sound
    <2> QED
      BY <1>1, <1>10, <1>11, <2>1, <2>2, LineStep
  <1>15. HandInv'
    BY <1>1, <1>2, HandsStep
  <1>16. TailInv'
    BY <1>1, <1>2 DEF TailInv
  <1> QED
    BY <1>2, <1>11, <1>12, <1>13, <1>14, <1>15, <1>16 DEF BoardInv
\* The lines of a new connection carry numbers of their own, and nobody waits for them.
LEMMA ConnectsStep ==
    ASSUME BoardInv, Connects
    PROVE  BoardInv'
  <1>1. /\ BoardTypes /\ VenueInv /\ ClaimInv /\ LineInv /\ TailInv
        /\ venue \in VenueType /\ venue.life \in Nat /\ link \in LinkType /\ link.ids \in Nat
        /\ venue.up
        /\ UNCHANGED << http, waits, tail, used >>
    BY DEF BoardInv, BoardTypes, VenueType, LinkType, Connects
  <1>2. PICK ids \in Nat : ids = link.ids + Len(Greeting(link.ids)) /\ link.ids <= ids
    <2>1. Len(Greeting(link.ids)) \in Nat
      BY <1>1, GreetingFacts
    <2> QED
      BY <1>1, <2>1
  <1>3. /\ link' = [link EXCEPT !.conn = "open", !.ids = ids]
        /\ venue' = [venue EXCEPT !.ses = NewSession]
        /\ wire' = [up |-> Greeting(link.ids), down |-> << >>]
    BY <1>2 DEF Connects, Accepted
  <1>4. link' \in LinkType /\ link'.ids = ids /\ link'.pending = link.pending
    BY <1>1, <1>3 DEF LinkType
  <1>5. /\ wire' \in [up : Seq(Questions), down : Seq(Answers)]
        /\ wire'.up = Greeting(link.ids) /\ wire'.down = << >>
    <2>1. Greeting(link.ids) \in Seq(Questions) /\ << >> \in Seq(Answers)
      BY <1>1, GreetingFacts
    <2> QED
      BY <1>3, <2>1
  <1>6. PICK known \in BOOLEAN : known = (Token = None)
    OBVIOUS
  <1>7. NewSession = [open |-> TRUE, authenticated |-> known, subscribed |-> FALSE]
    BY <1>6 DEF NewSession
  <1>8. /\ venue' \in VenueType /\ venue'.life = venue.life /\ venue'.up = venue.up
        /\ venue'.ses.authenticated = known
        /\ venue'.audit = venue.audit /\ venue'.desk = venue.desk
    BY <1>1, <1>3, <1>7 DEF VenueType, SessionType
  <1>9. BoardTypes'
    BY <1>1, <1>4, <1>5, <1>8 DEF BoardTypes
  <1>10. VenueInv'
    BY <1>1, <1>8 DEF VenueInv, LiveOrdersAreListed
  <1>11. GreetedInv'
    <2>1. LinkToken # None => wire'.up # << >> /\ Head(wire'.up).cmd = "auth"
      BY <1>1, <1>5, GreetingFacts
    <2> QED
      BY <2>1, <1>6, <1>8 DEF GreetedInv, Authorised
  <1>12. Elements(wire'.down) = {}
    BY <1>5 DEF Elements
  <1>13. ASSUME NEW l \in Elements(wire'.up)
         PROVE  l.tag = None /\ link.ids <= l.id /\ l.id < ids
    <2>1. PICK i \in 1..Len(Greeting(link.ids)) : l = Greeting(link.ids)[i]
      BY <1>5, <1>13 DEF Elements
    <2>2. l.id = link.ids + i - 1 /\ l.tag = None
      BY <1>1, <2>1, GreetingFacts
    <2>3. Len(Greeting(link.ids)) \in Nat
      BY <1>1, GreetingFacts
    <2> QED
      BY <1>1, <1>2, <2>1, <2>2, <2>3
  <1>14. ClaimInv'
    <2>1. \A id \in Nat, s \in Tags \cup {None} :
              Claim(id, s)' => \/ Claim(id, s)
                               \/ link.ids <= id /\ id < link'.ids /\ s = None
      BY <1>4, <1>12, <1>13 DEF Claim
    <2>2. None \in Tags \cup {None} /\ link.ids <= link'.ids
      BY <1>2, <1>4
    <2>3. \A b \in Browsers : used.requests[b] <= used'.requests[b]
      BY <1>1 DEF BoardTypes
    <2> QED
      BY <1>1, <1>9, <2>1, <2>2, <2>3, ClaimStep
  <1>15. LineInv'
    BY <1>12, <1>13 DEF LineInv
  <1>16. HandInv'
    BY <1>1, <1>8, HandsStep
  <1>17. TailInv'
    BY <1>1, <1>8 DEF TailInv
  <1> QED
    BY <1>9, <1>10, <1>11, <1>14, <1>15, <1>16, <1>17 DEF BoardInv

\* One more line under the next number.
LEMMA LineSent ==
    ASSUME BoardInv, BoardTypes', HandInv', UNCHANGED << venue, waits, tail, used >>,
           link'.ids = link.ids + 1, wire'.down = wire.down,
           NEW q \in Questions, q.id = link.ids, wire'.up = Append(wire.up, q),
           \A p \in link'.pending : p \in link.pending \/ (p.id = q.id /\ p.tag = q.tag),
           q.tag # None => Issued(q.tag),
           q.tag # None /\ q.tag = waits[Tailer] => q.after = tail.after
    PROVE  BoardInv'
  <1>1. /\ BoardTypes /\ VenueInv /\ GreetedInv /\ ClaimInv /\ LineInv /\ TailInv
        /\ venue.life \in Nat /\ link.ids \in Nat /\ wire.up \in Seq(Questions)
    BY DEF BoardInv, BoardTypes, VenueType, LinkType
  <1>2. Elements(wire'.up) = Elements(wire.up) \cup {q}
    BY <1>1, ElementsFacts
  <1>3. q.tag \in Tags \cup {None}
    BY DEF Questions
  <1>4. VenueInv' /\ TailInv'
    BY <1>1 DEF VenueInv, LiveOrdersAreListed, TailInv
  <1>5. GreetedInv'
    <2>1. wire.up # << >> => wire'.up # << >> /\ Head(wire'.up) = Head(wire.up)
      BY <1>1
    <2> QED
      BY <1>1, <2>1 DEF GreetedInv, Authorised
  <1>6. ClaimInv'
    <2>1. \A id \in Nat, s \in Tags \cup {None} :
              Claim(id, s)' => Claim(id, s) \/ (id = link.ids /\ s = q.tag)
      BY <1>2 DEF Claim
    <2>2. link.ids <= link'.ids
          /\ \A id \in Nat : id = link.ids => link.ids <= id /\ id < link'.ids
      BY <1>1
    <2>3. q.tag # None => Issued(q.tag)'
      BY DEF Issued
    <2>4. \A b \in Browsers : used.requests[b] <= used'.requests[b]
      BY <1>1 DEF BoardTypes
    <2>5. \A id \in Nat, s \in Tags \cup {None} :
              Claim(id, s)' => \/ Claim(id, s)
                               \/ link.ids <= id /\ id < link'.ids /\ s = q.tag
      BY <2>1, <2>2
    <2> HIDE DEF Claim, Issued
    <2> QED
      BY <1>1, <1>3, <2>2, <2>3, <2>4, <2>5, ClaimStep
  <1>7. LineInv'
    <2>1. TailerKeeps
      BY <1>1 DEF TailerKeeps
    <2> QED
      BY <1>1, <1>2, <2>1, LineStep
  <1> QED
    BY <1>4, <1>5, <1>6, <1>7 DEF BoardInv
\* What the board now has in hand for one browser.
LEMMA HandSet ==
    ASSUME BoardInv, UNCHANGED << venue, waits, tail, used >>,
           NEW b \in Browsers, NEW g \in HttpType, http' = [http EXCEPT ![b] = g],
           waits[b] # None, InHand(b, g) \/ Answered(b, g)
    PROVE  /\ http' \in [Browsers -> HttpType]
           /\ HandInv'
  <1>1. BoardTypes /\ HandInv /\ venue.life \in Nat
    BY DEF BoardInv, BoardTypes, VenueType
  <1>2. /\ http' \in [Browsers -> HttpType] /\ http'[b] = g
        /\ \A c \in Browsers : c # b => http'[c] = http[c]
    BY <1>1 DEF BoardTypes
  <1>3. ASSUME NEW c \in Browsers PROVE HandOf(c)'
    <2>1. CASE c = b
      <3>1. waits[b] = << b, used.requests[b] >>
        BY <1>1 DEF HandInv, HandOf
      <3>2. InHand(b, http[b])' \/ Answered(b, http[b])'
        BY <1>2 DEF InHand, Answered, Request, Told, Authorised, PageOK, Sound
      <3> QED
        BY <2>1, <3>1, <3>2 DEF HandOf
    <2>2. CASE c # b
      BY <1>1, <1>2, <2>2, HandKept DEF HandInv
    <2> QED
      BY <2>1, <2>2
  <1> QED
    BY <1>2, <1>3 DEF HandInv

LEMMA TakenFacts ==
    ASSUME NEW g \in HttpType, NEW r \in Requests
    PROVE  LET h == [g EXCEPT !.buffer = << >>, !.responder = r]
           IN  h \in HttpType /\ h.responder = r /\ h.buffer = << >> /\ h.out = g.out
  <1>1. << >> \in Seq(Requests) /\ r \in Requests \cup {None}
    OBVIOUS
  <1> QED
    BY <1>1 DEF HttpType

LEMMA TakesStep ==
    ASSUME BoardInv, NEW b \in Browsers, Takes(b)
    PROVE  BoardInv'
  <1>1. /\ BoardTypes /\ VenueInv /\ GreetedInv /\ HandOf(b) /\ http[b] \in HttpType
        /\ venue.life \in Nat /\ link \in LinkType /\ link.ids \in Nat
        /\ wire \in [up : Seq(Questions), down : Seq(Answers)] /\ wire.up \in Seq(Questions)
        /\ used.requests[b] \in Nat /\ waits[b] \in Tags \cup {None}
        /\ UNCHANGED << venue, waits, tail, used >>
    BY DEF BoardInv, BoardTypes, VenueType, LinkType, HandInv, Takes
  <1>2. /\ http[b].buffer # << >> /\ http[b].responder = None
        /\ waits[b] # None /\ waits[b] = << b, used.requests[b] >> /\ Buffered(b, http[b])
    <2>1. http[b].buffer # << >> /\ http[b].responder = None
      BY DEF Takes
    <2> QED
      BY <1>1, <2>1 DEF HandOf, Empty, InHand, Answered
  <1>3. PICK r \in Requests : http[b].buffer = << r >> /\ Request(b, r)
    BY <1>2 DEF Buffered
  <1>4. /\ r.tag = waits[b] /\ r.tag \in Tags /\ r.after \in Nat \cup {None}
        /\ b = Tailer => r.after = tail.after
        /\ r.cmd \in Commands
    BY <1>2, <1>3 DEF Request, Requests, Commands
  <1>5. /\ Head(http[b].buffer) = r /\ Tail(http[b].buffer) = << >>
        /\ http[b].out = << >> /\ r # None
    BY <1>2, <1>3, NoneIsNothing DEF Buffered
  <1> DEFINE h == [http[b] EXCEPT !.buffer = << >>, !.responder = r]
             told(code) == Answer(h, Reply(r.tag, code, None))
  <1>6. /\ h \in HttpType /\ h.responder = r /\ h.buffer = << >> /\ h.out = << >>
    <2>1. h \in HttpType /\ h.responder = r /\ h.buffer = << >> /\ h.out = http[b].out
      BY <1>1, <1>3, TakenFacts, Zenon
    <2> QED
      BY <2>1, <1>5, Zenon
  <1>7. [http[b] EXCEPT !.buffer = Tail(@), !.responder = Head(http[b].buffer)] = h
    BY <1>5
  <1>8. InHand(b, h)
    BY <1>3, <1>6 DEF InHand
  <1> HIDE DEF h
  <1>9. ASSUME NEW code \in Codes, code # "unauthorised"
        PROVE  /\ told(code) \in HttpType /\ told(code).buffer = << >>
               /\ told(code).responder = None
               /\ \E m \in Replies : told(code).out = << m >> /\ Told(b, m)
    <2> DEFINE m == Reply(r.tag, code, None)
    <2>1. m \in Replies /\ m.tag = r.tag /\ m.code = code /\ m.page = None
      BY <1>4, ReplyFacts
    <2> HIDE DEF m
    <2>2. /\ Answer(h, m) \in HttpType /\ Answer(h, m).buffer = << >>
          /\ Answer(h, m).responder = None /\ Answer(h, m).out = << m >>
      BY <1>5, <1>6, <2>1, AnswerFacts
    <2>3. Told(b, m)
      BY <1>4, <1>9, <2>1 DEF Told
    <2> QED
      BY <2>1, <2>2, <2>3 DEF m
  <1>10. {"bad_request", "ok", "forbidden", "unavailable"} \subseteq Codes \ {"unauthorised"}
    BY DEF Codes
  <1>11. ASSUME NEW g \in HttpType, http' = [http EXCEPT ![b] = g], InHand(b, g) \/ Answered(b, g)
         PROVE  http' \in [Browsers -> HttpType] /\ HandInv'
    BY <1>1, <1>2, <1>11, HandSet
  <1>12. ASSUME NEW g \in HttpType, http' = [http EXCEPT ![b] = g], InHand(b, g) \/ Answered(b, g),
                UNCHANGED << link, wire >>
         PROVE  BoardInv'
    <2>1. BoardTypes' /\ HandInv'
      BY <1>1, <1>11, <1>12 DEF BoardTypes
    <2>2. VenueInv' /\ GreetedInv'
      BY <1>1, <1>12 DEF VenueInv, LiveOrdersAreListed, GreetedInv, Authorised
    <2> QED
      BY <1>1, <1>12, <2>1, <2>2, QuietStep
  <1>13. Issued(r.tag)
    BY <1>1, <1>2, <1>4 DEF Issued, Tags
  <1>14. CASE http' = [http EXCEPT ![b] = [told("bad_request") EXCEPT !.buffer = << >>, !.closing = TRUE]]
              /\ UNCHANGED << link, wire >>
    <2> DEFINE g == [told("bad_request") EXCEPT !.buffer = << >>, !.closing = TRUE]
    <2> HIDE DEF told
    <2>1. /\ g \in HttpType /\ g.buffer = << >> /\ g.responder = None
          /\ g.out = told("bad_request").out
      BY <1>9, <1>10 DEF HttpType
    <2> HIDE DEF g
    <2>2. Answered(b, g)
      BY <1>9, <1>10, <2>1 DEF Answered
    <2> QED
      BY <1>12, <1>14, <2>1, <2>2 DEF g
  <1>15. CASE /\ http' = [http EXCEPT ![b] = [told("ok") EXCEPT !.closing = FALSE, !.stream = TRUE]]
              /\ link' = [link EXCEPT !.topics = TRUE,
                             !.ids = IF ~link.topics /\ link.conn = "open" THEN @ + 1 ELSE @]
              /\ wire' = IF ~link.topics /\ link.conn = "open"
                         THEN [wire EXCEPT !.up = Append(@, Line(NextId, "subscribe", None, None))]
                         ELSE wire
    <2> DEFINE g == [told("ok") EXCEPT !.closing = FALSE, !.stream = TRUE]
    <2> HIDE DEF told
    <2>1. /\ g \in HttpType /\ g.buffer = << >> /\ g.responder = None
          /\ g.out = told("ok").out
      BY <1>9, <1>10 DEF HttpType
    <2> HIDE DEF g
    <2>2. Answered(b, g)
      BY <1>9, <1>10, <2>1 DEF Answered
    <2>3. http' \in [Browsers -> HttpType] /\ HandInv'
      BY <1>11, <1>15, <2>1, <2>2 DEF g
    <2>4. CASE ~link.topics /\ link.conn = "open"
      <3> DEFINE q == Line(NextId, "subscribe", None, None)
      <3>1. q \in Questions /\ q.id = link.ids /\ q.tag = None
        <4>1. "subscribe" \in Commands /\ NextId \in Nat /\ NextId = link.ids
              /\ None \in Tags \cup {None} /\ None \in Nat \cup {None}
          BY <1>1 DEF Commands, NextId
        <4> QED
          BY <4>1 DEF Line, Questions
      <3>2. wire' = [wire EXCEPT !.up = Append(@, q)]
        BY <1>15, <2>4
      <3> HIDE DEF q
      <3>3. PICK ids \in Nat : ids = link.ids + 1
        BY <1>1
      <3>4. link' = [link EXCEPT !.topics = TRUE, !.ids = ids]
        BY <1>15, <2>4, <3>3
      <3>5. link' \in LinkType /\ link'.ids = link.ids + 1 /\ link'.pending = link.pending
        BY <1>1, <3>3, <3>4 DEF LinkType
      <3>6. PICK up \in Seq(Questions) : up = Append(wire.up, q)
        BY <1>1, <3>1, AppendProperties
      <3>7. wire' = [wire EXCEPT !.up = up]
        BY <3>2, <3>6
      <3>8. /\ wire' \in [up : Seq(Questions), down : Seq(Answers)]
            /\ wire'.up = up /\ wire'.down = wire.down
        BY <1>1, <3>7
      <3>9. BoardTypes'
        BY <1>1, <2>3, <3>5, <3>8 DEF BoardTypes
      <3> QED
        BY <1>1, <2>3, <3>1, <3>5, <3>6, <3>8, <3>9, LineSent
    <2>5. CASE ~(~link.topics /\ link.conn = "open")
      <3>1. link' = [link EXCEPT !.topics = TRUE, !.ids = link.ids] /\ wire' = wire
        BY <1>15, <2>5
      <3>2. link' \in LinkType /\ link'.ids = link.ids /\ link'.pending = link.pending
        BY <1>1, <3>1 DEF LinkType
      <3>3. BoardTypes'
        BY <1>1, <2>3, <3>1, <3>2 DEF BoardTypes
      <3>4. VenueInv' /\ GreetedInv'
        BY <1>1, <3>1 DEF VenueInv, LiveOrdersAreListed, GreetedInv, Authorised
      <3> QED
        BY <1>1, <2>3, <3>1, <3>2, <3>3, <3>4, QuietStep
    <2> QED
      BY <2>4, <2>5
  <1>16. CASE http' = [http EXCEPT ![b] = told("forbidden")] /\ UNCHANGED << link, wire >>
    <2>1. told("forbidden") \in HttpType /\ Answered(b, told("forbidden"))
      BY <1>9, <1>10 DEF Answered
    <2> QED
      BY <1>12, <1>16, <2>1
  <1>17. CASE Call(b, h, r) /\ link.conn # "open"
    <2>1. told("unavailable") \in HttpType /\ Answered(b, told("unavailable"))
      BY <1>9, <1>10 DEF Answered
    <2>2. http' = [http EXCEPT ![b] = told("unavailable")] /\ UNCHANGED << link, wire >>
      BY <1>17 DEF Call
    <2> QED
      BY <1>12, <2>1, <2>2
  <1>18. CASE Call(b, h, r) /\ link.conn = "open"
    <2> DEFINE q == Line(NextId, r.cmd, r.tag, r.after)
               asked == [id |-> NextId, tag |-> r.tag]
    <2>1. /\ http' = [http EXCEPT ![b] = h]
          /\ link' = [link EXCEPT !.ids = @ + 1, !.pending = @ \cup {asked}]
          /\ wire' = [wire EXCEPT !.up = Append(@, q)]
      BY <1>18 DEF Call
    <2>2. http' \in [Browsers -> HttpType] /\ HandInv'
      BY <1>6, <1>8, <1>11, <2>1
    <2>3. NextId \in Nat /\ NextId = link.ids
      BY <1>1 DEF NextId
    <2>4. /\ q \in Questions /\ q.id = link.ids /\ q.tag = r.tag /\ q.after = r.after
      BY <1>4, <2>3, LineFacts
    <2>5. asked \in [id : Nat, tag : Tags] /\ asked.id = q.id /\ asked.tag = q.tag
      BY <1>4, <2>3, <2>4
    <2> HIDE DEF q, asked
    <2>6. PICK ids \in Nat : ids = link.ids + 1
      BY <1>1
    <2>7. link' = [link EXCEPT !.ids = ids, !.pending = @ \cup {asked}]
      BY <2>1, <2>6
    <2>8. link' \in LinkType /\ link'.ids = ids /\ link'.pending = link.pending \cup {asked}
      BY <1>1, <2>5, <2>7 DEF LinkType
    <2>9. PICK up \in Seq(Questions) : up = Append(wire.up, q)
      BY <1>1, <2>4, AppendProperties
    <2>10. wire' = [wire EXCEPT !.up = up]
      BY <2>1, <2>9
    <2>11. /\ wire' \in [up : Seq(Questions), down : Seq(Answers)]
           /\ wire'.up = up /\ wire'.down = wire.down
      BY <1>1, <2>10
    <2>12. BoardTypes'
      BY <1>1, <2>2, <2>8, <2>11 DEF BoardTypes
    <2>13. q.tag = waits[Tailer] => q.after = tail.after
      <3>1. ASSUME q.tag = waits[Tailer] PROVE b = Tailer
        <4>1. waits[Tailer] = << Tailer, used.requests[Tailer] >>
          BY <1>2, <1>4, <2>4, <3>1, BoardAssumption DEF BoardInv, HandInv, HandOf
        <4> QED
          BY <1>2, <1>4, <2>4, <3>1, <4>1
      <3> QED
        BY <1>4, <2>4, <3>1
    <2>14. \A p \in link'.pending : p \in link.pending \/ (p.id = q.id /\ p.tag = q.tag)
      BY <2>5, <2>8
    <2> QED
      BY <1>1, <1>4, <1>13, <2>2, <2>4, <2>6, <2>8, <2>9, <2>11, <2>12, <2>13, <2>14, LineSent
  <1> QED
    BY <1>5, <1>7, <1>14, <1>15, <1>16, <1>17, <1>18 DEF Takes
LEMMA LeastFacts ==
    ASSUME NEW T \in SUBSET Nat, T # {}
    PROVE  \E q \in T : \A r \in T : q <= r
  <1>1. PICK q \in T : \A r \in T : ~(<< r, q >> \in OpToRel(<, Nat))
    BY NatLessThanWellFounded, WFMin
  <1>2. \A r \in T : ~(r < q)
    BY <1>1 DEF OpToRel
  <1> QED
    BY <1>2

\* After a page the view has everything up to its cursor, or a mark for it.
LEMMA FollowsFacts ==
    ASSUME tail \in TailType, TailInv, venue.life \in Nat,
           NEW page \in Pages, PageOK(page, tail.after)
    PROVE  /\ Follows(page) \in TailType
           /\ Follows(page).after # None =>
                 /\ venue.life > 0
                 /\ Follows(page).life # 0 =>
                       {Follows(page).life} \X (1..Follows(page).after)
                          \subseteq Follows(page).seen \cup Follows(page).gaps
  <1> DEFINE t == Follows(page)
             least == IF page.seqs = {} THEN page.last_seq + 1
                      ELSE CHOOSE q \in page.seqs : \A r \in page.seqs : q <= r
  <1>1. /\ page.seqs \in SUBSET Nat /\ page.last_seq \in Nat /\ page.life \in Nat
        /\ page.truncated \in BOOLEAN /\ venue.life > 0
        /\ Sound(page, tail.after)
    BY DEF Pages, PageOK
  <1>2. /\ tail.after \in Nat \cup {None} /\ tail.life \in Nat
        /\ tail.seen \in SUBSET (Nat \X Nat) /\ tail.gaps \in SUBSET (Nat \X Nat)
    BY DEF TailType
  <1>3. /\ least \in Nat /\ least <= page.last_seq + 1 /\ least >= 1
        /\ least..page.last_seq \subseteq page.seqs
    <2>1. CASE page.seqs = {}
      BY <1>1, <2>1
    <2>2. CASE page.seqs # {}
      <3>1. \E q \in page.seqs : \A r \in page.seqs : q <= r
        BY <1>1, <2>2, LeastFacts
      <3>2. least \in page.seqs
        BY <2>2, <3>1
      <3> HIDE DEF least
      <3>3. least \in 1..page.last_seq /\ least..page.last_seq \subseteq page.seqs
        BY <1>1, <3>2 DEF Sound
      <3> QED
        BY <1>1, <3>3
    <2> QED
      BY <2>1, <2>2
  <1>4. t = [after |-> IF page.last_seq = 0 THEN None ELSE page.last_seq,
             life |-> IF tail.after = None \/ page.life = tail.life THEN page.life ELSE 0,
             seen |-> IF tail.after = None
                      THEN {page.life} \X ((1 .. (least - 1)) \cup page.seqs)
                      ELSE tail.seen \cup ({page.life} \X page.seqs),
             gaps |-> IF tail.after = None THEN {}
                      ELSE IF page.truncated
                      THEN tail.gaps \cup ({page.life} \X ((tail.after + 1) .. (least - 1)))
                      ELSE tail.gaps]
    BY DEF Follows
  <1> HIDE DEF t, least
  <1>5. t.after \in Nat \cup {None} /\ (t.after # None => t.after = page.last_seq)
    BY <1>1, <1>4
  <1>6. t.life \in Nat /\ (t.life # 0 => t.life = page.life)
        /\ (t.life # 0 => tail.after = None \/ page.life = tail.life)
    BY <1>1, <1>4
  <1>7. 1 .. (least - 1) \subseteq Nat
    BY <1>3
  <1>8. tail.after # None => (tail.after + 1) .. (least - 1) \subseteq Nat
    BY <1>2, <1>3
  <1>9. t.seen = IF tail.after = None
                 THEN {page.life} \X ((1 .. (least - 1)) \cup page.seqs)
                 ELSE tail.seen \cup ({page.life} \X page.seqs)
    BY <1>4
  <1>10. t.gaps = IF tail.after = None THEN {}
                  ELSE IF page.truncated
                  THEN tail.gaps \cup ({page.life} \X ((tail.after + 1) .. (least - 1)))
                  ELSE tail.gaps
    BY <1>4
  <1>11. t.seen \in SUBSET (Nat \X Nat) /\ t.gaps \in SUBSET (Nat \X Nat)
    BY <1>1, <1>2, <1>7, <1>8, <1>9, <1>10
  <1>12. t \in TailType
    BY <1>4, <1>5, <1>6, <1>11 DEF TailType
  <1>13. ASSUME t.after # None, t.life # 0, NEW q \in 1..t.after
         PROVE  << t.life, q >> \in t.seen \cup t.gaps
    <2>1. q \in 1..page.last_seq /\ t.life = page.life /\ q \in Nat
      BY <1>1, <1>5, <1>6, <1>13
    <2>2. q \in 1 .. (least - 1) \/ q \in page.seqs
      BY <1>1, <1>3, <2>1
    <2>3. CASE tail.after = None
      BY <1>9, <2>1, <2>2, <2>3
    <2>4. CASE tail.after # None
      <3>1. page.life = tail.life /\ tail.life # 0 /\ tail.after \in Nat
        BY <1>2, <1>6, <1>13, <2>1, <2>4
      <3>2. {tail.life} \X (1..tail.after) \subseteq tail.seen \cup tail.gaps
        BY <2>4, <3>1 DEF TailInv
      <3>3. CASE q \in page.seqs
        BY <1>9, <2>1, <2>4, <3>3
      <3>4. CASE q \in 1..tail.after
        <4>1. << tail.life, q >> \in tail.seen \cup tail.gaps
          BY <3>2, <3>4
        <4> QED
          BY <1>9, <1>10, <2>1, <2>4, <3>1, <4>1
      <3>5. CASE q \notin page.seqs /\ q \notin 1..tail.after
        <4>1. q \in (tail.after + 1)..page.last_seq
          BY <1>1, <2>1, <3>1, <3>5
        <4>2. page.truncated
          BY <1>1, <2>4, <3>5, <4>1 DEF Sound
        <4>3. q \in 1 .. (least - 1)
          BY <2>2, <3>5
        <4>4. q \in (tail.after + 1) .. (least - 1)
          BY <1>3, <3>1, <4>1, <4>3
        <4> QED
          BY <1>10, <2>1, <2>4, <4>2, <4>4
      <3> QED
        BY <3>3, <3>4, <3>5
    <2> QED
      BY <2>3, <2>4
  <1>14. t.after # None /\ t.life # 0 => {t.life} \X (1..t.after) \subseteq t.seen \cup t.gaps
    BY <1>13
  <1> QED
    BY <1>1, <1>12, <1>14 DEF t
LEMMA AsksStep ==
    ASSUME BoardInv, NEW b \in Browsers, Asks(b)
    PROVE  BoardInv'
  <1>1. /\ BoardTypes /\ VenueInv /\ GreetedInv /\ ClaimInv /\ LineInv /\ HandInv /\ TailInv
        /\ HandOf(b) /\ http[b] \in HttpType /\ waits[b] = None /\ used.requests[b] \in Nat
        /\ venue.life \in Nat /\ link.ids \in Nat
        /\ tail.after \in Nat \cup {None}
        /\ UNCHANGED << venue, link, wire, tail >>
    BY DEF BoardInv, BoardTypes, VenueType, LinkType, TailType, HandInv, Asks
  <1>2. Empty(http[b])
    BY <1>1 DEF HandOf
  <1>3. PICK n \in Nat : n = used.requests[b] + 1 /\ n > used.requests[b] /\ n # 0
    <2>1. used.requests[b] + 1 \in Nat /\ used.requests[b] + 1 > used.requests[b]
      BY <1>1
    <2> QED
      BY <1>1, <2>1
  <1> DEFINE tag == << b, n >>
  <1>4. tag \in Tags /\ tag # None
    <2>1. tag \in Tags
      BY <1>3 DEF Tags
    <2> QED
      BY <2>1, NoneIsNothing
  <1>5. PICK cmd \in Asked[b] :
           http' = [http EXCEPT ![b].open = TRUE,
                      ![b].buffer = Append(@, [cmd |-> cmd, tag |-> tag,
                                        keep |-> cmd \notin OneShot,
                                        after |-> IF b = Tailer THEN tail.after ELSE None])]
    BY <1>3 DEF Asks
  <1> DEFINE r == [cmd |-> cmd, tag |-> tag, keep |-> cmd \notin OneShot,
                   after |-> IF b = Tailer THEN tail.after ELSE None]
  <1>6. PICK q \in Requests : q = r /\ q.tag = tag /\ (b = Tailer => q.after = tail.after)
    <2>1. PICK keep \in BOOLEAN : keep = (cmd \notin OneShot)
      OBVIOUS
    <2>2. PICK after \in Nat \cup {None} : after = IF b = Tailer THEN tail.after ELSE None
      BY <1>1
    <2>3. r = [cmd |-> cmd, tag |-> tag, keep |-> keep, after |-> after]
      BY <2>1, <2>2
    <2>4. cmd \in UNION {Asked[c] : c \in Browsers}
      BY <1>5
    <2> HIDE DEF r, tag
    <2>5. r \in Requests
      BY <1>4, <2>3, <2>4 DEF Requests
    <2>6. r.tag = tag /\ r.after = after
      BY <2>3
    <2> QED
      BY <2>2, <2>5, <2>6
  <1>7. /\ waits' = [waits EXCEPT ![b] = tag]
        /\ used' = [used EXCEPT !.requests[b] = n]
    BY <1>3 DEF Asks
  <1>8. http' = [http EXCEPT ![b].open = TRUE, ![b].buffer = Append(@, q)]
    BY <1>5, <1>6
  <1> HIDE DEF r
  <1>9. PICK buffer \in Seq(Requests) : buffer = Append(http[b].buffer, q) /\ buffer = << q >>
    <2>1. http[b].buffer = << >>
      BY <1>2 DEF Empty
    <2>2. Append(<< >>, q) = << q >> /\ << q >> \in Seq(Requests)
      BY <1>6
    <2> QED
      BY <2>1, <2>2
  <1>10. PICK g \in HttpType : /\ g = [http[b] EXCEPT !.open = TRUE, !.buffer = buffer]
                               /\ g.buffer = << q >> /\ g.responder = None /\ g.out = << >>
    <2> DEFINE g == [http[b] EXCEPT !.open = TRUE, !.buffer = buffer]
    <2>1. g \in HttpType
      BY <1>1 DEF HttpType
    <2>2. g.buffer = buffer /\ g.responder = http[b].responder /\ g.out = http[b].out
      BY <1>1 DEF HttpType
    <2> QED
      BY <1>2, <1>9, <2>1, <2>2 DEF Empty
  <1>11. http' = [http EXCEPT ![b] = g]
    BY <1>1, <1>8, <1>9, <1>10 DEF BoardTypes
  <1>12. /\ http' \in [Browsers -> HttpType] /\ http'[b] = g
         /\ \A c \in Browsers : c # b => http'[c] = http[c]
    BY <1>1, <1>11 DEF BoardTypes
  <1> HIDE DEF tag
  <1>13. /\ waits' \in [Browsers -> Tags \cup {None}] /\ waits'[b] = tag
         /\ \A c \in Browsers : c # b => waits'[c] = waits[c]
    BY <1>1, <1>4, <1>7 DEF BoardTypes
  <1>14. /\ used' \in [requests : [Browsers -> Nat], faults : Nat, acts : Nat]
         /\ used'.requests[b] = n
         /\ \A c \in Browsers : c # b => used'.requests[c] = used.requests[c]
    BY <1>1, <1>3, <1>7 DEF BoardTypes
  <1>15. BoardTypes'
    BY <1>1, <1>12, <1>13, <1>14 DEF BoardTypes
  <1>16. VenueInv' /\ GreetedInv' /\ TailInv'
    BY <1>1 DEF VenueInv, LiveOrdersAreListed, GreetedInv, Authorised, TailInv
  <1>17. ClaimInv'
    <2>1. \A id \in Nat, s \in Tags \cup {None} : Claim(id, s)' => Claim(id, s)
      BY <1>1 DEF Claim
    <2>2. None \in Tags \cup {None} /\ link.ids <= link'.ids
      BY <1>1
    <2>3. \A c \in Browsers : used.requests[c] <= used'.requests[c]
      <3> TAKE c \in Browsers
      <3>1. used.requests[c] \in Nat
        BY <1>1 DEF BoardTypes
      <3> QED
        BY <1>3, <1>14, <3>1
    <2> QED
      BY <1>1, <1>15, <2>1, <2>2, <2>3, ClaimStep
  <1>18. LineInv'
    <2>1. TailerKeeps
      BY <1>1, <1>3, <1>13, BoardAssumption DEF TailerKeeps, tag
    <2>2. wire' = wire
      BY <1>1
    <2> QED
      BY <1>1, <1>15, <2>1, <2>2, LineStep
  <1>19. ASSUME NEW c \in Browsers PROVE HandOf(c)'
    <2>1. CASE c = b
      <3>1. Request(b, q)'
        BY <1>1, <1>6, <1>13 DEF Request
      <3>2. Buffered(b, http[b])'
        BY <1>6, <1>10, <1>12, <3>1 DEF Buffered
      <3>3. waits'[b] = << b, used'.requests[b] >>
        BY <1>13, <1>14 DEF tag
      <3> QED
        BY <1>4, <1>13, <2>1, <3>2, <3>3 DEF HandOf
    <2>2. CASE c # b
      BY <1>1, <1>12, <1>13, <1>14, <2>2, HandKept DEF HandInv
    <2> QED
      BY <2>1, <2>2
  <1>20. HandInv'
    BY <1>19 DEF HandInv
  <1> QED
    BY <1>15, <1>16, <1>17, <1>18, <1>20 DEF BoardInv

\* A browser that waits no longer, and whose connection holds nothing more.
LEMMA WaitEnds ==
    ASSUME BoardInv, NEW b \in Browsers, NEW g \in HttpType, Empty(g),
           http' = [http EXCEPT ![b] = g], waits' = [waits EXCEPT ![b] = None],
           UNCHANGED << venue, link, wire, used >>,
           tail' = tail \/ b = Tailer, tail' \in TailType, TailInv'
    PROVE  BoardInv'
  <1>1. /\ BoardTypes /\ VenueInv /\ GreetedInv /\ ClaimInv /\ LineInv /\ HandInv
        /\ venue.life \in Nat /\ link.ids \in Nat
    BY DEF BoardInv, BoardTypes, VenueType, LinkType
  <1>2. /\ http' \in [Browsers -> HttpType] /\ http'[b] = g
        /\ \A c \in Browsers : c # b => http'[c] = http[c]
    BY <1>1 DEF BoardTypes
  <1>3. /\ waits' \in [Browsers -> Tags \cup {None}] /\ waits'[b] = None
        /\ \A c \in Browsers : c # b => waits'[c] = waits[c]
    BY <1>1 DEF BoardTypes
  <1>4. BoardTypes'
    BY <1>1, <1>2, <1>3 DEF BoardTypes
  <1>5. VenueInv' /\ GreetedInv'
    BY <1>1 DEF VenueInv, LiveOrdersAreListed, GreetedInv, Authorised
  <1>6. ClaimInv'
    <2>1. \A id \in Nat, s \in Tags \cup {None} : Claim(id, s)' => Claim(id, s)
      BY DEF Claim
    <2>2. None \in Tags \cup {None} /\ link.ids <= link'.ids
      BY <1>1
    <2>3. \A c \in Browsers : used.requests[c] <= used'.requests[c]
      BY <1>1 DEF BoardTypes
    <2> QED
      BY <1>1, <1>4, <2>1, <2>2, <2>3, ClaimStep
  <1>7. LineInv'
    <2>1. TailerKeeps
      BY <1>1, <1>3, BoardAssumption DEF TailerKeeps
    <2> QED
      BY <1>1, <1>4, <2>1, LineStep
  <1>8. ASSUME NEW c \in Browsers PROVE HandOf(c)'
    <2>1. CASE c = b
      BY <1>2, <1>3, <2>1 DEF HandOf, Empty
    <2>2. CASE c # b
      BY <1>1, <1>2, <1>3, <2>2, HandKept DEF HandInv
    <2> QED
      BY <2>1, <2>2
  <1>9. HandInv'
    BY <1>8 DEF HandInv
  <1> QED
    BY <1>4, <1>5, <1>6, <1>7, <1>9 DEF BoardInv

LEMMA LeavesStep ==
    ASSUME BoardInv, NEW b \in Browsers, Leaves(b)
    PROVE  BoardInv'
  <1>1. NoHttp \in HttpType /\ Empty(NoHttp)
    BY DEF NoHttp, HttpType, Empty
  <1>2. tail' \in TailType /\ TailInv'
    BY DEF Leaves, BoardInv, BoardTypes, TailInv
  <1> QED
    BY <1>1, <1>2, WaitEnds DEF Leaves

LEMMA BrowserReadsStep ==
    ASSUME BoardInv, NEW b \in Browsers, BrowserReads(b)
    PROVE  BoardInv'
  <1>1. /\ BoardTypes /\ TailInv /\ HandOf(b) /\ http[b] \in HttpType
        /\ venue.life \in Nat /\ tail \in TailType /\ http[b].out # << >>
        /\ UNCHANGED << venue, link, wire, used >>
    BY DEF BoardInv, BoardTypes, VenueType, HandInv, BrowserReads
  <1>2. PICK m \in Replies : http[b].out = << m >> /\ Told(b, m)
    BY <1>1 DEF HandOf, Empty, Buffered, InHand, Answered
  <1>3. /\ Head(http[b].out) = m /\ Tail(http[b].out) = << >>
        /\ http[b].buffer = << >> /\ http[b].responder = None
    BY <1>1, <1>2 DEF HandOf, Empty, Buffered, InHand, Answered
  <1>4. PICK g \in HttpType : g = [http[b] EXCEPT !.out = << >>] /\ Empty(g)
    <2> DEFINE g == [http[b] EXCEPT !.out = << >>]
    <2>0. << >> \in Seq(Replies)
      OBVIOUS
    <2>1. g \in HttpType
      BY <1>1, <2>0 DEF HttpType
    <2>2. g.buffer = http[b].buffer /\ g.responder = http[b].responder /\ g.out = << >>
      BY <1>1 DEF HttpType
    <2> QED
      BY <1>3, <2>1, <2>2 DEF Empty
  <1>5. /\ http' = [http EXCEPT ![b] = g]
        /\ waits' = [waits EXCEPT ![b] = None]
    BY <1>1, <1>3, <1>4 DEF BrowserReads, BoardTypes
  <1>6. tail' = IF b = Tailer /\ m.page # None THEN Follows(m.page) ELSE tail
    BY <1>3 DEF BrowserReads
  <1>7. tail' \in TailType /\ TailInv'
    <2>1. CASE b = Tailer /\ m.page # None
      <3>1. m.page \in Pages /\ PageOK(m.page, tail.after)
        BY <1>2, <2>1 DEF Replies, Told
      <3>2. tail' = Follows(m.page) /\ venue' = venue
        BY <1>1, <1>6, <2>1
      <3>3. /\ Follows(m.page) \in TailType
            /\ Follows(m.page).after # None =>
                 /\ venue.life > 0
                 /\ Follows(m.page).life # 0 =>
                       {Follows(m.page).life} \X (1..Follows(m.page).after)
                          \subseteq Follows(m.page).seen \cup Follows(m.page).gaps
        BY <1>1, <3>1, FollowsFacts
      <3> QED
        BY <3>2, <3>3 DEF TailInv
    <2>2. CASE ~(b = Tailer /\ m.page # None)
      BY <1>1, <1>6, <2>2 DEF TailInv
    <2> QED
      BY <2>1, <2>2
  <1> QED
    BY <1>1, <1>4, <1>5, <1>6, <1>7, WaitEnds
LEMMA BoardStarts == Init => BoardInv
  <1> SUFFICES ASSUME Init
               PROVE  BoardInv
    OBVIOUS
  <1>1. NoHttp \in HttpType /\ Empty(NoHttp)
    BY DEF NoHttp, HttpType, Empty
  <1>2. NoSession \in SessionType /\ ~NoSession.open
    BY DEF NoSession, SessionType
  <1>3. NewDesk \in Desks /\ ~(NewDesk.live > 0)
    BY DEF NewDesk, Desks
  <1>4. NewAudit \in [ring : Seq(Nat), next : Nat] /\ TapeInv(NewAudit)
    BY TapeStarts DEF NewAudit
  <1>5. /\ venue = [up |-> FALSE, life |-> 0, ses |-> NoSession,
                    audit |-> NewAudit, desk |-> NewDesk]
        /\ link = [conn |-> "connecting", retry |-> FALSE, ids |-> 1, pending |-> {},
                   topics |-> FALSE]
        /\ wire = [up |-> << >>, down |-> << >>]
        /\ http = [b \in Browsers |-> NoHttp]
        /\ waits = [b \in Browsers |-> None]
        /\ tail = [after |-> None, life |-> 0, seen |-> {}, gaps |-> {}]
        /\ used = [requests |-> [b \in Browsers |-> 0], faults |-> 0, acts |-> 0]
    BY DEF Init
  <1>6. venue \in VenueType /\ VenueInv
    BY <1>2, <1>3, <1>4, <1>5 DEF VenueType, VenueInv, LiveOrdersAreListed
  <1>7. link \in LinkType
    BY <1>5 DEF LinkType
  <1>8. tail \in TailType /\ TailInv
    BY <1>5 DEF TailType, TailInv
  <1>9. /\ wire \in [up : Seq(Questions), down : Seq(Answers)]
        /\ Elements(wire.up) = {} /\ Elements(wire.down) = {}
    BY <1>5 DEF Elements
  <1>10. used \in [requests : [Browsers -> Nat], faults : Nat, acts : Nat]
    BY <1>5
  <1>11. http \in [Browsers -> HttpType] /\ waits \in [Browsers -> Tags \cup {None}]
    BY <1>1, <1>5
  <1>12. BoardTypes
    BY <1>6, <1>7, <1>8, <1>9, <1>10, <1>11 DEF BoardTypes
  <1>13. GreetedInv
    BY <1>2, <1>5 DEF GreetedInv
  <1>14. ClaimInv
    BY <1>5, <1>9 DEF ClaimInv, Claim
  <1>15. LineInv
    BY <1>9 DEF LineInv
  <1>16. HandInv
    BY <1>1, <1>5 DEF HandInv, HandOf
  <1> QED
    BY <1>6, <1>8, <1>12, <1>13, <1>14, <1>15, <1>16 DEF BoardInv

LEMMA BoardStep == BoardInv /\ [Next]_vars => BoardInv'
  <1> SUFFICES ASSUME BoardInv, [Next]_vars
               PROVE  BoardInv'
    OBVIOUS
  <1>1. CASE Connects
    BY <1>1, ConnectsStep
  <1>2. CASE ConnectFails \/ LinkCloses \/ \E p \in link.pending : CallExpires(p)
    BY <1>2, CallsEnd
  <1>3. CASE Redial
    BY <1>3, RedialStep
  <1>4. CASE LinkReads
    BY <1>4, LinkReadsStep
  <1>5. CASE \E b \in Browsers : Takes(b) \/ Drains(b)
    BY <1>5, TakesStep, DrainsStep
  <1>6. CASE VenueReads
    BY <1>6, VenueReadsStep
  <1>7. CASE VenueStarts \/ VenueStops \/ Breaks \/ ClientActs
    BY <1>7, VenueLives
  <1>8. CASE \E b \in Browsers : Asks(b) \/ BrowserReads(b) \/ Leaves(b)
    BY <1>8, AsksStep, BrowserReadsStep, LeavesStep
  <1>9. CASE UNCHANGED vars
    <2>1. UNCHANGED << venue, link, wire, http, waits, tail, used >>
      BY <1>9 DEF vars
    <2>2. BoardTypes' /\ VenueInv' /\ GreetedInv' /\ HandInv' /\ venue.life \in Nat
      <3>1. BoardTypes' /\ VenueInv' /\ venue.life \in Nat
        BY <2>1 DEF BoardInv, BoardTypes, VenueType, VenueInv, LiveOrdersAreListed
      <3>2. GreetedInv'
        BY <2>1 DEF BoardInv, GreetedInv, Authorised
      <3>3. HandInv'
        BY <2>1 DEF BoardInv, HandInv, HandOf, Empty, Buffered, InHand, Answered,
                    Request, Told, PageOK, Sound
      <3> QED
        BY <3>1, <3>2, <3>3
    <2> QED
      BY <2>1, <2>2, QuietStep
  <1> QED
    BY <1>1, <1>2, <1>3, <1>4, <1>5, <1>6, <1>7, <1>8, <1>9 DEF Next, Board

LEMMA BoardAlways == Spec => []BoardInv
  <1>1. Init => BoardInv
    BY BoardStarts
  <1>2. BoardInv /\ [Next]_vars => BoardInv'
    BY BoardStep
  <1> QED
    BY <1>1, <1>2, PTL DEF Spec

\* What a browser is told is the answer to what it asked, never a refusal for want of
\* a token the board has, and no order is left in an instrument that is gone.
\* web/app.py _complete, web/link.py _on_line: for every number of browsers, requests
\* and faults, and every set of commands.
THEOREM CommandsSound == Spec => []CommandsAreSound
  <1>1. BoardInv => CommandsAreSound
    <2> SUFFICES ASSUME BoardInv
                 PROVE  CommandsAreSound
      OBVIOUS
    <2>1. ASSUME NEW b \in Browsers, NEW i \in DOMAIN http[b].out
          PROVE  /\ http[b].out[i].tag = waits[b]
                 /\ Authorised => http[b].out[i].code # "unauthorised"
      <3>1. HandOf(b)
        BY DEF BoardInv, HandInv
      <3>2. http[b].out # << >>
        BY <2>1
      <3>3. PICK m \in Replies : http[b].out = << m >> /\ Told(b, m)
        BY <3>1, <3>2 DEF HandOf, Empty, Buffered, InHand, Answered
      <3>4. http[b].out[i] = m
        BY <2>1, <3>3
      <3> QED
        BY <3>3, <3>4 DEF Told
    <2>2. LiveOrdersAreListed
      BY DEF BoardInv, VenueInv
    <2> QED
      BY <2>1, <2>2 DEF CommandsAreSound, AnswersMatch, NeverUnauthorised, Authorised
  <1> QED
    BY <1>1, BoardAlways, PTL

\* The audit view misses nothing while the venue lives: what it has not shown it has
\* marked.  audit.py entries, web/static/app.js: for every capacity of the tape and
\* every size of its pages.
THEOREM TailComplete == Spec => []TailMissesNothing
  <1>1. BoardInv => TailMissesNothing
    BY DEF BoardInv, TailInv, TailMissesNothing
  <1> QED
    BY <1>1, BoardAlways, PTL
----------------------------------------------------------------------------
(* The runner's inductive invariant *)

Heard == [id : Nat, s : Members, file : Nat, kind : Kinds]
ClientType == [connected : BOOLEAN, half : BOOLEAN, junk : BOOLEAN, inbox : Seq(Heard)]
QueueType == [open : BOOLEAN, queue : Seq(Heard)]
Reasons == {Nobody, "answer", "malformed", "capture", "unheard", "unexpected", "unreadable"}
Phases == {"load", "dial", "step", "call", "wait", "window"}

RunnerTypes ==
    /\ files \in Suites
    /\ runner \in [file : Nat \ {0}, step : Nat, phase : Phases]
    /\ client \in [Members -> ClientType]
    /\ line \in [Members -> QueueType]
    /\ sent \in Nat
    /\ verdicts \in Seq([passed : BOOLEAN, why : Reasons])
    /\ Len(verdicts) = runner.file - 1

Steps(i) == files[i].steps

\* Between files every connection is closed; in a file the runner has its place, and
\* what it waits for is a step that has a session.
PlaceInv ==
    /\ runner.phase = "load" => \A s \in Members : line[s] = NoLine
    /\ runner.phase # "load" => runner.file \in DOMAIN files /\ runner.step # 0
    /\ runner.phase \in {"wait", "window"} => runner.step \in DOMAIN File.steps /\ Step.do \in Deeds

Rising(q) == \A i, j \in 1..Len(q) : i < j => q[i].id < q[j].id

Pool(s) == Elements(client[s].inbox) \cup Elements(line[s].queue)

\* What has arrived and what is on its way, in the order in which it was sent.
BoxInv(s) ==
    /\ Rising(client[s].inbox) /\ Rising(line[s].queue)
    /\ \A x \in Elements(client[s].inbox), y \in Elements(line[s].queue) : x.id < y.id
    /\ \A x \in Pool(s) : x.s = s /\ x.file = runner.file /\ x.id <= sent

Fits(x, kind) == kind = Nobody \/ x.kind = kind

\* The message that satisfied a step is the step's own, is not waiting any more, and
\* came before all that would also do.
HeardOK(n) ==
    /\ heard[n] \in Heard /\ heard[n].id <= sent
    /\ heard[n].s = Steps(runner.file)[n].s /\ heard[n].file = runner.file
    /\ Fits(heard[n], Wanted(Steps(runner.file)[n]))
    /\ \A s \in Members : \A x \in Pool(s) :
          /\ x.id # heard[n].id
          /\ s = heard[n].s /\ Fits(x, Wanted(Steps(runner.file)[n])) => heard[n].id < x.id

HeardTwice(m, n) ==
    /\ heard[m].id = heard[n].id => m = n
    /\ m < n /\ heard[m].s = heard[n].s
          /\ Wanted(Steps(runner.file)[m]) = Wanted(Steps(runner.file)[n])
             => heard[m].id < heard[n].id

HeardInv ==
    /\ DOMAIN heard \subseteq 1..(runner.step - 1)
    /\ \A n \in DOMAIN heard : HeardOK(n)
    /\ \A m, n \in DOMAIN heard : HeardTwice(m, n)
    /\ \A n \in 1..(runner.step - 1) :
          n \in DOMAIN Steps(runner.file) /\ Awaits(Steps(runner.file)[n]) => n \in DOMAIN heard

FileInv ==
    /\ \A s \in Members : BoxInv(s)
    /\ \A s, t \in Members : \A x \in Pool(s), y \in Pool(t) : x.id = y.id => s = t
    /\ HeardInv

RunnerInv ==
    /\ RunnerTypes /\ PlaceInv
    /\ runner.phase # "load" => FileInv
    /\ runner.phase = "load" => VerdictsAreFounded

LEMMA MatchingFacts ==
    ASSUME NEW q \in Seq(Heard), NEW kind
    PROVE  /\ Matching(q, kind) \in 0..Len(q)
           /\ Matching(q, kind) # 0 =>
                 /\ Fits(q[Matching(q, kind)], kind)
                 /\ \A j \in 1..Len(q) : Fits(q[j], kind) => Matching(q, kind) <= j
           /\ Matching(q, kind) = 0 => \A j \in 1..Len(q) : ~Fits(q[j], kind)
  <1> DEFINE I == {i \in 1..Len(q) : kind = Nobody \/ q[i].kind = kind}
  <1>1. Matching(q, kind) = IF I # {} THEN CHOOSE i \in I : \A j \in I : i <= j ELSE 0
    BY DEF Matching, SelectInSeq, Min
  <1>2. I \in SUBSET Nat /\ Len(q) \in Nat
    OBVIOUS
  <1>3. \A i : i \in I <=> i \in 1..Len(q) /\ Fits(q[i], kind)
    BY DEF Fits
  <1> HIDE DEF I
  <1>4. CASE I = {}
    BY <1>1, <1>2, <1>3, <1>4
  <1>5. CASE I # {}
    <2>1. \E i \in I : \A j \in I : i <= j
      BY <1>2, <1>5, LeastFacts
    <2>2. Matching(q, kind) \in I /\ \A j \in I : Matching(q, kind) <= j
      BY <1>1, <1>5, <2>1
    <2>3. Matching(q, kind) \in 1..Len(q)
      BY <1>3, <2>2
    <2> QED
      BY <1>2, <1>3, <2>2, <2>3
  <1> QED
    BY <1>4, <1>5

\* A part of a rising sequence.
LEMMA PartFacts ==
    ASSUME NEW q \in Seq(Heard), Rising(q), NEW m \in 1..(Len(q) + 1), NEW n \in 0..Len(q)
    PROVE  /\ SubSeq(q, m, n) \in Seq(Heard) /\ Rising(SubSeq(q, m, n))
           /\ \A x \in Elements(SubSeq(q, m, n)) : \E j \in 1..Len(q) : m <= j /\ j <= n /\ x = q[j]
  <1> DEFINE p == SubSeq(q, m, n)
  <1>1. Len(q) \in Nat /\ m \in Nat /\ n \in Nat /\ \A i \in m..n : q[i] \in Heard
    OBVIOUS
  <1>2. /\ p \in Seq(Heard)
        /\ Len(p) = IF m <= n THEN n - m + 1 ELSE 0
        /\ \A i \in 1..(n - m + 1) : p[i] = q[m + i - 1]
    BY <1>1, SubSeqProperties
  <1> HIDE DEF p
  <1>3. \A i \in 1..Len(p) : /\ i \in 1..(n - m + 1)
                             /\ m + i - 1 \in 1..Len(q) /\ m <= m + i - 1 /\ m + i - 1 <= n
    BY <1>1, <1>2
  <1>4. ASSUME NEW i \in 1..Len(p), NEW j \in 1..Len(p), i < j
        PROVE  p[i].id < p[j].id
    <2>1. p[i] = q[m + i - 1] /\ p[j] = q[m + j - 1]
      BY <1>2, <1>3
    <2>2. m + i - 1 \in 1..Len(q) /\ m + j - 1 \in 1..Len(q)
      BY <1>3
    <2>3. m + i - 1 < m + j - 1
      BY <1>1, <1>2, <1>4
    <2> QED
      BY <2>1, <2>2, <2>3 DEF Rising
  <1>5. Rising(p)
    BY <1>4 DEF Rising
  <1>6. ASSUME NEW x \in Elements(p)
        PROVE  \E j \in 1..Len(q) : m <= j /\ j <= n /\ x = q[j]
    <2>1. PICK i \in 1..Len(p) : x = p[i]
      BY <1>6 DEF Elements
    <2> QED
      BY <1>2, <1>3, <2>1
  <1> QED
    BY <1>2, <1>5, <1>6 DEF p

LEMMA RisingConcat ==
    ASSUME NEW q \in Seq(Heard), NEW r \in Seq(Heard), Rising(q), Rising(r),
           \A x \in Elements(q), y \in Elements(r) : x.id < y.id
    PROVE  /\ q \o r \in Seq(Heard) /\ Rising(q \o r)
           /\ Elements(q \o r) = Elements(q) \cup Elements(r)
  <1> DEFINE u == q \o r
  <1>1. /\ Len(q) \in Nat /\ Len(r) \in Nat /\ u \in Seq(Heard) /\ Len(u) = Len(q) + Len(r)
        /\ \A i \in 1..(Len(q) + Len(r)) :
              u[i] = IF i <= Len(q) THEN q[i] ELSE r[i - Len(q)]
    BY ConcatProperties
  <1>2. Elements(u) = Elements(q) \cup Elements(r)
    BY ElementsFacts
  <1> HIDE DEF u
  <1>3. ASSUME NEW i \in 1..Len(u), NEW j \in 1..Len(u), i < j
        PROVE  u[i].id < u[j].id
    <2>1. CASE j <= Len(q)
      <3>1. i \in 1..Len(q) /\ j \in 1..Len(q) /\ u[i] = q[i] /\ u[j] = q[j]
        BY <1>1, <1>3, <2>1
      <3> QED
        BY <1>3, <3>1 DEF Rising
    <2>2. CASE i > Len(q)
      <3>1. i - Len(q) \in 1..Len(r) /\ j - Len(q) \in 1..Len(r) /\ i - Len(q) < j - Len(q)
        BY <1>1, <1>3, <2>2
      <3>2. u[i] = r[i - Len(q)] /\ u[j] = r[j - Len(q)]
        BY <1>1, <1>3, <2>2
      <3> QED
        BY <3>1, <3>2 DEF Rising
    <2>3. CASE i <= Len(q) /\ j > Len(q)
      <3>1. i \in 1..Len(q) /\ j - Len(q) \in 1..Len(r) /\ u[i] = q[i] /\ u[j] = r[j - Len(q)]
        BY <1>1, <1>3, <2>3
      <3>2. u[i] \in Elements(q) /\ u[j] \in Elements(r)
        BY <3>1 DEF Elements
      <3> QED
        BY <3>2
    <2> QED
      BY <1>1, <2>1, <2>2, <2>3
  <1> QED
    BY <1>1, <1>2, <1>3 DEF Rising, u

LEMMA ElementAt ==
    ASSUME NEW q \in Seq(Heard)
    PROVE  /\ \A i \in 1..Len(q) : q[i] \in Elements(q) /\ q[i] \in Heard
           /\ \A x \in Elements(q) : x \in Heard /\ \E i \in 1..Len(q) : x = q[i]
  BY DEF Elements

\* What is left once the i-th message is taken: the others, in their order.
LEMMA RemoveFacts ==
    ASSUME NEW q \in Seq(Heard), Rising(q), NEW i \in 1..Len(q)
    PROVE  /\ RemoveAt(q, i) \in Seq(Heard) /\ Rising(RemoveAt(q, i))
           /\ \A x \in Elements(RemoveAt(q, i)) : \E j \in 1..Len(q) : j # i /\ x = q[j]
  <1> DEFINE p == SubSeq(q, 1, i - 1)
             r == SubSeq(q, i + 1, Len(q))
  <1>1. Len(q) \in Nat /\ i - 1 \in 0..Len(q) /\ i + 1 \in 1..(Len(q) + 1) /\ 1 \in 1..(Len(q) + 1)
        /\ Len(q) \in 0..Len(q)
    OBVIOUS
  <1>2. /\ p \in Seq(Heard) /\ Rising(p)
        /\ \A x \in Elements(p) : \E j \in 1..Len(q) : 1 <= j /\ j <= i - 1 /\ x = q[j]
    BY <1>1, PartFacts
  <1>3. /\ r \in Seq(Heard) /\ Rising(r)
        /\ \A x \in Elements(r) : \E j \in 1..Len(q) : i + 1 <= j /\ j <= Len(q) /\ x = q[j]
    BY <1>1, PartFacts
  <1>4. RemoveAt(q, i) = p \o r
    BY DEF RemoveAt
  <1> HIDE DEF p, r
  <1>5. ASSUME NEW x \in Elements(p), NEW y \in Elements(r)
        PROVE  x.id < y.id
    <2>1. PICK j \in 1..Len(q) : j <= i - 1 /\ x = q[j]
      BY <1>2
    <2>2. PICK k \in 1..Len(q) : i + 1 <= k /\ y = q[k]
      BY <1>3
    <2>3. j < k
      BY <1>1, <2>1, <2>2
    <2> QED
      BY <2>1, <2>2, <2>3 DEF Rising
  <1>6. /\ p \o r \in Seq(Heard) /\ Rising(p \o r)
        /\ Elements(p \o r) = Elements(p) \cup Elements(r)
    BY <1>2, <1>3, <1>5, RisingConcat
  <1>7. ASSUME NEW x \in Elements(p) \cup Elements(r)
        PROVE  \E j \in 1..Len(q) : j # i /\ x = q[j]
    <2>1. CASE x \in Elements(p)
      <3>1. PICK j \in 1..Len(q) : j <= i - 1 /\ x = q[j]
        BY <1>2, <2>1
      <3>2. j # i
        BY <1>1, <3>1
      <3> QED
        BY <3>1, <3>2
    <2>2. CASE x \in Elements(r)
      <3>1. PICK j \in 1..Len(q) : i + 1 <= j /\ x = q[j]
        BY <1>3, <2>2
      <3>2. j # i
        BY <1>1, <3>1
      <3> QED
        BY <3>1, <3>2
    <2> QED
      BY <1>7, <2>1, <2>2
  <1> QED
    BY <1>4, <1>6, <1>7
\* A step that hears nothing: what it adds to a queue is newer than everything.
LEMMA FileKept ==
    ASSUME RunnerTypes, RunnerTypes', FileInv, files' = files, heard' = heard,
           runner'.file = runner.file,
           \/ runner'.step = runner.step
           \/ /\ runner'.step = runner.step + 1
              /\ runner.step \in DOMAIN Steps(runner.file)
                    => ~Awaits(Steps(runner.file)[runner.step]),
           sent <= sent',
           \A s \in Members :
              /\ Rising(client'[s].inbox) /\ Rising(line'[s].queue)
              /\ \A x \in Elements(client'[s].inbox), y \in Elements(line'[s].queue) : x.id < y.id
              /\ \A x \in Pool(s)' :
                    \/ x \in Pool(s)
                    \/ x.s = s /\ x.file = runner.file /\ x.id = sent + 1 /\ x.id <= sent',
           \A s, t \in Members : \A x \in Pool(s)', y \in Pool(t)' :
              x \notin Pool(s) /\ y \notin Pool(t) => s = t
    PROVE  FileInv'
  <1>1. /\ sent \in Nat /\ sent' \in Nat /\ runner.step \in Nat /\ runner'.step \in Nat
        /\ \A s \in Members : \A x \in Pool(s) : x.id \in Nat
    <2>1. ASSUME NEW s \in Members, NEW x \in Pool(s) PROVE x \in Heard
      <3>1. client[s].inbox \in Seq(Heard) /\ line[s].queue \in Seq(Heard)
        BY DEF RunnerTypes, ClientType, QueueType
      <3> QED
        BY <2>1, <3>1, ElementsFacts DEF Pool
    <2> QED
      BY <2>1 DEF RunnerTypes, Heard
  <1>2. ASSUME NEW s \in Members PROVE BoxInv(s)'
    <2>1. BoxInv(s)
      BY DEF FileInv
    <2>2. ASSUME NEW x \in Pool(s)'
          PROVE  x.s = s /\ x.file = runner.file /\ x.id <= sent'
      <3>1. CASE x \in Pool(s)
        BY <1>1, <2>1, <3>1 DEF BoxInv
      <3>2. CASE x \notin Pool(s)
        BY <2>2, <3>2
      <3> QED
        BY <3>1, <3>2
    <2> QED
      BY <2>2 DEF BoxInv
  <1>3. ASSUME NEW n \in DOMAIN heard PROVE HeardOK(n)'
    <2>1. HeardOK(n) /\ heard[n].id \in Nat /\ heard[n].id <= sent
      BY DEF FileInv, HeardInv, HeardOK, Heard
    <2>2. ASSUME NEW s \in Members, NEW x \in Pool(s)'
          PROVE  /\ x.id # heard[n].id
                 /\ s = heard[n].s /\ Fits(x, Wanted(Steps(runner.file)[n])) => heard[n].id < x.id
      <3>1. CASE x \in Pool(s)
        BY <2>1, <3>1 DEF HeardOK
      <3>2. CASE x \notin Pool(s)
        <4>1. x.id = sent + 1
          BY <2>2, <3>2
        <4>2. x.id # heard[n].id /\ heard[n].id < x.id
          BY <1>1, <2>1, <4>1
        <4> QED
          BY <4>2
      <3> QED
        BY <3>1, <3>2
    <2>3. heard[n].id <= sent'
      BY <1>1, <2>1
    <2> QED
      BY <2>1, <2>2, <2>3 DEF HeardOK, Steps
  <1>4. DOMAIN heard \subseteq 1..(runner'.step - 1)
    <2>1. 1..(runner.step - 1) \subseteq 1..(runner'.step - 1)
      BY <1>1
    <2> QED
      BY <2>1 DEF FileInv, HeardInv
  <1>5. ASSUME NEW n \in 1..(runner'.step - 1), n \in DOMAIN Steps(runner.file),
               Awaits(Steps(runner.file)[n])
        PROVE  n \in DOMAIN heard
    <2>1. n # runner.step
      BY <1>1, <1>5
    <2>2. n \in 1..(runner.step - 1)
      BY <1>1, <1>5, <2>1
    <2> QED
      BY <1>5, <2>2 DEF FileInv, HeardInv
  <1>6. \A m, n \in DOMAIN heard : HeardTwice(m, n)'
    BY DEF FileInv, HeardInv, HeardTwice, Steps
  <1>7. HeardInv'
    <2>1. \A n \in 1..(runner'.step - 1) :
             n \in DOMAIN Steps(runner.file)' /\ Awaits(Steps(runner.file)[n])' => n \in DOMAIN heard'
      BY <1>5 DEF Steps, Awaits
    <2> QED
      BY <1>3, <1>4, <1>6, <2>1 DEF HeardInv
  <1>8. ASSUME NEW s \in Members, NEW t \in Members, NEW x \in Pool(s)', NEW y \in Pool(t)',
               x.id = y.id
        PROVE  s = t
    <2>1. BoxInv(s) /\ BoxInv(t)
      BY DEF FileInv
    <2>2. CASE x \in Pool(s) /\ y \in Pool(t)
      BY <1>8, <2>2 DEF FileInv
    <2>3. CASE x \notin Pool(s) /\ y \in Pool(t)
      <3>1. x.id = sent + 1
        BY <1>8, <2>3
      <3>2. y.id <= sent /\ y.id \in Nat
        BY <1>1, <2>1, <2>3 DEF BoxInv
      <3> QED
        BY <1>1, <1>8, <3>1, <3>2
    <2>4. CASE x \in Pool(s) /\ y \notin Pool(t)
      <3>1. y.id = sent + 1
        BY <1>8, <2>4
      <3>2. x.id <= sent /\ x.id \in Nat
        BY <1>1, <2>1, <2>4 DEF BoxInv
      <3> QED
        BY <1>1, <1>8, <3>1, <3>2
    <2>5. CASE x \notin Pool(s) /\ y \notin Pool(t)
      BY <1>8, <2>5
    <2> QED
      BY <2>2, <2>3, <2>4, <2>5
  <1> QED
    BY <1>2, <1>7, <1>8 DEF FileInv

\* Nothing new arrives: boxes are left, or emptied.
LEMMA FileShrinks ==
    ASSUME RunnerTypes, RunnerTypes', FileInv, files' = files, heard' = heard, sent' = sent,
           runner'.file = runner.file,
           \/ runner'.step = runner.step
           \/ /\ runner'.step = runner.step + 1
              /\ runner.step \in DOMAIN Steps(runner.file)
                    => ~Awaits(Steps(runner.file)[runner.step]),
           \A s \in Members : /\ client'[s].inbox \in {client[s].inbox, << >>}
                              /\ line'[s].queue \in {line[s].queue, << >>}
    PROVE  FileInv'
  <1>1. Elements(<< >>) = {} /\ Rising(<< >>)
    BY DEF Elements, Rising
  <1>2. sent <= sent'
    BY DEF RunnerTypes
  <1>3. ASSUME NEW s \in Members
        PROVE  /\ Rising(client'[s].inbox) /\ Rising(line'[s].queue)
               /\ \A x \in Elements(client'[s].inbox), y \in Elements(line'[s].queue) : x.id < y.id
               /\ \A x \in Pool(s)' : x \in Pool(s)
    <2>1. BoxInv(s)
      BY DEF FileInv
    <2>2. /\ Elements(client'[s].inbox) \subseteq Elements(client[s].inbox)
          /\ Elements(line'[s].queue) \subseteq Elements(line[s].queue)
          /\ Rising(client'[s].inbox) /\ Rising(line'[s].queue)
      BY <1>1, <2>1 DEF BoxInv
    <2> QED
      BY <2>1, <2>2 DEF BoxInv, Pool
  <1> QED
    BY <1>2, <1>3, FileKept
LEMMA ClosedFacts ==
    ASSUME NEW k \in ClientType
    PROVE  /\ closed(k) \in ClientType /\ closed(k).inbox = k.inbox
           /\ connected(k) \in ClientType /\ connected(k).inbox = k.inbox
  <1>1. (k.junk \/ k.half) \in BOOLEAN
    BY DEF ClientType
  <1>2. PICK junk \in BOOLEAN : junk = (k.junk \/ k.half)
    BY <1>1
  <1>3. closed(k) = [k EXCEPT !.connected = FALSE, !.half = FALSE, !.junk = junk]
    BY <1>2 DEF closed
  <1>4. closed(k) \in ClientType /\ closed(k).inbox = k.inbox
    BY <1>3 DEF ClientType
  <1>5. connected(k) = [closed(k) EXCEPT !.connected = TRUE]
    BY DEF connected
  <1>6. ASSUME NEW c \in ClientType
        PROVE  /\ [c EXCEPT !.connected = TRUE] \in ClientType
               /\ [c EXCEPT !.connected = TRUE].inbox = c.inbox
    BY DEF ClientType
  <1> QED
    BY <1>4, <1>5, <1>6

\* What a file says of its steps.
LEMMA ScriptFacts ==
    ASSUME files \in Suites, NEW i \in DOMAIN files
    PROVE  /\ i \in Nat
           /\ Len(Steps(i)) \in Nat /\ DOMAIN Steps(i) = 1..Len(Steps(i))
           /\ \A n \in DOMAIN Steps(i) : Steps(i)[n].do \in Deeds => Steps(i)[n].s \in Members
  <1>1. files \in Seq(Range(files)) /\ files[i] \in Range(files)
    BY SuitesAssumption DEF Range
  <1>2. /\ Steps(i) \in Seq(Range(Steps(i)))
        /\ \A step \in Range(Steps(i)) : step.do \in Deeds => step.s \in Members
    BY <1>1, SuitesAssumption DEF Steps
  <1>3. \A n \in DOMAIN Steps(i) : Steps(i)[n] \in Range(Steps(i))
    BY DEF Range
  <1>4. i \in 1..Len(files) /\ Len(files) \in Nat
    BY <1>1
  <1> QED
    BY <1>2, <1>3, <1>4

\* Every connection is closed.
LEMMA CloseAllFacts ==
    ASSUME RunnerTypes, CloseAll
    PROVE  /\ client' \in [Members -> ClientType] /\ line' \in [Members -> QueueType]
           /\ \A s \in Members : /\ client'[s].inbox = client[s].inbox
                                 /\ line'[s] = NoLine /\ line'[s].queue = << >>
  <1>1. \A s \in Members : closed(client[s]) \in ClientType /\ closed(client[s]).inbox = client[s].inbox
    BY ClosedFacts DEF RunnerTypes
  <1>2. NoLine \in QueueType /\ NoLine.queue = << >>
    BY DEF NoLine, QueueType
  <1>3. /\ client' = [s \in Members |-> closed(client[s])]
        /\ line' = [s \in Members |-> NoLine]
    BY DEF CloseAll
  <1> QED
    BY <1>1, <1>2, <1>3

\* A file ends: it passed only if every step was taken, and so heard what it awaits.
LEMMA LeaveStep ==
    ASSUME RunnerInv, runner.phase # "load", NEW passed \in BOOLEAN, NEW why \in Reasons,
           Leave(passed, why), passed => runner.step > Len(Steps(runner.file))
    PROVE  RunnerInv'
  <1>1. /\ RunnerTypes /\ FileInv /\ runner.file \in DOMAIN files
        /\ runner \in [file : Nat \ {0}, step : Nat, phase : Phases]
        /\ verdicts \in Seq([passed : BOOLEAN, why : Reasons])
        /\ Len(verdicts) = runner.file - 1 /\ runner.file \in Nat \ {0} /\ runner.step \in Nat
        /\ files \in Suites
    BY DEF RunnerInv, PlaceInv, RunnerTypes
  <1>2. PICK next \in Nat \ {0} : next = runner.file + 1
    BY <1>1
  <1>3. /\ runner' = [runner EXCEPT !.file = next, !.phase = "load"]
        /\ verdicts' = Append(verdicts, [passed |-> passed, why |-> why])
        /\ CloseAll
        /\ UNCHANGED << files, captured, heard, exit, sent >>
    BY <1>2 DEF Leave
  <1>4. /\ runner' \in [file : Nat \ {0}, step : Nat, phase : Phases]
        /\ runner'.file = next /\ runner'.phase = "load" /\ runner'.step = runner.step
    BY <1>1, <1>3 DEF Phases
  <1> DEFINE verdict == [passed |-> passed, why |-> why]
  <1>5. verdict \in [passed : BOOLEAN, why : Reasons] /\ verdict.passed = passed
    OBVIOUS
  <1>6. verdicts' = Append(verdicts, verdict)
    BY <1>3
  <1> HIDE DEF verdict
  <1>7. /\ verdicts' \in Seq([passed : BOOLEAN, why : Reasons])
        /\ Len(verdicts') = runner.file /\ verdicts'[runner.file] = verdict
    <2>1. /\ verdicts' \in Seq([passed : BOOLEAN, why : Reasons])
          /\ Len(verdicts') = Len(verdicts) + 1
          /\ verdicts'[Len(verdicts) + 1] = verdict
      BY <1>1, <1>5, <1>6, AppendProperties
    <2>2. Len(verdicts) + 1 = runner.file
      BY <1>1
    <2> QED
      BY <2>1, <2>2
  <1>8. RunnerTypes'
    <2>1. Len(verdicts') = runner'.file - 1
      BY <1>1, <1>2, <1>4, <1>7
    <2> QED
      BY <1>1, <1>3, <1>4, <1>7, <2>1, CloseAllFacts DEF RunnerTypes
  <1>9. PlaceInv'
    BY <1>1, <1>3, <1>4, CloseAllFacts DEF PlaceInv
  <1>10. ASSUME NEW i \in DOMAIN verdicts', i + 1 = runner'.file, verdicts'[i].passed
         PROVE  i = runner.file /\ \A n \in DOMAIN Steps(i) : n \in 1..(runner.step - 1)
    <2>1. i = runner.file
      <3>1. i \in 1..runner.file
        BY <1>1, <1>7, <1>10
      <3> QED
        BY <1>1, <1>2, <1>4, <1>10, <3>1
    <2>2. passed
      BY <1>5, <1>7, <1>10, <2>1
    <2>3. /\ Len(Steps(i)) \in Nat /\ DOMAIN Steps(i) = 1..Len(Steps(i))
          /\ runner.step > Len(Steps(i))
      BY <1>1, <2>1, <2>2, ScriptFacts
    <2> QED
      BY <1>1, <2>1, <2>3
  <1>11. VerdictsAreFounded'
    <2> SUFFICES ASSUME NEW i \in DOMAIN verdicts', i + 1 = runner'.file, verdicts'[i].passed
                 PROVE  LET steps == files[i].steps
                            asked == {n \in DOMAIN steps : Awaits(steps[n])}
                        IN  /\ \A n \in asked :
                                  /\ n \in DOMAIN heard /\ heard[n].s = steps[n].s
                                  /\ heard[n].file = i
                                  /\ Wanted(steps[n]) \in {heard[n].kind, Nobody}
                            /\ \A m, n \in asked :
                                  /\ heard[m].id = heard[n].id => m = n
                                  /\ (m < n /\ steps[m].s = steps[n].s
                                        /\ Wanted(steps[m]) = Wanted(steps[n]))
                                        => heard[m].id < heard[n].id
      BY <1>3 DEF VerdictsAreFounded, Awaits, Wanted
    <2>1. i = runner.file /\ \A n \in DOMAIN Steps(i) : n \in 1..(runner.step - 1)
      BY <1>10
    <2>2. ASSUME NEW n \in DOMAIN Steps(i), Awaits(Steps(i)[n])
          PROVE  n \in DOMAIN heard /\ HeardOK(n)
      BY <1>1, <2>1, <2>2 DEF FileInv, HeardInv
    <2>3. ASSUME NEW n \in DOMAIN Steps(i), Awaits(Steps(i)[n])
          PROVE  /\ n \in DOMAIN heard /\ heard[n].s = Steps(i)[n].s
                 /\ heard[n].file = i
                 /\ Wanted(Steps(i)[n]) \in {heard[n].kind, Nobody}
      BY <2>1, <2>2, <2>3 DEF HeardOK, Fits
    <2>4. ASSUME NEW m \in DOMAIN Steps(i), Awaits(Steps(i)[m]),
                 NEW n \in DOMAIN Steps(i), Awaits(Steps(i)[n])
          PROVE  HeardTwice(m, n) /\ heard[m].s = Steps(i)[m].s /\ heard[n].s = Steps(i)[n].s
      <3>1. m \in DOMAIN heard /\ n \in DOMAIN heard
        BY <2>2, <2>4
      <3> QED
        BY <1>1, <2>3, <2>4, <3>1 DEF FileInv, HeardInv
    <2> QED
      BY <2>1, <2>3, <2>4 DEF HeardTwice, Steps
  <1> QED
    BY <1>4, <1>8, <1>9, <1>11 DEF RunnerInv
\* The invocation ends: all connections are closed.
LEMMA EscapesStep ==
    ASSUME RunnerInv, NEW code, Escapes(code)
    PROVE  RunnerInv'
  <1>1. RunnerTypes /\ PlaceInv /\ CloseAll
        /\ UNCHANGED << files, runner, captured, heard, verdicts, sent >>
    BY DEF RunnerInv, Escapes
  <1>2. RunnerTypes'
    BY <1>1, CloseAllFacts DEF RunnerTypes
  <1>3. PlaceInv'
    BY <1>1, CloseAllFacts DEF PlaceInv, File, Step
  <1>4. runner.phase # "load" => FileInv'
    <2> SUFFICES ASSUME runner.phase # "load" PROVE FileInv'
      OBVIOUS
    <2>1. FileInv
      BY DEF RunnerInv
    <2> QED
      BY <1>1, <1>2, <2>1, CloseAllFacts, FileShrinks
  <1>5. runner.phase = "load" => VerdictsAreFounded'
    BY <1>1 DEF RunnerInv, VerdictsAreFounded, Awaits, Wanted
  <1> QED
    BY <1>1, <1>2, <1>3, <1>4, <1>5 DEF RunnerInv

\* A step of a file that hears nothing, on whatever connection.
LEMMA MoveStep ==
    ASSUME RunnerInv, runner.phase # "load", UNCHANGED << files, heard, verdicts, sent >>,
           NEW phase \in {"step", "call", "wait", "window", "dial"},
           \/ runner' = [runner EXCEPT !.phase = phase]
           \/ /\ runner' = [runner EXCEPT !.phase = phase, !.step = @ + 1] /\ phase = "step"
              /\ runner.step \in DOMAIN Steps(runner.file)
                    => ~Awaits(Steps(runner.file)[runner.step]),
           phase \in {"wait", "window"} => runner.step \in DOMAIN File.steps /\ Step.do \in Deeds,
           client' \in [Members -> ClientType], line' \in [Members -> QueueType],
           \A s \in Members : /\ client'[s].inbox \in {client[s].inbox, << >>}
                              /\ line'[s].queue \in {line[s].queue, << >>}
    PROVE  RunnerInv'
  <1>1. /\ RunnerTypes /\ PlaceInv /\ FileInv
        /\ runner \in [file : Nat \ {0}, step : Nat, phase : Phases]
        /\ runner.step \in Nat /\ runner.step # 0
    BY DEF RunnerInv, RunnerTypes, PlaceInv
  <1>2. PICK next \in Nat : next = runner.step + 1 /\ next # 0
    BY <1>1
  <1>3. \/ runner' = [runner EXCEPT !.phase = phase]
        \/ runner' = [runner EXCEPT !.phase = phase, !.step = next] /\ phase = "step"
    BY <1>2
  <1>4. /\ runner' \in [file : Nat \ {0}, step : Nat, phase : Phases]
        /\ runner'.file = runner.file /\ runner'.phase = phase
        /\ runner'.step = runner.step \/ (runner'.step = next /\ phase = "step")
        /\ runner'.step # 0
    BY <1>1, <1>2, <1>3 DEF Phases
  <1>5. RunnerTypes'
    BY <1>1, <1>4 DEF RunnerTypes
  <1>6. PlaceInv'
    BY <1>1, <1>4 DEF PlaceInv, File, Step
  <1>7. \/ runner'.step = runner.step
        \/ /\ runner'.step = runner.step + 1
           /\ runner.step \in DOMAIN Steps(runner.file)
                 => ~Awaits(Steps(runner.file)[runner.step])
    <2>1. CASE runner' = [runner EXCEPT !.phase = phase]
      BY <1>1, <2>1
    <2>2. CASE runner' # [runner EXCEPT !.phase = phase]
      BY <1>1, <1>2, <1>4, <2>2
    <2> QED
      BY <2>1, <2>2
  <1>8. FileInv'
    BY <1>1, <1>4, <1>5, <1>7, FileShrinks
  <1>9. runner'.phase # "load"
    BY <1>4
  <1> QED
    BY <1>5, <1>6, <1>8, <1>9 DEF RunnerInv

\* The connection of one session is made, or dropped.
LEMMA DialFacts ==
    ASSUME RunnerTypes, NEW s \in Members, Connected(s) \/ Close(s)
    PROVE  /\ client' \in [Members -> ClientType] /\ line' \in [Members -> QueueType]
           /\ \A t \in Members : /\ client'[t].inbox = client[t].inbox
                                 /\ line'[t].queue \in {line[t].queue, << >>}
  <1>1. /\ client \in [Members -> ClientType] /\ line \in [Members -> QueueType]
        /\ client[s] \in ClientType
    BY DEF RunnerTypes
  <1>2. PICK k \in ClientType, q \in QueueType :
           /\ k.inbox = client[s].inbox /\ q.queue = << >>
           /\ client' = [client EXCEPT ![s] = k] /\ line' = [line EXCEPT ![s] = q]
    <2>1. CASE Connected(s)
      <3>1. [open |-> TRUE, queue |-> << >>] \in QueueType
        BY DEF QueueType
      <3> QED
        BY <1>1, <2>1, <3>1, ClosedFacts DEF Connected
    <2>2. CASE Close(s)
      <3>1. NoLine \in QueueType /\ NoLine.queue = << >>
        BY DEF NoLine, QueueType
      <3> QED
        BY <1>1, <2>2, <3>1, ClosedFacts DEF Close
    <2> QED
      BY <2>1, <2>2
  <1>3. ASSUME NEW t \in Members
        PROVE  client'[t].inbox = client[t].inbox /\ line'[t].queue \in {line[t].queue, << >>}
    BY <1>1, <1>2
  <1> QED
    BY <1>1, <1>2, <1>3

LEMMA LoadStep ==
    ASSUME RunnerInv, Load
    PROVE  RunnerInv'
  <1>1. /\ RunnerTypes /\ PlaceInv /\ runner.phase = "load" /\ runner.file \in DOMAIN files
        /\ runner \in [file : Nat \ {0}, step : Nat, phase : Phases]
        /\ client' = [s \in Members |-> NewClient] /\ heard' = << >>
        /\ runner' = [runner EXCEPT !.step = 1, !.phase = "dial"]
        /\ UNCHANGED << files, line, verdicts, exit, sent >>
    BY DEF RunnerInv, RunnerTypes, Load, Loading
  <1>2. /\ runner' \in [file : Nat \ {0}, step : Nat, phase : Phases]
        /\ runner'.file = runner.file /\ runner'.step = 1 /\ runner'.phase = "dial"
    BY <1>1 DEF Phases
  <1>3. NewClient \in ClientType /\ NewClient.inbox = << >> /\ NoLine.queue = << >>
    BY DEF NewClient, ClientType, NoLine
  <1>4. RunnerTypes'
    BY <1>1, <1>2, <1>3 DEF RunnerTypes
  <1>5. PlaceInv'
    BY <1>1, <1>2 DEF PlaceInv
  <1>6. Elements(<< >>) = {} /\ Rising(<< >>)
    BY DEF Elements, Rising
  <1>7. \A s \in Members : /\ client'[s].inbox = << >> /\ line'[s].queue = << >>
    BY <1>1, <1>3 DEF PlaceInv
  <1>8. \A s \in Members : BoxInv(s)'
    BY <1>6, <1>7 DEF BoxInv, Pool
  <1>9. DOMAIN heard' = {} /\ 1..(runner'.step - 1) = {}
    BY <1>1, <1>2
  <1>10. HeardInv'
    BY <1>9 DEF HeardInv
  <1>11. \A s \in Members : Pool(s)' = {}
    BY <1>6, <1>7 DEF Pool
  <1> QED
    BY <1>2, <1>4, <1>5, <1>8, <1>10, <1>11 DEF RunnerInv, FileInv

LEMMA CannotLoadStep ==
    ASSUME RunnerInv, CannotLoad
    PROVE  RunnerInv'
  <1>1. /\ RunnerTypes /\ PlaceInv /\ runner.phase = "load"
        /\ runner \in [file : Nat \ {0}, step : Nat, phase : Phases]
        /\ verdicts \in Seq([passed : BOOLEAN, why : Reasons])
        /\ Len(verdicts) = runner.file - 1 /\ runner.file \in Nat \ {0}
        /\ UNCHANGED << files, client, line, heard, exit, sent >>
    BY DEF RunnerInv, RunnerTypes, CannotLoad, Loading
  <1>2. PICK next \in Nat \ {0} : next = runner.file + 1
    BY <1>1
  <1>3. runner' = [runner EXCEPT !.file = next]
    BY <1>2 DEF CannotLoad
  <1>4. /\ runner' \in [file : Nat \ {0}, step : Nat, phase : Phases]
        /\ runner'.file = next /\ runner'.phase = "load"
    BY <1>1, <1>3
  <1> DEFINE verdict == [passed |-> FALSE, why |-> "unreadable"]
  <1>5. verdict \in [passed : BOOLEAN, why : Reasons] /\ ~verdict.passed
    BY DEF Reasons
  <1>6. verdicts' = Append(verdicts, verdict)
    BY DEF CannotLoad
  <1> HIDE DEF verdict
  <1>7. /\ verdicts' \in Seq([passed : BOOLEAN, why : Reasons])
        /\ Len(verdicts') = runner.file /\ verdicts'[runner.file] = verdict
    <2>1. /\ verdicts' \in Seq([passed : BOOLEAN, why : Reasons])
          /\ Len(verdicts') = Len(verdicts) + 1
          /\ verdicts'[Len(verdicts) + 1] = verdict
      BY <1>1, <1>5, <1>6, AppendProperties
    <2>2. Len(verdicts) + 1 = runner.file
      BY <1>1
    <2> QED
      BY <2>1, <2>2
  <1>8. RunnerTypes'
    <2>1. Len(verdicts') = runner'.file - 1
      BY <1>1, <1>2, <1>4, <1>7
    <2> QED
      BY <1>1, <1>4, <1>7, <2>1 DEF RunnerTypes
  <1>9. PlaceInv'
    BY <1>1, <1>4 DEF PlaceInv
  <1>10. ASSUME NEW i \in DOMAIN verdicts', i + 1 = runner'.file
         PROVE  ~verdicts'[i].passed
    <2>1. i \in 1..runner.file
      BY <1>1, <1>7
    <2>2. i = runner.file
      BY <1>1, <1>2, <1>4, <1>10, <2>1
    <2> QED
      BY <1>5, <1>7, <2>2
  <1>11. VerdictsAreFounded'
    BY <1>10 DEF VerdictsAreFounded
  <1> QED
    BY <1>4, <1>8, <1>9, <1>11 DEF RunnerInv
\* What the runner's place says of the step it is at.
LEMMA StepFacts ==
    ASSUME RunnerInv, runner.phase # "load", runner.step \in DOMAIN File.steps
    PROVE  /\ Step = Steps(runner.file)[runner.step] /\ runner.step \in DOMAIN Steps(runner.file)
           /\ Step.do \in Deeds => Step.s \in Members
  <1>1. files \in Suites /\ runner.file \in DOMAIN files
    BY DEF RunnerInv, RunnerTypes, PlaceInv
  <1>2. Step = Steps(runner.file)[runner.step] /\ runner.step \in DOMAIN Steps(runner.file)
    BY DEF Step, File, Steps
  <1> QED
    BY <1>1, <1>2, ScriptFacts

LEMMA FailStep ==
    ASSUME RunnerInv, runner.phase # "load", NEW why \in Reasons, Fail(why)
    PROVE  RunnerInv'
  BY LeaveStep DEF Fail

\* A step that touches no connection.
LEMMA SilentStep ==
    ASSUME RunnerInv, runner.phase # "load",
           UNCHANGED << files, client, line, heard, verdicts, sent >>,
           NEW phase \in {"step", "wait", "window"},
           \/ Go(phase) /\ runner.step \in DOMAIN File.steps /\ Step.do \in Deeds
           \/ /\ Following /\ phase = "step"
              /\ runner.step \in DOMAIN File.steps => ~Awaits(Step)
    PROVE  RunnerInv'
  <1>1. /\ client' \in [Members -> ClientType] /\ line' \in [Members -> QueueType]
        /\ \A s \in Members : /\ client'[s].inbox \in {client[s].inbox, << >>}
                              /\ line'[s].queue \in {line[s].queue, << >>}
    BY DEF RunnerInv, RunnerTypes
  <1>2. CASE Go(phase) /\ runner.step \in DOMAIN File.steps /\ Step.do \in Deeds
    BY <1>1, <1>2, MoveStep DEF Go
  <1>3. CASE Following /\ phase = "step" /\ (runner.step \in DOMAIN File.steps => ~Awaits(Step))
    <2>1. runner.step \in DOMAIN Steps(runner.file) => ~Awaits(Steps(runner.file)[runner.step])
      BY <1>3 DEF Step, File, Steps
    <2> QED
      BY <1>1, <1>3, <2>1, MoveStep DEF Following
  <1> QED
    BY <1>2, <1>3

\* The boxes of one session change: what it has arrived earlier, or was sent just now.
LEMMA OneBox ==
    ASSUME RunnerInv, runner.phase # "load", UNCHANGED << files, runner, heard, verdicts >>,
           sent' \in Nat, sent <= sent',
           NEW s \in Members, NEW k \in ClientType, NEW l \in QueueType,
           client' = [client EXCEPT ![s] = k], line' = [line EXCEPT ![s] = l],
           Rising(k.inbox), Rising(l.queue),
           \A x \in Elements(k.inbox), y \in Elements(l.queue) : x.id < y.id,
           \A x \in Elements(k.inbox) \cup Elements(l.queue) :
              \/ x \in Pool(s)
              \/ x.s = s /\ x.file = runner.file /\ x.id = sent + 1 /\ x.id <= sent'
    PROVE  RunnerInv'
  <1>1. /\ RunnerTypes /\ PlaceInv /\ FileInv
        /\ client \in [Members -> ClientType] /\ line \in [Members -> QueueType]
    BY DEF RunnerInv, RunnerTypes
  <1>2. /\ client' \in [Members -> ClientType] /\ line' \in [Members -> QueueType]
        /\ client'[s] = k /\ line'[s] = l
        /\ \A t \in Members : t # s => client'[t] = client[t] /\ line'[t] = line[t]
    BY <1>1
  <1>3. RunnerTypes'
    BY <1>1, <1>2 DEF RunnerTypes
  <1>4. PlaceInv'
    BY <1>1 DEF PlaceInv, File, Step
  <1>5. Pool(s)' = Elements(k.inbox) \cup Elements(l.queue)
    BY <1>2 DEF Pool
  <1>6. ASSUME NEW t \in Members, t # s
        PROVE  /\ Pool(t)' = Pool(t)
               /\ Rising(client'[t].inbox) /\ Rising(line'[t].queue)
               /\ \A x \in Elements(client'[t].inbox), y \in Elements(line'[t].queue) : x.id < y.id
    <2>1. BoxInv(t)
      BY <1>1 DEF FileInv
    <2> QED
      BY <1>2, <1>6, <2>1 DEF BoxInv, Pool
  <1>7. ASSUME NEW t \in Members
        PROVE  /\ Rising(client'[t].inbox) /\ Rising(line'[t].queue)
               /\ \A x \in Elements(client'[t].inbox), y \in Elements(line'[t].queue) : x.id < y.id
               /\ \A x \in Pool(t)' :
                     \/ x \in Pool(t)
                     \/ x.s = t /\ x.file = runner.file /\ x.id = sent + 1 /\ x.id <= sent'
    <2>1. CASE t = s
      BY <1>2, <1>5, <2>1
    <2>2. CASE t # s
      BY <1>6, <2>2
    <2> QED
      BY <2>1, <2>2
  <1>8. \A t, u \in Members : \A x \in Pool(t)', y \in Pool(u)' :
           x \notin Pool(t) /\ y \notin Pool(u) => t = u
    BY <1>6
  <1>9. FileInv'
    BY <1>1, <1>3, <1>7, <1>8, FileKept
  <1> QED
    BY <1>3, <1>4, <1>9 DEF RunnerInv

\* A read moves a part of what has arrived into the inbox, or loses it.
LEMMA ReadsStep ==
    ASSUME RunnerInv, Reads
    PROVE  RunnerInv'
  <1> DEFINE s == Step.s
             q == line[s].queue
             box == client[s].inbox
  <1>1. /\ runner.phase # "load" /\ s \in Members /\ RunnerTypes /\ FileInv
        /\ UNCHANGED << files, runner, heard, verdicts, sent >>
    <2>1. runner.phase \in {"wait", "window"}
      BY DEF Reads, Listening, Waiting
    <2>2. runner.step \in DOMAIN File.steps /\ Step.do \in Deeds
      BY <2>1 DEF RunnerInv, PlaceInv
    <2> QED
      BY <2>1, <2>2, StepFacts DEF RunnerInv, Reads
  <1>2. /\ client \in [Members -> ClientType] /\ line \in [Members -> QueueType]
        /\ client[s] \in ClientType /\ line[s] \in QueueType
        /\ q \in Seq(Heard) /\ box \in Seq(Heard) /\ sent \in Nat
    BY <1>1 DEF RunnerTypes, ClientType, QueueType
  <1>3. /\ Rising(q) /\ Rising(box) /\ Elements(q) \subseteq Pool(s) /\ Elements(box) \subseteq Pool(s)
        /\ \A x \in Elements(box), y \in Elements(q) : x.id < y.id
    BY <1>1 DEF FileInv, BoxInv, Pool
  <1>4. CASE pump(s)
    <2>1. PICK n \in 0..Len(q), half \in BOOLEAN :
             /\ client' = [client EXCEPT ![s].inbox = @ \o SubSeq(q, 1, n), ![s].half = half]
             /\ line' = [line EXCEPT ![s].queue = SubSeq(@, n + 1, Len(@))]
      BY <1>4 DEF pump
    <2> DEFINE p == SubSeq(q, 1, n)
               r == SubSeq(q, n + 1, Len(q))
               new == box \o p
               k == [client[s] EXCEPT !.inbox = new, !.half = half]
               l == [line[s] EXCEPT !.queue = r]
    <2>2. client' = [client EXCEPT ![s] = k] /\ line' = [line EXCEPT ![s] = l]
      BY <1>2, <2>1
    <2>3. /\ Len(q) \in Nat /\ 1 \in 1..(Len(q) + 1) /\ n + 1 \in 1..(Len(q) + 1)
          /\ Len(q) \in 0..Len(q) /\ n \in Nat
      BY <1>2
    <2>4. /\ p \in Seq(Heard) /\ Rising(p)
          /\ \A x \in Elements(p) : \E j \in 1..Len(q) : 1 <= j /\ j <= n /\ x = q[j]
      BY <1>2, <1>3, <2>3, PartFacts
    <2>5. /\ r \in Seq(Heard) /\ Rising(r)
          /\ \A x \in Elements(r) : \E j \in 1..Len(q) : n + 1 <= j /\ j <= Len(q) /\ x = q[j]
      BY <1>2, <1>3, <2>3, PartFacts
    <2> HIDE DEF p, r, q, box, s
    <2>6. Elements(p) \subseteq Elements(q) /\ Elements(r) \subseteq Elements(q)
      BY <1>2, <2>4, <2>5, ElementAt
    <2>7. ASSUME NEW x \in Elements(p), NEW y \in Elements(r) PROVE x.id < y.id
      <3>1. PICK i \in 1..Len(q) : i <= n /\ x = q[i]
        BY <2>4
      <3>2. PICK j \in 1..Len(q) : n + 1 <= j /\ y = q[j]
        BY <2>5
      <3>3. i < j
        BY <2>3, <3>1, <3>2
      <3> QED
        BY <1>3, <3>1, <3>2, <3>3 DEF Rising
    <2>8. /\ new \in Seq(Heard) /\ Rising(new) /\ Elements(new) = Elements(box) \cup Elements(p)
      BY <1>2, <1>3, <2>4, <2>6, RisingConcat
    <2> HIDE DEF new
    <2>9. k \in ClientType /\ k.inbox = new /\ l \in QueueType /\ l.queue = r
      <3>1. k \in ClientType /\ k.inbox = new
        BY <1>2, <2>8, <2>1 DEF ClientType
      <3>2. l \in QueueType /\ l.queue = r
        BY <1>2, <2>5 DEF QueueType
      <3> QED
        BY <3>1, <3>2
    <2> HIDE DEF k, l
    <2>10. \A x \in Elements(k.inbox), y \in Elements(l.queue) : x.id < y.id
      BY <1>3, <2>6, <2>7, <2>8, <2>9
    <2>11. \A x \in Elements(k.inbox) \cup Elements(l.queue) : x \in Pool(s)
      BY <1>3, <2>6, <2>8, <2>9
    <2>12. sent' \in Nat /\ sent <= sent'
      BY <1>1, <1>2
    <2>13. Rising(k.inbox) /\ Rising(l.queue)
      BY <2>5, <2>8, <2>9
    <2> QED
      BY <1>1, <2>2, <2>9, <2>10, <2>11, <2>12, <2>13, OneBox
  <1>5. CASE pumpJunk(s)
    <2>1. line' = [line EXCEPT ![s].queue = << >>] /\ client' = client
      BY <1>5 DEF pumpJunk
    <2> DEFINE l == [line[s] EXCEPT !.queue = << >>]
    <2>2. line' = [line EXCEPT ![s] = l] /\ client' = [client EXCEPT ![s] = client[s]]
      BY <1>2, <2>1
    <2>3. << >> \in Seq(Heard) /\ Elements(<< >>) = {} /\ Rising(<< >>)
      BY DEF Elements, Rising
    <2>4. l \in QueueType /\ l.queue = << >>
      BY <1>2, <2>3 DEF QueueType
    <2> HIDE DEF l, s, q
    <2>5. Rising(client[s].inbox) /\ Elements(client[s].inbox) \subseteq Pool(s)
      BY <1>3
    <2>6. sent' \in Nat /\ sent <= sent'
      BY <1>1, <1>2
    <2> QED
      BY <1>1, <1>2, <2>2, <2>3, <2>4, <2>5, <2>6, OneBox
  <1> QED
    BY <1>4, <1>5 DEF Reads

\* The simulator sends, which only happens on a connection of a file that is run.
LEMMA SimulatorSendsStep ==
    ASSUME RunnerInv, NEW s \in Members, SimulatorSends(s)
    PROVE  RunnerInv'
  <1> DEFINE q == line[s].queue
             box == client[s].inbox
  <1>1. /\ runner.phase # "load" /\ RunnerTypes /\ FileInv /\ line[s].open
        /\ UNCHANGED << files, runner, client, heard, verdicts >> /\ sent' = sent + 1
    <2>1. line[s].open /\ ~NoLine.open
      BY DEF SimulatorSends, NoLine
    <2>2. runner.phase # "load"
      BY <2>1 DEF RunnerInv, PlaceInv
    <2> QED
      BY <2>1, <2>2 DEF RunnerInv, SimulatorSends
  <1>2. /\ client \in [Members -> ClientType] /\ line \in [Members -> QueueType]
        /\ client[s] \in ClientType /\ line[s] \in QueueType /\ runner.file \in Nat
        /\ q \in Seq(Heard) /\ box \in Seq(Heard) /\ sent \in Nat
    BY <1>1 DEF RunnerTypes, ClientType, QueueType
  <1>3. /\ Rising(q) /\ Rising(box) /\ Elements(q) \subseteq Pool(s) /\ Elements(box) \subseteq Pool(s)
        /\ \A x \in Elements(box), y \in Elements(q) : x.id < y.id
        /\ \A x \in Elements(box) \cup Elements(q) : x.id <= sent /\ x.id \in Nat
    <2>1. /\ Rising(q) /\ Rising(box) /\ Elements(q) \subseteq Pool(s)
          /\ Elements(box) \subseteq Pool(s)
          /\ \A x \in Elements(box), y \in Elements(q) : x.id < y.id
          /\ \A x \in Elements(box) \cup Elements(q) : x.id <= sent
      BY <1>1 DEF FileInv, BoxInv, Pool
    <2>2. \A x \in Elements(box) \cup Elements(q) : x \in Heard
      BY <1>2, ElementAt
    <2> QED
      BY <2>1, <2>2 DEF Heard
  <1>4. PICK kind \in Kinds :
           line' = [line EXCEPT ![s].queue =
                       Append(@, [id |-> sent + 1, s |-> s, file |-> runner.file, kind |-> kind])]
    BY DEF SimulatorSends
  <1> DEFINE m == [id |-> sent + 1, s |-> s, file |-> runner.file, kind |-> kind]
             r == Append(q, m)
             l == [line[s] EXCEPT !.queue = r]
  <1>5. m \in Heard /\ m.id = sent + 1 /\ m.s = s /\ m.file = runner.file
    BY <1>2 DEF Heard
  <1>6. line' = [line EXCEPT ![s] = l] /\ client' = [client EXCEPT ![s] = client[s]]
    BY <1>1, <1>2, <1>4
  <1> HIDE DEF m, q
  <1>7. /\ r \in Seq(Heard) /\ Len(r) = Len(q) + 1 /\ Len(q) \in Nat
        /\ \A i \in 1..Len(q) : r[i] = q[i]
        /\ r[Len(q) + 1] = m
    BY <1>2, <1>5, AppendProperties
  <1> HIDE DEF r
  <1>8. Elements(r) = Elements(q) \cup {m}
    BY <1>2, <1>5, ElementsFacts DEF r
  <1>9. ASSUME NEW i \in 1..Len(r), NEW j \in 1..Len(r), i < j PROVE r[i].id < r[j].id
    <2>1. i \in 1..Len(q) /\ r[i] = q[i] /\ q[i] \in Elements(q)
      BY <1>2, <1>7, <1>9, ElementAt
    <2>2. CASE j \in 1..Len(q)
      BY <1>3, <1>7, <1>9, <2>1, <2>2 DEF Rising
    <2>3. CASE j \notin 1..Len(q)
      <3>1. r[j] = m
        BY <1>7, <2>3
      <3> QED
        BY <1>2, <1>3, <1>5, <2>1, <3>1
    <2> QED
      BY <2>2, <2>3
  <1>10. Rising(r)
    BY <1>9 DEF Rising
  <1>11. l \in QueueType /\ l.queue = r
    BY <1>2, <1>7 DEF QueueType
  <1> HIDE DEF l, box
  <1>12. ASSUME NEW x \in Elements(client[s].inbox), NEW y \in Elements(l.queue) PROVE x.id < y.id
    <2>1. CASE y = m
      BY <1>2, <1>3, <1>5, <2>1 DEF box
    <2>2. CASE y \in Elements(q)
      BY <1>3, <2>2 DEF box
    <2> QED
      BY <1>8, <1>11, <2>1, <2>2
  <1>13. \A x \in Elements(client[s].inbox) \cup Elements(l.queue) :
            \/ x \in Pool(s)
            \/ x.s = s /\ x.file = runner.file /\ x.id = sent + 1 /\ x.id <= sent'
    <2>1. m.s = s /\ m.file = runner.file /\ m.id = sent + 1 /\ m.id <= sent'
      BY <1>1, <1>2, <1>5
    <2> QED
      BY <1>3, <1>8, <1>11, <2>1 DEF box
  <1>14. sent' \in Nat /\ sent <= sent' /\ Rising(client[s].inbox) /\ Rising(l.queue)
    BY <1>1, <1>2, <1>3, <1>10, <1>11 DEF box
  <1> QED
    BY <1>1, <1>2, <1>6, <1>11, <1>12, <1>13, <1>14, OneBox

LEMMA SimulatorClosesStep ==
    ASSUME RunnerInv, NEW s \in Members, SimulatorCloses(s)
    PROVE  RunnerInv'
  <1>1. /\ runner.phase # "load" /\ RunnerTypes /\ FileInv
        /\ UNCHANGED << files, runner, client, heard, verdicts, sent >>
        /\ line' = [line EXCEPT ![s].open = FALSE]
    <2>1. line[s].open /\ ~NoLine.open
      BY DEF SimulatorCloses, NoLine
    <2>2. runner.phase # "load"
      BY <2>1 DEF RunnerInv, PlaceInv
    <2> QED
      BY <2>2 DEF RunnerInv, SimulatorCloses
  <1>2. /\ client \in [Members -> ClientType] /\ line \in [Members -> QueueType]
        /\ client[s] \in ClientType /\ line[s] \in QueueType /\ sent \in Nat
    BY <1>1 DEF RunnerTypes
  <1> DEFINE l == [line[s] EXCEPT !.open = FALSE]
  <1>3. line' = [line EXCEPT ![s] = l] /\ client' = [client EXCEPT ![s] = client[s]]
    BY <1>1, <1>2
  <1>4. l \in QueueType /\ l.queue = line[s].queue
    BY <1>2 DEF QueueType
  <1> HIDE DEF l
  <1>5. /\ Rising(client[s].inbox) /\ Rising(l.queue)
        /\ \A x \in Elements(client[s].inbox), y \in Elements(l.queue) : x.id < y.id
        /\ \A x \in Elements(client[s].inbox) \cup Elements(l.queue) : x \in Pool(s)
    BY <1>1, <1>4 DEF FileInv, BoxInv, Pool
  <1>6. sent' \in Nat /\ sent <= sent'
    BY <1>1, <1>2
  <1> QED
    BY <1>1, <1>2, <1>3, <1>4, <1>5, <1>6, OneBox
\* A wait ends with its message: the first that fits, taken out of the inbox.
LEMMA MatchesStep ==
    ASSUME RunnerInv, Matches
    PROVE  RunnerInv'
  <1> DEFINE s == Step.s
             now == runner.step
             box == client[s].inbox
             queue == line[s].queue
             kind == Wanted(Step)
             at == Found
             m == box[at]
             left == RemoveAt(box, at)
             name == IF Step.do = "expect" THEN Step.capture ELSE Nobody
             taken == [client[s] EXCEPT !.inbox = match(@, at)]
  <1>1. /\ runner.phase = "wait" /\ now \in DOMAIN File.steps /\ s \in Members
        /\ RunnerTypes /\ PlaceInv /\ FileInv
        /\ Step = Steps(runner.file)[now] /\ now \in DOMAIN Steps(runner.file)
    <2>1. runner.phase = "wait"
      BY DEF Matches, Waiting
    <2>2. runner.step \in DOMAIN File.steps /\ Step.do \in Deeds
      BY <2>1 DEF RunnerInv, PlaceInv
    <2> QED
      BY <2>1, <2>2, StepFacts DEF RunnerInv
  <1>2. /\ client \in [Members -> ClientType] /\ line \in [Members -> QueueType]
        /\ runner \in [file : Nat \ {0}, step : Nat, phase : Phases]
        /\ client[s] \in ClientType /\ line[s] \in QueueType /\ sent \in Nat
        /\ queue \in Seq(Heard) /\ box \in Seq(Heard) /\ now \in Nat /\ now # 0
    BY <1>1 DEF RunnerTypes, ClientType, QueueType, PlaceInv
  <1>3. CASE name # Nobody /\ m.kind \notin Numbered
    <2>1. Fail("capture")
      BY <1>3 DEF Matches
    <2> QED
      BY <1>1, <2>1, FailStep DEF Reasons
  <1>4. CASE ~(name # Nobody /\ m.kind \notin Numbered)
    <2>1. /\ heard' = [n \in DOMAIN heard \cup {now} |-> IF n \in DOMAIN heard THEN heard[n] ELSE m]
          /\ client' = [client EXCEPT ![s] = IF Step.do = "logout" THEN closed(taken) ELSE taken]
          /\ line' = IF Step.do = "logout" THEN [line EXCEPT ![s] = NoLine] ELSE line
          /\ Following
          /\ UNCHANGED << files, verdicts, exit, sent >>
      BY <1>4 DEF Matches
    <2>2. /\ at \in 1..Len(box) /\ Fits(m, kind)
          /\ \A j \in 1..Len(box) : Fits(box[j], kind) => at <= j
      <3>1. at = Matching(box, kind) /\ at # 0
        BY DEF Matches, Found
      <3> QED
        BY <1>2, <3>1, MatchingFacts
    <2>3. /\ Rising(box) /\ m \in Heard /\ m \in Elements(box)
          /\ \A x \in Elements(box), y \in Elements(queue) : x.id < y.id
          /\ \A x \in Pool(s) : x.s = s /\ x.file = runner.file /\ x.id <= sent
          /\ Elements(box) \subseteq Pool(s) /\ Elements(queue) \subseteq Pool(s)
      <3>1. m \in Heard /\ m \in Elements(box)
        BY <1>2, <2>2, ElementAt
      <3> QED
        BY <1>1, <3>1 DEF FileInv, BoxInv, Pool
    <2> HIDE DEF s, now, box, queue, kind, at, m, name
    <2>4. /\ left \in Seq(Heard) /\ Rising(left)
          /\ \A x \in Elements(left) : \E j \in 1..Len(box) : j # at /\ x = box[j]
      BY <1>2, <2>2, <2>3, RemoveFacts
    <2>5. taken = [client[s] EXCEPT !.inbox = left]
      BY DEF match, box
    <2> HIDE DEF left, taken
    <2>6. taken \in ClientType /\ taken.inbox = left
      BY <1>2, <2>4, <2>5 DEF ClientType
    <2>7. /\ client' \in [Members -> ClientType] /\ client'[s].inbox = left
          /\ \A t \in Members : t # s => client'[t] = client[t]
      <3>1. PICK k \in ClientType : k.inbox = left /\ client' = [client EXCEPT ![s] = k]
        <4>1. CASE Step.do = "logout"
          BY <2>1, <2>6, <4>1, ClosedFacts
        <4>2. CASE Step.do # "logout"
          BY <2>1, <2>6, <4>2
        <4> QED
          BY <4>1, <4>2
      <3> QED
        BY <1>1, <1>2, <3>1
    <2>8. /\ line' \in [Members -> QueueType]
          /\ \A t \in Members : line'[t].queue \in {line[t].queue, << >>}
      <3>1. NoLine \in QueueType /\ NoLine.queue = << >>
        BY DEF NoLine, QueueType
      <3>2. CASE Step.do = "logout"
        BY <1>1, <1>2, <2>1, <3>1, <3>2
      <3>3. CASE Step.do # "logout"
        BY <1>1, <1>2, <2>1, <3>3
      <3> QED
        BY <3>2, <3>3
    <2>9. /\ runner' \in [file : Nat \ {0}, step : Nat, phase : Phases]
          /\ runner'.file = runner.file /\ runner'.phase = "step" /\ runner'.step = now + 1
      <3>1. PICK next \in Nat : next = runner.step + 1
        BY <1>2 DEF now
      <3>2. runner' = [runner EXCEPT !.phase = "step", !.step = next]
        BY <2>1, <3>1 DEF Following
      <3> QED
        BY <1>2, <3>1, <3>2 DEF Phases, now
    <2>10. RunnerTypes'
      BY <1>1, <2>1, <2>7, <2>8, <2>9 DEF RunnerTypes
    <2>11. PlaceInv'
      BY <1>1, <1>2, <2>1, <2>9 DEF PlaceInv
    <2>12. Elements(<< >>) = {} /\ Rising(<< >>)
      BY DEF Elements, Rising
    <2>13. ASSUME NEW t \in Members
           PROVE  /\ Elements(client'[t].inbox) \subseteq Elements(client[t].inbox)
                  /\ Elements(line'[t].queue) \subseteq Elements(line[t].queue)
                  /\ Rising(client'[t].inbox) /\ Rising(line'[t].queue)
                  /\ Pool(t)' \subseteq Pool(t)
      <3>1. BoxInv(t)
        BY <1>1 DEF FileInv
      <3>2. Elements(client'[t].inbox) \subseteq Elements(client[t].inbox) /\ Rising(client'[t].inbox)
        <4>1. CASE t = s
          <5>1. Elements(left) \subseteq Elements(box)
            BY <1>2, <2>4, ElementAt
          <5> QED
            BY <2>4, <2>7, <4>1, <5>1 DEF box
        <4>2. CASE t # s
          BY <2>7, <3>1, <4>2 DEF BoxInv
        <4> QED
          BY <4>1, <4>2
      <3>3. Elements(line'[t].queue) \subseteq Elements(line[t].queue) /\ Rising(line'[t].queue)
        BY <2>8, <2>12, <3>1 DEF BoxInv
      <3> QED
        BY <3>2, <3>3 DEF Pool
    <2>14. ASSUME NEW t \in Members PROVE BoxInv(t)'
      <3>1. BoxInv(t)
        BY <1>1 DEF FileInv
      <3>2. \A x \in Elements(client'[t].inbox), y \in Elements(line'[t].queue) : x.id < y.id
        BY <2>13, <3>1 DEF BoxInv
      <3>3. \A x \in Pool(t)' : x.s = t /\ x.file = runner'.file /\ x.id <= sent'
        BY <2>1, <2>9, <2>13, <3>1 DEF BoxInv
      <3> QED
        BY <2>13, <3>2, <3>3 DEF BoxInv
    <2>15. \A t, u \in Members : \A x \in Pool(t)', y \in Pool(u)' : x.id = y.id => t = u
      BY <1>1, <2>13 DEF FileInv
    <2>16. /\ DOMAIN heard \subseteq 1..(now - 1) /\ now \notin DOMAIN heard
           /\ DOMAIN heard' = DOMAIN heard \cup {now} /\ heard'[now] = m
           /\ \A n \in DOMAIN heard : heard'[n] = heard[n]
      <3>1. DOMAIN heard \subseteq 1..(now - 1)
        BY <1>1 DEF FileInv, HeardInv, now
      <3>2. now \notin DOMAIN heard
        BY <1>2, <3>1
      <3> QED
        BY <2>1, <3>1, <3>2
    <2>17. ASSUME NEW t \in Members, NEW x \in Pool(t)'
           PROVE  x.id # m.id /\ (t = s => m.id < x.id \/ ~Fits(x, kind))
      <3>1. x \in Pool(t) /\ m \in Pool(s)
        BY <2>3, <2>13, <2>17
      <3>2. CASE t # s
        BY <1>1, <3>1, <3>2 DEF FileInv
      <3>3. CASE t = s /\ x \in Elements(line'[s].queue)
        <4>1. x \in Elements(queue)
          BY <1>1, <2>13, <3>3 DEF queue
        <4>2. m.id < x.id /\ m.id \in Nat
          BY <2>3, <4>1 DEF Heard
        <4>3. x \in Heard
          BY <1>2, <4>1, ElementAt
        <4> QED
          BY <3>3, <4>2, <4>3 DEF Heard
      <3>4. CASE t = s /\ x \in Elements(client'[s].inbox)
        <4>1. PICK j \in 1..Len(box) : j # at /\ x = box[j]
          BY <2>4, <2>7, <3>4
        <4>2. x \in Heard /\ Len(box) \in Nat /\ at \in Nat /\ j \in Nat
          BY <1>2, <2>2, <4>1, ElementAt
        <4>3. CASE j < at
          <5>1. x.id < m.id /\ ~Fits(x, kind)
            BY <2>2, <2>3, <4>1, <4>2, <4>3 DEF Rising, m
          <5> QED
            BY <2>3, <4>2, <5>1 DEF Heard
        <4>4. CASE at < j
          <5>1. m.id < x.id
            BY <2>2, <2>3, <4>1, <4>4 DEF Rising, m
          <5> QED
            BY <2>3, <4>2, <5>1 DEF Heard
        <4> QED
          BY <4>1, <4>2, <4>3, <4>4
      <3> QED
        BY <2>17, <3>2, <3>3, <3>4 DEF Pool
    <2>18. ASSUME NEW n \in DOMAIN heard' PROVE HeardOK(n)'
      <3>1. CASE n \in DOMAIN heard
        <4>1. HeardOK(n)
          BY <1>1, <3>1 DEF FileInv, HeardInv
        <4> QED
          BY <2>1, <2>9, <2>13, <2>16, <3>1, <4>1 DEF HeardOK, Steps, Wanted, Fits
      <3>2. CASE n = now
        <4>1. m.s = s /\ m.file = runner.file /\ m.id <= sent
          BY <2>3
        <4>2. s = Steps(runner.file)[now].s /\ kind = Wanted(Steps(runner.file)[now])
          BY <1>1 DEF s, kind
        <4> QED
          <5>1. heard'[n] = m /\ files' = files /\ runner'.file = runner.file /\ sent' = sent
            BY <2>1, <2>9, <2>16, <3>2
          <5>2. Wanted(Steps(runner.file)[n])' = kind /\ (Steps(runner.file)[n].s)' = s
            BY <3>2, <4>2, <5>1 DEF Steps, Wanted
          <5>3. Fits(heard[n], Wanted(Steps(runner.file)[n]))'
            BY <2>2, <5>1, <5>2 DEF Fits
          <5>4. ASSUME NEW t \in Members, NEW x \in Pool(t)'
                PROVE  /\ x.id # m.id
                       /\ t = m.s /\ Fits(x, Wanted(Steps(runner.file)[n]))' => m.id < x.id
            BY <2>17, <4>1, <5>2, <5>4 DEF Fits
          <5> QED
            BY <2>3, <4>1, <5>1, <5>2, <5>3, <5>4 DEF HeardOK
      <3> QED
        BY <2>16, <3>1, <3>2
    <2>19. ASSUME NEW a \in DOMAIN heard', NEW b \in DOMAIN heard' PROVE HeardTwice(a, b)'
      <3>1. CASE a \in DOMAIN heard /\ b \in DOMAIN heard
        <4>1. HeardTwice(a, b)
          BY <1>1, <3>1 DEF FileInv, HeardInv
        <4>2. heard'[a] = heard[a] /\ heard'[b] = heard[b]
          BY <2>16, <3>1
        <4>3. files' = files /\ runner'.file = runner.file
          BY <2>1, <2>9
        <4> QED
          BY <4>1, <4>2, <4>3 DEF HeardTwice, Steps, Wanted
      <3>2. CASE a \in DOMAIN heard /\ b = now
        <4>1. HeardOK(a) /\ m \in Pool(s) /\ m.s = s
          BY <1>1, <2>3, <3>2 DEF FileInv, HeardInv
        <4>2. m.id # heard[a].id
          BY <1>1, <4>1 DEF HeardOK
        <4>3. ASSUME heard[a].s = s, Wanted(Steps(runner.file)[a]) = kind
              PROVE  heard[a].id < m.id
          BY <1>1, <2>2, <4>1, <4>3 DEF HeardOK
        <4>4. kind = Wanted(Steps(runner.file)[now])
          BY <1>1 DEF kind
        <4> QED
          BY <2>1, <2>9, <2>16, <3>2, <4>1, <4>2, <4>3, <4>4 DEF HeardTwice, Steps, Wanted
      <3>3. CASE a = now /\ b \in DOMAIN heard
        <4>1. HeardOK(b) /\ m \in Pool(s)
          BY <1>1, <2>3, <3>3 DEF FileInv, HeardInv
        <4>2. m.id # heard[b].id
          BY <1>1, <4>1 DEF HeardOK
        <4>3. ~(now < b)
          BY <1>2, <2>16, <3>3
        <4> QED
          BY <2>1, <2>9, <2>16, <3>3, <4>2, <4>3 DEF HeardTwice
      <3>4. CASE a = now /\ b = now
        BY <1>2, <3>4 DEF HeardTwice
      <3> QED
        BY <2>16, <3>1, <3>2, <3>3, <3>4
    <2>20. ASSUME NEW n \in 1..(runner'.step - 1), n \in DOMAIN Steps(runner.file),
                  Awaits(Steps(runner.file)[n])
           PROVE  n \in DOMAIN heard'
      <3>1. n = now \/ n \in 1..(now - 1)
        BY <1>2, <2>9, <2>20
      <3> QED
        BY <1>1, <2>16, <2>20, <3>1 DEF FileInv, HeardInv, now
    <2>21. HeardInv'
      <3>1. DOMAIN heard' \subseteq 1..(runner'.step - 1)
        BY <1>2, <2>9, <2>16
      <3>2. \A n \in 1..(runner'.step - 1) :
               n \in DOMAIN Steps(runner.file)' /\ Awaits(Steps(runner.file)[n])' => n \in DOMAIN heard'
        BY <2>1, <2>9, <2>20 DEF Steps, Awaits
      <3> QED
        BY <2>18, <2>19, <3>1, <3>2 DEF HeardInv
    <2>22. FileInv'
      BY <2>14, <2>15, <2>21 DEF FileInv
    <2>23. runner'.phase # "load"
      BY <2>9
    <2> QED
      BY <2>10, <2>11, <2>22, <2>23 DEF RunnerInv
  <1> QED
    BY <1>3, <1>4
\* A step that changes nothing of this.
LEMMA NothingStep ==
    ASSUME RunnerInv,
           UNCHANGED << files, runner, client, line, captured, heard, verdicts, sent >>
    PROVE  RunnerInv'
  <1>1. RunnerTypes /\ PlaceInv
    BY DEF RunnerInv
  <1>2. RunnerTypes'
    BY <1>1 DEF RunnerTypes
  <1>3. PlaceInv'
    BY <1>1 DEF PlaceInv, File, Step
  <1>4. runner.phase # "load" => FileInv'
    <2> SUFFICES ASSUME runner.phase # "load" PROVE FileInv'
      OBVIOUS
    <2>1. FileInv
      BY DEF RunnerInv
    <2> QED
      BY <1>1, <1>2, <2>1, FileShrinks
  <1>5. runner.phase = "load" => VerdictsAreFounded'
    BY DEF RunnerInv, VerdictsAreFounded, Awaits, Wanted
  <1> QED
    BY <1>2, <1>3, <1>4, <1>5 DEF RunnerInv

\* The runner has dialled, or sent a command: only its place changes.
LEMMA PlaceStep ==
    ASSUME RunnerInv, runner.phase # "load", NEW phase \in {"step", "call"}, Go(phase),
           UNCHANGED << files, client, line, captured, heard, verdicts, exit, sent >>
    PROVE  RunnerInv'
  <1>1. /\ client' \in [Members -> ClientType] /\ line' \in [Members -> QueueType]
        /\ \A s \in Members : /\ client'[s].inbox \in {client[s].inbox, << >>}
                              /\ line'[s].queue \in {line[s].queue, << >>}
    BY DEF RunnerInv, RunnerTypes
  <1> QED
    BY <1>1, MoveStep DEF Go

LEMMA ControlSteps ==
    ASSUME RunnerInv, ControlStep \/ Replied \/ MalformedStep \/ Unresolved
    PROVE  RunnerInv'
  <1>1. runner.phase # "load" /\ runner.step \in DOMAIN File.steps
    BY DEF ControlStep, Replied, Calling, MalformedStep, Unresolved, At
  <1>2. ASSUME Fail("answer") \/ Fail("malformed") PROVE RunnerInv'
    BY <1>1, <1>2, FailStep DEF Reasons
  <1>3. CASE Replied
    <2>1. CASE Following /\ UNCHANGED << files, client, line, captured, heard, verdicts, exit, sent >>
      <3>1. ~Awaits(Step)
        BY <1>3 DEF Replied, Calling, At, Awaits
      <3> QED
        BY <1>1, <2>1, <3>1, SilentStep
    <2>2. CASE Fail("answer")
      BY <1>2, <2>2
    <2>3. CASE Escapes("transport")
      BY <2>3, EscapesStep
    <2> QED
      BY <1>3, <2>1, <2>2, <2>3 DEF Replied
  <1>4. CASE ControlStep
    <2>1. CASE Go("call") /\ UNCHANGED << files, client, line, captured, heard, verdicts, exit, sent >>
      BY <1>1, <2>1, PlaceStep
    <2>2. CASE Escapes("transport")
      BY <2>2, EscapesStep
    <2> QED
      BY <1>4, <2>1, <2>2 DEF ControlStep
  <1>5. CASE MalformedStep \/ Unresolved
    BY <1>2, <1>5 DEF MalformedStep, Unresolved
  <1> QED
    BY <1>3, <1>4, <1>5

LEMMA SendSteps ==
    ASSUME RunnerInv, SendStep
    PROVE  RunnerInv'
  <1>1. /\ runner.phase # "load" /\ runner.step \in DOMAIN File.steps
        /\ Step.do \in {"logon", "logout", "send"} /\ RunnerTypes
    BY DEF SendStep, At, RunnerInv
  <1>2. Step.do \in Deeds /\ Step.s \in Members
    BY <1>1, StepFacts DEF Deeds
  <1>3. CASE Escapes("transport") \/ Escapes("traceback")
    BY <1>3, EscapesStep
  <1>4. CASE /\ Connected(Step.s) \/ UNCHANGED << client, line >>
             /\ IF Step.do = "send" THEN Following ELSE Go("wait")
             /\ UNCHANGED << files, captured, heard, verdicts, exit, sent >>
    <2>1. /\ client' \in [Members -> ClientType] /\ line' \in [Members -> QueueType]
          /\ \A s \in Members : /\ client'[s].inbox \in {client[s].inbox, << >>}
                                /\ line'[s].queue \in {line[s].queue, << >>}
      <3>1. CASE Connected(Step.s)
        BY <1>1, <1>2, <3>1, DialFacts
      <3>2. CASE UNCHANGED << client, line >>
        BY <1>1, <3>2 DEF RunnerTypes
      <3> QED
        BY <1>4, <3>1, <3>2
    <2>2. CASE Step.do = "send"
      <3>1. runner.step \in DOMAIN Steps(runner.file) => ~Awaits(Steps(runner.file)[runner.step])
        BY <1>1, <2>2, StepFacts DEF Awaits
      <3> QED
        BY <1>1, <1>4, <2>1, <2>2, <3>1, MoveStep DEF Following
    <2>3. CASE Step.do # "send"
      BY <1>1, <1>2, <1>4, <2>1, <2>3, MoveStep DEF Go
    <2> QED
      BY <2>2, <2>3
  <1> QED
    BY <1>3, <1>4 DEF SendStep

\* A session is closed by the file, or by a logout that nobody answered in time.
LEMMA CloseSteps ==
    ASSUME RunnerInv, runner.phase # "load", runner.step \in DOMAIN File.steps,
           Step.do \in {"disconnect", "logout"}, Close(Step.s), Following,
           UNCHANGED << files, captured, heard, verdicts, exit, sent >>
    PROVE  RunnerInv'
  <1>1. Step.s \in Members /\ RunnerTypes
    BY StepFacts DEF Deeds, RunnerInv
  <1>2. runner.step \in DOMAIN Steps(runner.file) => ~Awaits(Steps(runner.file)[runner.step])
    BY StepFacts DEF Awaits
  <1> QED
    BY <1>1, <1>2, DialFacts, MoveStep DEF Following

LEMMA ExpiresStep ==
    ASSUME RunnerInv, Expires
    PROVE  RunnerInv'
  <1>1. runner.phase = "wait" /\ runner.step \in DOMAIN File.steps
    BY DEF Expires, Waiting, RunnerInv, PlaceInv
  <1>2. CASE Step.do = "logout"
    <2>1. Close(Step.s) /\ Following /\ UNCHANGED << files, captured, heard, verdicts, exit, sent >>
      BY <1>2 DEF Expires
    <2> QED
      BY <1>1, <1>2, <2>1, CloseSteps
  <1>3. CASE Step.do # "logout"
    BY <1>1, <1>3, FailStep DEF Expires, Reasons
  <1> QED
    BY <1>2, <1>3

LEMMA WaitingSteps ==
    ASSUME RunnerInv, WaitingStep
    PROVE  RunnerInv'
  <1>1. /\ runner.phase # "load" /\ runner.step \in DOMAIN File.steps
        /\ UNCHANGED << files, client, line, captured, heard, verdicts, exit, sent >>
    BY DEF WaitingStep, At
  <1>2. CASE Step.do \in {"expect", "expect_none", "clear"} /\ (Go("wait") \/ Go("window"))
    <2>1. Step.do \in Deeds
      BY <1>2 DEF Deeds
    <2> QED
      BY <1>1, <1>2, <2>1, SilentStep
  <1>3. CASE Step.do = "pause" /\ Following
    <2>1. ~Awaits(Step)
      BY <1>3 DEF Awaits
    <2> QED
      BY <1>1, <1>3, <2>1, SilentStep
  <1> QED
    BY <1>2, <1>3 DEF WaitingStep, At

\* A window is over: it was quiet, or the inbox is emptied.
LEMMA WindowSteps ==
    ASSUME RunnerInv, Silence \/ Cleared
    PROVE  RunnerInv'
  <1>1. runner.phase # "load" /\ runner.step \in DOMAIN File.steps
    BY DEF Silence, Cleared, At
  <1>2. CASE Silence
    <2>1. CASE Fail("unexpected")
      BY <1>1, <2>1, FailStep DEF Reasons
    <2>2. CASE Following /\ UNCHANGED << files, client, line, captured, heard, verdicts, exit, sent >>
      <3>1. ~Awaits(Step)
        BY <1>2 DEF Silence, At, Awaits
      <3> QED
        BY <1>1, <2>2, <3>1, SilentStep
    <2> QED
      BY <1>2, <2>1, <2>2 DEF Silence
  <1>3. CASE Cleared
    <2>1. /\ Step.do = "clear" /\ Following
          /\ client' = [client EXCEPT ![Step.s].inbox = << >>]
          /\ UNCHANGED << files, line, captured, heard, verdicts, exit, sent >>
      BY <1>3 DEF Cleared, At
    <2>2. Step.s \in Members
      BY <1>1, <2>1, StepFacts DEF Deeds
    <2>3. client \in [Members -> ClientType] /\ line \in [Members -> QueueType]
      BY DEF RunnerInv, RunnerTypes
    <2>4. ASSUME NEW k \in ClientType
          PROVE  [k EXCEPT !.inbox = << >>] \in ClientType
      <3>1. << >> \in Seq(Heard)
        OBVIOUS
      <3> QED
        BY <3>1 DEF ClientType
    <2> DEFINE k == [client[Step.s] EXCEPT !.inbox = << >>]
    <2>5. k \in ClientType /\ k.inbox = << >> /\ client' = [client EXCEPT ![Step.s] = k]
      <3>1. k \in ClientType
        BY <2>2, <2>3, <2>4
      <3>2. k.inbox = << >>
        BY <2>2, <2>3 DEF ClientType
      <3>3. client' = [client EXCEPT ![Step.s] = k]
        BY <2>1
      <3> QED
        BY <3>1, <3>2, <3>3
    <2> HIDE DEF k
    <2>6. /\ client' \in [Members -> ClientType] /\ line' \in [Members -> QueueType]
          /\ \A s \in Members : /\ client'[s].inbox \in {client[s].inbox, << >>}
                                /\ line'[s].queue \in {line[s].queue, << >>}
      BY <2>1, <2>2, <2>3, <2>5
    <2>7. runner.step \in DOMAIN Steps(runner.file) => ~Awaits(Steps(runner.file)[runner.step])
      BY <1>1, <2>1, StepFacts DEF Awaits
    <2> QED
      BY <1>1, <2>1, <2>6, <2>7, MoveStep DEF Following
  <1> QED
    BY <1>2, <1>3

\* Whatever the steps of a file do.
LEMMA ExecutesStep ==
    ASSUME RunnerInv, Executes
    PROVE  RunnerInv'
  <1>1. CASE DisconnectStep
    <2>1. /\ runner.phase # "load" /\ runner.step \in DOMAIN File.steps /\ Step.do = "disconnect"
          /\ Close(Step.s) /\ Following
          /\ UNCHANGED << files, captured, heard, verdicts, exit, sent >>
      BY <1>1 DEF DisconnectStep, At
    <2> QED
      BY <2>1, CloseSteps
  <1>2. CASE ReadsGarbage
    BY <1>2, EscapesStep DEF ReadsGarbage
  <1> QED
    BY <1>1, <1>2, ControlSteps, SendSteps, WaitingSteps, MatchesStep, ExpiresStep, ReadsStep,
       WindowSteps DEF Executes

\* The runner itself, between its files and at their ends.
LEMMA RunnerSteps ==
    ASSUME RunnerInv, Runner
    PROVE  RunnerInv'
  <1>1. CASE NoFiles \/ Ends
    <2>1. UNCHANGED << files, runner, client, line, captured, heard, verdicts, sent >>
      BY <1>1 DEF NoFiles, Ends
    <2> QED
      BY <2>1, NothingStep
  <1>2. CASE CannotBuild
    BY <1>2, EscapesStep DEF CannotBuild
  <1>3. CASE Dial
    <2>1. CASE Go("step") /\ UNCHANGED << files, client, line, captured, heard, verdicts, exit, sent >>
      <3>1. runner.phase # "load"
        BY <1>3 DEF Dial
      <3> QED
        BY <2>1, <3>1, PlaceStep
    <2>2. CASE Escapes("transport")
      BY <2>2, EscapesStep
    <2> QED
      BY <1>3, <2>1, <2>2 DEF Dial
  <1>4. CASE Passes
    <2>1. /\ runner.phase # "load" /\ Leave(TRUE, Nobody)
          /\ runner.step > Len(Steps(runner.file))
      BY <1>4 DEF Passes, File, Steps
    <2> QED
      BY <2>1, LeaveStep DEF Reasons
  <1>5. CASE Skips
    <2>1. UNCHANGED << files, runner, client, line, captured, heard, verdicts, sent >>
      BY <1>5 DEF Skips
    <2> QED
      BY <2>1, NothingStep
  <1>6. CASE TimesOut
    BY <1>6, EscapesStep DEF TimesOut
  <1> QED
    BY <1>1, <1>2, <1>3, <1>4, <1>5, <1>6, CannotLoadStep, LoadStep, ExecutesStep, ControlSteps DEF Runner

LEMMA RunnerStarts == RunnerInit => RunnerInv
  <1> SUFFICES ASSUME RunnerInit PROVE RunnerInv
    OBVIOUS
  <1>1. NewClient \in ClientType /\ NoLine \in QueueType
    <2>1. << >> \in Seq(Heard)
      OBVIOUS
    <2> QED
      BY <2>1 DEF NewClient, ClientType, NoLine, QueueType
  <1>2. RunnerTypes
    BY <1>1 DEF RunnerInit, RunnerTypes, Phases
  <1>3. PlaceInv
    BY DEF RunnerInit, PlaceInv
  <1>4. runner.phase = "load" /\ DOMAIN verdicts = {}
    BY DEF RunnerInit
  <1> QED
    BY <1>2, <1>3, <1>4 DEF RunnerInv, VerdictsAreFounded

LEMMA RunnerStep == RunnerInv /\ [RunnerNext]_runnerVars => RunnerInv'
  <1> SUFFICES ASSUME RunnerInv, [RunnerNext]_runnerVars PROVE RunnerInv'
    OBVIOUS
  <1>1. CASE UNCHANGED runnerVars
    <2>1. UNCHANGED << files, runner, client, line, captured, heard, verdicts, sent >>
      BY <1>1 DEF runnerVars
    <2> QED
      BY <2>1, NothingStep
  <1>2. CASE SimulatorReplies
    <2>1. UNCHANGED << files, runner, client, line, captured, heard, verdicts, sent >>
      BY <1>2 DEF SimulatorReplies
    <2> QED
      BY <2>1, NothingStep
  <1> QED
    BY <1>1, <1>2, RunnerSteps, SimulatorSendsStep, SimulatorClosesStep DEF RunnerNext, Simulator

\* A file that passed has heard what it waited for (Runner._expect and Session.logon,
\* with Session.match and Session.pump under them): for every logon and expectation in
\* it a message of the wanted kind, sent on that session while this file ran, none of
\* them counted twice and like ones in the order of sending -- however messages,
\* reads, closings and deadlines fall, for any suite, sessions and number of messages.
THEOREM PassesAreFounded == RunnerSpec => []VerdictsAreFounded
  <1>1. RunnerInit => RunnerInv
    BY RunnerStarts
  <1>2. RunnerInv /\ [RunnerNext]_runnerVars => RunnerInv'
    BY RunnerStep
  <1>3. RunnerInv => VerdictsAreFounded
    BY DEF RunnerInv, VerdictsAreFounded
  <1> QED
    BY <1>1, <1>2, <1>3, PTL DEF RunnerSpec

=============================================================================
