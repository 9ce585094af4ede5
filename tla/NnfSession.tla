----------------------------- MODULE NnfSession -----------------------------
(***************************************************************************)
(* NSE's direct interface below the venue: nnf/session.py with the message *)
(* store of nnf/recovery.py, the keys that gateway_router.py issues, and   *)
(* wire/acceptor.py for this protocol.  A box is a TCP connection, a user  *)
(* signs on over the box that it is configured on.                         *)
(*                                                                         *)
(* Bytes are left out: a packet can be read exactly when its member and    *)
(* the box use the same cipher, and every read holds one packet.  Times    *)
(* are ages that stop growing at the age where nothing depends on them.    *)
(*                                                                         *)
(* The member is external.  It downloads after it signs on, and resumes    *)
(* from the last TimeStamp1 it saw before it lost its place.               *)
(***************************************************************************)
EXTENDS Integers, Sequences, FiniteSets

CONSTANTS
    Boxes, Users,
    BoxOf,          \* NnfSessionConfig.box_id of every user
    Capacity,       \* MessageStore.capacity
    Interval,       \* heartbeat_seconds, in units of time
    DropLimit,      \* drop_counter_limit
    Clock,          \* the readings of the clock when a message is stamped
    NoSecret,       \* no key material: a clear channel
    MaxSecrets,     \* bound: keys issued over a behaviour
    MaxStamps       \* bound: messages filed before the last packet is read

ASSUME NnfAssumption ==
    /\ BoxOf \in [Users -> Boxes]
    /\ Capacity \in Nat \ {0} /\ Interval \in Nat \ {0} /\ DropLimit \in Nat
    /\ MaxSecrets \in Nat /\ MaxStamps \in Nat
    /\ Clock \subseteq Nat /\ NoSecret \notin Nat

VARIABLES box,       \* BoxConnection: state, cipher, drop_counter and two ages
          users,     \* BoxConnection.users
          live,      \* NnfSessionManager._live
          sessions,  \* NseApplication._sessions
          issued,    \* NseVenue._issued
          records,   \* MessageStore._records: the TimeStamp1 of each message
          last,      \* MessageStore._last
          member,    \* external, of each box: is its connection broken, the key
                     \* it collected, the cipher it uses, its own heartbeats
          inbox,     \* external, of each user: the reports it misses, those of them
                     \* that the store's log says are lost, its cursor, has it
                     \* downloaded since it signed on?
          secrets,   \* keys issued so far
          retired    \* history: the keys that ended connections used

boxVars   == << box, users, live, sessions, issued, member, secrets, retired >>
storeVars == << records, last, inbox >>
nnfVars   == << boxVars, storeVars >>

Connected(b) == box[b].state # "DISCONNECTED"

\* Can the box read what its member sends?
Readable(b) ==
    Connected(b) /\ ~member[b].broken /\ member[b].cipher = box[b].cipher

LoggedOn(u) == u \in users[BoxOf[u]]

----------------------------------------------------------------------------
(* recovery.py: MessageStore *)

Sequence(prev, now) == IF now <= prev THEN prev + 1 ELSE now

\* record: a ring for each user.
Recorded(stamps, stamp) ==
    LET grown == Append(stamps, stamp)
    IN  IF Len(grown) > Capacity THEN Tail(grown) ELSE grown

\* The records, by their places, whose stamps a cursor has not reached.
After(u, cursor) == {i \in DOMAIN records[u] : records[u][i] > cursor}

Truncated(u, cursor) ==
    records[u] # << >> /\ Len(records[u]) = Capacity /\ cursor < Head(records[u])

----------------------------------------------------------------------------
(* session.py: what reaches a user *)

Reaches(u) == Connected(BoxOf[u]) /\ ~member[BoxOf[u]].broken

Noted(in, stamp, reaches) ==
    [in EXCEPT !.missing = IF reaches THEN @ ELSE @ \cup {stamp},
               !.cursor  = IF reaches /\ in.synced THEN stamp ELSE @]

Stamped(now) == last' = Sequence(last, now)

\* Mutant: a report for a user who is away is not filed.
RetainNothing(u) ==
    /\ \E now \in Clock : Stamped(now)
    /\ inbox' = [inbox EXCEPT ![u] = Noted(@, last', FALSE)]
    /\ UNCHANGED records

\* retain: a report whose owner is not signed on is filed and not queued.
Retain(u) ==
    /\ \E now \in Clock : Stamped(now)
    /\ records' = [records EXCEPT ![u] = Recorded(@, last')]
    /\ inbox' = [inbox EXCEPT ![u] = Noted(@, last', FALSE)]

\* NnfSession.send of a message that can be recovered: filed first, then sent
\* over the box, when there is a connection.
SendTo(u) ==
    /\ \E now \in Clock : Stamped(now)
    /\ records' = [records EXCEPT ![u] = Recorded(@, last')]
    /\ inbox' = [inbox EXCEPT ![u] = Noted(@, last', Reaches(u))]

\* A message that is not recoverable, or that no session sends, is stamped only.
\* The gap it leaves between the stamps of two records is left out.
SendUnfiled == UNCHANGED storeVars

----------------------------------------------------------------------------
(* session.py: the connection of a box *)

\* Mutant: the drop counter is kept.
AttachedKeepingDrops(bx) ==
    [bx EXCEPT !.state = "AWAITING_REGISTRATION", !.silence = 0]

\* attach: the age of the last heartbeat is not touched.
Attached(bx) ==
    [bx EXCEPT !.state = "AWAITING_REGISTRATION", !.drops = 0, !.silence = 0]

\* Mutant: the key is kept for the next connection.
ForgetNothing(b) == UNCHANGED issued

\* on_box_detached, NseVenue.forget.
Forget(b) == issued' = [issued EXCEPT ![b] = NoSecret]

\* detach: every user is signed off, then the key material is discarded.  What
\* the application does on_logout is the venue's.
Detach(b) ==
    /\ Connected(b)
    /\ box' = [box EXCEPT ![b].state = "DISCONNECTED", ![b].cipher = NoSecret]
    /\ users' = [users EXCEPT ![b] = {}]
    /\ live' = live \ users[b]
    /\ sessions' = sessions \ users[b]
    /\ Forget(b)
    /\ member' = [member EXCEPT ![b].broken = FALSE, ![b].cipher = NoSecret]
    /\ retired' = retired \cup ({box[b].cipher} \ {NoSecret})
    /\ UNCHANGED secrets

Unsynced(S) ==
    [u \in Users |-> IF u \in S THEN [inbox[u] EXCEPT !.synced = FALSE] ELSE inbox[u]]

\* Acceptor.route: a box with a connection refuses a second one.  The first
\* packet is handled at once; until it is decoded the channel is in clear, and
\* the member goes on under the cipher that the packet settles.
Attach(b, cipher) ==
    /\ ~Connected(b)
    /\ member' = [member EXCEPT ![b].eager = FALSE, ![b].beat = Interval,
                                ![b].cipher = cipher]

Heard(bx) == [bx EXCEPT !.silence = 0]

\* registered: everything after this message is encrypted, if there is a key.
Registered(bx, cipher) ==
    [bx EXCEPT !.state = "AWAITING_BOX_SIGN_ON",
               !.cipher = IF cipher = NoSecret THEN @ ELSE cipher]

SignedOn(bx) == [bx EXCEPT !.state = "ACTIVE"]

\* sign_on_user, and the venue's on_logon.
SignOnUser(b, u) ==
    /\ users' = [users EXCEPT ![b] = @ \cup {u}]
    /\ live' = live \cup {u}
    /\ sessions' = sessions \cup {u}
    /\ UNCHANGED << issued, member, secrets, retired >>

\* sign_off: the box and its other users stay up.
SignOff(b, u) ==
    /\ users' = [users EXCEPT ![b] = @ \ {u}]
    /\ live' = live \ {u}
    /\ sessions' = sessions \ {u}
    /\ UNCHANGED << issued, member, secrets, retired >>

----------------------------------------------------------------------------
(* session.py: heartbeats *)

Early(b) == box[b].beat < Interval

Beaten(bx, early) ==
    Heard([bx EXCEPT !.beat = IF early THEN @ ELSE 0,
                     !.drops = IF early THEN @ + 1 ELSE @])

\* _on_heartbeat short of the limit: echoed, or counted when it is too soon.
Heartbeat(b) ==
    /\ Readable(b)
    /\ Early(b) => box[b].drops + 1 < DropLimit
    /\ box' = [box EXCEPT ![b] = Beaten(@, Early(b))]
    /\ member' = [member EXCEPT ![b].eager = @ \/ member[b].beat < Interval,
                                ![b].beat = 0]
    /\ UNCHANGED << users, live, sessions, issued, secrets, retired >>

\* The heartbeat that is one too many; the box is disconnected with it.
LastHeartbeat(b) ==
    /\ Readable(b)
    /\ Early(b)
    /\ box[b].drops + 1 >= DropLimit

Older(age, limit) == IF age < limit THEN age + 1 ELSE age

PassTime ==
    /\ box' = [b \in Boxes |-> [box[b] EXCEPT !.beat = Older(@, Interval),
                                              !.silence = Older(@, 2 * Interval)]]
    /\ member' = [b \in Boxes |-> [member[b] EXCEPT !.beat = Older(@, Interval)]]
    /\ UNCHANGED << users, live, sessions, issued, secrets, retired, storeVars >>

\* Mutant: later than two intervals.
QuietLonger(b) == Connected(b) /\ box[b].silence > 2 * Interval

\* tick: quiet for two intervals.
Quiet(b) == Connected(b) /\ box[b].silence >= 2 * Interval

----------------------------------------------------------------------------
(* gateway_router.py, and the network *)

\* issue: key material nobody has seen before.
FreshSecret == secrets + 1

\* _grant: fresh secrets replace whatever the box was issued.
Grant(b) ==
    /\ secrets' = FreshSecret
    /\ issued' = [issued EXCEPT ![b] = FreshSecret]

\* _answer to a broker the box is registered to; any other query changes nothing.
GrRequest(b) ==
    /\ secrets < MaxSecrets
    /\ Grant(b)
    /\ member' = [member EXCEPT ![b].key = FreshSecret]
    /\ UNCHANGED << box, users, live, sessions, retired, storeVars >>

\* The member's end is gone and the venue has not noticed: what it sends is lost.
\* The member starts again without a key.
ConnectionBreaks(b) ==
    /\ Connected(b)
    /\ ~member[b].broken
    /\ member' = [member EXCEPT ![b].broken = TRUE, ![b].key = NoSecret]
    /\ UNCHANGED << box, users, live, sessions, issued, secrets, retired, storeVars >>

----------------------------------------------------------------------------

NewBox ==
    [state |-> "DISCONNECTED", cipher |-> NoSecret, drops |-> 0, beat |-> Interval,
     silence |-> 0]

NnfInit ==
    /\ box = [b \in Boxes |-> NewBox]
    /\ users = [b \in Boxes |-> {}]
    /\ live = {}
    /\ sessions = {}
    /\ issued = [b \in Boxes |-> NoSecret]
    /\ records = [u \in Users |-> << >>]
    /\ last = 0
    /\ member = [b \in Boxes |-> [broken |-> FALSE, key |-> NoSecret,
                                  cipher |-> NoSecret, eager |-> FALSE,
                                  beat |-> Interval]]
    /\ inbox = [u \in Users |-> [missing |-> {}, lost |-> {}, cursor |-> 0,
                               synced |-> FALSE]]
    /\ secrets = 0
    /\ retired = {}

=============================================================================
