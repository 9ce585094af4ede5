------------------------------ MODULE FixLink ------------------------------
(***************************************************************************)
(* A FIX session of the venue and a conforming client over a connection    *)
(* that breaks: what arrives is in order, what was in flight when it breaks*)
(* is lost, and the venue may restart, also in the middle of a handler; the*)
(* session's timer may find anything due.  The session is FixSession; the  *)
(* client is outside the repository and does what the session relies on:   *)
(* it numbers its messages, answers resend requests with its application   *)
(* messages and one gap fill for each run of others, asks for what it      *)
(* misses, and reconnects.                                                 *)
(***************************************************************************)
EXTENDS FixSession, FiniteSets

CONSTANTS
    OrderKinds,     \* what the client sends: "APP", or "BAD" (fails validation)
    Limits,         \* bound: how many orders of the client, reports nobody asked
                    \* for, ticks that find something due, and faults (breaks,
                    \* restarts, skipped numbers) there are; and whether the venue's
                    \* end may lose what the client has in flight
    MaxNumber       \* bound: above every number either side uses

ASSUME LimitsAssumption ==
    Limits \subseteq [orders : Nat, reports : Nat, ticks : Nat, faults : Nat,
                      lossy : BOOLEAN]

VARIABLES client,    \* "DOWN", "WAITING" (Logon sent) or "ON"
          cLog,      \* kind of every message of the client, by number
          cIn,       \* the next number it expects
          cAsked,    \* is it waiting for a resend?
          got,       \* numbers of the reports it has processed
          toVenue,   \* in flight to the venue
          events     \* one of Limits, counted down, and cut: the numbers of the
                     \* orders that a crash has cut off

clientVars == << client, cLog, cIn, cAsked, got >>
linkVars   == << vars, client, cLog, cIn, cAsked, got, toVenue, events >>

Spend(what) == /\ events[what] > 0
               /\ events' = [events EXCEPT ![what] = @ - 1]

----------------------------------------------------------------------------
(* The venue's side of the connection *)

EndOfStream == [Msg("APP") EXCEPT !.type = "EOF"]

\* What is left unread when the venue closes is gone.
Consume == toVenue' = IF state' = "ACTIVE" THEN Tail(toVenue) ELSE << >>

VenueReads ==
    /\ toVenue # << >>
    /\ Head(toVenue).type # "EOF"
    /\ Connect(Head(toVenue)) \/ Receive(Head(toVenue))
    /\ Consume
    /\ UNCHANGED << clientVars, events >>

VenueSeesClose ==
    /\ toVenue # << >>
    /\ Head(toVenue).type = "EOF"
    /\ ~Busy
    /\ \/ Detach
       \/ state = "DISCONNECTED" /\ UNCHANGED vars
    /\ toVenue' = << >>
    /\ UNCHANGED << clientVars, events >>

VenueLoop == Loop /\ UNCHANGED << clientVars, toVenue, events >>

VenueReports ==
    /\ Spend("reports")
    /\ SendReport
    /\ UNCHANGED << clientVars, toVenue >>

\* A heartbeat, a probe, or the end of a session whose probe went unanswered: with
\* it goes what the client had in flight.
VenueTicks ==
    /\ Spend("ticks")
    /\ Tick
    /\ state' = "ACTIVE" \/ events.lossy
    /\ toVenue' = IF state' = "ACTIVE" THEN toVenue ELSE << >>
    /\ UNCHANGED clientVars

----------------------------------------------------------------------------
(* The client (external) *)

ClientKind(m) == IF m.type # "APP" THEN "ADMIN"
                 ELSE IF m.fault = "NONE" THEN "APP" ELSE "BAD"

CanWrite == client # "DOWN" /\ state = "ACTIVE"

\* Numbers msgs, and writes them if the connection still takes them.
ClientSends(msgs) ==
    /\ cLog' = cLog \o [i \in 1..Len(msgs) |-> ClientKind(msgs[i])]
    /\ toVenue' = IF CanWrite THEN toVenue \o Numbered(cLog, msgs) ELSE toVenue

\* Its answer to a resend request: what starts at number p.
ClientResends(p) ==
    LET next == {q \in (p + 1)..Len(cLog) : cLog[q] # "ADMIN"}
    IN  CASE cLog[p] = "APP" -> Resent(p)
          [] cLog[p] = "BAD" -> [Resent(p) EXCEPT !.fault = "FIELDS"]
          [] OTHER -> GapFill(p, IF next = {} THEN Len(cLog) + 1
                                 ELSE CHOOSE q \in next : \A r \in next : q <= r)

ClientReplay(from) ==
    LET starts == {p \in from..Len(cLog) :
                     \/ cLog[p] # "ADMIN"
                     \/ p = from
                     \/ cLog[p - 1] # "ADMIN"}
        start(i) == CHOOSE p \in starts :
                       Cardinality({q \in starts : q < p}) = i - 1
    IN  [i \in 1..Cardinality(starts) |-> ClientResends(start(i))]

ClientConnects ==
    /\ client = "DOWN"
    /\ state = "DISCONNECTED"
    /\ ~Busy
    /\ toVenue = << >>
    /\ client' = "WAITING"
    /\ cLog' = Append(cLog, "ADMIN")
    /\ toVenue' = << [Msg("LOGON") EXCEPT !.seq = Len(cLog) + 1,
                          !.lo = IF NextExpected THEN cIn ELSE 0] >>
    /\ wire' = << >>
    /\ cAsked' = FALSE
    /\ UNCHANGED << state, log, nextIn, pending, resendRequested, testRequest,
                    replaying, draining, delivered, cIn, got, events >>

\* Process the message at hand: what it does beyond its number.
ClientProcesses(m) ==
    CASE m.type = "APP" ->
            /\ got' = Append(got, m.seq)
            /\ UNCHANGED << client, cLog, toVenue >>
      [] m.type = "LOGON" ->
            /\ client' = "ON"
            /\ toVenue' = IF NextExpected /\ CanWrite
                          THEN toVenue \o ClientReplay(m.lo) ELSE toVenue
            /\ UNCHANGED << got, cLog >>
      [] m.type = "RESEND_REQUEST" ->
            /\ toVenue' = IF CanWrite THEN toVenue \o ClientReplay(m.lo) ELSE toVenue
            /\ UNCHANGED << got, client, cLog >>
      [] m.type = "TEST_REQUEST" ->
            /\ ClientSends(<< Msg("HEARTBEAT") >>)
            /\ UNCHANGED << got, client >>
      [] OTHER -> UNCHANGED << got, client, cLog, toVenue >>

ClientReadsCurrent(m) ==
    /\ m.seq = cIn
    /\ ClientProcesses(m)
    /\ cIn' = IF m.type = "SEQUENCE_RESET" THEN m.hi ELSE m.seq + 1
    /\ cAsked' = FALSE

\* A message above a gap is dropped and the gap asked for; a Logon and a resend
\* request are acted on at once.
ClientAsks == ~cAsked /\ ~NextExpected

ClientReadsHigh(m) ==
    LET request == [Msg("RESEND_REQUEST") EXCEPT !.lo = cIn, !.seq = Len(cLog) + 1]
        answer  == IF m.type = "RESEND_REQUEST" THEN ClientReplay(m.lo)
                   ELSE IF m.type = "LOGON" /\ NextExpected THEN ClientReplay(m.lo)
                   ELSE << >>
    IN  /\ m.seq > cIn
        /\ client' = IF m.type = "LOGON" THEN "ON" ELSE client
        /\ cAsked' = TRUE
        /\ cLog' = IF ClientAsks THEN Append(cLog, "ADMIN") ELSE cLog
        /\ toVenue' = IF ~CanWrite THEN toVenue
                      ELSE IF ClientAsks THEN toVenue \o answer \o << request >>
                      ELSE toVenue \o answer
        /\ UNCHANGED << cIn, got >>

ClientReadsLow(m) == m.seq < cIn /\ UNCHANGED << clientVars, toVenue >>

ClientReads ==
    /\ wire # << >>
    /\ client # "DOWN"
    /\ \/ ClientReadsCurrent(Head(wire))
       \/ ClientReadsHigh(Head(wire))
       \/ ClientReadsLow(Head(wire))
    /\ wire' = Tail(wire)
    /\ UNCHANGED << state, log, nextIn, pending, resendRequested, testRequest,
                    replaying, draining, delivered, events >>

ClientOrders(kind) ==
    /\ client = "ON"
    /\ Spend("orders")
    /\ events.lossy \/ CanWrite
    /\ ClientSends(<< IF kind = "APP" THEN Msg("APP")
                      ELSE [Msg("APP") EXCEPT !.fault = "FIELDS"] >>)
    /\ UNCHANGED << vars, client, cIn, cAsked, got >>

\* A number is used and its message never put on the wire; the next one is.
ClientSkips ==
    /\ client = "ON"
    /\ CanWrite
    /\ events.lossy
    /\ Spend("faults")
    /\ cLog' = cLog \o << "APP", "APP" >>
    /\ toVenue' = Append(toVenue, [Msg("APP") EXCEPT !.seq = Len(cLog) + 2])
    /\ UNCHANGED << vars, client, cIn, cAsked, got >>

\* The venue has closed and everything it sent has been read.
ClientSeesClose ==
    /\ client # "DOWN"
    /\ state = "DISCONNECTED"
    /\ ~Busy
    /\ wire = << >>
    /\ toVenue = << >>
    /\ client' = "DOWN"
    /\ UNCHANGED << vars, cLog, cIn, cAsked, got, toVenue, events >>

----------------------------------------------------------------------------
(* What goes wrong *)

\* The client goes away; the venue reads some of what is in flight, then the end.
ClientBreaks ==
    /\ client # "DOWN"
    /\ Spend("faults")
    /\ client' = "DOWN"
    /\ \E k \in (IF events.lossy THEN 0 ELSE Len(toVenue))..Len(toVenue) :
          toVenue' = SubSeq(toVenue, 1, k) \o << EndOfStream >>
    /\ wire' = << >>
    /\ UNCHANGED << state, log, nextIn, pending, resendRequested, testRequest,
                    replaying, draining, delivered, cLog, cIn, cAsked, got >>

\* A write of the venue fails, session.kill, or the process restarts; the client
\* reads what is left and then the end.
VenueBreaks ==
    /\ Spend("faults")
    /\ events.lossy
    /\ Detach \/ Restart
    /\ toVenue' = << >>
    /\ UNCHANGED << clientVars >>

\* What the venue may be handling when it dies: a message taken out of the queue,
\* or the next one to arrive.
AtHand == IF toVenue = << >> THEN pending ELSE pending \cup {Head(toVenue)}

IsOrder(m) == m.type = "APP" /\ m.fault = "NONE"

\* The venue dies inside a handler.  An order whose number it had consumed is cut
\* off: it is received, and never handed to the application.
VenueDies ==
    /\ events.faults > 0
    /\ events.lossy
    /\ \E m \in AtHand :
          /\ DiesInside(m)
          /\ events' = [events EXCEPT
                           !.faults = @ - 1,
                           !.cut = IF IsOrder(m) THEN @ \cup {m.seq} ELSE @]
    /\ toVenue' = << >>
    /\ UNCHANGED clientVars

----------------------------------------------------------------------------

LinkInit ==
    /\ Init
    /\ client = "DOWN"
    /\ cLog = << >>
    /\ cIn = 1
    /\ cAsked = FALSE
    /\ got = << >>
    /\ toVenue = << >>
    /\ \E limit \in Limits :
          events = [orders |-> limit.orders, reports |-> limit.reports,
                    ticks |-> limit.ticks, faults |-> limit.faults,
                    lossy |-> limit.lossy, cut |-> {}]

Progress ==
    \/ VenueReads
    \/ VenueSeesClose
    \/ VenueLoop
    \/ ClientConnects
    \/ ClientReads
    \/ ClientSeesClose

LinkNext ==
    \/ Progress
    \/ VenueReports
    \/ VenueTicks
    \/ \E kind \in OrderKinds : ClientOrders(kind)
    \/ ClientSkips
    \/ ClientBreaks
    \/ VenueBreaks
    \/ VenueDies

\* The reactor serves every readable socket, a handler runs to its end, and the
\* client reads, answers and reconnects: each of them keeps going.
LinkFairness ==
    /\ WF_linkVars(VenueReads)
    /\ WF_linkVars(VenueSeesClose)
    /\ WF_linkVars(VenueLoop)
    /\ WF_linkVars(ClientConnects)
    /\ WF_linkVars(ClientReads)
    /\ WF_linkVars(ClientSeesClose)

LinkSpec == LinkInit /\ [][LinkNext]_linkVars /\ LinkFairness

----------------------------------------------------------------------------
(* Properties *)

\* The numbers below one that l has used for messages of a kind.
NumbersOf(l, kind, below) == {n \in 1..(below - 1) : n <= Len(l) /\ l[n] = kind}

\* seq holds the members of S in ascending order, each once.
Ascends(seq, S) ==
    /\ \A i, j \in 1..Len(seq) : i < j => seq[i] < seq[j]
    /\ {seq[i] : i \in 1..Len(seq)} = S

\* What the client has processed is exactly the reports the venue numbered below
\* the client's next expected number, in order: over breaks, restarts, resends
\* and cancels on disconnect none is lost, repeated or reordered.
ClientSeesEveryReport == Ascends(got, NumbersOf(log, "APP", cIn))

\* What the venue has processed is exactly the valid messages the client numbered
\* below the venue's next expected number, in order; but for the one that each crash
\* may cut off between set_next_in and on_message (_dispatch).
VenueSeesEveryOrder ==
    Ascends(delivered, NumbersOf(cLog, "APP", nextIn) \ events.cut)

\* What a restart is said to leave behind: every order that counts as received has
\* been processed.
EveryOrderSurvives == Ascends(delivered, NumbersOf(cLog, "APP", nextIn))

\* A number is never used for a second message: what the client reads below its
\* expected number is always marked as a possible duplicate.
NumbersAreNotReused ==
    wire # << >> /\ client # "DOWN" /\ Head(wire).seq < cIn => Head(wire).dup

\* Nothing is lost, repeated or renumbered in either direction.
BothSidesAgree ==
    /\ ClientSeesEveryReport
    /\ VenueSeesEveryOrder
    /\ NumbersAreNotReused

\* Every report the venue ever numbers, also while nobody is connected, ends up
\* with the client, where no fault takes anything the client had in flight: then
\* only the client ever has a gap.
ReportsArriveUnlessLossy ==
    \A n \in 1..MaxNumber : (~events.lossy /\ n <= Len(log)) ~> (n < cIn)

\* "MsgSeqNum too high -> ResendRequest, with later messages queued until the gap
\* closes, so nothing is silently dropped" (session.py): every message the client
\* ever numbers is eventually received.
OrdersArrive ==
    \A n \in 1..MaxNumber : (n <= Len(cLog)) ~> (n < nextIn)

\* _drain_pending leaves in the queue what a gap fill has overtaken, and then takes
\* the request it once made for one that is still open.
QueueIsStale == resendRequested /\ \E p \in pending : p.seq < nextIn

\* Whatever either side numbers arrives, over breaks, crashes, skipped numbers and
\* probes; what the client numbers, unless the session ends up with a stale queue
\* and so never asks again.
MessagesArrive ==
    /\ []<>~QueueIsStale => OrdersArrive
    /\ ReportsArriveUnlessLossy

=============================================================================
