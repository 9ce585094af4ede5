----------------------------- MODULE FixSession -----------------------------
(***************************************************************************)
(* One FIX session of a venue: exchangesim/fix/session.py with the routing *)
(* of a first message (exchangesim/wire/acceptor.py) and the operator's    *)
(* commands on it (venues/common_commands.py).  The peer is arbitrary: any *)
(* member of Inbound may arrive at any moment.                             *)
(*                                                                         *)
(* A connection is attached and its first message handled inside one       *)
(* callback, and send_logout is always followed by disconnect, so between  *)
(* callbacks a session is DISCONNECTED or ACTIVE; the two AWAITING states  *)
(* are never observed.  The loops of _drain_pending and replay are         *)
(* unrolled, one iteration a step; nothing else runs while Busy.           *)
(*                                                                         *)
(* A message keeps its type, its number, PossDupFlag and what the session  *)
(* reads of its body: flag is ResetSeqNumFlag of a Logon and GapFillFlag of*)
(* a SequenceReset; lo and hi are BeginSeqNo and EndSeqNo, NewSeqNo (hi) or*)
(* NextExpectedMsgSeqNum (lo).  fault says which inbound check it fails: an*)
(* UNNUMBERED message carries no MsgSeqNum, which no dictionary requires.  *)
(* An application message is identified by its number.                     *)
(***************************************************************************)
EXTENDS Integers, Sequences

CONSTANTS
    ResetOnLogon,      \* SessionConfig.reset_on_logon
    AllowLogonReset,   \* SessionConfig.allow_logon_reset
    NextExpected,      \* SessionConfig.next_expected_seq_num
    Inbound,           \* the messages the peer may send
    Reports,           \* how many reports one event of the venue may emit
    MaxOut             \* bound: outbound numbers used by an arbitrary peer

Admin  == {"LOGON", "HEARTBEAT", "TEST_REQUEST", "RESEND_REQUEST",
           "SEQUENCE_RESET", "REJECT", "LOGOUT"}
Types  == Admin \cup {"APP"}
Faults == {"NONE", "UNNUMBERED", "FIELDS", "COMP_ID", "FRAME"}

\* EndSeqNo values that mean everything from BeginSeqNo onwards.
Infinity == {0, 999999}

FixMessages == [type : Types, seq : Nat, dup : BOOLEAN, fault : Faults,
                flag : BOOLEAN, lo : Nat, hi : Nat]

ASSUME ConfigAssumption == /\ ResetOnLogon \in BOOLEAN
                           /\ AllowLogonReset \in BOOLEAN
                           /\ NextExpected \in BOOLEAN
ASSUME InboundAssumption ==
    /\ Inbound \subseteq FixMessages
    /\ \A m \in Inbound : m.fault = "UNNUMBERED" => m.seq = 0
ASSUME ReportsAssumption == Reports \subseteq Nat /\ MaxOut \in Nat

VARIABLES state,            \* Session.state
          log,              \* the store: kind of every message sent, by number
          nextIn,           \* store.next_in
          pending,          \* _pending: messages above a gap
          resendRequested,  \* _resend_requested
          testRequest,      \* is a TestRequest unanswered?
          replaying,        \* the loop of replay, or NoReplay
          draining,         \* is the loop of _drain_pending running?
          wire,             \* transmitted on this connection, not yet read
          delivered         \* numbers handed to the application since a reset

storeVars == << log, nextIn >>
loopVars  == << replaying, draining >>
vars      == << state, log, nextIn, pending, resendRequested, testRequest,
                replaying, draining, wire, delivered >>

NextOut == Len(log) + 1

NoSeq    == -1
NoReplay == [at |-> 0, upper |-> NoSeq, gap |-> NoSeq, on |-> FALSE]

Busy == replaying.on \/ draining

----------------------------------------------------------------------------
(* Outbound *)

Msg(type) == [type |-> type, seq |-> 0, dup |-> FALSE, fault |-> "NONE",
              flag |-> FALSE, lo |-> 0, hi |-> 0]

Kind(m) == IF m.type = "APP" THEN "APP" ELSE "ADMIN"

\* send assigns the next number of the store l, and stores even when nobody is
\* connected.
Stored(l, msgs) == l \o [i \in 1..Len(msgs) |-> Kind(msgs[i])]

Numbered(l, msgs) == [i \in 1..Len(msgs) |-> [msgs[i] EXCEPT !.seq = Len(l) + i]]

AppReports(n) == [i \in 1..n |-> Msg("APP")]

Send(msgs) ==
    /\ log' = Stored(log, msgs)
    /\ wire' = IF state = "ACTIVE" THEN wire \o Numbered(log, msgs) ELSE wire

\* _transmit with store=False: a replayed message keeps its number.
Transmit(msgs) ==
    wire' = IF state = "ACTIVE" THEN wire \o msgs ELSE wire

\* msgs go out, then disconnect: detach tells the application, whose reports
\* (cancel on disconnect) are numbered and stored for the next logon.
SendAndDisconnect(msgs) ==
    \E n \in Reports :
        /\ log' = Stored(Stored(log, msgs), AppReports(n))
        /\ wire' = wire \o Numbered(log, msgs)
        /\ state' = "DISCONNECTED"
        /\ pending' = {}

----------------------------------------------------------------------------
(* Logon: routing a connection's first message, and _on_logon *)

WantsReset(m) == m.flag \/ ResetOnLogon

\* A message that cannot be framed, or whose CompIDs name no session or another
\* one, is turned away before a session is attached.
Routed(m) == m.fault \notin {"FRAME", "COMP_ID"}

\* The refusals _on_logon and the checks before it make without any effect.
RefusedOutright(m) ==
    \/ m.fault = "FIELDS"
    \/ m.type # "LOGON"
    \/ m.flag /\ ~AllowLogonReset

LogAfterReset(m)    == IF WantsReset(m) THEN << >> ELSE log
NextInAfterReset(m) == IF WantsReset(m) THEN 1 ELSE nextIn

\* The refusals it makes after the reset has been carried out.
RefusedAfterReset(m) ==
    \/ NextExpected /\ (m.lo = 0 \/ m.lo > Len(LogAfterReset(m)) + 1)
    \/ m.fault # "UNNUMBERED" /\ m.seq < NextInAfterReset(m)

\* What on_logon sends: Japannext tells a new client the state of its markets,
\* HKEX, whose Logon carries NextExpectedMsgSeqNum, sends nothing.
Greetings == IF NextExpected THEN {0} ELSE Reports

Refuse(l, expected) ==
    \E n \in Reports :
        /\ log' = Stored(Stored(l, << Msg("LOGOUT") >>), AppReports(n))
        /\ wire' = Numbered(l, << Msg("LOGOUT") >>)
        /\ nextIn' = expected
        /\ resendRequested' = FALSE
        /\ UNCHANGED << state, pending, replaying, draining >>

ConnectRefused(m) ==
    \/ /\ RefusedOutright(m)
       /\ Refuse(log, nextIn)
       /\ UNCHANGED delivered
    \/ /\ ~RefusedOutright(m)
       /\ RefusedAfterReset(m)
       /\ Refuse(LogAfterReset(m), NextInAfterReset(m))
       /\ delivered' = IF WantsReset(m) THEN << >> ELSE delivered

\* The number the Logon response asks the client to go on from.
ExpectedFromClient(m, expected) == IF m.seq = expected THEN m.seq + 1 ELSE expected

\* With NextExpectedMsgSeqNum the answer itself tells the client what is missing.
LogonAnswer(answer, request, inOrder) ==
    IF inOrder \/ NextExpected THEN << answer >> ELSE << answer, request >>

\* The Logon is acknowledged before any ResendRequest or replay.  A Logon above
\* a gap waits in pending, so that its number is consumed in order; one without a
\* number counts as number 0.
ConnectAccepted(m) ==
    LET l        == LogAfterReset(m)
        expected == NextInAfterReset(m)
        inOrder  == m.seq = expected \/ m.fault = "UNNUMBERED"
        answer   == [Msg("LOGON") EXCEPT
                        !.flag = WantsReset(m),
                        !.lo = IF NextExpected THEN ExpectedFromClient(m, expected)
                               ELSE 0]
        request  == [Msg("RESEND_REQUEST") EXCEPT !.lo = expected]
        msgs     == LogonAnswer(answer, request, inOrder)
    IN  /\ ~RefusedOutright(m)
        /\ ~RefusedAfterReset(m)
        /\ state' = "ACTIVE"
        /\ \E n \in Greetings :
              /\ log' = Stored(l, msgs \o AppReports(n))
              /\ wire' = Numbered(l, msgs \o AppReports(n))
        /\ nextIn' = IF inOrder THEN m.seq + 1 ELSE expected
        /\ pending' = IF inOrder THEN {} ELSE {m}
        /\ resendRequested' = ~inOrder
        /\ replaying' = IF NextExpected /\ m.lo < Len(l) + 1
                        THEN [at |-> m.lo, upper |-> Len(l) + 1,
                              gap |-> NoSeq, on |-> TRUE]
                        ELSE NoReplay
        /\ delivered' = IF WantsReset(m) THEN << >> ELSE delivered
        /\ UNCHANGED draining

Connect(m) ==
    /\ state = "DISCONNECTED"
    /\ ~Busy
    /\ Routed(m)
    /\ testRequest' = FALSE
    /\ ConnectRefused(m) \/ ConnectAccepted(m)

----------------------------------------------------------------------------
(* Dispatch of an in-sequence message; rest is what stays queued *)

\* Mutant: the last message sent is left out.
ReplayRangeShort(begin, end) ==
    [at |-> begin, gap |-> NoSeq, on |-> TRUE,
     upper |-> IF end \in Infinity \/ end >= NextOut THEN NextOut - 2 ELSE end]

\* replay: the range actually looked at.
ReplayRange(begin, end) ==
    [at |-> begin, gap |-> NoSeq, on |-> TRUE,
     upper |-> IF end \in Infinity \/ end >= NextOut THEN NextOut - 1 ELSE end]

DispatchQuiet(m, rest) ==
    /\ m.type \in {"LOGON", "HEARTBEAT", "REJECT"}
    /\ nextIn' = m.seq + 1
    /\ pending' = rest
    /\ UNCHANGED << state, log, wire, replaying, delivered >>

DispatchTestRequest(m, rest) ==
    /\ m.type = "TEST_REQUEST"
    /\ nextIn' = m.seq + 1
    /\ pending' = rest
    /\ Send(<< Msg("HEARTBEAT") >>)
    /\ UNCHANGED << state, replaying, delivered >>

DispatchResendRequest(m, rest) ==
    /\ m.type = "RESEND_REQUEST"
    /\ nextIn' = m.seq + 1
    /\ pending' = rest
    /\ replaying' = ReplayRange(m.lo, m.hi)
    /\ UNCHANGED << state, log, wire, delivered >>

\* Mutant: NewSeqNo is taken for the last number filled.
SequenceResetPast(m, rest) ==
    /\ m.type = "SEQUENCE_RESET"
    /\ pending' = rest
    /\ \/ /\ m.hi >= nextIn
          /\ nextIn' = m.hi + 1
          /\ UNCHANGED << log, wire >>
       \/ /\ m.hi < nextIn
          /\ Send(<< Msg("REJECT") >>)
          /\ UNCHANGED nextIn
    /\ UNCHANGED << state, replaying, delivered >>

\* The expected number moves only forward, in both modes.
DispatchSequenceReset(m, rest) ==
    /\ m.type = "SEQUENCE_RESET"
    /\ pending' = rest
    /\ \/ /\ m.hi >= nextIn
          /\ nextIn' = m.hi
          /\ UNCHANGED << log, wire >>
       \/ /\ m.hi < nextIn
          /\ Send(<< Msg("REJECT") >>)
          /\ UNCHANGED nextIn
    /\ UNCHANGED << state, replaying, delivered >>

DispatchLogout(m) ==
    /\ m.type = "LOGOUT"
    /\ nextIn' = m.seq + 1
    /\ SendAndDisconnect(<< Msg("LOGOUT") >>)
    /\ UNCHANGED << replaying, delivered >>

\* Mutant: the number is not consumed.
DispatchAppAgain(m, rest) ==
    /\ m.type = "APP"
    /\ pending' = rest
    /\ delivered' = Append(delivered, m.seq)
    /\ UNCHANGED << state, log, nextIn, wire, replaying >>

\* The application answers with reports, or has the message rejected.
DispatchApp(m, rest) ==
    /\ m.type = "APP"
    /\ nextIn' = m.seq + 1
    /\ pending' = rest
    /\ delivered' = Append(delivered, m.seq)
    /\ \/ Send(<< Msg("REJECT") >>)
       \/ \E n \in Reports : Send(AppReports(n))
    /\ UNCHANGED << state, replaying >>

Dispatch(m, rest) ==
    \/ DispatchQuiet(m, rest)
    \/ DispatchTestRequest(m, rest)
    \/ DispatchResendRequest(m, rest)
    \/ DispatchSequenceReset(m, rest)
    \/ DispatchLogout(m)
    \/ DispatchApp(m, rest)

----------------------------------------------------------------------------
(* Inbound *)

Keep == UNCHANGED << nextIn, resendRequested, replaying, draining, delivered >>

\* Framing and CompID failures, and a second Logon, end the connection.
ReceiveFatal(m) ==
    \/ m.fault = "FRAME" /\ SendAndDisconnect(<< Msg("LOGOUT") >>) /\ Keep
    \/ /\ m.fault = "COMP_ID"
       /\ SendAndDisconnect(<< Msg("REJECT"), Msg("LOGOUT") >>)
       /\ Keep
    \/ /\ m.fault \in {"NONE", "UNNUMBERED"}
       /\ m.type = "LOGON"
       /\ SendAndDisconnect(<< Msg("LOGOUT") >>)
       /\ Keep

\* _handle_validation_failure: the number is consumed only if it is the expected
\* one, and nothing queued is looked at.  A message without one consumes none.
ReceiveInvalid(m) ==
    /\ m.fault = "FIELDS" \/ (m.fault = "UNNUMBERED" /\ m.type # "LOGON")
    /\ nextIn' = IF m.seq = nextIn THEN nextIn + 1 ELSE nextIn
    /\ Send(<< Msg("REJECT") >>)
    /\ UNCHANGED << state, pending, resendRequested, replaying, draining, delivered >>

Checked(m) == m.fault = "NONE" /\ m.type # "LOGON"

IsReset(m) == m.type = "SEQUENCE_RESET" /\ ~m.flag

ReceiveCurrent(m) ==
    /\ Checked(m)
    /\ m.seq = nextIn \/ (m.seq > nextIn /\ IsReset(m))
    /\ Dispatch(m, pending)
    /\ draining' = TRUE
    /\ UNCHANGED resendRequested

\* _queue_and_request_resend: one request until the queue is empty again.
ReceiveHigh(m) ==
    /\ Checked(m)
    /\ m.seq > nextIn
    /\ ~IsReset(m)
    /\ pending' = {p \in pending : p.seq # m.seq} \cup {m}
    /\ resendRequested' = TRUE
    /\ \/ resendRequested /\ UNCHANGED << log, wire >>
       \/ /\ ~resendRequested
          /\ Send(<< [Msg("RESEND_REQUEST") EXCEPT !.lo = nextIn] >>)
    /\ UNCHANGED << state, nextIn, replaying, draining, delivered >>

ReceiveLow(m) ==
    /\ Checked(m)
    /\ m.seq < nextIn
    /\ \/ m.dup /\ UNCHANGED << state, log, wire, pending >>
       \/ ~m.dup /\ m.type = "LOGOUT" /\ SendAndDisconnect(<< >>)
       \/ /\ ~m.dup
          /\ m.type # "LOGOUT"
          /\ SendAndDisconnect(<< Msg("LOGOUT") >>)
    /\ Keep

Receive(m) ==
    /\ state = "ACTIVE"
    /\ ~Busy
    /\ testRequest' = IF m.fault = "FRAME" THEN testRequest ELSE FALSE
    /\ \/ ReceiveFatal(m)
       \/ ReceiveInvalid(m)
       \/ ReceiveCurrent(m)
       \/ ReceiveHigh(m)
       \/ ReceiveLow(m)

----------------------------------------------------------------------------
(* The loops *)

DrainNext ==
    /\ draining
    /\ ~replaying.on
    /\ \E m \in pending : m.seq = nextIn /\ Dispatch(m, pending \ {m})
    /\ UNCHANGED << resendRequested, testRequest, draining >>

DrainEnd ==
    /\ draining
    /\ ~replaying.on
    /\ \A m \in pending : m.seq # nextIn
    /\ draining' = FALSE
    /\ resendRequested' = (resendRequested /\ pending # {})
    /\ UNCHANGED << state, log, nextIn, pending, testRequest, replaying, wire,
                    delivered >>

Replayable(seq) == seq \in 1..Len(log) /\ log[seq] = "APP"

GapFill(seq, new) == [Msg("SEQUENCE_RESET") EXCEPT
                         !.seq = seq, !.dup = TRUE, !.flag = TRUE, !.hi = new]

Resent(seq) == [Msg("APP") EXCEPT !.seq = seq, !.dup = TRUE]

\* A run of administrative or absent messages grows.
ReplaySkip ==
    /\ replaying.on
    /\ replaying.at <= replaying.upper
    /\ ~Replayable(replaying.at)
    /\ replaying' = [replaying EXCEPT
                        !.at = @ + 1,
                        !.gap = IF @ = NoSeq THEN replaying.at ELSE @]
    /\ UNCHANGED << state, log, nextIn, pending, resendRequested, testRequest,
                    draining, wire, delivered >>

ReplayOne ==
    /\ replaying.on
    /\ replaying.at <= replaying.upper
    /\ Replayable(replaying.at)
    /\ Transmit(IF replaying.gap = NoSeq THEN << Resent(replaying.at) >>
                ELSE << GapFill(replaying.gap, replaying.at), Resent(replaying.at) >>)
    /\ replaying' = [replaying EXCEPT !.at = @ + 1, !.gap = NoSeq]
    /\ UNCHANGED << state, log, nextIn, pending, resendRequested, testRequest,
                    draining, delivered >>

\* Mutant: a run at the end is not filled.
ReplayEndUnfilled ==
    /\ replaying.on
    /\ replaying.at > replaying.upper
    /\ replaying' = NoReplay
    /\ UNCHANGED << state, log, nextIn, pending, resendRequested, testRequest,
                    draining, wire, delivered >>

\* A run at the end is filled up to the next outbound number.
ReplayEnd ==
    /\ replaying.on
    /\ replaying.at > replaying.upper
    /\ Transmit(IF replaying.gap = NoSeq THEN << >>
                ELSE << GapFill(replaying.gap, NextOut) >>)
    /\ replaying' = NoReplay
    /\ UNCHANGED << state, log, nextIn, pending, resendRequested, testRequest,
                    draining, delivered >>

Loop == DrainNext \/ DrainEnd \/ ReplaySkip \/ ReplayOne \/ ReplayEnd

----------------------------------------------------------------------------
(* Events that do not come from the peer's messages *)

\* The application reports something, whoever is connected.
SendReport ==
    /\ ~Busy
    /\ Send(<< Msg("APP") >>)
    /\ UNCHANGED << state, nextIn, pending, resendRequested, testRequest,
                    replaying, draining, delivered >>

\* The connection closes: end of stream, a failed write, or session.kill.  A
\* failed write closes it in the middle of a loop.
Detach ==
    /\ state = "ACTIVE"
    /\ SendAndDisconnect(<< >>)
    /\ UNCHANGED << nextIn, resendRequested, testRequest, replaying, draining,
                    delivered >>

\* tick, with what is due left open: a heartbeat may precede each of the others.
Beats == {<< >>, << Msg("HEARTBEAT") >>}

TickHeartbeat ==
    /\ state = "ACTIVE" /\ ~Busy
    /\ Send(<< Msg("HEARTBEAT") >>)
    /\ UNCHANGED << state, nextIn, pending, resendRequested, testRequest,
                    replaying, draining, delivered >>

TickProbe ==
    /\ state = "ACTIVE" /\ ~Busy
    /\ ~testRequest
    /\ \E beat \in Beats : Send(beat \o << Msg("TEST_REQUEST") >>)
    /\ testRequest' = TRUE
    /\ UNCHANGED << state, nextIn, pending, resendRequested, replaying, draining,
                    delivered >>

TickExpire ==
    /\ state = "ACTIVE" /\ ~Busy
    /\ testRequest
    /\ \E beat \in Beats : SendAndDisconnect(beat \o << Msg("LOGOUT") >>)
    /\ UNCHANGED << nextIn, resendRequested, testRequest, replaying, draining,
                    delivered >>

Tick == TickHeartbeat \/ TickProbe \/ TickExpire

\* session.reset, refused while connected.
OperatorReset ==
    /\ state = "DISCONNECTED" /\ ~Busy
    /\ log' = << >>
    /\ nextIn' = 1
    /\ delivered' = << >>
    /\ UNCHANGED << state, pending, resendRequested, testRequest, replaying,
                    draining, wire >>

\* The process has died and come back; what its store holds is said apart.
Reborn ==
    /\ state' = "DISCONNECTED"
    /\ pending' = {}
    /\ resendRequested' = FALSE
    /\ testRequest' = FALSE
    /\ replaying' = NoReplay
    /\ draining' = FALSE
    /\ wire' = << >>

\* It dies between two handlers, or between two turns of a loop.
Restart == Reborn /\ UNCHANGED << log, nextIn, delivered >>

\* It dies inside a handler, behind one of its writes to the store.  Most of what
\* can be found there is also left by a handler that ran to its end, or by reports
\* and a heartbeat, and then Restart; these two are not.  The number of m is
\* consumed (set_next_in) and nothing of m has been done.
ConsumesFirst(m) ==
    \/ Checked(m) /\ m.type # "SEQUENCE_RESET"
    \/ m.fault = "FIELDS" /\ ~draining

DieConsuming(m) ==
    /\ ~replaying.on
    /\ \/ draining /\ m \in pending
       \/ ~draining /\ state = "ACTIVE"
    /\ m.seq = nextIn
    /\ ConsumesFirst(m)
    /\ nextIn' = m.seq + 1
    /\ Reborn
    /\ UNCHANGED << log, delivered >>

\* A Logon has carried out its reset, and perhaps been answered, and its number is
\* not consumed.
DieAtLogon(m) ==
    /\ state = "DISCONNECTED" /\ ~Busy
    /\ Routed(m)
    /\ ~RefusedOutright(m)
    /\ log' \in {LogAfterReset(m), Stored(LogAfterReset(m), << Msg("LOGON") >>)}
    /\ nextIn' = NextInAfterReset(m)
    /\ delivered' = IF WantsReset(m) THEN << >> ELSE delivered
    /\ Reborn

DiesInside(m) == DieConsuming(m) \/ DieAtLogon(m)

----------------------------------------------------------------------------

Init ==
    /\ state = "DISCONNECTED"
    /\ log = << >>
    /\ nextIn = 1
    /\ pending = {}
    /\ resendRequested = FALSE
    /\ testRequest = FALSE
    /\ replaying = NoReplay
    /\ draining = FALSE
    /\ wire = << >>
    /\ delivered = << >>

\* An arbitrary peer, reading what it is sent before it sends more.
PeerReads ==
    /\ wire # << >>
    /\ wire' = << >>
    /\ UNCHANGED << state, log, nextIn, pending, resendRequested, testRequest,
                    replaying, draining, delivered >>

Arrival == wire = << >> /\ \E m \in Inbound : Connect(m) \/ Receive(m)

Outside ==
    \/ SendReport
    \/ Detach
    \/ Tick
    \/ OperatorReset
    \/ Restart
    \/ \E m \in Inbound : DiesInside(m)

Next ==
    \/ Loop
    \/ PeerReads
    \/ Len(log) < MaxOut /\ (Arrival \/ Outside)

Spec == Init /\ [][Next]_vars

----------------------------------------------------------------------------
(* Properties *)

LoopType == [at : Nat, upper : Nat \cup {NoSeq}, gap : Nat \cup {NoSeq}, on : BOOLEAN]

\* The type invariant of the session's state.
TypeOK ==
    /\ state \in {"DISCONNECTED", "ACTIVE"}
    /\ log \in Seq({"APP", "ADMIN"})
    /\ nextIn \in Nat \ {0}
    /\ pending \subseteq FixMessages
    /\ resendRequested \in BOOLEAN
    /\ testRequest \in BOOLEAN
    /\ replaying \in LoopType
    /\ draining \in BOOLEAN
    /\ wire \in Seq(FixMessages)
    /\ delivered \in Seq(Nat)

\* "nothing is silently dropped" and nothing is processed twice: the numbers the
\* application is handed since the last reset strictly increase, whatever mix of
\* duplicates, queued messages, gap fills, reconnections and restarts occurs, and
\* every one of them counts as received.
DeliveredOnceInOrder ==
    /\ \A i, j \in 1..Len(delivered) : i < j => delivered[i] < delivered[j]
    /\ \A i \in 1..Len(delivered) : delivered[i] < nextIn

\* An order is handed to the application only on a session that is logged on: none
\* is processed after the peer is gone, though later ones may sit in the queue.
NothingDeliveredWhileDisconnected ==
    [][delivered' # delivered /\ delivered' # << >> => state = "ACTIVE"]_vars

\* The messages a step puts on the wire.
NewOnWire == SubSeq(wire', Len(wire) + 1, Len(wire'))

\* "runs of them collapse into a single SequenceReset-GapFill, as do sequence
\* numbers with nothing stored" (replay): a gap fill tells the client to skip
\* numbers, so no application message may be among them.
GapFillsHideNoReport ==
    [][\A i \in 1..Len(NewOnWire) :
         LET m == NewOnWire[i] IN
         replaying.on /\ m.type = "SEQUENCE_RESET" =>
             \A seq \in m.seq..(m.hi - 1) : ~Replayable(seq)]_vars

=============================================================================
