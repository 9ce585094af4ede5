-------------------------- MODULE FixSessionProofs --------------------------
(***************************************************************************)
(* What holds of a FIX session for every peer: every set of inbound        *)
(* messages, every number of reports and every configuration; and of one   *)
(* whose peer is a conforming client, over any number of breaks.           *)
(***************************************************************************)
EXTENDS FixLink, SequenceTheorems, FiniteSetTheorems, FunctionTheorems, TLAPS

Kinds == {"APP", "ADMIN"}

----------------------------------------------------------------------------
(* What is sent *)

\* The messages the session makes are well formed.
LEMMA MsgType == ASSUME NEW type \in Types PROVE Msg(type) \in FixMessages
BY DEF Msg, FixMessages, Faults

\* Setting the fields of a Logon answer keeps it well formed.
LEMMA AnswerType ==
    ASSUME NEW a \in FixMessages, NEW b \in BOOLEAN, NEW n \in Nat
    PROVE  [a EXCEPT !.flag = b, !.lo = n] \in FixMessages
BY DEF FixMessages

\* So does setting those of a gap fill.
LEMMA GapFillType ==
    ASSUME NEW seq \in Nat, NEW new \in Nat
    PROVE  GapFill(seq, new) \in FixMessages /\ Resent(seq) \in FixMessages
BY DEF GapFill, Resent, Msg, FixMessages, Types, Admin, Faults

\* One iteration of replay keeps the loop's state well formed.
LEMMA LoopStepType ==
    ASSUME NEW r \in LoopType, NEW g \in Nat \cup {NoSeq}
    PROVE  [r EXCEPT !.at = @ + 1, !.gap = g] \in LoopType
<1>1. r.at + 1 \in Nat
  BY DEF LoopType
<1>2. [r EXCEPT !.at = r.at + 1] \in LoopType
  BY <1>1 DEF LoopType
<1>3. [[r EXCEPT !.at = r.at + 1] EXCEPT !.gap = g] \in LoopType
  BY <1>2 DEF LoopType
<1> QED
  BY <1>3

\* send stores one kind for every message.
LEMMA StoredType ==
    ASSUME NEW l \in Seq(Kinds), NEW msgs \in Seq(FixMessages)
    PROVE  Stored(l, msgs) \in Seq(Kinds)
<1> DEFINE ks == [i \in 1..Len(msgs) |-> Kind(msgs[i])]
<1>1. Len(msgs) \in Nat
  OBVIOUS
<1>2. \A i \in 1..Len(msgs) : Kind(msgs[i]) \in Kinds
  BY DEF Kind, Kinds
<1>3. ks \in [1..Len(msgs) -> Kinds]
  BY <1>2
<1>4. ks \in Seq(Kinds)
  BY <1>1, <1>3
<1> QED
  BY <1>4 DEF Stored

\* send numbers each message and leaves the rest of it alone.
LEMMA NumberedType ==
    ASSUME NEW l \in Seq(Kinds), NEW msgs \in Seq(FixMessages)
    PROVE  Numbered(l, msgs) \in Seq(FixMessages)
<1> DEFINE ks == [i \in 1..Len(msgs) |-> [msgs[i] EXCEPT !.seq = Len(l) + i]]
<1>1. Len(msgs) \in Nat /\ Len(l) \in Nat
  OBVIOUS
<1>2. \A i \in 1..Len(msgs) : [msgs[i] EXCEPT !.seq = Len(l) + i] \in FixMessages
  <2> SUFFICES ASSUME NEW i \in 1..Len(msgs)
               PROVE  [msgs[i] EXCEPT !.seq = Len(l) + i] \in FixMessages
    OBVIOUS
  <2>1. msgs[i] \in FixMessages
    OBVIOUS
  <2>2. Len(l) + i \in Nat
    BY <1>1
  <2> QED
    BY <2>1, <2>2 DEF FixMessages
<1>3. ks \in [1..Len(msgs) -> FixMessages]
  BY <1>2
<1>4. ks \in Seq(FixMessages)
  BY <1>1, <1>3
<1> QED
  BY <1>4 DEF Numbered

\* Any number of reports is a sequence of messages.
LEMMA ReportsType == ASSUME NEW n \in Nat PROVE AppReports(n) \in Seq(FixMessages)
<1>1. Msg("APP") \in FixMessages
  BY MsgType DEF Types
<1>2. [i \in 1..n |-> Msg("APP")] \in [1..n -> FixMessages]
  BY <1>1
<1> QED
  BY <1>2 DEF AppReports

\* One or two administrative messages are a sequence of messages.
LEMMA AdminSeqs ==
    /\ << >> \in Seq(FixMessages)
    /\ \A t \in Types : << Msg(t) >> \in Seq(FixMessages)
    /\ \A t, u \in Types : << Msg(t), Msg(u) >> \in Seq(FixMessages)
BY MsgType

\* So is what one tick sends.
LEMMA BeatTypes ==
    \A beat \in Beats : /\ beat \o << Msg("TEST_REQUEST") >> \in Seq(FixMessages)
                        /\ beat \o << Msg("LOGOUT") >> \in Seq(FixMessages)
<1>1. /\ Msg("HEARTBEAT") \in FixMessages
      /\ Msg("TEST_REQUEST") \in FixMessages
      /\ Msg("LOGOUT") \in FixMessages
  BY MsgType DEF Types, Admin
<1>2. /\ \A beat \in Beats : beat \in Seq(FixMessages)
      /\ << Msg("TEST_REQUEST") >> \in Seq(FixMessages)
      /\ << Msg("LOGOUT") >> \in Seq(FixMessages)
  BY <1>1 DEF Beats
<1> QED
  BY <1>2, ConcatProperties

\* send keeps the store and the wire well formed.
LEMMA SendType ==
    ASSUME TypeOK, NEW msgs \in Seq(FixMessages), Send(msgs)
    PROVE  log' \in Seq(Kinds) /\ wire' \in Seq(FixMessages)
<1>1. log \in Seq(Kinds) /\ wire \in Seq(FixMessages)
  BY DEF TypeOK, Kinds
<1>2. Stored(log, msgs) \in Seq(Kinds)
  BY <1>1, StoredType
<1>3. Numbered(log, msgs) \in Seq(FixMessages)
  BY <1>1, NumberedType
<1> QED
  BY <1>1, <1>2, <1>3 DEF Send

\* So does sending before a disconnect, with the reports of cancel on disconnect.
LEMMA DisconnectType ==
    ASSUME TypeOK, NEW msgs \in Seq(FixMessages), SendAndDisconnect(msgs)
    PROVE  /\ log' \in Seq(Kinds)
           /\ wire' \in Seq(FixMessages)
           /\ state' = "DISCONNECTED"
           /\ pending' = {}
<1>1. log \in Seq(Kinds) /\ wire \in Seq(FixMessages)
  BY DEF TypeOK, Kinds
<1>2. PICK n \in Reports :
        /\ log' = Stored(Stored(log, msgs), AppReports(n))
        /\ wire' = wire \o Numbered(log, msgs)
        /\ state' = "DISCONNECTED"
        /\ pending' = {}
  BY DEF SendAndDisconnect
<1>3. AppReports(n) \in Seq(FixMessages)
  BY ReportsType, ReportsAssumption
<1>4. Stored(log, msgs) \in Seq(Kinds)
  BY <1>1, StoredType
<1>5. Stored(Stored(log, msgs), AppReports(n)) \in Seq(Kinds)
  BY <1>3, <1>4, StoredType
<1>6. Numbered(log, msgs) \in Seq(FixMessages)
  BY <1>1, NumberedType
<1> QED
  BY <1>1, <1>2, <1>5, <1>6

----------------------------------------------------------------------------
(* The inductive invariant *)

\* detach empties the queue, so nothing waits while nobody is connected.
QueueOnlyWhileActive == state = "DISCONNECTED" => pending = {}

\* Every Logon the peer may send carries a MsgSeqNum.
LogonsNumbered ==
    \A m \in Inbound : m.type = "LOGON" => m.fault # "UNNUMBERED"

InOrder == LogonsNumbered => DeliveredOnceInOrder

IInv == TypeOK /\ InOrder /\ QueueOnlyWhileActive

\* A step that delivers nothing and does not move the expected number back keeps
\* the order of delivery.
LEMMA OrderKept ==
    ASSUME TypeOK, InOrder, delivered' = delivered,
           nextIn' \in Nat, nextIn' >= nextIn
    PROVE  InOrder'
<1>1. \A i \in 1..Len(delivered) : delivered[i] \in Nat
  BY DEF TypeOK
<1> QED
  BY <1>1 DEF InOrder, DeliveredOnceInOrder, TypeOK

\* Delivering the expected number keeps the order.
LEMMA OrderExtended ==
    ASSUME TypeOK, InOrder, delivered' = Append(delivered, nextIn),
           nextIn' = nextIn + 1
    PROVE  InOrder' /\ delivered' \in Seq(Nat)
<1>1. /\ delivered \in Seq(Nat)
      /\ nextIn \in Nat
      /\ \A i \in 1..Len(delivered) : delivered[i] \in Nat
  BY DEF TypeOK
<1>2. /\ delivered' \in Seq(Nat)
      /\ Len(delivered') = Len(delivered) + 1
      /\ delivered'[Len(delivered) + 1] = nextIn
      /\ \A i \in 1..Len(delivered) : delivered'[i] = delivered[i]
  BY <1>1, AppendProperties
<1>3. ASSUME DeliveredOnceInOrder, NEW i \in 1..Len(delivered')
      PROVE  delivered'[i] < nextIn'
  BY <1>1, <1>2, <1>3 DEF DeliveredOnceInOrder
<1>4. ASSUME DeliveredOnceInOrder,
             NEW i \in 1..Len(delivered'), NEW j \in 1..Len(delivered'), i < j
      PROVE  delivered'[i] < delivered'[j]
  <2>1. i \in 1..Len(delivered) /\ Len(delivered) \in Nat
    BY <1>1, <1>2, <1>4
  <2>2. CASE j \in 1..Len(delivered)
    BY <1>2, <1>4, <2>1, <2>2 DEF DeliveredOnceInOrder
  <2>3. CASE j = Len(delivered) + 1
    BY <1>2, <1>4, <2>1, <2>3 DEF DeliveredOnceInOrder
  <2>4. j \in Int /\ 1 <= j /\ j <= Len(delivered) + 1
    BY <1>2, <1>4
  <2> QED
    BY <2>1, <2>2, <2>3, <2>4
<1>5. DeliveredOnceInOrder => DeliveredOnceInOrder'
  BY <1>2, <1>3, <1>4 DEF DeliveredOnceInOrder
<1> QED
  BY <1>2, <1>5 DEF InOrder

\* A reset starts a new order of delivery.
LEMMA OrderReset ==
    ASSUME delivered' = << >>
    PROVE  InOrder' /\ delivered' \in Seq(Nat)
BY DEF InOrder, DeliveredOnceInOrder

\* What every dispatch of an in-sequence message leaves behind.
DispatchPost ==
    /\ state' \in {"DISCONNECTED", "ACTIVE"}
    /\ log' \in Seq(Kinds)
    /\ nextIn' \in Nat \ {0}
    /\ pending' \subseteq FixMessages
    /\ replaying' \in LoopType
    /\ wire' \in Seq(FixMessages)
    /\ delivered' \in Seq(Nat)
    /\ InOrder'
    /\ QueueOnlyWhileActive'

\* Dispatching keeps the invariant, whatever the message.
LEMMA DispatchKeeps ==
    ASSUME IInv, state = "ACTIVE",
           NEW m \in FixMessages, NEW rest \in SUBSET FixMessages,
           m.seq >= nextIn, m.seq = nextIn \/ m.type = "SEQUENCE_RESET",
           Dispatch(m, rest)
    PROVE  DispatchPost
<1>1. /\ TypeOK /\ InOrder
      /\ m.seq \in Nat /\ m.lo \in Nat /\ m.hi \in Nat
      /\ nextIn \in Nat \ {0}
      /\ log \in Seq(Kinds) /\ wire \in Seq(FixMessages)
      /\ delivered \in Seq(Nat) /\ replaying \in LoopType
  BY DEF IInv, TypeOK, FixMessages, Kinds
<1>2. CASE DispatchQuiet(m, rest)
  <2>1. nextIn' = nextIn + 1 /\ delivered' = delivered
    BY <1>1, <1>2 DEF DispatchQuiet
  <2>2. InOrder'
    BY <1>1, <2>1, OrderKept
  <2> QED
    BY <1>1, <1>2, <2>1, <2>2 DEF DispatchQuiet, DispatchPost, QueueOnlyWhileActive
<1>3. CASE DispatchTestRequest(m, rest)
  <2>1. nextIn' = nextIn + 1 /\ delivered' = delivered
    BY <1>1, <1>3 DEF DispatchTestRequest
  <2>2. InOrder'
    BY <1>1, <2>1, OrderKept
  <2>3. log' \in Seq(Kinds) /\ wire' \in Seq(FixMessages)
    BY <1>1, <1>3, SendType, AdminSeqs DEF DispatchTestRequest, Types, Admin
  <2> QED
    BY <1>1, <1>3, <2>1, <2>2, <2>3
       DEF DispatchTestRequest, DispatchPost, QueueOnlyWhileActive
<1>4. CASE DispatchResendRequest(m, rest)
  <2>1. nextIn' = nextIn + 1 /\ delivered' = delivered
    BY <1>1, <1>4 DEF DispatchResendRequest
  <2>2. InOrder'
    BY <1>1, <2>1, OrderKept
  <2>3. replaying' \in LoopType
    BY <1>1, <1>4 DEF DispatchResendRequest, ReplayRange, LoopType, NextOut, NoSeq
  <2> QED
    BY <1>1, <1>4, <2>1, <2>2, <2>3
       DEF DispatchResendRequest, DispatchPost, QueueOnlyWhileActive
<1>5. CASE DispatchSequenceReset(m, rest)
  <2>1. nextIn' \in Nat \ {0} /\ nextIn' >= nextIn /\ delivered' = delivered
    BY <1>1, <1>5 DEF DispatchSequenceReset
  <2>2. InOrder'
    BY <1>1, <2>1, OrderKept
  <2>3. log' \in Seq(Kinds) /\ wire' \in Seq(FixMessages)
    BY <1>1, <1>5, SendType, AdminSeqs DEF DispatchSequenceReset, Types, Admin
  <2> QED
    BY <1>1, <1>5, <2>1, <2>2, <2>3
       DEF DispatchSequenceReset, DispatchPost, QueueOnlyWhileActive
<1>6. CASE DispatchLogout(m)
  <2>1. nextIn' = nextIn + 1 /\ delivered' = delivered
    BY <1>1, <1>6 DEF DispatchLogout
  <2>2. InOrder'
    BY <1>1, <2>1, OrderKept
  <2>3. /\ log' \in Seq(Kinds) /\ wire' \in Seq(FixMessages)
        /\ state' = "DISCONNECTED" /\ pending' = {}
    BY <1>1, <1>6, DisconnectType, AdminSeqs DEF DispatchLogout, Types, Admin
  <2> QED
    BY <1>1, <1>6, <2>1, <2>2, <2>3
       DEF DispatchLogout, DispatchPost, QueueOnlyWhileActive
<1>7. CASE DispatchApp(m, rest)
  <2>1. nextIn' = nextIn + 1 /\ delivered' = Append(delivered, nextIn)
    BY <1>1, <1>7 DEF DispatchApp
  <2>2. InOrder' /\ delivered' \in Seq(Nat)
    BY <1>1, <2>1, OrderExtended
  <2>3. \A n \in Reports : AppReports(n) \in Seq(FixMessages)
    BY ReportsType, ReportsAssumption
  <2>4. log' \in Seq(Kinds) /\ wire' \in Seq(FixMessages)
    BY <1>1, <1>7, <2>3, SendType, AdminSeqs DEF DispatchApp, Types, Admin
  <2> QED
    BY <1>1, <1>7, <2>1, <2>2, <2>4
       DEF DispatchApp, DispatchPost, QueueOnlyWhileActive
<1> QED
  BY <1>2, <1>3, <1>4, <1>5, <1>6, <1>7 DEF Dispatch

----------------------------------------------------------------------------
(* The steps *)

\* A connection's first message keeps the invariant: refused, nothing of it is
\* kept; accepted, its number is consumed or queued.
LEMMA ConnectKeeps == ASSUME IInv, NEW m \in Inbound, Connect(m) PROVE IInv'
<1>1. /\ TypeOK /\ InOrder /\ QueueOnlyWhileActive
      /\ m \in FixMessages
      /\ m.seq \in Nat /\ m.lo \in Nat /\ m.flag \in BOOLEAN
      /\ log \in Seq(Kinds) /\ nextIn \in Nat \ {0}
  BY InboundAssumption DEF IInv, TypeOK, FixMessages, Kinds
<1>2. /\ LogAfterReset(m) \in Seq(Kinds)
      /\ NextInAfterReset(m) \in Nat \ {0}
      /\ WantsReset(m) \in BOOLEAN
      /\ ~WantsReset(m) => NextInAfterReset(m) = nextIn
  BY <1>1, ConfigAssumption DEF LogAfterReset, NextInAfterReset, WantsReset
<1>3. state = "DISCONNECTED" /\ pending = {} /\ testRequest' = FALSE
  BY <1>1 DEF Connect, QueueOnlyWhileActive
<1>4. ASSUME NEW l \in Seq(Kinds), NEW expected \in Nat \ {0}, Refuse(l, expected)
      PROVE  /\ log' \in Seq(Kinds) /\ wire' \in Seq(FixMessages)
             /\ nextIn' = expected
             /\ resendRequested' = FALSE
             /\ UNCHANGED << state, pending, replaying, draining >>
  <2>1. PICK n \in Reports :
          /\ log' = Stored(Stored(l, << Msg("LOGOUT") >>), AppReports(n))
          /\ wire' = Numbered(l, << Msg("LOGOUT") >>)
          /\ nextIn' = expected
          /\ resendRequested' = FALSE
          /\ UNCHANGED << state, pending, replaying, draining >>
    BY <1>4 DEF Refuse
  <2>2. << Msg("LOGOUT") >> \in Seq(FixMessages)
    BY AdminSeqs DEF Types, Admin
  <2>3. AppReports(n) \in Seq(FixMessages)
    BY ReportsType, ReportsAssumption
  <2>4. Stored(l, << Msg("LOGOUT") >>) \in Seq(Kinds)
    BY <2>2, StoredType
  <2>5. Stored(Stored(l, << Msg("LOGOUT") >>), AppReports(n)) \in Seq(Kinds)
    BY <2>3, <2>4, StoredType
  <2>6. Numbered(l, << Msg("LOGOUT") >>) \in Seq(FixMessages)
    BY <2>2, NumberedType
  <2> QED
    BY <2>1, <2>5, <2>6
<1>5. CASE RefusedOutright(m) /\ Refuse(log, nextIn) /\ UNCHANGED delivered
  <2>1. /\ log' \in Seq(Kinds) /\ wire' \in Seq(FixMessages)
        /\ nextIn' = nextIn /\ resendRequested' = FALSE
        /\ UNCHANGED << state, pending, replaying, draining >>
    BY <1>1, <1>4, <1>5
  <2>2. InOrder'
    BY <1>1, <1>5, <2>1, OrderKept
  <2> QED
    BY <1>1, <1>3, <1>5, <2>1, <2>2 DEF IInv, TypeOK, QueueOnlyWhileActive, Kinds
<1>6. ASSUME delivered' = IF WantsReset(m) THEN << >> ELSE delivered,
             nextIn' \in Nat \ {0},
             LogonsNumbered => nextIn' >= NextInAfterReset(m)
      PROVE  InOrder' /\ delivered' \in Seq(Nat)
  <2>1. CASE WantsReset(m)
    BY <1>6, <2>1, OrderReset
  <2>2. CASE ~WantsReset(m)
    <3>1. /\ LogonsNumbered => nextIn' >= nextIn
          /\ delivered' = delivered
      BY <1>2, <1>6, <2>2
    <3> QED
      BY <1>1, <1>6, <3>1, OrderKept DEF InOrder, TypeOK
  <2> QED
    BY <2>1, <2>2
<1>7. CASE /\ Refuse(LogAfterReset(m), NextInAfterReset(m))
           /\ delivered' = IF WantsReset(m) THEN << >> ELSE delivered
  <2>1. /\ log' \in Seq(Kinds) /\ wire' \in Seq(FixMessages)
        /\ nextIn' = NextInAfterReset(m) /\ resendRequested' = FALSE
        /\ UNCHANGED << state, pending, replaying, draining >>
    BY <1>2, <1>4, <1>7
  <2>2. InOrder' /\ delivered' \in Seq(Nat)
    BY <1>2, <1>6, <1>7, <2>1
  <2> QED
    BY <1>1, <1>2, <1>3, <2>1, <2>2 DEF IInv, TypeOK, QueueOnlyWhileActive, Kinds
<1>8. CASE ConnectAccepted(m)
  <2> DEFINE expected == NextInAfterReset(m)
             answer   == [Msg("LOGON") EXCEPT
                             !.flag = WantsReset(m),
                             !.lo = IF NextExpected
                                    THEN ExpectedFromClient(m, expected) ELSE 0]
             request  == [Msg("RESEND_REQUEST") EXCEPT !.lo = expected]
             inOrder  == m.seq = expected \/ m.fault = "UNNUMBERED"
             msgs     == LogonAnswer(answer, request, inOrder)
  <2>1. PICK n \in Greetings :
          /\ log' = Stored(LogAfterReset(m), msgs \o AppReports(n))
          /\ wire' = Numbered(LogAfterReset(m), msgs \o AppReports(n))
    BY <1>8 DEF ConnectAccepted
  <2>2. answer \in FixMessages /\ request \in FixMessages
    <3>1. ExpectedFromClient(m, expected) \in Nat /\ expected \in Nat
      BY <1>1, <1>2 DEF ExpectedFromClient
    <3>2. Msg("LOGON") \in FixMessages /\ Msg("RESEND_REQUEST") \in FixMessages
      BY MsgType DEF Types, Admin
    <3>3. answer \in FixMessages
      BY <1>2, <3>1, <3>2, AnswerType
    <3> QED
      BY <3>1, <3>2, <3>3 DEF FixMessages
  <2>3. AppReports(n) \in Seq(FixMessages)
    BY ReportsType, ReportsAssumption DEF Greetings
  <2>4. msgs \in Seq(FixMessages)
    BY <2>2 DEF LogonAnswer
  <2>5. msgs \o AppReports(n) \in Seq(FixMessages)
    BY <2>3, <2>4
  <2>6. log' \in Seq(Kinds) /\ wire' \in Seq(FixMessages)
    BY <1>2, <2>1, <2>5, StoredType, NumberedType
  <2>7. /\ state' = "ACTIVE"
        /\ nextIn' \in Nat \ {0}
        /\ LogonsNumbered => nextIn' >= NextInAfterReset(m)
        /\ pending' \subseteq FixMessages
        /\ resendRequested' \in BOOLEAN
        /\ delivered' = IF WantsReset(m) THEN << >> ELSE delivered
        /\ draining' = draining
    BY <1>1, <1>2, <1>8, InboundAssumption
       DEF ConnectAccepted, LogonsNumbered, RefusedOutright, RefusedAfterReset
  <2>8. replaying' \in LoopType
    BY <1>1, <1>2, <1>8 DEF ConnectAccepted, LoopType, NoReplay, NoSeq
  <2>9. InOrder' /\ delivered' \in Seq(Nat)
    BY <1>6, <2>7
  <2> QED
    BY <1>1, <1>3, <2>6, <2>7, <2>8, <2>9
       DEF IInv, TypeOK, QueueOnlyWhileActive, Kinds
<1> QED
  BY <1>5, <1>7, <1>8 DEF Connect, ConnectRefused

\* Whatever a connected peer sends keeps the invariant.
LEMMA ReceiveKeeps == ASSUME IInv, NEW m \in Inbound, Receive(m) PROVE IInv'
<1>1. /\ TypeOK /\ InOrder /\ QueueOnlyWhileActive
      /\ state = "ACTIVE"
      /\ m \in FixMessages
      /\ m.seq \in Nat
      /\ testRequest' \in BOOLEAN
      /\ nextIn \in Nat \ {0}
  BY InboundAssumption DEF IInv, TypeOK, FixMessages, Receive
<1>2. ASSUME NEW msgs \in Seq(FixMessages), SendAndDisconnect(msgs), Keep
      PROVE  IInv'
  <2>1. /\ log' \in Seq(Kinds) /\ wire' \in Seq(FixMessages)
        /\ state' = "DISCONNECTED" /\ pending' = {}
    BY <1>1, <1>2, DisconnectType
  <2>2. InOrder'
    BY <1>1, <1>2, OrderKept DEF Keep
  <2> QED
    BY <1>1, <1>2, <2>1, <2>2 DEF Keep, IInv, TypeOK, QueueOnlyWhileActive, Kinds
<1>3. /\ << >> \in Seq(FixMessages)
      /\ << Msg("LOGOUT") >> \in Seq(FixMessages)
      /\ << Msg("REJECT"), Msg("LOGOUT") >> \in Seq(FixMessages)
      /\ << Msg("REJECT") >> \in Seq(FixMessages)
  BY AdminSeqs DEF Types, Admin
<1>4. CASE ReceiveFatal(m)
  BY <1>2, <1>3, <1>4 DEF ReceiveFatal
<1>5. CASE ReceiveInvalid(m)
  <2>1. log' \in Seq(Kinds) /\ wire' \in Seq(FixMessages)
    BY <1>1, <1>3, <1>5, SendType DEF ReceiveInvalid
  <2>2. nextIn' \in Nat \ {0} /\ nextIn' >= nextIn /\ delivered' = delivered
    BY <1>1, <1>5 DEF ReceiveInvalid
  <2>3. InOrder'
    BY <1>1, <2>2, OrderKept
  <2> QED
    BY <1>1, <1>5, <2>1, <2>2, <2>3
       DEF ReceiveInvalid, IInv, TypeOK, QueueOnlyWhileActive, Kinds
<1>6. CASE ReceiveCurrent(m)
  <2>1. /\ pending \in SUBSET FixMessages
        /\ m.seq >= nextIn
        /\ m.seq = nextIn \/ m.type = "SEQUENCE_RESET"
        /\ Dispatch(m, pending)
    BY <1>1, <1>6 DEF ReceiveCurrent, IsReset, TypeOK
  <2>2. DispatchPost
    BY <1>1, <2>1, DispatchKeeps
  <2> QED
    BY <1>1, <1>6, <2>2 DEF ReceiveCurrent, DispatchPost, IInv, TypeOK, Kinds
<1>7. CASE ReceiveHigh(m)
  <2>1. log' \in Seq(Kinds) /\ wire' \in Seq(FixMessages)
    <3>1. Msg("RESEND_REQUEST") \in FixMessages
      BY MsgType DEF Types, Admin
    <3>2. [Msg("RESEND_REQUEST") EXCEPT !.lo = nextIn] \in FixMessages
      BY <1>1, <3>1 DEF FixMessages
    <3>3. << [Msg("RESEND_REQUEST") EXCEPT !.lo = nextIn] >> \in Seq(FixMessages)
      BY <3>2
    <3>4. CASE UNCHANGED << log, wire >>
      BY <1>1, <3>4 DEF TypeOK, Kinds
    <3>5. CASE Send(<< [Msg("RESEND_REQUEST") EXCEPT !.lo = nextIn] >>)
      BY <1>1, <3>3, <3>5, SendType
    <3> QED
      BY <1>7, <3>4, <3>5 DEF ReceiveHigh
  <2>2. InOrder'
    BY <1>1, <1>7, OrderKept DEF ReceiveHigh
  <2> QED
    BY <1>1, <1>7, <2>1, <2>2
       DEF ReceiveHigh, IInv, TypeOK, QueueOnlyWhileActive, Kinds
<1>8. CASE ReceiveLow(m)
  <2>1. CASE UNCHANGED << state, log, wire, pending >>
    <3>1. InOrder'
      BY <1>1, <1>8, OrderKept DEF ReceiveLow, Keep
    <3> QED
      BY <1>1, <1>8, <2>1, <3>1
         DEF ReceiveLow, Keep, IInv, TypeOK, QueueOnlyWhileActive
  <2> QED
    BY <1>2, <1>3, <1>8, <2>1 DEF ReceiveLow
<1> QED
  BY <1>4, <1>5, <1>6, <1>7, <1>8 DEF Receive

\* Every iteration of the loops keeps the invariant.
LEMMA LoopKeeps == ASSUME IInv, Loop PROVE IInv'
<1>1. /\ TypeOK /\ InOrder /\ QueueOnlyWhileActive
      /\ nextIn \in Nat \ {0} /\ log \in Seq(Kinds) /\ wire \in Seq(FixMessages)
      /\ replaying \in LoopType
      /\ pending \in SUBSET FixMessages
  BY DEF IInv, TypeOK, Kinds
<1>2. CASE DrainNext
  <2>1. PICK m \in pending : m.seq = nextIn /\ Dispatch(m, pending \ {m})
    BY <1>2 DEF DrainNext
  <2>2. m \in FixMessages /\ pending \ {m} \in SUBSET FixMessages
    BY <1>1
  <2>3. state = "ACTIVE"
    BY <1>1, <2>1 DEF TypeOK, QueueOnlyWhileActive
  <2>4. DispatchPost
    BY <1>1, <2>1, <2>2, <2>3, DispatchKeeps
  <2> QED
    BY <1>1, <1>2, <2>4 DEF DrainNext, DispatchPost, IInv, TypeOK, Kinds
<1>3. CASE DrainEnd
  <2>1. InOrder'
    BY <1>1, <1>3, OrderKept DEF DrainEnd
  <2> QED
    BY <1>1, <1>3, <2>1 DEF DrainEnd, IInv, TypeOK, QueueOnlyWhileActive
<1>4. ASSUME replaying' \in LoopType, wire' \in Seq(FixMessages),
             UNCHANGED << state, log, nextIn, pending, resendRequested, testRequest,
                          draining, delivered >>
      PROVE  IInv'
  <2>1. InOrder'
    BY <1>1, <1>4, OrderKept
  <2> QED
    BY <1>1, <1>4, <2>1 DEF IInv, TypeOK, QueueOnlyWhileActive
<1>5. CASE ReplaySkip
  <2>1. /\ replaying.at \in Nat \cup {NoSeq}
        /\ replaying.gap \in Nat \cup {NoSeq}
    BY <1>1 DEF LoopType
  <2>2. replaying' = [replaying EXCEPT
                        !.at = @ + 1,
                        !.gap = IF replaying.gap = NoSeq THEN replaying.at
                                ELSE replaying.gap]
    BY <1>1, <1>5 DEF ReplaySkip, LoopType
  <2>3. replaying' \in LoopType
    BY <1>1, <2>1, <2>2, LoopStepType
  <2> QED
    BY <1>1, <1>4, <1>5, <2>3 DEF ReplaySkip
<1>6. CASE ReplayOne
  <2>1. replaying.at \in Nat /\ (replaying.gap # NoSeq => replaying.gap \in Nat)
    BY <1>1 DEF LoopType
  <2>2. replaying' \in LoopType
    BY <1>1, <1>6, LoopStepType DEF ReplayOne
  <2>3. wire' \in Seq(FixMessages)
    <3>1. Resent(replaying.at) \in FixMessages
      BY <2>1, GapFillType
    <3>2. replaying.gap # NoSeq => GapFill(replaying.gap, replaying.at) \in FixMessages
      BY <2>1, GapFillType
    <3> QED
      BY <1>1, <1>6, <3>1, <3>2 DEF ReplayOne, Transmit
  <2> QED
    BY <1>4, <1>6, <2>2, <2>3 DEF ReplayOne
<1>7. CASE ReplayEnd
  <2>1. replaying' \in LoopType
    BY <1>7 DEF ReplayEnd, NoReplay, LoopType, NoSeq
  <2>2. wire' \in Seq(FixMessages)
    <3>1. NextOut \in Nat /\ (replaying.gap # NoSeq => replaying.gap \in Nat)
      BY <1>1 DEF LoopType, NextOut
    <3>2. replaying.gap # NoSeq => GapFill(replaying.gap, NextOut) \in FixMessages
      BY <3>1, GapFillType
    <3> QED
      BY <1>1, <1>7, <3>2 DEF ReplayEnd, Transmit
  <2> QED
    BY <1>4, <1>7, <2>1, <2>2 DEF ReplayEnd
<1> QED
  BY <1>2, <1>3, <1>5, <1>6, <1>7 DEF Loop

\* What a process finds in its store, wherever in a handler the last one died.
LEMMA RebornKeeps ==
    ASSUME IInv, Reborn, log' \in Seq(Kinds), nextIn' \in Nat \ {0},
           InOrder', delivered' \in Seq(Nat)
    PROVE  IInv'
<1>1. replaying' \in LoopType /\ wire' \in Seq(FixMessages)
  BY DEF Reborn, NoReplay, LoopType, NoSeq
<1> QED
  BY <1>1 DEF Reborn, IInv, TypeOK, QueueOnlyWhileActive, Kinds

\* A message handled when the process dies may have had its number consumed, a
\* Logon its reset carried out.
LEMMA DiesInsideKeeps == ASSUME IInv, NEW m, DiesInside(m) PROVE IInv'
<1>1. /\ TypeOK /\ InOrder /\ nextIn \in Nat \ {0}
      /\ log \in Seq(Kinds) /\ delivered \in Seq(Nat)
  BY DEF IInv, TypeOK, Kinds
<1>2. CASE DieConsuming(m)
  <2>1. Reborn /\ nextIn' = nextIn + 1 /\ UNCHANGED << log, delivered >>
    BY <1>2 DEF DieConsuming
  <2>2. InOrder'
    BY <1>1, <2>1, OrderKept
  <2> QED
    BY <1>1, <2>1, <2>2, RebornKeeps
<1>3. CASE DieAtLogon(m)
  <2> DEFINE l == LogAfterReset(m)
  <2>1. /\ Reborn
        /\ log' \in {l, Stored(l, << Msg("LOGON") >>)}
        /\ nextIn' = IF WantsReset(m) THEN 1 ELSE nextIn
        /\ delivered' = IF WantsReset(m) THEN << >> ELSE delivered
    BY <1>3 DEF DieAtLogon, NextInAfterReset
  <2>2. l \in Seq(Kinds)
    BY <1>1 DEF LogAfterReset
  <2>3. << Msg("LOGON") >> \in Seq(FixMessages)
    BY AdminSeqs DEF Types, Admin
  <2> HIDE DEF l
  <2>4. log' \in Seq(Kinds)
    BY <2>1, <2>2, <2>3, StoredType
  <2>5. InOrder' /\ delivered' \in Seq(Nat)
    <3>1. CASE WantsReset(m)
      BY <2>1, <3>1, OrderReset
    <3>2. CASE ~WantsReset(m)
      BY <1>1, <2>1, <3>2, OrderKept
    <3> QED
      BY <3>1, <3>2
  <2> QED
    BY <1>1, <2>1, <2>4, <2>5, RebornKeeps
<1> QED
  BY <1>2, <1>3 DEF DiesInside

\* What the session, its operator and its process do of their own accord keeps
\* the invariant.
LEMMA OutsideKeeps == ASSUME IInv, Outside PROVE IInv'
<1>1. /\ TypeOK /\ InOrder /\ QueueOnlyWhileActive
      /\ nextIn \in Nat \ {0}
  BY DEF IInv, TypeOK
<1>2. /\ << >> \in Seq(FixMessages)
      /\ \A t \in Types : << Msg(t) >> \in Seq(FixMessages)
      /\ {"APP", "HEARTBEAT", "TEST_REQUEST", "LOGOUT"} \subseteq Types
  BY AdminSeqs DEF Types, Admin
<1>3. ASSUME NEW msgs \in Seq(FixMessages), Send(msgs), testRequest' \in BOOLEAN,
             UNCHANGED << state, nextIn, pending, resendRequested, replaying,
                          draining, delivered >>
      PROVE  IInv'
  <2>1. log' \in Seq(Kinds) /\ wire' \in Seq(FixMessages)
    BY <1>1, <1>3, SendType
  <2>2. InOrder'
    BY <1>1, <1>3, OrderKept
  <2> QED
    BY <1>1, <1>3, <2>1, <2>2 DEF IInv, TypeOK, QueueOnlyWhileActive, Kinds
<1>4. ASSUME NEW msgs \in Seq(FixMessages), SendAndDisconnect(msgs),
             UNCHANGED << nextIn, resendRequested, testRequest, replaying, draining,
                          delivered >>
      PROVE  IInv'
  <2>1. /\ log' \in Seq(Kinds) /\ wire' \in Seq(FixMessages)
        /\ state' = "DISCONNECTED" /\ pending' = {}
    BY <1>1, <1>4, DisconnectType
  <2>2. InOrder'
    BY <1>1, <1>4, OrderKept
  <2> QED
    BY <1>1, <1>4, <2>1, <2>2 DEF IInv, TypeOK, QueueOnlyWhileActive, Kinds
<1>5. CASE SendReport
  BY <1>1, <1>2, <1>3, <1>5 DEF SendReport, TypeOK
<1>6. CASE Detach
  BY <1>2, <1>4, <1>6 DEF Detach
<1>7. CASE TickHeartbeat
  BY <1>1, <1>2, <1>3, <1>7 DEF TickHeartbeat, TypeOK
<1>8. CASE TickProbe
  BY <1>3, <1>8, BeatTypes DEF TickProbe
<1>9. CASE TickExpire
  BY <1>4, <1>9, BeatTypes DEF TickExpire
<1>10. CASE OperatorReset
  <2>1. InOrder' /\ delivered' \in Seq(Nat)
    BY <1>10, OrderReset DEF OperatorReset
  <2>2. log' \in Seq({"APP", "ADMIN"})
    BY <1>10 DEF OperatorReset
  <2> QED
    BY <1>1, <1>10, <2>1, <2>2 DEF OperatorReset, IInv, TypeOK, QueueOnlyWhileActive
<1>11. CASE Restart
  <2>1. InOrder'
    BY <1>1, <1>11, OrderKept DEF Restart
  <2>2. log' \in Seq(Kinds) /\ delivered' \in Seq(Nat)
    BY <1>1, <1>11 DEF Restart, TypeOK, Kinds
  <2> QED
    BY <1>1, <1>11, <2>1, <2>2, RebornKeeps DEF Restart
<1>12. CASE \E m \in Inbound : DiesInside(m)
  BY <1>12, DiesInsideKeeps
<1> QED
  BY <1>5, <1>6, <1>7, <1>8, <1>9, <1>10, <1>11, <1>12 DEF Outside, Tick

\* The invariant holds of a new session.
LEMMA InitInv == Init => IInv
<1> SUFFICES ASSUME Init PROVE IInv
  OBVIOUS
<1>1. /\ log \in Seq({"APP", "ADMIN"})
      /\ wire \in Seq(FixMessages)
      /\ delivered \in Seq(Nat)
  BY DEF Init
<1>2. replaying \in LoopType
  BY DEF Init, NoReplay, LoopType, NoSeq
<1>3. InOrder
  BY DEF Init, InOrder, DeliveredOnceInOrder
<1>4. nextIn \in Nat \ {0}
  BY DEF Init
<1> QED
  BY <1>1, <1>2, <1>3, <1>4 DEF Init, IInv, TypeOK, QueueOnlyWhileActive

\* Every step keeps the invariant.
LEMMA NextInv == IInv /\ [Next]_vars => IInv'
<1> SUFFICES ASSUME IInv, [Next]_vars PROVE IInv'
  OBVIOUS
<1>1. CASE Loop
  BY <1>1, LoopKeeps
<1>2. CASE PeerReads
  <2>1. InOrder'
    BY <1>2, OrderKept DEF PeerReads, IInv, TypeOK
  <2>2. wire' \in Seq(FixMessages)
    BY <1>2 DEF PeerReads
  <2> QED
    BY <1>2, <2>1, <2>2 DEF PeerReads, IInv, TypeOK, QueueOnlyWhileActive
<1>3. CASE Arrival
  BY <1>3, ConnectKeeps, ReceiveKeeps DEF Arrival
<1>4. CASE Outside
  BY <1>4, OutsideKeeps
<1>5. CASE UNCHANGED vars
  BY <1>5 DEF vars, IInv, TypeOK, InOrder, DeliveredOnceInOrder, QueueOnlyWhileActive
<1> QED
  BY <1>1, <1>2, <1>3, <1>4, <1>5 DEF Next

----------------------------------------------------------------------------
(* The results *)

\* The inductive invariant, for every peer.
THEOREM SessionInvariant == Spec => []IInv
BY InitInv, NextInv, PTL DEF Spec

\* The session's state stays well formed, whatever the peer sends.
THEOREM SessionTypeCorrect == Spec => []TypeOK
<1>1. IInv => TypeOK
  BY DEF IInv
<1> QED
  BY <1>1, SessionInvariant, PTL

\* No application message is processed twice or out of order: over duplicates,
\* gaps, queued messages, gap fills, reconnections and restarts the numbers handed
\* to the application strictly increase until a reset, provided every Logon is
\* numbered: one without MsgSeqNum counts as number 0 and takes the expected number
\* back to 1.
THEOREM OrdersProcessedOnce == Spec /\ LogonsNumbered => []DeliveredOnceInOrder
<1> DEFINE Ordered == IInv /\ LogonsNumbered
<1>1. Init /\ LogonsNumbered => Ordered
  BY InitInv
<1>2. Ordered /\ [Next]_vars => Ordered'
  BY NextInv DEF LogonsNumbered
<1>3. Ordered => DeliveredOnceInOrder
  BY DEF IInv, InOrder
<1> QED
  BY <1>1, <1>2, <1>3, PTL DEF Spec

\* Nothing is handed to the application after its peer is gone, because detach
\* empties the queue that _drain_pending reads.
THEOREM NoDeliveryAfterDetach == Spec => NothingDeliveredWhileDisconnected
<1>1. IInv /\ [Next]_vars =>
          [delivered' # delivered /\ delivered' # << >> => state = "ACTIVE"]_vars
  <2> SUFFICES ASSUME IInv, Next, delivered' # delivered, delivered' # << >>
               PROVE  state = "ACTIVE"
    BY DEF vars
  <2>1. CASE Loop
    <3>1. CASE DrainNext
      BY <3>1 DEF DrainNext, IInv, TypeOK, QueueOnlyWhileActive
    <3> QED
      BY <2>1, <3>1 DEF Loop, DrainEnd, ReplaySkip, ReplayOne, ReplayEnd
  <2>2. CASE PeerReads
    BY <2>2 DEF PeerReads
  <2>3. CASE Arrival
    <3>1. PICK m \in Inbound : Connect(m) \/ Receive(m)
      BY <2>3 DEF Arrival
    <3>2. CASE Connect(m)
      BY <3>2 DEF Connect, ConnectRefused, ConnectAccepted
    <3> QED
      BY <3>1, <3>2 DEF Receive
  <2>4. CASE Outside
    BY <2>4 DEF Outside, SendReport, Detach, Tick, TickHeartbeat, TickProbe,
                TickExpire, OperatorReset, Restart, DiesInside, DieConsuming,
                DieAtLogon
  <2> QED
    BY <2>1, <2>2, <2>3, <2>4 DEF Next
<1> QED
  BY <1>1, SessionInvariant, PTL DEF Spec, NothingDeliveredWhileDisconnected

----------------------------------------------------------------------------
(* Replay *)

\* Every ResendRequest the peer may send is open-ended, which is how the session
\* itself asks.
OpenEnded == \A m \in Inbound : m.type = "RESEND_REQUEST" => m.hi \in Infinity

\* While a connected session replays, the loop ends at the last number it has
\* used, and the run it would fill holds no application message.
ReplayInv ==
    /\ IInv
    /\ OpenEnded
    /\ pending \subseteq Inbound
    /\ replaying.on /\ state = "ACTIVE" =>
         /\ replaying.upper = Len(log)
         /\ replaying.gap # NoSeq =>
              \A seq \in replaying.gap..(replaying.at - 1) : ~Replayable(seq)

\* What is appended to the wire is what a step put on it.
LEMMA AppendedToWire ==
    ASSUME NEW S, NEW w \in Seq(S), NEW t \in Seq(S),
           NEW i \in 1..Len(SubSeq(w \o t, Len(w) + 1, Len(w \o t)))
    PROVE  /\ i \in 1..Len(t)
           /\ SubSeq(w \o t, Len(w) + 1, Len(w \o t))[i] = t[i]
<1>1. /\ Len(w) \in Nat /\ Len(t) \in Nat
      /\ Len(w \o t) = Len(w) + Len(t)
      /\ w \o t \in Seq(S)
      /\ \A k \in 1..Len(t) : (w \o t)[Len(w) + k] = t[k]
  BY ConcatProperties
<1>2. Len(SubSeq(w \o t, Len(w) + 1, Len(w \o t))) = Len(t)
  BY <1>1, SubSeqProperties
<1>3. \A k \in 1..Len(t) :
        SubSeq(w \o t, Len(w) + 1, Len(w \o t))[k] = (w \o t)[Len(w) + k]
  BY <1>1, SubSeqProperties
<1> QED
  BY <1>1, <1>2, <1>3

\* Dispatching a message keeps it.
LEMMA DispatchReplay ==
    ASSUME IInv, OpenEnded, NEW m \in Inbound, NEW rest \in SUBSET Inbound,
           ~replaying.on, Dispatch(m, rest)
    PROVE  /\ pending' \subseteq Inbound
           /\ replaying'.on /\ state' = "ACTIVE" =>
                replaying'.upper = Len(log') /\ replaying'.gap = NoSeq
<1>1. CASE DispatchResendRequest(m, rest)
  <2>1. m.hi \in Infinity /\ Len(log) \in Nat
    BY <1>1 DEF DispatchResendRequest, OpenEnded, IInv, TypeOK
  <2> QED
    BY <1>1, <2>1 DEF DispatchResendRequest, ReplayRange, NextOut
<1>2. CASE DispatchLogout(m)
  BY <1>2 DEF DispatchLogout, SendAndDisconnect
<1> QED
  BY <1>1, <1>2 DEF Dispatch, DispatchQuiet, DispatchTestRequest,
                    DispatchSequenceReset, DispatchApp

\* So does a Logon: with NextExpectedMsgSeqNum its answer is the last message the
\* replay looks at.
LEMMA ConnectReplay ==
    ASSUME ReplayInv, NEW m \in Inbound, Connect(m)
    PROVE  /\ pending' \subseteq Inbound
           /\ replaying'.on => replaying'.upper = Len(log') /\ replaying'.gap = NoSeq
<1>1. ~replaying.on /\ pending \subseteq Inbound /\ TypeOK /\ m.flag \in BOOLEAN
  BY InboundAssumption DEF Connect, Busy, ReplayInv, IInv, FixMessages
<1>2. CASE ConnectRefused(m)
  BY <1>1, <1>2 DEF ConnectRefused, Refuse
<1>3. CASE ConnectAccepted(m)
  <2> DEFINE l      == LogAfterReset(m)
             answer == [Msg("LOGON") EXCEPT
                           !.flag = WantsReset(m),
                           !.lo = IF NextExpected
                                  THEN ExpectedFromClient(m, NextInAfterReset(m))
                                  ELSE 0]
  <2>1. pending' \subseteq Inbound
    BY <1>3 DEF ConnectAccepted
  <2>2. ASSUME replaying'.on PROVE replaying'.upper = Len(log') /\ replaying'.gap = NoSeq
    <3>1. NextExpected /\ replaying'.upper = Len(l) + 1 /\ replaying'.gap = NoSeq
      BY <1>3, <2>2 DEF ConnectAccepted, NoReplay
    <3>2. log' = Stored(l, << answer >> \o AppReports(0))
      BY <1>3, <3>1 DEF ConnectAccepted, Greetings, LogonAnswer
    <3>3. Len(<< answer >> \o AppReports(0)) = 1
      BY DEF AppReports
    <3>4. l \in Seq(Kinds)
      BY <1>1 DEF LogAfterReset, TypeOK, Kinds
    <3>5. Len(log') = Len(l) + 1
      BY <3>2, <3>3, <3>4 DEF Stored
    <3> QED
      BY <3>1, <3>5
  <2> QED
    BY <2>1, <2>2
<1> QED
  BY <1>2, <1>3 DEF Connect

\* And so does every step.
LEMMA ReplayNext == ReplayInv /\ [Next]_vars => ReplayInv'
<1> SUFFICES ASSUME ReplayInv, [Next]_vars PROVE ReplayInv'
  OBVIOUS
<1>1. IInv /\ IInv' /\ OpenEnded /\ TypeOK /\ TypeOK' /\ pending \subseteq Inbound
  BY NextInv DEF ReplayInv, IInv
<1>2. CASE DrainNext
  <2>1. PICK m \in pending : Dispatch(m, pending \ {m})
    BY <1>2 DEF DrainNext
  <2>2. /\ pending' \subseteq Inbound
        /\ replaying'.on /\ state' = "ACTIVE" =>
             replaying'.upper = Len(log') /\ replaying'.gap = NoSeq
    BY <1>1, <1>2, <2>1, DispatchReplay DEF DrainNext
  <2> QED
    BY <1>1, <2>2 DEF ReplayInv
<1>3. CASE ReplaySkip
  <2>1. /\ replaying.at \in Nat /\ replaying.gap \in Nat \cup {NoSeq}
        /\ ~Replayable(replaying.at) /\ replaying.on
        /\ UNCHANGED << state, log, pending >>
    BY <1>1, <1>3 DEF ReplaySkip, TypeOK, LoopType
  <2>2. /\ replaying'.at = replaying.at + 1
        /\ replaying'.upper = replaying.upper
        /\ replaying'.gap = IF replaying.gap = NoSeq THEN replaying.at
                            ELSE replaying.gap
    BY <1>1, <1>3 DEF ReplaySkip, TypeOK, LoopType
  <2>3. ASSUME state = "ACTIVE", NEW seq \in replaying'.gap..(replaying'.at - 1)
        PROVE  ~Replayable(seq)
    <3>1. seq = replaying.at \/ seq \in replaying.gap..(replaying.at - 1)
      BY <2>1, <2>2, <2>3 DEF NoSeq
    <3>2. CASE replaying.gap = NoSeq
      BY <2>1, <2>2, <2>3, <3>2
    <3>3. CASE replaying.gap # NoSeq
      BY <2>1, <2>3, <3>1, <3>3 DEF ReplayInv
    <3> QED
      BY <3>2, <3>3
  <2> QED
    BY <1>1, <2>1, <2>2, <2>3 DEF ReplayInv, Replayable
<1>4. CASE ReplayOne
  <2>1. /\ replaying'.upper = replaying.upper /\ replaying'.gap = NoSeq
        /\ replaying.on /\ UNCHANGED << state, log, pending >>
    BY <1>1, <1>4 DEF ReplayOne, TypeOK, LoopType
  <2> QED
    BY <1>1, <2>1 DEF ReplayInv
<1>5. CASE ReplayEnd
  BY <1>1, <1>5 DEF ReplayEnd, NoReplay, ReplayInv
<1>6. CASE DrainEnd
  BY <1>1, <1>6 DEF DrainEnd, ReplayInv, Replayable
<1>7. CASE PeerReads
  BY <1>1, <1>7 DEF PeerReads, ReplayInv, Replayable
<1>8. CASE Arrival
  <2>1. PICK m \in Inbound : Connect(m) \/ Receive(m)
    BY <1>8 DEF Arrival
  <2>2. CASE Connect(m)
    BY <1>1, <2>2, ConnectReplay DEF ReplayInv
  <2>3. CASE Receive(m)
    <3>1. ~replaying.on
      BY <2>3 DEF Receive, Busy
    <3>2. CASE ReceiveCurrent(m)
      <4>1. /\ pending' \subseteq Inbound
            /\ replaying'.on /\ state' = "ACTIVE" =>
                 replaying'.upper = Len(log') /\ replaying'.gap = NoSeq
        BY <1>1, <3>1, <3>2, DispatchReplay DEF ReceiveCurrent
      <4> QED
        BY <1>1, <4>1 DEF ReplayInv
    <3>3. CASE ReceiveFatal(m) \/ ReceiveInvalid(m) \/ ReceiveHigh(m) \/ ReceiveLow(m)
      <4>1. pending' \subseteq Inbound /\ replaying' = replaying
        BY <1>1, <3>3 DEF ReceiveFatal, ReceiveInvalid, ReceiveHigh, ReceiveLow, Keep,
                          SendAndDisconnect
      <4> QED
        BY <1>1, <3>1, <4>1 DEF ReplayInv
    <3> QED
      BY <2>3, <3>2, <3>3 DEF Receive
  <2> QED
    BY <2>1, <2>2, <2>3
<1>9. CASE Outside
  <2>1. CASE SendReport \/ TickHeartbeat \/ TickProbe \/ OperatorReset
    BY <1>1, <2>1 DEF SendReport, TickHeartbeat, TickProbe, OperatorReset, Busy,
                      ReplayInv
  <2>2. CASE Detach \/ TickExpire
    <3>1. state' = "DISCONNECTED" /\ pending' = {}
      BY <2>2 DEF Detach, TickExpire, SendAndDisconnect
    <3> QED
      BY <1>1, <3>1 DEF ReplayInv
  <2>3. CASE Restart \/ \E m \in Inbound : DiesInside(m)
    <3>1. Reborn
      BY <2>3 DEF Restart, DiesInside, DieConsuming, DieAtLogon
    <3> QED
      BY <1>1, <3>1 DEF Reborn, ReplayInv
  <2> QED
    BY <1>9, <2>1, <2>2, <2>3 DEF Outside, Tick
<1>10. CASE UNCHANGED vars
  BY <1>1, <1>10 DEF vars, ReplayInv, Replayable
<1> QED
  BY <1>2, <1>3, <1>4, <1>5, <1>6, <1>7, <1>8, <1>9, <1>10 DEF Next, Loop

\* The gap fills of a replay never tell a client to skip an application message,
\* whatever the store holds, when every request is open-ended: a run at the end of a
\* bounded one is filled up to the next outbound number, whatever lies between.
THEOREM OpenReplayHidesNothing == Spec /\ OpenEnded => GapFillsHideNoReport
<1>1. Init /\ OpenEnded => ReplayInv
  BY InitInv DEF Init, ReplayInv, NoReplay
<1>2. ReplayInv /\ [Next]_vars =>
        [\A i \in 1..Len(NewOnWire) :
           LET m == NewOnWire[i] IN
           replaying.on /\ m.type = "SEQUENCE_RESET" =>
               \A seq \in m.seq..(m.hi - 1) : ~Replayable(seq)]_vars
  <2> SUFFICES ASSUME ReplayInv, Next, NEW i \in 1..Len(NewOnWire), replaying.on,
                      NewOnWire[i].type = "SEQUENCE_RESET",
                      NEW seq \in NewOnWire[i].seq..(NewOnWire[i].hi - 1)
               PROVE  ~Replayable(seq)
    BY DEF vars
  <2>1. /\ wire \in Seq(FixMessages) /\ replaying \in LoopType
        /\ log \in Seq(Kinds) /\ Len(log) \in Nat
        /\ replaying.at \in Nat /\ replaying.gap \in Nat \cup {NoSeq}
    BY DEF ReplayInv, IInv, TypeOK, LoopType, Kinds
  <2>2. ASSUME NEW t \in Seq(FixMessages), wire' = wire \o t
        PROVE  i \in 1..Len(t) /\ NewOnWire[i] = t[i]
    <3>1. NewOnWire = SubSeq(wire \o t, Len(wire) + 1, Len(wire \o t))
      BY <2>2 DEF NewOnWire
    <3>2. i \in 1..Len(SubSeq(wire \o t, Len(wire) + 1, Len(wire \o t)))
      BY <3>1
    <3>3. /\ i \in 1..Len(t)
          /\ SubSeq(wire \o t, Len(wire) + 1, Len(wire \o t))[i] = t[i]
      BY <2>1, <3>2, AppendedToWire
    <3> QED
      BY <3>1, <3>3
  <2>3. wire' # wire /\ wire' # << >>
    <3>1. CASE wire' = wire
      <4>1. wire' = wire \o << >>
        BY <2>1, <3>1
      <4>2. << >> \in Seq(FixMessages) /\ Len(<< >>) = 0
        OBVIOUS
      <4>3. i \in 1..Len(<< >>)
        BY ONLY <2>2, <4>1, <4>2
      <4> QED
        BY <4>2, <4>3
    <3>2. CASE wire' = << >>
      <4>1. NewOnWire = SubSeq(<< >>, Len(wire) + 1, 0)
        BY <3>2 DEF NewOnWire
      <4>2. Len(NewOnWire) = 0
        BY <2>1, <4>1, SubSeqProperties
      <4> QED
        BY <4>2
    <3> QED
      BY <3>1, <3>2
  <2>4. CASE ReplayOne
    <3>1. /\ Resent(replaying.at) \in FixMessages
          /\ replaying.gap # NoSeq =>
               GapFill(replaying.gap, replaying.at) \in FixMessages
      BY <2>1, GapFillType
    <3>2. state = "ACTIVE"
      BY <2>3, <2>4 DEF ReplayOne, Transmit
    <3>3. CASE replaying.gap = NoSeq
      <4> DEFINE t == << Resent(replaying.at) >>
      <4>1. t \in Seq(FixMessages) /\ wire' = wire \o t
        BY <2>4, <3>1, <3>2, <3>3 DEF ReplayOne, Transmit
      <4>2. i \in 1..Len(t) /\ NewOnWire[i] = t[i]
        BY ONLY <2>2, <4>1
      <4>3. NewOnWire[i] = Resent(replaying.at)
        BY <4>2
      <4> QED
        BY <4>3 DEF Resent, Msg
    <3>4. CASE replaying.gap # NoSeq
      <4> DEFINE t == << GapFill(replaying.gap, replaying.at), Resent(replaying.at) >>
      <4>0. t \in Seq(FixMessages) /\ wire' = wire \o t
        BY <2>4, <3>1, <3>2, <3>4 DEF ReplayOne, Transmit
      <4>1. i \in 1..Len(t) /\ NewOnWire[i] = t[i]
        BY ONLY <2>2, <4>0
      <4>2. CASE i = 1
        <5>1. NewOnWire[i] = GapFill(replaying.gap, replaying.at)
          BY <4>1, <4>2
        <5>2. seq \in replaying.gap..(replaying.at - 1)
          BY <5>1 DEF GapFill, Msg
        <5> QED
          BY <3>2, <3>4, <5>2 DEF ReplayInv
      <4>3. CASE i = 2
        <5>1. NewOnWire[i] = Resent(replaying.at)
          BY <4>1, <4>3
        <5> QED
          BY <5>1 DEF Resent, Msg
      <4> QED
        BY <4>1, <4>2, <4>3
    <3> QED
      BY <3>3, <3>4
  <2>5. CASE ReplayEnd
    <3>1. state = "ACTIVE" /\ replaying.gap # NoSeq
      BY <2>1, <2>3, <2>5 DEF ReplayEnd, Transmit
    <3>2. GapFill(replaying.gap, NextOut) \in FixMessages
      BY <2>1, <3>1, GapFillType DEF NextOut
    <3> DEFINE t == << GapFill(replaying.gap, NextOut) >>
    <3>0. t \in Seq(FixMessages) /\ wire' = wire \o t
      BY <2>5, <3>1, <3>2 DEF ReplayEnd, Transmit
    <3>3. i \in 1..Len(t) /\ NewOnWire[i] = t[i]
      BY ONLY <2>2, <3>0
    <3>4. NewOnWire[i] = GapFill(replaying.gap, NextOut)
      BY <3>3
    <3>5. seq \in replaying.gap..Len(log)
      BY <2>1, <3>4 DEF GapFill, Msg, NextOut
    <3>6. replaying.at > Len(log)
      BY <2>5, <3>1 DEF ReplayEnd, ReplayInv
    <3>7. seq \in replaying.gap..(replaying.at - 1)
      BY <2>1, <3>1, <3>5, <3>6
    <3> QED
      BY <3>1, <3>7 DEF ReplayInv
  <2>6. CASE Detach
    <3>1. wire' = wire \o Numbered(log, << >>)
      BY <2>6 DEF Detach, SendAndDisconnect
    <3>2. Numbered(log, << >>) = << >>
      BY DEF Numbered
    <3> QED
      BY <2>1, <2>3, <3>1, <3>2
  <2>7. ~DrainNext /\ ~DrainEnd /\ ~Arrival /\ ~SendReport /\ ~Tick /\ ~OperatorReset
    BY DEF DrainNext, DrainEnd, Arrival, Connect, Receive, SendReport, Tick,
           TickHeartbeat, TickProbe, TickExpire, OperatorReset, Busy
  <2>8. CASE \/ ReplaySkip \/ PeerReads \/ Restart
             \/ \E m \in Inbound : DiesInside(m)
    BY <2>3, <2>8 DEF ReplaySkip, PeerReads, Restart, DiesInside, DieConsuming,
                      DieAtLogon, Reborn
  <2> QED
    BY <2>4, <2>5, <2>6, <2>7, <2>8 DEF Next, Loop, Outside
<1> QED
  BY <1>1, <1>2, ReplayNext, PTL DEF Spec, GapFillsHideNoReport

----------------------------------------------------------------------------
(* A session and a conforming client (FixLink).  Neither side ever says of *)
(* a number anything but what it used it for, so whoever consumes numbers  *)
(* in order, jumping only over what a gap fill covers, misses nothing.     *)

\* The number to expect once m has been consumed.
After(m) == IF m.type = "SEQUENCE_RESET" THEN m.hi ELSE m.seq + 1

\* What may be said of numbers used as l tells: a valid application message only
\* where there is one, anything else only where there is none.
Told(l) ==
    {m \in FixMessages :
        /\ 1 <= m.seq /\ m.seq < After(m) /\ After(m) <= Len(l) + 1
        /\ m.fault = "NONE" \/ (m.fault = "FIELDS" /\ m.type = "APP")
        /\ IF m.type = "APP" /\ m.fault = "NONE" THEN l[m.seq] = "APP"
           ELSE \A n \in m.seq..(After(m) - 1) : l[n] # "APP"
        /\ m.type = "SEQUENCE_RESET" => m.flag
        /\ m.type = "LOGON" => ~m.flag /\ (NextExpected => m.lo >= 1)
        /\ m.type = "RESEND_REQUEST" => m.lo >= 1 /\ m.hi = 0}

\* w is what the venue has in flight when it has used its numbers as l tells and the
\* client expects c: nothing it would have to reject, and what is not marked as a
\* possible duplicate is new to the client, also once it has read what is before.
InFlight(w, l, c) ==
    /\ w \in Seq({m \in Told(l) : m.fault = "NONE"})
    /\ \A j \in 1..Len(w) :
         ~w[j].dup => /\ c <= w[j].seq
                      /\ \A i \in 1..(j - 1) : After(w[i]) <= w[j].seq

EventTypes == [orders : Nat, reports : Nat, ticks : Nat, faults : Nat,
               lossy : BOOLEAN, cut : SUBSET Nat]

LinkTypes ==
    /\ state \in {"DISCONNECTED", "ACTIVE"}
    /\ log \in Seq(Kinds)
    /\ cLog \in Seq({"APP", "BAD", "ADMIN"})
    /\ nextIn \in Nat \ {0} /\ cIn \in Nat \ {0}
    /\ nextIn <= Len(cLog) + 1 /\ cIn <= Len(log) + 1
    /\ delivered \in Seq(Nat) /\ got \in Seq(Nat)
    /\ replaying \in LoopType
    /\ events \in EventTypes

\* A replay runs to the last number, and the run it has open hides no report.
ReplayOpen ==
    replaying.on /\ state = "ACTIVE" =>
        /\ replaying.upper = Len(log)
        /\ replaying.at >= 1
        /\ replaying.gap # NoSeq =>
              /\ 1 <= replaying.gap
              /\ replaying.gap < replaying.at
              /\ replaying.at <= replaying.upper + 1
              /\ \A n \in replaying.gap..(replaying.at - 1) : log[n] # "APP"

LinkInv ==
    /\ LinkTypes
    /\ pending \subseteq Told(cLog) /\ \A m \in pending : m.fault = "NONE"
    /\ toVenue \in Seq(Told(cLog) \cup {EndOfStream})
    /\ InFlight(wire, log, cIn)
    /\ ReplayOpen
    /\ VenueSeesEveryOrder
    /\ events.cut \subseteq 1..(nextIn - 1)
    /\ ClientSeesEveryReport

\* What a step that cuts nothing off does to the bounds.
CutsNothing == events' \in EventTypes /\ events'.cut = events.cut

----------------------------------------------------------------------------
(* What is said stays true *)

\* A sequence over a set is one over any larger set.
LEMMA SeqWider ==
    ASSUME NEW S, NEW T, S \subseteq T, NEW s \in Seq(S)
    PROVE  s \in Seq(T)
OBVIOUS

\* The elements of two sequences put together.
LEMMA Joined ==
    ASSUME NEW S, NEW s \in Seq(S), NEW t \in Seq(S)
    PROVE  /\ s \o t \in Seq(S)
           /\ Len(s) \in Nat /\ Len(t) \in Nat /\ Len(s \o t) = Len(s) + Len(t)
           /\ \A i \in 1..Len(s) : (s \o t)[i] = s[i]
           /\ \A i \in 1..Len(t) : (s \o t)[Len(s) + i] = t[i]
OBVIOUS

\* Using further numbers changes nothing about those already used.
LEMMA ToldGrows ==
    ASSUME NEW S, NEW l \in Seq(S), NEW x \in Seq(S)
    PROVE  Told(l) \subseteq Told(l \o x)
<1> SUFFICES ASSUME NEW m \in Told(l) PROVE m \in Told(l \o x)
  OBVIOUS
<1>1. /\ m \in FixMessages /\ m.seq \in Nat /\ After(m) \in Nat
      /\ Len(l) \in Nat /\ Len(x) \in Nat /\ Len(l \o x) = Len(l) + Len(x)
  BY DEF Told, After, FixMessages
<1>2. \A n \in 1..Len(l) : (l \o x)[n] = l[n]
  OBVIOUS
<1>3. m.seq \in 1..Len(l) /\ m.seq..(After(m) - 1) \subseteq 1..Len(l)
  BY <1>1 DEF Told
<1>4. /\ 1 <= m.seq /\ m.seq < After(m) /\ After(m) <= Len(l \o x) + 1
      /\ m.fault = "NONE" \/ (m.fault = "FIELDS" /\ m.type = "APP")
      /\ m.type = "SEQUENCE_RESET" => m.flag
      /\ m.type = "LOGON" => ~m.flag /\ (NextExpected => m.lo >= 1)
      /\ m.type = "RESEND_REQUEST" => m.lo >= 1 /\ m.hi = 0
  BY <1>1 DEF Told
<1>5. IF m.type = "APP" /\ m.fault = "NONE" THEN (l \o x)[m.seq] = "APP"
      ELSE \A n \in m.seq..(After(m) - 1) : (l \o x)[n] # "APP"
  <2>1. IF m.type = "APP" /\ m.fault = "NONE" THEN l[m.seq] = "APP"
        ELSE \A n \in m.seq..(After(m) - 1) : l[n] # "APP"
    BY DEF Told
  <2> QED
    BY <2>1, <1>2, <1>3
<1> QED
  BY <1>1, <1>4, <1>5 DEF Told

\* The numbers already consumed are those of the same messages.
LEMMA NumbersGrow ==
    ASSUME NEW S, NEW l \in Seq(S), NEW x \in Seq(S), NEW k,
           NEW b \in Nat, b <= Len(l) + 1
    PROVE  NumbersOf(l \o x, k, b) = NumbersOf(l, k, b)
<1>1. Len(l) \in Nat /\ Len(x) \in Nat /\ Len(l \o x) = Len(l) + Len(x)
  OBVIOUS
<1>2. \A n \in 1..(b - 1) : n \in 1..Len(l) /\ (l \o x)[n] = l[n]
  BY <1>1
<1> QED
  BY <1>1, <1>2 DEF NumbersOf

\* Consuming a valid application message adds its number.
LEMMA NumbersTaken ==
    ASSUME NEW S, NEW l \in Seq(S), NEW m \in Told(l),
           m.type = "APP", m.fault = "NONE"
    PROVE  NumbersOf(l, "APP", m.seq + 1) = NumbersOf(l, "APP", m.seq) \cup {m.seq}
<1>1. /\ m.seq \in Nat /\ 1 <= m.seq /\ m.seq <= Len(l) /\ l[m.seq] = "APP"
      /\ Len(l) \in Nat
  BY DEF Told, After, FixMessages
<1> QED
  BY <1>1 DEF NumbersOf

\* Consuming any other adds none.
LEMMA NumbersPassed ==
    ASSUME NEW S, NEW l \in Seq(S), NEW m \in Told(l),
           ~(m.type = "APP" /\ m.fault = "NONE")
    PROVE  NumbersOf(l, "APP", After(m)) = NumbersOf(l, "APP", m.seq)
<1>1. /\ m.seq \in Nat /\ After(m) \in Nat /\ 1 <= m.seq /\ m.seq < After(m)
      /\ After(m) <= Len(l) + 1 /\ Len(l) \in Nat
  BY DEF Told, After, FixMessages
<1>2. \A n \in m.seq..(After(m) - 1) : l[n] # "APP"
  BY DEF Told
<1>3. \A n \in 1..(After(m) - 1) : n \in 1..(m.seq - 1) \/ n \in m.seq..(After(m) - 1)
  BY <1>1
<1>4. 1..(m.seq - 1) \subseteq 1..(After(m) - 1)
  BY <1>1
<1> QED
  BY <1>2, <1>3, <1>4 DEF NumbersOf

\* A list of numbers below b goes on with b.
LEMMA AscendsOn ==
    ASSUME NEW b \in Nat, NEW S \in SUBSET (1..(b - 1)), NEW s \in Seq(Nat),
           Ascends(s, S)
    PROVE  Ascends(Append(s, b), S \cup {b}) /\ Append(s, b) \in Seq(Nat)
<1>1. /\ Len(s) \in Nat /\ Len(Append(s, b)) = Len(s) + 1
      /\ \A i \in 1..Len(s) : Append(s, b)[i] = s[i] /\ s[i] \in Nat
      /\ Append(s, b)[Len(s) + 1] = b
      /\ Append(s, b) \in Seq(Nat)
  OBVIOUS
<1>2. \A i \in 1..Len(s) : s[i] \in S /\ s[i] < b
  BY DEF Ascends
<1>3. \A i, j \in 1..(Len(s) + 1) : i < j => Append(s, b)[i] < Append(s, b)[j]
  <2> SUFFICES ASSUME NEW i \in 1..(Len(s) + 1), NEW j \in 1..(Len(s) + 1), i < j
               PROVE  Append(s, b)[i] < Append(s, b)[j]
    OBVIOUS
  <2>1. i \in 1..Len(s)
    BY <1>1
  <2>2. CASE j = Len(s) + 1
    BY <2>1, <2>2, <1>1, <1>2
  <2>3. CASE j # Len(s) + 1
    BY <2>1, <2>3, <1>1 DEF Ascends
  <2> QED
    BY <2>2, <2>3
<1>4. {Append(s, b)[i] : i \in 1..(Len(s) + 1)} = S \cup {b}
  <2>1. 1..(Len(s) + 1) = (1..Len(s)) \cup {Len(s) + 1}
    BY <1>1
  <2>2. {Append(s, b)[i] : i \in 1..(Len(s) + 1)} = {s[i] : i \in 1..Len(s)} \cup {b}
    BY <2>1, <1>1
  <2> QED
    BY <2>2 DEF Ascends
<1> QED
  BY <1>1, <1>3, <1>4 DEF Ascends

\* What a side numbers itself: anything but a possible duplicate.
Fresh == {m \in FixMessages :
            /\ m.fault = "NONE" /\ ~m.dup
            /\ m.type # "SEQUENCE_RESET"
            /\ m.type = "LOGON" => ~m.flag /\ (NextExpected => m.lo >= 1)
            /\ m.type = "RESEND_REQUEST" => m.lo >= 1 /\ m.hi = 0}

\* Giving a message its number changes nothing else of it.
LEMMA NumberGiven ==
    ASSUME NEW m \in FixMessages, NEW n \in Nat
    PROVE  LET f == [m EXCEPT !.seq = n]
           IN  /\ f \in FixMessages /\ f.seq = n /\ f.type = m.type
               /\ f.dup = m.dup /\ f.fault = m.fault /\ f.flag = m.flag
               /\ f.lo = m.lo /\ f.hi = m.hi
BY DEF FixMessages

\* The venue's own messages, numbered, are told as the store records them.
LEMMA FreshTold ==
    ASSUME NEW l \in Seq(Kinds), NEW msgs \in Seq(Fresh)
    PROVE  /\ Stored(l, msgs) \in Seq(Kinds)
           /\ Len(Stored(l, msgs)) = Len(l) + Len(msgs)
           /\ Len(Numbered(l, msgs)) = Len(msgs)
           /\ Numbered(l, msgs) \in Seq({m \in Told(Stored(l, msgs)) : m.fault = "NONE"})
           /\ \A i \in 1..Len(msgs) :
                /\ Numbered(l, msgs)[i].seq = Len(l) + i
                /\ After(Numbered(l, msgs)[i]) = Len(l) + i + 1
<1> DEFINE ks == [i \in 1..Len(msgs) |-> Kind(msgs[i])]
           fs == [i \in 1..Len(msgs) |-> [msgs[i] EXCEPT !.seq = Len(l) + i]]
           T  == {m \in Told(Stored(l, msgs)) : m.fault = "NONE"}
<1>1. /\ Len(l) \in Nat /\ Len(msgs) \in Nat
      /\ \A i \in 1..Len(msgs) : msgs[i] \in Fresh
      /\ msgs \in Seq(FixMessages)
  BY DEF Fresh
<1>2. ks \in Seq(Kinds) /\ Len(ks) = Len(msgs)
  <2>1. \A i \in 1..Len(msgs) : Kind(msgs[i]) \in Kinds
    BY DEF Kind, Kinds
  <2>2. ks \in [1..Len(msgs) -> Kinds]
    BY <2>1
  <2> HIDE DEF ks
  <2> QED
    BY <2>2, <1>1
<1>3. /\ Stored(l, msgs) \in Seq(Kinds)
      /\ Len(Stored(l, msgs)) = Len(l) + Len(msgs)
      /\ \A i \in 1..Len(msgs) : Stored(l, msgs)[Len(l) + i] = Kind(msgs[i])
  <2>1. Stored(l, msgs) = l \o ks
    BY DEF Stored
  <2>2. \A i \in 1..Len(msgs) : ks[i] = Kind(msgs[i])
    OBVIOUS
  <2> HIDE DEF ks
  <2>3. /\ l \o ks \in Seq(Kinds)
        /\ Len(l \o ks) = Len(l) + Len(msgs)
        /\ \A i \in 1..Len(msgs) : (l \o ks)[Len(l) + i] = ks[i]
    <3>1. ks \in Seq(Kinds) /\ Len(ks) = Len(msgs)
      BY <1>2
    <3>2. /\ l \o ks \in Seq(Kinds)
          /\ Len(l \o ks) = Len(l) + Len(ks)
          /\ \A i \in 1..Len(ks) : (l \o ks)[Len(l) + i] = ks[i]
      BY <3>1
    <3> QED
      BY <3>1, <3>2
  <2> QED
    BY <2>1, <2>2, <2>3
<1>4. \A i \in 1..Len(msgs) :
         /\ fs[i] \in T
         /\ fs[i].seq = Len(l) + i
         /\ After(fs[i]) = Len(l) + i + 1
  <2> SUFFICES ASSUME NEW i \in 1..Len(msgs)
               PROVE  /\ fs[i] \in T
                      /\ fs[i].seq = Len(l) + i
                      /\ After(fs[i]) = Len(l) + i + 1
    OBVIOUS
  <2>1. msgs[i] \in Fresh /\ msgs[i] \in FixMessages /\ Len(l) + i \in Nat
    BY <1>1 DEF Fresh
  <2>2. /\ fs[i] \in FixMessages /\ fs[i].seq = Len(l) + i
        /\ fs[i].type = msgs[i].type /\ fs[i].fault = "NONE"
        /\ fs[i].flag = msgs[i].flag /\ fs[i].lo = msgs[i].lo /\ fs[i].hi = msgs[i].hi
    BY <2>1, NumberGiven DEF Fresh
  <2>3. After(fs[i]) = Len(l) + i + 1
    BY <2>1, <2>2 DEF Fresh, After
  <2>4. Stored(l, msgs)[fs[i].seq] = Kind(msgs[i])
    BY <2>2, <1>3
  <2>5. IF fs[i].type = "APP" /\ fs[i].fault = "NONE"
        THEN Stored(l, msgs)[fs[i].seq] = "APP"
        ELSE \A n \in fs[i].seq..(After(fs[i]) - 1) : Stored(l, msgs)[n] # "APP"
    <3>1. \A n \in fs[i].seq..(After(fs[i]) - 1) : n = fs[i].seq
      BY <2>2, <2>3, <2>1
    <3> QED
      BY <3>1, <2>2, <2>4 DEF Kind
  <2>6. /\ 1 <= fs[i].seq /\ fs[i].seq < After(fs[i])
        /\ After(fs[i]) <= Len(Stored(l, msgs)) + 1
    BY <2>2, <2>3, <1>1, <1>3
  <2>7. /\ fs[i].type # "SEQUENCE_RESET"
        /\ fs[i].type = "LOGON" => ~fs[i].flag /\ (NextExpected => fs[i].lo >= 1)
        /\ fs[i].type = "RESEND_REQUEST" => fs[i].lo >= 1 /\ fs[i].hi = 0
    BY <2>1, <2>2 DEF Fresh
  <2> HIDE DEF fs
  <2> QED
    BY <2>2, <2>3, <2>5, <2>6, <2>7 DEF Told
<1>5. fs \in Seq(T) /\ Len(fs) = Len(msgs)
  <2> HIDE DEF T
  <2>1. fs \in [1..Len(msgs) -> T]
    BY <1>4
  <2> QED
    BY <2>1, <1>1
<1>6. Numbered(l, msgs) = fs
  BY DEF Numbered
<1> QED
  BY <1>3, <1>4, <1>5, <1>6

----------------------------------------------------------------------------
(* What is in flight *)

\* Nothing may be: a connection begins empty, and what a broken one held is gone.
LEMMA NothingInFlight ==
    ASSUME NEW l, NEW c PROVE InFlight(<< >>, l, c)
BY DEF InFlight

\* What is in flight is not affected when further numbers are used.
LEMMA FlightKept ==
    ASSUME NEW l \in Seq(Kinds), NEW x \in Seq(Kinds), NEW w, NEW c,
           InFlight(w, l, c)
    PROVE  InFlight(w, l \o x, c)
<1>1. Told(l) \subseteq Told(l \o x)
  BY ToldGrows
<1>2. w \in Seq({m \in Told(l \o x) : m.fault = "NONE"})
  <2>1. w \in Seq({m \in Told(l) : m.fault = "NONE"})
    BY DEF InFlight
  <2>2. {m \in Told(l) : m.fault = "NONE"} \subseteq
        {m \in Told(l \o x) : m.fault = "NONE"}
    BY <1>1
  <2> QED
    BY <2>1, <2>2, SeqWider
<1> QED
  BY <1>2 DEF InFlight

\* Everything in flight covers numbers already used.
LEMMA FlightBelow ==
    ASSUME NEW l \in Seq(Kinds), NEW w, NEW c, InFlight(w, l, c)
    PROVE  \A i \in 1..Len(w) :
              /\ w[i] \in Told(l) /\ w[i] \in FixMessages
              /\ w[i].seq \in Nat /\ After(w[i]) \in Nat
              /\ w[i].seq < After(w[i]) /\ After(w[i]) <= Len(l) + 1
<1> SUFFICES ASSUME NEW i \in 1..Len(w)
             PROVE  /\ w[i] \in Told(l) /\ w[i] \in FixMessages
                    /\ w[i].seq \in Nat /\ After(w[i]) \in Nat
                    /\ w[i].seq < After(w[i]) /\ After(w[i]) <= Len(l) + 1
  OBVIOUS
<1>1. w[i] \in {m \in Told(l) : m.fault = "NONE"}
  BY DEF InFlight
<1> QED
  BY <1>1 DEF Told, After, FixMessages

\* Newly numbered messages go behind what is in flight.
LEMMA FlightSent ==
    ASSUME NEW l \in Seq(Kinds), NEW w, NEW c \in Nat, c <= Len(l) + 1,
           InFlight(w, l, c), NEW msgs \in Seq(Fresh)
    PROVE  /\ Stored(l, msgs) \in Seq(Kinds)
           /\ InFlight(w, Stored(l, msgs), c)
           /\ InFlight(w \o Numbered(l, msgs), Stored(l, msgs), c)
<1> DEFINE k == Stored(l, msgs)
           f == Numbered(l, msgs)
           T == {m \in Told(k) : m.fault = "NONE"}
<1>1. /\ k \in Seq(Kinds) /\ Len(k) = Len(l) + Len(msgs)
      /\ Len(f) = Len(msgs) /\ f \in Seq(T)
      /\ \A i \in 1..Len(msgs) : f[i].seq = Len(l) + i
  BY FreshTold
<1>2. InFlight(w, k, c)
  <2>1. \A i \in 1..Len(msgs) : Kind(msgs[i]) \in Kinds
    BY DEF Kind, Kinds
  <2>2. [i \in 1..Len(msgs) |-> Kind(msgs[i])] \in Seq(Kinds)
    BY <2>1
  <2> QED
    BY <2>2, FlightKept DEF Stored
<1>3. \A i \in 1..Len(w) : After(w[i]) \in Nat /\ After(w[i]) <= Len(l) + 1
  BY FlightBelow
<1>4. w \in Seq(T)
  BY <1>2 DEF InFlight
<1> HIDE DEF k, f, T
<1>5. /\ Len(w) \in Nat /\ Len(f) \in Nat /\ Len(l) \in Nat /\ Len(msgs) \in Nat
      /\ w \o f \in Seq(T) /\ Len(w \o f) = Len(w) + Len(f)
      /\ \A i \in 1..Len(w) : (w \o f)[i] = w[i]
      /\ \A i \in 1..Len(f) : (w \o f)[Len(w) + i] = f[i]
  <2>1. f \in Seq(T) /\ w \in Seq(T)
    BY <1>1, <1>4
  <2>2. Len(l) \in Nat /\ Len(msgs) \in Nat
    OBVIOUS
  <2> QED
    BY <2>1, <2>2, Joined
<1>6. ASSUME NEW j \in 1..Len(w \o f), ~(w \o f)[j].dup
      PROVE  /\ c <= (w \o f)[j].seq
             /\ \A i \in 1..(j - 1) : After((w \o f)[i]) <= (w \o f)[j].seq
  <2>1. CASE j \in 1..Len(w)
    <3>1. \A i \in 1..(j - 1) : i \in 1..Len(w) /\ (w \o f)[i] = w[i]
      BY <2>1, <1>5
    <3> QED
      BY <2>1, <3>1, <1>2, <1>5, <1>6 DEF InFlight
  <2>2. CASE j \notin 1..Len(w)
    <3> DEFINE a == j - Len(w)
    <3>1. a \in 1..Len(msgs) /\ (w \o f)[j] = f[a]
      BY <2>2, <1>1, <1>5
    <3>2. (w \o f)[j].seq = Len(l) + a
      BY <3>1, <1>1
    <3>3. \A i \in 1..(j - 1) : After((w \o f)[i]) <= Len(l) + a
      <4> SUFFICES ASSUME NEW i \in 1..(j - 1)
                   PROVE  After((w \o f)[i]) <= Len(l) + a
        OBVIOUS
      <4>1. CASE i \in 1..Len(w)
        BY <4>1, <1>3, <1>5, <3>1
      <4>2. CASE i \notin 1..Len(w)
        <5>1. i - Len(w) \in 1..Len(msgs) /\ i - Len(w) < a /\ (w \o f)[i] = f[i - Len(w)]
          BY <4>2, <1>1, <1>5, <2>2
        <5>2. After(f[i - Len(w)]) = Len(l) + (i - Len(w)) + 1
          BY <5>1, FreshTold DEF f
        <5> QED
          BY <5>1, <5>2, <3>1, <1>5
      <4> QED
        BY <4>1, <4>2
    <3> QED
      BY <3>1, <3>2, <3>3, <1>5
  <2> QED
    BY <2>1, <2>2
<1>7. InFlight(w \o f, k, c)
  BY <1>5, <1>6 DEF InFlight, T
<1> QED
  BY <1>1, <1>2, <1>7 DEF k, f

\* So does a message of a replay, which is marked as a possible duplicate.
LEMMA FlightReplayed ==
    ASSUME NEW l \in Seq(Kinds), NEW w, NEW c, InFlight(w, l, c),
           NEW m \in Told(l), m.fault = "NONE", m.dup
    PROVE  InFlight(Append(w, m), l, c)
<1> DEFINE T == {t \in Told(l) : t.fault = "NONE"}
<1>1. w \in Seq(T) /\ m \in T
  BY DEF InFlight
<1> HIDE DEF T
<1>2. /\ Append(w, m) \in Seq(T)
      /\ Len(Append(w, m)) = Len(w) + 1 /\ Len(w) \in Nat
      /\ \A i \in 1..Len(w) : Append(w, m)[i] = w[i]
      /\ Append(w, m)[Len(w) + 1] = m
  BY <1>1
<1>3. ASSUME NEW j \in 1..Len(Append(w, m)), ~Append(w, m)[j].dup
      PROVE  /\ c <= Append(w, m)[j].seq
             /\ \A i \in 1..(j - 1) : After(Append(w, m)[i]) <= Append(w, m)[j].seq
  <2>1. j \in 1..Len(w)
    BY <1>2, <1>3
  <2>2. \A i \in 1..(j - 1) : i \in 1..Len(w)
    BY <2>1, <1>2
  <2> QED
    BY <2>1, <2>2, <1>2, <1>3 DEF InFlight
<1> QED
  BY <1>2, <1>3 DEF InFlight, T

\* The client reads the first message: what it expects next may be what follows it.
LEMMA FlightRead ==
    ASSUME NEW l \in Seq(Kinds), NEW w, NEW c \in Nat, InFlight(w, l, c), w # << >>,
           NEW d \in {c, After(Head(w))}
    PROVE  InFlight(Tail(w), l, d)
<1> DEFINE T == {t \in Told(l) : t.fault = "NONE"}
<1>1. w \in Seq(T)
  BY DEF InFlight
<1> HIDE DEF T
<1>2. /\ Tail(w) \in Seq(T)
      /\ Len(w) \in Nat /\ Len(w) >= 1
      /\ Len(Tail(w)) = Len(w) - 1
      /\ \A i \in 1..(Len(w) - 1) : Tail(w)[i] = w[i + 1]
      /\ Head(w) = w[1]
  BY <1>1
<1>3. ASSUME NEW j \in 1..Len(Tail(w)), ~Tail(w)[j].dup
      PROVE  /\ d <= Tail(w)[j].seq
             /\ \A i \in 1..(j - 1) : After(Tail(w)[i]) <= Tail(w)[j].seq
  <2>1. j + 1 \in 1..Len(w) /\ Tail(w)[j] = w[j + 1] /\ ~w[j + 1].dup
    BY <1>2, <1>3
  <2>2. /\ c <= w[j + 1].seq
        /\ \A i \in 1..((j + 1) - 1) : After(w[i]) <= w[j + 1].seq
    BY <2>1 DEF InFlight
  <2>3. 1 \in 1..((j + 1) - 1)
    BY <1>2
  <2>4. \A i \in 1..(j - 1) : i + 1 \in 1..((j + 1) - 1) /\ Tail(w)[i] = w[i + 1]
    BY <1>2
  <2> QED
    BY <2>1, <2>2, <2>3, <2>4, <1>2
<1> QED
  BY <1>2, <1>3 DEF InFlight, T

----------------------------------------------------------------------------
(* Steps of the session that number messages *)

\* What numbering further messages leaves true.
SentWell ==
    /\ log' \in Seq(Kinds)
    /\ cIn <= Len(log') + 1
    /\ NumbersOf(log', "APP", cIn) = NumbersOf(log, "APP", cIn)
    /\ InFlight(wire', log', cIn)

\* What every step of the session leaves true of its side.
VenueKeeps ==
    /\ SentWell
    /\ state' \in {"DISCONNECTED", "ACTIVE"}
    /\ pending' \subseteq Told(cLog) /\ \A m \in pending' : m.fault = "NONE"
    /\ nextIn' \in Nat \ {0} /\ nextIn' <= Len(cLog) + 1
    /\ delivered' \in Seq(Nat)
    /\ Ascends(delivered', NumbersOf(cLog, "APP", nextIn') \ events.cut)
    /\ events.cut \subseteq 1..(nextIn' - 1)
    /\ replaying' \in LoopType
    /\ ReplayOpen'

\* With a client that saw nothing of it that is the invariant.
LEMMA VenueKeepsInv ==
    ASSUME LinkInv, VenueKeeps, UNCHANGED clientVars, CutsNothing,
           toVenue' \in Seq(Told(cLog) \cup {EndOfStream})
    PROVE  LinkInv'
<1>1. cLog' = cLog /\ cIn' = cIn /\ got' = got
  BY DEF clientVars
<1>2. LinkTypes'
  BY <1>1 DEF LinkInv, LinkTypes, VenueKeeps, SentWell, CutsNothing, EventTypes
<1>3. InFlight(wire, log, cIn)'
  <2>1. InFlight(wire', log', cIn')
    BY <1>1 DEF VenueKeeps, SentWell
  <2> QED
    BY <2>1 DEF InFlight, Told
<1>4. ClientSeesEveryReport'
  BY <1>1 DEF LinkInv, VenueKeeps, SentWell, ClientSeesEveryReport, Ascends, NumbersOf
<1>5. VenueSeesEveryOrder' /\ (events.cut \subseteq 1..(nextIn - 1))'
  BY <1>1 DEF VenueKeeps, VenueSeesEveryOrder, Ascends, NumbersOf, CutsNothing
<1>6. /\ (pending \subseteq Told(cLog) /\ \A m \in pending : m.fault = "NONE")'
      /\ (toVenue \in Seq(Told(cLog) \cup {EndOfStream}))'
  BY <1>1 DEF VenueKeeps, Told
<1> QED
  BY <1>2, <1>3, <1>4, <1>5, <1>6 DEF LinkInv, VenueKeeps

\* The facts the steps below start from.
LEMMA LinkFacts ==
    ASSUME LinkInv
    PROVE  /\ log \in Seq(Kinds) /\ Len(log) \in Nat
           /\ cLog \in Seq({"APP", "BAD", "ADMIN"}) /\ Len(cLog) \in Nat
           /\ nextIn \in Nat \ {0} /\ nextIn <= Len(cLog) + 1
           /\ cIn \in Nat \ {0} /\ cIn <= Len(log) + 1
           /\ delivered \in Seq(Nat) /\ got \in Seq(Nat)
           /\ state \in {"DISCONNECTED", "ACTIVE"}
           /\ replaying \in LoopType
           /\ InFlight(wire, log, cIn)
           /\ pending \subseteq Told(cLog) /\ \A m \in pending : m.fault = "NONE"
           /\ Ascends(delivered, NumbersOf(cLog, "APP", nextIn) \ events.cut)
           /\ events \in EventTypes /\ events.cut \subseteq 1..(nextIn - 1)
BY DEF LinkInv, LinkTypes, VenueSeesEveryOrder

\* Counting down a bound changes nothing else of the events.
LEMMA SpendsOnly ==
    ASSUME LinkInv, NEW what \in {"orders", "reports", "ticks", "faults"}, Spend(what)
    PROVE  CutsNothing
<1>1. events \in EventTypes /\ events[what] \in Nat /\ events[what] > 0
  BY LinkFacts DEF Spend, EventTypes
<1> QED
  BY <1>1 DEF Spend, CutsNothing, EventTypes

\* The messages the session makes are its own numbering's.
LEMMA FreshMessages ==
    /\ << >> \in Seq(Fresh)
    /\ \A t \in {"HEARTBEAT", "TEST_REQUEST", "REJECT", "LOGOUT", "APP"} :
          Msg(t) \in Fresh /\ << Msg(t) >> \in Seq(Fresh)
    /\ \A n \in Nat : AppReports(n) \in Seq(Fresh)
<1>1. \A t \in {"HEARTBEAT", "TEST_REQUEST", "REJECT", "LOGOUT", "APP"} : Msg(t) \in Fresh
  <2> SUFFICES ASSUME NEW t \in {"HEARTBEAT", "TEST_REQUEST", "REJECT", "LOGOUT", "APP"}
               PROVE  Msg(t) \in Fresh
    OBVIOUS
  <2>1. Msg(t) \in FixMessages
    BY MsgType DEF Types, Admin
  <2> QED
    BY <2>1 DEF Msg, Fresh
<1>2. \A n \in Nat : AppReports(n) \in Seq(Fresh)
  <2> SUFFICES ASSUME NEW n \in Nat PROVE AppReports(n) \in Seq(Fresh)
    OBVIOUS
  <2>1. [i \in 1..n |-> Msg("APP")] \in [1..n -> Fresh]
    BY <1>1
  <2> QED
    BY <2>1 DEF AppReports
<1> QED
  BY <1>1, <1>2

\* Numbering messages, with anything already transmitted and anything added of it.
LEMMA StoredWell ==
    ASSUME LinkInv, NEW msgs \in Seq(Fresh), log' = Stored(log, msgs)
    PROVE  /\ log' \in Seq(Kinds)
           /\ cIn <= Len(log') + 1
           /\ NumbersOf(log', "APP", cIn) = NumbersOf(log, "APP", cIn)
           /\ InFlight(wire, log', cIn)
           /\ InFlight(wire \o Numbered(log, msgs), log', cIn)
           /\ InFlight(<< >> \o Numbered(log, msgs), log', cIn)
<1>1. log \in Seq(Kinds) /\ cIn \in Nat /\ cIn <= Len(log) + 1 /\ InFlight(wire, log, cIn)
  BY LinkFacts
<1>2. log' \in Seq(Kinds) /\ Len(log') = Len(log) + Len(msgs)
  BY <1>1, FreshTold
<1>3. /\ InFlight(wire, log', cIn)
      /\ InFlight(wire \o Numbered(log, msgs), log', cIn)
  BY <1>1, FlightSent
<1>4. InFlight(<< >> \o Numbered(log, msgs), log', cIn)
  BY <1>1, NothingInFlight, FlightSent
<1>5. NumbersOf(log', "APP", cIn) = NumbersOf(log, "APP", cIn)
  <2>1. \A i \in 1..Len(msgs) : Kind(msgs[i]) \in Kinds
    BY DEF Kind, Kinds
  <2>2. [i \in 1..Len(msgs) |-> Kind(msgs[i])] \in Seq(Kinds)
    BY <2>1
  <2> QED
    BY <2>2, <1>1, NumbersGrow DEF Stored
<1>6. cIn <= Len(log') + 1
  <2>1. Len(log) \in Nat /\ Len(msgs) \in Nat
    BY <1>1
  <2> QED
    BY <2>1, <1>1, <1>2
<1> QED
  BY <1>2, <1>3, <1>4, <1>5, <1>6

\* send.
LEMMA SendWell ==
    ASSUME LinkInv, NEW msgs \in Seq(Fresh), Send(msgs)
    PROVE  SentWell
<1>1. log' = Stored(log, msgs)
  BY DEF Send
<1> QED
  BY <1>1, StoredWell DEF Send, SentWell

\* Sending nothing.
LEMMA QuietWell ==
    ASSUME LinkInv, UNCHANGED << log, wire >>
    PROVE  SentWell
<1>1. InFlight(wire, log, cIn) /\ log' = log /\ wire' = wire
  BY LinkFacts
<1> QED
  BY <1>1, LinkFacts DEF SentWell

\* The last messages of a connection, and what the application reports after them.
LEMMA LastWordsWell ==
    ASSUME LinkInv, NEW msgs \in Seq(Fresh), NEW n \in Nat, NEW w, InFlight(w, log, cIn),
           log' = Stored(Stored(log, msgs), AppReports(n)),
           wire' = w \o Numbered(log, msgs)
    PROVE  SentWell
<1> DEFINE k == Stored(log, msgs)
           v == w \o Numbered(log, msgs)
           x == [i \in 1..Len(msgs) |-> Kind(msgs[i])]
           y == [i \in 1..Len(AppReports(n)) |-> Kind(AppReports(n)[i])]
<1>1. /\ log \in Seq(Kinds) /\ cIn \in Nat /\ cIn <= Len(log) + 1
      /\ Len(log) \in Nat /\ Len(msgs) \in Nat
  BY LinkFacts
<1>2. AppReports(n) \in Seq(Fresh) /\ Len(AppReports(n)) \in Nat
  <2>1. AppReports(n) \in Seq(Fresh)
    BY FreshMessages
  <2> QED
    BY <2>1
<1>3. k \in Seq(Kinds) /\ InFlight(v, k, cIn) /\ Len(k) = Len(log) + Len(msgs)
  BY <1>1, FlightSent, FreshTold
<1>4. \A m : Kind(m) \in Kinds
  BY DEF Kind, Kinds
<1>5. x \in Seq(Kinds) /\ y \in Seq(Kinds)
  <2>1. x \in Seq(Kinds)
    BY <1>1, <1>4
  <2>2. y \in Seq(Kinds)
    BY <1>2, <1>4
  <2> QED
    BY <2>1, <2>2
<1>6. k = log \o x /\ log' = k \o y /\ log' = Stored(k, AppReports(n)) /\ wire' = v
  BY DEF Stored
<1> HIDE DEF k, v, x, y
<1>7. cIn <= Len(k) + 1 /\ Len(k) \in Nat
  BY <1>1, <1>3
<1>8. log' \in Seq(Kinds) /\ InFlight(v, log', cIn)
  BY <1>1, <1>2, <1>3, <1>6, <1>7, FlightSent
<1>9. Len(log') = Len(k) + Len(AppReports(n))
  <2>1. Len(Stored(k, AppReports(n))) = Len(k) + Len(AppReports(n))
    BY <1>2, <1>3, FreshTold
  <2> QED
    BY <2>1, <1>6
<1>10. NumbersOf(log', "APP", cIn) = NumbersOf(log, "APP", cIn)
  <2>1. NumbersOf(log \o x, "APP", cIn) = NumbersOf(log, "APP", cIn)
    BY <1>1, <1>5, NumbersGrow
  <2>2. NumbersOf(k \o y, "APP", cIn) = NumbersOf(k, "APP", cIn)
    BY <1>1, <1>3, <1>5, <1>7, NumbersGrow
  <2> QED
    BY <2>1, <2>2, <1>6
<1>11. cIn <= Len(log') + 1
  BY <1>1, <1>2, <1>7, <1>9
<1> QED
  BY <1>6, <1>8, <1>10, <1>11 DEF SentWell

\* SendAndDisconnect.
LEMMA DisconnectWell ==
    ASSUME LinkInv, ReportsAssumption, NEW msgs \in Seq(Fresh), SendAndDisconnect(msgs)
    PROVE  SentWell /\ state' = "DISCONNECTED" /\ pending' = {} /\ ReplayOpen'
<1>1. PICK n \in Reports : log' = Stored(Stored(log, msgs), AppReports(n))
  BY DEF SendAndDisconnect
<1>2. n \in Nat /\ InFlight(wire, log, cIn)
  BY ReportsAssumption, LinkFacts
<1>3. /\ wire' = wire \o Numbered(log, msgs) /\ state' = "DISCONNECTED" /\ pending' = {}
  BY DEF SendAndDisconnect
<1> QED
  BY <1>1, <1>2, <1>3, LastWordsWell DEF ReplayOpen

----------------------------------------------------------------------------
(* Each step of the session *)

\* The facts of a message of the client.
LEMMA ToldFacts ==
    ASSUME LinkInv, NEW m \in Told(cLog)
    PROVE  /\ m \in FixMessages /\ m.seq \in Nat /\ After(m) \in Nat
           /\ 1 <= m.seq /\ m.seq < After(m) /\ After(m) <= Len(cLog) + 1
           /\ m.lo \in Nat /\ m.hi \in Nat /\ m.flag \in BOOLEAN /\ m.dup \in BOOLEAN
           /\ m.fault = "NONE" \/ (m.fault = "FIELDS" /\ m.type = "APP")
BY DEF Told, After, FixMessages

\* The expected number passes over a message that is no valid application message.
LEMMA PassedWell ==
    ASSUME LinkInv, NEW m \in Told(cLog), ~(m.type = "APP" /\ m.fault = "NONE"),
           m.seq = nextIn, nextIn' = After(m), delivered' = delivered
    PROVE  /\ nextIn' \in Nat \ {0} /\ nextIn' <= Len(cLog) + 1
           /\ delivered' \in Seq(Nat)
           /\ Ascends(delivered', NumbersOf(cLog, "APP", nextIn') \ events.cut)
           /\ events.cut \subseteq 1..(nextIn' - 1)
<1>1. NumbersOf(cLog, "APP", After(m)) = NumbersOf(cLog, "APP", m.seq)
  BY NumbersPassed, LinkFacts
<1>2. events.cut \subseteq 1..(nextIn' - 1)
  <2>1. nextIn <= nextIn' /\ nextIn \in Nat /\ nextIn' \in Nat
    BY ToldFacts
  <2>2. events.cut \subseteq 1..(nextIn - 1)
    BY LinkFacts
  <2> QED
    BY <2>1, <2>2
<1>3. nextIn' \in Nat \ {0} /\ nextIn' <= Len(cLog) + 1
  BY ToldFacts
<1>4. /\ delivered' \in Seq(Nat)
      /\ Ascends(delivered', NumbersOf(cLog, "APP", nextIn') \ events.cut)
  BY <1>1, LinkFacts
<1> QED
  BY <1>2, <1>3, <1>4

\* It stays, and nothing is delivered.
LEMMA NothingTaken ==
    ASSUME LinkInv, UNCHANGED << nextIn, delivered >>
    PROVE  /\ nextIn' \in Nat \ {0} /\ nextIn' <= Len(cLog) + 1
           /\ delivered' \in Seq(Nat)
           /\ Ascends(delivered', NumbersOf(cLog, "APP", nextIn') \ events.cut)
           /\ events.cut \subseteq 1..(nextIn' - 1)
BY LinkFacts

\* A valid application message is delivered.
LEMMA TakenWell ==
    ASSUME LinkInv, NEW m \in Told(cLog), m.type = "APP", m.fault = "NONE",
           m.seq = nextIn, nextIn' = m.seq + 1, delivered' = Append(delivered, m.seq)
    PROVE  /\ nextIn' \in Nat \ {0} /\ nextIn' <= Len(cLog) + 1
           /\ delivered' \in Seq(Nat)
           /\ Ascends(delivered', NumbersOf(cLog, "APP", nextIn') \ events.cut)
           /\ events.cut \subseteq 1..(nextIn' - 1)
<1>1. NumbersOf(cLog, "APP", m.seq + 1) = NumbersOf(cLog, "APP", m.seq) \cup {m.seq}
  BY NumbersTaken, LinkFacts
<1> DEFINE before == NumbersOf(cLog, "APP", m.seq) \ events.cut
<1>2. before \in SUBSET (1..(m.seq - 1))
  BY DEF NumbersOf
<1>3. Ascends(delivered, before) /\ m.seq \in Nat /\ delivered \in Seq(Nat)
  BY LinkFacts, ToldFacts
<1>4. /\ Ascends(Append(delivered, m.seq), before \cup {m.seq})
      /\ Append(delivered, m.seq) \in Seq(Nat)
  <2> HIDE DEF before
  <2> QED
    BY <1>2, <1>3, AscendsOn
<1>5. nextIn' \in Nat \ {0} /\ nextIn' <= Len(cLog) + 1
  BY ToldFacts DEF After
<1>6. events.cut \subseteq 1..(m.seq - 1) /\ m.seq \in Nat
  BY LinkFacts, ToldFacts
<1>7. /\ events.cut \subseteq 1..(nextIn' - 1)
      /\ before \cup {m.seq} = (NumbersOf(cLog, "APP", m.seq) \cup {m.seq}) \ events.cut
  BY <1>6
<1> QED
  BY <1>1, <1>4, <1>5, <1>7

\* A loop that is not running, or whose connection is gone, says nothing.
LEMMA ReplayIdle ==
    ASSUME LinkInv, replaying' = replaying, state' = state,
           ~replaying.on \/ log' = log
    PROVE  replaying' \in LoopType /\ ReplayOpen'
<1>1. replaying' \in LoopType
  BY LinkFacts
<1>2. ReplayOpen'
  <2>1. CASE ~replaying.on
    BY <2>1 DEF ReplayOpen
  <2>2. CASE log' = log
    BY <2>2 DEF LinkInv, ReplayOpen
  <2> QED
    BY <2>1, <2>2
<1> QED
  BY <1>1, <1>2

\* Dispatch of the client's next message.
LEMMA DispatchWell ==
    ASSUME LinkInv, ReportsAssumption, NEW m \in Told(cLog),
           NEW rest \in SUBSET Told(cLog), \A t \in rest : t.fault = "NONE",
           m.fault = "NONE",
           m.seq = nextIn, ~replaying.on, Dispatch(m, rest)
    PROVE  VenueKeeps
<1>1. /\ m \in FixMessages /\ m.seq \in Nat /\ After(m) \in Nat
      /\ m.seq < After(m) /\ m.lo \in Nat /\ m.hi \in Nat
      /\ log \in Seq(Kinds) /\ Len(log) \in Nat
      /\ state \in {"DISCONNECTED", "ACTIVE"}
  BY ToldFacts, LinkFacts
<1>2. CASE DispatchQuiet(m, rest)
  <2>1. /\ nextIn' = After(m) /\ m.type # "APP"
        /\ UNCHANGED << state, log, wire, replaying, delivered >> /\ pending' = rest
    BY <1>2 DEF DispatchQuiet, After
  <2> QED
    BY <1>1, <2>1, PassedWell, QuietWell, ReplayIdle DEF VenueKeeps
<1>3. CASE DispatchTestRequest(m, rest)
  <2>1. /\ nextIn' = After(m) /\ m.type # "APP"
        /\ Send(<< Msg("HEARTBEAT") >>)
        /\ UNCHANGED << state, replaying, delivered >> /\ pending' = rest
    BY <1>3 DEF DispatchTestRequest, After
  <2>2. SentWell
    BY <2>1, FreshMessages, SendWell
  <2> QED
    BY <1>1, <2>1, <2>2, PassedWell, ReplayIdle DEF VenueKeeps
<1>4. CASE DispatchResendRequest(m, rest)
  <2>1. /\ nextIn' = After(m) /\ m.type # "APP"
        /\ replaying' = ReplayRange(m.lo, m.hi)
        /\ UNCHANGED << state, log, wire, delivered >> /\ pending' = rest
        /\ m.lo >= 1 /\ m.hi = 0
    BY <1>4 DEF DispatchResendRequest, After, Told
  <2>2. replaying' = [at |-> m.lo, gap |-> NoSeq, on |-> TRUE, upper |-> Len(log)]
    BY <1>1, <2>1 DEF ReplayRange, Infinity, NextOut
  <2>3. replaying' \in LoopType
    <3>1. m.lo \in Nat /\ Len(log) \in Nat
      BY <1>1
    <3> QED
      BY <3>1, <2>2 DEF LoopType
  <2>4. ReplayOpen'
    BY <1>1, <2>1, <2>2 DEF ReplayOpen
  <2> QED
    BY <1>1, <2>1, <2>3, <2>4, PassedWell, QuietWell DEF VenueKeeps
<1>5. CASE DispatchSequenceReset(m, rest)
  <2>1. m.hi = After(m) /\ m.type # "APP"
    BY <1>5 DEF DispatchSequenceReset, After
  <2>2. ~(m.hi < nextIn)
    BY <1>1, <2>1
  <2>3. /\ nextIn' = After(m)
        /\ UNCHANGED << log, wire, state, replaying, delivered >> /\ pending' = rest
    BY <1>5, <2>1, <2>2 DEF DispatchSequenceReset
  <2> QED
    BY <1>1, <2>1, <2>3, PassedWell, QuietWell, ReplayIdle DEF VenueKeeps
<1>6. CASE DispatchLogout(m)
  <2>1. /\ nextIn' = After(m) /\ m.type # "APP"
        /\ SendAndDisconnect(<< Msg("LOGOUT") >>)
        /\ UNCHANGED << replaying, delivered >>
    BY <1>6 DEF DispatchLogout, After
  <2>2. SentWell /\ state' = "DISCONNECTED" /\ pending' = {} /\ ReplayOpen'
    BY <2>1, FreshMessages, DisconnectWell
  <2> QED
    BY <2>1, <2>2, PassedWell, LinkFacts DEF VenueKeeps
<1>7. CASE DispatchApp(m, rest)
  <2>1. /\ m.type = "APP" /\ nextIn' = m.seq + 1
        /\ delivered' = Append(delivered, m.seq)
        /\ UNCHANGED << state, replaying >> /\ pending' = rest
    BY <1>7 DEF DispatchApp
  <2>2. SentWell
    <3>1. CASE Send(<< Msg("REJECT") >>)
      BY <3>1, FreshMessages, SendWell
    <3>2. CASE \E n \in Reports : Send(AppReports(n))
      <4>1. PICK n \in Reports : Send(AppReports(n))
        BY <3>2
      <4>2. n \in Nat
        BY ReportsAssumption
      <4> QED
        BY <4>1, <4>2, FreshMessages, SendWell
    <3> QED
      BY <3>1, <3>2, <1>7 DEF DispatchApp
  <2> QED
    BY <1>1, <2>1, <2>2, TakenWell, ReplayIdle DEF VenueKeeps
<1> QED
  BY <1>2, <1>3, <1>4, <1>5, <1>6, <1>7 DEF Dispatch

\* Receiving a message of the client.
LEMMA ReceiveWell ==
    ASSUME LinkInv, ReportsAssumption, NEW m \in Told(cLog), Receive(m)
    PROVE  VenueKeeps
<1>1. /\ m \in FixMessages /\ m.seq \in Nat /\ nextIn \in Nat \ {0}
      /\ m.fault = "NONE" \/ (m.fault = "FIELDS" /\ m.type = "APP")
      /\ state = "ACTIVE" /\ ~replaying.on /\ pending \subseteq Told(cLog)
      /\ \A t \in pending : t.fault = "NONE"
      /\ replaying \in LoopType
  BY ToldFacts, LinkFacts DEF Receive, Busy
<1>2. CASE ReceiveFatal(m)
  <2>1. SendAndDisconnect(<< Msg("LOGOUT") >>) /\ Keep
    BY <1>1, <1>2 DEF ReceiveFatal
  <2>2. SentWell /\ state' = "DISCONNECTED" /\ pending' = {} /\ ReplayOpen'
    BY <2>1, FreshMessages, DisconnectWell
  <2> QED
    BY <1>1, <2>1, <2>2, NothingTaken DEF VenueKeeps, Keep
<1>3. CASE ReceiveInvalid(m)
  <2>1. /\ m.fault = "FIELDS" /\ m.type = "APP"
        /\ Send(<< Msg("REJECT") >>)
        /\ UNCHANGED << state, pending, replaying, delivered >>
    BY <1>1, <1>3 DEF ReceiveInvalid
  <2>2. SentWell
    BY <2>1, FreshMessages, SendWell
  <2>3. /\ nextIn' \in Nat \ {0} /\ nextIn' <= Len(cLog) + 1
        /\ delivered' \in Seq(Nat)
        /\ Ascends(delivered', NumbersOf(cLog, "APP", nextIn') \ events.cut)
        /\ events.cut \subseteq 1..(nextIn' - 1)
    <3>1. CASE m.seq = nextIn
      <4>1. nextIn' = After(m)
        BY <3>1, <1>3, <2>1 DEF ReceiveInvalid, After
      <4> QED
        BY <3>1, <4>1, <2>1, PassedWell
    <3>2. CASE m.seq # nextIn
      BY <3>2, <1>3, <2>1, NothingTaken DEF ReceiveInvalid
    <3> QED
      BY <3>1, <3>2
  <2> QED
    BY <1>1, <2>1, <2>2, <2>3, ReplayIdle DEF VenueKeeps
<1>4. CASE ReceiveCurrent(m)
  <2>1. m.fault = "NONE" /\ Dispatch(m, pending)
    BY <1>4 DEF ReceiveCurrent, Checked
  <2>2. m.seq = nextIn
    BY <1>4 DEF ReceiveCurrent, IsReset, Told
  <2> QED
    BY <2>1, <2>2, <1>1, DispatchWell
<1>5. CASE ReceiveHigh(m)
  <2>1. /\ pending' \subseteq Told(cLog) /\ \A t \in pending' : t.fault = "NONE"
        /\ UNCHANGED << state, nextIn, replaying, delivered >>
    BY <1>1, <1>5 DEF ReceiveHigh, Checked
  <2>2. SentWell
    <3> DEFINE r == [Msg("RESEND_REQUEST") EXCEPT !.lo = nextIn]
    <3>1. r \in Fresh
      <4>1. Msg("RESEND_REQUEST") \in FixMessages
        BY MsgType DEF Types, Admin
      <4>2. r \in FixMessages
        BY <1>1, <4>1 DEF FixMessages
      <4>3. /\ r.type = "RESEND_REQUEST" /\ r.fault = "NONE" /\ ~r.dup
            /\ r.lo = nextIn /\ r.hi = 0
        BY DEF Msg
      <4> HIDE DEF r
      <4> QED
        BY <1>1, <4>2, <4>3 DEF Fresh
    <3>2. << r >> \in Seq(Fresh)
      BY <3>1
    <3>3. CASE resendRequested
      BY <3>3, <1>5, QuietWell DEF ReceiveHigh
    <3>4. CASE ~resendRequested
      <4>1. Send(<< r >>)
        BY <3>4, <1>5 DEF ReceiveHigh
      <4> HIDE DEF r
      <4> QED
        BY <4>1, <3>2, SendWell
    <3> QED
      BY <3>3, <3>4
  <2> QED
    BY <1>1, <2>1, <2>2, NothingTaken, ReplayIdle DEF VenueKeeps
<1>6. CASE ReceiveLow(m)
  <2>1. UNCHANGED << nextIn, replaying, delivered >>
    BY <1>6 DEF ReceiveLow, Keep
  <2>2. CASE UNCHANGED << state, log, wire, pending >>
    BY <2>1, <2>2, <1>1, NothingTaken, QuietWell, ReplayIdle DEF VenueKeeps
  <2>3. CASE SendAndDisconnect(<< >>) \/ SendAndDisconnect(<< Msg("LOGOUT") >>)
    <3>1. SentWell /\ state' = "DISCONNECTED" /\ pending' = {} /\ ReplayOpen'
      BY <2>3, FreshMessages, DisconnectWell
    <3> QED
      BY <1>1, <2>1, <3>1, NothingTaken DEF VenueKeeps
  <2> QED
    BY <2>2, <2>3, <1>6 DEF ReceiveLow
<1> QED
  BY <1>2, <1>3, <1>4, <1>5, <1>6 DEF Receive

\* A report sent again is told as it was used, and so is an invalid message.
LEMMA ResentTold ==
    ASSUME NEW S, NEW l \in Seq(S), NEW p \in 1..Len(l)
    PROVE  /\ l[p] = "APP" =>
                Resent(p) \in Told(l) /\ Resent(p).fault = "NONE" /\ Resent(p).dup
           /\ l[p] # "APP" => [Resent(p) EXCEPT !.fault = "FIELDS"] \in Told(l)
<1>1. /\ p \in Nat /\ Len(l) \in Nat /\ 1 <= p /\ p <= Len(l)
  OBVIOUS
<1>2. /\ Resent(p) \in FixMessages
      /\ Resent(p).seq = p /\ Resent(p).type = "APP" /\ Resent(p).fault = "NONE"
      /\ Resent(p).dup
  BY <1>1, GapFillType DEF Resent, Msg
<1>3. l[p] = "APP" => Resent(p) \in Told(l)
  BY <1>1, <1>2 DEF Told, After
<1>4. l[p] # "APP" => [Resent(p) EXCEPT !.fault = "FIELDS"] \in Told(l)
  <2> DEFINE f == [Resent(p) EXCEPT !.fault = "FIELDS"]
  <2>1. /\ f \in FixMessages /\ f.seq = p /\ f.type = "APP" /\ f.fault = "FIELDS"
    BY <1>2 DEF FixMessages, Faults
  <2> HIDE DEF f
  <2>2. After(f) = p + 1 /\ \A n \in p..((p + 1) - 1) : n = p
    BY <1>1, <2>1 DEF After
  <2>3. l[p] # "APP" => f \in Told(l)
    BY <1>1, <2>1, <2>2 DEF Told
  <2> QED
    BY <2>3 DEF f
<1> QED
  BY <1>2, <1>3, <1>4

\* So is a gap fill over numbers without a report.
LEMMA GapFillTold ==
    ASSUME NEW S, NEW l \in Seq(S), NEW p \in 1..Len(l),
           NEW q \in (p + 1)..(Len(l) + 1), \A n \in p..(q - 1) : l[n] # "APP"
    PROVE  GapFill(p, q) \in Told(l) /\ GapFill(p, q).fault = "NONE" /\ GapFill(p, q).dup
<1> DEFINE f == GapFill(p, q)
<1>1. /\ p \in Nat /\ q \in Nat /\ Len(l) \in Nat /\ 1 <= p
  OBVIOUS
<1>2. /\ f \in FixMessages /\ f.seq = p /\ f.type = "SEQUENCE_RESET"
      /\ f.fault = "NONE" /\ f.hi = q /\ f.flag /\ f.dup
  <2>1. f \in FixMessages
    BY <1>1, GapFillType
  <2> QED
    BY <2>1 DEF GapFill, Msg
<1> HIDE DEF f
<1>3. After(f) = q /\ p < q /\ q <= Len(l) + 1
  BY <1>1, <1>2 DEF After
<1>4. \A n \in f.seq..(After(f) - 1) : l[n] # "APP"
  BY <1>2, <1>3
<1>5. f \in Told(l)
  BY <1>1, <1>2, <1>3, <1>4 DEF Told
<1> QED
  BY <1>2, <1>5 DEF f

\* The client's Logon.
LEMMA ConnectWell ==
    ASSUME LinkInv, ~ResetOnLogon, ReportsAssumption, ConfigAssumption,
           NEW m \in Told(cLog), Connect(m)
    PROVE  VenueKeeps
<1>1. /\ m \in FixMessages /\ m.seq \in Nat /\ m.lo \in Nat
      /\ nextIn \in Nat \ {0}
      /\ m.fault = "NONE" \/ (m.fault = "FIELDS" /\ m.type = "APP")
      /\ state = "DISCONNECTED" /\ ~replaying.on /\ pending \subseteq Told(cLog)
      /\ \A t \in pending : t.fault = "NONE"
      /\ replaying \in LoopType /\ log \in Seq(Kinds) /\ Len(log) \in Nat
  BY ToldFacts, LinkFacts DEF Connect, Busy
<1>2. m.type = "LOGON" => ~WantsReset(m)
  BY DEF WantsReset, Told
<1>3. ASSUME Refuse(log, nextIn), delivered' = delivered
      PROVE  VenueKeeps
  <2>1. PICK n \in Reports :
            log' = Stored(Stored(log, << Msg("LOGOUT") >>), AppReports(n))
    BY <1>3 DEF Refuse
  <2>2. << Msg("LOGOUT") >> \in Seq(Fresh) /\ n \in Nat
    BY FreshMessages, ReportsAssumption
  <2>3. wire' = << >> \o Numbered(log, << Msg("LOGOUT") >>)
    <3>1. wire' = Numbered(log, << Msg("LOGOUT") >>)
      BY <1>3 DEF Refuse
    <3>2. Numbered(log, << Msg("LOGOUT") >>) \in
              Seq({t \in Told(Stored(log, << Msg("LOGOUT") >>)) : t.fault = "NONE"})
      BY <1>1, <2>2, FreshTold
    <3> QED
      BY <3>1, <3>2
  <2>4. SentWell
    BY <2>1, <2>2, <2>3, NothingInFlight, LastWordsWell
  <2>5. UNCHANGED << nextIn, state, pending, replaying, delivered >>
    BY <1>3 DEF Refuse
  <2>6. replaying' \in LoopType /\ ReplayOpen'
    BY <1>1, <2>5, ReplayIdle
  <2> QED
    BY <1>1, <2>4, <2>5, <2>6, NothingTaken DEF VenueKeeps
<1>4. CASE ConnectRefused(m)
  <2>1. CASE RefusedOutright(m) /\ Refuse(log, nextIn) /\ UNCHANGED delivered
    BY <2>1, <1>3
  <2>2. CASE /\ ~RefusedOutright(m)
             /\ Refuse(LogAfterReset(m), NextInAfterReset(m))
             /\ delivered' = IF WantsReset(m) THEN << >> ELSE delivered
    <3>1. m.type = "LOGON"
      BY <2>2 DEF RefusedOutright
    <3> QED
      BY <3>1, <2>2, <1>2, <1>3 DEF LogAfterReset, NextInAfterReset
  <2> QED
    BY <2>1, <2>2, <1>4 DEF ConnectRefused
<1>5. CASE ConnectAccepted(m)
  <2> DEFINE inOrder == m.seq = nextIn \/ m.fault = "UNNUMBERED"
             answer  == [Msg("LOGON") EXCEPT
                            !.flag = WantsReset(m),
                            !.lo = IF NextExpected THEN ExpectedFromClient(m, nextIn)
                                   ELSE 0]
             request == [Msg("RESEND_REQUEST") EXCEPT !.lo = nextIn]
             msgs    == LogonAnswer(answer, request, inOrder)
  <2>1. m.type = "LOGON" /\ m.fault = "NONE" /\ ~WantsReset(m)
    BY <1>1, <1>2, <1>5 DEF ConnectAccepted, RefusedOutright
  <2>2. LogAfterReset(m) = log /\ NextInAfterReset(m) = nextIn
    BY <2>1 DEF LogAfterReset, NextInAfterReset
  <2>3. /\ ~RefusedAfterReset(m)
        /\ state' = "ACTIVE"
        /\ nextIn' = IF inOrder THEN m.seq + 1 ELSE nextIn
        /\ pending' = IF inOrder THEN {} ELSE {m}
        /\ replaying' = IF NextExpected /\ m.lo < Len(log) + 1
                        THEN [at |-> m.lo, upper |-> Len(log) + 1,
                              gap |-> NoSeq, on |-> TRUE]
                        ELSE NoReplay
        /\ delivered' = delivered
    BY <1>5, <2>1, <2>2 DEF ConnectAccepted
  <2>4. PICK n \in Greetings :
            /\ log' = Stored(log, msgs \o AppReports(n))
            /\ wire' = Numbered(log, msgs \o AppReports(n))
    BY <1>5, <2>2 DEF ConnectAccepted
  <2>5. n \in Nat /\ (NextExpected => n = 0)
    BY ReportsAssumption DEF Greetings
  <2>6. answer \in Fresh
    <3>1. Msg("LOGON") \in FixMessages
      BY MsgType DEF Types, Admin
    <3>2. ExpectedFromClient(m, nextIn) \in Nat /\ ExpectedFromClient(m, nextIn) >= 1
      BY <1>1 DEF ExpectedFromClient
    <3>3. answer \in FixMessages
      <4> DEFINE lo == IF NextExpected THEN ExpectedFromClient(m, nextIn) ELSE 0
      <4>1. WantsReset(m) \in BOOLEAN /\ lo \in Nat
        <5>1. m.flag \in BOOLEAN
          BY ToldFacts
        <5>2. WantsReset(m) \in BOOLEAN
          BY <5>1, ConfigAssumption DEF WantsReset
        <5> QED
          BY <5>2, <3>2
      <4> HIDE DEF lo
      <4>2. [Msg("LOGON") EXCEPT !.flag = WantsReset(m), !.lo = lo] \in FixMessages
        BY <3>1, <4>1, AnswerType
      <4> QED
        BY <4>2 DEF lo
    <3>4. /\ answer.type = "LOGON" /\ answer.fault = "NONE" /\ ~answer.dup
          /\ ~answer.flag /\ (NextExpected => answer.lo = ExpectedFromClient(m, nextIn))
      BY <2>1 DEF Msg
    <3> HIDE DEF answer
    <3> QED
      BY <3>2, <3>3, <3>4 DEF Fresh
  <2>7. request \in Fresh
    <3>1. Msg("RESEND_REQUEST") \in FixMessages
      BY MsgType DEF Types, Admin
    <3>2. request \in FixMessages
      BY <1>1, <3>1 DEF FixMessages
    <3>3. /\ request.type = "RESEND_REQUEST" /\ request.fault = "NONE" /\ ~request.dup
          /\ request.lo = nextIn /\ request.hi = 0
      BY DEF Msg
    <3> HIDE DEF request
    <3> QED
      BY <1>1, <3>2, <3>3 DEF Fresh
  <2>8. /\ msgs \in Seq(Fresh)
        /\ NextExpected => Len(msgs) = 1
    <3> HIDE DEF answer, request, inOrder
    <3> QED
      BY <2>6, <2>7 DEF LogonAnswer
  <2>9. AppReports(n) \in Seq(Fresh) /\ Len(AppReports(n)) = n
    <3>1. Len(AppReports(n)) = n
      BY <2>5 DEF AppReports
    <3> QED
      BY <2>5, <3>1, FreshMessages
  <2> HIDE DEF answer, request, msgs
  <2> DEFINE all == msgs \o AppReports(n)
  <2>10. all \in Seq(Fresh) /\ Len(all) = Len(msgs) + n
    BY <2>8, <2>9
  <2>11. SentWell
    <3>1. log' = Stored(log, all) /\ wire' = Numbered(log, all)
      BY <2>4
    <3>2. << >> \o Numbered(log, all) = Numbered(log, all)
      <4>1. Numbered(log, all) \in Seq({t \in Told(Stored(log, all)) : t.fault = "NONE"})
        BY <1>1, <2>10, FreshTold
      <4> HIDE DEF all
      <4> QED
        BY <4>1
    <3> HIDE DEF all
    <3> QED
      BY <2>10, <3>1, <3>2, StoredWell DEF SentWell
  <2>12. NextExpected => Len(log') = Len(log) + 1
    <3>1. Len(Stored(log, all)) = Len(log) + Len(all)
      <4> HIDE DEF all
      <4> QED
        BY <1>1, <2>10, FreshTold
    <3>2. log' = Stored(log, all)
      BY <2>4
    <3>3. Len(log) \in Nat /\ (NextExpected => Len(all) = 1)
      <4>1. Len(log) \in Nat
        BY <1>1
      <4>2. NextExpected => n = 0 /\ Len(msgs) = 1 /\ Len(all) = Len(msgs) + n
        BY <2>5, <2>8, <2>10
      <4> HIDE DEF all
      <4> QED
        BY <4>1, <4>2
    <3> QED
      BY <3>1, <3>2, <3>3
  <2>13. /\ replaying' \in LoopType /\ ReplayOpen'
    <3>1. CASE NextExpected /\ m.lo < Len(log) + 1
      <4>1. replaying' = [at |-> m.lo, upper |-> Len(log) + 1, gap |-> NoSeq, on |-> TRUE]
        BY <3>1, <2>3
      <4>2. m.lo >= 1
        BY <2>1, <3>1 DEF Told
      <4>3. replaying' \in LoopType
        <5>1. m.lo \in Nat /\ Len(log) + 1 \in Nat
          BY <1>1
        <5> QED
          BY <4>1, <5>1 DEF LoopType
      <4>4. ReplayOpen'
        BY <4>1, <4>2, <3>1, <2>12 DEF ReplayOpen
      <4> QED
        BY <4>3, <4>4
    <3>2. CASE ~(NextExpected /\ m.lo < Len(log) + 1)
      BY <3>2, <2>3 DEF NoReplay, LoopType, ReplayOpen, NoSeq
    <3> QED
      BY <3>1, <3>2
  <2>14. /\ nextIn' \in Nat \ {0} /\ nextIn' <= Len(cLog) + 1
         /\ delivered' \in Seq(Nat)
         /\ Ascends(delivered', NumbersOf(cLog, "APP", nextIn') \ events.cut)
         /\ events.cut \subseteq 1..(nextIn' - 1)
    <3>1. CASE inOrder
      <4>1. m.seq = nextIn /\ nextIn' = After(m)
        BY <3>1, <2>1, <2>3 DEF After
      <4> QED
        BY <4>1, <2>1, <2>3, PassedWell
    <3>2. CASE ~inOrder
      BY <3>2, <2>3, NothingTaken
    <3> QED
      BY <3>1, <3>2
  <2> QED
    BY <2>1, <2>3, <2>11, <2>13, <2>14 DEF VenueKeeps
<1> QED
  BY <1>4, <1>5 DEF Connect

\* An iteration of a loop.
LEMMA LoopWell ==
    ASSUME LinkInv, ReportsAssumption, Loop
    PROVE  VenueKeeps
<1>1. /\ log \in Seq(Kinds) /\ Len(log) \in Nat /\ InFlight(wire, log, cIn)
      /\ pending \subseteq Told(cLog) /\ \A m \in pending : m.fault = "NONE"
      /\ nextIn \in Nat \ {0}
      /\ state \in {"DISCONNECTED", "ACTIVE"} /\ replaying \in LoopType
      /\ replaying.at \in Nat /\ replaying.upper \in Nat \cup {NoSeq}
      /\ replaying.gap \in Nat \cup {NoSeq} /\ replaying.on \in BOOLEAN
  BY LinkFacts DEF LoopType
<1>2. CASE DrainNext
  <2>1. PICK m \in pending : m.seq = nextIn /\ Dispatch(m, pending \ {m})
    BY <1>2 DEF DrainNext
  <2>2. m \in Told(cLog) /\ pending \ {m} \in SUBSET Told(cLog) /\ ~replaying.on
    BY <1>1, <1>2 DEF DrainNext
  <2> QED
    BY <1>1, <2>1, <2>2, DispatchWell
<1>3. CASE DrainEnd
  <2>1. UNCHANGED << state, log, nextIn, pending, replaying, wire, delivered >>
    BY <1>3 DEF DrainEnd
  <2> QED
    BY <1>1, <2>1, NothingTaken, QuietWell, ReplayIdle DEF VenueKeeps
<1>4. CASE ReplaySkip
  <2>1. /\ replaying.on /\ replaying.at <= replaying.upper /\ ~Replayable(replaying.at)
        /\ replaying' = [replaying EXCEPT
                           !.at = @ + 1,
                           !.gap = IF @ = NoSeq THEN replaying.at ELSE @]
        /\ UNCHANGED << state, log, nextIn, pending, wire, delivered >>
    BY <1>4 DEF ReplaySkip
  <2>2. replaying' \in LoopType
    BY <1>1, <2>1, LoopStepType
  <2>3. ReplayOpen'
    <3> SUFFICES ASSUME state = "ACTIVE" PROVE ReplayOpen'
      BY <2>1 DEF ReplayOpen
    <3>1. /\ replaying.upper = Len(log) /\ replaying.at >= 1
          /\ replaying.gap # NoSeq =>
              /\ 1 <= replaying.gap
              /\ replaying.gap < replaying.at
              /\ \A n \in replaying.gap..(replaying.at - 1) : log[n] # "APP"
      BY <2>1 DEF LinkInv, ReplayOpen
    <3>2. replaying.at \in 1..Len(log) /\ log[replaying.at] # "APP"
      BY <1>1, <2>1, <3>1 DEF Replayable
    <3>3. /\ replaying'.upper = Len(log) /\ replaying'.at = replaying.at + 1
          /\ replaying'.gap = IF replaying.gap = NoSeq THEN replaying.at ELSE replaying.gap
      BY <1>1, <2>1, <3>1 DEF LoopType
    <3>4. /\ 1 <= replaying'.gap /\ replaying'.gap < replaying'.at
          /\ replaying'.at <= replaying'.upper + 1
      BY <1>1, <3>1, <3>2, <3>3 DEF NoSeq
    <3>5. \A n \in replaying'.gap..(replaying'.at - 1) : log[n] # "APP"
      BY <1>1, <3>1, <3>2, <3>3 DEF NoSeq
    <3> QED
      BY <1>1, <2>1, <3>3, <3>4, <3>5 DEF ReplayOpen
  <2> QED
    BY <1>1, <2>1, <2>2, <2>3, NothingTaken, QuietWell DEF VenueKeeps
<1>5. CASE ReplayOne
  <2> DEFINE one == << Resent(replaying.at) >>
             two == << GapFill(replaying.gap, replaying.at), Resent(replaying.at) >>
  <2>1. /\ replaying.on /\ replaying.at <= replaying.upper /\ Replayable(replaying.at)
        /\ Transmit(IF replaying.gap = NoSeq THEN one ELSE two)
        /\ replaying' = [replaying EXCEPT !.at = @ + 1, !.gap = NoSeq]
        /\ UNCHANGED << state, log, nextIn, pending, delivered >>
    BY <1>5 DEF ReplayOne
  <2>2. replaying' \in LoopType
    BY <1>1, <2>1, LoopStepType
  <2>3. ReplayOpen'
    <3>1. replaying'.gap = NoSeq /\ replaying'.upper = replaying.upper
          /\ replaying'.at = replaying.at + 1
      BY <1>1, <2>1 DEF LoopType
    <3> QED
      BY <1>1, <2>1, <3>1 DEF LinkInv, ReplayOpen
  <2>4. SentWell
    <3>1. CASE state # "ACTIVE"
      BY <3>1, <2>1, QuietWell DEF Transmit
    <3>2. CASE state = "ACTIVE"
      <4>1. replaying.at \in 1..Len(log) /\ log[replaying.at] = "APP"
        BY <2>1 DEF Replayable
      <4>2. /\ Resent(replaying.at) \in Told(log)
            /\ Resent(replaying.at).fault = "NONE" /\ Resent(replaying.at).dup
        BY <4>1, <1>1, ResentTold
      <4>3. CASE replaying.gap = NoSeq
        <5>1. wire' = Append(wire, Resent(replaying.at))
          BY <4>3, <3>2, <2>1, <1>1 DEF Transmit, InFlight
        <5>2. InFlight(wire', log, cIn)
          BY <5>1, <4>2, <1>1, FlightReplayed
        <5> QED
          BY <5>2, <2>1, LinkFacts DEF SentWell
      <4>4. CASE replaying.gap # NoSeq
        <5> DEFINE g == GapFill(replaying.gap, replaying.at)
                   r == Resent(replaying.at)
        <5>1. /\ replaying.gap \in 1..Len(log)
              /\ replaying.at \in (replaying.gap + 1)..(Len(log) + 1)
              /\ \A n \in replaying.gap..(replaying.at - 1) : log[n] # "APP"
          <6>1. /\ replaying.upper = Len(log)
                /\ 1 <= replaying.gap /\ replaying.gap < replaying.at
                /\ replaying.at <= replaying.upper + 1
                /\ \A n \in replaying.gap..(replaying.at - 1) : log[n] # "APP"
            BY <4>4, <3>2, <2>1 DEF LinkInv, ReplayOpen
          <6>2. replaying.gap \in Nat /\ replaying.at \in Nat /\ Len(log) \in Nat
            BY <1>1, <4>4
          <6> QED
            BY <4>1, <6>1, <6>2
        <5>2. g \in Told(log) /\ g.fault = "NONE" /\ g.dup
          BY <5>1, <1>1, GapFillTold
        <5>3. wire' = wire \o << g, r >>
          BY <4>4, <3>2, <2>1 DEF Transmit
        <5>4. r \in Told(log) /\ r.fault = "NONE" /\ r.dup
          BY <4>2
        <5> HIDE DEF g, r
        <5>5. InFlight(Append(wire, g), log, cIn)
          BY <5>2, <1>1, FlightReplayed
        <5>6. InFlight(Append(Append(wire, g), r), log, cIn)
          BY <5>4, <5>5, <1>1, FlightReplayed
        <5>7. wire' = Append(Append(wire, g), r)
          <6>1. wire \in Seq(Told(log))
            BY <1>1, SeqWider DEF InFlight
          <6> QED
            BY <5>2, <5>3, <5>4, <6>1
        <5> QED
          BY <5>6, <5>7, <2>1, LinkFacts DEF SentWell
      <4> QED
        BY <4>3, <4>4
    <3> QED
      BY <3>1, <3>2
  <2> QED
    BY <1>1, <2>1, <2>2, <2>3, <2>4, NothingTaken DEF VenueKeeps
<1>6. CASE ReplayEnd
  <2>1. /\ replaying.on /\ replaying.at > replaying.upper
        /\ Transmit(IF replaying.gap = NoSeq THEN << >>
                    ELSE << GapFill(replaying.gap, NextOut) >>)
        /\ replaying' = NoReplay
        /\ UNCHANGED << state, log, nextIn, pending, delivered >>
    BY <1>6 DEF ReplayEnd
  <2>2. replaying' \in LoopType /\ ReplayOpen'
    BY <2>1 DEF NoReplay, NoSeq, LoopType, ReplayOpen
  <2>3. SentWell
    <3>1. CASE state # "ACTIVE"
      BY <3>1, <2>1, QuietWell DEF Transmit
    <3>2. CASE state = "ACTIVE" /\ replaying.gap = NoSeq
      <4>1. wire' = wire
        BY <3>2, <2>1, <1>1 DEF Transmit, InFlight
      <4> QED
        BY <4>1, <2>1, QuietWell
    <3>3. CASE state = "ACTIVE" /\ replaying.gap # NoSeq
      <4> DEFINE g == GapFill(replaying.gap, NextOut)
      <4>1. /\ replaying.at = Len(log) + 1
            /\ replaying.gap \in 1..Len(log)
            /\ NextOut \in (replaying.gap + 1)..(Len(log) + 1)
            /\ \A n \in replaying.gap..(NextOut - 1) : log[n] # "APP"
        <5>1. /\ replaying.upper = Len(log)
              /\ 1 <= replaying.gap /\ replaying.gap < replaying.at
              /\ replaying.at <= replaying.upper + 1
              /\ \A n \in replaying.gap..(replaying.at - 1) : log[n] # "APP"
          BY <3>3, <2>1 DEF LinkInv, ReplayOpen
        <5>2. /\ replaying.gap \in Nat /\ replaying.at \in Nat /\ Len(log) \in Nat
              /\ replaying.at > replaying.upper
          BY <1>1, <2>1, <3>3
        <5>3. replaying.at = Len(log) + 1 /\ NextOut = Len(log) + 1
          BY <5>1, <5>2 DEF NextOut
        <5> QED
          BY <5>1, <5>2, <5>3
      <4>2. g \in Told(log) /\ g.fault = "NONE" /\ g.dup
        BY <4>1, <1>1, GapFillTold
      <4>3. wire' = wire \o << g >>
        BY <3>3, <2>1 DEF Transmit
      <4> HIDE DEF g
      <4>4. wire' = Append(wire, g)
        BY <4>2, <4>3, <1>1 DEF InFlight
      <4>5. InFlight(wire', log, cIn)
        BY <4>2, <4>4, <1>1, FlightReplayed
      <4> QED
        BY <4>5, <2>1, LinkFacts DEF SentWell
    <3> QED
      BY <3>1, <3>2, <3>3
  <2> QED
    BY <1>1, <2>1, <2>2, <2>3, NothingTaken DEF VenueKeeps
<1> QED
  BY <1>2, <1>3, <1>4, <1>5, <1>6 DEF Loop

----------------------------------------------------------------------------
(* What the client sends *)

\* Every member of a finite set of numbers has a place in ascending order, and every
\* place a member: the answer to a ResendRequest is well defined.
LEMMA EveryPlaceTaken ==
    ASSUME NEW S \in SUBSET Nat, IsFiniteSet(S), NEW i \in 1..Cardinality(S)
    PROVE  \E p \in S : Cardinality({q \in S : q < p}) = i - 1
<1> DEFINE below(p) == {q \in S : q < p}
           r == [p \in S |-> Cardinality(below(p)) + 1]
<1>1. Cardinality(S) \in Nat
  BY FS_CardinalityType
<1>2. \A p \in S : /\ IsFiniteSet(below(p))
                   /\ Cardinality(below(p)) \in Nat
                   /\ Cardinality(below(p)) < Cardinality(S)
  <2> SUFFICES ASSUME NEW p \in S
               PROVE  /\ IsFiniteSet(below(p))
                      /\ Cardinality(below(p)) \in Nat
                      /\ Cardinality(below(p)) < Cardinality(S)
    OBVIOUS
  <2>1. below(p) \in SUBSET S /\ below(p) # S
    OBVIOUS
  <2> HIDE DEF below
  <2>2. /\ IsFiniteSet(below(p))
        /\ Cardinality(below(p)) <= Cardinality(S)
        /\ Cardinality(S) # Cardinality(below(p))
    BY <2>1, FS_Subset
  <2>3. Cardinality(below(p)) \in Nat
    BY <2>2, FS_CardinalityType
  <2> QED
    BY <1>1, <2>2, <2>3
<1>3. \A p, q \in S : p < q => Cardinality(below(p)) < Cardinality(below(q))
  <2> SUFFICES ASSUME NEW p \in S, NEW q \in S, p < q
               PROVE  Cardinality(below(p)) < Cardinality(below(q))
    OBVIOUS
  <2>1. below(p) \in SUBSET below(q) /\ p \in below(q) /\ p \notin below(p)
    <3>1. p \in Nat /\ q \in Nat
      OBVIOUS
    <3>2. \A x \in S : x < p => x < q
      <4>1. \A x \in Nat : x < p => x < q
        BY <3>1
      <4> QED
        BY <4>1
    <3>3. ~(p < p)
      BY <3>1
    <3> QED
      BY <3>2, <3>3
  <2>2. IsFiniteSet(below(q)) /\ Cardinality(below(q)) \in Nat
        /\ Cardinality(below(p)) \in Nat
    BY <1>2
  <2> HIDE DEF below
  <2>3. /\ Cardinality(below(p)) <= Cardinality(below(q))
        /\ Cardinality(below(q)) = Cardinality(below(p)) => below(q) = below(p)
    BY <2>1, <2>2, FS_Subset
  <2> QED
    BY <2>1, <2>2, <2>3
<1>4. r \in [S -> 1..Cardinality(S)]
  <2> HIDE DEF below
  <2>1. \A p \in S : Cardinality(below(p)) + 1 \in 1..Cardinality(S)
    BY <1>1, <1>2
  <2> QED
    BY <2>1
<1>5. \A p, q \in S : r[p] = r[q] => p = q
  <2> SUFFICES ASSUME NEW p \in S, NEW q \in S, p # q PROVE r[p] # r[q]
    OBVIOUS
  <2>1. p < q \/ q < p
    OBVIOUS
  <2>2. /\ r[p] = Cardinality(below(p)) + 1 /\ r[q] = Cardinality(below(q)) + 1
        /\ Cardinality(below(p)) \in Nat /\ Cardinality(below(q)) \in Nat
        /\ p < q => Cardinality(below(p)) < Cardinality(below(q))
        /\ q < p => Cardinality(below(q)) < Cardinality(below(p))
    BY <1>2, <1>3
  <2> HIDE DEF below, r
  <2> QED
    BY <2>1, <2>2
<1>6. IsFiniteSet(1..Cardinality(S)) /\ Cardinality(1..Cardinality(S)) = Cardinality(S)
  <2>1. 1 \in Int /\ Cardinality(S) \in Int
    BY <1>1
  <2> QED
    BY <1>1, <2>1, FS_Interval
<1> HIDE DEF r
<1>7. r \in Injection(S, 1..Cardinality(S))
  BY <1>4, <1>5 DEF Injection, IsInjective
<1>8. r \in Surjection(S, 1..Cardinality(S))
  BY <1>6, <1>7, FS_Injection
<1>9. PICK p \in S : r[p] = i
  BY <1>8 DEF Surjection
<1>10. Cardinality(below(p)) + 1 = i /\ Cardinality(below(p)) \in Nat
  BY <1>2, <1>9 DEF r
<1>11. Cardinality(below(p)) = i - 1
  <2> HIDE DEF below
  <2> QED
    BY <1>10
<1> QED
  BY <1>11

\* In particular a nonempty one has a least member.
LEMMA LeastMember ==
    ASSUME NEW S \in SUBSET Nat, IsFiniteSet(S), S # {}
    PROVE  \E p \in S : \A q \in S : p <= q
<1>1. Cardinality(S) \in Nat /\ Cardinality(S) # 0
  BY FS_CardinalityType, FS_EmptySet
<1>2. 1 \in 1..Cardinality(S)
  BY <1>1
<1>3. PICK p \in S : Cardinality({q \in S : q < p}) = 1 - 1
  <2>1. \A i \in 1..Cardinality(S) :
            \E p \in S : Cardinality({q \in S : q < p}) = i - 1
    BY EveryPlaceTaken
  <2> QED
    BY <1>2, <2>1
<1>4. IsFiniteSet({q \in S : q < p})
  <2>1. {q \in S : q < p} \in SUBSET S
    OBVIOUS
  <2> QED
    BY <2>1, FS_Subset
<1>5. {q \in S : q < p} = {}
  BY <1>3, <1>4, FS_EmptySet
<1> QED
  BY <1>5

ClientKinds == {"APP", "BAD", "ADMIN"}

\* What the client sends again tells what it used the numbers for.
LEMMA ResendsTold ==
    ASSUME cLog \in Seq(ClientKinds), NEW p \in 1..Len(cLog)
    PROVE  ClientResends(p) \in Told(cLog)
<1> DEFINE next == {q \in (p + 1)..Len(cLog) : cLog[q] # "ADMIN"}
           new == IF next = {} THEN Len(cLog) + 1
                  ELSE CHOOSE q \in next : \A r \in next : q <= r
<1>1. p \in Nat /\ 1 <= p /\ p <= Len(cLog) /\ Len(cLog) \in Nat
      /\ cLog[p] \in ClientKinds
  OBVIOUS
<1>2. CASE cLog[p] = "APP"
  BY <1>2, ResentTold DEF ClientResends
<1>3. CASE cLog[p] = "BAD"
  BY <1>3, ResentTold DEF ClientResends
<1>4. CASE cLog[p] = "ADMIN"
  <2>1. ClientResends(p) = GapFill(p, new)
    BY <1>4 DEF ClientResends
  <2>2. /\ new \in (p + 1)..(Len(cLog) + 1)
        /\ \A n \in (p + 1)..(new - 1) : n \notin next
    <3>1. CASE next = {}
      BY <3>1, <1>1
    <3>2. CASE next # {}
      <4>1. next \in SUBSET Nat /\ IsFiniteSet(next)
        <5>1. IsFiniteSet((p + 1)..Len(cLog))
          BY <1>1, FS_Interval
        <5>2. next \in SUBSET ((p + 1)..Len(cLog))
          OBVIOUS
        <5>3. IsFiniteSet(next)
          BY <5>1, <5>2, FS_Subset
        <5> QED
          BY <5>2, <5>3, <1>1
      <4>2. \E q \in next : \A r \in next : q <= r
        <5> HIDE DEF next
        <5> QED
          BY <3>2, <4>1, LeastMember
      <4>3. new \in next /\ \A r \in next : new <= r
        BY <3>2, <4>2
      <4>4. new \in (p + 1)..Len(cLog)
        BY <4>3
      <4> HIDE DEF new, next
      <4> QED
        BY <4>1, <4>3, <4>4, <1>1
    <3> QED
      BY <3>1, <3>2
  <2> HIDE DEF new
  <2>3. \A n \in p..(new - 1) : cLog[n] # "APP"
    <3> SUFFICES ASSUME NEW n \in p..(new - 1) PROVE cLog[n] # "APP"
      OBVIOUS
    <3>1. CASE n = p
      BY <3>1, <1>4
    <3>2. CASE n # p
      <4>1. n \in (p + 1)..(new - 1) /\ n \in (p + 1)..Len(cLog)
        BY <3>2, <1>1, <2>2
      <4>2. n \notin next
        BY <4>1, <2>2
      <4> QED
        BY <4>1, <4>2
    <3> QED
      BY <3>1, <3>2
  <2>4. GapFill(p, new) \in Told(cLog)
    BY <2>2, <2>3, GapFillTold
  <2> QED
    BY <2>1, <2>4
<1> QED
  BY <1>1, <1>2, <1>3, <1>4 DEF ClientKinds

\* And so does its whole answer to a ResendRequest.
LEMMA AnswerTold ==
    ASSUME cLog \in Seq(ClientKinds), NEW from \in Nat, from >= 1
    PROVE  ClientReplay(from) \in Seq(Told(cLog))
<1> DEFINE starts == {p \in from..Len(cLog) :
                        \/ cLog[p] # "ADMIN"
                        \/ p = from
                        \/ cLog[p - 1] # "ADMIN"}
           start(i) == CHOOSE p \in starts : Cardinality({q \in starts : q < p}) = i - 1
<1>1. starts \in SUBSET (from..Len(cLog)) /\ Len(cLog) \in Nat
  OBVIOUS
<1>2. IsFiniteSet(from..Len(cLog))
  BY <1>1, FS_Interval
<1>3. starts \in SUBSET Nat /\ starts \in SUBSET (1..Len(cLog))
  BY <1>1
<1>4. ClientReplay(from) = [i \in 1..Cardinality(starts) |-> ClientResends(start(i))]
  BY DEF ClientReplay
<1> HIDE DEF starts
<1>5. IsFiniteSet(starts) /\ Cardinality(starts) \in Nat
  BY <1>1, <1>2, FS_Subset, FS_CardinalityType
<1>6. \A i \in 1..Cardinality(starts) : ClientResends(start(i)) \in Told(cLog)
  <2> SUFFICES ASSUME NEW i \in 1..Cardinality(starts)
               PROVE  ClientResends(start(i)) \in Told(cLog)
    OBVIOUS
  <2>1. \E p \in starts : Cardinality({q \in starts : q < p}) = i - 1
    BY <1>3, <1>5, EveryPlaceTaken
  <2>2. start(i) \in starts
    BY <2>1
  <2> HIDE DEF start
  <2>3. start(i) \in 1..Len(cLog)
    BY <1>3, <2>2
  <2> QED
    BY <2>3, ResendsTold
<1> HIDE DEF start
<1>7. [i \in 1..Cardinality(starts) |-> ClientResends(start(i))] \in
          [1..Cardinality(starts) -> Told(cLog)]
  BY <1>6
<1> QED
  BY <1>4, <1>5, <1>7

----------------------------------------------------------------------------
(* Each step of the client and of the connection *)

\* A newly numbered message tells what its number is used for.
LEMMA NewTold ==
    ASSUME NEW l \in Seq(ClientKinds), NEW k \in ClientKinds, NEW m \in FixMessages,
           m.seq = Len(l) + 1, m.type # "SEQUENCE_RESET",
           m.fault = "NONE" \/ (m.fault = "FIELDS" /\ m.type = "APP"),
           m.type = "LOGON" => ~m.flag /\ (NextExpected => m.lo >= 1),
           m.type = "RESEND_REQUEST" => m.lo >= 1 /\ m.hi = 0,
           (m.type = "APP" /\ m.fault = "NONE") <=> k = "APP"
    PROVE  m \in Told(l \o << k >>) /\ l \o << k >> \in Seq(ClientKinds)
<1> DEFINE j == l \o << k >>
<1>1. /\ j \in Seq(ClientKinds) /\ Len(j) = Len(l) + 1 /\ Len(l) \in Nat
      /\ j[Len(l) + 1] = k
  OBVIOUS
<1> HIDE DEF j
<1>2. After(m) = Len(l) + 2 /\ m.seq \in Nat
  BY <1>1 DEF After
<1>3. \A n \in m.seq..(After(m) - 1) : n = m.seq
  BY <1>1, <1>2
<1>4. m.seq < After(m) /\ After(m) <= Len(j) + 1 /\ 1 <= m.seq
  BY <1>1, <1>2
<1>5. m \in Told(j)
  BY <1>1, <1>3, <1>4 DEF Told
<1> QED
  BY <1>1, <1>5 DEF j

\* What the client has written stays true, and what it writes is.
LEMMA WrittenTold ==
    ASSUME LinkInv, NEW ks \in Seq(ClientKinds), NEW msgs \in Seq(Told(cLog \o ks))
    PROVE  /\ toVenue \in Seq(Told(cLog \o ks) \cup {EndOfStream})
           /\ toVenue \o msgs \in Seq(Told(cLog \o ks) \cup {EndOfStream})
<1> DEFINE T == Told(cLog \o ks)
<1>1. Told(cLog) \subseteq T
  <2>1. cLog \in Seq(ClientKinds)
    BY LinkFacts DEF ClientKinds
  <2> QED
    BY <2>1, ToldGrows
<1> HIDE DEF T
<1>2. toVenue \in Seq(Told(cLog) \cup {EndOfStream})
  BY DEF LinkInv
<1>3. toVenue \in Seq(T \cup {EndOfStream})
  <2>1. Told(cLog) \cup {EndOfStream} \subseteq T \cup {EndOfStream}
    BY <1>1
  <2> QED
    BY <1>2, <2>1, SeqWider
<1>4. msgs \in Seq(T \cup {EndOfStream})
  <2>1. msgs \in Seq(T) /\ T \subseteq T \cup {EndOfStream}
    BY DEF T
  <2> QED
    BY <2>1, SeqWider
<1>5. toVenue \o msgs \in Seq(T \cup {EndOfStream})
  BY <1>3, <1>4
<1> QED
  BY <1>3, <1>5 DEF T

\* A step that changes nothing of the session but what it has in flight.
LEMMA ClientKeepsInv ==
    ASSUME LinkInv,
           UNCHANGED << state, log, nextIn, pending, replaying, delivered >>,
           CutsNothing,
           NEW ks \in Seq(ClientKinds), cLog' = cLog \o ks,
           toVenue' \in Seq(Told(cLog') \cup {EndOfStream}),
           cIn' \in Nat \ {0}, cIn' <= Len(log) + 1,
           InFlight(wire', log, cIn'),
           got' \in Seq(Nat), Ascends(got', NumbersOf(log, "APP", cIn'))
    PROVE  LinkInv'
<1>1. /\ cLog \in Seq(ClientKinds) /\ Len(cLog) \in Nat
      /\ nextIn \in Nat \ {0} /\ nextIn <= Len(cLog) + 1
  BY LinkFacts DEF ClientKinds
<1>2. cLog' \in Seq(ClientKinds) /\ Len(cLog') >= Len(cLog) /\ Len(cLog') \in Nat
  BY <1>1
<1>3. LinkTypes'
  <2>1. nextIn <= Len(cLog') + 1
    BY <1>1, <1>2
  <2> QED
    BY <1>1, <1>2, <2>1, LinkFacts DEF LinkTypes, ClientKinds, CutsNothing, EventTypes
<1>4. (pending \subseteq Told(cLog) /\ \A m \in pending : m.fault = "NONE")'
  <2>1. Told(cLog) \subseteq Told(cLog')
    BY <1>1, ToldGrows
  <2>2. pending' \subseteq Told(cLog') /\ \A m \in pending' : m.fault = "NONE"
    BY <2>1, LinkFacts
  <2> QED
    BY <2>2 DEF Told
<1>5. (toVenue \in Seq(Told(cLog) \cup {EndOfStream}))'
  BY DEF Told
<1>6. InFlight(wire, log, cIn)'
  <2>1. InFlight(wire', log', cIn')
    OBVIOUS
  <2> QED
    BY <2>1 DEF InFlight, Told
<1>7. VenueSeesEveryOrder' /\ (events.cut \subseteq 1..(nextIn - 1))'
  <2>1. NumbersOf(cLog', "APP", nextIn) = NumbersOf(cLog, "APP", nextIn)
    BY <1>1, NumbersGrow
  <2>2. /\ Ascends(delivered', NumbersOf(cLog', "APP", nextIn') \ events'.cut)
        /\ events'.cut \subseteq 1..(nextIn' - 1)
    BY <2>1, LinkFacts DEF CutsNothing
  <2> QED
    BY <2>2 DEF VenueSeesEveryOrder, Ascends, NumbersOf
<1>8. ClientSeesEveryReport'
  BY DEF ClientSeesEveryReport, Ascends, NumbersOf
<1>9. ReplayOpen'
  BY DEF LinkInv, ReplayOpen
<1> QED
  BY <1>3, <1>4, <1>5, <1>6, <1>7, <1>8, <1>9 DEF LinkInv

\* The same when the client has read nothing.
LEMMA ClientSpeaksInv ==
    ASSUME LinkInv,
           UNCHANGED << state, log, nextIn, pending, replaying, delivered, cIn, got >>,
           CutsNothing,
           NEW ks \in Seq(ClientKinds), cLog' = cLog \o ks,
           toVenue' \in Seq(Told(cLog') \cup {EndOfStream}),
           InFlight(wire', log, cIn)
    PROVE  LinkInv'
<1>1. Ascends(got', NumbersOf(log, "APP", cIn'))
  BY DEF LinkInv, ClientSeesEveryReport
<1> QED
  BY <1>1, LinkFacts, ClientKeepsInv

\* Nothing said.
LEMMA SilentClient ==
    ASSUME LinkInv
    PROVE  /\ << >> \in Seq(ClientKinds) /\ cLog = cLog \o << >>
           /\ toVenue \in Seq(Told(cLog) \cup {EndOfStream})
<1>1. cLog \in Seq(ClientKinds)
  BY LinkFacts DEF ClientKinds
<1> QED
  BY <1>1 DEF LinkInv

\* One message said: its number is used whether or not it is written.
LEMMA OneSaid ==
    ASSUME LinkInv, NEW m \in FixMessages, m.type # "SEQUENCE_RESET",
           m.fault = "NONE" \/ (m.fault = "FIELDS" /\ m.type = "APP"),
           m.type = "LOGON" => ~m.flag /\ (NextExpected => m.lo >= 1),
           m.type = "RESEND_REQUEST" => m.lo >= 1 /\ m.hi = 0
    PROVE  /\ << ClientKind(m) >> \in Seq(ClientKinds)
           /\ [m EXCEPT !.seq = Len(cLog) + 1] \in Told(cLog \o << ClientKind(m) >>)
<1> DEFINE f == [m EXCEPT !.seq = Len(cLog) + 1]
<1>1. cLog \in Seq(ClientKinds) /\ Len(cLog) + 1 \in Nat
  BY LinkFacts DEF ClientKinds
<1>2. /\ f \in FixMessages /\ f.seq = Len(cLog) + 1 /\ f.type = m.type
      /\ f.fault = m.fault /\ f.flag = m.flag /\ f.lo = m.lo /\ f.hi = m.hi
  BY <1>1, NumberGiven
<1>3. /\ ClientKind(m) \in ClientKinds
      /\ (m.type = "APP" /\ m.fault = "NONE") <=> ClientKind(m) = "APP"
  BY DEF ClientKind, ClientKinds
<1> HIDE DEF f
<1>4. f \in Told(cLog \o << ClientKind(m) >>)
  BY <1>1, <1>2, <1>3, NewTold
<1> QED
  BY <1>3, <1>4 DEF f

\* ClientSends, of one message.
LEMMA SaysWell ==
    ASSUME LinkInv, NEW m \in FixMessages, m.type # "SEQUENCE_RESET",
           m.fault = "NONE" \/ (m.fault = "FIELDS" /\ m.type = "APP"),
           m.type # "LOGON", m.type # "RESEND_REQUEST", ClientSends(<< m >>)
    PROVE  /\ << ClientKind(m) >> \in Seq(ClientKinds)
           /\ cLog' = cLog \o << ClientKind(m) >>
           /\ toVenue' \in Seq(Told(cLog') \cup {EndOfStream})
<1> DEFINE f == [m EXCEPT !.seq = Len(cLog) + 1]
           k == << ClientKind(m) >>
<1>1. k \in Seq(ClientKinds) /\ f \in Told(cLog \o k)
  BY OneSaid
<1>2. cLog' = cLog \o k
  <2>1. [i \in 1..Len(<< m >>) |-> ClientKind(<< m >>[i])] = k
    OBVIOUS
  <2> QED
    BY <2>1 DEF ClientSends
<1>3. Numbered(cLog, << m >>) = << f >>
  <2>1. Len(cLog) \in Nat
    BY LinkFacts
  <2> QED
    BY <2>1 DEF Numbered
<1>4. toVenue' = IF CanWrite THEN toVenue \o << f >> ELSE toVenue
  BY <1>3 DEF ClientSends
<1> HIDE DEF f, k
<1>5. << f >> \in Seq(Told(cLog \o k))
  BY <1>1
<1>6. toVenue' \in Seq(Told(cLog \o k) \cup {EndOfStream})
  BY <1>1, <1>4, <1>5, WrittenTold
<1> QED
  BY <1>1, <1>2, <1>6 DEF k

\* The client reads a message with the number it expects.
LEMMA ReadsCurrentInv ==
    ASSUME LinkInv, wire # << >>, ClientReadsCurrent(Head(wire)), wire' = Tail(wire),
           UNCHANGED << state, log, nextIn, pending, replaying, delivered >>, CutsNothing
    PROVE  LinkInv'
<1> DEFINE m == Head(wire)
<1>1. m \in Told(log) /\ m.fault = "NONE"
  <2>1. wire \in Seq({t \in Told(log) : t.fault = "NONE"})
    BY LinkFacts DEF InFlight
  <2> QED
    BY <2>1
<1>2. /\ m.seq = cIn /\ ClientProcesses(m)
      /\ cIn' = IF m.type = "SEQUENCE_RESET" THEN m.hi ELSE m.seq + 1
  BY DEF ClientReadsCurrent
<1>3. cIn' = After(m)
  BY <1>2 DEF After
<1>4. InFlight(wire', log, cIn')
  <2>1. log \in Seq(Kinds) /\ cIn \in Nat /\ InFlight(wire, log, cIn)
    BY LinkFacts
  <2>2. cIn' \in {cIn, After(Head(wire))}
    BY <1>3
  <2> QED
    BY <2>1, <2>2, FlightRead
<1> HIDE DEF m
<1>5. /\ log \in Seq(Kinds) /\ cLog \in Seq(ClientKinds)
      /\ cIn \in Nat /\ got \in Seq(Nat)
      /\ m \in FixMessages /\ m.seq \in Nat /\ After(m) \in Nat
      /\ m.seq < After(m) /\ After(m) <= Len(log) + 1 /\ m.lo \in Nat
  BY <1>1, LinkFacts DEF ClientKinds, Told, After, FixMessages
<1>6. cIn' \in Nat \ {0} /\ cIn' <= Len(log) + 1
  BY <1>3, <1>5
<1>7. got' \in Seq(Nat) /\ Ascends(got', NumbersOf(log, "APP", cIn'))
  <2>1. Ascends(got, NumbersOf(log, "APP", m.seq))
    BY <1>2 DEF LinkInv, ClientSeesEveryReport
  <2>2. CASE m.type = "APP"
    <3>1. NumbersOf(log, "APP", m.seq + 1) = NumbersOf(log, "APP", m.seq) \cup {m.seq}
      BY <1>1, <1>5, <2>2, NumbersTaken
    <3>2. NumbersOf(log, "APP", m.seq) \in SUBSET (1..(m.seq - 1))
      BY DEF NumbersOf
    <3>3. /\ Ascends(Append(got, m.seq), NumbersOf(log, "APP", m.seq) \cup {m.seq})
          /\ Append(got, m.seq) \in Seq(Nat)
      BY <1>5, <2>1, <3>2, AscendsOn
    <3>4. got' = Append(got, m.seq) /\ cIn' = m.seq + 1
      BY <1>2, <2>2 DEF ClientProcesses
    <3> QED
      BY <3>1, <3>3, <3>4
  <2>3. CASE m.type # "APP"
    <3>1. NumbersOf(log, "APP", After(m)) = NumbersOf(log, "APP", m.seq)
      BY <1>1, <1>5, <2>3, NumbersPassed
    <3>2. got' = got
      BY <1>2, <2>3 DEF ClientProcesses
    <3> QED
      BY <1>3, <1>5, <2>1, <3>1, <3>2
  <2> QED
    BY <2>2, <2>3
<1>8. CASE m.type = "TEST_REQUEST"
  <2>1. ClientSends(<< Msg("HEARTBEAT") >>)
    BY <1>2, <1>8 DEF ClientProcesses
  <2>2. Msg("HEARTBEAT") \in FixMessages
    BY MsgType DEF Types, Admin
  <2>3. PICK ks \in Seq(ClientKinds) :
            cLog' = cLog \o ks /\ toVenue' \in Seq(Told(cLog') \cup {EndOfStream})
    <3>1. /\ Msg("HEARTBEAT").type = "HEARTBEAT" /\ Msg("HEARTBEAT").fault = "NONE"
      BY DEF Msg
    <3> QED
      BY <2>1, <2>2, <3>1, SaysWell
  <2> QED
    BY <1>4, <1>6, <1>7, <2>3, ClientKeepsInv
<1>9. CASE m.type # "TEST_REQUEST"
  <2>1. cLog' = cLog /\ toVenue' \in {toVenue, toVenue \o ClientReplay(m.lo)}
        /\ (m.type \notin {"LOGON", "RESEND_REQUEST"} => toVenue' = toVenue)
        /\ (m.type = "LOGON" => toVenue' = toVenue \/ NextExpected)
    BY <1>2, <1>9 DEF ClientProcesses
  <2>2. toVenue' \in Seq(Told(cLog) \cup {EndOfStream})
    <3>1. CASE toVenue' = toVenue
      BY <3>1, SilentClient
    <3>2. CASE toVenue' # toVenue
      <4>1. m.lo >= 1
        BY <1>1, <2>1, <3>2 DEF Told
      <4>2. ClientReplay(m.lo) \in Seq(Told(cLog))
        BY <1>5, <4>1, AnswerTold
      <4>3. << >> \in Seq(ClientKinds) /\ cLog = cLog \o << >>
        BY SilentClient
      <4>4. ClientReplay(m.lo) \in Seq(Told(cLog \o << >>))
        BY <4>2, <4>3
      <4>5. toVenue \o ClientReplay(m.lo) \in Seq(Told(cLog \o << >>) \cup {EndOfStream})
        BY <4>3, <4>4, WrittenTold
      <4> QED
        BY <2>1, <3>2, <4>3, <4>5
    <3> QED
      BY <3>1, <3>2
  <2>3. cLog' = cLog \o << >> /\ << >> \in Seq(ClientKinds)
    BY <2>1, SilentClient
  <2>4. toVenue' \in Seq(Told(cLog') \cup {EndOfStream})
    BY <2>1, <2>2
  <2> QED
    BY <1>4, <1>6, <1>7, <2>3, <2>4, ClientKeepsInv
<1> QED
  BY <1>8, <1>9

\* It reads one above a gap: the number it expects does not move.
LEMMA ReadsHighInv ==
    ASSUME LinkInv, wire # << >>, ClientReadsHigh(Head(wire)), wire' = Tail(wire),
           UNCHANGED << state, log, nextIn, pending, replaying, delivered >>, CutsNothing
    PROVE  LinkInv'
<1> DEFINE m       == Head(wire)
           request == [Msg("RESEND_REQUEST") EXCEPT !.lo = cIn, !.seq = Len(cLog) + 1]
           answer  == IF m.type = "RESEND_REQUEST" THEN ClientReplay(m.lo)
                      ELSE IF m.type = "LOGON" /\ NextExpected THEN ClientReplay(m.lo)
                      ELSE << >>
<1>1. m \in Told(log)
  <2>1. wire \in Seq({t \in Told(log) : t.fault = "NONE"})
    BY LinkFacts DEF InFlight
  <2> QED
    BY <2>1
<1>2. /\ cLog' = IF ClientAsks THEN Append(cLog, "ADMIN") ELSE cLog
      /\ toVenue' = IF ~CanWrite THEN toVenue
                    ELSE IF ClientAsks THEN toVenue \o answer \o << request >>
                    ELSE toVenue \o answer
      /\ UNCHANGED << cIn, got >>
  BY DEF ClientReadsHigh
<1>3. InFlight(wire', log, cIn)
  <2>1. log \in Seq(Kinds) /\ cIn \in Nat /\ InFlight(wire, log, cIn)
    BY LinkFacts
  <2>2. cIn \in {cIn, After(Head(wire))}
    OBVIOUS
  <2> QED
    BY <2>1, <2>2, FlightRead
<1>4. cLog \in Seq(ClientKinds) /\ Len(cLog) \in Nat /\ cIn \in Nat \ {0}
  BY LinkFacts DEF ClientKinds
<1>5. answer \in Seq(Told(cLog))
  <2>1. CASE m.type = "RESEND_REQUEST" \/ (m.type = "LOGON" /\ NextExpected)
    <3>1. m.lo \in Nat /\ m.lo >= 1
      BY <1>1, <2>1 DEF Told, FixMessages
    <3>2. ClientReplay(m.lo) \in Seq(Told(cLog))
      BY <1>4, <3>1, AnswerTold
    <3> QED
      BY <2>1, <3>2
  <2>2. CASE ~(m.type = "RESEND_REQUEST" \/ (m.type = "LOGON" /\ NextExpected))
    <3>1. answer = << >>
      BY <2>2
    <3> HIDE DEF answer
    <3> QED
      BY <3>1
  <2> QED
    BY <2>1, <2>2
<1>6. request \in Told(cLog \o << "ADMIN" >>) /\ << "ADMIN" >> \in Seq(ClientKinds)
  <2>1. Msg("RESEND_REQUEST") \in FixMessages
    BY MsgType DEF Types, Admin
  <2>2. request \in FixMessages
    <3>1. cIn \in Nat /\ Len(cLog) + 1 \in Nat
      BY <1>4
    <3> QED
      BY <2>1, <3>1 DEF FixMessages
  <2>3. /\ request.seq = Len(cLog) + 1 /\ request.type = "RESEND_REQUEST"
        /\ request.fault = "NONE" /\ request.lo = cIn /\ request.hi = 0
    BY DEF Msg
  <2>4. "ADMIN" \in ClientKinds
    BY DEF ClientKinds
  <2> HIDE DEF request
  <2> QED
    BY <1>4, <2>2, <2>3, <2>4, NewTold
<1> HIDE DEF m, request, answer
<1>7. CASE ClientAsks
  <2> DEFINE T == Told(cLog \o << "ADMIN" >>)
  <2>1. Append(cLog, "ADMIN") = cLog \o << "ADMIN" >>
    BY <1>4
  <2>2. answer \in Seq(T)
    <3>1. Told(cLog) \subseteq T
      BY <1>4, <1>6, ToldGrows
    <3> HIDE DEF T
    <3> QED
      BY <1>5, <3>1, SeqWider
  <2>3. /\ toVenue \in Seq(T \cup {EndOfStream})
        /\ toVenue \o answer \in Seq(T \cup {EndOfStream})
    BY <1>6, <2>2, WrittenTold
  <2>4. request \in T
    BY <1>6
  <2>5. toVenue \o answer \o << request >> \in Seq(T \cup {EndOfStream})
    <3> DEFINE u == toVenue \o answer
    <3>1. u \in Seq(T \cup {EndOfStream})
      BY <2>3
    <3> HIDE DEF T, u
    <3>2. u \o << request >> \in Seq(T \cup {EndOfStream})
      BY <2>4, <3>1
    <3> QED
      BY <3>2 DEF u
  <2>6. cLog' = cLog \o << "ADMIN" >>
    BY <1>2, <1>7, <2>1
  <2>7. toVenue' \in Seq(Told(cLog') \cup {EndOfStream})
    BY <1>2, <1>7, <2>3, <2>5, <2>6
  <2> QED
    BY <1>2, <1>3, <1>6, <2>6, <2>7, ClientSpeaksInv
<1>8. CASE ~ClientAsks
  <2>1. << >> \in Seq(ClientKinds) /\ cLog = cLog \o << >>
    BY SilentClient
  <2>2. answer \in Seq(Told(cLog \o << >>))
    BY <1>5, <2>1
  <2>3. /\ toVenue \in Seq(Told(cLog \o << >>) \cup {EndOfStream})
        /\ toVenue \o answer \in Seq(Told(cLog \o << >>) \cup {EndOfStream})
    BY <2>1, <2>2, WrittenTold
  <2>4. cLog' = cLog /\ cLog' = cLog \o << >>
    BY <1>2, <1>8, <2>1
  <2>5. toVenue' \in Seq(Told(cLog') \cup {EndOfStream})
    BY <1>2, <1>8, <2>1, <2>3, <2>4
  <2> QED
    BY <1>2, <1>3, <2>1, <2>4, <2>5, ClientSpeaksInv
<1> QED
  BY <1>7, <1>8

\* The client's steps that use or read no number of the venue's.
LEMMA ClientStepInv ==
    ASSUME LinkInv,
           \/ ClientConnects \/ ClientReads \/ ClientSeesClose \/ ClientSkips
           \/ ClientBreaks \/ \E kind \in OrderKinds : ClientOrders(kind)
    PROVE  LinkInv'
<1>1. /\ cLog \in Seq(ClientKinds) /\ Len(cLog) \in Nat /\ cIn \in Nat \ {0}
      /\ InFlight(wire, log, cIn) /\ InFlight(<< >>, log, cIn)
      /\ << >> \in Seq(ClientKinds) /\ cLog = cLog \o << >>
      /\ toVenue \in Seq(Told(cLog) \cup {EndOfStream})
  BY LinkFacts, NothingInFlight, SilentClient DEF ClientKinds
<1>0. CutsNothing
  <2>1. events' = events \/ \E what \in {"orders", "faults"} : Spend(what)
    BY DEF ClientConnects, ClientReads, ClientSeesClose, ClientSkips, ClientBreaks,
           ClientOrders
  <2> QED
    BY <2>1, SpendsOnly, LinkFacts DEF CutsNothing
<1>2. CASE ClientConnects
  <2> DEFINE m == [Msg("LOGON") EXCEPT !.seq = Len(cLog) + 1,
                                       !.lo = IF NextExpected THEN cIn ELSE 0]
             k == << "ADMIN" >>
  <2>1. /\ cLog' = Append(cLog, "ADMIN") /\ toVenue' = << m >> /\ wire' = << >>
        /\ UNCHANGED << state, log, nextIn, pending, replaying, delivered, cIn, got >>
    BY <1>2 DEF ClientConnects
  <2>2. m \in FixMessages
    <3>1. Msg("LOGON") \in FixMessages
      BY MsgType DEF Types, Admin
    <3>2. (IF NextExpected THEN cIn ELSE 0) \in Nat /\ Len(cLog) + 1 \in Nat
      BY <1>1
    <3> QED
      BY <3>1, <3>2 DEF FixMessages
  <2>3. /\ m.seq = Len(cLog) + 1 /\ m.type = "LOGON" /\ m.fault = "NONE" /\ ~m.flag
        /\ m.lo = IF NextExpected THEN cIn ELSE 0
    BY DEF Msg
  <2>4. "ADMIN" \in ClientKinds
    BY DEF ClientKinds
  <2> HIDE DEF m
  <2>5. m \in Told(cLog \o k) /\ k \in Seq(ClientKinds)
    BY <1>1, <2>2, <2>3, <2>4, NewTold
  <2>6. cLog' = cLog \o k
    BY <1>1, <2>1
  <2>7. toVenue' \in Seq(Told(cLog') \cup {EndOfStream})
    <3> DEFINE U == Told(cLog') \cup {EndOfStream}
    <3>1. m \in U /\ toVenue' = << m >>
      BY <2>1, <2>5, <2>6
    <3> HIDE DEF U
    <3>2. toVenue' \in Seq(U)
      BY <3>1
    <3> QED
      BY <3>2 DEF U
  <2> HIDE DEF k
  <2> QED
    BY <1>1, <2>1, <2>5, <2>6, <2>7, <1>0, ClientSpeaksInv
<1>3. CASE ClientReads
  <2>1. /\ wire # << >> /\ wire' = Tail(wire)
        /\ UNCHANGED << state, log, nextIn, pending, replaying, delivered >>
    BY <1>3 DEF ClientReads
  <2>2. CASE ClientReadsCurrent(Head(wire))
    BY <2>1, <2>2, <1>0, ReadsCurrentInv
  <2>3. CASE ClientReadsHigh(Head(wire))
    BY <2>1, <2>3, <1>0, ReadsHighInv
  <2>4. CASE ClientReadsLow(Head(wire))
    <3>1. UNCHANGED << cLog, cIn, got, toVenue >>
      BY <2>4 DEF ClientReadsLow, clientVars
    <3>2. InFlight(wire', log, cIn)
      <4>1. log \in Seq(Kinds) /\ cIn \in {cIn, After(Head(wire))}
        BY LinkFacts
      <4> QED
        BY <1>1, <2>1, <4>1, FlightRead
    <3>3. toVenue' \in Seq(Told(cLog') \cup {EndOfStream}) /\ cLog' = cLog \o << >>
      BY <1>1, <3>1
    <3> QED
      BY <1>1, <2>1, <3>1, <3>2, <3>3, <1>0, ClientSpeaksInv
  <2> QED
    BY <2>2, <2>3, <2>4, <1>3 DEF ClientReads
<1>4. CASE ClientSeesClose
  <2>1. /\ UNCHANGED << state, log, nextIn, pending, replaying, delivered, wire,
                        cLog, cIn, got, toVenue >>
    BY <1>4 DEF ClientSeesClose, vars
  <2>2. toVenue' \in Seq(Told(cLog') \cup {EndOfStream}) /\ cLog' = cLog \o << >>
    BY <1>1, <2>1
  <2> QED
    BY <1>1, <2>1, <2>2, <1>0, ClientSpeaksInv
<1>5. CASE ClientSkips
  <2> DEFINE m == [Msg("APP") EXCEPT !.seq = Len(cLog) + 2]
             l == cLog \o << "APP" >>
             k == << "APP", "APP" >>
  <2>1. /\ cLog' = cLog \o k /\ toVenue' = Append(toVenue, m)
        /\ UNCHANGED << state, log, nextIn, pending, replaying, delivered, wire,
                        cIn, got >>
    BY <1>5 DEF ClientSkips, vars
  <2>2. k \in Seq(ClientKinds) /\ "APP" \in ClientKinds
    BY DEF ClientKinds
  <2>3. /\ l \in Seq(ClientKinds) /\ Len(l) = Len(cLog) + 1
        /\ l \o << "APP" >> = cLog \o k
    BY <1>1, <2>2
  <2>4. m \in FixMessages
    <3>1. Msg("APP") \in FixMessages
      BY MsgType DEF Types
    <3> QED
      BY <1>1, <3>1 DEF FixMessages
  <2>5. m.seq = Len(l) + 1 /\ m.type = "APP" /\ m.fault = "NONE"
    BY <1>1, <2>3 DEF Msg
  <2> HIDE DEF m, l, k
  <2>6. m \in Told(l \o << "APP" >>)
    BY <2>2, <2>3, <2>4, <2>5, NewTold
  <2>7. << m >> \in Seq(Told(cLog \o k))
    <3> DEFINE U == Told(cLog \o k)
    <3>1. m \in U
      BY <2>3, <2>6
    <3> HIDE DEF U
    <3>2. << m >> \in Seq(U)
      BY <3>1
    <3> QED
      BY <3>2 DEF U
  <2>8. toVenue \o << m >> \in Seq(Told(cLog \o k) \cup {EndOfStream})
    BY <2>2, <2>7, WrittenTold
  <2>9. toVenue' = toVenue \o << m >>
    <3>1. toVenue \in Seq(Told(cLog) \cup {EndOfStream, m})
      BY <1>1, SeqWider
    <3> QED
      BY <2>1, <3>1
  <2> QED
    BY <1>1, <2>1, <2>2, <2>8, <2>9, <1>0, ClientSpeaksInv
<1>6. CASE ClientBreaks
  <2>1. PICK k \in (IF events.lossy THEN 0 ELSE Len(toVenue))..Len(toVenue) :
            toVenue' = SubSeq(toVenue, 1, k) \o << EndOfStream >>
    BY <1>6 DEF ClientBreaks
  <2>2. /\ UNCHANGED << state, log, nextIn, pending, replaying, delivered, cLog, cIn, got >>
        /\ wire' = << >>
    BY <1>6 DEF ClientBreaks
  <2>3. Len(toVenue) \in Nat /\ k \in Nat /\ k <= Len(toVenue)
    <3>1. Len(toVenue) \in Nat
      BY <1>1
    <3>2. (IF events.lossy THEN 0 ELSE Len(toVenue)) \in Nat
      BY <3>1
    <3> QED
      BY <3>1, <3>2
  <2> DEFINE U == Told(cLog) \cup {EndOfStream}
  <2>4. toVenue \in Seq(U) /\ EndOfStream \in U
    BY <1>1
  <2> HIDE DEF U
  <2>5. SubSeq(toVenue, 1, k) \in Seq(U)
    BY <2>3, <2>4
  <2>6. toVenue' \in Seq(U)
    BY <2>1, <2>4, <2>5
  <2>7. toVenue' \in Seq(Told(cLog') \cup {EndOfStream}) /\ cLog' = cLog \o << >>
    BY <1>1, <2>2, <2>6 DEF U
  <2> QED
    BY <1>1, <2>2, <2>7, <1>0, ClientSpeaksInv
<1>7. CASE \E kind \in OrderKinds : ClientOrders(kind)
  <2>1. PICK kind \in OrderKinds : ClientOrders(kind)
    BY <1>7
  <2> DEFINE m == IF kind = "APP" THEN Msg("APP") ELSE [Msg("APP") EXCEPT !.fault = "FIELDS"]
  <2>2. /\ ClientSends(<< m >>)
        /\ UNCHANGED << state, log, nextIn, pending, replaying, delivered, wire,
                        cIn, got >>
    BY <2>1 DEF ClientOrders, vars
  <2>3. m \in FixMessages
    <3>1. Msg("APP") \in FixMessages
      BY MsgType DEF Types
    <3>2. [Msg("APP") EXCEPT !.fault = "FIELDS"] \in FixMessages
      BY <3>1 DEF FixMessages, Faults
    <3> QED
      BY <3>1, <3>2
  <2>4. m.type = "APP" /\ m.fault \in {"NONE", "FIELDS"}
    BY DEF Msg
  <2> HIDE DEF m
  <2>5. /\ << ClientKind(m) >> \in Seq(ClientKinds)
        /\ cLog' = cLog \o << ClientKind(m) >>
        /\ toVenue' \in Seq(Told(cLog') \cup {EndOfStream})
    BY <2>2, <2>3, <2>4, SaysWell
  <2>6. InFlight(wire', log, cIn)
    BY <1>1, <2>2
  <2> QED
    BY <2>2, <2>5, <2>6, <1>0, ClientSpeaksInv
<1> QED
  BY <1>2, <1>3, <1>4, <1>5, <1>6, <1>7

\* A tick numbers a heartbeat and whatever else is due.
LEMMA TickWell ==
    ASSUME LinkInv, ReportsAssumption, Tick
    PROVE  VenueKeeps
<1>1. \A beat \in Beats : /\ beat \o << Msg("TEST_REQUEST") >> \in Seq(Fresh)
                          /\ beat \o << Msg("LOGOUT") >> \in Seq(Fresh)
  <2>1. Msg("HEARTBEAT") \in Fresh /\ Msg("TEST_REQUEST") \in Fresh /\ Msg("LOGOUT") \in Fresh
    BY FreshMessages
  <2>2. /\ \A beat \in Beats : beat \in Seq(Fresh)
        /\ << Msg("TEST_REQUEST") >> \in Seq(Fresh) /\ << Msg("LOGOUT") >> \in Seq(Fresh)
    BY <2>1 DEF Beats
  <2> QED
    BY <2>2, ConcatProperties
<1>2. ASSUME NEW msgs \in Seq(Fresh), Send(msgs), ~replaying.on,
             UNCHANGED << state, nextIn, pending, replaying, delivered >>
      PROVE  VenueKeeps
  <2>1. SentWell
    BY <1>2, SendWell
  <2> QED
    BY <1>2, <2>1, NothingTaken, ReplayIdle, LinkFacts DEF VenueKeeps
<1>3. CASE TickHeartbeat
  <2>1. << Msg("HEARTBEAT") >> \in Seq(Fresh)
    BY FreshMessages
  <2> QED
    BY <1>2, <1>3, <2>1 DEF TickHeartbeat, Busy
<1>4. CASE TickProbe
  <2>1. PICK beat \in Beats : Send(beat \o << Msg("TEST_REQUEST") >>)
    BY <1>4 DEF TickProbe
  <2> QED
    BY <1>1, <1>2, <1>4, <2>1 DEF TickProbe, Busy
<1>5. CASE TickExpire
  <2>1. PICK beat \in Beats : SendAndDisconnect(beat \o << Msg("LOGOUT") >>)
    BY <1>5 DEF TickExpire
  <2>2. UNCHANGED << nextIn, replaying, delivered >>
    BY <1>5 DEF TickExpire
  <2>3. SentWell /\ state' = "DISCONNECTED" /\ pending' = {} /\ ReplayOpen'
    BY <1>1, <2>1, DisconnectWell
  <2> QED
    BY <2>2, <2>3, NothingTaken, LinkFacts DEF VenueKeeps
<1> QED
  BY <1>3, <1>4, <1>5 DEF Tick

\* A process that comes back with the numbers it had consumed.
LEMMA RebornWell ==
    ASSUME LinkInv, Reborn, log' \in Seq(Kinds), cIn <= Len(log') + 1,
           NumbersOf(log', "APP", cIn) = NumbersOf(log, "APP", cIn)
    PROVE  /\ SentWell
           /\ state' = "DISCONNECTED" /\ pending' = {}
           /\ replaying' \in LoopType /\ ReplayOpen'
<1>1. InFlight(wire', log', cIn)
  BY NothingInFlight DEF Reborn
<1>2. replaying' \in LoopType /\ ReplayOpen'
  BY DEF Reborn, NoReplay, NoSeq, LoopType, ReplayOpen
<1> QED
  BY <1>1, <1>2 DEF SentWell, Reborn

\* The venue dies inside a handler: of the client's messages at most the order whose
\* number was consumed is cut off.
LEMMA VenueDiesInv ==
    ASSUME LinkInv, ~ResetOnLogon, VenueDies
    PROVE  LinkInv'
<1>1. PICK m \in AtHand :
        /\ DiesInside(m)
        /\ events' = [events EXCEPT
                        !.faults = @ - 1,
                        !.cut = IF IsOrder(m) THEN @ \cup {m.seq} ELSE @]
  BY DEF VenueDies
<1>2. /\ UNCHANGED clientVars /\ toVenue' = << >> /\ events.faults > 0
      /\ cLog' = cLog /\ cIn' = cIn /\ got' = got
  BY DEF VenueDies, clientVars
<1>3. m \in Told(cLog)
  <2> DEFINE U == Told(cLog) \cup {EndOfStream}
  <2>1. pending \subseteq Told(cLog) /\ toVenue \in Seq(U)
    BY DEF LinkInv
  <2>2. m \in U
    <3> HIDE DEF U
    <3>1. toVenue # << >> => Head(toVenue) \in U
      BY <2>1
    <3>2. m \in pending \/ (toVenue # << >> /\ m = Head(toVenue))
      BY <1>1 DEF AtHand
    <3>3. pending \subseteq U
      BY <2>1 DEF U
    <3> QED
      BY <3>1, <3>2, <3>3
  <2>3. m # EndOfStream
    <3>1. EndOfStream.type = "EOF" /\ EndOfStream.fault = "NONE"
      BY DEF EndOfStream, Msg
    <3>2. nextIn # 0 /\ EndOfStream.seq = 0
      BY LinkFacts DEF EndOfStream, Msg
    <3> QED
      BY <1>1, <3>1, <3>2 DEF DiesInside, DieConsuming, DieAtLogon, RefusedOutright
  <2> QED
    BY <2>2, <2>3
<1>4. /\ m.seq \in Nat /\ After(m) \in Nat
      /\ m.fault = "NONE" \/ (m.fault = "FIELDS" /\ m.type = "APP")
      /\ << >> \in Seq(Told(cLog) \cup {EndOfStream})
  BY <1>3, ToldFacts
<1>5. Reborn
  BY <1>1 DEF DiesInside, DieConsuming, DieAtLogon
<1>6. events \in EventTypes /\ events.faults - 1 \in Nat
  BY <1>2, LinkFacts DEF EventTypes
<1>7. ASSUME ~IsOrder(m), log' \in Seq(Kinds), cIn <= Len(log') + 1,
             NumbersOf(log', "APP", cIn) = NumbersOf(log, "APP", cIn),
             nextIn' \in Nat \ {0}, nextIn' <= Len(cLog) + 1,
             delivered' \in Seq(Nat),
             Ascends(delivered', NumbersOf(cLog, "APP", nextIn') \ events.cut),
             events.cut \subseteq 1..(nextIn' - 1)
      PROVE  LinkInv'
  <2>1. CutsNothing
    BY <1>1, <1>6, <1>7 DEF CutsNothing, EventTypes
  <2>2. VenueKeeps
    BY <1>5, <1>7, RebornWell DEF VenueKeeps
  <2> QED
    BY <1>2, <1>4, <2>1, <2>2, VenueKeepsInv
<1>8. CASE DieConsuming(m)
  <2>1. /\ m.seq = nextIn /\ nextIn' = m.seq + 1 /\ m.type # "SEQUENCE_RESET"
        /\ UNCHANGED << log, delivered >>
    BY <1>4, <1>8 DEF DieConsuming, ConsumesFirst, Checked
  <2>2. After(m) = nextIn'
    BY <2>1 DEF After
  <2>3. CASE ~IsOrder(m)
    <3>1. /\ nextIn' \in Nat \ {0} /\ nextIn' <= Len(cLog) + 1
          /\ delivered' \in Seq(Nat)
          /\ Ascends(delivered', NumbersOf(cLog, "APP", nextIn') \ events.cut)
          /\ events.cut \subseteq 1..(nextIn' - 1)
      BY <1>3, <2>1, <2>2, <2>3, PassedWell DEF IsOrder
    <3> QED
      BY <1>7, <2>1, <2>3, <3>1, LinkFacts
  <2>4. CASE IsOrder(m)
    <3> DEFINE N   == NumbersOf(cLog, "APP", m.seq)
               cut == events.cut \cup {m.seq}
    <3>1. /\ N \subseteq 1..(m.seq - 1) /\ events.cut \subseteq 1..(m.seq - 1)
          /\ Ascends(delivered, N \ events.cut)
      BY <1>4, <2>1, LinkFacts DEF NumbersOf
    <3>2. NumbersOf(cLog, "APP", nextIn') = N \cup {m.seq}
      BY <1>3, <2>1, <2>4, NumbersTaken, LinkFacts DEF IsOrder
    <3>3. (N \cup {m.seq}) \ cut = N \ events.cut
      BY <1>4, <3>1
    <3>4. events' \in EventTypes /\ events'.cut = cut
      BY <1>1, <1>4, <1>6, <2>4 DEF EventTypes
    <3>5. VenueSeesEveryOrder'
      <4>1. Ascends(delivered', NumbersOf(cLog, "APP", nextIn') \ cut)
        BY <2>1, <3>1, <3>2, <3>3
      <4> QED
        BY <1>2, <3>4, <4>1 DEF VenueSeesEveryOrder, Ascends, NumbersOf
    <3>6. (events.cut \subseteq 1..(nextIn - 1))'
      <4>1. 1 <= m.seq
        BY <1>3, ToldFacts
      <4>2. cut \subseteq 1..m.seq
        BY <1>4, <3>1, <4>1
      <4>3. nextIn' - 1 = m.seq
        BY <1>4, <2>1
      <4> QED
        BY <3>4, <4>2, <4>3
    <3>7. /\ SentWell /\ state' = "DISCONNECTED" /\ pending' = {}
          /\ replaying' \in LoopType /\ ReplayOpen'
      BY <1>5, <2>1, RebornWell, LinkFacts
    <3>8. nextIn' \in Nat \ {0} /\ nextIn' <= Len(cLog) + 1
      BY <1>3, <1>4, <2>1, <2>2, ToldFacts
    <3>9. LinkTypes'
      BY <1>2, <2>1, <3>4, <3>7, <3>8 DEF LinkInv, LinkTypes, SentWell, EventTypes
    <3>10. (InFlight(wire, log, cIn))'
      <4>1. InFlight(wire', log', cIn')
        BY <1>2, <3>7 DEF SentWell
      <4> QED
        BY <4>1 DEF InFlight, Told
    <3>11. ClientSeesEveryReport'
      BY <1>2, <2>1 DEF LinkInv, ClientSeesEveryReport, Ascends, NumbersOf
    <3>12. /\ (pending \subseteq Told(cLog) /\ \A t \in pending : t.fault = "NONE")'
           /\ (toVenue \in Seq(Told(cLog) \cup {EndOfStream}))'
      BY <1>2, <3>7 DEF Told
    <3> QED
      BY <3>5, <3>6, <3>7, <3>9, <3>10, <3>11, <3>12 DEF LinkInv
  <2> QED
    BY <2>3, <2>4
<1>9. CASE DieAtLogon(m)
  <2>1. m.type = "LOGON" /\ ~WantsReset(m)
    BY <1>3, <1>9 DEF DieAtLogon, RefusedOutright, WantsReset, Told
  <2>2. /\ log' \in {log, Stored(log, << Msg("LOGON") >>)}
        /\ UNCHANGED << nextIn, delivered >>
    BY <1>9, <2>1 DEF DieAtLogon, LogAfterReset, NextInAfterReset
  <2>3. Stored(log, << Msg("LOGON") >>) = Stored(log, << Msg("LOGOUT") >>)
    BY DEF Stored, Kind, Msg
  <2>4. /\ log' \in Seq(Kinds) /\ cIn <= Len(log') + 1
        /\ NumbersOf(log', "APP", cIn) = NumbersOf(log, "APP", cIn)
    <3>1. CASE log' = log
      BY <3>1, LinkFacts
    <3>2. CASE log' = Stored(log, << Msg("LOGOUT") >>)
      BY <3>2, FreshMessages, StoredWell
    <3> QED
      BY <2>2, <2>3, <3>1, <3>2
  <2>5. /\ nextIn' \in Nat \ {0} /\ nextIn' <= Len(cLog) + 1
        /\ delivered' \in Seq(Nat)
        /\ Ascends(delivered', NumbersOf(cLog, "APP", nextIn') \ events.cut)
        /\ events.cut \subseteq 1..(nextIn' - 1)
    BY <2>2, NothingTaken
  <2>6. ~IsOrder(m)
    BY <2>1 DEF IsOrder
  <2> QED
    BY <1>7, <2>4, <2>5, <2>6
<1> QED
  BY <1>1, <1>8, <1>9 DEF DiesInside

\* The venue's steps, and what a fault does to it.
LEMMA VenueStepInv ==
    ASSUME LinkInv, ~ResetOnLogon, ReportsAssumption, ConfigAssumption,
           \/ VenueReads \/ VenueSeesClose \/ VenueLoop \/ VenueReports
           \/ VenueTicks \/ VenueBreaks
    PROVE  LinkInv'
<1> DEFINE U == Told(cLog) \cup {EndOfStream}
<1>1. toVenue \in Seq(U) /\ << >> \in Seq(U)
  BY DEF LinkInv
<1>0. CutsNothing
  <2>1. events' = events \/ \E what \in {"reports", "ticks", "faults"} : Spend(what)
    BY DEF VenueReads, VenueSeesClose, VenueLoop, VenueReports, VenueTicks, VenueBreaks
  <2> QED
    BY <2>1, SpendsOnly, LinkFacts DEF CutsNothing
<1>2. ASSUME Detach PROVE VenueKeeps
  <2>1. /\ SendAndDisconnect(<< >>) /\ UNCHANGED << nextIn, replaying, delivered >>
    BY <1>2 DEF Detach
  <2>2. SentWell /\ state' = "DISCONNECTED" /\ pending' = {} /\ ReplayOpen'
    BY <2>1, FreshMessages, DisconnectWell
  <2> QED
    BY <2>1, <2>2, NothingTaken, LinkFacts DEF VenueKeeps
<1>3. CASE VenueReads
  <2>1. /\ toVenue # << >> /\ Head(toVenue).type # "EOF"
        /\ Connect(Head(toVenue)) \/ Receive(Head(toVenue))
        /\ toVenue' \in {Tail(toVenue), << >>}
        /\ UNCHANGED clientVars
    BY <1>3 DEF VenueReads, Consume
  <2>2. Head(toVenue) \in U /\ Tail(toVenue) \in Seq(U)
    <3> HIDE DEF U
    <3> QED
      BY <1>1, <2>1
  <2>3. Head(toVenue) \in Told(cLog)
    <3>1. EndOfStream.type = "EOF"
      BY DEF EndOfStream, Msg
    <3> QED
      BY <2>1, <2>2, <3>1
  <2>4. VenueKeeps
    BY <2>1, <2>3, ConnectWell, ReceiveWell
  <2>5. toVenue' \in Seq(U)
    BY <1>1, <2>1, <2>2
  <2> QED
    BY <2>1, <2>4, <2>5, <1>0, VenueKeepsInv
<1>4. CASE VenueSeesClose
  <2>1. UNCHANGED clientVars /\ toVenue' = << >> /\ (Detach \/ UNCHANGED vars)
    BY <1>4 DEF VenueSeesClose
  <2>2. VenueKeeps
    <3>1. CASE Detach
      BY <3>1, <1>2
    <3>2. CASE UNCHANGED vars
      <4>1. UNCHANGED << log, wire, state, nextIn, pending, replaying, delivered >>
        BY <3>2 DEF vars
      <4> QED
        BY <4>1, QuietWell, NothingTaken, ReplayIdle, LinkFacts DEF VenueKeeps
    <3> QED
      BY <2>1, <3>1, <3>2
  <2> QED
    BY <1>1, <2>1, <2>2, <1>0, VenueKeepsInv
<1>5. CASE VenueLoop
  <2>1. Loop /\ UNCHANGED clientVars /\ toVenue' = toVenue
    BY <1>5 DEF VenueLoop
  <2> QED
    BY <1>1, <2>1, LoopWell, <1>0, VenueKeepsInv
<1>6. CASE VenueReports
  <2>1. /\ Send(<< Msg("APP") >>) /\ ~replaying.on
        /\ UNCHANGED << state, nextIn, pending, replaying, delivered >>
        /\ UNCHANGED clientVars /\ toVenue' = toVenue
    BY <1>6 DEF VenueReports, SendReport, Busy
  <2>2. SentWell
    BY <2>1, FreshMessages, SendWell
  <2>3. VenueKeeps
    BY <2>1, <2>2, NothingTaken, ReplayIdle, LinkFacts DEF VenueKeeps
  <2> QED
    BY <1>1, <2>1, <2>3, <1>0, VenueKeepsInv
<1>7. CASE VenueBreaks
  <2>1. UNCHANGED clientVars /\ toVenue' = << >> /\ (Detach \/ Restart)
    BY <1>7 DEF VenueBreaks
  <2>2. CASE Detach
    BY <1>1, <1>2, <2>1, <2>2, <1>0, VenueKeepsInv
  <2>3. CASE Restart
    <3>1. /\ state' = "DISCONNECTED" /\ pending' = {} /\ replaying' = NoReplay
          /\ wire' = << >> /\ UNCHANGED << log, nextIn, delivered >>
      BY <2>3 DEF Restart, Reborn
    <3>2. SentWell
      BY <3>1, NothingInFlight, LinkFacts DEF SentWell
    <3>3. replaying' \in LoopType /\ ReplayOpen'
      BY <3>1 DEF NoReplay, NoSeq, LoopType, ReplayOpen
    <3>4. VenueKeeps
      BY <3>1, <3>2, <3>3, NothingTaken DEF VenueKeeps
    <3> QED
      BY <1>1, <2>1, <3>4, <1>0, VenueKeepsInv
  <2> QED
    BY <2>1, <2>2, <2>3
<1>8. CASE VenueTicks
  <2>1. Tick /\ UNCHANGED clientVars /\ toVenue' \in {toVenue, << >>}
    BY <1>8 DEF VenueTicks
  <2>2. VenueKeeps
    BY <2>1, TickWell
  <2> QED
    BY <1>1, <1>0, <2>1, <2>2, VenueKeepsInv
<1> QED
  BY <1>3, <1>4, <1>5, <1>6, <1>7, <1>8

LEMMA LinkStarts == LinkInit => LinkInv
<1> SUFFICES ASSUME LinkInit PROVE LinkInv
  OBVIOUS
<1>1. /\ state = "DISCONNECTED" /\ log = << >> /\ nextIn = 1 /\ pending = {}
      /\ replaying = NoReplay /\ wire = << >> /\ delivered = << >>
      /\ cLog = << >> /\ cIn = 1 /\ got = << >> /\ toVenue = << >>
  BY DEF LinkInit, Init
<1>2. replaying \in LoopType /\ ReplayOpen
  BY <1>1 DEF NoReplay, NoSeq, LoopType, ReplayOpen
<1>0. events \in EventTypes /\ events.cut = {}
  BY LimitsAssumption DEF LinkInit, EventTypes
<1>3. LinkTypes
  BY <1>0, <1>1, <1>2 DEF LinkTypes
<1>4. InFlight(wire, log, cIn)
  BY <1>1, NothingInFlight
<1>5. \A l : NumbersOf(l, "APP", 1) = {}
  BY DEF NumbersOf
<1>6. Ascends(<< >>, {})
  BY DEF Ascends
<1>7. VenueSeesEveryOrder /\ ClientSeesEveryReport
  BY <1>0, <1>1, <1>5, <1>6 DEF VenueSeesEveryOrder, ClientSeesEveryReport
<1> QED
  BY <1>0, <1>1, <1>2, <1>3, <1>4, <1>7 DEF LinkInv

LEMMA LinkNextInv ==
    ASSUME LinkInv, ~ResetOnLogon, [LinkNext]_linkVars
    PROVE  LinkInv'
<1>1. CASE UNCHANGED linkVars
  <2>1. /\ UNCHANGED << state, log, nextIn, pending, replaying, delivered, wire >>
        /\ UNCHANGED << cLog, cIn, got, toVenue >>
    BY <1>1 DEF linkVars, vars
  <2>2. toVenue' \in Seq(Told(cLog') \cup {EndOfStream}) /\ cLog' = cLog \o << >>
        /\ << >> \in Seq(ClientKinds) /\ InFlight(wire', log, cIn)
    BY <2>1, SilentClient, LinkFacts
  <2>3. CutsNothing
    BY <1>1, LinkFacts DEF linkVars, CutsNothing
  <2> QED
    BY <2>1, <2>2, <2>3, ClientSpeaksInv
<1>2. CASE LinkNext
  BY <1>2, VenueStepInv, VenueDiesInv, ClientStepInv, ReportsAssumption, ConfigAssumption
     DEF LinkNext, Progress
<1> QED
  BY <1>1, <1>2

\* A new number the client has already passed would be read as a repetition.
LEMMA NothingNewBelow == LinkInv => NumbersAreNotReused
<1> SUFFICES ASSUME LinkInv, wire # << >>, Head(wire).seq < cIn
             PROVE  Head(wire).dup
  BY DEF NumbersAreNotReused
<1>1. /\ wire \in Seq({m \in Told(log) : m.fault = "NONE"}) /\ cIn \in Nat
      /\ \A j \in 1..Len(wire) : ~wire[j].dup => cIn <= wire[j].seq
  BY LinkFacts DEF InFlight
<1>2. 1 \in 1..Len(wire) /\ Head(wire) = wire[1] /\ wire[1].seq \in Nat
  BY <1>1 DEF Told, FixMessages
<1> QED
  BY <1>1, <1>2

\* Over any number of breaks, losses, probes, resends and cancels on disconnect, and
\* of crashes between two handlers or inside one, of a client that asks for no new
\* numbers: what the client has processed is exactly the reports numbered below the
\* number it expects, what the venue has processed exactly the client's valid messages
\* below the number it expects, but for the one that a crash behind set_next_in cuts
\* off (_dispatch), both in order, and no number is used twice.  It rests on LinkInv:
\* what is in flight, queued above a gap or about to be replayed says of every number
\* what its sender used it for.
THEOREM NothingLostOrRepeated == ~ResetOnLogon /\ LinkSpec => []BothSidesAgree
<1> DEFINE Inv == LinkInv /\ ~ResetOnLogon
<1>1. LinkInit /\ ~ResetOnLogon => Inv
  BY LinkStarts
<1>2. Inv /\ [LinkNext]_linkVars => Inv'
  <2> SUFFICES ASSUME LinkInv, ~ResetOnLogon, [LinkNext]_linkVars PROVE LinkInv'
    OBVIOUS
  <2> QED
    BY LinkNextInv
<1>3. Inv => BothSidesAgree
  BY NothingNewBelow DEF LinkInv, BothSidesAgree
<1> QED
  BY <1>1, <1>2, <1>3, PTL DEF LinkSpec

=============================================================================
