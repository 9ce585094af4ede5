-------------------------- MODULE JapannextProofs --------------------------
(***************************************************************************)
(* The Japannext venue implements order entry, so that what is proved of   *)
(* order entry and of its market holds of the venue; its clients know the  *)
(* phase of their market; and what they are told of their orders is true.  *)
(* For every configuration the venue accepts.                              *)
(***************************************************************************)
EXTENDS JapannextVenue, MarketProofs, FiniteSetTheorems

----------------------------------------------------------------------------
(* The steps of the venue *)

\* The steps of order entry that the venue takes without telling anyone.
Untold ==
    \/ \E key \in Sessions, name \in Names : NewStep(key, name)
    \/ \E key \in Clients, name, orig \in Names : ChangeStep(key, name, orig)
    \/ \E key \in Clients : CancelMany({key}, key)
    \/ \E keys \in {{key} : key \in Clients} \cup {Sessions} : CancelMany(keys, NoKey)
    \/ \E o \in OrderIds : AdminCancel(o)
    \/ SilentCommand
    \/ \E rule \in RuleChoices : SetBehaviour(rule)
    \/ ClearBehaviour
    \/ EntryMatchStep
    \/ Emit
    \/ ReleaseStep

\* A client whose logon ends is told nothing more; the others stay.
Quiet == UNCHANGED told /\ (UNCHANGED up \/ \E key \in Clients : up' = [up EXCEPT ![key] = FALSE])

\* A client of the venue is one of the sessions, and so owns orders.
LEMMA EnterSteps ==
    ASSUME NEW key \in Sessions, NEW name \in Names, Enter(key, name)
    PROVE  Untold /\ UNCHANGED venueVars
  <1>1. NewStep(key, name)
    BY DEF Enter, NewStep
  <1> QED
    BY <1>1 DEF Untold, Enter

\* Whatever a client sends is a request of order entry, or is refused before it.
LEMMA MessageSteps == OnMessage => Quiet /\ (Untold \/ UNCHANGED allVars)
  <1> SUFFICES ASSUME NEW key \in Clients, NEW sub \in SubIds \cup {NoKey},
                      \/ Refuse(key, sub)
                      \/ \E name \in Names :
                            \/ OnNewOrder(key, name, sub)
                            \/ \E orig \in Names : \/ OnCancel(key, name, orig, sub)
                                                   \/ OnReplace(key, name, orig, sub)
               PROVE  Quiet /\ (Untold \/ UNCHANGED allVars)
    BY DEF OnMessage
  <1>1. CASE Refuse(key, sub)
    BY <1>1 DEF Refuse, Quiet
  <1>2. ASSUME NEW name \in Names, OnNewOrder(key, name, sub)
        PROVE  Quiet /\ Untold
    <2>1. key \in Sessions /\ Enter(key, name)
      BY <1>2, ClientsAssumption DEF OnNewOrder
    <2> QED
      BY <2>1, EnterSteps DEF venueVars, Quiet
  <1>3. ASSUME NEW name \in Names, NEW orig \in Names,
               OnCancel(key, name, orig, sub) \/ OnReplace(key, name, orig, sub)
        PROVE  Quiet /\ Untold
    <2>1. ChangeStep(key, name, orig)
      BY <1>3 DEF OnCancel, OnReplace, ChangeStep
    <2>2. UNCHANGED venueVars
      BY <1>3 DEF OnCancel, OnReplace
    <2> QED
      BY <2>1, <2>2 DEF Untold, venueVars, Quiet
  <1> QED
    BY <1>1, <1>2, <1>3

\* So is what an operator does, but for a phase change.
LEMMA OperatorSteps ==
    Operator => \/ \E s \in Phases : SetTradingState(s)
                \/ Quiet /\ (Untold \/ UNCHANGED allVars)
  <1>1. ASSUME NEW key \in Sessions \ Clients, NEW name \in Names, Enter(key, name)
        PROVE  Quiet /\ Untold
    BY <1>1, EnterSteps DEF venueVars, Quiet
  <1>2. CASE ReloadReferenceData
    BY <1>2 DEF ReloadReferenceData, Quiet
  <1>3. ASSUME \/ \E keys \in {{key} : key \in Clients} \cup {Sessions} :
                     CancelMany(keys, NoKey)
               \/ \E o \in OrderIds : AdminCancel(o)
               \/ SilentCommand
               \/ \E rule \in RuleChoices : SetBehaviour(rule)
               \/ ClearBehaviour,
               UNCHANGED venueVars
        PROVE  Quiet /\ Untold
    BY <1>3 DEF Untold, venueVars, Quiet
  <1> QED
    BY <1>1, <1>2, <1>3 DEF Operator

\* Every step of the venue is a logon, a phase change that clients are told of, or
\* a quiet step of order entry or of none.
LEMMA VenueSteps ==
    [JapannextNext]_jxVars => \/ \E key \in Clients : OnLogon(key)
                              \/ \E s \in Phases : SetTradingState(s)
                              \/ Quiet /\ (Untold \/ UNCHANGED allVars)
  <1>1. ASSUME NEW key \in Clients, OnLogout(key)
        PROVE  Quiet /\ (Untold \/ UNCHANGED allVars)
    BY <1>1 DEF OnLogout, Quiet, Untold
  <1>2. CASE VenueMatchStep \/ VenueEmit \/ VenueReleaseStep
    BY <1>2 DEF VenueMatchStep, VenueEmit, VenueReleaseStep, venueVars, Quiet, Untold
  <1>3. CASE UNCHANGED jxVars
    BY <1>3 DEF jxVars, venueVars, Quiet
  <1> QED
    BY <1>1, <1>2, <1>3, MessageSteps, OperatorSteps DEF JapannextNext

\* Each of them is a step of order entry, or leaves it alone.
LEMMA VenueStepsEntry == [JapannextNext]_jxVars => [EntryNext]_allVars
  <1>1. ASSUME NEW key \in Clients, OnLogon(key) PROVE UNCHANGED allVars
    BY <1>1 DEF OnLogon
  <1>2. ASSUME NEW s \in Phases, SetTradingState(s) PROVE EntryNext
    BY <1>2 DEF SetTradingState, EntryNext, CommandStep
  <1>3. ASSUME Untold PROVE EntryNext
    BY <1>3 DEF Untold, EntryNext, RequestStep, CommandStep
  <1> QED
    BY <1>1, <1>2, <1>3, VenueSteps

\* The venue implements order entry, whatever its configuration: reloads, logons,
\* disconnects, and the markets requests address add nothing to what can happen
\* to orders and their identifiers.
THEOREM JapannextImplementsEntry == JapannextSpec => EntryInit /\ [][EntryNext]_allVars
  <1>1. JapannextInit => EntryInit
    BY DEF JapannextInit
  <1> QED
    BY <1>1, VenueStepsEntry, PTL DEF JapannextSpec

\* The invariants of the market and of the registry hold of the venue.
LEMMA VenueInvariance == JapannextSpec => [](IInv /\ RegistryInv)
  <1>1. IInv /\ RegistryInv /\ [EntryNext]_allVars => (IInv /\ RegistryInv)'
    BY RegistryStep, EntryStepsTheMarket, NextInv
  <1> QED
    BY <1>1, RegistryInit, JapannextImplementsEntry, PTL

\* For every configuration, an identifier of a client is bound to exactly the order
\* whose chain holds it (OrderRegistry), and stays bound to it.
THEOREM VenueRegistryCorrect ==
    JapannextSpec => []IndexIsTheInverseOfTheChains /\ BindingsArePermanent
  <1>1. RegistryInv => IndexIsTheInverseOfTheChains
    BY DEF RegistryInv
  <1>2. IInv /\ RegistryInv /\ [EntryNext]_allVars => [Permanent]_allVars
    BY RegistryStep, EntryStepsTheMarket
  <1> QED
    BY <1>1, <1>2, VenueInvariance, JapannextImplementsEntry, PTL
       DEF BindingsArePermanent, Permanent

----------------------------------------------------------------------------
(* The trading status *)

\* Only a phase change moves the market.
LEMMA UntoldKeepsThePhase == Untold => marketState' = marketState
  <1>1. ASSUME NEW key \in Sessions, NEW name \in Names, NewStep(key, name)
        PROVE  marketState' = marketState
    BY <1>1 DEF NewStep, NewDuplicate, NewForcedReject, NewInvalid, NewAccepted, Answer,
       NewOrder, phaseVars, vars
  <1>2. ASSUME NEW key \in Clients, NEW name \in Names, NEW orig \in Names,
               ChangeStep(key, name, orig)
        PROVE  marketState' = marketState
    BY <1>2 DEF ChangeStep, Unresolved, Answer, CancelOrderRequest, ReplaceOrder, Cancel,
       Amend, phaseVars, vars
  <1>3. ASSUME NEW keys, NEW from, CancelMany(keys, from)
        PROVE  marketState' = marketState
    BY <1>3 DEF CancelMany, CancelAll, phaseVars
  <1>4. ASSUME NEW o \in OrderIds, AdminCancel(o) PROVE marketState' = marketState
    BY <1>4 DEF AdminCancel, Cancel, phaseVars
  <1>5. CASE SilentCommand
    BY <1>5 DEF SilentCommand, ClearInstrumentState, SetStpMode
  <1>6. CASE (\E rule \in RuleChoices : SetBehaviour(rule)) \/ ClearBehaviour
    BY <1>6 DEF SetBehaviour, ClearBehaviour, vars, phaseVars
  <1>7. CASE EntryMatchStep
    <2>1. ASSUME NEW o \in OrderIds, MatchDone(o) PROVE UNCHANGED phaseVars
      BY <2>1 DEF MatchDone
    <2>2. ASSUME NEW o \in OrderIds, NEW r \in OrderIds, MatchExecute(o, r)
          PROVE  UNCHANGED phaseVars
      BY <2>2 DEF MatchExecute
    <2>3. ASSUME NEW o \in OrderIds, NEW r \in OrderIds,
                 StpCancelNewest(o, r) \/ StpCancelOldest(o, r) \/ StpDecrement(o, r)
          PROVE  UNCHANGED phaseVars
      BY <2>3 DEF StpCancelNewest, StpCancelOldest, StpDecrement, SelfMatch
    <2> QED
      BY <1>7, <2>1, <2>2, <2>3 DEF EntryMatchStep, phaseVars
  <1>8. CASE Emit \/ ReleaseStep
    BY <1>8 DEF Emit, EmitAs, ReleaseStep, Release, vars, phaseVars
  <1> QED
    BY <1>1, <1>2, <1>3, <1>4, <1>5, <1>6, <1>7, <1>8 DEF Untold

\* The status is known, of clients that the venue has sessions for.
StatusInv ==
    /\ up \in [Clients -> BOOLEAN]
    /\ told = [key \in Clients |-> told[key]]
    /\ StatusIsKnown

\* Every step keeps it: logons and phase changes tell, the others change nothing.
LEMMA StatusStep == StatusInv /\ [JapannextNext]_jxVars => StatusInv'
  <1> SUFFICES ASSUME StatusInv, [JapannextNext]_jxVars PROVE StatusInv'
    OBVIOUS
  <1>1. ASSUME NEW key \in Clients, OnLogon(key) PROVE StatusInv'
    <2>1. marketState' = marketState
      BY <1>1 DEF OnLogon, allVars, vars, phaseVars
    <2> QED
      BY <1>1, <2>1 DEF OnLogon, StatusInv, StatusIsKnown, MarketsFor
  <1>2. ASSUME NEW s \in Phases, SetTradingState(s) PROVE StatusInv'
    BY <1>2 DEF SetTradingState, BroadcastTradingStatus, StatusInv, StatusIsKnown, MarketsFor
  <1>3. ASSUME Quiet, marketState' = marketState PROVE StatusInv'
    BY <1>3 DEF Quiet, StatusInv, StatusIsKnown, MarketsFor
  <1>4. UNCHANGED allVars => marketState' = marketState
    BY DEF allVars, vars, phaseVars
  <1> QED
    BY <1>1, <1>2, <1>3, <1>4, UntoldKeepsThePhase, VenueSteps

\* So a behaviour has it throughout.
LEMMA StatusInvariance == JapannextSpec => []StatusInv
  <1>1. JapannextInit => StatusInv
    BY DEF JapannextInit, StatusInv, StatusIsKnown
  <1>2. StatusInv /\ [JapannextNext]_jxVars => StatusInv'
    BY StatusStep
  <1> QED
    BY <1>1, <1>2, PTL DEF JapannextSpec

\* For every configuration and any number of clients, a client that is logged on
\* was last told the phase its market is in (on_logon, broadcast_trading_status).
THEOREM VenueStatusCorrect == JapannextSpec => []StatusIsKnown
  <1>1. StatusInv => StatusIsKnown
    BY DEF StatusInv
  <1> QED
    BY <1>1, StatusInvariance, PTL

----------------------------------------------------------------------------
(* The book and its trades, as the market's clients see them *)

\* Japannext's phases have no call auction (JapannextVenue.trading_states).
LEMMA VenueHasNoCalls == Overrides \subseteq NO_ENTRY => NoCalls
  BY JapannextAssumption DEF NoCalls, TRADING_STATES, ACCUMULATING

\* The venue steps its market, so the market's invariants are the venue's.
LEMMA VenueBookInvariance ==
    ASSUME Overrides \subseteq NO_ENTRY
    PROVE  JapannextSpec => /\ [](IInv /\ FairInv /\ QuietBookInv)
                            /\ [][Next]_vars
  <1>1. NoCalls /\ CallsEndInAuctions
    BY VenueHasNoCalls DEF NoCalls, CallsEndInAuctions
  <1>2. EntryInit => IInv /\ FairInv /\ QuietBookInv
    BY InitInv, InitFair, InitQuiet DEF EntryInit
  <1>3. IInv /\ [EntryNext]_allVars => [Next]_vars
    BY EntryStepsTheMarket
  <1>4. IInv /\ FairInv /\ QuietBookInv /\ [Next]_vars
          => (IInv /\ FairInv /\ QuietBookInv)'
    BY <1>1, NextInv, NextFair, NextKeepsTheBook
  <1> QED
    BY <1>2, <1>3, <1>4, JapannextImplementsEntry, PTL

\* Whatever the configuration, the messages and the reloads, a Japannext book is
\* never locked or crossed, holds nothing that may not wait, and is empty while
\* the market is not open.
THEOREM VenueBookFits ==
    ASSUME Overrides \subseteq NO_ENTRY
    PROVE  JapannextSpec => BookFitsThePhase /\ []ImmediateNeverRests
  <1>1. IInv /\ FairInv /\ QuietBookInv => RestingFits /\ ImmediateNeverRests
    BY QuietBookFits
  <1>2. RestingFits' /\ QuietBookInv' => [RestingFits' /\ ImmediateComesFromACall]_vars
    BY QuietBookStaysPatient
  <1> QED
    BY <1>1, <1>2, VenueBookInvariance, PTL DEF BookFitsThePhase

\* And every fill it reports is in priority and inside both limits.
THEOREM VenueTradesFair ==
    ASSUME Overrides \subseteq NO_ENTRY
    PROVE  JapannextSpec => TradesAreFair
  <1> DEFINE Fair == \A o \in OrderIds :
                        FilledBy(o) > 0 => /\ o \in OnBook => InPriority(o)
                                           /\ WithinLimit(o)
  <1>1. IInv /\ FairInv /\ [Next]_vars => [Fair]_vars
    BY NextFairStep DEF FairFill
  <1> QED
    BY <1>1, VenueBookInvariance, PTL DEF TradesAreFair

----------------------------------------------------------------------------
(* What clients are told *)

\* An event, or a report, that tells of order o; a refused request tells nothing of it.
About(e, o) == e.order = o /\ e.kind # "CANCEL_REJECTED"

Fill(e, o) == e.order = o /\ e.kind = "FILLED"

\* An event whose report ends o, and such a report.
Closes(e, o) ==
    /\ e.order = o
    /\ e.kind \in {"CANCELLED", "REJECTED"} \/ (e.kind = "FILLED" /\ e.cum >= e.qty)

Final(r, o) ==
    /\ r.order = o
    /\ r.kind \in {"FILLED", "CANCELLED", "REJECTED"}
    /\ r.status \in TERMINAL

\* What a report of e says of its order, apart from its name, is so of ord.
Current(e, ord) ==
    /\ e.kind = "FILLED" =>
          /\ e.qty = ord.qty /\ e.cum = ord.cum
          /\ ord.status = IF e.cum >= e.qty THEN "FILLED" ELSE "PARTIALLY_FILLED"
    /\ e.kind = "ACCEPTED"  => ord.status = "NEW"
    /\ e.kind = "CANCELLED" => ord.status = "CANCELLED"
    /\ e.kind = "REJECTED"  => ord.status = "REJECTED"

\* An event names the order it is of and that order's owner, or the request it
\* refuses.
Sound(e) ==
    /\ IF e.name = NoKey THEN e.order # NoOrder /\ e.kind # "CANCEL_REJECTED"
       ELSE \/ e.kind = "CANCEL_REJECTED"
            \/ e.kind = "REJECTED" /\ e.order = NoOrder
    /\ e.order # NoOrder => e.order < nextId /\ e.owner = orders[e.order].session

\* A report that may go to a client: of an issued order, its own or an injected one.
Owned(to, r) ==
    r.order # NoOrder => /\ r.order < nextId
                         /\ \/ orders[r.order].session = to
                            \/ orders[r.order].session \notin Clients

RoutesInv ==
    /\ \A i \in 1..Len(events) : Sound(events[i])
    /\ \A c \in Clients : \A i \in 1..Len(sent[c]) : Owned(c, sent[c][i])
    /\ \A i \in 1..Len(held) : Owned(held[i].to, held[i].report)
    /\ ~delayed => held = << >>
    /\ \A o \in OrderIds : o < nextId => chain[o] # << >>

\* The order being matched will be reported of, or has been already.
Untouched(o) ==
    /\ orders[o].cum = 0 /\ orders[o].status = "NEW"
    /\ ~AckOnEntry /\ ~Replacing

CurInv ==
    task = "match" => \/ \E i \in 1..Len(events) : About(events[i], cur)
                      \/ Untouched(cur)

\* The last thing said of o, or about to be said, is true.
Known(o) ==
    LET s == sent[orders[o].session] IN
    IF \E i \in 1..Len(events) : About(events[i], o)
    THEN \E i \in 1..Len(events) :
            /\ About(events[i], o) /\ Current(events[i], orders[o])
            /\ \A j \in 1..Len(events) : About(events[j], o) => j <= i
    ELSE \/ task = "match" /\ cur = o
         \/ \E i \in 1..Len(s) :
               /\ About(s[i], o) /\ States(s[i], o)
               /\ \A j \in 1..Len(s) : About(s[j], o) => j <= i

\* The totals of fills ascend, from those said to those about to be said.
Ascending(o) ==
    LET s == sent[orders[o].session] IN
    /\ \A i \in 1..Len(s) : Fill(s[i], o) =>
          /\ 0 < s[i].cum /\ s[i].cum <= orders[o].cum
          /\ \A j \in 1..Len(s) : i < j /\ Fill(s[j], o) => s[i].cum < s[j].cum
          /\ \A j \in 1..Len(events) : Fill(events[j], o) => s[i].cum < events[j].cum
    /\ \A i \in 1..Len(events) : Fill(events[i], o) =>
          /\ 0 < events[i].cum /\ events[i].cum <= orders[o].cum
          /\ \A j \in 1..Len(events) : i < j /\ Fill(events[j], o) =>
                events[i].cum < events[j].cum

\* All that o has executed has been said, or will be.
Stated(o) ==
    LET s == sent[orders[o].session] IN
    \/ orders[o].cum = 0
    \/ \E i \in 1..Len(s) : Fill(s[i], o) /\ s[i].cum = orders[o].cum
    \/ \E i \in 1..Len(events) : Fill(events[i], o) /\ events[i].cum = orders[o].cum

\* The end of o is said once: sent, waiting for a timer, or about to be rendered.
SaidSent(o) == LET s == sent[orders[o].session] IN \E i \in 1..Len(s) : Final(s[i], o)
SaidHeld(o) == \E i \in 1..Len(held) : Final(held[i].report, o)
SaidDue(o)  == \E i \in 1..Len(events) : Closes(events[i], o)

EndedInv(o) ==
    LET s == sent[orders[o].session] IN
    /\ \A i, j \in 1..Len(s) : Final(s[i], o) /\ Final(s[j], o) => i = j
    /\ \A i, j \in 1..Len(held) :
          Final(held[i].report, o) /\ Final(held[j].report, o) => i = j
    /\ \A i, j \in 1..Len(events) : Closes(events[i], o) /\ Closes(events[j], o) => i = j
    /\ ~(SaidSent(o) /\ SaidHeld(o)) /\ ~(SaidSent(o) /\ SaidDue(o))
    /\ ~(SaidHeld(o) /\ SaidDue(o))
    /\ SaidSent(o) \/ SaidHeld(o) \/ SaidDue(o) => orders[o].status \in TERMINAL

TalkInv ==
    \A o \in OrderIds : o < nextId /\ orders[o].session \in Clients =>
        /\ ~delayed /\ dropped = {} => Known(o) /\ Stated(o)
        /\ ~delayed => Ascending(o)
        /\ EndedInv(o)

\* The request's identifier is on a report, or on what is about to become one.
Awaited(c, name) ==
    \/ \E i \in 1..Len(events) : /\ SessionFor(events[i]) = c
                                 /\ Render(events[i]).name = name
    \/ task = "match" /\ orders[cur].session = c /\ CurrentName(cur) = name

AnswerInv ==
    \A c \in Clients : \A name \in asked[c] :
        (\E r \in Everything(c) : r.name = name) \/ Awaited(c, name)

ReportInv == EntryTypeOK /\ RoutesInv /\ CurInv /\ TalkInv /\ AnswerInv

----------------------------------------------------------------------------
(* Sequences *)

\* Two sequences, one after the other.
LEMMA JoinFacts ==
    ASSUME NEW S, NEW s \in Seq(S), NEW t \in Seq(S)
    PROVE  /\ s \o t \in Seq(S) /\ Len(s) \in Nat /\ Len(t) \in Nat
           /\ Len(s \o t) = Len(s) + Len(t)
           /\ \A i \in 1..Len(s) : (s \o t)[i] = s[i]
           /\ \A i \in 1..Len(t) : (s \o t)[Len(s) + i] = t[i]
  OBVIOUS

\* What is left behind the first element.
LEMMA TailFacts ==
    ASSUME NEW S, NEW s \in Seq(S), s # << >>
    PROVE  /\ Tail(s) \in Seq(S) /\ Len(s) \in Nat /\ Len(s) >= 1
           /\ Len(Tail(s)) = Len(s) - 1 /\ Head(s) = s[1] /\ s[1] \in S
           /\ \A i \in 1..(Len(s) - 1) : Tail(s)[i] = s[i + 1]
  <1>1. Len(s) \in Nat /\ Len(s) >= 1
    OBVIOUS
  <1>2. Tail(s) \in Seq(S) /\ Len(Tail(s)) = Len(s) - 1 /\ Head(s) = s[1] /\ s[1] \in S
    BY <1>1
  <1>3. \A i \in 1..(Len(s) - 1) : Tail(s)[i] = s[i + 1]
    BY <1>1
  <1> QED
    BY <1>1, <1>2, <1>3

\* One more element.
LEMMA PushFacts ==
    ASSUME NEW S, NEW s \in Seq(S), NEW e \in S
    PROVE  /\ Append(s, e) \in Seq(S) /\ Len(s) \in Nat
           /\ Len(Append(s, e)) = Len(s) + 1 /\ Append(s, e)[Len(s) + 1] = e
           /\ \A i \in 1..Len(s) : Append(s, e)[i] = s[i]
  OBVIOUS

\* One element less.
LEMMA RemoveFacts ==
    ASSUME NEW S, NEW s \in Seq(S), NEW k \in 1..Len(s)
    PROVE  /\ RemoveAt(s, k) \in Seq(S) /\ Len(s) \in Nat
           /\ Len(RemoveAt(s, k)) = Len(s) - 1
           /\ \A i \in 1..(Len(s) - 1) :
                 RemoveAt(s, k)[i] = s[IF i < k THEN i ELSE i + 1]
  <1> DEFINE a == SubSeq(s, 1, k - 1)
             b == SubSeq(s, k + 1, Len(s))
  <1>1. Len(s) \in Nat /\ k \in Nat /\ 1 <= k /\ k <= Len(s)
    OBVIOUS
  <1>2. /\ a \in Seq(S) /\ Len(a) = k - 1
        /\ \A i \in 1..(k - 1) : a[i] = s[i]
    BY <1>1
  <1>3. /\ b \in Seq(S) /\ Len(b) = Len(s) - k
        /\ \A i \in 1..(Len(s) - k) : b[i] = s[k + i]
    BY <1>1
  <1>4. RemoveAt(s, k) = a \o b
    BY DEF RemoveAt
  <1> HIDE DEF a, b
  <1>5. /\ a \o b \in Seq(S) /\ Len(a \o b) = Len(a) + Len(b)
        /\ \A i \in 1..Len(a) : (a \o b)[i] = a[i]
        /\ \A i \in 1..Len(b) : (a \o b)[Len(a) + i] = b[i]
    <2>1. a \in Seq(S) /\ b \in Seq(S)
      BY <1>2, <1>3
    <2> QED
      BY <2>1, JoinFacts
  <1>6. ASSUME NEW i \in 1..(Len(s) - 1)
        PROVE  (a \o b)[i] = s[IF i < k THEN i ELSE i + 1]
    <2>1. CASE i < k
      BY <1>1, <1>2, <1>5, <2>1
    <2>2. CASE ~(i < k)
      <3>1. i - (k - 1) \in 1..Len(b) /\ Len(a) + (i - (k - 1)) = i
            /\ k + (i - (k - 1)) = i + 1 /\ i - (k - 1) \in 1..(Len(s) - k)
        BY <1>1, <1>2, <1>3, <2>2
      <3>2. (a \o b)[i] = b[i - (k - 1)]
        BY <1>5, <3>1
      <3>3. b[i - (k - 1)] = s[i + 1]
        BY <1>3, <3>1
      <3> QED
        BY <2>2, <3>2, <3>3
    <2> QED
      BY <2>1, <2>2
  <1> QED
    BY <1>1, <1>2, <1>3, <1>4, <1>5, <1>6

----------------------------------------------------------------------------
(* Rendering *)

\* What a report takes from its event, and what from the state.
LEMMA RenderFacts ==
    ASSUME IInv, RegistryInv, RoutesInv, NEW e \in EventType, Sound(e)
    PROVE  /\ Render(e) \in ReportType
           /\ Render(e).kind = e.kind /\ Render(e).order = e.order
           /\ e.kind = "FILLED" => Render(e).cum = e.cum
           /\ \A o \in OrderIds : Final(Render(e), o) <=> Closes(e, o)
           /\ \A o \in OrderIds :
                 About(e, o) /\ Current(e, orders[o]) => States(Render(e), o)
           /\ Render(e).name = IF e.name # NoKey THEN e.name ELSE CurrentName(e.order)
  <1> DEFINE name == IF e.name # NoKey THEN e.name ELSE CurrentName(e.order)
             qty == CASE e.kind = "FILLED" -> e.qty
                      [] e.order = NoOrder -> 0
                      [] OTHER -> orders[e.order].qty
             cum == CASE e.kind = "FILLED" -> e.cum
                      [] e.order = NoOrder -> 0
                      [] OTHER -> orders[e.order].cum
             status == ReportedStatus(e)
  <1>1. /\ e.kind \in EventKinds /\ e.order \in OrderIds \cup {NoOrder}
        /\ e.name \in Names \cup {NoKey} /\ e.qty \in Nat /\ e.cum \in Nat
    BY DEF EventType
  <1>2. ASSUME e.order # NoOrder
        PROVE  /\ orders[e.order] \in OrderType
               /\ orders[e.order].status \in Statuses
               /\ chain[e.order] \in Seq(Names) /\ chain[e.order] # << >>
    <2>1. e.order \in OrderIds /\ e.order < nextId
      BY <1>1, <1>2 DEF Sound
    <2>2. e.order \in Nat /\ nextId \in Nat
      BY <2>1, MaxOrdersAssumption DEF OrderIds, IInv, TypeOK
    <2>3. orders[e.order] \in OrderType /\ orders[e.order].status # Unborn
      BY <2>1, <2>2 DEF IInv, TypeOK, IssuedInv
    <2> QED
      BY <2>1, <2>3 DEF OrderType, RegistryInv, RoutesInv
  <1>3. name \in Names
    <2>1. ASSUME e.name = NoKey PROVE CurrentName(e.order) \in Names
      <3>1. chain[e.order] \in Seq(Names) /\ chain[e.order] # << >>
        BY <1>2, <2>1 DEF Sound
      <3> DEFINE s == chain[e.order]
      <3> HIDE DEF s
      <3>2. s \in Seq(Names) /\ s # << >>
        BY <3>1 DEF s
      <3>3. s[Len(s)] \in Names
        BY <3>2
      <3> QED
        BY <3>3 DEF CurrentName, Last, s
    <2> QED
      BY <1>1, <2>1
  <1>4. qty \in Nat /\ cum \in Nat
    BY <1>1, <1>2 DEF OrderType
  <1>5. status \in Statuses
    BY <1>2 DEF ReportedStatus, Statuses, LIVE, TERMINAL
  <1>6. Render(e) = [kind |-> e.kind, order |-> e.order, name |-> name,
                     status |-> status, qty |-> qty, cum |-> cum]
    BY DEF Render
  <1>7. /\ e.kind = "FILLED" => qty = e.qty /\ cum = e.cum
        /\ e.kind # "FILLED" /\ e.order # NoOrder =>
              qty = orders[e.order].qty /\ cum = orders[e.order].cum
    BY DEF Sound
  <1>8. /\ e.kind = "FILLED" => status = IF e.cum >= e.qty THEN "FILLED"
                                         ELSE "PARTIALLY_FILLED"
        /\ e.kind = "ACCEPTED"  => status = "NEW"
        /\ e.kind = "CANCELLED" => status = "CANCELLED"
        /\ e.kind = "REJECTED"  => status = "REJECTED"
        /\ e.kind \notin {"FILLED", "ACCEPTED", "CANCELLED", "REJECTED"} /\ e.order # NoOrder =>
              status = orders[e.order].status
    BY DEF ReportedStatus
  <1> HIDE DEF qty, cum, status
  <1>9. Render(e) \in ReportType
    BY <1>1, <1>3, <1>4, <1>5, <1>6 DEF ReportType
  <1>10. /\ Render(e).kind = e.kind /\ Render(e).order = e.order
         /\ Render(e).name = name /\ Render(e).status = status
         /\ Render(e).qty = qty /\ Render(e).cum = cum
    BY <1>6
  <1>11. \A o \in OrderIds : o # NoOrder
    BY MaxOrdersAssumption DEF OrderIds, NoOrder
  <1>12. ASSUME NEW o \in OrderIds PROVE Final(Render(e), o) <=> Closes(e, o)
    BY <1>8, <1>10 DEF Final, Closes, TERMINAL
  <1>13. ASSUME NEW o \in OrderIds, About(e, o), Current(e, orders[o])
         PROVE  States(Render(e), o)
    <2>1. e.order = o /\ e.order # NoOrder /\ e.name = NoKey
      BY <1>11, <1>13 DEF About, Sound
    <2>2. qty = orders[o].qty /\ cum = orders[o].cum
      BY <1>7, <1>13, <2>1 DEF Current
    <2>3. status = orders[o].status
      BY <1>8, <1>13, <2>1 DEF Current
    <2> QED
      BY <1>10, <2>1, <2>2, <2>3 DEF States
  <1> QED
    BY <1>7, <1>9, <1>10, <1>12, <1>13

----------------------------------------------------------------------------
(* What a handler, or an iteration of its loop, adds to what is to be said *)

Tells(new, x) == \E i \in 1..Len(new) : About(new[i], x)

\* Of order x, new tells what has changed: the last of it is true now, a fill
\* states the total it led to, and an end is told once, of an order that had not
\* ended.  An order that enters the loop may be told of later.
NewsOf(x, new) ==
    /\ IF Tells(new, x)
       THEN /\ orders[x].status \notin TERMINAL
            /\ \E i \in 1..Len(new) :
                  /\ About(new[i], x) /\ Current(new[i], orders'[x])
                  /\ \A j \in 1..Len(new) : About(new[j], x) => j <= i
       ELSE \/ x < nextId /\ orders'[x] = orders[x] /\ chain'[x] = chain[x]
            \/ x >= nextId /\ task' = "match" /\ cur' = x
    /\ \A i \in 1..Len(new) : Fill(new[i], x) =>
          /\ new[i].cum = orders'[x].cum /\ orders[x].cum < orders'[x].cum
          /\ \A j \in 1..Len(new) : Fill(new[j], x) => i = j
    /\ (\A i \in 1..Len(new) : ~Fill(new[i], x)) =>
          orders'[x].cum = IF x < nextId THEN orders[x].cum ELSE 0
    /\ \A i \in 1..Len(new) : Closes(new[i], x) =>
          /\ orders'[x].status \in TERMINAL
          /\ \A j \in 1..Len(new) : Closes(new[j], x) => i = j

\* A request of a client for order x takes its name.
Renames(x, c, name, new) ==
    /\ x < nextId' /\ orders'[x].session = c /\ chain'[x][Len(chain'[x])] = name
    /\ Tells(new, x) \/ (task' = "match" /\ cur' = x)

Produces(new) ==
    /\ new \in Seq(EventType) /\ events' = events \o new
    /\ \A i \in 1..Len(new) :
          /\ new[i].name = NoKey /\ new[i].kind # "CANCEL_REJECTED"
          /\ new[i].order \in OrderIds /\ new[i].order < nextId'
          /\ new[i].owner = orders'[new[i].order].session
    /\ nextId' \in Nat /\ nextId <= nextId'
    /\ \A x \in OrderIds : x < nextId => orders'[x].session = orders[x].session
    /\ \A x \in OrderIds : x < nextId' => NewsOf(x, new) /\ chain'[x] # << >>
    /\ events # << >> \/ task = "match" => chain' = chain /\ origin' = origin
    /\ task = "match" => \/ task' = "match" /\ cur' = cur
                         \/ Tells(new, cur) \/ Tells(events, cur)
    /\ task' = "match" =>
          \/ Tells(new, cur') \/ Untouched(cur)'
          \/ task = "match" /\ cur' = cur /\ Tells(events, cur)
    /\ \A c \in Clients : \A name \in asked'[c] :
          \/ name \in asked[c]
          \/ \E x \in OrderIds : Renames(x, c, name, new)
    /\ UNCHANGED << held, sent, dropped, delayed >>

\* The events after a step are those before it and the new ones.
LEMMA MoreEvents ==
    ASSUME events \in Seq(EventType), NEW new, Produces(new)
    PROVE  /\ events' \in Seq(EventType)
           /\ Len(events) \in Nat /\ Len(new) \in Nat
           /\ Len(events') = Len(events) + Len(new)
           /\ \A i \in 1..Len(events) : i \in 1..Len(events') /\ events'[i] = events[i]
           /\ \A i \in 1..Len(new) : /\ Len(events) + i \in 1..Len(events')
                                     /\ events'[Len(events) + i] = new[i]
           /\ \A i \in 1..Len(events') :
                 \/ i \in 1..Len(events)
                 \/ /\ i > Len(events) /\ i - Len(events) \in 1..Len(new)
                    /\ events'[i] = new[i - Len(events)]
  <1>1. new \in Seq(EventType) /\ events' = events \o new
    BY DEF Produces
  <1> DEFINE ev == events \o new
  <1>2. /\ ev \in Seq(EventType) /\ Len(events) \in Nat /\ Len(new) \in Nat
        /\ Len(ev) = Len(events) + Len(new)
        /\ \A i \in 1..Len(events) : ev[i] = events[i]
        /\ \A i \in 1..Len(new) : ev[Len(events) + i] = new[i]
    BY <1>1, JoinFacts
  <1> HIDE DEF ev
  <1>3. \A i \in 1..Len(events) : i \in 1..Len(ev)
    BY <1>2
  <1>4. \A i \in 1..Len(new) : Len(events) + i \in 1..Len(ev)
    BY <1>2
  <1>5. ASSUME NEW i \in 1..Len(ev), ~(i \in 1..Len(events))
        PROVE  /\ i > Len(events) /\ i - Len(events) \in 1..Len(new)
               /\ ev[i] = new[i - Len(events)]
    <2>1. /\ i > Len(events) /\ i - Len(events) \in 1..Len(new)
          /\ Len(events) + (i - Len(events)) = i
      BY <1>2, <1>5
    <2> QED
      BY <1>2, <2>1
  <1>6. events' = ev
    BY <1>1 DEF ev
  <1> QED
    BY <1>2, <1>3, <1>4, <1>5, <1>6

\* A report that waits for its timer is one to a client.
LEMMA HeldFacts ==
    ASSUME EntryTypeOK, NEW i \in 1..Len(held)
    PROVE  held[i] \in [to : Clients, report : ReportType, delay : Nat]
  <1> DEFINE H == [to : Clients, report : ReportType, delay : Nat]
  <1>1. held \in Seq(H)
    BY DEF EntryTypeOK
  <1> HIDE DEF H
  <1>2. held[i] \in H
    BY <1>1
  <1> QED
    BY <1>2 DEF H

\* What a step adds names its orders and their owners.
LEMMA RoutesKept ==
    ASSUME EntryTypeOK, MaxOrders \in Nat, nextId \in Nat, RoutesInv, NEW new, Produces(new)
    PROVE  RoutesInv'
  <1>1. /\ events \in Seq(EventType)
        /\ sent' = sent /\ held' = held /\ delayed' = delayed
        /\ nextId' \in Nat /\ nextId <= nextId'
        /\ OrderIds \subseteq Nat /\ NoOrder \notin OrderIds
        /\ \A x \in OrderIds : x < nextId => orders'[x].session = orders[x].session
    BY DEF EntryTypeOK, Produces, OrderIds, NoOrder
  <1>2. ASSUME NEW x \in OrderIds, x < nextId PROVE x < nextId'
    <2>1. x \in Nat /\ nextId' \in Nat /\ nextId <= nextId'
      BY <1>1
    <2> QED
      BY <1>2, <2>1
  <1>3. ASSUME NEW i \in 1..Len(events'), NEW e, e = events'[i] PROVE Sound(e)'
    <2>1. CASE i \in 1..Len(events)
      <3>1. e = events[i] /\ e \in EventType /\ Sound(e)
        BY <1>1, <1>3, <2>1, MoreEvents DEF RoutesInv
      <3>2. e.order \in OrderIds \cup {NoOrder}
        BY <3>1 DEF EventType
      <3> QED
        BY <1>1, <1>2, <3>1, <3>2 DEF Sound
    <2>2. CASE i - Len(events) \in 1..Len(new) /\ events'[i] = new[i - Len(events)]
      <3>1. PICK k \in 1..Len(new) : e = new[k]
        BY <1>3, <2>2
      <3> QED
        BY <1>1, <3>1 DEF Sound, Produces
    <2> QED
      BY <1>1, <2>1, <2>2, MoreEvents
  <1>4. ASSUME NEW c \in Clients, NEW i \in 1..Len(sent'[c]), NEW r, r = sent'[c][i]
        PROVE  Owned(c, r)'
    <2>1. Owned(c, r) /\ r \in ReportType
      BY <1>1, <1>4 DEF RoutesInv, EntryTypeOK
    <2>2. r.order \in OrderIds \cup {NoOrder}
      BY <2>1 DEF ReportType
    <2> QED
      BY <1>1, <1>2, <2>1, <2>2 DEF Owned
  <1>5. ASSUME NEW i \in 1..Len(held'), NEW h, h = held'[i] PROVE Owned(h.to, h.report)'
    <2>0. h = held[i] /\ i \in 1..Len(held)
      BY <1>1, <1>5
    <2>1. Owned(h.to, h.report)
      BY <2>0 DEF RoutesInv
    <2>3. h \in [to : Clients, report : ReportType, delay : Nat]
      BY <2>0, HeldFacts
    <2>2. h.report.order \in OrderIds \cup {NoOrder}
      BY <2>3 DEF ReportType
    <2> QED
      BY <1>1, <1>2, <2>1, <2>2 DEF Owned
  <1>6. \A o \in OrderIds : o < nextId' => chain'[o] # << >>
    BY DEF Produces
  <1> QED
    BY <1>1, <1>3, <1>4, <1>5, <1>6 DEF RoutesInv

\* An order that is being matched stays accounted for.
LEMMA CurKept ==
    ASSUME events \in Seq(EventType), NEW new, Produces(new)
    PROVE  CurInv'
  <1>1. ASSUME NEW x, Tells(new, x) \/ Tells(events, x)
        PROVE  \E i \in 1..Len(events') : About(events'[i], x)
    BY <1>1, MoreEvents DEF Tells
  <1> QED
    BY <1>1 DEF Produces, CurInv

\* Nothing has been said, or is to be said, of an order that was not issued.
LEMMA NothingOfUnissued ==
    ASSUME EntryTypeOK, RoutesInv, MaxOrders \in Nat, nextId \in Nat,
           NEW x \in OrderIds, x >= nextId
    PROVE  /\ \A i \in 1..Len(events) : events[i].order # x
           /\ \A c \in Clients : \A i \in 1..Len(sent[c]) : sent[c][i].order # x
           /\ \A i \in 1..Len(held) : held[i].report.order # x
  <1>1. x # NoOrder /\ x \in Nat /\ ~(x < nextId)
    BY DEF OrderIds, NoOrder
  <1> QED
    BY <1>1 DEF RoutesInv, Sound, Owned

\* The last thing to be said of an order stays true, or something truer follows.
LEMMA KnownKept ==
    ASSUME EntryTypeOK, RoutesInv, MaxOrders \in Nat, nextId \in Nat,
           NEW new, Produces(new), NEW x \in OrderIds, x < nextId',
           x < nextId => Known(x), orders'[x].session \in Clients
    PROVE  Known(x)'
  <1>1. /\ events \in Seq(EventType) /\ sent' = sent /\ NewsOf(x, new)
        /\ x < nextId => orders'[x].session = orders[x].session
        /\ x \in Nat
    BY DEF EntryTypeOK, Produces, OrderIds
  <1>2. /\ Len(events) \in Nat /\ Len(new) \in Nat
        /\ Len(events') = Len(events) + Len(new)
        /\ \A i \in 1..Len(events) : i \in 1..Len(events') /\ events'[i] = events[i]
        /\ \A i \in 1..Len(new) : /\ Len(events) + i \in 1..Len(events')
                                  /\ events'[Len(events) + i] = new[i]
        /\ \A i \in 1..Len(events') :
              \/ i \in 1..Len(events)
              \/ /\ i > Len(events) /\ i - Len(events) \in 1..Len(new)
                 /\ events'[i] = new[i - Len(events)]
    BY <1>1, MoreEvents
  <1>3. CASE Tells(new, x)
    <2>1. PICK i \in 1..Len(new) :
             /\ About(new[i], x) /\ Current(new[i], orders'[x])
             /\ \A j \in 1..Len(new) : About(new[j], x) => j <= i
      BY <1>1, <1>3 DEF NewsOf
    <2>2. PICK k : k = Len(events) + i
      OBVIOUS
    <2>3. /\ k \in 1..Len(events') /\ events'[k] = new[i]
      BY <1>2, <2>2
    <2>4. ASSUME NEW j \in 1..Len(events'), About(events'[j], x) PROVE j <= k
      <3>1. CASE j \in 1..Len(events)
        BY <1>2, <2>2, <3>1
      <3>2. CASE j - Len(events) \in 1..Len(new) /\ events'[j] = new[j - Len(events)]
        <4>1. j - Len(events) <= i
          BY <2>1, <2>4, <3>2
        <4> QED
          BY <1>2, <2>2, <4>1
      <3> QED
        BY <1>2, <3>1, <3>2
    <2> QED
      BY <2>1, <2>3, <2>4 DEF Known
  <1>4. CASE ~Tells(new, x) /\ x < nextId
    <2>1. orders'[x] = orders[x] /\ chain'[x] = chain[x]
      BY <1>1, <1>4 DEF NewsOf
    <2>2. \A i \in 1..Len(events') : About(events'[i], x) =>
             i \in 1..Len(events) /\ events'[i] = events[i]
      BY <1>2, <1>4 DEF Tells
    <2>3. CASE Tells(events, x)
      <3>1. PICK i \in 1..Len(events) :
               /\ About(events[i], x) /\ Current(events[i], orders[x])
               /\ \A j \in 1..Len(events) : About(events[j], x) => j <= i
        BY <1>4, <2>3 DEF Known, Tells
      <3>2. i \in 1..Len(events') /\ events'[i] = events[i]
        BY <1>2
      <3>3. \A j \in 1..Len(events') : About(events'[j], x) => j <= i
        BY <2>2, <3>1
      <3> QED
        BY <2>1, <3>1, <3>2, <3>3 DEF Known
    <2>4. CASE ~Tells(events, x)
      <3>1. ~\E i \in 1..Len(events') : About(events'[i], x)
        BY <2>2, <2>4 DEF Tells
      <3>2. CASE task = "match" /\ cur = x
        <4>1. \/ task' = "match" /\ cur' = cur
              \/ Tells(new, cur) \/ Tells(events, cur)
          BY <3>2 DEF Produces
        <4>2. task' = "match" /\ cur' = x
          BY <1>4, <2>4, <3>2, <4>1
        <4> QED
          BY <3>1, <4>2 DEF Known
      <3>3. CASE ~(task = "match" /\ cur = x)
        <4>1. PICK c \in Clients : c = orders[x].session /\ c = orders'[x].session
          BY <1>1, <1>4
        <4>2. PICK i \in 1..Len(sent[c]) :
                 /\ About(sent[c][i], x) /\ States(sent[c][i], x)
                 /\ \A j \in 1..Len(sent[c]) : About(sent[c][j], x) => j <= i
          BY <1>4, <2>4, <3>3, <4>1 DEF Known, Tells
        <4>3. PICK s : s = sent[c] /\ s = sent'[c]
          BY <1>1
        <4>4. States(s[i], x)'
          BY <2>1, <4>2, <4>3 DEF States, CurrentName, Last
        <4>5. /\ i \in 1..Len(s) /\ About(s[i], x)
              /\ \A j \in 1..Len(s) : About(s[j], x) => j <= i
          BY <4>2, <4>3
        <4> QED
          BY <3>1, <4>1, <4>3, <4>4, <4>5 DEF Known, States, CurrentName
      <3> QED
        BY <3>2, <3>3
    <2> QED
      BY <2>3, <2>4
  <1>5. CASE ~Tells(new, x) /\ ~(x < nextId)
    <2>1. task' = "match" /\ cur' = x
      BY <1>1, <1>5 DEF NewsOf
    <2>2. \A i \in 1..Len(events) : events[i].order # x
      BY <1>1, <1>5, NothingOfUnissued
    <2>3. ~\E i \in 1..Len(events') : About(events'[i], x)
      <3>1. \A i \in 1..Len(events') :
               \/ i \in 1..Len(events) /\ events'[i] = events[i]
               \/ i - Len(events) \in 1..Len(new) /\ events'[i] = new[i - Len(events)]
        BY <1>2
      <3>2. \A i \in 1..Len(new) : ~About(new[i], x)
        BY <1>5 DEF Tells
      <3>3. \A i \in 1..Len(events) : ~About(events[i], x)
        BY <2>2 DEF About
      <3> QED
        BY <3>1, <3>2, <3>3
    <2> QED
      BY <2>1, <2>3 DEF Known
  <1> QED
    BY <1>3, <1>4, <1>5

\* What an order has executed stays stated, or is stated by what is added.
LEMMA StatedKept ==
    ASSUME EntryTypeOK, RoutesInv, MaxOrders \in Nat, nextId \in Nat,
           NEW new, Produces(new), NEW x \in OrderIds, x < nextId',
           x < nextId => Stated(x), orders'[x].session \in Clients
    PROVE  Stated(x)'
  <1>1. /\ events \in Seq(EventType) /\ sent' = sent /\ NewsOf(x, new)
        /\ x < nextId => orders'[x].session = orders[x].session
    BY DEF EntryTypeOK, Produces
  <1>2. /\ \A i \in 1..Len(events) : i \in 1..Len(events') /\ events'[i] = events[i]
        /\ \A i \in 1..Len(new) : /\ Len(events) + i \in 1..Len(events')
                                  /\ events'[Len(events) + i] = new[i]
    BY <1>1, MoreEvents
  <1>3. CASE \E i \in 1..Len(new) : Fill(new[i], x)
    <2>1. PICK i \in 1..Len(new) : Fill(new[i], x)
      BY <1>3
    <2>2. new[i].cum = orders'[x].cum
      BY <1>1, <2>1 DEF NewsOf
    <2> QED
      BY <1>2, <2>1, <2>2 DEF Stated
  <1>4. CASE orders'[x].cum = 0
    BY <1>4 DEF Stated
  <1>5. CASE x < nextId /\ orders'[x].cum = orders[x].cum
    <2>1. PICK c : c = orders[x].session /\ c = orders'[x].session
      BY <1>1, <1>5
    <2>2. \/ orders[x].cum = 0
          \/ \E i \in 1..Len(sent[c]) : Fill(sent[c][i], x) /\ sent[c][i].cum = orders[x].cum
          \/ \E i \in 1..Len(events) : Fill(events[i], x) /\ events[i].cum = orders[x].cum
      BY <1>5, <2>1 DEF Stated
    <2> QED
      BY <1>1, <1>2, <1>5, <2>1, <2>2 DEF Stated
  <1> QED
    BY <1>1, <1>3, <1>4, <1>5 DEF NewsOf

\* A fill states a total above those stated before it.
LEMMA AscendingKept ==
    ASSUME EntryTypeOK, RoutesInv, MaxOrders \in Nat, nextId \in Nat,
           NEW new, Produces(new), NEW x \in OrderIds, x < nextId',
           orders[x].cum \in Nat, orders'[x].cum \in Nat,
           x < nextId => Ascending(x), orders'[x].session \in Clients
    PROVE  Ascending(x)'
  <1>0. PICK c \in Clients : c = orders'[x].session
    OBVIOUS
  <1>1. /\ events \in Seq(EventType) /\ sent' = sent /\ NewsOf(x, new)
        /\ x < nextId => orders[x].session = c
        /\ x \in Nat
    BY <1>0 DEF EntryTypeOK, Produces, OrderIds
  <1>2. /\ Len(events) \in Nat /\ Len(new) \in Nat
        /\ Len(events') = Len(events) + Len(new)
        /\ \A i \in 1..Len(events) : i \in 1..Len(events') /\ events'[i] = events[i]
        /\ \A i \in 1..Len(events') :
              \/ i \in 1..Len(events)
              \/ /\ i > Len(events) /\ i - Len(events) \in 1..Len(new)
                 /\ events'[i] = new[i - Len(events)]
    BY <1>1, MoreEvents
  <1>3. PICK old \in Nat : old = orders[x].cum
    OBVIOUS
  <1>4. PICK now \in Nat : now = orders'[x].cum
    OBVIOUS
  \* What was said, or queued, before.
  <1>5. /\ \A i \in 1..Len(sent[c]) : Fill(sent[c][i], x) =>
              /\ 0 < sent[c][i].cum /\ sent[c][i].cum <= old
              /\ \A j \in 1..Len(sent[c]) :
                    i < j /\ Fill(sent[c][j], x) => sent[c][i].cum < sent[c][j].cum
              /\ \A j \in 1..Len(events) :
                    Fill(events[j], x) => sent[c][i].cum < events[j].cum
        /\ \A i \in 1..Len(events) : Fill(events[i], x) =>
              /\ 0 < events[i].cum /\ events[i].cum <= old
              /\ \A j \in 1..Len(events) :
                    i < j /\ Fill(events[j], x) => events[i].cum < events[j].cum
    <2>1. CASE x < nextId
      BY <1>1, <1>3, <2>1 DEF Ascending
    <2>2. CASE ~(x < nextId)
      BY <1>1, <2>2, NothingOfUnissued DEF Fill
    <2> QED
      BY <2>1, <2>2
  \* What is new.
  <1>6. \A i \in 1..Len(new) : Fill(new[i], x) =>
           /\ new[i].cum = now /\ old < now
           /\ \A j \in 1..Len(new) : Fill(new[j], x) => i = j
    BY <1>1, <1>3, <1>4 DEF NewsOf
  <1>7. \/ old <= now
        \/ /\ \A i \in 1..Len(sent[c]) : ~Fill(sent[c][i], x)
           /\ \A i \in 1..Len(events) : ~Fill(events[i], x)
           /\ \A i \in 1..Len(new) : ~Fill(new[i], x)
    <2>1. CASE \E i \in 1..Len(new) : Fill(new[i], x)
      BY <1>6, <2>1
    <2>2. CASE x < nextId /\ \A i \in 1..Len(new) : ~Fill(new[i], x)
      <3>1. now = old
        BY <1>1, <1>3, <1>4, <2>2 DEF NewsOf
      <3> QED
        BY <3>1
    <2>3. CASE ~(x < nextId) /\ \A i \in 1..Len(new) : ~Fill(new[i], x)
      BY <1>1, <2>3, NothingOfUnissued DEF Fill
    <2> QED
      BY <2>1, <2>2, <2>3
  <1>8. \A r : Fill(r, x) => Fill(r, x)'
    BY DEF Fill
  <1>9. ASSUME NEW i \in 1..Len(sent[c]), Fill(sent[c][i], x)
        PROVE  /\ 0 < sent[c][i].cum /\ sent[c][i].cum <= now
               /\ \A j \in 1..Len(sent[c]) :
                     i < j /\ Fill(sent[c][j], x) => sent[c][i].cum < sent[c][j].cum
               /\ \A j \in 1..Len(events') :
                     Fill(events'[j], x) => sent[c][i].cum < events'[j].cum
    <2>1. /\ 0 < sent[c][i].cum /\ sent[c][i].cum <= old /\ old <= now
          /\ \A j \in 1..Len(sent[c]) :
                i < j /\ Fill(sent[c][j], x) => sent[c][i].cum < sent[c][j].cum
      BY <1>5, <1>7, <1>9
    <2>2. sent[c][i].cum \in Nat
      <3>1. sent[c] \in Seq(ReportType)
        BY DEF EntryTypeOK
      <3>2. PICK s : s = sent[c]
        OBVIOUS
      <3>3. s[i] \in ReportType
        BY <3>1, <3>2
      <3> QED
        BY <3>2, <3>3 DEF ReportType
    <2>3. ASSUME NEW j \in 1..Len(events'), Fill(events'[j], x)
          PROVE  sent[c][i].cum < events'[j].cum
      <3>1. CASE j \in 1..Len(events)
        BY <1>2, <1>5, <1>9, <2>3, <3>1
      <3>2. CASE j - Len(events) \in 1..Len(new) /\ events'[j] = new[j - Len(events)]
        <4>1. events'[j].cum = now /\ old < now
          BY <1>6, <2>3, <3>2
        <4> QED
          BY <2>1, <2>2, <4>1
      <3> QED
        BY <1>2, <3>1, <3>2
    <2>4. sent[c][i].cum <= now
      BY <2>1, <2>2
    <2> QED
      BY <2>1, <2>3, <2>4
  <1>10. ASSUME NEW i \in 1..Len(events'), Fill(events'[i], x)
         PROVE  /\ 0 < events'[i].cum /\ events'[i].cum <= now
                /\ \A j \in 1..Len(events') :
                      i < j /\ Fill(events'[j], x) => events'[i].cum < events'[j].cum
    <2>1. CASE i \in 1..Len(events)
      <3>1. /\ events'[i] = events[i] /\ Fill(events[i], x)
            /\ 0 < events[i].cum /\ events[i].cum <= old /\ old <= now
        BY <1>2, <1>5, <1>7, <1>10, <2>1
      <3>2. events[i].cum \in Nat
        <4>1. events[i] \in EventType
          BY <1>1, <2>1
        <4> QED
          BY <4>1 DEF EventType
      <3>3. ASSUME NEW j \in 1..Len(events'), i < j, Fill(events'[j], x)
            PROVE  events[i].cum < events'[j].cum
        <4>1. CASE j \in 1..Len(events)
          BY <1>2, <1>5, <2>1, <3>1, <3>3, <4>1
        <4>2. CASE j - Len(events) \in 1..Len(new) /\ events'[j] = new[j - Len(events)]
          <5>1. events'[j].cum = now /\ old < now
            BY <1>6, <3>3, <4>2
          <5> QED
            BY <3>1, <3>2, <5>1
        <4> QED
          BY <1>2, <4>1, <4>2
      <3>4. events[i].cum <= now
        BY <3>1, <3>2
      <3> QED
        BY <3>1, <3>3, <3>4
    <2>2. CASE /\ i > Len(events) /\ i - Len(events) \in 1..Len(new)
               /\ events'[i] = new[i - Len(events)]
      <3>1. events'[i].cum = now /\ old < now
        BY <1>6, <1>10, <2>2
      <3>2. ASSUME NEW j \in 1..Len(events'), i < j, Fill(events'[j], x) PROVE FALSE
        <4>1. j - Len(events) \in 1..Len(new) /\ events'[j] = new[j - Len(events)]
          BY <1>2, <2>2, <3>2
        <4>2. i - Len(events) = j - Len(events)
          BY <1>6, <1>10, <2>2, <3>2, <4>1
        <4> QED
          BY <1>2, <3>2, <4>2
      <3> QED
        BY <3>1, <3>2
    <2> QED
      BY <1>2, <2>1, <2>2
  <1> QED
    BY <1>0, <1>1, <1>4, <1>9, <1>10 DEF Ascending, Fill

\* An end is told once.
LEMMA EndedKept ==
    ASSUME EntryTypeOK, RoutesInv, MaxOrders \in Nat, nextId \in Nat,
           NEW new, Produces(new), NEW x \in OrderIds, x < nextId',
           x < nextId => EndedInv(x), orders'[x].session \in Clients
    PROVE  EndedInv(x)'
  <1>0. PICK c \in Clients : c = orders'[x].session
    OBVIOUS
  <1>1. /\ events \in Seq(EventType) /\ sent' = sent /\ held' = held /\ NewsOf(x, new)
        /\ x < nextId => orders[x].session = c
        /\ x \in Nat
    BY <1>0 DEF EntryTypeOK, Produces, OrderIds
  <1>2. /\ \A i \in 1..Len(events) : i \in 1..Len(events') /\ events'[i] = events[i]
        /\ \A i \in 1..Len(new) : /\ Len(events) + i \in 1..Len(events')
                                  /\ events'[Len(events) + i] = new[i]
        /\ Len(events) \in Nat
        /\ \A i \in 1..Len(events') :
              \/ i \in 1..Len(events)
              \/ /\ i - Len(events) \in 1..Len(new)
                 /\ events'[i] = new[i - Len(events)]
    BY <1>1, MoreEvents
  <1> DEFINE InSent == \E i \in 1..Len(sent[c]) : Final(sent[c][i], x)
  <1>3. /\ \A i, j \in 1..Len(sent[c]) : Final(sent[c][i], x) /\ Final(sent[c][j], x) => i = j
        /\ \A i, j \in 1..Len(held) :
              Final(held[i].report, x) /\ Final(held[j].report, x) => i = j
        /\ \A i, j \in 1..Len(events) :
              Closes(events[i], x) /\ Closes(events[j], x) => i = j
        /\ ~(InSent /\ SaidHeld(x)) /\ ~(InSent /\ SaidDue(x)) /\ ~(SaidHeld(x) /\ SaidDue(x))
        /\ InSent \/ SaidHeld(x) \/ SaidDue(x) => x < nextId /\ orders[x].status \in TERMINAL
    <2>1. CASE x < nextId
      <3>1. EndedInv(x) /\ orders[x].session = c
        BY <1>1, <2>1
      <3> QED
        BY <2>1, <3>1 DEF EndedInv, SaidSent
    <2>2. CASE ~(x < nextId)
      <3>1. /\ \A i \in 1..Len(events) : events[i].order # x
            /\ \A i \in 1..Len(sent[c]) : sent[c][i].order # x
            /\ \A i \in 1..Len(held) : held[i].report.order # x
        BY <1>1, <2>2, NothingOfUnissued
      <3> QED
        BY <3>1 DEF Final, Closes, SaidHeld, SaidDue
    <2> QED
      BY <2>1, <2>2
  <1>4. /\ \A r : Final(r, x)' <=> Final(r, x)
        /\ \A e : Closes(e, x)' <=> Closes(e, x)
    BY DEF Final, Closes
  <1>5. SaidHeld(x)' <=> SaidHeld(x)
    BY <1>1 DEF SaidHeld, Final
  <1>6. SaidSent(x)' <=> InSent
    BY <1>0, <1>1 DEF SaidSent, Final
  <1>7. CASE \A i \in 1..Len(new) : ~Closes(new[i], x)
    <2>1. \A i \in 1..Len(events') : Closes(events'[i], x) =>
             i \in 1..Len(events) /\ Closes(events[i], x)
      BY <1>2, <1>7
    <2>2. SaidDue(x)' => SaidDue(x)
      BY <2>1 DEF SaidDue, Closes
    <2>3. InSent \/ SaidHeld(x) \/ SaidDue(x) => orders'[x].status \in TERMINAL
      <3>1. SUFFICES ASSUME InSent \/ SaidHeld(x) \/ SaidDue(x)
                     PROVE  orders'[x].status \in TERMINAL
        OBVIOUS
      <3>2. x < nextId /\ orders[x].status \in TERMINAL
        BY <1>3, <3>1
      <3>3. nextId \in Nat /\ x \in Nat /\ ~(x >= nextId)
        BY <1>1, <3>2
      <3>4. orders'[x] = orders[x]
        BY <1>1, <3>2, <3>3 DEF NewsOf
      <3> QED
        BY <3>2, <3>4
    <2>4. ASSUME NEW i \in 1..Len(events'), NEW j \in 1..Len(events'),
                 Closes(events'[i], x), Closes(events'[j], x)
          PROVE  i = j
      BY <1>3, <2>1, <2>4
    <2>5. \A i, j \in 1..Len(sent'[c]) :
             Final(sent'[c][i], x) /\ Final(sent'[c][j], x) => i = j
      BY <1>1, <1>3
    <2>6. \A i, j \in 1..Len(held') :
             Final(held'[i].report, x) /\ Final(held'[j].report, x) => i = j
      BY <1>1, <1>3
    <2> HIDE DEF InSent
    <2> QED
      BY <1>0, <1>3, <1>4, <1>5, <1>6, <2>2, <2>3, <2>4, <2>5, <2>6 DEF EndedInv
  <1>8. CASE \E i \in 1..Len(new) : Closes(new[i], x)
    <2>1. PICK i \in 1..Len(new) : Closes(new[i], x)
      BY <1>8
    <2>2. /\ orders'[x].status \in TERMINAL
          /\ \A j \in 1..Len(new) : Closes(new[j], x) => i = j
      BY <1>1, <2>1 DEF NewsOf
    <2>3. About(new[i], x)
      BY <2>1 DEF About, Closes
    <2>4. orders[x].status \notin TERMINAL
      BY <1>1, <2>3 DEF NewsOf, Tells
    <2>5. ~InSent /\ ~SaidHeld(x) /\ ~SaidDue(x)
      BY <1>3, <2>4
    <2>6. ASSUME NEW k \in 1..Len(events'), NEW j \in 1..Len(events'),
                 Closes(events'[k], x), Closes(events'[j], x)
          PROVE  k = j
      <3>1. \A m \in 1..Len(events) : ~Closes(events[m], x)
        BY <2>5 DEF SaidDue
      <3>2. k - Len(events) = i /\ j - Len(events) = i
        BY <1>2, <2>2, <2>6, <3>1
      <3>3. k \in Int /\ j \in Int /\ i \in Int
        BY <1>2
      <3> QED
        BY <1>2, <3>2, <3>3
    <2>7. \A m, j \in 1..Len(sent'[c]) :
             Final(sent'[c][m], x) /\ Final(sent'[c][j], x) => m = j
      BY <1>1, <1>3
    <2>8. \A m, j \in 1..Len(held') :
             Final(held'[m].report, x) /\ Final(held'[j].report, x) => m = j
      BY <1>1, <1>3
    <2> HIDE DEF InSent
    <2> QED
      BY <1>0, <1>4, <1>5, <1>6, <2>2, <2>5, <2>6, <2>7, <2>8 DEF EndedInv
  <1> QED
    BY <1>7, <1>8

\* A request that waits for its answer goes on waiting, and a new one begins to.
LEMMA AnswersKept ==
    ASSUME EntryTypeOK, RoutesInv, MaxOrders \in Nat, nextId \in Nat,
           task = "match" => cur \in OrderIds /\ cur < nextId,
           NEW new, Produces(new), AnswerInv
    PROVE  AnswerInv'
  <1>1. /\ events \in Seq(EventType)
        /\ sent' = sent /\ held' = held /\ dropped' = dropped
        /\ \A c \in Clients : Everything(c)' = Everything(c)
    BY DEF EntryTypeOK, Produces, Everything, ReportsOf
  <1>2. /\ \A i \in 1..Len(events) : i \in 1..Len(events') /\ events'[i] = events[i]
        /\ \A i \in 1..Len(new) : \E j \in 1..Len(events') : events'[j] = new[i]
    BY <1>1, MoreEvents
  <1>3. NoOrder \notin OrderIds
    BY DEF NoOrder, OrderIds
  \* A new event answers under the name its order has now.
  <1>4. ASSUME NEW x \in OrderIds, NEW c \in Clients, NEW name,
               x < nextId', orders'[x].session = c, CurrentName(x)' = name,
               Tells(new, x)
        PROVE  Awaited(c, name)'
    <2>1. PICK i \in 1..Len(new) : About(new[i], x)
      BY <1>4 DEF Tells
    <2>2. PICK j \in 1..Len(events') : events'[j] = new[i]
      BY <1>2
    <2>3. PICK e : e = events'[j]
      OBVIOUS
    <2>4. e.name = NoKey /\ e.order = x /\ e.owner = c
      BY <1>4, <2>1, <2>2, <2>3 DEF About, Produces
    <2>5. SessionFor(e)' = c
      BY <2>4 DEF SessionFor
    <2>6. Render(e)'.name = name
      BY <1>4, <2>4 DEF Render
    <2> QED
      BY <2>3, <2>5, <2>6 DEF Awaited, SessionFor, Render
  <1>5. ASSUME NEW c \in Clients, NEW name, Awaited(c, name) PROVE Awaited(c, name)'
    <2>1. events # << >> \/ task = "match"
      BY <1>5 DEF Awaited
    <2>2. chain' = chain /\ origin' = origin
      BY <2>1 DEF Produces
    <2>3. CASE \E i \in 1..Len(events) : /\ SessionFor(events[i]) = c
                                         /\ Render(events[i]).name = name
      <3>1. PICK i \in 1..Len(events) : /\ SessionFor(events[i]) = c
                                        /\ Render(events[i]).name = name
        BY <2>3
      <3>2. PICK e : e = events[i]
        OBVIOUS
      <3>3. SessionFor(e)' = c
        BY <2>2, <3>1, <3>2 DEF SessionFor
      <3>4. Render(e)'.name = name
        BY <2>2, <3>1, <3>2 DEF Render, CurrentName, Last
      <3>5. i \in 1..Len(events') /\ e = events'[i]
        BY <1>2, <3>2
      <3> QED
        BY <3>3, <3>4, <3>5 DEF Awaited, SessionFor, Render
    <2>4. CASE task = "match" /\ orders[cur].session = c /\ CurrentName(cur) = name
      <3>1. /\ cur \in OrderIds /\ cur < nextId
            /\ orders'[cur].session = c /\ cur < nextId'
        BY <2>4 DEF Produces, OrderIds
      <3>2. Last(chain'[cur]) = name
        BY <2>2, <2>4 DEF CurrentName, Last
      <3>3. CASE task' = "match" /\ cur' = cur
        BY <3>1, <3>2, <3>3 DEF Awaited, CurrentName
      <3>4. CASE Tells(new, cur)
        <4>1. PICK x : x = cur
          OBVIOUS
        <4>2. CurrentName(x)' = name
          BY <3>2, <4>1 DEF CurrentName
        <4> QED
          BY <1>4, <3>1, <3>4, <4>1, <4>2
      <3>5. CASE Tells(events, cur)
        <4>1. PICK i \in 1..Len(events) : About(events[i], cur)
          BY <3>5 DEF Tells
        <4>2. Sound(events[i])
          BY DEF RoutesInv
        <4>3. PICK e : e = events[i]
          OBVIOUS
        <4>4. e.order = cur /\ e.name = NoKey /\ e.owner = c
          BY <1>3, <2>4, <3>1, <4>1, <4>2, <4>3 DEF About, Sound
        <4>5. SessionFor(e) = c /\ Render(e).name = name
          BY <2>4, <4>4 DEF SessionFor, Render
        <4> QED
          BY <2>3, <4>3, <4>5
      <3> QED
        BY <2>4, <3>3, <3>4, <3>5 DEF Produces
    <2> QED
      BY <1>5, <2>3, <2>4 DEF Awaited
  <1>6. ASSUME NEW c \in Clients, NEW name \in asked'[c]
        PROVE  (\E r \in Everything(c)' : r.name = name) \/ Awaited(c, name)'
    <2>1. CASE name \in asked[c]
      BY <1>1, <1>5, <2>1 DEF AnswerInv
    <2>2. CASE \E x \in OrderIds : Renames(x, c, name, new)
      <3>1. PICK x \in OrderIds : Renames(x, c, name, new)
        BY <2>2
      <3>2. CurrentName(x)' = name
        BY <3>1 DEF Renames, CurrentName, Last
      <3>3. CASE Tells(new, x)
        BY <1>4, <3>1, <3>2, <3>3 DEF Renames
      <3>4. CASE task' = "match" /\ cur' = x
        BY <3>1, <3>2, <3>4 DEF Renames, Awaited
      <3> QED
        BY <3>1, <3>3, <3>4 DEF Renames
    <2> QED
      BY <2>1, <2>2 DEF Produces
  <1> QED
    BY <1>1, <1>6 DEF AnswerInv

\* Whatever is produced this way keeps the reports true.
LEMMA ProducesKeeps ==
    ASSUME EntryTypeOK, RoutesInv, TalkInv, AnswerInv, MaxOrders \in Nat, nextId \in Nat,
           \A x \in OrderIds : orders[x].cum \in Nat /\ orders'[x].cum \in Nat,
           task = "match" => cur \in OrderIds /\ cur < nextId,
           NEW new, Produces(new)
    PROVE  RoutesInv' /\ CurInv' /\ TalkInv' /\ AnswerInv'
  <1>1. /\ events \in Seq(EventType) /\ delayed' = delayed /\ dropped' = dropped
        /\ \A x \in OrderIds : x < nextId => orders'[x].session = orders[x].session
    BY DEF EntryTypeOK, Produces
  <1>2. RoutesInv'
    BY RoutesKept
  <1>3. CurInv'
    BY <1>1, CurKept
  <1>4. AnswerInv'
    BY AnswersKept
  <1>5. ASSUME NEW x \in OrderIds, x < nextId', orders'[x].session \in Clients
        PROVE  /\ ~delayed' /\ dropped' = {} => Known(x)' /\ Stated(x)'
               /\ ~delayed' => Ascending(x)'
               /\ EndedInv(x)'
    <2>1. x < nextId => /\ ~delayed /\ dropped = {} => Known(x) /\ Stated(x)
                        /\ ~delayed => Ascending(x)
                        /\ EndedInv(x)
      BY <1>1, <1>5 DEF TalkInv
    <2>2. ~delayed' /\ dropped' = {} => Known(x)'
      BY <1>1, <1>5, <2>1, KnownKept
    <2>3. ~delayed' /\ dropped' = {} => Stated(x)'
      BY <1>1, <1>5, <2>1, StatedKept
    <2>4. ~delayed' => Ascending(x)'
      BY <1>1, <1>5, <2>1, AscendingKept
    <2>5. EndedInv(x)'
      BY <1>5, <2>1, EndedKept
    <2> QED
      BY <2>2, <2>3, <2>4, <2>5
  <1>6. TalkInv'
    BY <1>5 DEF TalkInv
  <1> QED
    BY <1>2, <1>3, <1>4, <1>6

----------------------------------------------------------------------------
(* What each step adds *)

\* What two events in a row are.
LEMMA PairFacts ==
    ASSUME NEW S, NEW a \in S, NEW b \in S
    PROVE  /\ << a, b >> \in Seq(S) /\ Len(<< a, b >>) = 2
           /\ << a, b >>[1] = a /\ << a, b >>[2] = b
           /\ << a >> \in Seq(S) /\ Len(<< a >>) = 1 /\ << a >>[1] = a
  OBVIOUS

\* An event of an order that is there.
LEMMA EventFacts ==
    ASSUME IInv, NEW o \in OrderIds, NEW kind \in EventKinds
    PROVE  /\ Event(kind, o) \in EventType
           /\ Event(kind, o).kind = kind /\ Event(kind, o).order = o
           /\ Event(kind, o).name = NoKey
           /\ Event(kind, o).owner = orders[o].session
  <1>1. orders[o].session \in Sessions \cup {NoKey}
    BY DEF IInv, TypeOK, OrderType
  <1> QED
    BY <1>1 DEF Event, EventType

\* Nothing new of an order that has not changed.
LEMMA NoNews ==
    ASSUME NEW new, NEW x, x < nextId, orders'[x] = orders[x], chain'[x] = chain[x],
           \A i \in 1..Len(new) : new[i].order # x
    PROVE  NewsOf(x, new)
  BY DEF NewsOf, Tells, About, Fill, Closes

\* One thing new of an order.
LEMMA SingleNews ==
    ASSUME NEW new, NEW x, Len(new) \in Nat, NEW i \in 1..Len(new),
           new[i].order = x, new[i].kind # "CANCEL_REJECTED",
           \A j \in 1..Len(new) : new[j].order = x => j = i,
           orders[x].status \notin TERMINAL, Current(new[i], orders'[x]),
           new[i].kind = "FILLED" =>
              new[i].cum = orders'[x].cum /\ orders[x].cum < orders'[x].cum,
           new[i].kind # "FILLED" =>
              orders'[x].cum = IF x < nextId THEN orders[x].cum ELSE 0,
           Closes(new[i], x) => orders'[x].status \in TERMINAL
    PROVE  NewsOf(x, new)
  <1>1. Tells(new, x)
    BY DEF Tells, About
  <1>2. \A j \in 1..Len(new) : About(new[j], x) => j <= i
    BY DEF About
  <1>3. /\ \A j \in 1..Len(new) : Fill(new[j], x) => j = i
        /\ \A j \in 1..Len(new) : Closes(new[j], x) => j = i
    BY DEF Fill, Closes
  <1>4. About(new[i], x) /\ (Fill(new[i], x) <=> new[i].kind = "FILLED")
    BY DEF Fill, About
  <1>5. \A j \in 1..Len(new) : Fill(new[j], x) =>
          /\ new[j].cum = orders'[x].cum /\ orders[x].cum < orders'[x].cum
          /\ \A k \in 1..Len(new) : Fill(new[k], x) => j = k
    BY <1>3, <1>4
  <1>6. (\A j \in 1..Len(new) : ~Fill(new[j], x)) =>
          orders'[x].cum = IF x < nextId THEN orders[x].cum ELSE 0
    BY <1>4
  <1>7. \A j \in 1..Len(new) : Closes(new[j], x) =>
          /\ orders'[x].status \in TERMINAL
          /\ \A k \in 1..Len(new) : Closes(new[k], x) => j = k
    BY <1>3
  <1> QED
    BY <1>1, <1>2, <1>4, <1>5, <1>6, <1>7 DEF NewsOf

\* Two things new of an order, of which neither is a fill.
LEMMA DoubleNews ==
    ASSUME NEW new, NEW x, Len(new) = 2,
           \A i \in {1, 2} : /\ new[i].order = x
                             /\ new[i].kind \notin {"CANCEL_REJECTED", "FILLED"},
           new[1].kind \notin {"CANCELLED", "REJECTED"},
           orders[x].status \notin TERMINAL, Current(new[2], orders'[x]),
           orders'[x].cum = IF x < nextId THEN orders[x].cum ELSE 0,
           Closes(new[2], x) => orders'[x].status \in TERMINAL
    PROVE  NewsOf(x, new)
  <1>0. 1..Len(new) = {1, 2}
    OBVIOUS
  <1>1. Tells(new, x) /\ About(new[2], x)
    BY <1>0 DEF Tells, About
  <1>2. /\ \A j \in 1..Len(new) : ~Fill(new[j], x)
        /\ \A j \in 1..Len(new) : Closes(new[j], x) => j = 2
    BY <1>0 DEF Fill, Closes
  <1>3. \A j \in 1..Len(new) : j <= 2
    BY <1>0
  <1> QED
    BY <1>0, <1>1, <1>2, <1>3 DEF NewsOf

\* The events of an iteration of the loop.
LEMMA LoopProduces ==
    ASSUME IInv, RoutesInv, CurInv, NEW new, Loop(new), new \in Seq(EventType),
           \A i \in 1..Len(new) :
              /\ new[i].name = NoKey /\ new[i].kind # "CANCEL_REJECTED"
              /\ new[i].order \in OrderIds /\ new[i].order < nextId
              /\ new[i].owner = orders[new[i].order].session,
           task = "match", OwnersKept, nextId' = nextId,
           \A x \in OrderIds : x < nextId => NewsOf(x, new),
           \/ task' = "match" /\ cur' = cur
           \/ task' = "idle" /\ (Tells(new, cur) \/ Tells(events, cur)),
           task' = "match" => Tells(new, cur) \/ Tells(events, cur) \/ Untouched(cur)'
    PROVE  Produces(new)
  <1>1. nextId \in Nat /\ cur \in OrderIds /\ cur < nextId
    BY MaxOrdersAssumption DEF IInv, TypeOK, TaskInv
  <1>2. /\ events' = events \o new /\ chain' = chain /\ origin' = origin /\ asked' = asked
        /\ UNCHANGED << held, sent, dropped, delayed >>
    BY DEF Loop, registryVars, reportVars
  <1>3. \A i \in 1..Len(new) :
          /\ new[i].name = NoKey /\ new[i].kind # "CANCEL_REJECTED"
          /\ new[i].order \in OrderIds /\ new[i].order < nextId'
          /\ new[i].owner = orders'[new[i].order].session
    BY DEF OwnersKept
  <1>4. \A x \in OrderIds : x < nextId' => NewsOf(x, new) /\ chain'[x] # << >>
    BY <1>2 DEF RoutesInv
  <1>5. task' = "match" => \/ Tells(new, cur') \/ Untouched(cur)'
                           \/ task = "match" /\ cur' = cur /\ Tells(events, cur)
    OBVIOUS
  <1>6. \A x \in OrderIds : x < nextId => orders'[x].session = orders[x].session
    BY DEF OwnersKept
  <1>7. task = "match" => \/ task' = "match" /\ cur' = cur
                          \/ Tells(new, cur) \/ Tells(events, cur)
    OBVIOUS
  <1>8. /\ nextId' \in Nat /\ nextId <= nextId'
        /\ \A c \in Clients : \A name \in asked'[c] : name \in asked[c]
    BY <1>1, <1>2
  <1> QED
    BY <1>2, <1>3, <1>4, <1>5, <1>6, <1>7, <1>8 DEF Produces

\* The news that an order on the book, or in the loop, was cancelled.
LEMMA CancelIsNews ==
    ASSUME IInv, NEW o \in OrderIds, o < nextId, IsLive(orders[o]),
           orders'[o] = CancelOrder(orders[o]),
           NEW new, Len(new) \in Nat, NEW i \in 1..Len(new),
           new[i].order = o, new[i].kind = "CANCELLED",
           \A j \in 1..Len(new) : new[j].order = o => j = i
    PROVE  NewsOf(o, new)
  <1>1. orders[o] \in OrderType /\ StatusAgrees(orders[o])
    BY DEF IInv, TypeOK, StatusAgreesWithFills
  <1>2. orders'[o].status = "CANCELLED" /\ orders'[o].cum = orders[o].cum
    BY <1>1, CloseFacts, CancelFacts
  <1>3. Current(new[i], orders'[o])
    BY <1>2 DEF Current
  <1> QED
    BY <1>2, <1>3, SingleNews DEF IsLive, LIVE, TERMINAL

\* The news that an order has less to trade.
LEMMA DecrementIsNews ==
    ASSUME NEW o \in OrderIds, o < nextId, IsLive(orders[o]),
           orders'[o].cum = orders[o].cum,
           NEW new, Len(new) \in Nat, NEW i \in 1..Len(new),
           new[i].order = o, new[i].kind = "DECREMENTED",
           \A j \in 1..Len(new) : new[j].order = o => j = i
    PROVE  NewsOf(o, new)
  <1>1. Current(new[i], orders'[o]) /\ ~Closes(new[i], o)
    BY DEF Current, Closes
  <1> QED
    BY <1>1, SingleNews DEF IsLive, LIVE, TERMINAL

\* The news that an order has traded.
LEMMA FillIsNews ==
    ASSUME IInv, NEW o \in OrderIds, o < nextId, IsLive(orders[o]),
           NEW q \in Nat \ {0}, NEW p \in Nat, q <= LeavesQty(orders[o]),
           orders'[o] = ApplyFill(orders[o], q, p),
           NEW new, Len(new) \in Nat, NEW i \in 1..Len(new),
           new[i].order = o, new[i].kind = "FILLED",
           new[i].qty = orders'[o].qty, new[i].cum = orders'[o].cum,
           \A j \in 1..Len(new) : new[j].order = o => j = i
    PROVE  NewsOf(o, new)
  <1>1. orders[o] \in OrderType /\ StatusAgrees(orders[o])
    BY DEF IInv, TypeOK, StatusAgreesWithFills
  <1> DEFINE ord == orders[o]
  <1>0. ord \in OrderType /\ q \in Nat /\ p \in Nat /\ orders'[o] = ApplyFill(ord, q, p)
    BY <1>1
  <1> HIDE DEF ord
  <1>a. /\ orders'[o].qty = ord.qty /\ orders'[o].cum = ord.cum + q
        /\ orders'[o].status = IF ord.cum + q >= ord.qty THEN "FILLED"
                               ELSE "PARTIALLY_FILLED"
    BY <1>0, ApplyFillFacts
  <1>2. /\ orders'[o].qty = orders[o].qty /\ orders'[o].cum = orders[o].cum + q
        /\ orders'[o].status = IF orders[o].cum + q >= orders[o].qty THEN "FILLED"
                               ELSE "PARTIALLY_FILLED"
    BY <1>a DEF ord
  <1>3. Current(new[i], orders'[o])
    BY <1>2 DEF Current
  <1>4. orders[o].cum < orders'[o].cum
    BY <1>1, <1>2 DEF OrderType
  <1>5. Closes(new[i], o) => orders'[o].status \in TERMINAL
    BY <1>2 DEF Closes, TERMINAL
  <1> QED
    BY <1>3, <1>4, <1>5, SingleNews DEF IsLive, LIVE, TERMINAL

\* Two orders trade.
LEMMA ExecuteProduces ==
    ASSUME IInv, RoutesInv, CurInv, NEW o \in OrderIds, NEW r \in OrderIds,
           MatchExecute(o, r), Loop(<< FillEvent(r), FillEvent(o) >>),
           OwnersKept, nextId' = nextId
    PROVE  \E new : Produces(new)
  <1> DEFINE n == Lesser(LeavesQty(orders[o]), LeavesQty(orders[r]))
             p == orders[r].price
  <1>1. /\ o # r /\ orders[o] \in OrderType /\ orders[r] \in OrderType
        /\ StatusAgrees(orders[o]) /\ StatusAgrees(orders[r])
        /\ IsLive(orders[o]) /\ IsLive(orders[r])
        /\ o < nextId /\ r < nextId
        /\ task = "match" /\ cur = o /\ task' = task /\ cur' = cur
        /\ orders' = [orders EXCEPT ![o] = ApplyFill(orders[o], n, p),
                                    ![r] = ApplyFill(orders[r], n, p)]
    BY MatchFacts DEF MatchExecute, Matching, taskVars
  <1>2. /\ n \in Nat \ {0} /\ p \in Nat
        /\ n <= LeavesQty(orders[o]) /\ n <= LeavesQty(orders[r])
    BY <1>1, LeavesFacts DEF Lesser, IsLive, OrderType
  <1>3. orders \in [OrderIds -> OrderType]
    BY DEF IInv, TypeOK
  <1> HIDE DEF n, p
  <1>4. /\ orders'[o] = ApplyFill(orders[o], n, p)
        /\ orders'[r] = ApplyFill(orders[r], n, p)
        /\ \A x \in OrderIds \ {o, r} : orders'[x] = orders[x]
    BY <1>1, <1>3
  <1>5. ASSUME NEW x \in {o, r}
        PROVE  /\ FillEvent(x) \in EventType
               /\ FillEvent(x).kind = "FILLED" /\ FillEvent(x).order = x
               /\ FillEvent(x).name = NoKey /\ FillEvent(x).owner = orders[x].session
               /\ FillEvent(x).qty = orders'[x].qty /\ FillEvent(x).cum = orders'[x].cum
    <2>1. x \in OrderIds /\ orders'[x].qty \in Nat /\ orders'[x].cum \in Nat
      <3>1. orders'[x] \in OrderType
        <4>1. PICK ord : ord = orders[x]
          OBVIOUS
        <4>2. ord \in OrderType /\ n \in Nat /\ p \in Nat /\ orders'[x] = ApplyFill(ord, n, p)
          BY <1>1, <1>2, <1>4, <4>1
        <4> QED
          BY <4>2, ApplyFillFacts
      <3> QED
        BY <3>1 DEF OrderType
    <2>2. /\ Event("FILLED", x) \in EventType
          /\ Event("FILLED", x).kind = "FILLED" /\ Event("FILLED", x).order = x
          /\ Event("FILLED", x).name = NoKey
          /\ Event("FILLED", x).owner = orders[x].session
      BY <2>1, EventFacts DEF EventKinds
    <2> QED
      BY <2>1, <2>2 DEF FillEvent, EventType
  <1>6. PICK a, b : a = FillEvent(r) /\ b = FillEvent(o)
    OBVIOUS
  <1>7. PICK new : new = << a, b >>
    OBVIOUS
  <1>8. /\ a \in EventType /\ b \in EventType
        /\ new \in Seq(EventType) /\ Len(new) = 2 /\ new[1] = a /\ new[2] = b
        /\ 1..Len(new) = {1, 2}
    <2>1. a \in EventType /\ b \in EventType
      BY <1>5, <1>6
    <2>2. new \in Seq(EventType) /\ Len(new) = 2 /\ new[1] = a /\ new[2] = b
      BY <1>7, <2>1, PairFacts
    <2> QED
      BY <2>1, <2>2
  <1>9. /\ a.kind = "FILLED" /\ a.order = r /\ a.name = NoKey /\ a.owner = orders[r].session
        /\ a.qty = orders'[r].qty /\ a.cum = orders'[r].cum
        /\ b.kind = "FILLED" /\ b.order = o /\ b.name = NoKey /\ b.owner = orders[o].session
        /\ b.qty = orders'[o].qty /\ b.cum = orders'[o].cum
    BY <1>5, <1>6
  <1>10. Loop(new)
    BY <1>6, <1>7
  <1>11. chain' = chain
    BY <1>10 DEF Loop, registryVars
  <1>12. ASSUME NEW x \in OrderIds, x < nextId PROVE NewsOf(x, new)
    <2>1. CASE x \notin {o, r}
      BY <1>4, <1>8, <1>9, <1>11, <1>12, <2>1, NoNews
    <2>2. CASE x = o
      <3>1. /\ 2 \in 1..Len(new) /\ Len(new) \in Nat
            /\ new[2].order = o /\ new[2].kind = "FILLED"
            /\ new[2].qty = orders'[o].qty /\ new[2].cum = orders'[o].cum
            /\ \A j \in 1..Len(new) : new[j].order = o => j = 2
        BY <1>1, <1>8, <1>9
      <3>2. /\ o < nextId /\ IsLive(orders[o]) /\ n <= LeavesQty(orders[o])
            /\ orders'[o] = ApplyFill(orders[o], n, p)
            /\ n \in Nat \ {0} /\ p \in Nat
        BY <1>1, <1>2, <1>4
      <3>3. NewsOf(o, new)
        BY <3>1, <3>2, FillIsNews
      <3> QED
        BY <2>2, <3>3
    <2>3. CASE x = r
      <3>1. /\ 1 \in 1..Len(new) /\ Len(new) \in Nat
            /\ new[1].order = r /\ new[1].kind = "FILLED"
            /\ new[1].qty = orders'[r].qty /\ new[1].cum = orders'[r].cum
            /\ \A j \in 1..Len(new) : new[j].order = r => j = 1
        BY <1>1, <1>8, <1>9
      <3>2. /\ r < nextId /\ IsLive(orders[r]) /\ n <= LeavesQty(orders[r])
            /\ orders'[r] = ApplyFill(orders[r], n, p)
            /\ n \in Nat \ {0} /\ p \in Nat
        BY <1>1, <1>2, <1>4
      <3>3. NewsOf(r, new)
        BY <3>1, <3>2, FillIsNews
      <3> QED
        BY <2>3, <3>3
    <2> QED
      BY <2>1, <2>2, <2>3
  <1>13. Tells(new, cur)
    BY <1>1, <1>8, <1>9 DEF Tells, About
  <1>14. \A i \in 1..Len(new) :
              /\ new[i].name = NoKey /\ new[i].kind # "CANCEL_REJECTED"
              /\ new[i].order \in OrderIds /\ new[i].order < nextId
              /\ new[i].owner = orders[new[i].order].session
    BY <1>1, <1>8, <1>9
  <1> QED
    BY <1>1, <1>8, <1>10, <1>12, <1>13, <1>14, LoopProduces

\* What a fact about each order an event is of says of one event, or of two.
Honest(e) == /\ e \in EventType /\ e.name = NoKey /\ e.kind # "CANCEL_REJECTED"
             /\ e.order \in OrderIds /\ e.order < nextId
             /\ e.owner = orders[e.order].session

\* An event of an issued order names it and its owner.
LEMMA HonestEvent ==
    ASSUME IInv, NEW o \in OrderIds, o < nextId,
           NEW kind \in EventKinds \ {"CANCEL_REJECTED"}
    PROVE  /\ Honest(Event(kind, o))
           /\ Event(kind, o).kind = kind /\ Event(kind, o).order = o
  BY EventFacts DEF Honest

\* Matching ends, for want of orders to match.
LEMMA DoneProduces ==
    ASSUME IInv, RoutesInv, CurInv, NEW o \in OrderIds,
           MatchDone(o), Loop(MatchDoneEvents(o)), OwnersKept, nextId' = nextId
    PROVE  \E new : Produces(new)
  <1>1. /\ orders \in [OrderIds -> OrderType] /\ orders[o] \in OrderType
        /\ StatusAgrees(orders[o])
        /\ o < nextId /\ task = "match" /\ cur = o /\ task' = "idle"
    BY DEF IInv, TypeOK, StatusAgreesWithFills, MatchDone, Matching, TaskInv, EndTask
  <1>2. orders[o].status # Unborn
    BY <1>1 DEF IInv, IssuedInv, TypeOK, OrderIds
  <1>3. LeavesQty(orders[o]) \in Nat /\ (LeavesQty(orders[o]) > 0 => IsLive(orders[o]))
    BY <1>1, <1>2, LeavesFacts DEF IsLive, OrderType, Statuses
  <1>4. chain' = chain
    BY DEF Loop, registryVars
  <1>5. Untouched(o) => LeavesQty(orders[o]) > 0
    BY <1>1 DEF Untouched, StatusAgrees, LeavesQty, OrderType, TERMINAL
  <1>6. ~Untouched(o) => Tells(events, o)
    BY <1>1 DEF CurInv, Tells
  \* Nothing changes and nothing is said.
  <1>7. ASSUME orders' = orders, ~Untouched(o), Loop(<< >>)
        PROVE  \E new : Produces(new)
    <2>1. PICK new : new = << >>
      OBVIOUS
    <2>2. new \in Seq(EventType) /\ 1..Len(new) = {}
      BY <2>1
    <2>3. \A x \in OrderIds : x < nextId => NewsOf(x, new)
      BY <1>4, <1>7, <2>2, NoNews
    <2> QED
      BY <1>1, <1>6, <1>7, <2>1, <2>2, <2>3, LoopProduces
  \* One event of o.
  <1>8. ASSUME NEW e, Honest(e), e.order = o, Loop(<< e >>),
               \A x \in OrderIds \ {o} : orders'[x] = orders[x],
               \A new : Len(new) = 1 /\ new[1] = e => NewsOf(o, new)
        PROVE  \E new : Produces(new)
    <2>1. PICK new : new = << e >>
      OBVIOUS
    <2>2. /\ new \in Seq(EventType) /\ Len(new) = 1 /\ new[1] = e /\ 1..Len(new) = {1}
      BY <1>8, <2>1 DEF Honest
    <2>3. \A x \in OrderIds : x < nextId => NewsOf(x, new)
      BY <1>4, <1>8, <2>2, NoNews
    <2>4. Tells(new, cur)
      BY <1>1, <1>8, <2>2 DEF Tells, About, Honest
    <2> QED
      BY <1>1, <1>8, <2>1, <2>2, <2>3, <2>4, LoopProduces DEF Honest
  <1>9. CASE LeavesQty(orders[o]) = 0
    <2>1. orders' = orders /\ ~Untouched(o) /\ Loop(<< >>)
      BY <1>5, <1>9 DEF MatchDone, MatchDoneEvents
    <2> QED
      BY <1>7, <2>1
  <1>10. CASE LeavesQty(orders[o]) > 0 /\ RemainderExpires(orders[o])
    <2>1. PICK e : e = Event("CANCELLED", o)
      OBVIOUS
    <2>2. /\ Loop(<< e >>)
          /\ orders' = [orders EXCEPT ![o] = CancelOrder(orders[o])]
      BY <1>10, <2>1 DEF MatchDone, MatchDoneEvents
    <2>3. Honest(e) /\ e.order = o /\ e.kind = "CANCELLED"
      BY <1>1, <2>1, HonestEvent DEF EventKinds
    <2>4. /\ orders'[o] = CancelOrder(orders[o])
          /\ \A x \in OrderIds \ {o} : orders'[x] = orders[x]
      BY <1>1, <2>2
    <2>5. ASSUME NEW new, Len(new) = 1, new[1] = e PROVE NewsOf(o, new)
      <3>1. /\ Len(new) \in Nat /\ 1 \in 1..Len(new)
            /\ \A j \in 1..Len(new) : new[j].order = o => j = 1
        BY <2>5
      <3> QED
        BY <1>1, <1>3, <1>10, <2>3, <2>4, <2>5, <3>1, CancelIsNews
    <2> QED
      BY <1>8, <2>2, <2>3, <2>4, <2>5
  <1>11. CASE LeavesQty(orders[o]) > 0 /\ ~RemainderExpires(orders[o])
    <2>1. orders[o].status = IF orders[o].cum > 0 THEN "PARTIALLY_FILLED" ELSE "NEW"
      BY <1>1, <1>3, <1>11 DEF IsLive, LIVE, StatusAgrees, OrderType
    <2>2. Rested(orders[o]) = orders[o]
      BY <1>1, <2>1 DEF Rested, OrderType
    <2>3. orders' = orders /\ Loop(AcceptEvents(o, orders[o], Replacing))
      BY <1>1, <1>11, <2>2 DEF MatchDone, MatchDoneEvents
    <2>4. CASE orders[o].cum = 0 /\ ~Replacing /\ ~AckOnEntry
      <3>1. PICK e : e = AcceptEvent(o, orders[o], orders[o].session)
        OBVIOUS
      <3>2. Loop(<< e >>)
        BY <2>3, <2>4, <3>1 DEF AcceptEvents
      <3>3. /\ Honest(Event("ACCEPTED", o)) /\ Event("ACCEPTED", o).kind = "ACCEPTED"
            /\ Event("ACCEPTED", o).order = o
        BY <1>1, HonestEvent DEF EventKinds
      <3>4. Honest(e) /\ e.order = o /\ e.kind = "ACCEPTED"
        BY <1>1, <3>1, <3>3 DEF AcceptEvent, Honest, EventType, OrderType
      <3>5. ASSUME NEW new, Len(new) = 1, new[1] = e PROVE NewsOf(o, new)
        <4>1. /\ Len(new) \in Nat /\ 1 \in 1..Len(new)
              /\ \A j \in 1..Len(new) : new[j].order = o => j = 1
          BY <3>5
        <4>2. orders[o].status \notin TERMINAL /\ orders'[o].cum = orders[o].cum
          BY <2>1, <2>3 DEF TERMINAL
        <4>3. Current(new[1], orders'[o]) /\ ~Closes(new[1], o)
          BY <2>1, <2>3, <2>4, <3>4, <3>5 DEF Current, Closes
        <4>4. o < nextId /\ new[1].order = o /\ new[1].kind = "ACCEPTED"
          BY <1>1, <3>4, <3>5
        <4> QED
          BY <4>1, <4>2, <4>3, <4>4, SingleNews
      <3> QED
        BY <1>8, <2>3, <3>2, <3>4, <3>5
    <2>5. CASE ~(orders[o].cum = 0 /\ ~Replacing /\ ~AckOnEntry)
      BY <1>7, <2>3, <2>5 DEF AcceptEvents, Untouched
    <2> QED
      BY <2>4, <2>5
  <1> QED
    BY <1>3, <1>9, <1>10, <1>11

\* Self-trade prevention cancels or decrements one of the two orders, or both.
LEMMA StpProduces ==
    ASSUME IInv, EntryTypeOK, RoutesInv, CurInv, NEW o \in OrderIds, NEW r \in OrderIds,
           \/ StpCancelNewest(o, r) /\ Loop(<< Event("CANCELLED", o) >>)
           \/ StpCancelOldest(o, r) /\ Loop(<< Event("CANCELLED", r) >>)
           \/ StpDecrement(o, r) /\ Loop(DecrementEvents(o, r)),
           OwnersKept, nextId' = nextId
    PROVE  \E new : Produces(new)
  <1>1. SelfMatch(o, r)
    BY DEF StpCancelNewest, StpCancelOldest, StpDecrement
  <1>2. /\ o # r /\ orders[o] \in OrderType /\ orders[r] \in OrderType
        /\ IsLive(orders[o]) /\ IsLive(orders[r])
        /\ o < nextId /\ r < nextId /\ task = "match" /\ cur = o
        /\ orders \in [OrderIds -> OrderType]
    BY <1>1, SelfMatchFacts DEF IInv, TypeOK
  <1>3. LeavesQty(orders[o]) \in Nat /\ LeavesQty(orders[r]) \in Nat
    BY <1>2, LeavesFacts
  <1>4. chain' = chain
    BY DEF Loop, registryVars
  \* One event, of x.
  <1>5. ASSUME NEW x \in {o, r}, Loop(<< Event("CANCELLED", x) >>),
               orders' = [orders EXCEPT ![x] = CancelOrder(orders[x])],
               \/ x = o /\ task' = "idle"
               \/ x = r /\ task' = task /\ cur' = cur
        PROVE  \E new : Produces(new)
    <2>1. PICK e : e = Event("CANCELLED", x)
      OBVIOUS
    <2>2. /\ Honest(e) /\ e.order = x /\ e.kind = "CANCELLED"
          /\ x \in OrderIds /\ x < nextId /\ IsLive(orders[x])
      BY <1>2, <2>1, HonestEvent DEF EventKinds
    <2>3. PICK new : new = << e >>
      OBVIOUS
    <2>4. /\ new \in Seq(EventType) /\ Len(new) = 1 /\ new[1] = e /\ 1..Len(new) = {1}
          /\ 1 \in 1..Len(new) /\ Len(new) \in Nat
          /\ \A j \in 1..Len(new) : new[j].order = x => j = 1
      BY <2>2, <2>3 DEF Honest
    <2>5. /\ orders'[x] = CancelOrder(orders[x])
          /\ \A y \in OrderIds \ {x} : orders'[y] = orders[y]
      BY <1>2, <1>5
    <2>6. NewsOf(x, new)
      <3>1. new[1].order = x /\ new[1].kind = "CANCELLED"
        BY <2>2, <2>4
      <3>2. /\ x \in OrderIds /\ x < nextId /\ IsLive(orders[x])
            /\ orders'[x] = CancelOrder(orders[x])
            /\ 1 \in 1..Len(new) /\ Len(new) \in Nat
            /\ \A j \in 1..Len(new) : new[j].order = x => j = 1
        BY <2>2, <2>4, <2>5
      <3> QED
        BY <3>1, <3>2, CancelIsNews
    <2>7. \A y \in OrderIds : y < nextId => NewsOf(y, new)
      BY <1>4, <2>2, <2>4, <2>5, <2>6, NoNews
    <2>8. x = o => Tells(new, cur)
      BY <1>2, <2>2, <2>4 DEF Tells, About
    <2>9. Loop(new) /\ events' = events \o new
      BY <1>5, <2>1, <2>3 DEF Loop
    <2>10. CASE x = r /\ task' = task /\ cur' = cur /\ Untouched(cur)
      <3>1. orders'[cur] = orders[cur]
        BY <1>2, <2>5, <2>10
      <3>2. ~Replacing'
        <4>1. events \in Seq(EventType)
          BY DEF EntryTypeOK
        <4>2. CASE events = << >>
          <5>1. events' = new
            BY <2>4, <2>9, <4>2
          <5>2. Head(new) = e
            BY <2>3
          <5> QED
            BY <2>2, <5>1, <5>2 DEF Replacing
        <4>3. CASE events # << >>
          <5>1. Head(events \o new) = Head(events) /\ events \o new # << >>
            BY <2>4, <4>1, <4>3
          <5> QED
            BY <2>9, <2>10, <4>3, <5>1 DEF Replacing, Untouched
        <4> QED
          BY <4>2, <4>3
      <3>3. Untouched(cur)'
        BY <2>10, <3>1, <3>2 DEF Untouched
      <3> QED
        BY <1>2, <2>2, <2>4, <2>7, <2>9, <2>10, <3>3, LoopProduces DEF Honest
    <2>11. CASE x = r /\ task' = task /\ cur' = cur /\ ~Untouched(cur)
      <3>1. Tells(events, cur)
        BY <1>2, <2>11 DEF CurInv, Tells
      <3> QED
        BY <1>2, <2>2, <2>4, <2>7, <2>9, <2>11, <3>1, LoopProduces DEF Honest
    <2>12. CASE x = o /\ task' = "idle"
      BY <1>2, <2>2, <2>4, <2>7, <2>8, <2>9, <2>12, LoopProduces DEF Honest
    <2> QED
      BY <1>5, <2>10, <2>11, <2>12
  \* Two events, of r and of o.
  <1>6. ASSUME NEW a, NEW b, Honest(a), Honest(b), a.order = r, b.order = o,
               a.kind \in {"CANCELLED", "DECREMENTED"},
               b.kind \in {"CANCELLED", "DECREMENTED"},
               Loop(<< a, b >>),
               orders'[r].cum = orders[r].cum /\ orders'[o].cum = orders[o].cum,
               a.kind = "CANCELLED" => orders'[r] = CancelOrder(orders[r]),
               b.kind = "CANCELLED" => orders'[o] = CancelOrder(orders[o]),
               \A x \in OrderIds \ {o, r} : orders'[x] = orders[x],
               task' = "idle" \/ (task' = task /\ cur' = cur)
        PROVE  \E new : Produces(new)
    <2>1. PICK new : new = << a, b >>
      OBVIOUS
    <2>2. /\ new \in Seq(EventType) /\ Len(new) = 2 /\ new[1] = a /\ new[2] = b
          /\ 1..Len(new) = {1, 2} /\ Len(new) \in Nat
          /\ 1 \in 1..Len(new) /\ 2 \in 1..Len(new)
      <3>1. new \in Seq(EventType) /\ Len(new) = 2 /\ new[1] = a /\ new[2] = b
        BY <1>6, <2>1, PairFacts DEF Honest
      <3> QED
        BY <3>1
    <2>3. /\ \A j \in 1..Len(new) : new[j].order = r => j = 1
          /\ \A j \in 1..Len(new) : new[j].order = o => j = 2
          /\ new[1].order = r /\ new[2].order = o
      BY <1>2, <1>6, <2>2
    <2>4. NewsOf(r, new)
      <3>1. /\ r < nextId /\ IsLive(orders[r]) /\ new[1].order = r
            /\ 1 \in 1..Len(new) /\ Len(new) \in Nat
            /\ \A j \in 1..Len(new) : new[j].order = r => j = 1
            /\ orders'[r].cum = orders[r].cum
        BY <1>2, <1>6, <2>2, <2>3
      <3>2. CASE new[1].kind = "CANCELLED"
        <4>1. orders'[r] = CancelOrder(orders[r])
          BY <1>6, <2>2, <3>2
        <4> QED
          BY <3>1, <3>2, <4>1, CancelIsNews
      <3>3. CASE new[1].kind = "DECREMENTED"
        BY <3>1, <3>3, DecrementIsNews
      <3> QED
        BY <1>6, <2>2, <3>2, <3>3
    <2>5. NewsOf(o, new)
      <3>1. /\ o < nextId /\ IsLive(orders[o]) /\ new[2].order = o
            /\ 2 \in 1..Len(new) /\ Len(new) \in Nat
            /\ \A j \in 1..Len(new) : new[j].order = o => j = 2
            /\ orders'[o].cum = orders[o].cum
        BY <1>2, <1>6, <2>2, <2>3
      <3>2. CASE new[2].kind = "CANCELLED"
        <4>1. orders'[o] = CancelOrder(orders[o])
          BY <1>6, <2>2, <3>2
        <4> QED
          BY <3>1, <3>2, <4>1, CancelIsNews
      <3>3. CASE new[2].kind = "DECREMENTED"
        BY <3>1, <3>3, DecrementIsNews
      <3> QED
        BY <1>6, <2>2, <3>2, <3>3
    <2>6. ASSUME NEW x \in OrderIds, x < nextId PROVE NewsOf(x, new)
      <3>1. CASE x \notin {o, r}
        BY <1>4, <1>6, <2>2, <2>3, <2>6, <3>1, NoNews
      <3> QED
        BY <2>4, <2>5, <3>1
    <2>7. Tells(new, cur)
      BY <1>2, <1>6, <2>2, <2>3 DEF Tells, About
    <2>8. \A i \in 1..Len(new) : Honest(new[i])
      BY <1>6, <2>2
    <2> QED
      BY <1>2, <1>6, <2>1, <2>2, <2>6, <2>7, <2>8, LoopProduces DEF Honest
  <1>7. CASE StpCancelNewest(o, r) /\ Loop(<< Event("CANCELLED", o) >>)
    BY <1>5, <1>7 DEF StpCancelNewest, EndTask
  <1>8. CASE StpCancelOldest(o, r) /\ Loop(<< Event("CANCELLED", r) >>)
    BY <1>5, <1>8 DEF StpCancelOldest, taskVars
  <1>9. CASE StpDecrement(o, r) /\ Loop(DecrementEvents(o, r))
    <2>1. /\ \A kind \in {"CANCELLED", "DECREMENTED"} : \A x \in {o, r} :
                /\ Honest(Event(kind, x)) /\ Event(kind, x).kind = kind
                /\ Event(kind, x).order = x
      BY <1>2, HonestEvent DEF EventKinds
    <2>2. \A x \in {o, r} : CancelOrder(orders[x]).cum = orders[x].cum
      BY <1>2, CancelFacts
    <2>3. CASE LeavesQty(orders[o]) = LeavesQty(orders[r])
      <3>1. /\ orders' = [orders EXCEPT ![o] = CancelOrder(orders[o]),
                                        ![r] = CancelOrder(orders[r])]
            /\ task' = "idle"
        BY <1>3, <1>9, <2>3 DEF StpDecrement, EndTask
      <3>2. Loop(<< Event("CANCELLED", r), Event("CANCELLED", o) >>)
        BY <1>9, <2>3 DEF DecrementEvents
      <3>3. /\ orders'[o] = CancelOrder(orders[o]) /\ orders'[r] = CancelOrder(orders[r])
            /\ \A x \in OrderIds \ {o, r} : orders'[x] = orders[x]
        BY <1>2, <3>1
      <3> QED
        BY <1>6, <2>1, <2>2, <3>1, <3>2, <3>3
    <2>4. CASE LeavesQty(orders[r]) < LeavesQty(orders[o])
      <3>1. /\ orders' = [orders EXCEPT
                         ![o] = ReduceQuantity(orders[o], LeavesQty(orders[r])),
                         ![r] = CancelOrder(orders[r])]
            /\ task' = task /\ cur' = cur
        BY <1>3, <1>9, <2>4 DEF StpDecrement, taskVars
      <3>2. Loop(<< Event("CANCELLED", r), Event("DECREMENTED", o) >>)
        BY <1>3, <1>9, <2>4 DEF DecrementEvents
      <3>3. ReduceQuantity(orders[o], LeavesQty(orders[r])).cum = orders[o].cum
        BY <1>2, <1>3, <2>4, ReduceFacts DEF OrderType
      <3>4. /\ orders'[r] = CancelOrder(orders[r]) /\ orders'[o].cum = orders[o].cum
            /\ \A x \in OrderIds \ {o, r} : orders'[x] = orders[x]
        BY <1>2, <3>1, <3>3
      <3> QED
        BY <1>6, <2>1, <2>2, <3>1, <3>2, <3>4
    <2>5. CASE LeavesQty(orders[o]) < LeavesQty(orders[r])
      <3>1. /\ orders' = [orders EXCEPT
                         ![o] = CancelOrder(orders[o]),
                         ![r] = ReduceQuantity(orders[r], LeavesQty(orders[o]))]
            /\ task' = "idle"
        BY <1>3, <1>9, <2>5 DEF StpDecrement, EndTask
      <3>2. Loop(<< Event("DECREMENTED", r), Event("CANCELLED", o) >>)
        BY <1>3, <1>9, <2>5 DEF DecrementEvents
      <3>3. ReduceQuantity(orders[r], LeavesQty(orders[o])).cum = orders[r].cum
        BY <1>2, <1>3, <2>5, ReduceFacts DEF OrderType
      <3>4. /\ orders'[o] = CancelOrder(orders[o]) /\ orders'[r].cum = orders[r].cum
            /\ \A x \in OrderIds \ {o, r} : orders'[x] = orders[x]
        BY <1>2, <3>1, <3>3
      <3> QED
        BY <1>6, <2>1, <2>2, <3>1, <3>2, <3>4
    <2> QED
      BY <1>3, <2>3, <2>4, <2>5
  <1> QED
    BY <1>7, <1>8, <1>9

\* An iteration of the loop adds what it changes to what is to be said.
LEMMA MatchProduces ==
    ASSUME IInv, EntryTypeOK, RoutesInv, CurInv, EntryMatchStep
    PROVE  \E new : Produces(new)
  <1>1. MatchStep
    BY DEF EntryMatchStep, MatchStep
  <1>2. OwnersKept /\ nextId' = nextId
    <2>1. OwnersKept
      BY <1>1, MatchOwners
    <2>2. ASSUME NEW o \in OrderIds, MatchDone(o) PROVE nextId' = nextId
      BY <2>2 DEF MatchDone
    <2>3. ASSUME NEW o \in OrderIds, NEW r \in OrderIds, MatchExecute(o, r)
          PROVE  nextId' = nextId
      BY <2>3 DEF MatchExecute
    <2>4. ASSUME NEW o \in OrderIds, NEW r \in OrderIds,
                 StpCancelNewest(o, r) \/ StpCancelOldest(o, r) \/ StpDecrement(o, r)
          PROVE  nextId' = nextId
      BY <2>4 DEF StpCancelNewest, StpCancelOldest, StpDecrement, SelfMatch
    <2> QED
      BY <1>1, <2>1, <2>2, <2>3, <2>4 DEF MatchStep
  <1>3. ASSUME NEW o \in OrderIds, MatchDone(o) /\ Loop(MatchDoneEvents(o))
        PROVE  \E new : Produces(new)
    BY <1>2, <1>3, DoneProduces
  <1>4. ASSUME NEW o \in OrderIds, NEW r \in OrderIds,
               MatchExecute(o, r) /\ Loop(<< FillEvent(r), FillEvent(o) >>)
        PROVE  \E new : Produces(new)
    BY <1>2, <1>4, ExecuteProduces
  <1>5. ASSUME NEW o \in OrderIds, NEW r \in OrderIds,
               \/ StpCancelNewest(o, r) /\ Loop(<< Event("CANCELLED", o) >>)
               \/ StpCancelOldest(o, r) /\ Loop(<< Event("CANCELLED", r) >>)
               \/ StpDecrement(o, r) /\ Loop(DecrementEvents(o, r))
        PROVE  \E new : Produces(new)
    BY <1>2, <1>5, StpProduces
  <1> QED
    BY <1>3, <1>4, <1>5 DEF EntryMatchStep

\* An order that is live has been issued.
LEMMA LiveIsIssued ==
    ASSUME IInv, NEW o \in OrderIds, IsLive(orders[o])
    PROVE  o < nextId
  BY DEF IInv, IssuedInv, TypeOK, OrderIds, IsLive, LIVE, Unborn

\* What a handler adds that begins with nothing to say.
LEMMA ReadyProduces ==
    ASSUME IInv, Ready, NEW new, new \in Seq(EventType), events' = new,
           \A i \in 1..Len(new) :
              /\ new[i].name = NoKey /\ new[i].kind # "CANCEL_REJECTED"
              /\ new[i].order \in OrderIds /\ new[i].order < nextId'
              /\ new[i].owner = orders'[new[i].order].session,
           nextId' \in Nat, nextId <= nextId',
           \A x \in OrderIds : x < nextId => orders'[x].session = orders[x].session,
           \A x \in OrderIds : x < nextId' => NewsOf(x, new) /\ chain'[x] # << >>,
           task' = "match" => Tells(new, cur') \/ Untouched(cur)',
           \A c \in Clients : \A name \in asked'[c] :
              \/ name \in asked[c]
              \/ \E x \in OrderIds : Renames(x, c, name, new),
           UNCHANGED << held, sent, dropped, delayed >>
    PROVE  Produces(new)
  <1>1. events = << >> /\ task = "idle"
    BY DEF Ready
  <1>2. << >> \o new = new
    OBVIOUS
  <1>3. events' = events \o new
    BY <1>1, <1>2
  <1> QED
    BY <1>1, <1>3 DEF Produces

\* A request that is remembered, and perhaps renames its order.
LEMMA BoundName ==
    ASSUME EntryTypeOK, NEW key \in Sessions, NEW name \in Names, NEW o \in OrderIds,
           Bind(o, key, name)
    PROVE  /\ chain'[o] # << >> /\ chain'[o][Len(chain'[o])] = name
           /\ \A x \in OrderIds \ {o} : chain'[x] = chain[x]
  <1>1. chain \in [OrderIds -> Seq(Names)] /\ chain[o] \in Seq(Names)
    BY DEF EntryTypeOK
  <1>2. /\ chain'[o] = Append(chain[o], name)
        /\ \A x \in OrderIds \ {o} : chain'[x] = chain[x]
    BY <1>1 DEF Bind
  <1>3. PICK s \in Seq(Names) : s = chain[o]
    BY <1>1
  <1>4. /\ Append(s, name) # << >> /\ Len(Append(s, name)) = Len(s) + 1
        /\ Append(s, name)[Len(s) + 1] = name
    BY <1>3
  <1> QED
    BY <1>2, <1>3, <1>4

\* A name asked for before or now.
LEMMA AskedBy ==
    ASSUME EntryTypeOK, NEW key, NEW name, Request(key, name),
           NEW c \in Clients, NEW other \in asked'[c]
    PROVE  other \in asked[c] \/ (c = key /\ other = name)
  BY DEF Request, EntryTypeOK

\* The order a request resolves to is the client's.
LEMMA ResolvedFacts ==
    ASSUME RegistryInv, NEW key \in Clients, NEW name \in Names,
           NEW orig \in Names, NEW o, Resolved(key, name, orig, o)
    PROVE  o \in OrderIds /\ orders[o].session = key
  <1>1. o \in OrderIds
    BY DEF Resolved
  <1>2. key \in Sessions /\ o # NoOrder
    BY <1>1, ClientsAssumption DEF OrderIds, NoOrder
  <1>3. index[<<key, orig>>] = o
    BY <1>2 DEF Resolved, Resolve
  <1> QED
    BY <1>1, <1>2, <1>3 DEF RegistryInv, IndexIsTheInverseOfTheChains

\* A cancelled order, under its name or a new one.
LEMMA CancelProduces ==
    ASSUME IInv, EntryTypeOK, RoutesInv, Ready, NEW o \in OrderIds, Cancel(o),
           events' = << Event("CANCELLED", o) >>,
           chain'[o] # << >>, \A x \in OrderIds \ {o} : chain'[x] = chain[x],
           \A c \in Clients : \A name \in asked'[c] :
              \/ name \in asked[c]
              \/ orders[o].session = c /\ chain'[o][Len(chain'[o])] = name,
           UNCHANGED << held, sent, dropped, delayed >>
    PROVE  \E new : Produces(new)
  <1>1. /\ orders \in [OrderIds -> OrderType] /\ IsLive(orders[o]) /\ o < nextId
        /\ orders' = Cancelled({o}) /\ nextId' = nextId /\ nextId \in Nat
        /\ task = "idle" /\ task' = task
    BY LiveIsIssued, MaxOrdersAssumption DEF Cancel, IInv, TypeOK, taskVars
  <1>2. OwnersKept
    BY <1>1, CancelledOwners DEF IInv
  <1>3. /\ orders'[o] = CancelOrder(orders[o])
        /\ \A x \in OrderIds \ {o} : orders'[x] = orders[x]
    BY <1>1 DEF Cancelled
  <1>4. PICK e : e = Event("CANCELLED", o)
    OBVIOUS
  <1>5. Honest(e) /\ e.order = o /\ e.kind = "CANCELLED"
    BY <1>1, <1>4, HonestEvent DEF EventKinds
  <1>6. PICK new : new = << e >>
    OBVIOUS
  <1>7. /\ new \in Seq(EventType) /\ Len(new) = 1 /\ new[1] = e /\ 1..Len(new) = {1}
        /\ 1 \in 1..Len(new) /\ Len(new) \in Nat
    BY <1>5, <1>6 DEF Honest
  <1>8. NewsOf(o, new)
    <2>1. new[1].order = o /\ new[1].kind = "CANCELLED"
      BY <1>5, <1>7
    <2>2. \A j \in 1..Len(new) : new[j].order = o => j = 1
      BY <1>7
    <2>3. /\ o < nextId /\ IsLive(orders[o]) /\ orders'[o] = CancelOrder(orders[o])
          /\ 1 \in 1..Len(new) /\ Len(new) \in Nat
      BY <1>1, <1>3, <1>7
    <2> QED
      BY <2>1, <2>2, <2>3, CancelIsNews
  <1>9. ASSUME NEW x \in OrderIds, x < nextId' PROVE NewsOf(x, new) /\ chain'[x] # << >>
    <2>1. CASE x = o
      BY <1>8, <2>1
    <2>2. CASE x # o
      <3>1. /\ x < nextId /\ orders'[x] = orders[x] /\ chain'[x] = chain[x]
            /\ chain[x] # << >>
        BY <1>1, <1>3, <1>9, <2>2 DEF RoutesInv
      <3>2. \A i \in 1..Len(new) : new[i].order # x
        BY <1>5, <1>7, <2>2
      <3> QED
        BY <3>1, <3>2, NoNews
    <2> QED
      BY <2>1, <2>2
  <1>10. \A c \in Clients : \A name \in asked'[c] :
              \/ name \in asked[c]
              \/ \E x \in OrderIds : Renames(x, c, name, new)
    BY <1>1, <1>2, <1>5, <1>7 DEF Renames, Tells, About, OwnersKept
  <1>11. \A i \in 1..Len(new) :
              /\ new[i].name = NoKey /\ new[i].kind # "CANCEL_REJECTED"
              /\ new[i].order \in OrderIds /\ new[i].order < nextId'
              /\ new[i].owner = orders'[new[i].order].session
    BY <1>1, <1>2, <1>5, <1>7 DEF Honest, OwnersKept
  <1>12. task' # "match" /\ events' = new /\ nextId <= nextId'
         /\ \A x \in OrderIds : x < nextId => orders'[x].session = orders[x].session
    <2>1. task' # "match" /\ nextId <= nextId'
      BY <1>1
    <2>2. events' = new
      BY <1>4, <1>6
    <2> QED
      BY <1>2, <2>1, <2>2 DEF OwnersKept
  <1> QED
    BY <1>1, <1>7, <1>9, <1>10, <1>11, <1>12, ReadyProduces

\* A client cancels its order under a new name.
LEMMA CancelOrderProduces ==
    ASSUME IInv, RegistryInv, EntryTypeOK, RoutesInv, NEW key \in Clients,
           NEW name \in Names, NEW orig \in Names, NEW o \in OrderIds,
           CancelOrderRequest(key, name, orig, o)
    PROVE  \E new : Produces(new)
  <1>1. /\ Resolved(key, name, orig, o) /\ Request(key, name) /\ Ready /\ Cancel(o)
        /\ Bind(o, key, name) /\ events' = << Event("CANCELLED", o) >>
        /\ UNCHANGED << held, sent, dropped, delayed >>
    BY DEF CancelOrderRequest, Resolved, Request, reportVars
  <1>2. orders[o].session = key /\ key \in Sessions
    BY <1>1, ResolvedFacts, ClientsAssumption
  <1>3. /\ chain'[o] # << >> /\ chain'[o][Len(chain'[o])] = name
        /\ \A x \in OrderIds \ {o} : chain'[x] = chain[x]
    BY <1>1, <1>2, BoundName
  <1>4. \A c \in Clients : \A other \in asked'[c] :
           other \in asked[c] \/ (c = key /\ other = name)
    BY <1>1, AskedBy
  <1> QED
    BY <1>1, <1>2, <1>3, <1>4, CancelProduces

\* An operator cancels an order.
LEMMA AdminCancelProduces ==
    ASSUME IInv, EntryTypeOK, RoutesInv, NEW o \in OrderIds, AdminCancel(o)
    PROVE  \E new : Produces(new)
  <1>1. /\ Ready /\ Cancel(o) /\ events' = << Event("CANCELLED", o) >>
        /\ chain' = chain /\ asked' = asked
        /\ UNCHANGED << held, sent, dropped, delayed >>
    BY DEF AdminCancel, reportVars, registryVars
  <1>2. chain[o] # << >>
    BY <1>1, LiveIsIssued DEF Cancel, RoutesInv
  <1> QED
    BY <1>1, <1>2, CancelProduces

\* A sequence of a set's elements without repetition has each of them once.
LEMMA ListedOnce ==
    ASSUME NEW S, IsFiniteSet(S), NEW q \in SetToSeqs(S)
    PROVE  /\ Cardinality(S) \in Nat /\ q \in [1..Cardinality(S) -> S]
           /\ \A i, j \in 1..Cardinality(S) : q[i] = q[j] => i = j
           /\ \A x \in S : \E i \in 1..Cardinality(S) : q[i] = x
  <1> DEFINE n == Cardinality(S)
             D == 1..n
  <1>1. n \in Nat
    BY FS_CardinalityType
  <1>2. q \in [D -> S] /\ \A i, j \in D : i # j => q[i] # q[j]
    BY DEF SetToSeqs
  <1>3. q \in Injection(D, S)
    BY <1>2 DEF Injection, IsInjective
  <1>4. Cardinality(D) = n
    BY <1>1, FS_Interval
  <1>5. q \in Surjection(D, S)
    BY <1>3, <1>4, FS_Injection
  <1>6. \A x \in S : \E i \in D : q[i] = x
    BY <1>5 DEF Surjection
  <1> QED
    BY <1>1, <1>2, <1>6

\* Several orders are cancelled, and each of them is reported.
LEMMA CancelsProduce ==
    ASSUME IInv, EntryTypeOK, RoutesInv, Ready, NEW S \in SUBSET OnBook,
           NEW q \in BookSequences(S),
           events' = [i \in DOMAIN q |-> Event("CANCELLED", q[i])],
           \A x \in OrderIds :
              orders'[x] = IF x \in S THEN CancelOrder(orders[x]) ELSE orders[x],
           nextId' = nextId, task' = task, chain' = chain, asked' = asked,
           UNCHANGED << held, sent, dropped, delayed >>
    PROVE  \E new : Produces(new)
  <1> DEFINE n == Cardinality(S)
  <1>1. S \subseteq OrderIds /\ IsFiniteSet(S)
    <2>1. S \subseteq OrderIds
      BY DEF OnBook, Resting
    <2>2. IsFiniteSet(OrderIds)
      BY FS_Interval, MaxOrdersAssumption DEF OrderIds
    <2> QED
      BY <2>1, <2>2, FS_Subset
  <1>2. /\ n \in Nat /\ q \in [1..n -> S]
        /\ \A i, j \in 1..n : q[i] = q[j] => i = j
        /\ \A x \in S : \E i \in 1..n : q[i] = x
    BY <1>1, ListedOnce DEF BookSequences
  <1> HIDE DEF n
  <1>3. /\ nextId \in Nat /\ task = "idle"
        /\ \A x \in OrderIds : orders[x] \in OrderType
    BY MaxOrdersAssumption DEF IInv, TypeOK, Ready
  <1>4. ASSUME NEW x \in S PROVE IsLive(orders[x]) /\ x < nextId
    <2>1. x \in OrderIds /\ place[x] # 0
      BY DEF OnBook, Resting
    <2>2. IsLive(orders[x])
      BY <1>3, <2>1 DEF IInv, BookInv
    <2> QED
      BY <2>1, <2>2, LiveIsIssued
  <1>5. ASSUME NEW x \in OrderIds PROVE orders'[x].session = orders[x].session
    BY <1>3, OwnerFacts
  <1>6. ASSUME NEW x \in S
        PROVE  /\ Honest(Event("CANCELLED", x)) /\ Event("CANCELLED", x).order = x
               /\ Event("CANCELLED", x).kind = "CANCELLED"
    BY <1>1, <1>4, HonestEvent DEF EventKinds
  <1>7. PICK new : new = [i \in 1..n |-> Event("CANCELLED", q[i])]
    OBVIOUS
  <1>8. /\ new \in Seq(EventType) /\ Len(new) = n
        /\ \A i \in 1..n : new[i] = Event("CANCELLED", q[i])
    <2>1. \A i \in 1..n : Event("CANCELLED", q[i]) \in EventType
      BY <1>2, <1>6 DEF Honest
    <2> QED
      BY <1>2, <1>7, <2>1
  <1>9. \A i \in 1..n : /\ q[i] \in S /\ Honest(new[i]) /\ new[i].order = q[i]
                        /\ new[i].kind = "CANCELLED"
    BY <1>2, <1>6, <1>8
  <1>10. ASSUME NEW x \in OrderIds, x < nextId PROVE NewsOf(x, new)
    <2>1. CASE x \in S
      <3>1. PICK i \in 1..n : q[i] = x
        BY <1>2, <2>1
      <3>2. /\ i \in 1..Len(new) /\ Len(new) \in Nat
            /\ new[i].order = x /\ new[i].kind = "CANCELLED"
            /\ \A j \in 1..Len(new) : new[j].order = x => j = i
        BY <1>2, <1>8, <1>9, <3>1
      <3>3. IsLive(orders[x]) /\ orders'[x] = CancelOrder(orders[x])
        BY <1>4, <2>1
      <3> QED
        BY <1>10, <3>2, <3>3, CancelIsNews
    <2>2. CASE x \notin S
      <3>1. orders'[x] = orders[x] /\ chain'[x] = chain[x]
        BY <2>2
      <3>2. \A i \in 1..Len(new) : new[i].order # x
        BY <1>8, <1>9, <2>2
      <3> QED
        BY <1>10, <3>1, <3>2, NoNews
    <2> QED
      BY <2>1, <2>2
  <1>11. \A i \in 1..Len(new) :
              /\ new[i].name = NoKey /\ new[i].kind # "CANCEL_REJECTED"
              /\ new[i].order \in OrderIds /\ new[i].order < nextId'
              /\ new[i].owner = orders'[new[i].order].session
    BY <1>5, <1>8, <1>9 DEF Honest
  <1>12. events' = new
    <2>1. DOMAIN q = 1..n
      BY <1>2
    <2> QED
      BY <1>7, <2>1
  <1>13. \A x \in OrderIds : x < nextId' => NewsOf(x, new) /\ chain'[x] # << >>
    BY <1>10 DEF RoutesInv
  <1>14. task' # "match" /\ nextId <= nextId' /\ nextId' \in Nat
    BY <1>3
  <1>15. \A c \in Clients : \A name \in asked'[c] : name \in asked[c]
    OBVIOUS
  <1> QED
    BY <1>5, <1>8, <1>11, <1>12, <1>13, <1>14, <1>15, ReadyProduces

\* A disconnect, or an operator, cancels every order of some sessions.
LEMMA CancelManyProduces ==
    ASSUME IInv, EntryTypeOK, RoutesInv, NEW keys, NEW from, CancelMany(keys, from)
    PROVE  \E new : Produces(new)
  <1>1. PICK S : S = {o \in OnBook : orders[o].session \in keys}
    OBVIOUS
  <1>2. /\ Ready /\ orders' = Cancelled(S) /\ nextId' = nextId /\ task' = task
        /\ chain' = chain /\ asked' = asked
        /\ UNCHANGED << held, sent, dropped, delayed >>
        /\ CancelEvents(S)
    BY <1>1 DEF CancelMany, CancelAll, taskVars, reportVars, registryVars
  <1>3. PICK q \in BookSequences(S) :
           events' = [i \in DOMAIN q |-> Event("CANCELLED", q[i])]
    BY <1>2 DEF CancelEvents
  <1>4. \A x \in OrderIds :
              orders'[x] = IF x \in S THEN CancelOrder(orders[x]) ELSE orders[x]
    BY <1>2 DEF Cancelled
  <1>5. S \in SUBSET OnBook
    BY <1>1
  <1> QED
    BY <1>2, <1>3, <1>4, <1>5, CancelsProduce

\* A phase change tells of the orders it expires.
LEMMA SetStateProduces ==
    ASSUME IInv, EntryTypeOK, RoutesInv, NEW s, SetState(s)
    PROVE  \E new : Produces(new)
  <1>1. PICK S : S = {o \in OnBook : orders'[o] # orders[o]}
    OBVIOUS
  <1>2. /\ Ready /\ nextId' = nextId /\ task' = task
        /\ orders' = orders \/ orders' = Cancelled(OnBook)
        /\ chain' = chain /\ asked' = asked
        /\ UNCHANGED << held, sent, dropped, delayed >>
    BY DEF SetState, SetMarketState, SetInstrumentState, Command, ExpireOrders,
           taskVars, reportVars, registryVars
  <1>3. PICK q \in BookSequences(S) :
           events' = [i \in DOMAIN q |-> Event("CANCELLED", q[i])]
    BY <1>1 DEF SetState, CancelEvents
  <1>4. \A x \in OrderIds :
              orders'[x] = IF x \in S THEN CancelOrder(orders[x]) ELSE orders[x]
    BY <1>1, <1>2 DEF Cancelled, OnBook, Resting
  <1>5. S \in SUBSET OnBook
    BY <1>1
  <1> QED
    BY <1>2, <1>3, <1>4, <1>5, CancelsProduce

\* A handler that reports of one order, under the name of its request.
LEMMA OneOrderProduces ==
    ASSUME IInv, EntryTypeOK, RoutesInv, NEW o \in OrderIds, NEW key \in Sessions,
           NEW name \in Names, Request(key, name), Bind(o, key, name),
           NEW new, new \in Seq(EventType), events' = new,
           \A i \in 1..Len(new) :
              /\ new[i].name = NoKey /\ new[i].kind # "CANCEL_REJECTED"
              /\ new[i].order = o /\ new[i].owner = key,
           orders'[o].session = key, o < nextId => orders[o].session = key,
           \A x \in OrderIds \ {o} : orders'[x] = orders[x],
           nextId' \in Nat, nextId <= nextId', o < nextId',
           \A x \in OrderIds \ {o} : x < nextId' => x < nextId,
           NewsOf(o, new),
           Tells(new, o) \/ (task' = "match" /\ Untouched(o)'),
           task' = "match" => cur' = o,
           UNCHANGED << held, sent, dropped, delayed >>
    PROVE  Produces(new)
  <1>1. Ready
    BY DEF Request
  <1>2. /\ chain'[o] # << >> /\ chain'[o][Len(chain'[o])] = name
        /\ \A x \in OrderIds \ {o} : chain'[x] = chain[x]
    BY BoundName
  <1>3. ASSUME NEW x \in OrderIds, x < nextId' PROVE NewsOf(x, new) /\ chain'[x] # << >>
    <2>1. CASE x = o
      BY <1>2, <2>1
    <2>2. CASE x # o
      <3>1. /\ x < nextId /\ orders'[x] = orders[x] /\ chain'[x] = chain[x]
            /\ chain[x] # << >>
        BY <1>2, <1>3, <2>2 DEF RoutesInv
      <3>2. \A i \in 1..Len(new) : new[i].order # x
        BY <2>2
      <3> QED
        BY <3>1, <3>2, NoNews
    <2> QED
      BY <2>1, <2>2
  <1>4. Renames(o, key, name, new)
    BY <1>2 DEF Renames
  <1>5. ASSUME NEW c \in Clients, NEW other \in asked'[c]
        PROVE  other \in asked[c] \/ \E x \in OrderIds : Renames(x, c, other, new)
    BY <1>4, <1>5, AskedBy
  <1>6. \A i \in 1..Len(new) :
              /\ new[i].name = NoKey /\ new[i].kind # "CANCEL_REJECTED"
              /\ new[i].order \in OrderIds /\ new[i].order < nextId'
              /\ new[i].owner = orders'[new[i].order].session
    OBVIOUS
  <1>7. \A x \in OrderIds : x < nextId => orders'[x].session = orders[x].session
    OBVIOUS
  <1>8. task' = "match" => Tells(new, cur') \/ Untouched(cur)'
    BY DEF Untouched
  <1> QED
    BY <1>1, <1>3, <1>5, <1>6, <1>7, <1>8, ReadyProduces

\* An event under the session its request came from.
Own(kind, o, owner) == [Event(kind, o) EXCEPT !.owner = owner]

\* What is told of an order that enters, under its owner.
LEMMA OwnFacts ==
    ASSUME IInv, NEW o \in OrderIds, NEW owner \in Sessions,
           NEW kind \in EventKinds \ {"CANCEL_REJECTED"}, NEW e,
           \/ e = Own(kind, o, owner)
           \/ /\ kind = "ACCEPTED"
              /\ \E ord \in OrderType : e = AcceptEvent(o, ord, owner)
    PROVE  /\ e \in EventType /\ e.name = NoKey /\ e.kind = kind /\ e.order = o
           /\ e.owner = owner
  <1>1. /\ Event(kind, o) \in EventType
        /\ Event(kind, o).kind = kind /\ Event(kind, o).order = o
        /\ Event(kind, o).name = NoKey
    BY EventFacts
  <1>2. CASE e = Own(kind, o, owner)
    BY <1>1, <1>2 DEF Own, EventType
  <1>3. CASE kind = "ACCEPTED" /\ \E ord \in OrderType : e = AcceptEvent(o, ord, owner)
    <2>1. PICK ord \in OrderType : e = AcceptEvent(o, ord, owner)
      BY <1>3
    <2>2. ord.qty \in Nat /\ ord.cum \in Nat
      BY DEF OrderType
    <2> QED
      BY <1>1, <1>3, <2>1, <2>2 DEF AcceptEvent, EventType
  <1> QED
    BY <1>2, <1>3

\* What entering an order makes of it.
LEMMA SubmitCases ==
    ASSUME task = "idle", orders \in [OrderIds -> OrderType], NEW o \in OrderIds, NEW ord,
           NEW pl, NEW stamp, Submit(o, ord, pl, stamp)
    PROVE  /\ \A x \in OrderIds \ {o} : orders'[x] = orders[x]
           /\ \/ orders'[o] = [ord EXCEPT !.status = "REJECTED"] /\ task' = "idle"
              \/ orders'[o] = Rested(ord) /\ task' = "idle"
              \/ orders'[o] = CancelOrder(ord) /\ task' = "idle"
              \/ orders'[o] = ord /\ task' = "match" /\ cur' = o
  BY DEF Submit, SubmitRejected, SubmitAccumulated, SubmitBlocked, SubmitMatching,
         Settle, taskVars

\* One event, two, or none, one after the other.
LEMMA ShortJoins ==
    ASSUME NEW a, NEW b
    PROVE  /\ << a >> \o << b >> = << a, b >>
           /\ << >> \o << b >> = << b >> /\ << a >> \o << >> = << a >>
           /\ << >> \o << >> = << >>
  <1> DEFINE S == {a, b}
  <1>1. << a >> \in Seq(S) /\ << b >> \in Seq(S) /\ << >> \in Seq(S)
    OBVIOUS
  <1>2. \A s \in Seq(S) : << >> \o s = s /\ s \o << >> = s
    OBVIOUS
  <1>3. << a >> \o << b >> = << a, b >>
    <2> DEFINE s == << a >>
               t == << b >>
               u == << a, b >>
    <2>1. s \in Seq(S) /\ t \in Seq(S) /\ u \in Seq(S)
      OBVIOUS
    <2>2. Len(s) = 1 /\ s[1] = a /\ Len(t) = 1 /\ t[1] = b
      OBVIOUS
    <2>3. Len(u) = 2 /\ u[1] = a /\ u[2] = b
      OBVIOUS
    <2> HIDE DEF S, s, t, u
    <2>4. /\ s \o t \in Seq(S) /\ Len(s \o t) = Len(s) + Len(t)
          /\ \A i \in 1..Len(s) : (s \o t)[i] = s[i]
          /\ \A i \in 1..Len(t) : (s \o t)[Len(s) + i] = t[i]
      BY <2>1, JoinFacts
    <2>5. Len(s \o t) = 2 /\ (s \o t)[1] = a /\ (s \o t)[2] = b
      BY <2>2, <2>4
    <2> DEFINE v == s \o t
    <2>6. v \in Seq(S) /\ Len(v) = 2 /\ v[1] = a /\ v[2] = b
      BY <2>4, <2>5
    <2> HIDE DEF v
    <2>7. v = u
      <3>1. \A i \in 1..2 : v[i] = u[i]
        BY <2>3, <2>6
      <3> QED
        BY <2>1, <2>3, <2>6, <3>1
    <2> QED
      BY <2>7 DEF v, s, t, u
  <1> HIDE DEF S
  <1>4. << >> \o << b >> = << b >> /\ << a >> \o << >> = << a >>
    BY <1>1, <1>2
  <1>5. << >> \o << >> = << >>
    BY <1>1, <1>2
  <1> QED
    BY <1>3, <1>4, <1>5

\* What is said of a new order, before it is matched.
LEMMA NewEvents ==
    ASSUME NEW o, NEW key, orders'[o].cum = 0, orders'[o].session = key,
           orders'[o].status \in {"NEW", "CANCELLED", "REJECTED"},
           task' = "match" => orders'[o].status = "NEW"
    PROVE  LET e == AcceptEvent(o, orders'[o], key)
           IN  SubmitEvents(o, key, FALSE) =
                  CASE orders'[o].status = "REJECTED" -> << Own("REJECTED", o, key) >>
                    [] orders'[o].status = "CANCELLED" /\ AckOnEntry ->
                          << e, Own("CANCELLED", o, key) >>
                    [] orders'[o].status = "CANCELLED" /\ ~AckOnEntry ->
                          << Own("CANCELLED", o, key) >>
                    [] orders'[o].status = "NEW" /\ (AckOnEntry \/ task' # "match") -> << e >>
                    [] orders'[o].status = "NEW" /\ ~AckOnEntry /\ task' = "match" -> << >>
  <1> DEFINE e == AcceptEvent(o, orders'[o], key)
             c == Own("CANCELLED", o, key)
             j == Own("REJECTED", o, key)
  <1>1. /\ AcceptEvents(o, orders'[o], FALSE) = IF AckOnEntry THEN << >> ELSE << e >>
        /\ Acknowledged(o, orders'[o], FALSE) = IF AckOnEntry THEN << e >> ELSE << >>
    BY DEF AcceptEvents, Acknowledged
  <1>2. SubmitEvents(o, key, FALSE) =
          IF orders'[o].status = "REJECTED" THEN << j >>
          ELSE (IF AckOnEntry THEN << e >> ELSE << >>) \o
               (IF task' = "match" THEN << >>
                ELSE IF orders'[o].status = "CANCELLED" THEN << c >>
                ELSE IF AckOnEntry THEN << >> ELSE << e >>)
    BY <1>1 DEF SubmitEvents, Own
  <1> HIDE DEF e, c, j
  <1>3. /\ << e >> \o << c >> = << e, c >> /\ << >> \o << c >> = << c >>
        /\ << e >> \o << >> = << e >> /\ << >> \o << e >> = << e >>
        /\ << >> \o << >> = << >>
    BY ShortJoins
  <1>4. SubmitEvents(o, key, FALSE) =
           CASE orders'[o].status = "REJECTED" -> << j >>
             [] orders'[o].status = "CANCELLED" /\ AckOnEntry -> << e, c >>
             [] orders'[o].status = "CANCELLED" /\ ~AckOnEntry -> << c >>
             [] orders'[o].status = "NEW" /\ (AckOnEntry \/ task' # "match") -> << e >>
             [] orders'[o].status = "NEW" /\ ~AckOnEntry /\ task' = "match" -> << >>
    BY <1>2, <1>3
  <1> QED
    BY <1>4 DEF e, c, j

\* A new order is told of, or is on its way into the loop.
LEMMA NewProduces ==
    ASSUME IInv, EntryTypeOK, RoutesInv, NEW key \in Sessions, NEW name \in Names,
           NEW r \in Requests, NewAccepted(key, name, r)
    PROVE  \E new : Produces(new)
  <1>0. PICK o : o = nextId
    OBVIOUS
  <1> DEFINE ord == BuildOrder(r)
  <1>1. /\ r.session = key /\ Request(key, name) /\ NewOrder(r) /\ Bind(o, key, name)
        /\ events' = SubmitEvents(o, key, FALSE) /\ task = "idle"
        /\ UNCHANGED << held, sent, dropped, delayed >>
    BY <1>0 DEF NewAccepted, reportVars, NewOrder
  <1>2. /\ o \in OrderIds /\ nextId' = o + 1 /\ nextId \in Nat
        /\ orders \in [OrderIds -> OrderType]
        /\ Submit(o, ord, place, arrivals + 1)
    BY <1>0, <1>1, MaxOrdersAssumption DEF NewOrder, IInv, TypeOK, OrderIds
  <1>3. orders[o].status = Unborn
    BY <1>0, <1>2 DEF IInv, IssuedInv
  <1>4. ValidRequest(r)
    BY RequestsAssumption
  <1>5. /\ ord \in OrderType /\ ord.status = "NEW" /\ ord.cum = 0 /\ ord.session = key
    BY <1>1, <1>4 DEF BuildOrder, ValidRequest, OrderType, Statuses, LIVE
  <1> HIDE DEF ord
  <1>6. /\ \A x \in OrderIds \ {o} : orders'[x] = orders[x]
        /\ \/ orders'[o] = [ord EXCEPT !.status = "REJECTED"] /\ task' = "idle"
           \/ orders'[o] = Rested(ord) /\ task' = "idle"
           \/ orders'[o] = CancelOrder(ord) /\ task' = "idle"
           \/ orders'[o] = ord /\ task' = "match" /\ cur' = o
    BY <1>1, <1>2, SubmitCases
  <1>7. PICK now : now = orders'[o]
    OBVIOUS
  <1>8. /\ now \in OrderType /\ now.cum = 0 /\ now.session = key
        /\ now.status \in {"NEW", "CANCELLED", "REJECTED"}
        /\ task' = "match" => now.status = "NEW" /\ cur' = o
    <2>1. CASE now = [ord EXCEPT !.status = "REJECTED"] /\ task' = "idle"
      BY <1>5, <2>1 DEF OrderType, Statuses, TERMINAL
    <2>2. CASE now = Rested(ord) /\ task' = "idle"
      BY <1>5, <2>2 DEF Rested, OrderType
    <2>3. CASE now = CancelOrder(ord) /\ task' = "idle"
      BY <1>5, <2>3, CancelFacts, OwnerFacts DEF TERMINAL
    <2>4. CASE now = ord /\ task' = "match" /\ cur' = o
      BY <1>5, <2>4
    <2> QED
      BY <1>6, <1>7, <2>1, <2>2, <2>3, <2>4
  <1>9. PICK a, c, j : /\ a = AcceptEvent(o, orders'[o], key)
                       /\ c = Own("CANCELLED", o, key) /\ j = Own("REJECTED", o, key)
    OBVIOUS
  <1>10. events' = CASE now.status = "REJECTED" -> << j >>
                     [] now.status = "CANCELLED" /\ AckOnEntry -> << a, c >>
                     [] now.status = "CANCELLED" /\ ~AckOnEntry -> << c >>
                     [] now.status = "NEW" /\ (AckOnEntry \/ task' # "match") -> << a >>
                     [] now.status = "NEW" /\ ~AckOnEntry /\ task' = "match" -> << >>
    <2>1. /\ orders'[o].cum = 0 /\ orders'[o].session = key
          /\ orders'[o].status \in {"NEW", "CANCELLED", "REJECTED"}
          /\ task' = "match" => orders'[o].status = "NEW"
      BY <1>7, <1>8
    <2> QED
      BY <1>1, <1>7, <1>9, <2>1, NewEvents
  <1>11. \A e \in {a, c, j} : /\ e \in EventType /\ e.name = NoKey
                              /\ e.order = o /\ e.owner = key
    BY <1>2, <1>7, <1>8, <1>9, OwnFacts DEF EventKinds
  <1>12. a.kind = "ACCEPTED" /\ c.kind = "CANCELLED" /\ j.kind = "REJECTED"
    BY <1>2, <1>7, <1>8, <1>9, OwnFacts DEF EventKinds
  <1>13. orders[o].status \notin TERMINAL /\ ~(o < nextId)
    BY <1>0, <1>2, <1>3 DEF Unborn, TERMINAL
  \* The rest follows from the news.
  <1>14. ASSUME NEW new, new \in Seq(EventType), events' = new,
                \A i \in 1..Len(new) : new[i] \in {a, c, j},
                NewsOf(o, new),
                Tells(new, o) \/ (task' = "match" /\ Untouched(o)')
         PROVE  Produces(new)
    <2>1. \A i \in 1..Len(new) :
              /\ new[i].name = NoKey /\ new[i].kind # "CANCEL_REJECTED"
              /\ new[i].order = o /\ new[i].owner = key
      BY <1>11, <1>12, <1>14
    <2>2. /\ orders'[o].session = key /\ (o < nextId => orders[o].session = key)
          /\ nextId' \in Nat /\ nextId <= nextId' /\ o < nextId'
          /\ \A x \in OrderIds \ {o} : x < nextId' => x < nextId
          /\ task' = "match" => cur' = o
      BY <1>0, <1>2, <1>7, <1>8, <1>13 DEF OrderIds
    <2> QED
      BY <1>1, <1>2, <1>6, <1>14, <2>1, <2>2, OneOrderProduces
  <1>15. ASSUME NEW e \in {a, c, j}, events' = << e >>, Current(e, now),
                Closes(e, o) => now.status \in TERMINAL
         PROVE  \E new : Produces(new)
    <2>1. PICK new : new = << e >>
      OBVIOUS
    <2>2. /\ new \in Seq(EventType) /\ Len(new) = 1 /\ new[1] = e /\ 1..Len(new) = {1}
          /\ 1 \in 1..Len(new) /\ Len(new) \in Nat
      BY <1>11, <2>1
    <2>3. new[1].order = o /\ new[1].kind \in {"ACCEPTED", "CANCELLED", "REJECTED"}
      BY <1>11, <1>12, <2>2
    <2>4. /\ Current(new[1], orders'[o])
          /\ Closes(new[1], o) => orders'[o].status \in TERMINAL
          /\ orders'[o].cum = IF o < nextId THEN orders[o].cum ELSE 0
          /\ \A i \in 1..Len(new) : new[i].order = o => i = 1
      BY <1>7, <1>8, <1>13, <1>15, <2>2
    <2>5. NewsOf(o, new)
      BY <1>13, <2>2, <2>3, <2>4, SingleNews
    <2>6. Tells(new, o)
      BY <2>2, <2>3 DEF Tells, About
    <2> QED
      BY <1>14, <1>15, <2>1, <2>2, <2>5, <2>6
  <1>16. CASE now.status = "REJECTED"
    <2>1. events' = << j >>
      BY <1>10, <1>16
    <2>2. Current(j, now) /\ now.status \in TERMINAL
      BY <1>12, <1>16 DEF Current, TERMINAL
    <2> QED
      BY <1>15, <2>1, <2>2
  <1>17. CASE now.status = "CANCELLED" /\ ~AckOnEntry
    <2>1. events' = << c >>
      BY <1>10, <1>17
    <2>2. Current(c, now) /\ now.status \in TERMINAL
      BY <1>12, <1>17 DEF Current, TERMINAL
    <2> QED
      BY <1>15, <2>1, <2>2
  <1>18. CASE now.status = "NEW" /\ (AckOnEntry \/ task' # "match")
    <2>1. events' = << a >>
      BY <1>10, <1>18
    <2>2. Current(a, now) /\ ~Closes(a, o)
      BY <1>12, <1>18 DEF Current, Closes
    <2> QED
      BY <1>15, <2>1, <2>2
  <1>19. CASE now.status = "CANCELLED" /\ AckOnEntry
    <2>1. PICK new : new = << a, c >>
      OBVIOUS
    <2>2. events' = new
      BY <1>10, <1>19, <2>1
    <2>3. /\ new \in Seq(EventType) /\ Len(new) = 2 /\ new[1] = a /\ new[2] = c
          /\ 1..Len(new) = {1, 2}
      <3>1. a \in EventType /\ c \in EventType
        BY <1>11
      <3>2. new \in Seq(EventType) /\ Len(new) = 2 /\ new[1] = a /\ new[2] = c
        BY <2>1, <3>1, PairFacts
      <3> QED
        BY <3>2
    <2>4. /\ Current(new[2], orders'[o]) /\ orders'[o].status \in TERMINAL
          /\ orders'[o].cum = IF o < nextId THEN orders[o].cum ELSE 0
      BY <1>7, <1>8, <1>12, <1>13, <1>19, <2>3 DEF Current, TERMINAL
    <2>5. /\ \A i \in {1, 2} : /\ new[i].order = o
                               /\ new[i].kind \notin {"CANCEL_REJECTED", "FILLED"}
          /\ new[1].kind \notin {"CANCELLED", "REJECTED"}
      BY <1>11, <1>12, <2>3
    <2>6. NewsOf(o, new)
      BY <1>13, <2>3, <2>4, <2>5, DoubleNews
    <2>7. Tells(new, o)
      BY <2>3, <2>5 DEF Tells, About
    <2>8. \A i \in 1..Len(new) : new[i] \in {a, c, j}
      BY <2>3
    <2> QED
      BY <1>14, <2>2, <2>3, <2>6, <2>7, <2>8
  <1>20. CASE now.status = "NEW" /\ ~AckOnEntry /\ task' = "match"
    <2>1. PICK new : new = << >>
      OBVIOUS
    <2>2. events' = new /\ events' = << >>
      BY <1>10, <1>20, <2>1
    <2>3. new \in Seq(EventType) /\ 1..Len(new) = {}
      BY <2>1
    <2>4. cur' = o /\ o >= nextId /\ orders'[o].cum = 0 /\ orders'[o].status = "NEW"
      BY <1>0, <1>2, <1>7, <1>8, <1>20
    <2>5. NewsOf(o, new)
      BY <1>13, <1>20, <2>3, <2>4 DEF NewsOf, Tells
    <2>6. Untouched(o)'
      BY <1>20, <2>2, <2>4 DEF Untouched, Replacing
    <2> QED
      BY <1>14, <1>20, <2>2, <2>3, <2>5, <2>6
  <1> QED
    BY <1>8, <1>16, <1>17, <1>18, <1>19, <1>20

\* What re-entering reports of an order, behind its replacement.
LEMMA AgainEvents ==
    ASSUME NEW o, NEW key
    PROVE  SubmitEvents(o, key, TRUE) =
              IF orders'[o].status = "REJECTED" THEN << Own("REJECTED", o, key) >>
              ELSE IF task' # "match" /\ orders'[o].status = "CANCELLED"
              THEN << Own("CANCELLED", o, key) >> ELSE << >>
  <1> DEFINE c == Own("CANCELLED", o, key)
             j == Own("REJECTED", o, key)
  <1>1. /\ AcceptEvents(o, orders'[o], TRUE) = << >>
        /\ Acknowledged(o, orders'[o], TRUE) = << >>
    BY DEF AcceptEvents, Acknowledged
  <1>2. SubmitEvents(o, key, TRUE) =
          IF orders'[o].status = "REJECTED" THEN << j >>
          ELSE << >> \o (IF task' = "match" THEN << >>
                         ELSE IF orders'[o].status = "CANCELLED" THEN << c >> ELSE << >>)
    BY <1>1 DEF SubmitEvents, Own
  <1> HIDE DEF c, j
  <1>3. << >> \o << c >> = << c >> /\ << >> \o << >> = << >>
    BY ShortJoins
  <1>4. SubmitEvents(o, key, TRUE) =
              IF orders'[o].status = "REJECTED" THEN << j >>
              ELSE IF task' # "match" /\ orders'[o].status = "CANCELLED"
              THEN << c >> ELSE << >>
    BY <1>2, <1>3
  <1> QED
    BY <1>4 DEF c, j

\* A replaced order is told of, and then what becomes of it before it is matched.
LEMMA ReplaceProduces ==
    ASSUME IInv, RegistryInv, EntryTypeOK, RoutesInv, NEW key \in Clients,
           NEW name \in Names, NEW orig \in Names, NEW o \in OrderIds,
           NEW a \in Amendments, ReplaceOrder(key, name, orig, o, a)
    PROVE  \E new : Produces(new)
  <1> DEFINE ord == Revised(orders[o], a)
             pl == Removed(AmendedPlace(o, ord), {o})
  <1>1. /\ Resolved(key, name, orig, o) /\ Request(key, name) /\ Amend(o, a)
        /\ Bind(o, key, name) /\ task = "idle"
        /\ events' = << Event("REPLACED", o) >> \o SubmitEvents(o, key, TRUE)
        /\ UNCHANGED << held, sent, dropped, delayed >>
    BY DEF ReplaceOrder, Resolved, reportVars, Amend
  <1>2. orders[o].session = key /\ key \in Sessions
    BY <1>1, ResolvedFacts, ClientsAssumption
  <1>3. /\ orders \in [OrderIds -> OrderType] /\ orders[o] \in OrderType
        /\ IsLive(orders[o]) /\ o < nextId /\ nextId' = nextId /\ nextId \in Nat
    BY <1>1, LiveIsIssued, MaxOrdersAssumption DEF Amend, IInv, TypeOK
  <1>4. /\ ord \in OrderType /\ ord.status = orders[o].status /\ ord.cum = orders[o].cum
        /\ ord.session = key
    BY <1>2, <1>3, RevisedFacts, OwnerFacts
  <1>5. \/ Settle(o, ord, AmendedPlace(o, ord))
        \/ Submit(o, ord, pl, arrivals + 1)
    BY <1>1 DEF Amend
  <1> HIDE DEF ord, pl
  <1>6. /\ \A x \in OrderIds \ {o} : orders'[x] = orders[x]
        /\ \/ orders'[o] = [ord EXCEPT !.status = "REJECTED"] /\ task' = "idle"
           \/ orders'[o] = Rested(ord) /\ task' = "idle"
           \/ orders'[o] = CancelOrder(ord) /\ task' = "idle"
           \/ orders'[o] = ord /\ task' = "idle"
           \/ orders'[o] = ord /\ task' = "match" /\ cur' = o
    <2>1. CASE Settle(o, ord, AmendedPlace(o, ord))
      BY <1>1, <1>3, <2>1 DEF Settle, taskVars
    <2>2. CASE Submit(o, ord, pl, arrivals + 1)
      BY <1>1, <1>3, <2>2, SubmitCases
    <2> QED
      BY <1>5, <2>1, <2>2
  <1>7. PICK now : now = orders'[o]
    OBVIOUS
  <1>8. now.cum = orders[o].cum /\ now.session = key /\ (task' = "match" => cur' = o)
    <2>1. CASE now = [ord EXCEPT !.status = "REJECTED"] /\ task' = "idle"
      BY <1>4, <2>1 DEF OrderType
    <2>2. CASE now = Rested(ord) /\ task' = "idle"
      BY <1>4, <2>2 DEF Rested, OrderType
    <2>3. CASE now = CancelOrder(ord) /\ task' = "idle"
      BY <1>4, <2>3, CancelFacts, OwnerFacts
    <2>4. CASE now = ord /\ (task' = "match" => cur' = o)
      BY <1>4, <2>4
    <2> QED
      BY <1>6, <1>7, <2>1, <2>2, <2>3, <2>4
  <1>9. PICK e, c, j : /\ e = Event("REPLACED", o)
                       /\ c = Own("CANCELLED", o, key) /\ j = Own("REJECTED", o, key)
    OBVIOUS
  <1>10. events' = IF now.status = "REJECTED" THEN << e, j >>
                   ELSE IF task' # "match" /\ now.status = "CANCELLED" THEN << e, c >>
                   ELSE << e >>
    <2>1. SubmitEvents(o, key, TRUE) =
              IF now.status = "REJECTED" THEN << j >>
              ELSE IF task' # "match" /\ now.status = "CANCELLED"
              THEN << c >> ELSE << >>
      BY <1>7, <1>9, AgainEvents
    <2>2. /\ << e >> \o << j >> = << e, j >> /\ << e >> \o << c >> = << e, c >>
          /\ << e >> \o << >> = << e >>
      BY ShortJoins
    <2> QED
      BY <1>1, <1>9, <2>1, <2>2
  <1>11. \A x \in {e, c, j} : /\ x \in EventType /\ x.name = NoKey
                              /\ x.order = o /\ x.owner = key
    BY <1>2, <1>9, OwnFacts, EventFacts DEF EventKinds
  <1>12. e.kind = "REPLACED" /\ c.kind = "CANCELLED" /\ j.kind = "REJECTED"
    BY <1>2, <1>9, OwnFacts, EventFacts DEF EventKinds
  <1>13. orders[o].status \notin TERMINAL
    BY <1>3 DEF IsLive, LIVE, TERMINAL
  <1>14. ASSUME NEW new, new \in Seq(EventType), events' = new,
                \A i \in 1..Len(new) : new[i] \in {e, c, j},
                NewsOf(o, new), Tells(new, o)
         PROVE  Produces(new)
    <2>1. \A i \in 1..Len(new) :
              /\ new[i].name = NoKey /\ new[i].kind # "CANCEL_REJECTED"
              /\ new[i].order = o /\ new[i].owner = key
      BY <1>11, <1>12, <1>14
    <2>2. /\ orders'[o].session = key /\ (o < nextId => orders[o].session = key)
          /\ nextId' \in Nat /\ nextId <= nextId' /\ o < nextId'
          /\ \A x \in OrderIds \ {o} : x < nextId' => x < nextId
          /\ task' = "match" => cur' = o
      BY <1>2, <1>3, <1>7, <1>8
    <2> QED
      BY <1>1, <1>2, <1>6, <1>14, <2>1, <2>2, OneOrderProduces
  <1>15. ASSUME NEW f \in {c, j}, events' = << e, f >>, Current(f, now),
                now.status \in TERMINAL
         PROVE  \E new : Produces(new)
    <2>1. PICK new : new = << e, f >>
      OBVIOUS
    <2>2. /\ new \in Seq(EventType) /\ Len(new) = 2 /\ new[1] = e /\ new[2] = f
          /\ 1..Len(new) = {1, 2}
      <3>1. e \in EventType /\ f \in EventType
        BY <1>11
      <3>2. new \in Seq(EventType) /\ Len(new) = 2 /\ new[1] = e /\ new[2] = f
        BY <2>1, <3>1, PairFacts
      <3> QED
        BY <3>2
    <2>3. /\ Current(new[2], orders'[o]) /\ orders'[o].status \in TERMINAL
          /\ orders'[o].cum = IF o < nextId THEN orders[o].cum ELSE 0
      BY <1>3, <1>7, <1>8, <1>15, <2>2
    <2>4. /\ \A i \in {1, 2} : /\ new[i].order = o
                               /\ new[i].kind \notin {"CANCEL_REJECTED", "FILLED"}
          /\ new[1].kind \notin {"CANCELLED", "REJECTED"}
      BY <1>11, <1>12, <2>2
    <2>5. NewsOf(o, new)
      BY <1>13, <2>2, <2>3, <2>4, DoubleNews
    <2>6. Tells(new, o)
      BY <2>2, <2>4 DEF Tells, About
    <2>7. \A i \in 1..Len(new) : new[i] \in {e, c, j}
      BY <2>2
    <2> QED
      BY <1>14, <1>15, <2>1, <2>2, <2>5, <2>6, <2>7
  <1>16. CASE now.status = "REJECTED"
    <2>1. events' = << e, j >>
      BY <1>10, <1>16
    <2>2. Current(j, now) /\ now.status \in TERMINAL
      BY <1>12, <1>16 DEF Current, TERMINAL
    <2> QED
      BY <1>15, <2>1, <2>2
  <1>17. CASE task' # "match" /\ now.status = "CANCELLED"
    <2>1. events' = << e, c >>
      BY <1>10, <1>17
    <2>2. Current(c, now) /\ now.status \in TERMINAL
      BY <1>12, <1>17 DEF Current, TERMINAL
    <2> QED
      BY <1>15, <2>1, <2>2
  <1>18. CASE now.status # "REJECTED" /\ ~(task' # "match" /\ now.status = "CANCELLED")
    <2>1. PICK new : new = << e >>
      OBVIOUS
    <2>2. /\ new \in Seq(EventType) /\ Len(new) = 1 /\ new[1] = e /\ 1..Len(new) = {1}
          /\ 1 \in 1..Len(new) /\ Len(new) \in Nat
      BY <1>11, <2>1
    <2>3. new[1].order = o /\ new[1].kind = "REPLACED"
      BY <1>11, <1>12, <2>2
    <2>4. /\ Current(new[1], orders'[o]) /\ ~Closes(new[1], o)
          /\ orders'[o].cum = IF o < nextId THEN orders[o].cum ELSE 0
          /\ \A i \in 1..Len(new) : new[i].order = o => i = 1
      BY <1>3, <1>7, <1>8, <2>2, <2>3 DEF Current, Closes
    <2>5. NewsOf(o, new)
      BY <1>13, <2>2, <2>3, <2>4, SingleNews
    <2>6. Tells(new, o)
      BY <2>2, <2>3 DEF Tells, About
    <2>7. events' = new
      BY <1>10, <1>18, <2>1
    <2> QED
      BY <1>14, <2>2, <2>5, <2>6, <2>7
  <1> QED
    BY <1>16, <1>17, <1>18

----------------------------------------------------------------------------
(* Steps that say nothing of an order *)

\* What the reports are about is left alone.
LEMMA NothingSaid ==
    ASSUME RoutesInv, CurInv, TalkInv, AnswerInv,
           UNCHANGED << orders, nextId, task, cur, chain, events, origin, held, sent,
                        asked, dropped, delayed >>
    PROVE  RoutesInv' /\ CurInv' /\ TalkInv' /\ AnswerInv'
  <1>1. RoutesInv'
    BY DEF RoutesInv, Sound, Owned
  <1>2. CurInv'
    BY DEF CurInv, About, Untouched, Replacing
  <1>3. ASSUME NEW x \in OrderIds
        PROVE  /\ Known(x)' = Known(x) /\ Stated(x)' = Stated(x)
               /\ Ascending(x)' = Ascending(x) /\ EndedInv(x)' = EndedInv(x)
    <2>1. Known(x)' = Known(x)
      BY DEF Known, About, Current, States, CurrentName, Last
    <2>2. Stated(x)' = Stated(x)
      BY DEF Stated, Fill
    <2>3. Ascending(x)' = Ascending(x)
      BY DEF Ascending, Fill
    <2>4. EndedInv(x)' = EndedInv(x)
      BY DEF EndedInv, SaidSent, SaidHeld, SaidDue, Final, Closes
    <2> QED
      BY <2>1, <2>2, <2>3, <2>4
  <1>4. TalkInv'
    BY <1>3 DEF TalkInv
  <1>5. ASSUME NEW c \in Clients, NEW name \in asked'[c]
        PROVE  (\E r \in Everything(c)' : r.name = name) \/ Awaited(c, name)'
    <2>1. Everything(c)' = Everything(c)
      BY DEF Everything, ReportsOf
    <2>2. Awaited(c, name)' = Awaited(c, name)
      BY DEF Awaited, SessionFor, Render, CurrentName, Last
    <2> QED
      BY <1>5, <2>1, <2>2 DEF AnswerInv
  <1>6. AnswerInv'
    BY <1>5 DEF AnswerInv
  <1> QED
    BY <1>1, <1>2, <1>4, <1>6

\* A request that is refused is answered, and says nothing of any order.
LEMMA RefusalKeeps ==
    ASSUME EntryTypeOK, RoutesInv, TalkInv, AnswerInv, NEW key, NEW name,
           Request(key, name), NEW event, Answer(event), Sound(event),
           event.name = name, name # NoKey,
           event.kind = "CANCEL_REJECTED" \/ event.order = NoOrder,
           event.owner = key \/ event.owner = NoKey,
           UNCHANGED << held, sent, dropped, delayed >>
    PROVE  RoutesInv' /\ CurInv' /\ TalkInv' /\ AnswerInv'
  <1>1. /\ events = << >> /\ task = "idle" /\ events' = << event >>
        /\ UNCHANGED << orders, nextId, task, cur, chain >>
    BY DEF Request, Ready, Answer, vars, bookVars, taskVars, registryVars
  <1>2. \A i \in 1..Len(events') : events'[i] = event
    BY <1>1
  <1>3. 1 \in 1..Len(events') /\ events'[1] = event
    BY <1>1
  <1>4. \A x \in OrderIds : x # NoOrder
    BY MaxOrdersAssumption DEF OrderIds, NoOrder
  <1>5. \A x \in OrderIds : ~About(event, x)
    BY <1>4 DEF About
  <1>6. event.kind \in {"REJECTED", "CANCEL_REJECTED"}
    BY DEF Sound
  <1>7. \A x \in OrderIds : ~Fill(event, x) /\ ~Closes(event, x)
    BY <1>4, <1>6 DEF Fill, Closes
  <1>8. Len(events) = 0 /\ ~(task' = "match")
    BY <1>1
  <1>9. RoutesInv'
    BY <1>1, <1>2 DEF RoutesInv, Sound, Owned
  <1>10. CurInv'
    BY <1>8 DEF CurInv
  <1>11. ASSUME NEW x \in OrderIds
         PROVE  /\ Known(x) => Known(x)'
                /\ Stated(x) => Stated(x)'
                /\ Ascending(x) => Ascending(x)'
                /\ EndedInv(x) => EndedInv(x)'
    <2>0. \A i \in 1..Len(events) : FALSE
      BY <1>8
    <2>1. Known(x) => Known(x)'
      <3>1. ~\E i \in 1..Len(events') : About(events'[i], x)
        BY <1>2, <1>5
      <3> QED
        BY <1>1, <2>0, <3>1 DEF Known, About, States, CurrentName, Last
    <2>2. Stated(x) => Stated(x)'
      BY <1>1, <2>0 DEF Stated, Fill
    <2>3. Ascending(x) => Ascending(x)'
      <3>1. \A i \in 1..Len(events') : ~Fill(events'[i], x)
        BY <1>2, <1>7
      <3> QED
        BY <1>1, <3>1 DEF Ascending, Fill
    <2>4. EndedInv(x) => EndedInv(x)'
      <3>1. \A i \in 1..Len(events') : ~Closes(events'[i], x)
        BY <1>2, <1>7
      <3>2. /\ \A r : Final(r, x)' <=> Final(r, x)
            /\ \A e : Closes(e, x)' <=> Closes(e, x)
        BY DEF Final, Closes
      <3>3. ~SaidDue(x)'
        BY <3>1, <3>2 DEF SaidDue, Closes
      <3>4. (SaidSent(x)' <=> SaidSent(x)) /\ (SaidHeld(x)' <=> SaidHeld(x))
        BY <1>1 DEF SaidSent, SaidHeld, Final
      <3> QED
        BY <1>1, <3>1, <3>2, <3>3, <3>4 DEF EndedInv
    <2> QED
      BY <2>1, <2>2, <2>3, <2>4
  <1>12. TalkInv'
    BY <1>1, <1>11 DEF TalkInv
  <1>13. ASSUME NEW c \in Clients, NEW other \in asked'[c]
         PROVE  (\E r \in Everything(c)' : r.name = other) \/ Awaited(c, other)'
    <2>1. Everything(c)' = Everything(c)
      BY DEF Everything, ReportsOf
    <2>2. CASE other \in asked[c]
      BY <1>1, <1>8, <2>1, <2>2 DEF AnswerInv, Awaited
    <2>3. CASE c = key /\ other = name
      <3>1. origin' = key /\ NoKey \notin Clients
        BY <2>3, ClientsAssumption DEF Request
      <3>2. SessionFor(event)' = c
        BY <2>3, <3>1 DEF SessionFor
      <3>3. Render(event)'.name = other
        BY <2>3 DEF Render
      <3>4. PICK e : e = events'[1]
        OBVIOUS
      <3>5. e = event
        BY <1>3, <3>4
      <3>6. SessionFor(e)' = c /\ Render(e)'.name = other
        BY <3>2, <3>3, <3>5
      <3> QED
        BY <1>3, <3>4, <3>6 DEF Awaited, SessionFor, Render
    <2> QED
      BY <1>13, <2>2, <2>3, AskedBy
  <1>14. AnswerInv'
    BY <1>13 DEF AnswerInv
  <1> QED
    BY <1>9, <1>10, <1>12, <1>14

----------------------------------------------------------------------------
(* Emission: the first event leaves the queue, and its report may be sent *)

\* t is s with one more element.
Grown(s, t, r) ==
    /\ Len(s) \in Nat /\ Len(t) = Len(s) + 1 /\ t[Len(s) + 1] = r
    /\ \A i \in 1..Len(s) : t[i] = s[i]

\* The first event is gone.
Shifted ==
    /\ Len(events) \in Nat /\ Len(events) >= 1 /\ Len(events') = Len(events) - 1
    /\ \A i \in 1..Len(events') : i + 1 \in 1..Len(events) /\ events'[i] = events[i + 1]
    /\ \A i \in 1..Len(events) :
          i = 1 \/ (i - 1 \in 1..Len(events') /\ events'[i - 1] = events[i])

\* The elements of a sequence that has grown.
LEMMA GrownFacts ==
    ASSUME NEW s, NEW t, NEW r, Grown(s, t, r)
    PROVE  /\ Len(s) \in Nat /\ Len(s) + 1 \in 1..Len(t) /\ t[Len(s) + 1] = r
           /\ \A i \in 1..Len(s) : i \in 1..Len(t) /\ t[i] = s[i] /\ i < Len(s) + 1
           /\ \A i \in 1..Len(t) : \/ i \in 1..Len(s) /\ t[i] = s[i]
                                   \/ i = Len(s) + 1 /\ t[i] = r
  <1>1. Len(s) \in Nat /\ Len(t) = Len(s) + 1 /\ t[Len(s) + 1] = r
        /\ \A i \in 1..Len(s) : t[i] = s[i]
    BY DEF Grown
  <1>2. PICK n \in Nat : n = Len(s)
    BY <1>1
  <1>3. 1..Len(t) = 1..(n + 1)
    BY <1>1, <1>2
  <1>4. \A i \in 1..(n + 1) : i \in 1..n \/ i = n + 1
    BY <1>2
  <1>5. \A i \in 1..n : i \in 1..(n + 1) /\ i < n + 1
    BY <1>2
  <1> QED
    BY <1>1, <1>2, <1>3, <1>4, <1>5

\* A sequence grows by an element at its end.
LEMMA AppendGrows ==
    ASSUME NEW S, NEW s \in Seq(S), NEW r \in S
    PROVE  Grown(s, Append(s, r), r)
  BY DEF Grown

\* Without its first element, a sequence starts at the next.
LEMMA TailShifts ==
    ASSUME events \in Seq(EventType), events # << >>, events' = Tail(events)
    PROVE  Shifted /\ events[1] = Head(events) /\ events[1] \in EventType
           /\ events' \in Seq(EventType)
  <1>1. /\ Tail(events) \in Seq(EventType) /\ Len(events) \in Nat /\ Len(events) >= 1
        /\ Len(Tail(events)) = Len(events) - 1 /\ Head(events) = events[1]
        /\ events[1] \in EventType
        /\ \A i \in 1..(Len(events) - 1) : Tail(events)[i] = events[i + 1]
    <2>1. events \in Seq(EventType) /\ events # << >>
      OBVIOUS
    <2> QED
      BY <2>1, TailFacts
  <1>2. PICK n \in Nat : n = Len(events) /\ n >= 1
    BY <1>1
  <1>3. \A i \in 1..(n - 1) : i + 1 \in 1..n
    BY <1>2
  <1>4. \A i \in 1..n : i = 1 \/ (i - 1 \in 1..(n - 1) /\ (i - 1) + 1 = i)
    BY <1>2
  <1> QED
    BY <1>1, <1>2, <1>3, <1>4 DEF Shifted

\* What was last said of an order stays true when a report of the first event is
\* sent to its owner.
LEMMA EmitKnown ==
    ASSUME Shifted, NEW e, e = events[1], NEW report, NEW x \in OrderIds,
           NEW c \in Clients, c = orders[x].session, task = "idle",
           UNCHANGED << orders, chain, task >>, Known(x),
           About(report, x) <=> About(e, x),
           About(e, x) /\ Current(e, orders[x]) => States(report, x),
           \/ sent'[c] = sent[c] /\ ~About(e, x)
           \/ Grown(sent[c], sent'[c], report)
    PROVE  Known(x)'
  <1>0. ~(task = "match")
    OBVIOUS
  <1>1. \A r : States(r, x) => States(r, x)'
    BY DEF States, CurrentName, Last
  <1>2. PICK s : s = sent[c]
    OBVIOUS
  <1>3. PICK t : t = sent'[c]
    OBVIOUS
  <1>4. CASE \E i \in 1..Len(events') : About(events'[i], x)
    <2>1. PICK k \in 1..Len(events') : About(events'[k], x)
      BY <1>4
    <2>2. k + 1 \in 1..Len(events) /\ About(events[k + 1], x)
      BY <2>1 DEF Shifted
    <2>3. PICK i \in 1..Len(events) :
             /\ About(events[i], x) /\ Current(events[i], orders[x])
             /\ \A j \in 1..Len(events) : About(events[j], x) => j <= i
      BY <2>2 DEF Known
    <2>4. k + 1 <= i /\ i \in Nat /\ k \in Nat /\ k >= 1
      BY <2>2, <2>3 DEF Shifted
    <2>5. i - 1 \in 1..Len(events') /\ events'[i - 1] = events[i]
      BY <2>3, <2>4 DEF Shifted
    <2>6. ASSUME NEW j \in 1..Len(events'), About(events'[j], x) PROVE j <= i - 1
      <3>1. j + 1 \in 1..Len(events) /\ About(events[j + 1], x)
        BY <2>6 DEF Shifted
      <3>2. j + 1 <= i /\ j \in Nat
        BY <2>3, <3>1
      <3> QED
        BY <2>4, <3>2
    <2>7. About(events'[i - 1], x) /\ Current(events'[i - 1], orders'[x])
      BY <2>3, <2>5
    <2>8. PICK m \in 1..Len(events') : m = i - 1
      BY <2>5
    <2> QED
      BY <2>6, <2>7, <2>8 DEF Known
  <1>5. CASE ~\E i \in 1..Len(events') : About(events'[i], x)
    <2>0. \A i \in 1..Len(events) : About(events[i], x) => i = 1
      BY <1>5 DEF Shifted
    <2>1. \E i \in 1..Len(t) : /\ About(t[i], x) /\ States(t[i], x)
                               /\ \A j \in 1..Len(t) : About(t[j], x) => j <= i
      <3>1. CASE About(e, x)
        <4>1. Grown(s, t, report)
          BY <1>2, <1>3, <3>1
        <4>2. 1 \in 1..Len(events)
          BY DEF Shifted
        <4>3. Current(e, orders[x])
          BY <2>0, <3>1, <4>2 DEF Known
        <4>4. About(report, x) /\ States(report, x)
          BY <3>1, <4>3
        <4>5. PICK n \in Nat : n = Len(s) + 1
          BY <4>1 DEF Grown
        <4>6. n \in 1..Len(t) /\ t[n] = report
          BY <4>1, <4>5, GrownFacts
        <4>7. \A j \in 1..Len(t) : j <= n
          BY <4>1, <4>5 DEF Grown
        <4> QED
          BY <4>4, <4>6, <4>7
      <3>2. CASE ~About(e, x)
        <4>1. ~\E i \in 1..Len(events) : About(events[i], x)
          BY <2>0, <3>2
        <4>2. PICK i \in 1..Len(s) :
                 /\ About(s[i], x) /\ States(s[i], x)
                 /\ \A j \in 1..Len(s) : About(s[j], x) => j <= i
          BY <1>0, <1>2, <4>1 DEF Known
        <4>3. CASE t = s
          BY <4>2, <4>3
        <4>4. CASE Grown(s, t, report)
          <5>1. i \in 1..Len(t) /\ t[i] = s[i]
            BY <4>4, GrownFacts
          <5>2. \A j \in 1..Len(t) : About(t[j], x) => j <= i
            BY <3>2, <4>2, <4>4, GrownFacts
          <5> QED
            BY <4>2, <5>1, <5>2
        <4> QED
          BY <1>2, <1>3, <4>3, <4>4
      <3> QED
        BY <3>1, <3>2
    <2>2. \E i \in 1..Len(t) : /\ About(t[i], x) /\ States(t[i], x)'
                               /\ \A j \in 1..Len(t) : About(t[j], x) => j <= i
      BY <1>1, <2>1
    <2> QED
      BY <1>3, <1>5, <2>2 DEF Known, States, CurrentName, Last
  <1> QED
    BY <1>4, <1>5

\* So does what was said of its total, and the totals go on ascending.
LEMMA EmitStated ==
    ASSUME Shifted, NEW e, e = events[1], NEW report, NEW x \in OrderIds,
           NEW c \in Clients, c = orders[x].session, UNCHANGED orders, Stated(x),
           Fill(report, x) <=> Fill(e, x), Fill(e, x) => report.cum = e.cum,
           \/ sent'[c] = sent[c] /\ ~Fill(e, x)
           \/ Grown(sent[c], sent'[c], report)
    PROVE  Stated(x)'
  <1>1. PICK s : s = sent[c]
    OBVIOUS
  <1>2. PICK t : t = sent'[c]
    OBVIOUS
  <1>3. t = s \/ Grown(s, t, report)
    BY <1>1, <1>2
  <1>4. CASE orders[x].cum = 0
    BY <1>4 DEF Stated
  <1>5. CASE \E i \in 1..Len(s) : Fill(s[i], x) /\ s[i].cum = orders[x].cum
    <2>1. \E i \in 1..Len(t) : Fill(t[i], x) /\ t[i].cum = orders[x].cum
      BY <1>3, <1>5, GrownFacts
    <2> QED
      BY <1>2, <2>1 DEF Stated
  <1>6. CASE \E i \in 1..Len(events) : Fill(events[i], x) /\ events[i].cum = orders[x].cum
    <2>1. PICK i \in 1..Len(events) : Fill(events[i], x) /\ events[i].cum = orders[x].cum
      BY <1>6
    <2>2. CASE i = 1
      <3>1. Grown(s, t, report) /\ Fill(report, x) /\ report.cum = orders[x].cum
        BY <1>1, <1>2, <2>1, <2>2
      <3>2. \E k \in 1..Len(t) : t[k] = report
        BY <3>1, GrownFacts
      <3> QED
        BY <1>2, <3>1, <3>2 DEF Stated
    <2>3. CASE i # 1
      <3>1. i - 1 \in 1..Len(events') /\ events'[i - 1] = events[i]
        BY <2>3 DEF Shifted
      <3> QED
        BY <2>1, <3>1 DEF Stated
    <2> QED
      BY <2>2, <2>3
  <1> QED
    BY <1>1, <1>4, <1>5, <1>6 DEF Stated

\* A fill that is rendered joins those already said.
LEMMA EmitAscending ==
    ASSUME Shifted, NEW e, e = events[1], NEW report, NEW x \in OrderIds,
           NEW c \in Clients, c = orders[x].session, UNCHANGED orders, Ascending(x),
           Fill(report, x) <=> Fill(e, x), Fill(e, x) => report.cum = e.cum,
           sent'[c] = sent[c] \/ Grown(sent[c], sent'[c], report)
    PROVE  Ascending(x)'
  <1>1. PICK s : s = sent[c]
    OBVIOUS
  <1>2. PICK t : t = sent'[c]
    OBVIOUS
  <1>3. t = s \/ Grown(s, t, report)
    BY <1>1, <1>2
  <1>4. PICK total : total = orders[x].cum
    OBVIOUS
  <1>5. \A i \in 1..Len(s) : Fill(s[i], x) =>
           /\ 0 < s[i].cum /\ s[i].cum <= total
           /\ \A j \in 1..Len(s) : i < j /\ Fill(s[j], x) => s[i].cum < s[j].cum
           /\ \A j \in 1..Len(events) : Fill(events[j], x) => s[i].cum < events[j].cum
    BY <1>1, <1>4 DEF Ascending
  <1>6. \A i \in 1..Len(events) : Fill(events[i], x) =>
           /\ 0 < events[i].cum /\ events[i].cum <= total
           /\ \A j \in 1..Len(events) : i < j /\ Fill(events[j], x) =>
                 events[i].cum < events[j].cum
    BY <1>4 DEF Ascending
  <1>7. ASSUME NEW i \in 1..Len(events'), Fill(events'[i], x)
        PROVE  /\ 0 < events'[i].cum /\ events'[i].cum <= total
               /\ \A j \in 1..Len(events') : i < j /\ Fill(events'[j], x) =>
                     events'[i].cum < events'[j].cum
    <2>1. /\ i + 1 \in 1..Len(events) /\ events'[i] = events[i + 1]
          /\ \A j \in 1..Len(events') :
                /\ j + 1 \in 1..Len(events) /\ events'[j] = events[j + 1]
                /\ i < j => i + 1 < j + 1
      BY DEF Shifted
    <2> QED
      BY <1>6, <1>7, <2>1
  <1>8. ASSUME NEW i \in 1..Len(t), Fill(t[i], x)
        PROVE  /\ 0 < t[i].cum /\ t[i].cum <= total
               /\ \A j \in 1..Len(t) : i < j /\ Fill(t[j], x) => t[i].cum < t[j].cum
               /\ \A j \in 1..Len(events') : Fill(events'[j], x) => t[i].cum < events'[j].cum
    <2>1. \A j \in 1..Len(events') :
             /\ j + 1 \in 1..Len(events) /\ events'[j] = events[j + 1] /\ 1 < j + 1
      BY DEF Shifted
    <2>2. 1 \in 1..Len(events)
      BY DEF Shifted
    <2>3. CASE t = s
      BY <1>5, <1>8, <2>1, <2>3
    <2>4. CASE Grown(s, t, report) /\ i \in 1..Len(s) /\ t[i] = s[i]
      <3>1. ASSUME NEW j \in 1..Len(t), i < j, Fill(t[j], x) PROVE t[i].cum < t[j].cum
        <4>1. CASE j \in 1..Len(s) /\ t[j] = s[j]
          BY <1>5, <1>8, <2>4, <3>1, <4>1
        <4>2. CASE t[j] = report
          <5>1. Fill(e, x) /\ report.cum = e.cum
            BY <3>1, <4>2
          <5>2. s[i].cum < e.cum
            BY <1>5, <1>8, <2>2, <2>4, <5>1
          <5> QED
            BY <2>4, <4>2, <5>1, <5>2
        <4> QED
          BY <2>4, <4>1, <4>2, GrownFacts
      <3> QED
        BY <1>5, <1>8, <2>1, <2>4, <3>1
    <2>5. CASE Grown(s, t, report) /\ i = Len(s) + 1 /\ t[i] = report
      <3>1. Fill(e, x) /\ t[i].cum = e.cum
        BY <1>8, <2>5
      <3>2. \A j \in 1..Len(t) : ~(i < j)
        BY <2>5 DEF Grown
      <3>3. /\ 0 < e.cum /\ e.cum <= total
            /\ \A j \in 1..Len(events) : 1 < j /\ Fill(events[j], x) => e.cum < events[j].cum
        BY <1>6, <2>2, <3>1
      <3> QED
        BY <2>1, <3>1, <3>2, <3>3
    <2> QED
      BY <1>3, <2>3, <2>4, <2>5, GrownFacts
  <1> QED
    BY <1>2, <1>4, <1>7, <1>8 DEF Ascending, Fill

\* The end of an order that was about to be said is sent, waits, or is not said.
LEMMA EmitEnded ==
    ASSUME Shifted, NEW e, e = events[1], NEW report, NEW x \in OrderIds,
           NEW c \in Clients, c = orders[x].session, UNCHANGED orders, EndedInv(x),
           Final(report, x) <=> Closes(e, x),
           \/ sent'[c] = sent[c] /\ held' = held
           \/ Grown(sent[c], sent'[c], report) /\ held' = held
           \/ /\ sent'[c] = sent[c]
              /\ \E h : h.report = report /\ Grown(held, held', h)
    PROVE  EndedInv(x)'
  <1>1. PICK s : s = sent[c]
    OBVIOUS
  <1>2. PICK t : t = sent'[c]
    OBVIOUS
  <1>3. PICK g : g = held'
    OBVIOUS
  <1> DEFINE InS == \E i \in 1..Len(s) : Final(s[i], x)
             InT == \E i \in 1..Len(t) : Final(t[i], x)
             InH == \E i \in 1..Len(held) : Final(held[i].report, x)
             InG == \E i \in 1..Len(g) : Final(g[i].report, x)
             Due == \E i \in 1..Len(events) : Closes(events[i], x)
             Left == \E i \in 1..Len(events') : Closes(events'[i], x)
  <1>4. /\ \A i, j \in 1..Len(s) : Final(s[i], x) /\ Final(s[j], x) => i = j
        /\ \A i, j \in 1..Len(held) :
              Final(held[i].report, x) /\ Final(held[j].report, x) => i = j
        /\ \A i, j \in 1..Len(events) :
              Closes(events[i], x) /\ Closes(events[j], x) => i = j
        /\ ~(InS /\ InH) /\ ~(InS /\ Due) /\ ~(InH /\ Due)
        /\ InS \/ InH \/ Due => orders[x].status \in TERMINAL
    BY <1>1 DEF EndedInv, SaidSent, SaidHeld, SaidDue
  <1>5. \/ t = s /\ g = held
        \/ Grown(s, t, report) /\ g = held
        \/ t = s /\ \E h : h.report = report /\ Grown(held, g, h)
    BY <1>1, <1>2, <1>3
  <1>6. 1 \in 1..Len(events) /\ events[1] = e
    BY DEF Shifted
  \* What is left of the queue.
  <1>7. /\ Left => Due
        /\ Left => ~Closes(e, x)
        /\ \A i, j \in 1..Len(events') :
              Closes(events'[i], x) /\ Closes(events'[j], x) => i = j
    <2>1. \A i \in 1..Len(events') :
             i + 1 \in 1..Len(events) /\ events'[i] = events[i + 1] /\ i + 1 # 1 /\ i \in Int
      BY DEF Shifted
    <2>2. Left => Due
      BY <2>1
    <2>3. Left => ~Closes(e, x)
      BY <1>4, <1>6, <2>1
    <2>4. ASSUME NEW i \in 1..Len(events'), NEW j \in 1..Len(events'),
                 Closes(events'[i], x), Closes(events'[j], x)
          PROVE  i = j
      <3>1. i + 1 = j + 1
        BY <1>4, <2>1, <2>4
      <3> QED
        BY <2>1, <3>1
    <2> QED
      BY <2>2, <2>3, <2>4
  <1>8. Closes(e, x) => Due
    BY <1>6
  \* Where the report went, if anywhere.
  <1>9. /\ InT => InS \/ (Closes(e, x) /\ g = held)
        /\ InG => InH \/ (Closes(e, x) /\ t = s)
        /\ \A i, j \in 1..Len(t) : Final(t[i], x) /\ Final(t[j], x) => i = j
        /\ \A i, j \in 1..Len(g) : Final(g[i].report, x) /\ Final(g[j].report, x) => i = j
    <2>1. CASE t = s /\ g = held
      BY <1>4, <2>1
    <2>2. CASE Grown(s, t, report) /\ g = held
      <3>1. \A i \in 1..Len(t) : Final(t[i], x) =>
               \/ i \in 1..Len(s) /\ Final(s[i], x)
               \/ i = Len(s) + 1 /\ Closes(e, x)
        BY <2>2, GrownFacts
      <3>2. Closes(e, x) => ~InS
        BY <1>4, <1>8
      <3>3. InT => InS \/ Closes(e, x)
        BY <3>1
      <3>4. \A i, j \in 1..Len(t) : Final(t[i], x) /\ Final(t[j], x) => i = j
        BY <1>4, <3>1, <3>2
      <3> QED
        BY <1>4, <2>2, <3>3, <3>4
    <2>3. CASE t = s /\ \E h : h.report = report /\ Grown(held, g, h)
      <3>0. PICK h : h.report = report /\ Grown(held, g, h)
        BY <2>3
      <3>1. \A i \in 1..Len(g) : Final(g[i].report, x) =>
               \/ i \in 1..Len(held) /\ Final(held[i].report, x)
               \/ i = Len(held) + 1 /\ Closes(e, x)
        BY <3>0, GrownFacts
      <3>2. Closes(e, x) => ~InH
        BY <1>4, <1>8
      <3>3. InG => InH \/ Closes(e, x)
        BY <3>1
      <3>4. \A i, j \in 1..Len(g) : Final(g[i].report, x) /\ Final(g[j].report, x) => i = j
        BY <1>4, <3>1, <3>2
      <3> QED
        BY <1>4, <2>3, <3>3, <3>4
    <2> QED
      BY <1>5, <2>1, <2>2, <2>3
  <1>10. /\ ~(InT /\ InG) /\ ~(InT /\ Left) /\ ~(InG /\ Left)
         /\ InT \/ InG \/ Left => orders[x].status \in TERMINAL
    <2> HIDE DEF InS, InT, InH, InG, Due, Left
    <2>1. /\ g = held => (InG <=> InH)
          /\ t = s => (InT <=> InS)
      BY DEF InS, InT, InH, InG
    <2> QED
      BY <1>4, <1>5, <1>7, <1>8, <1>9, <2>1
  <1>11. /\ \A r : Final(r, x)' <=> Final(r, x)
         /\ \A f : Closes(f, x)' <=> Closes(f, x)
    BY DEF Final, Closes
  <1>12. /\ SaidSent(x)' <=> InT
         /\ SaidHeld(x)' <=> InG
         /\ SaidDue(x)' <=> Left
    BY <1>2, <1>3 DEF SaidSent, SaidHeld, SaidDue, Final, Closes
  <1> HIDE DEF InS, InT, InH, InG, Due, Left
  <1> QED
    BY <1>2, <1>3, <1>7, <1>9, <1>10, <1>11, <1>12 DEF EndedInv

\* What becomes of a report: nothing, or it is dropped, it waits, or it is sent.
Routed(to, report) ==
    \/ /\ UNCHANGED << held, sent, delayed >>
       /\ \/ to = NoKey /\ dropped' = dropped
          \/ to # NoKey /\ dropped' = dropped \cup {[to |-> to, report |-> report]}
    \/ /\ to # NoKey /\ UNCHANGED << sent, dropped >> /\ delayed' = TRUE
       /\ \E h : h.to = to /\ h.report = report /\ Grown(held, held', h)
    \/ /\ to # NoKey /\ UNCHANGED << held, dropped, delayed >>
       /\ \A c \in Clients : IF c = to THEN Grown(sent[c], sent'[c], report)
                             ELSE sent'[c] = sent[c]

\* A rule that is found is one of the rules.
LEMMA FoundRule ==
    ASSUME behaviour \in Seq(Rule), NEW action, NEW owner, Find(action, owner) # 0
    PROVE  Find(action, owner) \in 1..Len(behaviour)
  <1> DEFINE n == Len(behaviour)
             F(i) == behaviour[i].action = action /\ behaviour[i].owner \in {NoKey, owner}
             I == {i \in 1..n : F(i)}
  <1>1. n \in Nat
    OBVIOUS
  <1>2. Find(action, owner) = IF I # {} THEN Min(I) ELSE 0
    BY DEF Find, SelectInSeq
  <1> HIDE DEF n, F
  <1>3. I # {} /\ Find(action, owner) = Min(I)
    BY <1>2
  <1>4. \E x \in I : \A y \in I : x <= y
    <2>1. I \subseteq Nat
      BY <1>1
    <2> HIDE DEF I
    <2> QED
      BY <1>3, <2>1, LeastNumber
  <1>5. Min(I) \in I
    BY <1>4 DEF Min
  <1> QED
    BY <1>3, <1>5 DEF n

\* One application less leaves rules.
LEMMA TakenFacts ==
    ASSUME behaviour \in Seq(Rule), NEW i \in 1..Len(behaviour)
    PROVE  Taken(i) \in Seq(Rule)
  <1>1. behaviour[i] \in Rule
    OBVIOUS
  <1>2. RemoveAt(behaviour, i) \in Seq(Rule)
    BY RemoveFacts
  <1>3. ASSUME behaviour[i].count # 0
        PROVE  [behaviour EXCEPT ![i].count = @ - 1] \in Seq(Rule)
    <2>0. PICK rule \in Rule : rule = behaviour[i]
      BY <1>1
    <2>1. [rule EXCEPT !.count = @ - 1] \in Rule
      BY <1>3, <2>0 DEF Rule
    <2> DEFINE r == [behaviour[i] EXCEPT !.count = @ - 1]
    <2>2. [behaviour EXCEPT ![i].count = @ - 1] = [behaviour EXCEPT ![i] = r]
      OBVIOUS
    <2> HIDE DEF r
    <2>3. r \in Rule
      BY <2>0, <2>1 DEF r
    <2>4. [behaviour EXCEPT ![i] = r] \in Seq(Rule)
      BY <2>3
    <2> QED
      BY <2>2, <2>4
  <1> QED
    BY <1>2, <1>3 DEF Taken

\* What a report of the first event is, and where it goes.
LEMMA EmitFacts ==
    ASSUME IInv, RegistryInv, EntryTypeOK, RoutesInv, Emit
    PROVE  \E e, to, report :
             /\ Shifted /\ events' \in Seq(EventType)
             /\ e = events[1] /\ e \in EventType /\ Sound(e)
             /\ to = SessionFor(e) /\ to \in Clients \cup {NoKey}
             /\ report = Render(e) /\ report \in ReportType
             /\ Routed(to, report) /\ behaviour' \in Seq(Rule)
             /\ held' \in Seq([to : Clients, report : ReportType, delay : Nat])
             /\ sent' \in [Clients -> Seq(ReportType)]
             /\ UNCHANGED << vars, registryVars, origin, ruled, asked, requests >>
  <1>1. /\ events \in Seq(EventType) /\ events # << >> /\ behaviour \in Seq(Rule)
        /\ held \in Seq([to : Clients, report : ReportType, delay : Nat])
        /\ sent \in [Clients -> Seq(ReportType)]
        /\ origin \in Clients \cup {NoKey}
    BY DEF Emit, EntryTypeOK
  <1>2. PICK e : e = events[1]
    OBVIOUS
  <1>3. PICK to : to = SessionFor(e)
    OBVIOUS
  <1>4. PICK report : report = Render(e)
    OBVIOUS
  <1>5. /\ Shifted /\ e = Head(events) /\ e \in EventType /\ events' \in Seq(EventType)
    BY <1>1, <1>2, TailShifts DEF Emit, EmitAs
  <1>6. Sound(e)
    <2>1. 1 \in 1..Len(events)
      BY <1>5 DEF Shifted
    <2> QED
      BY <1>2, <2>1 DEF RoutesInv
  <1>7. report \in ReportType
    BY <1>4, <1>5, <1>6, RenderFacts
  <1>8. to \in Clients \cup {NoKey}
    BY <1>1, <1>3 DEF SessionFor
  <1>9. /\ EmitNowhere(e) \/ EmitDropped(e, report) \/ EmitDelayed(e, report)
           \/ EmitSent(e, report)
        /\ UNCHANGED << vars, registryVars, origin, ruled, asked, requests >>
    BY <1>4, <1>5 DEF Emit, EmitAs
  <1>10. ASSUME NEW action, Ruled(action, e) # 0
         PROVE  /\ Ruled(action, e) \in 1..Len(behaviour)
                /\ Taken(Ruled(action, e)) \in Seq(Rule)
                /\ behaviour[Ruled(action, e)].delay \in Nat
    <2>1. Ruled(action, e) \in 1..Len(behaviour)
      BY <1>1, <1>10, FoundRule DEF Ruled
    <2>2. behaviour[Ruled(action, e)] \in Rule
      BY <1>1, <2>1
    <2> QED
      BY <1>1, <2>1, <2>2, TakenFacts DEF Rule
  <1> DEFINE H == [to : Clients, report : ReportType, delay : Nat]
             Goal == /\ Routed(to, report) /\ behaviour' \in Seq(Rule)
                     /\ held' \in Seq(H) /\ sent' \in [Clients -> Seq(ReportType)]
  <1>11. ASSUME EmitNowhere(e) PROVE Goal
    BY <1>1, <1>3, <1>11 DEF EmitNowhere, Routed
  <1>12. ASSUME EmitDropped(e, report) PROVE Goal
    <2>1. behaviour' \in Seq(Rule)
      BY <1>10, <1>12 DEF EmitDropped
    <2> QED
      BY <1>1, <1>3, <1>12, <2>1 DEF EmitDropped, Routed
  <1>13. ASSUME EmitDelayed(e, report) PROVE Goal
    <2>1. behaviour' \in Seq(Rule) /\ behaviour[Ruled("delay", e)].delay \in Nat
      BY <1>10, <1>13 DEF EmitDelayed
    <2>2. PICK h : h = [to |-> to, report |-> report,
                        delay |-> behaviour[Ruled("delay", e)].delay]
      OBVIOUS
    <2>3. /\ to # NoKey /\ held' = Append(held, h) /\ delayed' = TRUE
          /\ sent' = sent /\ dropped' = dropped
      BY <1>3, <1>13, <2>2 DEF EmitDelayed
    <2>4. h \in H
      BY <1>7, <1>8, <2>1, <2>2, <2>3
    <2>5. h.to = to /\ h.report = report
      BY <2>2
    <2> HIDE DEF H
    <2>6. held \in Seq(H)
      BY <1>1 DEF H
    <2>7. Grown(held, Append(held, h), h) /\ Append(held, h) \in Seq(H)
      BY <2>4, <2>6, AppendGrows
    <2>8. Routed(to, report)
      BY <2>3, <2>5, <2>7 DEF Routed
    <2> QED
      BY <1>1, <2>1, <2>3, <2>7, <2>8
  <1>14. ASSUME EmitSent(e, report) PROVE Goal
    <2>1. /\ to # NoKey /\ to \in Clients
          /\ sent' = [sent EXCEPT ![to] = Append(sent[to], report)]
          /\ UNCHANGED << behaviour, held, dropped, delayed >>
      BY <1>3, <1>8, <1>14 DEF EmitSent, Send
    <2>2. sent[to] \in Seq(ReportType)
      BY <1>1, <2>1
    <2>3. Grown(sent[to], Append(sent[to], report), report)
      BY <1>7, <2>2, AppendGrows
    <2>4. Append(sent[to], report) \in Seq(ReportType)
      BY <1>7, <2>2
    <2>5. \A c \in Clients : sent'[c] = IF c = to THEN Append(sent[to], report) ELSE sent[c]
      BY <1>1, <2>1
    <2>6. \A c \in Clients : IF c = to THEN Grown(sent[c], sent'[c], report)
                             ELSE sent'[c] = sent[c]
      BY <2>3, <2>5
    <2>7. sent' \in [Clients -> Seq(ReportType)]
      BY <1>1, <2>1, <2>4
    <2>8. Routed(to, report)
      BY <2>1, <2>6 DEF Routed
    <2> QED
      BY <1>1, <2>1, <2>7, <2>8
  <1>15. Goal
    BY <1>9, <1>11, <1>12, <1>13, <1>14
  <1> QED
    BY <1>2, <1>3, <1>4, <1>5, <1>6, <1>7, <1>8, <1>9, <1>15

\* A report goes to the owner of its order.
LEMMA ToTheOwner ==
    ASSUME NEW e, Sound(e), NEW x \in OrderIds, e.order = x, MaxOrders \in Nat,
           orders[x].session \in Clients
    PROVE  SessionFor(e) = orders[x].session /\ SessionFor(e) # NoKey
  <1>1. x # NoOrder
    BY DEF OrderIds, NoOrder
  <1> QED
    BY <1>1, ClientsAssumption DEF Sound, SessionFor

\* What a client was sent, or will be, stays, and what is rendered joins it.
LEMMA RoutedKeeps ==
    ASSUME EntryTypeOK, sent' \in [Clients -> Seq(ReportType)],
           held' \in Seq([to : Clients, report : ReportType, delay : Nat]),
           NEW to, NEW report, Routed(to, report), NEW c \in Clients
    PROVE  /\ \A r \in Everything(c) : r \in Everything(c)'
           /\ to = c => report \in Everything(c)'
  <1> DEFINE H == [to : Clients, report : ReportType, delay : Nat]
  <1>1. /\ sent[c] \in Seq(ReportType) /\ sent'[c] \in Seq(ReportType)
        /\ held \in Seq(H) /\ held' \in Seq(H)
    BY DEF EntryTypeOK
  <1>0. c # NoKey
    BY ClientsAssumption
  <1> HIDE DEF H
  <1> DEFINE Sent(r) == \E i \in 1..Len(sent[c]) : sent[c][i] = r
             Held(r) == \E i \in 1..Len(held) : held[i].to = c /\ held[i].report = r
             Lost(r) == \E x \in dropped : x.to = c /\ x.report = r
             NowSent(r) == \E i \in 1..Len(sent'[c]) : sent'[c][i] = r
             NowHeld(r) == \E i \in 1..Len(held') : held'[i].to = c /\ held'[i].report = r
             NowLost(r) == \E x \in dropped' : x.to = c /\ x.report = r
  <1>2. ASSUME NEW r PROVE r \in Everything(c) <=> Sent(r) \/ Held(r) \/ Lost(r)
    <2>1. DOMAIN sent[c] = 1..Len(sent[c]) /\ DOMAIN held = 1..Len(held)
      BY <1>1
    <2>2. r \in ReportsOf(c) <=> Sent(r)
      BY <2>1 DEF ReportsOf, Range
    <2>3. r \in {h.report : h \in {x \in Range(held) : x.to = c}} <=> Held(r)
      BY <2>1 DEF Range
    <2>4. r \in {d.report : d \in {x \in dropped : x.to = c}} <=> Lost(r)
      OBVIOUS
    <2> HIDE DEF Sent, Held, Lost
    <2> QED
      BY <2>2, <2>3, <2>4 DEF Everything
  <1>3. ASSUME NEW r PROVE r \in Everything(c)' <=> NowSent(r) \/ NowHeld(r) \/ NowLost(r)
    <2>1. DOMAIN sent'[c] = 1..Len(sent'[c]) /\ DOMAIN held' = 1..Len(held')
      BY <1>1
    <2>2. r \in ReportsOf(c)' <=> NowSent(r)
      BY <2>1 DEF ReportsOf, Range
    <2>3. r \in {h.report : h \in {x \in Range(held') : x.to = c}} <=> NowHeld(r)
      BY <2>1 DEF Range
    <2>4. r \in {d.report : d \in {x \in dropped' : x.to = c}} <=> NowLost(r)
      OBVIOUS
    <2> HIDE DEF NowSent, NowHeld, NowLost
    <2> QED
      BY <2>2, <2>3, <2>4 DEF Everything
  <1>4. CASE /\ UNCHANGED << held, sent >>
             /\ \/ to = NoKey /\ dropped' = dropped
                \/ to # NoKey /\ dropped' = dropped \cup {[to |-> to, report |-> report]}
    <2>1. \A r : Sent(r) => NowSent(r)
      BY <1>4
    <2>2. \A r : Held(r) => NowHeld(r)
      BY <1>4
    <2>3. \A r : Lost(r) => NowLost(r)
      BY <1>4
    <2>4. to = c => NowLost(report)
      <3>1. PICK lost : lost = [to |-> to, report |-> report]
        OBVIOUS
      <3>2. lost.to = to /\ lost.report = report
        BY <3>1
      <3> QED
        BY <1>0, <1>4, <3>1, <3>2
    <2> HIDE DEF Sent, Held, Lost, NowSent, NowHeld, NowLost
    <2> QED
      BY <1>2, <1>3, <2>1, <2>2, <2>3, <2>4
  <1>5. ASSUME UNCHANGED << sent, dropped >>, NEW h, h.to = to, h.report = report,
               Grown(held, held', h)
        PROVE  /\ \A r \in Everything(c) : r \in Everything(c)'
               /\ to = c => report \in Everything(c)'
    <2>1. \A r : Sent(r) => NowSent(r)
      BY <1>5
    <2>2. ASSUME NEW r, Held(r) PROVE NowHeld(r)
      <3>1. PICK i \in 1..Len(held) : held[i].to = c /\ held[i].report = r
        BY <2>2
      <3>2. i \in 1..Len(held') /\ held'[i] = held[i]
        BY <1>5, GrownFacts
      <3> QED
        BY <3>1, <3>2
    <2>3. \A r : Lost(r) => NowLost(r)
      BY <1>5
    <2>4. to = c => NowHeld(report)
      BY <1>5, GrownFacts
    <2> HIDE DEF Sent, Held, Lost, NowSent, NowHeld, NowLost
    <2> QED
      BY <1>2, <1>3, <2>1, <2>2, <2>3, <2>4
  <1>6. CASE /\ UNCHANGED << held, dropped >>
             /\ IF c = to THEN Grown(sent[c], sent'[c], report) ELSE sent'[c] = sent[c]
    <2>1. \A r : Sent(r) => NowSent(r)
      BY <1>6, GrownFacts
    <2>2. \A r : Held(r) => NowHeld(r)
      BY <1>6
    <2>3. \A r : Lost(r) => NowLost(r)
      BY <1>6
    <2>4. to = c => NowSent(report)
      BY <1>6, GrownFacts
    <2> HIDE DEF Sent, Held, Lost, NowSent, NowHeld, NowLost
    <2> QED
      BY <1>2, <1>3, <2>1, <2>2, <2>3, <2>4
  <1> QED
    BY <1>4, <1>5, <1>6 DEF Routed

\* A report of the first event keeps what was said true.
LEMMA EmissionKeeps ==
    ASSUME IInv, RegistryInv, EntryTypeOK, RoutesInv, TalkInv, AnswerInv, Emit
    PROVE  RoutesInv' /\ CurInv' /\ TalkInv' /\ AnswerInv'
  <1>1. PICK e, to, report :
           /\ Shifted /\ events' \in Seq(EventType)
           /\ e = events[1] /\ e \in EventType /\ Sound(e)
           /\ to = SessionFor(e) /\ to \in Clients \cup {NoKey}
           /\ report = Render(e) /\ report \in ReportType
           /\ Routed(to, report) /\ behaviour' \in Seq(Rule)
           /\ held' \in Seq([to : Clients, report : ReportType, delay : Nat])
           /\ sent' \in [Clients -> Seq(ReportType)]
           /\ UNCHANGED << vars, registryVars, origin, ruled, asked, requests >>
    BY EmitFacts
  <1>2. /\ task = "idle" /\ ~(task = "match") /\ MaxOrders \in Nat
        /\ UNCHANGED << orders, nextId, task, cur, chain, origin, asked >>
    BY <1>1, MaxOrdersAssumption DEF Emit, vars, bookVars, taskVars, registryVars
  <1>3. /\ report.kind = e.kind /\ report.order = e.order
        /\ e.kind = "FILLED" => report.cum = e.cum
        /\ \A o \in OrderIds : Final(report, o) <=> Closes(e, o)
        /\ \A o \in OrderIds : About(e, o) /\ Current(e, orders[o]) => States(report, o)
    BY <1>1, RenderFacts
  <1>4. \A o : /\ About(report, o) <=> About(e, o)
               /\ Fill(report, o) <=> Fill(e, o)
               /\ Fill(e, o) => report.cum = e.cum
    BY <1>3 DEF About, Fill
  <1>5. \A x \in OrderIds : e.order = x /\ orders[x].session \in Clients =>
           orders[x].session = to /\ to # NoKey
    BY <1>1, <1>2, ToTheOwner
  <1>6. Shifted /\ Routed(to, report)
    BY <1>1
  <1>7. Owned(to, report)
    BY <1>1, <1>3 DEF Sound, Owned, SessionFor
  <1>8. RoutesInv'
    <2>1. ASSUME NEW i \in 1..Len(events') PROVE Sound(events[i + 1]) /\ events'[i] = events[i + 1]
      BY <1>6 DEF Shifted, RoutesInv
    <2>2. \A i \in 1..Len(events') : Sound(events'[i])
      BY <2>1
    <2>3. ASSUME NEW c \in Clients PROVE \A i \in 1..Len(sent'[c]) : Owned(c, sent'[c][i])
      <3>1. \A i \in 1..Len(sent[c]) : Owned(c, sent[c][i])
        BY DEF RoutesInv
      <3>2. sent'[c] = sent[c] \/ (c = to /\ Grown(sent[c], sent'[c], report))
        BY <1>6 DEF Routed
      <3> QED
        BY <1>7, <3>1, <3>2, GrownFacts
    <2>4. \A i \in 1..Len(held') : Owned(held'[i].to, held'[i].report)
      <3>1. \A i \in 1..Len(held) : Owned(held[i].to, held[i].report)
        BY DEF RoutesInv
      <3>2. held' = held \/ \E h : h.to = to /\ h.report = report /\ Grown(held, held', h)
        BY <1>6 DEF Routed
      <3> QED
        BY <1>7, <3>1, <3>2, GrownFacts
    <2>5. ~delayed' => held' = << >>
      BY <1>6 DEF Routed, RoutesInv
    <2>6. \A e1 : Sound(e1) => Sound(e1)'
      BY <1>2 DEF Sound
    <2>7. \A c, r : Owned(c, r) => Owned(c, r)'
      BY <1>2 DEF Owned
    <2>8. \A o \in OrderIds : o < nextId' => chain'[o] # << >>
      BY <1>2 DEF RoutesInv
    <2>9. \A i \in 1..Len(events') : Sound(events'[i])
      BY <2>2
    <2> QED
      BY <1>2, <2>3, <2>4, <2>5, <2>8, <2>9 DEF RoutesInv, Sound, Owned
  <1>9. CurInv'
    BY <1>2 DEF CurInv
  <1>10. ASSUME NEW x \in OrderIds, x < nextId, orders[x].session \in Clients
         PROVE  /\ ~delayed' /\ dropped' = {} => Known(x)' /\ Stated(x)'
                /\ ~delayed' => Ascending(x)'
                /\ EndedInv(x)'
    <2>0. PICK c \in Clients : c = orders[x].session
      BY <1>10
    <2>1. /\ ~delayed /\ dropped = {} => Known(x) /\ Stated(x)
          /\ ~delayed => Ascending(x)
          /\ EndedInv(x)
      BY <1>10 DEF TalkInv
    <2>2. e.order = x => c = to /\ to # NoKey
      BY <1>5, <1>10, <2>0
    <2>3. ASSUME ~delayed' PROVE ~delayed
      BY <1>6, <2>3 DEF Routed
    <2>4. dropped \subseteq dropped'
      BY <1>6 DEF Routed
    <2>5. ASSUME ~delayed', dropped' = {}
          PROVE  \/ sent'[c] = sent[c] /\ e.order # x
                 \/ Grown(sent[c], sent'[c], report)
      BY <1>6, <2>2, <2>5 DEF Routed
    <2>6. ASSUME ~delayed', dropped' = {} PROVE Known(x)'
      <3>1. Known(x)
        BY <2>1, <2>3, <2>4, <2>6
      <3>2. \/ sent'[c] = sent[c] /\ ~About(e, x)
            \/ Grown(sent[c], sent'[c], report)
        BY <2>5, <2>6 DEF About
      <3> QED
        BY <1>1, <1>2, <1>3, <1>4, <2>0, <3>1, <3>2, EmitKnown
    <2>7. ASSUME ~delayed', dropped' = {} PROVE Stated(x)'
      <3>1. Stated(x)
        BY <2>1, <2>3, <2>4, <2>7
      <3>2. \/ sent'[c] = sent[c] /\ ~Fill(e, x)
            \/ Grown(sent[c], sent'[c], report)
        BY <2>5, <2>7 DEF Fill
      <3> QED
        BY <1>1, <1>2, <1>4, <2>0, <3>1, <3>2, EmitStated
    <2>8. ASSUME ~delayed' PROVE Ascending(x)'
      <3>1. Ascending(x)
        BY <2>1, <2>3, <2>8
      <3>2. sent'[c] = sent[c] \/ Grown(sent[c], sent'[c], report)
        BY <1>6 DEF Routed
      <3> QED
        BY <1>1, <1>2, <1>4, <2>0, <3>1, <3>2, EmitAscending
    <2>9. EndedInv(x)'
      <3>1. \/ sent'[c] = sent[c] /\ held' = held
            \/ Grown(sent[c], sent'[c], report) /\ held' = held
            \/ /\ sent'[c] = sent[c]
               /\ \E h : h.report = report /\ Grown(held, held', h)
        BY <1>6 DEF Routed
      <3> QED
        BY <1>1, <1>2, <1>3, <2>0, <2>1, <3>1, EmitEnded
    <2> QED
      BY <2>6, <2>7, <2>8, <2>9
  <1>11. TalkInv'
    BY <1>2, <1>10 DEF TalkInv
  <1>12. ASSUME NEW c \in Clients, NEW name \in asked[c]
         PROVE  (\E r \in Everything(c)' : r.name = name) \/ Awaited(c, name)'
    <2>1. /\ \A r \in Everything(c) : r \in Everything(c)'
          /\ to = c => report \in Everything(c)'
      BY <1>1, RoutedKeeps
    <2>2. CASE \E r \in Everything(c) : r.name = name
      BY <2>1, <2>2
    <2>3. CASE \E i \in 1..Len(events) : /\ SessionFor(events[i]) = c
                                         /\ Render(events[i]).name = name
      <3>1. PICK i \in 1..Len(events) : /\ SessionFor(events[i]) = c
                                        /\ Render(events[i]).name = name
        BY <2>3
      <3>2. CASE i = 1
        <4>1. to = c /\ report.name = name
          BY <1>1, <3>1, <3>2
        <4> QED
          BY <2>1, <4>1
      <3>3. CASE i # 1
        <4>1. PICK k \in 1..Len(events') : events'[k] = events[i]
          BY <1>6, <3>3 DEF Shifted
        <4>2. PICK f : f = events[i]
          OBVIOUS
        <4>3. SessionFor(f)' = c /\ Render(f)'.name = name
          BY <1>2, <3>1, <4>2 DEF SessionFor, Render, CurrentName, Last
        <4>4. f = events'[k]
          BY <4>1, <4>2
        <4> QED
          BY <4>3, <4>4 DEF Awaited, SessionFor, Render
      <3> QED
        BY <3>2, <3>3
    <2> QED
      BY <1>2, <1>12, <2>2, <2>3 DEF AnswerInv, Awaited
  <1>13. AnswerInv'
    BY <1>2, <1>12 DEF AnswerInv
  <1> QED
    BY <1>8, <1>9, <1>11, <1>13

\* g is h without its i-th element; its k-th was there before.
Former(k, i) == IF k < i THEN k ELSE k + 1

Shrunk(h, g, i) ==
    /\ i \in 1..Len(h) /\ Len(h) \in Nat /\ Len(g) = Len(h) - 1
    /\ \A k \in 1..Len(g) : g[k] = h[Former(k, i)]

\* What is left was there before.
LEMMA ShrunkFacts ==
    ASSUME NEW h, NEW g, NEW i, Shrunk(h, g, i)
    PROVE  /\ i \in 1..Len(h)
           /\ \A k \in 1..Len(g) : /\ Former(k, i) \in 1..Len(h) /\ Former(k, i) # i
                                   /\ g[k] = h[Former(k, i)]
           /\ \A k, l \in 1..Len(g) : Former(k, i) = Former(l, i) => k = l
  <1>1. PICK n \in Nat : n = Len(h) /\ Len(g) = n - 1
    BY DEF Shrunk
  <1>2. PICK j \in 1..n : j = i
    BY <1>1 DEF Shrunk
  <1>3. \A k \in 1..(n - 1) : Former(k, j) \in 1..n /\ Former(k, j) # j
    BY <1>1, <1>2 DEF Former
  <1>4. \A k, l \in 1..(n - 1) : Former(k, j) = Former(l, j) => k = l
    BY <1>1, <1>2 DEF Former
  <1>5. \A k \in 1..(n - 1) : g[k] = h[Former(k, j)]
    BY <1>1, <1>2 DEF Shrunk
  <1> QED
    BY <1>1, <1>2, <1>3, <1>4, <1>5

\* Only the element that is removed is lost.
LEMMA ShrunkLoses ==
    ASSUME NEW h, NEW g, NEW i, Shrunk(h, g, i), NEW m \in 1..Len(h)
    PROVE  m = i \/ \E k \in 1..Len(g) : g[k] = h[m]
  <1>1. PICK n \in Nat : n = Len(h) /\ Len(g) = n - 1
    BY DEF Shrunk
  <1>2. PICK j \in 1..n : j = i
    BY <1>1 DEF Shrunk
  <1>3. \A k \in 1..(n - 1) : g[k] = h[Former(k, j)]
    BY <1>1, <1>2 DEF Shrunk
  <1>4. CASE m < j
    <2>1. m \in 1..(n - 1) /\ Former(m, j) = m
      BY <1>1, <1>2, <1>4 DEF Former
    <2> QED
      BY <1>1, <1>3, <2>1
  <1>5. CASE m > j
    <2>1. m - 1 \in 1..(n - 1) /\ Former(m - 1, j) = m
      BY <1>1, <1>2, <1>5 DEF Former
    <2> QED
      BY <1>1, <1>3, <2>1
  <1> QED
    BY <1>1, <1>2, <1>4, <1>5

\* A report whose timer expires.
LEMMA ReleaseFacts ==
    ASSUME EntryTypeOK, ReleaseStep
    PROVE  \E i, to, report :
             /\ Ready /\ i \in 1..Len(held) /\ Shrunk(held, held', i)
             /\ to = held[i].to /\ report = held[i].report
             /\ to \in Clients /\ report \in ReportType
             /\ \A c \in Clients : IF c = to THEN Grown(sent[c], sent'[c], report)
                                   ELSE sent'[c] = sent[c]
             /\ held' \in Seq([to : Clients, report : ReportType, delay : Nat])
             /\ sent' \in [Clients -> Seq(ReportType)]
             /\ UNCHANGED << vars, registryVars, events, origin, behaviour, dropped, delayed,
                             ruled, asked, requests >>
  <1> DEFINE H == [to : Clients, report : ReportType, delay : Nat]
  <1>1. held \in Seq(H) /\ sent \in [Clients -> Seq(ReportType)]
    BY DEF EntryTypeOK
  <1>2. PICK i \in DOMAIN held : Release(i)
    BY DEF ReleaseStep
  <1>3. i \in 1..Len(held) /\ held[i] \in H
    <2> HIDE DEF H
    <2> QED
      BY <1>1, <1>2
  <1>4. PICK to \in Clients, report \in ReportType : to = held[i].to /\ report = held[i].report
    BY <1>3
  <1>5. /\ Ready /\ sent' = [sent EXCEPT ![to] = Append(sent[to], report)]
        /\ held' = RemoveAt(held, i)
        /\ UNCHANGED << vars, registryVars, events, origin, behaviour, dropped, delayed,
                        ruled, asked, requests >>
    BY <1>2, <1>4 DEF Release, Send
  <1>6. sent[to] \in Seq(ReportType)
    BY <1>1
  <1>7. /\ Grown(sent[to], Append(sent[to], report), report)
        /\ Append(sent[to], report) \in Seq(ReportType)
    BY <1>6, AppendGrows
  <1>8. \A c \in Clients : sent'[c] = IF c = to THEN Append(sent[to], report) ELSE sent[c]
    BY <1>1, <1>5
  <1>9. sent' \in [Clients -> Seq(ReportType)]
    BY <1>1, <1>5, <1>7
  <1> HIDE DEF H
  <1>10. /\ RemoveAt(held, i) \in Seq(H) /\ Len(held) \in Nat
         /\ Len(RemoveAt(held, i)) = Len(held) - 1
         /\ \A k \in 1..(Len(held) - 1) :
               RemoveAt(held, i)[k] = held[Former(k, i)]
    BY <1>1, <1>3, RemoveFacts DEF Former
  <1>11. Shrunk(held, held', i) /\ held' \in Seq(H)
    BY <1>3, <1>5, <1>10 DEF Shrunk
  <1>12. \A c \in Clients : IF c = to THEN Grown(sent[c], sent'[c], report)
                            ELSE sent'[c] = sent[c]
    BY <1>7, <1>8
  <1>13. held' \in Seq([to : Clients, report : ReportType, delay : Nat])
    BY <1>11 DEF H
  <1>14. UNCHANGED << vars, registryVars, events, origin, behaviour, dropped, delayed,
                      ruled, asked, requests >>
    BY <1>5
  <1>15. Ready /\ i \in 1..Len(held) /\ Shrunk(held, held', i)
    BY <1>3, <1>5, <1>11
  <1> QED
    BY <1>4, <1>9, <1>12, <1>13, <1>14, <1>15, Zenon

\* The end of an order that waited for its timer is sent.
LEMMA ReleaseEnded ==
    ASSUME NEW i, Shrunk(held, held', i), NEW x \in OrderIds,
           NEW c \in Clients, c = orders[x].session,
           UNCHANGED << orders, events >>, EndedInv(x),
           \/ sent'[c] = sent[c] /\ ~Final(held[i].report, x)
           \/ Grown(sent[c], sent'[c], held[i].report)
    PROVE  EndedInv(x)'
  <1>1. PICK s : s = sent[c]
    OBVIOUS
  <1>2. PICK t : t = sent'[c]
    OBVIOUS
  <1>3. PICK g : g = held'
    OBVIOUS
  <1>4. PICK report : report = held[i].report
    OBVIOUS
  <1> DEFINE InS == \E k \in 1..Len(s) : Final(s[k], x)
             InT == \E k \in 1..Len(t) : Final(t[k], x)
             InH == \E k \in 1..Len(held) : Final(held[k].report, x)
             InG == \E k \in 1..Len(g) : Final(g[k].report, x)
             Due == \E k \in 1..Len(events) : Closes(events[k], x)
  <1>5. /\ \A k, l \in 1..Len(s) : Final(s[k], x) /\ Final(s[l], x) => k = l
        /\ \A k, l \in 1..Len(held) :
              Final(held[k].report, x) /\ Final(held[l].report, x) => k = l
        /\ \A k, l \in 1..Len(events) :
              Closes(events[k], x) /\ Closes(events[l], x) => k = l
        /\ ~(InS /\ InH) /\ ~(InS /\ Due) /\ ~(InH /\ Due)
        /\ InS \/ InH \/ Due => orders[x].status \in TERMINAL
    BY <1>1 DEF EndedInv, SaidSent, SaidHeld, SaidDue
  <1>6. /\ i \in 1..Len(held)
        /\ \A k \in 1..Len(g) : /\ Former(k, i) \in 1..Len(held) /\ Former(k, i) # i
                                /\ g[k] = held[Former(k, i)]
        /\ \A k, l \in 1..Len(g) : Former(k, i) = Former(l, i) => k = l
    <2>1. Shrunk(held, g, i)
      BY <1>3
    <2> QED
      BY <2>1, ShrunkFacts, Zenon
  <1>7. Final(report, x) => InH
    BY <1>4, <1>6
  <1>8. InG => InH /\ ~Final(report, x)
    BY <1>4, <1>5, <1>6
  <1>9. \A k, l \in 1..Len(g) : Final(g[k].report, x) /\ Final(g[l].report, x) => k = l
    BY <1>5, <1>6
  <1>10. /\ InT => InS \/ Final(report, x)
         /\ \A k, l \in 1..Len(t) : Final(t[k], x) /\ Final(t[l], x) => k = l
    <2>1. CASE t = s
      BY <1>5, <2>1
    <2>2. CASE Grown(s, t, report)
      <3>1. \A k \in 1..Len(t) : Final(t[k], x) =>
               \/ k \in 1..Len(s) /\ Final(s[k], x)
               \/ k = Len(s) + 1 /\ Final(report, x)
        BY <2>2, GrownFacts
      <3>2. Final(report, x) => ~InS
        BY <1>5, <1>7
      <3> QED
        BY <1>5, <3>1, <3>2
    <2> QED
      BY <1>1, <1>2, <1>4, <2>1, <2>2
  <1>11. /\ ~(InT /\ InG) /\ ~(InT /\ Due) /\ ~(InG /\ Due)
         /\ InT \/ InG \/ Due => orders[x].status \in TERMINAL
    <2> HIDE DEF InS, InT, InH, InG, Due
    <2> QED
      BY <1>5, <1>7, <1>8, <1>10
  <1>12. /\ \A r : Final(r, x)' <=> Final(r, x)
         /\ \A f : Closes(f, x)' <=> Closes(f, x)
    BY DEF Final, Closes
  <1>13. /\ SaidSent(x)' <=> InT
         /\ SaidHeld(x)' <=> InG
         /\ SaidDue(x)' <=> Due
    BY <1>2, <1>3 DEF SaidSent, SaidHeld, SaidDue, Final, Closes
  <1> HIDE DEF InS, InT, InH, InG, Due
  <1> QED
    BY <1>2, <1>3, <1>5, <1>9, <1>10, <1>11, <1>12, <1>13 DEF EndedInv

\* What waited is sent.
LEMMA ReleaseKeepsAll ==
    ASSUME EntryTypeOK, sent' \in [Clients -> Seq(ReportType)],
           held' \in Seq([to : Clients, report : ReportType, delay : Nat]),
           NEW i, Shrunk(held, held', i), NEW c \in Clients, dropped' = dropped,
           IF c = held[i].to THEN Grown(sent[c], sent'[c], held[i].report)
           ELSE sent'[c] = sent[c]
    PROVE  \A r \in Everything(c) : r \in Everything(c)'
  <1> DEFINE H == [to : Clients, report : ReportType, delay : Nat]
  <1>1. /\ sent[c] \in Seq(ReportType) /\ sent'[c] \in Seq(ReportType)
        /\ held \in Seq(H) /\ held' \in Seq(H)
    BY DEF EntryTypeOK
  <1> HIDE DEF H
  <1> DEFINE Sent(r) == \E k \in 1..Len(sent[c]) : sent[c][k] = r
             Held(r) == \E k \in 1..Len(held) : held[k].to = c /\ held[k].report = r
             Lost(r) == \E x \in dropped : x.to = c /\ x.report = r
             NowSent(r) == \E k \in 1..Len(sent'[c]) : sent'[c][k] = r
             NowHeld(r) == \E k \in 1..Len(held') : held'[k].to = c /\ held'[k].report = r
  <1>2. ASSUME NEW r PROVE r \in Everything(c) <=> Sent(r) \/ Held(r) \/ Lost(r)
    <2>1. DOMAIN sent[c] = 1..Len(sent[c]) /\ DOMAIN held = 1..Len(held)
      BY <1>1
    <2>2. r \in ReportsOf(c) <=> Sent(r)
      BY <2>1 DEF ReportsOf, Range
    <2>3. r \in {h.report : h \in {x \in Range(held) : x.to = c}} <=> Held(r)
      BY <2>1 DEF Range
    <2>4. r \in {d.report : d \in {x \in dropped : x.to = c}} <=> Lost(r)
      OBVIOUS
    <2> HIDE DEF Sent, Held, Lost
    <2> QED
      BY <2>2, <2>3, <2>4 DEF Everything
  <1>3. ASSUME NEW r PROVE r \in Everything(c)' <=> NowSent(r) \/ NowHeld(r) \/ Lost(r)
    <2>1. DOMAIN sent'[c] = 1..Len(sent'[c]) /\ DOMAIN held' = 1..Len(held')
      BY <1>1
    <2>2. r \in ReportsOf(c)' <=> NowSent(r)
      BY <2>1 DEF ReportsOf, Range
    <2>3. r \in {h.report : h \in {x \in Range(held') : x.to = c}} <=> NowHeld(r)
      BY <2>1 DEF Range
    <2>4. r \in {d.report : d \in {x \in dropped' : x.to = c}} <=> Lost(r)
      OBVIOUS
    <2> HIDE DEF NowSent, NowHeld, Lost
    <2> QED
      BY <2>2, <2>3, <2>4 DEF Everything
  <1>4. ASSUME NEW r, Sent(r) PROVE NowSent(r)
    <2>1. PICK k \in 1..Len(sent[c]) : sent[c][k] = r
      BY <1>4
    <2>2. sent'[c] = sent[c] \/ Grown(sent[c], sent'[c], held[i].report)
      OBVIOUS
    <2>3. k \in 1..Len(sent'[c]) /\ sent'[c][k] = r
      BY <2>1, <2>2, GrownFacts
    <2> QED
      BY <2>3
  <1>5. ASSUME NEW r, Held(r) PROVE NowHeld(r) \/ NowSent(r)
    <2>1. PICK m \in 1..Len(held) : held[m].to = c /\ held[m].report = r
      BY <1>5
    <2>2. m = i \/ \E k \in 1..Len(held') : held'[k] = held[m]
      <3>1. PICK g : g = held'
        OBVIOUS
      <3>2. Shrunk(held, g, i)
        BY <3>1
      <3>3. \A n \in 1..Len(held) : n = i \/ \E k \in 1..Len(g) : g[k] = held[n]
        BY <3>2, ShrunkLoses
      <3> QED
        BY <3>1, <3>3
    <2>3. CASE m = i
      <3>1. Grown(sent[c], sent'[c], r)
        BY <2>1, <2>3
      <3> QED
        BY <3>1, GrownFacts
    <2> QED
      BY <2>1, <2>2, <2>3
  <1> HIDE DEF Sent, Held, Lost, NowSent, NowHeld
  <1> QED
    BY <1>2, <1>3, <1>4, <1>5

\* A timer that expires says what had been rendered before.
LEMMA ReleaseKeeps ==
    ASSUME EntryTypeOK, RoutesInv, TalkInv, AnswerInv, ReleaseStep
    PROVE  RoutesInv' /\ CurInv' /\ TalkInv' /\ AnswerInv'
  <1>1. PICK i, to, report :
           /\ Ready /\ i \in 1..Len(held) /\ Shrunk(held, held', i)
           /\ to = held[i].to /\ report = held[i].report
           /\ to \in Clients /\ report \in ReportType
           /\ \A c \in Clients : IF c = to THEN Grown(sent[c], sent'[c], report)
                                 ELSE sent'[c] = sent[c]
           /\ held' \in Seq([to : Clients, report : ReportType, delay : Nat])
           /\ sent' \in [Clients -> Seq(ReportType)]
           /\ UNCHANGED << vars, registryVars, events, origin, behaviour, dropped, delayed,
                           ruled, asked, requests >>
    BY ReleaseFacts
  <1>2. /\ ~(task = "match") /\ events = << >>
        /\ UNCHANGED << orders, nextId, task, cur, chain, origin, asked, events,
                        dropped, delayed >>
    BY <1>1 DEF Ready, vars, bookVars, taskVars, registryVars
  <1>3. delayed' = TRUE
    <2>1. held # << >>
      <3>1. held = << >> => Len(held) = 0
        OBVIOUS
      <3> QED
        BY <1>1, <3>1
    <2> QED
      BY <1>2, <2>1 DEF RoutesInv, EntryTypeOK
  <1>4. Owned(to, report)
    BY <1>1 DEF RoutesInv
  <1>5. Shrunk(held, held', i)
    BY <1>1
  <1>6. RoutesInv'
    <2>1. ASSUME NEW c \in Clients PROVE \A k \in 1..Len(sent'[c]) : Owned(c, sent'[c][k])
      <3>1. \A k \in 1..Len(sent[c]) : Owned(c, sent[c][k])
        BY DEF RoutesInv
      <3>2. sent'[c] = sent[c] \/ (c = to /\ Grown(sent[c], sent'[c], report))
        BY <1>1
      <3> QED
        BY <1>4, <3>1, <3>2, GrownFacts
    <2>2. PICK g : g = held'
      OBVIOUS
    <2>3. Shrunk(held, g, i)
      BY <1>5, <2>2
    <2>4. \A k \in 1..Len(g) : Former(k, i) \in 1..Len(held) /\ g[k] = held[Former(k, i)]
      <3>1. PICK h : h = held
        OBVIOUS
      <3>2. Shrunk(h, g, i)
        BY <2>3, <3>1
      <3>3. \A k \in 1..Len(g) : Former(k, i) \in 1..Len(h) /\ g[k] = h[Former(k, i)]
        BY <3>2, ShrunkFacts
      <3> QED
        BY <3>1, <3>3
    <2>5. \A k \in 1..Len(g) : Owned(g[k].to, g[k].report)
      BY <2>4 DEF RoutesInv
    <2>6. (\A k \in 1..Len(held) : Owned(held[k].to, held[k].report))'
      <3>1. \A k \in 1..Len(held') : Owned(held'[k].to, held'[k].report)
        BY <2>2, <2>5
      <3> QED
        BY <1>2, <3>1 DEF Owned
    <2>7. (\A c \in Clients : \A k \in 1..Len(sent[c]) : Owned(c, sent[c][k]))'
      BY <1>2, <2>1 DEF Owned
    <2>8. (\A k \in 1..Len(events) : Sound(events[k]))'
      BY <1>2
    <2>9. (\A x \in OrderIds : x < nextId => chain[x] # << >>)'
      BY <1>2 DEF RoutesInv
    <2> QED
      BY <1>3, <2>6, <2>7, <2>8, <2>9 DEF RoutesInv
  <1>7. CurInv'
    BY <1>2 DEF CurInv
  <1>8. ASSUME NEW x \in OrderIds, x < nextId, orders[x].session \in Clients
        PROVE  EndedInv(x)'
    <2>1. PICK c \in Clients : c = orders[x].session
      BY <1>8
    <2>2. EndedInv(x)
      BY <1>8 DEF TalkInv
    <2>3. Final(report, x) => c = to
      <3>1. x # NoOrder
        BY MaxOrdersAssumption DEF OrderIds, NoOrder
      <3> QED
        BY <1>4, <2>1, <3>1 DEF Final, Owned
    <2>4. \/ sent'[c] = sent[c] /\ ~Final(held[i].report, x)
          \/ Grown(sent[c], sent'[c], held[i].report)
      BY <1>1, <2>3
    <2> QED
      BY <1>2, <1>5, <2>1, <2>2, <2>4, ReleaseEnded
  <1>9. TalkInv'
    BY <1>2, <1>3, <1>8 DEF TalkInv
  <1>10. ASSUME NEW c \in Clients, NEW name \in asked[c]
         PROVE  \E r \in Everything(c)' : r.name = name
    <2>1. \A r \in Everything(c) : r \in Everything(c)'
      BY <1>1, <1>2, ReleaseKeepsAll
    <2>2. ~Awaited(c, name)
      BY <1>2 DEF Awaited
    <2> QED
      BY <1>10, <2>1, <2>2 DEF AnswerInv
  <1>11. AnswerInv'
    BY <1>2, <1>10 DEF AnswerInv
  <1> QED
    BY <1>6, <1>7, <1>9, <1>11

----------------------------------------------------------------------------
(* Every step *)

\* What a step that only produces, or refuses, does to the bookkeeping.
Tidy ==
    /\ origin' \in Clients \cup {NoKey}
    /\ asked' \in [Clients -> SUBSET Names]
    /\ requests' \in 0..MaxRequests
    /\ UNCHANGED << held, sent, dropped, delayed, ruled >>

\* A request leaves the bookkeeping of requests well-formed.
LEMMA RequestTypes ==
    ASSUME EntryTypeOK, NEW from, NEW name \in Names, Request(from, name)
    PROVE  /\ origin' \in Clients \cup {NoKey}
           /\ asked' \in [Clients -> SUBSET Names]
           /\ requests' \in 0..MaxRequests
  <1>1. requests' \in 0..MaxRequests
    BY EntryBounds DEF EntryTypeOK, Request
  <1>2. origin' \in Clients \cup {NoKey}
    BY DEF Request
  <1>3. asked' \in [Clients -> SUBSET Names]
    BY DEF EntryTypeOK, Request
  <1> QED
    BY <1>1, <1>2, <1>3

\* A step that changes orders and tells of it keeps the invariant.
LEMMA ProducingStep ==
    ASSUME IInv, ReportInv, IInv', RegistryInv', NEW new, Produces(new), Tidy,
           behaviour' = behaviour
    PROVE  ReportInv'
  <1>1. /\ EntryTypeOK /\ RoutesInv /\ TalkInv /\ AnswerInv
        /\ MaxOrders \in Nat /\ nextId \in Nat
    BY MaxOrdersAssumption DEF ReportInv, IInv, TypeOK
  <1>2. \A x \in OrderIds : orders[x].cum \in Nat /\ orders'[x].cum \in Nat
    BY DEF IInv, TypeOK, OrderType
  <1>3. task = "match" => cur \in OrderIds /\ cur < nextId
    BY DEF IInv, TaskInv
  <1>4. RoutesInv' /\ CurInv' /\ TalkInv' /\ AnswerInv'
    BY <1>1, <1>2, <1>3, ProducesKeeps
  <1>5. events' \in Seq(EventType)
    BY <1>1, MoreEvents DEF EntryTypeOK
  <1>6. EntryTypeOK'
    BY <1>1, <1>5 DEF EntryTypeOK, Tidy, RegistryInv
  <1> QED
    BY <1>4, <1>6 DEF ReportInv

\* A step that refuses a request keeps it.
LEMMA RefusingStep ==
    ASSUME ReportInv, RegistryInv', NEW key \in Sessions, NEW name \in Names,
           Request(key, name), NEW event \in EventType, Answer(event), Sound(event),
           event.name = name,
           event.kind = "CANCEL_REJECTED" \/ event.order = NoOrder,
           event.owner = key \/ event.owner = NoKey,
           behaviour' \in Seq(Rule), UNCHANGED << held, sent, dropped, delayed, ruled >>
    PROVE  ReportInv'
  <1>1. EntryTypeOK /\ RoutesInv /\ TalkInv /\ AnswerInv /\ name # NoKey
    BY NamesAssumption DEF ReportInv
  <1>2. RoutesInv' /\ CurInv' /\ TalkInv' /\ AnswerInv'
    BY <1>1, RefusalKeeps
  <1>3. /\ origin' \in Clients \cup {NoKey}
        /\ asked' \in [Clients -> SUBSET Names]
        /\ requests' \in 0..MaxRequests
    BY <1>1, RequestTypes
  <1>4. events' \in Seq(EventType)
    <2>1. events' = << event >>
      BY DEF Answer
    <2> QED
      BY <2>1
  <1>5. EntryTypeOK'
    BY <1>1, <1>3, <1>4 DEF EntryTypeOK, RegistryInv
  <1> QED
    BY <1>2, <1>5 DEF ReportInv

\* A new order is refused, or accepted and told of.
LEMMA NewStepKeeps ==
    ASSUME IInv, RegistryInv, ReportInv, IInv', RegistryInv',
           NEW key \in Sessions, NEW name \in Names, NewStep(key, name)
    PROVE  ReportInv'
  <1>1. /\ EntryTypeOK /\ RoutesInv /\ name # NoKey /\ behaviour \in Seq(Rule)
    BY NamesAssumption DEF ReportInv, EntryTypeOK
  <1> DEFINE event == RejectEvent(key, name)
  <1>2. /\ event \in EventType /\ Sound(event) /\ event.name = name
        /\ event.order = NoOrder /\ event.owner = key
    BY <1>1 DEF RejectEvent, EventType, EventKinds, Sound, NoOrder
  <1> HIDE DEF event
  <1>3. ASSUME Request(key, name), Answer(event), behaviour' \in Seq(Rule),
               UNCHANGED << held, sent, dropped, delayed, ruled >>
        PROVE  ReportInv'
    BY <1>2, <1>3, RefusingStep
  <1>4. CASE NewDuplicate(key, name) \/ NewInvalid(key, name)
    BY <1>1, <1>3, <1>4 DEF NewDuplicate, NewInvalid, reportVars, event
  <1>5. CASE NewForcedReject(key, name)
    <2>1. behaviour' \in Seq(Rule)
      BY <1>1, <1>5, FoundRule, TakenFacts DEF NewForcedReject
    <2> QED
      BY <1>3, <1>5, <2>1 DEF NewForcedReject, event
  <1>6. ASSUME NEW r \in Requests, NewAccepted(key, name, r) PROVE ReportInv'
    <2>1. PICK new : Produces(new)
      BY <1>1, <1>6, NewProduces
    <2>2. Request(key, name) /\ UNCHANGED reportVars
      BY <1>6 DEF NewAccepted
    <2>3. Tidy /\ behaviour' = behaviour
      BY <1>1, <2>2, RequestTypes DEF Tidy, reportVars
    <2> QED
      BY <2>1, <2>3, ProducingStep
  <1> QED
    BY <1>4, <1>5, <1>6 DEF NewStep

\* A cancel or a replace is refused, or done and told of.
LEMMA ChangeStepKeeps ==
    ASSUME IInv, RegistryInv, ReportInv, IInv', RegistryInv', NEW key \in Clients,
           NEW name \in Names, NEW orig \in Names, ChangeStep(key, name, orig)
    PROVE  ReportInv'
  <1>1. /\ EntryTypeOK /\ RoutesInv /\ name # NoKey /\ behaviour \in Seq(Rule)
        /\ key \in Sessions
    BY NamesAssumption, ClientsAssumption DEF ReportInv, EntryTypeOK
  <1>2. ASSUME NEW o \in OrderIds \cup {NoOrder}, Request(key, name),
               Answer(CancelRejectEvent(o, key, name)),
               o # NoOrder => o < nextId /\ orders[o].session = key,
               UNCHANGED reportVars
        PROVE  ReportInv'
    <2> DEFINE event == CancelRejectEvent(o, key, name)
    <2>1. /\ event \in EventType /\ Sound(event) /\ event.name = name
          /\ event.kind = "CANCEL_REJECTED"
          /\ event.owner = key \/ event.owner = NoKey
      BY <1>1, <1>2 DEF CancelRejectEvent, EventType, EventKinds, Sound, NoOrder
    <2>2. Answer(event)
      BY <1>2
    <2>3. behaviour' \in Seq(Rule) /\ UNCHANGED << held, sent, dropped, delayed, ruled >>
      BY <1>1, <1>2 DEF reportVars
    <2> HIDE DEF event
    <2> QED
      BY <1>1, <1>2, <2>1, <2>2, <2>3, RefusingStep
  <1>3. CASE Unresolved(key, name, orig)
    <2>1. PICK o : o = Resolve(key, orig)
      OBVIOUS
    <2>2. o # NoOrder => /\ o \in OrderIds /\ o < nextId /\ orders[o].session = key
      <3>1. SUFFICES ASSUME o # NoOrder
                     PROVE  /\ o \in OrderIds /\ o < nextId /\ orders[o].session = key
        OBVIOUS
      <3>2. o = index[<<key, orig>>] /\ o \in OrderIds
        BY <1>1, <2>1, <3>1 DEF Resolve, RegistryInv
      <3>3. orders[o].session = key /\ chain[o] # << >>
        BY <1>1, <3>2, EmptyChain DEF RegistryInv, IndexIsTheInverseOfTheChains
      <3>4. nextId \in Nat
        BY MaxOrdersAssumption DEF IInv, TypeOK
      <3> QED
        BY <3>2, <3>3, <3>4 DEF RegistryInv, ChainsInv, OrderIds
    <2>3. CASE Answer(CancelRejectEvent(NoOrder, key, name))
      BY <1>2, <1>3, <2>3 DEF Unresolved
    <2>4. CASE o # NoOrder /\ Answer(CancelRejectEvent(o, key, name))
      BY <1>2, <1>3, <2>2, <2>4 DEF Unresolved
    <2> QED
      BY <1>3, <2>1, <2>3, <2>4 DEF Unresolved
  <1>4. ASSUME NEW new, Produces(new), Request(key, name), UNCHANGED reportVars
        PROVE  ReportInv'
    <2>1. Tidy /\ behaviour' = behaviour
      BY <1>1, <1>4, RequestTypes DEF Tidy, reportVars
    <2> QED
      BY <1>4, <2>1, ProducingStep
  <1>5. ASSUME NEW o \in OrderIds, CancelOrderRequest(key, name, orig, o)
        PROVE  ReportInv'
    <2>1. PICK new : Produces(new)
      BY <1>1, <1>5, CancelOrderProduces
    <2>2. Request(key, name) /\ UNCHANGED reportVars
      BY <1>5 DEF CancelOrderRequest, Resolved
    <2> QED
      BY <1>4, <2>1, <2>2
  <1>6. ASSUME NEW o \in OrderIds, NEW a \in Amendments, ReplaceOrder(key, name, orig, o, a)
        PROVE  ReportInv'
    <2>1. PICK new : Produces(new)
      BY <1>1, <1>6, ReplaceProduces
    <2>2. Request(key, name) /\ UNCHANGED reportVars
      BY <1>6 DEF ReplaceOrder, Resolved
    <2> QED
      BY <1>4, <2>1, <2>2
  <1> QED
    BY <1>3, <1>5, <1>6 DEF ChangeStep

\* So do the steps that no request for one order makes.
LEMMA OtherStepKeeps ==
    ASSUME IInv, RegistryInv, ReportInv, IInv', RegistryInv',
           \/ \E keys, from : from \in Clients \cup {NoKey} /\ CancelMany(keys, from)
           \/ \E o \in OrderIds : AdminCancel(o)
           \/ \E s \in Phases : SetState(s)
           \/ EntryMatchStep
    PROVE  ReportInv'
  <1>1. EntryTypeOK /\ RoutesInv /\ CurInv
    BY DEF ReportInv
  <1>2. ASSUME NEW new, Produces(new), UNCHANGED reportVars,
               origin' \in Clients \cup {NoKey}, asked' = asked,
               requests' \in 0..MaxRequests
        PROVE  ReportInv'
    <2>1. Tidy /\ behaviour' = behaviour
      BY <1>1, <1>2 DEF Tidy, EntryTypeOK, reportVars
    <2> QED
      BY <1>2, <2>1, ProducingStep
  <1>3. ASSUME NEW keys, NEW from \in Clients \cup {NoKey}, CancelMany(keys, from)
        PROVE  ReportInv'
    <2>1. PICK new : Produces(new)
      BY <1>1, <1>3, CancelManyProduces
    <2>2. /\ UNCHANGED reportVars /\ origin' \in Clients \cup {NoKey} /\ asked' = asked
          /\ requests' \in 0..MaxRequests
      BY <1>1, <1>3, EntryBounds DEF CancelMany, EntryTypeOK
    <2> QED
      BY <1>2, <2>1, <2>2
  <1>4. ASSUME NEW o \in OrderIds, AdminCancel(o) PROVE ReportInv'
    <2>1. PICK new : Produces(new)
      BY <1>1, <1>4, AdminCancelProduces
    <2>2. /\ UNCHANGED reportVars /\ origin' \in Clients \cup {NoKey} /\ asked' = asked
          /\ requests' \in 0..MaxRequests
      BY <1>1, <1>4, EntryBounds DEF AdminCancel, EntryTypeOK
    <2> QED
      BY <1>2, <2>1, <2>2
  <1>5. ASSUME NEW s \in Phases, SetState(s) PROVE ReportInv'
    <2>1. PICK new : Produces(new)
      BY <1>1, <1>5, SetStateProduces
    <2>2. /\ UNCHANGED reportVars /\ origin' \in Clients \cup {NoKey} /\ asked' = asked
          /\ requests' \in 0..MaxRequests
      BY <1>1, <1>5 DEF SetState, EntryTypeOK
    <2> QED
      BY <1>2, <2>1, <2>2
  <1>6. CASE EntryMatchStep
    <2>1. PICK new : Produces(new)
      BY <1>1, <1>6, MatchProduces
    <2>2. /\ UNCHANGED reportVars /\ origin' \in Clients \cup {NoKey} /\ asked' = asked
          /\ requests' \in 0..MaxRequests
      BY <1>1, <1>6 DEF EntryMatchStep, Loop, EntryTypeOK
    <2> QED
      BY <1>2, <2>1, <2>2
  <1> QED
    BY <1>3, <1>4, <1>5, <1>6

\* And those that tell nothing.
LEMMA QuietStepKeeps ==
    ASSUME ReportInv, RegistryInv',
           \/ SilentCommand
           \/ \E rule \in RuleChoices : SetBehaviour(rule)
           \/ ClearBehaviour
           \/ UNCHANGED allVars
    PROVE  ReportInv'
  <1>1. /\ EntryTypeOK /\ RoutesInv /\ CurInv /\ TalkInv /\ AnswerInv
        /\ behaviour \in Seq(Rule) /\ ruled \in 0..MaxRules
    BY DEF ReportInv, EntryTypeOK
  <1>2. ASSUME UNCHANGED << orders, nextId, task, cur, registryVars, events, origin, held,
                            sent, asked, dropped, delayed, requests >>,
               behaviour' \in Seq(Rule), ruled' \in 0..MaxRules
        PROVE  ReportInv'
    <2>1. UNCHANGED << orders, nextId, task, cur, chain, events, origin, held, sent,
                       asked, dropped, delayed >>
      BY <1>2 DEF registryVars
    <2>2. RoutesInv' /\ CurInv' /\ TalkInv' /\ AnswerInv'
      BY <1>1, <2>1, NothingSaid
    <2>3. EntryTypeOK'
      BY <1>1, <1>2 DEF EntryTypeOK, registryVars
    <2> QED
      BY <2>2, <2>3 DEF ReportInv
  <1>3. CASE UNCHANGED allVars
    BY <1>1, <1>2, <1>3 DEF allVars, entryVars, vars, bookVars, taskVars, reportVars
  <1>4. CASE SilentCommand
    <2>1. UNCHANGED entryVars /\ UNCHANGED << orders, nextId, task, cur >>
      BY <1>4 DEF SilentCommand, ClearInstrumentState, SetStpMode, Command, bookVars, taskVars
    <2> QED
      BY <1>1, <1>2, <2>1 DEF entryVars, reportVars
  <1>5. ASSUME NEW rule \in RuleChoices, SetBehaviour(rule) PROVE ReportInv'
    <2>1. rule \in Rule /\ behaviour' = Append(behaviour, rule)
      BY <1>5, RulesAssumption DEF SetBehaviour
    <2> DEFINE b == Append(behaviour, rule)
    <2>2. b \in Seq(Rule)
      BY <1>1, <2>1
    <2>3. behaviour' \in Seq(Rule) /\ ruled' \in 0..MaxRules
      BY <1>1, <1>5, <2>1, <2>2, EntryBounds DEF SetBehaviour
    <2> QED
      BY <1>2, <1>5, <2>3 DEF SetBehaviour, vars, bookVars, taskVars
  <1>6. CASE ClearBehaviour
    <2>1. behaviour' \in Seq(Rule)
      <3>1. << >> \in Seq(Rule)
        OBVIOUS
      <3>2. ASSUME NEW i \in DOMAIN behaviour PROVE RemoveAt(behaviour, i) \in Seq(Rule)
        <4>1. i \in 1..Len(behaviour)
          BY <1>1
        <4> QED
          BY <1>1, <4>1, RemoveFacts
      <3> QED
        BY <1>6, <3>1, <3>2 DEF ClearBehaviour
    <2> QED
      BY <1>1, <1>2, <1>6, <2>1 DEF ClearBehaviour, vars, bookVars, taskVars
  <1> QED
    BY <1>3, <1>4, <1>5, <1>6

\* An event becomes a report, and is sent, held or dropped.
LEMMA EmitStepKeeps ==
    ASSUME IInv, RegistryInv, ReportInv, RegistryInv', Emit PROVE ReportInv'
  <1>1. /\ EntryTypeOK /\ RoutesInv /\ TalkInv /\ AnswerInv
        /\ dropped \subseteq [to : Clients, report : ReportType] /\ delayed \in BOOLEAN
    BY DEF ReportInv, EntryTypeOK
  <1>2. RoutesInv' /\ CurInv' /\ TalkInv' /\ AnswerInv'
    BY <1>1, EmissionKeeps
  <1>3. PICK e, to, report :
           /\ Shifted /\ events' \in Seq(EventType)
           /\ e = events[1] /\ e \in EventType /\ Sound(e)
           /\ to = SessionFor(e) /\ to \in Clients \cup {NoKey}
           /\ report = Render(e) /\ report \in ReportType
           /\ Routed(to, report) /\ behaviour' \in Seq(Rule)
           /\ held' \in Seq([to : Clients, report : ReportType, delay : Nat])
           /\ sent' \in [Clients -> Seq(ReportType)]
           /\ UNCHANGED << vars, registryVars, origin, ruled, asked, requests >>
    BY <1>1, EmitFacts
  <1>4. dropped' \subseteq [to : Clients, report : ReportType]
    <2>1. to # NoKey => [to |-> to, report |-> report] \in [to : Clients, report : ReportType]
      BY <1>3
    <2>2. \/ dropped' = dropped
          \/ to # NoKey /\ dropped' = dropped \cup {[to |-> to, report |-> report]}
      BY <1>3 DEF Routed
    <2> QED
      BY <1>1, <2>1, <2>2
  <1>5. delayed' \in BOOLEAN
    BY <1>1, <1>3 DEF Routed
  <1>6. EntryTypeOK'
    BY <1>1, <1>3, <1>4, <1>5 DEF EntryTypeOK, RegistryInv
  <1> QED
    BY <1>2, <1>6 DEF ReportInv

\* A held report is sent.
LEMMA ReleaseStepKeeps ==
    ASSUME ReportInv, RegistryInv', ReleaseStep PROVE ReportInv'
  <1>1. EntryTypeOK /\ RoutesInv /\ TalkInv /\ AnswerInv
    BY DEF ReportInv
  <1>2. RoutesInv' /\ CurInv' /\ TalkInv' /\ AnswerInv'
    BY <1>1, ReleaseKeeps
  <1>3. /\ held' \in Seq([to : Clients, report : ReportType, delay : Nat])
        /\ sent' \in [Clients -> Seq(ReportType)]
        /\ UNCHANGED << vars, registryVars, events, origin, behaviour, dropped, delayed,
                        ruled, asked, requests >>
    BY <1>1, ReleaseFacts
  <1>4. EntryTypeOK'
    BY <1>1, <1>3 DEF EntryTypeOK, RegistryInv
  <1> QED
    BY <1>2, <1>4 DEF ReportInv

\* Every step of order entry keeps what its clients are told true.
LEMMA ReportStep ==
    ASSUME IInv, RegistryInv, ReportInv, [EntryNext]_allVars PROVE ReportInv'
  <1>1. IInv' /\ RegistryInv'
    BY EntryStepsTheMarket, NextInv, RegistryStep
  <1>2. CASE RequestStep
    <2>1. ASSUME NEW key \in Sessions, NEW name \in Names, NewStep(key, name)
          PROVE  ReportInv'
      BY <1>1, <2>1, NewStepKeeps
    <2>2. ASSUME NEW key \in Clients, NEW name \in Names, NEW orig \in Names,
                 ChangeStep(key, name, orig)
          PROVE  ReportInv'
      BY <1>1, <2>2, ChangeStepKeeps
    <2>3. ASSUME NEW keys, NEW from \in Clients \cup {NoKey}, CancelMany(keys, from)
          PROVE  ReportInv'
      BY <1>1, <2>3, OtherStepKeeps
    <2>4. ASSUME NEW o \in OrderIds, AdminCancel(o) PROVE ReportInv'
      BY <1>1, <2>4, OtherStepKeeps
    <2> QED
      BY <1>2, <2>1, <2>2, <2>3, <2>4 DEF RequestStep
  <1>3. CASE CommandStep
    BY <1>1, <1>3, OtherStepKeeps, QuietStepKeeps DEF CommandStep
  <1>4. CASE EntryMatchStep
    BY <1>1, <1>4, OtherStepKeeps
  <1>5. CASE Emit
    BY <1>1, <1>5, EmitStepKeeps
  <1>6. CASE ReleaseStep
    BY <1>1, <1>6, ReleaseStepKeeps
  <1>7. CASE UNCHANGED allVars
    BY <1>1, <1>7, QuietStepKeeps
  <1> QED
    BY <1>2, <1>3, <1>4, <1>5, <1>6, <1>7 DEF EntryNext

\* Nobody is told anything before the first request.
LEMMA ReportInit == EntryInit => ReportInv
  <1> SUFFICES ASSUME EntryInit PROVE ReportInv
    OBVIOUS
  <1>1. /\ nextId = 1 /\ task = "idle" /\ events = << >> /\ held = << >>
        /\ sent = [c \in Clients |-> << >>] /\ asked = [c \in Clients |-> {}]
        /\ delayed = FALSE /\ dropped = {}
    BY DEF EntryInit, Init
  <1>2. \A o \in OrderIds : ~(o < nextId)
    BY <1>1, MaxOrdersAssumption DEF OrderIds
  <1>3. EntryTypeOK
    <2>1. /\ << >> \in Seq(EventType) /\ << >> \in Seq(Rule) /\ << >> \in Seq(ReportType)
          /\ << >> \in Seq([to : Clients, report : ReportType, delay : Nat])
          /\ << >> \in Seq(Names)
      OBVIOUS
    <2>2. /\ sent \in [Clients -> Seq(ReportType)] /\ asked \in [Clients -> SUBSET Names]
          /\ chain \in [OrderIds -> Seq(Names)]
          /\ index \in [Sessions \X Names -> OrderIds \cup {NoOrder}]
      BY <1>1, <2>1 DEF EntryInit
    <2>3. ruled \in 0..MaxRules /\ requests \in 0..MaxRequests
      BY EntryBounds DEF EntryInit
    <2> QED
      BY <1>1, <2>1, <2>2, <2>3 DEF EntryInit, EntryTypeOK
  <1>4. RoutesInv
    BY <1>1, <1>2 DEF RoutesInv
  <1> QED
    BY <1>1, <1>2, <1>3, <1>4 DEF ReportInv, CurInv, TalkInv, AnswerInv

----------------------------------------------------------------------------
(* What the clients see *)

\* An id that has not been issued is nobody's.
Unowned == \A o \in OrderIds : o >= nextId => orders[o].session = NoKey

\* Only a new order that is accepted gets an owner.
LEMMA UnownedStep ==
    ASSUME IInv, Unowned, RegistryNext PROVE Unowned'
  <1>1. nextId \in Nat /\ orders \in [OrderIds -> OrderType]
    BY MaxOrdersAssumption DEF IInv, TypeOK
  <1>2. CASE OwnersKept /\ nextId' = nextId
    BY <1>2 DEF OwnersKept, Unowned
  <1>3. ASSUME NEW r, NewOrder(r) PROVE Unowned'
    <2>1. nextId' = nextId + 1
      BY <1>3 DEF NewOrder
    <2>2. \A q \in OrderIds \ {nextId} : orders'[q] = orders[q]
      BY <1>1, <1>3 DEF NewOrder, Submit, SubmitRejected, SubmitAccumulated,
                        SubmitBlocked, SubmitMatching, Settle
    <2>3. \A q \in OrderIds : q >= nextId' => q # nextId /\ q >= nextId
      BY <1>1, <2>1 DEF OrderIds
    <2> QED
      BY <2>2, <2>3 DEF Unowned
  <1> QED
    BY <1>2, <1>3 DEF RegistryNext, NewAccepted

\* The greatest element of a set of numbers, where there is one.
LEMMA GreatestIsMax ==
    ASSUME NEW S, S \subseteq Nat, NEW m \in S, \A y \in S : y <= m
    PROVE  Max(S) = m
  <1>1. \E x \in S : \A y \in S : x >= y
    OBVIOUS
  <1>2. Max(S) \in S /\ \A y \in S : Max(S) >= y
    BY <1>1 DEF Max
  <1>3. PICK n : n = Max(S)
    OBVIOUS
  <1>4. n \in Nat /\ m \in Nat /\ n >= m /\ n <= m
    BY <1>2, <1>3
  <1> QED
    BY <1>3, <1>4

\* Where the reports of an order stand among those its owner was sent.
LEMMA PlacesFacts ==
    ASSUME EntryTypeOK, NEW o \in OrderIds, NEW c \in Clients, c = orders[o].session
    PROVE  /\ SentToOwner(o) = sent[c] /\ sent[c] \in Seq(ReportType)
           /\ AboutOf(o) = {i \in 1..Len(sent[c]) : About(sent[c][i], o)}
           /\ FillsOf(o) = {i \in 1..Len(sent[c]) : Fill(sent[c][i], o)}
           /\ EndsOf(o)  = {i \in 1..Len(sent[c]) : Final(sent[c][i], o)}
  <1>1. SentToOwner(o) = sent[c] /\ sent[c] \in Seq(ReportType)
    BY DEF SentToOwner, EntryTypeOK
  <1>2. PICK s \in Seq(ReportType) : s = sent[c]
    BY <1>1
  <1>3. DOMAIN s = 1..Len(s)
    BY <1>2
  <1>4. AboutOf(o) = {i \in 1..Len(s) : About(s[i], o)}
    BY <1>1, <1>2, <1>3 DEF AboutOf, About
  <1>5. FillsOf(o) = {i \in 1..Len(s) : Fill(s[i], o)}
    BY <1>1, <1>2, <1>4 DEF FillsOf, About, Fill
  <1>6. EndsOf(o) = {i \in 1..Len(s) : Final(s[i], o)}
    BY <1>1, <1>2, <1>4 DEF EndsOf, About, Final
  <1> QED
    BY <1>1, <1>2, <1>4, <1>5, <1>6

\* With nothing left to say, the invariant is what the clients see.
LEMMA WhatClientsSee == IInv /\ Unowned /\ ReportInv => ClientViewIsTrue
  <1> SUFFICES ASSUME IInv, Unowned, ReportInv PROVE ClientViewIsTrue
    OBVIOUS
  <1>1. /\ EntryTypeOK /\ RoutesInv /\ TalkInv /\ AnswerInv
        /\ nextId \in Nat /\ orders \in [OrderIds -> OrderType]
    BY MaxOrdersAssumption DEF ReportInv, IInv, TypeOK
  <1>2. ASSUME NEW o \in OrderIds, orders[o].session \in Clients
        PROVE  /\ o < nextId
               /\ ~delayed /\ dropped = {} => Known(o) /\ Stated(o)
               /\ ~delayed => Ascending(o)
               /\ EndedInv(o)
    <2>1. o < nextId
      BY <1>1, <1>2, ClientsAssumption DEF Unowned, OrderIds
    <2> QED
      BY <1>1, <1>2, <2>1 DEF TalkInv
  <1>3. Ready => Len(events) = 0 /\ ~(task = "match")
    BY DEF Ready
  <1>4. ReportsGoToTheOwner
    <2>1. SUFFICES ASSUME NEW c \in Clients, NEW r \in ReportsOf(c), r.order # NoOrder
                   PROVE  \/ orders[r.order].session = c
                          \/ orders[r.order].session \notin Clients
      BY DEF ReportsGoToTheOwner
    <2>2. sent[c] \in Seq(ReportType)
      BY <1>1 DEF EntryTypeOK
    <2>3. PICK i \in 1..Len(sent[c]) : r = sent[c][i]
      BY <2>2 DEF ReportsOf, Range
    <2>4. Owned(c, r)
      BY <1>1, <2>3 DEF RoutesInv
    <2> QED
      BY <2>1, <2>4 DEF Owned
  <1>5. FillsAddUp
    <2>1. SUFFICES ASSUME Ready, ~delayed, NEW o \in OrderIds,
                          NEW c \in Clients, c = orders[o].session
                   PROVE  /\ \A i, j \in FillsOf(o) : i < j =>
                                SentToOwner(o)[i].cum < SentToOwner(o)[j].cum
                          /\ dropped = {} =>
                                orders[o].cum = Max({0} \cup {SentToOwner(o)[i].cum :
                                                              i \in FillsOf(o)})
      BY DEF FillsAddUp
    <2>2. PICK s \in Seq(ReportType) : s = sent[c]
      BY <1>1, <2>1 DEF EntryTypeOK
    <2>3. SentToOwner(o) = s /\ FillsOf(o) = {i \in 1..Len(s) : Fill(s[i], o)}
      BY <1>1, <2>1, <2>2, PlacesFacts
    <2>4. \A i \in 1..Len(s) : Fill(s[i], o) =>
             /\ s[i].cum <= orders[o].cum
             /\ \A j \in 1..Len(s) : i < j /\ Fill(s[j], o) => s[i].cum < s[j].cum
      BY <1>2, <2>1, <2>2 DEF Ascending
    <2>5. ASSUME dropped = {}
          PROVE  orders[o].cum = Max({0} \cup {s[i].cum : i \in FillsOf(o)})
      <3> DEFINE S == {0} \cup {s[i].cum : i \in FillsOf(o)}
      <3>1. orders[o].cum \in Nat
        BY <1>1 DEF OrderType
      <3>2. \A i \in 1..Len(s) : s[i].cum \in Nat
        <4>1. \A i \in 1..Len(s) : s[i] \in ReportType
          BY <2>2
        <4> QED
          BY <4>1 DEF ReportType
      <3>3. S \subseteq Nat
        BY <2>3, <3>2
      <3>4. orders[o].cum \in S
        <4>1. Stated(o)
          BY <1>2, <2>1, <2>5
        <4>2. \/ orders[o].cum = 0
              \/ \E i \in 1..Len(s) : Fill(s[i], o) /\ s[i].cum = orders[o].cum
          BY <1>3, <2>1, <2>2, <4>1 DEF Stated
        <4> QED
          BY <2>3, <4>2
      <3>5. \A y \in S : y <= orders[o].cum
        BY <2>3, <2>4, <3>1
      <3> HIDE DEF S
      <3>6. Max(S) = orders[o].cum
        BY <3>3, <3>4, <3>5, GreatestIsMax
      <3> QED
        BY <3>6 DEF S
    <2> QED
      BY <2>3, <2>4, <2>5
  <1>6. LastReportIsCurrent
    <2>1. SUFFICES ASSUME Ready, ~delayed, dropped = {}, NEW o \in OrderIds,
                          NEW c \in Clients, c = orders[o].session
                   PROVE  \E i \in AboutOf(o) : /\ \A j \in AboutOf(o) : j <= i
                                                /\ States(SentToOwner(o)[i], o)
      BY DEF LastReportIsCurrent
    <2>2. PICK s : s = sent[c]
      OBVIOUS
    <2>3. SentToOwner(o) = s /\ AboutOf(o) = {i \in 1..Len(s) : About(s[i], o)}
      BY <1>1, <2>1, <2>2, PlacesFacts
    <2>4. Known(o)
      BY <1>2, <2>1
    <2>5. \E i \in 1..Len(s) :
             /\ About(s[i], o) /\ States(s[i], o)
             /\ \A j \in 1..Len(s) : About(s[j], o) => j <= i
      BY <1>3, <2>1, <2>2, <2>4 DEF Known
    <2> QED
      BY <2>3, <2>5
  <1>7. EveryRequestIsAnswered
    BY <1>1, <1>3 DEF EveryRequestIsAnswered, AnswerInv, Awaited
  <1>8. EndedOnce
    <2>1. SUFFICES ASSUME NEW o \in OrderIds
                   PROVE  /\ \A i, j \in EndsOf(o) : i = j
                          /\ EndsOf(o) # {} => orders[o].status \in TERMINAL
      BY DEF EndedOnce
    <2>2. CASE orders[o].session \in Clients
      <3>1. EndsOf(o) = {i \in 1..Len(sent[orders[o].session]) :
                            Final(sent[orders[o].session][i], o)}
        BY <1>1, <2>2, PlacesFacts
      <3>2. EndedInv(o)
        BY <1>2, <2>2
      <3> QED
        BY <3>1, <3>2 DEF EndedInv, SaidSent
    <2>3. CASE orders[o].session \notin Clients
      <3>1. EndsOf(o) = {}
        BY <2>3 DEF EndsOf, AboutOf, SentToOwner
      <3> QED
        BY <3>1
    <2> QED
      BY <2>2, <2>3
  <1> QED
    BY <1>1, <1>4, <1>5, <1>6, <1>7, <1>8 DEF ClientViewIsTrue

\* So it is from the start.
LEMMA TruthInit == EntryInit => ReportInv /\ Unowned
  <1>1. EntryInit => Unowned
    BY DEF EntryInit, Init, Blank, Unowned
  <1> QED
    BY <1>1, ReportInit

\* And after every step.
LEMMA TruthStep ==
    IInv /\ RegistryInv /\ ReportInv /\ Unowned /\ [EntryNext]_allVars
      => ReportInv' /\ Unowned'
  BY ReportStep, UnownedStep, EntryStepsTheMarket

\* For any number of clients, orders, identifiers and rules, whether orders are
\* acknowledged on entry or not: a client's reports are of its own orders, fill by
\* fill, the last of them is true, every request is answered, and an end is
\* reported once (JapannextHandlers._emit, _session_for and _deliver).
THEOREM ClientsAreToldTheTruth == EntrySpec => []ClientViewIsTrue
  BY TruthInit, TruthStep, EntryInvariance, WhatClientsSee, PTL DEF EntrySpec

\* The same holds of the venue, whatever its configuration, across reloads, logons
\* and disconnects; and a client that is logged on knows the phase of its market.
THEOREM ClientsKnowTheVenue == JapannextSpec => []ClientKnowsTheVenue
  <1>1. IInv /\ Unowned /\ ReportInv /\ StatusIsKnown => ClientKnowsTheVenue
    BY WhatClientsSee DEF ClientKnowsTheVenue
  <1> QED
    BY <1>1, TruthInit, TruthStep, JapannextImplementsEntry, VenueInvariance,
       VenueStatusCorrect, PTL

=============================================================================
