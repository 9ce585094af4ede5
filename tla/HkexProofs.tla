----------------------------- MODULE HkexProofs -----------------------------
(***************************************************************************)
(* Proofs about the HKEX venue: the market and the registry of identifiers *)
(* under everything the venue adds to them, the acknowledgement that comes *)
(* before all other reports of an order, and the limits of an auction      *)
(* session; for every number of clients, orders and prices, every spread   *)
(* and every order of phases, locks, reloads and disconnects.              *)
(*                                                                         *)
(* EngineNext is the interface: everything that a step of the venue does   *)
(* to orders, identifiers, events and reports.  That the venue implements  *)
(* it is proved once.                                                      *)
(***************************************************************************)
EXTENDS HkexVenue, MarketProofs, FiniteSetTheorems

----------------------------------------------------------------------------
(* What the venue keeps of its own *)

Bands == {None} \cup (Nat \X Nat)

AuctionSessions ==
    [kind : {"NONE", "POS", "CAS"}, locked : BOOLEAN, ref : Nat, pin : Bands]

HkexTypes ==
    /\ session \in AuctionSessions
    /\ base \in Nat /\ lastPrice \in Nat
    /\ smp \in [StpIds -> StpModes \cup {NoKey}]
    /\ band \in Bands

----------------------------------------------------------------------------
(* The steps of the venue, as orders, identifiers and reports see them *)

IsSequence(s) == \E E : s \in Seq(E)

\* A refusal of a cancel or a replace, and what names no order, say nothing of one.
SaysNothing(report) == \A o \in OrderIds : ~SaysOf(report, o)

\* Reports were added, none of which says anything of an order.
QuietlyGrown(old, new) ==
    /\ IsSequence(new)
    /\ Len(old) <= Len(new)
    /\ \A i \in 1..Len(old) : new[i] = old[i]
    /\ \A i \in (Len(old) + 1)..Len(new) : SaysNothing(new[i])

SentQuietly ==
    /\ DOMAIN sent' = Clients
    /\ \A c \in Clients : QuietlyGrown(sent[c], sent'[c])

\* A request is answered, and nothing but the answer happens, ...
Talks ==
    /\ Ready
    /\ UNCHANGED << vars, registryVars >>
    /\ \/ events' = events /\ SentQuietly
       \/ \E e : SaysNothing(e) /\ events' = << e >> /\ sent' = sent

\* ... orders of the book are cancelled, perhaps in a new phase, ...
Sweeps ==
    /\ Ready
    /\ \E S, T \in SUBSET OnBook : /\ orders' = Cancelled(S)
                                   /\ place' = Removed(place, S)
                                   /\ CancelEvents(T)
    /\ SentQuietly
    /\ marketState' \in AllPhases
    /\ override' \in AllPhases \cup {NoOverride}
    /\ stpMode' = stpMode
    /\ phases' \in 0..MaxPhases
    /\ UNCHANGED << arrivals, nextId, taskVars, amends, registryVars >>

\* ... an operator changes a setting, or begins the auction, ...
Sets ==
    /\ Ready
    /\ \/ /\ Command
          /\ marketState' \in {marketState, "OPENING_AUCTION"}
          /\ UNCHANGED << orders, place, override, stpMode, taskVars >>
       \/ \E s \in Phases : StartUncrossAt(s, session.ref)
    /\ UNCHANGED << registryVars, events, sent >>

\* ... or a request reaches the engine.
Asks(key, name) ==
    \/ \E r \in Requests :
          NewAccepted(key, name, [r EXCEPT !.stpInst = SmpInstructionFor(r.stpId)])
    \/ \E orig \in Names, o \in OrderIds :
          \/ CancelOrderRequest(key, name, orig, o)
          \/ \E a \in Amendments : ReplaceOrder(key, name, orig, o, a)

\* The loop of the auction, with its reports.
AuctionLoop ==
    \/ \E b, s \in OrderIds :
          AuctionTrade(b, s) /\ Loop(<< FillEvent(b), FillEvent(s) >>)
    \/ /\ FinishUncross
       /\ \E T \in SUBSET OnBook : \E q \in BookSequences(T) :
             Loop([i \in DOMAIN q |-> Event("CANCELLED", q[i])])

\* The timer of a delayed report.
Releases ==
    /\ held # << >>
    /\ UNCHANGED << vars, registryVars, events >>
    /\ \E to, report : Send(to, report)

EngineNext ==
    \/ UNCHANGED << vars, registryVars, events, sent >>
    \/ Releases
    \/ Talks
    \/ Sweeps
    \/ Sets
    \/ \E key \in Clients, name \in Names : Asks(key, name)
    \/ EntryMatchStep
    \/ AuctionLoop
    \/ HkexEmit

SentInv == DOMAIN sent = Clients /\ \A c \in Clients : IsSequence(sent[c])

\* What is sent at once.
LEMMA SentNow ==
    ASSUME SentInv, NEW to \in Clients, NEW reports, IsSequence(reports),
           \A i \in DOMAIN reports : SaysNothing(reports[i]),
           SendNow(to, reports)
    PROVE  SentQuietly
  <1>1. PICK E : sent[to] \in Seq(E)
    BY DEF SentInv, IsSequence
  <1>2. PICK F : reports \in Seq(F)
    BY DEF IsSequence
  <1>3. sent[to] \in Seq(E \cup F) /\ reports \in Seq(E \cup F)
    BY <1>1, <1>2
  <1>4. QuietlyGrown(sent[to], sent[to] \o reports)
    <2> DEFINE old == sent[to]
    <2>1. old \o reports \in Seq(E \cup F) /\ Len(old \o reports) = Len(old) + Len(reports)
      BY <1>3
    <2>2. \A i \in 1..Len(old) : (old \o reports)[i] = old[i]
      BY <1>3
    <2>3. ASSUME NEW i \in (Len(old) + 1)..Len(old \o reports)
          PROVE  SaysNothing((old \o reports)[i])
      <3>1. (old \o reports)[i] = reports[i - Len(old)] /\ i - Len(old) \in DOMAIN reports
        BY <1>3, <2>1
      <3> QED
        BY <3>1
    <2>4. Len(old) \in Nat /\ Len(reports) \in Nat
      BY <1>3
    <2> HIDE DEF old
    <2> QED
      BY <2>1, <2>2, <2>3, <2>4 DEF QuietlyGrown, IsSequence, old
  <1>5. \A c \in Clients : QuietlyGrown(sent[c], sent[c])
    BY DEF SentInv, IsSequence, QuietlyGrown
  <1>6. sent' = [sent EXCEPT ![to] = sent[to] \o reports]
    BY DEF SendNow
  <1> QED
    BY <1>4, <1>5, <1>6 DEF SentInv, SentQuietly

LEMMA SentNothing == SentInv /\ sent' = sent => SentQuietly
  BY DEF SentInv, IsSequence, QuietlyGrown, SentQuietly

----------------------------------------------------------------------------
(* Values of the venue *)

LEMMA StageOneType ==
    ASSUME NEW a \in AuctionSessions
    PROVE  /\ Stage1Limits(a) \in Bands
           /\ a.ref # NoPrice => Stage1Limits(a) # None
  <1> DEFINE margin == (a.ref * Percent(a.kind)) \div 100
  <1>1. a.ref \in Nat /\ a.kind \in {"NONE", "POS", "CAS"}
    BY DEF AuctionSessions
  <1>2. Percent(a.kind) \in {5, 15}
    BY DEF Percent
  <1>3. (a.ref * 5) \div 100 \in Nat /\ (a.ref * 15) \div 100 \in Nat
    BY <1>1
  <1>4. margin \in Nat
    BY <1>2, <1>3
  <1>5. Stage1Limits(a) = IF a.ref = NoPrice THEN None
                          ELSE << Greater(1, a.ref - margin), a.ref + margin >>
    BY DEF Stage1Limits
  <1> HIDE DEF margin
  <1>6. Greater(1, a.ref - margin) \in Nat /\ a.ref + margin \in Nat
    BY <1>1, <1>4 DEF Greater
  <1> QED
    BY <1>5, <1>6 DEF Bands, None

\* The best price of a side that has a priced order.
LEMMA BestPriceType ==
    ASSUME IInv, NEW side \in Sides, Priced(place, side) # {}
    PROVE  /\ BestPrice(side) \in Nat
           /\ \E o \in Priced(place, side) : BestPrice(side) = orders[o].price
  <1> DEFINE o == CHOOSE q \in BestLevel(place, side) : TRUE
  <1>1. o \in BestLevel(place, side)
    BY BestExists
  <1>2. o \in Priced(place, side) /\ o \in OrderIds
    BY <1>1 DEF BestLevel, Priced, Resting
  <1>3. orders[o].price \in Nat
    BY <1>2 DEF IInv, TypeOK, OrderType
  <1>4. BestPrice(side) = orders[o].price
    BY DEF BestPrice
  <1> HIDE DEF o
  <1> QED
    BY <1>2, <1>3, <1>4

LEMMA PinnedType == IInv => Pinned \in Bands
  <1> SUFFICES ASSUME IInv, Priced(place, "BUY") # {}, Priced(place, "SELL") # {}
               PROVE  Pinned \in Bands
    BY DEF Pinned, Bands
  <1>1. BestPrice("BUY") \in Nat /\ BestPrice("SELL") \in Nat
    BY BestPriceType DEF Sides
  <1>2. Pinned = << Lesser(BestPrice("BUY"), BestPrice("SELL")),
                    Greater(BestPrice("BUY"), BestPrice("SELL")) >>
    BY DEF Pinned
  <1>3. /\ Lesser(BestPrice("BUY"), BestPrice("SELL")) \in Nat
        /\ Greater(BestPrice("BUY"), BestPrice("SELL")) \in Nat
    BY <1>1 DEF Lesser, Greater
  <1> QED
    BY <1>2, <1>3 DEF Bands

LEMMA HullType ==
    ASSUME NEW b \in Bands, NEW c \in Bands
    PROVE  Hull(b, c) \in Bands
  BY DEF Hull, Bands, Lesser, Greater, None

LEMMA OpeningType ==
    ASSUME base \in Nat, lastPrice \in Nat, NEW kind \in {"NONE", "POS", "CAS"}
    PROVE  Opening(kind) \in AuctionSessions
  BY DEF Opening, AuctionSessions, ReferencePrice, Bands

\* A request that the venue's validator accepts is one the market may take, also
\* with the instruction held against its self-match key.
LEMMA InstructedRequest ==
    ASSUME HkexTypes, NEW r \in Requests
    PROVE  ValidRequest([r EXCEPT !.stpInst = SmpInstructionFor(r.stpId)])
  <1>1. ValidRequest(r)
    BY RequestsAssumption
  <1>2. SmpInstructionFor(r.stpId) \in StpModes \cup {NoKey}
    BY <1>1 DEF ValidRequest, SmpInstructionFor, HkexTypes, StpModes
  <1> DEFINE inst == SmpInstructionFor(r.stpId)
  <1> HIDE DEF inst
  <1> QED
    BY <1>1, <1>2 DEF ValidRequest, inst

----------------------------------------------------------------------------
(* The venue takes these steps *)

LEMMA RefusalsSayNothing ==
    /\ \A kind, name, o : kind \in {"CANCEL_REJECTED", "CANCEL_REFUSED"} =>
          SaysNothing(Message(kind, o, name))
    /\ \A kind, name : SaysNothing(Message(kind, NoOrder, name))
    /\ \A key, name : SaysNothing(RejectEvent(key, name))
    /\ \A o, key, name : SaysNothing(CancelRejectEvent(o, key, name))
  <1>1. \A o \in OrderIds : o # NoOrder
    BY MaxOrdersAssumption DEF OrderIds, NoOrder
  <1> QED
    BY <1>1 DEF SaysNothing, SaysOf, Message, RejectEvent, CancelRejectEvent

\* Requests that the venue answers by itself.
LEMMA AnsweredSteps ==
    ASSUME SentInv, NEW key \in Clients, NEW name,
           \/ RefuseOrder(key, name)
           \/ \E orig \in Names : TooLate(key, name, orig)
           \/ OnEntitlementRequest(key, name)
    PROVE  Talks
  <1>1. ASSUME NEW e, SaysNothing(e), SendNow(key, << e >>) PROVE SentQuietly
    <2>1. IsSequence(<< e >>)
      <3>1. << e >> \in Seq({e})
        OBVIOUS
      <3> QED
        BY <3>1 DEF IsSequence
    <2>2. \A i \in DOMAIN << e >> : SaysNothing(<< e >>[i])
      BY <1>1
    <2> QED
      BY <1>1, <2>1, <2>2, SentNow
  <1>2. CASE RefuseOrder(key, name)
    <2> DEFINE e == Message("REJECTED", NoOrder, name)
    <2>1. SaysNothing(e) /\ SendNow(key, << e >>)
      BY <1>2, RefusalsSayNothing DEF RefuseOrder
    <2> HIDE DEF e
    <2> QED
      BY <1>1, <1>2, <2>1 DEF RefuseOrder, Request, Talks
  <1>3. ASSUME NEW orig \in Names, TooLate(key, name, orig) PROVE Talks
    <2> DEFINE e == ForWire(key, Message("CANCEL_REJECTED", Resolve(key, orig), name))
    <2>1. e.kind \in {"CANCEL_REJECTED", "CANCEL_REFUSED"}
      BY DEF ForWire, Message
    <2>2. SaysNothing(e) /\ SendNow(key, << e >>)
      BY <1>3, <2>1 DEF TooLate, SaysNothing, SaysOf
    <2> HIDE DEF e
    <2> QED
      BY <1>1, <1>3, <2>2 DEF TooLate, Request, Talks
  <1>4. CASE OnEntitlementRequest(key, name)
    <2> DEFINE e == Message("ENTITLEMENT_REPORT", NoOrder, name)
               n == Greater(1, Registered(key).brokers)
               reports == [i \in 1..n |-> e]
    <2>1. n \in Nat
      <3>1. PICK i \in DOMAIN SessionEntries : Registered(key) = SessionEntries[i]
        <4>1. \E i \in DOMAIN SessionEntries : SessionEntries[i].target = key
          BY HkexAssumption
        <4> QED
          BY <4>1 DEF Registered
      <3>2. \A entries \in MarketConfigs :
                ValidSessions(SessionEntries, DOMAIN BuildMarkets(entries, {HomeSegment}))
        BY HkexAssumption
      <3>3. SessionEntries[i].brokers \in Nat
        BY <3>1, <3>2, HkexAssumption DEF ValidSessions
      <3> QED
        BY <3>1, <3>3 DEF Greater
    <2>2. SaysNothing(e) /\ SendNow(key, reports)
      BY <1>4, RefusalsSayNothing DEF OnEntitlementRequest
    <2> HIDE DEF n, e
    <2>3. reports \in Seq({e}) /\ \A i \in DOMAIN reports : reports[i] = e
      BY <2>1
    <2> HIDE DEF reports
    <2>4. SentQuietly
      BY <2>2, <2>3, SentNow DEF IsSequence
    <2> QED
      BY <1>4, <2>4 DEF OnEntitlementRequest, Request, Talks
  <1> QED
    BY <1>2, <1>3, <1>4

\* Requests that cancel orders of the book, of the requester or of the security.
LEMMA SweepingSteps ==
    ASSUME IInv, SentInv,
           \/ \E key \in Clients, name \in Names :
                 \E sides \in {Sides, {"BUY"}, {"SELL"}} :
                    OnMassCancel(key, name, sides) /\ ~UNCHANGED << vars, events >>
           \/ \E key \in Clients : OnLogout(key)
           \/ \E s \in Phases : EnterPhase(s) \/ InstrumentPhase(s)
    PROVE  Sweeps
  <1>1. /\ marketState \in AllPhases /\ override \in AllPhases \cup {NoOverride}
        /\ phases \in 0..MaxPhases
    BY DEF IInv, TypeOK
  <1>2. ASSUME NEW key \in Clients, NEW name \in Names,
               NEW sides \in {Sides, {"BUY"}, {"SELL"}},
               OnMassCancel(key, name, sides), ~UNCHANGED << vars, events >>
        PROVE  Sweeps
    <2> DEFINE mine == {o \in OnBook : orders[o].session = key /\ orders[o].side \in sides}
               e == Message("MASS_CANCEL_REPORT", NoOrder, name)
    <2>1. /\ Ready /\ SendNow(key, << e >>)
          /\ orders' = Cancelled(mine) /\ place' = Removed(place, mine)
          /\ CancelEvents(mine)
          /\ UNCHANGED << arrivals, nextId, phaseVars, taskVars, amends, registryVars >>
      BY <1>2 DEF OnMassCancel, Request
    <2>2. mine \in SUBSET OnBook
      OBVIOUS
    <2>3. SaysNothing(e)
      BY RefusalsSayNothing
    <2> HIDE DEF mine, e
    <2>4. SentQuietly
      <3>1. << e >> \in Seq({e}) /\ \A i \in DOMAIN << e >> : SaysNothing(<< e >>[i])
        BY <2>3
      <3> QED
        BY <2>1, <3>1, SentNow DEF IsSequence
    <2> QED
      BY <1>1, <2>1, <2>2, <2>4 DEF Sweeps, phaseVars
  <1>3. ASSUME NEW key \in Clients, OnLogout(key) PROVE Sweeps
    <2> DEFINE mine == {o \in OnBook : orders[o].session \in {key}}
    <2>1. /\ Ready /\ sent' = sent
          /\ orders' = Cancelled(mine) /\ place' = Removed(place, mine)
          /\ CancelEvents(mine)
          /\ UNCHANGED << arrivals, nextId, phaseVars, taskVars, amends, registryVars >>
      BY <1>3 DEF OnLogout, CancelMany, CancelAll, reportVars
    <2>2. mine \in SUBSET OnBook
      OBVIOUS
    <2> HIDE DEF mine
    <2> QED
      BY <1>1, <2>1, <2>2, SentNothing DEF Sweeps, phaseVars
  <1>4. ASSUME NEW s \in Phases, EnterPhase(s) PROVE Sweeps
    <2> DEFINE opens == KindOf(s) \notin {"NONE", session.kind}
               closing == IF s # marketState /\ s \in NO_ENTRY THEN OnBook ELSE {}
               gone == closing \cup IF opens THEN CancelledOnOpening(Opening(KindOf(s)))
                                    ELSE {}
    <2>1. /\ Ready /\ sent' = sent /\ marketState' = s /\ phases' = phases + 1 /\ phases < MaxPhases
          /\ orders' = Cancelled(gone) /\ place' = Removed(place, gone)
          /\ CancelEvents(gone)
          /\ UNCHANGED << arrivals, nextId, override, stpMode, taskVars, amends,
                          registryVars >>
      BY <1>4 DEF EnterPhase, HkexCommand, Command, reportVars
    <2>2. gone \in SUBSET OnBook
      BY DEF CancelledOnOpening
    <2>3. s \in AllPhases
      BY PhasesAssumption
    <2> HIDE DEF gone
    <2> QED
      BY <1>1, <2>1, <2>2, <2>3, SentNothing, BoundsAssumption DEF Sweeps
  <1>5. ASSUME NEW s \in Phases, InstrumentPhase(s) PROVE Sweeps
    <2> DEFINE T == {o \in OnBook : orders'[o] # orders[o]}
    <2>1. /\ Ready /\ sent' = sent /\ override' = s /\ phases' = phases + 1 /\ phases < MaxPhases
          /\ ExpireOrders(override # s, s)
          /\ CancelEvents(T)
          /\ UNCHANGED << arrivals, nextId, marketState, stpMode, taskVars, amends,
                          registryVars >>
      BY <1>5 DEF InstrumentPhase, SetInstrumentState, Command, reportVars
    <2>2. T \in SUBSET OnBook /\ s \in AllPhases
      BY PhasesAssumption
    <2> HIDE DEF T
    <2>3. \E S \in SUBSET OnBook : orders' = Cancelled(S) /\ place' = Removed(place, S)
      <3>1. CASE UNCHANGED << orders, place >>
        <4>1. orders' = Cancelled({}) /\ place' = Removed(place, {})
          BY <3>1 DEF IInv, TypeOK, Cancelled, Removed
        <4> QED
          BY <4>1
      <3> QED
        BY <2>1, <3>1 DEF ExpireOrders
    <2> QED
      BY <1>1, <2>1, <2>2, <2>3, SentNothing, BoundsAssumption DEF Sweeps
  <1> QED
    BY <1>2, <1>3, <1>4, <1>5

LEMMA TimersRelease == HkexRelease => Releases
  <1> SUFFICES ASSUME HkexRelease PROVE Releases
    OBVIOUS
  <1>1. PICK i \in DOMAIN held : Release(i)
    BY DEF HkexRelease, ReleaseStep
  <1>2. held # << >>
    OBVIOUS
  <1> QED
    BY <1>1, <1>2 DEF Release, Releases

\* Reports are dropped and delayed only as they are rendered.
LEMMA HistoryStep ==
    [HkexNext]_hkexAll => \/ HkexEmit \/ HkexRelease
                          \/ UNCHANGED << held, dropped, delayed >>
  <1> DEFINE Kept == UNCHANGED << held, dropped, delayed >>
  <1>1. ASSUME UNCHANGED reportVars PROVE Kept
    BY <1>1 DEF reportVars
  <1>2. ASSUME NEW key \in Clients, NEW name \in Names, HkexRequest(key, name)
        PROVE  Kept
    <2>1. ASSUME NEW r \in Requests, OnNewOrder(key, name, r) PROVE Kept
      BY <1>1, <2>1 DEF OnNewOrder, NewDuplicate, NewForcedReject, NewInvalid, NewAccepted
    <2>2. ASSUME NEW orig \in Names, OnCancel(key, name, orig) \/ OnReplace(key, name, orig)
          PROVE  Kept
      BY <1>1, <2>2 DEF OnCancel, Unresolved, CancelOrderRequest, OnReplace, ReplaceOrder
    <2>3. ASSUME NEW to, NEW reports, SendNow(to, reports) PROVE Kept
      BY <2>3 DEF SendNow
    <2>4. CASE \/ RefuseOrder(key, name) \/ OnEntitlementRequest(key, name)
               \/ \E orig \in Names : TooLate(key, name, orig)
               \/ \E sides \in {Sides, {"BUY"}, {"SELL"}} : OnMassCancel(key, name, sides)
      BY <2>3, <2>4 DEF RefuseOrder, OnEntitlementRequest, TooLate, OnMassCancel
    <2> QED
      BY <1>2, <2>1, <2>2, <2>4 DEF HkexRequest
  <1>3. ASSUME NEW key \in Clients, OnLogout(key) PROVE Kept
    BY <1>1, <1>3 DEF OnLogout, CancelMany
  <1>4. ASSUME HkexOperator PROVE Kept
    <2>1. ASSUME NEW s \in Phases, EnterPhase(s) \/ CloseAuction(s) \/ InstrumentPhase(s)
          PROVE  Kept
      BY <1>1, <2>1 DEF EnterPhase, HkexCommand, CloseAuction, InstrumentPhase
    <2>2. CASE \/ LockAuction \/ ReloadReferenceData
               \/ \E p \in References : SetReference(p)
               \/ \E id \in StpIds, mode \in {"CANCEL_NEWEST", "CANCEL_OLDEST", NoKey} :
                     RegisterSmp(id, mode)
      BY <1>1, <2>2 DEF LockAuction, ReloadReferenceData, SetReference, RegisterSmp,
                        SetOnly, HkexCommand
    <2>3. CASE BehaviourCommand
      BY <2>3 DEF BehaviourCommand, SetBehaviour, ClearBehaviour
    <2> QED
      BY <1>4, <2>1, <2>2, <2>3 DEF HkexOperator
  <1>5. ASSUME HkexMatchStep \/ HkexAuctionStep PROVE Kept
    BY <1>1, <1>5 DEF HkexMatchStep, EntryMatchStep, HkexAuctionStep, Loop
  <1>6. ASSUME UNCHANGED hkexAll PROVE Kept
    BY <1>1, <1>6 DEF hkexAll, allVars, entryVars
  <1> QED
    BY <1>2, <1>3, <1>4, <1>5, <1>6 DEF HkexNext

\* Every step of the venue is one of EngineNext.
LEMMA VenueSteps ==
    ASSUME IInv, SentInv, [HkexNext]_hkexAll
    PROVE  EngineNext
  <1>1. ASSUME NEW key \in Clients, NEW name \in Names, HkexRequest(key, name)
        PROVE  EngineNext
    <2>1. CASE \/ RefuseOrder(key, name) \/ OnEntitlementRequest(key, name)
               \/ \E orig \in Names : TooLate(key, name, orig)
      BY <2>1, AnsweredSteps DEF EngineNext
    <2>2. ASSUME NEW e, SaysNothing(e), Request(key, name), Answer(e), UNCHANGED reportVars
          PROVE  Talks
      BY <2>2 DEF Talks, Request, Answer, reportVars
    <2>3. ASSUME NEW r \in Requests, OnNewOrder(key, name, r) PROVE EngineNext
      <3> DEFINE e == RejectEvent(key, name)
      <3>1. SaysNothing(e)
        BY RefusalsSayNothing
      <3>2. CASE NewForcedReject(key, name)
        <4>1. /\ Request(key, name) /\ Answer(e) /\ sent' = sent
          BY <3>2 DEF NewForcedReject
        <4> HIDE DEF e
        <4>2. Talks
          BY <3>1, <4>1 DEF Talks, Request, Answer
        <4> QED
          BY <4>2 DEF EngineNext
      <3>3. CASE NewDuplicate(key, name) \/ NewInvalid(key, name)
        <4>1. Request(key, name) /\ Answer(e) /\ UNCHANGED reportVars
          BY <3>3 DEF NewDuplicate, NewInvalid
        <4> HIDE DEF e
        <4> QED
          BY <2>2, <3>1, <4>1 DEF EngineNext
      <3>4. CASE NewAccepted(key, name, [r EXCEPT !.stpInst = SmpInstructionFor(r.stpId)])
        BY <3>4 DEF EngineNext, Asks
      <3> QED
        BY <2>3, <3>2, <3>3, <3>4 DEF OnNewOrder
    <2>4. ASSUME NEW orig \in Names, OnCancel(key, name, orig) \/ OnReplace(key, name, orig)
          PROVE  EngineNext
      <3>1. CASE Unresolved(key, name, orig)
        <4>1. \E o : /\ Request(key, name) /\ Answer(CancelRejectEvent(o, key, name))
                     /\ UNCHANGED reportVars
          BY <3>1 DEF Unresolved
        <4> QED
          BY <2>2, <4>1, RefusalsSayNothing DEF EngineNext
      <3>2. CASE \E o \in OrderIds :
                    \/ CancelOrderRequest(key, name, orig, o)
                    \/ \E a \in Amendments : ReplaceOrder(key, name, orig, o, a)
        BY <3>2 DEF EngineNext, Asks
      <3> QED
        BY <2>4, <3>1, <3>2 DEF OnCancel, OnReplace
    <2>5. ASSUME NEW sides \in {Sides, {"BUY"}, {"SELL"}}, OnMassCancel(key, name, sides)
          PROVE  EngineNext
      <3>1. CASE UNCHANGED << vars, events >>
        <4> DEFINE e == Message("MASS_CANCEL_REPORT", NoOrder, name)
        <4>1. SaysNothing(e)
          BY RefusalsSayNothing
        <4>2. Ready /\ SendNow(key, << e >>) /\ UNCHANGED registryVars
          BY <2>5 DEF OnMassCancel, Request
        <4> HIDE DEF e
        <4>3. << e >> \in Seq({e}) /\ \A i \in DOMAIN << e >> : SaysNothing(<< e >>[i])
          BY <4>1
        <4>4. SentQuietly
          BY <4>2, <4>3, SentNow DEF IsSequence
        <4> QED
          BY <3>1, <4>2, <4>4 DEF EngineNext, Talks
      <3> QED
        BY <2>5, <3>1, SweepingSteps DEF EngineNext
    <2> QED
      BY <1>1, <2>1, <2>3, <2>4, <2>5 DEF HkexRequest
  <1>2. ASSUME HkexOperator PROVE EngineNext
    <2>1. ASSUME NEW s \in Phases, EnterPhase(s) \/ InstrumentPhase(s) PROVE EngineNext
      BY <2>1, SweepingSteps DEF EngineNext
    <2>2. ASSUME NEW s \in Phases, CloseAuction(s) PROVE EngineNext
      BY <2>2 DEF CloseAuction, Sets, EngineNext, reportVars
    <2>3. CASE LockAuction
      BY <2>3 DEF LockAuction, HkexCommand, Sets, EngineNext, reportVars
    <2>5. CASE ReloadReferenceData \/ \E p \in References : SetReference(p)
      BY <2>5 DEF ReloadReferenceData, SetReference, SetOnly, HkexCommand, Sets,
                  EngineNext, reportVars
    <2>6. CASE \E id \in StpIds, mode \in {"CANCEL_NEWEST", "CANCEL_OLDEST", NoKey} :
                  RegisterSmp(id, mode)
      BY <2>6 DEF RegisterSmp, SetOnly, HkexCommand, Sets, EngineNext, reportVars
    <2>7. CASE BehaviourCommand
      BY <2>7 DEF BehaviourCommand, SetBehaviour, ClearBehaviour, EngineNext
    <2> QED
      BY <1>2, <2>1, <2>2, <2>3, <2>5, <2>6, <2>7 DEF HkexOperator
  <1>3. CASE \E key \in Clients : OnLogout(key)
    BY <1>3, SweepingSteps DEF EngineNext
  <1>4. CASE HkexMatchStep \/ HkexEmit
    BY <1>4 DEF HkexMatchStep, EngineNext
  <1>5. CASE HkexAuctionStep
    <2>1. CASE \E b, s \in OrderIds :
                  AuctionTrade(b, s) /\ Loop(<< FillEvent(b), FillEvent(s) >>)
      BY <2>1 DEF AuctionLoop, EngineNext
    <2>2. CASE /\ FinishUncross
               /\ \E q \in BookSequences({o \in OnBook : orders'[o] # orders[o]}) :
                     Loop([i \in DOMAIN q |-> Event("CANCELLED", q[i])])
      <3> DEFINE T == {o \in OnBook : orders'[o] # orders[o]}
      <3>1. T \in SUBSET OnBook
        OBVIOUS
      <3>2. /\ FinishUncross
            /\ \E q \in BookSequences(T) :
                  Loop([i \in DOMAIN q |-> Event("CANCELLED", q[i])])
        BY <2>2
      <3> HIDE DEF T
      <3> QED
        BY <3>1, <3>2 DEF AuctionLoop, EngineNext
    <2> QED
      BY <1>5, <2>1, <2>2 DEF HkexAuctionStep
  <1>6. CASE UNCHANGED hkexAll
    BY <1>6 DEF hkexAll, allVars, entryVars, reportVars, EngineNext
  <1>7. CASE HkexRelease
    BY <1>7, TimersRelease DEF EngineNext
  <1> QED
    BY <1>1, <1>2, <1>3, <1>4, <1>5, <1>6, <1>7 DEF HkexNext

\* The venue's own values keep their types: reference prices come from reference
\* data, from trades or from an operator.
LEMMA TypesStep ==
    ASSUME IInv, HkexTypes, [HkexNext]_hkexAll
    PROVE  HkexTypes'
  <1> USE DEF HkexTypes
  <1>1. ASSUME UNCHANGED hkexVars PROVE HkexTypes'
    BY <1>1 DEF hkexVars, referenceVars
  <1>2. ASSUME NEW key \in Clients, NEW name \in Names, HkexRequest(key, name)
        PROVE  HkexTypes'
    <2>1. UNCHANGED hkexVars
      BY <1>2 DEF HkexRequest, RefuseOrder, OnNewOrder, TooLate, OnCancel, OnReplace,
                  OnMassCancel, OnEntitlementRequest
    <2> QED
      BY <1>1, <2>1
  <1>3. ASSUME NEW key \in Clients, OnLogout(key) PROVE HkexTypes'
    BY <1>1, <1>3 DEF OnLogout
  <1>4. ASSUME HkexOperator PROVE HkexTypes'
    <2>1. ASSUME NEW s \in Phases, EnterPhase(s) PROVE HkexTypes'
      <3> DEFINE kind == KindOf(s)
      <3>1. kind \in {"NONE", "POS", "CAS"}
        BY DEF KindOf
      <3>2. Opening(kind) \in AuctionSessions
        BY <3>1, OpeningType
      <3>3. Stage1Limits(Opening(kind)) \in Bands
        BY <3>2, StageOneType
      <3>4. /\ session' \in {session, Opening(kind)}
            /\ band' \in {band, Stage1Limits(Opening(kind))}
            /\ UNCHANGED << referenceVars, lastPrice >>
        BY <2>1 DEF EnterPhase
      <3> HIDE DEF kind
      <3> QED
        BY <3>2, <3>3, <3>4 DEF referenceVars
    <2>2. ASSUME NEW s \in Phases, CloseAuction(s) \/ InstrumentPhase(s) PROVE HkexTypes'
      BY <1>1, <2>2 DEF CloseAuction, InstrumentPhase
    <2>3. CASE LockAuction
      <3>1. Pinned \in Bands /\ Hull(band, Pinned) \in Bands
        BY PinnedType, HullType
      <3>2. /\ session' = [session EXCEPT !.locked = TRUE, !.pin = Pinned]
            /\ band' \in {band, Hull(band, Pinned)}
            /\ UNCHANGED << referenceVars, lastPrice >>
        BY <2>3 DEF LockAuction
      <3>3. session' \in AuctionSessions
        BY <3>1, <3>2 DEF AuctionSessions
      <3> QED
        BY <3>1, <3>2, <3>3 DEF referenceVars
    <2>4. ASSUME NEW p \in References, SetReference(p) PROVE HkexTypes'
      <3>1. p \in Nat
        BY HkexAssumption
      <3>2. /\ session' = [session EXCEPT !.ref = p] /\ band' = None
            /\ UNCHANGED << referenceVars, lastPrice >>
        BY <2>4 DEF SetReference, SetOnly
      <3>3. session' \in AuctionSessions
        BY <3>1, <3>2 DEF AuctionSessions
      <3> QED
        BY <3>2, <3>3 DEF referenceVars, Bands
    <2>5. CASE ReloadReferenceData
      <3>1. /\ base' \in BasePrices \cup {base}
            /\ UNCHANGED << session, smp, lastPrice, band >>
        BY <2>5 DEF ReloadReferenceData, SetOnly
      <3>2. base' \in Nat
        BY <3>1, HkexAssumption
      <3> QED
        BY <3>1, <3>2
    <2>6. ASSUME NEW id \in StpIds, NEW mode \in {"CANCEL_NEWEST", "CANCEL_OLDEST", NoKey},
                 RegisterSmp(id, mode)
          PROVE  HkexTypes'
      <3>1. /\ smp' = [smp EXCEPT ![id] = mode]
            /\ UNCHANGED << session, base, lastPrice, band >>
        BY <2>6 DEF RegisterSmp, SetOnly
      <3>2. mode \in StpModes \cup {NoKey}
        BY DEF StpModes
      <3> QED
        BY <3>1, <3>2
    <2>7. CASE BehaviourCommand
      BY <1>1, <2>7 DEF BehaviourCommand
    <2> QED
      BY <1>4, <2>1, <2>2, <2>3, <2>4, <2>5, <2>6, <2>7 DEF HkexOperator
  <1>5. ASSUME HkexMatchStep PROVE HkexTypes'
    <2> DEFINE traded == {o \in OrderIds \ {cur} : orders'[o].cum > orders[o].cum}
    <2>1. /\ lastPrice' = IF traded = {} THEN lastPrice
                          ELSE orders[CHOOSE o \in traded : TRUE].price
          /\ UNCHANGED << session, referenceVars, band >>
      BY <1>5 DEF HkexMatchStep
    <2>2. traded # {} => (CHOOSE o \in traded : TRUE) \in OrderIds
      OBVIOUS
    <2> HIDE DEF traded
    <2>3. lastPrice' \in Nat
      BY <2>1, <2>2 DEF IInv, TypeOK, OrderType
    <2> QED
      BY <2>1, <2>3 DEF referenceVars
  <1>6. ASSUME HkexAuctionStep PROVE HkexTypes'
    <2>1. NoSession \in AuctionSessions /\ None \in Bands
      BY DEF NoSession, AuctionSessions, Bands, NoPrice
    <2>2. /\ session' \in {session, NoSession} /\ band' \in {band, None}
          /\ lastPrice' \in {lastPrice, auctionPrice}
          /\ UNCHANGED << referenceVars >>
      BY <1>6 DEF HkexAuctionStep
    <2> QED
      BY <2>1, <2>2 DEF IInv, TypeOK, referenceVars
  <1>7. ASSUME HkexEmit \/ HkexRelease PROVE HkexTypes'
    BY <1>1, <1>7 DEF HkexEmit, HkexRelease
  <1>8. CASE UNCHANGED hkexAll
    BY <1>1, <1>8 DEF hkexAll
  <1> QED
    BY <1>2, <1>3, <1>4, <1>5, <1>6, <1>7, <1>8 DEF HkexNext

----------------------------------------------------------------------------
(* The market *)

\* The market's invariant holds under everything the venue does to it: requests
\* with its own self-match instructions, mass cancels, phases that cancel what may
\* not be carried, auctions around the session's reference price.
LEMMA MarketStep ==
    ASSUME IInv, HkexTypes, EngineNext
    PROVE  IInv'
  <1>1. ASSUME [Next]_vars PROVE IInv'
    BY <1>1, NextInv
  <1>2. CASE Sweeps
    <2>1. PICK S \in SUBSET OnBook : /\ orders' = Cancelled(S)
                                     /\ place' = Removed(place, S)
      BY <1>2 DEF Sweeps
    <2>2. S \subseteq OrderIds /\ \A o \in S : place[o] # 0
      BY DEF OnBook, Resting
    <2>3. task = "idle" /\ task' = "idle" /\ nextId' = nextId
      BY <1>2 DEF Sweeps, Ready, taskVars
    <2>4. /\ orders' \in [OrderIds -> OrderType] /\ place' \in [OrderIds -> Nat]
          /\ StatusAgreesWithFills' /\ BookInv' /\ IssuedInv'
      BY <2>1, <2>2, <2>3, CancelledFacts
    <2>5. TypeOK'
      BY <1>2, <2>4, BoundsAssumption DEF Sweeps, IInv, TypeOK, taskVars
    <2> QED
      BY <1>2, <2>3, <2>4, <2>5 DEF Sweeps, taskVars, IInv, TaskInv
  <1>3. CASE Sets
    <2>1. CASE \E s \in Phases : StartUncrossAt(s, session.ref)
      <3>1. session.ref \in Nat
        BY DEF HkexTypes, AuctionSessions
      <3> QED
        BY <2>1, <3>1, StartUncrossInv
    <2>2. CASE /\ Command
               /\ marketState' \in {marketState, "OPENING_AUCTION"}
               /\ UNCHANGED << orders, place, override, stpMode, taskVars >>
      <3>1. /\ orders' \in [OrderIds -> OrderType] /\ place' \in [OrderIds -> Nat]
            /\ StatusAgreesWithFills' /\ BookInv' /\ IssuedInv'
        BY <2>2, QuietFacts DEF Command, taskVars
      <3>2. TypeOK'
        BY <2>2, <3>1, BoundsAssumption
           DEF Command, IInv, TypeOK, taskVars, AllPhases, ACCUMULATING
      <3> QED
        BY <2>2, <3>1, <3>2 DEF Command, taskVars, IInv, TaskInv
    <2> QED
      BY <1>3, <2>1, <2>2 DEF Sets
  <1>4. ASSUME NEW key \in Clients, NEW name \in Names, Asks(key, name) PROVE IInv'
    <2>1. ASSUME NEW r \in Requests,
                 NewAccepted(key, name, [r EXCEPT !.stpInst = SmpInstructionFor(r.stpId)])
          PROVE  IInv'
      <3> DEFINE asked1 == [r EXCEPT !.stpInst = SmpInstructionFor(r.stpId)]
      <3>1. ValidRequest(asked1) /\ NewOrder(asked1)
        BY <2>1, InstructedRequest DEF NewAccepted
      <3> HIDE DEF asked1
      <3> QED
        BY <3>1, NewOrderInv
    <2> QED
      BY <1>1, <1>4, <2>1 DEF Asks, CancelOrderRequest, ReplaceOrder, Next, ClientStep
  <1>5. CASE EntryMatchStep \/ AuctionLoop
    BY <1>1, <1>5 DEF EntryMatchStep, AuctionLoop, Next, MatchStep, AuctionStep
  <1>6. CASE UNCHANGED vars \/ Talks \/ HkexEmit \/ Releases
    BY <1>1, <1>6 DEF Talks, HkexEmit, EmitAs, Releases
  <1> QED
    BY <1>2, <1>3, <1>4, <1>5, <1>6 DEF EngineNext

----------------------------------------------------------------------------
(* The registry and the market together *)

\* A loop changes no order's owner.
LEMMA LoopOwners ==
    ASSUME IInv, MatchStep \/ AuctionStep
    PROVE  OwnersKept /\ nextId' = nextId
  <1>1. CASE MatchStep
    <2>1. nextId' = nextId
      BY <1>1 DEF MatchStep, MatchDone, MatchExecute, StpCancelNewest, StpCancelOldest,
                  StpDecrement, SelfMatch
    <2> QED
      BY <1>1, <2>1, MatchOwners
  <1>2. CASE FinishUncross
    BY <1>2, CancelledOwners DEF FinishUncross, IInv
  <1>3. ASSUME NEW b \in OrderIds, NEW s \in OrderIds, AuctionTrade(b, s)
        PROVE  OwnersKept /\ nextId' = nextId
    <2> DEFINE quantity == Lesser(LeavesQty(orders[b]), LeavesQty(orders[s]))
    <2>1. orders[b] \in OrderType /\ orders[s] \in OrderType /\ TypeOK
      BY <1>3, AuctionFacts DEF IInv
    <2>2. quantity \in Nat /\ auctionPrice \in Nat
      BY <2>1, LeavesFacts DEF Lesser, TypeOK
    <2>3. /\ orders' = [orders EXCEPT ![b] = ApplyFill(orders[b], quantity, auctionPrice),
                                      ![s] = ApplyFill(orders[s], quantity, auctionPrice)]
          /\ nextId' = nextId
      BY <1>3 DEF AuctionTrade
    <2> HIDE DEF quantity
    <2>4. /\ ApplyFill(orders[b], quantity, auctionPrice).session = orders[b].session
          /\ ApplyFill(orders[s], quantity, auctionPrice).session = orders[s].session
      BY <2>1, <2>2, OwnerFacts
    <2> QED
      BY <2>1, <2>3, <2>4, ExceptTwoOwners
  <1> QED
    BY <1>1, <1>2, <1>3 DEF AuctionStep

\* To the registry, the venue is order entry: its new orders are registered as
\* asked, whatever self-match instruction they were given on the way.
LEMMA EngineRegistry ==
    ASSUME IInv, EngineNext
    PROVE  RegistryNext
  <1> DEFINE Silent == OwnersKept /\ nextId' = nextId /\ UNCHANGED registryVars
  <1>1. ASSUME Silent PROVE RegistryNext
    BY <1>1 DEF RegistryNext
  <1>2. CASE UNCHANGED << vars, registryVars >>
    <2>1. Silent
      BY <1>2 DEF vars, bookVars, OwnersKept
    <2> QED
      BY <1>1, <2>1
  <1>3. CASE Sweeps
    <2>1. Silent
      BY <1>3, CancelledOwners DEF Sweeps, IInv
    <2> QED
      BY <1>1, <2>1
  <1>4. CASE Sets
    <2>1. Silent
      BY <1>4 DEF Sets, StartUncrossAt, Command, OwnersKept
    <2> QED
      BY <1>1, <2>1
  <1>5. ASSUME NEW key \in Clients, NEW name \in Names, Asks(key, name)
        PROVE  RegistryNext
    <2> key \in Sessions
      BY ClientsAssumption
    <2>1. ASSUME NEW r, NewAccepted(key, name, r) PROVE RegistryNext
      <3>1. \E q : NewAccepted(key, name, q)
        BY <2>1
      <3>2. \E k \in Sessions, n \in Names : \E q : NewAccepted(k, n, q)
        BY <3>1
      <3> QED
        BY <3>2 DEF RegistryNext
    <2>2. ASSUME NEW orig \in Names, NEW o \in OrderIds,
                 \/ CancelOrderRequest(key, name, orig, o)
                 \/ \E a \in Amendments : ReplaceOrder(key, name, orig, o, a)
          PROVE  RegistryNext
      <3>1. OwnersKept /\ nextId' = nextId
        <4>1. CASE CancelOrderRequest(key, name, orig, o)
          BY <4>1, CancelledOwners DEF CancelOrderRequest, Cancel, IInv
        <4>2. ASSUME NEW a, Amend(o, a) PROVE OwnersKept /\ nextId' = nextId
          BY <4>2, AmendOwners DEF Amend
        <4> QED
          BY <2>2, <4>1, <4>2 DEF ReplaceOrder
      <3>2. Resolved(key, name, orig, o) /\ Bind(o, key, name)
        BY <2>2 DEF CancelOrderRequest, ReplaceOrder
      <3> QED
        BY <3>1, <3>2 DEF RegistryNext
    <2> QED
      BY <1>5, <2>1, <2>2 DEF Asks
  <1>6. CASE EntryMatchStep \/ AuctionLoop
    <2>1. MatchStep \/ AuctionStep
      BY <1>6 DEF EntryMatchStep, AuctionLoop, MatchStep, AuctionStep
    <2>2. UNCHANGED registryVars
      BY <1>6 DEF EntryMatchStep, AuctionLoop, Loop
    <2>3. Silent
      BY <2>1, <2>2, LoopOwners
    <2> QED
      BY <1>1, <2>3
  <1>7. CASE Talks \/ HkexEmit \/ Releases
    BY <1>2, <1>7 DEF Talks, HkexEmit, EmitAs, Releases
  <1> QED
    BY <1>2, <1>3, <1>4, <1>5, <1>6, <1>7 DEF EngineNext

\* Reports are only ever added.
LEMMA SentStep ==
    ASSUME SentInv, HkexTypes, EngineNext
    PROVE  SentInv'
  <1>1. ASSUME sent' = sent PROVE SentInv'
    BY <1>1 DEF SentInv
  <1>2. ASSUME SentQuietly PROVE SentInv'
    BY <1>2 DEF SentInv, SentQuietly, QuietlyGrown
  <1>3. ASSUME NEW key \in Clients, NEW name \in Names, Asks(key, name) PROVE sent' = sent
    BY <1>3 DEF Asks, NewAccepted, CancelOrderRequest, ReplaceOrder, reportVars
  <1>4. CASE EntryMatchStep \/ AuctionLoop
    BY <1>1, <1>4 DEF EntryMatchStep, AuctionLoop, Loop, reportVars
  <1>5. CASE HkexEmit \/ Releases
    <2>1. PICK to, report : sent' = sent \/ Send(to, report)
      BY <1>5 DEF HkexEmit, EmitAs, EmitNowhere, EmitDropped, EmitDelayed, EmitSent,
                  Releases
    <2>2. CASE Send(to, report)
      <3>1. ASSUME NEW c \in Clients PROVE IsSequence(sent'[c])
        <4>1. PICK E : sent[c] \in Seq(E)
          BY DEF SentInv, IsSequence
        <4>2. sent[c] \in Seq(E \cup {report})
          BY <4>1
        <4>3. sent'[c] = sent[c] \/ sent'[c] = Append(sent[c], report)
          BY <2>2 DEF Send, SentInv
        <4>4. sent'[c] \in Seq(E \cup {report})
          BY <4>2, <4>3
        <4> QED
          BY <4>4 DEF IsSequence
      <3> QED
        BY <2>2, <3>1 DEF Send, SentInv
    <2> QED
      BY <1>1, <2>1, <2>2
  <1> QED
    BY <1>1, <1>2, <1>3, <1>4, <1>5 DEF EngineNext, Talks, Sweeps, Sets

----------------------------------------------------------------------------
(* The acknowledgement.  Until the first report of an order is sent or     *)
(* dropped, the event that opens it is the next to be rendered, and no     *)
(* other is.  As long as no report is delayed, none waits for a timer.     *)

Told(o) == LET c == orders[o].session
           IN  \E i \in 1..Len(sent[c]) : SaysOf(sent[c][i], o)

\* An acceptance has its snapshot; a refusal is read when it is rendered, which is
\* before anything else happens.
Opens(e, o) ==
    /\ e.order = o
    /\ \/ e.kind = "ACCEPTED" /\ e.cum = 0
       \/ e.kind = "REJECTED" /\ orders[o].cum = 0 /\ task = "idle"

EventsInv ==
    /\ IsSequence(events)
    /\ \A i \in 1..Len(events), o \in OrderIds :
          SaysOf(events[i], o) =>
              /\ o < nextId /\ events[i].owner = orders[o].session
              /\ events[i].kind = "ACCEPTED" => i = 1 /\ ~Told(o)

IssuedIsTold ==
    \A o \in OrderIds : o < nextId =>
        /\ orders[o].session \in Clients
        /\ Told(o) \/ Lost(o) \/ (Len(events) >= 1 /\ Opens(events[1], o))

ReportsInv ==
    \A c \in Clients, o \in OrderIds : \A i \in 1..Len(sent[c]) :
        SaysOf(sent[c][i], o) => o < nextId /\ orders[o].session = c

\* AcknowledgedFirst, of the reports to one client.
WellTold(s, o) ==
    \A i \in 1..Len(s) : SaysOf(s[i], o) =>
        /\ (\A j \in 1..(i - 1) : ~SaysOf(s[j], o)) =>
               s[i].kind \in {"ACCEPTED", "REJECTED"} /\ s[i].cum = 0
        /\ s[i].kind = "ACCEPTED" => \A j \in 1..(i - 1) : ~SaysOf(s[j], o)

AckInv ==
    /\ SentInv /\ EventsInv /\ IssuedIsTold /\ ReportsInv
    /\ \A c \in Clients, o \in OrderIds : Lost(o) \/ WellTold(sent[c], o)

\* Two sequences, one after the other.
LEMMA Joined ==
    ASSUME NEW a, NEW b, IsSequence(a), IsSequence(b)
    PROVE  /\ IsSequence(a \o b) /\ Len(a) \in Nat /\ Len(b) \in Nat
           /\ Len(a \o b) = Len(a) + Len(b)
           /\ \A i \in 1..Len(a) : (a \o b)[i] = a[i]
           /\ \A i \in (Len(a) + 1)..Len(a \o b) :
                 i - Len(a) \in 1..Len(b) /\ (a \o b)[i] = b[i - Len(a)]
  <1>1. PICK E : a \in Seq(E)
    BY DEF IsSequence
  <1>2. PICK F : b \in Seq(F)
    BY DEF IsSequence
  <1>3. a \in Seq(E \cup F) /\ b \in Seq(E \cup F)
    BY <1>1, <1>2
  <1>4. a \o b \in Seq(E \cup F) /\ Len(a \o b) = Len(a) + Len(b)
    BY <1>3
  <1>5. Len(a) \in Nat /\ Len(b) \in Nat
    BY <1>3
  <1>6. \A i \in 1..Len(a) : (a \o b)[i] = a[i]
    BY <1>3
  <1>7. ASSUME NEW i \in (Len(a) + 1)..Len(a \o b)
        PROVE  i - Len(a) \in 1..Len(b) /\ (a \o b)[i] = b[i - Len(a)]
    <2>1. i - Len(a) \in 1..Len(b)
      BY <1>4, <1>5
    <2> QED
      BY <1>3, <1>4, <2>1
  <1> QED
    BY <1>4, <1>5, <1>6, <1>7 DEF IsSequence

LEMMA WellToldGrown ==
    ASSUME NEW old, NEW new, NEW o \in OrderIds,
           IsSequence(old), QuietlyGrown(old, new), WellTold(old, o)
    PROVE  WellTold(new, o)
  <1> SUFFICES ASSUME NEW i \in 1..Len(new), SaysOf(new[i], o)
               PROVE  /\ (\A j \in 1..(i - 1) : ~SaysOf(new[j], o)) =>
                             new[i].kind \in {"ACCEPTED", "REJECTED"} /\ new[i].cum = 0
                      /\ new[i].kind = "ACCEPTED" =>
                             \A j \in 1..(i - 1) : ~SaysOf(new[j], o)
    BY DEF WellTold
  <1>1. /\ Len(old) \in Nat /\ Len(new) \in Nat
        /\ \A k \in 1..Len(old) : new[k] = old[k]
        /\ \A k \in (Len(old) + 1)..Len(new) : ~SaysOf(new[k], o)
    BY DEF QuietlyGrown, SaysNothing, IsSequence
  <1>2. i \in 1..Len(old)
    <2>1. ~(i \in (Len(old) + 1)..Len(new))
      BY <1>1
    <2> QED
      BY <1>1, <2>1
  <1>3. new[i] = old[i] /\ \A j \in 1..(i - 1) : new[j] = old[j]
    BY <1>1, <1>2
  <1> QED
    BY <1>2, <1>3 DEF WellTold

\* One more report, which is an opening exactly if it is the first.
LEMMA WellToldAppended ==
    ASSUME NEW s, NEW r, NEW o \in OrderIds, IsSequence(s), WellTold(s, o),
           SaysOf(r, o) =>
               /\ (\A j \in 1..Len(s) : ~SaysOf(s[j], o)) =>
                      r.kind \in {"ACCEPTED", "REJECTED"} /\ r.cum = 0
               /\ r.kind = "ACCEPTED" => \A j \in 1..Len(s) : ~SaysOf(s[j], o)
    PROVE  WellTold(Append(s, r), o)
  <1> DEFINE new == Append(s, r)
  <1>1. /\ Len(s) \in Nat /\ Len(new) = Len(s) + 1 /\ new[Len(s) + 1] = r
        /\ \A k \in 1..Len(s) : new[k] = s[k]
    <2>1. PICK E : s \in Seq(E)
      BY DEF IsSequence
    <2>2. s \in Seq(E \cup {r})
      BY <2>1
    <2> QED
      BY <2>2
  <1> HIDE DEF new
  <1>2. WellTold(new, o)
    <2> SUFFICES ASSUME NEW i \in 1..Len(new), SaysOf(new[i], o)
                 PROVE  /\ (\A j \in 1..(i - 1) : ~SaysOf(new[j], o)) =>
                               new[i].kind \in {"ACCEPTED", "REJECTED"} /\ new[i].cum = 0
                        /\ new[i].kind = "ACCEPTED" =>
                               \A j \in 1..(i - 1) : ~SaysOf(new[j], o)
      BY DEF WellTold
    <2>1. \A j \in 1..(i - 1) : new[j] = s[j]
      BY <1>1
    <2>2. CASE i \in 1..Len(s)
      <3>1. new[i] = s[i]
        BY <1>1, <2>2
      <3> QED
        BY <2>1, <2>2, <3>1 DEF WellTold
    <2>3. CASE i = Len(s) + 1
      <3>1. new[i] = r /\ i - 1 = Len(s)
        BY <1>1, <2>3
      <3> QED
        BY <2>1, <3>1
    <2> QED
      BY <1>1, <2>2, <2>3
  <1> QED
    BY <1>2 DEF new

\* Events that follow the opening of an order.
IsLate(e) ==
    \A o \in OrderIds : SaysOf(e, o) =>
        o < nextId /\ e.owner = orders[o].session /\ e.kind # "ACCEPTED"

AllLate(q) == IsSequence(q) /\ \A i \in 1..Len(q) : IsLate(q[i])

LEMMA LateJoined ==
    ASSUME NEW a, NEW b, AllLate(a), AllLate(b) PROVE AllLate(a \o b)
  <1>1. IsSequence(a) /\ IsSequence(b)
    BY DEF AllLate
  <1> DEFINE ab == a \o b
  <1>2. /\ IsSequence(ab) /\ Len(a) \in Nat /\ Len(b) \in Nat
        /\ Len(ab) = Len(a) + Len(b)
        /\ \A i \in 1..Len(a) : ab[i] = a[i]
        /\ \A i \in (Len(a) + 1)..Len(ab) : i - Len(a) \in 1..Len(b) /\ ab[i] = b[i - Len(a)]
    BY <1>1, Joined
  <1> HIDE DEF ab
  <1>3. ASSUME NEW i \in 1..Len(ab) PROVE IsLate(ab[i])
    <2>1. i \in 1..Len(a) \/ i \in (Len(a) + 1)..Len(ab)
      BY <1>2
    <2> QED
      BY <1>2, <2>1 DEF AllLate
  <1> QED
    BY <1>2, <1>3 DEF AllLate, ab

LEMMA FewLate ==
    /\ AllLate(<< >>)
    /\ \A e : IsLate(e) => AllLate(<< e >>)
    /\ \A e, f : IsLate(e) /\ IsLate(f) => AllLate(<< e, f >>)
  <1>1. << >> \in Seq({}) /\ Len(<< >>) = 0
    OBVIOUS
  <1>2. ASSUME NEW e, IsLate(e) PROVE AllLate(<< e >>)
    <2>1. << e >> \in Seq({e}) /\ Len(<< e >>) = 1 /\ << e >>[1] = e
      OBVIOUS
    <2>2. IsSequence(<< e >>)
      BY <2>1 DEF IsSequence
    <2> DEFINE s == << e >>
    <2> HIDE DEF s
    <2>3. \A i \in 1..Len(s) : s[i] = e
      BY <2>1 DEF s
    <2>4. AllLate(s)
      BY <1>2, <2>2, <2>3 DEF AllLate, s
    <2> QED
      BY <2>4 DEF s
  <1>3. ASSUME NEW e, NEW f, IsLate(e), IsLate(f) PROVE AllLate(<< e, f >>)
    <2>1. /\ << e, f >> \in Seq({e, f}) /\ Len(<< e, f >>) = 2
          /\ << e, f >>[1] = e /\ << e, f >>[2] = f
      OBVIOUS
    <2>2. IsSequence(<< e, f >>)
      BY <2>1 DEF IsSequence
    <2> DEFINE s == << e, f >>
    <2> HIDE DEF s
    <2>3. \A i \in 1..Len(s) : s[i] = e \/ s[i] = f
      <3>1. Len(s) = 2 /\ s[1] = e /\ s[2] = f
        BY <2>1 DEF s
      <3> QED
        BY <3>1
    <2>4. AllLate(s)
      BY <1>3, <2>2, <2>3 DEF AllLate, s
    <2> QED
      BY <2>4 DEF s
  <1> QED
    BY <1>1, <1>2, <1>3 DEF AllLate, IsSequence

\* Steps that report of orders which have been opened.
LEMMA GrowthKeeps ==
    ASSUME AckInv, SentInv', OwnersKept, nextId' = nextId, nextId \in Nat, SentQuietly,
           dropped' = dropped,
           NEW late, AllLate(late), events' = events \o late,
           events = << >> \/ task # "idle" \/ UNCHANGED << orders, task >>
    PROVE  AckInv'
  <1> USE DEF AckInv
  <1>1. /\ IsSequence(events) /\ IsSequence(late)
        /\ \A c \in Clients : /\ IsSequence(sent[c])
                              /\ QuietlyGrown(sent[c], sent'[c])
    BY DEF EventsInv, AllLate, SentInv, SentQuietly
  <1>2. ASSUME NEW s, IsSequence(s) PROVE Len(s) \in Nat
    BY <1>2 DEF IsSequence
  <1>3. /\ IsSequence(events') /\ Len(events) \in Nat /\ Len(late) \in Nat
        /\ Len(events') = Len(events) + Len(late)
        /\ \A i \in 1..Len(events) : events'[i] = events[i]
        /\ \A i \in (Len(events) + 1)..Len(events') :
              i - Len(events) \in 1..Len(late) /\ events'[i] = late[i - Len(events)]
    BY <1>1, Joined
  <1>4. ASSUME NEW c \in Clients, NEW o \in OrderIds, NEW i \in 1..Len(sent'[c]),
               SaysOf(sent'[c][i], o)
        PROVE  i \in 1..Len(sent[c]) /\ sent'[c][i] = sent[c][i]
    <2>1. /\ Len(sent[c]) \in Nat /\ Len(sent'[c]) \in Nat
          /\ \A j \in 1..Len(sent[c]) : sent'[c][j] = sent[c][j]
          /\ \A j \in (Len(sent[c]) + 1)..Len(sent'[c]) : ~SaysOf(sent'[c][j], o)
      BY <1>1, <1>2 DEF QuietlyGrown, SaysNothing
    <2>2. ~(i \in (Len(sent[c]) + 1)..Len(sent'[c]))
      BY <1>4, <2>1
    <2>3. i \in 1..Len(sent[c])
      BY <2>1, <2>2
    <2> QED
      BY <2>1, <2>3
  <1>5. \A c \in Clients : /\ Len(sent[c]) \in Nat /\ Len(sent'[c]) \in Nat
                           /\ Len(sent[c]) <= Len(sent'[c])
                           /\ \A j \in 1..Len(sent[c]) : sent'[c][j] = sent[c][j]
    BY <1>1, <1>2 DEF QuietlyGrown
  <1>6. ASSUME NEW o \in OrderIds, o < nextId PROVE Told(o)' <=> Told(o)
    <2> DEFINE c == orders[o].session
    <2>1. c \in Clients /\ orders'[o].session = c
      BY <1>6 DEF IssuedIsTold, OwnersKept
    <2>2. Told(o)' <=> \E i \in 1..Len(sent'[c]) : SaysOf(sent'[c][i], o)
      BY <2>1 DEF Told
    <2>3. Told(o) <=> \E i \in 1..Len(sent[c]) : SaysOf(sent[c][i], o)
      BY DEF Told
    <2> HIDE DEF c
    <2>4. \A i \in 1..Len(sent[c]) : i \in 1..Len(sent'[c])
      BY <1>5, <2>1
    <2> QED
      BY <1>4, <1>5, <2>1, <2>2, <2>3, <2>4
  <1>7. EventsInv'
    <2>1. ASSUME NEW i \in 1..Len(events'), NEW o \in OrderIds, SaysOf(events'[i], o)
          PROVE  /\ o < nextId' /\ events'[i].owner = orders'[o].session
                 /\ events'[i].kind = "ACCEPTED" => i = 1 /\ ~Told(o)'
      <3>1. i \in 1..Len(events) \/ i \in (Len(events) + 1)..Len(events')
        BY <1>3
      <3>2. CASE i \in 1..Len(events)
        <4>1. SaysOf(events[i], o) /\ events'[i] = events[i]
          BY <1>3, <2>1, <3>2
        <4> QED
          BY <1>6, <3>2, <4>1 DEF EventsInv, OwnersKept
      <3>3. CASE i \in (Len(events) + 1)..Len(events')
        <4>1. i - Len(events) \in 1..Len(late) /\ events'[i] = late[i - Len(events)]
          BY <1>3, <3>3
        <4>2. IsLate(events'[i])
          BY <4>1 DEF AllLate
        <4> QED
          BY <2>1, <4>2 DEF IsLate, OwnersKept
      <3> QED
        BY <3>1, <3>2, <3>3
    <2> QED
      BY <1>3, <2>1 DEF EventsInv
  <1>8. IssuedIsTold'
    <2>1. ASSUME NEW o \in OrderIds, o < nextId'
          PROVE  /\ orders'[o].session \in Clients
                 /\ \/ Told(o)' \/ Lost(o)'
                    \/ (Len(events') >= 1 /\ Opens(events[1], o)')
      <3>1. orders'[o].session \in Clients
        BY <2>1 DEF IssuedIsTold, OwnersKept
      <3>2. CASE ~Told(o) /\ ~Lost(o)
        <4>1. Len(events) >= 1 /\ Opens(events[1], o)
          BY <2>1, <3>2 DEF IssuedIsTold
        <4>2. events # << >>
          BY <4>1
        <4>3. Len(events') >= 1 /\ events'[1] = events[1]
          BY <1>3, <4>1
        <4> QED
          BY <3>1, <4>1, <4>2, <4>3 DEF Opens
      <3>3. Lost(o) => Lost(o)'
        BY DEF Lost
      <3> QED
        BY <1>6, <2>1, <3>1, <3>2, <3>3
    <2> QED
      BY <2>1 DEF IssuedIsTold
  <1>9. ReportsInv'
    BY <1>4 DEF ReportsInv, OwnersKept
  <1>10. ASSUME NEW c \in Clients, NEW o \in OrderIds
         PROVE  Lost(o)' \/ WellTold(sent'[c], o)
    <2>1. CASE Lost(o)
      BY <2>1 DEF Lost
    <2>2. CASE WellTold(sent[c], o)
      BY <1>1, <2>2, WellToldGrown
    <2> QED
      BY <2>1, <2>2
  <1> QED
    BY <1>7, <1>8, <1>9, <1>10

OwnEvent(kind, o, owner) == [Event(kind, o) EXCEPT !.owner = owner]

\* What is reported of an order that enters, or enters again: an acceptance first,
\* unless it is refused, and none the second time.
LEMMA SubmitNews ==
    ASSUME NEW o, NEW owner, NEW reentry \in BOOLEAN
    PROVE  LET rejected == OwnEvent("REJECTED", o, owner)
               cancelled == OwnEvent("CANCELLED", o, owner)
               accepted == AcceptEvent(o, orders'[o], orders'[o].session)
               news == SubmitEvents(o, owner, reentry)
           IN  /\ IsSequence(news) /\ Len(news) \in Nat
               /\ reentry =>
                     \A i \in 1..Len(news) : news[i] \in {rejected, cancelled}
               /\ ~reentry =>
                     /\ Len(news) >= 1
                     /\ news[1] = IF orders'[o].status = "REJECTED" THEN rejected
                                  ELSE accepted
                     /\ \A i \in 2..Len(news) : news[i] = cancelled
  <1> DEFINE rejected  == OwnEvent("REJECTED", o, owner)
             cancelled == OwnEvent("CANCELLED", o, owner)
             accepted  == AcceptEvent(o, orders'[o], orders'[o].session)
             first == IF reentry THEN << >> ELSE << accepted >>
             second == IF task' # "match" /\ orders'[o].status = "CANCELLED"
                       THEN << cancelled >> ELSE << >>
             news == SubmitEvents(o, owner, reentry)
  <1>1. AckOnEntry = TRUE
    BY HkexAssumption, AckAssumption
  <1>2. news = IF orders'[o].status = "REJECTED" THEN << rejected >> ELSE first \o second
    BY <1>1 DEF SubmitEvents, Acknowledged, AcceptEvents, OwnEvent
  <1> HIDE DEF news
  <1>3. /\ IsSequence(news) /\ Len(news) \in Nat
        /\ reentry => \A i \in 1..Len(news) : news[i] \in {rejected, cancelled}
        /\ ~reentry =>
              /\ Len(news) >= 1
              /\ news[1] = IF orders'[o].status = "REJECTED" THEN rejected
                           ELSE accepted
              /\ \A i \in 2..Len(news) : news[i] = cancelled
    <2> HIDE DEF rejected, cancelled, accepted
    <2>1. ASSUME NEW e
          PROVE  IsSequence(<< e >>) /\ Len(<< e >>) = 1 /\ << e >>[1] = e
      <3>1. << e >> \in Seq({e})
        OBVIOUS
      <3>2. IsSequence(<< e >>)
        BY <3>1 DEF IsSequence
      <3> QED
        BY <3>2
    <2>2. IsSequence(<< >>) /\ Len(<< >>) = 0
      <3>1. << >> \in Seq({})
        OBVIOUS
      <3> QED
        BY <3>1 DEF IsSequence
    <2>3. CASE orders'[o].status = "REJECTED"
      <3>1. IsSequence(news) /\ Len(news) = 1 /\ news[1] = rejected
        BY <1>2, <2>1, <2>3
      <3> QED
        BY <2>3, <3>1
    <2>4. CASE orders'[o].status # "REJECTED"
      <3>1. /\ IsSequence(first) /\ Len(first) = IF reentry THEN 0 ELSE 1
            /\ ~reentry => first[1] = accepted
        BY <2>1, <2>2
      <3>2. /\ IsSequence(second) /\ Len(second) \in {0, 1}
            /\ \A i \in 1..Len(second) : second[i] = cancelled
        <4>1. CASE second = << >>
          BY <2>2, <4>1
        <4>2. CASE second = << cancelled >>
          <5>1. IsSequence(second) /\ Len(second) = 1 /\ second[1] = cancelled
            BY <2>1, <4>2
          <5> HIDE DEF second
          <5> QED
            BY <5>1
        <4> QED
          BY <4>1, <4>2
      <3> HIDE DEF first, second
      <3>3. news = first \o second
        BY <1>2, <2>4
      <3>4. /\ IsSequence(news) /\ Len(news) = Len(first) + Len(second)
            /\ \A i \in 1..Len(first) : news[i] = first[i]
            /\ \A i \in (Len(first) + 1)..Len(news) :
                  i - Len(first) \in 1..Len(second) /\ news[i] = second[i - Len(first)]
        BY <3>1, <3>2, <3>3, Joined
      <3>5. \A i \in (Len(first) + 1)..Len(news) : news[i] = cancelled
        BY <3>2, <3>4
      <3>6. CASE reentry
        <4>1. Len(first) = 0
          BY <3>1, <3>6
        <4> QED
          BY <3>2, <3>4, <3>5, <3>6, <4>1
      <3>7. CASE ~reentry
        <4>1. Len(first) = 1 /\ first[1] = accepted
          BY <3>1, <3>7
        <4>2. news[1] = accepted /\ \A i \in 2..Len(news) : news[i] = cancelled
          BY <3>4, <3>5, <4>1
        <4> QED
          BY <2>4, <3>2, <3>4, <3>7, <4>1, <4>2
      <3> QED
        BY <3>6, <3>7
    <2> QED
      BY <2>3, <2>4
  <1> QED
    BY <1>3 DEF news

\* A new order is opened by the first of the events it causes.
LEMMA NewKeeps ==
    ASSUME IInv, AckInv, SentInv', sent' = sent, dropped' = dropped, events = << >>,
           NEW key \in Clients, NEW r, r.session = key, NewOrder(r),
           events' = SubmitEvents(nextId, key, FALSE)
    PROVE  AckInv'
  <1>0. PICK n : n = nextId
    OBVIOUS
  <1> DEFINE ord == BuildOrder(r)
  <1>1. /\ n \in OrderIds /\ n \in Nat /\ nextId' = n + 1 /\ task = "idle"
        /\ OrderIds \subseteq Nat
    BY <1>0 DEF IInv, TypeOK, NewOrder, OrderIds
  <1>2. /\ \/ orders' = [orders EXCEPT ![n] = ord]
           \/ orders' = [orders EXCEPT ![n] = [ord EXCEPT !.status = "REJECTED"]]
           \/ orders' = [orders EXCEPT ![n] = Rested(ord)]
           \/ orders' = [orders EXCEPT ![n] = CancelOrder(ord)]
        /\ task' = task \/ orders' = [orders EXCEPT ![n] = ord]
    BY <1>0 DEF NewOrder, Submit, SubmitRejected, SubmitAccumulated, SubmitBlocked,
           SubmitMatching, Settle, taskVars
  <1>3. /\ ord.session = key /\ ord.cum = 0 /\ ord.status = "NEW"
        /\ [ord EXCEPT !.status = "REJECTED"].session = key
        /\ [ord EXCEPT !.status = "REJECTED"].cum = 0
        /\ Rested(ord).session = key /\ Rested(ord).cum = 0
        /\ CancelOrder(ord).session = key /\ CancelOrder(ord).cum = 0
    BY DEF BuildOrder, Rested, CancelOrder
  <1> HIDE DEF ord
  <1>4. /\ orders'[n].session = key /\ orders'[n].cum = 0
        /\ orders'[n].status = "REJECTED" => task' = "idle"
        /\ \A q \in OrderIds \ {n} : orders'[q] = orders[q]
    BY <1>1, <1>2, <1>3 DEF IInv, TypeOK
  <1>5. ASSUME NEW o \in OrderIds, o < n
        PROVE  /\ orders'[o] = orders[o] /\ (Told(o)' \/ Lost(o)')
               /\ orders[o].session \in Clients
    <2>1. orders'[o] = orders[o]
      BY <1>1, <1>4, <1>5
    <2>2. (Told(o) \/ Lost(o)) /\ orders[o].session \in Clients
      BY <1>0, <1>5 DEF AckInv, IssuedIsTold, Opens
    <2> QED
      BY <2>1, <2>2 DEF Told, Lost
  <1>6. \A o \in OrderIds : o = n => ~Told(o)'
    BY <1>0, <1>1, <1>4 DEF AckInv, ReportsInv, Told
  <1> DEFINE accepted == AcceptEvent(n, orders'[n], orders'[n].session)
             rejected == OwnEvent("REJECTED", n, key)
             cancelled == OwnEvent("CANCELLED", n, key)
  <1>7. /\ IsSequence(events') /\ Len(events') \in Nat /\ Len(events') >= 1
        /\ events'[1] = IF orders'[n].status = "REJECTED" THEN rejected ELSE accepted
        /\ \A i \in 2..Len(events') : events'[i] = cancelled
    <2> DEFINE news == SubmitEvents(n, key, FALSE)
    <2>1. /\ IsSequence(news) /\ Len(news) \in Nat /\ Len(news) >= 1
          /\ news[1] = IF orders'[n].status = "REJECTED" THEN rejected ELSE accepted
          /\ \A i \in 2..Len(news) : news[i] = cancelled
      BY SubmitNews
    <2>2. events' = news
      BY <1>0
    <2> QED
      BY <2>1, <2>2
  <1>8. /\ rejected.order = n /\ rejected.owner = key /\ rejected.kind = "REJECTED"
        /\ cancelled.order = n /\ cancelled.owner = key /\ cancelled.kind = "CANCELLED"
        /\ accepted.order = n /\ accepted.owner = key /\ accepted.kind = "ACCEPTED"
        /\ accepted.cum = 0
    BY <1>4 DEF AcceptEvent, Event, OwnEvent
  <1> HIDE DEF accepted, rejected, cancelled
  <1>9. ASSUME NEW i \in 1..Len(events')
        PROVE  /\ events'[i].order = n /\ events'[i].owner = key
               /\ i = 1 \/ events'[i].kind = "CANCELLED"
    <2>1. CASE i = 1
      <3>1. events'[i] = rejected \/ events'[i] = accepted
        BY <1>7, <2>1
      <3> QED
        BY <1>8, <2>1, <3>1
    <2>2. CASE i # 1
      <3>1. i \in 2..Len(events')
        <4> DEFINE l == Len(events')
        <4>1. l \in Nat /\ i \in 1..l
          BY <1>7
        <4> HIDE DEF l
        <4>2. i \in 2..l
          BY <2>2, <4>1
        <4> QED
          BY <4>2 DEF l
      <3>2. events'[i] = cancelled
        BY <1>7, <3>1
      <3> QED
        BY <1>8, <3>2
    <2> QED
      BY <2>1, <2>2
  <1>10. Opens(events[1], n)'
    BY <1>4, <1>7, <1>8 DEF Opens
  <1>11. EventsInv'
    <2>1. ASSUME NEW i \in 1..Len(events'), NEW o \in OrderIds, SaysOf(events'[i], o)
          PROVE  /\ o < nextId' /\ events'[i].owner = orders'[o].session
                 /\ events'[i].kind = "ACCEPTED" => i = 1 /\ ~Told(o)'
      <3>1. o = n /\ events'[i].owner = key
        BY <1>9, <2>1 DEF SaysOf
      <3>2. events'[i].kind = "ACCEPTED" => i = 1
        BY <1>9
      <3>3. ~Told(o)'
        BY <1>6, <3>1
      <3>4. o < nextId'
        BY <1>1, <3>1
      <3>5. events'[i].owner = orders'[o].session
        BY <1>4, <3>1, Zenon
      <3> QED
        BY <3>2, <3>3, <3>4, <3>5
    <2> QED
      BY <1>7, <2>1 DEF EventsInv
  <1>12. IssuedIsTold'
    <2>1. ASSUME NEW o \in OrderIds, o < nextId'
          PROVE  /\ orders'[o].session \in Clients
                 /\ \/ Told(o)' \/ Lost(o)'
                    \/ (Len(events') >= 1 /\ Opens(events[1], o)')
      <3>1. o < n \/ o = n
        BY <1>1, <2>1
      <3>2. CASE o < n
        BY <1>5, <3>2
      <3>3. CASE o = n
        BY <1>4, <1>7, <1>10, <3>3
      <3> QED
        BY <3>1, <3>2, <3>3
    <2> QED
      BY <2>1 DEF IssuedIsTold
  <1>13. ReportsInv'
    <2>1. ASSUME NEW c \in Clients, NEW o \in OrderIds, NEW i \in 1..Len(sent[c]),
                 SaysOf(sent[c][i], o)
          PROVE  o < nextId' /\ orders'[o].session = c
      <3>1. o < n /\ orders[o].session = c
        BY <1>0, <2>1 DEF AckInv, ReportsInv
      <3> QED
        BY <1>1, <1>5, <3>1
    <2> QED
      BY <2>1 DEF ReportsInv
  <1>14. \A o \in OrderIds : Lost(o) => Lost(o)'
    BY DEF Lost
  <1> QED
    BY <1>11, <1>12, <1>13, <1>14 DEF AckInv, WellTold

\* Rendering, for either encoding, changes neither the order nor what is said of it,
\* and an opening is rendered as it stood before anything traded.
LEMMA RenderFacts ==
    ASSUME NEW e, NEW to
    PROVE  LET report == ForWire(to, HkexRender(e))
           IN  /\ \A o \in OrderIds : SaysOf(report, o) <=> SaysOf(e, o)
               /\ \A o \in OrderIds : Opens(e, o) =>
                     report.kind \in {"ACCEPTED", "REJECTED"} /\ report.cum = 0
               /\ report.kind = "ACCEPTED" => e.kind = "ACCEPTED"
  <1> DEFINE rendered == HkexRender(e)
             report == ForWire(to, rendered)
  <1>1. rendered.kind = e.kind /\ rendered.order = e.order
    BY DEF HkexRender, HkexRenderChange, Render
  <1>2. /\ e.kind = "ACCEPTED" => rendered.cum = e.cum
        /\ e.kind = "REJECTED" /\ e.order # NoOrder => rendered.cum = orders[e.order].cum
    BY DEF HkexRender, HkexRenderChange, Render
  <1>3. \A o \in OrderIds : o # NoOrder
    BY MaxOrdersAssumption DEF OrderIds, NoOrder
  <1> HIDE DEF rendered
  <1>4. \/ report = rendered
        \/ /\ rendered.kind = "CANCEL_REJECTED"
           /\ report = [rendered EXCEPT !.kind = "CANCEL_REFUSED"]
    BY DEF ForWire
  <1>5. \/ report.kind = rendered.kind
        \/ rendered.kind = "CANCEL_REJECTED" /\ report.kind = "CANCEL_REFUSED"
    BY <1>1, <1>4 DEF rendered, HkexRender, HkexRenderChange, Render
  <1>6. report.order = rendered.order /\ (report.kind = rendered.kind => report = rendered)
    BY <1>1, <1>4 DEF rendered, HkexRender, HkexRenderChange, Render
  <1> HIDE DEF report
  <1>7. \A o \in OrderIds : SaysOf(report, o) <=> SaysOf(e, o)
    BY <1>1, <1>5, <1>6 DEF SaysOf
  <1>8. ASSUME NEW o \in OrderIds, Opens(e, o)
        PROVE  report.kind \in {"ACCEPTED", "REJECTED"} /\ report.cum = 0
    <2>1. report = rendered
      BY <1>1, <1>5, <1>6, <1>8 DEF Opens
    <2> QED
      BY <1>1, <1>2, <1>3, <1>8, <2>1 DEF Opens
  <1>9. report.kind = "ACCEPTED" => e.kind = "ACCEPTED"
    BY <1>1, <1>5
  <1> QED
    BY <1>7, <1>8, <1>9 DEF report, rendered

\* The next event is rendered, and its order is told of it.
LEMMA EmitKeeps ==
    ASSUME AckInv, SentInv', ~delayed', HkexEmit
    PROVE  AckInv'
  <1> USE DEF AckInv
  <1>0. PICK e : e = events[1]
    OBVIOUS
  <1>1. PICK to : to = SessionFor(e)
    OBVIOUS
  <1>2. PICK report : report = ForWire(to, HkexRender(e))
    OBVIOUS
  <1>3. /\ EmitNowhere(e) \/ EmitDropped(e, report) \/ EmitDelayed(e, report)
           \/ EmitSent(e, report)
        /\ events # << >> /\ events' = Tail(events)
        /\ UNCHANGED << orders, nextId, task >>
    BY <1>0, <1>1, <1>2 DEF HkexEmit, EmitAs, vars, bookVars, taskVars
  <1>4. ~EmitDelayed(e, report)
    BY DEF EmitDelayed
  \* The report goes nowhere, to its session, or is dropped.
  <1> DEFINE Cut == dropped' = dropped \cup {[to |-> to, report |-> report]}
  <1>5. \/ to = NoKey /\ sent' = sent /\ dropped' = dropped
        \/ to # NoKey /\ sent' = sent /\ Cut
        \/ /\ to # NoKey /\ sent' = [sent EXCEPT ![to] = Append(sent[to], report)]
           /\ dropped' = dropped
    BY <1>1, <1>3, <1>4 DEF EmitNowhere, EmitDropped, EmitSent, Send
  <1>6. /\ \A o \in OrderIds : SaysOf(report, o) <=> SaysOf(e, o)
        /\ \A o \in OrderIds : Opens(e, o) =>
              report.kind \in {"ACCEPTED", "REJECTED"} /\ report.cum = 0
        /\ report.kind = "ACCEPTED" => e.kind = "ACCEPTED"
    BY <1>2, RenderFacts
  <1>7. /\ Len(events) \in Nat /\ Len(events) >= 1
        /\ IsSequence(events') /\ Len(events') = Len(events) - 1
        /\ \A i \in 1..Len(events') : i + 1 \in 1..Len(events) /\ events'[i] = events[i + 1]
    <2>1. PICK E : events \in Seq(E)
      BY DEF EventsInv, IsSequence
    <2>2. /\ Tail(events) \in Seq(E) /\ Len(Tail(events)) = Len(events) - 1
          /\ Len(events) \in Nat /\ Len(events) >= 1
      BY <1>3, <2>1
    <2>3. \A i \in 1..(Len(events) - 1) :
             i + 1 \in 1..Len(events) /\ Tail(events)[i] = events[i + 1]
      BY <1>3, <2>1, <2>2
    <2> QED
      BY <1>3, <2>2, <2>3 DEF IsSequence
  \* Who is told.
  <1>8. ASSUME NEW o \in OrderIds, SaysOf(e, o)
        PROVE  /\ o < nextId /\ to = orders[o].session /\ to \in Clients
               /\ e.kind = "ACCEPTED" => ~Told(o)
    <2>1. 1 \in 1..Len(events)
      BY <1>7
    <2>2. /\ o < nextId /\ e.owner = orders[o].session
          /\ e.kind = "ACCEPTED" => ~Told(o)
      BY <1>0, <1>8, <2>1 DEF EventsInv
    <2>3. e.owner \in Clients
      BY <2>2 DEF IssuedIsTold
    <2> QED
      BY <1>1, <2>2, <2>3 DEF SessionFor
  <1>9. \A o \in OrderIds : SaysOf(e, o) => to # NoKey
    BY <1>8, ClientsAssumption
  <1>10. ASSUME NEW c \in Clients
         PROVE  /\ Len(sent[c]) \in Nat
                /\ \/ sent'[c] = sent[c] /\ (c # to \/ to = NoKey \/ Cut)
                   \/ /\ c = to /\ sent'[c] = Append(sent[c], report)
                      /\ Len(sent'[c]) = Len(sent[c]) + 1
                      /\ sent'[c][Len(sent[c]) + 1] = report
                      /\ \A i \in 1..Len(sent[c]) : sent'[c][i] = sent[c][i]
    <2>1. PICK E : sent[c] \in Seq(E)
      BY DEF SentInv, IsSequence
    <2>2. sent[c] \in Seq(E \cup {report}) /\ Len(sent[c]) \in Nat
      BY <2>1
    <2>3. /\ Len(Append(sent[c], report)) = Len(sent[c]) + 1
          /\ Append(sent[c], report)[Len(sent[c]) + 1] = report
          /\ \A i \in 1..Len(sent[c]) : Append(sent[c], report)[i] = sent[c][i]
      BY <2>2
    <2> HIDE DEF Cut
    <2>4. \/ sent'[c] = sent[c] /\ (c # to \/ to = NoKey \/ Cut)
          \/ c = to /\ sent'[c] = Append(sent[c], report)
      BY <1>5 DEF SentInv
    <2> QED
      BY <2>2, <2>3, <2>4
  \* What is lost stays lost, and with a report that is dropped so is its order's.
  <1>16. ASSUME NEW o \in OrderIds
         PROVE  /\ Lost(o) => Lost(o)'
                /\ Cut /\ SaysOf(e, o) => Lost(o)'
    <2> DEFINE entry == [to |-> to, report |-> report]
    <2>1. entry.report = report
      OBVIOUS
    <2>2. dropped' = dropped \/ dropped' = dropped \cup {entry}
      BY <1>5
    <2>3. Cut <=> dropped' = dropped \cup {entry}
      OBVIOUS
    <2>4. SaysOf(entry.report, o) <=> SaysOf(e, o)
      BY <1>6, <2>1
    <2> HIDE DEF entry, Cut
    <2> QED
      BY <2>2, <2>3, <2>4 DEF Lost
  <1> HIDE DEF Cut
  \* An order is told of what it was told of before, and of this event.
  <1>11. ASSUME NEW o \in OrderIds, o < nextId
         PROVE  Told(o) \/ SaysOf(e, o) => Told(o)' \/ Lost(o)'
    <2>0. PICK c \in Clients : c = orders[o].session
      BY <1>11 DEF IssuedIsTold
    <2>1. /\ Told(o) <=> \E i \in 1..Len(sent[c]) : SaysOf(sent[c][i], o)
          /\ Told(o)' <=> \E i \in 1..Len(sent'[c]) : SaysOf(sent'[c][i], o)
      BY <1>3, <2>0 DEF Told
    <2>2. CASE sent'[c] = sent[c] /\ (c # to \/ to = NoKey \/ Cut)
      <3>1. SaysOf(e, o) => Lost(o)'
        BY <1>8, <1>9, <1>16, <2>0, <2>2
      <3> QED
        BY <2>1, <2>2, <3>1
    <2>3. CASE c = to /\ sent'[c] = Append(sent[c], report)
               /\ Len(sent'[c]) = Len(sent[c]) + 1
               /\ sent'[c][Len(sent[c]) + 1] = report
               /\ \A i \in 1..Len(sent[c]) : sent'[c][i] = sent[c][i]
      <3>1. PICK n \in Nat : n = Len(sent[c])
        BY <1>10
      <3>2. \A i : i \in 1..Len(sent'[c]) <=> i \in 1..n \/ i = n + 1
        BY <2>3, <3>1
      <3>3. SaysOf(sent'[c][n + 1], o) <=> SaysOf(e, o)
        BY <1>6, <2>3, <3>1
      <3> QED
        BY <2>1, <2>3, <3>1, <3>2, <3>3
    <2> QED
      BY <1>10, <2>2, <2>3
  <1>12. EventsInv'
    <2>1. ASSUME NEW i \in 1..Len(events'), NEW o \in OrderIds, SaysOf(events'[i], o)
          PROVE  /\ o < nextId' /\ events'[i].owner = orders'[o].session
                 /\ events'[i].kind # "ACCEPTED"
      <3>1. /\ i + 1 \in 1..Len(events) /\ events'[i] = events[i + 1]
            /\ i + 1 # 1
        BY <1>7
      <3> QED
        BY <1>3, <2>1, <3>1 DEF EventsInv
    <2> QED
      BY <1>7, <2>1 DEF EventsInv
  <1>13. IssuedIsTold'
    <2>1. ASSUME NEW o \in OrderIds, o < nextId'
          PROVE  orders'[o].session \in Clients /\ (Told(o)' \/ Lost(o)')
      <3>1. o < nextId
        BY <1>3, <2>1
      <3>2. orders[o].session \in Clients /\ (Told(o) \/ Lost(o) \/ Opens(e, o))
        BY <1>0, <3>1 DEF IssuedIsTold
      <3>3. Opens(e, o) => SaysOf(e, o)
        BY DEF Opens, SaysOf
      <3> QED
        BY <1>3, <1>11, <1>16, <3>1, <3>2, <3>3
    <2> QED
      BY <2>1 DEF IssuedIsTold
  <1>14. ReportsInv'
    <2>1. ASSUME NEW c \in Clients, NEW o \in OrderIds, NEW i \in 1..Len(sent'[c]),
                 SaysOf(sent'[c][i], o)
          PROVE  o < nextId' /\ orders'[o].session = c
      <3>1. CASE i \in 1..Len(sent[c]) /\ sent'[c][i] = sent[c][i]
        BY <1>3, <2>1, <3>1 DEF ReportsInv
      <3>2. CASE c = to /\ sent'[c][i] = report
        BY <1>3, <1>6, <1>8, <2>1, <3>2
      <3>3. \/ i \in 1..Len(sent[c]) /\ sent'[c][i] = sent[c][i]
            \/ c = to /\ sent'[c][i] = report
        <4>1. CASE sent'[c] = sent[c]
          BY <4>1
        <4>2. CASE sent'[c] # sent[c]
          <5>1. PICK n \in Nat : n = Len(sent[c])
            BY <1>10
          <5>2. /\ c = to /\ Len(sent'[c]) = n + 1 /\ sent'[c][n + 1] = report
                /\ \A j \in 1..n : sent'[c][j] = sent[c][j]
            BY <1>10, <4>2, <5>1
          <5>3. i \in 1..n \/ i = n + 1
            BY <5>2
          <5> QED
            BY <5>1, <5>2, <5>3
        <4> QED
          BY <4>1, <4>2
      <3> QED
        BY <3>1, <3>2, <3>3
    <2> QED
      BY <2>1 DEF ReportsInv
  <1>15. ASSUME NEW c \in Clients, NEW o \in OrderIds
         PROVE  Lost(o)' \/ WellTold(sent'[c], o)
    <2>0. CASE Lost(o)
      BY <1>16, <2>0
    <2>1. CASE sent'[c] = sent[c]
      <3>1. Lost(o) \/ WellTold(sent[c], o)
        OBVIOUS
      <3>2. CASE WellTold(sent[c], o)
        BY <2>1, <3>2, Zenon
      <3> QED
        BY <2>0, <3>1, <3>2
    <2>2. CASE ~Lost(o) /\ c = to /\ sent'[c] = Append(sent[c], report)
      <3>1. IsSequence(sent[c]) /\ WellTold(sent[c], o)
        BY <2>2 DEF SentInv
      <3>2. ASSUME SaysOf(report, o)
            PROVE  /\ (\A j \in 1..Len(sent[c]) : ~SaysOf(sent[c][j], o)) =>
                          report.kind \in {"ACCEPTED", "REJECTED"} /\ report.cum = 0
                   /\ report.kind = "ACCEPTED" =>
                          \A j \in 1..Len(sent[c]) : ~SaysOf(sent[c][j], o)
        <4>1. /\ SaysOf(e, o) /\ o < nextId /\ c = orders[o].session
              /\ e.kind = "ACCEPTED" => ~Told(o)
          BY <1>6, <1>8, <2>2, <3>2
        <4>2. Told(o) <=> \E j \in 1..Len(sent[c]) : SaysOf(sent[c][j], o)
          BY <4>1 DEF Told
        <4>3. Told(o) \/ Opens(e, o)
          BY <1>0, <2>2, <4>1 DEF IssuedIsTold
        <4> QED
          BY <1>6, <4>1, <4>2, <4>3
      <3> QED
        BY <2>2, <3>1, <3>2, WellToldAppended
    <2> QED
      BY <1>10, <2>0, <2>1, <2>2
  <1> QED
    BY <1>12, <1>13, <1>14, <1>15

----------------------------------------------------------------------------
(* Every step reports only of orders which have been opened, or opens one *)

LEMMA EventIsLate ==
    ASSUME NEW o \in OrderIds, o < nextId, NEW kind, kind # "ACCEPTED"
    PROVE  IsLate(Event(kind, o)) /\ IsLate(FillEvent(o))
  <1>1. /\ Event(kind, o).order = o /\ Event(kind, o).kind = kind
        /\ Event(kind, o).owner = orders[o].session
    BY DEF Event
  <1>2. /\ FillEvent(o).order = o /\ FillEvent(o).kind = "FILLED"
        /\ FillEvent(o).owner = orders[o].session
    BY DEF FillEvent, Event
  <1> QED
    BY <1>1, <1>2 DEF IsLate, SaysOf

\* What rests has been issued.
LEMMA RestingIsIssued ==
    ASSUME IInv, NEW o \in OrderIds, place[o] # 0 \/ IsLive(orders[o])
    PROVE  o < nextId
  <1>1. IsLive(orders[o])
    BY DEF IInv, BookInv
  <1>2. orders[o].status # Unborn
    BY <1>1 DEF IsLive, LIVE, Unborn
  <1>3. ~(o >= nextId)
    BY <1>2 DEF IInv, IssuedInv
  <1>4. o \in Nat /\ nextId \in Nat
    BY MaxOrdersAssumption DEF OrderIds, IInv, TypeOK
  <1> QED
    BY <1>3, <1>4

LEMMA CancelsAreLate ==
    ASSUME IInv, NEW T \in SUBSET OnBook, NEW q \in BookSequences(T)
    PROVE  AllLate([i \in DOMAIN q |-> Event("CANCELLED", q[i])])
  <1> DEFINE news == [i \in DOMAIN q |-> Event("CANCELLED", q[i])]
             n == Cardinality(T)
  <1>1. T \subseteq OrderIds
    BY DEF OnBook, Resting
  <1>2. n \in Nat
    <2>1. IsFiniteSet(OrderIds)
      BY FS_Interval, MaxOrdersAssumption DEF OrderIds
    <2> QED
      BY <1>1, <2>1, FS_Subset, FS_CardinalityType
  <1>3. q \in [1..n -> T]
    BY DEF BookSequences, SetToSeqs
  <1> HIDE DEF n
  <1> DEFINE E == {Event("CANCELLED", o) : o \in T}
  <1>4. \A i \in 1..n : Event("CANCELLED", q[i]) \in E
    BY <1>3
  <1>5. ASSUME NEW e \in E PROVE IsLate(e)
    <2>1. PICK o \in T : e = Event("CANCELLED", o)
      BY <1>5
    <2>2. o \in OrderIds /\ place[o] # 0
      BY <1>1 DEF OnBook, Resting
    <2> QED
      BY <2>1, <2>2, RestingIsIssued, EventIsLate
  <1> HIDE DEF E
  <1>6. news \in Seq(E)
    BY <1>2, <1>3, <1>4
  <1> HIDE DEF news
  <1>7. IsSequence(news) /\ \A i \in 1..Len(news) : news[i] \in E
    BY <1>6 DEF IsSequence
  <1>8. AllLate(news)
    BY <1>5, <1>7 DEF AllLate
  <1> QED
    BY <1>8 DEF news

\* Cancelled(S), a rewritten order or nothing: the loop of the matching engine.
LEMMA MatchNews ==
    ASSUME IInv, EntryMatchStep
    PROVE  /\ \E late : AllLate(late) /\ Loop(late)
           /\ MatchStep
  <1>1. ASSUME NEW o \in OrderIds, MatchDone(o), Loop(MatchDoneEvents(o))
        PROVE  \E late : AllLate(late) /\ Loop(late)
    <2>1. o < nextId
      BY <1>1 DEF MatchDone, Matching, IInv, TaskInv
    <2>2. AckOnEntry
      BY HkexAssumption
    <2>3. MatchDoneEvents(o) \in {<< >>, << Event("CANCELLED", o) >>}
      BY <2>2 DEF MatchDoneEvents, AcceptEvents
    <2>4. AllLate(MatchDoneEvents(o))
      BY <2>1, <2>3, EventIsLate, FewLate
    <2> QED
      BY <1>1, <2>4
  <1>2. ASSUME NEW o \in OrderIds, NEW r \in OrderIds,
               MatchExecute(o, r) /\ Loop(<< FillEvent(r), FillEvent(o) >>)
        PROVE  \E late : AllLate(late) /\ Loop(late)
    <2>1. o < nextId /\ r < nextId
      BY <1>2, MatchFacts DEF MatchExecute
    <2>2. AllLate(<< FillEvent(r), FillEvent(o) >>)
      BY <2>1, EventIsLate, FewLate
    <2> QED
      BY <1>2, <2>2
  <1>3. ASSUME NEW o \in OrderIds, NEW r \in OrderIds,
               \/ StpCancelNewest(o, r) /\ Loop(<< Event("CANCELLED", o) >>)
               \/ StpCancelOldest(o, r) /\ Loop(<< Event("CANCELLED", r) >>)
               \/ StpDecrement(o, r) /\ Loop(DecrementEvents(o, r))
        PROVE  \E late : AllLate(late) /\ Loop(late)
    <2>1. SelfMatch(o, r)
      BY <1>3 DEF StpCancelNewest, StpCancelOldest, StpDecrement
    <2>2. o < nextId /\ r < nextId
      BY <2>1, SelfMatchFacts
    <2>3. \A kind \in {"CANCELLED", "DECREMENTED"} :
             IsLate(Event(kind, o)) /\ IsLate(Event(kind, r))
      BY <2>2, EventIsLate
    <2>4. /\ AllLate(<< Event("CANCELLED", o) >>) /\ AllLate(<< Event("CANCELLED", r) >>)
          /\ AllLate(DecrementEvents(o, r))
      BY <2>3, FewLate DEF DecrementEvents
    <2> QED
      BY <1>3, <2>4
  <1> QED
    BY <1>1, <1>2, <1>3 DEF EntryMatchStep, MatchStep

LEMMA AuctionNews ==
    ASSUME IInv, AuctionLoop
    PROVE  /\ \E late : AllLate(late) /\ Loop(late)
           /\ AuctionStep
  <1>1. ASSUME NEW b \in OrderIds, NEW s \in OrderIds, AuctionTrade(b, s),
               Loop(<< FillEvent(b), FillEvent(s) >>)
        PROVE  \E late : AllLate(late) /\ Loop(late)
    <2>1. b < nextId /\ s < nextId
      BY <1>1, AuctionFacts
    <2>2. AllLate(<< FillEvent(b), FillEvent(s) >>)
      BY <2>1, EventIsLate, FewLate
    <2> QED
      BY <1>1, <2>2
  <1>2. ASSUME NEW T \in SUBSET OnBook, NEW q \in BookSequences(T),
               Loop([i \in DOMAIN q |-> Event("CANCELLED", q[i])])
        PROVE  \E late : AllLate(late) /\ Loop(late)
    BY <1>2, CancelsAreLate
  <1> QED
    BY <1>1, <1>2 DEF AuctionLoop, AuctionStep

LEMMA EmptyJoined ==
    ASSUME NEW s, IsSequence(s) PROVE << >> \o s = s /\ s \o << >> = s
  <1>1. PICK E : s \in Seq(E)
    BY DEF IsSequence
  <1> QED
    BY <1>1

\* A request that finds nothing to report reports of opened orders, or of none.
LEMMA AnswerKeeps ==
    ASSUME AckInv, SentInv', Ready, OwnersKept, nextId' = nextId, nextId \in Nat,
           SentQuietly, dropped' = dropped, AllLate(events')
    PROVE  AckInv'
  <1>1. events = << >> /\ IsSequence(events')
    BY DEF Ready, AllLate
  <1>2. events' = events \o events'
    <2>1. << >> \o events' = events'
      BY <1>1, EmptyJoined
    <2> QED
      BY <1>1, <2>1
  <1> DEFINE late == events'
  <1>3. AllLate(late) /\ events' = events \o late
    BY <1>2
  <1> HIDE DEF late
  <1> QED
    BY <1>1, <1>3, GrowthKeeps

\* A replaced order reports no second acceptance when it re-enters.
LEMMA ReplaceNews ==
    ASSUME IInv, RegistryInv, NEW key \in Clients, NEW name \in Names,
           NEW orig \in Names, NEW o \in OrderIds, NEW a,
           ReplaceOrder(key, name, orig, o, a)
    PROVE  AllLate(events')
  <1>1. Resolved(key, name, orig, o) /\ Amend(o, a)
    BY DEF ReplaceOrder
  <1>2. orders[o].session = key
    <2>1. key \in Sessions /\ o # NoOrder
      BY ClientsAssumption DEF OrderIds, NoOrder
    <2>2. index[<<key, orig>>] = o
      BY <1>1, <2>1 DEF Resolved, Resolve
    <2> QED
      BY <2>1, <2>2 DEF RegistryInv, IndexIsTheInverseOfTheChains
  <1>3. o < nextId
    BY <1>1, RestingIsIssued DEF Amend
  <1> DEFINE again == SubmitEvents(o, key, TRUE)
             rejected == OwnEvent("REJECTED", o, key)
             cancelled == OwnEvent("CANCELLED", o, key)
  <1>4. /\ rejected.order = o /\ rejected.kind = "REJECTED" /\ rejected.owner = key
        /\ cancelled.order = o /\ cancelled.kind = "CANCELLED" /\ cancelled.owner = key
    BY DEF OwnEvent, Event
  <1>5. IsSequence(again) /\ \A i \in 1..Len(again) : again[i] \in {rejected, cancelled}
    BY SubmitNews
  <1>6. IsLate(rejected) /\ IsLate(cancelled)
    BY <1>2, <1>3, <1>4 DEF IsLate, SaysOf
  <1>7. AllLate(again)
    <2> HIDE DEF again, rejected, cancelled
    <2> QED
      BY <1>5, <1>6 DEF AllLate
  <1>8. AllLate(<< Event("REPLACED", o) >>)
    BY <1>3, EventIsLate, FewLate
  <1>9. events' = << Event("REPLACED", o) >> \o again
    BY DEF ReplaceOrder
  <1> HIDE DEF again
  <1> QED
    BY <1>7, <1>8, <1>9, LateJoined

LEMMA AckStep ==
    ASSUME IInv, RegistryInv, HkexTypes, AckInv, EngineNext, ~Releases, ~delayed',
           HkexEmit \/ dropped' = dropped
    PROVE  AckInv'
  <1>8. CASE HkexEmit
    BY <1>8, EmitKeeps, SentStep DEF AckInv
  <1> SUFFICES ASSUME dropped' = dropped PROVE AckInv'
    BY <1>8
  <1>0. SentInv /\ SentInv' /\ nextId \in Nat
    BY SentStep DEF AckInv, IInv, TypeOK
  <1>1. sent' = sent => SentQuietly
    BY <1>0, SentNothing
  <1>2. CASE UNCHANGED << vars, registryVars, events, sent >>
    <2>1. /\ OwnersKept /\ nextId' = nextId /\ UNCHANGED << orders, task >>
          /\ sent' = sent /\ events' = events
      BY <1>2 DEF vars, bookVars, taskVars, OwnersKept
    <2>2. events' = events \o << >>
      BY <2>1, EmptyJoined DEF AckInv, EventsInv
    <2>3. AllLate(<< >>)
      BY FewLate
    <2> QED
      BY <1>0, <1>1, <2>1, <2>2, <2>3, GrowthKeeps
  <1>3. CASE Talks
    <2>1. /\ Ready /\ OwnersKept /\ nextId' = nextId
          /\ \/ events' = events /\ SentQuietly
             \/ \E e : SaysNothing(e) /\ events' = << e >> /\ sent' = sent
      BY <1>3 DEF Talks, vars, bookVars, OwnersKept
    <2>2. CASE events' = events /\ SentQuietly
      <3>1. AllLate(events')
        BY <2>1, <2>2, FewLate DEF Ready
      <3> QED
        BY <1>0, <2>1, <2>2, <3>1, AnswerKeeps
    <2>3. ASSUME NEW e, SaysNothing(e), events' = << e >>, sent' = sent PROVE AckInv'
      <3>1. IsLate(e)
        BY <2>3 DEF IsLate, SaysNothing
      <3>2. AllLate(events')
        BY <2>3, <3>1, FewLate
      <3> QED
        BY <1>0, <1>1, <2>1, <2>3, <3>2, AnswerKeeps
    <2> QED
      BY <2>1, <2>2, <2>3
  <1>4. CASE Sweeps
    <2>1. PICK S \in SUBSET OnBook, T \in SUBSET OnBook :
             orders' = Cancelled(S) /\ CancelEvents(T)
      BY <1>4 DEF Sweeps
    <2>2. OwnersKept
      BY <2>1, CancelledOwners DEF IInv
    <2>3. AllLate(events')
      BY <2>1, CancelsAreLate DEF CancelEvents
    <2> QED
      BY <1>0, <1>4, <2>2, <2>3, AnswerKeeps DEF Sweeps
  <1>5. CASE Sets
    <2>1. /\ Ready /\ OwnersKept /\ nextId' = nextId
          /\ events' = events /\ sent' = sent
      BY <1>5 DEF Sets, StartUncrossAt, Command, OwnersKept
    <2>2. AllLate(events')
      BY <2>1, FewLate DEF Ready
    <2> QED
      BY <1>0, <1>1, <2>1, <2>2, AnswerKeeps
  <1>6. ASSUME NEW key \in Clients, NEW name \in Names, Asks(key, name) PROVE AckInv'
    <2>1. sent' = sent /\ Ready
      BY <1>6 DEF Asks, NewAccepted, CancelOrderRequest, ReplaceOrder, reportVars,
                  Resolved, Request
    <2>2. ASSUME NEW r, NewAccepted(key, name, r) PROVE AckInv'
      <3>1. /\ r.session = key /\ NewOrder(r)
            /\ events' = SubmitEvents(nextId, key, FALSE)
        BY <2>2 DEF NewAccepted
      <3> QED
        BY <1>0, <2>1, <3>1, NewKeeps DEF Ready
    <2>3. ASSUME NEW orig \in Names, NEW o \in OrderIds,
                 CancelOrderRequest(key, name, orig, o)
          PROVE  AckInv'
      <3>1. /\ IsLive(orders[o]) /\ orders' = Cancelled({o}) /\ nextId' = nextId
            /\ events' = << Event("CANCELLED", o) >>
        BY <2>3 DEF CancelOrderRequest, Cancel
      <3>2. OwnersKept
        BY <3>1, CancelledOwners DEF IInv
      <3>3. AllLate(events')
        BY <3>1, RestingIsIssued, EventIsLate, FewLate
      <3> QED
        BY <1>0, <1>1, <2>1, <3>1, <3>2, <3>3, AnswerKeeps
    <2>4. ASSUME NEW orig \in Names, NEW o \in OrderIds, NEW a \in Amendments,
                 ReplaceOrder(key, name, orig, o, a)
          PROVE  AckInv'
      <3>1. Amend(o, a)
        BY <2>4 DEF ReplaceOrder
      <3>2. OwnersKept /\ nextId' = nextId
        BY <3>1, AmendOwners DEF Amend
      <3>3. AllLate(events')
        BY <2>4, ReplaceNews
      <3> QED
        BY <1>0, <1>1, <2>1, <3>2, <3>3, AnswerKeeps
    <2> QED
      BY <1>6, <2>2, <2>3, <2>4 DEF Asks
  <1>7. CASE EntryMatchStep \/ AuctionLoop
    <2>1. /\ \E late : AllLate(late) /\ Loop(late)
          /\ MatchStep \/ AuctionStep
      BY <1>7, MatchNews, AuctionNews
    <2>2. OwnersKept /\ nextId' = nextId
      BY <2>1, LoopOwners
    <2>3. task # "idle"
      BY <2>1 DEF MatchStep, AuctionStep, MatchDone, MatchExecute, StpCancelNewest,
                  StpCancelOldest, StpDecrement, SelfMatch, Matching, FinishUncross,
                  AuctionTrade
    <2>4. PICK late : AllLate(late) /\ events' = events \o late /\ sent' = sent
      BY <2>1 DEF Loop, reportVars
    <2> QED
      BY <1>0, <1>1, <2>2, <2>3, <2>4, GrowthKeeps
  <1> QED
    BY <1>2, <1>3, <1>4, <1>5, <1>6, <1>7, <1>8 DEF EngineNext

----------------------------------------------------------------------------
(* Theorems of the venue *)

HkexInv ==
    /\ IInv /\ RegistryInv /\ HkexTypes /\ SentInv
    /\ ~delayed => held = << >> /\ AckInv

LEMMA HkexStarts == HkexInit => HkexInv
  <1> SUFFICES ASSUME HkexInit PROVE HkexInv
    OBVIOUS
  <1>1. IInv /\ RegistryInv
    BY RegistryInit DEF HkexInit
  <1>2. HkexTypes
    <2>1. /\ session = NoSession /\ base \in BasePrices /\ lastPrice = NoPrice
          /\ smp = [id \in StpIds |-> NoKey] /\ band = None
      BY DEF HkexInit
    <2>2. NoSession \in AuctionSessions /\ NoPrice \in Nat
      BY DEF NoSession, AuctionSessions, Bands, NoPrice
    <2> QED
      BY <2>1, <2>2, HkexAssumption DEF HkexTypes, Bands
  <1>3. AckInv
    <2>1. /\ events = << >> /\ sent = [c \in Clients |-> << >>] /\ nextId = 1
      BY DEF HkexInit, EntryInit, Init
    <2>2. IsSequence(<< >>) /\ Len(<< >>) = 0
      BY FewLate DEF AllLate
    <2>3. SentInv /\ EventsInv
      BY <2>1, <2>2 DEF SentInv, EventsInv
    <2>4. \A o \in OrderIds : ~(o < nextId)
      BY <2>1 DEF OrderIds
    <2>5. IssuedIsTold
      BY <2>4 DEF IssuedIsTold
    <2>6. \A c \in Clients : sent[c] = << >>
      BY <2>1
    <2>7. ReportsInv /\ \A c \in Clients, o \in OrderIds : WellTold(sent[c], o)
      BY <2>2, <2>6 DEF ReportsInv, WellTold
    <2> QED
      BY <2>3, <2>5, <2>7 DEF AckInv
  <1>4. held = << >>
    BY DEF HkexInit, EntryInit
  <1> QED
    BY <1>1, <1>2, <1>3, <1>4 DEF HkexInv, AckInv

LEMMA HkexStep ==
    ASSUME HkexInv, [HkexNext]_hkexAll
    PROVE  HkexInv' /\ EngineNext /\ Permanent
  <1> USE DEF HkexInv
  <1>1. EngineNext
    BY VenueSteps
  <1>2. IInv' /\ HkexTypes' /\ SentInv'
    BY <1>1, MarketStep, TypesStep, SentStep
  <1>3. RegistryInv' /\ Permanent
    BY <1>1, EngineRegistry, RegistryStep
  <1>4. ASSUME ~delayed' PROVE held' = << >> /\ AckInv'
    <2>1. HkexEmit => /\ delayed' = delayed /\ held' = held
      BY <1>4 DEF HkexEmit, EmitAs, EmitNowhere, EmitDropped, EmitDelayed, EmitSent
    <2>2. HkexRelease => delayed' = delayed
      BY DEF HkexRelease, ReleaseStep, Release
    <2>3. ~delayed
      BY <1>4, <2>1, <2>2, HistoryStep
    <2>4. held = << >> /\ AckInv
      BY <2>3
    <2>5. ~Releases /\ ~HkexRelease
      BY <2>4, TimersRelease DEF Releases
    <2>6. /\ held' = << >>
          /\ HkexEmit \/ dropped' = dropped
      BY <2>1, <2>4, <2>5, HistoryStep
    <2> QED
      BY <1>1, <1>4, <2>4, <2>5, <2>6, AckStep
  <1> QED
    BY <1>1, <1>2, <1>3, <1>4

\* The engine's invariant, the registry's and the reports' hold together in every
\* state of the venue (venues/hkex/venue.py and handlers.py).
THEOREM HkexInvariance == HkexSpec => []HkexInv
  <1>1. HkexInv /\ [HkexNext]_hkexAll => HkexInv'
    BY HkexStep
  <1> QED
    BY <1>1, HkexStarts, PTL DEF HkexSpec

\* Locks, reloads, mass cancels, disconnects and auctions of the venue leave the book
\* holding exactly the live orders, with statuses that agree with the fills.
THEOREM HkexMarketCorrect == HkexSpec => []MarketIsConsistent
  <1>1. HkexInv => MarketIsConsistent
    BY DEF HkexInv, IInv, BookInv, BookHoldsExactlyTheLiveOrders, MarketIsConsistent
  <1> QED
    BY <1>1, HkexInvariance, PTL

\* Under the venue's two encodings, too, an identifier is bound to exactly the order
\* whose chain holds it (OrderRegistry).
THEOREM HkexRegistryCorrect == HkexSpec => []IndexIsTheInverseOfTheChains
  <1>1. HkexInv => IndexIsTheInverseOfTheChains
    BY DEF HkexInv, RegistryInv
  <1> QED
    BY <1>1, HkexInvariance, PTL

\* ... and never moves to another order.
THEOREM HkexIdentifiersPermanent == HkexSpec => BindingsArePermanent
  <1>1. HkexInv /\ [HkexNext]_hkexAll => [Permanent]_allVars
    BY HkexStep
  <1> QED
    BY <1>1, HkexInvariance, PTL DEF HkexSpec, BindingsArePermanent, Permanent

\* For any number of clients, orders, replaces and reports, and any rules that reject
\* orders and drop reports: whatever an order trades on entry, the first thing its
\* owner hears of it is its acceptance as the market received it, or its refusal, and
\* it hears of one acceptance only (_render_accepted and matching._acknowledge), unless
\* a report of that order was dropped, and up to the first report that is delayed past
\* others (_deliver).
THEOREM AcknowledgementsComeFirst == HkexSpec => []AcknowledgedFirst
  <1>1. HkexInv => AcknowledgedFirst
    <2> SUFFICES ASSUME HkexInv, ~delayed, NEW c \in Clients, NEW o \in OrderIds,
                        ~Lost(o), NEW i \in DOMAIN sent[c], SaysOf(sent[c][i], o)
                 PROVE  LET first == \A j \in 1..(i - 1) : ~SaysOf(sent[c][j], o)
                        IN  /\ first => /\ sent[c][i].kind \in {"ACCEPTED", "REJECTED"}
                                        /\ sent[c][i].cum = 0
                            /\ sent[c][i].kind = "ACCEPTED" => first
      BY DEF AcknowledgedFirst
    <2>1. SentInv /\ WellTold(sent[c], o)
      BY DEF HkexInv, AckInv
    <2>2. i \in 1..Len(sent[c])
      <3>1. PICK E : sent[c] \in Seq(E)
        BY <2>1 DEF SentInv, IsSequence
      <3> QED
        BY <3>1
    <2> QED
      BY <2>1, <2>2 DEF WellTold
  <1> QED
    BY <1>1, HkexInvariance, PTL

\* Every step of the venue is a step of the ledger, or changes no order.
LEMMA EngineSimulates ==
    ASSUME IInv, HkexTypes, EngineNext
    PROVE  LedgerStep
  <1>1. CASE UNCHANGED vars \/ Talks \/ Sets \/ HkexEmit \/ Releases
    <2>1. orders' = orders
      BY <1>1 DEF vars, bookVars, Talks, Sets, StartUncrossAt, HkexEmit, EmitAs, Releases
    <2> QED
      BY <2>1 DEF LedgerStep
  <1>2. CASE Sweeps
    <2>1. PICK S \in SUBSET OnBook : orders' = Cancelled(S)
      BY <1>2 DEF Sweeps
    <2>2. S \subseteq OrderIds /\ \A o \in S : place[o] # 0
      BY DEF OnBook, Resting
    <2>3. \A o \in S : IsLive(orders[o])
      BY <1>2, <2>2 DEF Sweeps, Ready, IInv, BookInv
    <2> QED
      BY <2>1, <2>2, <2>3, CloseStep DEF LedgerStep
  <1>3. ASSUME NEW key \in Clients, NEW name \in Names, Asks(key, name) PROVE LedgerStep
    <2>1. ASSUME NEW r \in Requests,
                 NewAccepted(key, name, [r EXCEPT !.stpInst = SmpInstructionFor(r.stpId)])
          PROVE  LedgerStep
      <3> DEFINE asked1 == [r EXCEPT !.stpInst = SmpInstructionFor(r.stpId)]
      <3>1. ValidRequest(asked1) /\ NewOrder(asked1)
        BY <2>1, InstructedRequest DEF NewAccepted
      <3> HIDE DEF asked1
      <3> QED
        BY <3>1, NewOrderStep DEF LedgerStep
    <2> QED
      BY <1>3, <2>1, ClosingStep, AmendStep
         DEF Asks, CancelOrderRequest, ReplaceOrder, LedgerStep
  <1>4. CASE EntryMatchStep \/ AuctionLoop
    <2>1. [Next]_vars
      BY <1>4 DEF EntryMatchStep, AuctionLoop, Next, MatchStep, AuctionStep
    <2> QED
      BY <2>1, NextSimulates
  <1> QED
    BY <1>1, <1>2, <1>3, <1>4 DEF EngineNext

\* The venue implements the ledger of core/orders.py: its sweeps, auctions and replaces
\* open, trade, revise, decrement and close orders, and do nothing else to them.
THEOREM HkexImplementsLedger == HkexSpec => ImplementsLedger
  <1>1. HkexInit => Ledger!LedgerInit
    BY DEF HkexInit, EntryInit, Init, Blank, Ledger!LedgerInit, Ledger!Unborn, Unborn
  <1>2. HkexInv /\ [HkexNext]_hkexAll => [Ledger!LedgerNext]_orders
    BY HkexStep, EngineSimulates DEF HkexInv, LedgerStep
  <1> QED
    BY <1>1, <1>2, HkexInvariance, PTL DEF HkexSpec, ImplementsLedger, Ledger!LedgerSpec

----------------------------------------------------------------------------
(* The band: what may trade in a session lies within the limits the session *)
(* has had, on the side that matters.                                       *)

Within(ord, b) ==
    ~IsPriceless(ord) => IF ord.side = "BUY" THEN ord.price <= b[2]
                         ELSE b[1] <= ord.price

Inside(limits, b) == b[1] <= limits[1] /\ limits[2] <= b[2]

\* On the book, or about to be.
InPlay(o) == place[o] # 0 \/ (task = "match" /\ cur = o)

BandInv ==
    band # None =>
        /\ session.kind # "NONE"
        /\ Stage1Limits(session) # None /\ Inside(Stage1Limits(session), band)
        /\ session.pin # None => Inside(session.pin, band)
        /\ \A o \in OrderIds : InPlay(o) => Within(orders[o], band)

LEMMA KeepsBand ==
    ASSUME BandInv, session' = session, band' = band,
           band # None => \A o \in OrderIds : InPlay(o)' =>
               \/ InPlay(o) /\ SameTerms(orders'[o], orders[o])
               \/ Within(orders'[o], band)
    PROVE  BandInv'
  <1>1. \A o \in OrderIds : SameTerms(orders'[o], orders[o]) /\ Within(orders[o], band)
                                => Within(orders'[o], band)
    BY DEF SameTerms, Within, IsPriceless
  <1> QED
    BY <1>1 DEF BandInv

LEMMA ShrinkingKeepsBand ==
    ASSUME BandInv, session' = session, band' = band, Shrinking,
           task' = "match" => task = "match" /\ cur' = cur
    PROVE  BandInv'
  BY KeepsBand DEF Shrinking, InPlay

LEMMA UnchangedKeepsBand ==
    ASSUME IInv, BandInv, session' = session, band' = band,
           UNCHANGED << orders, place >>,
           task' = "match" => task = "match" /\ cur' = cur
    PROVE  BandInv'
  BY ShrinkingKeepsBand DEF Shrinking, SameTerms

\* Cancelled orders leave the book, and nothing else changes.
LEMMA CancellingKeepsBand ==
    ASSUME IInv, BandInv, session' = session, band' = band, task' = task, task = "idle",
           NEW S, orders' = Cancelled(S), place' = Removed(place, S)
    PROVE  BandInv'
  BY CancelledShrinks, ShrinkingKeepsBand DEF IInv, TypeOK

\* What the validator admits in a session lies within the limits of the moment.
LEMMA Admitted ==
    ASSUME HkexTypes, BandInv, band # None, NEW tif, NEW ord, ord.price \in Nat,
           AuctionAdmits(tif, ord.price)
    PROVE  Within(ord, band)
  <1> DEFINE limits == LimitsFor(session)
  <1>1. /\ session.kind # "NONE" /\ session \in AuctionSessions
        /\ band \in Nat \X Nat
    BY DEF BandInv, HkexTypes, Bands
  <1>2. limits # None /\ Inside(limits, band) /\ limits \in Nat \X Nat
    BY <1>1, StageOneType DEF BandInv, LimitsFor, Bands, AuctionSessions
  <1>3. ord.price # NoPrice => limits[1] <= ord.price /\ ord.price <= limits[2]
    BY <1>1, <1>2 DEF AuctionAdmits, Permits
  <1> HIDE DEF limits
  <1>4. limits[1] \in Nat /\ limits[2] \in Nat /\ band[1] \in Nat /\ band[2] \in Nat
    BY <1>1, <1>2
  <1> QED
    BY <1>2, <1>3, <1>4 DEF Inside, Within, IsPriceless

\* A new or amended order enters within the limits.
LEMMA PlacingKeepsBand ==
    ASSUME HkexTypes, BandInv, session' = session, band' = band,
           NEW o, NEW ord, ord.price \in Nat, NEW tif, Placing(o, ord),
           AuctionAdmits(tif, ord.price), task = "idle"
    PROVE  BandInv'
  <1>1. ASSUME band # None, NEW q \in OrderIds, InPlay(q)'
        PROVE  \/ InPlay(q) /\ SameTerms(orders'[q], orders[q])
               \/ Within(orders'[q], band)
    <2>1. CASE q = o
      <3>1. Within(ord, band)
        BY <1>1, Admitted
      <3> QED
        BY <2>1, <3>1 DEF Placing, SameTerms, Within, IsPriceless
    <2>2. CASE q # o
      BY <1>1, <2>2 DEF Placing, InPlay, SameTerms
    <2> QED
      BY <2>1, <2>2
  <1> QED
    BY <1>1, KeepsBand

LEMMA RequestsKeepBand ==
    ASSUME IInv, HkexTypes, BandInv, NEW key \in Clients, NEW name \in Names,
           HkexRequest(key, name)
    PROVE  BandInv'
  <1>1. session' = session /\ band' = band
    BY DEF HkexRequest, RefuseOrder, OnNewOrder, TooLate, OnCancel, OnReplace,
           OnMassCancel, OnEntitlementRequest, hkexVars
  <1>2. ASSUME UNCHANGED vars PROVE BandInv'
    BY <1>1, <1>2, UnchangedKeepsBand DEF vars, bookVars, taskVars
  <1>3. CASE \/ RefuseOrder(key, name) \/ OnEntitlementRequest(key, name)
             \/ \E orig \in Names : TooLate(key, name, orig)
    BY <1>2, <1>3 DEF RefuseOrder, OnEntitlementRequest, TooLate
  <1>4. ASSUME NEW r \in Requests, OnNewOrder(key, name, r) PROVE BandInv'
    <2>1. CASE NewDuplicate(key, name) \/ NewForcedReject(key, name) \/ NewInvalid(key, name)
      BY <1>2, <2>1 DEF NewDuplicate, NewForcedReject, NewInvalid, Answer
    <2>2. PICK inst : inst = SmpInstructionFor(r.stpId)
      OBVIOUS
    <2>3. CASE ValidatesNew(r) /\ NewAccepted(key, name, [r EXCEPT !.stpInst = inst])
      <3> DEFINE asked1 == [r EXCEPT !.stpInst = inst]
      <3>1. ValidRequest(asked1)
        BY <2>2, InstructedRequest
      <3>2. asked1.price = r.price /\ r.price \in Nat
        BY RequestsAssumption DEF ValidRequest
      <3>3. NewOrder(asked1) /\ AuctionAdmits(r.tif, r.price)
        BY <2>3 DEF NewAccepted, ValidatesNew
      <3> HIDE DEF asked1
      <3>4. Placing(nextId, BuildOrder(asked1)) /\ task = "idle"
        BY <3>1, <3>3, NewOrderPlaces DEF NewOrder
      <3>5. BuildOrder(asked1).price = r.price
        BY <3>2 DEF BuildOrder
      <3> QED
        BY <1>1, <3>2, <3>3, <3>4, <3>5, PlacingKeepsBand
    <2> QED
      BY <1>4, <2>1, <2>2, <2>3 DEF OnNewOrder
  <1>5. ASSUME NEW orig \in Names, OnCancel(key, name, orig) PROVE BandInv'
    <2>1. CASE Unresolved(key, name, orig)
      BY <1>2, <2>1 DEF Unresolved, Answer
    <2>2. ASSUME NEW o \in OrderIds, CancelOrderRequest(key, name, orig, o) PROVE BandInv'
      BY <1>1, <2>2, CancellingKeepsBand DEF CancelOrderRequest, Cancel, taskVars
    <2> QED
      BY <1>5, <2>1, <2>2 DEF OnCancel
  <1>6. ASSUME NEW orig \in Names, OnReplace(key, name, orig) PROVE BandInv'
    <2>1. PICK o \in OrderIds, a \in Amendments :
             ValidatesAmend(o, a) /\ ReplaceOrder(key, name, orig, o, a)
      BY <1>6 DEF OnReplace
    <2>2. Amend(o, a) /\ orders[o] \in OrderType /\ task = "idle"
      BY <2>1 DEF ReplaceOrder, Amend, IInv, TypeOK
    <2> DEFINE ord == Revised(orders[o], a)
    <2>3. AuctionAdmits(orders[o].tif, ord.price)
      BY <2>1 DEF ValidatesAmend
    <2>4. ord.price \in Nat
      BY <2>2, RevisedFacts DEF OrderType
    <2>5. Placing(o, ord)
      BY <2>2, AmendPlaces
    <2> HIDE DEF ord
    <2> QED
      BY <1>1, <2>2, <2>3, <2>4, <2>5, PlacingKeepsBand
  <1>7. ASSUME NEW sides \in {Sides, {"BUY"}, {"SELL"}}, OnMassCancel(key, name, sides)
        PROVE  BandInv'
    <2> DEFINE mine == {o \in OnBook : orders[o].session = key /\ orders[o].side \in sides}
    <2>1. \/ UNCHANGED vars
          \/ orders' = Cancelled(mine) /\ place' = Removed(place, mine) /\ task' = task
      BY <1>7 DEF OnMassCancel, taskVars
    <2>2. task = "idle"
      BY <1>7 DEF OnMassCancel, Request, Ready
    <2> HIDE DEF mine
    <2> QED
      BY <1>1, <1>2, <2>1, <2>2, CancellingKeepsBand
  <1> QED
    BY <1>3, <1>4, <1>5, <1>6, <1>7 DEF HkexRequest

\* A session opens: what could trade beyond its limits has gone.
LEMMA OpeningKeepsBand ==
    ASSUME IInv, HkexTypes, BandInv, NEW s \in Phases, EnterPhase(s)
    PROVE  BandInv'
  <1> DEFINE kind == KindOf(s)
             opens == kind \notin {"NONE", session.kind}
             a == Opening(kind)
             closing == IF s # marketState /\ s \in NO_ENTRY THEN OnBook ELSE {}
             gone == closing \cup IF opens THEN CancelledOnOpening(a) ELSE {}
  <1>1. /\ orders' = Cancelled(gone) /\ place' = Removed(place, gone)
        /\ task = "idle" /\ task' = task
        /\ session' = IF opens THEN a ELSE session
        /\ band' = IF opens THEN Stage1Limits(a) ELSE band
    BY DEF EnterPhase, HkexCommand, Command, taskVars
  <1>2. kind \in {"NONE", "POS", "CAS"}
    BY DEF KindOf
  <1>3. a \in AuctionSessions
    BY <1>2, OpeningType DEF HkexTypes
  <1>4. a.kind = kind /\ a.pin = None /\ a.locked = FALSE
    BY DEF Opening
  <1>5. opens => CancelledOnOpening(a) \subseteq gone
    OBVIOUS
  <1> HIDE DEF gone
  <1>6. CASE ~opens
    BY <1>1, <1>6, CancellingKeepsBand
  <1>7. CASE opens
    <2> DEFINE limits == Stage1Limits(a)
    <2>1. limits \in Bands /\ LimitsFor(a) = limits
      BY <1>3, <1>4, StageOneType DEF LimitsFor
    <2>2. session' = a /\ band' = limits
      BY <1>1, <1>7
    <2> HIDE DEF a
    <2>3. ASSUME limits # None, NEW o \in OrderIds, InPlay(o)'
          PROVE  Within(orders'[o], limits)
      <3>1. place'[o] # 0
        BY <1>1, <2>3 DEF InPlay
      <3>2. place[o] # 0 /\ o \notin gone
        BY <1>1, <2>3, <3>1 DEF Removed
      <3>3. orders'[o] = orders[o] /\ orders[o] \in OrderType
        BY <1>1, <2>3, <3>2 DEF Cancelled, IInv, TypeOK
      <3>4. o \in OnBook
        BY <2>3, <3>2, <3>3 DEF OnBook, Resting, OrderType, Sides
      <3>5. o \notin CancelledOnOpening(a)
        BY <1>5, <1>7, <3>2
      <3>6. orders[o].price # NoPrice =>
               IF orders[o].side = "BUY" THEN ~(orders[o].price > limits[2])
               ELSE ~(orders[o].price < limits[1])
        BY <2>1, <2>3, <3>4, <3>5 DEF CancelledOnOpening
      <3>7. orders[o].price \in Nat /\ limits[1] \in Nat /\ limits[2] \in Nat
        BY <2>1, <2>3, <3>3 DEF OrderType, Bands
      <3> HIDE DEF limits
      <3> QED
        BY <3>3, <3>6, <3>7 DEF Within, IsPriceless
    <2>4. limits # None => Inside(limits, limits)
      BY <2>1 DEF Inside, Bands
    <2>5. a.kind # "NONE" /\ a.pin = None
      BY <1>4, <1>7
    <2>6. (Stage1Limits(session))' = limits
      BY <2>2 DEF Stage1Limits
    <2> HIDE DEF limits
    <2> QED
      BY <2>2, <2>3, <2>4, <2>5, <2>6 DEF BandInv
  <1> QED
    BY <1>6, <1>7

\* The lock widens the band to what it pins.
LEMMA LockKeepsBand ==
    ASSUME IInv, HkexTypes, BandInv, LockAuction
    PROVE  BandInv'
  <1>1. /\ session' = [session EXCEPT !.locked = TRUE, !.pin = Pinned]
        /\ band' = IF Pinned = None THEN band ELSE Hull(band, Pinned)
        /\ UNCHANGED << orders, place, task, cur >>
    BY DEF LockAuction, taskVars
  <1>2. /\ session \in AuctionSessions /\ band \in Bands /\ Pinned \in Bands
    BY PinnedType DEF HkexTypes
  <1>3. session'.kind = session.kind /\ session'.ref = session.ref /\ session'.pin = Pinned
    BY <1>1, <1>2 DEF AuctionSessions
  <1>4. (Stage1Limits(session))' = Stage1Limits(session)
    BY <1>3 DEF Stage1Limits
  <1>5. Stage1Limits(session) \in Bands
    BY <1>2, StageOneType
  <1>6. SUFFICES ASSUME band' # None
                 PROVE  /\ session'.kind # "NONE"
                        /\ Stage1Limits(session) # None
                        /\ Inside(Stage1Limits(session), band')
                        /\ Pinned # None => Inside(Pinned, band')
                        /\ \A o \in OrderIds : InPlay(o)' => Within(orders'[o], band')
    BY <1>3, <1>4 DEF BandInv
  <1>7. band # None /\ \A o \in OrderIds : InPlay(o)' => InPlay(o) /\ orders'[o] = orders[o]
    BY <1>1, <1>6 DEF Hull, InPlay, None
  <1>8. /\ session.kind # "NONE"
        /\ Stage1Limits(session) # None /\ Inside(Stage1Limits(session), band)
        /\ \A o \in OrderIds : InPlay(o) => Within(orders[o], band)
    BY <1>7 DEF BandInv
  <1>9. /\ band' \in Nat \X Nat
        /\ band'[1] <= band[1] /\ band[2] <= band'[2]
        /\ Pinned # None => Inside(Pinned, band')
    <2>1. band \in Nat \X Nat
      BY <1>2, <1>7 DEF Bands
    <2>2. CASE Pinned = None
      BY <1>1, <2>1, <2>2
    <2>3. CASE Pinned # None
      <3>1. Pinned \in Nat \X Nat
        BY <1>2, <2>3 DEF Bands
      <3>2. band' = << Lesser(band[1], Pinned[1]), Greater(band[2], Pinned[2]) >>
        BY <1>1, <1>7, <2>3 DEF Hull
      <3> QED
        BY <2>1, <3>1, <3>2 DEF Lesser, Greater, Inside
    <2> QED
      BY <2>2, <2>3
  <1>10. band \in Nat \X Nat /\ Stage1Limits(session) \in Nat \X Nat
    BY <1>2, <1>5, <1>7, <1>8 DEF Bands
  <1>11. Inside(Stage1Limits(session), band')
    <2> DEFINE l == Stage1Limits(session)
    <2>1. l[1] \in Nat /\ l[2] \in Nat /\ Inside(l, band)
      BY <1>8, <1>10
    <2> HIDE DEF l
    <2>2. Inside(l, band')
      BY <1>9, <1>10, <2>1 DEF Inside
    <2> QED
      BY <2>2 DEF l
  <1>12. ASSUME NEW o \in OrderIds, InPlay(o)' PROVE Within(orders'[o], band')
    <2>1. Within(orders[o], band) /\ orders'[o] = orders[o] /\ orders[o].price \in Nat
      BY <1>7, <1>8, <1>12 DEF IInv, TypeOK, OrderType
    <2> QED
      BY <1>9, <1>10, <2>1 DEF Within
  <1> QED
    BY <1>3, <1>8, <1>9, <1>11, <1>12

LEMMA OperatorKeepsBand ==
    ASSUME IInv, HkexTypes, BandInv, HkexOperator
    PROVE  BandInv'
  <1>1. ASSUME NEW s \in Phases, CloseAuction(s) PROVE BandInv'
    BY <1>1, UnchangedKeepsBand DEF CloseAuction, StartUncrossAt, hkexVars
  <1>2. ASSUME NEW s \in Phases, InstrumentPhase(s) PROVE BandInv'
    <2>1. /\ session' = session /\ band' = band /\ task' = "idle"
          /\ ExpireOrders(override # s, s)
      BY <1>2 DEF InstrumentPhase, hkexVars, SetInstrumentState, Command, taskVars
    <2>2. Shrinking
      BY <2>1, ExpireShrinks DEF IInv, TypeOK
    <2> QED
      BY <2>1, <2>2, ShrinkingKeepsBand
  <1>3. ASSUME NEW p \in References, SetReference(p) PROVE BandInv'
    BY <1>3 DEF SetReference, SetOnly, BandInv
  <1>4. ASSUME \/ ReloadReferenceData \/ BehaviourCommand
               \/ \E id \in StpIds, mode \in {"CANCEL_NEWEST", "CANCEL_OLDEST", NoKey} :
                     RegisterSmp(id, mode)
        PROVE  BandInv'
    <2>1. /\ session' = session /\ band' = band /\ task = "idle"
          /\ UNCHANGED << orders, place, taskVars >>
      <3>1. CASE BehaviourCommand
        BY <3>1 DEF BehaviourCommand, SetBehaviour, ClearBehaviour, hkexVars, vars,
                    bookVars, taskVars, Ready
      <3> QED
        BY <1>4, <3>1 DEF ReloadReferenceData, RegisterSmp, SetOnly, HkexCommand, Command
    <2> QED
      BY <2>1, UnchangedKeepsBand DEF taskVars
  <1> QED
    BY <1>1, <1>2, <1>3, <1>4, OpeningKeepsBand, LockKeepsBand DEF HkexOperator

LEMMA LoopsKeepBand ==
    ASSUME IInv, BandInv, HkexMatchStep \/ HkexAuctionStep
    PROVE  BandInv'
  <1>1. ASSUME NEW o \in OrderIds, MatchDone(o), session' = session, band' = band
        PROVE  BandInv'
    <2>1. /\ task = "match" /\ cur = o /\ task' = "idle"
          /\ orders \in [OrderIds -> OrderType] /\ place \in [OrderIds -> Nat]
      BY <1>1 DEF MatchDone, Matching, EndTask, IInv, TypeOK
    <2>2. /\ \/ orders' = orders
             \/ orders' = [orders EXCEPT ![o] = CancelOrder(orders[o])]
             \/ orders' = [orders EXCEPT ![o] = Rested(orders[o])]
          /\ \A q \in OrderIds \ {o} : place'[q] = place[q]
      BY <1>1, <2>1 DEF MatchDone, AddedAt
    <2>3. ASSUME NEW q \in OrderIds PROVE SameTerms(orders'[q], orders[q])
      <3>1. /\ SameTerms(orders[q], orders[q])
            /\ SameTerms(CancelOrder(orders[q]), orders[q])
            /\ SameTerms(Rested(orders[q]), orders[q])
        BY <2>1, TermsKept DEF SameTerms
      <3> QED
        BY <2>1, <2>2, <3>1
    <2>4. \A q \in OrderIds : InPlay(q)' => InPlay(q)
      BY <2>1, <2>2 DEF InPlay
    <2> QED
      BY <1>1, <2>3, <2>4, KeepsBand
  <1>2. ASSUME NEW o \in OrderIds, NEW r \in OrderIds, session' = session, band' = band,
               \/ MatchExecute(o, r) \/ StpCancelNewest(o, r)
               \/ StpCancelOldest(o, r) \/ StpDecrement(o, r)
        PROVE  BandInv'
    <2>1. Shrinking
      BY <1>2, MatchShrinks
    <2>2. task' = "match" => task = "match" /\ cur' = cur
      BY <1>2 DEF MatchExecute, StpCancelNewest, StpCancelOldest, StpDecrement,
                  SelfMatch, Matching, EndTask, taskVars
    <2> QED
      BY <1>2, <2>1, <2>2, ShrinkingKeepsBand
  <1>3. ASSUME NEW b \in OrderIds, NEW s \in OrderIds, AuctionTrade(b, s),
               session' = session, band' = band
        PROVE  BandInv'
    <2> DEFINE quantity == Lesser(LeavesQty(orders[b]), LeavesQty(orders[s]))
    <2>1. /\ orders \in [OrderIds -> OrderType]
          /\ orders' = [orders EXCEPT ![b] = ApplyFill(orders[b], quantity, auctionPrice),
                                      ![s] = ApplyFill(orders[s], quantity, auctionPrice)]
          /\ \A q \in OrderIds : place'[q] # 0 => place[q] # 0
          /\ task' = task /\ task = "auction"
      BY <1>3 DEF AuctionTrade, Removed, taskVars, IInv, TypeOK
    <2>2. /\ SameTerms(ApplyFill(orders[b], quantity, auctionPrice), orders[b])
          /\ SameTerms(ApplyFill(orders[s], quantity, auctionPrice), orders[s])
      BY <2>1, TermsKept
    <2> HIDE DEF quantity
    <2>3. Shrinking
      BY <2>1, <2>2, RewriteShrinks
    <2> QED
      BY <1>3, <2>1, <2>3, ShrinkingKeepsBand
  <1>4. CASE HkexMatchStep
    <2>1. EntryMatchStep /\ session' = session /\ band' = band
      BY <1>4 DEF HkexMatchStep
    <2> QED
      BY <1>1, <1>2, <2>1 DEF EntryMatchStep
  <1>5. CASE HkexAuctionStep
    <2>1. \/ /\ \E b, s \in OrderIds : AuctionTrade(b, s)
             /\ session' = session /\ band' = band
          \/ band' = None
      BY <1>5 DEF HkexAuctionStep
    <2>2. CASE band' = None
      BY <2>2 DEF BandInv
    <2> QED
      BY <1>3, <2>1, <2>2
  <1> QED
    BY <1>4, <1>5

LEMMA BandStep ==
    ASSUME IInv, HkexTypes, BandInv, [HkexNext]_hkexAll
    PROVE  BandInv'
  <1>1. ASSUME session' = session, band' = band, UNCHANGED vars PROVE BandInv'
    BY <1>1, UnchangedKeepsBand DEF vars, bookVars, taskVars
  <1>2. CASE UNCHANGED hkexAll
    BY <1>1, <1>2 DEF hkexAll, hkexVars, allVars
  <1>3. CASE HkexEmit \/ HkexRelease
    BY <1>1, <1>3 DEF HkexEmit, EmitAs, HkexRelease, ReleaseStep, Release, hkexVars
  <1>4. ASSUME NEW key \in Clients, OnLogout(key) PROVE BandInv'
    <2> DEFINE mine == {o \in OnBook : orders[o].session \in {key}}
    <2>1. /\ orders' = Cancelled(mine) /\ place' = Removed(place, mine)
          /\ task = "idle" /\ task' = task /\ session' = session /\ band' = band
      BY <1>4 DEF OnLogout, CancelMany, CancelAll, taskVars, hkexVars
    <2> HIDE DEF mine
    <2> QED
      BY <2>1, CancellingKeepsBand
  <1> QED
    BY <1>2, <1>3, <1>4, RequestsKeepBand, OperatorKeepsBand, LoopsKeepBand DEF HkexNext

\* The trades of an auction are within the band.
LEMMA AuctionsStayInBand ==
    ASSUME HkexInv, BandInv, EngineNext, task = "auction", band # None,
           NEW o \in OrderIds, TradesAt(o)
    PROVE  IF orders[o].side = "BUY" THEN auctionPrice <= band[2]
           ELSE band[1] <= auctionPrice
  <1>1. /\ orders \in [OrderIds -> OrderType] /\ orders[o].cum \in Nat
        /\ orders[o].price \in Nat /\ auctionPrice \in Nat
        /\ band \in Nat \X Nat
    BY DEF HkexInv, IInv, TypeOK, OrderType, HkexTypes, Bands
  <1>2. orders'[o].cum # orders[o].cum
    BY <1>1 DEF TradesAt
  <1>3. AuctionLoop
    <2>1. ~UNCHANGED << vars, registryVars, events, sent >> /\ ~Releases
      BY <1>2 DEF vars, bookVars, Releases
    <2>2. ~EntryMatchStep
      BY DEF EntryMatchStep, MatchDone, MatchExecute, StpCancelNewest, StpCancelOldest,
             StpDecrement, SelfMatch, Matching
    <2> QED
      BY <2>1, <2>2 DEF EngineNext, Talks, Sweeps, Sets, Asks, NewAccepted,
         CancelOrderRequest, ReplaceOrder, Resolved, Request, Ready, HkexEmit
  <1>4. ~FinishUncross
    <2>1. ASSUME FinishUncross PROVE orders'[o].cum = orders[o].cum
      <3>1. CancelOrder(orders[o]).cum = orders[o].cum
        BY <1>1, CumKept
      <3> QED
        BY <2>1, <3>1 DEF FinishUncross, Cancelled
    <2> QED
      BY <1>2, <2>1
  <1>5. PICK b \in OrderIds, s \in OrderIds : AuctionTrade(b, s)
    BY <1>3, <1>4 DEF AuctionLoop
  <1>6. o \in {b, s}
    BY <1>1, <1>2, <1>5 DEF AuctionTrade
  <1>7. /\ place[b] # 0 /\ place[s] # 0
        /\ orders[b].side = "BUY" /\ orders[s].side = "SELL"
        /\ IsPriceless(orders[b]) \/ auctionPrice <= orders[b].price
        /\ IsPriceless(orders[s]) \/ auctionPrice >= orders[s].price
    BY <1>5, AuctionFacts DEF HkexInv
  <1>8. Within(orders[o], band) /\ ~IsPriceless(orders[o])
    BY <1>6, <1>7 DEF BandInv, InPlay, TradesAt
  <1>9. band[1] \in Nat /\ band[2] \in Nat
    BY <1>1
  <1>10. CASE o = b
    BY <1>1, <1>7, <1>8, <1>9, <1>10 DEF Within
  <1>11. CASE o = s
    BY <1>1, <1>7, <1>8, <1>9, <1>11 DEF Within
  <1> QED
    BY <1>6, <1>10, <1>11

\* For any orders, prices, locks, amendments and halts, and any number of them: no
\* limit order trades in an auction at a price beyond the limits that the session
\* has had on its side, unless an operator moved the reference price
\* (carried_forward_verdict, _check_auction and lock).
THEOREM AuctionsTradeInsideTheBand == HkexSpec => NoneTradesThroughTheBand
  <1>1. HkexInit => BandInv
    BY DEF HkexInit, BandInv
  <1>2. HkexInv /\ BandInv /\ [HkexNext]_hkexAll => BandInv'
    BY BandStep DEF HkexInv
  <1>3. HkexSpec => []BandInv
    BY <1>1, <1>2, HkexInvariance, PTL DEF HkexSpec
  <1>4. HkexInv /\ BandInv /\ [HkexNext]_hkexAll =>
           [task = "auction" /\ band # None =>
               \A o \in OrderIds : TradesAt(o) =>
                   IF orders[o].side = "BUY" THEN auctionPrice <= band[2]
                   ELSE band[1] <= auctionPrice]_hkexAll
    BY HkexStep, AuctionsStayInBand
  <1> QED
    BY <1>3, <1>4, HkexInvariance, PTL DEF HkexSpec, NoneTradesThroughTheBand

=============================================================================
