----------------------------- MODULE NsefoVenue -----------------------------
(***************************************************************************)
(* The NSE Futures and Options venue: venues/nsefo/{venue,handlers,rules,  *)
(* gateway_router,commands}.py, around the application it shares with NSE. *)
(*                                                                         *)
(* Contracts are named on the wire by what they are.  A spread combination *)
(* is an instrument with a book of its own, priced at the difference of    *)
(* its two legs; a fill on it is reported as a trade in each leg.  Books   *)
(* do not interact, so a behaviour watches one of them: the combination's  *)
(* or its near leg's.  A price of zero is no price (_price), on either;    *)
(* differences are the positive ones, the book only compares them.         *)
(***************************************************************************)
EXTENDS NnfApplication

CONSTANTS
    Contracts,      \* the contracts that contracts.csv may list
    ContractOf,     \* Contract: symbol, future or not, expiry
    Near, Far,      \* the legs of the combination in spreads.csv
    RangeLow, RangeHigh,
    BandPercent,
    BasePrices      \* the base prices contracts.csv may give the near leg

Spread == "SPREAD"

Instruments == Contracts \cup {Spread}

\* _build_contract and _build_spread: both legs listed, futures, one symbol,
\* the nearer expiry first.
ValidCombination(near, far) ==
    /\ ContractOf[near].symbol = ContractOf[far].symbol
    /\ ContractOf[near].future /\ ContractOf[far].future
    /\ ContractOf[near].expiry < ContractOf[far].expiry

\* _build_market: one market, no self-trade prevention, three phases.
ValidFoMarket == StpChoices = {"NONE"} /\ Phases \subseteq {"OPEN", "CLOSED", "HALTED"}

ASSUME NsefoAssumption ==
    /\ {Near, Far} \subseteq Contracts
    /\ ValidCombination(Near, Far)
    /\ ValidFoMarket
    /\ Spread \notin Contracts /\ BandPercent \in Nat \ {0}

VARIABLES symbol,    \* the instrument whose book this is
          known,     \* NsefoVenue._contracts and ._by_wire_key
          tradable,  \* Instrument.tradable of every instrument
          base,      \* Instrument.base_price of the near leg
          listed,    \* history: the contracts of the file that was read last
          leg,       \* which of its messages the event at the head has come to
          paper      \* history: every confirmation that was stamped for a user

foVars == << symbol, known, tradable, base, listed, leg, paper >>
foAll  == << appVars, foVars >>

----------------------------------------------------------------------------
(* venue.py and rules.py: what may be entered *)

\* limits_for of a contract, and the operating range of a combination.
PriceLimits ==
    LET band == (base * BandPercent) \div 100
    IN  IF symbol = Spread THEN << RangeLow, RangeHigh >>
        ELSE << Greater(1, base - band), base + band >>

\* The standard validator: a limit order has a price.
FoValidates(type, tif, price) ==
    /\ tradable[symbol]
    /\ AllowsEntry
    /\ tif \in {"DAY", "IOC"}
    /\ type = "LIMIT" => price # NoPrice
    /\ price # NoPrice => PriceLimits[1] <= price /\ price <= PriceLimits[2]

\* contract_by_wire: an exact match, or none.
ByWire(contract) == contract \in known

\* _read_reference_data and _build_contract: any set of distinct contracts.
Files == SUBSET Contracts

\* _index_contracts: a contract that is gone from the file can still be named.
Indexed(file) == known \cup file

\* _combination, but for the error code: both contracts are known and make the
\* combination of the file, with one quantity.
Combines(near, far, qty, leg2) ==
    /\ ByWire(near) /\ ByWire(far)
    /\ ValidCombination(near, far)
    /\ << near, far >> = << Near, Far >>
    /\ leg2 \in {0, qty}

\* _spread_unsupported: no immediate spreads.
SpreadSupports(r) == r.tif # "IOC"

----------------------------------------------------------------------------
(* handlers.py: requests *)

\* _order_error and _reject_change: the request goes back with a code.
FoRefuse(u) == RejectChange(u) /\ UNCHANGED foVars

\* _spread_error: in the encoding of spreads.
SpreadRefuse(u) == FoRefuse(u)

OnSpreadOrder(u, near, far, leg2, r) ==
    \/ ~(Combines(near, far, r.qty, leg2) /\ SpreadSupports(r)) /\ SpreadRefuse(u)
    \/ /\ symbol = Spread
       /\ Combines(near, far, r.qty, leg2) /\ SpreadSupports(r)
       /\ OnNewOrder(u, r, FoValidates(r.type, r.tif, r.price))
       /\ UNCHANGED foVars

OnBoardLot(u, contract, r) ==
    \/ ~ByWire(contract) /\ FoRefuse(u)
    \/ /\ symbol = contract
       /\ ByWire(contract)
       /\ OnNewOrder(u, r, FoValidates(r.type, r.tif, r.price))
       /\ UNCHANGED foVars

\* TWOL and THRL orders.
OnMultiLeg(u) == FoRefuse(u)

ValidFoAmend(o, a) ==
    LET new == Revised(orders[o], a)
    IN  FoValidates(new.type, "DAY", new.price) /\ new.qty > orders[o].cum

\* ORDER_MOD_IN and ORDER_CANCEL_IN, whichever family the order is of.
OnFoModify(u, o, a) == OnModify(u, o, a, ValidFoAmend(o, a)) /\ UNCHANGED foVars

OnFoCancel(u, o) == OnCancel(u, o) /\ UNCHANGED foVars

\* SP_ORDER_MOD_IN; the legs that it names are not looked at.
OnSpreadModify(u, ioc, o, a) ==
    \/ ioc /\ SpreadRefuse(u)
    \/ ~ioc /\ OnFoModify(u, o, a)

OnSpreadCancel(u, o) == OnFoCancel(u, o)

----------------------------------------------------------------------------
(* handlers.py: reports *)

\* Mutant: both legs on the side of the order.
LegSideSame(o, i) == orders[o].side

\* _render_leg_fill: the second leg is on the other side.
LegSide(o, i) == IF i = 1 THEN orders[o].side ELSE Opposite(orders[o].side)

\* Mutant: one confirmation for a fill.
TwoLegsNever(event) == FALSE

\* _render_filled: two confirmations for a fill of a combination.
TwoLegs(event) == event.kind = "FILLED" /\ symbol = Spread

\* _base_report: what it says of the order's totals is no confirmation of a trade,
\* and is left out.
FoBaseReport(o) == [order |-> o, cum |-> 0, leg |-> 1, side |-> orders[o].side]

\* _render_cancelled and the like; a refusal may have no order to speak of.
FoChangeReport(event) ==
    IF event.order = NoOrder THEN [order |-> NoOrder, cum |-> 0, leg |-> 1, side |-> "BUY"]
    ELSE FoBaseReport(event.order)

Confirmation(event) ==
    IF event.kind = "FILLED"
    THEN [order |-> event.order, cum |-> event.cum, leg |-> leg,
          side |-> LegSide(event.order, leg)]
    ELSE FoChangeReport(event)

\* A confirmation is on paper once it is stamped, for its user.
OnPaper(to, report) ==
    paper' = IF last' = last \/ report.cum = 0 THEN paper
             ELSE paper \cup {[to |-> to, stamp |-> last', report |-> report]}

\* _emit: each message of an event on its own, rules and all.
FoEmit ==
    /\ task = "idle"
    /\ events # << >>
    /\ LET event == Head(events)
       IN  /\ Deliver(event, Confirmation(event))
           /\ OnPaper(TargetFor(event), Confirmation(event))
           /\ IF TwoLegs(event) /\ leg = 1
              THEN /\ leg' = 2
                   /\ UNCHANGED << vars, boxVars, idleEntry, events, origin, ruled,
                                   requests, reportMemo >>
              ELSE leg' = 1 /\ EmitStep(event)
    /\ UNCHANGED << symbol, known, tradable, base, listed >>

FoRelease ==
    /\ ReleaseHeld
    /\ LET i == CHOOSE j \in DOMAIN held : held' = RemoveAt(held, j)
       IN  OnPaper(held[i].to, held[i].report)
    /\ UNCHANGED << symbol, known, tradable, base, listed, leg >>

----------------------------------------------------------------------------
(* venue.py and commands.py *)

\* set_trading_state: nothing to uncross, and nothing is reported.
FoSetTradingState(s) ==
    /\ Ready
    /\ SetMarketState(s) \/ SetInstrumentState(s)
    /\ Operator
    /\ UNCHANGED << events, origin, requests, foVars >>

\* reload_reference_data: what is not a contract of the file is withdrawn, and
\* no combination is.
StillTradable(i, file) == i \in file \/ (i \notin known \cup {Spread} /\ tradable[i])

FoReload ==
    /\ Ready
    /\ Command
    /\ \E file \in Files :
          /\ known' = Indexed(file)
          /\ listed' = file
          /\ tradable' = [i \in Instruments |-> StillTradable(i, file)]
          /\ base' \in IF Near \in file THEN BasePrices ELSE {base}
    /\ Operator
    /\ UNCHANGED << orders, place, marketState, override, stpMode, taskVars, events,
                    origin, requests, symbol, leg, paper >>

FoAdmin ==
    /\ \/ \E r \in Requests : OperatorOrder(r, FoValidates(r.type, r.tif, r.price))
       \/ \E o \in OnBook : OperatorCancel({o})
       \/ OperatorCancel(OnBook)
       \/ \E rule \in RuleChoices : AppSetBehaviour(rule)
    /\ UNCHANGED foVars

----------------------------------------------------------------------------

\* The files list both legs when the venue starts.
FoInit ==
    /\ AppInit
    /\ symbol \in {Near, Spread}
    /\ known \in {S \in SUBSET Contracts : {Near, Far} \subseteq S}
    /\ listed = known
    /\ tradable = [i \in Instruments |-> i \in known \cup {Spread}]
    /\ base \in BasePrices
    /\ leg = 1
    /\ paper = {}

FoGrRequest(b) == Ready /\ GrRequest(b) /\ Quiescent /\ UNCHANGED foVars

FoBoxStep(b) == BoxStep(b) /\ UNCHANGED foVars

FoSignOff(u) == OnSignOff(u) /\ UNCHANGED foVars

FoSystemInformation(u) == OnSystemInformation(u) /\ UNCHANGED foVars

FoDownload(u, stream) == OnDownloadRequest(u, stream) /\ UNCHANGED foVars

FoSessionStep(u) ==
    \/ FoSignOff(u)
    \/ SessionKill(u) /\ UNCHANGED foVars
    \/ FoSystemInformation(u)
    \/ \E stream \in {0, Stream, Stream + 1} : FoDownload(u, stream)

FoRequestStep(u) ==
    \/ \E r \in Requests, near, far \in Contracts, leg2 \in {0, 1, 2} :
          OnSpreadOrder(u, near, far, leg2, r)
    \/ \E r \in Requests, contract \in Contracts : OnBoardLot(u, contract, r)
    \/ OnMultiLeg(u)
    \/ \E o \in OrderIds : OnFoCancel(u, o) \/ OnSpreadCancel(u, o)
    \/ \E o \in OrderIds, a \in Amendments :
          OnFoModify(u, o, a) \/ \E ioc \in BOOLEAN : OnSpreadModify(u, ioc, o, a)

FoOperatorStep ==
    \/ \E s \in Phases : FoSetTradingState(s)
    \/ FoReload
    \/ FoAdmin

FoLoops == (AppMatchStep /\ UNCHANGED foVars) \/ FoEmit

FoPasses == Passes /\ UNCHANGED foVars

FoTicks == Ticks /\ UNCHANGED foVars

FoNext ==
    \/ \E b \in Boxes : FoBoxStep(b)
    \/ \E u \in Users : FoSessionStep(u) \/ FoRequestStep(u)
    \/ FoOperatorStep
    \/ FoLoops
    \/ FoRelease
    \/ FoPasses
    \/ FoTicks

\* Handlers run to their end, and a timer that was set fires.
FoFairness == WF_foAll(FoLoops) /\ WF_foAll(FoRelease)

FoSpec == FoInit /\ [][FoNext]_foAll /\ FoFairness

----------------------------------------------------------------------------
(* Properties *)

\* What a user has on paper and has not missed.
Holds(u) == {p.report : p \in {q \in paper : q.to = u /\ q.stamp \notin inbox[u].missing}}

Legs == IF symbol = Spread THEN {1, 2} ELSE {1}

Confirms(R, o, cum) ==
    \A i \in Legs : [order |-> o, cum |-> cum, leg |-> i,
                     side |-> IF i = 1 THEN orders[o].side
                              ELSE Opposite(orders[o].side)] \in R

\* "what a member ends up with is a position in each contract, so what they are
\* told is a trade in each contract" (_render_filled): a member that is signed
\* on and has downloaded, of whose reports the store has lost none, holds, for
\* every fill of its orders that it knows of and for the last one there was, a
\* confirmation in each leg, on opposite sides, however the two messages of one
\* fill were filed, delayed, lost with a connection or downloaded.
MemberKnowsItsTrades ==
    \A u \in Users :
        inbox[u].synced /\ inbox[u].lost = {} /\ ~member[BoxOf[u]].broken
            /\ Ready /\ held = << >> =>
            /\ \A o \in OrderIds : orders[o].session = u /\ orders[o].cum > 0 =>
                    Confirms(Holds(u), o, orders[o].cum)
            /\ \A p \in Holds(u) : Confirms(Holds(u), p.order, p.cum)

OneLegged(u) ==
    \E p \in paper : /\ p.to = u
                     /\ ~Confirms({q.report : q \in {x \in paper : x.to = u}},
                                  p.report.order, p.report.cum)

\* A user whose trade in one leg has gone out is told of the other leg, also when a
\* rule holds one of the two back.
LegsCatchUp == \A u \in Users : OneLegged(u) ~> ~OneLegged(u)

=============================================================================
