------------------------------ MODULE MCMarket ------------------------------
(***************************************************************************)
(* Small instances of Market for TLC.  The request sets are cut to what a  *)
(* run is about.                                                           *)
(***************************************************************************)
EXTENDS MarketProperties, MarketData, TLC

Plain == [minQty |-> 0, postOnly |-> FALSE, stpId |-> NoKey, stpInst |-> NoKey]

Order(side, price, qty, tif, mpid, rest) ==
    [side |-> side, type |-> IF price = NoPrice THEN "MARKET" ELSE "LIMIT",
     price |-> price, qty |-> qty, tif |-> tif, session |-> mpid, mpid |-> mpid]
        @@ rest

\* Limit orders of two sizes and prices.
LimitOrders ==
    {Order(side, price, qty, "DAY", "A", Plain) :
        side \in Sides, price \in 1..2, qty \in 1..2}

\* The orders that must execute at once or not at all.
ImmediateOrders ==
    {Order(side, 2, qty, tif, "A", Plain) :
        side \in Sides, qty \in 2..3, tif \in IMMEDIATE}
      \cup {Order("BUY", 2, 3, "IOC", "A", [Plain EXCEPT !.minQty = 2])}

SpecialOrders ==
    {Order("BUY", 2, 1, "DAY", "A", [Plain EXCEPT !.postOnly = TRUE]),
     Order("SELL", NoPrice, 2, "DAY", "B", Plain),
     [Order("SELL", 1, 2, "DAY", "B", Plain) EXCEPT !.type = "MARKET"]}

ContinuousRequests ==
    {Order("BUY", 1, 2, "DAY", "A", Plain), Order("BUY", 2, 1, "DAY", "B", Plain),
     Order("SELL", 1, 1, "DAY", "B", Plain), Order("SELL", 2, 2, "DAY", "A", Plain)}
      \cup ImmediateOrders \cup SpecialOrders

\* A fill-or-kill buyer of firm A, and offers of both firms for it to meet.
FokRequests ==
    {Order("SELL", 1, 1, "DAY", mpid, Plain) : mpid \in {"A", "B"}}
      \cup {Order("BUY", 1, 2, "FOK", "A", Plain)}
      \cup {Order("BUY", 1, 3, "IOC", "A", [Plain EXCEPT !.minQty = 2])}

\* Orders that carry their own self-match key, shared by two firms.
KeyedOrders ==
    {Order(side, 1, 2, "DAY", IF side = "BUY" THEN "A" ELSE "B",
           [Plain EXCEPT !.stpId = "K", !.stpInst = inst]) :
        side \in Sides, inst \in {"CANCEL_OLDEST", NoKey}}

StpRequests ==
    {Order(side, 1, qty, "DAY", mpid, Plain) :
        side \in Sides, qty \in 1..2, mpid \in {"A", "B"}}
      \cup {Order(side, 2, 3, "DAY", "A", Plain) : side \in Sides}
      \cup KeyedOrders

\* Auction orders: three prices, a larger buy order at the aggressive end, a sell order
\* that must not wait, and at-auction orders.
AuctionRequests ==
    {Order(side, price, 1, IF side = "SELL" /\ price = 2 THEN "IOC" ELSE "DAY", "A", Plain) :
        side \in Sides, price \in 1..3}
      \cup {Order("BUY", 3, 2, "DAY", "A", Plain)}
      \cup {Order(side, NoPrice, 1, "DAY", "A", Plain) : side \in Sides}

\* Orders at every price the tick table and the price band allow, for the board.
BoardRequests ==
    {Order(side, price, 1, "DAY", "A", Plain) :
        side \in Sides, price \in {p \in 1..8 : is_on_tick(p) /\ is_within_band(p)}}

TickTable == (0 :> 1) @@ (4 :> 2)
BandTable == (0 :> 2) @@ (3 :> 4)

Change(qty, price, tif) ==
    [qty |-> qty, price |-> price, tif |-> tif, minQty |-> Absent, exec |-> "KEEP"]

LimitChanges == {Change(qty, price, "DAY") : qty \in 1..2, price \in 1..2}

AllChanges == LimitChanges \cup {Change(3, 2, "IOC"), Change(3, 1, "FOK"),
                                 [Change(1, 2, "IOC") EXCEPT !.minQty = 2],
                                 [Change(1, 1, NoKey) EXCEPT !.exec = "POST_ONLY"]}

\* Limit orders, one of them post-only, and orders that must not wait, for the
\* instrument-level phases.
CallLimits == {Order(side, 1, 2, "DAY", "A", [Plain EXCEPT !.postOnly = post]) :
                  side \in Sides, post \in BOOLEAN}
                \cup {Order("BUY", 1, 2, "IOC", "A", [Plain EXCEPT !.minQty = 1]),
                      Order("SELL", 1, 1, "FOK", "A", Plain)}

\* Buyers at one price, who queue, and a seller for two of them.
QueueRequests == {Order("BUY", 1, 1, "DAY", "A", Plain), Order("BUY", 1, 2, "DAY", "A", Plain),
                  Order("SELL", 1, 2, "DAY", "A", Plain)}

QueueChanges == {Change(1, 1, NoKey), Change(2, 1, NoKey), Change(3, 1, NoKey)}

AnyChanges == AllChanges \cup QueueChanges

Nothing == {}

JnxPhases == {"OPEN", "CLOSED", "HALTED"}
CallPhases == {"PRE_OPEN", "OPEN", "HALTED"}
NsePhases == {"PRE_OPEN", "OPENING_AUCTION", "OPEN", "CLOSED"}
NseCalls  == {"PRE_OPEN", "OPENING_AUCTION"}
EveryPhase == NsePhases \cup CallPhases

----------------------------------------------------------------------------
(* A run explores several scenarios side by side: the first state picks one, *)
(* and the steps of Next are cut to what it names: the requests and          *)
(* amendments of its clients, the commands of its operator and their bounds. *)

CONSTANT Scenarios

VARIABLE scenario

Trading == [requests |-> {}, changes |-> {}, cancels |-> FALSE, orders |-> 3,
            amends |-> 1, phases |-> 0, states |-> {"OPEN"}, overrides |-> {}, modes |-> {"NONE"}]

MarketScenarios ==
    [continuous |-> [Trading EXCEPT !.requests = ContinuousRequests,
                                    !.changes = AllChanges, !.cancels = TRUE],
     selftrade  |-> [Trading EXCEPT !.requests = StpRequests, !.phases = 1,
                                    !.modes = StpModes],
     prechecks  |-> [Trading EXCEPT !.requests = FokRequests, !.orders = 4,
                                    !.modes = StpModes],
     phases     |-> [Trading EXCEPT !.requests = LimitOrders, !.orders = 2, !.phases = 3,
                                    !.states = JnxPhases],
     auction    |-> [Trading EXCEPT !.requests = AuctionRequests, !.orders = 4,
                                    !.phases = 1, !.states = NsePhases],
     board      |-> [Trading EXCEPT !.requests = BoardRequests],
     halts      |-> [Trading EXCEPT !.requests = CallLimits, !.changes = LimitChanges,
                                    !.cancels = TRUE, !.orders = 2, !.phases = 3,
                                    !.states = CallPhases, !.overrides = {"HALTED"}],
     queue      |-> [Trading EXCEPT !.requests = QueueRequests, !.changes = QueueChanges,
                                    !.amends = 2, !.states = {"PRE_OPEN", "OPEN"}]]

\* A variant: the operator opens a call for the instrument alone, and ends it.
LiftScenario ==
    [halts |-> [MarketScenarios.halts EXCEPT !.changes = {}, !.overrides = {"PRE_OPEN"}]]

AllRequests == UNION {Scenarios[name].requests : name \in DOMAIN Scenarios}

ScenarioStep(s) ==
    \/ /\ nextId <= s.orders
       /\ \E r \in s.requests : NewOrder(r)
    \/ /\ s.cancels
       /\ \/ \E o \in OrderIds : Cancel(o)
          \/ \E keys \in CancelScopes : CancelAll(keys)
    \/ /\ amends < s.amends
       /\ \E o \in OrderIds, a \in s.changes : Amend(o, a)
    \/ /\ phases < s.phases
       /\ \/ \E state \in s.states : SetMarketState(state) \/ StartUncross(state)
          \/ \E state \in s.overrides : SetInstrumentState(state)
          \/ ClearInstrumentState
          \/ \E m \in s.modes : SetStpMode(m)
    \/ MatchStep
    \/ AuctionStep

MCInit ==
    /\ Init
    /\ scenario \in DOMAIN Scenarios
    /\ marketState \in Scenarios[scenario].states
    /\ stpMode \in Scenarios[scenario].modes

MCNext == ScenarioStep(Scenarios[scenario]) /\ UNCHANGED scenario

MCSpec ==
    MCInit /\ [][MCNext]_<< vars, scenario >> /\ WF_vars(MatchStep) /\ WF_vars(AuctionStep)

=============================================================================
