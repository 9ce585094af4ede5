------------------------------- MODULE Market -------------------------------
(***************************************************************************)
(* One instrument of one market: continuous matching with self-trade       *)
(* prevention, amendment, bulk cancellation, trading phases and the call   *)
(* auction.  Models exchangesim/core/matching.py, market.py,               *)
(* trading_state.py, the order paths of engine.py and the venue's phase    *)
(* changes (set_trading_state of venues/nse/venue.py; a venue without call *)
(* phases, as Japannext, has AuctionPhases = {}).                          *)
(*                                                                         *)
(* The simulator is single-threaded, so a request runs to its end before   *)
(* the next one is read.  The loops of MatchingEngine._match and           *)
(* auction.execute are unrolled: task says which loop is running, and one  *)
(* iteration is one step.  Every other action waits for task = "idle".     *)
(***************************************************************************)
EXTENDS OrderBook

CONSTANTS
    Sessions,        \* the order-entry sessions
    Mpids,           \* the firms
    StpIds,          \* the self-match keys orders may carry
    Requests,        \* the new-order requests that pass validation
    Amendments,      \* the amendments clients ask for
    MaxAmends,       \* bound: amendments over a behaviour
    MaxPhases,       \* bound: operator commands over a behaviour
    Phases,          \* Venue.trading_states
    InitialPhases,   \* configured initial_state
    AuctionPhases,   \* market-wide phases whose end is an auction
    UncrossInto,     \* the phases on whose entry the venue uncrosses
    Overrides,       \* the instrument-level states the operator uses
    StpChoices,      \* the self-trade prevention modes in use
    Rules,           \* the market's auction_rules
    RefPrice         \* the auction's reference price, or NoPrice

NO_ENTRY     == {"CLOSED", "HALTED", "LUNCH_BREAK"}
ACCUMULATING == {"PRE_OPEN", "OPENING_AUCTION", "CLOSING_AUCTION"}
CONTINUOUS   == {"OPEN"}
AllPhases    == NO_ENTRY \cup ACCUMULATING \cup CONTINUOUS

NoOverride == "NO_OVERRIDE"

\* A new-order request after StandardValidator's characteristic, quantity and
\* price checks; session entered it, mpid is the firm, stpId and stpInst the key an order may carry.
ValidRequest(r) ==
    /\ r.side \in Sides
    /\ r.type \in OrderTypes
    /\ r.price \in Nat
    /\ r.type = "LIMIT" => r.price # NoPrice
    /\ r.qty \in Nat \ {0}
    /\ r.tif \in TimesInForce
    /\ r.minQty \in Nat
    /\ r.postOnly \in BOOLEAN
    /\ r.session \in Sessions
    /\ r.mpid \in Mpids \cup {NoKey}
    /\ r.stpId \in StpIds \cup {NoKey}
    /\ r.stpInst \in StpModes \cup {NoKey}
    /\ r.minQty > 0 => (r.tif = "IOC" /\ r.minQty <= r.qty)
    /\ r.postOnly => r.tif \notin IMMEDIATE

\* A field that a replace request leaves out keeps its value.  Zero is never a
\* valid quantity or price, so it stands for an absent one.  exec is the list of
\* execution instructions: an empty one keeps the order's, another one replaces it.
Absent == -1

ValidAmendment(a) ==
    /\ a.qty \in Nat
    /\ a.price \in Nat
    /\ a.tif \in TimesInForce \cup {NoKey}
    /\ a.minQty \in Nat \cup {Absent}
    /\ a.exec \in {"KEEP", "POST_ONLY", "OTHER"}

ASSUME RequestsAssumption   == \A r \in Requests : ValidRequest(r)
ASSUME AmendmentsAssumption == \A a \in Amendments : ValidAmendment(a)
ASSUME BoundsAssumption     == MaxAmends \in Nat /\ MaxPhases \in Nat
ASSUME PhasesAssumption     == /\ Phases \subseteq AllPhases
                               /\ InitialPhases \subseteq Phases
                               /\ AuctionPhases \subseteq ACCUMULATING
                               /\ UncrossInto \subseteq Phases
                               /\ Overrides \subseteq AllPhases
                               /\ StpChoices \subseteq StpModes
                               /\ RefPrice \in Nat

VARIABLES nextId,       \* OrderIds below it have been issued
          marketState,  \* TradingStateMachine._market_state
          override,     \* TradingStateMachine._instrument_states, one symbol
          stpMode,      \* MatchingEngine.stp_mode
          task,         \* "idle", "match" or "auction"
          cur,          \* the incoming order while matching, else 0
          auctionPrice, \* the price being executed, while in the auction
          target,       \* the phase to enter once the auction is done
          amends,       \* amendments so far
          phases        \* operator commands so far

bookVars  == << orders, place, arrivals, nextId >>
phaseVars == << marketState, override, stpMode, phases >>
taskVars  == << task, cur, auctionPrice, target >>
vars      == << bookVars, phaseVars, taskVars, amends >>

----------------------------------------------------------------------------
(* trading_state.py *)

StateFor == IF override = NoOverride THEN marketState ELSE override

AllowsEntry == StateFor \notin NO_ENTRY

AllowsMatching == StateFor \in CONTINUOUS

----------------------------------------------------------------------------
(* matching.py: the tests an incoming order makes of the book.  An order   *)
(* that is being entered is not on the book, so it is passed as a record.  *)

PricesCross(ord, price) ==
    \/ IsPriceless(ord)
    \/ IF ord.side = "BUY" THEN price <= ord.price ELSE price >= ord.price

WouldCross(ord, pl) ==
    IF IsPriceless(ord) THEN Resting(pl, Opposite(ord.side)) # {}
    ELSE Crosses(pl, Opposite(ord.side), ord.price)

\* The key an order carries itself takes precedence over the firm's.
IsSelfTrade(ord, resting) ==
    IF ord.stpId # NoKey /\ resting.stpId # NoKey THEN ord.stpId = resting.stpId
    ELSE stpMode # "NONE" /\ ord.mpid # NoKey /\ ord.mpid = resting.mpid

StpModeFor(ord) ==
    IF ord.stpId # NoKey /\ ord.stpInst # NoKey THEN ord.stpInst ELSE stpMode

\* What the pre-checks count on: crossing quantity in priority, self-matches
\* skipped, until the order's own quantity is reached.
Executable(ord, pl) ==
    LET side    == Opposite(ord.side)
        counted == {o \in Priced(pl, side) : /\ PricesCross(ord, orders[o].price)
                                             /\ ~IsSelfTrade(ord, orders[o])}
        Before(o) == {q \in counted :
                         \/ BetterPrice(side, orders[q].price, orders[o].price)
                         \/ orders[q].price = orders[o].price /\ pl[q] < pl[o]}
    IN  Quantity({o \in counted : Quantity(Before(o)) < ord.qty})

\* Mutant: any executable quantity will do.
PrecheckAnything(ord, pl) ==
    (ord.tif = "FOK" \/ ord.minQty > 0) /\ Executable(ord, pl) = 0

\* _precheck: FOK needs its whole quantity, an IOC with MinQty that much.
PrecheckBlocks(ord, pl) ==
    \/ ord.tif = "FOK" /\ Executable(ord, pl) < ord.qty
    \/ ord.tif = "IOC" /\ ord.minQty > 0 /\ Executable(ord, pl) < ord.minQty

\* The first order of the best opposite level that ord crosses.
IsBestMatch(ord, o) ==
    LET level == {q \in BestLevel(place, Opposite(ord.side)) :
                    LeavesQty(orders[q]) > 0}
    IN  /\ o \in level
        /\ PricesCross(ord, orders[o].price)
        /\ \A q \in level : place[o] <= place[q]

----------------------------------------------------------------------------
(* matching.submit up to its loop: post-only, accumulation, pre-checks.    *)

Settle(o, ord, pl) ==
    /\ orders' = [orders EXCEPT ![o] = ord]
    /\ place' = pl
    /\ UNCHANGED taskVars

\* _rest: the status says whether anything has traded, and the order joins the
\* back of its level.
Rested(ord) == [ord EXCEPT !.status = IF ord.cum > 0 THEN "PARTIALLY_FILLED"
                                      ELSE "NEW"]

SubmitRejected(o, ord, pl) ==
    /\ ord.postOnly /\ WouldCross(ord, pl)
    /\ Settle(o, [ord EXCEPT !.status = "REJECTED"], pl)

SubmitAccumulated(o, ord, pl, stamp) ==
    /\ ~AllowsMatching
    /\ ~(ord.postOnly /\ WouldCross(ord, pl))
    /\ Settle(o, Rested(ord), AddedAt(pl, o, stamp))

SubmitBlocked(o, ord, pl) ==
    /\ AllowsMatching
    /\ ~(ord.postOnly /\ WouldCross(ord, pl))
    /\ PrecheckBlocks(ord, pl)
    /\ Settle(o, CancelOrder(ord), pl)

SubmitMatching(o, ord, pl) ==
    /\ AllowsMatching
    /\ ~(ord.postOnly /\ WouldCross(ord, pl))
    /\ ~PrecheckBlocks(ord, pl)
    /\ orders' = [orders EXCEPT ![o] = ord]
    /\ place' = pl
    /\ task' = "match"
    /\ cur' = o
    /\ UNCHANGED << auctionPrice, target >>

Submit(o, ord, pl, stamp) ==
    \/ SubmitRejected(o, ord, pl)
    \/ SubmitAccumulated(o, ord, pl, stamp)
    \/ SubmitBlocked(o, ord, pl)
    \/ SubmitMatching(o, ord, pl)

\* Engine._build_order.
BuildOrder(r) ==
    [side |-> r.side, type |-> r.type, price |-> r.price, qty |-> r.qty,
     cum |-> 0, notional |-> 0, tif |-> r.tif, minQty |-> r.minQty,
     postOnly |-> r.postOnly, session |-> r.session, mpid |-> r.mpid,
     stpId |-> r.stpId, stpInst |-> r.stpInst, status |-> "NEW"]

NewOrder(r) ==
    /\ task = "idle"
    /\ nextId <= MaxOrders
    /\ AllowsEntry
    /\ Submit(nextId, BuildOrder(r), place, arrivals + 1)
    /\ nextId' = nextId + 1
    /\ arrivals' = arrivals + 1
    /\ UNCHANGED << phaseVars, amends >>

----------------------------------------------------------------------------
(* The matching loop *)

Matching(o) == task = "match" /\ cur = o

EndTask ==
    /\ task' = "idle"
    /\ cur' = 0
    /\ UNCHANGED << auctionPrice, target >>

\* The resting order sets the price.
MatchExecute(o, r) ==
    LET quantity == Lesser(LeavesQty(orders[o]), LeavesQty(orders[r]))
        price    == orders[r].price
        filled   == ApplyFill(orders[r], quantity, price)
    IN  /\ Matching(o)
        /\ LeavesQty(orders[o]) > 0
        /\ IsBestMatch(orders[o], r)
        /\ ~IsSelfTrade(orders[o], orders[r])
        /\ orders' = [orders EXCEPT
                         ![o] = ApplyFill(orders[o], quantity, price),
                         ![r] = filled]
        /\ place' = IF LeavesQty(filled) = 0 THEN Removed(place, {r}) ELSE place
        /\ UNCHANGED << arrivals, nextId, phaseVars, taskVars, amends >>

SelfMatch(o, r) ==
    /\ Matching(o)
    /\ LeavesQty(orders[o]) > 0
    /\ IsBestMatch(orders[o], r)
    /\ IsSelfTrade(orders[o], orders[r])
    /\ UNCHANGED << arrivals, nextId, phaseVars, amends >>

\* CANCEL_NEWEST, and what an unknown mode is treated as.
StpCancelNewest(o, r) ==
    /\ SelfMatch(o, r)
    /\ StpModeFor(orders[o]) \notin {"CANCEL_OLDEST", "DECREMENT"}
    /\ orders' = [orders EXCEPT ![o] = CancelOrder(orders[o])]
    /\ UNCHANGED place
    /\ EndTask

\* Mutant: the loop goes on without cancelling anything.
StpSkipOldest(o, r) ==
    /\ SelfMatch(o, r)
    /\ StpModeFor(orders[o]) = "CANCEL_OLDEST"
    /\ UNCHANGED << orders, place, taskVars >>

StpCancelOldest(o, r) ==
    /\ SelfMatch(o, r)
    /\ StpModeFor(orders[o]) = "CANCEL_OLDEST"
    /\ orders' = [orders EXCEPT ![r] = CancelOrder(orders[r])]
    /\ place' = Removed(place, {r})
    /\ UNCHANGED taskVars

\* The smaller of the two is cancelled and the larger shrinks by as much; equal
\* sizes are both cancelled.
StpDecrement(o, r) ==
    LET incoming == LeavesQty(orders[o])
        resting  == LeavesQty(orders[r])
    IN  /\ SelfMatch(o, r)
        /\ StpModeFor(orders[o]) = "DECREMENT"
        /\ \/ /\ incoming = resting
              /\ orders' = [orders EXCEPT ![o] = CancelOrder(orders[o]),
                                          ![r] = CancelOrder(orders[r])]
              /\ place' = Removed(place, {r})
              /\ EndTask
           \/ /\ resting < incoming
              /\ orders' = [orders EXCEPT
                               ![o] = ReduceQuantity(orders[o], resting),
                               ![r] = CancelOrder(orders[r])]
              /\ place' = Removed(place, {r})
              /\ UNCHANGED taskVars
           \/ /\ incoming < resting
              /\ orders' = [orders EXCEPT
                               ![o] = CancelOrder(orders[o]),
                               ![r] = ReduceQuantity(orders[r], incoming)]
              /\ UNCHANGED place
              /\ EndTask

\* A market order has no price to rest at, an IOC or FOK order must not rest.
RemainderExpires(ord) == ord.type = "MARKET" \/ IsImmediate(ord)

\* The tail of submit: nothing more to match.
MatchDone(o) ==
    /\ Matching(o)
    /\ \/ LeavesQty(orders[o]) = 0
       \/ \A r \in OrderIds : ~IsBestMatch(orders[o], r)
    /\ \/ /\ LeavesQty(orders[o]) = 0
          /\ UNCHANGED << orders, place, arrivals >>
       \/ /\ LeavesQty(orders[o]) > 0
          /\ RemainderExpires(orders[o])
          /\ orders' = [orders EXCEPT ![o] = CancelOrder(orders[o])]
          /\ UNCHANGED << place, arrivals >>
       \/ /\ LeavesQty(orders[o]) > 0
          /\ ~RemainderExpires(orders[o])
          /\ orders' = [orders EXCEPT ![o] = Rested(orders[o])]
          /\ place' = AddedAt(place, o, arrivals + 1)
          /\ arrivals' = arrivals + 1
    /\ EndTask
    /\ UNCHANGED << nextId, phaseVars, amends >>

MatchStep ==
    \E o \in OrderIds :
        \/ MatchDone(o)
        \/ \E r \in OrderIds : \/ MatchExecute(o, r)
                               \/ StpCancelNewest(o, r)
                               \/ StpCancelOldest(o, r)
                               \/ StpDecrement(o, r)

----------------------------------------------------------------------------
(* Cancellation and amendment *)

Cancelled(S) ==
    [o \in OrderIds |-> IF o \in S THEN CancelOrder(orders[o]) ELSE orders[o]]

\* Mutant: the order is cancelled in the registry and left on the book.
CancelInRegistry(o) ==
    /\ task = "idle"
    /\ IsLive(orders[o])
    /\ orders' = Cancelled({o})
    /\ UNCHANGED << place, arrivals, nextId, phaseVars, taskVars, amends >>

\* Engine.cancel_order, once the request has been resolved to a live order.
Cancel(o) ==
    /\ task = "idle"
    /\ IsLive(orders[o])
    /\ orders' = Cancelled({o})
    /\ place' = Removed(place, {o})
    /\ UNCHANGED << arrivals, nextId, phaseVars, taskVars, amends >>

\* Market.cancel_all by owner: cancel on disconnect and mass cancel are for one
\* session, the operator's orders.cancel_all for one or for all.
CancelScopes == {{key} : key \in Sessions} \cup {Sessions}

OnBook == Resting(place, "BUY") \cup Resting(place, "SELL")

CancelAll(keys) ==
    LET mine == {o \in OnBook : orders[o].session \in keys}
    IN  /\ task = "idle"
        /\ mine # {}
        /\ orders' = Cancelled(mine)
        /\ place' = Removed(place, mine)
        /\ UNCHANGED << arrivals, nextId, phaseVars, taskVars, amends >>

\* _reinsert_keeping_priority: the level is rebuilt in the order of the
\* sequence numbers, which are the order ids; the stamps are fresh.
Reinserted(o, ord) ==
    LET level == {q \in Priced(place, ord.side) : orders[q].price = ord.price}
                    \cup (IF IsPriceless(ord) THEN AtMarket(place, ord.side)
                          ELSE {})
                    \cup {o}
    IN  [q \in OrderIds |-> IF q \in level THEN arrivals + q ELSE place[q]]

LosesPriority(ord, price, qty) == price # ord.price \/ qty > ord.qty

\* matching.amend: the book with the amended order put back.
AmendedPlace(o, ord) ==
    IF LosesPriority(orders[o], ord.price, ord.qty)
    THEN AddedAt(place, o, arrivals + MaxOrders + 1)
    ELSE Reinserted(o, ord)

\* The order with the fields a replace request gives.
Revised(ord, a) ==
    [ord EXCEPT
        !.price    = IF a.price = NoPrice THEN ord.price ELSE a.price,
        !.qty      = IF a.qty = 0 THEN ord.qty ELSE a.qty,
        !.tif      = IF a.tif = NoKey THEN ord.tif ELSE a.tif,
        !.minQty   = IF a.minQty = Absent THEN ord.minQty ELSE a.minQty,
        !.postOnly = IF a.exec = "KEEP" THEN ord.postOnly
                     ELSE a.exec = "POST_ONLY"]

\* Engine.replace_order and Market.amend.  When matching is on, the order is
\* taken off the book again and re-entered.
Amend(o, a) ==
    LET ord == Revised(orders[o], a)
        pl  == AmendedPlace(o, ord)
    IN  /\ task = "idle"
        /\ amends < MaxAmends
        /\ IsLive(orders[o])
        /\ AllowsEntry
        /\ ord.qty > orders[o].cum
        /\ \/ /\ ~AllowsMatching
              /\ Settle(o, ord, pl)
           \/ /\ AllowsMatching
              /\ Submit(o, ord, Removed(pl, {o}), arrivals + 1)
        /\ amends' = amends + 1
        /\ arrivals' = arrivals + MaxOrders + 1
        /\ UNCHANGED << nextId, phaseVars >>

----------------------------------------------------------------------------
(* Operator commands: phases, overrides, self-trade prevention mode *)

Command ==
    /\ task = "idle"
    /\ phases < MaxPhases
    /\ phases' = phases + 1
    /\ UNCHANGED << arrivals, nextId, amends >>

\* Market._expire_orders, when a phase change happened and accepts no orders.
ExpireOrders(happened, s) ==
    IF happened /\ s \in NO_ENTRY
    THEN /\ orders' = Cancelled(OnBook)
         /\ place' = Removed(place, OnBook)
    ELSE UNCHANGED << orders, place >>

\* The auction is executed before the phase changes, or the expiry on the way
\* into a closed phase would leave it an empty book.
LeavingAuction(s) == marketState \in AuctionPhases /\ s \in UncrossInto

SetMarketState(s) ==
    /\ Command
    /\ ~LeavingAuction(s)
    /\ marketState' = s
    /\ ExpireOrders(s # marketState, s)
    /\ UNCHANGED << override, stpMode, taskVars >>

\* Market.uncross, for a venue that anchors the auction on the price ref.
StartUncrossAt(s, ref) ==
    /\ Command
    /\ task' = "auction"
    /\ \E p \in CandidatePrices \cup {ref} :
          /\ p = UncrossPrice(Rules, ref)
          /\ auctionPrice' = p
    /\ target' = s
    /\ UNCHANGED << orders, place, cur, marketState, override, stpMode >>

StartUncross(s) == LeavingAuction(s) /\ StartUncrossAt(s, RefPrice)

SetInstrumentState(s) ==
    /\ Command
    /\ s \in Overrides
    /\ override' = s
    /\ ExpireOrders(override # s, s)
    /\ UNCHANGED << marketState, stpMode, taskVars >>

ClearInstrumentState ==
    /\ Command
    /\ override # NoOverride
    /\ override' = NoOverride
    /\ UNCHANGED << orders, place, marketState, stpMode, taskVars >>

SetStpMode(m) ==
    /\ Command
    /\ m # stpMode
    /\ stpMode' = m
    /\ UNCHANGED << orders, place, marketState, override, taskVars >>

----------------------------------------------------------------------------
(* The auction loop *)

AuctionTrade(b, s) ==
    LET quantity == Lesser(LeavesQty(orders[b]), LeavesQty(orders[s]))
        buyer    == ApplyFill(orders[b], quantity, auctionPrice)
        seller   == ApplyFill(orders[s], quantity, auctionPrice)
        done     == {o \in {b, s} : LeavesQty(orders[o]) = quantity}
    IN  /\ task = "auction"
        /\ auctionPrice # NoPrice
        /\ b \in AuctionHead("BUY", auctionPrice)
        /\ s \in AuctionHead("SELL", auctionPrice)
        /\ orders' = [orders EXCEPT ![b] = buyer, ![s] = seller]
        /\ place' = Removed(place, done)
        /\ UNCHANGED << arrivals, nextId, phaseVars, taskVars, amends >>

\* Mutant: one side is forgotten.
UnfilledBuysAtAuction == AtMarket(place, "BUY")

\* _expire_at_auction_orders: what the auction left of the priceless orders.
UnfilledAtAuction == AtMarket(place, "BUY") \cup AtMarket(place, "SELL")

\* Unfilled at-auction orders are cancelled, then the phase is entered.
FinishUncross ==
    LET unfilled == UnfilledAtAuction
        closing  == IF target # marketState /\ target \in NO_ENTRY
                    THEN OnBook ELSE {}
    IN  /\ task = "auction"
        /\ \/ auctionPrice = NoPrice
           \/ AuctionHead("BUY", auctionPrice) = {}
           \/ AuctionHead("SELL", auctionPrice) = {}
        /\ orders' = Cancelled(unfilled \cup closing)
        /\ place' = Removed(place, unfilled \cup closing)
        /\ marketState' = target
        /\ task' = "idle"
        /\ auctionPrice' = NoPrice
        /\ target' = NoOverride
        /\ UNCHANGED << arrivals, nextId, cur, override, stpMode, phases, amends >>

AuctionStep ==
    \/ FinishUncross
    \/ \E b, s \in OrderIds : AuctionTrade(b, s)

----------------------------------------------------------------------------

Blank == [side |-> "BUY", type |-> "LIMIT", price |-> NoPrice, qty |-> 0,
          cum |-> 0, notional |-> 0, tif |-> "DAY", minQty |-> 0, postOnly |-> FALSE,
          session |-> NoKey, mpid |-> NoKey, stpId |-> NoKey, stpInst |-> NoKey,
          status |-> Unborn]

Init ==
    /\ orders = [o \in OrderIds |-> Blank]
    /\ place = [o \in OrderIds |-> 0]
    /\ arrivals = 0
    /\ nextId = 1
    /\ marketState \in InitialPhases
    /\ override = NoOverride
    /\ stpMode \in StpChoices
    /\ task = "idle"
    /\ cur = 0
    /\ auctionPrice = NoPrice
    /\ target = NoOverride
    /\ amends = 0
    /\ phases = 0

ClientStep ==
    \/ \E r \in Requests : NewOrder(r)
    \/ \E o \in OrderIds : Cancel(o)
    \/ \E keys \in CancelScopes : CancelAll(keys)
    \/ \E o \in OrderIds, a \in Amendments : Amend(o, a)

OperatorStep ==
    \/ \E s \in Phases : \/ SetMarketState(s)
                         \/ StartUncross(s)
                         \/ SetInstrumentState(s)
    \/ ClearInstrumentState
    \/ \E m \in StpChoices : SetStpMode(m)

Next == ClientStep \/ OperatorStep \/ MatchStep \/ AuctionStep

\* Both loops run to their end inside one handler of a single-threaded process,
\* so an iteration that can be taken is taken.
Spec == Init /\ [][Next]_vars /\ WF_vars(MatchStep) /\ WF_vars(AuctionStep)

=============================================================================
