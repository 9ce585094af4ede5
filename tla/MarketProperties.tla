-------------------------- MODULE MarketProperties --------------------------
(***************************************************************************)
(* What the market promises, over the state machine of Market.             *)
(***************************************************************************)
EXTENDS Market

Ledger == INSTANCE OrderLedger WITH Ids <- OrderIds, ledger <- orders

OrderType ==
    [side : Sides, type : OrderTypes, price : Nat, qty : Nat, cum : Nat,
     notional : Nat, tif : TimesInForce, minQty : Nat, postOnly : BOOLEAN,
     session : Sessions \cup {NoKey}, mpid : Mpids \cup {NoKey}, stpId : StpIds \cup {NoKey},
     stpInst : StpModes \cup {NoKey},
     status : Statuses \cup {Unborn}]

\* The type invariant of the market's state.
TypeOK ==
    /\ orders \in [OrderIds -> OrderType]
    /\ place \in [OrderIds -> Nat]
    /\ arrivals \in Nat
    /\ nextId \in 1..(MaxOrders + 1)
    /\ marketState \in AllPhases
    /\ override \in AllPhases \cup {NoOverride}
    /\ stpMode \in StpModes
    /\ task \in {"idle", "match", "auction"}
    /\ cur \in 0..MaxOrders
    /\ auctionPrice \in Nat
    /\ target \in AllPhases \cup {NoOverride}
    /\ amends \in 0..MaxAmends
    /\ phases \in 0..MaxPhases

----------------------------------------------------------------------------
(* Invariants *)

\* Between requests the book and the registry agree: an order rests on the book
\* exactly when it is live.  A live order off the book can never trade or be
\* swept by cancel_all, which walks the books and not the registry; a dead
\* order on it would block its level.
BookHoldsExactlyTheLiveOrders ==
    task = "idle" => \A o \in OrderIds : place[o] # 0 <=> IsLive(orders[o])

StatusAgrees(ord) ==
    /\ ord.cum <= ord.qty
    /\ ord.status = "NEW" => ord.cum = 0 /\ ord.qty > 0
    /\ ord.status = "PARTIALLY_FILLED" => 0 < ord.cum /\ ord.cum < ord.qty
    /\ ord.status = "FILLED" => ord.cum = ord.qty /\ ord.cum > 0
    /\ ord.status = "CANCELLED" => ord.cum < ord.qty

\* The status an order reports agrees with what it has executed, whatever mix of
\* fills, decrements, amendments and cancels it went through; in particular
\* apply_fill is never asked for more than the leaves quantity.
StatusAgreesWithFills == \A o \in OrderIds : StatusAgrees(orders[o])

\* "All-or-nothing, decided by a pre-check before anything executes", and "a client
\* cannot end up with a partial fill smaller than the minimum it asked for" (the
\* head of matching.py).  Self-trade prevention may break both: see AllOrNothing for
\* what holds.  An amendment may turn a partly filled order into one of these, so
\* this is about histories without amendments.
NeverLessThanAsked ==
    task = "idle" /\ amends = 0 => \A o \in OrderIds :
        LET ord == orders[o] IN
        /\ ord.tif = "FOK" => ord.cum \in {0, ord.qty}
        /\ ord.tif = "IOC" => ord.cum = 0 \/ ord.cum >= ord.minQty

\* The registry and the book, together, in every reachable state.
MarketIsConsistent ==
    /\ TypeOK
    /\ BookHoldsExactlyTheLiveOrders
    /\ StatusAgreesWithFills

\* What may rest depends on the phase the instrument is in, whatever commands led
\* to it.  In continuous trading the book is neither locked nor crossed
\* ("Continuous matching should make this impossible", OrderBook.is_crossed),
\* also right after an auction has handed its unfilled orders over.
ContinuousBookNotCrossed == AllowsMatching => ~IsCrossed

\* "a priceless order cannot rest into continuous trading at any venue, so it is
\* a core invariant" (Market.uncross).
OnlyPricedInContinuous ==
    AllowsMatching => \A o \in OnBook : ~IsPriceless(orders[o])

\* IOC and FOK are "values that never rest on the book" (enums.TimeInForce).  They
\* rest in a call phase, and stay on the book into continuous trading:
\* BookFitsThePhase says where they may have come from.
ImmediateNeverRests ==
    task = "idle" => \A o \in OnBook : ~IsImmediate(orders[o])

\* Nothing rests while the instrument's phase accepts no orders, nor while it is
\* halted by an instrument-level state under any market-wide phase.
NothingRestsWhileClosed ==
    ~AllowsEntry \/ override \in NO_ENTRY => OnBook = {}

\* The three together, between requests.
RestingFits ==
    task = "idle" => /\ ContinuousBookNotCrossed
                     /\ OnlyPricedInContinuous
                     /\ NothingRestsWhileClosed

----------------------------------------------------------------------------
(* Action properties *)

RestsImmediate(o) == o \in OnBook /\ IsImmediate(orders[o])

\* An order that must not wait comes to rest in a call phase only, by being
\* entered or amended there; no step of continuous trading leaves one behind.
ImmediateComesFromACall ==
    \A o \in OrderIds : RestsImmediate(o)' /\ ~RestsImmediate(o) =>
                           StateFor \in ACCUMULATING

\* What rests fits the phase, from an empty book on, and IOC and FOK orders among it
\* come from a call.
BookFitsThePhase == [][RestingFits' /\ ImmediateComesFromACall]_vars

\* The incoming order stops or shrinks short of its quantity.
FallsShort(o) ==
    /\ Matching(o)
    /\ orders'[o].status = "CANCELLED" \/ orders'[o].qty < orders[o].qty

\* Self-trade prevention ends or shrinks it: the best order it could trade with is
\* one it may not trade with, and the mode does not just remove that one.
StoppedBySelfTrade(o) ==
    \E r \in OrderIds : /\ IsBestMatch(orders[o], r)
                        /\ IsSelfTrade(orders[o], orders[r])
                        /\ StpModeFor(orders[o]) # "CANCEL_OLDEST"

\* What the pre-check of a fill-or-kill order, or of an IOC order with MinQty, has
\* counted is there when the loop comes to it (_precheck and _match): the order
\* trades all of its quantity, or its minimum, unless self-trade prevention stops
\* it at an order of its own.  This includes orders that an amendment turns into
\* one of these.
AllOrNothing ==
    [][\A o \in OrderIds : FallsShort(o) /\ ~StoppedBySelfTrade(o) =>
          /\ orders[o].tif # "FOK"
          /\ orders[o].tif = "IOC" => orders[o].cum >= orders[o].minQty]_vars

SameLevel(p, q) ==
    /\ {p, q} \subseteq OnBook
    /\ orders[p].side = orders[q].side
    /\ orders[p].price = orders[q].price

\* "raising the quantity or changing the price sends the order to the back of its
\* new price level; lowering the quantity alone keeps its place" (matching.amend):
\* two orders that neither are amended keep their order in the queue.
QueueIsKept ==
    [][\A p, q \in OrderIds :
          /\ SameLevel(p, q) /\ SameLevel(p, q)'
          /\ orders'[p].qty = orders[p].qty /\ orders'[q].qty = orders[q].qty
          /\ place[p] < place[q]
          => place'[p] < place'[q]]_vars

\* An order that is done stays exactly as it was: no later fill, cancel, amend,
\* decrement or expiry touches a filled, cancelled or rejected order.
TerminalIsFinal ==
    [][\A o \in OrderIds :
         orders[o].status \in TERMINAL => orders'[o] = orders[o]]_vars

FilledBy(o) == orders'[o].cum - orders[o].cum

\* A better-placed order of the same side: a better price, or the same price and
\* earlier in the queue; at-auction orders are ahead of every limit order.
Ahead(q, o) == orders[q].side = orders[o].side /\ AuctionAhead(q, o)

\* Price-time priority, in continuous trading and in the auction: a resting order
\* trades only when no order of its side that is ahead of it is still open.
InPriority(o) == \A q \in OnBook \ {o} : ~Ahead(q, o)

\* No trade is ever outside the limit of either order, and in continuous trading
\* it is at the resting order's price.
WithinLimit(o) ==
    LET ord   == orders[o]
        money == orders'[o].notional - ord.notional
    IN  /\ ~IsPriceless(ord) =>
              IF ord.side = "BUY" THEN money <= ord.price * FilledBy(o)
              ELSE money >= ord.price * FilledBy(o)
        /\ task = "match" /\ o # cur => money = ord.price * FilledBy(o)

\* Every fill is in priority and within its order's limit.
TradesAreFair ==
    [][\A o \in OrderIds :
         FilledBy(o) > 0 => /\ o \in OnBook => InPriority(o)
                            /\ WithinLimit(o)]_vars

\* The market implements the ledger: every step a client sees reported is an
\* opening, a two-sided trade, a revision, a decrement or a close.
ImplementsLedger == Ledger!LedgerSpec

----------------------------------------------------------------------------
(* Liveness *)

\* Both loops end: every request, whatever mix of executions and self-trade
\* prevention it runs into, is followed by the next one.
EveryTaskEnds == (task # "idle") ~> (task = "idle")

=============================================================================
