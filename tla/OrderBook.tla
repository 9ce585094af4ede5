----------------------------- MODULE OrderBook -----------------------------
(***************************************************************************)
(* The book of one instrument in one market: exchangesim/core/book.py,     *)
(* with the auction's view of it (exchangesim/core/auction.py).            *)
(*                                                                         *)
(* BookSide keeps a sorted price ladder, a FIFO OrderedDict per price and  *)
(* an arrival-ordered queue of priceless orders.  Only the relative order  *)
(* inside one queue is ever observed, so the whole book is one function:   *)
(* place[o] = 0 when order o is not on the book, and otherwise the stamp of*)
(* the BookSide.add that put it there.  An order's price changes only      *)
(* while it is off the book (matching.amend), so its level is always       *)
(* orders[o].price.                                                        *)
(***************************************************************************)
EXTENDS Orders, Auction

CONSTANT MaxOrders          \* bound: how many orders are ever entered

ASSUME MaxOrdersAssumption == MaxOrders \in Nat

OrderIds == 1..MaxOrders    \* also Order.sequence: ids are issued in order

VARIABLES orders,           \* the registry: every order ever entered
          place,            \* the book
          arrivals          \* stamps handed out so far

----------------------------------------------------------------------------
(* Mutation of a place function *)

Resting(pl, side) == {o \in OrderIds : pl[o] # 0 /\ orders[o].side = side}

Removed(pl, S) == [o \in OrderIds |-> IF o \in S THEN 0 ELSE pl[o]]

AddedAt(pl, o, stamp) == [pl EXCEPT ![o] = stamp]

----------------------------------------------------------------------------
(* Inspection *)

Priced(pl, side) == {o \in Resting(pl, side) : ~IsPriceless(orders[o])}

AtMarket(pl, side) == {o \in Resting(pl, side) : IsPriceless(orders[o])}

\* Is price p more aggressive than q on this side?
BetterPrice(side, p, q) == IF side = "BUY" THEN p > q ELSE p < q

\* prices_in_priority and best_level: the most aggressive price level.
BestLevel(pl, side) ==
    {o \in Priced(pl, side) :
        \A q \in Priced(pl, side) :
            ~BetterPrice(side, orders[q].price, orders[o].price)}

\* crosses: would a price trade against this side's best?
Crosses(pl, side, price) ==
    \E o \in Priced(pl, side) :
        IF side = "BUY" THEN orders[o].price >= price
        ELSE orders[o].price <= price

IsCrossed ==
    \E b \in Priced(place, "BUY"), a \in Priced(place, "SELL") :
        orders[b].price >= orders[a].price

Quantity(S) == MapThenSumSet(LAMBDA o : LeavesQty(orders[o]), S)

----------------------------------------------------------------------------
(* The auction's view *)

\* What would trade at a price: at-auction orders accept any price.
ExecutableAt(side, price) ==
    {o \in Resting(place, side) :
        \/ IsPriceless(orders[o])
        \/ ~BetterPrice(side, price, orders[o].price)}

DemandAt(price) ==
    LET demand == Quantity(ExecutableAt("BUY", price))
        supply == Quantity(ExecutableAt("SELL", price))
    IN  [price |-> price, volume |-> Lesser(demand, supply),
         imbalance |-> demand - supply]

CandidatePrices ==
    {orders[o].price : o \in Priced(place, "BUY") \cup Priced(place, "SELL")}

TradableRows == {r \in {DemandAt(p) : p \in CandidatePrices} : r.volume > 0}

\* auction.uncross with Market.uncross's fallback: the price the auction is
\* executed at, NoPrice when there is none.
UncrossPrice(rules, ref) ==
    IF IsCrossed /\ TradableRows # {}
    THEN AuctionRow(TradableRows, rules, ref).price
    ELSE ref

\* Order type, then price, then time.
AuctionAhead(o, q) ==
    LET p == orders[o].price
        r == orders[q].price
    IN  IF p = r THEN place[o] < place[q]
        ELSE IsPriceless(orders[o])
             \/ (~IsPriceless(orders[q]) /\ BetterPrice(orders[o].side, p, r))

\* Mutant: time priority alone.
AuctionHeadByTime(side, price) ==
    {o \in ExecutableAt(side, price) :
        /\ LeavesQty(orders[o]) > 0
        /\ \A q \in ExecutableAt(side, price) \ {o} :
              LeavesQty(orders[q]) > 0 => place[o] < place[q]}

\* The heads of the two executable queues (_executable_side).
AuctionHead(side, price) ==
    {o \in ExecutableAt(side, price) :
        /\ LeavesQty(orders[o]) > 0
        /\ \A q \in ExecutableAt(side, price) \ {o} :
              LeavesQty(orders[q]) > 0 => AuctionAhead(o, q)}

=============================================================================
