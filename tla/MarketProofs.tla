---------------------------- MODULE MarketProofs ----------------------------
(***************************************************************************)
(* Proofs about Market, for every number of orders, every set of requests  *)
(* and amendments and every choice of phases, and about order entry in     *)
(* front of it, for every number of sessions, names and behaviour rules.   *)
(***************************************************************************)
EXTENDS MarketProperties, OrderEntryProperties, WellFoundedInduction, TLAPS

----------------------------------------------------------------------------
(* Orders *)

\* What LeavesQty returns.
LEMMA LeavesFacts ==
    ASSUME NEW ord \in OrderType
    PROVE  /\ LeavesQty(ord) \in Nat
           /\ ord.status \in TERMINAL => LeavesQty(ord) = 0
           /\ LeavesQty(ord) > 0 => /\ LeavesQty(ord) = ord.qty - ord.cum
                                    /\ ord.cum < ord.qty
                                    /\ ord.status \notin TERMINAL
  BY DEF LeavesQty, OrderType

\* Fills keep an order an order.
LEMMA ApplyFillFacts ==
    ASSUME NEW ord \in OrderType, NEW q \in Nat, NEW p \in Nat
    PROVE  /\ ApplyFill(ord, q, p) \in OrderType
           /\ ApplyFill(ord, q, p).side = ord.side
           /\ ApplyFill(ord, q, p).qty = ord.qty
           /\ ApplyFill(ord, q, p).cum = ord.cum + q
           /\ ApplyFill(ord, q, p).status =
                IF ord.cum + q >= ord.qty THEN "FILLED" ELSE "PARTIALLY_FILLED"
  <1>1. p * q \in Nat
    BY SMT
  <1>2. ord.notional + p * q \in Nat
    BY <1>1 DEF OrderType
  <1>3. PICK money \in Nat : money = ord.notional + p * q
    BY <1>2
  <1>4. ApplyFill(ord, q, p) =
          [ord EXCEPT !.cum = ord.cum + q, !.notional = money,
                      !.status = IF ord.cum + q >= ord.qty THEN "FILLED"
                                 ELSE "PARTIALLY_FILLED"]
    BY <1>3 DEF ApplyFill
  <1>5. ord.cum + q \in Nat
    BY DEF OrderType
  <1>6. CASE ord.cum + q >= ord.qty
    BY <1>4, <1>5, <1>6 DEF OrderType, Statuses, LIVE, TERMINAL
  <1>7. CASE ~(ord.cum + q >= ord.qty)
    BY <1>4, <1>5, <1>7 DEF OrderType, Statuses, LIVE, TERMINAL
  <1> QED
    BY <1>6, <1>7

\* Cancelling keeps an order an order, and everything but its status.
LEMMA CancelFacts ==
    ASSUME NEW ord \in OrderType
    PROVE  /\ CancelOrder(ord) \in OrderType
           /\ CancelOrder(ord).cum = ord.cum
           /\ CancelOrder(ord).qty = ord.qty
           /\ CancelOrder(ord).status =
                IF ord.status \in TERMINAL THEN ord.status ELSE "CANCELLED"
           /\ ~IsLive(CancelOrder(ord))
  BY DEF CancelOrder, OrderType, Statuses, LIVE, TERMINAL, IsLive

\* A decrement by less than the open quantity leaves an order with the rest.
LEMMA ReduceFacts ==
    ASSUME NEW ord \in OrderType, NEW by \in Nat,
           by < LeavesQty(ord)
    PROVE  /\ ReduceQuantity(ord, by) = [ord EXCEPT !.qty = ord.qty - by]
           /\ ReduceQuantity(ord, by) \in OrderType
           /\ ord.cum < ord.qty - by
  BY LeavesFacts DEF ReduceQuantity, Greater, LeavesQty, OrderType

----------------------------------------------------------------------------
(* The inductive invariant.  While an order is being matched it is off the *)
(* book though it may be live, so the agreement of book and registry has   *)
(* an exception for it; and an id is unused exactly when it has not been   *)
(* issued, so that a new order never lands on an old one.                  *)

BookInv ==
    \A o \in OrderIds :
        IF task = "match" /\ o = cur THEN place[o] = 0
        ELSE place[o] # 0 <=> IsLive(orders[o])

IssuedInv == \A o \in OrderIds : orders[o].status = Unborn <=> o >= nextId

TaskInv ==
    /\ task = "match" => cur \in OrderIds /\ cur < nextId
    /\ task = "auction" => target \in AllPhases

IInv == TypeOK /\ StatusAgreesWithFills /\ BookInv /\ IssuedInv /\ TaskInv

\* What entering an order does, wherever it comes from.
LEMMA SubmitFacts ==
    ASSUME orders \in [OrderIds -> OrderType], task = "idle", cur \in 0..MaxOrders,
           StatusAgreesWithFills,
           NEW o \in OrderIds, NEW ord \in OrderType,
           ord.status \in LIVE, StatusAgrees(ord),
           NEW pl \in [OrderIds -> Nat], NEW stamp \in Nat \ {0},
           pl[o] = 0,
           \A q \in OrderIds \ {o} : pl[q] # 0 <=> IsLive(orders[q]),
           Submit(o, ord, pl, stamp)
    PROVE  /\ orders' \in [OrderIds -> OrderType]
           /\ place' \in [OrderIds -> Nat]
           /\ StatusAgreesWithFills'
           /\ BookInv'
           /\ \A q \in OrderIds \ {o} : orders'[q] = orders[q]
           /\ orders'[o].status # Unborn
           /\ task' \in {"idle", "match"} /\ cur' \in 0..MaxOrders
           /\ task' = "match" => cur' = o
           /\ auctionPrice' = auctionPrice /\ target' = target
  <1> DEFINE Entered(new) ==
               /\ new \in OrderType
               /\ StatusAgrees(new)
               /\ new.status # Unborn
  <1>a. ord.cum < ord.qty /\ IsLive(ord)
    BY DEF StatusAgrees, LIVE, IsLive, LeavesQty, TERMINAL, OrderType
  <1>1. CASE SubmitRejected(o, ord, pl)
    <2> DEFINE new == [ord EXCEPT !.status = "REJECTED"]
    <2>1. Entered(new) /\ ~IsLive(new)
      BY <1>a DEF OrderType, Statuses, TERMINAL, LIVE, StatusAgrees, Unborn, IsLive
    <2>2. /\ orders' = [orders EXCEPT ![o] = new]
          /\ place' = pl
          /\ task' = task /\ cur' = cur
          /\ auctionPrice' = auctionPrice /\ target' = target
      BY <1>1 DEF SubmitRejected, Settle, taskVars
    <2> HIDE DEF new
    <2> QED
      BY <2>1, <2>2 DEF StatusAgreesWithFills, BookInv
  <1>2. CASE SubmitAccumulated(o, ord, pl, stamp)
    <2> DEFINE new == Rested(ord)
    <2>1. Entered(new) /\ IsLive(new)
      BY <1>a DEF OrderType, Statuses, TERMINAL, LIVE, StatusAgrees, Unborn,
                  IsLive, Rested, LeavesQty
    <2>2. /\ orders' = [orders EXCEPT ![o] = new]
          /\ place' = [pl EXCEPT ![o] = stamp]
          /\ task' = task /\ cur' = cur
          /\ auctionPrice' = auctionPrice /\ target' = target
      BY <1>2 DEF SubmitAccumulated, Settle, taskVars, AddedAt
    <2> HIDE DEF new
    <2> QED
      BY <2>1, <2>2 DEF StatusAgreesWithFills, BookInv
  <1>3. CASE SubmitBlocked(o, ord, pl)
    <2> DEFINE new == CancelOrder(ord)
    <2>1. Entered(new) /\ ~IsLive(new)
      BY <1>a, CancelFacts DEF TERMINAL, LIVE, StatusAgrees, Unborn
    <2>2. /\ orders' = [orders EXCEPT ![o] = new]
          /\ place' = pl
          /\ task' = task /\ cur' = cur
          /\ auctionPrice' = auctionPrice /\ target' = target
      BY <1>3 DEF SubmitBlocked, Settle, taskVars
    <2> HIDE DEF new
    <2> QED
      BY <2>1, <2>2 DEF StatusAgreesWithFills, BookInv
  <1>4. CASE SubmitMatching(o, ord, pl)
    <2>1. /\ orders' = [orders EXCEPT ![o] = ord]
          /\ place' = pl
          /\ task' = "match" /\ cur' = o
          /\ auctionPrice' = auctionPrice /\ target' = target
      BY <1>4 DEF SubmitMatching
    <2>2. ord.status # Unborn
      BY DEF LIVE, Unborn
    <2> QED
      BY <2>1, <2>2 DEF StatusAgreesWithFills, BookInv, OrderIds
  <1> QED
    BY <1>1, <1>2, <1>3, <1>4 DEF Submit

----------------------------------------------------------------------------
(* One lemma per operation: each preserves the invariant *)

LEMMA NewOrderInv ==
    ASSUME IInv, NEW r, ValidRequest(r), NewOrder(r)
    PROVE  IInv'
  <1> DEFINE o == nextId
             ord == BuildOrder(r)
  <1>1. /\ o \in OrderIds
        /\ orders[o].status = Unborn
        /\ place \in [OrderIds -> Nat]
        /\ place[o] = 0
        /\ \A q \in OrderIds \ {o} : place[q] # 0 <=> IsLive(orders[q])
    BY DEF IInv, TypeOK, NewOrder, IssuedInv, BookInv, OrderIds, IsLive, LIVE, Unborn
  <1>2. ord \in OrderType /\ ord.status \in LIVE /\ StatusAgrees(ord)
    BY DEF ValidRequest, BuildOrder, OrderType, StatusAgrees, LIVE, Statuses
  <1>3. Submit(o, ord, place, arrivals + 1) /\ arrivals + 1 \in Nat \ {0}
    BY DEF NewOrder, IInv, TypeOK
  <1> HIDE DEF ord
  <1>4. /\ orders' \in [OrderIds -> OrderType]
        /\ place' \in [OrderIds -> Nat]
        /\ StatusAgreesWithFills'
        /\ BookInv'
        /\ \A q \in OrderIds \ {o} : orders'[q] = orders[q]
        /\ orders'[o].status # Unborn
        /\ task' \in {"idle", "match"} /\ cur' \in 0..MaxOrders
        /\ task' = "match" => cur' = o
        /\ auctionPrice' = auctionPrice /\ target' = target
    BY <1>1, <1>2, <1>3, SubmitFacts DEF IInv, TypeOK, NewOrder
  <1>5. TypeOK'
    BY <1>1, <1>4, MaxOrdersAssumption DEF IInv, TypeOK, NewOrder, phaseVars, OrderIds
  <1>6. IssuedInv'
    <2> SUFFICES ASSUME NEW q \in OrderIds
                 PROVE  orders'[q].status = Unborn <=> q >= nextId'
      BY DEF IssuedInv
    <2>1. nextId' = nextId + 1 /\ nextId \in Nat /\ q \in Nat
      BY DEF NewOrder, IInv, TypeOK, OrderIds
    <2>2. CASE q = o
      BY <1>4, <2>1, <2>2
    <2>3. CASE q # o
      BY <1>4, <2>1, <2>3 DEF IInv, IssuedInv
    <2> QED
      BY <2>2, <2>3
  <1>7. TaskInv'
    BY <1>1, <1>4, MaxOrdersAssumption DEF IInv, TypeOK, NewOrder, TaskInv, OrderIds
  <1> QED
    BY <1>4, <1>5, <1>6, <1>7 DEF IInv

\* The two orders a matching step works on: both open, and different.
LEMMA MatchFacts ==
    ASSUME IInv, NEW o \in OrderIds, NEW r \in OrderIds,
           Matching(o), LeavesQty(orders[o]) > 0, IsBestMatch(orders[o], r)
    PROVE  /\ o # r /\ place[o] = 0 /\ place[r] # 0
           /\ orders[o] \in OrderType /\ orders[r] \in OrderType
           /\ StatusAgrees(orders[o]) /\ StatusAgrees(orders[r])
           /\ IsLive(orders[o]) /\ IsLive(orders[r])
           /\ orders[r].side = Opposite(orders[o].side)
           /\ orders[r].price # NoPrice
           /\ PricesCross(orders[o], orders[r].price)
           /\ o < nextId /\ r < nextId
  <1>1. /\ orders[o] \in OrderType /\ orders[r] \in OrderType
        /\ StatusAgrees(orders[o]) /\ StatusAgrees(orders[r])
        /\ place[o] = 0
        /\ o < nextId
    BY DEF IInv, TypeOK, StatusAgreesWithFills, BookInv, Matching, TaskInv
  <1>2. /\ place[r] # 0 /\ orders[r].side = Opposite(orders[o].side)
        /\ orders[r].price # NoPrice
        /\ PricesCross(orders[o], orders[r].price)
    BY DEF IsBestMatch, BestLevel, Priced, Resting, IsPriceless
  <1>3. orders[o].status # Unborn
    BY <1>1 DEF IInv, IssuedInv, TypeOK, OrderIds
  <1>4. IsLive(orders[o])
    BY <1>1, <1>3, LeavesFacts DEF IsLive, OrderType, Statuses
  <1>5. o # r
    BY <1>1, <1>2
  <1>6. IsLive(orders[r])
    BY <1>2, <1>5 DEF IInv, BookInv, Matching
  <1>7. r < nextId
    BY <1>6 DEF IInv, IssuedInv, TypeOK, OrderIds, IsLive, LIVE, Unborn
  <1> QED
    BY <1>1, <1>2, <1>4, <1>5, <1>6, <1>7

\* A step that rewrites two issued orders and keeps the book in agreement.
LEMMA RewriteTwo ==
    ASSUME IInv,
           NEW o \in OrderIds, NEW r \in OrderIds, o # r,
           o < nextId, r < nextId,
           NEW a \in OrderType, NEW b \in OrderType,
           StatusAgrees(a), StatusAgrees(b),
           a.status # Unborn, b.status # Unborn,
           orders' = [orders EXCEPT ![o] = a, ![r] = b],
           place' \in [OrderIds -> Nat],
           \A q \in OrderIds \ {o, r} : place'[q] = place[q],
           place'[r] # 0 <=> IsLive(b),
           IF task' = "match" THEN place'[o] = 0 ELSE place'[o] # 0 <=> IsLive(a),
           task = "match" => cur = o,
           task' = task \/ task' = "idle",
           task' = "match" => cur' = cur,
           cur' \in 0..MaxOrders,
           auctionPrice' = auctionPrice, target' = target,
           UNCHANGED << arrivals, nextId, phaseVars, amends >>
    PROVE  IInv'
  <1>1. /\ orders' \in [OrderIds -> OrderType]
        /\ orders'[o] = a /\ orders'[r] = b
        /\ \A q \in OrderIds \ {o, r} : orders'[q] = orders[q]
    BY DEF IInv, TypeOK
  <1>2. TypeOK'
    BY <1>1 DEF IInv, TypeOK, phaseVars
  <1>3. StatusAgreesWithFills'
    BY <1>1 DEF IInv, StatusAgreesWithFills
  <1>4. BookInv'
    <2> SUFFICES ASSUME NEW q \in OrderIds
                 PROVE  IF task' = "match" /\ q = cur' THEN place'[q] = 0
                        ELSE place'[q] # 0 <=> IsLive(orders'[q])
      BY DEF BookInv
    <2>1. CASE q = o
      BY <1>1, <2>1
    <2>2. CASE q = r
      BY <1>1, <2>2
    <2>3. CASE q \notin {o, r}
      BY <1>1, <2>3 DEF IInv, BookInv
    <2> QED
      BY <2>1, <2>2, <2>3
  <1>5. IssuedInv'
    <2> SUFFICES ASSUME NEW q \in OrderIds
                 PROVE  orders'[q].status = Unborn <=> q >= nextId
      BY DEF IssuedInv
    <2>1. CASE q \in {o, r}
      BY <1>1, <2>1 DEF IInv, TypeOK, OrderIds
    <2>2. CASE q \notin {o, r}
      BY <1>1, <2>2 DEF IInv, IssuedInv
    <2> QED
      BY <2>1, <2>2
  <1>6. TaskInv'
    BY DEF IInv, TaskInv
  <1> QED
    BY <1>2, <1>3, <1>4, <1>5, <1>6 DEF IInv

\* A fill of at most the open quantity.
LEMMA FillFacts ==
    ASSUME NEW ord \in OrderType, StatusAgrees(ord), IsLive(ord),
           NEW q \in Nat \ {0}, q <= LeavesQty(ord), NEW p \in Nat
    PROVE  /\ ApplyFill(ord, q, p) \in OrderType
           /\ StatusAgrees(ApplyFill(ord, q, p))
           /\ ApplyFill(ord, q, p).status # Unborn
           /\ IsLive(ApplyFill(ord, q, p)) <=> q < LeavesQty(ord)
           /\ LeavesQty(ApplyFill(ord, q, p)) = 0 <=> q = LeavesQty(ord)
  <1> DEFINE new == ApplyFill(ord, q, p)
  <1>1. /\ new \in OrderType /\ new.qty = ord.qty /\ new.cum = ord.cum + q
        /\ new.status = IF ord.cum + q >= ord.qty THEN "FILLED"
                        ELSE "PARTIALLY_FILLED"
    BY ApplyFillFacts
  <1>2. LeavesQty(ord) = ord.qty - ord.cum /\ LeavesQty(ord) \in Nat
    BY LeavesFacts DEF IsLive
  <1>3. ord.qty \in Nat /\ ord.cum \in Nat
    BY DEF OrderType
  <1> DEFINE Goal == /\ StatusAgrees(new)
                     /\ new.status # Unborn
                     /\ IsLive(new) <=> q < LeavesQty(ord)
                     /\ LeavesQty(new) = 0 <=> q = LeavesQty(ord)
  <1> SUFFICES Goal
    BY <1>1
  <1> HIDE DEF new
  <1>4. CASE q = LeavesQty(ord)
    <2>1. new.cum = new.qty /\ new.status = "FILLED" /\ new.cum > 0
      BY <1>1, <1>2, <1>3, <1>4
    <2> QED
      BY <1>1, <1>2, <1>3, <1>4, <2>1
         DEF StatusAgrees, IsLive, LeavesQty, LIVE, TERMINAL, Unborn
  <1>5. CASE q < LeavesQty(ord)
    <2>1. new.cum < new.qty /\ new.status = "PARTIALLY_FILLED" /\ new.cum > 0
      BY <1>1, <1>2, <1>3, <1>5
    <2>2. LeavesQty(new) = new.qty - new.cum
      BY <1>1, <1>3, <2>1 DEF LeavesQty, TERMINAL
    <2> QED
      BY <1>1, <1>2, <1>3, <1>5, <2>1, <2>2 DEF StatusAgrees, IsLive, LIVE, Unborn
  <1> QED
    BY <1>2, <1>4, <1>5

LEMMA MatchExecuteInv ==
    ASSUME IInv, NEW o \in OrderIds, NEW r \in OrderIds, MatchExecute(o, r)
    PROVE  IInv'
  <1> DEFINE quantity == Lesser(LeavesQty(orders[o]), LeavesQty(orders[r]))
             price == orders[r].price
             a == ApplyFill(orders[o], quantity, price)
             b == ApplyFill(orders[r], quantity, price)
  <1>1. /\ o # r /\ place[o] = 0 /\ place[r] # 0
        /\ orders[o] \in OrderType /\ orders[r] \in OrderType
        /\ StatusAgrees(orders[o]) /\ StatusAgrees(orders[r])
        /\ IsLive(orders[o]) /\ IsLive(orders[r])
        /\ o < nextId /\ r < nextId
    BY MatchFacts DEF MatchExecute
  <1>2. /\ quantity \in Nat \ {0}
        /\ quantity <= LeavesQty(orders[o]) /\ quantity <= LeavesQty(orders[r])
        /\ price \in Nat
    BY <1>1, LeavesFacts DEF Lesser, IsLive, OrderType
  <1> HIDE DEF quantity, price
  <1>3. /\ a \in OrderType /\ StatusAgrees(a) /\ a.status # Unborn
        /\ b \in OrderType /\ StatusAgrees(b) /\ b.status # Unborn
        /\ IsLive(b) <=> quantity < LeavesQty(orders[r])
        /\ LeavesQty(b) = 0 <=> quantity = LeavesQty(orders[r])
    BY <1>1, <1>2, FillFacts
  <1>4. /\ orders' = [orders EXCEPT ![o] = a, ![r] = b]
        /\ place' = IF LeavesQty(b) = 0 THEN Removed(place, {r}) ELSE place
        /\ task = "match" /\ cur = o
        /\ UNCHANGED << task, cur, auctionPrice, target >>
        /\ UNCHANGED << arrivals, nextId, phaseVars, amends >>
    BY DEF MatchExecute, Matching, taskVars, quantity, price
  <1> HIDE DEF a, b
  <1>5. /\ place' \in [OrderIds -> Nat]
        /\ \A q \in OrderIds \ {o, r} : place'[q] = place[q]
        /\ place'[o] = 0
        /\ place'[r] # 0 <=> LeavesQty(b) # 0
    BY <1>1, <1>4 DEF Removed, IInv, TypeOK
  <1>6. LeavesQty(b) # 0 <=> IsLive(b)
    BY <1>1, <1>2, <1>3, LeavesFacts
  <1>7. cur' \in 0..MaxOrders
    BY <1>4 DEF IInv, TypeOK
  <1> QED
    BY <1>1, <1>3, <1>4, <1>5, <1>6, <1>7, RewriteTwo

\* Cancelling and decrementing an open order.
LEMMA CloseFacts ==
    ASSUME NEW ord \in OrderType, StatusAgrees(ord), IsLive(ord)
    PROVE  /\ CancelOrder(ord) \in OrderType
           /\ StatusAgrees(CancelOrder(ord))
           /\ CancelOrder(ord).status = "CANCELLED"
           /\ CancelOrder(ord).status # Unborn
           /\ ~IsLive(CancelOrder(ord))
  <1>1. /\ CancelOrder(ord) \in OrderType
        /\ CancelOrder(ord).cum = ord.cum
        /\ CancelOrder(ord).qty = ord.qty
        /\ CancelOrder(ord).status = "CANCELLED"
        /\ ~IsLive(CancelOrder(ord))
    BY CancelFacts DEF IsLive, LIVE, TERMINAL
  <1>2. ord.cum < ord.qty
    BY LeavesFacts DEF IsLive
  <1> QED
    BY <1>1, <1>2 DEF StatusAgrees, Unborn, OrderType

LEMMA ShrinkFacts ==
    ASSUME NEW ord \in OrderType, StatusAgrees(ord), IsLive(ord),
           NEW n \in Nat, n < LeavesQty(ord)
    PROVE  /\ ReduceQuantity(ord, n) \in OrderType
           /\ StatusAgrees(ReduceQuantity(ord, n))
           /\ ReduceQuantity(ord, n).status # Unborn
           /\ IsLive(ReduceQuantity(ord, n))
  <1> DEFINE new == ReduceQuantity(ord, n)
  <1>1. /\ new = [ord EXCEPT !.qty = ord.qty - n]
        /\ new \in OrderType
        /\ ord.cum < ord.qty - n
    BY ReduceFacts
  <1>2. /\ new.status = ord.status /\ new.cum = ord.cum /\ new.qty = ord.qty - n
        /\ ord.status \in LIVE
        /\ ord.qty \in Nat /\ ord.cum \in Nat
    BY <1>1 DEF OrderType, IsLive
  <1> SUFFICES StatusAgrees(new) /\ new.status # Unborn /\ IsLive(new)
    BY <1>1
  <1> HIDE DEF new
  <1> QED
    BY <1>1, <1>2 DEF StatusAgrees, IsLive, LeavesQty, LIVE, TERMINAL, Unborn

LEMMA SelfMatchFacts ==
    ASSUME IInv, NEW o \in OrderIds, NEW r \in OrderIds, SelfMatch(o, r)
    PROVE  /\ o # r /\ place[o] = 0 /\ place[r] # 0
           /\ orders[o] \in OrderType /\ orders[r] \in OrderType
           /\ StatusAgrees(orders[o]) /\ StatusAgrees(orders[r])
           /\ IsLive(orders[o]) /\ IsLive(orders[r])
           /\ orders[r].side = Opposite(orders[o].side)
           /\ o < nextId /\ r < nextId
           /\ orders[o].status # Unborn /\ orders[r].status # Unborn
           /\ task = "match" /\ cur = o
           /\ place \in [OrderIds -> Nat]
           /\ cur \in 0..MaxOrders
           /\ UNCHANGED << arrivals, nextId, phaseVars, amends >>
  <1>1. Matching(o) /\ LeavesQty(orders[o]) > 0 /\ IsBestMatch(orders[o], r)
    BY DEF SelfMatch
  <1>2. /\ o # r /\ place[o] = 0 /\ place[r] # 0
        /\ orders[o] \in OrderType /\ orders[r] \in OrderType
        /\ StatusAgrees(orders[o]) /\ StatusAgrees(orders[r])
        /\ IsLive(orders[o]) /\ IsLive(orders[r])
        /\ orders[r].side = Opposite(orders[o].side)
        /\ o < nextId /\ r < nextId
    BY <1>1, MatchFacts
  <1> QED
    BY <1>1, <1>2 DEF SelfMatch, Matching, IInv, TypeOK, IsLive, LIVE, Unborn

LEMMA StpInv ==
    ASSUME IInv, NEW o \in OrderIds, NEW r \in OrderIds,
           StpCancelNewest(o, r) \/ StpCancelOldest(o, r) \/ StpDecrement(o, r)
    PROVE  IInv'
  <1>a. SelfMatch(o, r)
    BY DEF StpCancelNewest, StpCancelOldest, StpDecrement
  <1> DEFINE co == CancelOrder(orders[o])
             cr == CancelOrder(orders[r])
             ro == ReduceQuantity(orders[o], LeavesQty(orders[r]))
             rr == ReduceQuantity(orders[r], LeavesQty(orders[o]))
  <1>b. /\ o # r /\ place[o] = 0 /\ place[r] # 0
        /\ orders[o] \in OrderType /\ orders[r] \in OrderType
        /\ StatusAgrees(orders[o]) /\ StatusAgrees(orders[r])
        /\ IsLive(orders[o]) /\ IsLive(orders[r])
        /\ o < nextId /\ r < nextId
        /\ orders[o].status # Unborn /\ orders[r].status # Unborn
        /\ task = "match" /\ cur = o
        /\ place \in [OrderIds -> Nat]
        /\ cur \in 0..MaxOrders /\ 0 \in 0..MaxOrders
        /\ UNCHANGED << arrivals, nextId, phaseVars, amends >>
    BY <1>a, SelfMatchFacts, MaxOrdersAssumption
  <1>c. /\ Removed(place, {r}) \in [OrderIds -> Nat]
        /\ Removed(place, {r})[r] = 0
        /\ Removed(place, {r})[o] = 0
        /\ \A q \in OrderIds \ {o, r} : Removed(place, {r})[q] = place[q]
    BY <1>b DEF Removed
  <1>d. /\ co \in OrderType /\ StatusAgrees(co) /\ co.status # Unborn /\ ~IsLive(co)
        /\ cr \in OrderType /\ StatusAgrees(cr) /\ cr.status # Unborn /\ ~IsLive(cr)
    BY <1>b, CloseFacts
  <1>e. LeavesQty(orders[o]) \in Nat /\ LeavesQty(orders[r]) \in Nat
    BY <1>b, LeavesFacts
  <1>f. orders \in [OrderIds -> OrderType]
    BY DEF IInv, TypeOK
  <1>1. CASE StpCancelNewest(o, r)
    <2>1. /\ orders' = [orders EXCEPT ![o] = co, ![r] = orders[r]]
          /\ place' = place /\ task' = "idle" /\ cur' = 0
          /\ auctionPrice' = auctionPrice /\ target' = target
      BY <1>1, <1>f, <1>b DEF StpCancelNewest, EndTask
    <2> HIDE DEF co, cr
    <2> QED
      BY <1>b, <1>d, <2>1, RewriteTwo
  <1>2. CASE StpCancelOldest(o, r)
    <2>1. /\ orders' = [orders EXCEPT ![o] = orders[o], ![r] = cr]
          /\ place' = Removed(place, {r}) /\ task' = task /\ cur' = cur
          /\ auctionPrice' = auctionPrice /\ target' = target
      BY <1>2, <1>f, <1>b DEF StpCancelOldest, taskVars
    <2> HIDE DEF co, cr
    <2> QED
      BY <1>b, <1>c, <1>d, <2>1, RewriteTwo
  <1>3. CASE StpDecrement(o, r)
    <2>1. CASE LeavesQty(orders[o]) = LeavesQty(orders[r])
      <3>1. /\ orders' = [orders EXCEPT ![o] = co, ![r] = cr]
            /\ place' = Removed(place, {r}) /\ task' = "idle" /\ cur' = 0
            /\ auctionPrice' = auctionPrice /\ target' = target
        BY <1>3, <1>e, <2>1 DEF StpDecrement, EndTask
      <3> HIDE DEF co, cr
      <3> QED
        BY <1>b, <1>c, <1>d, <3>1, RewriteTwo
    <2>2. CASE LeavesQty(orders[r]) < LeavesQty(orders[o])
      <3>1. /\ orders' = [orders EXCEPT ![o] = ro, ![r] = cr]
            /\ place' = Removed(place, {r}) /\ task' = task /\ cur' = cur
            /\ auctionPrice' = auctionPrice /\ target' = target
        BY <1>3, <1>e, <2>2 DEF StpDecrement, taskVars
      <3>2. ro \in OrderType /\ StatusAgrees(ro) /\ ro.status # Unborn
        BY <1>b, <1>e, <2>2, ShrinkFacts
      <3> HIDE DEF co, cr, ro
      <3> QED
        BY <1>b, <1>c, <1>d, <3>1, <3>2, RewriteTwo
    <2>3. CASE LeavesQty(orders[o]) < LeavesQty(orders[r])
      <3>1. /\ orders' = [orders EXCEPT ![o] = co, ![r] = rr]
            /\ place' = place /\ task' = "idle" /\ cur' = 0
            /\ auctionPrice' = auctionPrice /\ target' = target
        BY <1>3, <1>e, <2>3 DEF StpDecrement, EndTask
      <3>2. rr \in OrderType /\ StatusAgrees(rr) /\ rr.status # Unborn /\ IsLive(rr)
        BY <1>b, <1>e, <2>3, ShrinkFacts
      <3> HIDE DEF co, cr, rr
      <3> QED
        BY <1>b, <1>d, <3>1, <3>2, RewriteTwo
    <2> QED
      BY <1>e, <2>1, <2>2, <2>3
  <1> QED
    BY <1>1, <1>2, <1>3

\* The tail of submit leaves a finished order off the book and an open one on it.
LEMMA MatchDoneInv ==
    ASSUME IInv, NEW o \in OrderIds, MatchDone(o)
    PROVE  IInv'
  <1>1. /\ orders \in [OrderIds -> OrderType] /\ orders[o] \in OrderType
        /\ place \in [OrderIds -> Nat] /\ place[o] = 0
        /\ StatusAgrees(orders[o])
        /\ o < nextId /\ arrivals \in Nat
        /\ task = "match" /\ cur = o
    BY DEF IInv, TypeOK, StatusAgreesWithFills, BookInv, MatchDone, Matching, TaskInv
  <1>2. orders[o].status # Unborn
    BY <1>1 DEF IInv, IssuedInv, TypeOK, OrderIds
  <1>3. LeavesQty(orders[o]) > 0 => IsLive(orders[o])
    BY <1>1, <1>2, LeavesFacts DEF IsLive, OrderType, Statuses
  <1>4. /\ task' = "idle" /\ cur' = 0
        /\ auctionPrice' = auctionPrice /\ target' = target
        /\ UNCHANGED << nextId, phaseVars, amends >>
    BY DEF MatchDone, EndTask
  <1> SUFFICES ASSUME NEW new \in OrderType, NEW stamp \in Nat,
                      orders' = [orders EXCEPT ![o] = new],
                      place' = [place EXCEPT ![o] = stamp],
                      StatusAgrees(new), new.status # Unborn,
                      stamp # 0 <=> IsLive(new),
                      arrivals' \in Nat
               PROVE  IInv'
    <2>1. CASE LeavesQty(orders[o]) = 0 /\ UNCHANGED << orders, place, arrivals >>
      <3>1. ~IsLive(orders[o])
        BY <2>1 DEF IsLive
      <3> QED
        BY <1>1, <1>2, <2>1, <3>1
    <2>2. CASE /\ LeavesQty(orders[o]) > 0
               /\ orders' = [orders EXCEPT ![o] = CancelOrder(orders[o])]
               /\ UNCHANGED << place, arrivals >>
      <3>1. /\ CancelOrder(orders[o]) \in OrderType
            /\ StatusAgrees(CancelOrder(orders[o]))
            /\ CancelOrder(orders[o]).status # Unborn
            /\ ~IsLive(CancelOrder(orders[o]))
        BY <1>1, <1>3, <2>2, CloseFacts
      <3> QED
        BY <1>1, <2>2, <3>1
    <2>3. CASE /\ LeavesQty(orders[o]) > 0
               /\ orders' = [orders EXCEPT ![o] = Rested(orders[o])]
               /\ place' = AddedAt(place, o, arrivals + 1)
               /\ arrivals' = arrivals + 1
      <3>1. /\ Rested(orders[o]) \in OrderType
            /\ StatusAgrees(Rested(orders[o]))
            /\ Rested(orders[o]).status # Unborn
            /\ IsLive(Rested(orders[o]))
        BY <1>1, <1>3, <2>3, LeavesFacts
           DEF OrderType, Statuses, TERMINAL, LIVE, StatusAgrees, Unborn,
               IsLive, Rested, LeavesQty
      <3>2. arrivals + 1 \in Nat \ {0}
        BY <1>1
      <3> QED
        BY <1>1, <2>3, <3>1, <3>2 DEF AddedAt
    <2> QED
      BY <2>1, <2>2, <2>3 DEF MatchDone
  <1>5. /\ orders' \in [OrderIds -> OrderType] /\ place' \in [OrderIds -> Nat]
        /\ orders'[o] = new /\ place'[o] = stamp
        /\ \A q \in OrderIds \ {o} : orders'[q] = orders[q] /\ place'[q] = place[q]
    BY <1>1
  <1>6. TypeOK'
    BY <1>4, <1>5, MaxOrdersAssumption DEF IInv, TypeOK, phaseVars
  <1>7. StatusAgreesWithFills'
    BY <1>5 DEF IInv, StatusAgreesWithFills
  <1>8. BookInv'
    BY <1>1, <1>4, <1>5 DEF IInv, BookInv
  <1>9. IssuedInv'
    BY <1>1, <1>2, <1>4, <1>5 DEF IInv, IssuedInv
  <1>10. TaskInv'
    BY <1>4 DEF TaskInv
  <1> QED
    BY <1>6, <1>7, <1>8, <1>9, <1>10 DEF IInv

\* Cancelling any set of orders that are on the book.
LEMMA CancelledFacts ==
    ASSUME IInv, task # "match", task' # "match",
           NEW S, S \subseteq OrderIds,
           \A o \in S : place[o] # 0,
           orders' = Cancelled(S), place' = Removed(place, S),
           nextId' = nextId
    PROVE  /\ orders' \in [OrderIds -> OrderType]
           /\ place' \in [OrderIds -> Nat]
           /\ StatusAgreesWithFills' /\ BookInv' /\ IssuedInv'
  <1>1. /\ orders \in [OrderIds -> OrderType] /\ place \in [OrderIds -> Nat]
        /\ \A o \in OrderIds : place[o] # 0 <=> IsLive(orders[o])
    BY DEF IInv, TypeOK, BookInv
  <1>2. \A o \in S : /\ CancelOrder(orders[o]) \in OrderType
                     /\ StatusAgrees(CancelOrder(orders[o]))
                     /\ CancelOrder(orders[o]).status # Unborn
                     /\ ~IsLive(CancelOrder(orders[o]))
                     /\ orders[o].status # Unborn
    <2> SUFFICES ASSUME NEW o \in S
                 PROVE  /\ CancelOrder(orders[o]) \in OrderType
                        /\ StatusAgrees(CancelOrder(orders[o]))
                        /\ CancelOrder(orders[o]).status # Unborn
                        /\ ~IsLive(CancelOrder(orders[o]))
                        /\ orders[o].status # Unborn
      OBVIOUS
    <2>1. o \in OrderIds /\ orders[o] \in OrderType /\ IsLive(orders[o])
          /\ StatusAgrees(orders[o])
      BY <1>1 DEF IInv, StatusAgreesWithFills
    <2> QED
      BY <2>1, CloseFacts DEF IsLive, LIVE, Unborn
  <1>3. \A o \in OrderIds :
           /\ orders'[o] = IF o \in S THEN CancelOrder(orders[o]) ELSE orders[o]
           /\ place'[o] = IF o \in S THEN 0 ELSE place[o]
    BY DEF Cancelled, Removed
  <1>4. orders' \in [OrderIds -> OrderType]
    BY <1>1, <1>2 DEF Cancelled
  <1>5. place' \in [OrderIds -> Nat]
    BY <1>1 DEF Removed
  <1>6. StatusAgreesWithFills'
    BY <1>2, <1>3 DEF IInv, StatusAgreesWithFills
  <1>7. BookInv'
    BY <1>1, <1>2, <1>3 DEF BookInv
  <1>8. IssuedInv'
    BY <1>2, <1>3 DEF IInv, IssuedInv
  <1> QED
    BY <1>4, <1>5, <1>6, <1>7, <1>8

\* Cancelling any orders of the book between requests.
LEMMA CancelledInv ==
    ASSUME IInv, task = "idle",
           NEW S, S \subseteq OrderIds,
           \A o \in S : place[o] # 0,
           orders' = Cancelled(S), place' = Removed(place, S),
           UNCHANGED << arrivals, nextId, phaseVars, taskVars, amends >>
    PROVE  IInv'
  <1>1. task' = "idle" /\ nextId' = nextId
    BY DEF taskVars
  <1>2. /\ orders' \in [OrderIds -> OrderType]
        /\ place' \in [OrderIds -> Nat]
        /\ StatusAgreesWithFills' /\ BookInv' /\ IssuedInv'
    BY <1>1, CancelledFacts
  <1>3. TypeOK'
    BY <1>2 DEF IInv, TypeOK, phaseVars, taskVars
  <1> QED
    BY <1>1, <1>2, <1>3 DEF IInv, TaskInv

\* Cancelling one order, or all the orders of a firm.
LEMMA CancelInv ==
    ASSUME IInv,
           \/ \E o \in OrderIds : Cancel(o)
           \/ \E m \in CancelScopes : CancelAll(m)
    PROVE  IInv'
  <1>1. \E S \in SUBSET OrderIds :
           /\ \A o \in S : place[o] # 0
           /\ orders' = Cancelled(S) /\ place' = Removed(place, S)
           /\ task = "idle"
           /\ UNCHANGED << arrivals, nextId, phaseVars, taskVars, amends >>
    <2>1. ASSUME NEW o \in OrderIds, Cancel(o)
          PROVE  /\ {o} \in SUBSET OrderIds
                 /\ \A q \in {o} : place[q] # 0
                 /\ orders' = Cancelled({o}) /\ place' = Removed(place, {o})
                 /\ task = "idle"
                 /\ UNCHANGED << arrivals, nextId, phaseVars, taskVars, amends >>
      BY <2>1 DEF Cancel, IInv, BookInv
    <2>2. ASSUME NEW m \in CancelScopes, CancelAll(m)
          PROVE  \E S \in SUBSET OrderIds :
                   /\ \A o \in S : place[o] # 0
                   /\ orders' = Cancelled(S) /\ place' = Removed(place, S)
                   /\ task = "idle"
                   /\ UNCHANGED << arrivals, nextId, phaseVars, taskVars, amends >>
      <3> DEFINE mine == {o \in OnBook : orders[o].session \in m}
      <3>1. mine \in SUBSET OrderIds /\ \A o \in mine : place[o] # 0
        BY DEF OnBook, Resting
      <3>2. /\ orders' = Cancelled(mine) /\ place' = Removed(place, mine)
            /\ task = "idle"
            /\ UNCHANGED << arrivals, nextId, phaseVars, taskVars, amends >>
        BY <2>2 DEF CancelAll
      <3> HIDE DEF mine
      <3> QED
        BY <3>1, <3>2
    <2> QED
      BY <2>1, <2>2
  <1>2. PICK S \in SUBSET OrderIds :
           /\ \A o \in S : place[o] # 0
           /\ orders' = Cancelled(S) /\ place' = Removed(place, S)
           /\ task = "idle"
           /\ UNCHANGED << arrivals, nextId, phaseVars, taskVars, amends >>
    BY <1>1
  <1> QED
    BY <1>2, CancelledInv

\* The book an amendment rebuilds holds the amended order and whom it held before.
LEMMA AmendedPlaceFacts ==
    ASSUME place \in [OrderIds -> Nat], arrivals \in Nat,
           NEW o \in OrderIds, NEW ord \in OrderType
    PROVE  /\ AmendedPlace(o, ord) \in [OrderIds -> Nat]
           /\ AmendedPlace(o, ord)[o] # 0
           /\ \A q \in OrderIds \ {o} : AmendedPlace(o, ord)[q] # 0 <=> place[q] # 0
  <1>1. \A q \in OrderIds : arrivals + q \in Nat \ {0}
    BY DEF OrderIds
  <1>2. arrivals + MaxOrders + 1 \in Nat \ {0}
    BY MaxOrdersAssumption
  <1>3. CASE LosesPriority(orders[o], ord.price, ord.qty)
    BY <1>2, <1>3 DEF AmendedPlace, AddedAt
  <1>4. CASE ~LosesPriority(orders[o], ord.price, ord.qty)
    <2> DEFINE level == {q \in Priced(place, ord.side) : orders[q].price = ord.price}
                          \cup (IF IsPriceless(ord) THEN AtMarket(place, ord.side)
                                ELSE {})
                          \cup {o}
    <2>1. /\ o \in level
          /\ \A q \in level \ {o} : place[q] # 0
      BY DEF Priced, AtMarket, Resting
    <2>2. AmendedPlace(o, ord) =
            [q \in OrderIds |-> IF q \in level THEN arrivals + q ELSE place[q]]
      BY <1>4 DEF AmendedPlace, Reinserted
    <2> HIDE DEF level
    <2> QED
      BY <1>1, <2>1, <2>2
  <1> QED
    BY <1>3, <1>4

\* A revised order is an order, with the fills it had.
LEMMA RevisedFacts ==
    ASSUME NEW old \in OrderType, NEW c \in Amendments
    PROVE  /\ Revised(old, c) \in OrderType
           /\ Revised(old, c).status = old.status /\ Revised(old, c).cum = old.cum
           /\ Revised(old, c).side = old.side
           /\ Revised(old, c).notional = old.notional
           /\ Revised(old, c).qty \in Nat
  <1> DEFINE price == IF c.price = NoPrice THEN old.price ELSE c.price
             qty == IF c.qty = 0 THEN old.qty ELSE c.qty
             tif == IF c.tif = NoKey THEN old.tif ELSE c.tif
             minQty == IF c.minQty = Absent THEN old.minQty ELSE c.minQty
             post == IF c.exec = "KEEP" THEN old.postOnly ELSE c.exec = "POST_ONLY"
  <1>1. ValidAmendment(c)
    BY AmendmentsAssumption
  <1>2. price \in Nat /\ qty \in Nat /\ tif \in TimesInForce /\ minQty \in Nat
    BY <1>1 DEF ValidAmendment, OrderType, Absent
  <1>3. post \in BOOLEAN
    BY DEF OrderType
  <1>4. Revised(old, c) = [old EXCEPT !.price = price, !.qty = qty, !.tif = tif,
                                      !.minQty = minQty, !.postOnly = post]
    BY DEF Revised
  <1> HIDE DEF price, qty, tif, minQty, post
  <1> QED
    BY <1>2, <1>3, <1>4 DEF OrderType

\* An amended order is put back where its book allows, or entered again.
LEMMA AmendInv ==
    ASSUME IInv, NEW o \in OrderIds, NEW c \in Amendments, Amend(o, c)
    PROVE  IInv'
  <1> DEFINE ord == Revised(orders[o], c)
             pl == AmendedPlace(o, ord)
  <1>1. /\ orders \in [OrderIds -> OrderType] /\ orders[o] \in OrderType
        /\ place \in [OrderIds -> Nat] /\ arrivals \in Nat
        /\ task = "idle" /\ cur \in 0..MaxOrders
        /\ StatusAgreesWithFills /\ StatusAgrees(orders[o])
        /\ IsLive(orders[o])
        /\ orders[o].status # Unborn
        /\ ord.qty > orders[o].cum
        /\ \A q \in OrderIds : place[q] # 0 <=> IsLive(orders[q])
    BY DEF Amend, IInv, TypeOK, StatusAgreesWithFills, BookInv, IsLive, LIVE, Unborn
  <1>3. /\ ord \in OrderType
        /\ ord.status = orders[o].status /\ ord.cum = orders[o].cum
        /\ ord.qty \in Nat
    BY <1>1, RevisedFacts
  <1>4. /\ \/ /\ ~AllowsMatching
              /\ Settle(o, ord, pl)
           \/ /\ AllowsMatching
              /\ Submit(o, ord, Removed(pl, {o}), arrivals + 1)
        /\ amends < MaxAmends /\ amends' = amends + 1
        /\ arrivals' = arrivals + MaxOrders + 1
        /\ UNCHANGED << nextId, phaseVars >>
    BY DEF Amend
  <1> HIDE DEF ord, pl
  <1>5. ord.status \in LIVE /\ StatusAgrees(ord) /\ IsLive(ord)
    BY <1>1, <1>3 DEF IsLive, LIVE, StatusAgrees, OrderType, LeavesQty, TERMINAL
  <1>6. /\ pl \in [OrderIds -> Nat]
        /\ pl[o] # 0
        /\ \A q \in OrderIds \ {o} : pl[q] # 0 <=> place[q] # 0
    BY <1>1, <1>3, AmendedPlaceFacts DEF pl
  <1>7. /\ orders' \in [OrderIds -> OrderType]
        /\ place' \in [OrderIds -> Nat]
        /\ StatusAgreesWithFills'
        /\ BookInv'
        /\ \A q \in OrderIds \ {o} : orders'[q] = orders[q]
        /\ orders'[o].status # Unborn
        /\ task' \in {"idle", "match"} /\ cur' \in 0..MaxOrders
        /\ task' = "match" => cur' = o
        /\ auctionPrice' = auctionPrice /\ target' = target
    <2>1. CASE ~AllowsMatching /\ Settle(o, ord, pl)
      <3>1. /\ orders' = [orders EXCEPT ![o] = ord] /\ place' = pl
            /\ task' = task /\ cur' = cur
            /\ auctionPrice' = auctionPrice /\ target' = target
        BY <2>1 DEF Settle, taskVars
      <3> QED
        BY <1>1, <1>3, <1>5, <1>6, <3>1 DEF StatusAgreesWithFills, BookInv
    <2>2. CASE AllowsMatching /\ Submit(o, ord, Removed(pl, {o}), arrivals + 1)
      <3> DEFINE off == Removed(pl, {o})
      <3>1. /\ off \in [OrderIds -> Nat] /\ off[o] = 0
            /\ \A q \in OrderIds \ {o} : off[q] # 0 <=> IsLive(orders[q])
        BY <1>1, <1>6 DEF Removed
      <3>2. arrivals + 1 \in Nat \ {0}
        BY <1>1
      <3>3. Submit(o, ord, off, arrivals + 1)
        BY <2>2
      <3> HIDE DEF off
      <3> QED
        BY <1>1, <1>3, <1>5, <3>1, <3>2, <3>3, SubmitFacts
    <2> QED
      BY <1>4, <2>1, <2>2
  <1>8. TypeOK'
    BY <1>1, <1>4, <1>7, MaxOrdersAssumption, BoundsAssumption
       DEF IInv, TypeOK, phaseVars
  <1>9. IssuedInv'
    BY <1>1, <1>4, <1>7 DEF IInv, IssuedInv
  <1>10. TaskInv'
    <2>1. o < nextId
      BY <1>1 DEF IInv, IssuedInv, TypeOK, OrderIds
    <2> QED
      BY <1>4, <1>7, <2>1 DEF IInv, TaskInv
  <1> QED
    BY <1>7, <1>8, <1>9, <1>10 DEF IInv

\* Commands that leave the orders, the book and the loops alone.
LEMMA QuietFacts ==
    ASSUME IInv, UNCHANGED << orders, place, nextId, task, cur >>
    PROVE  /\ orders' \in [OrderIds -> OrderType]
           /\ place' \in [OrderIds -> Nat]
           /\ StatusAgreesWithFills' /\ BookInv' /\ IssuedInv'
  BY DEF IInv, TypeOK, StatusAgreesWithFills, BookInv, IssuedInv

\* The expiry that a change of phase brings with it.
LEMMA ExpireFacts ==
    ASSUME IInv, task = "idle", NEW h, NEW s, ExpireOrders(h, s),
           UNCHANGED << nextId, task, cur >>
    PROVE  /\ orders' \in [OrderIds -> OrderType]
           /\ place' \in [OrderIds -> Nat]
           /\ StatusAgreesWithFills' /\ BookInv' /\ IssuedInv'
  <1>1. OnBook \subseteq OrderIds /\ \A o \in OnBook : place[o] # 0
    BY DEF OnBook, Resting
  <1>2. CASE h /\ s \in NO_ENTRY
    <2>1. orders' = Cancelled(OnBook) /\ place' = Removed(place, OnBook)
      BY <1>2 DEF ExpireOrders
    <2> QED
      BY <1>1, <2>1, CancelledFacts
  <1>3. CASE ~(h /\ s \in NO_ENTRY)
    <2>1. UNCHANGED << orders, place >>
      BY <1>3 DEF ExpireOrders
    <2> QED
      BY <2>1, QuietFacts
  <1> QED
    BY <1>2, <1>3

\* The start of an auction, whatever price it is anchored on.
LEMMA StartUncrossInv ==
    ASSUME IInv, NEW s \in Phases, NEW ref \in Nat, StartUncrossAt(s, ref)
    PROVE  IInv'
  <1>1. s \in AllPhases
    BY PhasesAssumption
  <1>2. /\ Command /\ task' = "auction" /\ target' = s
        /\ auctionPrice' \in CandidatePrices \cup {ref}
        /\ UNCHANGED << orders, place, cur, marketState, override, stpMode >>
    BY DEF StartUncrossAt
  <1>3. CandidatePrices \cup {ref} \subseteq Nat
    BY DEF CandidatePrices, Priced, Resting, IInv, TypeOK, OrderType
  <1>4. TypeOK'
    BY <1>1, <1>2, <1>3, BoundsAssumption DEF Command, IInv, TypeOK
  <1>5. StatusAgreesWithFills' /\ IssuedInv'
    BY <1>2 DEF Command, IInv, StatusAgreesWithFills, IssuedInv
  <1>6. BookInv'
    BY <1>2 DEF Command, IInv, BookInv
  <1> QED
    BY <1>1, <1>2, <1>4, <1>5, <1>6 DEF IInv, TaskInv

\* Phase changes, overrides and the self-trade prevention mode.
LEMMA OperatorInv ==
    ASSUME IInv, OperatorStep
    PROVE  IInv'
  <1>a. \A s \in Phases : s \in AllPhases
    BY PhasesAssumption
  <1>1. ASSUME NEW s \in Phases, SetMarketState(s)
        PROVE  IInv'
    <2>1. /\ Command /\ marketState' = s
          /\ ExpireOrders(s # marketState, s)
          /\ UNCHANGED << override, stpMode, task, cur, auctionPrice, target >>
      BY <1>1 DEF SetMarketState, taskVars
    <2>2. /\ task = "idle" /\ nextId' = nextId
      BY <2>1 DEF Command
    <2>3. /\ orders' \in [OrderIds -> OrderType]
          /\ place' \in [OrderIds -> Nat]
          /\ StatusAgreesWithFills' /\ BookInv' /\ IssuedInv'
      BY <2>1, <2>2, ExpireFacts
    <2>4. TypeOK'
      BY <1>a, <2>1, <2>3, BoundsAssumption DEF Command, IInv, TypeOK
    <2> QED
      BY <2>1, <2>2, <2>3, <2>4 DEF IInv, TaskInv
  <1>2. ASSUME NEW s \in Phases, SetInstrumentState(s)
        PROVE  IInv'
    <2>1. /\ Command /\ override' = s
          /\ ExpireOrders(override # s, s)
          /\ UNCHANGED << marketState, stpMode, task, cur, auctionPrice, target >>
      BY <1>2 DEF SetInstrumentState, taskVars
    <2>2. /\ task = "idle" /\ nextId' = nextId
      BY <2>1 DEF Command
    <2>3. /\ orders' \in [OrderIds -> OrderType]
          /\ place' \in [OrderIds -> Nat]
          /\ StatusAgreesWithFills' /\ BookInv' /\ IssuedInv'
      BY <2>1, <2>2, ExpireFacts
    <2>4. TypeOK'
      BY <1>a, <2>1, <2>3, BoundsAssumption DEF Command, IInv, TypeOK
    <2> QED
      BY <2>1, <2>2, <2>3, <2>4 DEF IInv, TaskInv
  <1>3. ASSUME NEW s \in Phases, StartUncross(s)
        PROVE  IInv'
    BY <1>3, StartUncrossInv, PhasesAssumption DEF StartUncross
  <1>4. ASSUME ClearInstrumentState \/ \E m \in StpChoices : SetStpMode(m)
        PROVE  IInv'
    <2>1. /\ Command
          /\ override' \in {override, NoOverride}
          /\ stpMode' \in {stpMode} \cup StpModes
          /\ UNCHANGED << orders, place, marketState, task, cur, auctionPrice,
                          target >>
      BY <1>4, PhasesAssumption DEF ClearInstrumentState, SetStpMode, taskVars
    <2>2. /\ orders' \in [OrderIds -> OrderType]
          /\ place' \in [OrderIds -> Nat]
          /\ StatusAgreesWithFills' /\ BookInv' /\ IssuedInv'
      BY <2>1, QuietFacts DEF Command
    <2>3. TypeOK'
      BY <2>1, <2>2, BoundsAssumption DEF Command, IInv, TypeOK
    <2> QED
      BY <2>1, <2>2, <2>3 DEF Command, IInv, TaskInv
  <1> QED
    BY <1>1, <1>2, <1>3, <1>4 DEF OperatorStep

\* The two orders at the heads of the auction's queues: both open, and different.
LEMMA AuctionFacts ==
    ASSUME IInv, NEW b \in OrderIds, NEW s \in OrderIds, AuctionTrade(b, s)
    PROVE  /\ b # s /\ place[b] # 0 /\ place[s] # 0
           /\ orders[b].side = "BUY" /\ orders[s].side = "SELL"
           /\ orders[b] \in OrderType /\ orders[s] \in OrderType
           /\ StatusAgrees(orders[b]) /\ StatusAgrees(orders[s])
           /\ IsLive(orders[b]) /\ IsLive(orders[s])
           /\ b < nextId /\ s < nextId
           /\ IsPriceless(orders[b]) \/ auctionPrice <= orders[b].price
           /\ IsPriceless(orders[s]) \/ auctionPrice >= orders[s].price
  <1>1. /\ place[b] # 0 /\ orders[b].side = "BUY"
        /\ place[s] # 0 /\ orders[s].side = "SELL"
        /\ IsPriceless(orders[b]) \/ ~(auctionPrice > orders[b].price)
        /\ IsPriceless(orders[s]) \/ ~(auctionPrice < orders[s].price)
        /\ task = "auction"
    BY DEF AuctionTrade, AuctionHead, ExecutableAt, Resting, BetterPrice
  <1>2. /\ orders[b] \in OrderType /\ orders[s] \in OrderType
        /\ StatusAgrees(orders[b]) /\ StatusAgrees(orders[s])
        /\ auctionPrice \in Nat
    BY DEF IInv, TypeOK, StatusAgreesWithFills
  <1>3. IsLive(orders[b]) /\ IsLive(orders[s])
    BY <1>1 DEF IInv, BookInv
  <1>4. b < nextId /\ s < nextId
    BY <1>3 DEF IInv, IssuedInv, TypeOK, OrderIds, IsLive, LIVE, Unborn
  <1>5. orders[b].price \in Nat /\ orders[s].price \in Nat
    BY <1>2 DEF OrderType
  <1>6. b # s
    BY <1>1
  <1> QED
    BY <1>1, <1>2, <1>3, <1>4, <1>5, <1>6

\* An auction trade fills both orders alike and takes the finished ones away.
LEMMA AuctionTradeInv ==
    ASSUME IInv, NEW b \in OrderIds, NEW s \in OrderIds, AuctionTrade(b, s)
    PROVE  IInv'
  <1> DEFINE quantity == Lesser(LeavesQty(orders[b]), LeavesQty(orders[s]))
             buyer == ApplyFill(orders[b], quantity, auctionPrice)
             seller == ApplyFill(orders[s], quantity, auctionPrice)
             done == {o \in {b, s} : LeavesQty(orders[o]) = quantity}
  <1>1. /\ b # s /\ place[b] # 0 /\ place[s] # 0
        /\ orders[b] \in OrderType /\ orders[s] \in OrderType
        /\ StatusAgrees(orders[b]) /\ StatusAgrees(orders[s])
        /\ IsLive(orders[b]) /\ IsLive(orders[s])
        /\ b < nextId /\ s < nextId
    BY AuctionFacts
  <1>2. /\ LeavesQty(orders[b]) \in Nat /\ LeavesQty(orders[s]) \in Nat
        /\ quantity \in Nat \ {0}
        /\ quantity <= LeavesQty(orders[b]) /\ quantity <= LeavesQty(orders[s])
        /\ auctionPrice \in Nat
    BY <1>1, LeavesFacts DEF Lesser, IsLive, IInv, TypeOK
  <1>3. /\ orders' = [orders EXCEPT ![b] = buyer, ![s] = seller]
        /\ place' = Removed(place, done)
        /\ task = "auction"
        /\ UNCHANGED << task, cur, auctionPrice, target >>
        /\ UNCHANGED << arrivals, nextId, phaseVars, amends >>
    BY DEF AuctionTrade, taskVars
  <1> HIDE DEF quantity
  <1>4. /\ buyer \in OrderType /\ StatusAgrees(buyer) /\ buyer.status # Unborn
        /\ IsLive(buyer) <=> quantity < LeavesQty(orders[b])
        /\ seller \in OrderType /\ StatusAgrees(seller) /\ seller.status # Unborn
        /\ IsLive(seller) <=> quantity < LeavesQty(orders[s])
    BY <1>1, <1>2, FillFacts
  <1>5. /\ place' \in [OrderIds -> Nat]
        /\ \A q \in OrderIds \ {b, s} : place'[q] = place[q]
        /\ place'[b] # 0 <=> LeavesQty(orders[b]) # quantity
        /\ place'[s] # 0 <=> LeavesQty(orders[s]) # quantity
    BY <1>1, <1>3 DEF Removed, IInv, TypeOK
  <1> HIDE DEF buyer, seller, done
  <1>6. /\ place'[b] # 0 <=> IsLive(buyer)
        /\ place'[s] # 0 <=> IsLive(seller)
    BY <1>2, <1>4, <1>5
  <1>7. cur' \in 0..MaxOrders
    BY <1>3 DEF IInv, TypeOK
  <1> QED
    BY <1>1, <1>3, <1>4, <1>5, <1>6, <1>7, RewriteTwo

\* The end of the auction, and the phase it leads to.
LEMMA FinishUncrossInv ==
    ASSUME IInv, FinishUncross
    PROVE  IInv'
  <1> DEFINE closing == IF target # marketState /\ target \in NO_ENTRY
                        THEN OnBook ELSE {}
             S == UnfilledAtAuction \cup closing
  <1>1. S \subseteq OrderIds /\ \A o \in S : place[o] # 0
    BY DEF UnfilledAtAuction, AtMarket, OnBook, Resting
  <1>2. /\ orders' = Cancelled(S) /\ place' = Removed(place, S)
        /\ task = "auction" /\ task' = "idle"
        /\ marketState' = target /\ auctionPrice' = NoPrice
        /\ target' = NoOverride
        /\ UNCHANGED << arrivals, nextId, cur, override, stpMode, phases, amends >>
    BY DEF FinishUncross
  <1> HIDE DEF S
  <1>3. /\ orders' \in [OrderIds -> OrderType]
        /\ place' \in [OrderIds -> Nat]
        /\ StatusAgreesWithFills' /\ BookInv' /\ IssuedInv'
    BY <1>1, <1>2, CancelledFacts
  <1>4. target \in AllPhases
    BY <1>2 DEF IInv, TaskInv
  <1>5. TypeOK'
    BY <1>2, <1>3, <1>4 DEF IInv, TypeOK, NoPrice
  <1> QED
    BY <1>2, <1>3, <1>5 DEF IInv, TaskInv

----------------------------------------------------------------------------
(* The theorems *)

\* The empty market satisfies the invariant.
LEMMA InitInv == Init => IInv
  <1> SUFFICES ASSUME Init PROVE IInv
    OBVIOUS
  <1>1. Blank \in OrderType /\ StatusAgrees(Blank) /\ Blank.status = Unborn
    BY DEF Blank, OrderType, StatusAgrees, Unborn, Sides, OrderTypes, TimesInForce, NoPrice
  <1>2. ~IsLive(Blank)
    BY <1>1 DEF IsLive, LIVE, Unborn
  <1>3. \A o \in OrderIds : orders[o] = Blank /\ place[o] = 0
    BY DEF Init
  <1>4. TypeOK
    <2>1. orders \in [OrderIds -> OrderType] /\ place \in [OrderIds -> Nat]
      BY <1>1 DEF Init
    <2> QED
      BY <2>1, MaxOrdersAssumption, BoundsAssumption, PhasesAssumption
         DEF Init, TypeOK, NoPrice
  <1>5. StatusAgreesWithFills
    BY <1>1, <1>3 DEF StatusAgreesWithFills
  <1>6. BookInv
    BY <1>2, <1>3 DEF BookInv, Init
  <1>7. IssuedInv
    BY <1>1, <1>3 DEF IssuedInv, Init, OrderIds
  <1>8. TaskInv
    BY DEF TaskInv, Init
  <1> QED
    BY <1>4, <1>5, <1>6, <1>7, <1>8 DEF IInv

\* Every operation of the market preserves the invariant.
LEMMA NextInv == IInv /\ [Next]_vars => IInv'
  <1> SUFFICES ASSUME IInv, [Next]_vars PROVE IInv'
    OBVIOUS
  <1>1. CASE ClientStep
    BY <1>1, NewOrderInv, RequestsAssumption, CancelInv, AmendInv DEF ClientStep
  <1>2. CASE OperatorStep
    BY <1>2, OperatorInv
  <1>3. CASE MatchStep
    BY <1>3, MatchExecuteInv, StpInv, MatchDoneInv DEF MatchStep
  <1>4. CASE AuctionStep
    BY <1>4, AuctionTradeInv, FinishUncrossInv DEF AuctionStep
  <1>5. CASE UNCHANGED vars
    <2>1. /\ UNCHANGED << orders, place, arrivals, nextId >>
          /\ UNCHANGED << marketState, override, stpMode, phases >>
          /\ UNCHANGED << task, cur, auctionPrice, target >> /\ amends' = amends
      BY <1>5 DEF vars, bookVars, phaseVars, taskVars
    <2>2. TypeOK' /\ StatusAgreesWithFills' /\ BookInv' /\ IssuedInv' /\ TaskInv'
      BY <2>1
         DEF IInv, TypeOK, StatusAgreesWithFills, BookInv, IssuedInv, TaskInv
    <2> QED
      BY <2>2 DEF IInv
  <1> QED
    BY <1>1, <1>2, <1>3, <1>4, <1>5 DEF Next

\* The inductive invariant holds in every reachable state.
THEOREM Invariance == Spec => []IInv
  BY InitInv, NextInv, PTL DEF Spec

\* Every state the market reaches is well typed; in particular quantities,
\* executed quantities and money never go negative.
THEOREM TypeCorrect == Spec => []TypeOK
  <1>1. IInv => TypeOK
    BY DEF IInv
  <1> QED
    BY <1>1, Invariance, PTL

\* For any number of orders and any mix of operations, the book and the registry
\* agree between requests: an order rests exactly when it is live.
THEOREM BookCorrect == Spec => []BookHoldsExactlyTheLiveOrders
  <1>1. IInv => BookHoldsExactlyTheLiveOrders
    BY DEF IInv, BookInv, BookHoldsExactlyTheLiveOrders
  <1> QED
    BY <1>1, Invariance, PTL

\* No order is ever overfilled, and the status reported agrees with what traded.
THEOREM StatusCorrect == Spec => []StatusAgreesWithFills
  <1>1. IInv => StatusAgreesWithFills
    BY DEF IInv
  <1> QED
    BY <1>1, Invariance, PTL

\* Together: whatever is entered, amended, cancelled, traded, halted or auctioned,
\* registry and book agree on every order.
THEOREM MarketCorrect == Spec => []MarketIsConsistent
  <1>1. TypeOK /\ BookHoldsExactlyTheLiveOrders /\ StatusAgreesWithFills
          => MarketIsConsistent
    BY DEF MarketIsConsistent
  <1> QED
    BY <1>1, TypeCorrect, BookCorrect, StatusCorrect, PTL

----------------------------------------------------------------------------
(* The market implements the ledger: every step of Market, seen through    *)
(* the orders alone, is a step of OrderLedger or leaves it unchanged.      *)

\* The ledger reads an order as the market does.
LEMMA SameReading ==
    ASSUME NEW ord
    PROVE  /\ Ledger!IsLive(ord) <=> IsLive(ord)
           /\ Ledger!LeavesQty(ord) = LeavesQty(ord)
           /\ Ledger!CancelOrder(ord) = CancelOrder(ord)
           /\ Ledger!IsPriceless(ord) <=> IsPriceless(ord)
  BY DEF Ledger!IsLive, IsLive, Ledger!LeavesQty, LeavesQty,
         Ledger!CancelOrder, CancelOrder, Ledger!TERMINAL, TERMINAL,
         Ledger!LIVE, LIVE, Ledger!IsPriceless, IsPriceless, Ledger!NoPrice, NoPrice

\* A larger price makes a larger amount.
LEMMA Monotone ==
    ASSUME NEW p \in Nat, NEW q \in Nat, NEW n \in Nat, p <= q
    PROVE  p * n <= q * n
  BY SMT

LedgerStep == [Ledger!LedgerNext]_orders

\* Cancelling any set of open orders closes them.
LEMMA CloseStep ==
    ASSUME NEW S, S \subseteq OrderIds, orders' = Cancelled(S),
           \A o \in S : IsLive(orders[o])
    PROVE  Ledger!LedgerNext
  <1>1. \A o \in OrderIds :
           \/ orders'[o] = orders[o]
           \/ IsLive(orders[o]) /\ orders'[o] = CancelOrder(orders[o])
    BY DEF Cancelled
  <1>2. Ledger!Close
    BY <1>1, SameReading DEF Ledger!Close
  <1> QED
    BY <1>2 DEF Ledger!LedgerNext

\* Two open orders of opposite sides filled with the same quantity, for the same
\* money and inside both limits.
LEMMA TradeStep ==
    ASSUME orders \in [OrderIds -> OrderType],
           NEW b \in OrderIds, NEW s \in OrderIds, b # s,
           orders[b].side = "BUY", orders[s].side = "SELL",
           IsLive(orders[b]), IsLive(orders[s]),
           NEW n \in Nat \ {0}, n <= LeavesQty(orders[b]), n <= LeavesQty(orders[s]),
           NEW p \in Nat,
           IsPriceless(orders[b]) \/ p <= orders[b].price,
           IsPriceless(orders[s]) \/ orders[s].price <= p,
           orders'[b] = ApplyFill(orders[b], n, p),
           orders'[s] = ApplyFill(orders[s], n, p),
           \A q \in OrderIds \ {b, s} : orders'[q] = orders[q]
    PROVE  Ledger!LedgerNext
  <1>1. /\ orders[b] \in OrderType /\ orders[s] \in OrderType
        /\ orders[b].price \in Nat /\ orders[s].price \in Nat
        /\ orders[b].cum \in Nat /\ orders[s].cum \in Nat
        /\ orders[b].qty \in Nat /\ orders[s].qty \in Nat
        /\ orders[b].notional \in Nat /\ orders[s].notional \in Nat
    BY DEF OrderType
  <1>2. /\ orders[b].cum + n <= orders[b].qty
        /\ orders[s].cum + n <= orders[s].qty
    BY <1>1, LeavesFacts DEF IsLive
  <1>3. p * n \in Nat
    BY SMT
  <1>4. PICK money \in Nat : money = p * n
    BY <1>3
  <1> DEFINE Filled(o) ==
               [orders[o] EXCEPT
                   !.cum      = orders[o].cum + n,
                   !.notional = orders[o].notional + money,
                   !.status   = IF orders[o].cum + n = orders[o].qty
                                THEN "FILLED" ELSE "PARTIALLY_FILLED"]
  <1>5. orders'[b] = Filled(b) /\ orders'[s] = Filled(s)
    <2>1. ASSUME NEW o \in {b, s} PROVE ApplyFill(orders[o], n, p) = Filled(o)
      <3>1. orders[o].cum + n >= orders[o].qty <=> orders[o].cum + n = orders[o].qty
        BY <1>1, <1>2
      <3>2. CASE orders[o].cum + n = orders[o].qty
        BY <1>4, <3>1, <3>2 DEF ApplyFill
      <3>3. CASE ~(orders[o].cum + n = orders[o].qty)
        BY <1>4, <3>1, <3>3 DEF ApplyFill
      <3> QED
        BY <3>2, <3>3
    <2> QED
      BY <2>1
  <1>6. /\ orders'[b].cum - orders[b].cum = n
        /\ orders'[b].notional - orders[b].notional = money
    BY <1>1, <1>5 DEF OrderType
  <1>7. /\ ~IsPriceless(orders[b]) => money <= orders[b].price * n
        /\ ~IsPriceless(orders[s]) => money >= orders[s].price * n
    <2>1. ASSUME p <= orders[b].price PROVE money <= orders[b].price * n
      BY <1>1, <1>4, <2>1, Monotone
    <2>2. ASSUME orders[s].price <= p PROVE money >= orders[s].price * n
      <3>1. orders[s].price * n <= p * n
        BY <1>1, <2>2, Monotone
      <3>2. orders[s].price * n \in Nat
        BY <1>1, SMT
      <3> QED
        BY <1>3, <1>4, <3>1, <3>2
    <2> QED
      BY <2>1, <2>2
  <1>8. Ledger!Trade(b, s)
    <2> HIDE DEF Filled
    <2>1. orders'[b] = Filled(b) /\ orders'[s] = Filled(s) /\ n > 0
      BY <1>5
    <2>2. Ledger!OnlyChanges({b, s})
      BY DEF Ledger!OnlyChanges
    <2> QED
      BY <1>6, <1>7, <2>1, <2>2, SameReading DEF Ledger!Trade, Filled
  <1> QED
    BY <1>8 DEF Ledger!LedgerNext

\* Entering an order rewrites that order only: it goes on as it came, or is dead.
LEMMA SubmitShape ==
    ASSUME orders \in [OrderIds -> OrderType],
           NEW o \in OrderIds, NEW ord \in OrderType,
           ord.status \in LIVE, StatusAgrees(ord),
           NEW pl, NEW stamp, Submit(o, ord, pl, stamp)
    PROVE  /\ orders'[o].side = ord.side /\ orders'[o].cum = ord.cum
           /\ orders'[o].notional = ord.notional /\ orders'[o].qty = ord.qty
           /\ orders'[o].status \in {ord.status, "CANCELLED", "REJECTED"}
           /\ \A q \in OrderIds \ {o} : orders'[q] = orders[q]
  <1>1. \E new \in {[ord EXCEPT !.status = "REJECTED"], Rested(ord),
                    CancelOrder(ord), ord} :
           orders' = [orders EXCEPT ![o] = new]
    BY DEF Submit, SubmitRejected, SubmitAccumulated, SubmitBlocked,
           SubmitMatching, Settle
  <1>2. PICK new \in {[ord EXCEPT !.status = "REJECTED"], Rested(ord),
                      CancelOrder(ord), ord} :
           orders' = [orders EXCEPT ![o] = new]
    BY <1>1
  <1>3. Rested(ord).status = ord.status
    BY DEF Rested, StatusAgrees, LIVE, OrderType
  <1>4. /\ new.side = ord.side /\ new.cum = ord.cum
        /\ new.notional = ord.notional /\ new.qty = ord.qty
        /\ new.status \in {ord.status, "CANCELLED", "REJECTED"}
    <2>1. CASE new = [ord EXCEPT !.status = "REJECTED"]
      BY <2>1 DEF OrderType
    <2>2. CASE new = Rested(ord)
      BY <1>3, <2>2 DEF OrderType, Rested
    <2>3. CASE new = CancelOrder(ord)
      BY <2>3 DEF OrderType, CancelOrder
    <2> QED
      BY <2>1, <2>2, <2>3
  <1> QED
    BY <1>2, <1>4

\* A new order is opened.
LEMMA NewOrderStep ==
    ASSUME IInv, NEW r, ValidRequest(r), NewOrder(r)
    PROVE  Ledger!LedgerNext
  <1> DEFINE o == nextId
             ord == BuildOrder(r)
  <1>1. /\ o \in OrderIds /\ orders[o].status = Unborn
        /\ orders \in [OrderIds -> OrderType]
    BY DEF IInv, TypeOK, NewOrder, IssuedInv, OrderIds
  <1>2. /\ ord \in OrderType /\ ord.status = "NEW" /\ ord.status \in LIVE
        /\ StatusAgrees(ord)
        /\ ord.cum = 0 /\ ord.notional = 0 /\ ord.qty > 0
    BY DEF ValidRequest, BuildOrder, OrderType, StatusAgrees, LIVE, Statuses
  <1>3. Submit(o, ord, place, arrivals + 1)
    BY DEF NewOrder
  <1> HIDE DEF o, ord
  <1>4. /\ orders'[o].cum = 0 /\ orders'[o].notional = 0 /\ orders'[o].qty > 0
        /\ orders'[o].status \in {"NEW", "CANCELLED", "REJECTED"}
        /\ \A q \in OrderIds \ {o} : orders'[q] = orders[q]
    BY <1>1, <1>2, <1>3, SubmitShape
  <1>5. Ledger!Open(o)
    BY <1>1, <1>4 DEF Ledger!Open, Ledger!OnlyChanges, Ledger!Unborn, Unborn
  <1> QED
    BY <1>1, <1>5 DEF Ledger!LedgerNext

\* An amendment revises an open order.
LEMMA AmendStep ==
    ASSUME IInv, NEW o \in OrderIds, NEW c \in Amendments, Amend(o, c)
    PROVE  Ledger!LedgerNext
  <1> DEFINE ord == Revised(orders[o], c)
             pl == AmendedPlace(o, ord)
  <1>1. /\ orders \in [OrderIds -> OrderType] /\ orders[o] \in OrderType
        /\ StatusAgrees(orders[o]) /\ IsLive(orders[o])
        /\ ord.qty > orders[o].cum
    BY DEF Amend, IInv, TypeOK, StatusAgreesWithFills
  <1>3. /\ ord \in OrderType
        /\ ord.status = orders[o].status /\ ord.cum = orders[o].cum
        /\ ord.side = orders[o].side /\ ord.notional = orders[o].notional
    BY <1>1, RevisedFacts
  <1>4. \/ Settle(o, ord, pl)
        \/ Submit(o, ord, Removed(pl, {o}), arrivals + 1)
    BY DEF Amend
  <1> HIDE DEF ord, pl
  <1>5. ord.status \in LIVE /\ StatusAgrees(ord)
    BY <1>1, <1>3 DEF IsLive, LIVE, StatusAgrees, OrderType
  <1>6. /\ orders'[o].side = ord.side /\ orders'[o].cum = ord.cum
        /\ orders'[o].notional = ord.notional /\ orders'[o].qty = ord.qty
        /\ orders'[o].status \in {ord.status, "CANCELLED", "REJECTED"}
        /\ \A q \in OrderIds \ {o} : orders'[q] = orders[q]
    <2>1. CASE Settle(o, ord, pl)
      BY <1>1, <2>1 DEF Settle
    <2>2. CASE Submit(o, ord, Removed(pl, {o}), arrivals + 1)
      BY <1>1, <1>3, <1>5, <2>2, SubmitShape
    <2> QED
      BY <1>4, <2>1, <2>2
  <1>7. Ledger!Revise(o)
    BY <1>1, <1>3, <1>6, SameReading
       DEF Ledger!Revise, Ledger!SameOrder, Ledger!OnlyChanges
  <1> QED
    BY <1>7 DEF Ledger!LedgerNext

\* An execution is a trade between the incoming and the resting order.
LEMMA MatchExecuteStep ==
    ASSUME IInv, NEW o \in OrderIds, NEW r \in OrderIds, MatchExecute(o, r)
    PROVE  Ledger!LedgerNext
  <1> DEFINE n == Lesser(LeavesQty(orders[o]), LeavesQty(orders[r]))
             p == orders[r].price
  <1>1. /\ o # r
        /\ orders \in [OrderIds -> OrderType]
        /\ orders[o] \in OrderType /\ orders[r] \in OrderType
        /\ IsLive(orders[o]) /\ IsLive(orders[r])
        /\ orders[r].side = Opposite(orders[o].side)
        /\ PricesCross(orders[o], orders[r].price)
    BY MatchFacts DEF MatchExecute, IInv, TypeOK
  <1>2. /\ n \in Nat \ {0}
        /\ n <= LeavesQty(orders[o]) /\ n <= LeavesQty(orders[r])
        /\ p \in Nat /\ p <= p
    BY <1>1, LeavesFacts DEF Lesser, IsLive, OrderType
  <1>3. orders' = [orders EXCEPT ![o] = ApplyFill(orders[o], n, p),
                                 ![r] = ApplyFill(orders[r], n, p)]
    BY DEF MatchExecute
  <1>4. /\ orders'[o] = ApplyFill(orders[o], n, p)
        /\ orders'[r] = ApplyFill(orders[r], n, p)
        /\ \A q \in OrderIds \ {o, r} : orders'[q] = orders[q]
    BY <1>1, <1>3
  <1>5. CASE orders[o].side = "BUY"
    <2>1. /\ orders[r].side = "SELL"
          /\ IsPriceless(orders[o]) \/ p <= orders[o].price
          /\ orders[r].price <= p
      BY <1>1, <1>2, <1>5 DEF Opposite, PricesCross
    <2> HIDE DEF n, p
    <2> QED
      BY <1>1, <1>2, <1>4, <1>5, <2>1, TradeStep
  <1>6. CASE orders[o].side # "BUY"
    <2>1. /\ orders[o].side = "SELL" /\ orders[r].side = "BUY"
          /\ IsPriceless(orders[o]) \/ orders[o].price <= p
          /\ p <= orders[r].price
      BY <1>1, <1>2, <1>6 DEF Opposite, PricesCross, OrderType, Sides
    <2>2. \A q \in OrderIds \ {r, o} : orders'[q] = orders[q]
      BY <1>4
    <2> HIDE DEF n, p
    <2> QED
      BY <1>1, <1>2, <1>4, <2>1, <2>2, TradeStep
  <1> QED
    BY <1>5, <1>6

\* An auction trade is a trade between the heads of the two queues.
LEMMA AuctionTradeStep ==
    ASSUME IInv, NEW b \in OrderIds, NEW s \in OrderIds, AuctionTrade(b, s)
    PROVE  Ledger!LedgerNext
  <1> DEFINE n == Lesser(LeavesQty(orders[b]), LeavesQty(orders[s]))
             p == auctionPrice
  <1>1. /\ b # s
        /\ orders \in [OrderIds -> OrderType]
        /\ orders[b] \in OrderType /\ orders[s] \in OrderType
        /\ orders[b].side = "BUY" /\ orders[s].side = "SELL"
        /\ IsLive(orders[b]) /\ IsLive(orders[s])
        /\ IsPriceless(orders[b]) \/ p <= orders[b].price
        /\ IsPriceless(orders[s]) \/ p >= orders[s].price
    BY AuctionFacts DEF IInv, TypeOK
  <1>2. /\ n \in Nat \ {0}
        /\ n <= LeavesQty(orders[b]) /\ n <= LeavesQty(orders[s])
        /\ p \in Nat /\ orders[s].price \in Nat
    BY <1>1, LeavesFacts DEF Lesser, IsLive, OrderType, IInv, TypeOK
  <1>3. orders' = [orders EXCEPT ![b] = ApplyFill(orders[b], n, p),
                                 ![s] = ApplyFill(orders[s], n, p)]
    BY DEF AuctionTrade
  <1> HIDE DEF n, p
  <1>4. /\ orders'[b] = ApplyFill(orders[b], n, p)
        /\ orders'[s] = ApplyFill(orders[s], n, p)
        /\ \A q \in OrderIds \ {b, s} : orders'[q] = orders[q]
    BY <1>1, <1>3
  <1>5. IsPriceless(orders[s]) \/ orders[s].price <= p
    BY <1>1, <1>2
  <1> QED
    BY <1>1, <1>2, <1>4, <1>5, TradeStep

\* Self-trade prevention closes one order or both, or decrements the larger.
LEMMA StpStep ==
    ASSUME IInv, NEW o \in OrderIds, NEW r \in OrderIds,
           StpCancelNewest(o, r) \/ StpCancelOldest(o, r) \/ StpDecrement(o, r)
    PROVE  Ledger!LedgerNext
  <1>1. SelfMatch(o, r)
    BY DEF StpCancelNewest, StpCancelOldest, StpDecrement
  <1>2. /\ o # r
        /\ orders \in [OrderIds -> OrderType]
        /\ orders[o] \in OrderType /\ orders[r] \in OrderType
        /\ IsLive(orders[o]) /\ IsLive(orders[r])
        /\ orders[o].side # orders[r].side
    BY <1>1, SelfMatchFacts DEF IInv, TypeOK, Opposite
  <1>3. LeavesQty(orders[o]) \in Nat /\ LeavesQty(orders[r]) \in Nat
    BY <1>2, LeavesFacts
  <1>4. ASSUME NEW S \in SUBSET {o, r}, orders' = Cancelled(S)
        PROVE  Ledger!LedgerNext
    BY <1>2, <1>4, CloseStep
  <1>5. ASSUME NEW x \in {o, r}, NEW y \in {o, r}, x # y,
               LeavesQty(orders[x]) < LeavesQty(orders[y]),
               orders'[x] = CancelOrder(orders[x]),
               orders'[y] = ReduceQuantity(orders[y], LeavesQty(orders[x])),
               \A q \in OrderIds \ {x, y} : orders'[q] = orders[q]
        PROVE  Ledger!LedgerNext
    <2>1. /\ x \in OrderIds /\ y \in OrderIds
          /\ orders[y] \in OrderType /\ LeavesQty(orders[x]) \in Nat
          /\ IsLive(orders[x]) /\ IsLive(orders[y])
          /\ orders[x].side # orders[y].side
      BY <1>2, <1>3, <1>5
    <2>2. orders'[y] =
            [orders[y] EXCEPT !.qty = orders[y].qty - LeavesQty(orders[x])]
      BY <1>5, <2>1, ReduceFacts
    <2>3. Ledger!Decrement(x, y)
      BY <1>5, <2>1, <2>2, SameReading DEF Ledger!Decrement, Ledger!OnlyChanges
    <2> QED
      BY <2>1, <2>3 DEF Ledger!LedgerNext
  <1>6. CASE StpCancelNewest(o, r)
    <2>1. orders' = Cancelled({o})
      BY <1>2, <1>6 DEF StpCancelNewest, Cancelled
    <2> QED
      BY <1>4, <2>1
  <1>7. CASE StpCancelOldest(o, r)
    <2>1. orders' = Cancelled({r})
      BY <1>2, <1>7 DEF StpCancelOldest, Cancelled
    <2> QED
      BY <1>4, <2>1
  <1>8. CASE StpDecrement(o, r)
    <2>1. CASE LeavesQty(orders[o]) = LeavesQty(orders[r])
      <3>1. orders' = [orders EXCEPT ![o] = CancelOrder(orders[o]),
                                     ![r] = CancelOrder(orders[r])]
        BY <1>3, <1>8, <2>1 DEF StpDecrement
      <3>2. orders' = Cancelled({o, r})
        BY <1>2, <3>1 DEF Cancelled
      <3> QED
        BY <1>4, <3>2
    <2>2. CASE LeavesQty(orders[r]) < LeavesQty(orders[o])
      <3>1. orders' = [orders EXCEPT
                         ![o] = ReduceQuantity(orders[o], LeavesQty(orders[r])),
                         ![r] = CancelOrder(orders[r])]
        BY <1>3, <1>8, <2>2 DEF StpDecrement
      <3>2. /\ orders'[r] = CancelOrder(orders[r])
            /\ orders'[o] = ReduceQuantity(orders[o], LeavesQty(orders[r]))
            /\ \A q \in OrderIds \ {r, o} : orders'[q] = orders[q]
        BY <1>2, <3>1
      <3> QED
        BY <1>2, <1>5, <2>2, <3>2
    <2>3. CASE LeavesQty(orders[o]) < LeavesQty(orders[r])
      <3>1. orders' = [orders EXCEPT
                         ![o] = CancelOrder(orders[o]),
                         ![r] = ReduceQuantity(orders[r], LeavesQty(orders[o]))]
        BY <1>3, <1>8, <2>3 DEF StpDecrement
      <3>2. /\ orders'[o] = CancelOrder(orders[o])
            /\ orders'[r] = ReduceQuantity(orders[r], LeavesQty(orders[o]))
            /\ \A q \in OrderIds \ {o, r} : orders'[q] = orders[q]
        BY <1>2, <3>1
      <3> QED
        BY <1>2, <1>5, <2>3, <3>2
    <2> QED
      BY <1>3, <2>1, <2>2, <2>3
  <1> QED
    BY <1>6, <1>7, <1>8

\* The end of matching leaves the order as it is, or closes it.
LEMMA MatchDoneStep ==
    ASSUME IInv, NEW o \in OrderIds, MatchDone(o)
    PROVE  LedgerStep
  <1>1. /\ orders \in [OrderIds -> OrderType] /\ orders[o] \in OrderType
        /\ StatusAgrees(orders[o])
        /\ o < nextId
    BY DEF IInv, TypeOK, StatusAgreesWithFills, MatchDone, Matching, TaskInv
  <1>2. orders[o].status # Unborn
    BY <1>1 DEF IInv, IssuedInv, TypeOK, OrderIds
  <1>3. LeavesQty(orders[o]) > 0 => IsLive(orders[o])
    BY <1>1, <1>2, LeavesFacts DEF IsLive, OrderType, Statuses
  <1>4. CASE orders' = orders
    BY <1>4 DEF LedgerStep
  <1>5. CASE /\ LeavesQty(orders[o]) > 0
             /\ orders' = [orders EXCEPT ![o] = CancelOrder(orders[o])]
    <2>1. orders' = Cancelled({o})
      BY <1>1, <1>5 DEF Cancelled
    <2> QED
      BY <1>3, <1>5, <2>1, CloseStep DEF LedgerStep
  <1>6. CASE /\ LeavesQty(orders[o]) > 0
             /\ orders' = [orders EXCEPT ![o] = Rested(orders[o])]
    <2>1. orders[o].status = IF orders[o].cum > 0 THEN "PARTIALLY_FILLED" ELSE "NEW"
      BY <1>1, <1>3, <1>6 DEF IsLive, LIVE, StatusAgrees, OrderType
    <2>2. Rested(orders[o]) = orders[o]
      BY <1>1, <2>1 DEF Rested, OrderType
    <2>3. orders' = orders
      BY <1>1, <1>6, <2>2
    <2> QED
      BY <2>3 DEF LedgerStep
  <1> QED
    BY <1>4, <1>5, <1>6 DEF MatchDone

\* Cancels, phase changes and the end of an auction close orders on the book.
LEMMA ClosingStep ==
    ASSUME IInv,
           \/ \E o \in OrderIds : Cancel(o)
           \/ \E m \in CancelScopes : CancelAll(m)
           \/ OperatorStep
           \/ FinishUncross
    PROVE  LedgerStep
  <1>1. ASSUME NEW S, S \subseteq OrderIds, \A o \in S : place[o] # 0,
               task # "match", orders' = Cancelled(S)
        PROVE  LedgerStep
    <2>1. \A o \in S : IsLive(orders[o])
      BY <1>1 DEF IInv, BookInv
    <2> QED
      BY <1>1, <2>1, CloseStep DEF LedgerStep
  <1>2. /\ OnBook \subseteq OrderIds /\ \A o \in OnBook : place[o] # 0
        /\ UnfilledAtAuction \subseteq OrderIds
        /\ \A o \in UnfilledAtAuction : place[o] # 0
    BY DEF OnBook, UnfilledAtAuction, AtMarket, Resting
  <1>3. ASSUME NEW o \in OrderIds, Cancel(o) PROVE LedgerStep
    <2>1. /\ task = "idle" /\ IsLive(orders[o]) /\ orders' = Cancelled({o})
      BY <1>3 DEF Cancel
    <2> QED
      BY <2>1, CloseStep DEF LedgerStep
  <1>4. ASSUME NEW m \in CancelScopes, CancelAll(m) PROVE LedgerStep
    <2> DEFINE mine == {o \in OnBook : orders[o].session \in m}
    <2>1. task = "idle" /\ orders' = Cancelled(mine)
      BY <1>4 DEF CancelAll
    <2>2. mine \subseteq OrderIds /\ \A o \in mine : place[o] # 0
      BY <1>2
    <2> HIDE DEF mine
    <2> QED
      BY <1>1, <2>1, <2>2
  <1>5. ASSUME NEW h, NEW s, ExpireOrders(h, s), task = "idle" PROVE LedgerStep
    <2>1. orders' = orders \/ orders' = Cancelled(OnBook)
      BY <1>5 DEF ExpireOrders
    <2> QED
      BY <1>1, <1>2, <1>5, <2>1 DEF LedgerStep
  <1>6. CASE OperatorStep
    <2>1. \/ orders' = orders
          \/ task = "idle" /\ \E h \in BOOLEAN, s \in Phases : ExpireOrders(h, s)
      BY <1>6 DEF OperatorStep, SetMarketState, SetInstrumentState, Command,
                  StartUncross, StartUncrossAt, ClearInstrumentState, SetStpMode
    <2> QED
      BY <1>5, <2>1 DEF LedgerStep
  <1>7. CASE FinishUncross
    <2> DEFINE closing == IF target # marketState /\ target \in NO_ENTRY
                          THEN OnBook ELSE {}
               S == UnfilledAtAuction \cup closing
    <2>1. task # "match" /\ orders' = Cancelled(S)
      BY <1>7 DEF FinishUncross
    <2>2. S \subseteq OrderIds /\ \A o \in S : place[o] # 0
      BY <1>2
    <2> HIDE DEF S
    <2> QED
      BY <1>1, <2>1, <2>2
  <1> QED
    BY <1>3, <1>4, <1>6, <1>7

\* Every step of the market is a step of the ledger, or changes no order.
LEMMA NextSimulates == IInv /\ [Next]_vars => LedgerStep
  <1> SUFFICES ASSUME IInv, [Next]_vars PROVE LedgerStep
    OBVIOUS
  <1>1. CASE ClientStep
    BY <1>1, NewOrderStep, AmendStep, ClosingStep, RequestsAssumption
       DEF ClientStep, LedgerStep
  <1>2. CASE OperatorStep
    BY <1>2, ClosingStep
  <1>3. CASE MatchStep
    BY <1>3, MatchExecuteStep, StpStep, MatchDoneStep DEF MatchStep, LedgerStep
  <1>4. CASE AuctionStep
    BY <1>4, AuctionTradeStep, ClosingStep DEF AuctionStep, LedgerStep
  <1>5. CASE UNCHANGED vars
    BY <1>5 DEF vars, bookVars, LedgerStep
  <1> QED
    BY <1>1, <1>2, <1>3, <1>4, <1>5 DEF Next

\* For every number of orders, all requests and all phase changes, the market
\* implements the ledger: what clients are told is an opening, a balanced
\* two-sided trade inside both limits, a revision, a decrement or a close.
THEOREM MarketImplementsLedger == Spec => ImplementsLedger
  <1>1. Init => Ledger!LedgerInit
    BY DEF Init, Blank, Ledger!LedgerInit, Ledger!Unborn, Unborn
  <1>2. IInv /\ [Next]_vars => [Ledger!LedgerNext]_orders
    BY NextSimulates DEF LedgerStep
  <1> QED
    BY <1>1, <1>2, Invariance, PTL DEF Spec, ImplementsLedger, Ledger!LedgerSpec

\* A filled, cancelled or rejected order is never touched again, by any
\* operation: it follows from the ledger, whose every step works on open orders.
THEOREM TerminalOrdersFinal == Spec => TerminalIsFinal
  <1> DEFINE Final == \A o \in OrderIds :
                         orders[o].status \in TERMINAL => orders'[o] = orders[o]
  <1>1. IInv /\ [Next]_vars => Final
    <2> SUFFICES ASSUME LedgerStep, NEW o \in OrderIds, orders[o].status \in TERMINAL
                 PROVE  orders'[o] = orders[o]
      BY NextSimulates
    <2>1. ~IsLive(orders[o]) /\ orders[o].status # Unborn
      BY DEF IsLive, LIVE, TERMINAL, Unborn
    <2>2. CASE \E q \in OrderIds : Ledger!Open(q) \/ Ledger!Revise(q)
      BY <2>1, <2>2, SameReading
         DEF Ledger!Open, Ledger!Revise, Ledger!OnlyChanges, Ledger!Unborn, Unborn
    <2>3. CASE \E b, s \in OrderIds : Ledger!Trade(b, s)
      <3>1. PICK b, s \in OrderIds : Ledger!Trade(b, s)
        BY <2>3
      <3>2. IsLive(orders[b]) /\ IsLive(orders[s]) /\ Ledger!OnlyChanges({b, s})
        BY <3>1, SameReading DEF Ledger!Trade
      <3> QED
        BY <2>1, <3>2 DEF Ledger!OnlyChanges
    <2>4. CASE \E b, s \in OrderIds : Ledger!Decrement(b, s)
      BY <2>1, <2>4, SameReading DEF Ledger!Decrement, Ledger!OnlyChanges
    <2>5. CASE Ledger!Close
      BY <2>1, <2>5, SameReading DEF Ledger!Close
    <2> QED
      BY <2>2, <2>3, <2>4, <2>5 DEF LedgerStep, Ledger!LedgerNext
  <1>2. IInv /\ [Next]_vars => [Final]_vars
    BY <1>1
  <1> QED
    BY <1>2, Invariance, PTL DEF Spec, TerminalIsFinal

----------------------------------------------------------------------------
(* What may rest in which phase.  A call phase of the market ends in an    *)
(* auction, and the operator uses instrument-level states to stop trading  *)
(* only: the core executes no auction when one of them is lifted.          *)

CallsEndInAuctions ==
    /\ \A call \in Phases \cap ACCUMULATING, open \in Phases \cap CONTINUOUS :
          call \in AuctionPhases /\ open \in UncrossInto
    /\ Overrides \subseteq NO_ENTRY

\* A venue without call phases, as Japannext.
NoCalls == Phases \cap ACCUMULATING = {} /\ Overrides \subseteq NO_ENTRY

\* The market is in one of its phases, an instrument-level state stops trading,
\* and each loop runs in the kind of phase it belongs to.
PhaseInv ==
    /\ marketState \in Phases
    /\ override \in NO_ENTRY \cup {NoOverride}
    /\ task = "match" => AllowsMatching
    /\ task = "auction" => marketState \in AuctionPhases /\ target \in Phases

\* Only an order without a limit can be priceless.
LimitsInv ==
    \A o \in OrderIds :
        o < nextId /\ orders[o].type = "LIMIT" => ~IsPriceless(orders[o])

\* The book is empty while no orders are accepted, and holds limit prices only
\* while they match.
RestInv ==
    \A o \in OrderIds : place[o] # 0 => /\ AllowsEntry
                                        /\ AllowsMatching => ~IsPriceless(orders[o])

FairInv == PhaseInv /\ LimitsInv /\ RestInv

\* What an order keeps for life, unless it is amended.
SameTerms(new, old) ==
    /\ new.side = old.side /\ new.type = old.type
    /\ new.price = old.price /\ new.tif = old.tif

LEMMA TermsKept ==
    ASSUME NEW ord \in OrderType, NEW n, NEW p
    PROVE  /\ SameTerms(ApplyFill(ord, n, p), ord)
           /\ SameTerms(CancelOrder(ord), ord)
           /\ SameTerms(ReduceQuantity(ord, n), ord)
           /\ SameTerms(Rested(ord), ord)
           /\ SameTerms([ord EXCEPT !.status = "REJECTED"], ord)
  BY DEF ApplyFill, CancelOrder, ReduceQuantity, Rested, OrderType, SameTerms

\* A step that takes orders off the book, and rewrites none of their terms.
Shrinking ==
    /\ \A q \in OrderIds : SameTerms(orders'[q], orders[q])
    /\ \A q \in OrderIds : place'[q] # 0 => place[q] # 0

LEMMA RewriteShrinks ==
    ASSUME orders \in [OrderIds -> OrderType],
           NEW a \in OrderIds, NEW b \in OrderIds, NEW x, NEW y,
           SameTerms(x, orders[a]), SameTerms(y, orders[b]),
           orders' = [orders EXCEPT ![a] = x, ![b] = y],
           \A q \in OrderIds : place'[q] # 0 => place[q] # 0
    PROVE  Shrinking
  BY DEF Shrinking, SameTerms

LEMMA CancelledShrinks ==
    ASSUME orders \in [OrderIds -> OrderType], NEW S, NEW T,
           orders' = Cancelled(S), place' = Removed(place, T)
    PROVE  Shrinking
  <1>1. \A q \in OrderIds : SameTerms(CancelOrder(orders[q]), orders[q])
    BY TermsKept
  <1> QED
    BY <1>1 DEF Cancelled, Removed, Shrinking, SameTerms

\* Shrinking the book keeps what rests fit for the phase.
LEMMA ShrinkingFair ==
    ASSUME FairInv, Shrinking, UNCHANGED << phaseVars, nextId, target >>,
           task' = task \/ task' = "idle"
    PROVE  FairInv'
  <1>1. UNCHANGED << marketState, override >> /\ nextId' = nextId /\ target' = target
    BY DEF phaseVars
  <1>2. PhaseInv'
    BY <1>1 DEF FairInv, PhaseInv, AllowsMatching, StateFor
  <1>3. LimitsInv'
    BY <1>1 DEF FairInv, LimitsInv, Shrinking, SameTerms, IsPriceless
  <1>4. RestInv'
    BY <1>1 DEF FairInv, RestInv, Shrinking, SameTerms, IsPriceless,
                AllowsEntry, AllowsMatching, StateFor
  <1> QED
    BY <1>2, <1>3, <1>4 DEF FairInv

\* While orders match, what is entered stays off the book until the loop ends.
LEMMA SubmitRests ==
    ASSUME orders \in [OrderIds -> OrderType],
           NEW o \in OrderIds, NEW ord \in OrderType, NEW stamp,
           NEW pl \in [OrderIds -> Nat], pl[o] = 0,
           Submit(o, ord, pl, stamp)
    PROVE  /\ SameTerms(orders'[o], ord)
           /\ \A q \in OrderIds \ {o} : orders'[q] = orders[q] /\ place'[q] = pl[q]
           /\ AllowsMatching => place'[o] = 0
           /\ task' = IF AllowsMatching /\ cur' = o /\ task' = "match" THEN "match" ELSE task
           /\ target' = target
  <1>1. SameTerms(ord, ord)
    BY DEF SameTerms
  <1>2. CASE SubmitRejected(o, ord, pl)
    <2>1. /\ orders' = [orders EXCEPT ![o] = [ord EXCEPT !.status = "REJECTED"]]
          /\ place' = pl /\ task' = task /\ target' = target
      BY <1>2 DEF SubmitRejected, Settle, taskVars
    <2> QED
      BY <2>1, TermsKept
  <1>3. CASE SubmitAccumulated(o, ord, pl, stamp)
    <2>1. /\ orders' = [orders EXCEPT ![o] = Rested(ord)] /\ ~AllowsMatching
          /\ place' = [pl EXCEPT ![o] = stamp] /\ task' = task /\ target' = target
      BY <1>3 DEF SubmitAccumulated, Settle, taskVars, AddedAt
    <2> QED
      BY <2>1, TermsKept
  <1>4. CASE SubmitBlocked(o, ord, pl)
    <2>1. /\ orders' = [orders EXCEPT ![o] = CancelOrder(ord)]
          /\ place' = pl /\ task' = task /\ target' = target
      BY <1>4 DEF SubmitBlocked, Settle, taskVars
    <2> QED
      BY <2>1, TermsKept
  <1>5. CASE SubmitMatching(o, ord, pl)
    <2>1. /\ orders' = [orders EXCEPT ![o] = ord] /\ place' = pl
          /\ task' = "match" /\ cur' = o /\ target' = target /\ AllowsMatching
      BY <1>5 DEF SubmitMatching
    <2> QED
      BY <1>1, <2>1
  <1> QED
    BY <1>2, <1>3, <1>4, <1>5 DEF Submit

\* Entering an order, new or amended: whom the book holds besides it, it held before.
Entering(o) ==
    /\ AllowsEntry
    /\ UNCHANGED << phaseVars, target >>
    /\ task' = "idle" \/ (task' = "match" /\ AllowsMatching)
    /\ orders'[o].type = "LIMIT" => ~IsPriceless(orders'[o])
    /\ AllowsMatching => place'[o] = 0
    /\ nextId' = nextId \/ (nextId' = nextId + 1 /\ o = nextId)
    /\ \A q \in OrderIds \ {o} : /\ orders'[q] = orders[q]
                                 /\ place'[q] # 0 => place[q] # 0

LEMMA EnteringFair ==
    ASSUME IInv, FairInv, NEW o \in OrderIds, Entering(o)
    PROVE  FairInv'
  <1>1. UNCHANGED << marketState, override >>
    BY DEF Entering, phaseVars
  <1>2. (AllowsEntry)' = AllowsEntry /\ (AllowsMatching)' = AllowsMatching
    BY <1>1 DEF AllowsEntry, AllowsMatching, StateFor
  <1>3. PhaseInv'
    BY <1>1, <1>2 DEF Entering, FairInv, PhaseInv
  <1>4. LimitsInv'
    <2> SUFFICES ASSUME NEW q \in OrderIds, q < nextId', orders'[q].type = "LIMIT"
                 PROVE  ~IsPriceless(orders'[q])
      BY DEF LimitsInv
    <2>1. CASE q # o
      <3>1. q < nextId
        BY <2>1 DEF Entering, IInv, TypeOK, OrderIds
      <3> QED
        BY <2>1, <3>1 DEF Entering, FairInv, LimitsInv
    <2> QED
      BY <2>1 DEF Entering
  <1>5. RestInv'
    BY <1>2 DEF Entering, FairInv, RestInv
  <1> QED
    BY <1>3, <1>4, <1>5 DEF FairInv

\* An order is placed with the terms it is entered or amended with, and nothing else
\* is; while orders match it waits for the loop.
Placing(o, ord) ==
    /\ o \in OrderIds
    /\ SameTerms(orders'[o], ord)
    /\ \A q \in OrderIds \ {o} : /\ orders'[q] = orders[q]
                                 /\ place'[q] # 0 => place[q] # 0
    /\ AllowsMatching => place'[o] = 0
    /\ task' = "idle" \/ (task' = "match" /\ cur' = o /\ AllowsMatching)
    /\ target' = target

LEMMA NewOrderPlaces ==
    ASSUME IInv, NEW r, ValidRequest(r), NewOrder(r)
    PROVE  Placing(nextId, BuildOrder(r))
  <1> DEFINE o == nextId
             ord == BuildOrder(r)
  <1>1. /\ o \in OrderIds /\ orders \in [OrderIds -> OrderType]
        /\ place \in [OrderIds -> Nat] /\ task = "idle"
        /\ orders[o].status = Unborn
    BY DEF IInv, TypeOK, NewOrder, OrderIds, IssuedInv
  <1>2. place[o] = 0
    BY <1>1 DEF IInv, BookInv, IsLive, LIVE, Unborn
  <1>3. ord \in OrderType
    BY DEF ValidRequest, BuildOrder, OrderType, Statuses, LIVE
  <1>4. Submit(o, ord, place, arrivals + 1)
    BY DEF NewOrder
  <1> HIDE DEF ord
  <1>5. /\ SameTerms(orders'[o], ord)
        /\ \A q \in OrderIds \ {o} : orders'[q] = orders[q] /\ place'[q] = place[q]
        /\ AllowsMatching => place'[o] = 0
        /\ task' = IF AllowsMatching /\ cur' = o /\ task' = "match" THEN "match" ELSE task
        /\ target' = target
    BY <1>1, <1>2, <1>3, <1>4, SubmitRests
  <1>6. task' = "idle" \/ (task' = "match" /\ cur' = o /\ AllowsMatching)
    BY <1>1, <1>5
  <1> QED
    BY <1>1, <1>5, <1>6 DEF Placing, ord

LEMMA AmendPlaces ==
    ASSUME IInv, NEW o \in OrderIds, NEW c \in Amendments, Amend(o, c)
    PROVE  Placing(o, Revised(orders[o], c))
  <1> DEFINE ord == Revised(orders[o], c)
             pl == AmendedPlace(o, ord)
  <1>1. /\ orders \in [OrderIds -> OrderType] /\ orders[o] \in OrderType
        /\ place \in [OrderIds -> Nat] /\ arrivals \in Nat /\ task = "idle"
    BY DEF Amend, IInv, TypeOK
  <1>2. ord \in OrderType
    BY <1>1, RevisedFacts
  <1>3. \/ /\ ~AllowsMatching
           /\ Settle(o, ord, pl)
        \/ /\ AllowsMatching
           /\ Submit(o, ord, Removed(pl, {o}), arrivals + 1)
    BY DEF Amend
  <1> HIDE DEF ord, pl
  <1>4. /\ pl \in [OrderIds -> Nat]
        /\ \A q \in OrderIds \ {o} : pl[q] # 0 <=> place[q] # 0
    BY <1>1, <1>2, AmendedPlaceFacts DEF pl
  <1>5. /\ SameTerms(orders'[o], ord)
        /\ \A q \in OrderIds \ {o} : orders'[q] = orders[q] /\ place'[q] = pl[q]
        /\ AllowsMatching => place'[o] = 0
        /\ task' = "idle" \/ (task' = "match" /\ cur' = o /\ AllowsMatching)
        /\ target' = target
    <2>1. CASE ~AllowsMatching /\ Settle(o, ord, pl)
      BY <1>1, <2>1 DEF Settle, taskVars, SameTerms
    <2>2. CASE AllowsMatching /\ Submit(o, ord, Removed(pl, {o}), arrivals + 1)
      <3> DEFINE off == Removed(pl, {o})
      <3>1. off \in [OrderIds -> Nat] /\ off[o] = 0 /\ \A q \in OrderIds \ {o} : off[q] = pl[q]
        BY <1>4 DEF Removed
      <3>2. Submit(o, ord, off, arrivals + 1)
        BY <2>2
      <3> HIDE DEF off
      <3>3. /\ SameTerms(orders'[o], ord)
            /\ \A q \in OrderIds \ {o} : orders'[q] = orders[q] /\ place'[q] = off[q]
            /\ AllowsMatching => place'[o] = 0
            /\ task' = IF AllowsMatching /\ cur' = o /\ task' = "match" THEN "match" ELSE task
            /\ target' = target
        BY <1>1, <1>2, <3>1, <3>2, SubmitRests
      <3> QED
        BY <1>1, <2>2, <3>1, <3>3
    <2> QED
      BY <1>3, <2>1, <2>2
  <1> QED
    BY <1>4, <1>5 DEF Placing, ord

LEMMA NewOrderEnters ==
    ASSUME IInv, NEW r \in Requests, NewOrder(r)
    PROVE  nextId \in OrderIds /\ Entering(nextId)
  <1> DEFINE ord == BuildOrder(r)
  <1>1. ValidRequest(r) /\ (ord.type = "LIMIT" => ~IsPriceless(ord))
    BY RequestsAssumption DEF ValidRequest, BuildOrder, IsPriceless
  <1>2. AllowsEntry /\ UNCHANGED phaseVars /\ nextId' = nextId + 1
    BY DEF NewOrder
  <1>3. Placing(nextId, ord)
    BY <1>1, NewOrderPlaces
  <1> HIDE DEF ord
  <1> QED
    BY <1>1, <1>2, <1>3 DEF Placing, Entering, SameTerms, IsPriceless

LEMMA AmendEnters ==
    ASSUME IInv, FairInv, NEW o \in OrderIds, NEW c \in Amendments, Amend(o, c)
    PROVE  Entering(o)
  <1> DEFINE ord == Revised(orders[o], c)
  <1>1. orders[o] \in OrderType /\ o < nextId
    BY DEF Amend, IInv, TypeOK, IssuedInv, OrderIds, IsLive, LIVE, Unborn
  <1>2. ord.type = orders[o].type /\ (ord.price = orders[o].price \/ ord.price # NoPrice)
    BY <1>1 DEF Revised, OrderType
  <1>3. ord.type = "LIMIT" => ~IsPriceless(ord)
    BY <1>1, <1>2 DEF FairInv, LimitsInv, IsPriceless
  <1>4. AllowsEntry /\ UNCHANGED << nextId, phaseVars >>
    BY DEF Amend
  <1>5. Placing(o, ord)
    BY AmendPlaces
  <1> HIDE DEF ord
  <1> QED
    BY <1>3, <1>4, <1>5 DEF Placing, Entering, SameTerms, IsPriceless

\* Executions and self-trade prevention take orders off the book only.
LEMMA MatchShrinks ==
    ASSUME IInv, NEW o \in OrderIds, NEW r \in OrderIds,
           \/ MatchExecute(o, r) \/ StpCancelNewest(o, r)
           \/ StpCancelOldest(o, r) \/ StpDecrement(o, r)
    PROVE  /\ Shrinking
           /\ UNCHANGED << phaseVars, nextId, target >>
           /\ task' = task \/ task' = "idle"
  <1>1. /\ orders \in [OrderIds -> OrderType]
        /\ orders[o] \in OrderType /\ orders[r] \in OrderType
        /\ SameTerms(orders[o], orders[o]) /\ SameTerms(orders[r], orders[r])
    BY DEF IInv, TypeOK, SameTerms
  <1>2. UNCHANGED << phaseVars, nextId, target >> /\ (task' = task \/ task' = "idle")
    BY DEF MatchExecute, StpCancelNewest, StpCancelOldest, StpDecrement, SelfMatch,
           EndTask, taskVars
  <1>3. \A q \in OrderIds : place'[q] # 0 => place[q] # 0
    BY DEF MatchExecute, StpCancelNewest, StpCancelOldest, StpDecrement, Removed
  <1>4. \E x, y : /\ SameTerms(x, orders[o]) /\ SameTerms(y, orders[r])
                  /\ orders' = [orders EXCEPT ![o] = x, ![r] = y]
    <2>1. CASE MatchExecute(o, r)
      BY <1>1, <2>1, TermsKept DEF MatchExecute
    <2>2. CASE StpCancelNewest(o, r)
      <3>1. orders' = [orders EXCEPT ![o] = CancelOrder(orders[o])] /\ o # r
        BY <2>2, SelfMatchFacts DEF StpCancelNewest
      <3>2. orders' = [orders EXCEPT ![o] = CancelOrder(orders[o]), ![r] = orders[r]]
        BY <1>1, <3>1
      <3> QED
        BY <1>1, <3>2, TermsKept
    <2>3. CASE StpCancelOldest(o, r)
      <3>1. orders' = [orders EXCEPT ![r] = CancelOrder(orders[r])]
        BY <2>3 DEF StpCancelOldest
      <3>2. orders' = [orders EXCEPT ![o] = orders[o], ![r] = CancelOrder(orders[r])]
        BY <1>1, <3>1
      <3> QED
        BY <1>1, <3>2, TermsKept
    <2>4. CASE StpDecrement(o, r)
      <3>1. \E x \in {CancelOrder(orders[o]), ReduceQuantity(orders[o], LeavesQty(orders[r]))},
               y \in {CancelOrder(orders[r]), ReduceQuantity(orders[r], LeavesQty(orders[o]))} :
               orders' = [orders EXCEPT ![o] = x, ![r] = y]
        BY <2>4 DEF StpDecrement
      <3> QED
        BY <1>1, <3>1, TermsKept
    <2> QED
      BY <2>1, <2>2, <2>3, <2>4
  <1>5. PICK x, y : /\ SameTerms(x, orders[o]) /\ SameTerms(y, orders[r])
                    /\ orders' = [orders EXCEPT ![o] = x, ![r] = y]
    BY <1>4
  <1>6. Shrinking
    BY <1>1, <1>3, <1>5, RewriteShrinks
  <1> QED
    BY <1>2, <1>6

\* What the loop leaves open rests only if it has a limit and may wait.
LEMMA MatchDoneFair ==
    ASSUME IInv, FairInv, NEW o \in OrderIds, MatchDone(o)
    PROVE  FairInv'
  <1>1. /\ orders \in [OrderIds -> OrderType] /\ orders[o] \in OrderType
        /\ place \in [OrderIds -> Nat] /\ place[o] = 0
        /\ o < nextId /\ task = "match"
    BY DEF IInv, TypeOK, BookInv, MatchDone, Matching, TaskInv
  <1>2. /\ UNCHANGED << phaseVars, nextId, target >> /\ task' = "idle"
        /\ UNCHANGED << marketState, override >>
    BY DEF MatchDone, EndTask, phaseVars
  <1>3. CASE LeavesQty(orders[o]) = 0 /\ UNCHANGED << orders, place >>
    <2>1. Shrinking
      BY <1>1, <1>3 DEF Shrinking, SameTerms
    <2> QED
      BY <1>2, <2>1, ShrinkingFair
  <1>4. CASE orders' = [orders EXCEPT ![o] = CancelOrder(orders[o])] /\ UNCHANGED place
    <2>1. orders' = [orders EXCEPT ![o] = CancelOrder(orders[o]), ![o] = CancelOrder(orders[o])]
      BY <1>1, <1>4
    <2>2. Shrinking
      BY <1>1, <1>4, <2>1, TermsKept, RewriteShrinks
    <2> QED
      BY <1>2, <2>2, ShrinkingFair
  <1>5. CASE /\ ~RemainderExpires(orders[o])
             /\ orders' = [orders EXCEPT ![o] = Rested(orders[o])]
             /\ place' = AddedAt(place, o, arrivals + 1)
    <2>1. /\ SameTerms(orders'[o], orders[o])
          /\ \A q \in OrderIds \ {o} : orders'[q] = orders[q] /\ place'[q] = place[q]
      BY <1>1, <1>5, TermsKept DEF AddedAt
    <2>2. ~IsPriceless(orders[o])
      BY <1>1, <1>5 DEF RemainderExpires, OrderType, OrderTypes, FairInv, LimitsInv
    <2>3. ~IsPriceless(orders'[o])
      BY <2>1, <2>2 DEF SameTerms, IsPriceless
    <2>4. AllowsMatching /\ AllowsEntry
      BY <1>1 DEF FairInv, PhaseInv, AllowsMatching, AllowsEntry, CONTINUOUS, NO_ENTRY
    <2>5. PhaseInv'
      BY <1>2 DEF FairInv, PhaseInv
    <2>6. LimitsInv'
      BY <1>2, <2>1, <2>3 DEF FairInv, LimitsInv
    <2>7. RestInv'
      BY <1>2, <2>1, <2>3, <2>4 DEF FairInv, RestInv, AllowsMatching, AllowsEntry, StateFor
    <2> QED
      BY <2>5, <2>6, <2>7 DEF FairInv
  <1> QED
    BY <1>3, <1>4, <1>5 DEF MatchDone

LEMMA AuctionTradeFair ==
    ASSUME IInv, FairInv, NEW b \in OrderIds, NEW s \in OrderIds, AuctionTrade(b, s)
    PROVE  FairInv'
  <1> DEFINE n == Lesser(LeavesQty(orders[b]), LeavesQty(orders[s]))
  <1>1. /\ orders \in [OrderIds -> OrderType]
        /\ orders[b] \in OrderType /\ orders[s] \in OrderType
    BY DEF IInv, TypeOK
  <1>2. /\ orders' = [orders EXCEPT ![b] = ApplyFill(orders[b], n, auctionPrice),
                                    ![s] = ApplyFill(orders[s], n, auctionPrice)]
        /\ \A q \in OrderIds : place'[q] # 0 => place[q] # 0
        /\ UNCHANGED << phaseVars, nextId, target, task >>
    BY DEF AuctionTrade, Removed, taskVars
  <1> HIDE DEF n
  <1>a. /\ SameTerms(ApplyFill(orders[b], n, auctionPrice), orders[b])
        /\ SameTerms(ApplyFill(orders[s], n, auctionPrice), orders[s])
    BY <1>1, TermsKept
  <1>3. Shrinking
    BY <1>1, <1>2, <1>a, RewriteShrinks
  <1> QED
    BY <1>2, <1>3, ShrinkingFair

LEMMA CancelFair ==
    ASSUME IInv, FairInv,
           \/ \E o \in OrderIds : Cancel(o)
           \/ \E m \in CancelScopes : CancelAll(m)
    PROVE  FairInv'
  <1>1. /\ \E S : orders' = Cancelled(S) /\ place' = Removed(place, S)
        /\ UNCHANGED << phaseVars, nextId, target, task >>
    BY DEF Cancel, CancelAll, taskVars
  <1>2. Shrinking
    BY <1>1, CancelledShrinks DEF IInv, TypeOK
  <1> QED
    BY <1>1, <1>2, ShrinkingFair

\* The expiry on the way into a closed phase empties the book.
LEMMA ExpireShrinks ==
    ASSUME orders \in [OrderIds -> OrderType], place \in [OrderIds -> Nat],
           NEW h, NEW s, ExpireOrders(h, s)
    PROVE  /\ Shrinking
           /\ h /\ s \in NO_ENTRY => \A q \in OrderIds : place'[q] = 0
  <1>1. CASE h /\ s \in NO_ENTRY
    <2>1. orders' = Cancelled(OnBook) /\ place' = Removed(place, OnBook)
      BY <1>1 DEF ExpireOrders
    <2>2. \A q \in OrderIds : q \notin OnBook => place[q] = 0
      BY DEF OnBook, Resting, OrderType, Sides
    <2> QED
      BY <2>1, <2>2, CancelledShrinks DEF Removed
  <1>2. CASE ~(h /\ s \in NO_ENTRY)
    <2>1. UNCHANGED << orders, place >>
      BY <1>2 DEF ExpireOrders
    <2> QED
      BY <1>2, <2>1 DEF Shrinking, SameTerms
  <1> QED
    BY <1>1, <1>2

\* A change of phase or of an instrument-level state: what it lets rest.
LEMMA OperatorFair ==
    ASSUME CallsEndInAuctions, IInv, FairInv, OperatorStep
    PROVE  FairInv'
  <1>a. /\ orders \in [OrderIds -> OrderType] /\ place \in [OrderIds -> Nat]
        /\ Phases \subseteq AllPhases
    BY PhasesAssumption DEF IInv, TypeOK
  <1>b. NoOverride \notin AllPhases
    BY DEF NoOverride, AllPhases, NO_ENTRY, ACCUMULATING, CONTINUOUS
  <1>1. ASSUME NEW s \in Phases, SetMarketState(s)
        PROVE  FairInv'
    <2>1. /\ task = "idle" /\ task' = "idle" /\ nextId' = nextId
          /\ ~LeavingAuction(s) /\ marketState' = s
          /\ ExpireOrders(s # marketState, s)
          /\ override' = override
      BY <1>1 DEF SetMarketState, Command, taskVars
    <2>2. Shrinking /\ (s # marketState /\ s \in NO_ENTRY => \A q \in OrderIds : place'[q] = 0)
      BY <1>a, <2>1, ExpireShrinks
    <2>3. PhaseInv'
      BY <2>1 DEF FairInv, PhaseInv
    <2>4. LimitsInv'
      BY <2>1, <2>2 DEF FairInv, LimitsInv, Shrinking, SameTerms, IsPriceless
    <2>5. RestInv'
      <3> SUFFICES ASSUME NEW q \in OrderIds, place'[q] # 0
                   PROVE  (AllowsEntry)' /\ ((AllowsMatching)' => ~IsPriceless(orders'[q]))
        BY DEF RestInv
      <3>1. place[q] # 0 /\ SameTerms(orders'[q], orders[q])
        BY <2>2 DEF Shrinking
      <3>2. AllowsEntry /\ (AllowsMatching => ~IsPriceless(orders[q]))
        BY <3>1 DEF FairInv, RestInv
      <3>3. override = NoOverride
        BY <3>2 DEF FairInv, PhaseInv, AllowsEntry, StateFor
      <3>4. (AllowsEntry)' <=> s \notin NO_ENTRY
        BY <2>1, <3>3 DEF AllowsEntry, StateFor
      <3>5. AllowsEntry <=> marketState \notin NO_ENTRY
        BY <3>3 DEF AllowsEntry, StateFor
      <3>6. (AllowsEntry)'
        BY <2>2, <3>2, <3>4, <3>5
      <3>7. ASSUME (AllowsMatching)' PROVE ~IsPriceless(orders'[q])
        <4>1. s \in CONTINUOUS
          BY <2>1, <3>3, <3>7 DEF AllowsMatching, StateFor
        <4>2. marketState \notin ACCUMULATING
          BY <2>1, <4>1 DEF LeavingAuction, CallsEndInAuctions, FairInv, PhaseInv
        <4>3. marketState \in CONTINUOUS
          BY <1>a, <3>2, <3>5, <4>2 DEF AllPhases, FairInv, PhaseInv
        <4>4. AllowsMatching
          BY <3>3, <4>3 DEF AllowsMatching, StateFor
        <4> QED
          BY <3>1, <3>2, <4>4 DEF SameTerms, IsPriceless
      <3> QED
        BY <3>6, <3>7
    <2> QED
      BY <2>3, <2>4, <2>5 DEF FairInv
  <1>2. ASSUME NEW s \in Phases, SetInstrumentState(s)
        PROVE  FairInv'
    <2>1. /\ task = "idle" /\ task' = "idle" /\ nextId' = nextId
          /\ override' = s /\ s \in NO_ENTRY
          /\ ExpireOrders(override # s, s)
          /\ marketState' = marketState
      BY <1>2 DEF SetInstrumentState, Command, taskVars, CallsEndInAuctions
    <2>2. Shrinking /\ (override # s /\ s \in NO_ENTRY => \A q \in OrderIds : place'[q] = 0)
      BY <1>a, <2>1, ExpireShrinks
    <2>3. PhaseInv'
      BY <2>1 DEF FairInv, PhaseInv
    <2>4. LimitsInv'
      BY <2>1, <2>2 DEF FairInv, LimitsInv, Shrinking, SameTerms, IsPriceless
    <2>5. ASSUME NEW q \in OrderIds, place'[q] # 0 PROVE FALSE
      <3>1. override = s
        BY <2>1, <2>2, <2>5
      <3>2. place[q] # 0
        BY <2>2, <2>5 DEF Shrinking
      <3>3. ~AllowsEntry
        BY <1>b, <2>1, <3>1 DEF AllowsEntry, StateFor, AllPhases
      <3> QED
        BY <3>2, <3>3 DEF FairInv, RestInv
    <2>6. RestInv'
      BY <2>5 DEF RestInv
    <2> QED
      BY <2>3, <2>4, <2>6 DEF FairInv
  <1>3. ASSUME NEW s \in Phases, StartUncross(s)
        PROVE  FairInv'
    <2>1. /\ task' = "auction" /\ target' = s /\ nextId' = nextId
          /\ marketState \in AuctionPhases
          /\ UNCHANGED << orders, place, marketState, override >>
      BY <1>3 DEF StartUncross, StartUncrossAt, Command, LeavingAuction
    <2> QED
      BY <2>1 DEF FairInv, PhaseInv, LimitsInv, RestInv, AllowsEntry, AllowsMatching, StateFor
  <1>4. CASE ClearInstrumentState
    <2>1. /\ task = "idle" /\ task' = "idle" /\ nextId' = nextId
          /\ override # NoOverride /\ override' = NoOverride
          /\ UNCHANGED << orders, place, marketState >>
      BY <1>4 DEF ClearInstrumentState, Command, taskVars
    <2>2. ~AllowsEntry
      BY <2>1 DEF FairInv, PhaseInv, AllowsEntry, StateFor
    <2>3. \A q \in OrderIds : place[q] = 0
      BY <1>a, <2>2 DEF FairInv, RestInv
    <2> QED
      BY <2>1, <2>3 DEF FairInv, PhaseInv, LimitsInv, RestInv
  <1>5. CASE \E m \in StpChoices : SetStpMode(m)
    <2>1. UNCHANGED << orders, place, nextId, marketState, override, task, target >>
      BY <1>5 DEF SetStpMode, Command, taskVars
    <2> QED
      BY <2>1 DEF FairInv, PhaseInv, LimitsInv, RestInv, AllowsEntry, AllowsMatching, StateFor
  <1> QED
    BY <1>1, <1>2, <1>3, <1>4, <1>5 DEF OperatorStep

\* After the auction nothing priceless is left, and nothing at all if it closes.
LEMMA FinishUncrossFair ==
    ASSUME IInv, FairInv, FinishUncross
    PROVE  FairInv'
  <1> DEFINE closing == IF target # marketState /\ target \in NO_ENTRY
                        THEN OnBook ELSE {}
             S == UnfilledAtAuction \cup closing
  <1>1. /\ orders \in [OrderIds -> OrderType] /\ place \in [OrderIds -> Nat]
        /\ orders' = Cancelled(S) /\ place' = Removed(place, S)
        /\ task = "auction" /\ task' = "idle" /\ nextId' = nextId
        /\ marketState' = target /\ override' = override
    BY DEF FinishUncross, IInv, TypeOK
  <1>2. Shrinking
    BY <1>1, CancelledShrinks
  <1>3. marketState \in ACCUMULATING /\ target \in Phases
    BY <1>1, PhasesAssumption DEF FairInv, PhaseInv
  <1>4. PhaseInv'
    BY <1>1, <1>3 DEF FairInv, PhaseInv
  <1>5. LimitsInv'
    BY <1>1, <1>2 DEF FairInv, LimitsInv, Shrinking, SameTerms, IsPriceless
  <1>6. RestInv'
    <2> SUFFICES ASSUME NEW q \in OrderIds, place'[q] # 0
                 PROVE  (AllowsEntry)' /\ ~IsPriceless(orders'[q])
      BY DEF RestInv
    <2>1. /\ place[q] # 0 /\ SameTerms(orders'[q], orders[q]) /\ q \notin S
      BY <1>1, <1>2 DEF Shrinking, Removed
    <2>2. q \in OnBook /\ (IsPriceless(orders[q]) => q \in UnfilledAtAuction)
      BY <1>1, <2>1 DEF OnBook, Resting, UnfilledAtAuction, AtMarket, OrderType, Sides
    <2>3. override = NoOverride
      BY <2>1 DEF FairInv, RestInv, PhaseInv, AllowsEntry, StateFor
    <2>4. target \notin NO_ENTRY
      <3>1. marketState \notin NO_ENTRY
        BY <1>3 DEF ACCUMULATING, NO_ENTRY
      <3> QED
        BY <2>1, <2>2, <3>1
    <2> QED
      BY <1>1, <2>1, <2>2, <2>3, <2>4 DEF AllowsEntry, StateFor, SameTerms, IsPriceless
  <1> QED
    BY <1>4, <1>5, <1>6 DEF FairInv

LEMMA InitFair == Init => FairInv
  <1> SUFFICES ASSUME Init PROVE FairInv
    OBVIOUS
  <1>1. PhaseInv
    BY PhasesAssumption DEF Init, PhaseInv
  <1>2. LimitsInv
    BY DEF Init, LimitsInv, OrderIds
  <1>3. RestInv
    BY DEF Init, RestInv
  <1> QED
    BY <1>1, <1>2, <1>3 DEF FairInv

LEMMA NextFair ==
    ASSUME CallsEndInAuctions, IInv, FairInv, [Next]_vars
    PROVE  FairInv'
  <1>1. CASE ClientStep
    BY <1>1, NewOrderEnters, AmendEnters, EnteringFair, CancelFair DEF ClientStep
  <1>2. CASE OperatorStep
    BY <1>2, OperatorFair
  <1>3. CASE MatchStep
    <2>1. ASSUME NEW o \in OrderIds, MatchDone(o) PROVE FairInv'
      BY <2>1, MatchDoneFair
    <2>2. ASSUME NEW o \in OrderIds, NEW r \in OrderIds,
                 \/ MatchExecute(o, r) \/ StpCancelNewest(o, r)
                 \/ StpCancelOldest(o, r) \/ StpDecrement(o, r)
          PROVE  FairInv'
      BY <2>2, MatchShrinks, ShrinkingFair
    <2> QED
      BY <1>3, <2>1, <2>2 DEF MatchStep
  <1>4. CASE AuctionStep
    BY <1>4, AuctionTradeFair, FinishUncrossFair DEF AuctionStep
  <1>5. CASE UNCHANGED vars
    BY <1>5 DEF vars, bookVars, phaseVars, taskVars, FairInv, PhaseInv, LimitsInv,
               RestInv, AllowsEntry, AllowsMatching, StateFor
  <1> QED
    BY <1>1, <1>2, <1>3, <1>4, <1>5 DEF Next

\* What rests fits the phase, whatever commands led to it, in a market whose call
\* phases end in auctions and whose instruments are only ever halted.
THEOREM RestingFitsThePhase ==
    ASSUME CallsEndInAuctions
    PROVE  Spec => [](IInv /\ FairInv)
  <1>1. Init => IInv /\ FairInv
    BY InitInv, InitFair
  <1>2. IInv /\ FairInv /\ [Next]_vars => (IInv /\ FairInv)'
    BY NextInv, NextFair
  <1> QED
    BY <1>1, <1>2, PTL DEF Spec

LEMMA ClosedBook ==
    ASSUME FairInv
    PROVE  NothingRestsWhileClosed
  <1> SUFFICES ASSUME NEW q \in OnBook PROVE AllowsEntry /\ override \notin NO_ENTRY
    BY DEF NothingRestsWhileClosed
  <1>1. AllowsEntry
    BY DEF FairInv, RestInv, OnBook, Resting
  <1>2. override # NoOverride => override \in NO_ENTRY /\ ~AllowsEntry
    BY DEF FairInv, PhaseInv, AllowsEntry, StateFor
  <1>3. NoOverride \notin NO_ENTRY
    BY DEF NoOverride, NO_ENTRY
  <1> QED
    BY <1>1, <1>2, <1>3

\* Nothing rests while the instrument's phase accepts no orders, nor under a halt.
THEOREM ClosedBooksAreEmpty ==
    ASSUME CallsEndInAuctions
    PROVE  Spec => []NothingRestsWhileClosed
  <1>1. IInv /\ FairInv => NothingRestsWhileClosed
    BY ClosedBook
  <1> QED
    BY <1>1, RestingFitsThePhase, PTL

----------------------------------------------------------------------------
(* Every trade is fair *)

\* A fill at a price inside the order's limit.
LEMMA FillWithinLimit ==
    ASSUME NEW o \in OrderIds, orders[o] \in OrderType, NEW n \in Nat, NEW p \in Nat,
           orders'[o] = ApplyFill(orders[o], n, p),
           ~IsPriceless(orders[o]) => IF orders[o].side = "BUY" THEN p <= orders[o].price
                                      ELSE orders[o].price <= p,
           task = "match" /\ o # cur => p = orders[o].price
    PROVE  WithinLimit(o)
  <1>1. /\ orders[o].price \in Nat /\ orders[o].cum \in Nat /\ orders[o].notional \in Nat
    BY DEF OrderType
  <1>2. PICK money \in Nat : money = p * n
    <2>1. p * n \in Nat
      BY SMT
    <2> QED
      BY <2>1
  <1>3. PICK limit \in Nat : limit = orders[o].price * n
    <2>1. orders[o].price * n \in Nat
      BY <1>1, SMT
    <2> QED
      BY <2>1
  <1>4. orders'[o].cum = orders[o].cum + n /\ orders'[o].notional = orders[o].notional + money
    BY <1>2 DEF ApplyFill, OrderType
  <1>5. /\ orders'[o].cum - orders[o].cum = n
        /\ orders'[o].notional - orders[o].notional = money
    BY <1>1, <1>4
  <1>6. orders[o].price * FilledBy(o) = limit
    BY <1>3, <1>5 DEF FilledBy
  <1>7. p <= orders[o].price => money <= limit
    BY <1>1, <1>2, <1>3, Monotone
  <1>8. orders[o].price <= p => limit <= money
    BY <1>1, <1>2, <1>3, Monotone
  <1>9. task = "match" /\ o # cur => money = limit
    BY <1>2, <1>3
  <1> QED
    BY <1>5, <1>6, <1>7, <1>8, <1>9 DEF WithinLimit

FairFill(o) == FilledBy(o) > 0 => /\ o \in OnBook => InPriority(o)
                                  /\ WithinLimit(o)

\* An execution takes the first order of the best level, at its price.
LEMMA MatchExecuteIsFair ==
    ASSUME IInv, FairInv, NEW o \in OrderIds, NEW r \in OrderIds, MatchExecute(o, r),
           NEW q \in OrderIds
    PROVE  FairFill(q)
  <1> DEFINE n == Lesser(LeavesQty(orders[o]), LeavesQty(orders[r]))
             p == orders[r].price
  <1>1. /\ o # r /\ place[o] = 0 /\ place[r] # 0
        /\ orders[o] \in OrderType /\ orders[r] \in OrderType
        /\ orders[r].side = Opposite(orders[o].side)
        /\ PricesCross(orders[o], orders[r].price)
        /\ IsBestMatch(orders[o], r)
        /\ task = "match" /\ cur = o
    BY MatchFacts DEF MatchExecute, Matching
  <1>2. /\ orders \in [OrderIds -> OrderType] /\ place \in [OrderIds -> Nat]
        /\ n \in Nat /\ p \in Nat
    BY <1>1, LeavesFacts DEF IInv, TypeOK, Lesser, OrderType
  <1>3. /\ orders' = [orders EXCEPT ![o] = ApplyFill(orders[o], n, p),
                                    ![r] = ApplyFill(orders[r], n, p)]
    BY DEF MatchExecute
  <1> HIDE DEF n
  <1>4. CASE q \notin {o, r}
    <2>1. orders'[q] = orders[q] /\ orders[q].cum \in Nat
      BY <1>2, <1>3, <1>4 DEF OrderType
    <2> QED
      BY <2>1 DEF FairFill, FilledBy
  <1>5. CASE q = o
    <2>1. o \notin OnBook
      BY <1>1 DEF OnBook, Resting
    <2>2. orders'[o] = ApplyFill(orders[o], n, p)
      BY <1>1, <1>2, <1>3
    <2>3. ~IsPriceless(orders[o]) => IF orders[o].side = "BUY" THEN p <= orders[o].price
                                     ELSE orders[o].price <= p
      BY <1>1 DEF PricesCross, OrderType
    <2>4. WithinLimit(o)
      BY <1>1, <1>2, <2>2, <2>3, FillWithinLimit
    <2> QED
      BY <1>5, <2>1, <2>4 DEF FairFill
  <1>6. CASE q = r
    <2>1. orders'[r] = ApplyFill(orders[r], n, p)
      BY <1>1, <1>2, <1>3
    <2>2. WithinLimit(r)
      BY <1>1, <1>2, <2>1, FillWithinLimit
    <2>3. ASSUME NEW t \in OnBook \ {r}, Ahead(t, r) PROVE FALSE
      <3>1. /\ t \in OrderIds /\ place[t] # 0
            /\ orders[t].side = orders[r].side /\ AuctionAhead(t, r)
        BY <2>3 DEF OnBook, Resting, Ahead
      <3>2. ~IsPriceless(orders[t])
        BY <1>1, <3>1 DEF FairInv, PhaseInv, RestInv
      <3>3. t \in Priced(place, Opposite(orders[o].side))
        BY <1>1, <3>1, <3>2 DEF Priced, Resting
      <3>4. /\ ~BetterPrice(orders[r].side, orders[t].price, orders[r].price)
            /\ \A z \in BestLevel(place, Opposite(orders[o].side)) :
                  LeavesQty(orders[z]) > 0 => place[r] <= place[z]
            /\ r \in BestLevel(place, Opposite(orders[o].side))
        BY <1>1, <3>3 DEF IsBestMatch, BestLevel
      <3>5. orders[t].price = orders[r].price /\ place[t] < place[r]
        BY <3>1, <3>2, <3>4 DEF AuctionAhead
      <3>6. t \in BestLevel(place, Opposite(orders[o].side))
        BY <3>3, <3>4, <3>5 DEF BestLevel
      <3>7. LeavesQty(orders[t]) > 0
        <4>1. t # o
          BY <1>1, <3>1
        <4> QED
          BY <1>1, <3>1, <4>1 DEF IInv, BookInv, IsLive
      <3> QED
        BY <1>2, <3>1, <3>4, <3>5, <3>6, <3>7
    <2> QED
      BY <1>6, <2>2, <2>3 DEF FairFill, InPriority
  <1> QED
    BY <1>4, <1>5, <1>6

\* Nothing open is ahead of the head of an executable queue.
LEMMA HeadIsFirst ==
    ASSUME IInv, task = "auction", NEW side \in Sides, NEW o \in AuctionHead(side, auctionPrice)
    PROVE  InPriority(o)
  <1>1. /\ o \in OrderIds /\ place[o] # 0 /\ orders[o].side = side
        /\ IsPriceless(orders[o]) \/ ~BetterPrice(side, auctionPrice, orders[o].price)
        /\ \A q \in ExecutableAt(side, auctionPrice) \ {o} :
              LeavesQty(orders[q]) > 0 => AuctionAhead(o, q)
    BY DEF AuctionHead, ExecutableAt, Resting
  <1>2. SUFFICES ASSUME NEW q \in OnBook \ {o}, Ahead(q, o) PROVE FALSE
    BY DEF InPriority
  <1>3. /\ q \in OrderIds /\ place[q] # 0 /\ orders[q].side = side /\ AuctionAhead(q, o)
    BY <1>1, <1>2 DEF OnBook, Resting, Ahead
  <1>4. /\ orders[o].price \in Nat /\ orders[q].price \in Nat /\ auctionPrice \in Nat
        /\ place[o] \in Nat /\ place[q] \in Nat
    BY <1>1, <1>3 DEF IInv, TypeOK, OrderType
  <1>5. q \in ExecutableAt(side, auctionPrice)
    BY <1>1, <1>3, <1>4 DEF ExecutableAt, Resting, AuctionAhead, BetterPrice, IsPriceless
  <1>6. LeavesQty(orders[q]) > 0
    BY <1>3 DEF IInv, BookInv, IsLive
  <1>7. AuctionAhead(o, q)
    BY <1>1, <1>2, <1>5, <1>6
  <1> QED
    BY <1>1, <1>3, <1>4, <1>7 DEF AuctionAhead, BetterPrice, IsPriceless

LEMMA AuctionTradeIsFair ==
    ASSUME IInv, NEW b \in OrderIds, NEW s \in OrderIds, AuctionTrade(b, s),
           NEW q \in OrderIds
    PROVE  FairFill(q)
  <1> DEFINE n == Lesser(LeavesQty(orders[b]), LeavesQty(orders[s]))
  <1>1. /\ b # s
        /\ orders[b].side = "BUY" /\ orders[s].side = "SELL"
        /\ orders[b] \in OrderType /\ orders[s] \in OrderType
        /\ IsPriceless(orders[b]) \/ auctionPrice <= orders[b].price
        /\ IsPriceless(orders[s]) \/ auctionPrice >= orders[s].price
    BY AuctionFacts
  <1>2. /\ orders \in [OrderIds -> OrderType] /\ n \in Nat /\ auctionPrice \in Nat
        /\ orders[b].price \in Nat /\ orders[s].price \in Nat
    BY <1>1, LeavesFacts DEF IInv, TypeOK, Lesser, OrderType
  <1>3. /\ orders' = [orders EXCEPT ![b] = ApplyFill(orders[b], n, auctionPrice),
                                    ![s] = ApplyFill(orders[s], n, auctionPrice)]
        /\ task = "auction"
    BY DEF AuctionTrade
  <1>4. InPriority(b) /\ InPriority(s)
    BY <1>3, HeadIsFirst DEF AuctionTrade, Sides
  <1> HIDE DEF n
  <1>5. CASE q \notin {b, s}
    <2>1. orders'[q] = orders[q] /\ orders[q].cum \in Nat
      BY <1>2, <1>3, <1>5 DEF OrderType
    <2> QED
      BY <2>1 DEF FairFill, FilledBy
  <1>6. CASE q = b
    <2>1. orders'[b] = ApplyFill(orders[b], n, auctionPrice)
      BY <1>1, <1>2, <1>3
    <2>2. WithinLimit(b)
      BY <1>1, <1>2, <1>3, <2>1, FillWithinLimit
    <2> QED
      BY <1>4, <1>6, <2>2 DEF FairFill
  <1>7. CASE q = s
    <2>1. orders'[s] = ApplyFill(orders[s], n, auctionPrice)
      BY <1>1, <1>2, <1>3
    <2>2. WithinLimit(s)
      BY <1>1, <1>2, <1>3, <2>1, FillWithinLimit
    <2> QED
      BY <1>4, <1>7, <2>2 DEF FairFill
  <1> QED
    BY <1>5, <1>6, <1>7

\* Every other step leaves what has been executed alone.
LEMMA CumKept ==
    ASSUME NEW ord \in OrderType, NEW n
    PROVE  /\ CancelOrder(ord).cum = ord.cum
           /\ ReduceQuantity(ord, n).cum = ord.cum
           /\ Rested(ord).cum = ord.cum
  BY DEF CancelOrder, ReduceQuantity, Rested, OrderType

Unfilled(q) == orders'[q].cum <= orders[q].cum

LEMMA EnteringFillsNothing ==
    ASSUME IInv, NEW q \in OrderIds,
           \/ \E r \in Requests : NewOrder(r)
           \/ \E o \in OrderIds, c \in Amendments : Amend(o, c)
    PROVE  Unfilled(q)
  <1>1. orders \in [OrderIds -> OrderType] /\ orders[q].cum \in Nat
    BY DEF IInv, TypeOK, OrderType
  <1>2. ASSUME NEW r \in Requests, NewOrder(r) PROVE Unfilled(q)
    <2> DEFINE o == nextId
               ord == BuildOrder(r)
    <2>1. o \in OrderIds
      BY <1>2 DEF IInv, TypeOK, NewOrder, OrderIds
    <2>2. /\ ord \in OrderType /\ ord.status \in LIVE /\ StatusAgrees(ord) /\ ord.cum = 0
      BY RequestsAssumption
         DEF ValidRequest, BuildOrder, OrderType, StatusAgrees, LIVE, Statuses
    <2>3. Submit(o, ord, place, arrivals + 1)
      BY <1>2 DEF NewOrder
    <2> HIDE DEF o, ord
    <2>4. orders'[o].cum = 0 /\ \A z \in OrderIds \ {o} : orders'[z] = orders[z]
      BY <1>1, <2>1, <2>2, <2>3, SubmitShape
    <2> QED
      BY <1>1, <2>4 DEF Unfilled
  <1>3. ASSUME NEW o \in OrderIds, NEW c \in Amendments, Amend(o, c) PROVE Unfilled(q)
    <2> DEFINE ord == Revised(orders[o], c)
               pl == AmendedPlace(o, ord)
    <2>1. /\ orders[o] \in OrderType /\ StatusAgrees(orders[o]) /\ IsLive(orders[o])
          /\ ord.qty > orders[o].cum
      BY <1>1, <1>3 DEF Amend, IInv, StatusAgreesWithFills
    <2>2. /\ ord \in OrderType /\ ord.status = orders[o].status /\ ord.cum = orders[o].cum
      BY <2>1, RevisedFacts
    <2>3. Settle(o, ord, pl) \/ Submit(o, ord, Removed(pl, {o}), arrivals + 1)
      BY <1>3 DEF Amend
    <2> HIDE DEF ord, pl
    <2>4. ord.status \in LIVE /\ StatusAgrees(ord)
      BY <2>1, <2>2 DEF IsLive, LIVE, StatusAgrees, OrderType
    <2>5. orders'[o].cum = ord.cum /\ \A z \in OrderIds \ {o} : orders'[z] = orders[z]
      <3>1. CASE Settle(o, ord, pl)
        BY <1>1, <3>1 DEF Settle
      <3>2. CASE Submit(o, ord, Removed(pl, {o}), arrivals + 1)
        BY <1>1, <2>2, <2>4, <3>2, SubmitShape
      <3> QED
        BY <2>3, <3>1, <3>2
    <2> QED
      BY <1>1, <2>2, <2>5 DEF Unfilled
  <1> QED
    BY <1>2, <1>3

LEMMA ClosingFillsNothing ==
    ASSUME IInv, NEW q \in OrderIds,
           \/ UNCHANGED orders
           \/ \E S : orders' = Cancelled(S)
           \/ \E o \in OrderIds, r \in OrderIds :
                 StpCancelNewest(o, r) \/ StpCancelOldest(o, r) \/ StpDecrement(o, r)
           \/ \E o \in OrderIds : MatchDone(o)
    PROVE  Unfilled(q)
  <1>1. /\ orders \in [OrderIds -> OrderType] /\ orders[q] \in OrderType
        /\ orders[q].cum \in Nat
    BY DEF IInv, TypeOK, OrderType
  <1> SUFFICES orders'[q].cum = orders[q].cum
    BY <1>1 DEF Unfilled
  <1>2. CASE UNCHANGED orders
    BY <1>2
  <1>3. CASE \E S : orders' = Cancelled(S)
    BY <1>1, <1>3, CumKept DEF Cancelled
  <1>4. ASSUME NEW o \in OrderIds, NEW r \in OrderIds,
               StpCancelNewest(o, r) \/ StpCancelOldest(o, r) \/ StpDecrement(o, r)
        PROVE  orders'[q].cum = orders[q].cum
    <2>1. orders[o] \in OrderType /\ orders[r] \in OrderType
      BY <1>1
    <2>2. CASE StpCancelNewest(o, r)
      BY <1>1, <2>1, <2>2, CumKept DEF StpCancelNewest
    <2>3. CASE StpCancelOldest(o, r)
      BY <1>1, <2>1, <2>3, CumKept DEF StpCancelOldest
    <2>4. CASE StpDecrement(o, r)
      <3> DEFINE co == CancelOrder(orders[o])
                 cr == CancelOrder(orders[r])
                 ro == ReduceQuantity(orders[o], LeavesQty(orders[r]))
                 rr == ReduceQuantity(orders[r], LeavesQty(orders[o]))
      <3>1. /\ co.cum = orders[o].cum /\ ro.cum = orders[o].cum
            /\ cr.cum = orders[r].cum /\ rr.cum = orders[r].cum
        BY <2>1, CumKept
      <3>a. \/ orders' = [orders EXCEPT ![o] = co, ![r] = cr]
            \/ orders' = [orders EXCEPT ![o] = ro, ![r] = cr]
            \/ orders' = [orders EXCEPT ![o] = co, ![r] = rr]
        BY <2>4 DEF StpDecrement
      <3> HIDE DEF co, cr, ro, rr
      <3>2. \E x, y : /\ x.cum = orders[o].cum /\ y.cum = orders[r].cum
                      /\ orders' = [orders EXCEPT ![o] = x, ![r] = y]
        BY <3>1, <3>a
      <3>b. PICK x, y : /\ x.cum = orders[o].cum /\ y.cum = orders[r].cum
                        /\ orders' = [orders EXCEPT ![o] = x, ![r] = y]
        BY <3>2
      <3>3. CASE q = r
        BY <1>1, <3>b, <3>3
      <3>4. CASE q # r /\ q = o
        BY <1>1, <3>b, <3>4
      <3>5. CASE q # r /\ q # o
        BY <1>1, <3>b, <3>5
      <3> QED
        BY <3>3, <3>4, <3>5
    <2> QED
      BY <1>4, <2>2, <2>3, <2>4
  <1>5. ASSUME NEW o \in OrderIds, MatchDone(o)
        PROVE  orders'[q].cum = orders[q].cum
    <2>1. orders[o] \in OrderType
      BY <1>1
    <2> QED
      BY <1>1, <1>5, <2>1, CumKept DEF MatchDone
  <1> QED
    BY <1>2, <1>3, <1>4, <1>5

LEMMA NextIsFair ==
    ASSUME IInv, FairInv, [Next]_vars, NEW q \in OrderIds
    PROVE  FairFill(q)
  <1>1. ASSUME Unfilled(q) PROVE FairFill(q)
    <2>1. orders[q].cum \in Nat
      BY DEF IInv, TypeOK, OrderType
    <2>2. orders' \in [OrderIds -> OrderType]
      BY NextInv DEF IInv, TypeOK
    <2>3. orders'[q].cum \in Nat
      BY <2>2 DEF OrderType
    <2> QED
      BY <1>1, <2>1, <2>3 DEF Unfilled, FairFill, FilledBy
  <1>2. CASE ClientStep
    <2>1. ASSUME \/ \E o \in OrderIds : Cancel(o)
                 \/ \E keys \in CancelScopes : CancelAll(keys)
          PROVE  \E S : orders' = Cancelled(S)
      BY <2>1 DEF Cancel, CancelAll
    <2> QED
      BY <1>1, <1>2, <2>1, EnteringFillsNothing, ClosingFillsNothing DEF ClientStep
  <1>3. CASE OperatorStep
    <2>1. UNCHANGED orders \/ orders' = Cancelled(OnBook)
      BY <1>3 DEF OperatorStep, SetMarketState, StartUncross, StartUncrossAt,
                 SetInstrumentState, ClearInstrumentState, SetStpMode, ExpireOrders
    <2> QED
      BY <1>1, <2>1, ClosingFillsNothing
  <1>4. CASE MatchStep
    <2>1. ASSUME NEW o \in OrderIds, NEW r \in OrderIds, MatchExecute(o, r)
          PROVE  FairFill(q)
      BY <2>1, MatchExecuteIsFair
    <2> QED
      BY <1>1, <1>4, <2>1, ClosingFillsNothing DEF MatchStep
  <1>5. CASE AuctionStep
    <2>1. ASSUME FinishUncross PROVE \E S : orders' = Cancelled(S)
      BY <2>1 DEF FinishUncross
    <2>2. ASSUME NEW b \in OrderIds, NEW s \in OrderIds, AuctionTrade(b, s)
          PROVE  FairFill(q)
      BY <2>2, AuctionTradeIsFair
    <2> QED
      BY <1>1, <1>5, <2>1, <2>2, ClosingFillsNothing DEF AuctionStep
  <1>6. CASE UNCHANGED vars
    BY <1>1, <1>6, ClosingFillsNothing DEF vars, bookVars
  <1> QED
    BY <1>2, <1>3, <1>4, <1>5, <1>6 DEF Next

LEMMA NextFairStep == IInv /\ FairInv /\ [Next]_vars => \A o \in OrderIds : FairFill(o)
  BY NextIsFair

\* Price-time priority and the limits of both orders are respected by every fill,
\* in continuous trading and in the auction, for every book and every price rule.
THEOREM FillsAreFair ==
    ASSUME CallsEndInAuctions
    PROVE  Spec => TradesAreFair
  <1> DEFINE Fair == \A o \in OrderIds :
                        FilledBy(o) > 0 => /\ o \in OnBook => InPriority(o)
                                           /\ WithinLimit(o)
  <1>1. IInv /\ FairInv /\ [Next]_vars => [Fair]_vars
    BY NextFairStep DEF FairFill
  <1> QED
    BY <1>1, RestingFitsThePhase, PTL DEF Spec, TradesAreFair

----------------------------------------------------------------------------
(* A market without call phases: the book only ever gets what the matching *)
(* loop found no counterparty for, so it is never crossed.                 *)

\* No bid reaches an offer.
UncrossedInv ==
    \A b, s \in OrderIds :
        /\ place[b] # 0 /\ orders[b].side = "BUY" /\ ~IsPriceless(orders[b])
        /\ place[s] # 0 /\ orders[s].side = "SELL" /\ ~IsPriceless(orders[s])
        => orders[b].price < orders[s].price

\* What rests may wait.
PatientInv == \A o \in OrderIds : place[o] # 0 => ~IsImmediate(orders[o])

QuietBookInv == UncrossedInv /\ PatientInv

\* A step after which the book holds nothing new.
Falling ==
    \A q \in OrderIds : place'[q] # 0 => place[q] # 0 /\ SameTerms(orders'[q], orders[q])

LEMMA FallingKeepsTheBook ==
    ASSUME QuietBookInv, Falling
    PROVE  QuietBookInv'
  <1>1. UncrossedInv'
    BY DEF QuietBookInv, UncrossedInv, Falling, SameTerms, IsPriceless
  <1>2. PatientInv'
    BY DEF QuietBookInv, PatientInv, Falling, SameTerms, IsImmediate
  <1> QED
    BY <1>1, <1>2 DEF QuietBookInv

\* The least of a set of numbers.
LEMMA LeastNumber ==
    ASSUME NEW T, T \subseteq Nat, T # {}
    PROVE  \E n \in T : \A m \in T : n <= m
  <1>1. PICK n \in T : \A m \in T : << m, n >> \notin OpToRel(<, Nat)
    BY NatLessThanWellFounded, WFMin
  <1>2. \A m \in T : ~(m < n)
    BY <1>1 DEF OpToRel
  <1> QED
    BY <1>2

\* Some order of a side of the book has the most aggressive price: were there
\* none among the first n orders with which to compare, take the least such n.
LEMMA BestExists ==
    ASSUME IInv, NEW side \in Sides, Priced(place, side) # {}
    PROVE  BestLevel(place, side) # {}
  <1> DEFINE Q == Priced(place, side)
             BestOf(n) == \E o \in Q : \A q \in Q : q <= n =>
                             ~BetterPrice(side, orders[q].price, orders[o].price)
             Bad == {n \in Nat : ~BestOf(n)}
  <1>1. /\ Q \subseteq OrderIds
        /\ \A q \in Q : q \in Nat /\ 0 < q /\ q <= MaxOrders /\ orders[q].price \in Nat
        /\ MaxOrders \in Nat
    <2>1. Q \subseteq OrderIds
      BY DEF Priced, Resting
    <2>2. \A q \in OrderIds : orders[q].price \in Nat
      BY DEF IInv, TypeOK, OrderType
    <2>3. \A q \in OrderIds : q \in Nat /\ 0 < q /\ q <= MaxOrders
      BY MaxOrdersAssumption DEF OrderIds
    <2> QED
      BY <2>1, <2>2, <2>3, MaxOrdersAssumption
  <1>2. Q # {}
    OBVIOUS
  <1> HIDE DEF Q
  <1>3. ASSUME Bad # {} PROVE FALSE
    <2>1. PICK n \in Bad : \A m \in Bad : n <= m
      BY <1>3, LeastNumber
    <2>2. n # 0
      BY <1>1, <1>2, <2>1
    <2>3. n - 1 \in Nat /\ n - 1 \notin Bad
      BY <2>1, <2>2
    <2>4. PICK o \in Q : \A q \in Q : q <= n - 1 =>
                            ~BetterPrice(side, orders[q].price, orders[o].price)
      BY <2>3
    <2>5. PICK z \in Q : /\ z <= n
                         /\ BetterPrice(side, orders[z].price, orders[o].price)
      BY <2>1, <2>4
    <2>6. z = n
      <3>1. n \in Nat /\ z \in Nat
        BY <1>1, <2>1
      <3>2. ~(z <= n - 1)
        BY <2>4, <2>5
      <3> QED
        BY <2>5, <3>1, <3>2
    <2>7. \A q \in Q : q <= n => ~BetterPrice(side, orders[q].price, orders[z].price)
      <3> SUFFICES ASSUME NEW q \in Q, q <= n
                   PROVE  ~BetterPrice(side, orders[q].price, orders[z].price)
        OBVIOUS
      <3>1. CASE q = n
        BY <1>1, <2>6, <3>1 DEF BetterPrice
      <3>2. CASE q # n
        <4>1. q <= n - 1
          <5>1. q \in Nat /\ n \in Nat
            BY <1>1, <2>1
          <5> QED
            BY <3>2, <5>1
        <4>2. ~BetterPrice(side, orders[q].price, orders[o].price)
          BY <2>4, <4>1
        <4>3. /\ orders[q].price \in Nat /\ orders[o].price \in Nat
              /\ orders[z].price \in Nat
          BY <1>1
        <4> QED
          BY <2>5, <4>2, <4>3 DEF BetterPrice
      <3> QED
        BY <3>1, <3>2
    <2> QED
      BY <2>1, <2>7
  <1>4. BestOf(MaxOrders)
    BY <1>1, <1>3
  <1> QED
    BY <1>1, <1>4 DEF BestLevel, Q

\* If some open order could trade with the incoming one, one is the best match.
LEMMA MatchExists ==
    ASSUME IInv, NEW o \in OrderIds, Matching(o),
           NEW z \in Priced(place, Opposite(orders[o].side)),
           PricesCross(orders[o], orders[z].price)
    PROVE  \E r \in OrderIds : IsBestMatch(orders[o], r)
  <1> DEFINE side == Opposite(orders[o].side)
             level == BestLevel(place, side)
  <1>1. /\ side \in Sides /\ orders[o].side \in Sides /\ orders[o].price \in Nat
        /\ place \in [OrderIds -> Nat]
        /\ \A q \in OrderIds : orders[q].price \in Nat
    BY DEF IInv, TypeOK, OrderType, Opposite, Sides
  <1>2. level # {} /\ level \subseteq Priced(place, side)
    BY <1>1, BestExists DEF BestLevel
  <1>3. ASSUME NEW q \in level
        PROVE  q \in OrderIds /\ LeavesQty(orders[q]) > 0 /\ PricesCross(orders[o], orders[q].price)
    <2>1. /\ q \in OrderIds /\ place[q] # 0 /\ orders[q].side = side
          /\ ~BetterPrice(side, orders[z].price, orders[q].price)
          /\ z \in OrderIds
      BY <1>2 DEF BestLevel, Priced, Resting
    <2>2. q # o
      BY <2>1 DEF IInv, BookInv, Matching
    <2>3. LeavesQty(orders[q]) > 0
      BY <2>1, <2>2 DEF IInv, BookInv, Matching, IsLive
    <2>4. PricesCross(orders[o], orders[q].price)
      BY <1>1, <2>1 DEF PricesCross, BetterPrice, Opposite, Sides
    <2> QED
      BY <2>1, <2>3, <2>4
  <1> HIDE DEF level
  <1> DEFINE T == {place[q] : q \in level}
  <1>4. T \subseteq Nat /\ T # {}
    BY <1>1, <1>2, <1>3
  <1>5. PICK r \in level : \A q \in level : place[r] <= place[q]
    <2>1. PICK n \in T : \A m \in T : n <= m
      BY <1>4, LeastNumber
    <2> QED
      BY <2>1
  <1> QED
    BY <1>3, <1>5 DEF IsBestMatch, level

\* What the matching loop leaves to rest meets no order it could trade with.
LEMMA MatchDoneKeepsTheBook ==
    ASSUME IInv, FairInv, QuietBookInv, NEW o \in OrderIds, MatchDone(o)
    PROVE  QuietBookInv'
  <1>1. /\ orders \in [OrderIds -> OrderType] /\ orders[o] \in OrderType
        /\ place \in [OrderIds -> Nat] /\ place[o] = 0
        /\ task = "match" /\ Matching(o)
    BY DEF IInv, TypeOK, BookInv, MatchDone, Matching
  <1>2. CASE LeavesQty(orders[o]) = 0 /\ UNCHANGED << orders, place >>
    <2>1. Falling
      BY <1>2 DEF Falling, SameTerms
    <2> QED
      BY <2>1, FallingKeepsTheBook
  <1>3. CASE orders' = [orders EXCEPT ![o] = CancelOrder(orders[o])] /\ UNCHANGED place
    <2>1. Falling
      BY <1>1, <1>3, TermsKept DEF Falling, SameTerms
    <2> QED
      BY <2>1, FallingKeepsTheBook
  <1>4. CASE /\ LeavesQty(orders[o]) > 0
             /\ ~RemainderExpires(orders[o])
             /\ orders' = [orders EXCEPT ![o] = Rested(orders[o])]
             /\ place' = AddedAt(place, o, arrivals + 1)
    <2>1. /\ SameTerms(orders'[o], orders[o])
          /\ \A q \in OrderIds \ {o} : orders'[q] = orders[q] /\ place'[q] = place[q]
      BY <1>1, <1>4, TermsKept DEF AddedAt
    <2>2. ~IsImmediate(orders[o])
      BY <1>4 DEF RemainderExpires
    <2>3. \A z \in Priced(place, Opposite(orders[o].side)) :
             ~PricesCross(orders[o], orders[z].price)
      BY <1>1, <1>4, MatchExists DEF MatchDone
    <2>4. PatientInv'
      BY <2>1, <2>2 DEF QuietBookInv, PatientInv, SameTerms, IsImmediate
    <2>5. UncrossedInv'
      <3> SUFFICES ASSUME NEW b \in OrderIds, NEW s \in OrderIds,
                          place'[b] # 0, orders'[b].side = "BUY", ~IsPriceless(orders'[b]),
                          place'[s] # 0, orders'[s].side = "SELL", ~IsPriceless(orders'[s])
                   PROVE  orders'[b].price < orders'[s].price
        BY DEF UncrossedInv
      <3>1. \A q \in OrderIds : orders[q].price \in Nat
        BY <1>1 DEF OrderType
      <3>2. CASE b # o /\ s # o
        BY <2>1, <3>2 DEF QuietBookInv, UncrossedInv
      <3>3. CASE b = o
        <4>1. s # o /\ orders[o].side = "BUY" /\ ~IsPriceless(orders[o])
          BY <2>1, <3>3 DEF SameTerms, IsPriceless
        <4>2. s \in Priced(place, Opposite(orders[o].side))
          BY <2>1, <4>1 DEF Priced, Resting, Opposite
        <4>3. ~(orders[s].price <= orders[o].price)
          BY <2>3, <4>1, <4>2 DEF PricesCross
        <4>4. orders'[o].price = orders[o].price /\ orders'[s].price = orders[s].price
          BY <2>1, <4>1 DEF SameTerms
        <4> QED
          BY <3>1, <3>3, <4>3, <4>4
      <3>4. CASE s = o
        <4>1. b # o /\ orders[o].side = "SELL" /\ ~IsPriceless(orders[o])
          BY <2>1, <3>4 DEF SameTerms, IsPriceless
        <4>2. b \in Priced(place, Opposite(orders[o].side))
          BY <2>1, <4>1 DEF Priced, Resting, Opposite
        <4>3. ~(orders[b].price >= orders[o].price)
          BY <2>3, <4>1, <4>2 DEF PricesCross
        <4>4. orders'[o].price = orders[o].price /\ orders'[b].price = orders[b].price
          BY <2>1, <4>1 DEF SameTerms
        <4> QED
          BY <3>1, <3>4, <4>3, <4>4
      <3> QED
        BY <3>2, <3>3, <3>4
    <2> QED
      BY <2>4, <2>5 DEF QuietBookInv
  <1> QED
    BY <1>2, <1>3, <1>4 DEF MatchDone

LEMMA NextKeepsTheBook ==
    ASSUME NoCalls, IInv, FairInv, QuietBookInv, [Next]_vars
    PROVE  QuietBookInv'
  <1>a. orders \in [OrderIds -> OrderType] /\ place \in [OrderIds -> Nat]
    BY DEF IInv, TypeOK
  <1>b. AllowsEntry => AllowsMatching
    <2>1. marketState \in Phases /\ Phases \subseteq AllPhases
      BY PhasesAssumption DEF FairInv, PhaseInv
    <2>2. marketState \notin ACCUMULATING
      BY <2>1 DEF NoCalls
    <2> QED
      BY <2>1, <2>2 DEF FairInv, PhaseInv, AllowsEntry, AllowsMatching, StateFor, AllPhases
  <1>1. ASSUME Shrinking PROVE QuietBookInv'
    <2>1. Falling
      BY <1>1 DEF Shrinking, Falling
    <2> QED
      BY <2>1, FallingKeepsTheBook
  <1>2. ASSUME NEW o \in OrderIds, Entering(o) PROVE QuietBookInv'
    <2>1. Falling
      BY <1>b, <1>2 DEF Entering, Falling, SameTerms
    <2> QED
      BY <2>1, FallingKeepsTheBook
  <1>3. ASSUME UNCHANGED << orders, place >> PROVE QuietBookInv'
    <2>1. Shrinking
      BY <1>3 DEF Shrinking, SameTerms
    <2> QED
      BY <1>1, <2>1
  <1>4. CASE ClientStep
    <2>1. ASSUME \/ \E o \in OrderIds : Cancel(o)
                 \/ \E keys \in CancelScopes : CancelAll(keys)
          PROVE  Shrinking
      BY <1>a, <2>1, CancelledShrinks DEF Cancel, CancelAll
    <2> QED
      BY <1>1, <1>2, <1>4, <2>1, NewOrderEnters, AmendEnters DEF ClientStep
  <1>5. CASE OperatorStep
    <2>1. \/ UNCHANGED << orders, place >>
          \/ orders' = Cancelled(OnBook) /\ place' = Removed(place, OnBook)
      BY <1>5 DEF OperatorStep, SetMarketState, StartUncross, StartUncrossAt,
                 SetInstrumentState, ClearInstrumentState, SetStpMode, ExpireOrders
    <2> QED
      BY <1>1, <1>3, <1>a, <2>1, CancelledShrinks
  <1>6. CASE MatchStep
    <2>1. ASSUME NEW o \in OrderIds, MatchDone(o) PROVE QuietBookInv'
      BY <2>1, MatchDoneKeepsTheBook
    <2>2. ASSUME NEW o \in OrderIds, NEW r \in OrderIds,
                 \/ MatchExecute(o, r) \/ StpCancelNewest(o, r)
                 \/ StpCancelOldest(o, r) \/ StpDecrement(o, r)
          PROVE  QuietBookInv'
      BY <1>1, <2>2, MatchShrinks
    <2> QED
      BY <1>6, <2>1, <2>2 DEF MatchStep
  <1>7. CASE AuctionStep
    <2>1. FALSE
      <3>1. task = "auction"
        BY <1>7 DEF AuctionStep, FinishUncross, AuctionTrade
      <3> QED
        BY <3>1, PhasesAssumption DEF FairInv, PhaseInv, NoCalls
    <2> QED
      BY <2>1
  <1>8. CASE UNCHANGED vars
    BY <1>3, <1>8 DEF vars, bookVars
  <1> QED
    BY <1>4, <1>5, <1>6, <1>7, <1>8 DEF Next

LEMMA InitQuiet == Init => QuietBookInv
  <1> SUFFICES ASSUME Init PROVE QuietBookInv
    OBVIOUS
  <1>1. \A o \in OrderIds : place[o] = 0
    BY DEF Init
  <1> QED
    BY <1>1 DEF QuietBookInv, UncrossedInv, PatientInv

LEMMA QuietBookFits ==
    IInv /\ FairInv /\ QuietBookInv => RestingFits /\ ImmediateNeverRests
  <1> SUFFICES ASSUME IInv, FairInv, QuietBookInv
               PROVE  RestingFits /\ ImmediateNeverRests
    OBVIOUS
  <1>1. ~IsCrossed
    <2> SUFFICES ASSUME NEW b \in Priced(place, "BUY"), NEW a \in Priced(place, "SELL")
                 PROVE  ~(orders[b].price >= orders[a].price)
      BY DEF IsCrossed
    <2>1. orders[b].price < orders[a].price
      BY DEF QuietBookInv, UncrossedInv, Priced, Resting
    <2>2. orders[b].price \in Nat /\ orders[a].price \in Nat
      BY DEF Priced, Resting, IInv, TypeOK, OrderType
    <2> QED
      BY <2>1, <2>2
  <1>2. OnlyPricedInContinuous
    BY DEF OnlyPricedInContinuous, OnBook, Resting, FairInv, RestInv
  <1>3. NothingRestsWhileClosed
    BY ClosedBook
  <1>4. ImmediateNeverRests
    BY DEF ImmediateNeverRests, OnBook, Resting, QuietBookInv, PatientInv
  <1> QED
    BY <1>1, <1>2, <1>3, <1>4 DEF RestingFits, ContinuousBookNotCrossed

LEMMA QuietBookStaysPatient == QuietBookInv' => ImmediateComesFromACall
  <1> SUFFICES ASSUME QuietBookInv', NEW o \in OrderIds PROVE ~RestsImmediate(o)'
    BY DEF ImmediateComesFromACall
  <1> QED
    BY DEF QuietBookInv, PatientInv, RestsImmediate, OnBook, Resting

\* In a market without call phases the book fits the phase: neither locked nor
\* crossed and of limit orders in continuous trading, empty otherwise; and IOC and
\* FOK orders never rest.
THEOREM BookIsNeverCrossed ==
    ASSUME NoCalls
    PROVE  Spec => BookFitsThePhase /\ []ImmediateNeverRests
  <1>1. CallsEndInAuctions
    BY DEF NoCalls, CallsEndInAuctions
  <1>2. IInv /\ FairInv /\ QuietBookInv /\ [Next]_vars => QuietBookInv'
    BY NextKeepsTheBook
  <1>3. Spec => [](IInv /\ FairInv)
    BY <1>1, RestingFitsThePhase
  <1>4. RestingFits' /\ QuietBookInv' => [RestingFits' /\ ImmediateComesFromACall]_vars
    BY QuietBookStaysPatient
  <1> QED
    BY <1>2, <1>3, <1>4, InitQuiet, QuietBookFits, PTL DEF Spec, BookFitsThePhase


----------------------------------------------------------------------------
(* Chains *)

\* What appending an identifier to a chain does to the set of its identifiers.
LEMMA AppendFacts ==
    ASSUME NEW S, NEW s \in Seq(S), NEW e \in S
    PROVE  /\ Append(s, e) \in Seq(S)
           /\ Range(Append(s, e)) = Range(s) \cup {e}
           /\ IsInjective(s) /\ e \notin Range(s) => IsInjective(Append(s, e))
  <1>1. /\ Append(s, e) \in Seq(S) /\ DOMAIN Append(s, e) = 1..(Len(s) + 1)
        /\ Append(s, e)[Len(s) + 1] = e
        /\ DOMAIN s = 1..Len(s) /\ Len(s) \in Nat
        /\ \A i \in 1..Len(s) : Append(s, e)[i] = s[i]
    OBVIOUS
  <1>2. Range(Append(s, e)) = Range(s) \cup {e}
    BY <1>1 DEF Range
  <1>3. ASSUME IsInjective(s), e \notin Range(s) PROVE IsInjective(Append(s, e))
    BY <1>1, <1>3 DEF IsInjective, Range
  <1> QED
    BY <1>1, <1>2, <1>3

\* A chain nobody has written to holds no identifier.
LEMMA EmptyChain == Range(<< >>) = {} /\ IsInjective(<< >>)
  BY DEF Range, IsInjective

----------------------------------------------------------------------------
(* The market under order entry *)

\* No cancel, fill, decrement or expiry changes who owns an order.
LEMMA OwnerFacts ==
    ASSUME NEW ord \in OrderType
    PROVE  /\ CancelOrder(ord).session = ord.session
           /\ \A q, p \in Nat : ApplyFill(ord, q, p).session = ord.session
           /\ \A by \in Nat : ReduceQuantity(ord, by).session = ord.session
           /\ \A a : Revised(ord, a).session = ord.session
           /\ Rested(ord).session = ord.session
  <1>1. \A q, p \in Nat : ApplyFill(ord, q, p).session = ord.session
    BY DEF ApplyFill, OrderType
  <1>2. \A by \in Nat : ReduceQuantity(ord, by).session = ord.session
    BY DEF ReduceQuantity, OrderType
  <1> QED
    BY <1>1, <1>2 DEF CancelOrder, Revised, Rested, OrderType

OwnersKept == \A o \in OrderIds : orders'[o].session = orders[o].session

\* Changes of one or two orders that keep their owners keep all owners.
LEMMA CancelledOwners ==
    ASSUME TypeOK, NEW S, orders' = Cancelled(S) PROVE OwnersKept
  BY OwnerFacts DEF OwnersKept, Cancelled, TypeOK

LEMMA ExceptOwners ==
    ASSUME TypeOK, NEW o \in OrderIds, NEW ord, ord.session = orders[o].session,
           orders' = [orders EXCEPT ![o] = ord]
    PROVE  OwnersKept
  BY DEF OwnersKept, TypeOK

LEMMA ExceptTwoOwners ==
    ASSUME TypeOK, NEW o \in OrderIds, NEW r \in OrderIds, NEW x, NEW y,
           x.session = orders[o].session, y.session = orders[r].session,
           orders' = [orders EXCEPT ![o] = x, ![r] = y]
    PROVE  OwnersKept
  BY DEF OwnersKept, TypeOK

\* An iteration of the matching loop changes no order's owner.
LEMMA MatchOwners == IInv /\ MatchStep => OwnersKept
  <1> SUFFICES ASSUME IInv, NEW o \in OrderIds,
                      \/ MatchDone(o)
                      \/ \E r \in OrderIds : \/ MatchExecute(o, r)
                                             \/ StpCancelNewest(o, r)
                                             \/ StpCancelOldest(o, r)
                                             \/ StpDecrement(o, r)
               PROVE  OwnersKept
    BY DEF MatchStep
  <1>1. TypeOK /\ orders[o] \in OrderType
    BY DEF IInv, TypeOK
  <1>2. CASE MatchDone(o)
    <2>1. \/ orders' = orders
          \/ orders' = [orders EXCEPT ![o] = CancelOrder(orders[o])]
          \/ orders' = [orders EXCEPT ![o] = Rested(orders[o])]
      BY <1>2 DEF MatchDone
    <2> QED
      BY <1>1, <2>1, OwnerFacts, ExceptOwners DEF OwnersKept
  <1>3. ASSUME NEW r \in OrderIds, MatchExecute(o, r) PROVE OwnersKept
    <2>1. orders[r] \in OrderType /\ orders[r].price \in Nat
      BY <1>1 DEF TypeOK, OrderType
    <2> DEFINE quantity == Lesser(LeavesQty(orders[o]), LeavesQty(orders[r]))
    <2>2. quantity \in Nat
      BY <1>1, <2>1, LeavesFacts DEF Lesser
    <2>3. orders' = [orders EXCEPT
                       ![o] = ApplyFill(orders[o], quantity, orders[r].price),
                       ![r] = ApplyFill(orders[r], quantity, orders[r].price)]
      BY <1>3 DEF MatchExecute
    <2> HIDE DEF quantity
    <2>4. /\ ApplyFill(orders[o], quantity, orders[r].price).session = orders[o].session
          /\ ApplyFill(orders[r], quantity, orders[r].price).session = orders[r].session
      BY <1>1, <2>1, <2>2, OwnerFacts
    <2> QED
      BY <1>1, <2>3, <2>4, ExceptTwoOwners
  <1>4. ASSUME NEW r \in OrderIds,
               StpCancelNewest(o, r) \/ StpCancelOldest(o, r)
        PROVE  OwnersKept
    <2>1. orders[r] \in OrderType
      BY <1>1 DEF TypeOK
    <2>2. \/ orders' = [orders EXCEPT ![o] = CancelOrder(orders[o])]
          \/ orders' = [orders EXCEPT ![r] = CancelOrder(orders[r])]
      BY <1>4 DEF StpCancelNewest, StpCancelOldest
    <2> QED
      BY <1>1, <2>1, <2>2, OwnerFacts, ExceptOwners
  <1>5. ASSUME NEW r \in OrderIds, StpDecrement(o, r) PROVE OwnersKept
    <2>1. /\ orders[r] \in OrderType
          /\ LeavesQty(orders[o]) \in Nat /\ LeavesQty(orders[r]) \in Nat
      BY <1>1, LeavesFacts DEF TypeOK
    <2>2. \/ orders' = [orders EXCEPT ![o] = CancelOrder(orders[o]),
                                      ![r] = CancelOrder(orders[r])]
          \/ orders' = [orders EXCEPT
                          ![o] = ReduceQuantity(orders[o], LeavesQty(orders[r])),
                          ![r] = CancelOrder(orders[r])]
          \/ orders' = [orders EXCEPT
                          ![o] = CancelOrder(orders[o]),
                          ![r] = ReduceQuantity(orders[r], LeavesQty(orders[o]))]
      BY <1>5 DEF StpDecrement
    <2>3. /\ CancelOrder(orders[o]).session = orders[o].session
          /\ CancelOrder(orders[r]).session = orders[r].session
          /\ ReduceQuantity(orders[o], LeavesQty(orders[r])).session = orders[o].session
          /\ ReduceQuantity(orders[r], LeavesQty(orders[o])).session = orders[r].session
      BY <1>1, <2>1, OwnerFacts
    <2> QED
      BY <1>1, <2>2, <2>3, ExceptTwoOwners
  <1> QED
    BY <1>2, <1>3, <1>4, <1>5

\* An amendment changes no order's owner, whatever re-entering it leads to.
LEMMA AmendOwners ==
    ASSUME IInv, NEW o \in OrderIds, NEW a, Amend(o, a) PROVE OwnersKept
  <1>1. TypeOK /\ orders[o] \in OrderType
    BY DEF IInv, TypeOK
  <1> DEFINE ord == Revised(orders[o], a)
  <1>2. \/ orders' = [orders EXCEPT ![o] = ord]
        \/ orders' = [orders EXCEPT ![o] = [ord EXCEPT !.status = "REJECTED"]]
        \/ orders' = [orders EXCEPT ![o] = Rested(ord)]
        \/ orders' = [orders EXCEPT ![o] = CancelOrder(ord)]
    BY DEF Amend, Submit, SubmitRejected, SubmitAccumulated, SubmitBlocked,
           SubmitMatching, Settle
  <1>3. /\ ord.session = orders[o].session
        /\ [ord EXCEPT !.status = "REJECTED"].session = orders[o].session
        /\ Rested(ord).session = orders[o].session
        /\ CancelOrder(ord).session = orders[o].session
    BY <1>1 DEF Revised, Rested, CancelOrder, OrderType
  <1> HIDE DEF ord
  <1> QED
    BY <1>1, <1>2, <1>3, ExceptOwners

\* What a step may do to the registry: nothing, register an accepted new order, or
\* give an order of a client the identifier of the client's request.
RegistryNext ==
    \/ OwnersKept /\ nextId' = nextId /\ UNCHANGED registryVars
    \/ \E key \in Sessions, name \in Names : \E r : NewAccepted(key, name, r)
    \/ /\ OwnersKept /\ nextId' = nextId
       /\ \E key \in Clients, name, orig \in Names, o \in OrderIds :
             Resolved(key, name, orig, o) /\ Bind(o, key, name)

\* Order entry steps the market, or leaves it alone; only an accepted new order
\* gives an order an owner.
LEMMA EntryStepsTheMarket ==
    ASSUME IInv, [EntryNext]_allVars
    PROVE  [Next]_vars /\ RegistryNext
  <1> DEFINE Silent == OwnersKept /\ nextId' = nextId /\ UNCHANGED registryVars
             Accepted == \E key \in Sessions, name \in Names, r \in Requests :
                            NewAccepted(key, name, r)
             Renamed == OwnersKept /\ nextId' = nextId
                        /\ \E key \in Clients, name, orig \in Names, o \in OrderIds :
                              Resolved(key, name, orig, o) /\ Bind(o, key, name)
             Goal == [Next]_vars /\ (Silent \/ Accepted \/ Renamed)
  <1>t. TypeOK
    BY DEF IInv
  <1>1. ASSUME UNCHANGED << vars, registryVars >> PROVE Goal
    BY <1>1 DEF vars, bookVars, OwnersKept
  <1>2. ASSUME NEW o \in OrderIds, Cancel(o) PROVE OwnersKept /\ nextId' = nextId
    BY <1>2, <1>t, CancelledOwners DEF Cancel
  <1>3. ASSUME RequestStep PROVE Goal
    <2>1. ASSUME NEW key \in Sessions, NEW name \in Names, NewStep(key, name)
          PROVE  Goal
      <3>1. CASE \E r \in Requests : NewAccepted(key, name, r)
        BY <3>1 DEF NewAccepted, Next, ClientStep
      <3>2. CASE NewDuplicate(key, name) \/ NewForcedReject(key, name)
                 \/ NewInvalid(key, name)
        BY <1>1, <3>2 DEF NewDuplicate, NewForcedReject, NewInvalid, Answer
      <3> QED
        BY <2>1, <3>1, <3>2 DEF NewStep
    <2>2. ASSUME NEW key \in Clients, NEW name \in Names, NEW orig \in Names,
                 ChangeStep(key, name, orig)
          PROVE  Goal
      <3>1. CASE Unresolved(key, name, orig)
        BY <1>1, <3>1 DEF Unresolved, Answer
      <3>2. ASSUME NEW o \in OrderIds, CancelOrderRequest(key, name, orig, o)
            PROVE  Goal
        <4>1. Cancel(o) /\ Resolved(key, name, orig, o) /\ Bind(o, key, name)
          BY <3>2 DEF CancelOrderRequest
        <4> QED
          BY <4>1, <1>2 DEF Next, ClientStep
      <3>3. ASSUME NEW o \in OrderIds, NEW a \in Amendments,
                   ReplaceOrder(key, name, orig, o, a)
            PROVE  Goal
        <4>1. Amend(o, a) /\ Resolved(key, name, orig, o) /\ Bind(o, key, name)
          BY <3>3 DEF ReplaceOrder
        <4>2. OwnersKept /\ nextId' = nextId
          BY <4>1, AmendOwners DEF Amend
        <4> QED
          BY <4>1, <4>2 DEF Next, ClientStep
      <3> QED
        BY <2>2, <3>1, <3>2, <3>3 DEF ChangeStep
    <2>3. ASSUME NEW keys \in CancelScopes, NEW from, CancelMany(keys, from)
          PROVE  Goal
      <3>1. CancelAll(keys) /\ UNCHANGED registryVars
        BY <2>3 DEF CancelMany
      <3>2. OwnersKept /\ nextId' = nextId
        BY <3>1, <1>t, CancelledOwners DEF CancelAll
      <3> QED
        BY <3>1, <3>2 DEF Next, ClientStep
    <2>4. ASSUME NEW o \in OrderIds, AdminCancel(o) PROVE Goal
      <3>1. Cancel(o) /\ UNCHANGED registryVars
        BY <2>4 DEF AdminCancel
      <3> QED
        BY <3>1, <1>2 DEF Next, ClientStep
    <2>5. /\ \A key \in Clients : {key} \in CancelScopes
          /\ {{key} : key \in Clients} \cup {Sessions} \subseteq CancelScopes
      BY ClientsAssumption DEF CancelScopes
    <2> HIDE DEF Goal
    <2> QED
      BY <1>3, <2>1, <2>2, <2>3, <2>4, <2>5 DEF RequestStep
  <1>4. ASSUME CommandStep PROVE Goal
    <2>1. ASSUME NEW s \in Phases, SetState(s) PROVE Goal
      <3>1. /\ SetMarketState(s) \/ SetInstrumentState(s)
            /\ UNCHANGED registryVars
        BY <2>1 DEF SetState
      <3>2. (orders' = orders \/ orders' = Cancelled(OnBook)) /\ nextId' = nextId
        BY <3>1 DEF SetMarketState, SetInstrumentState, Command, ExpireOrders
      <3>3. OwnersKept
        BY <1>t, <3>2, CancelledOwners DEF OwnersKept
      <3> QED
        BY <3>1, <3>2, <3>3 DEF Next, OperatorStep
    <2>2. CASE SilentCommand
      <3>1. /\ ClearInstrumentState \/ \E m \in StpChoices : SetStpMode(m)
            /\ UNCHANGED registryVars
        BY <2>2 DEF SilentCommand, entryVars
      <3>2. orders' = orders /\ nextId' = nextId
        BY <3>1 DEF ClearInstrumentState, SetStpMode, Command
      <3> QED
        BY <3>1, <3>2 DEF Next, OperatorStep, OwnersKept
    <2>3. CASE ClearBehaviour \/ \E rule \in RuleChoices : SetBehaviour(rule)
      BY <1>1, <2>3 DEF ClearBehaviour, SetBehaviour
    <2> HIDE DEF Goal
    <2> QED
      BY <1>4, <2>1, <2>2, <2>3 DEF CommandStep
  <1>5. ASSUME EntryMatchStep PROVE Goal
    <2>1. MatchStep /\ UNCHANGED registryVars
      BY <1>5 DEF EntryMatchStep, MatchStep, Loop
    <2>2. OwnersKept
      BY <2>1, MatchOwners
    <2>3. nextId' = nextId
      BY <2>1 DEF MatchStep, MatchDone, MatchExecute, StpCancelNewest,
                  StpCancelOldest, StpDecrement, SelfMatch
    <2> QED
      BY <2>1, <2>2, <2>3 DEF Next
  <1>6. ASSUME Emit \/ ReleaseStep \/ UNCHANGED allVars PROVE Goal
    BY <1>1, <1>6 DEF Emit, EmitAs, ReleaseStep, Release, allVars, entryVars
  <1> HIDE DEF Goal
  <1>7. Goal
    BY <1>3, <1>4, <1>5, <1>6 DEF EntryNext
  <1>8. Accepted => RegistryNext
    <2> SUFFICES ASSUME NEW key \in Sessions, NEW name \in Names, NEW r \in Requests,
                        NewAccepted(key, name, r)
                 PROVE  RegistryNext
      OBVIOUS
    <2> QED
      BY DEF RegistryNext
  <1>9. Silent \/ Renamed => RegistryNext
    BY DEF RegistryNext
  <1> HIDE DEF Silent, Accepted, Renamed
  <1>10. [Next]_vars /\ (Silent \/ Accepted \/ Renamed)
    BY <1>7 DEF Goal
  <1> QED
    BY <1>8, <1>9, <1>10

----------------------------------------------------------------------------
(* The registry.  An id that has not been issued has no chain and no owner, *)
(* so that a new order's first identifier meets nothing of an older one.    *)

ChainsInv == \A o \in OrderIds : o >= nextId => chain[o] = << >>

RegistryInv ==
    /\ chain \in [OrderIds -> Seq(Names)]
    /\ index \in [Sessions \X Names -> OrderIds \cup {NoOrder}]
    /\ IndexIsTheInverseOfTheChains
    /\ ChainsInv

Permanent == \A k \in Sessions \X Names : index[k] # NoOrder => index'[k] = index[k]

\* Binding a fresh identifier to a new order, or to an order of the same session,
\* keeps the index and the chains inverse to each other and moves no binding.
LEMMA BindInv ==
    ASSUME RegistryInv, MaxOrders \in Nat, nextId \in Nat, nextId' \in Nat,
           NEW key \in Sessions, NEW name \in Names, NEW o \in OrderIds,
           index[<<key, name>>] = NoOrder,
           Bind(o, key, name),
           orders'[o].session = key,
           \A q \in OrderIds \ {o} : orders'[q].session = orders[q].session,
           chain[o] = << >> \/ orders[o].session = key,
           nextId <= nextId', o < nextId'
    PROVE  RegistryInv' /\ Permanent
  <1>1. /\ chain \in [OrderIds -> Seq(Names)] /\ chain[o] \in Seq(Names)
        /\ index \in [Sessions \X Names -> OrderIds \cup {NoOrder}]
        /\ IndexIsTheInverseOfTheChains /\ ChainsInv
    BY DEF RegistryInv
  <1>2. /\ chain' = [chain EXCEPT ![o] = Append(chain[o], name)]
        /\ index' = [index EXCEPT ![<<key, name>>] = o]
    BY DEF Bind
  <1>3. o # NoOrder /\ <<key, name>> \in Sessions \X Names
    BY DEF OrderIds, NoOrder
  <1>4. chain' \in [OrderIds -> Seq(Names)]
    BY <1>1, <1>2, AppendFacts
  <1>5. index' \in [Sessions \X Names -> OrderIds \cup {NoOrder}]
    BY <1>1, <1>2, <1>3
  <1>6. name \notin Range(chain[o])
    BY <1>1, <1>3, EmptyChain DEF IndexIsTheInverseOfTheChains
  <1>7. \A q \in OrderIds : IsInjective(chain'[q])
    <2>1. IsInjective(chain'[o])
      BY <1>1, <1>2, <1>6, AppendFacts DEF IndexIsTheInverseOfTheChains
    <2> QED
      BY <1>1, <1>2, <2>1 DEF IndexIsTheInverseOfTheChains
  <1>8. ASSUME NEW k \in Sessions, NEW n \in Names, NEW q \in OrderIds
        PROVE  index'[<<k, n>>] = q <=> /\ orders'[q].session = k
                                        /\ n \in Range(chain'[q])
    <2>1. index[<<k, n>>] = q <=> orders[q].session = k /\ n \in Range(chain[q])
      BY <1>1 DEF IndexIsTheInverseOfTheChains
    <2>2. CASE q # o
      <3>1. chain'[q] = chain[q] /\ orders'[q].session = orders[q].session
        BY <1>1, <1>2, <2>2
      <3>2. index'[<<k, n>>] = q <=> index[<<k, n>>] = q
        <4>1. CASE <<k, n>> = <<key, name>>
          BY <1>1, <1>2, <1>3, <2>2, <4>1 DEF OrderIds, NoOrder
        <4>2. CASE <<k, n>> # <<key, name>>
          BY <1>1, <1>2, <4>2
        <4> QED
          BY <4>1, <4>2
      <3> QED
        BY <2>1, <3>1, <3>2
    <2>3. CASE q = o
      <3>1. Range(chain'[o]) = Range(chain[o]) \cup {name}
        BY <1>1, <1>2, AppendFacts
      <3>2. CASE k = key /\ n = name
        BY <1>1, <1>2, <1>3, <2>3, <3>1, <3>2
      <3>3. CASE ~(k = key /\ n = name)
        <4>1. index'[<<k, n>>] = index[<<k, n>>]
          BY <1>1, <1>2, <3>3
        <4>2. k = key => n # name
          BY <3>3
        <4>3. CASE chain[o] = << >>
          BY <2>1, <2>3, <3>1, <4>1, <4>2, <4>3, EmptyChain
        <4>4. CASE orders[o].session = key
          BY <2>1, <2>3, <3>1, <4>1, <4>2, <4>4
        <4> QED
          BY <4>3, <4>4
      <3> QED
        BY <3>2, <3>3
    <2> QED
      BY <2>2, <2>3
  <1>9. ChainsInv'
    <2>1. ASSUME NEW q \in OrderIds, q >= nextId' PROVE chain'[q] = << >>
      <3>1. q # o /\ q >= nextId
        BY <2>1 DEF OrderIds
      <3> QED
        BY <1>1, <1>2, <3>1 DEF ChainsInv
    <2> QED
      BY <2>1 DEF ChainsInv
  <1>10. Permanent
    BY <1>1, <1>2 DEF Permanent
  <1>11. IndexIsTheInverseOfTheChains'
    BY <1>7, <1>8 DEF IndexIsTheInverseOfTheChains
  <1> QED
    BY <1>4, <1>5, <1>9, <1>10, <1>11 DEF RegistryInv

\* These steps keep the registry consistent and its bindings.
LEMMA RegistryStep ==
    ASSUME IInv, RegistryInv, RegistryNext
    PROVE  RegistryInv' /\ Permanent
  <1>1. /\ MaxOrders \in Nat /\ nextId \in Nat /\ nextId \in 1..(MaxOrders + 1)
    BY MaxOrdersAssumption DEF IInv, TypeOK
  <1>2. CASE OwnersKept /\ nextId' = nextId /\ UNCHANGED registryVars
    <2>1. chain' = chain /\ index' = index
      BY <1>2 DEF registryVars
    <2>2. IndexIsTheInverseOfTheChains'
      BY <1>2, <2>1 DEF RegistryInv, IndexIsTheInverseOfTheChains, OwnersKept
    <2>3. ChainsInv'
      BY <1>2, <2>1 DEF RegistryInv, ChainsInv
    <2> QED
      BY <2>1, <2>2, <2>3 DEF RegistryInv, Permanent
  <1>3. ASSUME NEW key \in Sessions, NEW name \in Names, NEW r,
               NewAccepted(key, name, r)
        PROVE  RegistryInv' /\ Permanent
    <2>1. /\ NewOrder(r) /\ r.session = key
          /\ index[<<key, name>>] = NoOrder /\ Bind(nextId, key, name)
      BY <1>3 DEF NewAccepted, IsDuplicate
    <2>2. nextId \in OrderIds /\ nextId' = nextId + 1
      BY <1>1, <2>1 DEF NewOrder, OrderIds
    <2> DEFINE ord == BuildOrder(r)
    <2>3. \/ orders' = [orders EXCEPT ![nextId] = ord]
          \/ orders' = [orders EXCEPT ![nextId] = [ord EXCEPT !.status = "REJECTED"]]
          \/ orders' = [orders EXCEPT ![nextId] = Rested(ord)]
          \/ orders' = [orders EXCEPT ![nextId] = CancelOrder(ord)]
      BY <2>1 DEF NewOrder, Submit, SubmitRejected, SubmitAccumulated,
                  SubmitBlocked, SubmitMatching, Settle
    <2>4. /\ ord.session = key /\ [ord EXCEPT !.status = "REJECTED"].session = key
          /\ Rested(ord).session = key /\ CancelOrder(ord).session = key
      BY <2>1 DEF BuildOrder, Rested, CancelOrder
    <2> HIDE DEF ord
    <2>5. /\ orders'[nextId].session = key
          /\ \A q \in OrderIds \ {nextId} : orders'[q].session = orders[q].session
      BY <2>2, <2>3, <2>4 DEF IInv, TypeOK
    <2>6. chain[nextId] = << >>
      BY <1>1, <2>2 DEF RegistryInv, ChainsInv
    <2>7. nextId' \in Nat /\ nextId <= nextId' /\ nextId < nextId'
      BY <1>1, <2>2
    <2> QED
      BY <1>1, <2>1, <2>2, <2>5, <2>6, <2>7, BindInv
  <1>4. ASSUME OwnersKept, nextId' = nextId, NEW key \in Clients,
               NEW name \in Names, NEW orig \in Names, NEW o \in OrderIds,
               Resolved(key, name, orig, o), Bind(o, key, name)
        PROVE  RegistryInv' /\ Permanent
    <2>1. key \in Sessions /\ o # NoOrder
      BY ClientsAssumption DEF OrderIds, NoOrder
    <2>2. index[<<key, name>>] = NoOrder /\ index[<<key, orig>>] = o
      BY <1>4, <2>1 DEF Resolved, IsDuplicate, Resolve
    <2>3. orders[o].session = key /\ chain[o] # << >>
      BY <2>1, <2>2, EmptyChain DEF RegistryInv, IndexIsTheInverseOfTheChains
    <2>4. o < nextId
      BY <1>1, <2>3 DEF RegistryInv, ChainsInv, OrderIds
    <2> QED
      BY <1>1, <1>4, <2>1, <2>2, <2>3, <2>4, BindInv DEF OwnersKept
  <1>5. CASE \E key \in Sessions, name \in Names : \E r : NewAccepted(key, name, r)
    BY <1>3, <1>5
  <1> QED
    BY <1>2, <1>4, <1>5 DEF RegistryNext

\* The registry is consistent before the first request.
LEMMA RegistryInit == EntryInit => IInv /\ RegistryInv
  <1> SUFFICES ASSUME EntryInit PROVE IInv /\ RegistryInv
    OBVIOUS
  <1>1. IInv
    BY InitInv DEF EntryInit
  <1>2. /\ chain = [o \in OrderIds |-> << >>]
        /\ index = [k \in Sessions \X Names |-> NoOrder]
        /\ orders = [o \in OrderIds |-> Blank]
    BY DEF EntryInit, Init
  <1>3. chain \in [OrderIds -> Seq(Names)]
    BY <1>2
  <1>4. IndexIsTheInverseOfTheChains
    BY <1>2, EmptyChain DEF IndexIsTheInverseOfTheChains, OrderIds, NoOrder
  <1> QED
    BY <1>1, <1>2, <1>3, <1>4 DEF RegistryInv, ChainsInv

\* The invariant of the market and the one of the registry hold together.
THEOREM EntryInvariance == EntrySpec => [](IInv /\ RegistryInv)
  <1>1. IInv /\ RegistryInv /\ [EntryNext]_allVars => (IInv /\ RegistryInv)'
    BY RegistryStep, EntryStepsTheMarket, NextInv
  <1> QED
    BY <1>1, RegistryInit, PTL DEF EntrySpec

\* For any number of sessions, identifiers and orders, an identifier is bound to
\* exactly the order whose chain holds it, whatever was replaced, cancelled,
\* rejected or injected before (OrderRegistry).
THEOREM RegistryCorrect == EntrySpec => []IndexIsTheInverseOfTheChains
  <1>1. RegistryInv => IndexIsTheInverseOfTheChains
    BY DEF RegistryInv
  <1> QED
    BY <1>1, EntryInvariance, PTL

\* An identifier never moves to another order, so that a late or repeated request
\* under it reaches the order it was meant for, or none.
THEOREM IdentifiersPermanent == EntrySpec => BindingsArePermanent
  <1>1. IInv /\ RegistryInv /\ [EntryNext]_allVars => [Permanent]_allVars
    BY RegistryStep, EntryStepsTheMarket
  <1> QED
    BY <1>1, EntryInvariance, PTL DEF EntrySpec, BindingsArePermanent, Permanent

\* Order entry uses the market as Market specifies it: every request, command and
\* emission is a step of Market or leaves it alone, so that its safety
\* properties hold of the whole venue.
THEOREM EntryImplementsMarket == EntrySpec => Init /\ [][Next]_vars
  <1>1. EntryInit => Init
    BY DEF EntryInit
  <1>2. IInv /\ [EntryNext]_allVars => [Next]_vars
    BY EntryStepsTheMarket
  <1> QED
    BY <1>1, <1>2, EntryInvariance, PTL DEF EntrySpec

=============================================================================
