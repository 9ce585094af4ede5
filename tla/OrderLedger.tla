---------------------------- MODULE OrderLedger ----------------------------
(***************************************************************************)
(* What a client may conclude from the reports of a market, with no book,  *)
(* no priority and no phases: an order is opened, traded against one       *)
(* counterparty at a time, revised, reduced against an order it must not   *)
(* trade with, or closed, and a closed order never moves again.            *)
(*                                                                         *)
(* The events are those of exchangesim/core/events.py; Market is shown to  *)
(* implement this specification.                                           *)
(***************************************************************************)
EXTENDS Orders

CONSTANT Ids

VARIABLE ledger

OnlyChanges(S) == \A o \in Ids \ S : ledger'[o] = ledger[o]

\* The fields no request ever changes.
SameOrder(o) ==
    /\ ledger'[o].side = ledger[o].side
    /\ ledger'[o].cum = ledger[o].cum
    /\ ledger'[o].notional = ledger[o].notional

\* OrderAccepted; an order may also be dead on arrival (OrderRejected,
\* OrderCancelled).
Open(o) ==
    /\ ledger[o].status = Unborn
    /\ ledger'[o].status \in {"NEW", "CANCELLED", "REJECTED"}
    /\ ledger'[o].cum = 0
    /\ ledger'[o].notional = 0
    /\ ledger'[o].qty > 0
    /\ OnlyChanges({o})

\* TradeExecuted and its two OrderFilled: one quantity and one amount of money,
\* on both sides, inside both limits.
Trade(b, s) ==
    LET quantity == ledger'[b].cum - ledger[b].cum
        money    == ledger'[b].notional - ledger[b].notional
        Filled(o) ==
            /\ IsLive(ledger[o])
            /\ quantity <= LeavesQty(ledger[o])
            /\ ledger'[o] =
                 [ledger[o] EXCEPT
                     !.cum      = ledger[o].cum + quantity,
                     !.notional = ledger[o].notional + money,
                     !.status   = IF ledger[o].cum + quantity = ledger[o].qty
                                  THEN "FILLED" ELSE "PARTIALLY_FILLED"]
    IN  /\ ledger[b].side = "BUY"
        /\ ledger[s].side = "SELL"
        /\ quantity > 0
        /\ Filled(b)
        /\ Filled(s)
        /\ ~IsPriceless(ledger[b]) => money <= ledger[b].price * quantity
        /\ ~IsPriceless(ledger[s]) => money >= ledger[s].price * quantity
        /\ OnlyChanges({b, s})

\* OrderReplaced, possibly followed at once by the end of the order.
Revise(o) ==
    /\ IsLive(ledger[o])
    /\ SameOrder(o)
    /\ ledger'[o].qty > ledger[o].cum
    /\ ledger'[o].status \in {ledger[o].status, "CANCELLED", "REJECTED"}
    /\ OnlyChanges({o})

\* OrderDecremented: the smaller order is cancelled, the larger loses as much.
Decrement(small, large) ==
    /\ IsLive(ledger[small])
    /\ IsLive(ledger[large])
    /\ ledger[small].side # ledger[large].side
    /\ LeavesQty(ledger[small]) < LeavesQty(ledger[large])
    /\ ledger'[small] = CancelOrder(ledger[small])
    /\ ledger'[large] =
         [ledger[large] EXCEPT !.qty = @ - LeavesQty(ledger[small])]
    /\ OnlyChanges({small, large})

\* OrderCancelled for any number of live orders.
Close ==
    \A o \in Ids :
        \/ ledger'[o] = ledger[o]
        \/ IsLive(ledger[o]) /\ ledger'[o] = CancelOrder(ledger[o])

LedgerInit == \A o \in Ids : ledger[o].status = Unborn

LedgerNext ==
    \/ \E o \in Ids : Open(o) \/ Revise(o)
    \/ \E b, s \in Ids : Trade(b, s) \/ Decrement(b, s)
    \/ Close

LedgerSpec == LedgerInit /\ [][LedgerNext]_ledger

=============================================================================
