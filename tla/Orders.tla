------------------------------- MODULE Orders -------------------------------
(***************************************************************************)
(* One order and its running execution state: exchangesim/core/orders.py   *)
(* (class Order) with the enumerations of exchangesim/core/enums.py.       *)
(*                                                                         *)
(* An order is a record.  The fields kept are the ones matching, self-trade*)
(* prevention, auctions and the lifecycle read; client references, margin  *)
(* flags, accounts and timestamps only travel into reports and are left    *)
(* out.  The three selling sides of enums.Side behave alike on a book and  *)
(* are the single value "SELL".  Prices are positive integer price units;  *)
(* NoPrice stands for Python's None, the price of a market order, or of an *)
(* at-auction order while accumulating.  order_type and price are separate:*)
(* a MARKET order may carry a price, or be given one by an amendment.      *)
(***************************************************************************)
EXTENDS Integers

Sides == {"BUY", "SELL"}

NoPrice == 0

OrderTypes == {"LIMIT", "MARKET"}

TimesInForce == {"DAY", "IOC", "FOK"}
IMMEDIATE    == {"IOC", "FOK"}

\* The statuses the engine ever assigns; the pending ones, REPLACED and EXPIRED
\* exist only for the venues' report tables.
LIVE     == {"NEW", "PARTIALLY_FILLED"}
TERMINAL == {"FILLED", "CANCELLED", "REJECTED"}
Statuses == LIVE \cup TERMINAL

StpModes == {"NONE", "CANCEL_NEWEST", "CANCEL_OLDEST", "DECREMENT"}

\* Python's None for mpid, stp_id and stp_instruction.
NoKey == "NO_KEY"

\* An order slot nobody has used yet.
Unborn == "UNBORN"

----------------------------------------------------------------------------
(* Derived state *)

Opposite(side) == IF side = "BUY" THEN "SELL" ELSE "BUY"

LeavesQty(ord) ==
    IF ord.status \in TERMINAL \/ ord.cum >= ord.qty THEN 0
    ELSE ord.qty - ord.cum

IsLive(ord) == ord.status \in LIVE /\ LeavesQty(ord) > 0

IsImmediate(ord) == ord.tif \in IMMEDIATE

IsPriceless(ord) == ord.price = NoPrice

Lesser(a, b) == IF a <= b THEN a ELSE b

Greater(a, b) == IF a >= b THEN a ELSE b

----------------------------------------------------------------------------
(* Mutation: each operator returns the order after the call *)

\* Mutant: the last fill does not finish the order.
ApplyFillNeverDone(ord, quantity, price) ==
    [ord EXCEPT !.cum      = ord.cum + quantity,
                !.notional = ord.notional + price * quantity,
                !.status   = "PARTIALLY_FILLED"]

ApplyFill(ord, quantity, price) ==
    LET cum == ord.cum + quantity
    IN  [ord EXCEPT !.cum      = cum,
                    !.notional = ord.notional + price * quantity,
                    !.status   = IF cum >= ord.qty THEN "FILLED"
                                 ELSE "PARTIALLY_FILLED"]

CancelOrder(ord) ==
    IF ord.status \in TERMINAL THEN ord
    ELSE [ord EXCEPT !.status = "CANCELLED"]

\* Self-trade prevention's Decrement: the order shrinks, and is finished when
\* nothing is left open.
ReduceQuantity(ord, by) ==
    LET reduced == [ord EXCEPT !.qty = Greater(ord.cum, ord.qty - by)]
    IN  IF LeavesQty(reduced) = 0 /\ reduced.status \notin TERMINAL
        THEN [reduced EXCEPT !.status = IF ord.cum > 0 THEN "FILLED"
                                        ELSE "CANCELLED"]
        ELSE reduced

=============================================================================
