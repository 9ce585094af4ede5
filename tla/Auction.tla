------------------------------ MODULE Auction ------------------------------
(***************************************************************************)
(* The price rule chain of a call auction: exchangesim/core/auction.py.    *)
(*                                                                         *)
(* A row says what would happen if the auction were held at one candidate  *)
(* price: [price, volume, imbalance], with the imbalance signed (positive  *)
(* means a buy surplus).  A venue names the tie-breaks it applies, and in  *)
(* which order: STANDARD_RULES is HKEX's chain, PREOPEN_RULES is NSE's,    *)
(* which never resolves in the direction of the surplus.                   *)
(***************************************************************************)
EXTENDS Integers, Sequences, FiniteSetsExt

STANDARD_RULES == << "MAX_VOLUME", "LOWEST_IMBALANCE", "SURPLUS_DIRECTION",
                     "CLOSEST_TO_REFERENCE", "HIGHER_PRICE" >>

PREOPEN_RULES == << "MAX_VOLUME", "LOWEST_IMBALANCE",
                    "CLOSEST_TO_REFERENCE", "HIGHER_PRICE" >>

RuleNames == {"MAX_VOLUME", "LOWEST_IMBALANCE", "SURPLUS_DIRECTION",
              "CLOSEST_TO_REFERENCE", "HIGHER_PRICE"}

Abs(n) == IF n < 0 THEN -n ELSE n

HighestPriced(rows) == {r \in rows : r.price = Max({q.price : q \in rows})}
LowestPriced(rows)  == {r \in rows : r.price = Min({q.price : q \in rows})}

\* The rows that survive one tie-break.  ref = 0 is the absent reference price.
ApplyRule(rule, rows, ref) ==
    CASE rule = "MAX_VOLUME" ->
            {r \in rows : r.volume = Max({q.volume : q \in rows})}
      [] rule = "LOWEST_IMBALANCE" ->
            {r \in rows : Abs(r.imbalance) = Min({Abs(q.imbalance) : q \in rows})}
      [] rule = "SURPLUS_DIRECTION" ->
            IF \A r \in rows : r.imbalance > 0 THEN HighestPriced(rows)
            ELSE IF \A r \in rows : r.imbalance < 0 THEN LowestPriced(rows)
            ELSE rows
      [] rule = "CLOSEST_TO_REFERENCE" ->
            IF ref = 0 THEN rows
            ELSE {r \in rows : Abs(r.price - ref)
                                 = Min({Abs(q.price - ref) : q \in rows})}
      [] rule = "HIGHER_PRICE" -> HighestPriced(rows)

\* The chain in order.  Every rule maps a single row to itself, so going on
\* after one row is left (where the code breaks out of its loop) changes nothing.
Survivors(rows, rules, ref) ==
    LET after[i \in 0..Len(rules)] ==
            IF i = 0 THEN rows ELSE ApplyRule(rules[i], after[i - 1], ref)
    IN  after[Len(rules)]

\* The auction's row; the code takes the first of an ascending list.
AuctionRow(rows, rules, ref) ==
    CHOOSE r \in LowestPriced(Survivors(rows, rules, ref)) : TRUE

=============================================================================
