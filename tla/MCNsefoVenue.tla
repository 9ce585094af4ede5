---------------------------- MODULE MCNsefoVenue ----------------------------
(***************************************************************************)
(* One box with one user; the operator's orders stand for every other      *)
(* member's.  The file lists two futures, and may list an option.          *)
(***************************************************************************)
EXTENDS NsefoVenue

Ask(key, side, type, price, qty, tif) ==
    [side |-> side, type |-> type, price |-> price, qty |-> qty, tif |-> tif,
     minQty |-> 0, postOnly |-> FALSE, session |-> key, mpid |-> NoKey,
     stpId |-> NoKey, stpInst |-> NoKey]

\* A resting order and its counter order, at a difference and at a price: each is
\* outside the limits of the other instrument.
FoRequests ==
    {Ask("A", "BUY", "LIMIT", 2, 2, "DAY"), Ask("A", "BUY", "LIMIT", 20, 2, "DAY"),
     Ask("A", "SELL", "LIMIT", 2, 1, "IOC"), Ask("A", "SELL", "LIMIT", 20, 1, "IOC"),
     Ask("OPS", "SELL", "LIMIT", 2, 1, "DAY"), Ask("OPS", "SELL", "LIMIT", 20, 1, "DAY"),
     Ask("OPS", "SELL", "LIMIT", 2, 2, "DAY")}

FoChanges ==
    {[qty |-> 0, price |-> 1, tif |-> NoKey, minQty |-> Absent, exec |-> "KEEP"]}

FoContracts ==
    [near |-> [symbol |-> "N", future |-> TRUE, expiry |-> 1],
     far  |-> [symbol |-> "N", future |-> TRUE, expiry |-> 2],
     call |-> [symbol |-> "N", future |-> FALSE, expiry |-> 2]]

OneBox     == [u \in {"A"} |-> 1]
OneBroker  == [b \in {1} |-> {"M"}]
SameBroker == [u \in {"A"} |-> "M"]
OneRule    == {[action |-> "delay", count |-> 1, owner |-> "A", delay |-> 1]}

Before == nextId = 1 /\ requests = 0

Broken == \E b \in Boxes : member[b].broken

\* The member follows the box sequence; a connection breaks once there is an
\* order.
MCBoxStep(b) ==
    \/ ~Connected(b) /\ issued[b] = NoSecret /\ Ready /\ GrRequest(b) /\ Quiescent
    \/ OnRegistration(b)
    \/ box[b].state = "AWAITING_BOX_SIGN_ON" /\ OnBoxSignOn(b)
    \/ box[b].state = "ACTIVE" /\ \E u \in Users : OnSignOn(b, u)
    \/ ~Before /\ symbol = Spread /\ phases = 0 /\ Ready /\ ConnectionBreaks(b) /\ Quiescent
    \/ Broken /\ ConnectionClosed(b)

MCSessionStep(u) ==
    \/ ~Before /\ symbol = Spread /\ OnSignOff(u)
    \/ ~Before /\ OnDownloadRequest(u, Stream)

\* What is refused, and an immediate order, comes first.
MCRequestStep(u) ==
    \/ /\ Before
       /\ \/ \E r \in Requests : \/ OnSpreadOrder(u, Near, Far, r.qty, r)
                               \/ OnSpreadOrder(u, Far, Near, 0, r)
                               \/ OnBoardLot(u, Near, r)
                               \/ OnBoardLot(u, "call", r)
          \/ OnMultiLeg(u)
    \/ /\ nextId > 1
       /\ \/ \E r \in Requests : r.tif = "IOC" /\ OnSpreadOrder(u, Near, Far, 0, r)
          \/ IF symbol = Spread THEN OnSpreadCancel(u, 1) ELSE OnFoCancel(u, 1)
          \/ \E a \in Amendments : OnFoModify(u, 1, a)
    \/ /\ Before
       /\ \E a \in Amendments : OnSpreadModify(u, TRUE, 1, a)

\* The operator waits for the first sign-on and changes one thing: reference data
\* or the phase before the first order, the phase or the reports after it.
MCOperatorStep ==
    /\ last > 0
    /\ \/ Before /\ phases = 0 /\ (FoReload \/ \E s \in Phases : FoSetTradingState(s))
       \/ /\ nextId > 1
          /\ \/ FoAdmin
             \/ ruled = 0 /\ FoSetTradingState("CLOSED")
          /\ phases + ruled > 0 => ruled' = ruled
    /\ listed' \in {listed, Contracts, {Near, "call"}}

MCNext ==
    \/ \E b \in Boxes : MCBoxStep(b) /\ UNCHANGED foVars
    \/ \E u \in Users : (MCSessionStep(u) /\ UNCHANGED foVars) \/ MCRequestStep(u)
    \/ MCOperatorStep
    \/ FoLoops
    \/ FoRelease
    \/ Broken /\ FoPasses
    \/ FoTicks

\* The option is not listed at first.
MCInit == FoInit /\ known = {Near, Far}

MCSpec == MCInit /\ [][MCNext]_foAll /\ FoFairness

=============================================================================
