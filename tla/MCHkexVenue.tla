---------------------------- MODULE MCHkexVenue ----------------------------
(***************************************************************************)
(* Two clients, one of them on the binary encoding.  The nominal price is  *)
(* 20: POS admits 17..23, CAS 19..21 around it.                            *)
(***************************************************************************)
EXTENDS HkexVenue

Ask(key, side, type, price, qty, tif, id) ==
    [side |-> side, type |-> type, price |-> price, qty |-> qty, tif |-> tif,
     minQty |-> 0, postOnly |-> FALSE, session |-> key, mpid |-> key,
     stpId |-> id, stpInst |-> NoKey]

\* An aggressive and a passive order of each side, an at-auction order, an
\* immediate one and two that share a self-match key.
HkexRequests ==
    {Ask("A", "BUY", "LIMIT", 22, 2, "DAY", NoKey),
     Ask("A", "BUY", "LIMIT", 19, 1, "DAY", "g"),
     Ask("A", "SELL", "MARKET", NoPrice, 1, "DAY", NoKey),
     Ask("B", "SELL", "LIMIT", 18, 1, "DAY", "g"),
     Ask("B", "SELL", "LIMIT", 24, 1, "DAY", NoKey),
     Ask("B", "SELL", "LIMIT", 21, 1, "IOC", NoKey)}

\* A sell above the limits of the closing auction, two orders that cross inside
\* them, and an at-auction order that is larger than what they trade.
CarriedRequests ==
    {Ask("B", "SELL", "LIMIT", 24, 1, "DAY", NoKey),
     Ask("A", "BUY", "LIMIT", 20, 1, "DAY", NoKey),
     Ask("B", "SELL", "LIMIT", 19, 1, "DAY", NoKey),
     Ask("A", "BUY", "MARKET", NoPrice, 2, "DAY", NoKey)}

\* Orders that trade on entry, in part and fully, or expire.
InjectedRequests ==
    {Ask("A", "BUY", "LIMIT", 20, 2, "DAY", "g"),
     Ask("A", "BUY", "LIMIT", 20, 1, "IOC", NoKey),
     Ask("B", "SELL", "LIMIT", 20, 1, "DAY", "g")}

AllHkexRequests == HkexRequests \cup InjectedRequests

HkexChanges ==
    {[qty |-> 0, price |-> 24, tif |-> NoKey, minQty |-> Absent, exec |-> "KEEP"],
     [qty |-> 1, price |-> NoPrice, tif |-> "IOC", minQty |-> Absent, exec |-> "KEEP"]}

HkexSessions ==
    << [target |-> "A", protocol |-> "fix", brokers |-> 0, markets |-> {"MAIN"},
        cancelOnDisconnect |-> TRUE],
       [target |-> "B", protocol |-> "binary", brokers |-> 2, markets |-> {"MAIN"},
        cancelOnDisconnect |-> TRUE] >>

HkexMarkets ==
    {<< [name |-> "MAIN", state |-> s, stp |-> "NONE"] >> : s \in {"OPEN", "PRE_OPEN"}}

\* A client uses its names in turn.
NextName(key, name) ==
    name = "n" <=> (~IsDuplicate(key, "n") \/ (requests = 2 /\ phases = 0))

\* What changes reference data, the registry, the reference price or the
\* security's own phase happens once and early; a cancel or a replace is the last
\* request; what only sends a report comes at the very end.
Extra == \/ << segment, tradable, base >> # << HomeSegment, TRUE, 20 >>
         \/ smp["g"] # NoKey
         \/ override # NoOverride
         \/ session.ref \in References

\* A rule of each kind, for one client's orders or for everyone's.
HkexRules ==
    {[action |-> "drop", count |-> 1, owner |-> "A", delay |-> 0],
     [action |-> "reject", count |-> 1, owner |-> "B", delay |-> 0],
     [action |-> "delay", count |-> 0, owner |-> NoKey, delay |-> 1]}

\* A run explores behaviours with rules and without, side by side: those with rules
\* have orders that trade on entry in an open market, and little else.
VARIABLE injected

MCRequests == IF injected THEN Requests \cap InjectedRequests ELSE Requests \ InjectedRequests

LastPhase == IF injected THEN 0 ELSE MaxPhases

LastRequest == requests = MaxRequests - 1

MCRequest(key, name) ==
    \/ \E r \in MCRequests : OnNewOrder(key, name, r)
    \/ /\ LastRequest
       /\ \/ \E orig \in Names : OnCancel(key, name, orig) \/ OnReplace(key, name, orig)
          \/ \E sides \in {Sides, {"BUY"}} : OnMassCancel(key, name, sides)
    \/ /\ LastRequest
       /\ phases = LastPhase
       /\ \/ RefuseOrder(key, name)
          \/ OnEntitlementRequest(key, name)
          \/ \E orig \in Names : TooLate(key, name, orig)

MCOperatorStep ==
    /\ HkexOperator
    /\ IF injected
       THEN /\ UNCHANGED << phases, base, smp, session >>
            /\ requests > 0 => Len(behaviour') < Len(behaviour)
       ELSE behaviour' = behaviour

MCNext ==
    \/ \E key \in Clients, name \in Names :
          NextName(key, name) /\ MCRequest(key, name)
    \/ LastRequest /\ \E key \in Clients : OnLogout(key)
    \/ /\ MCOperatorStep
       /\ Extra \/ requests > 1 =>
             UNCHANGED << referenceVars, override, session.ref \in References >>
       /\ requests > 1 => Len(behaviour') <= Len(behaviour)
    \/ HkexMatchStep
    \/ HkexAuctionStep
    \/ HkexEmit
    \/ HkexRelease

MCInit ==
    /\ HkexInit
    /\ base = 20
    /\ injected \in {MaxRules > 0, FALSE}
    /\ injected => marketState = "OPEN"

MCSpec ==
    /\ MCInit
    /\ [][MCNext /\ UNCHANGED injected]_<< hkexAll, injected >>
    /\ WF_hkexAll(HkexMatchStep) /\ WF_hkexAll(HkexAuctionStep) /\ WF_hkexAll(HkexEmit)
    /\ WF_hkexAll(HkexRelease)

=============================================================================
