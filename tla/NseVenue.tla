------------------------------ MODULE NseVenue ------------------------------
(***************************************************************************)
(* The NSE Capital Market venue: venues/nse/{venue,auctions,rules,         *)
(* commands}.py around NnfApplication.                                     *)
(*                                                                         *)
(* set_trading_state, unlike the other venues', reports nothing of what a  *)
(* closed phase expires.                                                   *)
(***************************************************************************)
EXTENDS NnfApplication

CONSTANTS
    BandPercent,        \* the security's circuit filter
    BasePrices          \* the base prices reference data may give

PERMITTED_BANDS == {2, 5, 10, 20}

\* What _build_market and the reference data insist on.
ValidMarket == StpChoices = {"NONE"} /\ BandPercent \in PERMITTED_BANDS

ASSUME NseAssumption == ValidMarket /\ BasePrices \subseteq Nat \ {NoPrice}

VARIABLES locked,    \* PreOpenSession.locked
          tradable,  \* Instrument.tradable
          base       \* Instrument.base_price

venueVars == << locked, tradable, base >>
nseAll    == << appVars, venueVars >>

----------------------------------------------------------------------------
(* rules.py *)

LimitsFor ==
    LET band == (base * BandPercent) \div 100
    IN  << Greater(1, base - band), base + band >>

WithinBand(price) ==
    price # NoPrice => LimitsFor[1] <= price /\ price <= LimitsFor[2]

\* default_limits: no fill-or-kill, and no more than the three checks that
\* depend on state.
Validates(tif, price) ==
    tradable /\ AllowsEntry /\ tif \in {"DAY", "IOC"} /\ WithinBand(price)

ValidAmend(o, a) ==
    /\ Validates("DAY", Revised(orders[o], a).price)
    /\ Revised(orders[o], a).qty > orders[o].cum

----------------------------------------------------------------------------
(* venue.py, auctions.py and commands.py *)

\* set_trading_state.  What a closed phase expires is not reported.
SetTradingState(s) ==
    /\ Ready
    /\ SetMarketState(s)
    /\ locked' = IF s = "PRE_OPEN" THEN FALSE ELSE locked
    /\ Operator
    /\ UNCHANGED << events, origin, requests, tradable, base >>

SetSymbolState(s) ==
    /\ Ready
    /\ SetInstrumentState(s)
    /\ Operator
    /\ UNCHANGED << events, origin, requests, venueVars >>

\* Leaving the pre-open for OPEN uncrosses it, around the previous close.
StartPreOpenUncross(s) ==
    /\ Ready
    /\ LeavingAuction(s)
    /\ StartUncrossAt(s, base)
    /\ Operator
    /\ origin' = NoKey
    /\ UNCHANGED << events, requests, venueVars >>

PreOpenAuction ==
    /\ \/ /\ \E b, s \in OrderIds : /\ AuctionTrade(b, s)
                                    /\ events' = events \o << FillEvent(b), FillEvent(s) >>
          /\ UNCHANGED locked
       \/ /\ FinishUncross
          /\ \E q \in BookSequences({o \in OnBook : orders'[o] # orders[o]}) :
                events' = events \o [i \in DOMAIN q |-> Event("CANCELLED", q[i])]
          /\ locked' = FALSE
    /\ Operator
    /\ UNCHANGED << origin, requests, tradable, base >>

\* preopen.lock.
PreOpenLock ==
    /\ Ready
    /\ marketState = "PRE_OPEN"
    /\ Command
    /\ marketState' = "OPENING_AUCTION"
    /\ locked' = TRUE
    /\ Operator
    /\ UNCHANGED << orders, place, override, stpMode, taskVars, events, origin,
                    requests, tradable, base >>

\* reload_reference_data: listed, perhaps with another price, or only marked.
ReloadReferenceData ==
    /\ Ready
    /\ Command
    /\ \/ tradable' = TRUE /\ base' \in BasePrices
       \/ tradable' = FALSE /\ UNCHANGED base
    /\ Operator
    /\ UNCHANGED << orders, place, marketState, override, stpMode, taskVars, events,
                    origin, requests, locked >>

----------------------------------------------------------------------------

NseInit ==
    /\ AppInit
    /\ locked = FALSE
    /\ tradable = TRUE
    /\ base \in BasePrices

NseBoxStep(b) == BoxStep(b) /\ UNCHANGED venueVars

NseNewOrder(u, r) ==
    OnNewOrder(u, r, Validates(r.tif, r.price)) /\ UNCHANGED venueVars

NseChange(u, o) ==
    /\ OnCancel(u, o) \/ \E a \in Amendments : OnModify(u, o, a, ValidAmend(o, a))
    /\ UNCHANGED venueVars

NseUserStep(u) ==
    \/ \E r \in Requests : NseNewOrder(u, r)
    \/ \E o \in OrderIds : NseChange(u, o)
    \/ SessionStep(u) /\ UNCHANGED venueVars

\* order.new, order.cancel, orders.cancel_all and behaviour.set.
NseAdmin ==
    /\ \/ \E r \in Requests : OperatorOrder(r, Validates(r.tif, r.price))
       \/ \E o \in OnBook : OperatorCancel({o})
       \/ OperatorCancel(OnBook)
       \/ \E rule \in RuleChoices : AppSetBehaviour(rule)
    /\ UNCHANGED venueVars

NseOperatorStep ==
    \/ \E s \in Phases : SetTradingState(s) \/ SetSymbolState(s) \/ StartPreOpenUncross(s)
    \/ PreOpenLock
    \/ ReloadReferenceData
    \/ NseAdmin

NseEmit ==
    /\ task = "idle"
    /\ events # << >>
    /\ Deliver(Head(events), Head(events).order)
    /\ EmitStep(Head(events))
    /\ UNCHANGED venueVars

NseRelease == ReleaseHeld /\ UNCHANGED venueVars

Loops == (AppMatchStep /\ UNCHANGED venueVars) \/ PreOpenAuction \/ NseEmit

NsePasses == Passes /\ UNCHANGED venueVars

NseTicks == Ticks /\ UNCHANGED venueVars

NseNext ==
    \/ \E b \in Boxes : NseBoxStep(b)
    \/ \E u \in Users : NseUserStep(u)
    \/ NseOperatorStep
    \/ Loops
    \/ NseRelease
    \/ NsePasses
    \/ NseTicks

\* Handlers run to their end, time passes, and the acceptor's timer ticks.
NseFairness == WF_nseAll(Loops) /\ WF_nseAll(NsePasses) /\ WF_nseAll(NseTicks)

NseSpec == NseInit /\ [][NseNext]_nseAll /\ NseFairness

=============================================================================
