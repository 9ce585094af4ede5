----------------------------- MODULE HkexVenue -----------------------------
(***************************************************************************)
(* The HKEX venue: venues/hkex/{venue,handlers,rules,auctions,commands}.py *)
(* on top of the engine of OrderEntry.  It adds the Pre-opening and the    *)
(* Closing Auction Sessions with their two-stage price limits, the price   *)
(* rules of HkexValidator, reference data that is reloaded while orders    *)
(* rest, the registry of self-match instructions, mass cancellation, and   *)
(* acceptances that precede matching (AckOnEntry is TRUE at this venue).   *)
(*                                                                         *)
(* One security, and the market of the segment it starts on.  A tick is    *)
(* one price unit and lots are single shares; a security's segment lives   *)
(* in reference data, so a reload can move it to a segment that is not     *)
(* run.                                                                    *)
(***************************************************************************)
EXTENDS OrderEntry

CONSTANTS
    BasePrices,         \* the nominal prices reference data may give
    References,         \* the prices auction.reference is used with
    QuotationSpreads,   \* limits.quotation_spreads
    AggressionSpreads,  \* limits.aggression_spreads
    SessionEntries,     \* fix.sessions of the configuration
    MarketConfigs       \* the values of its markets the venue may start with

----------------------------------------------------------------------------
(* venue.py: what the configuration builds *)

SEGMENTS == {"MAIN", "GEM", "NASD", "ETS"}

\* check_trading_state: this venue runs every phase there is.
TRADING_STATES ==
    {"PRE_OPEN", "OPENING_AUCTION", "OPEN", "LUNCH_BREAK", "CLOSING_AUCTION", "CLOSED",
     "HALTED"}

\* _build_markets: a segment each for the entries, a later one of a name in place
\* of an earlier; without any, the segments the universe uses, closed.
ValidMarkets(entries) ==
    \A i \in DOMAIN entries : /\ entries[i].name \in SEGMENTS
                              /\ entries[i].state \in TRADING_STATES
                              /\ entries[i].stp \in StpModes

BuildMarkets(entries, present) ==
    IF entries = << >>
    THEN [name \in present |-> [name |-> name, state |-> "CLOSED", stp |-> "NONE"]]
    ELSE [name \in {entries[i].name : i \in DOMAIN entries} |->
             entries[Max({i \in DOMAIN entries : entries[i].name = name})]]

\* _build_fix: one session table for both encodings, so a Comp ID is registered
\* once, for one of them, and for segments that are run.
ValidSessions(entries, markets) ==
    /\ \A i, j \in DOMAIN entries : entries[i].target = entries[j].target => i = j
    /\ \A i \in DOMAIN entries : /\ entries[i].protocol \in {"fix", "binary"}
                                 /\ entries[i].brokers \in Nat
                                 /\ entries[i].markets \subseteq markets

Registered(key) ==
    SessionEntries[CHOOSE i \in DOMAIN SessionEntries : SessionEntries[i].target = key]

BinaryClients == {key \in Clients : Registered(key).protocol = "binary"}

\* The segment of the security when the venue starts.
HomeSegment == "MAIN"

ASSUME HkexAssumption ==
    /\ AckOnEntry /\ AuctionPhases = {}
    /\ BasePrices \subseteq Nat /\ References \subseteq Nat \ {NoPrice}
    /\ QuotationSpreads \in Nat /\ AggressionSpreads \in Nat
    /\ Clients = {SessionEntries[i].target : i \in DOMAIN SessionEntries}
    /\ MarketConfigs # {}
    /\ \A entries \in MarketConfigs :
          LET markets == DOMAIN BuildMarkets(entries, {HomeSegment})
          IN  /\ ValidMarkets(entries)
              /\ HomeSegment \in markets
              /\ ValidSessions(SessionEntries, markets)

VARIABLES session,    \* HkexVenue.auctions of the market, NoSession for none
          segment,    \* HkexVenue.segments of the security
          tradable,   \* Instrument.tradable
          base,       \* Instrument.base_price
          smp,        \* HkexVenue.smp_instructions, NoKey where unregistered
          lastPrice,  \* statistics.last_price
          band        \* history: the hull of the session's price limits, None
                      \* when they were overridden

referenceVars == << segment, tradable, base, smp >>
hkexVars      == << session, referenceVars, lastPrice, band >>
hkexAll       == << allVars, hkexVars >>

----------------------------------------------------------------------------
(* auctions.py *)

None == << >>

NoSession == [kind |-> "NONE", locked |-> FALSE, ref |-> NoPrice, pin |-> None]

KindOf(s) ==
    CASE s \in {"PRE_OPEN", "OPENING_AUCTION"} -> "POS"
      [] s = "CLOSING_AUCTION" -> "CAS"
      [] OTHER -> "NONE"

Percent(kind) == IF kind = "POS" THEN 15 ELSE 5

Stage1Limits(a) ==
    LET margin == (a.ref * Percent(a.kind)) \div 100
    IN  IF a.ref = NoPrice THEN None
        ELSE << Greater(1, a.ref - margin), a.ref + margin >>

LimitsFor(a) == IF a.locked /\ a.pin # None THEN a.pin ELSE Stage1Limits(a)

Permits(a, price) ==
    LET limits == LimitsFor(a)
    IN  price # NoPrice /\ limits # None =>
            limits[1] <= price /\ price <= limits[2]

BestPrice(side) == orders[CHOOSE o \in BestLevel(place, side) : TRUE].price

\* lock: the interval spanned by the best bid and the best ask, in either order,
\* and the stage 1 limits go on where one side is not quoted.
Pinned ==
    IF Priced(place, "BUY") = {} \/ Priced(place, "SELL") = {} THEN None
    ELSE << Lesser(BestPrice("BUY"), BestPrice("SELL")),
            Greater(BestPrice("BUY"), BestPrice("SELL")) >>

\* Mutant: only buyers are looked at.
CancelledOnOpeningBuys(a) ==
    {o \in OnBook : /\ orders[o].price # NoPrice
                    /\ LimitsFor(a) # None
                    /\ orders[o].side = "BUY"
                    /\ orders[o].price > LimitsFor(a)[2]}

\* carried_forward_verdict: an order that could trade through the band goes, a
\* passive one is carried in.
CancelledOnOpening(a) ==
    {o \in OnBook : /\ orders[o].price # NoPrice
                    /\ LimitsFor(a) # None
                    /\ IF orders[o].side = "BUY"
                       THEN orders[o].price > LimitsFor(a)[2]
                       ELSE orders[o].price < LimitsFor(a)[1]}

Hull(b, c) ==
    IF b = None \/ c = None THEN None
    ELSE << Lesser(b[1], c[1]), Greater(b[2], c[2]) >>

----------------------------------------------------------------------------
(* rules.py and core/validation.py *)

\* NineTimesRule: less than nine times the nominal price, more than a ninth.
NineTimes(price) ==
    base # NoPrice => base \div 9 + 1 <= price /\ price <= base * 9 - 1

\* _check_quotation, while the book is matching: how far a price may be behind
\* its own side's best, and how far through the other side's.
Quotable(r) ==
    LET own   == Priced(place, r.side)
        other == Priced(place, Opposite(r.side))
        away(p, q) == IF r.side = "BUY" THEN p - q ELSE q - p
    IN  AllowsMatching =>
          /\ own # {} => away(BestPrice(r.side), r.price) <= QuotationSpreads
          /\ other # {} =>
                away(r.price, BestPrice(Opposite(r.side))) <= AggressionSpreads

\* _check_auction: an immediate order has no place in a session.
AuctionAdmits(tif, price) ==
    session.kind # "NONE" => tif \notin IMMEDIATE /\ Permits(session, price)

\* default_limits: no order at the close, at the opening or without an end.
Supported(r) ==
    /\ r.type \in {"LIMIT", "MARKET"}
    /\ r.tif \in {"DAY", "IOC", "FOK"}

ValidatesNew(r) ==
    /\ tradable
    /\ Supported(r)
    /\ AllowsEntry
    /\ r.price # NoPrice => NineTimes(r.price) /\ Quotable(r)
    /\ AuctionAdmits(r.tif, r.price)

\* The order's own time in force is examined, not the one it is amended to.
ValidatesAmend(o, a) ==
    LET price == Revised(orders[o], a).price
    IN  /\ tradable
        /\ price # NoPrice => NineTimes(price)
        /\ AuctionAdmits(orders[o].tif, price)

----------------------------------------------------------------------------
(* handlers.py: requests *)

Listed == segment = HomeSegment

\* session.send: not an event, and no rule applies.
SendNow(to, reports) ==
    /\ sent' = [sent EXCEPT ![to] = @ \o reports]
    /\ UNCHANGED << behaviour, held, dropped, delayed, ruled >>

Message(kind, o, name) ==
    [kind |-> kind, order |-> o, name |-> name, status |-> "REJECTED",
     qty |-> 0, cum |-> 0]

\* _reject_order: an order the engine never sees.  Odd lots and orders At
\* Crossing are the client's choice.
RefuseOrder(key, name) ==
    /\ Request(key, name)
    /\ SendNow(key, << Message("REJECTED", NoOrder, name) >>)
    /\ UNCHANGED << vars, registryVars, events, hkexVars >>

SmpInstructionFor(id) ==
    IF id = NoKey THEN NoKey
    ELSE IF smp[id] = NoKey THEN "CANCEL_NEWEST" ELSE smp[id]

\* _on_new_order: the instruction held against the key is taken at entry.
OnNewOrder(key, name, r) ==
    /\ r.session = key
    /\ Listed
    /\ \/ NewDuplicate(key, name)
       \/ NewForcedReject(key, name)
       \/ ~ValidatesNew(r) /\ NewInvalid(key, name)
       \/ /\ ValidatesNew(r)
          /\ NewAccepted(key, name, [r EXCEPT !.stpInst = SmpInstructionFor(r.stpId)])
    /\ UNCHANGED hkexVars

\* Mutant: the stage is never consulted.
InNoCancellationPeriodNever == FALSE

\* The market looked at is the one the security is listed on now.
InNoCancellationPeriod == Listed /\ session.locked

\* _for_wire: the binary encoding refuses with an execution report.
ForWire(to, report) ==
    IF to \in BinaryClients /\ report.kind = "CANCEL_REJECTED"
    THEN [report EXCEPT !.kind = "CANCEL_REFUSED"] ELSE report

\* _send_cancel_reject, for a cancel and for a replace alike.
TooLate(key, name, orig) ==
    /\ Request(key, name)
    /\ InNoCancellationPeriod
    /\ SendNow(key, << ForWire(key, Message("CANCEL_REJECTED", Resolve(key, orig), name)) >>)
    /\ UNCHANGED << vars, registryVars, events, hkexVars >>

OnCancel(key, name, orig) ==
    /\ ~InNoCancellationPeriod
    /\ \/ Unresolved(key, name, orig)
       \/ \E o \in OrderIds : CancelOrderRequest(key, name, orig, o)
    /\ UNCHANGED hkexVars

\* Every refusal of a replace names the order, as Unresolved does.
OnReplace(key, name, orig) ==
    /\ ~InNoCancellationPeriod
    /\ \E o \in OrderIds, a \in Amendments :
          ValidatesAmend(o, a) /\ ReplaceOrder(key, name, orig, o, a)
    /\ UNCHANGED hkexVars

\* _on_mass_cancel: the session's orders of a side or of both.  The report is
\* sent first, then the cancels it causes.  A request without its scope's field,
\* or for a segment that is not run, is refused.
OnMassCancel(key, name, sides) ==
    LET mine == {o \in OnBook : orders[o].session = key /\ orders[o].side \in sides}
    IN  /\ Request(key, name)
        /\ SendNow(key, << Message("MASS_CANCEL_REPORT", NoOrder, name) >>)
        /\ \/ UNCHANGED << vars, events >>
           \/ /\ mine # {}
              /\ orders' = Cancelled(mine)
              /\ place' = Removed(place, mine)
              /\ CancelEvents(mine)
              /\ UNCHANGED << arrivals, nextId, phaseVars, taskVars, amends >>
        /\ UNCHANGED << registryVars, hkexVars >>

\* on_logout, with cancel on disconnect.
OnLogout(key) ==
    /\ Registered(key).cancelOnDisconnect
    /\ CancelMany({key}, key)
    /\ UNCHANGED hkexVars

\* _on_entitlement_request: a fragment for each broker, or one that says none.
OnEntitlementRequest(key, name) ==
    /\ Request(key, name)
    /\ SendNow(key, [i \in 1..Greater(1, Registered(key).brokers) |->
                        Message("ENTITLEMENT_REPORT", NoOrder, name)])
    /\ UNCHANGED << vars, registryVars, events, hkexVars >>

\* Mutant: an acceptance states what the order is by the time it is rendered.
HkexRenderLate(event) == Render(event)

\* _render_replaced, _render_decremented, _render_cancel_rejected: the order as it
\* is when the report is built.
HkexRenderChange(event) == Render(event)

\* An acceptance, like a fill, restates its snapshot.
HkexRender(event) ==
    IF event.kind = "ACCEPTED"
    THEN [Render(event) EXCEPT !.qty = event.qty, !.cum = event.cum]
    ELSE HkexRenderChange(event)

HkexEmit ==
    /\ task = "idle"
    /\ events # << >>
    /\ LET event == Head(events)
       IN  EmitAs(event, ForWire(SessionFor(event), HkexRender(event)))
    /\ UNCHANGED hkexVars

----------------------------------------------------------------------------
(* venue.py: phases and auctions *)

\* _reference_price: the previous close, or the last price for the closing
\* auction.
ReferencePrice(kind) ==
    IF kind = "CAS" /\ lastPrice # NoPrice THEN lastPrice ELSE base

Opening(kind) ==
    [kind |-> kind, locked |-> FALSE, ref |-> ReferencePrice(kind), pin |-> None]

HkexCommand ==
    /\ Ready
    /\ Command
    /\ UNCHANGED << registryVars, reportVars, asked, requests >>

\* set_trading_state without an auction to hold: _open_auction keeps a session of
\* the same kind, ends one with the phase, and starts one with an empty limit
\* book of its own.  PRE_OPEN and OPENING_AUCTION are one session.
EnterPhase(s) ==
    LET kind    == KindOf(s)
        opens   == kind \notin {"NONE", session.kind}
        closing == IF s # marketState /\ s \in NO_ENTRY THEN OnBook ELSE {}
        gone    == closing \cup IF opens THEN CancelledOnOpening(Opening(kind)) ELSE {}
    IN  /\ HkexCommand
        /\ kind # "NONE" \/ session.kind = "NONE"
        /\ marketState' = s
        /\ orders' = Cancelled(gone)
        /\ place' = Removed(place, gone)
        /\ CancelEvents(gone)
        /\ origin' = NoKey
        /\ session' = IF opens THEN Opening(kind) ELSE session
        /\ band' = IF opens THEN Stage1Limits(Opening(kind)) ELSE band
        /\ UNCHANGED << override, stpMode, taskVars, referenceVars, lastPrice >>

\* _close_auction: the auction is held before the phase changes.
CloseAuction(s) ==
    /\ Ready
    /\ session.kind # "NONE"
    /\ KindOf(s) = "NONE"
    /\ StartUncrossAt(s, session.ref)
    /\ origin' = NoKey
    /\ UNCHANGED << registryVars, events, reportVars, asked, requests, hkexVars >>

HkexAuctionStep ==
    \/ /\ \E b, s \in OrderIds :
             AuctionTrade(b, s) /\ Loop(<< FillEvent(b), FillEvent(s) >>)
       /\ lastPrice' = auctionPrice
       /\ UNCHANGED << session, referenceVars, band >>
    \/ /\ FinishUncross
       /\ \E q \in BookSequences({o \in OnBook : orders'[o] # orders[o]}) :
             Loop([i \in DOMAIN q |-> Event("CANCELLED", q[i])])
       /\ session' = NoSession
       /\ band' = None
       /\ UNCHANGED << referenceVars, lastPrice >>

\* An instrument-level phase opens no session and ends none.
InstrumentPhase(s) ==
    /\ Ready
    /\ SetInstrumentState(s)
    /\ origin' = NoKey
    /\ CancelEvents({o \in OnBook : orders'[o] # orders[o]})
    /\ UNCHANGED << registryVars, reportVars, asked, requests, hkexVars >>

\* auction.lock: POS names its locked period a phase of its own.
LockAuction ==
    /\ HkexCommand
    /\ session.kind # "NONE"
    /\ session' = [session EXCEPT !.locked = TRUE, !.pin = Pinned]
    /\ band' = IF Pinned = None THEN band ELSE Hull(band, Pinned)
    /\ marketState' = IF session.kind = "POS" /\ marketState = "PRE_OPEN"
                      THEN "OPENING_AUCTION" ELSE marketState
    /\ UNCHANGED << orders, place, override, stpMode, taskVars, events, origin,
                    referenceVars, lastPrice >>

SetOnly(changed) ==
    /\ HkexCommand
    /\ changed
    /\ UNCHANGED << orders, place, marketState, override, stpMode, taskVars, events,
                    origin, lastPrice >>

\* auction.reference.
SetReference(p) ==
    /\ session.kind # "NONE"
    /\ SetOnly(session' = [session EXCEPT !.ref = p] /\ band' = None)
    /\ UNCHANGED referenceVars

\* reload_reference_data: the security is listed, perhaps elsewhere and with
\* another price, or has gone from the file and is only marked.
ReloadReferenceData ==
    /\ SetOnly(\/ /\ segment' \in {HomeSegment, "GEM"}
                  /\ base' \in BasePrices
                  /\ tradable' = TRUE
               \/ tradable' = FALSE /\ UNCHANGED << segment, base >>)
    /\ UNCHANGED << session, smp, band >>

\* smp.register and smp.clear.
RegisterSmp(id, mode) ==
    /\ mode # smp[id]
    /\ SetOnly(smp' = [smp EXCEPT ![id] = mode])
    /\ UNCHANGED << session, segment, tradable, base, band >>

\* behaviour.set and behaviour.clear, and the timer of a report that _deliver delays.
BehaviourCommand ==
    /\ ClearBehaviour \/ \E rule \in RuleChoices : SetBehaviour(rule)
    /\ UNCHANGED hkexVars

HkexRelease == ReleaseStep /\ UNCHANGED hkexVars

\* A trade moves the last price, to that of the resting order; nothing else of the
\* venue's state.
HkexMatchStep ==
    LET traded == {o \in OrderIds \ {cur} : orders'[o].cum > orders[o].cum}
    IN  /\ EntryMatchStep
        /\ lastPrice' = IF traded = {} THEN lastPrice
                        ELSE orders[CHOOSE o \in traded : TRUE].price
        /\ UNCHANGED << session, referenceVars, band >>

----------------------------------------------------------------------------

HkexInit ==
    /\ EntryInit
    /\ session = NoSession
    /\ \E entries \in MarketConfigs :
          LET market == BuildMarkets(entries, {HomeSegment})[HomeSegment]
          IN  marketState = market.state /\ stpMode = market.stp
    /\ segment = HomeSegment
    /\ tradable = TRUE
    /\ base \in BasePrices
    /\ smp = [id \in StpIds |-> NoKey]
    /\ lastPrice = NoPrice
    /\ band = None

HkexRequest(key, name) ==
    \/ RefuseOrder(key, name)
    \/ \E r \in Requests : OnNewOrder(key, name, r)
    \/ \E orig \in Names : \/ TooLate(key, name, orig)
                           \/ OnCancel(key, name, orig)
                           \/ OnReplace(key, name, orig)
    \/ \E sides \in {Sides, {"BUY"}, {"SELL"}} : OnMassCancel(key, name, sides)
    \/ OnEntitlementRequest(key, name)

HkexOperator ==
    \/ \E s \in Phases : EnterPhase(s) \/ CloseAuction(s) \/ InstrumentPhase(s)
    \/ LockAuction
    \/ \E p \in References : SetReference(p)
    \/ ReloadReferenceData
    \/ \E id \in StpIds, mode \in {"CANCEL_NEWEST", "CANCEL_OLDEST", NoKey} :
          RegisterSmp(id, mode)
    \/ BehaviourCommand

HkexNext ==
    \/ \E key \in Clients, name \in Names : HkexRequest(key, name)
    \/ \E key \in Clients : OnLogout(key)
    \/ HkexOperator
    \/ HkexMatchStep
    \/ HkexAuctionStep
    \/ HkexEmit
    \/ HkexRelease

\* The loops of one handler run to their end, and the reactor expires every timer.
HkexSpec ==
    /\ HkexInit
    /\ [][HkexNext]_hkexAll
    /\ WF_hkexAll(HkexMatchStep) /\ WF_hkexAll(HkexAuctionStep) /\ WF_hkexAll(HkexEmit)
    /\ WF_hkexAll(HkexRelease)

----------------------------------------------------------------------------
(* Properties *)

TradesAt(o) == orders'[o].cum > orders[o].cum /\ ~IsPriceless(orders[o])

\* "leaving it would let it trade through the band" (carried_forward_verdict):
\* whatever was carried in, entered before and after the lock or amended, no limit
\* order trades in an auction at a price beyond the limits that the session has had
\* on its side, unless an operator moved the reference price.
NoneTradesThroughTheBand ==
    [][task = "auction" /\ band # None =>
         \A o \in OrderIds : TradesAt(o) =>
             IF orders[o].side = "BUY" THEN auctionPrice <= band[2]
             ELSE band[1] <= auctionPrice]_hkexAll

\* "A passive one outside the band is carried in and simply never matches"
\* (carried_forward_verdict).  It does, where enough at-auction orders rest on the
\* other side: they count at every price, the passive order's among them, and
\* uncross looks for the greatest volume without the limits.
CarriedPassiveNeverMatches ==
    [][task = "auction" /\ band # None =>
         \A o \in OrderIds : TradesAt(o) =>
             band[1] <= orders[o].price /\ orders[o].price <= band[2]]_hkexAll

MaxVolume == Max({0} \cup {DemandAt(p).volume : p \in CandidatePrices})

\* Is an order removed otherwise than by its owner's cancel or replace?
Removal ==
    \E o \in OrderIds : /\ IsLive(orders[o])
                        /\ orders'[o].status = "CANCELLED"
                        /\ chain'[o] = chain[o]

\* "no more cancellations, prices pinned" (lock_auction): in the locked period
\* what the auction would trade never shrinks, unless orders are removed
\* wholesale, the security is given a phase of its own or moved away.
LockedVolumeNeverShrinks ==
    [][/\ task = "idle" /\ session.locked /\ session'.locked
       /\ Listed /\ override = NoOverride
       /\ ~Removal
       => MaxVolume' >= MaxVolume]_hkexAll

\* Refusals of a cancel or a replace say nothing of the order.
SaysOf(report, o) ==
    report.order = o /\ report.kind \notin {"CANCEL_REFUSED", "CANCEL_REJECTED"}

\* Has a rule dropped one of the order's reports?
Lost(o) == \E d \in dropped : SaysOf(d.report, o)

\* "CumQty 0 with the whole quantity still open" (_render_accepted): the first
\* report of an order is its one acceptance as the market received it, however
\* much of it traded on entry, or the report that refuses it.  Rules reject orders
\* as they like; what they drop (_deliver) is missing of its own order, and nothing
\* is claimed from the first report on that they delay past others.
AcknowledgedFirst ==
    ~delayed =>
        \A c \in Clients, o \in OrderIds : ~Lost(o) =>
            \A i \in DOMAIN sent[c] :
                LET r     == sent[c][i]
                    first == \A j \in 1..(i - 1) : ~SaysOf(sent[c][j], o)
                IN  SaysOf(r, o) =>
                      /\ first => r.kind \in {"ACCEPTED", "REJECTED"} /\ r.cum = 0
                      /\ r.kind = "ACCEPTED" => first

=============================================================================
