--------------------------- MODULE JapannextVenue ---------------------------
(***************************************************************************)
(* The Japannext venue: venues/japannext/{venue,handlers,rules}.py on top  *)
(* of OrderEntry.  It adds what its configuration builds, sessions that    *)
(* log on and off, the market a request addresses with TargetSubID,        *)
(* reference data that is reloaded while orders rest, and the trading      *)
(* session status clients are told of.                                     *)
(*                                                                         *)
(* The venue runs several markets over one registry of identifiers.  The   *)
(* orders here are those of one of them, HomeMarket; new orders for the    *)
(* others are left out, while a cancel may address any: the engine goes by *)
(* the market of the order it finds.                                       *)
(***************************************************************************)
EXTENDS OrderEntryProperties

CONSTANTS
    MarketConfigs,   \* the values of its markets the venue may start with
    SessionEntries,  \* fix.sessions of the configuration
    SubIds,          \* the values of TargetSubID that clients send
    MaxLogons,       \* bound: logons over a behaviour
    MaxReloads       \* bound: reloads of reference data over a behaviour

----------------------------------------------------------------------------
(* venue.py: what the configuration builds *)

\* trading_states: "it runs no opening or closing auctions".
TRADING_STATES == {"OPEN", "CLOSED", "HALTED"}

DEFAULT_MARKETS ==
    [i \in 1..4 |-> [name |-> << "DAY", "NGHT", "DAYX", "DAYU" >>[i],
                     state |-> "CLOSED", stp |-> "CANCEL_NEWEST"]]

SORTED_NAMES == << "DAY", "DAYU", "DAYX", "NGHT" >>

HomeMarket == "DAY"
NoMarket   == NoKey

\* _build_markets: a later entry of a name takes the place of an earlier.
BuildMarkets(configured) ==
    LET entries == IF configured = << >> THEN DEFAULT_MARKETS ELSE configured
    IN  [name \in {entries[i].name : i \in DOMAIN entries} |->
            entries[Max({i \in DOMAIN entries : entries[i].name = name})]]

MarketNames == DOMAIN BuildMarkets(CHOOSE configured \in MarketConfigs : TRUE)

ValidMarkets(markets) ==
    \A name \in DOMAIN markets : /\ markets[name].state \in TRADING_STATES
                                 /\ markets[name].stp \in StpModes

\* _build_fix: a session that names no markets may trade all; one that names no
\* default has the first of them.  A later entry of a Comp ID takes the place of
\* an earlier.
BuildSession(entry) ==
    LET all     == SelectSeq(SORTED_NAMES, LAMBDA name : name \in MarketNames)
        markets == IF entry.markets = << >> THEN all ELSE entry.markets
    IN  [allowed |-> Range(markets),
         default |-> IF entry.default = NoMarket THEN markets[1] ELSE entry.default,
         cancelOnDisconnect |-> entry.cancelOnDisconnect]

ValidSession(entry) ==
    BuildSession(entry).allowed \cup {BuildSession(entry).default} \subseteq MarketNames

Config ==
    [key \in Clients |->
        BuildSession(SessionEntries[
            Max({i \in DOMAIN SessionEntries : SessionEntries[i].target = key})])]

ASSUME JapannextAssumption ==
    /\ ~AckOnEntry /\ AuctionPhases = {} /\ Phases \subseteq TRADING_STATES
    /\ \A configured \in MarketConfigs :
          LET markets == BuildMarkets(configured)
          IN  ValidMarkets(markets) /\ DOMAIN markets = MarketNames
    /\ HomeMarket \in MarketNames /\ MarketNames \subseteq Range(SORTED_NAMES)
    /\ \A i \in DOMAIN SessionEntries : ValidSession(SessionEntries[i])
    /\ Clients = {SessionEntries[i].target : i \in DOMAIN SessionEntries}
    /\ MaxLogons \in Nat /\ MaxReloads \in Nat

VARIABLES up,        \* Session.logged_on of each client
          told,      \* history: the last TradingSessionStatus of HomeMarket sent to it
          tradable,  \* Instrument.tradable
          rejected,  \* history: the clients sent a session-level Reject
          logons,    \* logons so far
          reloads    \* reloads so far

venueVars == << up, told, tradable, rejected, logons, reloads >>
jxVars    == << allVars, venueVars >>

----------------------------------------------------------------------------
(* handlers.py: sessions and the trading status *)

MarketsFor(key) == Config[key].allowed

\* on_logon: "a newly logged-on client is told the state of every market it may
\* address".
OnLogon(key) ==
    /\ Ready
    /\ ~up[key]
    /\ logons < MaxLogons
    /\ logons' = logons + 1
    /\ up' = [up EXCEPT ![key] = TRUE]
    /\ told' = [told EXCEPT ![key] = IF HomeMarket \in MarketsFor(key) THEN marketState
                                     ELSE @]
    /\ UNCHANGED << allVars, tradable, rejected, reloads >>

\* on_logout, with and without cancel on disconnect.
OnLogout(key) ==
    /\ up[key]
    /\ up' = [up EXCEPT ![key] = FALSE]
    /\ IF Config[key].cancelOnDisconnect THEN CancelMany({key}, key)
       ELSE Ready /\ UNCHANGED allVars
    /\ UNCHANGED << told, tradable, rejected, logons, reloads >>

\* broadcast_trading_status: to whoever is logged on and may trade the market.
BroadcastTradingStatus(state) ==
    told' = [key \in Clients |->
                IF up[key] /\ HomeMarket \in MarketsFor(key) THEN state ELSE told[key]]

\* set_trading_state: clients are told of a market's change, not of one
\* instrument's, and before the orders it expires are reported to them.
SetTradingState(s) ==
    /\ SetState(s)
    /\ IF marketState' = marketState THEN UNCHANGED told
       ELSE BroadcastTradingStatus(marketState')
    /\ UNCHANGED << up, tradable, rejected, logons, reloads >>

----------------------------------------------------------------------------
(* handlers.py and rules.py: requests *)

\* _resolve_market: TargetSubID, or the session's default, if it exists and the
\* session may trade it.
ResolveMarket(key, sub) ==
    LET market == IF sub = NoKey THEN Config[key].default ELSE sub
    IN  IF market \in MarketNames \cap Config[key].allowed THEN market ELSE NoMarket

\* A Failure becomes a session-level Reject: the engine sees nothing of it.
Refuse(key, sub) ==
    /\ Ready
    /\ up[key]
    /\ ResolveMarket(key, sub) = NoMarket
    /\ rejected' = rejected \cup {key}
    /\ UNCHANGED << allVars, up, told, tradable, logons, reloads >>

\* default_limits: limit orders only, and a minimum quantity only with IOC.
Supported(r) ==
    /\ r.type = "LIMIT"
    /\ r.tif \in {"DAY", "IOC", "FOK"}
    /\ r.minQty > 0 => r.tif = "IOC"

Enter(key, name) ==
    /\ \/ NewDuplicate(key, name)
       \/ NewForcedReject(key, name)
       \/ NewInvalid(key, name)
       \/ \E r \in Requests : tradable /\ Supported(r) /\ NewAccepted(key, name, r)
    /\ UNCHANGED venueVars

OnNewOrder(key, name, sub) ==
    /\ up[key]
    /\ ResolveMarket(key, sub) = HomeMarket
    /\ Enter(key, name)

OnCancel(key, name, orig, sub) ==
    /\ up[key]
    /\ ResolveMarket(key, sub) # NoMarket
    /\ \/ Unresolved(key, name, orig)
       \/ \E o \in OrderIds : CancelOrderRequest(key, name, orig, o)
    /\ UNCHANGED venueVars

\* The validator examines the instrument again; a refusal names the order, as
\* Unresolved does.
OnReplace(key, name, orig, sub) ==
    /\ up[key]
    /\ ResolveMarket(key, sub) # NoMarket
    /\ tradable
    /\ \E o \in OrderIds, a \in Amendments : ReplaceOrder(key, name, orig, o, a)
    /\ UNCHANGED venueVars

----------------------------------------------------------------------------
(* venue.py: reference data *)

\* reload_reference_data: an instrument that is in the file is taken from it, also
\* when it had been withdrawn; one that is not "is marked non-tradable rather than
\* deleted, because live orders may still reference it".
ReloadReferenceData ==
    /\ Ready
    /\ reloads < MaxReloads
    /\ reloads' = reloads + 1
    /\ tradable' \in BOOLEAN
    /\ UNCHANGED << allVars, up, told, rejected, logons >>

----------------------------------------------------------------------------

JapannextInit ==
    /\ EntryInit
    /\ \E configured \in MarketConfigs :
          LET market == BuildMarkets(configured)[HomeMarket]
          IN  marketState = market.state /\ stpMode = market.stp
    /\ up = [key \in Clients |-> FALSE]
    /\ told = [key \in Clients |-> NoKey]
    /\ tradable = TRUE
    /\ rejected = {}
    /\ logons = 0
    /\ reloads = 0

OnMessage ==
    \E key \in Clients, sub \in SubIds \cup {NoKey} :
        \/ Refuse(key, sub)
        \/ \E name \in Names :
              \/ OnNewOrder(key, name, sub)
              \/ \E orig \in Names : \/ OnCancel(key, name, orig, sub)
                                     \/ OnReplace(key, name, orig, sub)

\* The control plane: injected orders, cancels, and the commands of OrderEntry.
Operator ==
    \/ \E key \in Sessions \ Clients, name \in Names : Enter(key, name)
    \/ /\ \/ \E keys \in {{key} : key \in Clients} \cup {Sessions} :
                CancelMany(keys, NoKey)
          \/ \E o \in OrderIds : AdminCancel(o)
          \/ SilentCommand
          \/ \E rule \in RuleChoices : SetBehaviour(rule)
          \/ ClearBehaviour
       /\ UNCHANGED venueVars
    \/ \E s \in Phases : SetTradingState(s)
    \/ ReloadReferenceData

VenueMatchStep   == EntryMatchStep /\ UNCHANGED venueVars
VenueEmit        == Emit /\ UNCHANGED venueVars
VenueReleaseStep == ReleaseStep /\ UNCHANGED venueVars

JapannextNext ==
    \/ \E key \in Clients : OnLogon(key) \/ OnLogout(key)
    \/ OnMessage
    \/ Operator
    \/ VenueMatchStep \/ VenueEmit \/ VenueReleaseStep

JapannextSpec ==
    /\ JapannextInit
    /\ [][JapannextNext]_jxVars
    /\ WF_jxVars(VenueMatchStep) /\ WF_jxVars(VenueEmit) /\ WF_jxVars(VenueReleaseStep)

----------------------------------------------------------------------------

\* "so it never has to guess whether the venue is open" (on_logon): whatever
\* logons, disconnects and phase changes come in between, a client that is logged
\* on was last told the phase its market is in.
StatusIsKnown ==
    \A key \in Clients :
        up[key] /\ HomeMarket \in MarketsFor(key) => told[key] = marketState

\* A client knows the phase of its market, and what it was sent about its orders
\* is true, also of those from before a reload or a disconnect.
ClientKnowsTheVenue == ClientViewIsTrue /\ StatusIsKnown

=============================================================================
