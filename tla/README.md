# A TLA+ verification of ExchangeSim

ExchangeSim (`src/exchangesim/`) simulates several exchanges for testing order
management systems. Each exchange is a process with one thread: a reactor that
multiplexes sockets and timers, order-entry sessions (FIX, the NSE's NNF, the
HKEX binary protocol), a matching engine, and a control port for operators.

This directory holds TLA+ models translated from that code, the TLC runs that
check them on small instances, and theorems checked by TLAPS. `PROJECT.json`
maps each definition to the lines it models and lists runs, mutants, hazards and
theorems.

## 1. Inventory

| Component (sources) | State | Operations | Talks to | What is hard | What makes it correct |
|---|---|---|---|---|---|
| **Order** (`core/orders.py`, `enums.py`) | quantity, executed quantity, ended flag, sequence | fill, cancel, decrement | matching, registry | total quantity lowered under a partial fill | status agrees with fills; a terminal order never changes |
| **Order book** (`core/book.py`) | price ladders of FIFO levels, an at-market queue | add, remove, front, cumulative quantity | matching, auction | an order in two places or in none | the book holds exactly the live orders |
| **Matching engine** (`core/matching.py`) | self-trade mode, sequence counter | submit, pre-checks, `_match`, self-trade prevention, cancel, amend | book, market | a check made before a loop whose steps invalidate it; amendments that leave and re-enter the book | price-time priority, limits honoured, all-or-nothing, termination |
| **Market and phases** (`core/market.py`, `trading_state.py`) | market-wide phase, per-instrument overrides | set/clear states, cancel_all, uncross, cancel/amend | engine, venues | an override hides what the market-wide change would have done | no crossed book in continuous trading, no order in a closed market |
| **Call auction** (`core/auction.py`) | none (works on the book) | candidate prices, rule chain, execution | market, venues | tie-breaking chain, two indices advanced separately | price-type-time priority, limits, an uncrossed book afterwards |
| **Order events** (`core/events.py`) | none | accepted, executed, cancelled, amended... | venues, market data, audit | events sent to the counterparty's session | each order's events describe its life |
| **Engine and registry** (`core/engine.py`) | orders by id and by (session, ClOrdID), chains | new, cancel, replace, session cancel | venues, market | identifiers of a chain after rejections | one order per identifier, for good |
| **Validation** (`core/validation.py`, `instrument.py`, `prices.py`) | reference data | checks by tick, lot, band, capability | engine | -- | -- |
| **FIX session** (`fix/session.py`) | next in/out, queue of messages above a gap, timers | logon, sequence checks, replay, resets, logout | store, acceptor, venue | gaps on both sides at once, reconnects, replays | every message processed once, in order; both sides eventually have everything |
| **FIX store** (`fix/store.py`) | a log file and a numbers file | store, save, reset, open | session | a crash between two writes | a number is transmitted once; what was sent can be resent |
| **FIX codec** (`fix/codec.py`, `message.py`, `dictionary.py`, `render.py`) | receive buffer | frame, decode, validate | session | a stream cut anywhere, junk, a wrong length or checksum | complete messages, in order, none skipped |
| **Acceptor, endpoints** (`wire/`, `fix/acceptor.py`) | connections, session table | hold, route, refuse, replay the first bytes | reactor, sessions | a second connection for a live session, a late close | one connection feeds a session |
| **NNF session, boxes, recovery** (`nnf/session.py`, `recovery.py`, gateway routers) | secrets, stage of a box, users, drop counter, ring of reports | gateway request, registration, box and user sign-on, heartbeat, download | NSE venues | reports sent into a broken connection, ages that outlive a connection, a ring that turns over | a download restores every report; one key per connection; a punctual member stays |
| **NNF and binary codecs** (`nnf/{codec,layout,types,packet,crypto}.py`, `binary/`) | none | byte layouts, ciphers | sessions | hand-written tables; fields at their capacity; nested blocks | round trip for tables that pass their check |
| **Reactor** (`core/reactor.py`) | sockets, write buffers, timers, deferred calls | poll, call_later, write, close | everything | a callback that closes what the loop is about to serve; closing before a flush | no callback after close; nothing lost that should be flushed |
| **Market data** (`core/marketdata.py`) | tape, statistics | ladder, snapshots | engine, control | steps of the board that change with the price | the board accounts for every order |
| **Behaviour injection** (`core/behaviour.py`) | rules with remaining uses | match, consume | Japannext handlers | a delayed report overtaken by later ones | each rule applies as often as it says |
| **Control plane** (`control/`, `venues/common_commands.py`), **audit** (`audit.py`) | sessions, subscriptions, a ring of entries | dispatch, publish, page | operators, web | a ring read in pages while it turns over | an audit view is complete or says where it is not |
| **Supervisor** (`ctl/`) | pid files, processes | start, stop, restart, status | venue processes | interrupts, recycled process ids, hanging daemons | never two processes of one service; started means serving |
| **Web console** (`web/`) | link, pending calls, HTTP connections | proxy, stream, reconnect | control plane | an answer, its timeout and a disconnect racing | each request answered once with its own answer; the board comes back |
| **Logging, clock, ids, config** | counters | -- | everything | -- | -- |
| **TLS** (`tls/`) | handshake, buffers | wrap, read, write, close; certificates | reactor | closing during a handshake | last words arrive |
| **Scenario runner** (`scenario/runner.py`, `cli/client.py`) | sockets, framers and inboxes of the scripted sessions, captures | run files: send, wait, want silence, command | a live simulator | timeouts racing answers, reconnects, what was buffered before | a pass rests on messages heard in that file, each counted once; it returns |
| **CLI, entry point** | -- | sequential drivers, wiring | -- | -- | -- |
| **Japannext** (`venues/japannext/`) | markets, sessions, tradable instruments | FIX handlers, trading status, reload | engine | delayed and dropped reports, logons between phase changes | a client knows its orders and its market |
| **HKEX** (`venues/hkex/`) | auction session, limits, self-match registry | FIX and binary handlers, mass cancel, lock, uncross | engine | limits pinned to a book that goes on changing | no limit order trades through the limits; a locked auction only grows; an order is acknowledged before it trades |
| **NSE cash** (`venues/nse/`) | pre-open session, lock, forms of orders | NNF handlers, auction | NNF, engine | reports to members that are away, two encodings | reports keep the form of their order and are not lost |
| **NSE F&O** (`venues/nsefo/`) | contracts, spread combinations | NNF handlers, legs | NNF, engine | one fill is two messages | a member holds a trade in each leg |

The process is single-threaded, so a handler runs to its end before the next
message is read. What interleaves is the order in which requests of different
clients, timers, operators' commands, disconnects and crashes arrive.

## 2. Modules

```
Orders, Auction <- OrderBook <- Market <- MarketProperties, MarketData <- MCMarket
                                  ^             |
                                  |             +-------> OrderLedger (abstract)
                                  |
                              OrderEntry <- OrderEntryProperties <- JapannextVenue <- MCOrderEntry
                               ^   ^            ^--- MarketProofs        ^--- JapannextProofs
                               |   +--- HkexVenue <- MCHkexVenue
                               |            ^--- HkexProofs (uses MarketProofs)
                               |
                NnfSession <- NnfApplication <- NseVenue <- MCNseVenue
                                         ^         ^--- NseProofs
                                         +----- NsefoVenue <- MCNsefoVenue

FixSession, FixStore <- MCFixSession
    ^             ^------- FixStoreProofs
    +------- FixLink <- MCFixLink
                ^--------- FixSessionProofs

ControlPlane <- WebConsole <- MCWebConsole        Supervisor <- MCSupervisor
                                                      ^------ SupervisorProofs
Wire <- MCWire                                    Codec, Scenario <- MCCodec

WebConsole, Scenario <- ToolsProofs
```

**Orders** is the order record and the functions that mutate it. Quantities and
prices are naturals; price 0 is "no price" (a market or at-auction order). Only
two sides are kept: every sell side of the code (short, short exempt) behaves as
a sell everywhere in matching.

**OrderBook** replaces ladders, levels and the at-market queue by one function:
`place[i]` is the number of the arrival by which order `i` got its present
position, 0 when it is not on the book. FIFO within a level is the order of
these numbers; the ladder is the order of prices; the at-market queue is the
priceless orders. `_reinsert_keeping_priority`, which rebuilds a level sorted by
entry sequence, permutes the numbers of that level.

**Auction** is `core/auction.py`: candidate prices, matched quantity, imbalance
and the rule chain, as operators on a set of orders.

**Market** has one action per operation: `Enter`, `Cancel`, `Amend`,
`CancelSession`, market-wide and instrument-level phase changes and the
self-trade mode, plus `MatchStep` and `AuctionStep`. The two loops of the code
are unrolled: `task` says which loop runs and a step is one iteration, so that
TLC can examine each trade. Everything else waits for `task = "idle"`, as in the
code. `Phases` are the states a venue gives its market, `Overrides` those an operator
gives a single instrument.

**OrderLedger** is what a client may rely on without knowing about books: an
order is accepted or rejected, gains executions up to its quantity, may be
amended while live, and ends once. `MarketProperties!ImplementsLedger` says that
Market refines it.

**OrderEntry** puts `core/engine.py`, its registry and the reports of a FIX venue
around Market; the other venues take its engine and render their own reports. A request resolves identifiers (`index` is the registry, `chain`
the identifiers of each order), is refused or becomes a Market action, and
collects events. `Emit` renders one event per step, when the market's loop has
ended, and sends the report, drops it or hands it to a timer (`held`), as the
rules in `behaviour` say. `sent` is what each client's session was given; whether
and when that reaches the client is the business of FixSession. `asked`,
`dropped` and `delayed` are history. Rejected orders get an id in the code that
nothing ever refers to again; here they have none.

**FixSession** is `fix/session.py` in front of an arbitrary peer: any message of
`Inbound` at any time. `log` is what the store holds, with the kind of each
message; `pending` is the queue above a gap; `_drain_pending` is unrolled
(`Drain`), since a handler it calls may end the connection. What is due at a
tick is left open (the clock is not modelled): a tick may send a heartbeat, a
test request, or give up. Failed writes are modelled at the end of the handler
that made them, and inside the two loops. The process may die between two handlers, and
inside one where that shows: `_dispatch` has persisted the inbound number and not yet
called the application. The writes of a send are those of FixStore.

**FixLink** composes FixSession, its ticks and crashes included, with a client that
follows the FIX rules, answers probes, and two channels that a break empties, in whole or
in part. The client is external; it is modelled from what the session expects of a peer.
`events` bounds what befalls a behaviour, and its `cut` is history: the orders that a
crash has cut off behind their number.

**FixStore** is `fix/store.py` at the level of its writes: the append to the
log, the rename of the numbers file, the truncation at a reset. A crash may come
between any two of them and, with `Tearing`, inside an append.

**MarketData** is the ladder of `core/marketdata.py` over the tick and band tables of
`core/instrument.py`: which prices the board shows around its own centre or around the one
an operator asks for, and what it sums above and below them.

**JapannextVenue** is the whole Japannext venue: what its configuration builds and
refuses (markets, sessions, a repeated name), logons and logouts with cancel on
disconnect, the market a request addresses, trading status messages, phase changes
and reloads. Its requests and reports are those of OrderEntry.

**HkexVenue** adds to the engine what HKEX has: configuration and entitlements, the
Pre-opening and Closing Auction Sessions (`AuctionSession`: open, lock, uncross,
carried orders, stage 1 and stage 2 limits), `HkexValidator`, the self-match
registry, mass cancel, the acceptance that precedes matching, both encodings
as far as they differ in content, and the rules that reject orders and drop or delay
reports on their way to a client (`_deliver`).

**NnfSession** is `nnf/session.py` and `nnf/recovery.py` with the secrets of the
gateway router: a box per connection, users on a box, heartbeats and the drop
counter, stamps, the ring of reports. **NnfApplication** is what the two NSE venues
share on top of it: what a connection opens with (the router takes a registration, or a box
sign-on in clear), box and user sign-on, entry, modification and
cancellation by order number, plain and trimmed structures, reports to whoever is
signed on, and the download. **NseVenue** adds the cash market (circuit filter,
pre-open session and its lock, phases, reloads), **NsefoVenue** contracts, spread
combinations, legs and the contract file. The member is external: it follows the
published box sequence and downloads from the last stamp it saw. `inbox` is history:
what a user has missed, and what its ring has let go (`lost`).

**Wire** is the path from the socket to a session: connection buffers and closes,
the TLS transport, three framers, the router that waits for a first message, and
what a session or box does with the bytes. A message is a few units, a read takes
any number of units, the kernel takes what it has room for. A box has a cipher or none,
which decides what a wrong checksum does to the rest of a read; and a connection of a box
that was told to go keeps its callbacks until it is flushed, as in the code.

**Codec** is how a message becomes bytes and comes back in the binary and the NNF
encodings, the check a transcribed table must pass, and the dictionary's
validation. It has RECURSIVE operators (nested blocks) and only TLC uses it.

**Scenario** is the test driver that speaks these encodings as a client: the steps of
a file, its waits with their deadlines, the inbox of each session with the half message
a framer may hold, what one step captures for another, and which error ends a file and
which the invocation. A command is a wait of its own: `call` reads until it hears its
answer, and only a read that finds nothing runs out of time. The simulator is external: it sends, closes and stays silent at will.
`SuitesAssumption` says what the loader accepts: a step that works on a session names a
declared one.

**ControlPlane** has the audit ring, the registry of commands, subscriptions and the
commands every venue has, as operators on a venue's state. **WebConsole** composes it
with the board: HTTP connections, the proxy, event streams, the link with retries,
timeouts and resubscription, and the page that follows the tape. The tape numbers its
entries from 1 in every life of the venue, so what the page has shown or marked is a set
of pairs of a life and a number.

**Supervisor** is `ctl/` at the level of its system calls: each call another process
can get in front of is a step. A start waits for the answer on the port, or does not
(`--wait 0`, or a service without an address to probe). Daemons start, fail, hang, crash and shut down by
themselves, and a free process id goes to whoever asks next.

## 3. Runs

Each run asks one question of one part, with the whole of that part's next-state
relation (`session` and `codec` have two parts each, side by side). All of them pass but
`carried`, which refutes what a comment and a test of the repository say (section 6).
Where a run needs two or three related facts in every state they are named conjuncts of
one property.

| Run | Instance | Shows |
|---|---|---|
| `market` | eight scenarios side by side, see below | the book holds exactly the live orders and status agrees with fills (`MarketIsConsistent`); what a pre-check has counted is there unless self-trade prevention stops the order at one of its own (`AllOrNothing`); what rests fits the phase, and IOC and FOK orders among it come from a call (`BookFitsThePhase`); the board accounts for every resting order; priority and limits in matching and auction (`TradesAreFair`); both loops end; the ledger is implemented |
| `entry` | the Japannext venue: two clients and an injected owner, two names, 3 requests, 1 amendment, 3 logons, one rule, reload or phase change | identifiers stay bound to one order; each client's reports are its own, add up, answer every request, end each order once and leave it with the order's real state, and it knows the phase of its market (`ClientKnowsTheVenue`); the end of an order is eventually reported |
| `session` | numbers 1..4, duplicates, fills, resets, faulty messages, open-ended resend requests, logons with NextExpectedMsgSeqNum, crashes between handlers and inside one; beside it, never at the same time, the file store with 4 sends, 2 inbound, 3 crashes between writes | each application message is delivered once and in order; a gap fill never covers a stored report; of the store, that no number is transmitted with two messages, what was sent stays retrievable and the inbound number never falls back (`CrashesLoseNothing`) |
| `link` | a conforming client in three kinds of behaviour: 1 order, valid or not, 1 report and 1 fault; 2 ticks, with an order or with a fault; 2 faults. A fault is a break, a crash (also inside a handler) or a skipped number; what is in flight at a break is lost or not | nothing is repeated or reordered in either direction, and nothing lost but the order a crash cuts off behind its number (`BothSidesAgree`); every message of the client is eventually received, unless the session is left with a stale queue, and every report arrives where no fault takes what the client had in flight (`MessagesArrive`) |
| `hkex` | two clients, one binary; 3 requests, 3 phase changes, 1 amendment, a lock, one change of reference data, registry, reference price or own phase; beside it, with orders that trade on entry in an open market, two rules: one drops a report of the first client, one rejects an order of the second, one delays until cleared | no limit order trades beyond the limits of its session on its own side; a locked auction never shrinks; an order's first report is its acceptance as received, or its refusal, and it is accepted once, unless one of its own reports was dropped, and up to the first that is delayed (`AcknowledgedFirst`) |
| `carried` | four orders: a sell above the closing auction's limits, a buy and a sell that cross inside them, an at-auction buy | expected to fail: the carried sell trades, at a price above the limits |
| `nse` | one box that requires encryption, two users, one trimmed; first packets that register, sign on in clear or are refused; 2 orders, a broken connection, 2 keys, one operator change or rule, ring of 2, 5 stamps | a download restores every report except those its ring had let go; no key encrypts two connections; a punctual member is not dropped; every report keeps its order's form; a broken box is given up |
| `nsefo` | one user, a combination or its near leg, 2 orders, reload, delay, break, download | after a download a member holds a confirmation in each leg of every fill; no leg is left behind |
| `supervise` | a venue and the board, one controller that waits for what it starts or not, three process ids | the pidfile names the one live daemon, or its controller is about to write it; a start that waits says started of a process that serves; every command returns |
| `console` | a browser on the tape, one that operates or streams, one fault, ring of 1, pages of 1 | every request gets its own answer and one; the tape is complete or marked; the board recovers |
| `wire` | two clients of one session over FIX, binary and the TLS router, or two connections of one NNF box, with or without a cipher; 1 to 4 messages, wrong lengths and checksums among them, room for 1 unit, 1 kill | messages are handled in order and completely; one connection feeds a session, unless a former one of a box is still being flushed; last words arrive |
| `codec` | two binary layouts with nested blocks, six NNF tables, values at the edges of their fields; beside them, never at the same time, the scenario runner with six suites of up to three files, two sessions, 5 messages from the simulator, commands that are answered, late, or answered with something else | tables that pass their check and stay clear of the header round-trip; what the dictionary accepts arrives and a frame of the wrong size is refused (`ReadingIsSound`); a file that passes has heard what it asked for (`VerdictsAreFounded`); the runner returns, unless it is sent something else than its answer for ever |

`supervise` checks for deadlock. The other configurations say `CHECK_DEADLOCK FALSE`:
an idle venue, session or board may wait for ever, and a bound on requests ends a
behaviour.

**Scenarios of `market`.** Each is cut to what it is about; the first state picks
one and `scenario` never changes, so the state space is the sum of theirs.

| Scenario | Instance |
|---|---|
| `continuous` | 3 orders of limit, market, IOC, FOK, MinQty and post-only requests, 1 amendment, cancels |
| `selftrade` | 3 orders of two firms, some with a shared key, all four modes, 1 mode change |
| `prechecks` | 4 orders, FOK and MinQty, all four modes |
| `phases` | 2 orders, 3 market-wide phase changes |
| `auction` | 4 orders at 3 prices and at-auction, one kind of which must not wait, NSE rules, reference price 2 |
| `board` | 3 orders at every price of a tick table with a threshold, the board centred by itself and by the operator |
| `halts` | 2 orders, post-only ones and some that must not wait, an instrument-level halt, market-wide calls, 3 commands |
| `queue` | 3 orders at one price, 2 amendments, a call and continuous trading |

**Bounds.** Three orders are what a self-trade prevention case needs (one to meet,
one behind it, one incoming), four are needed for a FOK order that meets its own
firm's order between two others and for auction ties between two candidates. Two
sizes let an order be left partly filled; two prices give a ladder with a better
and a worse level, three let an auction price lie between the ends. One
amendment, applied to a book of two others, reaches every branch of `amend`.

In `entry` three requests give a sweep of two resting orders, an amendment that
trades, and a name that is superseded and used again; the rules cover each action,
a count above 1 and an owner filter. Two logons start a behaviour, the third is a
return after a disconnect, with a phase change in between. Self-matches of unequal
size are reached by behaviours of two requests (`SelfMatchOnly`).

`MaxOut` and `MaxNumber` bound outbound numbers of the FIX runs; `MaxNumber` is
above anything the other bounds allow to be sent. Numbers up to 4 inbound give a gap
of two with a message above it and one behind.

The prices of `hkex` lie on both sides of both bands (17..23 before the opening,
19..21 before the close); three phase changes open a session, leave it and open the
other. Two keys and one break in `nse` give a connection, its loss and its successor;
a ring of 2 overflows by the acceptance, the trade and the cancel of one order, and
five stamps let a download be truncated and a report be lost for good. In
`console` a tape of one entry and pages of one make every poll face a truncation.
Three process ids let one be recycled while another daemon runs. Room for one unit makes
what a connection of `wire` says wait for its reader, so that its end does not come at
once. Two ticks of `link` are a probe and its expiry.

**Constraints of the MC modules.** The venue runs order rare events (a refused
request, an operator's change, a kill) before or after the first order instead of
anywhere, and allow one of them per behaviour, as the comments on `MCNext` say. They
restrict which behaviours TLC explores, not what an action does.

**Type invariants** are conjuncts of `MarketIsConsistent`, `ClientViewIsTrue` and
`OneDaemonPerService`, theorems for Market, order entry and FixSession, and part of the inductive
invariants of the stores, the NSE boxes, the supervisor, the board and the runner.

### Fairness

Every fairness condition is weak fairness on a step the process takes by itself; a
handler is never interrupted, and each turn of the reactor serves every ready
descriptor and every due timer.

- `Market`, `OrderEntry` and the venues: the iterations of the matching and auction
  loops, the rendering of events, timers that hold delayed reports. None on clients
  or operators.
- `FixLink`: the venue reading its socket, seeing a close and running its loops (none on
  ticks, what is due at one being open); the
  client reading, reconnecting and seeing a close, which is what a conforming client
  does. Breaks are bounded, so a connection eventually lasts.
- `NseVenue`: the loops, the passing of time and the tick of a second.
- `WebConsole`: each callback of the two reactors, the expiry of a call, and browsers
  that read. Faults are bounded.
- `Wire`: the reactor, and peers that read what the kernel holds for them (`LastWords`
  and `AllHandled` are about peers that do).
- `Scenario`: the runner's own next step. Its reads time out and the waits of a file have
  deadlines; nothing is assumed of the simulator. `RunnerReturns` excepts one that for
  ever sends the control connection something else than its answer.
- `Supervisor`: a controller's own next step. None on daemons: they may hang, and the
  waits of the code are timed.

## 4. Proofs

The proofs hold for every value of the constants that satisfies the named
assumptions: any number of orders, sessions, requests and messages.

| Theorem | Says |
|---|---|
| `MarketProofs!MarketCorrect` and its parts `TypeCorrect`, `StatusCorrect`, `BookCorrect` | types; executed never exceeds quantity and the status agrees with it; between requests an order is on the book exactly when it is live |
| `MarketProofs!MarketImplementsLedger`, `TerminalOrdersFinal` | the market refines the ledger; a terminal order never changes |
| `MarketProofs!FillsAreFair`, `ClosedBooksAreEmpty` | if call phases end in auctions and instruments are only ever halted: every fill, in both loops, is in price-time priority and inside both limits; nothing rests while no orders are accepted |
| `MarketProofs!BookIsNeverCrossed` | without call phases: the book is never locked or crossed and holds limit orders that may wait |
| `MarketProofs!RegistryCorrect`, `IdentifiersPermanent`, `EntryImplementsMarket` | an identifier is bound to exactly the order whose chain holds it, for good; every step of order entry is a market step or none |
| `FixSessionProofs!SessionTypeCorrect`, `OrdersProcessedOnce`, `NoDeliveryAfterDetach`, `OpenReplayHidesNothing` | the session's state; exactly-once in-order delivery; nothing delivered without a peer; open-ended replays hide nothing |
| `FixSessionProofs!NothingLostOrRepeated` | between the venue and a conforming client that asks for no new numbers, over any number of breaks, losses, probes, skipped numbers and crashes between or inside handlers: each side has processed exactly the application messages the other numbered below the number it expects, once and in order, but for the orders that crashes cut off between `set_next_in` and `on_message` |
| `JapannextProofs!JapannextImplementsEntry`, `VenueRegistryCorrect`, `VenueStatusCorrect` | the venue implements order entry for every configuration; its registry is correct; a client that is logged on was last told the phase its market is in |
| `JapannextProofs!ClientsAreToldTheTruth`, `ClientsKnowTheVenue` | of order entry, and of the venue for every configuration: a client hears of its own orders (and of injected ones it trades with); every request is answered; where no rule delays or drops reports, the totals of an order's fills ascend to what it executed and its last report is true; an end is told once; and the phase a client was told is the market's |
| `JapannextProofs!VenueBookFits`, `VenueTradesFair` | the two market theorems for every configuration of Japannext, whose phases have no call, if instrument-level states only stop trading |
| `HkexProofs!HkexMarketCorrect`, `HkexRegistryCorrect`, `HkexIdentifiersPermanent`, `HkexImplementsLedger` | the market's and the registry's theorems, and the refinement of the ledger, for everything the HKEX venue does to orders |
| `HkexProofs!AcknowledgementsComeFirst`, `AuctionsTradeInsideTheBand` | under any rules that reject orders and drop reports, an owner first hears of the acceptance of its order, or of its refusal, and of one acceptance only, unless a report of that order was dropped, and up to the first that is delayed; no limit order trades beyond its side's limit of the auction session |
| `NseProofs!NseImplementsBoxes`, `NseMarketCorrect` | every step of the NSE cash venue is a step of the boxes and their members, or none; its orders satisfy the market's invariants |
| `NseProofs!KeysAreFresh`, `PunctualMembersStay`, `DownloadsRecover`, `StampsAlwaysAscend`, `FormsAreKept` | no key serves two connections, one after the other or at once; a punctual member is not dropped (limits of at least 2); a download restores every report the ring had not let go; stamps ascend whatever the clock does; a report keeps the form of its order |
| `ToolsProofs!CommandsSound`, `TailComplete` | what a browser is told answers its own request; the audit view has shown or marked every entry of the living venue's tape |
| `ToolsProofs!PassesAreFounded` | a scenario file that passes heard, for each of its expectations, a message of its own, in this file |
| `FixStoreProofs!StoreSurvivesCrashes` and its parts `NumbersSurviveCrashes`, `InboundSurvivesCrashes`, `MessagesSurviveCrashes` | the store's property in the `session` run |
| `SupervisorProofs!DaemonsCorrect`, `StartCorrect` | while commands do not overlap, a daemon is the only one of its service and its pidfile names it; what `start` reports as started after waiting for it is the process it spawned, and it has loaded |

**Market.** The inductive invariant is `TypeOK`, `StatusAgreesWithFills`,
`BookInv`, `IssuedInv` and `TaskInv`. "The book holds exactly the live orders" is not inductive: in the middle
of a match the incoming order is live and off the book. `BookInv` therefore
excepts `cur`, and `TaskInv` says what `cur` is in each task (a live order off
the book while matching, none otherwise); `IssuedInv` says that what is not
yet issued is not on the book. The refinement proof maps every action to a
ledger step or a stutter, and `TerminalOrdersFinal` follows from it. The auction
price is opaque in these proofs: they hold whatever price is chosen.

**Fair fills and the book of a phase.** `FairInv` adds to this invariant what rests when:
each loop runs in the kind of phase it belongs to (`PhaseInv`), only orders without a
limit are priceless (`LimitsInv`), and the book is empty where no orders are accepted and
has no priceless order where they match (`RestInv`). The matching loop then meets the front
of the best level, and an auction the first of both sides that the price admits. `CallsEndInAuctions` asks that a call phase is
left into continuous trading through an auction, and that instrument-level states only
stop trading. The second is needed: the core executes no auction when an instrument-level
call state is lifted (`core/market.py:203`, section 6), and an order entered under an
instrument-level OPEN stays behind when it is cleared. Market-wide call phases and halts,
as in the `market` run, satisfy both.

`BookIsNeverCrossed` adds `QuietBookInv`: no bid reaches an offer, and nothing immediate
rests. It is preserved because an order is put on the book only when the loop found no
counterparty at its price (`MatchExists`). That a side with orders has a best one needs no
induction over data: order ids are numbers, and a set of them has a least (`LeastNumber`,
by well-foundedness). Under `NoCalls` nothing else adds to a book; after an auction the
same claim depends on the price it chose and stays with TLC. `JapannextAssumption`
implies `NoCalls`, so both theorems carry over to the venue along its refinement.

**Order entry.** `EntryStepsTheMarket` shows that every step is a step of Market or
leaves it alone, so `IInv` carries over. `RegistryInv` adds the types of the two
maps, their being inverse, and `ChainsInv`: an id that has not been issued has
no chain. Without the last, a new order could take over identifiers; and the proof needs
that no market step changes an order's owner (`OwnersKept`). What a step may do to the
registry is stated once (`RegistryNext`), so that a venue with requests of its own
inherits these theorems.

**What clients are told.** None of the five claims is inductive: they speak of the reports
sent, and a report passes through `events` and `held` first. `ReportInv` therefore counts
what was sent and what is yet to be sent as one line of statements. `RoutesInv`: each of
them names its order's owner. `Known`: the last statement about an order is true, except of
the order being matched before anything is said of it (`CurInv`); only the last one, because
a sweep leaves several events of one order and all but fills are rendered from the order
as it is later. `Ascending` and `Stated`: the totals of fills ascend along the line, up to
what was executed. `EndedInv`: one place of the line at most holds the end, and the order has
ended. `AnswerInv`: each name asked for is on a report, on an event to be rendered, or the
current one of the order being matched. A step then does one of three things. It `Produces`
events, of which `NewsOf` says that they tell of every order that has changed, the last of
them truly, and of an end only for an order that was live; `Produces` is proved for each
request, command and iteration, and preserves the invariant whoever it came from
(`ProducesKeeps`). It moves one statement on (`EmissionKeeps`, `ReleaseKeeps`), which leaves
the line as it is, unless a delay or a drop permits what `FillsAddUp` and
`LastReportIsCurrent` except. Or it refuses a request, which says nothing of an order
(`RefusalKeeps`). `NamesAssumption`, that no ClOrdID is the absent one, is needed:
an event without a name is rendered under its order's.

**Japannext venue.** `VenueSteps` sorts the venue's steps: a logon, a phase change that
broadcasts, and everything else, which tells nobody anything (`Quiet`) and is a step
of order entry or none. From it follow the refinement, with which the invariants of
order entry carry over, and `StatusInv`. The last needs that no other step of the
market moves its phase (`UntoldKeepsThePhase`), and that a broadcast reaches exactly
the clients for whom the status is claimed.

**HKEX venue.** `EngineNext` is everything a step of the venue does to orders, identifiers,
events and reports, and `VenueSteps` shows that the venue, its auction sessions, locks,
reloads and mass cancels included, does nothing else; the invariants of the market and of
the registry and the refinement of the ledger then carry over. "An owner hears of the
acceptance first" is about reports only, and not inductive: `AckInv` adds what is still
queued. Of an issued order, its owner was told of its opening, or a rule dropped one of
its reports, or its opening is the first thing queued about it (`IssuedIsTold`); an
acceptance is queued only first and before the owner was told (`EventsInv`, `ReportsInv`).
`WellTold` is the claim about one order and one list of reports; a report that names no
order, or another one, leaves it alone, and one that a rule drops makes the order `Lost`.
A delayed report is put behind later ones, so the invariant holds up to the first.

`NoneTradesThroughTheBand` is not inductive either: that a trade respects the limits is
decided long before it, when an order is let in, amended, or carried into the session.
`BandInv` says that while there are limits the session is open, that those of stage 1 and
those pinned at the lock lie inside them, and that every limit order on the book or on its
way there is on the right side of its limit. Before the lock an order is admitted by the
limits of stage 1; a lock pins those of stage 2, which may reach beyond them, so `band` is
the hull of what the session has had (nothing is claimed once an operator has moved the
reference price); of `HkexAssumption` the proof needs that prices and spreads are naturals.
The auction price is left open, so the theorem does not depend on how it is chosen: a
limit order trades at a price its own limit admits. For the same reason it claims nothing
of the other side, where a carried passive order does move the price beyond the limits
(`carried`, section 6).

**NSE boxes and cash venue.** `NnfNext` is what can happen to boxes and their members; all
steps of the venue, its auction, operators and timers included, are shown to be one of
these or none (`VenueStepsNnf`, with `HeldInv`: what a timer holds is addressed to a user),
so an invariant of the boxes is one of the venue. `NnfInv` has a part for each theorem.
`KeyInv` relates keys issued, in use and retired. `BeatInv` relates the age the venue
keeps, which survives a reconnect, to the member's own: either nothing was counted yet or
the venue's is no less, so that a punctual member is early at most once per connection;
hence `DropLimit >= 2`. `RecoveryInv` says that what a user misses and the ring has not let
go lies beyond its cursor and in the ring, or before a full ring's first stamp. The attempt
at this proof corrected the property: a download does *not* restore everything as long as
the store reports no truncation now, since a report let go earlier stays missing after
later downloads that are complete; `lost` collects these. `FormInv` says that the form
of an order is remembered from its first request until its last event has been rendered.

**FIX session.** The inductive invariant is `TypeOK`, `InOrder` (under the
hypothesis that every Logon carries its number, what was delivered is strictly
increasing and below `next_in`) and `QueueOnlyWhileActive` (the queue is drained
only on an active connection). `OpenReplayHidesNothing` uses `ReplayInv`, which
relates the replay's position to the run of administrative messages collected
so far.

The hypotheses are not conveniences: without `LogonsNumbered` an order can be
processed twice, without `OpenEnded` a gap fill hides
a report, and with `Tearing` a record is lost (section 6).

**FIX link.** `BothSidesAgree` compares what each side has processed with what the other
has numbered, so its invariant is about everything in between. `Told(l)` are the messages
that say of numbers what a log `l` used them for: an application message where there is
one, and anything else, gap fills included, only over numbers without one. `LinkInv` claims
that everything in flight, in either direction, or queued above a gap is `Told` by its
sender's log; that what the venue has in flight and does not mark as a possible duplicate
is new to the client, also once it has read what comes before (`InFlight`); and that the
gap a replay has open covers no report (`ReplayOpen`). Whoever consumes numbers in order
then misses nothing. A break may empty the channels because the claim is about every
message that is there, never that one is. A crash between `set_next_in` and the
application takes one number out of the claim, which `events.cut` collects: it lies below
what the venue expects, so nothing later adds to or takes from it. The hypothesis
`~ResetOnLogon` is needed: with `reset_on_logon` each Logon gives the numbers to other messages.

**FIX store.** `NumbersInv` orders the numbers in memory, on disk and
transmitted; `MessagesInv` says that the index in memory is the one a restart
would build, each number pointing to the last record under it.

**Supervisor.** The inductive invariant is `Shape`, `PortsInv` (whoever holds a port is a
daemon of that service that has loaded), `PlacesInv` (what the pidfile says at each place
in the code: nothing from the inspection to the write, the controller's process
afterwards) and `KnownInv` (a daemon is named by its pidfile, or by the controller about
to write it). That a service has one daemon is not inductive by itself: a spawn keeps it
only because `PlacesInv` says the pidfile is empty then, and `KnownInv` that a daemon
would be named there. What processes do by themselves, and what a signal does to them, is
one argument (`Tame`): none becomes a daemon and none goes back to loading. The
hypothesis `OneController` is needed: two overlapping `start`s spawn two daemons. A start
that does not wait claims nothing of what it reports, which is why `StartCorrect` is about
those that do.

**Web console.** `BoardInv` has one part per place a request can be. `ClaimInv`: a call's
number belongs to one request wherever it shows up (pending, on its way, answered), and the
next is new. `HandInv`: the board has one thing in hand for a browser, the request it waits
for or the answer. `GreetedInv`: behind a known token `auth` is the first command on a new
session. `LineInv` and `TailInv` carry the tail's cursor through the link: a page on its way
goes on from where the page is now. `TapeInv` and what a page of the ring returns are proved
by themselves. A restart, a lost connection or a late answer touches one or two parts. That
the commands of a reconnect take consecutive numbers came out of this proof.
`BoardAssumption` only says that one browser follows the tape and that `None` is nothing else.

**Scenario runner.** `RunnerInv` puts the messages of one file in one order: those in an
inbox were sent before those on the way, numbers are unique across sessions, every
connection is closed between files, and each message heard is older than anything still
waiting that its step would also accept. The last is what makes "none counted twice and
like ones in order" inductive. A verdict is then a reading of that state.

**Only model-checked:**

- liveness (fairness and ENABLED are outside the prover);
- `AllOrNothing`, `LadderAccountsForBook` and the uncrossed book after an auction, which
  are about the sum or the maximum over a set of orders (induction over data), and the
  auction's rule chain;
- `LockedVolumeNeverShrinks` of HkexVenue, which is about the greatest volume over all
  prices;
- NsefoVenue and Wire, which have no proofs yet, and Codec (nested blocks are
  recursive).

## 5. Limits of the models

- One instrument and one market; instruments share nothing but the phase.
- Prices are positive, also the differences of NSE F&O spreads: a book only compares
  them.
- Quantities are whole lots and prices multiples of one unit, except in MarketData,
  where the tick table is the point.
- Timers have no durations: what is due at a tick is left open, or an age that stops
  growing where nothing depends on it any more (NnfSession).
- A message its codec cannot encode is left out of FixSession; Codec says what encoding
  does to a value.
- `_save_state` failing without a crash (a full disk) is not modelled. It logs and goes
  on, so numbers that were transmitted are used again after a restart, which
  `CrashesLoseNothing` forbids.
- In FixSession `lo = 0` in a Logon is an absent NextExpectedMsgSeqNum. The `session` run
  has NextExpected on: a logon that carries none is then a session without it.
- Scenario leaves sequence numbers and headers to the codecs, and a tag of a file that is
  no number, or a value no codec encodes, which end in a traceback.
- FixSession takes a send as one step; the crashes between its writes are those of
  FixStore. What a reset truncates counts as given up there: a crash in the middle of a
  reset leaves numbers without the messages they belonged to, and a client that asks for
  them is told by a gap fill that there was nothing.
- What is due at a tick may be due at any tick, so a timer that the code forgets to call
  off would break no property of `link`.
- `Session.disconnect` closes at once and may take a Logout with it; `LastWords` is about
  connections that close when flushed.
- `LockedVolumeNeverShrinks` is about single requests: mass cancel and cancel on
  disconnect do not look at the lock (section 6).
- NnfApplication takes a connection that ends as gone with everything it had in flight.
  What a connection that was told to go, and is not flushed yet, still does to its box is
  part of Wire, without the stages of a sign-on.
- Supervisor has no programs but its own: a stranger that listens on a port is not
  modelled. A start that is interrupted between the spawn and the write of the pidfile
  leaves a daemon that nobody knows; `OneDaemonPerService` excepts the service from then
  on (`lost`).
- The dictionary of `codec` allows what its fields hold. HKEX's allows longer texts, which
  are cut (section 6).
- Behind its answer the TLS router closes at once on what it cannot read, and its answer
  may be lost with that (`Unreadable`).

**Not modelled.** The `exsim` command line: each command is one call of the control
plane. Certificates, DER and RSA (`tls/`), AES and GHASH (`nnf/crypto.py`):
arithmetic whose correctness is a matter of test vectors. Dictionaries, layouts and
transaction tables of the venues: data, about 5,000 lines of it; Codec is about what
tables like these do. Clock, configuration files, logging, HTML and the drawing of
pages. Fields of `describe` and of queries, which only format state.

## 6. Where the code and its comments disagree

The run `carried` shows one of these. `venues/hkex/auctions.py:138` says that a passive
order outside the band "is carried in and simply never matches", and
`tests/test_hkex_auction.py:550` tries it with one opposite at-auction order. But
`core/auction.py:120` takes every resting price as a candidate, does not know the limits,
and counts at-auction quantity at each of them. Where an at-auction order is larger than
what trades inside the limits, the greatest volume is at the passive order's price: the
auction price is beyond the limits and the order trades. It takes four orders: a carried
sell above the limits, a buy and a sell that cross inside them, and an at-auction buy.
What does hold is `NoneTradesThroughTheBand`: no buy pays more than the upper limit and no
sell receives less than the lower one.

The claims of the table are definitions of the modules, beside the property that holds in
their place. TLC refutes each of them in the instance of the run, when it is named in the
configuration as the property; the ones in brackets take the variant of the instance that
the MC module defines beside it.

| Claim | Run | What the code does | What holds |
|---|---|---|---|
| `NeverLessThanAsked`: FOK is "all-or-nothing, decided by a pre-check before anything executes" (`core/matching.py:9-15`) | `market` | `matching.py:141`: the pre-check leaves out orders of the same firm and counts what is behind them, but under CANCEL_NEWEST and DECREMENT the loop ends or shrinks the order there, after it has traded | `AllOrNothing` excepts that |
| `ImmediateNeverRests`: IOC and FOK "never rest on the book" (`core/enums.py:40`) | `market` | `matching.py:82`: in a call phase every order rests, and `market.py:166` expires only the priceless ones, so they stay into continuous trading | `BookFitsThePhase`: they come from a call |
| `QueueIsKept`: "lowering the quantity alone keeps its place" (`matching.py:371-373`) | `market` | `matching.py:403`: the level is sorted by entry sequence, so an order that an earlier amendment sent back gets the place it had lost, and orders that neither are amended change places | each fill follows the queue as it is (`TradesAreFair`) |
| `ContinuousBookNotCrossed` (`LiftScenario`): a crossed book in continuous trading is "impossible" (`book.py:214`) | `market` | `market.py:203`: leaving an instrument-level call phase enters continuous trading with whatever is on the book | `BookFitsThePhase`, with instrument-level states that take no orders |
| `GapFillsHideNoReport` (`BoundedRecovery`): a gap fill stands for administrative messages and numbers with nothing stored (`fix/session.py:606-608`) | `session` | `session.py:631`: the trailing gap fill of a bounded replay reaches next_out and hides what is behind the range | the same, with open-ended requests |
| `OrdersArrive`: "later messages queued until the gap closes, so nothing is silently dropped" (`session.py:8-9`) | `link` | `session.py:437`: a message that a gap fill has jumped over stays in the queue, and at the next gap no ResendRequest is sent | `MessagesArrive` excepts a queue that stays stale; of the reports, those of behaviours that lose what the client had in flight, as a ResendRequest above a gap is queued and swallowed by the gap fill that closes it (393) |
| `EveryOrderSurvives`: a kill is "survivable because the FIX sequence store is written and fsynced on every update" (`DETAILED_DOC.md:750-752`) | `link` | `session.py:361`: the inbound number is persisted before the application is called (367); killed in between, an order counts as received and is never processed, rejected or asked for | `BothSidesAgree`: nothing else is lost |
| `WholeSequence`: `require_encryption` "holds a member to the whole Chapter 10 sequence" (`config/nse.json:158-160`) | `nse` | `nse/handlers.py:101`: the router finds the box by the BoxId of the first packet, which a box sign-on carries too, and that looks neither at the state of the box nor at the option; the box then signs on in clear and never registers | `KeyServesOneConnection` |
| `IncumbentKeepsItsSession`: a second connection "is refused rather than displacing the incumbent" (`wire/acceptor.py:14`) | `wire` | `nnf/session.py:334`: a box connection detaches first and leaves its callbacks bound until it is flushed; it feeds, and its close detaches, the one that was bound in between | `SessionsAreFedInOrder`, `AllHandled` except the successor of such a connection |
| `MismatchDropsThePacket`: without a cipher "a checksum mismatch drops the packet rather than the connection" (`nnf/crypto.py:337-339`) | `wire` | `nnf/session.py:359`: every CryptoError ends in a sign-off and a disconnect | `SessionsAreFedInOrder`: what is behind the packet in the same read is handled all the same |
| `CheckIsEnough`: "no two fields of a structure overlap" (`tests/test_nse_dictionary.py:14`), by `Layout.check` | `codec` | `nnf/layout.py:313`: the check compares the fields of the body with one another, not with the header | `CheckedTablesRoundTrip`, of tables clear of the header |
| `RunnerNeverHangs`: "a hung client should fail on a timeout rather than spin" (`cli/client.py:3-5`) | `codec` | `client.py:77`: events and answers to other requests are skipped without a deadline; the timeout is that of each read | `RunnerReturns` excepts a simulator that goes on so for ever |

The conditions of other properties and theorems come from these:

- `core/market.py:115`: in continuous trading every amendment re-enters, so lowering a
  quantity loses priority; `matching.py:371-373` and `tests/test_engine.py:290-295` say
  it keeps it.
- `fix/store.py:137`: a record appended behind a torn one is lost at the next restart
  (3-5). Hence `Tearing = FALSE`.
- `venues/nse/venue.py:376` and NSEFO's twin drop the cancels of orders that a closed
  phase expires, which `core/market.py:190` says "the venue reports".
- `venues/nsefo/venue.py:551`: any reload compares combinations with the contract file
  and marks all of them non-tradable for good (`DETAILED_DOC.md:455`).
- `venues/hkex/handlers.py:452-473`: a rule may drop an acceptance, or delay it past the
  fill it should precede. Hence the exceptions of `AcknowledgedFirst`.

The others, by component:

- `core/market.py:203`: clearing an instrument-level state while the market is
  closed leaves the orders entered meanwhile on the book of a closed market.
- `fix/session.py:408`: a SequenceReset in reset mode with a number below the
  expected one ends the connection, because the number is checked first.
- `fix/session.py:535`: a Logon without MsgSeqNum skips the sequence check but
  advances the count, after which a message can be processed twice.
- `venues/japannext/handlers.py:275`: a client that trades with an injected order
  is sent that order's fill report too, because an owner without a session falls
  back to the session being served; `_order_new` says that `_emit` skips these.
  `ReportsGoToTheOwner` without its second disjunct is violated in two requests.
- `venues/japannext/handlers.py:243`: "ordering is preserved" holds between delayed
  reports only; a report that is not delayed overtakes them, and the last one a
  client sees may be the older. `LastReportIsCurrent` therefore excludes delays.
- `core/behaviour.py:16`: a dropped report is "a lost message that the client must
  recover by resend", but it consumes no number, so nothing can be resent
  (`_deliver` says so).
- `core/orders.py:196`: `is_duplicate` is "already used for anything", but the
  identifiers of orders refused before registration stay usable.
- `venues/japannext/handlers.py:372`: OrderReplaced is rendered from the order after
  re-entry, so its executed total runs ahead of the fill reports that follow.

- Japannext: a repeated `target_comp_id` quietly replaces the earlier session, which HKEX
  refuses; a cancel that names another market it may trade cancels the order wherever it
  is; a phase of one instrument is not broadcast.
- HKEX: `_restatement_for` uses the cancelled order's own instruction; `initial_state: PRE_OPEN`
  opens no session; after a reload that moves the segment, single cancels pass in the
  locked period; mass cancel and cancel on disconnect bypass the lock always.
- NSE: nothing consults the pre-open lock; it stays set when the market moves to CLOSED.
  A cancel of an unknown order from a trimmed client is refused in plain form. A
  truncated download is only logged.
- NNF: `_on_sign_on` never looks at the state of the box either; `on_data` goes on with later
  packets after a disconnect; a repeated registration restarts the
  cipher under its key, so IVs repeat; `_last_heartbeat` survives a reconnect; a second
  gateway request in the middle of a handshake fails the box sign-on, and one made while
  the old half-open connection lives is discarded when that is detached.
- NSEFO: `_price` treats zero as none, so a spread at difference zero is refused and a
  modification to zero keeps the old price, while `rules.ASSUMPTIONS` allows zero and
  negative ones; plain and spread modifications work on each other's orders, and
  SP_ORDER_MOD_IN never checks the legs; drop and delay rules apply to each leg message.
- Supervisor: a pid recycled during the wait of a stop lets `force_stop` kill a stranger;
  an editor or `check` whose command line mentions the configuration counts as the
  daemon; two controllers at once, or an interrupt between spawn and `write_pidfile`,
  orphan a daemon (`lost` in the model); a stranger on the port makes a start succeed;
  `logs -f` misses a rotation when the new file is already longer.
- Web: requests pipelined behind a proxied command wait until more data arrives
  (`tests/test_web_http.py:72` uses a handler that answers at once); a tail across a
  venue's restart skips entries silently, against the doc of `audit.Page`;
  `Audit.clear` leaves no mark; STATUS_TEXT lacks 409 and 504; the ladder's over and under
  leave out bids above and asks below a window that is off centre.
- Wire: `Framer.feed` drops complete messages that share a chunk with a later one it
  cannot frame; `Session.disconnect` closes at once, so a Logout the kernel has not taken is lost;
  a first
  NNF packet with a wrong checksum raises CryptoError, which is no MalformedMessage and
  ends the process; a half-close discards buffered output; a TLS close before the end of
  the handshake discards pending plaintext.
- Codec: a binary block is flat and positional: an entry that omits a member takes the
  next entry's, while `binary/layout.py` says only nested blocks are ambiguous;
  HKEX's dictionary
  allows longer SMPID, Text, SecurityExchange and Password than the binary fields hold,
  which cut them silently.
- Scenario: a command that is refused without `expect_error` raises CommandFailed, a
  ControlClientError, so `main` returns 3 and skips the other files, although the head
  of `scenario/runner.py` says 3 is "could not reach the simulator" and 1 a failed step;
  the framer survives a reconnect, with the half message of the old connection in it;
  an OSError of `sendall` and a malformed session declaration end in a traceback.

## 7. Plan

Modelled in order of importance: an order's life in the market, what clients are told
of it, the sessions that carry it, the four venues, and the processes around them. What
is left:

1. Proofs about NsefoVenue: `MemberKnowsItsTrades`, which needs an invariant on events and
   reports like `AckInv`, over the boxes of NseProofs. `TradesAreFair` for HkexVenue, whose
   instrument-level phases are outside `CallsEndInAuctions`.
2. A clock for the FIX timers, and a save that fails without a crash in FixStore.
3. Two markets in JapannextVenue and two books in NsefoVenue, to state that they do not
   interact instead of assuming it.
4. An abstract exactly-once channel that FixLink refines.

A component gets one run with scenarios; a property gets a mutant that a plausible slip
of the code would be.
