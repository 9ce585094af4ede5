----------------------------- MODULE OrderEntry -----------------------------
(***************************************************************************)
(* Order entry at a FIX venue: core/engine.py with the registry of         *)
(* core/orders.py in front of one Market, and venues/japannext/handlers.py *)
(* behind it, which renders the events of a request as execution reports   *)
(* and routes each to the session that owns the order.  The rules of       *)
(* core/behaviour.py reject orders, and drop or delay reports.             *)
(*                                                                         *)
(* A handler collects its events, then emits them.  The matching loop and  *)
(* the emission are unrolled into steps; every request waits for both to   *)
(* end.  A delayed report waits for its timer in between.                  *)
(***************************************************************************)
EXTENDS Market, SequencesExt

CONSTANTS
    Clients,        \* the sessions with a FIX connection; the others own the
                    \* orders that the control plane injects
    Names,          \* ClOrdIDs
    AckOnEntry,     \* MatchingEngine.ack_on_entry: acceptances precede matching
    RuleChoices,    \* the behaviour rules operators set
    MaxRules,       \* bound: rules set over a behaviour
    MaxRequests     \* bound: requests over a behaviour

RuleActions == {"reject", "delay", "drop"}

\* count = 0 applies until removed; owner = NoKey matches every order; delay
\* only ranks the delays.
Rule == [action : RuleActions, count : Nat, owner : Sessions \cup {NoKey}, delay : Nat]

ASSUME ClientsAssumption == Clients \subseteq Sessions /\ NoKey \notin Sessions
ASSUME NamesAssumption   == NoKey \notin Names
ASSUME AckAssumption     == AckOnEntry \in BOOLEAN
ASSUME RulesAssumption   == RuleChoices \subseteq Rule
ASSUME EntryBounds       == MaxRules \in Nat /\ MaxRequests \in Nat

VARIABLES chain,      \* Order.chain of every order; the last is its cl_ord_id
          index,      \* OrderRegistry._by_cl_ord_id, 0 where there is none
          events,     \* what the handler still has to emit
          origin,     \* the session whose message is handled, NoKey for none
          behaviour,  \* BehaviourStore._rules
          held,       \* the reports waiting for a timer
          sent,       \* the reports handed to Session.send, for each client
          asked,      \* history: the names clients have sent requests under
          dropped,    \* history: the reports that were dropped
          delayed,    \* history: has a report been delayed?
          ruled,      \* rules set so far
          requests    \* requests so far

registryVars == << chain, index >>
reportVars   == << behaviour, held, sent, dropped, delayed, ruled >>
entryVars    == << registryVars, events, origin, reportVars, asked, requests >>
allVars      == << vars, entryVars >>

NoOrder == 0

Ready == task = "idle" /\ events = << >>

CurrentName(o) == Last(chain[o])

----------------------------------------------------------------------------
(* core/orders.py: OrderRegistry *)

\* Mutant: only the current identifier of an order counts as used.
IsDuplicateOfCurrent(key, name) ==
    \E o \in OrderIds : chain[o] # << >> /\ orders[o].session = key
                        /\ CurrentName(o) = name

IsDuplicate(key, name) == index[<<key, name>>] # NoOrder

\* Mutant: the chain grows and the index is forgotten.
BindChainOnly(o, key, name) ==
    /\ chain' = [chain EXCEPT ![o] = Append(@, name)]
    /\ UNCHANGED index

Bind(o, key, name) ==
    /\ chain' = [chain EXCEPT ![o] = Append(@, name)]
    /\ index' = [index EXCEPT ![<<key, name>>] = o]

\* The order whose current identifier this is, NoOrder if there is none.
Resolve(key, name) ==
    LET o == index[<<key, name>>]
    IN  IF o # NoOrder /\ CurrentName(o) = name THEN o ELSE NoOrder

----------------------------------------------------------------------------
(* core/behaviour.py: BehaviourStore *)

\* find: the first rule of an action that matches the order's owner, or 0.
Find(action, owner) ==
    SelectInSeq(behaviour, LAMBDA rule :
        rule.action = action /\ rule.owner \in {NoKey, owner})

\* take and _reap: one application is used up, and the rule with its last one.
Taken(i) ==
    LET rule == behaviour[i]
    IN  IF rule.count = 1 THEN RemoveAt(behaviour, i)
        ELSE IF rule.count = 0 THEN behaviour
        ELSE [behaviour EXCEPT ![i].count = @ - 1]

----------------------------------------------------------------------------
(* core/events.py: an event names its order and the order's owner.  Only   *)
(* OrderFilled and OrderAccepted carry a snapshot; the rest is read when   *)
(* it is rendered.                                                         *)

Event(kind, o) ==
    [kind |-> kind, order |-> o, owner |-> orders[o].session, name |-> NoKey,
     qty |-> 0, cum |-> 0]

FillEvent(o) ==
    [Event("FILLED", o) EXCEPT !.qty = orders'[o].qty, !.cum = orders'[o].cum]

AcceptEvent(o, ord, owner) ==
    [Event("ACCEPTED", o) EXCEPT !.owner = owner, !.qty = ord.qty, !.cum = ord.cum]

\* An order refused before it is registered, and a refused cancel or replace
\* (which may name no order, and then matches no rule).
RejectEvent(key, name) ==
    [kind |-> "REJECTED", order |-> NoOrder, owner |-> key, name |-> name,
     qty |-> 0, cum |-> 0]

CancelRejectEvent(o, key, name) ==
    [kind |-> "CANCEL_REJECTED", order |-> o,
     owner |-> IF o = NoOrder THEN NoKey ELSE key, name |-> name,
     qty |-> 0, cum |-> 0]

Replacing == events # << >> /\ Head(events).kind = "REPLACED"

\* _rest: an acceptance is reported for an order that reaches the book untraded,
\* and not for one that was acknowledged before, on entry or before it re-enters.
AcceptEvents(o, ord, reentry) ==
    IF ord.cum = 0 /\ ~reentry /\ ~AckOnEntry
    THEN << AcceptEvent(o, ord, ord.session) >> ELSE << >>

\* _acknowledge: every order that is not refused, before anything is matched.
\* Market.amend filters the acceptance of an order that re-enters.
Acknowledged(o, ord, reentry) ==
    IF AckOnEntry /\ ~reentry THEN << AcceptEvent(o, ord, ord.session) >> ELSE << >>

\* What MatchingEngine.submit reports up to its loop.
SubmitEvents(o, owner, reentry) ==
    LET ord      == orders'[o]
        of(kind) == << [Event(kind, o) EXCEPT !.owner = owner] >>
    IN  IF ord.status = "REJECTED" THEN of("REJECTED")
        ELSE Acknowledged(o, ord, reentry) \o
             (IF task' = "match" THEN << >>
              ELSE IF ord.status = "CANCELLED" THEN of("CANCELLED")
              ELSE AcceptEvents(o, ord, reentry))

----------------------------------------------------------------------------
(* The matching loop, with the events of each iteration *)

Loop(produced) ==
    /\ events' = events \o produced
    /\ UNCHANGED << registryVars, origin, reportVars, asked, requests >>

MatchDoneEvents(o) ==
    LET ord == orders[o]
    IN  IF LeavesQty(ord) = 0 THEN << >>
        ELSE IF RemainderExpires(ord) THEN << Event("CANCELLED", o) >>
        ELSE AcceptEvents(o, ord, Replacing)

DecrementEvents(o, r) ==
    LET incoming == LeavesQty(orders[o])
        resting  == LeavesQty(orders[r])
    IN  IF incoming = resting
        THEN << Event("CANCELLED", r), Event("CANCELLED", o) >>
        ELSE IF resting < incoming
        THEN << Event("CANCELLED", r), Event("DECREMENTED", o) >>
        ELSE << Event("DECREMENTED", r), Event("CANCELLED", o) >>

EntryMatchStep ==
    \E o \in OrderIds :
        \/ MatchDone(o) /\ Loop(MatchDoneEvents(o))
        \/ \E r \in OrderIds :
              \/ MatchExecute(o, r) /\ Loop(<< FillEvent(r), FillEvent(o) >>)
              \/ StpCancelNewest(o, r) /\ Loop(<< Event("CANCELLED", o) >>)
              \/ StpCancelOldest(o, r) /\ Loop(<< Event("CANCELLED", r) >>)
              \/ StpDecrement(o, r) /\ Loop(DecrementEvents(o, r))

----------------------------------------------------------------------------
(* core/engine.py: requests.  A client's name is remembered as asked.      *)

Request(from, name) ==
    /\ Ready
    /\ requests < MaxRequests
    /\ requests' = requests + 1
    /\ origin' = IF from \in Clients THEN from ELSE NoKey
    /\ asked' = IF from \in Clients
                THEN [asked EXCEPT ![from] = @ \cup {name}] ELSE asked

Answer(event) ==
    /\ events' = << event >>
    /\ UNCHANGED << vars, registryVars >>

\* new_order, for a client (_on_new_order) or the control plane (order.new):
\* refused as a duplicate, by a rule, or by the validator, which rejects every
\* order in a closed phase and any order for reasons of its own.
NewDuplicate(key, name) ==
    /\ Request(key, name)
    /\ IsDuplicate(key, name)
    /\ Answer(RejectEvent(key, name))
    /\ UNCHANGED reportVars

NewForcedReject(key, name) ==
    LET i == Find("reject", key)
    IN  /\ Request(key, name)
        /\ ~IsDuplicate(key, name)
        /\ i # 0
        /\ behaviour' = Taken(i)
        /\ Answer(RejectEvent(key, name))
        /\ UNCHANGED << held, sent, dropped, delayed, ruled >>

NewInvalid(key, name) ==
    /\ Request(key, name)
    /\ ~IsDuplicate(key, name)
    /\ Find("reject", key) = 0
    /\ Answer(RejectEvent(key, name))
    /\ UNCHANGED reportVars

NewAccepted(key, name, r) ==
    /\ r.session = key
    /\ Request(key, name)
    /\ ~IsDuplicate(key, name)
    /\ Find("reject", key) = 0
    /\ NewOrder(r)
    /\ Bind(nextId, key, name)
    /\ events' = SubmitEvents(nextId, key, FALSE)
    /\ UNCHANGED reportVars

\* _resolve: the identifier is fresh, it names a live order, side and symbol
\* agree.  The last is the client's choice.
Unresolved(key, name, orig) ==
    LET o == Resolve(key, orig)
    IN  /\ Request(key, name)
        /\ \/ /\ IsDuplicate(key, name) \/ o = NoOrder
              /\ Answer(CancelRejectEvent(NoOrder, key, name))
           \/ /\ ~IsDuplicate(key, name)
              /\ o # NoOrder
              /\ Answer(CancelRejectEvent(o, key, name))
        /\ UNCHANGED reportVars

Resolved(key, name, orig, o) ==
    /\ Request(key, name)
    /\ ~IsDuplicate(key, name)
    /\ o = Resolve(key, orig)
    /\ o \in OrderIds

\* cancel_order: the order takes the request's identifier, then is cancelled.
CancelOrderRequest(key, name, orig, o) ==
    /\ Resolved(key, name, orig, o)
    /\ Cancel(o)
    /\ Bind(o, key, name)
    /\ events' = << Event("CANCELLED", o) >>
    /\ UNCHANGED reportVars

\* replace_order: OrderReplaced comes before what re-entering produces.
ReplaceOrder(key, name, orig, o, a) ==
    /\ Resolved(key, name, orig, o)
    /\ Amend(o, a)
    /\ Bind(o, key, name)
    /\ events' = << Event("REPLACED", o) >>
                    \o SubmitEvents(o, key, TRUE)
    /\ UNCHANGED reportVars

----------------------------------------------------------------------------
(* Requests that cancel several orders, and the operator's commands *)

\* OrderBook.orders: bids before asks, each level in its order.  The levels
\* come in the order they were created, which is left open here.
BookSequences(S) ==
    {q \in SetToSeqs(S) :
        \A i, j \in DOMAIN q : i < j =>
            /\ ~(orders[q[i]].side = "SELL" /\ orders[q[j]].side = "BUY")
            /\ (/\ orders[q[i]].side = orders[q[j]].side
                /\ orders[q[i]].price = orders[q[j]].price)
               => place[q[i]] < place[q[j]]}

CancelEvents(S) ==
    \E q \in BookSequences(S) :
        events' = [i \in DOMAIN q |-> Event("CANCELLED", q[i])]

\* cancel_session_orders on_logout, with cancel on disconnect, where the session
\* itself is the fallback; orders.cancel_all, for one session or for all.
CancelMany(keys, from) ==
    /\ Ready
    /\ requests < MaxRequests
    /\ requests' = requests + 1
    /\ origin' = from
    /\ CancelAll(keys)
    /\ CancelEvents({o \in OnBook : orders[o].session \in keys})
    /\ UNCHANGED << registryVars, reportVars, asked >>

\* order.cancel.
AdminCancel(o) ==
    /\ Ready
    /\ requests < MaxRequests
    /\ requests' = requests + 1
    /\ origin' = NoKey
    /\ Cancel(o)
    /\ events' = << Event("CANCELLED", o) >>
    /\ UNCHANGED << registryVars, reportVars, asked >>

\* set_trading_state: the orders a closed phase expires are reported.
SetState(s) ==
    /\ Ready
    /\ SetMarketState(s) \/ SetInstrumentState(s)
    /\ origin' = NoKey
    /\ CancelEvents({o \in OnBook : orders'[o] # orders[o]})
    /\ UNCHANGED << registryVars, reportVars, asked, requests >>

\* state.clear and stp.set report nothing.
SilentCommand ==
    /\ Ready
    /\ ClearInstrumentState \/ \E m \in StpChoices : SetStpMode(m)
    /\ UNCHANGED entryVars

SetBehaviour(rule) ==
    /\ Ready
    /\ ruled < MaxRules
    /\ ruled' = ruled + 1
    /\ behaviour' = Append(behaviour, rule)
    /\ UNCHANGED << vars, registryVars, events, origin, held, sent, dropped,
                    delayed, asked, requests >>

\* behaviour.clear, of one rule or of all.
ClearBehaviour ==
    /\ Ready
    /\ behaviour # << >>
    /\ \/ behaviour' = << >>
       \/ \E i \in DOMAIN behaviour : behaviour' = RemoveAt(behaviour, i)
    /\ UNCHANGED << vars, registryVars, events, origin, held, sent, dropped,
                    delayed, ruled, asked, requests >>

----------------------------------------------------------------------------
(* venues/japannext/handlers.py: reports *)

\* _session_for: the owner's session, else the one being served, else none.
SessionFor(event) ==
    IF event.owner \in Clients THEN event.owner ELSE origin

\* The status a report states, which is not always the order's.
ReportedStatus(event) ==
    CASE event.kind = "FILLED" ->
            IF event.cum >= event.qty THEN "FILLED" ELSE "PARTIALLY_FILLED"
      [] event.kind = "ACCEPTED"  -> "NEW"
      [] event.kind = "CANCELLED" -> "CANCELLED"
      [] event.kind = "REJECTED"  -> "REJECTED"
      [] OTHER -> IF event.order = NoOrder THEN "REJECTED"
                  ELSE orders[event.order].status

\* Mutant: the totals of a fill are read when it is rendered.
RenderLate(event) ==
    [kind |-> event.kind, order |-> event.order,
     name |-> IF event.name # NoKey THEN event.name ELSE CurrentName(event.order),
     status |-> ReportedStatus(event),
     qty |-> IF event.order = NoOrder THEN 0 ELSE orders[event.order].qty,
     cum |-> IF event.order = NoOrder THEN 0 ELSE orders[event.order].cum]

\* A fill restates the totals of its snapshot.
Render(event) ==
    [kind |-> event.kind, order |-> event.order,
     name |-> IF event.name # NoKey THEN event.name ELSE CurrentName(event.order),
     status |-> ReportedStatus(event),
     qty |-> CASE event.kind = "FILLED" -> event.qty
               [] event.order = NoOrder -> 0
               [] OTHER -> orders[event.order].qty,
     cum |-> CASE event.kind = "FILLED" -> event.cum
               [] event.order = NoOrder -> 0
               [] OTHER -> orders[event.order].cum]

Send(to, report) == sent' = [sent EXCEPT ![to] = Append(@, report)]

\* A control-plane request has no session to fall back to.
EmitNowhere(event) ==
    /\ SessionFor(event) = NoKey
    /\ UNCHANGED << behaviour, held, sent, dropped, delayed >>

\* _deliver.  An event without an order matches no rule: its owner is NoKey.
Ruled(action, event) ==
    IF event.owner = NoKey THEN 0 ELSE Find(action, event.owner)

EmitDropped(event, report) ==
    LET i == Ruled("drop", event)
    IN  /\ SessionFor(event) # NoKey
        /\ i # 0
        /\ behaviour' = Taken(i)
        /\ dropped' = dropped \cup {[to |-> SessionFor(event), report |-> report]}
        /\ UNCHANGED << held, sent, delayed >>

EmitDelayed(event, report) ==
    LET i == Ruled("delay", event)
    IN  /\ SessionFor(event) # NoKey
        /\ Ruled("drop", event) = 0
        /\ i # 0
        /\ behaviour' = Taken(i)
        /\ held' = Append(held, [to |-> SessionFor(event), report |-> report,
                                 delay |-> behaviour[i].delay])
        /\ delayed' = TRUE
        /\ UNCHANGED << sent, dropped >>

EmitSent(event, report) ==
    /\ SessionFor(event) # NoKey
    /\ Ruled("drop", event) = 0
    /\ Ruled("delay", event) = 0
    /\ Send(SessionFor(event), report)
    /\ UNCHANGED << behaviour, held, dropped, delayed >>

EmitAs(event, report) ==
    /\ \/ EmitNowhere(event)
       \/ EmitDropped(event, report)
       \/ EmitDelayed(event, report)
       \/ EmitSent(event, report)
    /\ events' = Tail(events)
    /\ UNCHANGED << vars, registryVars, origin, ruled, asked, requests >>

Emit ==
    /\ task = "idle"
    /\ events # << >>
    /\ EmitAs(Head(events), Render(Head(events)))

\* Mutant: the report is lost with its timer.
ReleaseLost(i) ==
    /\ Ready
    /\ held' = RemoveAt(held, i)
    /\ UNCHANGED << vars, registryVars, events, origin, behaviour, sent, dropped,
                    delayed, ruled, asked, requests >>

\* A timer: deadlines are a delay away from when they were set, so a report never
\* overtakes an earlier one with the same or a shorter delay.
Release(i) ==
    /\ Ready
    /\ \A j \in 1..(i - 1) : held[j].delay > held[i].delay
    /\ Send(held[i].to, held[i].report)
    /\ held' = RemoveAt(held, i)
    /\ UNCHANGED << vars, registryVars, events, origin, behaviour, dropped, delayed,
                    ruled, asked, requests >>

ReleaseStep == \E i \in DOMAIN held : Release(i)

----------------------------------------------------------------------------

EntryInit ==
    /\ Init
    /\ chain = [o \in OrderIds |-> << >>]
    /\ index = [k \in Sessions \X Names |-> NoOrder]
    /\ events = << >>
    /\ origin = NoKey
    /\ behaviour = << >>
    /\ held = << >>
    /\ sent = [c \in Clients |-> << >>]
    /\ asked = [c \in Clients |-> {}]
    /\ dropped = {}
    /\ delayed = FALSE
    /\ ruled = 0
    /\ requests = 0

NewStep(key, name) ==
    \/ NewDuplicate(key, name)
    \/ NewForcedReject(key, name)
    \/ NewInvalid(key, name)
    \/ \E r \in Requests : NewAccepted(key, name, r)

ChangeStep(key, name, orig) ==
    \/ Unresolved(key, name, orig)
    \/ \E o \in OrderIds :
          \/ CancelOrderRequest(key, name, orig, o)
          \/ \E a \in Amendments : ReplaceOrder(key, name, orig, o, a)

RequestStep ==
    \/ \E key \in Sessions, name \in Names : NewStep(key, name)
    \/ \E key \in Clients, name, orig \in Names : ChangeStep(key, name, orig)
    \/ \E key \in Clients : CancelMany({key}, key)
    \/ \E keys \in {{key} : key \in Clients} \cup {Sessions} : CancelMany(keys, NoKey)
    \/ \E o \in OrderIds : AdminCancel(o)

CommandStep ==
    \/ \E s \in Phases : SetState(s)
    \/ SilentCommand
    \/ \E rule \in RuleChoices : SetBehaviour(rule)
    \/ ClearBehaviour

EntryNext == RequestStep \/ CommandStep \/ EntryMatchStep \/ Emit \/ ReleaseStep

\* The loops of a handler run to their end, and the reactor expires every timer.
EntrySpec ==
    /\ EntryInit
    /\ [][EntryNext]_allVars
    /\ WF_allVars(EntryMatchStep) /\ WF_allVars(Emit) /\ WF_allVars(ReleaseStep)

=============================================================================
