--------------------------- MODULE NnfApplication ---------------------------
(***************************************************************************)
(* What the two NNF venues' applications have in common, translated from   *)
(* venues/nse/handlers.py (venues/nsefo/handlers.py repeats it, line by    *)
(* line): the box sequence, the requests of a user, and the reports, on    *)
(* the engine of OrderEntry and the boxes of NnfSession.                   *)
(*                                                                         *)
(* An order has no client identifier: requests name it by the OrderNumber, *)
(* so the registry's names stay empty here.  Reports go to the order's     *)
(* owner, or to the message store when the owner is not signed on, in the  *)
(* encoding the order came in.                                             *)
(*                                                                         *)
(* What an order must satisfy, and what the operator may do, is the        *)
(* venue's.                                                                *)
(***************************************************************************)
EXTENDS OrderEntry, NnfSession

CONSTANTS
    BrokersOf,          \* NseVenue._boxes
    BrokerOf,           \* NnfSessionConfig.broker_id
    CancelOnDisconnect, \* the users configured for it
    Trimmed,            \* the users whose software speaks the trimmed structures
    RequireEncryption,  \* nnf.require_encryption
    Stream              \* nnf.stream

\* What _build_sessions and _add_user insist on.
ValidBoxes ==
    /\ \A b \in Boxes : BrokersOf[b] # {}
    /\ \A u \in Users : BrokerOf[u] \in BrokersOf[BoxOf[u]]
    /\ Stream \in 1..127

ASSUME NnfApplicationAssumption ==
    /\ ValidBoxes
    /\ Clients = Users /\ Names = {} /\ AckOnEntry
    /\ CancelOnDisconnect \subseteq Users /\ Trimmed \subseteq Users
    /\ RequireEncryption \in BOOLEAN

VARIABLES kept,      \* NseApplication._references and ._trimmed of every order
          batch,     \* the orders whose events have been emitted
          shown      \* history: the last report that was rendered

reportMemo == << kept, batch, shown >>
appVars    == << allVars, nnfVars, reportMemo >>

idleEntry == << registryVars, sent, asked, dropped, delayed >>

----------------------------------------------------------------------------
(* handlers.py: the box sequence.  bx is the box as the packet finds it.   *)

Inbound(b) == Ready /\ Readable(b) /\ last < MaxStamps

\* The router finds the box by the BoxId of the first packet, which a
\* registration and a box sign-on carry.
FirstPacket(b) == Ready /\ ~Connected(b) /\ last < MaxStamps

\* _emit of on_logout: the cancels of the users that go, which have no session
\* any more.
CancelOrdersOf(S) ==
    LET gone == {o \in OnBook : orders[o].session \in S \cap CancelOnDisconnect}
    IN  /\ orders' = Cancelled(gone)
        /\ place' = Removed(place, gone)
        /\ CancelEvents(gone)
        /\ origin' = NoKey
        /\ UNCHANGED << arrivals, nextId, phaseVars, taskVars, amends,
                        idleEntry, behaviour, held, ruled, requests, reportMemo >>

Quiescent == UNCHANGED << allVars, reportMemo >>

\* A connection that ends: closed by the peer, for silence, by box.kill, after a
\* packet that cannot be read, or with an error that was sent before.
Disconnect(b) ==
    /\ Ready
    /\ Detach(b)
    /\ CancelOrdersOf(users[b])
    /\ inbox' = Unsynced(users[b])
    /\ UNCHANGED << records, last >>

ConnectionClosed(b) == Disconnect(b)

BoxKill(b) == Disconnect(b)

TickDisconnects(b) == Quiet(b) /\ Disconnect(b)

\* A packet that does not verify, as every packet under another key; 19031 is
\* sent first.
ChecksumFailure(b) == ~member[b].broken /\ Disconnect(b)

\* A box error, then the connection goes: a registration for another box, box
\* sign-on with the wrong session key or for a broker the box does not serve.
BoxRefused(b) == Readable(b) /\ Disconnect(b)

\* _on_registration, which opens a connection, or comes again on one.
OnRegistration(b) ==
    /\ FirstPacket(b)
    /\ RequireEncryption => issued[b] # NoSecret
    /\ Attach(b, member[b].key)
    /\ box' = [box EXCEPT ![b] = Registered(Attached(@), issued[b])]
    /\ SendUnfiled
    /\ UNCHANGED << users, live, sessions, issued, secrets, retired >>
    /\ Quiescent

RegisteredAgain(b) ==
    /\ Inbound(b)
    /\ RequireEncryption => issued[b] # NoSecret
    /\ box' = [box EXCEPT ![b] = Registered(Heard(@), issued[b])]
    /\ member' = [member EXCEPT ![b].cipher = member[b].key]
    /\ SendUnfiled
    /\ UNCHANGED << users, live, sessions, issued, secrets, retired >>
    /\ Quiescent

\* The connection is dropped again with its first packet, and what was issued to
\* the box with it: a registration for which no key was collected (19030), a box
\* sign-on with the wrong session key or broker, or what does not validate.
FirstPacketRefused(b) ==
    /\ FirstPacket(b)
    /\ box' = [box EXCEPT ![b] = [Attached(@) EXCEPT !.state = "DISCONNECTED"]]
    /\ Forget(b)
    /\ SendUnfiled
    /\ UNCHANGED << users, live, sessions, member, secrets, retired >>
    /\ Quiescent

\* _on_box_sign_on.  The session key is compared with what was issued last.
KeyAccepted(b) == issued[b] # NoSecret => member[b].key = issued[b]

\* It may come first: the state of the box is not looked at, and the connection
\* stays in clear, whatever the configuration requires, until it registers.
BoxSignOnFirst(b) ==
    /\ FirstPacket(b)
    /\ KeyAccepted(b)
    /\ Attach(b, NoSecret)
    /\ box' = [box EXCEPT ![b] = SignedOn(Attached(@))]
    /\ SendUnfiled
    /\ UNCHANGED << users, live, sessions, issued, secrets, retired >>
    /\ Quiescent

OnBoxSignOn(b) ==
    /\ Inbound(b)
    /\ KeyAccepted(b)
    /\ box' = [box EXCEPT ![b] = SignedOn(Heard(@))]
    /\ SendUnfiled
    /\ UNCHANGED << users, live, sessions, issued, member, secrets, retired >>
    /\ Quiescent

\* _on_sign_on.  The state of the box is not looked at.
OnSignOn(b, u) ==
    /\ Inbound(b)
    /\ BoxOf[u] = b
    /\ ~LoggedOn(u)
    /\ SignOnUser(b, u)
    /\ box' = [box EXCEPT ![b] = Heard(@)]
    /\ SendTo(u)
    /\ Quiescent

\* Another box's user, one who is signed on, or another broker: a box error.
SignOnRefused(b) ==
    /\ Inbound(b)
    /\ box' = [box EXCEPT ![b] = Heard(@)]
    /\ SendUnfiled
    /\ UNCHANGED << users, live, sessions, issued, member, secrets, retired >>
    /\ Quiescent

\* The echo is stamped; one heartbeat too many ends the connection.
OnHeartbeat(b) ==
    \/ /\ Ready
       /\ Heartbeat(b)
       /\ SendUnfiled
       /\ Quiescent
    \/ LastHeartbeat(b) /\ Disconnect(b)

----------------------------------------------------------------------------
(* handlers.py: requests of a user.  on_message files the session again.   *)

Message(u) ==
    /\ Inbound(BoxOf[u])
    /\ LoggedOn(u)
    /\ box' = [box EXCEPT ![BoxOf[u]] = Heard(@)]
    /\ sessions' = sessions \cup {u}
    /\ UNCHANGED << users, live, issued, member, secrets, retired >>

NseRequest(u) ==
    /\ Message(u)
    /\ requests < MaxRequests
    /\ requests' = requests + 1
    /\ origin' = u
    /\ UNCHANGED << storeVars, idleEntry, held, ruled, batch, shown >>

\* _remember: the member's reference is kept with the first, the encoding is
\* that of the last trimmed request.
Remember(u, o) ==
    kept' = IF o = NoOrder THEN kept
            ELSE [kept EXCEPT ![o] = IF u \in Trimmed THEN "TRIMMED"
                                     ELSE IF @ = "NONE" THEN "PLAIN" ELSE @]

\* _reject_change, for whatever is refused before the engine sees it, and for a
\* transaction that has no handler.
RejectChange(u) ==
    /\ Message(u)
    /\ SendTo(u)
    /\ Quiescent

OnNewOrder(u, r, valid) ==
    /\ r.session = u
    /\ NseRequest(u)
    /\ \/ /\ Find("reject", u) # 0
          /\ behaviour' = Taken(Find("reject", u))
          /\ events' = << RejectEvent(u, NoKey) >>
          /\ UNCHANGED << vars, kept >>
       \/ /\ Find("reject", u) = 0
          /\ ~valid
          /\ events' = << RejectEvent(u, NoKey) >>
          /\ UNCHANGED << vars, behaviour, kept >>
       \/ /\ Find("reject", u) = 0
          /\ valid
          /\ NewOrder(r)
          /\ events' = SubmitEvents(nextId, u, FALSE)
          /\ Remember(u, nextId)
          /\ UNCHANGED behaviour

\* _named_order by OrderID: another's order is as unknown as no order.
Named(u, o) == IF o < nextId /\ orders[o].session = u THEN o ELSE NoOrder

\* The order is unknown, or has ended, or the amendment does not validate.
ChangeRejected(u, o, invalid) ==
    LET named == Named(u, o)
    IN  /\ NseRequest(u)
        /\ \/ named = NoOrder
           \/ named # NoOrder /\ ~IsLive(orders[o])
           \/ named # NoOrder /\ IsLive(orders[o]) /\ invalid
        /\ events' = << CancelRejectEvent(named, u, NoKey) >>
        /\ Remember(u, named)
        /\ UNCHANGED << vars, behaviour >>

OnCancel(u, o) ==
    \/ ChangeRejected(u, o, FALSE)
    \/ /\ NseRequest(u)
       /\ Named(u, o) # NoOrder
       /\ Cancel(o)
       /\ events' = << Event("CANCELLED", o) >>
       /\ Remember(u, o)
       /\ UNCHANGED behaviour

OnModify(u, o, a, valid) ==
    \/ ChangeRejected(u, o, ~valid)
    \/ /\ NseRequest(u)
       /\ Named(u, o) # NoOrder
       /\ IsLive(orders[o])
       /\ valid
       /\ Amend(o, a)
       /\ events' = << Event("REPLACED", o) >> \o SubmitEvents(o, u, TRUE)
       /\ Remember(u, o)
       /\ UNCHANGED behaviour

\* _on_sign_off, and session.kill without its reply: the reply goes out first.
OnSignOff(u) ==
    /\ Inbound(BoxOf[u])
    /\ LoggedOn(u)
    /\ SignOff(BoxOf[u], u)
    /\ box' = [box EXCEPT ![BoxOf[u]] = Heard(@)]
    /\ CancelOrdersOf({u})
    /\ \E now \in Clock : Stamped(now)
    /\ records' = [records EXCEPT ![u] = Recorded(@, last')]
    /\ inbox' = [inbox EXCEPT ![u] = [Noted(@, last', Reaches(u)) EXCEPT !.synced = FALSE]]

SessionKill(u) ==
    /\ Ready
    /\ LoggedOn(u)
    /\ SignOff(BoxOf[u], u)
    /\ CancelOrdersOf({u})
    /\ inbox' = Unsynced({u})
    /\ UNCHANGED << box, records, last >>

OnSystemInformation(u) ==
    /\ Message(u)
    /\ SendUnfiled
    /\ Quiescent

\* _stream_of: the stream asked for, or any.
StreamServed(stream) == stream \in {0, Stream}

\* _on_download_request: a header, what the store holds after the cursor, a
\* trailer.  The records go in order and keep their stamps, so that the member's
\* cursor ends at the last.
Downloaded(u) ==
    LET in       == inbox[u]
        places   == After(u, in.cursor)
        replayed == {records[u][i] : i \in places}
    IN  [in EXCEPT !.missing = @ \ replayed,
                   !.cursor  = IF places = {} THEN @ ELSE records[u][Max(places)],
                   !.synced  = TRUE]

\* What the ring has dropped of what the cursor wanted: it is only logged.
LostTo(u) ==
    IF Truncated(u, inbox[u].cursor)
    THEN {stamp \in inbox[u].missing : stamp < Head(records[u])}
    ELSE {}

OnDownloadRequest(u, stream) ==
    /\ Message(u)
    /\ inbox' = IF ~StreamServed(stream) THEN inbox
                ELSE [inbox EXCEPT ![u] = [Downloaded(u) EXCEPT !.lost = @ \cup LostTo(u)]]
    /\ UNCHANGED << records, last >>
    /\ Quiescent

----------------------------------------------------------------------------
(* handlers.py: reports *)

\* _code_for and _base_report.  A refusal that names no order is plain, and an
\* order that was refused is remembered until its report has gone.
Form(event) ==
    IF event.order # NoOrder THEN kept[event.order]
    ELSE IF event.kind = "REJECTED"
    THEN IF event.owner \in Trimmed THEN "TRIMMED" ELSE "PLAIN"
    ELSE "PLAIN"

NseRender(event) ==
    [kind |-> event.kind, order |-> event.order, owner |-> event.owner,
     form |-> Form(event)]

\* TERMINAL_STATUSES.
HasEnded(o) == orders[o].status \in {"FILLED", "CANCELLED", "REJECTED"}

\* Mutant: an order is forgotten with every report.
ForgetReported(done) == [o \in OrderIds |-> IF o \in done THEN "NONE" ELSE kept[o]]

\* _forget, once the last report of the handler has been rendered.
ForgetEnded(done) ==
    [o \in OrderIds |-> IF o \in done /\ HasEnded(o) THEN "NONE" ELSE kept[o]]

\* _session_for: an order of a user belongs to its user, signed on or not.
TargetFor(event) ==
    IF event.owner \in Users THEN event.owner ELSE origin

EmitStep(event) ==
    /\ events' = Tail(events)
    /\ shown' = NseRender(event)
    /\ IF Tail(events) = << >>
       THEN kept' = ForgetEnded(batch \cup {event.order}) /\ batch' = {}
       ELSE batch' = batch \cup {event.order} /\ UNCHANGED kept
    /\ UNCHANGED << vars, boxVars, idleEntry, origin, ruled, requests >>

\* Nobody to tell, or a user who is away; rules apply to neither.
EmitAway(event) ==
    /\ TargetFor(event) \notin sessions
    /\ IF TargetFor(event) \in Users THEN Retain(TargetFor(event))
       ELSE UNCHANGED storeVars
    /\ UNCHANGED << behaviour, held >>

EmitLost(event) ==
    LET i == Ruled("drop", event)
    IN  /\ TargetFor(event) \in sessions
        /\ i # 0
        /\ behaviour' = Taken(i)
        /\ UNCHANGED << storeVars, held >>

EmitLater(event, what) ==
    LET i == Ruled("delay", event)
    IN  /\ TargetFor(event) \in sessions
        /\ Ruled("drop", event) = 0
        /\ i # 0
        /\ behaviour' = Taken(i)
        /\ held' = Append(held, [to |-> TargetFor(event), report |-> what,
                                 delay |-> behaviour[i].delay])
        /\ UNCHANGED storeVars

EmitNow(event) ==
    /\ TargetFor(event) \in sessions
    /\ Ruled("drop", event) = 0
    /\ Ruled("delay", event) = 0
    /\ SendTo(TargetFor(event))
    /\ UNCHANGED << behaviour, held >>

\* _deliver, of one message.
Deliver(event, what) ==
    \/ EmitAway(event)
    \/ EmitLost(event)
    \/ EmitLater(event, what)
    \/ EmitNow(event)

\* The timer sends through the session it was set with, signed on or not.
ReleaseHeld ==
    /\ Ready
    /\ \E i \in DOMAIN held :
          /\ \A j \in 1..(i - 1) : held[j].delay > held[i].delay
          /\ SendTo(held[i].to)
          /\ held' = RemoveAt(held, i)
    /\ UNCHANGED << vars, boxVars, idleEntry, events, origin, behaviour, ruled,
                    requests, reportMemo >>

----------------------------------------------------------------------------

AppInit ==
    /\ EntryInit
    /\ NnfInit
    /\ kept = [o \in OrderIds |-> "NONE"]
    /\ batch = {}
    /\ shown = [kind |-> "NONE", order |-> NoOrder, owner |-> NoKey, form |-> "PLAIN"]

\* on_box_message, and the network.
BoxStep(b) ==
    \/ (Ready /\ GrRequest(b) /\ Quiescent)
    \/ (Ready /\ ConnectionBreaks(b) /\ Quiescent)
    \/ OnRegistration(b) \/ RegisteredAgain(b) \/ FirstPacketRefused(b)
    \/ BoxSignOnFirst(b) \/ OnBoxSignOn(b) \/ BoxRefused(b) \/ ChecksumFailure(b)
    \/ \E u \in Users : OnSignOn(b, u)
    \/ SignOnRefused(b)
    \/ OnHeartbeat(b)
    \/ ConnectionClosed(b) \/ BoxKill(b)

\* on_message, but for the requests that reach the engine.
SessionStep(u) ==
    \/ RejectChange(u)
    \/ OnSignOff(u) \/ SessionKill(u)
    \/ OnSystemInformation(u)
    \/ \E stream \in {0, Stream, Stream + 1} : OnDownloadRequest(u, stream)

AppMatchStep == EntryMatchStep /\ UNCHANGED << nnfVars, reportMemo >>

Passes == Ready /\ PassTime /\ Quiescent

Ticks == \E b \in Boxes : TickDisconnects(b)

----------------------------------------------------------------------------
(* The operator: venues/common_commands.py *)

Operator == UNCHANGED << nnfVars, idleEntry, behaviour, held, ruled, reportMemo >>

OperatorOrder(r, valid) ==
    /\ r.session \notin Users
    /\ Ready
    /\ valid
    /\ NewOrder(r)
    /\ events' = SubmitEvents(nextId, r.session, FALSE)
    /\ origin' = NoKey
    /\ Operator
    /\ UNCHANGED requests

OperatorCancel(S) ==
    /\ Ready
    /\ S # {}
    /\ orders' = Cancelled(S)
    /\ place' = Removed(place, S)
    /\ CancelEvents(S)
    /\ origin' = NoKey
    /\ Operator
    /\ UNCHANGED << arrivals, nextId, phaseVars, taskVars, amends, requests >>

AppSetBehaviour(rule) == SetBehaviour(rule) /\ UNCHANGED << nnfVars, reportMemo >>

----------------------------------------------------------------------------
(* Properties *)

\* "this is where the client gets it back" (_on_download_request): a member that
\* signs on and downloads from where it lost its place has every report of its
\* own, whatever happened while it was away and however often the connection
\* broke, but for those that the store has said its ring has lost.
DownloadRecovers ==
    \A u \in Users :
        inbox[u].synced /\ ~member[BoxOf[u]].broken => inbox[u].missing \subseteq inbox[u].lost

\* "the key here is fresh per box per connection" (gateway_router.issue): no
\* connection is encrypted with a key that an earlier one used.
KeyServesOneConnection == \A b \in Boxes : box[b].cipher \notin retired

\* "Turn it on to hold a member to the whole Chapter 10 sequence"
\* (requires_encryption): a user signs on over a box that has registered, and
\* goes on under the key that was issued to it.
WholeSequence ==
    RequireEncryption => \A u \in Users : LoggedOn(u) => box[BoxOf[u]].cipher # NoSecret

\* A member that has sent no two heartbeats within an interval on its connection
\* may send the next when it is due: it is not the one too many that disconnects
\* the box (_on_heartbeat), though the age of the last heartbeat that the venue
\* compares it with outlives the connection it came on.
PunctualMemberStays ==
    \A b \in Boxes :
        ~member[b].eager /\ member[b].beat = Interval => ~LastHeartbeat(b)

\* "A report about an order goes back in the encoding that order arrived in,
\* including the unsolicited ones" (_trimmed), and carries its reference: for
\* every report of a user's order, to the last one.
ReportsKeepTheirForm ==
    shown.order # NoOrder /\ shown.owner \in Users =>
        shown.form = IF shown.owner \in Trimmed THEN "TRIMMED" ELSE "PLAIN"

\* "Disconnect a box that has gone quiet for two heartbeat intervals" (tick): a
\* connection whose other end has gone is given up.
BrokenBoxIsDropped ==
    \A b \in Boxes : member[b].broken ~> ~Connected(b)

=============================================================================
