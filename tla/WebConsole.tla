----------------------------- MODULE WebConsole -----------------------------
(***************************************************************************)
(* The web board between its browsers and a venue: the HTTP connections    *)
(* (web/http.py), the command proxy and event streams (web/app.py), the    *)
(* link that keeps a control connection up (web/link.py) and the control   *)
(* server at its other end (control/server.py), each served by a reactor   *)
(* of its own (core/reactor.py).                                           *)
(*                                                                         *)
(* The venue stops and comes back, the connection breaks, browsers ask,    *)
(* wait and leave, and the venue's own clients trade meanwhile.  One       *)
(* browser also follows the audit tape the way the board's page does.      *)
(***************************************************************************)
EXTENDS ControlPlane

CONSTANTS Browsers,
          Tailer,        \* the browser whose page follows the audit tape
          Leavers,       \* the browsers that may close before their answer
          Asked,         \* what each browser asks for
          OneShot,       \* what is asked with Connection: close
          AllowMarketControl, AllowAudit,
          LinkToken,     \* the token the board is configured with
          MaxRequests, MaxFaults, MaxActs

(* A request of a browser: what it asks, and the number that tells it from *)
(* the others.                                                             *)
Tags == Browsers \X (Nat \ {0})
Requests == [cmd : UNION {Asked[b] : b \in Browsers}, tag : Tags, keep : BOOLEAN,
             after : Nat \cup {None}]

ASSUME BoardAssumption ==
    /\ None \notin Nat \cup Tags \cup Requests
    /\ Tailer \in Browsers

VARIABLES venue,   \* the venue process: [up, life, ses, audit, desk]
          link,    \* the VenueLink: [conn, retry, ids, pending, topics]
          wire,    \* [up, down]: lines sent to the venue and to the board
          http,    \* the HTTP connection of each browser, at the board
          waits,   \* the request each browser waits for
          tail,    \* the audit view of the tailing browser
          used     \* how much of each bound is spent

vars == <<venue, link, wire, http, waits, tail, used>>

NoHttp == [open |-> FALSE, closing |-> FALSE, buffer |-> <<>>, responder |-> None,
           stream |-> FALSE, out |-> <<>>]

Init ==
    /\ venue = [up |-> FALSE, life |-> 0, ses |-> NoSession, audit |-> NewAudit, desk |-> NewDesk]
    /\ link = [conn |-> "connecting", retry |-> FALSE, ids |-> 1, pending |-> {}, topics |-> FALSE]
    /\ wire = [up |-> <<>>, down |-> <<>>]
    /\ http = [b \in Browsers |-> NoHttp]
    /\ waits = [b \in Browsers |-> None]
    /\ tail = [after |-> None, life |-> 0, seen |-> {}, gaps |-> {}]
    /\ used = [requests |-> [b \in Browsers |-> 0], faults |-> 0, acts |-> 0]

-----------------------------------------------------------------------------
(* The board answers a browser: Responder.send.                            *)

Reply(tag, code, page) == [tag |-> tag, code |-> code, page |-> page]

(* The response to the request in hand; the connection then waits for the  *)
(* next request, or closes once this has gone out.                         *)
Answer(h, reply) ==
    [h EXCEPT !.responder = None, !.closing = ~h.responder.keep, !.out = Append(@, reply)]

(* The callbacks of some calls run: each answers its own request, unless   *)
(* the browser has gone.                                                   *)
Settle(calls, code, page) ==
    http' = [b \in Browsers |->
                IF http[b].responder # None /\ \E p \in calls : p.tag = http[b].responder.tag
                THEN Answer(http[b], Reply(http[b].responder.tag, code, page))
                ELSE http[b]]

-----------------------------------------------------------------------------
(* The link: VenueLink.                                                    *)

Line(id, cmd, tag, after) == [id |-> id, cmd |-> cmd, tag |-> tag, after |-> after]

AuthLine(id) == IF LinkToken # None THEN <<Line(id, "auth", None, None)>> ELSE <<>>
TopicsLine(id) == IF link.topics THEN <<Line(id, "subscribe", None, None)>> ELSE <<>>

(* Mutant: the topics are asked for before the token is given.             *)
GreetingLate(id) == LET topics == TopicsLine(id) IN topics \o AuthLine(id + Len(topics))

(* The lines of a new connection: the token first, then every topic.       *)
Greeting(id) == LET auth == AuthLine(id) IN auth \o TopicsLine(id + Len(auth))

Accepted == [venue EXCEPT !.ses = NewSession]

(* _complete_connect: the attempt has ended well, and the venue accepts.   *)
Connects ==
    /\ link.conn = "connecting" /\ venue.up
    /\ link' = [link EXCEPT !.conn = "open", !.ids = @ + Len(Greeting(@))]
    /\ venue' = Accepted
    /\ wire' = [up |-> Greeting(link.ids), down |-> <<>>]
    /\ UNCHANGED <<http, waits, tail, used>>

(* What on_close does: calls in flight fail and one redial is scheduled.   *)
Closed == link' = [link EXCEPT !.conn = "none", !.pending = {}, !.retry = TRUE]

ConnectFails ==
    /\ link.conn = "connecting" /\ ~venue.up
    /\ Closed /\ Settle(link.pending, "unavailable", None)
    /\ UNCHANGED <<venue, wire, waits, tail, used>>

(* The stream from the venue ends, after what the kernel still had.        *)
LinkCloses ==
    /\ link.conn = "open" /\ ~venue.ses.open /\ wire.down = <<>>
    /\ Closed /\ Settle(link.pending, "unavailable", None)
    /\ wire' = [wire EXCEPT !.up = <<>>]
    /\ UNCHANGED <<venue, waits, tail, used>>

(* Reactor.connect: the attempt is started, its outcome is for the loop.   *)
Dialling(conn) == IF conn = "none" THEN "connecting" ELSE conn

Redial ==
    /\ link.retry
    /\ link' = [link EXCEPT !.retry = FALSE, !.conn = Dialling(@)]
    /\ UNCHANGED <<venue, wire, http, waits, tail, used>>

(* Mutant: the number of a call is taken from those in flight.             *)
NextIdByCount == Cardinality(link.pending) + 1

NextId == link.ids

(* link.call for the request in hand of browser b.                         *)
Call(b, h, request) ==
    IF link.conn # "open"
    THEN /\ http' = [http EXCEPT ![b] = Answer(h, Reply(request.tag, "unavailable", None))]
         /\ UNCHANGED <<link, wire>>
    ELSE /\ http' = [http EXCEPT ![b] = h]
         /\ link' = [link EXCEPT !.ids = @ + 1,
                        !.pending = @ \cup {[id |-> NextId, tag |-> request.tag]}]
         /\ wire' = [wire EXCEPT !.up =
                        Append(@, Line(NextId, request.cmd, request.tag, request.after))]

(* A reply completes the call that waits for its number; a reply nobody    *)
(* waits for is the greeting's or too late.                                *)
LinkReads ==
    /\ link.conn = "open" /\ wire.down # <<>>
    /\ LET line == Head(wire.down)
           calls == {p \in link.pending : p.id = line.id}
       IN  /\ link' = [link EXCEPT !.pending = @ \ calls]
           /\ http' = [b \in Browsers |->
                 IF http[b].responder # None /\ \E p \in calls : p.tag = http[b].responder.tag
                 THEN Answer(http[b], line.reply)
                 ELSE http[b]]
    /\ wire' = [wire EXCEPT !.down = Tail(@)]
    /\ UNCHANGED <<venue, waits, tail, used>>

(* The timer of one call.                                                  *)
CallExpires(p) ==
    /\ p \in link.pending
    /\ link' = [link EXCEPT !.pending = @ \ {p}]
    /\ Settle({p}, "timeout", None)
    /\ UNCHANGED <<venue, wire, waits, tail, used>>

-----------------------------------------------------------------------------
(* The board's HTTP side.                                                  *)

(* Which power a command needs that this board does not have: the       *)
(* audit, or market control for a change.                                  *)
Forbidden(cmd) ==
    \/ cmd = "audit" /\ ~AllowAudit
    \/ cmd \notin QuietCommands /\ ~AllowMarketControl

(* A complete request, taken when no earlier one is in hand: a stream is   *)
(* opened, which also subscribes the link, the request is refused by the   *)
(* board itself, or a command is proxied.  What the stream then carries is *)
(* not followed to its browser.                                            *)
Takes(b) ==
    /\ http[b].open /\ http[b].buffer # <<>>
    /\ http[b].responder = None /\ ~http[b].stream
    /\ LET request == Head(http[b].buffer)
           h == [http[b] EXCEPT !.buffer = Tail(@), !.responder = request]
           proxied == request.cmd \notin {"events", "malformed"}
       IN  \/ /\ request.cmd = "malformed"
              /\ http' = [http EXCEPT ![b] =
                             [Answer(h, Reply(request.tag, "bad_request", None)) EXCEPT
                                 !.buffer = <<>>, !.closing = TRUE]]
              /\ UNCHANGED <<link, wire>>
           \/ /\ request.cmd = "events"
              /\ http' = [http EXCEPT ![b] =
                             [Answer(h, Reply(request.tag, "ok", None)) EXCEPT
                                 !.closing = FALSE, !.stream = TRUE]]
              /\ link' = [link EXCEPT !.topics = TRUE,
                             !.ids = IF ~link.topics /\ link.conn = "open" THEN @ + 1 ELSE @]
              /\ wire' = IF ~link.topics /\ link.conn = "open"
                         THEN [wire EXCEPT !.up = Append(@, Line(NextId, "subscribe", None, None))]
                         ELSE wire
           \/ /\ proxied /\ Forbidden(request.cmd)
              /\ http' = [http EXCEPT ![b] = Answer(h, Reply(request.tag, "forbidden", None))]
              /\ UNCHANGED <<link, wire>>
           \/ /\ proxied /\ ~Forbidden(request.cmd)
              /\ Call(b, h, request)
    /\ UNCHANGED <<venue, waits, tail, used>>

(* Mutant: a connection that is not kept alive is closed at once.          *)
DrainsCut(b) ==
    /\ http[b].open /\ http[b].closing
    /\ http' = [http EXCEPT ![b] = NoHttp]
    /\ UNCHANGED <<venue, link, wire, waits, tail, used>>

(* close_when_flushed has nothing left to send.                            *)
Drains(b) ==
    /\ http[b].open /\ http[b].closing /\ http[b].out = <<>>
    /\ http' = [http EXCEPT ![b] = NoHttp]
    /\ UNCHANGED <<venue, link, wire, waits, tail, used>>

-----------------------------------------------------------------------------
(* The venue.                                                              *)

VenueStarts ==
    /\ ~venue.up
    /\ venue' = [venue EXCEPT !.up = TRUE, !.life = @ + 1]
    /\ UNCHANGED <<link, wire, http, waits, tail, used>>

(* The process ends: the listener and every control session with it.       *)
VenueStops ==
    /\ venue.up /\ used.faults < MaxFaults
    /\ used' = [used EXCEPT !.faults = @ + 1]
    /\ venue' = [up |-> FALSE, life |-> venue.life, ses |-> NoSession,
                 audit |-> NewAudit, desk |-> NewDesk]
    /\ \E kept \in KeptAtClose(wire.down) : wire' = [up |-> <<>>, down |-> kept]
    /\ UNCHANGED <<link, http, waits, tail>>

(* The connection is reset: what was on its way is lost.                   *)
Breaks ==
    /\ venue.ses.open /\ used.faults < MaxFaults
    /\ venue' = [venue EXCEPT !.ses = NoSession]
    /\ wire' = [up |-> <<>>, down |-> <<>>]
    /\ used' = [used EXCEPT !.faults = @ + 1]
    /\ UNCHANGED <<link, http, waits, tail>>

(* Lines to the board: what the command published first, then its reply.   *)
Push == [id |-> None, reply |-> None]
Sent(published, line) ==
    IF published /\ venue.ses.subscribed THEN <<Push, line>> ELSE <<line>>

(* One line: refused without authentication, and recorded all the same; or *)
(* dispatched, recorded and answered.                                      *)
VenueReads ==
    /\ venue.ses.open /\ wire.up # <<>>
    /\ LET line == Head(wire.up)
           cmd == line.cmd
           To(code, page) == [id |-> line.id, reply |-> Reply(line.tag, code, page)]
           Down(published, code, page) ==
               wire' = [up |-> Tail(wire.up), down |-> wire.down \o Sent(published, To(code, page))]
       IN  \/ /\ unauthorised(venue.ses, cmd)
              /\ venue' = [venue EXCEPT !.audit = record(@)]
              /\ Down(FALSE, "unauthorised", None)
           \/ /\ cmd = "auth"
              /\ LET good == Token \in {None, LinkToken}
                 IN  /\ venue' = [venue EXCEPT !.ses.authenticated = @ \/ good]
                     /\ Down(FALSE, IF good THEN "ok" ELSE "unauthorised", None)
           \/ /\ cmd = "subscribe" /\ ~unauthorised(venue.ses, cmd)
              /\ venue' = [venue EXCEPT !.ses.subscribed = TRUE]
              /\ Down(FALSE, "ok", None)
           \/ /\ cmd = "audit" /\ ~unauthorised(venue.ses, cmd)
              /\ UNCHANGED venue
              /\ Down(FALSE, "ok", [entries(venue.audit, line.after) EXCEPT !.life = venue.life])
           \/ /\ cmd \notin {"auth", "subscribe", "audit"} /\ ~unauthorised(venue.ses, cmd)
              /\ LET o == handler(cmd, venue.desk)
                 IN /\ venue' = [venue EXCEPT !.desk = o.desk,
                                              !.audit = dispatched(@, cmd)]
                    /\ Down(o.published, o.code, None)
    /\ UNCHANGED <<link, http, waits, tail, used>>

(* The venue's own client enters an order or cancels the one it has, and   *)
(* is refused when the symbol is gone; the message goes on the tape and a  *)
(* change of the book is published.                                        *)
ClientActs ==
    /\ venue.up /\ used.acts < MaxActs
    /\ used' = [used EXCEPT !.acts = @ + 1]
    /\ LET n == 1 - venue.desk.live
       IN  /\ venue' = [venue EXCEPT !.desk.live = IF venue.desk.listed THEN n ELSE @,
                                     !.audit = record(@)]
           /\ wire' = IF venue.ses.subscribed /\ venue.desk.listed
                      THEN [wire EXCEPT !.down = Append(@, Push)] ELSE wire
    /\ UNCHANGED <<link, http, waits, tail>>

-----------------------------------------------------------------------------
(* The browsers.                                                           *)

(* A browser asks one thing at a time, on its connection or on a new one.  *)
Asks(b) ==
    /\ waits[b] = None /\ used.requests[b] < MaxRequests[b]
    /\ ~http[b].closing /\ ~http[b].stream
    /\ LET tag == <<b, used.requests[b] + 1>>
       IN  /\ \E cmd \in Asked[b] :
                 http' = [http EXCEPT ![b].open = TRUE,
                            ![b].buffer = Append(@, [cmd |-> cmd, tag |-> tag,
                                              keep |-> cmd \notin OneShot,
                                              after |-> IF b = Tailer THEN tail.after ELSE None])]
           /\ waits' = [waits EXCEPT ![b] = tag]
    /\ used' = [used EXCEPT !.requests[b] = @ + 1]
    /\ UNCHANGED <<venue, link, wire, tail>>

(* The audit view takes a page: its cursor moves to the end of the tape,   *)
(* and a page that says so leaves a mark for what lies before it.          *)
Follows(page) ==
    LET first == tail.after = None
        least == IF page.seqs = {} THEN page.last_seq + 1
                 ELSE CHOOSE q \in page.seqs : \A r \in page.seqs : q <= r
        Entries(seqs) == {page.life} \X seqs
    IN  [after |-> IF page.last_seq = 0 THEN None ELSE page.last_seq,
         life |-> IF first \/ page.life = tail.life THEN page.life ELSE 0,
         seen |-> IF first THEN Entries((1 .. (least - 1)) \cup page.seqs)
                  ELSE tail.seen \cup Entries(page.seqs),
         gaps |-> IF first THEN {}
                  ELSE IF page.truncated
                  THEN tail.gaps \cup Entries((tail.after + 1) .. (least - 1))
                  ELSE tail.gaps]

BrowserReads(b) ==
    /\ http[b].open /\ http[b].out # <<>>
    /\ LET page == Head(http[b].out).page
       IN  tail' = IF b = Tailer /\ page # None THEN Follows(page) ELSE tail
    /\ waits' = [waits EXCEPT ![b] = None]
    /\ http' = [http EXCEPT ![b].out = Tail(@)]
    /\ UNCHANGED <<venue, link, wire, used>>

(* A browser closes its connection while it waits, or its stream.          *)
Leaves(b) ==
    /\ b \in Leavers /\ http[b].open /\ (waits[b] # None \/ http[b].stream)
    /\ http' = [http EXCEPT ![b] = NoHttp]
    /\ waits' = [waits EXCEPT ![b] = None]
    /\ UNCHANGED <<venue, link, wire, tail, used>>

-----------------------------------------------------------------------------
Board ==
    \/ Connects \/ ConnectFails \/ LinkCloses \/ Redial \/ LinkReads
    \/ \E p \in link.pending : CallExpires(p)
    \/ \E b \in Browsers : Takes(b) \/ Drains(b)

Next ==
    \/ Board \/ VenueReads \/ VenueStarts \/ VenueStops \/ Breaks \/ ClientActs
    \/ \E b \in Browsers : Asks(b) \/ BrowserReads(b) \/ Leaves(b)

(* The reactors serve: the board reads, its timers fire, its connection    *)
(* attempts end; a venue that is up reads its lines; a browser reads what  *)
(* it is sent.  Nothing makes a venue start, stop or keep a connection.    *)
Fairness ==
    /\ WF_vars(Connects) /\ WF_vars(ConnectFails) /\ WF_vars(LinkCloses)
    /\ WF_vars(Redial) /\ WF_vars(LinkReads) /\ WF_vars(VenueReads)
    /\ WF_vars(\E p \in link.pending : CallExpires(p))
    /\ \A b \in Browsers : WF_vars(Takes(b)) /\ WF_vars(Drains(b)) /\ WF_vars(BrowserReads(b))

Spec == Init /\ [][Next]_vars /\ Fairness

-----------------------------------------------------------------------------
(* Properties.                                                             *)

(* What a browser is told answers the request it made: no late reply, no   *)
(* reply of another connection and no reply to another browser's request   *)
(* is taken for it.                                                        *)
AnswersMatch ==
    \A b \in Browsers : \A i \in DOMAIN http[b].out : http[b].out[i].tag = waits[b]

(* Behind a token the board knows, nothing a browser asks is ever refused  *)
(* as unauthorised, on the first connection and on every later one.        *)
NeverUnauthorised ==
    Token \in {None, LinkToken} =>
        \A b \in Browsers : \A i \in DOMAIN http[b].out : http[b].out[i].code # "unauthorised"

(* While the venue lives, the audit view has shown every entry of its tape *)
(* up to the cursor, or marked the gap it is in.                           *)
TailMissesNothing ==
    (tail.after # None /\ tail.life = venue.life) =>
        {venue.life} \X (1 .. tail.after) \subseteq tail.seen \cup tail.gaps

(* Live orders always belong to an instrument of the universe.             *)
LiveOrdersAreListed == venue.desk.live > 0 => venue.desk.listed

(* What a browser has done to the venue, and been told, is what it asked   *)
(* for: whatever connection, retry or other browser was in between.        *)
CommandsAreSound ==
    /\ AnswersMatch
    /\ NeverUnauthorised
    /\ LiveOrdersAreListed

(* Every request is answered, or its browser leaves: by the board, by the  *)
(* venue, by a disconnect or by the timer.                                 *)
EveryRequestAnswered ==
    \A b \in Browsers : waits[b] # None ~> waits[b] = None

(* A venue that stays up is dialled again, and what the board streams is   *)
(* subscribed to again.                                                    *)
BoardRecovers ==
    <>[](venue.up) => <>[](link.conn = "open" /\ venue.ses.open
                           /\ (link.topics => venue.ses.subscribed))
=============================================================================
