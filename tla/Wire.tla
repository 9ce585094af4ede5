-------------------------------- MODULE Wire --------------------------------
(***************************************************************************)
(* From the socket to the session: a buffered connection (core/reactor.py) *)
(* with its plain or TLS transport (tls/transport.py), the framers of the  *)
(* three encodings (fix/message.py, binary/message.py, nnf/packet.py), the *)
(* router that holds an unidentified connection until its first message    *)
(* names a session (wire/acceptor.py), what a session or a box does with   *)
(* the bytes it is given (fix/session.py, nnf/session.py), and the one     *)
(* exchange of the TLS Gateway Router (venues/nse/gateway_router.py).      *)
(*                                                                         *)
(* The stream is cut anywhere: a read takes any part of what is in flight. *)
(* The kernel takes what it has room for.  Readiness is level triggered    *)
(* and a connection closed by an earlier handler of a batch is skipped, so *)
(* a batch of events is the same as its events one by one.                 *)
(***************************************************************************)
EXTENDS Naturals, Sequences, SequencesExt, FiniteSets

CONSTANTS None, Clients,
          PortsOf,      \* the ports each client may dial
          Wires,        \* the encodings the one session may be registered for
          Scripts,      \* what each client may send: the kinds of its messages
          Room,         \* units the kernel holds for a peer that does not read
          JunkLimit,    \* the 64 bytes searched for a BeginString
          MaxRouting,   \* MAX_ROUTING_BYTES
          MaxKills

ASSUME WireAssumption == Room \in Nat \ {0} /\ JunkLimit \in Nat /\ MaxRouting \in Nat

VARIABLES session,   \* the session, or box, every client claims
          conn,      \* the connection of each client, at this end
          peer,      \* its other end
          handled,   \* the messages of each client the session handled
          work,      \* what the session has in hand: a chunk, then its messages
          used       \* connections killed by the operator

vars == <<session, conn, peer, handled, work, used>>

(* A message is two units, its head with the length and its tail with the  *)
(* checksum; junk is one.  "badlen" has a length that cannot be right,     *)
(* "badsum" a checksum that is wrong, "stranger" an identity nobody knows. *)
Unit(c, m, kind, part) == [c |-> c, m |-> m, kind |-> kind, part |-> part]
UnitsOf(c, m, kind) ==
    [part \in 1 .. (IF kind = "junk" THEN 1 ELSE 2) |-> Unit(c, m, kind, part)]
Units(c, script) == FlattenSeq([m \in DOMAIN script |-> UnitsOf(c, m, script[m])])

Hello == Unit(None, 0, "hello", 1)
Finish == Unit(None, 0, "finish", 1)

(* What a framer makes of the bytes of two connections: a packet of pieces *)
(* whose checksum is wrong, and a beginning with a length that cannot be.  *)
Torn == Unit(None, 0, "badsum", 2)
Impossible == Unit(None, 0, "junk", 1)

-----------------------------------------------------------------------------
(* The framers.                                                            *)

IsHead(u) == u.kind # "junk" /\ u.part = 1

Extracted(status, raw, rest) == [status |-> status, raw |-> raw, rest |-> rest]

Framed(buffer, at) == Extracted("ok", buffer[at], SubSeq(buffer, at + 2, Len(buffer)))

(* One message off the front.  FIX drops what comes before a BeginString,  *)
(* and only trusts a length that leads to the checksum.                    *)
extractFix(buffer) ==
    LET at == SelectInSeq(buffer, IsHead)
    IN  CASE at = 0 ->
               Extracted(IF Len(buffer) > JunkLimit THEN "malformed" ELSE "incomplete", None, buffer)
          [] at > 0 /\ Len(buffer) = at -> Extracted("incomplete", None, buffer)
          [] at > 0 /\ Len(buffer) > at /\ buffer[at].kind = "badlen" ->
               Extracted("malformed", None, buffer)
          [] OTHER -> Framed(buffer, at)

(* A binary frame starts with its StartOfMessage and a length that can be. *)
extractBinary(buffer) ==
    CASE buffer[1].kind \in {"junk", "badlen"} -> Extracted("malformed", None, buffer)
      [] buffer[1].kind \notin {"junk", "badlen"} /\ Len(buffer) = 1 ->
           Extracted("incomplete", None, buffer)
      [] OTHER -> Framed(buffer, 1)

(* An NNF packet starts with its length, whatever the bytes are.           *)
extractNnf(buffer) ==
    LET impossible == buffer[1].kind \in {"junk", "badlen"}
    IN  CASE ~impossible /\ Len(buffer) = 1 -> Extracted("incomplete", None, buffer)
          [] ~impossible /\ Len(buffer) > 1 -> Framed(buffer, 1)
          [] OTHER -> Extracted("malformed", None, buffer)

extract(wire, buffer) ==
    CASE wire = "fix" -> extractFix(buffer)
      [] wire = "binary" -> extractBinary(buffer)
      [] OTHER -> extractNnf(buffer)

(* Where the complete messages of a buffer end.                            *)
Complete(buffer) == SelectLastInSeq(buffer, LAMBDA u : u.part = 2)

(* The packets of a box are cut by length alone.  Where two connections    *)
(* were mixed a packet may begin in the middle of another, and its length  *)
(* is whatever the bytes there say: legible, or impossible.                *)
Whole(head, tail) == head.c = tail.c /\ head.m = tail.m /\ head.part = 1 /\ tail.part = 2
Begins(u, legible) == IF u.part = 1 THEN u.kind \notin {"junk", "badlen"} ELSE legible

feedNnf(buffer, legible) ==
    LET n == Len(buffer) \div 2
        ok == \A i \in DOMAIN buffer : i % 2 = 1 => Begins(buffer[i], legible)
    IN  [ok |-> ok,
         raws |-> [i \in 1 .. n |-> IF Whole(buffer[2 * i - 1], buffer[2 * i]) THEN buffer[2 * i] ELSE Torn],
         rest |-> IF ok THEN SubSeq(buffer, 2 * n + 1, Len(buffer)) ELSE <<Impossible>>]

(* Mutant: at most one message for every read.                             *)
feedOne(wire, buffer, legible) ==
    LET e == extract(wire, buffer)
    IN  [ok |-> e.status # "malformed", raws |-> IF e.status = "ok" THEN <<e.raw>> ELSE <<>>, rest |-> e.rest]

(* Framer.feed: every complete message, or the error of the first that     *)
(* cannot be framed; those before it in the same chunk go with it.         *)
feed(wire, buffer, legible) ==
    IF wire = "nnf" THEN feedNnf(buffer, legible) ELSE
    LET rest == SubSeq(buffer, Complete(buffer) + 1, Len(buffer))
    IN  [ok |-> /\ rest # <<>> => extract(wire, rest).status # "malformed"
                /\ \A i \in DOMAIN buffer : buffer[i].part = 2 => buffer[i].kind # "badlen"
                /\ wire = "binary" => \A i \in DOMAIN buffer : buffer[i].kind # "junk",
         raws |-> SelectSeq(buffer, LAMBDA u : u.part = 2), rest |-> rest]

-----------------------------------------------------------------------------
(* The connection.                                                         *)

NewConnection(port) ==
    [state |-> "open", port |-> port, handshaken |-> port # "gr", closing |-> FALSE, late |-> FALSE,
     out |-> <<>>, kernel |-> <<>>, said |-> 0, gone |-> FALSE, owner |-> "router", buffer |-> <<>>]

NoConnection == [NewConnection("fix") EXCEPT !.state = "none"]

close(k) == [k EXCEPT !.state = "closed", !.out = <<>>]

(* The kernel takes what it has room for; the rest waits until the socket  *)
(* is writable, and a connection that was only waiting for this closes.    *)
Sent(k) ==
    LET n == IF k.gone \/ Len(k.out) < Room - Len(k.kernel) THEN Len(k.out) ELSE Room - Len(k.kernel)
    IN  [k EXCEPT !.kernel = IF k.gone THEN <<>> ELSE @ \o SubSeq(k.out, 1, n),
                  !.out = SubSeq(@, n + 1, Len(@))]

(* Mutant: what the kernel does not take of last words is given up.        *)
flushOnce(k) == IF k.closing THEN close(Sent(k)) ELSE Sent(k)

flush(k) == LET j == Sent(k) IN IF j.out = <<>> /\ j.closing THEN close(j) ELSE j

(* A transport holds nothing back once it has shaken hands.                *)
transmit(k, unit) == [k EXCEPT !.out = Append(@, unit), !.said = @ + 1]

send(k, unit) == IF k.state = "closed" \/ k.closing THEN k ELSE flush(transmit(k, unit))

(* A TLS peer is owed a close_notify, once.                                *)
close_notify(k) == IF k.port = "gr" /\ ~k.closing THEN transmit(k, "notify") ELSE k

close_when_flushed(k) ==
    IF k.state = "closed" THEN k
    ELSE LET j == [close_notify(k) EXCEPT !.closing = TRUE]
         IN  CASE j.said > k.said -> LET f == flush(j) IN [f EXCEPT !.late = f.state = "open"]
               [] j.said = k.said /\ k.out = <<>> -> close(j)
               [] OTHER -> [j EXCEPT !.late = TRUE]

-----------------------------------------------------------------------------
(* An error no handler catches leaves the event loop and ends the process: *)
(* the checksum error of an NNF packet, where a message that does not      *)
(* decode is looked out for.                                               *)
Escaped(s) == [s EXCEPT !.up = FALSE]

(* What a handler does to the session ends here: on_close of a connection  *)
(* that was given to the session detaches it, whichever it has by now.     *)
Detached(s) == [s EXCEPT !.conn = None, !.opened = None]

Becomes(c, k, s) ==
    /\ conn' = [conn EXCEPT ![c] = k]
    /\ session' = IF k.state = "closed" /\ k.owner = "session" THEN Detached(s) ELSE s

Idle == [stage |-> "idle", c |-> None, data |-> <<>>]
Given(c, chunk) == [stage |-> "chunk", c |-> c, data |-> chunk]

Open(c) == session.up /\ conn[c].state = "open"
Ready(c) == Open(c) /\ work = Idle

-----------------------------------------------------------------------------
(* The reactor reads: any beginning of what has been sent.                 *)

Read(c, n) == SubSeq(peer[c].inflight, 1, n)
Took(c, n) == peer' = [peer EXCEPT ![c].inflight = SubSeq(@, n + 1, Len(@))]

Accept(c) ==
    /\ session.up /\ work = Idle /\ conn[c].state = "none"
    /\ \E port \in PortsOf[c], script \in Scripts[c] :
          /\ conn' = [conn EXCEPT ![c] = NewConnection(port)]
          /\ peer' = [peer EXCEPT ![c] = [script |-> script, read |-> 0,
                          inflight |-> IF port = "gr" THEN <<Hello>> ELSE Units(c, script)]]
    /\ UNCHANGED <<session, handled, work, used>>

(* The plaintext of what was read: the records of the handshake have none. *)
receive(units) == SelectSeq(units, LAMBDA u : u # Finish)

(* A handshake answers itself, with no plaintext at all.                   *)
Handshake(c) ==
    /\ Ready(c) /\ peer[c].inflight # <<>> /\ Head(peer[c].inflight) = Hello
    /\ Becomes(c, flush([conn[c] EXCEPT !.out = Append(@, "flight")]), session)
    /\ Took(c, 1)
    /\ UNCHANGED <<handled, work, used>>

(* The Gateway Router answers a request and closes; anything else is       *)
(* dropped.  Everything that can be decrypted is read at once.             *)
GatewayReads(c) ==
    /\ Ready(c) /\ conn[c].port = "gr" /\ peer[c].inflight # <<>>
    /\ Head(peer[c].inflight) # Hello
    /\ \E n \in 1 .. Len(peer[c].inflight) :
          /\ Took(c, n)
          /\ \E b \in {conn[c].buffer \o receive(Read(c, n))} :
             \E k \in {[conn[c] EXCEPT !.handshaken = TRUE, !.buffer = b]} :
             \E e \in {IF b = <<>> THEN Extracted("incomplete", None, b) ELSE extract("nnf", b)} :
                \/ e.status = "incomplete" /\ Becomes(c, k, session)
                \/ e.status = "malformed" /\ Becomes(c, close(k), session)
                \/ /\ e.status = "ok" /\ e.raw.kind = "badsum"
                   /\ Becomes(c, k, Escaped(session))
                \/ /\ e.status = "ok" /\ e.raw.kind # "badsum"
                   /\ Becomes(c, close_when_flushed(send([k EXCEPT !.buffer = e.rest], "response")), session)
    /\ UNCHANGED <<handled, work, used>>

-----------------------------------------------------------------------------
(* The acceptor: a connection belongs to its router until the first        *)
(* message names a session.                                                *)

Refused(k) == close_when_flushed(send(k, "refusal"))
Bound(k) == [k EXCEPT !.owner = "session", !.buffer = <<>>]

(* Unknown, registered for another encoding, or in use.                    *)
refuses(s, k, first) == first.kind = "stranger" \/ s.wire # k.port \/ s.conn # None

(* Mutant: only what follows the first message is passed on.               *)
replayRest(k, buffered) == extract(k.port, buffered).rest

(* The session is given all that was buffered, the first message included. *)
replay(k, buffered) == buffered

RouterReads(c) ==
    /\ Ready(c) /\ conn[c].owner = "router" /\ conn[c].port # "gr"
    /\ \E n \in 1 .. Len(peer[c].inflight) :
          /\ Took(c, n)
          /\ \E b \in {conn[c].buffer \o Read(c, n)} : \E e \in {extract(conn[c].port, b)} :
                \/ /\ e.status = "incomplete"
                   /\ Becomes(c, IF Len(b) > MaxRouting THEN close(conn[c])
                                 ELSE [conn[c] EXCEPT !.buffer = b], session)
                   /\ UNCHANGED work
                \/ /\ e.status = "malformed"
                   /\ Becomes(c, close(conn[c]), session) /\ UNCHANGED work
                \/ /\ e.status = "ok" /\ e.raw.kind = "badsum"
                   /\ IF conn[c].port = "nnf" THEN Becomes(c, conn[c], Escaped(session))
                      ELSE Becomes(c, close(conn[c]), session)
                   /\ UNCHANGED work
                \/ /\ e.status = "ok" /\ e.raw.kind # "badsum" /\ refuses(session, conn[c], e.raw)
                   /\ Becomes(c, Refused([conn[c] EXCEPT !.buffer = b]), session)
                   /\ UNCHANGED work
                \/ /\ e.status = "ok" /\ e.raw.kind # "badsum" /\ ~refuses(session, conn[c], e.raw)
                   /\ Becomes(c, Bound(conn[c]),
                              [session EXCEPT !.conn = c, !.framer = <<>>, !.opened = None])
                   /\ work' = Given(c, replay(conn[c], b))
    /\ UNCHANGED <<handled, used>>

-----------------------------------------------------------------------------
(* The session, or the box.                                                *)

SessionReads(c) ==
    /\ Ready(c) /\ conn[c].owner = "session"
    /\ \E n \in 1 .. Len(peer[c].inflight) :
          /\ Took(c, n)
          /\ work' = Given(c, Read(c, n))
    /\ UNCHANGED <<session, conn, handled, used>>

(* Session.disconnect closes at once, BoxConnection.disconnect once its    *)
(* last words are out; either detaches first.  What a handler does is done *)
(* to the connection the session has by now, whichever brought the bytes:  *)
(* the callbacks of a connection that is still being flushed are in place. *)
disconnected(k) == IF session.wire = "nnf" THEN close_when_flushed(k) ELSE close(k)

Disconnect(words, s) ==
    IF session.conn = None THEN session' = s /\ UNCHANGED conn
    ELSE Becomes(session.conn, disconnected(FoldLeft(send, conn[session.conn], words)), Detached(s))

Answer(unit, s) ==
    IF session.conn = None THEN session' = s /\ UNCHANGED conn
    ELSE Becomes(session.conn, send(conn[session.conn], unit), s)

(* The chunk is framed, or cannot be, which costs the connection.          *)
Frames ==
    /\ work.stage = "chunk"
    /\ \E legible \in BOOLEAN :
       \E f \in {feed(session.wire, session.framer \o work.data, legible)} :
          /\ work' = IF f.ok /\ f.raws # <<>> THEN [work EXCEPT !.stage = "raws", !.data = f.raws] ELSE Idle
          /\ IF f.ok THEN session' = [session EXCEPT !.framer = f.rest] /\ UNCHANGED conn
             ELSE Disconnect(IF session.wire = "nnf" THEN <<>> ELSE <<"logout">>,
                             [session EXCEPT !.framer = f.rest])
    /\ UNCHANGED <<peer, handled, used>>

(* A FIX message has a checksum that adds up, and a binary one.            *)
decodeFix(u) == u.kind # "badsum"
decodeBinary(u) == u.kind # "badsum"

(* Each message of a box is sealed under the count of those before it on   *)
(* its connection, except the registration, which travels in clear.  A box *)
(* without a cipher takes every packet whose checksum adds up.             *)
open(opened, u) == IF opened = None THEN u.m = 1 ELSE u.c = session.conn /\ u.m = opened + 2
decodeNnf(u) == u.kind # "badsum" /\ (session.secure => open(session.opened, u))

Decodes(u) ==
    CASE session.wire = "fix" -> decodeFix(u)
      [] session.wire = "binary" -> decodeBinary(u)
      [] OTHER -> decodeNnf(u)

(* The cipher after a message: in force from the registration on.          *)
Opened ==
    CASE ~session.secure \/ session.conn = None -> None
      [] session.opened = None -> 0
      [] OTHER -> session.opened + 1

(* One framed message: a FIX session that has disconnected takes no more   *)
(* of the chunk, a box does.                                               *)
Handles ==
    /\ work.stage = "raws"
    /\ LET u == Head(work.data)
       IN  \/ /\ session.conn = None /\ session.wire # "nnf"
              /\ UNCHANGED <<session, conn, handled>>
           \/ /\ session.conn # None \/ session.wire = "nnf"
              /\ ~Decodes(u)
              /\ Disconnect(<<"logout">>, session)
              /\ UNCHANGED handled
           \/ /\ session.conn # None \/ session.wire = "nnf"
              /\ Decodes(u)
              /\ handled' = [handled EXCEPT ![u.c] = Append(@, u.m)]
              /\ Answer("reply", [session EXCEPT !.opened = Opened])
    /\ work' = IF Len(work.data) = 1 THEN Idle ELSE [work EXCEPT !.data = Tail(@)]
    /\ UNCHANGED <<peer, used>>

-----------------------------------------------------------------------------
(* The rest of the reactor, the operator and the clients.                  *)

OnEof(c) ==
    /\ Ready(c) /\ conn[c].gone /\ peer[c].inflight = <<>>
    /\ Becomes(c, close(conn[c]), session)
    /\ UNCHANGED <<peer, handled, work, used>>

OnWritable(c) ==
    /\ Ready(c) /\ conn[c].out # <<>> /\ (conn[c].gone \/ Len(conn[c].kernel) < Room)
    /\ Becomes(c, flush(conn[c]), session)
    /\ UNCHANGED <<peer, handled, work, used>>

(* session.kill, or box.kill.                                              *)
Kill ==
    /\ session.up /\ work = Idle /\ session.conn # None /\ used < MaxKills
    /\ Disconnect(<<>>, session)
    /\ used' = used + 1
    /\ UNCHANGED <<peer, handled, work>>

(* The client reads; the flight of a handshake lets it finish and send.    *)
PeerReads(c) ==
    /\ ~conn[c].gone /\ conn[c].kernel # <<>>
    /\ conn' = [conn EXCEPT ![c].kernel = Tail(@)]
    /\ peer' = IF Head(conn[c].kernel) = "flight"
               THEN [peer EXCEPT ![c].inflight = @ \o <<Finish>> \o Units(c, peer[c].script)]
               ELSE [peer EXCEPT ![c].read = @ + 1]
    /\ UNCHANGED <<session, handled, work, used>>

PeerLeaves(c) ==
    /\ conn[c].state # "none" /\ ~conn[c].gone
    /\ conn' = [conn EXCEPT ![c].gone = TRUE, ![c].kernel = <<>>]
    /\ UNCHANGED <<session, peer, handled, work, used>>

Init ==
    /\ \E wire \in Wires, secure \in BOOLEAN :
          /\ secure => wire = "nnf"
          /\ session = [up |-> TRUE, wire |-> wire, secure |-> secure, conn |-> None,
                        framer |-> <<>>, opened |-> None]
    /\ conn = [c \in Clients |-> NoConnection]
    /\ peer = [c \in Clients |-> [script |-> <<>>, read |-> 0, inflight |-> <<>>]]
    /\ handled = [c \in Clients |-> <<>>]
    /\ work = Idle
    /\ used = 0

Reads(c) == GatewayReads(c) \/ RouterReads(c) \/ SessionReads(c)

(* The rounds of the event loop, with what each of them dispatches.         *)
Reactor ==
    \/ \E c \in Clients : Handshake(c) \/ Reads(c) \/ OnEof(c) \/ OnWritable(c)
    \/ Frames \/ Handles

Next ==
    \/ Reactor \/ Kill
    \/ \E c \in Clients : Accept(c) \/ PeerReads(c) \/ PeerLeaves(c)

(* The reactor serves a ready socket as long as there is one, and a client *)
(* that stays reads.  Every step uses something up, so that weak fairness  *)
(* of the loop as a whole serves each socket.                              *)
Fairness == WF_vars(Reactor) /\ \A c \in Clients : WF_vars(PeerReads(c))

Spec == Init /\ [][Next]_vars /\ Fairness

-----------------------------------------------------------------------------
(* Properties.                                                             *)

(* The messages of a client that can be handled: the good ones before the  *)
(* first that ends its connection.                                         *)
Sound(c) ==
    LET script == peer[c].script
        ends == SelectInSeq(script, LAMBDA kind : kind \in {"badsum", "badlen", "stranger"})
        until == IF ends = 0 THEN Len(script) ELSE ends - 1
    IN  SelectSeq([m \in 1 .. until |-> m], LAMBDA m : script[m] = "good")

(* A connection of the session outlived its disconnect, until flushed.     *)
Lingered(d) == conn[d].owner = "session" /\ conn[d].late
Undisturbed(c) == \A d \in Clients \ {c} : ~Lingered(d)

(* However the stream is cut, and whoever held its beginning, a session    *)
(* handles the messages of a client in the order they were sent, none      *)
(* twice; none is skipped unless by a box without a cipher, which goes on  *)
(* behind a packet it refused.  A live connection that was bound is the    *)
(* one the session answers on, unless another outlived its disconnect.     *)
SessionsAreFedInOrder ==
    \A c \in Clients :
        /\ \A i, j \in DOMAIN handled[c] : i < j => handled[c][i] < handled[c][j]
        /\ \A i \in DOMAIN handled[c] : peer[c].script[handled[c][i]] = "good"
        /\ (session.wire = "nnf" => session.secure) => IsPrefix(handled[c], Sound(c))
        /\ Open(c) /\ conn[c].owner = "session" /\ ~conn[c].closing /\ Undisturbed(c)
              => session.conn = c

(* "A second connection claiming a live session is refused rather than     *)
(* displacing the incumbent" (wire/acceptor.py): a live connection that    *)
(* was bound stays the one its session answers on.  False of a box, whose  *)
(* former connection, while it is flushed, still feeds and detaches it.    *)
IncumbentKeepsItsSession ==
    \A c \in Clients :
        Open(c) /\ conn[c].owner = "session" /\ ~conn[c].closing => session.conn = c

(* "A checksum mismatch drops the packet rather than the connection" where *)
(* a box has no cipher (nnf/crypto.py).  The box is disconnected.          *)
MismatchDropsThePacket ==
    [][work.stage = "raws" /\ session.wire = "nnf" /\ ~session.secure
          /\ Head(work.data).kind = "badsum"
       => session'.conn = session.conn]_vars

(* Nothing complete waits: once a session has a connection, everything it  *)
(* can handle of it is handled, or the connection ends; or a connection    *)
(* that outlived its disconnect took its place.                            *)
AllHandled ==
    \A c \in Clients :
        Open(c) ~> \/ ~Open(c) \/ conn[c].closing \/ conn[c].port = "gr"
                   \/ IsPrefix(Sound(c), handled[c]) \/ ~Undisturbed(c)

(* The last words of a connection that closes when flushed reach a client  *)
(* that stays; unless what it sends behind them to the router cannot be    *)
(* read, which closes the connection at once.                              *)
Unreadable(c) ==
    conn[c].owner = "router" /\ Range(peer[c].script) \cap {"junk", "badlen", "badsum"} # {}

LastWords ==
    \A c \in Clients :
        conn[c].closing ~> (~session.up \/ conn[c].gone \/ Unreadable(c) \/ peer[c].read = conn[c].said)
=============================================================================
