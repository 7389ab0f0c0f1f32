------------------------------ MODULE WebSocket ------------------------------
(***************************************************************************)
(* One WebSocket connection, from the upgrade request that the pipeline    *)
(* hands to handle_ws_upgrade_via_hyper to the end of its relay task       *)
(* (ws_upgrade.rs, ws.rs, commands/ws.rs).  The handler runs inside the    *)
(* client's serving task and disappears with it; the relay is a task of    *)
(* its own.  A frame is its opcode class, its FIN bit and its place in the *)
(* peer's stream, so that a payload is the sequence of places it was put   *)
(* together from; on the wire a frame is two pieces, because a read may    *)
(* end inside one.                                                         *)
(***************************************************************************)
EXTENDS Naturals, Sequences, FiniteSets

CONSTANTS WsCases,      \* [req, streams, refusal]: an upgrade request [scheme, mode, name, key], the
                        \* frames each peer would send, and what would follow the head of a refusal
          Injects,      \* the frames a user may inject
          MaxInjects,   \* bound: injections of a behaviour
          InjectRoom,   \* WS_INJECT_CHANNEL_CAPACITY
          AssemblyCap,  \* MAX_REASSEMBLED_MESSAGE_BYTES, in fragments
          BodyCap,      \* MAX_CAPTURED_BODY_BYTES, in bytes
          Heads         \* upstream answers: [status, connection, upgrade, accept, ext, legal, framing, total]

Sides == {"client", "upstream"}
Other(s) == IF s = "client" THEN "upstream" ELSE "client"

Frames == [op : {"text", "cont", "ping", "close", "bad"}, fin : BOOLEAN, zip : BOOLEAN]
Chunks == [kind : {"data", "last", "bad", "cut"}, bytes : Seq(Nat)]

ASSUME WebSocketAssumption ==
    /\ MaxInjects \in Nat /\ InjectRoom \in Nat \ {0}
    /\ AssemblyCap \in Nat \ {0} /\ BodyCap \in Nat
    /\ \A c \in WsCases :
          /\ \A s \in Sides : c.streams[s] \in Seq(Frames)
          /\ c.refusal.leftover \in Seq(Nat) /\ c.refusal.rest \in Seq(Nat) /\ c.refusal.chunks \in Seq(Chunks)
    /\ \A h \in Heads :
          /\ h.framing \in {"length", "chunked", "close"} /\ h.total \in Nat
          /\ h = [status |-> h.status, connection |-> h.connection, upgrade |-> h.upgrade, accept |-> h.accept,
                  ext |-> h.ext, legal |-> h.legal, framing |-> h.framing, total |-> h.total]
    /\ \A q \in Injects : q.to \in Sides

VARIABLES wsAsked,    \* the request, and the streams the peers will send
          upg,        \* the phase of the handler, then of the relay task
          head,       \* the upstream answer
          answer,     \* the status the client was given, with its body
          record,     \* the statuses recorded for the session
          freePermits, relayPermit,
          registry,   \* the registry's entry: "none", "active", "closed"
          uiStatus,   \* the last ws-connection-status event
          taken,      \* pieces of each peer's stream that were read
          staged,     \* pieces read and not yet parsed, per side
          doneSide, writable, grace,
          assembler, captured, delivered,
          injectQueue, injected

wsVars == <<wsAsked, upg, head, answer, record, freePermits, relayPermit, registry, uiStatus,
            taken, staged, doneSide, writable, grace, assembler, captured, delivered,
            injectQueue, injected>>
relayState == <<taken, staged, doneSide, writable, grace, assembler, captured, delivered>>
tables == <<registry, uiStatus, injectQueue, injected>>

----------------------------------------------------------------------------
(* The upgrade request and the connection it goes out on. *)
ws_default_port(scheme, mode) ==
    IF scheme = "wss" THEN 443 ELSE IF mode = "plain" THEN 80 ELSE 443

ws_needs_tls(scheme, mode) == mode = "mitm" \/ scheme = "wss"

\* A host that is no server name after its brackets are removed is an error.
ws_tls_server_name(name) == name # "malformed"

\* The steps before the answer: each may fail, and the whole of them is under one deadline.
\* Whether an attempt can get as far as the head:
connect_ws_upstream_tls(req) ==
    ws_needs_tls(req.scheme, req.mode) => ws_tls_server_name(req.name)

\* The header that offers extensions is dropped, whatever the client sent.
build_ws_upgrade_request(req) == [port |-> ws_default_port(req.scheme, req.mode), key |-> req.key, ext |-> FALSE]

\* The upstream, which negotiates only what it is offered and accepts only the key it was sent.  [external]
Answers(sent) == {h \in Heads : (h.ext => sent.ext) /\ (h.accept = "ours" => sent.key)}

\* A status that does not parse is read as 502; a folded line continues the header before it.
parse_upstream_response_head(h) == [h EXCEPT !.status = IF @ = 0 THEN 502 ELSE @]

compute_ws_accept(accept) == accept = "ours"

\* A request without a key cannot be confirmed.
is_valid_ws_upgrade_handshake(h, key) ==
    h.connection /\ h.upgrade /\ key /\ compute_ws_accept(h.accept)

should_forward_ws_upgrade_response_header(h) == [h EXCEPT !.ext = FALSE]

\* Building the 101 fails on a header name or value that is not legal.
build_ws_upgrade_response(h) == h.legal

should_forward_refusal_header(h, malformed) ==
    IF malformed THEN [h EXCEPT !.upgrade = FALSE, !.accept = "none", !.ext = FALSE, !.connection = FALSE]
                 ELSE [h EXCEPT !.connection = FALSE]

(* The body of a refusal: leftover is what came with the head, rest what arrives after it until
   "eof", the "idle" timeout or an "error".  A chunked body is the sequence chunks, of kind "data"
   or "last"; "bad" is a size line that does not parse and "cut" a chunk that arrives in part. *)
Firsts(s, n) == SubSeq(s, 1, IF Len(s) < n THEN Len(s) ELSE n)

parse_response_body_framing(h) == h.framing

Read(ok, bytes) == [ok |-> ok, bytes |-> bytes]

read_length_delimited_body(r, total) ==
    LET all == r.leftover \o r.rest
        n   == IF total < BodyCap THEN total ELSE BodyCap
    IN Read(Len(all) >= n \/ r.end # "error", Firsts(all, n))

read_until_close_body(r) ==
    LET all == r.leftover \o r.rest
    IN Read(Len(all) >= BodyCap \/ r.end # "error", Firsts(all, BodyCap))

\* End of stream and timeout end the body; only a read error is an error.
refill_stream(end) == end # "error"
\* A chunk is copied out only when all of it and its line end are there.
ensure_bytes(chunk) == chunk.kind = "data"

\* The bytes of the first n chunks.
Joined(chunks, n) ==
    LET upto[i \in 0..Len(chunks)] == IF i = 0 THEN <<>> ELSE upto[i - 1] \o chunks[i].bytes IN upto[n]

read_chunked_body(r) ==
    LET whole  == {i \in DOMAIN r.chunks : \A j \in 1..i : ensure_bytes(r.chunks[j])}
        n      == Cardinality(whole)
        bytes  == Joined(r.chunks, n)
        ending == IF n < Len(r.chunks) THEN r.chunks[n + 1].kind ELSE "none"
    IN Read(\/ Len(bytes) >= BodyCap
            \/ ending = "last"
            \/ ending \in {"cut", "none"} /\ refill_stream(r.end), Firsts(bytes, BodyCap))

read_full_response_body(h, r) ==
    CASE parse_response_body_framing(h) = "chunked" -> read_chunked_body(r)
      [] parse_response_body_framing(h) = "close"   -> read_until_close_body(r)
      [] parse_response_body_framing(h) = "length"  -> read_length_delimited_body(r, h.total)

----------------------------------------------------------------------------
(* Frames: parsing, reassembly, writing. *)
Stream(s) == wsAsked.streams[s]
\* A reserved opcode or a broken control frame; a compressed frame is one whose RSV bit is set,
\* and the upstream compresses only when the extension was agreed on.
Violates(s, f) == f.op = "bad" \/ (s = "upstream" /\ f.zip /\ head.ext)

is_control(op) == op \in {"ping", "close"}

\* A header that breaks the protocol is refused before its payload has arrived; otherwise the
\* frame is there when all its pieces are.
try_parse_ws_frame(s, buf) ==
    IF Len(buf) = 0 THEN "none"
    ELSE IF buf[1][2] # 1 \/ Violates(s, Stream(s)[buf[1][1]]) THEN "protocol"
    ELSE IF Len(buf) < 2 THEN "none"
    ELSE IF buf[2] # <<buf[1][1], 2>> THEN "protocol" ELSE "frame"

\* The staging buffers belong to the loop and not to the arm that another arm's win cancels.
M_BufferDiesWithArm(buf) == <<>>
AfterCancel(buf) == buf

build_ws_message(op, fin, body) == [op |-> op, fin |-> fin, body |-> body, truncated |-> FALSE]

Idle == [start |-> "none", buffer |-> <<>>, truncated |-> FALSE]

\* What a frame adds to a message under way: nothing once the cap was passed.
Appended(a, n) ==
    IF a.truncated THEN a
    ELSE IF Len(a.buffer) + 1 <= AssemblyCap THEN [a EXCEPT !.buffer = Append(@, n)]
    ELSE [a EXCEPT !.truncated = TRUE]

\* The pair <<message to emit, next state of the assembler>>.
assemble_ws_message(a, f, n) ==
    LET alone == build_ws_message(f.op, f.fin, <<n>>)
    IN CASE is_control(f.op) -> <<alone, a>>
         [] f.op = "text" /\ a.start # "none" -> <<alone, Idle>>
         [] f.op = "text" /\ a.start = "none" ->
              <<alone, IF f.fin THEN a ELSE Appended([Idle EXCEPT !.start = "text"], n)>>
         [] f.op = "cont" /\ a.start = "none" -> <<alone, a>>
         [] f.op = "cont" /\ a.start # "none" ->
              LET b == Appended(a, n)
              IN IF f.fin
                 THEN <<[op |-> a.start, fin |-> TRUE, body |-> b.buffer, truncated |-> b.truncated], Idle>>
                 ELSE <<alone, b>>

\* Frames are masked toward the upstream and nowhere else.
write_ws_frame(to, op, n, by) == [op |-> op, n |-> n, by |-> by, masked |-> to = "upstream"]
close_frame(to) == write_ws_frame(to, "close", 1002, "proxy")

----------------------------------------------------------------------------
NoHead == [status |-> 0, connection |-> FALSE, upgrade |-> FALSE, accept |-> "none", ext |-> FALSE,
           legal |-> TRUE, framing |-> "close", total |-> 0]
Answered(status, body, as) == [status |-> status, body |-> body, as |-> as]

WebSocketInit ==
    /\ wsAsked \in WsCases
    /\ upg = "dialing"
    /\ head = NoHead /\ answer = Answered(0, <<>>, NoHead) /\ record = <<>>
    /\ freePermits \in {0, 1} /\ relayPermit = FALSE
    /\ registry = "none" /\ uiStatus = "none"
    /\ taken = [s \in Sides |-> 0] /\ staged = [s \in Sides |-> <<>>]
    /\ doneSide = [s \in Sides |-> FALSE] /\ writable = [s \in Sides |-> TRUE] /\ grace = FALSE
    /\ assembler = [s \in Sides |-> Idle]
    /\ captured = [s \in Sides |-> <<>>] /\ delivered = [s \in Sides |-> <<>>]
    /\ injectQueue = <<>> /\ injected = 0

\* The handler answers and records the session; the guard is then disarmed.
Answer(status, body, as) ==
    /\ answer' = Answered(status, body, as)
    /\ record' = Append(record, status)
    /\ upg' = "answered"

send_ws_upstream_error_session == Answer(502, <<>>, NoHead)

\* Dial, TLS, request and head, all under one deadline.
Establish ==
    /\ upg = "dialing"
    /\ \/ /\ connect_ws_upstream_tls(wsAsked.req)
          /\ head' \in {parse_upstream_response_head(h) : h \in Answers(build_ws_upgrade_request(wsAsked.req))}
          /\ upg' = "head"
          /\ UNCHANGED <<answer, record>>
       \/ send_ws_upstream_error_session /\ UNCHANGED head
    /\ UNCHANGED <<wsAsked, freePermits, relayPermit, relayState, tables>>

Agreed == head.status = 101 /\ is_valid_ws_upgrade_handshake(head, wsAsked.req.key)

\* A 101 that is none is answered with 502 and the bytes that came with it; another status keeps
\* its status and as much of its body as can be read.
Refuse ==
    /\ upg = "head" /\ ~Agreed
    /\ LET malformed == head.status = 101
           body == IF malformed THEN Read(TRUE, wsAsked.refusal.leftover)
                   ELSE read_full_response_body(head, wsAsked.refusal)
       IN IF ~body.ok \/ ~head.legal THEN send_ws_upstream_error_session
          ELSE Answer(IF malformed THEN 502 ELSE head.status, body.bytes,
                      should_forward_refusal_header(head, malformed))
    /\ UNCHANGED <<wsAsked, head, freePermits, relayPermit, relayState, tables>>

RefuseForLimit ==
    /\ upg = "head" /\ Agreed /\ freePermits = 0
    /\ Answer(503, <<>>, NoHead)
    /\ UNCHANGED <<wsAsked, head, freePermits, relayPermit, relayState, tables>>

\* The 101 cannot be built: the permit is dropped with the handler's frame.
RefuseUnbuildable ==
    /\ upg = "head" /\ Agreed /\ freePermits > 0 /\ ~build_ws_upgrade_response(head)
    /\ send_ws_upstream_error_session
    /\ UNCHANGED <<wsAsked, head, freePermits, relayPermit, relayState, tables>>

register == registry' = "active"
emit_ws_connection_status(status) == uiStatus' = status

\* Registered and announced; the session is then offered to the collector's channel.
Register ==
    /\ upg = "head" /\ Agreed /\ freePermits > 0 /\ build_ws_upgrade_response(head)
    /\ freePermits' = freePermits - 1 /\ relayPermit' = TRUE
    /\ register /\ emit_ws_connection_status("active")
    /\ upg' = "recording"
    /\ UNCHANGED <<wsAsked, head, answer, record, relayState, injectQueue, injected>>

SpawnRelay ==
    /\ upg = "recording"
    /\ record' = Append(record, 101)
    /\ answer' = Answered(101, <<>>, should_forward_ws_upgrade_response_header(head))
    /\ upg' = "spawned"
    /\ UNCHANGED <<wsAsked, head, freePermits, relayPermit, relayState, tables>>

\* The client leaves while the handler awaits: its future is dropped, with the permit and the
\* receiver of injections, and the guard records 499.
ClientLeaves ==
    /\ upg \in {"dialing", "head", "recording"}
    /\ record' = Append(record, 499)
    /\ upg' = "abandoned"
    /\ relayPermit' = FALSE
    /\ freePermits' = IF relayPermit THEN freePermits + 1 ELSE freePermits
    /\ injectQueue' = <<>>
    /\ UNCHANGED <<wsAsked, head, answer, registry, uiStatus, injected, relayState>>

----------------------------------------------------------------------------
(* The relay. *)
Handler == <<wsAsked, head, answer, record>>

OnUpgrade ==
    /\ upg = "spawned"
    /\ upg' \in {"relaying", "closing"}
    /\ UNCHANGED <<Handler, freePermits, relayPermit, relayState, tables>>

Pieces(s) == [i \in 1..(2 * Len(Stream(s))) |-> <<(i + 1) \div 2, 2 - (i % 2)>>]

Reading(s) == upg = "relaying" /\ ~doneSide[s]

\* A read that does not complete a frame leaves what it read staged.
read_ws_frame(s) ==
    /\ Reading(s) /\ try_parse_ws_frame(s, staged[s]) = "none"
    /\ \E n \in (taken[s] + 1)..Len(Pieces(s)) :
          /\ taken' = [taken EXCEPT ![s] = n]
          /\ staged' = [staged EXCEPT ![s] = @ \o SubSeq(Pieces(s), taken[s] + 1, n)]
    /\ UNCHANGED <<Handler, upg, freePermits, relayPermit, tables,
                   doneSide, writable, grace, assembler, captured, delivered>>

\* Another arm won: the read of the other side is cancelled.
Cancelled(s) == [staged EXCEPT ![Other(s)] = AfterCancel(@)]

\* A write to an open peer may still fail; one to a peer whose writer was shut down does.
Writes(to) == IF writable[to] THEN BOOLEAN ELSE {FALSE}

\* Writing to a peer that does not read, or shutting its writer down, has no timeout and is awaited
\* inside the arm, where the grace timer is not polled: it may never be over.
Stuck(to) == writable[to] /\ upg' = "stuck"

Deliver(to, frame) == delivered' = [delivered EXCEPT ![to] = Append(@, frame)]

\* One frame from side s: captured, then forwarded.  A Close ends the side, shuts the other
\* side's writer down and then arms the grace period; a failed write of anything else ends the relay.
RelayFrame(s) ==
    /\ Reading(s) /\ try_parse_ws_frame(s, staged[s]) = "frame"
    /\ LET n == staged[s][1][1]
           f == Stream(s)[n]
           emitted == assemble_ws_message(assembler[s], f, n)
           to == Other(s)
       IN /\ staged' = [Cancelled(s) EXCEPT ![s] = SubSeq(@, 3, Len(@))]
          /\ captured' = [captured EXCEPT ![s] = Append(@, emitted[1])]
          /\ assembler' = [assembler EXCEPT ![s] = emitted[2]]
          /\ \E ok \in Writes(to) :
                /\ IF ok THEN Deliver(to, write_ws_frame(to, f.op, n, "peer")) ELSE UNCHANGED delivered
                /\ \/ ~ok /\ Stuck(to) /\ UNCHANGED <<doneSide, writable, grace>>
                   \/ /\ f.op = "close" /\ doneSide' = [doneSide EXCEPT ![s] = TRUE]
                      /\ \/ Stuck(to) /\ UNCHANGED <<writable, grace>>
                         \/ writable' = [writable EXCEPT ![to] = FALSE] /\ grace' = TRUE /\ UNCHANGED upg
                   \/ /\ f.op # "close" /\ upg' = IF ok THEN upg ELSE "closing"
                      /\ UNCHANGED <<doneSide, writable, grace>>
    /\ UNCHANGED <<Handler, freePermits, relayPermit, tables, taken>>

\* End of stream, an I/O error or a timeout: any of them ends the side, at any moment.
is_clean_eof(s) == try_parse_ws_frame(s, staged[s]) = "none"
is_ws_protocol_error(s) == try_parse_ws_frame(s, staged[s]) = "protocol"

\* Mutant: only a Close arms the timer.
M_GraceOnCloseOnly == UNCHANGED grace
\* A stream that ends is a terminal signal of its side as well.
ArmGrace == grace' = TRUE

\* The read ends with an error; the violator of the protocol is told with a Close(1002).
ReadFails(s) ==
    /\ Reading(s)
    /\ \/ is_clean_eof(s) /\ UNCHANGED delivered
       \/ /\ is_ws_protocol_error(s)
          /\ \E ok \in Writes(s) : IF ok THEN Deliver(s, close_frame(s)) ELSE UNCHANGED delivered
    /\ doneSide' = [doneSide EXCEPT ![s] = TRUE]
    /\ ArmGrace
    /\ staged' = Cancelled(s)
    /\ UNCHANGED <<Handler, upg, freePermits, relayPermit, tables, taken, writable, assembler, captured>>

\* The Close(1002) is never taken by the peer that broke the protocol.
TellingStuck(s) ==
    /\ Reading(s) /\ is_ws_protocol_error(s) /\ Stuck(s)
    /\ staged' = Cancelled(s)
    /\ UNCHANGED <<Handler, freePermits, relayPermit, tables, taken, doneSide, writable, grace, assembler, captured, delivered>>

RelayInject ==
    /\ upg = "relaying" /\ injectQueue # <<>>
    /\ LET q == Head(injectQueue) IN
       /\ injectQueue' = Tail(injectQueue)
       /\ \E ok \in Writes(q.to) :
             IF ok THEN /\ Deliver(q.to, write_ws_frame(q.to, q.op, 0, "user"))
                        /\ captured' = [captured EXCEPT ![Other(q.to)] =
                                           Append(@, build_ws_message(q.op, q.fin, <<0>>))]
                        /\ UNCHANGED upg
                   ELSE (upg' = "closing" \/ Stuck(q.to)) /\ UNCHANGED <<captured, delivered>>
    /\ staged' = [s \in Sides |-> AfterCancel(staged[s])]
    /\ UNCHANGED <<Handler, freePermits, relayPermit, taken, doneSide, writable, grace,
                   assembler, registry, uiStatus, injected>>

\* Both sides are done, or the grace period is over.
EndRelay ==
    /\ upg = "relaying"
    /\ grace \/ \A s \in Sides : doneSide[s]
    /\ upg' = "closing"
    /\ UNCHANGED <<Handler, freePermits, relayPermit, relayState, tables>>

mark_closed ==
    /\ upg = "closing" /\ registry = "active"
    /\ registry' = "closed"
    /\ emit_ws_connection_status("closed")
    /\ UNCHANGED <<Handler, upg, freePermits, relayPermit, relayState, injectQueue, injected>>

unregister ==
    /\ upg = "closing" /\ registry = "closed"
    /\ registry' = "none"
    /\ upg' = "gone"
    /\ relayPermit' = FALSE /\ freePermits' = freePermits + 1
    /\ injectQueue' = <<>>
    /\ UNCHANGED <<Handler, uiStatus, injected, relayState>>

\* Refused unless the entry is active and its channel has room and a receiver.
inject == registry = "active" /\ upg # "abandoned" /\ Len(injectQueue) < InjectRoom

inject_ws_message ==
    /\ injected < MaxInjects
    /\ inject
    /\ \E q \in Injects : injectQueue' = Append(injectQueue, q)
    /\ injected' = injected + 1
    /\ UNCHANGED <<Handler, upg, freePermits, relayPermit, relayState, registry, uiStatus>>

get_status == IF registry = "none" THEN "closed" ELSE registry

RelayNext ==
    \/ OnUpgrade \/ RelayInject \/ EndRelay \/ mark_closed \/ unregister
    \/ \E s \in Sides : read_ws_frame(s) \/ RelayFrame(s) \/ ReadFails(s) \/ TellingStuck(s)

NextWebSocket ==
    \/ Establish \/ Refuse \/ RefuseForLimit \/ RefuseUnbuildable \/ Register \/ SpawnRelay
    \/ ClientLeaves \/ inject_ws_message
    \/ RelayNext

WebSocketFairness == WF_wsVars(EndRelay) /\ WF_wsVars(mark_closed) /\ WF_wsVars(unregister)

WebSocketSpec == WebSocketInit /\ [][NextWebSocket]_wsVars /\ WebSocketFairness

----------------------------------------------------------------------------
\* Whether the data frames of a stream are messages: a start only between messages, a
\* continuation only inside one.
WellFormed(q) ==
    LET data == {i \in DOMAIN q : q[i].op \in {"text", "cont"}}
        open(i) == \E j \in data : j < i /\ ~q[j].fin /\ \A k \in data : j < k /\ k < i => ~q[k].fin
    IN \A i \in data : open(i) <=> q[i].op = "cont"

\* The places of what was sent on from side s.
FromPeer(s) == {i \in DOMAIN delivered[Other(s)] : delivered[Other(s)][i].by = "peer"}

\* The message that ends with frame j of a well-formed stream, as a set of places.
MessageOf(q, j) ==
    LET data == {i \in DOMAIN q : q[i].op \in {"text", "cont"}}
        from == CHOOSE i \in data : i <= j /\ q[i].op = "text" /\ \A k \in data : i < k /\ k <= j => q[k].op = "cont"
    IN {i \in data : from <= i /\ i <= j}

\* Relay and capture are faithful whatever the arms interleave with (ws.rs, relay_websocket_frames):
\* what each peer is sent from the other is a prefix of the other's stream, in order and with no
\* frame missing, masked exactly toward the upstream; a captured final fragment carries its whole
\* message, or the longest prefix the cap allows and is then marked as truncated; and two peers
\* that keep to the protocol are never sent a Close(1002).
RelayIsFaithful ==
    \A s \in Sides :
        /\ \A i \in FromPeer(s) :
              LET sent == delivered[Other(s)]
                  n    == sent[i].n
              IN /\ n \in DOMAIN Stream(s) /\ sent[i].op = Stream(s)[n].op
                 /\ \A j \in FromPeer(s) : j < i => sent[j].n < n
                 /\ \A k \in 1..(n - 1) : \E j \in FromPeer(s) : j < i /\ sent[j].n = k
        /\ \A i \in DOMAIN delivered[s] : delivered[s][i].masked <=> s = "upstream"
        /\ WellFormed(Stream(s)) =>
              \A i \in DOMAIN captured[s] :
                 LET m == captured[s][i] IN
                 (m.op = "text" /\ m.fin /\ Len(m.body) > 0 /\ m.body[1] > 0) =>
                    \E j \in DOMAIN Stream(s) :
                       LET whole == MessageOf(Stream(s), j) IN
                       /\ Stream(s)[j].fin /\ Stream(s)[j].op \in {"text", "cont"}
                       /\ \A k \in DOMAIN m.body : m.body[k] \in whole /\ (k > 1 => m.body[k] > m.body[k - 1])
                       /\ m.truncated <=> Cardinality(whole) > AssemblyCap
                       /\ Len(m.body) = IF m.truncated THEN AssemblyCap ELSE Cardinality(whole)
        /\ (\A t \in Sides : \A i \in DOMAIN Stream(t) : Stream(t)[i].op # "bad") =>
              \A i \in DOMAIN delivered[s] : delivered[s][i].by # "proxy"

\* The bytes of the chunks before the first that is none.
Chunked(chunks) ==
    Joined(chunks, CHOOSE n \in 0..Len(chunks) :
                      /\ \A j \in 1..n : chunks[j].kind = "data"
                      /\ n = Len(chunks) \/ chunks[n + 1].kind # "data")

\* An upgrade has one outcome (ws_upgrade.rs, handle_ws_upgrade_via_hyper): the session is recorded
\* once and with the status the client was given; a client that is told 101 has a relay that holds
\* a permit until it is over, any other client is told no header that says otherwise and holds
\* none; a body handed on is what the upstream sent, up to the cap; and the registry and the user
\* interface say "active" only while a relay is running or about to, unless the client left while
\* the session was being recorded.
UpgradeHasOneOutcome ==
    /\ Len(record) <= 1
    /\ upg \notin {"dialing", "head", "recording"} => Len(record) = 1
    /\ answer.status # 0 => record = <<answer.status>>
    /\ relayPermit <=> upg \in {"recording", "spawned", "relaying", "closing", "stuck"}
    /\ upg = "answered" => answer.status # 101 /\ ~answer.as.connection
    /\ upg = "answered" /\ answer.as.status # 0 /\ head.status # 101 =>
          LET r     == wsAsked.refusal
              bytes == IF head.framing = "chunked" THEN Chunked(r.chunks) ELSE r.leftover \o r.rest
              whole == \/ head.framing = "length" /\ Len(bytes) >= head.total
                       \/ head.framing = "close" /\ r.end = "eof"
                       \/ head.framing = "chunked" /\ \E i \in DOMAIN r.chunks : r.chunks[i].kind = "last"
              size  == IF head.framing = "length" THEN head.total ELSE Len(bytes)
          IN /\ answer.body = Firsts(bytes, Len(answer.body)) /\ Len(answer.body) <= size
             /\ whole => Len(answer.body) = IF size < BodyCap THEN size ELSE BodyCap
    /\ (get_status = "active" \/ uiStatus = "active") /\ upg # "abandoned" =>
          upg \in {"recording", "spawned", "relaying", "closing", "stuck"}

\* Once one side of a relay is over the relay ends and its entry disappears (the grace period of
\* relay_websocket_frames), even if the other peer sends nothing and stays; but not if a write or a
\* shutdown towards a peer that does not read is under way, which nothing bounds: such a relay
\* keeps its task, its permit and its entry.
RelayEnds == \A s \in Sides : doneSide[s] ~> (upg = "gone" /\ registry = "none") \/ upg = "stuck"

\* A WebSocket connection is upgraded once and relayed as it is (ws_upgrade.rs and ws.rs): the two
\* invariants above.
UpgradeIsFaithful == RelayIsFaithful /\ UpgradeHasOneOutcome

=============================================================================
