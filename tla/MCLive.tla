------------------------------- MODULE MCLive -------------------------------
(***************************************************************************)
(* What must end, on small instances: calls through the upstream pool, and *)
(* the WebSocket upgrade and relay.  Each behaviour runs one of the two,   *)
(* chosen at the start; the other keeps its initial state.                 *)
(***************************************************************************)
EXTENDS UpstreamForward, WebSocket

VARIABLE part

---------------------------------------------------------------------------
(* WebSocket: every stream of two client frames, fragmented messages of    *)
(* three, compressed frames from upstream; every kind of answer.           *)

Frame(op, fin) == [op |-> op, fin |-> fin, zip |-> FALSE]
Text == Frame("text", TRUE)
TextStart == Frame("text", FALSE)
ContMore == Frame("cont", FALSE)
ContEnd == Frame("cont", TRUE)
Ping == Frame("ping", TRUE)
CloseFrame == Frame("close", TRUE)
BadFrame == Frame("bad", TRUE)
ClientStreams ==
  [1..2 -> {Text, TextStart, ContEnd, ContMore, Ping, CloseFrame, BadFrame}]
  \cup {<<TextStart, ContMore, ContEnd>>, <<TextStart, Ping, ContEnd>>, <<TextStart, Text, ContEnd>>}
MCStreams ==
  {[client |-> c, upstream |-> <<>>] : c \in ClientStreams}
  \cup {[client |-> <<Text, f>>, upstream |-> <<[Text EXCEPT !.zip = TRUE], g>>] : f, g \in {CloseFrame, BadFrame}}
MCInjects == {[to |-> s, op |-> "text", fin |-> TRUE] : s \in Sides}

UpgradeRequest(scheme, mode, name, keyed) == [scheme |-> scheme, mode |-> mode, name |-> name, key |-> keyed]
PlainUpgrade == UpgradeRequest("ws", "plain", "host", TRUE)
MCRequests == {PlainUpgrade, UpgradeRequest("wss", "plain", "malformed", TRUE), UpgradeRequest("wss", "mitm", "host", FALSE)}
UpgradeHead(st, c, u, a, x, l, f, t) ==
  [status |-> st, connection |-> c, upgrade |-> u, accept |-> a, ext |-> x, legal |-> l, framing |-> f, total |-> t]
MCHeads ==
  {UpgradeHead(101, TRUE, TRUE, "ours", x, l, "close", 0) : x, l \in BOOLEAN}
  \cup {UpgradeHead(101, TRUE, TRUE, "other", FALSE, TRUE, "close", 0), UpgradeHead(101, TRUE, FALSE, "ours", FALSE, TRUE, "close", 0),
        UpgradeHead(0, FALSE, FALSE, "none", FALSE, TRUE, "close", 0)}
  \cup {UpgradeHead(403, FALSE, FALSE, "none", FALSE, TRUE, f[1], f[2]) :
          f \in {<<"length", 0>>, <<"length", 2>>, <<"length", 4>>, <<"chunked", 0>>, <<"close", 0>>}}

Chunk(type, bytes) == [kind |-> type, bytes |-> bytes]
Refusal(leftover, rest, chunks, end) == [leftover |-> leftover, rest |-> rest, chunks |-> chunks, end |-> end]
MCRefusals ==
  {Refusal(l, r, <<>>, e) : l \in {<<>>, <<1, 2, 3>>}, r \in {<<>>, <<4>>}, e \in {"eof", "idle", "error"}}
  \cup {Refusal(<<>>, <<>>, c, e) :
          c \in {<<Chunk("data", <<1, 2>>), Chunk(k, <<>>)>> : k \in {"last", "bad", "cut"}}
                \cup {<<Chunk("data", <<1, 2>>), Chunk("data", <<3, 4>>), Chunk("last", <<>>)>>},
          e \in {"eof", "error"}}
MCWsCases ==
  [req : {PlainUpgrade}, streams : MCStreams, refusal : {Refusal(<<>>, <<>>, <<>>, "eof")}]
  \cup [req : MCRequests, streams : {[client |-> <<Text>>, upstream |-> <<>>]}, refusal : MCRefusals]

---------------------------------------------------------------------------
LiveInit ==
  /\ part \in {"upstream", "websocket"}
  /\ Init
  /\ WebSocketInit /\ (part # "websocket" => wsAsked = (CHOOSE c \in WsCases : TRUE) /\ freePermits = 1)

\* The relay comes to rest when its connection is over.
LiveNext ==
  \/ part = "upstream" /\ Next /\ UNCHANGED <<part, wsVars>>
  \/ part = "websocket" /\ NextWebSocket /\ UNCHANGED <<part, vars>>
  \/ part = "websocket" /\ UNCHANGED <<part, vars, wsVars>>

\* Fairness of UpstreamForward and WebSocketFairness; a step of the other part is not theirs.
LiveSpec ==
  /\ LiveInit
  /\ [][LiveNext]_<<part, vars, wsVars>>
  /\ \A c \in Callers :
       /\ WF_vars(part = "upstream" /\ PoolStep(c)) /\ WF_vars(part = "upstream" /\ ExchangeStep(c))
       /\ SF_vars(part = "upstream" /\ HeadPhaseTimeout(c))
  /\ WF_wsVars(part = "websocket" /\ EndRelay)
  /\ WF_wsVars(part = "websocket" /\ mark_closed)
  /\ WF_wsVars(part = "websocket" /\ unregister)
=============================================================================
