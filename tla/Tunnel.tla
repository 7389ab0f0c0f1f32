------------------------------- MODULE Tunnel -------------------------------
(***************************************************************************)
(* A client connection from accept to its end: the listener and its        *)
(* permits, the header probe, the choice between interception and a blind  *)
(* tunnel, the dial (direct or through an upstream HTTP or SOCKS5 proxy)   *)
(* and the idle-reset relay.  One connection at a time is followed in      *)
(* detail; the others only hold permits.  A byte stream is a sequence of   *)
(* tokens: handshake messages, then payload.                               *)
(***************************************************************************)
EXTENDS Naturals, Sequences, FiniteSets, SequencesExt

CONSTANTS
  TunnelCases, \* configuration, request and what the peers send
  MaxPermits,  \* MAX_CONCURRENT_CONNECTIONS
  MaxInterim,  \* interim CONNECT responses accepted before giving up (10)
  BackoffCap,  \* accept failures after which the delay stops growing
  IdleWindow,  \* ticks of silence the relay tolerates
  MaxRounds    \* bound: connections followed one after the other

ASSUME TunnelAssumption ==
  {MaxPermits, MaxInterim, BackoffCap, IdleWindow, MaxRounds} \subseteq Nat \ {0}

VARIABLES
  tcase,    \* the case at hand
  listener, \* state of the accept loop, consecutive failures, permits of others
  conn,     \* the followed connection
  relay,    \* the blind relay of the followed connection
  throttle, \* hosts whose tunnel failure was reported within the window
  rounds    \* connections followed so far
tunnelVars == <<tcase, listener, conn, relay, throttle, rounds>>

T(k, v) == <<k, v>>
Tokens == STRING \X STRING
None == "none"

\* The tokens of a handshake come first, then the payload.
SplitsAt(s, n) == \A i \in 1..Len(s) : s[i][1] = "data" <=> i > n
Payload(s) == SubSeq(s, (CHOOSE n \in 0..Len(s) : SplitsAt(s, n)) + 1, Len(s))

\* Payload is what follows the response that accepts a CONNECT, or the bound address of
\* a SOCKS5 reply; a peer may stop anywhere before.
Orderly(s) ==
  \E n \in 0..Len(s) :
    /\ SplitsAt(s, n)
    /\ \A i \in 1..Len(s) :
         /\ s[i] = T("status", "2xx") => n = i
         /\ s[i][1] = "reply" /\ s[i][2] # "unknown" /\ i < Len(s) => n = i + 1

ASSUME TunnelCaseAssumption ==
  \A c \in TunnelCases :
    /\ c.client \in Seq(Tokens) /\ c.says \in Seq(Tokens) /\ Orderly(c.says)
    /\ c.proxy.proto \in {None, "http", "https", "socks5"}
    /\ {"shape", "excludeOn", "exclude", "includeOn", "include"} \subseteq DOMAIN c.ssl
    /\ \A e \in c.ssl.exclude : {"pattern", "enabled"} \subseteq DOMAIN e

-----------------------------------------------------------------------------
(* Policies over hosts.  A host is its labels; an address is its octets.   *)

\* The domain itself and its subdomains, by the text alone; a network holds literal addresses only.
matches(p, host) ==
  CASE p.kind = "any" -> TRUE
    [] p.kind = "network" -> host.ip /\ IsPrefix(p.labels, host.labels)
    [] p.kind = "suffix" -> IsSuffix(p.labels, host.labels)
    [] p.kind = "exact" -> p.labels = host.labels
matches_any(patterns, host) == host.labels # << >> /\ \E p \in patterns : matches(p, host)
host_in_allowlist(list, host) == host.labels # << >> /\ host \in list

is_ssl_blind_tunnel(c) == ~c.tls \/ host_in_allowlist(c.blindHosts, c.host)
\* Excluding wins; the include list only restricts once it is switched on.
should_intercept(p, host) ==
  /\ ~(p.excludeOn /\ matches_any(p.exclude, host))
  /\ p.includeOn => matches_any(p.include, host)
should_verify(c) == c.verify \/ host_in_allowlist(c.verifyHosts, c.host)
should_bypass(proxy, host) == matches_any(proxy.bypass, host)

\* The old shape was a pair of plain lists: a non-empty include list was an allowlist.
AllEnabled(entries) == {[e EXCEPT !.enabled = TRUE] : e \in entries}
ssl_deserialize(stored) ==
  IF stored.shape = "new" THEN stored
  ELSE [stored EXCEPT !.excludeOn = TRUE, !.includeOn = stored.include # {},
                      !.exclude = AllEnabled(@), !.include = AllEnabled(@)]
\* The runtime lists keep the entries that are switched on.
enabled_patterns(entries) == {e.pattern : e \in {x \in entries : x.enabled}}
ssl_to_runtime_config(s) ==
  [excludeOn |-> s.excludeOn, exclude |-> enabled_patterns(s.exclude),
   includeOn |-> s.includeOn, include |-> enabled_patterns(s.include)]

\* Disabled settings are no proxy; a password without a username is dropped.
proxy_to_runtime_config(s) ==
  IF ~s.enabled THEN [proto |-> None]
  ELSE [proto |-> s.proto, host |-> s.host, username |-> s.username,
        password |-> IF s.username = None THEN None ELSE s.password, bypass |-> s.bypass]
proxy_validate(proxy) == proxy.host # "" /\ ~(proxy.username = None /\ proxy.password # None)

Policy(c) == ssl_to_runtime_config(ssl_deserialize(c.ssl))
Proxy(c) == proxy_to_runtime_config(c.proxy)
Proxied(c) == Proxy(c).proto # None /\ ~should_bypass(Proxy(c), c.host)

-----------------------------------------------------------------------------
(* The handshakes with an upstream proxy, as functions of what it sends.   *)
(* A result is the outcome, the tokens left in the stream and whether the  *)
(* credentials went out.                                                   *)

Dialed(out, rest, creds) == [out |-> out, rest |-> rest, creds |-> creds]
Starved(in, end, creds) == Dialed(IF end = "eof" THEN "failed" ELSE "stalled", in, creds)

\* A buffered read would swallow what the target already sent in the tunnel.
M_BufferedHead(in) == [head |-> Head(in), rest |-> << >>]
read_connect_response_head(in) == [head |-> Head(in), rest |-> Tail(in)]

\* The class of a status line; other lines and oversized heads are malformed.
parse_status_code(head) == IF head[1] = "status" THEN head[2] ELSE "malformed"

\* Interim responses are skipped, up to a bound; then the final one decides.
http_connect_handshake(in, end, creds) ==
  LET Interim(i) == i <= Len(in) /\ parse_status_code(in[i]) = "1xx"
      n == CHOOSE k \in 0..Len(in) : ~Interim(k + 1) /\ \A i \in 1..k : Interim(i)
      left == SubSeq(in, n + 1, Len(in))
  IN  IF n >= MaxInterim THEN Dialed("failed", left, creds)
      ELSE IF left = << >> THEN Starved(left, end, creds)
      ELSE LET r == read_connect_response_head(left) IN
           Dialed(IF parse_status_code(r.head) = "2xx" THEN "connected" ELSE "failed", r.rest, creds)

\* What the bound address of a reply costs: every known type is drained.
consume_socks5_bound_address(in, end, creds, kind) ==
  IF kind = "unknown" THEN Dialed("failed", in, creds)
  ELSE IF in = << >> THEN Starved(in, end, creds)
  ELSE Dialed("connected", Tail(in), creds)

\* The reply to CONNECT: only code zero of version five goes on.
Socks5Reply(in, end, creds) ==
  IF in = << >> THEN Starved(in, end, creds)
  ELSE IF Head(in)[1] # "reply" THEN Dialed("failed", in, creds)
  ELSE consume_socks5_bound_address(Tail(in), end, creds, Head(in)[2])

\* A name too long for its length byte is never sent.
Socks5Request(in, end, creds, target) ==
  IF target = "long" THEN Dialed("failed", in, creds) ELSE Socks5Reply(in, end, creds)

\* Credentials too long for their length bytes are never sent; only the status byte of the answer counts.
socks5_username_password_auth(in, end, target, fit) ==
  IF ~fit THEN Dialed("failed", in, FALSE)
  ELSE IF in = << >> THEN Starved(in, end, TRUE)
  ELSE IF Head(in) # T("auth", "ok") THEN Dialed("failed", in, TRUE)
  ELSE Socks5Request(Tail(in), end, TRUE, target)

\* The proxy must pick a method that was offered.
socks5_handshake(in, end, offers, fit, target) ==
  IF in = << >> THEN Starved(in, end, FALSE)
  ELSE CASE Head(in) = T("method", "none") -> Socks5Request(Tail(in), end, FALSE, target)
         [] Head(in) = T("method", "password") /\ offers -> socks5_username_password_auth(Tail(in), end, target, fit)
         [] OTHER -> Dialed("failed", Tail(in), FALSE)

\* What the proxy is asked for: the override first, then a literal, else the unresolved name.
TargetAddress(c) == IF c.override \/ c.host.ip THEN "address" ELSE IF c.longName THEN "long" ELSE "name"

\* TLS to the proxy is always verified; credentials never precede it.
tls_wrap_proxy_hop(c) == c.proxyCert = "trusted"

dial_via_proxy(c, target) ==
  LET proxy == Proxy(c)
      creds == proxy.username # None
      hop == CASE proxy.proto = "http" -> http_connect_handshake(c.says, c.ends, creds)
               [] proxy.proto = "https" ->
                    IF ~tls_wrap_proxy_hop(c) THEN Dialed("failed", c.says, FALSE)
                    ELSE http_connect_handshake(c.says, c.ends, creds)
               [] proxy.proto = "socks5" -> socks5_handshake(c.says, c.ends, creds, "long" \notin {proxy.username, proxy.password}, target)
  IN  IF c.reach.proxy THEN hop ELSE Dialed("failed", << >>, FALSE)

\* Every resolved address is tried in turn.
connect_first_reachable(addresses) == \E i \in DOMAIN addresses : addresses[i]
dial_direct(c) ==
  Dialed(IF connect_first_reachable(c.reach.origin) THEN "connected" ELSE "failed", Payload(c.says), FALSE)

\* No fallback: a proxy that fails is a failure.
dial_target(c) ==
  IF Proxied(c) THEN [dial |-> dial_via_proxy(c, TargetAddress(c)), route |-> "proxy"]
  ELSE [dial |-> dial_direct(c), route |-> "direct"]

-----------------------------------------------------------------------------
(* The listener.  Its own steps do not touch the followed connection, so   *)
(* they are interleaved with it only until that connection is accepted.    *)

NewConn == [at |-> "waiting", mode |-> None, permit |-> FALSE, answer |-> None, route |-> None,
            creds |-> None, verified |-> FALSE, h2 |-> FALSE, buffered |-> << >>, reported |-> FALSE, outcome |-> None]
NewRelay == [at |-> "off", src |-> [up |-> << >>, down |-> << >>], left |-> [up |-> << >>, down |-> << >>],
             got |-> [up |-> << >>, down |-> << >>], eof |-> {}, held |-> T(None, << >>), quiet |-> 0]

Held == listener.others + (IF conn.permit THEN 1 ELSE 0)
Ended(c, outcome) == [c EXCEPT !.at = "over", !.outcome = outcome, !.permit = FALSE]

\* Delays double with each consecutive failure up to a cap.
accept_error_backoff(n) == IF n >= BackoffCap THEN BackoffCap ELSE n

\* A connection over the limit is accepted and dropped at once.
Accept ==
  /\ listener.at = "open" /\ conn.at = "waiting"
  /\ listener' = [listener EXCEPT !.errors = 0]
  /\ conn' = IF Held < MaxPermits THEN [conn EXCEPT !.at = "probe", !.permit = TRUE] ELSE Ended(conn, "rejected")
  /\ UNCHANGED <<tcase, relay, throttle, rounds>>
AcceptOther ==
  /\ listener.at = "open" /\ Held < MaxPermits /\ conn.at = "waiting"
  /\ listener' = [listener EXCEPT !.others = @ + 1, !.errors = 0]
  /\ UNCHANGED <<tcase, conn, relay, throttle, rounds>>
OtherEnds ==
  /\ listener.others > 0 /\ conn.at = "waiting"
  /\ listener' = [listener EXCEPT !.others = @ - 1]
  /\ UNCHANGED <<tcase, conn, relay, throttle, rounds>>
AcceptFails ==
  /\ listener.at = "open" /\ conn.at = "waiting"
  /\ listener' = [listener EXCEPT !.at = "backoff", !.errors = accept_error_backoff(@ + 1)]
  /\ UNCHANGED <<tcase, conn, relay, throttle, rounds>>
BackoffEnds ==
  /\ listener.at = "backoff"
  /\ listener' = [listener EXCEPT !.at = "open"]
  /\ UNCHANGED <<tcase, conn, relay, throttle, rounds>>
\* A stop request ends the loop, in the middle of a delay too; connections live on.
Shutdown ==
  /\ listener.at \in {"open", "backoff"} /\ conn.at = "waiting"
  /\ listener' = [listener EXCEPT !.at = "stopped"]
  /\ UNCHANGED <<tcase, conn, relay, throttle, rounds>>

-----------------------------------------------------------------------------
(* The header probe and what it decides.                                   *)

\* The read that completes the head may bring k tokens of what follows.
Leftover(k) == SubSeq(tcase.client, 1, k)

read_header_only ==
  /\ conn.at = "probe"
  /\ IF tcase.req = "bad"
     THEN conn' = [Ended(conn, "bad_request") EXCEPT !.answer = "400"]
     ELSE \E k \in 0..Len(tcase.client) : conn' = [conn EXCEPT !.at = "routed", !.buffered = Leftover(k)]
  /\ UNCHANGED <<tcase, listener, relay, throttle, rounds>>

\* The root certificate is served to whoever asks for its path.
ServeCertificate ==
  /\ conn.at = "routed" /\ tcase.req = "certificate"
  /\ conn' = [Ended(conn, "served") EXCEPT !.answer = IF tcase.tls THEN "200" ELSE "404"]
  /\ UNCHANGED <<tcase, listener, relay, throttle, rounds>>

\* The protocol server must see the head again, the tunnel only what follows it.
HandToServer(c) == [c EXCEPT !.at = "forward", !.mode = "plain", !.buffered = <<T("head", "plain")>> \o @]

handle_connection ==
  /\ conn.at = "routed" /\ tcase.req \in {"connect", "plain"}
  /\ LET mitm == should_intercept(Policy(tcase), tcase.host) /\ ~is_ssl_blind_tunnel(tcase) IN
     conn' = IF tcase.req = "plain" THEN HandToServer(conn)
             ELSE IF mitm THEN [conn EXCEPT !.at = "tls", !.mode = "mitm", !.answer = "200"]
             ELSE [conn EXCEPT !.at = "dial", !.mode = "blind"]
  /\ UNCHANGED <<tcase, listener, relay, throttle, rounds>>

-----------------------------------------------------------------------------
(* Failures are reported as a session, one per host and window.            *)

should_emit_connect_failure == tcase.host \notin throttle
Failed(c, answer, outcome) ==
  [Ended(c, outcome) EXCEPT !.answer = IF answer = None THEN @ ELSE answer, !.reported = should_emit_connect_failure]
send_connect_failure_session == throttle' = throttle \cup {tcase.host}
WindowPasses ==
  /\ throttle # {} /\ conn.at = "waiting"
  /\ throttle' = {}
  /\ UNCHANGED <<tcase, listener, conn, relay, rounds>>

-----------------------------------------------------------------------------
(* Interception: the tunnel is announced first, then the client must       *)
(* complete a TLS handshake in time.                                       *)

\* Why a client refuses: its alert tells a pinned from an untrusted certificate.
ClientRejections == {"client_tls_rejected", "client_tls_untrusted_root", "other"}
\* The negotiated protocol picks the server for the decrypted stream.
ServeDecrypted(c, alpn) == [c EXCEPT !.at = "forward", !.h2 = alpn = "h2"]

ClientHandshake ==
  /\ conn.at = "tls"
  /\ \/ (\E alpn \in {"h2", "http/1.1"} : conn' = ServeDecrypted(conn, alpn)) /\ UNCHANGED throttle
     \/ /\ \E why \in ClientRejections : conn' = Failed(conn, None, why)
        /\ send_connect_failure_session
  /\ UNCHANGED <<tcase, listener, relay, rounds>>

\* The connection of a request: resolve or hand the name to the proxy, then TLS.
TimingConnectorCall ==
  /\ conn.at = "forward"
  /\ LET d == dial_target(tcase)
         https == conn.mode = "mitm"
         verify == https /\ should_verify(tcase)
         up == d.dial.out = "connected" /\ ~(verify /\ tcase.originCert # "trusted")
     IN  conn' = [Ended(conn, IF up THEN "forwarded" ELSE "upstream_error")
                    EXCEPT !.route = d.route, !.verified = up /\ verify,
                           !.creds = IF d.dial.creds THEN Proxy(tcase).proto ELSE None]
  /\ UNCHANGED <<tcase, listener, relay, throttle, rounds>>

-----------------------------------------------------------------------------
(* The blind tunnel.                                                       *)

\* The origin is connected before the client is told that the tunnel is up.  The
\* proxy handshake has a shorter limit than the dial, so its time-out is a 502.
tunnel_blind_relay ==
  /\ conn.at = "dial"
  /\ LET d == dial_target(tcase)
         creds == IF d.dial.creds THEN Proxy(tcase).proto ELSE None
         seen == [conn EXCEPT !.route = d.route, !.creds = creds]
     IN  \/ /\ d.dial.out = "connected"
            /\ conn' = [seen EXCEPT !.at = "relay", !.answer = "200"]
            /\ relay' = [NewRelay EXCEPT !.at = "top",
                           !.src = [up |-> tcase.client, down |-> Payload(tcase.says)],
                           !.left = [up |-> conn.buffered \o SubSeq(tcase.client, Len(conn.buffered) + 1, Len(tcase.client)),
                                     down |-> d.dial.rest]]
            /\ UNCHANGED throttle
         \/ /\ d.dial.out # "connected"
            /\ conn' = Failed(seen, "502", "upstream_error")
            /\ send_connect_failure_session /\ UNCHANGED relay
         \/ /\ d.route = "direct"
            /\ conn' = Failed(seen, "504", "timeout")
            /\ send_connect_failure_session /\ UNCHANGED relay
         \/ /\ d.dial.out = "connected"
            /\ conn' = Ended(seen, "client_gone") /\ UNCHANGED <<relay, throttle>>
  /\ UNCHANGED <<tcase, listener, rounds>>

-----------------------------------------------------------------------------
(* The relay: a loop that checks for the end and for silence, then waits   *)
(* for either side.  The deadline counts from the last completed read and  *)
(* is not looked at while a chunk is being written.                        *)

Directions == {"up", "down"}
SourceEnd(d) == IF d = "up" THEN tcase.clientEnds ELSE tcase.ends
TunnelFinish(outcome) == conn' = Ended(conn, outcome) /\ relay' = [relay EXCEPT !.at = "off"]

RelayTop ==
  /\ relay.at = "top"
  /\ \/ relay.eof = Directions /\ TunnelFinish("done")
     \/ relay.eof # Directions /\ relay.quiet >= IdleWindow /\ TunnelFinish("idle")
     \/ relay.eof # Directions /\ relay.quiet < IdleWindow /\ relay' = [relay EXCEPT !.at = "select"] /\ UNCHANGED conn
  /\ UNCHANGED <<tcase, listener, throttle, rounds>>

RelayRead(d) ==
  /\ relay.at = "select" /\ d \notin relay.eof
  /\ \/ \E k \in 1..Len(relay.left[d]) :
          /\ relay' = [relay EXCEPT !.at = "write", !.held = T(d, SubSeq(relay.left[d], 1, k)), !.quiet = 0,
                                    !.left[d] = SubSeq(@, k + 1, Len(@))]
          /\ UNCHANGED conn
     \/ /\ relay.left[d] = << >> /\ SourceEnd(d) = "eof"
        /\ relay' = [relay EXCEPT !.at = "top", !.eof = @ \cup {d}]
        /\ UNCHANGED conn
     \/ /\ relay.left[d] = << >> /\ SourceEnd(d) = "reset"
        /\ TunnelFinish("error")
  /\ UNCHANGED <<tcase, listener, throttle, rounds>>

\* The write of a chunk is not raced against the idle deadline.
RelayWrite ==
  /\ relay.at = "write"
  /\ LET d == relay.held[1] IN
     \/ /\ relay' = [relay EXCEPT !.at = "top", !.got[d] = @ \o relay.held[2], !.held = T(None, << >>)]
        /\ UNCHANGED conn
     \/ TunnelFinish("error")
  /\ UNCHANGED <<tcase, listener, throttle, rounds>>

RelayIdle ==
  /\ relay.at = "select" /\ relay.quiet >= IdleWindow
  /\ TunnelFinish("idle")
  /\ UNCHANGED <<tcase, listener, throttle, rounds>>

Silence ==
  /\ relay.at \in {"select", "write"} /\ relay.quiet < IdleWindow
  /\ relay' = [relay EXCEPT !.quiet = @ + 1]
  /\ UNCHANGED <<tcase, listener, conn, throttle, rounds>>

-----------------------------------------------------------------------------
(* Requests that do not come through the listener.                         *)

\* A composed request drops pseudo and hop-by-hop headers and dials the origin itself.
send_direct_request_bytes ==
  /\ tcase.req = "compose" /\ conn.at = "waiting"
  /\ \E headers \in SUBSET {"end-to-end", "hop", "pseudo", "illegal"} :
       LET sent == headers \ {"hop", "pseudo"} IN
       \/ "illegal" \in sent /\ conn' = [Ended(conn, "invalid") EXCEPT !.mode = "compose"]
       \/ /\ "illegal" \notin sent
          /\ \E out \in {"sent", "failed", "timeout", "body_failed"} :
               conn' = [Ended(conn, out) EXCEPT !.mode = "compose", !.route = "direct"]
  /\ UNCHANGED <<tcase, listener, relay, throttle, rounds>>

\* The probe ignores the bypass list: it tests the proxy itself.
probe_upstream_proxy ==
  /\ tcase.req = "probe" /\ conn.at = "waiting" /\ Proxy(tcase).proto # None
  /\ conn' = IF ~proxy_validate(Proxy(tcase)) THEN [Ended(conn, "invalid") EXCEPT !.mode = "probe"]
             ELSE LET d == dial_via_proxy(tcase, TargetAddress([tcase EXCEPT !.override = FALSE])) IN
                  [Ended(conn, IF d.out = "connected" THEN "reached" ELSE "unreached") EXCEPT !.mode = "probe", !.route = "proxy"]
  /\ UNCHANGED <<tcase, listener, relay, throttle, rounds>>

NextConnection ==
  /\ conn.at = "over" /\ rounds < MaxRounds
  /\ conn' = NewConn /\ relay' = NewRelay /\ rounds' = rounds + 1
  /\ UNCHANGED <<tcase, listener, throttle>>

\* A server with an invalid upstream proxy does not start.
\* Settings that do not validate are refused, but may be probed.
AcceptedCases == {c \in TunnelCases : c.req = "probe" \/ Proxy(c).proto = None \/ proxy_validate(Proxy(c))}
TunnelInit ==
  /\ tcase \in AcceptedCases
  /\ listener = [at |-> "open", errors |-> 0, others |-> 0]
  /\ conn = NewConn /\ relay = NewRelay /\ throttle = {} /\ rounds = 1

NextTunnel ==
  \/ Accept \/ AcceptOther \/ OtherEnds \/ AcceptFails \/ BackoffEnds \/ Shutdown
  \/ read_header_only \/ ServeCertificate \/ handle_connection \/ WindowPasses
  \/ ClientHandshake \/ TimingConnectorCall \/ tunnel_blind_relay
  \/ RelayTop \/ (\E d \in Directions : RelayRead(d)) \/ RelayWrite \/ RelayIdle \/ Silence
  \/ send_direct_request_bytes \/ probe_upstream_proxy \/ NextConnection

TunnelSpec == TunnelInit /\ [][NextTunnel]_tunnelVars

-----------------------------------------------------------------------------

\* A blind tunnel is transparent: each side receives exactly the bytes the
\* other one sent after the CONNECT exchange, in order and without a byte of
\* a handshake, learns of the end only after all of them, and loses nothing
\* that was read when silence ends the tunnel.  The client is told 200 only
\* over a connected origin, and a plain request is
\* replayed from its first byte.  No byte reaches the origin directly when a proxy
\* is set for its host, however the proxy fails; credentials go over TLS only
\* to a verified proxy, and a named host (the lists match no empty one) that a
\* stored list excludes is not decrypted.
TunnelIsTransparent ==
  /\ relay.at # "off" \/ conn.outcome \in {"idle", "done"} =>
       \A d \in Directions :
         /\ relay.got[d] \o (IF relay.held[1] = d THEN relay.held[2] ELSE << >>) \o relay.left[d] = relay.src[d]
         /\ d \in relay.eof \/ conn.outcome = "done" => relay.got[d] = relay.src[d]
         /\ relay.at = "off" => relay.held[1] = None
  /\ conn.mode = "blind" /\ conn.answer = "200" => conn.route # None
  /\ conn.route = "direct" /\ conn.mode # "compose" => ~Proxied(tcase)
  /\ conn.mode = "plain" => Head(conn.buffered) = T("head", "plain") /\ IsPrefix(Tail(conn.buffered), tcase.client)
  /\ conn.creds = "https" => tcase.proxyCert = "trusted"
  /\ conn.outcome = "forwarded" /\ conn.mode = "mitm" /\ tcase.host.labels # << >> =>
       /\ \A e \in tcase.ssl.exclude : tcase.ssl.shape = "legacy" => ~matches(e.pattern, tcase.host)
       /\ tcase.host \in tcase.verifyHosts => tcase.originCert = "trusted"
=============================================================================
