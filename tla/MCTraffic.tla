----------------------------- MODULE MCTraffic -----------------------------
(***************************************************************************)
(* What carries and keeps traffic, and what an agent is shown of it, on    *)
(* small instances: the session store, CONNECT tunnels with upstream       *)
(* proxies, the pages of a body, queries into a body, and the waits and    *)
(* searches that follow sessions.  Each behaviour runs one of them, chosen *)
(* at the start; the others keep their initial state.                      *)
(***************************************************************************)
EXTENDS SessionStore, Tunnel, BodyQueries, SessionWatch

VARIABLE part

---------------------------------------------------------------------------
(* Session store: each profile lets one or two kinds of disturbance meet   *)
(* the collector.                                                          *)

Profile(n, f, d, w, r, h, u, e, o) ==
  [records |-> n, faults |-> f, destroys |-> d, frames |-> w, reads |-> r, focus |-> h, upserts |-> u, stops |-> e, old |-> o]
MCProfiles ==
  {Profile(2, 1, 1, 0, 0, 0, 0, 1, FALSE), Profile(2, 0, 1, 1, 0, 0, 0, 1, FALSE), Profile(3, 0, 1, 0, 1, 0, 0, 0, FALSE),
   Profile(4, 0, 0, 0, 0, 1, 1, 0, FALSE), Profile(4, 0, 0, 0, 1, 0, 0, 0, TRUE), Profile(4, 1, 0, 0, 0, 0, 0, 1, FALSE),
   Profile(3, 0, 0, 2, 0, 0, 0, 1, FALSE), Profile(4, 0, 0, 0, 2, 0, 0, 0, FALSE), Profile(1, 1, 1, 0, 0, 0, 1, 1, FALSE)}

---------------------------------------------------------------------------
(* Tunnels: each set of cases varies one concern around a plain CONNECT.   *)

Named == [ip |-> FALSE, labels |-> <<"a", "com">>]
Address == [ip |-> TRUE, labels |-> <<"1", "0">>]
Pat(kind, labels) == [kind |-> kind, labels |-> labels]
DotCom == Pat("suffix", <<"com">>)
SslEntry(pattern, on) == [pattern |-> pattern, enabled |-> on]
Ssl(shape, xon, x, ion, i) == [shape |-> shape, excludeOn |-> xon, exclude |-> x, includeOn |-> ion, include |-> i]
MCSsl == {Ssl("new", TRUE, {SslEntry(DotCom, FALSE)}, FALSE, {}), Ssl("legacy", FALSE, {SslEntry(DotCom, FALSE)}, FALSE, {}),
          Ssl("legacy", FALSE, {}, FALSE, {SslEntry(Pat("exact", <<"b", "com">>), FALSE)}),
          Ssl("new", FALSE, {}, TRUE, {SslEntry(Pat("any", << >>), TRUE)})}
UpstreamProxy(proto, user, pass, bypass) ==
  [enabled |-> proto # "none", proto |-> proto, host |-> "p", username |-> user, password |-> pass, bypass |-> bypass]
DataX == T("data", "x")
DataY == T("data", "y")
StatusOf(class) == T("status", class)
Method(m) == T("method", m)
HttpSays == {<<StatusOf("2xx"), DataX>>, <<StatusOf("1xx"), StatusOf("2xx"), DataX, DataY>>,
             <<StatusOf("1xx"), StatusOf("1xx"), StatusOf("2xx"), DataX>>, <<StatusOf("4xx")>>, <<T("junk", "head"), DataX>>, << >>}
SocksSays == {<<Method("none"), T("reply", "v4"), T("bound", "v4"), DataX>>,
              <<Method("password"), T("auth", "ok"), T("reply", "name"), T("bound", "name"), DataX, DataY>>,
              <<Method("none"), T("reply", "unknown"), DataX>>, <<Method("none"), T("refused", "5")>>,
              <<Method("password"), T("auth", "no")>>, <<Method("unacceptable")>>, <<Method("none"), T("reply", "v6")>>, << >>}
PlainConnect ==
  [req |-> "connect", tls |-> FALSE, host |-> Named, longName |-> FALSE, override |-> FALSE, blindHosts |-> {},
   ssl |-> Ssl("new", TRUE, {}, FALSE, {}), verify |-> FALSE, verifyHosts |-> {}, originCert |-> "trusted", proxyCert |-> "trusted",
   proxy |-> UpstreamProxy("none", "none", "none", {}), says |-> <<DataX, DataY>>, ends |-> "eof",
   client |-> <<T("data", "a"), T("data", "b")>>, clientEnds |-> "eof", reach |-> [proxy |-> TRUE, origin |-> <<FALSE, TRUE>>]]
MCTunnelCases ==
  {[PlainConnect EXCEPT !.ends = e, !.clientEnds = f, !.host = h] : e \in {"eof", "open", "reset"}, f \in {"eof", "open"}, h \in {Named, Address}}
  \cup {[PlainConnect EXCEPT !.proxy = UpstreamProxy(pr, u, "secret", b), !.says = s, !.ends = e, !.longName = l, !.client = <<T("data", "a")>>] :
          pr \in {"http", "https"}, u \in {"none", "u"}, b \in {{}, {Pat("network", <<"1">>)}}, s \in HttpSays, e \in {"eof", "open"}, l \in BOOLEAN}
  \cup {[PlainConnect EXCEPT !.proxy = UpstreamProxy("socks5", u, "secret", {}), !.says = s, !.ends = e, !.override = o, !.longName = l,
                     !.client = <<T("data", "a")>>] :
          u \in {"none", "u", "long"}, s \in SocksSays, e \in {"eof", "open"}, o \in BOOLEAN, l \in BOOLEAN}
  \cup {[PlainConnect EXCEPT !.proxy = UpstreamProxy("https", "u", "none", b), !.proxyCert = "unknown", !.req = r, !.reach.proxy = p] :
          b \in {{}, {DotCom}}, r \in {"connect", "plain", "probe"}, p \in BOOLEAN}
  \cup {[PlainConnect EXCEPT !.req = r, !.tls = t, !.ssl = s, !.blindHosts = b, !.verifyHosts = v, !.originCert = o, !.says = <<DataX>>, !.client = << >>] :
          r \in {"connect", "plain", "certificate"}, t \in BOOLEAN, s \in MCSsl, b \in {{}, {Named}}, v \in {{}, {Named}}, o \in {"trusted", "unknown"}}
  \cup {[PlainConnect EXCEPT !.req = r, !.proxy = UpstreamProxy("http", u, "p", {}), !.reach.origin = <<FALSE>>] :
          r \in {"bad", "compose", "probe", "connect"}, u \in {"none", "u"}}

---------------------------------------------------------------------------
(* Pages: two calls race for the redaction key over one body only; over    *)
(* the others the key file is there, and a rewrite meets every mode that   *)
(* reads bytes.                                                            *)

MCTexts == {<<"p", "s", "s", "w">>, <<"i", "w", "p">>, <<"s", "p">>, <<"x", "p">>, <<"p", "p", "p", "p", "p", "p">>, << >>}
RacedBody == Body("inline", <<"i", "w", "p">>)
PagesBound ==
  \/ /\ keyFile = KeyFile("earlier", TRUE) /\ keyFaults = 0 /\ \A l \in Loaders \ {Agent} : loads[l] = Loaded("none")
     /\ read.mode = "metadata" \/ (allowed = {"readBodies"} /\ read.mode \notin {"none", "raw", "base64"}) => edition = 0
  \/ body = RacedBody /\ read.mode \in {"none", "redacted"} /\ edition = 0 /\ read.max \in {0, 2} /\ Cardinality(allowed) # 1

---------------------------------------------------------------------------
(* Queries: strings that fall into the buffer in every way, and documents  *)
(* with sensitive, repeated, oversized and nested values.                  *)

QTexts == {<<"v", "w">>, <<"w", "w", "v">>, <<"p", "v", "p">>, <<"s", "s", "v">>, <<"v">>, << >>, <<"p", "w", "w", "p", "v", "v">>}
TreeDoc == Obj(<<Kid("a", Arr(<<Str(<<"v", "w">>), Num>>)), Kid("S", Obj(<<Kid("a", Str(<<"v", "v">>))>>)), Kid("U", Num), Kid("b", Str(<<"s", "s", "v">>))>>)
TwiceDoc == Obj(<<Kid("a", Str(<<"v">>)), Kid("b", Null), Kid("a", Obj(<<Kid("b", Num)>>)), Kid("U", Null)>>)
LargeDoc == Arr(<<Obj(<<Kid("a", Str(<<"p", "p", "p", "p", "p", "p", "p", "w", "p">>)), Kid("b", Num)>>), Arr(<<Str(<<"p", "p", "p">>), Str(<<"p", "p", "p">>)>>), Str(<<"w", "w", "w", "w", "p">>)>>)
DeepDoc == Arr(<<Arr(<<Arr(<<Obj(<<Kid("b", Num)>>)>>)>>)>>)
PlainDoc == Doc("text", <<"v", "w", "s", "s", "p", "v", "v">>, << >>)
\* An array too large to extract inside an object that is not.
NestDoc == Obj(<<Kid("a", Arr(<<Str(<<"p", "p", "p", "p">>), Str(<<"p", "p", "p", "p">>)>>))>>)
QDocs == {Arr(<<Str(x), Str(y), Str(z)>>) : x \in QTexts, y \in QTexts, z \in QTexts} \cup {TreeDoc, TwiceDoc, LargeDoc, DeepDoc, PlainDoc}
MCSearch == {[doc |-> d, raw |-> FALSE, query |-> q, context |-> c] : d \in QDocs, q \in {<<"v", "v">>, <<"v", ",", "v">>, <<"v">>}, c \in {0, 1, 3}}
  \cup {[doc |-> d, raw |-> TRUE, query |-> <<"v", "v">>, context |-> 1] : d \in {TreeDoc, PlainDoc, TwiceDoc}}
SegA == KeySeg("a")
SegB == KeySeg("b")
QPaths == {<< >>, <<SegA>>, <<SegA, SegB>>, <<SegA, IndexSeg(0)>>, <<Wildcard>>, <<Wildcard, Wildcard>>, <<KeySeg("S")>>, <<KeySeg("S"), SegA>>, <<Wildcard, SegA>>, <<IndexSeg(1)>>, <<KeySeg("U")>>, <<Wildcard, IndexSeg(1)>>}
MCPaths == {[doc |-> d, raw |-> r, paths |-> <<p, q>>] : d \in {TreeDoc, TwiceDoc, LargeDoc, DeepDoc, PlainDoc, NestDoc, Arr(<<Num, Num, Num, Num>>)}, r \in BOOLEAN, p \in QPaths, q \in QPaths}
  \cup {[doc |-> Arr(<<Str(x), Str(y)>>), raw |-> FALSE, paths |-> <<<<Wildcard>>, << >>, <<IndexSeg(1)>>>>] : x \in QTexts, y \in QTexts}

---------------------------------------------------------------------------
Parts == {"store", "tunnel", "pages", "queries", "watch"}
\* A part runs, or rests in this state.
Runs(p) == part = p
Rests(p) == part # p
TrafficInit ==
  /\ part \in Parts
  /\ Runs("store") \/ (Rests("store") /\ left = Profile(2, 1, 1, 0, 0, 0, 0, 1, FALSE))
  /\ Runs("tunnel") \/ (Rests("tunnel") /\ tcase = PlainConnect)
  /\ Runs("pages") \/ (Rests("pages") /\ keyFile = NoFile /\ body = Body("inline", << >>) /\ allowed = {})
  /\ Runs("queries") \/ (Rests("queries") /\ hunt = NoHunt)
  /\ Runs("watch") \/ (Rests("watch") /\ watch = NoWatch)
  /\ StoreInit /\ TunnelInit /\ PagesInit /\ QueryInit /\ WatchInit

readVars == <<keyVars, pageVars>>
TrafficNext ==
  \/ /\ part = "store" /\ StoreNext
     /\ UNCHANGED <<part, tunnelVars, readVars, queryVars, watchVars>>
  \/ /\ part = "tunnel" /\ NextTunnel
     /\ UNCHANGED <<part, storeVars, readVars, queryVars, watchVars>>
  \/ /\ part = "pages" /\ PagesNext
     /\ UNCHANGED <<part, storeVars, tunnelVars, queryVars, watchVars>>
  \/ /\ part = "queries" /\ QueryNext
     /\ UNCHANGED <<part, storeVars, tunnelVars, readVars, watchVars>>
  \/ /\ part = "watch" /\ WatchNext
     /\ UNCHANGED <<part, storeVars, tunnelVars, readVars, queryVars>>

\* StoreFairness; a step of another part is not one of the store.
TrafficSpec ==
  /\ TrafficInit
  /\ [][TrafficNext]_<<part, storeVars, tunnelVars, readVars, queryVars, watchVars>>
  /\ WF_storeVars(part = "store" /\ CollectorStep)
  /\ \A c \in Commands : WF_storeVars(part = "store" /\ CommandStep(c))
  /\ WF_storeVars(part = "store" /\ \E i \in DOMAIN inserts : InsertFrame(i))
  /\ WF_storeVars(part = "store" /\ AbortCollector)

\* Bounds the pages; the states of the other parts are all explored.
TrafficBound == part = "pages" => PagesBound
=============================================================================
