---------------------------- MODULE MCComponents ----------------------------
(***************************************************************************)
(* The parts of the client and of the frontends that keep a state of their *)
(* own: the core manager, the local entry, its SOCKS5 dialogues, the TUN   *)
(* device, the DNS resolver, the profile store, the HTTP/3 frontend's      *)
(* serve and the TCP frontend's main.  They meet only through their        *)
(* callers (ClientSession composes them), so that a behaviour is one of a  *)
(* single part and the others stay where they begin.                       *)
(***************************************************************************)
EXTENDS CoreManager, EntryManager, TunDevice, DnsResolver, ProfileStore, H3Serve, Socks5,
        FrontendMain

CONSTANTS
  Parts,                   \* the parts that are driven
  p1, p2, c1, c2, c3,      \* profiles and local connections
  g1, g2, s1, s2,          \* gateways and addresses of a server
  k1, k2                   \* HTTP/3 clients

VARIABLE part              \* the part this behaviour is about

vars == <<part, coreVars, entryVars, tunVars, dnsVars, storeVars, serveVars, socksVars, frontVars>>

-----------------------------------------------------------------------------
(* The core manager: two profiles and four generations, two of them stops: *)
(* the supervisor of a stopped one may be alive beside the current one.    *)
MCProfiles == {p1, p2}
MCAlways == {TRUE}
MCNever == {FALSE}

(* The entry: one connection in the backlog, one between Accept and        *)
(* m.conns, one being served.                                              *)
MCConns == {c1, c2, c3}

(* The TUN device: a server with two addresses, one of them configured     *)
(* already, and settings that are refused.                                 *)
MCGateways == {g1, g2}
MCIPv4s == {s1, s2}
NoTun == [valid |-> FALSE, exclude |-> <<>>, server |-> <<>>]
MCTunProfiles == {[valid |-> TRUE, exclude |-> <<s1>>, server |-> <<s1, s2>>], NoTun}

-----------------------------------------------------------------------------
(* DNS: addresses of both families, an IPv4 address mapped into IPv6, an   *)
(* alias and a malformed record, alone and before or behind another, and a *)
(* message cut at every byte of its records; queries of three types, with  *)
(* an OPT record, with two questions, and cut short.                       *)
V4(i) == <<i, i, i, i>>
V6(i) == [j \in 1..16 |-> i]
Rec(o, t, d) == [owner |-> o, typ |-> t, data |-> d]
A(o) == Rec(o, qtypeA, V4(1))
AAAA == Rec("pointer", qtypeAAAA, V6(2))
MappedA == Rec("pointer", qtypeAAAA, Mapped \o V4(3))
Alias == Rec("labels", 5, <<1, 98, 0>>)
Short == Rec("pointer", qtypeA, <<4, 4>>)
Answering(rs, bytes) == [qtype |-> qtypeA, records |-> rs, bytes |-> bytes]
WholeMessages ==
  {Answering(rs, 80) : rs \in {<<>>, <<A("pointer")>>, <<Alias>>, <<Short>>, <<Alias, A("labels")>>,
     <<Short, AAAA>>, <<AAAA, Alias>>, <<MappedA, AAAA>>, <<A("labels"), MappedA>>}}
MCResponses == WholeMessages \cup {Answering(<<A("labels"), AAAA>>, n) : n \in {0, 11} \cup 17..64}
MixedResponses == WholeMessages \cup {Answering(<<A("mixed")>>, 80)}

OptRecord == <<0, 0, 41, 4, 0, 0, 0, 0, 0, 0, 0>>
Query(qt, extra, bytes) ==
  [port |-> 53, id |-> 258, opcode |-> 0, other |-> 1, rd |-> 1, low |-> 32, questions |-> 1,
   additional |-> Len(extra) \div 11, qtype |-> qt, extra |-> extra, bytes |-> bytes]
PlainQuery == Query(qtypeA, <<>>, 80)
OtherPort == [PlainQuery EXCEPT !.port = 123]
MCQueries ==
  {PlainQuery, OtherPort, Query(qtypeAAAA, <<>>, 80), [PlainQuery EXCEPT !.questions = 2],
   [Query(16, OptRecord, 80) EXCEPT !.opcode = 2, !.rd = 0]}
  \cup {Query(qtypeA, <<>>, n) : n \in {11, 18}}

-----------------------------------------------------------------------------
(* The store: REALITY and plain links, with and without port, name and     *)
(* fingerprint, one refused; a store with every default left out and with  *)
(* local settings that no link carries.                                    *)
Link(scheme, port, name, fp) ==
  [scheme |-> scheme, host |-> "h", port |-> port, name |-> name, keys |-> TRUE, fp |-> fp]
Prof(name, port, reality, fp) ==
  [name |-> name, server |-> "h", port |-> port, reality |-> reality, fingerprint |-> fp,
   local |-> [socks |-> "", http |-> "other", concurrency |-> 0, tls |-> "off",
              proxy |-> "on", tun |-> "bare"]]
MCLinks == {Link("naivereal", 0, "a", "firefox"), Link("naive+https", 8443, "", ""),
            Link("naive+https", 70000, "b", "")}
MCFiles == {<<Prof("a", 0, TRUE, "")>>}

(* serve: every setting that changes what it opens, and refused ones.      *)
PlainConfig ==
  [parses |-> TRUE, mode |-> "", cert |-> TRUE, origin |-> TRUE, tcp |-> TRUE, check |-> FALSE,
   num |-> [n \in DOMAIN Least |-> 0], text |-> [t \in Texts |-> ""]]
MCConfigs ==
  {PlainConfig, [PlainConfig EXCEPT !.mode = "tls"], [PlainConfig EXCEPT !.tcp = FALSE],
   [PlainConfig EXCEPT !.check = TRUE], [PlainConfig EXCEPT !.num["streams"] = 7],
   [PlainConfig EXCEPT !.text["idle"] = "bad"], [PlainConfig EXCEPT !.text["bbrProfile"] = "bad"],
   [PlainConfig EXCEPT !.mode = "reality"], [PlainConfig EXCEPT !.parses = FALSE],
   [PlainConfig EXCEPT !.num["packet"] = 1300, !.num["window"] = 16384,
                       !.text["congestion"] = "cubic"]}
MCPeers == {k1, k2}

(* SOCKS5: every type of destination, one that is the text of an address,  *)
(* refused versions, methods, commands and ports, payload right behind the *)
(* request and the reply, and streams that end at any byte of a message.   *)
App(methods, command, dest, canonical, number, bytes) ==
  [version |-> 5, methods |-> methods, cmd |-> command, address |-> dest, canonical |-> canonical,
   port |-> number, payload |-> <<9, 9>>, bytes |-> bytes]
V4Dest == <<1>> \o V4(1)
PlainApp(dest, canonical) == App(<<2, 0>>, 1, dest, canonical, 258, 60)
MCApps ==
  {PlainApp(d, d) : d \in {V4Dest, <<4>> \o V6(2), <<3, 1, 97>>, <<3, 0>>, <<2>>}}
  \cup {PlainApp(<<4>> \o Mapped \o V4(3), <<1>> \o V4(3)),
        PlainApp(<<3, 3>> \o Literals[1], <<4>> \o Literals[2])}
  \cup {App(ms, 1, V4Dest, V4Dest, 1, 60) : ms \in {<<>>, <<2>>, <<0>>}}
  \cup {App(<<0>>, c, V4Dest, V4Dest, 0, 60) : c \in {1, 2}}
  \cup {[PlainApp(V4Dest, V4Dest) EXCEPT !.version = 4]}
  \cup {App(<<0>>, 1, d, d, 258, n) : d \in {V4Dest, <<3, 1, 97>>}, n \in 0..14}
Granted(method, rep, bound, bytes) ==
  [method |-> method, rep |-> rep, address |-> bound, payload |-> <<8, 8>>, bytes |-> bytes]
MCCoreReplies ==
  {Granted(0, 0, a, 60) : a \in {V4Dest, <<4>> \o V6(2), <<3, 2, 97, 98>>, <<3, 0>>, <<2>>}}
  \cup {Granted(255, 0, V4Dest, 60), Granted(0, 1, V4Dest, 60)}
  \cup {Granted(0, 0, <<3, 2, 97, 98>>, n) : n \in 0..11}

(* The TCP frontend: texts with blanks around them, and each refusal.      *)
PlainReality == [key |-> "padded", names |-> <<"padded", "good">>, ids |-> <<"", "blank", "good">>,
                 maxTimeDiff |-> 0, target |-> ""]
PlainFront ==
  [parses |-> TRUE, mode |-> "", cert |-> TRUE, reality |-> PlainReality,
   text |-> [t \in {"log_level", "listen", "upstream"} |-> ""],
   limit |-> [l \in Limits |-> 0], status |-> [http |-> "", token |-> ""]]
WithStatus(http, token) == [PlainFront EXCEPT !.status = [http |-> http, token |-> token]]
WithReality(r) == [PlainFront EXCEPT !.reality = r]
MCFrontConfigs ==
  {PlainFront, [PlainFront EXCEPT !.parses = FALSE], [PlainFront EXCEPT !.text["listen"] = "bad"],
   [PlainFront EXCEPT !.mode = "tls"], [PlainFront EXCEPT !.mode = "tls", !.cert = FALSE],
   [PlainFront EXCEPT !.mode = "other"], [PlainFront EXCEPT !.limit["max_relays"] = 1]}
  \cup {[PlainFront EXCEPT !.limit[l] = -1] : l \in Limits}
  \cup {WithStatus(h, t) : h \in {"good", "bad"}, t \in {"", "blank", "good", "padded"}}
  \cup {WithReality(r) : r \in
          {[PlainReality EXCEPT !.key = k] : k \in {"", "bad", "good"}}
          \cup {[PlainReality EXCEPT !.names = ns] : ns \in {<<>>, <<"good", "blank">>}}
          \cup {[PlainReality EXCEPT !.ids = ids] : ids \in {<<>>, <<"good", "bad">>}}
          \cup {[PlainReality EXCEPT !.maxTimeDiff = -1], [PlainReality EXCEPT !.target = "bad"]}}

-----------------------------------------------------------------------------
(* Where a part that is not driven begins, if there is a choice; that of   *)
(* the TUN device is immaterial: its network and its profile change.       *)
Rest ==
  /\ part # "entry" => config = {}
  /\ gateway = g1 /\ profile = NoTun
  /\ part # "dns" => query = OtherPort
  /\ part # "store" => storeFile = Absent
  /\ part # "serve" => cfg = PlainConfig
  /\ part # "socks" => socksApp = PlainApp(V4Dest, V4Dest)
  /\ part # "front" => front = PlainFront

Init ==
  /\ part \in Parts /\ Rest
  /\ CoreInit /\ EntryInit /\ TunInit /\ DnsInit /\ StoreInit /\ ServeInit
  /\ SocksInit /\ FrontInit

Next ==
  /\ part' = part
  /\ IF part = "core" THEN CoreNext ELSE UNCHANGED coreVars
  /\ IF part = "entry" THEN EntryNext ELSE UNCHANGED entryVars
  /\ IF part = "tun" THEN TunNext ELSE UNCHANGED tunVars
  /\ IF part = "dns" THEN DnsNext ELSE UNCHANGED dnsVars
  /\ IF part = "store" THEN StoreNext ELSE UNCHANGED storeVars
  /\ IF part = "serve" THEN ServeNext ELSE UNCHANGED serveVars
  /\ IF part = "socks" THEN SocksNext ELSE UNCHANGED socksVars
  /\ IF part = "front" THEN FrontNext ELSE UNCHANGED frontVars

(* The fairness of each part; in the state in which a part begins none of  *)
(* its fair actions is enabled, so that it asks nothing of an undriven one.*)
Spec ==
  /\ Init /\ [][Next]_vars
  /\ CoreFairness /\ EntryFairness /\ TunFairness /\ DnsFairness /\ ServeFairness

(* Every variable has its type; the generations of the core manager, the   *)
(* connection table of the entry, its SOCKS5 dialogues, the share links    *)
(* and the configuration of the TCP frontend are right.                    *)
ComponentsInv ==
  /\ CoreInv /\ EntryInv /\ SocksInv /\ FrontInv
  /\ TunTypeOK /\ DnsTypeOK /\ StoreTypeOK /\ ServeTypeOK
  /\ LinkRoundTrip

=============================================================================
