------------------------------- MODULE Socks5 -------------------------------
(***************************************************************************)
(* serveSocks5 and socks5Dial of tui/internal/entry/entry.go: a SOCKS5     *)
(* server and a SOCKS5 client in one handler, between an application and   *)
(* the core.  Either peer may send its next bytes before they are asked    *)
(* for, and may fall silent or leave at any byte.  What happens after both *)
(* dialogues is TunnelRelay, which takes the two streams to begin with the *)
(* first byte of the payload.                                              *)
(***************************************************************************)
EXTENDS Naturals, Sequences, Bytes

CONSTANTS
  Apps,         \* what an application sends
  CoreReplies   \* what the core sends

Unusable == 0   \* the length of a message that cannot be read
NoPeer == [payload |-> <<>>]

VARIABLES
  socksApp,  \* the application of this handler
  socksCore, \* the core's answers on the connection that was dialled
  fromApp,   \* bytes that were sent by the application and not read
  fromCore,  \* bytes that were sent by the core and not read
  toApp,     \* bytes written to the application
  toCore,    \* bytes written to the core
  spc,       \* the next step of the handler
  upConn     \* the connection to the core: "none", "open", "closed"

socksVars == <<socksApp, socksCore, fromApp, fromCore, toApp, toCore, spc, upConn>>

-----------------------------------------------------------------------------
After(s, n) == SubSeq(s, n + 1, Len(s))

(* Request and reply have one layout: four bytes, an address of the type   *)
(* the fourth names, a port.                                               *)
messageLen(s) ==
  IF Len(s) < 4 THEN Unusable
  ELSE CASE s[4] = 1 -> 10
         [] s[4] = 3 -> IF Len(s) < 5 THEN Unusable ELSE 7 + s[5]
         [] s[4] = 4 -> 22
         [] OTHER -> Unusable

readable(s) == messageLen(s) # Unusable /\ messageLen(s) <= Len(s)
portOf(s) == 256 * s[messageLen(s) - 1] + s[messageLen(s)]

(* net.ParseIP of a name: some names are the text of an address.           *)
Literals == <<<<58, 58, 49>>, [i \in 1..16 |-> IF i = 16 THEN 1 ELSE 0]>>   \* "::1"
ParseIP(name) == IF name = Literals[1] THEN <<Literals[2]>> ELSE <<>>

(* The host of a request goes through its text to the request to the core: *)
(* an address, or the text of one, becomes an address of its own family.   *)
hostField(s) ==
  LET name == SubSeq(s, 6, 5 + s[5])
      ips == IF s[4] = 3 THEN ParseIP(name) ELSE <<SubSeq(s, 5, messageLen(s) - 2)>>
  IN IF ips = <<>> THEN <<3, Len(name)>> \o name
     ELSE <<IF isV4(ips[1]) THEN 1 ELSE 4>> \o rdata(ips[1])

-----------------------------------------------------------------------------
(* What the peers send, up to the byte at which they leave.                *)
AppHead(a) ==
  <<a.version, Len(a.methods)>> \o a.methods \o <<5, a.cmd, 0>> \o a.address \o PutU16(a.port)
AppSends(a) == UpTo(AppHead(a) \o a.payload, a.bytes)
CoreHead(r) == <<5, r.method>> \o <<5, r.rep, 0>> \o r.address \o <<0, 0>>
CoreSends(r) == UpTo(CoreHead(r) \o r.payload, r.bytes)

(* An address field: its type, and as many bytes as the type says.  Other   *)
(* types have no length.                                                   *)
IsAddress(f) ==
  /\ f \in Seq(Octets) /\ f # <<>>
  /\ f[1] = 1 => Len(f) = 5
  /\ f[1] = 3 => Len(f) >= 2 /\ Len(f) = 2 + f[2]
  /\ f[1] = 4 => Len(f) = 17

(* The field that means the same destination and is in its shortest form.  *)
Canonical(f) ==
  IF f[1] = 4 /\ SubSeq(f, 2, 13) = Mapped THEN <<1>> \o SubSeq(f, 14, 17)
  ELSE IF f[1] = 3 /\ SubSeq(f, 3, Len(f)) = Literals[1] THEN <<4>> \o Literals[2]
  ELSE f

(* The peers send the messages of RFC 1928, with any version, methods,     *)
(* command and port, and leave at any byte.                                *)
IsApp(a) ==
  /\ a.version \in Octets /\ a.methods \in Seq(Octets) /\ Len(a.methods) <= 255
  /\ a.cmd \in Octets /\ a.port \in U16s
  /\ IsAddress(a.address) /\ a.canonical = Canonical(a.address)
  /\ a.payload \in Seq(Octets) /\ a.bytes \in Nat
IsCoreReply(c) ==
  /\ c.method \in Octets /\ c.rep \in Octets /\ IsAddress(c.address)
  /\ c.payload \in Seq(Octets) /\ c.bytes \in Nat

ASSUME SocksPeers ==
  (\A a \in Apps : IsApp(a)) /\ (\A c \in CoreReplies : IsCoreReply(c))

SocksInit ==
  /\ socksApp \in Apps /\ fromApp = AppSends(socksApp)
  /\ socksCore = NoPeer /\ fromCore = <<>>
  /\ toApp = <<>> /\ toCore = <<>>
  /\ spc = "greeting" /\ upConn = "none"

(* serveSocks5 returns; its deferred calls close what is open.             *)
EndHandler == spc' = "closed" /\ upConn' = IF upConn = "open" THEN "closed" ELSE upConn

(* ReadFull or a Write fails: the application left or the deadline passed, *)
(* also behind a header that is refused before the rest has arrived.       *)
AppLost ==
  /\ spc \in {"greeting", "request", "answer"}
  /\ EndHandler
  /\ UNCHANGED <<socksApp, socksCore, fromApp, fromCore, toApp, toCore>>

(* The greeting: read with its methods, answered with "no authentication". *)
Greeting ==
  LET n == 2 + fromApp[2] IN
  /\ spc = "greeting" /\ Len(fromApp) >= 2 /\ Len(fromApp) >= n
  /\ IF fromApp[1] # 5 THEN EndHandler /\ UNCHANGED <<fromApp, toApp>>
     ELSE /\ fromApp' = After(fromApp, n)
          /\ IF \E i \in 3..n : fromApp[i] = 0
               THEN toApp' = toApp \o <<5, 0>> /\ spc' = "request" /\ UNCHANGED upConn
               ELSE toApp' = toApp \o <<5, 255>> /\ EndHandler
  /\ UNCHANGED <<socksApp, socksCore, fromCore, toCore>>

Refused == <<5, 5, 0, 1, 0, 0, 0, 0, 0, 0>>
Connected == <<5, 0, 0, 1, 0, 0, 0, 0, 0, 0>>

(* socks5Dial returned an error, having closed its connection; nobody     *)
(* looks at the result of writing the refusal.                             *)
Refuse == toApp' \in {toApp, toApp \o Refused} /\ EndHandler

(* The request, then the dial of the core and the greeting to it.  A       *)
(* request for anything but CONNECT ends the handler without an answer.    *)
Request5 ==
  /\ spc = "request" /\ readable(fromApp)
  /\ IF fromApp[1] # 5 \/ fromApp[2] # 1
       THEN EndHandler /\ UNCHANGED <<socksCore, fromCore, toApp, toCore>>
       ELSE \/ Refuse /\ UNCHANGED <<socksCore, fromCore, toCore>>
            \/ /\ socksCore' \in CoreReplies /\ fromCore' = CoreSends(socksCore')
               /\ toCore' = <<5, 1, 0>> /\ upConn' = "open" /\ spc' = "coreGreeting"
               /\ UNCHANGED toApp
  /\ UNCHANGED <<socksApp, fromApp>>

CoreLost ==
  /\ spc \in {"coreGreeting", "coreReply"}
  /\ Refuse
  /\ UNCHANGED <<socksApp, socksCore, fromApp, fromCore, toCore>>

(* The core's choice of a method; a port of zero is refused before the     *)
(* request is written.                                                     *)
CoreGreeting ==
  /\ spc = "coreGreeting" /\ Len(fromCore) >= 2
  /\ IF SubSeq(fromCore, 1, 2) # <<5, 0>> \/ portOf(fromApp) = 0
       THEN Refuse /\ UNCHANGED <<fromApp, fromCore, toCore>>
       ELSE /\ toCore' = toCore \o <<5, 1, 0>> \o hostField(fromApp) \o PutU16(portOf(fromApp))
            /\ fromCore' = After(fromCore, 2)
            /\ fromApp' = After(fromApp, messageLen(fromApp))
            /\ spc' = "coreReply" /\ UNCHANGED <<toApp, upConn>>
  /\ UNCHANGED <<socksApp, socksCore>>

(* Mutant: a reply is taken to hold an IPv4 address.                       *)
replyLenFixed(s) == IF Len(s) < 10 THEN Unusable ELSE 10

(* What readSocks5Reply consumes.                                          *)
replyLen(s) == messageLen(s)

CoreReply ==
  /\ spc = "coreReply" /\ Len(fromCore) >= 4
  /\ IF fromCore[1] # 5 \/ fromCore[2] # 0 \/ replyLen(fromCore) = Unusable
       THEN Refuse /\ UNCHANGED fromCore
       ELSE /\ replyLen(fromCore) <= Len(fromCore)
            /\ fromCore' = After(fromCore, replyLen(fromCore))
            /\ spc' = "answer" /\ UNCHANGED <<toApp, upConn>>
  /\ UNCHANGED <<socksApp, socksCore, fromApp, toCore>>

Answer5 ==
  /\ spc = "answer"
  /\ toApp' = toApp \o Connected /\ spc' = "splice"
  /\ UNCHANGED <<socksApp, socksCore, fromApp, fromCore, toCore, upConn>>

SocksNext ==
  Greeting \/ Request5 \/ CoreGreeting \/ CoreReply \/ Answer5 \/ AppLost \/ CoreLost

SocksSpec == SocksInit /\ [][SocksNext]_socksVars

-----------------------------------------------------------------------------
(* Correctness                                                             *)

(* When the tunnel begins, both dialogues were carried out in full: the    *)
(* core was asked for the destination the application named, and each of   *)
(* the two streams begins with its first byte of payload, wherever the     *)
(* messages in front of it ended and however early the payload came.       *)
TunnelAligned ==
  spc = "splice" =>
    /\ 0 \in {socksApp.methods[i] : i \in DOMAIN socksApp.methods} /\ socksApp.cmd = 1
    /\ toCore = <<5, 1, 0>> \o <<5, 1, 0>> \o socksApp.canonical \o PutU16(socksApp.port)
    /\ fromApp = After(AppSends(socksApp), Len(AppHead(socksApp)))
    /\ fromCore = After(CoreSends(socksCore), Len(CoreHead(socksCore)))

(* The application is told of success only when the core has granted the   *)
(* connection, and a handler that ends before leaves none to the core.     *)
ToldTruly ==
  /\ spc = "splice" => upConn = "open" /\ socksCore.rep = 0 /\ toApp = <<5, 0>> \o Connected
  /\ spc = "closed" => upConn # "open" /\ toApp \in {<<>>, <<5, 0>>, <<5, 255>>, <<5, 0>> \o Refused}

(* The two dialogues in front of a tunnel.                                 *)
SocksInv == TunnelAligned /\ ToldTruly

=============================================================================
