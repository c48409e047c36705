---------------------------- MODULE TunnelServer ----------------------------
(***************************************************************************)
(* The TCP frontend (frontend/main.go, frontend/relay.go): one accept loop *)
(* and one goroutine per accepted connection.  The accept loop bounds the  *)
(* number of handlers with the `active' counter; in reality mode each      *)
(* handshake dials the camouflage target through dialContext, which bounds *)
(* the open target connections with the channel `relaySlots'.              *)
(*                                                                         *)
(* A connection is a member of Conn, used once.  Data on the wire is left  *)
(* out: a handshake, a peek or a request has an outcome.  The inside of an *)
(* established tunnel is module TunnelRelay; here it is the handler states *)
(* "h1", "head", "tunnel" and "h2".  The REALITY fork is external: it is what      *)
(* handleConn and dialContext see of it.                                   *)
(***************************************************************************)
EXTENDS Integers, FiniteSets

CONSTANTS
  Conn,            \* client connections, each accepted at most once
  Silent,          \* those whose upstream may stop reading and answering
  MaxConnections,  \* limits.max_connections
  MaxRelays,       \* limits.max_relays, the capacity of relaySlots
  MaxStreams       \* bound: tunnels opened over one HTTP/2 connection

(* applyDefaultsAndValidate rejects negative limits and replaces zero by a *)
(* default, so both limits are positive.                                   *)
ASSUME ConnFinite == IsFiniteSet(Conn)
ASSUME SilentConns == Silent \subseteq Conn
ASSUME MaxConnectionsPositive == MaxConnections \in Nat \ {0}
ASSUME MaxRelaysPositive == MaxRelays \in Nat \ {0}
ASSUME MaxStreamsNat == MaxStreams \in Nat

VARIABLES
  config,      \* inbound.mode and relay_enabled, fixed for the whole run
  ctxDone,     \* the signal context was cancelled
  listening,   \* the listener is open
  loop,        \* where the accept loop is
  accepted,    \* the connection the accept loop holds, if any
  handler,     \* Conn -> where the connection's handler goroutine is
  socket,      \* Conn -> the raw client socket as the server sees it
  client,      \* Conn -> TRUE once the client has gone away
  target,      \* Conn -> the relayConn dialled for the handshake
  closes,      \* Conn -> how often Close was called on that relayConn
  active,      \* Stats.active
  relaySlots,  \* tokens in the channel relaySlots
  stats,       \* the other counters of Stats
  streams      \* Conn -> tunnels opened on the connection

vars == <<config, ctxDone, listening, loop, accepted, handler, socket, client,
          target, closes, active, relaySlots, stats, streams>>
loopVars == <<config, ctxDone, listening, loop, accepted>>
relayVars == <<target, closes, relaySlots>>
countVars == <<active, stats, streams>>

None == "none"

Configs == [mode : {"reality", "tls"}, relay : BOOLEAN]

LoopStates == {"accept", "check", "spawn", "sleep", "returned"}

(* "idle" and "rejected" have no goroutine; "exiting" is the goroutine     *)
(* between its two deferred calls; "done" has run them both.               *)
PreAuth == {"start", "tls", "server", "dialing", "releasing", "forked", "failed"}
Serving == {"authed", "peek", "h1", "head", "tunnel", "h2"}
Live == PreAuth \cup Serving \cup {"closing", "exiting"}
HandlerStates == {"idle", "rejected", "done"} \cup Live

Counters == {"totalConns", "authed", "relays", "tunnels"}
Inc(counter) == [stats EXCEPT ![counter] = @ + 1]

NewTunnelServer ==
  /\ relaySlots = 0
  /\ active = 0
  /\ stats = [k \in Counters |-> 0]
  /\ target = [c \in Conn |-> None]
  /\ closes = [c \in Conn |-> 0]

Init ==
  /\ config \in Configs
  /\ NewTunnelServer
  /\ ctxDone = FALSE
  /\ listening = TRUE
  /\ loop = "accept"
  /\ accepted = None
  /\ handler = [c \in Conn |-> "idle"]
  /\ socket = [c \in Conn |-> None]
  /\ client = [c \in Conn |-> FALSE]
  /\ streams = [c \in Conn |-> 0]

-----------------------------------------------------------------------------
(* The environment: a signal, and clients that go away.                    *)

Signal ==
  /\ ~ctxDone
  /\ ctxDone' = TRUE
  /\ UNCHANGED <<config, listening, loop, accepted, handler, socket, client,
                 relayVars, countVars>>

ClientGone(c) ==
  /\ socket[c] = "open"
  /\ ~client[c]
  /\ client' = [client EXCEPT ![c] = TRUE]
  /\ UNCHANGED <<loopVars, handler, socket, relayVars, countVars>>

-----------------------------------------------------------------------------
(* Serve                                                                   *)

(* The goroutine of Serve that waits for the context.                      *)
CloseListener ==
  /\ ctxDone /\ listening
  /\ listening' = FALSE
  /\ UNCHANGED <<config, ctxDone, loop, accepted, handler, socket, client,
                 relayVars, countVars>>

AcceptConn(c) ==
  /\ loop = "accept" /\ listening
  /\ handler[c] = "idle"
  /\ accepted' = c
  /\ socket' = [socket EXCEPT ![c] = "open"]
  /\ loop' = "check"
  /\ UNCHANGED <<config, ctxDone, listening, handler, client, relayVars, countVars>>

(* Mutant: every accept error is taken for a transient one.                *)
AcceptErrorRetried ==
  /\ loop = "accept"
  /\ loop' = "sleep"
  /\ UNCHANGED <<config, ctxDone, listening, accepted, handler, socket, client,
                 relayVars, countVars>>

(* Accept fails: for good once the listener is closed, and now and then.   *)
AcceptError ==
  /\ loop = "accept"
  /\ loop' = IF ctxDone THEN "returned" ELSE "sleep"
  /\ UNCHANGED <<config, ctxDone, listening, accepted, handler, socket, client,
                 relayVars, countVars>>

SleepOver ==
  /\ loop = "sleep"
  /\ loop' = "accept"
  /\ UNCHANGED <<config, ctxDone, listening, accepted, handler, socket, client,
                 relayVars, countVars>>

(* The test of Active() and the AddActive(1) that follows it are two steps *)
(* of this goroutine; handlers run between them.                           *)
Reject(c) ==
  /\ loop = "check" /\ accepted = c
  /\ active >= MaxConnections
  /\ socket' = [socket EXCEPT ![c] = "closed"]
  /\ handler' = [handler EXCEPT ![c] = "rejected"]
  /\ loop' = "accept"
  /\ accepted' = None
  /\ UNCHANGED <<config, ctxDone, listening, client, relayVars, countVars>>

(* Mutant: the limit tested with > instead of >=.                          *)
AdmitOneMore(c) ==
  /\ loop = "check" /\ accepted = c
  /\ active <= MaxConnections
  /\ loop' = "spawn"
  /\ UNCHANGED <<config, ctxDone, listening, accepted, handler, socket, client,
                 relayVars, countVars>>

Admit(c) ==
  /\ loop = "check" /\ accepted = c
  /\ active < MaxConnections
  /\ loop' = "spawn"
  /\ UNCHANGED <<config, ctxDone, listening, accepted, handler, socket, client,
                 relayVars, countVars>>

Spawn(c) ==
  /\ loop = "spawn" /\ accepted = c
  /\ active' = active + 1
  /\ handler' = [handler EXCEPT ![c] = "start"]
  /\ loop' = "accept"
  /\ accepted' = None
  /\ UNCHANGED <<config, ctxDone, listening, socket, client, relayVars, stats,
                 streams>>

-----------------------------------------------------------------------------
(* handleConn                                                              *)

Go(c, from, to) ==
  /\ handler[c] = from
  /\ handler' = [handler EXCEPT ![c] = to]
  /\ UNCHANGED <<loopVars, socket, client>>

StartHandler(c) ==
  /\ Go(c, "start", IF config.mode = "reality" THEN "server" ELSE "tls")
  /\ stats' = Inc("totalConns")
  /\ UNCHANGED <<relayVars, active, streams>>

(* tls.Server(raw).Handshake, ended by the client or by the raw deadline.  *)
TLSHandshake(c) ==
  /\ \/ Go(c, "tls", "authed")
     \/ Go(c, "tls", "closing")
  /\ UNCHANGED <<relayVars, countVars>>

(* dialContext, called by the fork for every connection.  Its ctx is       *)
(* context.Background(), so the ctx.Done case of the select never fires.   *)
DialRefused(c) ==
  /\ ~config.relay \/ relaySlots >= MaxRelays
  /\ Go(c, "server", "failed")
  /\ UNCHANGED <<relayVars, countVars>>

DialSlot(c) ==
  /\ config.relay /\ relaySlots < MaxRelays
  /\ Go(c, "server", "dialing")
  /\ relaySlots' = relaySlots + 1
  /\ UNCHANGED <<target, closes, countVars>>

DialOk(c) ==
  /\ Go(c, "dialing", "forked")
  /\ target' = [target EXCEPT ![c] = "open"]
  /\ UNCHANGED <<closes, relaySlots, countVars>>

DialError(c) ==
  /\ Go(c, "dialing", "releasing")
  /\ UNCHANGED <<relayVars, countVars>>

(* Mutant: the slot given back twice on a failed dial.                     *)
ReleaseSlotTwice(c) ==
  /\ relaySlots > 1
  /\ Go(c, "releasing", "failed")
  /\ relaySlots' = relaySlots - 2
  /\ UNCHANGED <<target, closes, countVars>>

(* release: the receive blocks while the channel is empty.                 *)
ReleaseSlot(c) ==
  /\ relaySlots > 0
  /\ Go(c, "releasing", "failed")
  /\ relaySlots' = relaySlots - 1
  /\ UNCHANGED <<target, closes, countVars>>

(* Mutant: relayConn without its sync.Once.                                *)
CloseRelayEachTime(c) ==
  /\ handler[c] = "forked"
  /\ closes[c] < 2
  /\ target' = [target EXCEPT ![c] = "closed"]
  /\ closes' = [closes EXCEPT ![c] = @ + 1]
  /\ relaySlots > 0 /\ relaySlots' = relaySlots - 1
  /\ UNCHANGED <<loopVars, handler, socket, client, countVars>>

(* relayConn.Close: the connection is closed each time, the slot is given  *)
(* back the first time only (sync.Once).                                   *)
CloseRelay(c) ==
  /\ handler[c] = "forked"
  /\ closes[c] < 2
  /\ target' = [target EXCEPT ![c] = "closed"]
  /\ closes' = [closes EXCEPT ![c] = @ + 1]
  /\ IF closes[c] = 0
       THEN relaySlots > 0 /\ relaySlots' = relaySlots - 1
       ELSE UNCHANGED relaySlots
  /\ UNCHANGED <<loopVars, handler, socket, client, countVars>>

(* The fork returns once the connection it dialled is closed: with an      *)
(* authenticated connection, or with an error after relaying the probe.    *)
RealityReturn(c) ==
  /\ target[c] = "closed"
  /\ \/ Go(c, "forked", "authed")
     \/ Go(c, "forked", "failed")
  /\ UNCHANGED <<relayVars, countVars>>

CountRelay(c) ==
  /\ Go(c, "failed", "closing")
  /\ stats' = Inc("relays")
  /\ UNCHANGED <<relayVars, active, streams>>

CountAuthed(c) ==
  /\ Go(c, "authed", "peek")
  /\ stats' = Inc("authed")
  /\ UNCHANGED <<relayVars, active, streams>>

-----------------------------------------------------------------------------
(* serveConn: a failed or short Peek falls through to HTTP/1.1.            *)

Peek(c) ==
  /\ \/ Go(c, "peek", "h2")
     \/ Go(c, "peek", "h1")
  /\ UNCHANGED <<relayVars, countVars>>

CountTunnel(c) ==
  /\ stats' = Inc("tunnels")
  /\ streams' = [streams EXCEPT ![c] = @ + 1]
  /\ UNCHANGED <<relayVars, active>>

(* serveH1Connect: a request that is not CONNECT, or none, ends it; then   *)
(* the dial, the CONNECT to the upstream and its response head, each of    *)
(* which may fail; then the tunnel.                                        *)
H1Refuse(c) ==
  /\ Go(c, "h1", "closing")
  /\ UNCHANGED <<relayVars, countVars>>

H1Request(c) ==
  /\ Go(c, "h1", "head")
  /\ UNCHANGED <<relayVars, countVars>>

H1HeadRefuse(c) ==
  /\ Go(c, "head", "closing")
  /\ UNCHANGED <<relayVars, countVars>>

H1Tunnel(c) ==
  /\ Go(c, "head", "tunnel")
  /\ CountTunnel(c)

(* Mutant: the upstream stays open until both directions have ended, of    *)
(* which a client that left ends one.                                      *)
H1TunnelEndBoth(c) ==
  /\ ~client[c]
  /\ Go(c, "tunnel", "closing")
  /\ UNCHANGED <<relayVars, countVars>>

H1TunnelEnd(c) ==
  /\ Go(c, "tunnel", "closing")
  /\ UNCHANGED <<relayVars, countVars>>

(* handleRequest runs per stream in a goroutine that ServeConn does not    *)
(* wait for; serveH2 runs until the client or the idle timeout ends the    *)
(* connection.                                                             *)
H2Tunnel(c) ==
  /\ streams[c] < MaxStreams
  /\ Go(c, "h2", "h2")
  /\ CountTunnel(c)

H2End(c) ==
  /\ Go(c, "h2", "closing")
  /\ UNCHANGED <<relayVars, countVars>>

-----------------------------------------------------------------------------
(* The deferred calls, in the order Go runs them.                          *)

(* Mutant: the deferred Close of the socket forgotten.                     *)
CloseRawForgotten(c) ==
  /\ handler[c] = "closing"
  /\ handler' = [handler EXCEPT ![c] = "exiting"]
  /\ UNCHANGED <<loopVars, client, socket, relayVars, countVars>>

CloseRaw(c) ==
  /\ handler[c] = "closing"
  /\ handler' = [handler EXCEPT ![c] = "exiting"]
  /\ socket' = [socket EXCEPT ![c] = "closed"]
  /\ UNCHANGED <<loopVars, client, relayVars, countVars>>

ExitHandler(c) ==
  /\ Go(c, "exiting", "done")
  /\ active' = active - 1
  /\ UNCHANGED <<relayVars, stats, streams>>

-----------------------------------------------------------------------------
AcceptLoop == \/ \E c \in Conn : AcceptConn(c) \/ Reject(c) \/ Admit(c) \/ Spawn(c)
              \/ AcceptError \/ SleepOver

Dial(c) == DialRefused(c) \/ DialSlot(c) \/ DialOk(c) \/ DialError(c)
           \/ ReleaseSlot(c)

Handshake(c) == StartHandler(c) \/ TLSHandshake(c) \/ Dial(c) \/ CloseRelay(c)
                \/ RealityReturn(c) \/ CountRelay(c) \/ CountAuthed(c) \/ Peek(c)

Serve(c) == H1Refuse(c) \/ H1Request(c) \/ H1HeadRefuse(c) \/ H1Tunnel(c) \/ H1TunnelEnd(c)
            \/ H2Tunnel(c) \/ H2End(c)

Exit(c) == CloseRaw(c) \/ ExitHandler(c)

Next == \/ Signal \/ CloseListener \/ AcceptLoop
        \/ \E c \in Conn : ClientGone(c) \/ Handshake(c) \/ Serve(c) \/ Exit(c)

Spec == Init /\ [][Next]_vars

(***************************************************************************)
(* Fairness.  Goroutines are scheduled; every step of a handshake ends     *)
(* because the raw socket has a deadline and the dialer a timeout.  A      *)
(* serving step is bound to end only when the client has gone: ReadRequest *)
(* and the HTTP/1.1 tunnel run without a deadline.  Even then up.Write and *)
(* ReadResponse of serveH1Connect, and a tunnel with one goroutine in a    *)
(* write and one in a read of the upstream, wait for the upstream alone.   *)
(***************************************************************************)
Fairness ==
  /\ WF_vars(CloseListener)
  /\ WF_vars(AcceptError /\ ~listening)
  /\ WF_vars(SleepOver)
  /\ \A c \in Conn :
       /\ WF_vars(Reject(c) \/ Admit(c) \/ Spawn(c))
       /\ WF_vars(Handshake(c))
       /\ WF_vars(client[c] /\ (H1Refuse(c) \/ H1Request(c) \/ H2End(c)))
       /\ WF_vars(/\ client[c] /\ c \notin Silent
                  /\ H1HeadRefuse(c) \/ H1Tunnel(c) \/ H1TunnelEnd(c))
       /\ WF_vars(Exit(c))

FairSpec == Spec /\ Fairness

-----------------------------------------------------------------------------
(* Correctness                                                             *)

(* Every variable has its type.                                            *)
TypeOK ==
  /\ config \in Configs
  /\ ctxDone \in BOOLEAN /\ listening \in BOOLEAN
  /\ loop \in LoopStates
  /\ accepted \in Conn \cup {None}
  /\ handler \in [Conn -> HandlerStates]
  /\ socket \in [Conn -> {None, "open", "closed"}]
  /\ client \in [Conn -> BOOLEAN]
  /\ target \in [Conn -> {None, "open", "closed"}]
  /\ closes \in [Conn -> 0..2]
  /\ active \in Int /\ relaySlots \in Int
  /\ stats \in [Counters -> Nat]
  /\ streams \in [Conn -> Nat]

Handlers == {c \in Conn : handler[c] \in Live}
OpenSockets == {c \in Conn : socket[c] = "open"}
SlotHolders == {c \in Conn : handler[c] \in {"dialing", "releasing"}
                              \/ target[c] = "open"}

(* The counter the accept loop tests is the number of handler goroutines,  *)
(* on every exit path of handleConn and at every point between a handler's *)
(* deferred calls; it never passes limits.max_connections although test    *)
(* and increment are separate steps.                                       *)
ActiveExact == active = Cardinality(Handlers) /\ active <= MaxConnections

(* The server holds at most max_connections client sockets, plus one while *)
(* the accept loop has it in hand.  This needs raw.Close on every path,    *)
(* and before AddActive(-1).                                               *)
InHand == IF loop \in {"check", "spawn"} THEN 1 ELSE 0
SocketsBounded == Cardinality(OpenSockets) <= MaxConnections + InHand

(* The channel relaySlots holds one token for each target connection that  *)
(* is being dialled or open, whatever dial errors and repeated Close calls *)
(* happened: no slot leaks and none is given back twice.                   *)
SlotsExact == relaySlots = Cardinality(SlotHolders) /\ relaySlots <= MaxRelays

(***************************************************************************)
(* The inductive invariant.  The counters alone are not inductive: that    *)
(* the accept loop admits only below the limit must survive the handlers   *)
(* that run between test and increment, and that a Close gives back the    *)
(* caller's own slot must be tied to sync.Once.                            *)
(***************************************************************************)
AcceptInv ==
  /\ loop \in {"check", "spawn"} => accepted \in Conn /\ handler[accepted] = "idle"
  /\ loop = "spawn" => active < MaxConnections

(* A relayConn is open exactly until its first Close.                      *)
RelayInv ==
  \A c \in Conn :
    /\ target[c] = "open" <=> handler[c] = "forked" /\ closes[c] = 0
    /\ handler[c] \in {"idle", "start", "server", "dialing"} => closes[c] = 0

SocketInv ==
  \A c \in Conn :
    /\ handler[c] = "exiting" => socket[c] = "closed"
    /\ socket[c] = "open" => \/ c \in Handlers
                             \/ loop \in {"check", "spawn"} /\ c = accepted

(* All of the frontend's bookkeeping: types, accept loop, relay            *)
(* connections, sockets and both counters.                                 *)
IInv == /\ TypeOK /\ AcceptInv /\ RelayInv /\ SocketInv
        /\ ActiveExact /\ SlotsExact

(* The two limits as abstract pools.                                       *)
ConnPool == INSTANCE BoundedPool
              WITH Users <- Conn, Capacity <- MaxConnections, held <- Handlers
RelayPool == INSTANCE BoundedPool
              WITH Users <- Conn, Capacity <- MaxRelays, held <- SlotHolders

(* Handler goroutines take and leave the places of a pool of               *)
(* max_connections, one at a time.                                         *)
ConnPoolSpec == ConnPool!Spec

(* Target connections take and leave the places of a pool of max_relays,   *)
(* and every place taken is given back, authenticated or not.              *)
RelayPoolFair == RelayPool!FairSpec

(* A connection that does not authenticate keeps its handler only for a    *)
(* while: dial timeouts and the raw deadline end every handshake.          *)
HandshakeEnds == \A c \in Conn : handler[c] \in PreAuth ~> handler[c] \notin PreAuth

(* Once its client is gone a connection gives its place back, unless an    *)
(* HTTP/1.1 handler waits for an upstream that does not answer: there is   *)
(* no deadline and nobody watches the client, so that place is lost for as *)
(* long as the upstream holds it.                                          *)
HeldByUpstream(c) == c \in Silent /\ handler[c] \in {"head", "tunnel"}
GoneClientFreed ==
  \A c \in Conn :
    client[c] ~> (handler[c] \in {"rejected", "done"} \/ HeldByUpstream(c))

(* A signal ends Serve.                                                    *)
ShutdownReturns == ctxDone ~> loop = "returned"

=============================================================================
