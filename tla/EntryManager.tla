---------------------------- MODULE EntryManager ----------------------------
(***************************************************************************)
(* tui/internal/entry: the Manager of one session's local listeners.       *)
(* Start binds a SOCKS5 and an HTTP listener and leaves an accept loop on  *)
(* each; an accepted connection is put into m.conns before its handler is  *)
(* spawned; Stop closes the listeners and every connection it finds in     *)
(* m.conns.  Start, the registration, the deferred delete and Stop are     *)
(* critical sections of m.mu.  What a handler does is TunnelRelay.         *)
(***************************************************************************)
EXTENDS Naturals

CONSTANT Conns   \* the client connections that may arrive

Entries == {"socks", "http"}
NoConn == "none"

ASSUME NoConnNotConn == NoConn \notin Conns

VARIABLES
  config,     \* the entries with a non-empty address
  started,    \* what Start returned: "no" before the call, "ok", "error"
  closed,     \* Manager.closed
  listeners,  \* Manager.listeners
  socket,     \* the listening socket of each entry: "none", "bound", "closed"
  loop,       \* the accept loop of each entry: "off", "accept", "accepted", "gone"
  accepted,   \* the connection Accept gave a loop
  backlog,    \* connections the kernel holds for each entry
  conns,      \* Manager.conns
  handler,    \* the goroutine of a connection: "none", "serving", "deleting", "gone"
  conn        \* our end of a connection: "none", "open", "closed"

entryVars == <<config, started, closed, listeners, socket, loop, accepted, backlog,
               conns, handler, conn>>
listenVars == <<config, started, listeners, socket>>

EntryInit ==
  /\ config \in SUBSET Entries
  /\ started = "no" /\ closed = FALSE
  /\ listeners = {} /\ conns = {}
  /\ socket = [e \in Entries |-> "none"]
  /\ loop = [e \in Entries |-> "off"]
  /\ accepted = [e \in Entries |-> NoConn]
  /\ backlog = [e \in Entries |-> {}]
  /\ handler = [c \in Conns |-> "none"]
  /\ conn = [c \in Conns |-> "none"]

-----------------------------------------------------------------------------
(* What Start leaves after the entries of bound were listened on and the   *)
(* next one failed: closePending has closed them.                          *)
StartFailed(bound) ==
  /\ started' = "error"
  /\ socket' = [e \in Entries |-> IF e \in bound THEN "closed" ELSE "none"]
  /\ UNCHANGED <<config, closed, listeners, loop, accepted, backlog, conns, handler, conn>>

(* SOCKS5 is listened on first, then HTTP; the loops start when both are.  *)
Start ==
  /\ started = "no"
  /\ \/ ~closed /\ "socks" \in config /\ StartFailed({})
     \/ ~closed /\ "http" \in config /\ StartFailed(config \ {"http"})
     \/ closed /\ StartFailed({})
     \/ /\ ~closed
        /\ started' = "ok"
        /\ listeners' = config
        /\ socket' = [e \in Entries |-> IF e \in config THEN "bound" ELSE "none"]
        /\ loop' = [e \in Entries |-> IF e \in config THEN "accept" ELSE "off"]
        /\ UNCHANGED <<config, closed, accepted, backlog, conns, handler, conn>>

(* A client of this machine connects.                                      *)
Connect(c, e) ==
  /\ socket[e] = "bound" /\ conn[c] = "none"
  /\ conn' = [conn EXCEPT ![c] = "open"]
  /\ backlog' = [backlog EXCEPT ![e] = @ \cup {c}]
  /\ UNCHANGED <<listenVars, closed, loop, accepted, conns, handler>>

Accept(e) ==
  /\ loop[e] = "accept" /\ socket[e] = "bound"
  /\ \E c \in backlog[e] :
       /\ backlog' = [backlog EXCEPT ![e] = @ \ {c}]
       /\ accepted' = [accepted EXCEPT ![e] = c]
  /\ loop' = [loop EXCEPT ![e] = "accepted"]
  /\ UNCHANGED <<listenVars, closed, conns, handler, conn>>

(* Mutant: the loop goes on after an error.                                *)
AcceptErrorRetried(e) == loop[e] = "accept" /\ UNCHANGED entryVars

(* Any error ends the loop, a closed listener and a transient one alike.   *)
AcceptError(e) ==
  /\ loop[e] = "accept"
  /\ loop' = [loop EXCEPT ![e] = "gone"]
  /\ UNCHANGED <<listenVars, closed, accepted, backlog, conns, handler, conn>>

(* Mutant: m.closed is not tested.                                         *)
AddConnUnchecked(e) ==
  LET c == accepted[e] IN
  /\ loop[e] = "accepted"
  /\ accepted' = [accepted EXCEPT ![e] = NoConn]
  /\ conns' = conns \cup {c}
  /\ handler' = [handler EXCEPT ![c] = "serving"]
  /\ loop' = [loop EXCEPT ![e] = "accept"]
  /\ UNCHANGED <<listenVars, closed, backlog, conn>>

(* The critical section after Accept.                                      *)
AddConn(e) ==
  LET c == accepted[e] IN
  /\ loop[e] = "accepted"
  /\ accepted' = [accepted EXCEPT ![e] = NoConn]
  /\ IF closed
       THEN /\ conn' = [conn EXCEPT ![c] = "closed"]
            /\ loop' = [loop EXCEPT ![e] = "gone"]
            /\ UNCHANGED <<conns, handler>>
       ELSE /\ conns' = conns \cup {c}
            /\ handler' = [handler EXCEPT ![c] = "serving"]
            /\ loop' = [loop EXCEPT ![e] = "accept"]
            /\ UNCHANGED conn
  /\ UNCHANGED <<listenVars, closed, backlog>>

(* serveSocks5 or serveHTTPConnect returns, after its deferred Close.      *)
HandlerReturns(c) ==
  /\ handler[c] = "serving"
  /\ conn' = [conn EXCEPT ![c] = "closed"]
  /\ handler' = [handler EXCEPT ![c] = "deleting"]
  /\ UNCHANGED <<listenVars, closed, loop, accepted, backlog, conns>>

(* Mutant: no deferred delete.                                             *)
DeleteForgotten(c) ==
  /\ handler[c] = "deleting"
  /\ handler' = [handler EXCEPT ![c] = "gone"]
  /\ UNCHANGED <<listenVars, closed, loop, accepted, backlog, conns, conn>>

Delete(c) ==
  /\ handler[c] = "deleting"
  /\ conns' = conns \ {c}
  /\ handler' = [handler EXCEPT ![c] = "gone"]
  /\ UNCHANGED <<listenVars, closed, loop, accepted, backlog, conn>>

(* Closing a listening socket resets the connections nobody accepted.      *)
Stop ==
  /\ ~closed /\ closed' = TRUE
  /\ socket' = [e \in Entries |-> IF e \in listeners THEN "closed" ELSE socket[e]]
  /\ conn' = [c \in Conns |-> IF c \in conns \/ \E e \in listeners : c \in backlog[e]
                                THEN "closed" ELSE conn[c]]
  /\ listeners' = {} /\ conns' = {}
  /\ backlog' = [e \in Entries |-> IF e \in listeners THEN {} ELSE backlog[e]]
  /\ UNCHANGED <<config, started, loop, accepted, handler>>

-----------------------------------------------------------------------------
AcceptLoop(e) == Accept(e) \/ AcceptError(e) \/ AddConn(e)
LoopStep(e) == Accept(e) \/ (socket[e] = "closed" /\ AcceptError(e)) \/ AddConn(e)
Cleanup(c) == (conn[c] = "closed" /\ HandlerReturns(c)) \/ Delete(c)

EntryNext ==
  \/ Start \/ Stop
  \/ \E e \in Entries : AcceptLoop(e) \/ \E c \in Conns : Connect(c, e)
  \/ \E c \in Conns : HandlerReturns(c) \/ Delete(c)

EntrySpec == EntryInit /\ [][EntryNext]_entryVars

(* Goroutines are scheduled and a handler whose connection was closed      *)
(* returns (CancelEnds of TunnelRelay): its upstream is the core, which is *)
(* killed with the session, so that a write to it does not block for ever. *)
EntryFairness ==
  /\ \A e \in Entries : WF_entryVars(LoopStep(e))
  /\ \A c \in Conns : WF_entryVars(Cleanup(c))

EntryFairSpec == EntrySpec /\ EntryFairness

-----------------------------------------------------------------------------
(* Correctness                                                             *)

(* Every variable has its type.                                            *)
EntryTypeOK ==
  /\ config \subseteq Entries /\ started \in {"no", "ok", "error"}
  /\ closed \in BOOLEAN /\ listeners \subseteq Entries
  /\ socket \in [Entries -> {"none", "bound", "closed"}]
  /\ loop \in [Entries -> {"off", "accept", "accepted", "gone"}]
  /\ accepted \in [Entries -> Conns \cup {NoConn}]
  /\ backlog \in [Entries -> SUBSET Conns]
  /\ conns \subseteq Conns
  /\ handler \in [Conns -> {"none", "serving", "deleting", "gone"}]
  /\ conn \in [Conns -> {"none", "open", "closed"}]

(* A connection accepted while Stop runs is either seen by Stop or sees    *)
(* m.closed: no handler goes on with an open connection after Stop.        *)
NothingServedAfterStop ==
  closed => \A c \in Conns : handler[c] = "serving" => conn[c] = "closed"

(* Until Stop, m.conns holds exactly the connections that have a handler,  *)
(* so it neither grows with the traffic nor hides one from Stop.           *)
ConnsExact ==
  ~closed => conns = {c \in Conns : handler[c] \in {"serving", "deleting"}}

(* A Start that fails half way and a Stop both leave the ports free.       *)
PortsFree == (started = "error" \/ closed) => \A e \in Entries : socket[e] # "bound"

(* The table of connections is exact in every well-formed state.           *)
EntryInv == EntryTypeOK /\ ConnsExact

(* What Stop, or a Start that failed, promises at once: no open connection *)
(* is served and no port is held.                                          *)
StopReleases == NothingServedAfterStop /\ PortsFree

(* After Stop every accept loop and every handler ends, and every          *)
(* connection that ever arrived is closed.                                 *)
StopEndsAll ==
  closed ~> /\ \A e \in Entries : loop[e] \in {"off", "gone"}
            /\ \A c \in Conns : handler[c] \in {"none", "gone"} /\ conn[c] # "open"

=============================================================================
