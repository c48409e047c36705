--------------------------- MODULE ClientSession ---------------------------
(***************************************************************************)
(* tui/app.go: the TUI's model, which composes the core manager with the   *)
(* local entry, the TUN device and the system proxy.  Update is one        *)
(* goroutine: a key press runs connect or disconnect to its end before the *)
(* next message is seen, while the supervisors of CoreManager go on beside *)
(* it.  The messages are key presses and the exit reasons waitExit         *)
(* receives.                                                               *)
(*                                                                         *)
(* An entry manager is named by the connect that made it and is reduced to *)
(* whether it listens; the registry's three proxy values are "before",     *)
(* "ours" or a mixture.                                                    *)
(***************************************************************************)
EXTENDS CoreManager, FiniteSets

CONSTANT MaxConnects  \* bound: calls of connect that get past its first test

ASSUME MaxConnectsNat == MaxConnects \in Nat

VARIABLES
  ui,         \* where Update is in connect or disconnect
  state,      \* model.state
  connects,   \* number of the latest connect
  cancels,    \* the generation whose context model.cancel cancels, 0 for none
  entry,      \* model.entry: the connect that made it, 0 for nil
  listening,  \* the entry managers that hold the local ports
  tun, tuns,  \* model.tun, and the devices that exist
  spOn, prevSP, \* model.spOn, model.prevSP
  registry,   \* the system's proxy settings
  regFailed,  \* history: Restore failed, or Enable after its first write
  inbox       \* the exit reason waitExit has received, by generation, 0 for none

uiVars == <<ui, state, connects, cancels, entry>>
hostVars == <<listening, tun, tuns, spOn, prevSP, registry, regFailed>>
sessionVars == <<ui, state, connects, cancels, entry, listening, tun, tuns, spOn,
                 prevSP, registry, regFailed, inbox>>
vars == <<coreVars, sessionVars>>

Connects == 1..MaxConnects

Init ==
  /\ CoreInit
  /\ ui = "idle" /\ state \in {"disconnected", "error"}
  /\ connects = 0 /\ cancels = 0 /\ entry = 0
  /\ listening = {} /\ tun = 0 /\ tuns = {}
  /\ spOn = FALSE /\ prevSP = "before" /\ registry = "before" /\ regFailed = FALSE
  /\ inbox = 0

-----------------------------------------------------------------------------
(* connect                                                                 *)

(* A new context and a new entry manager replace the ones model holds.     *)
Connect ==
  /\ ui = "idle" /\ connects < MaxConnects /\ generation + 2 <= MaxGen
  /\ state \notin {"connected", "connecting"}
  /\ ui' = "core" /\ state' = "connecting"
  /\ connects' = connects + 1
  /\ cancels' = 0
  /\ entry' = connects + 1
  /\ UNCHANGED <<coreVars, hostVars, inbox>>

NoProfile ==
  /\ ui = "idle" /\ state \notin {"connected", "connecting"}
  /\ state' = "error"
  /\ UNCHANGED <<coreVars, ui, connects, cancels, entry, hostVars, inbox>>

ConnectFails ==
  /\ ui' = "idle" /\ state' = "error"
  /\ UNCHANGED <<connects, cancels, entry, hostVars, inbox>>

StartRefused ==
  /\ ui = "core" /\ call = "idle" /\ running
  /\ ConnectFails
  /\ UNCHANGED coreVars

StartCore ==
  /\ ui = "core"
  /\ \/ CallStart /\ UNCHANGED sessionVars
     \/ /\ WriteConfig
        /\ IF call' = "idle" THEN ConnectFails ELSE UNCHANGED sessionVars
     \/ /\ Register
        /\ IF running
             THEN ConnectFails
             ELSE /\ cancels' = generation'
                  /\ ui' = "entry"
                  /\ UNCHANGED <<state, connects, entry, hostVars, inbox>>

(* The profiles keep the default ports, so one manager listens at a time;  *)
(* another program may have the port as well.  When it fails the core is   *)
(* stopped and its context is not cancelled.                               *)
StartEntry ==
  /\ ui = "entry" /\ call = "idle"
  /\ \/ /\ listening = {}
        /\ listening' = {entry}
        /\ ui' = "tun"
        /\ UNCHANGED <<coreVars, state, connects, cancels, entry, tun, tuns, spOn,
                       prevSP, registry, regFailed, inbox>>
     \/ /\ StopLock
        /\ ui' = "unstart" /\ state' = "error"
        /\ UNCHANGED <<connects, cancels, entry, hostVars, inbox>>

StopAfterEntry ==
  /\ ui = "unstart" /\ StopKill
  /\ ui' = "idle"
  /\ UNCHANGED <<state, connects, cancels, entry, hostVars, inbox>>

(* A TUN that is off or fails does not end connect; Create cleans up after *)
(* itself.                                                                 *)
StartTUN ==
  /\ ui = "tun" /\ ui' = "proxy"
  /\ \/ tun' = connects /\ tuns' = tuns \cup {connects}
     \/ UNCHANGED <<tun, tuns>>
  /\ UNCHANGED <<coreVars, state, connects, cancels, entry, listening, spOn, prevSP,
                 registry, regFailed, inbox>>

(* Enable returns the settings it found, which Restore writes back.  It    *)
(* may fail before its first write, or between two of them; then connect   *)
(* only logs the error.                                                    *)
StartProxy ==
  /\ ui = "proxy" /\ ui' = "idle" /\ state' = "connected"
  /\ \/ spOn' = TRUE /\ prevSP' = registry /\ registry' = "ours" /\ UNCHANGED regFailed
     \/ UNCHANGED <<spOn, prevSP, registry, regFailed>>
     \/ registry' = "mixed" /\ regFailed' = TRUE /\ UNCHANGED <<spOn, prevSP>>
  /\ UNCHANGED <<coreVars, connects, cancels, entry, listening, tun, tuns, inbox>>

-----------------------------------------------------------------------------
(* disconnect                                                              *)

Disconnect ==
  /\ ui = "idle" /\ generation < MaxGen
  /\ Cancel(cancels)
  /\ ui' = "stop" /\ cancels' = 0
  /\ UNCHANGED <<state, connects, entry, hostVars, inbox>>

StopCore ==
  /\ ui = "stop"
  /\ \/ call = "stop" /\ StopLock /\ UNCHANGED ui
     \/ StopKill /\ ui' = "rest"
  /\ UNCHANGED <<state, connects, cancels, entry, hostVars, inbox>>

(* Mutant: spOn is cleared and Restore forgotten.                          *)
RestoreProxySkipped == spOn' = FALSE /\ UNCHANGED <<registry, regFailed>>

(* Restore may fail to open the key or at its first write, and leave our   *)
(* settings, or between two writes; disconnect does not look at its error  *)
(* and clears spOn all the same.                                           *)
RestoreProxy ==
  /\ spOn' = FALSE
  /\ \/ registry' = (IF spOn THEN prevSP ELSE registry) /\ UNCHANGED regFailed
     \/ spOn /\ registry' \in {registry, "mixed"} /\ regFailed' = TRUE

(* Mutant: stopTUN forgets the device without closing it.                  *)
StopRestTunKept ==
  /\ ui = "rest" /\ ui' = "idle" /\ state' = "disconnected"
  /\ listening' = listening \ {entry} /\ entry' = 0
  /\ tun' = 0 /\ tuns' = tuns
  /\ RestoreProxy
  /\ UNCHANGED <<coreVars, connects, cancels, prevSP, inbox>>

(* entry.Stop, stopTUN and Restore, which nothing can interleave with in a *)
(* way that matters here.                                                  *)
StopRest ==
  /\ ui = "rest" /\ ui' = "idle" /\ state' = "disconnected"
  /\ listening' = listening \ {entry} /\ entry' = 0
  /\ tun' = 0 /\ tuns' = tuns \ {tun}
  /\ RestoreProxy
  /\ UNCHANGED <<coreVars, connects, cancels, prevSP, inbox>>

-----------------------------------------------------------------------------
(* Exit reasons: waitExit holds one until Update has taken it.             *)

WaitExit ==
  /\ inbox = 0 /\ TakeExit
  /\ inbox' = Head(exits)
  /\ UNCHANGED <<uiVars, hostVars>>

CoreExitMsg ==
  /\ ui = "idle" /\ inbox # 0
  /\ inbox' = 0
  /\ state' = IF state \in {"connected", "connecting"} THEN "reconnecting" ELSE state
  /\ UNCHANGED <<coreVars, ui, connects, cancels, entry, hostVars>>

-----------------------------------------------------------------------------
InUpdate == StartRefused \/ StartCore \/ StartEntry \/ StopAfterEntry \/ StartTUN
            \/ StartProxy \/ StopCore \/ StopRest

Background ==
  /\ \E g \in Gens : Supervise(g) \/ CoreDies(g) \/ ContextKills(g)
  /\ UNCHANGED sessionVars

Next == Connect \/ NoProfile \/ Disconnect \/ InUpdate \/ WaitExit \/ CoreExitMsg
        \/ Background

Spec == Init /\ [][Next]_vars

-----------------------------------------------------------------------------
(* Correctness                                                             *)

(* Every variable has its type.                                            *)
SessionTypeOK ==
  /\ CoreTypeOK
  /\ ui \in {"idle", "core", "entry", "unstart", "tun", "proxy", "stop", "rest"}
  /\ state \in {"disconnected", "connecting", "connected", "reconnecting", "error"}
  /\ connects \in 0..MaxConnects /\ entry \in 0..MaxConnects /\ tun \in 0..MaxConnects
  /\ cancels \in 0..MaxGen /\ inbox \in 0..MaxGen
  /\ listening \subseteq Connects /\ tuns \subseteq Connects
  /\ spOn \in BOOLEAN /\ regFailed \in BOOLEAN
  /\ {prevSP, registry} \subseteq {"before", "ours", "mixed"}

(* The user's own proxy settings are never lost: whenever they are not in  *)
(* the registry, disconnect will write them back.  A second Enable over    *)
(* our own settings would make prevSP worthless; what prevents it is that  *)
(* connect cannot get past core.Start while a session's core is managed.   *)
(* Only a failing registry can lose them: an Enable that stops between two *)
(* writes has not told model what it found, and after a Restore that       *)
(* fails, wherever it fails, model no longer remembers that it owes one.   *)
ProxySettingsKept == regFailed \/ registry = "before" \/ (spOn /\ prevSP = "before")

(* No TUN device is forgotten: the one model.tun names is the only one.    *)
TunHeld == tuns = IF tun = 0 THEN {} ELSE {tun}

(* The session's record of its own state is well formed and names every    *)
(* device it created.                                                      *)
SessionInv == SessionTypeOK /\ TunHeld

(* A session that changed the host (TUN, system proxy) and has to change   *)
(* it back has a core that is being managed, or is just being ended;       *)
(* otherwise all traffic would go to ports behind which nothing is         *)
(* restarted.                                                              *)
HostNeedsCore == (ui = "idle" /\ (spOn \/ tun # 0)) => running

(* What docs/windows.md says of the key d: it disconnects.  In the state   *)
(* "disconnected" no local port is held.                                   *)
DisconnectedIsClosed == (ui = "idle" /\ state = "disconnected") => listening = {}

=============================================================================
