------------------------ MODULE ClientSessionProofs ------------------------
(***************************************************************************)
(* Proofs about the ClientSession, for any number of connects.  Its calls  *)
(* of the core manager keep CoreIInv by the lemmas about the steps of the  *)
(* manager, and on top of it the proof follows where Update is.            *)
(***************************************************************************)
EXTENDS ClientSession, ClientPartsProofs

USE MaxGenNat, ExitCapNat, NoneNoProfile, CancelsBoolean, MaxConnectsNat

-----------------------------------------------------------------------------
(* ClientSession                                                           *)

(* Update and the call it is in.  connect leaves room for the two          *)
(* generations of its Start and the Stop that may follow.                  *)
UiInv ==
  /\ ui \in {"idle", "entry", "tun", "proxy", "rest"} => call = "idle"
  /\ ui = "core" => call \in {"idle", "write", "register"} /\ generation + 2 <= MaxGen
  /\ ui = "entry" => generation < MaxGen
  /\ ui = "unstart" => call = "kill"
  /\ ui = "stop" => call \in {"stop", "kill"}
  /\ call = "stop" => generation < MaxGen
  /\ ui \in {"core", "entry", "tun"} => connects # 0 /\ entry # 0

(* model.cancel never cancels a generation to come, and the current one is *)
(* cancelled only between disconnect's cancel and its Stop: so its         *)
(* supervisor cannot leave while the session relies on it.                 *)
ContextInv ==
  /\ cancels <= generation
  /\ \A g \in Gens : ctx[g] => g < generation \/ (g = generation /\ call = "stop")

(* From the registration on, connect has a managed core and an untouched   *)
(* host; later, whatever was changed on the host has a managed core or is  *)
(* about to be undone.  Between Enable and Restore the registry is ours.   *)
HostInv ==
  /\ ui \in {"entry", "tun", "proxy"} => running /\ ~spOn
  /\ ui \in {"entry", "tun"} => tun = 0
  /\ (spOn \/ tun # 0) => running \/ ui \in {"stop", "rest"}
  /\ spOn => registry = "ours"

(* The inductive invariant of the session.                                 *)
SessionIInv ==
  /\ CoreIInv
  /\ SessionTypeOK
  /\ UiInv
  /\ ContextInv
  /\ HostInv
  /\ TunHeld
  /\ ProxySettingsKept

-----------------------------------------------------------------------------
(* The first state satisfies the invariant.                                *)
LEMMA SessionInitial == Init => SessionIInv
  <1> SUFFICES ASSUME Init PROVE SessionIInv
    OBVIOUS
  <1>1. CoreIInv
    BY CoreInitial DEF Init
  <1>2. SessionTypeOK
    <2>1. spOn \in BOOLEAN /\ regFailed \in BOOLEAN
      BY DEF Init
    <2>2. {prevSP, registry} \subseteq {"before", "ours", "mixed"}
      BY DEF Init
    <2>3. /\ ui = "idle" /\ state \in {"disconnected", "error"} /\ inbox = 0 /\ listening = {}
          /\ connects = 0 /\ cancels = 0 /\ entry = 0 /\ tun = 0 /\ tuns = {} /\ CoreTypeOK
      BY <1>1 DEF Init, CoreIInv, CoreInv
    <2>4. QED
      BY <2>1, <2>2, <2>3 DEF SessionTypeOK
  <1>3. UiInv /\ ContextInv /\ HostInv /\ TunHeld /\ ProxySettingsKept
    BY DEF Init, CoreInit, UiInv, ContextInv, HostInv, TunHeld, ProxySettingsKept
  <1>4. QED
    BY <1>1, <1>2, <1>3 DEF SessionIInv

(* The manager's own part of the invariant survives every step of the      *)
(* session: the guards under which Update calls it are the ones the lemmas *)
(* of CoreManagerProofs ask for.                                           *)
LEMMA SessionKeepsCore ==
  ASSUME SessionIInv, [Next]_vars
  PROVE  CoreIInv'
  <1>1. CoreIInv /\ cancels \in 0..MaxGen
    BY DEF SessionIInv, SessionTypeOK
  <1>2. CASE UNCHANGED coreVars
    BY <1>1, <1>2, CoreStutter
  <1>3. CASE StartCore
    BY <1>1, <1>3, StartCheckKeeps, WriteConfigKeeps, RegisterKeeps DEF StartCore, CallStart
  <1>4. CASE ui = "entry" /\ call = "idle" /\ StopLock
    BY <1>1, <1>4, StopLockKeeps DEF SessionIInv, UiInv
  <1>5. CASE StopAfterEntry
    BY <1>1, <1>5, StopKillKeeps DEF StopAfterEntry
  <1>6. CASE Disconnect
    BY <1>1, <1>6, CancelKeeps DEF Disconnect
  <1>7. CASE StopCore
    BY <1>1, <1>7, StopLockKeeps, StopKillKeeps DEF StopCore, SessionIInv, UiInv
  <1>8. CASE WaitExit
    BY <1>1, <1>8, TakeExitKeeps DEF WaitExit
  <1>9. CASE Background
    BY <1>1, <1>9, BackgroundKeeps DEF Background
  <1>10. QED
    BY <1>2, <1>3, <1>4, <1>5, <1>6, <1>7, <1>8, <1>9
    DEF Next, InUpdate, Connect, NoProfile, StartRefused, StartEntry, StartTUN, StartProxy, StopRest,
        CoreExitMsg, vars

(* While the session relies on its core, nothing beside Update ends it.    *)
LEMMA BackgroundKeepsRunning ==
  ASSUME SessionIInv, Background
  PROVE  /\ UNCHANGED <<sessionVars, generation, call, ctx>>
         /\ running /\ call # "stop" => running'
  <1>1. PICK g \in Gens : Supervise(g) \/ CoreDies(g) \/ ContextKills(g)
    BY DEF Background
  <1>2. UNCHANGED <<sessionVars, generation, call, ctx>>
    BY <1>1, BackgroundFrame DEF Background, SessionIInv
  <1>3. CASE Deferred(g) /\ g = generation
    BY <1>2, <1>3 DEF Deferred, SessionIInv, SessionTypeOK, CoreTypeOK, CoreIInv, LeaveInv, ContextInv, Gens
  <1>4. CASE ~(Deferred(g) /\ g = generation)
    BY <1>1, <1>2, <1>4 DEF Supervise, Loop, Launch, StartProcess, RunReturns, AfterRun, Report, Backoff,
       Deferred,
       CoreDies, ContextKills, managerVars
  <1>5. QED
    BY <1>2, <1>3, <1>4

-----------------------------------------------------------------------------
(* Every step keeps the session's part.                                    *)
LEMMA SessionStep ==
  ASSUME SessionIInv, [Next]_vars
  PROVE  SessionIInv'
  <1>1. CoreIInv' /\ CoreTypeOK'
    BY SessionKeepsCore DEF CoreIInv, CoreInv
  <1> USE <1>1
  <1>2. CASE Connect
    BY <1>2 DEF Connect, Connects, coreVars, hostVars, CoreTypeOK,
       SessionIInv, SessionTypeOK, UiInv, ContextInv, HostInv, TunHeld, ProxySettingsKept
  <1>3. CASE NoProfile
    BY <1>3 DEF NoProfile, coreVars, hostVars, sessionVars, uiVars,
       SessionIInv, SessionTypeOK, UiInv, ContextInv, HostInv, TunHeld, ProxySettingsKept
  <1>4. CASE StartRefused
    BY <1>4 DEF StartRefused, ConnectFails, coreVars, hostVars, sessionVars, uiVars,
       SessionIInv, SessionTypeOK, UiInv, ContextInv, HostInv, TunHeld, ProxySettingsKept
  <1>5. CASE StartCore
    <2>1. CASE CallStart /\ UNCHANGED sessionVars
      BY <1>5, <2>1 DEF StartCore, CallStart, StartCheck, managerVars, sessionVars,
         SessionIInv, SessionTypeOK, UiInv, ContextInv, HostInv, TunHeld, ProxySettingsKept
    <2>2. CASE WriteConfig /\ call' = "idle" /\ ConnectFails
      BY <1>5, <2>2 DEF StartCore, WriteConfig, ConnectFails, managerVars, hostVars,
         SessionIInv, SessionTypeOK, UiInv, ContextInv, HostInv, TunHeld, ProxySettingsKept
    <2>3. CASE WriteConfig /\ call' # "idle" /\ UNCHANGED sessionVars
      BY <1>5, <2>3 DEF StartCore, WriteConfig, managerVars, sessionVars,
         SessionIInv, SessionTypeOK, UiInv, ContextInv, HostInv, TunHeld, ProxySettingsKept
    <2>4. CASE /\ Register /\ cancels' = generation' /\ ui' = "entry"
               /\ UNCHANGED <<state, connects, entry, hostVars, inbox>>
      <3>1. ~running /\ ui = "core" /\ generation + 2 <= MaxGen
        BY <1>5, <2>4 DEF StartCore, Register, SessionIInv, UiInv, CoreIInv, CallInv
      <3>2. /\ call' = "idle" /\ running' = TRUE /\ generation' = generation + 1
            /\ UNCHANGED ctx
        BY <2>4, <3>1 DEF Register
      <3>3. UiInv' /\ ContextInv'
        BY <2>4, <3>1, <3>2 DEF SessionIInv, SessionTypeOK, CoreTypeOK, UiInv, ContextInv, Gens
      <3>4. ~spOn /\ tun = 0
        BY <3>1 DEF SessionIInv, HostInv
      <3>5. QED
        BY <2>4, <3>1, <3>2, <3>3, <3>4 DEF hostVars, CoreTypeOK, SessionIInv, SessionTypeOK, HostInv,
           TunHeld, ProxySettingsKept
    <2>5. QED
      BY <1>5, <2>1, <2>2, <2>3, <2>4 DEF StartCore, Register, SessionIInv, CoreIInv, CallInv
  <1>6. CASE StartEntry
    <2>1. CASE StopLock
      <3>1. /\ ui = "entry" /\ ui' = "unstart" /\ call' = "kill" /\ state' = "error"
            /\ UNCHANGED <<connects, cancels, entry, hostVars, inbox>>
        BY <1>6, <2>1 DEF StartEntry, StopLock, coreVars
      <3>2. ContextInv'
        BY <2>1, <3>1 DEF StopLock, SessionIInv, SessionTypeOK, CoreTypeOK, ContextInv, Gens
      <3>3. QED
        BY <3>1, <3>2 DEF hostVars, SessionIInv, SessionTypeOK, UiInv, HostInv, TunHeld,
           ProxySettingsKept
    <2>2. CASE UNCHANGED coreVars
      BY <1>6, <2>2 DEF StartEntry, StopLock, coreVars, hostVars, Connects, CoreTypeOK,
         SessionIInv, SessionTypeOK, UiInv, ContextInv, HostInv, TunHeld, ProxySettingsKept
    <2>3. QED
      BY <1>6, <2>1, <2>2 DEF StartEntry
  <1>7. CASE StopAfterEntry
    BY <1>7 DEF StopAfterEntry, StopKill, managerVars, coreVars, hostVars, sessionVars, uiVars,
       SessionIInv, SessionTypeOK, UiInv, ContextInv, HostInv, TunHeld, ProxySettingsKept
  <1>8. CASE StartTUN
    BY <1>8 DEF StartTUN, Connects, coreVars, hostVars, sessionVars, uiVars,
       SessionIInv, SessionTypeOK, UiInv, ContextInv, HostInv, TunHeld, ProxySettingsKept
  <1>9. CASE StartProxy
    <2>1. spOn' \in BOOLEAN /\ regFailed' \in BOOLEAN
      BY <1>9 DEF StartProxy, SessionIInv, SessionTypeOK
    <2>2. ProxySettingsKept' /\ TunHeld'
      BY <1>9 DEF StartProxy, SessionIInv, HostInv, ProxySettingsKept, TunHeld
    <2>3. HostInv'
      BY <1>9 DEF StartProxy, coreVars, SessionIInv, HostInv
    <2>4. QED
      BY <1>9, <2>1, <2>2, <2>3 DEF StartProxy, coreVars, SessionIInv, SessionTypeOK, UiInv, ContextInv
  <1>10. CASE Disconnect
    BY <1>10 DEF Disconnect, Cancel, managerVars, CoreTypeOK, Gens, coreVars, hostVars, sessionVars, uiVars,
       SessionIInv, SessionTypeOK, UiInv, ContextInv, HostInv, TunHeld, ProxySettingsKept
  <1>11. CASE StopCore
    <2>1. CASE StopLock /\ UNCHANGED ui
      <3>1. ContextInv'
        BY <1>11, <2>1 DEF StopCore, StopLock, SessionIInv, SessionTypeOK, CoreTypeOK, ContextInv, Gens
      <3>2. QED
        BY <1>11, <2>1, <3>1 DEF StopCore, StopLock, hostVars, SessionIInv, SessionTypeOK, UiInv,
           HostInv, TunHeld, ProxySettingsKept
    <2>2. CASE StopKill /\ ui' = "rest"
      BY <1>11, <2>2 DEF StopCore, StopKill, managerVars, hostVars, CoreTypeOK, Gens,
         SessionIInv, SessionTypeOK, UiInv, ContextInv, HostInv, TunHeld, ProxySettingsKept
    <2>3. QED
      BY <1>11, <2>1, <2>2 DEF StopCore
  <1>12. CASE StopRest
    <2>1. spOn' \in BOOLEAN /\ regFailed' \in BOOLEAN
      BY <1>12 DEF StopRest, RestoreProxy, SessionIInv, SessionTypeOK
    <2>2. registry' \in {"before", "ours", "mixed"} /\ ProxySettingsKept'
      BY <1>12 DEF StopRest, RestoreProxy, SessionIInv, SessionTypeOK, HostInv, ProxySettingsKept
    <2>3. TunHeld'
      BY <1>12 DEF StopRest, RestoreProxy, SessionIInv, TunHeld
    <2>4. QED
      BY <1>12, <2>1, <2>2, <2>3 DEF StopRest, RestoreProxy, coreVars, SessionIInv, SessionTypeOK, UiInv,
         ContextInv, HostInv
  <1>13. CASE WaitExit
    BY <1>13 DEF WaitExit, TakeExit, managerVars, callerVars, CoreTypeOK, Gens, coreVars, hostVars, sessionVars, uiVars,
       SessionIInv, SessionTypeOK, UiInv, ContextInv, HostInv, TunHeld, ProxySettingsKept
  <1>14. CASE CoreExitMsg
    BY <1>14 DEF CoreExitMsg, coreVars, hostVars, sessionVars, uiVars,
       SessionIInv, SessionTypeOK, UiInv, ContextInv, HostInv, TunHeld, ProxySettingsKept
  <1>15. CASE Background
    BY <1>15, BackgroundKeepsRunning DEF Background, coreVars, hostVars, sessionVars, uiVars,
       SessionIInv, SessionTypeOK, UiInv, ContextInv, HostInv, TunHeld, ProxySettingsKept
  <1>16. CASE UNCHANGED vars
    BY <1>16 DEF vars, coreVars, hostVars, sessionVars, uiVars,
       SessionIInv, SessionTypeOK, UiInv, ContextInv, HostInv, TunHeld, ProxySettingsKept
  <1>17. QED
    BY <1>2, <1>3, <1>4, <1>5, <1>6, <1>7, <1>8, <1>9, <1>10, <1>11, <1>12, <1>13,
       <1>14, <1>15, <1>16
    DEF Next, InUpdate

(* The inductive invariant holds in every session.                         *)
THEOREM SessionInvariance == Spec => []SessionIInv
  <1>1. SessionIInv /\ [Next]_vars => SessionIInv'
    BY SessionStep
  <1>2. QED
    BY <1>1, SessionInitial, PTL DEF Spec

(* The session's record is well formed and names every TUN device that     *)
(* exists (SessionInv), for every order of key presses, exit messages,     *)
(* failures of connect and steps of old and new supervisors.               *)
THEOREM SessionRecordCorrect == Spec => []SessionInv
  <1>1. SessionIInv => SessionInv
    BY DEF SessionIInv, SessionInv
  <1>2. QED
    BY <1>1, SessionInvariance, PTL

(* The user's proxy settings are in the registry or in prevSP, to be       *)
(* restored, as long as no Restore failed and no Enable failed between two *)
(* of its writes.                                                          *)
THEOREM ProxySettingsSafe == Spec => []ProxySettingsKept
  <1>1. SessionIInv => ProxySettingsKept
    BY DEF SessionIInv
  <1>2. QED
    BY <1>1, SessionInvariance, PTL

(* A host that was changed has a managed core whenever Update is idle.     *)
THEOREM HostHasCore == Spec => []HostNeedsCore
  <1>1. SessionIInv => HostNeedsCore
    BY DEF SessionIInv, HostInv, HostNeedsCore
  <1>2. QED
    BY <1>1, SessionInvariance, PTL
============================================================================
