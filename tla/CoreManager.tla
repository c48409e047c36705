---------------------------- MODULE CoreManager ----------------------------
(***************************************************************************)
(* tui/internal/coremgr: the Manager that keeps the client core (a naive   *)
(* process) running.  Start registers a new generation and leaves its      *)
(* supervisor goroutine behind, which launches the process, waits for it   *)
(* and launches it again after a backoff.  Stop moves on to the next       *)
(* generation and kills the process it finds.  The supervisor of an older  *)
(* generation may still be anywhere in its loop then.                      *)
(*                                                                         *)
(* The caller is one goroutine, Bubble Tea's Update.  Every step below is  *)
(* one critical section of Manager.mu or one call between two of them.     *)
(***************************************************************************)
EXTENDS Naturals, Sequences

CONSTANTS
  Profiles,  \* what Start may be asked to run
  None,      \* no profile
  MaxGen,    \* bound: generations, two for each connect and disconnect
  ExitCap,   \* capacity of Manager.Exits
  Cancels    \* does the caller cancel the context before Stop?  subset of BOOLEAN

ASSUME MaxGenNat == MaxGen \in Nat
ASSUME ExitCapNat == ExitCap \in Nat
ASSUME NoneNoProfile == None \notin Profiles
ASSUME CancelsBoolean == Cancels \subseteq BOOLEAN

Gens == 1..MaxGen

VARIABLES
  running, generation,  \* Manager.running, Manager.generation
  cmd,       \* the generation that made Manager.cmd, 0 for nil
  call,      \* where the caller is in Start or Stop
  asked,     \* the profile Start is called with
  victim,    \* Stop's copy of Manager.cmd
  last,      \* the generation of the latest Start
  file,      \* core-config.json
  sup,       \* the supervisor goroutine of each generation
  proc,      \* cmd.Process of each generation: "nil" before it starts
  ctx,       \* is the context of a generation cancelled?
  want, has, \* the profile a generation was started for, the one its process read
  exits      \* Manager.Exits, by the generation that sent the reason

managerVars == <<running, generation, cmd>>
callerVars == <<call, asked, victim, last, file>>
coreVars == <<running, generation, cmd, call, asked, victim, last, file, sup, proc,
              ctx, want, has, exits>>

CoreInit ==
  /\ running = FALSE /\ generation = 0 /\ cmd = 0
  /\ call = "idle" /\ asked = None /\ victim = 0 /\ last = 0 /\ file = None
  /\ sup = [g \in Gens |-> "none"]
  /\ proc = [g \in Gens |-> "nil"]
  /\ ctx = [g \in Gens |-> FALSE]
  /\ want = [g \in Gens |-> None]
  /\ has = [g \in Gens |-> None]
  /\ exits = <<>>

-----------------------------------------------------------------------------
(* Start                                                                   *)

(* The first test of running; a refusal changes nothing.                   *)
StartCheck(p) ==
  /\ call = "idle" /\ generation < MaxGen
  /\ ~running
  /\ call' = "write" /\ asked' = p
  /\ UNCHANGED <<managerVars, victim, last, file, sup, proc, ctx, want, has, exits>>

(* core-config.json is replaced by a rename; on an error Start returns.    *)
WriteConfig ==
  /\ call = "write"
  /\ \/ call' = "register" /\ file' = asked
     \/ call' = "idle" /\ UNCHANGED file
  /\ UNCHANGED <<managerVars, asked, victim, last, sup, proc, ctx, want, has, exits>>

(* The second critical section: test again, take a generation, spawn.      *)
Register ==
  /\ call = "register" /\ call' = "idle"
  /\ IF running
       THEN UNCHANGED <<running, generation, sup, want, last>>
       ELSE /\ running' = TRUE
            /\ generation' = generation + 1
            /\ sup' = [sup EXCEPT ![generation'] = "loop"]
            /\ want' = [want EXCEPT ![generation'] = asked]
            /\ last' = generation'
  /\ UNCHANGED <<cmd, asked, victim, file, proc, ctx, has, exits>>

-----------------------------------------------------------------------------
(* Stop.  disconnect cancels the context first; connect, when the local    *)
(* entry cannot listen, does not.                                          *)

Cancel(g) ==
  /\ call = "idle"
  /\ ctx' = IF g = 0 THEN ctx ELSE [ctx EXCEPT ![g] = TRUE]
  /\ call' = "stop"
  /\ UNCHANGED <<managerVars, asked, victim, last, file, sup, proc, want, has, exits>>

StopLock ==
  /\ running' = FALSE
  /\ generation' = generation + 1
  /\ victim' = cmd
  /\ call' = "kill"
  /\ UNCHANGED <<cmd, asked, last, file, sup, proc, ctx, want, has, exits>>

(* cmd.Process is read and killed outside the lock.                        *)
StopKill ==
  /\ call = "kill" /\ call' = "idle"
  /\ victim' = 0
  /\ proc' = IF victim # 0 /\ proc[victim] = "alive"
               THEN [proc EXCEPT ![victim] = "dead"] ELSE proc
  /\ UNCHANGED <<managerVars, asked, last, file, sup, ctx, want, has, exits>>

-----------------------------------------------------------------------------
(* The supervisor of generation g                                          *)

Current(g) == running /\ generation = g

(* Leave when stopped or replaced, otherwise make the next cmd.            *)
Loop(g) ==
  /\ sup[g] = "loop"
  /\ IF Current(g)
       THEN /\ cmd' = g
            /\ proc' = [proc EXCEPT ![g] = "nil"]
            /\ sup' = [sup EXCEPT ![g] = "made"]
       ELSE sup' = [sup EXCEPT ![g] = "return"] /\ UNCHANGED <<cmd, proc>>
  /\ UNCHANGED <<running, generation, callerVars, ctx, want, has, exits>>

(* Mutant: exec.Command, which knows nothing of the context.               *)
LaunchPlain(g) ==
  /\ sup[g] = "made"
  /\ sup' = [sup EXCEPT ![g] = "starting"]
  /\ UNCHANGED <<managerVars, callerVars, proc, ctx, want, has, exits>>

(* cmd.Run first tests the context; whatever it finds may have changed     *)
(* when it gets to the next step.                                          *)
Launch(g) ==
  /\ sup[g] = "made"
  /\ sup' = [sup EXCEPT ![g] = IF ctx[g] THEN "exited" ELSE "starting"]
  /\ UNCHANGED <<managerVars, callerVars, proc, ctx, want, has, exits>>

(* Only then is the process created, and cmd.Process set; it may fail.     *)
StartProcess(g) ==
  /\ sup[g] = "starting"
  /\ \/ /\ sup' = [sup EXCEPT ![g] = "waiting"]
        /\ proc' = [proc EXCEPT ![g] = "alive"]
        /\ has' = [has EXCEPT ![g] = file]
     \/ sup' = [sup EXCEPT ![g] = "exited"] /\ UNCHANGED <<proc, has>>
  /\ UNCHANGED <<managerVars, callerVars, ctx, want, exits>>

(* The process ends by itself, or CommandContext kills it.                 *)
CoreDies(g) ==
  /\ proc[g] = "alive"
  /\ proc' = [proc EXCEPT ![g] = "dead"]
  /\ UNCHANGED <<managerVars, callerVars, sup, ctx, want, has, exits>>

ContextKills(g) ==
  /\ ctx[g]
  /\ CoreDies(g)

RunReturns(g) ==
  /\ sup[g] = "waiting" /\ proc[g] = "dead"
  /\ sup' = [sup EXCEPT ![g] = "exited"]
  /\ UNCHANGED <<managerVars, callerVars, proc, ctx, want, has, exits>>

AfterRun(g) ==
  /\ sup[g] = "exited"
  /\ cmd' = IF generation = g THEN 0 ELSE cmd
  /\ sup' = [sup EXCEPT ![g] = IF Current(g) THEN "report" ELSE "return"]
  /\ UNCHANGED <<running, generation, callerVars, proc, ctx, want, has, exits>>

(* Mutant: the send to Exits blocks when the channel is full.              *)
ReportBlocking(g) ==
  /\ sup[g] = "report" /\ Len(exits) < ExitCap
  /\ exits' = Append(exits, g)
  /\ sup' = [sup EXCEPT ![g] = "backoff"]
  /\ UNCHANGED <<managerVars, callerVars, proc, ctx, want, has>>

(* The reason goes to Exits when there is room.                            *)
Report(g) ==
  /\ sup[g] = "report"
  /\ IF ctx[g]
       THEN sup' = [sup EXCEPT ![g] = "return"] /\ UNCHANGED exits
       ELSE /\ sup' = [sup EXCEPT ![g] = "backoff"]
            /\ exits' = IF Len(exits) < ExitCap THEN Append(exits, g) ELSE exits
  /\ UNCHANGED <<managerVars, callerVars, proc, ctx, want, has>>

(* Mutant: only the context ends the wait.                                 *)
BackoffUntimed(g) ==
  /\ sup[g] = "backoff"
  /\ ctx[g] /\ sup' = [sup EXCEPT ![g] = "return"]
  /\ UNCHANGED <<managerVars, callerVars, proc, ctx, want, has, exits>>

(* Either of the timer and the context.                                    *)
Backoff(g) ==
  /\ sup[g] = "backoff"
  /\ \/ sup' = [sup EXCEPT ![g] = "loop"]
     \/ ctx[g] /\ sup' = [sup EXCEPT ![g] = "return"]
  /\ UNCHANGED <<managerVars, callerVars, proc, ctx, want, has, exits>>

(* Mutant: the deferred function does not compare generations.             *)
DeferredAnyGeneration(g) ==
  /\ sup[g] = "return"
  /\ sup' = [sup EXCEPT ![g] = "gone"]
  /\ running' = FALSE /\ cmd' = 0
  /\ UNCHANGED <<generation, callerVars, proc, ctx, want, has, exits>>

Deferred(g) ==
  /\ sup[g] = "return"
  /\ sup' = [sup EXCEPT ![g] = "gone"]
  /\ IF generation = g THEN running' = FALSE /\ cmd' = 0 ELSE UNCHANGED <<running, cmd>>
  /\ UNCHANGED <<generation, callerVars, proc, ctx, want, has, exits>>

Supervise(g) ==
  Loop(g) \/ Launch(g) \/ StartProcess(g) \/ RunReturns(g) \/ AfterRun(g)
    \/ Report(g) \/ Backoff(g) \/ Deferred(g)

(* The TUI's waitExit receives.                                            *)
TakeExit ==
  /\ exits # <<>>
  /\ exits' = Tail(exits)
  /\ UNCHANGED <<managerVars, callerVars, sup, proc, ctx, want, has>>

-----------------------------------------------------------------------------
CallStart == \E p \in Profiles : StartCheck(p)
CallStop ==
  /\ generation < MaxGen
  /\ \/ TRUE \in Cancels /\ Cancel(last)
     \/ call = "stop" /\ StopLock
     \/ FALSE \in Cancels /\ call = "idle" /\ StopLock
InCall == WriteConfig \/ Register \/ StopKill

CoreNext ==
  \/ CallStart \/ CallStop \/ InCall \/ TakeExit
  \/ \E g \in Gens : Supervise(g) \/ CoreDies(g) \/ ContextKills(g)

CoreSpec == CoreInit /\ [][CoreNext]_coreVars

(* Goroutines are scheduled, a cancelled context does its kill, the caller *)
(* finishes a call it is in.  A process need not end by itself.            *)
CoreFairness ==
  /\ WF_coreVars(InCall)
  /\ WF_coreVars(call = "stop" /\ CallStop)
  /\ \A g \in Gens : WF_coreVars(Supervise(g)) /\ WF_coreVars(ContextKills(g))

CoreFairSpec == CoreSpec /\ CoreFairness

-----------------------------------------------------------------------------
(* Correctness                                                             *)

SupStates == {"none", "loop", "made", "starting", "waiting", "exited", "report",
              "backoff", "return", "gone"}

(* Every variable has its type; Exits never exceeds its capacity.          *)
CoreTypeOK ==
  /\ running \in BOOLEAN /\ generation \in 0..MaxGen /\ cmd \in 0..MaxGen
  /\ call \in {"idle", "write", "register", "stop", "kill"}
  /\ asked \in Profiles \cup {None} /\ file \in Profiles \cup {None}
  /\ victim \in 0..MaxGen /\ last \in 0..MaxGen
  /\ sup \in [Gens -> SupStates]
  /\ proc \in [Gens -> {"nil", "alive", "dead"}]
  /\ ctx \in [Gens -> BOOLEAN]
  /\ want \in [Gens -> Profiles \cup {None}]
  /\ has \in [Gens -> Profiles \cup {None}]
  /\ exits \in Seq(Gens) /\ Len(exits) <= ExitCap

Supervised(g) == sup[g] \notin {"none", "gone"}

(* Manager.running is exact: a flag left TRUE would refuse every later     *)
(* Start, one left FALSE would let a second core be started beside the     *)
(* first.  Only the supervisor of the current generation may touch it.     *)
RunningExact == running <=> (generation # 0 /\ Supervised(generation))

(* Whatever process the current generation runs is the one Stop will find  *)
(* in Manager.cmd.                                                         *)
StopFindsCore ==
  \A g \in Gens : (g = generation /\ proc[g] = "alive") => cmd = g

(* A supervisor may have made its cmd before Stop and run it after: what   *)
(* the comment on CommandContext in Start is about.  No such Run gets past *)
(* the test of its context, and a process that is created too late, by one *)
(* that had passed it, has a cancelled context already, so that the watch  *)
(* CommandContext keeps on it kills it (StoppedEnds).                      *)
LateTest(g) == sup[g] = "made" /\ sup'[g] = "starting" /\ g # generation
LateLaunch(g) == proc[g] # "alive" /\ proc'[g] = "alive" /\ g # generation
LateCoreDoomed ==
  [][\A g \in Gens : ~LateTest(g) /\ (LateLaunch(g) => ctx[g])]_coreVars

(* The current core runs on the configuration Start was given, although    *)
(* every generation uses the same file.                                    *)
CoreRunsItsProfile ==
  \A g \in Gens : (g = generation /\ proc[g] = "alive") => has[g] = want[g]

(* Every generation that was left ends, its process and its supervisor:    *)
(* again and again there is nothing alive but the current one.             *)
StoppedEnds ==
  []<>(\A g \in Gens : (generation > g) => (proc[g] # "alive" /\ ~Supervised(g)))

(* A core that dies while nobody stops it is started again, however many   *)
(* exit reasons wait unread: no current generation stays between the end   *)
(* of one process and the making of the next.                              *)
Restarting(g) ==
  Current(g) /\ ~ctx[g] /\ sup[g] \in {"exited", "report", "backoff", "loop"}
CrashRestarts == []<>(\A g \in Gens : ~Restarting(g))

(* What the comment on Stop says: once Stop has returned, no core of a     *)
(* generation it ended is alive.                                           *)
StopTerminates ==
  call = "idle" => \A g \in Gens : (generation > g) => proc[g] # "alive"

(* The bookkeeping of the generations: however old supervisors overlap     *)
(* with the current one, running, cmd and the configuration file are the   *)
(* current generation's.                                                   *)
CoreInv == CoreTypeOK /\ RunningExact /\ StopFindsCore /\ CoreRunsItsProfile

=============================================================================
