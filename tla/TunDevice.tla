----------------------------- MODULE TunDevice -----------------------------
(***************************************************************************)
(* tui/internal/tun and startTUN/stopTUN of the TUI: the wintun adapter,   *)
(* the user-space stack, the two packet pumps and the routes of the        *)
(* system.  The UI goroutine runs Create and Close command by command; any *)
(* command of either may fail, and the network may change between any two. *)
(* What a flow does is TunnelRelay, what a DNS query does DnsResolver.     *)
(***************************************************************************)
EXTENDS Naturals, Sequences, SequencesExt

CONSTANTS
  IPv4s,         \* the IPv4 addresses there may be
  Gateways,      \* the physical gateways there may be
  NoGateway,     \* physicalGateway found none
  TunProfiles,   \* profiles: configured exclusions and addresses of the server
  MaxTuns,       \* bound: calls of startTUN
  MaxRoams       \* bound: changes of the network

ASSUME NoGatewayNone == NoGateway \notin Gateways
ASSUME TunBounds == MaxTuns \in Nat /\ MaxRoams \in Nat

Halves == <<"0.0.0.0/1", "128.0.0.0/1">>

(* A prefix of the address space is no address.                            *)
ASSUME HalvesNoIPv4 == Range(Halves) \cap IPv4s = {}
ASSUME TunProfilesTyped ==
  TunProfiles \subseteq [valid : BOOLEAN, exclude : Seq(IPv4s), server : Seq(IPv4s)]

Pumps == {"reader", "writer"}
Tuns == 1..MaxTuns

VARIABLES
  tunStep,    \* what the UI goroutine does next in Create or Close
  tuns,       \* calls of startTUN so far; the last is the current device
  profile,    \* the profile of the current call
  exclude,    \* cfg.ExcludeIP
  idx,        \* index of the loop over routes
  phyGW,      \* the local variable of setupRoutes and teardownRoutes
  gateway,    \* the gateway of the default route now
  roams,      \* changes of the network so far
  roamed,     \* the network changed while Create, the device or Close was there
  routes,     \* the routes of the system, the physical default route aside
  kept,       \* history: routes that are there because a command of Close failed
  flushed,    \* history: routes the network took from the current device
  adapter,    \* the wintun adapter of each device
  cancelled,  \* d.ctx of each device is done
  pump        \* the two goroutines of each device

tunVars == <<tunStep, tuns, profile, exclude, idx, phyGW, gateway, roams, roamed,
             routes, kept, flushed, adapter, cancelled, pump>>
netVars == <<gateway, roams, roamed>>
routeVars == <<routes, kept, flushed>>
deviceVars == <<adapter, cancelled, pump>>

Route(dst, via) == [dst |-> dst, via |-> via]
ToTun == {Route(h, "tun") : h \in Range(Halves)}

TunInit ==
  /\ tunStep = "idle" /\ tuns = 0
  /\ profile \in TunProfiles /\ exclude = <<>> /\ idx = 1 /\ phyGW = NoGateway
  /\ gateway \in Gateways \cup {NoGateway}
  /\ roams = 0 /\ roamed = FALSE /\ routes = {} /\ kept = {} /\ flushed = {}
  /\ adapter = [d \in Tuns |-> "none"]
  /\ cancelled = [d \in Tuns |-> FALSE]
  /\ pump = [d \in Tuns |-> [q \in Pumps |-> "off"]]

-----------------------------------------------------------------------------
(* startTUN: the configured exclusions, then the lookup of the server's    *)
(* addresses, which may fail.                                              *)
StartTun(p) ==
  /\ tunStep = "idle" /\ tuns < MaxTuns
  /\ tuns' = tuns + 1 /\ profile' = p
  /\ exclude' = p.exclude /\ idx' = 1 /\ flushed' = {}
  /\ tunStep' \in {"idle", "exclude"}
  /\ UNCHANGED <<phyGW, netVars, routes, kept, deviceVars>>

(* The server's addresses that are not there already are added.            *)
ExcludeServer ==
  /\ tunStep = "exclude" /\ idx <= Len(profile.server) /\ idx' = idx + 1
  /\ LET ip == profile.server[idx]
     IN exclude' = IF ip \in Range(exclude) THEN exclude ELSE Append(exclude, ip)
  /\ UNCHANGED <<tunStep, tuns, profile, phyGW, netVars, routeVars, deviceVars>>

(* The part of Create before the Device exists: the validation, the        *)
(* adapter and its name.  A failure leaves nothing; the adapter whose name *)
(* is unknown is closed.                                                   *)
OpenAdapter ==
  /\ tunStep = "exclude" /\ idx > Len(profile.server)
  /\ \E a \in {"none", "closed", "open"} :
       /\ a # "none" => profile.valid
       /\ adapter' = [adapter EXCEPT ![tuns] = a]
       /\ tunStep' = IF a = "open" THEN "stack" ELSE "idle"
  /\ UNCHANGED <<tuns, profile, exclude, idx, phyGW, netVars, routeVars, cancelled, pump>>

(* Create's error path calls Close.                                        *)
Fail == tunStep' = "cancel"

(* setupStack: the pumps start at its end.                                 *)
SetupStack ==
  /\ tunStep = "stack"
  /\ \/ Fail /\ UNCHANGED pump
     \/ tunStep' = "address" /\ pump' = [pump EXCEPT ![tuns] = [q \in Pumps |-> "running"]]
  /\ UNCHANGED <<tuns, profile, exclude, idx, phyGW, netVars, routeVars, adapter, cancelled>>

(* What physicalGateway may return: the gateway of now, or none when        *)
(* "route print" fails.                                                    *)
physicalGateway == {gateway, NoGateway}

(* netsh, and the gateway through which the exclusions will go.            *)
SetAddress ==
  /\ tunStep = "address"
  /\ \/ Fail /\ UNCHANGED <<phyGW, idx>>
     \/ /\ phyGW' \in physicalGateway /\ idx' = 1
        /\ IF exclude # <<>> /\ phyGW' = NoGateway THEN Fail ELSE tunStep' = "add"
  /\ UNCHANGED <<tuns, profile, exclude, netVars, routeVars, deviceVars>>

(* Mutant: the halves of the address space come first.                     *)
routeListHalvesFirst == Halves \o exclude

(* The order of the route commands in setupRoutes.                         *)
routeList == exclude \o Halves

(* One "route add"; it fails for a route that is there.                    *)
AddRoute ==
  LET dst == routeList[idx]
      r == Route(dst, IF dst \in Range(Halves) THEN "tun" ELSE phyGW)
  IN /\ tunStep = "add" /\ idx <= Len(routeList)
     /\ \/ Fail /\ UNCHANGED <<routes, idx>>
        \/ r \notin routes /\ routes' = routes \cup {r} /\ idx' = idx + 1 /\ UNCHANGED tunStep
     /\ UNCHANGED <<tuns, profile, exclude, phyGW, netVars, kept, flushed, deviceVars>>

Created ==
  /\ tunStep = "add" /\ idx > Len(routeList)
  /\ tunStep' = "up" /\ idx' = 1
  /\ UNCHANGED <<tuns, profile, exclude, phyGW, netVars, routeVars, deviceVars>>

-----------------------------------------------------------------------------
StopTun ==
  /\ tunStep = "up" /\ tunStep' = "cancel"
  /\ UNCHANGED <<tuns, profile, exclude, idx, phyGW, netVars, routeVars, deviceVars>>

CloseCancels ==
  /\ tunStep = "cancel" /\ tunStep' = "halves" /\ idx' = 1
  /\ cancelled' = [cancelled EXCEPT ![tuns] = TRUE]
  /\ UNCHANGED <<tuns, profile, exclude, phyGW, netVars, routeVars, adapter, pump>>

(* teardownRoutes deletes a half whatever its gateway and an exclusion     *)
(* through the gateway of now, none when that is unknown.  It ignores what *)
(* its commands return and goes on: a failed one leaves its route.         *)
DeleteHalf ==
  LET here == {r \in routes : idx <= Len(Halves) /\ r.dst = Halves[idx]}
  IN /\ tunStep = "halves"
     /\ routes' \in {routes, routes \ here}
     /\ kept' = (kept \cup here) \cap routes'
     /\ IF idx <= Len(Halves)
          THEN idx' = idx + 1 /\ UNCHANGED <<tunStep, phyGW>>
          ELSE phyGW' \in physicalGateway /\ idx' = 1 /\ tunStep' = "exclusions"
     /\ UNCHANGED <<tuns, profile, exclude, netVars, flushed, deviceVars>>

DeleteExclusion ==
  LET here == {r \in routes : /\ idx <= Len(exclude) /\ r.dst = exclude[idx]
                              /\ phyGW \in {r.via, NoGateway}}
  IN /\ tunStep = "exclusions"
     /\ routes' \in {routes} \cup (IF phyGW = NoGateway THEN {} ELSE {routes \ here})
     /\ kept' = (kept \cup here) \cap routes'
     /\ IF idx <= Len(exclude) THEN idx' = idx + 1 /\ UNCHANGED tunStep
                               ELSE tunStep' = "device" /\ UNCHANGED idx
     /\ UNCHANGED <<tuns, profile, exclude, phyGW, netVars, flushed, deviceVars>>

(* Mutant: the adapter is not closed.                                      *)
CloseDeviceForgotten ==
  /\ tunStep = "device" /\ tunStep' = "idle"
  /\ UNCHANGED <<tuns, profile, exclude, idx, phyGW, netVars, routeVars, deviceVars>>

(* The address of the adapter, the stack, then the adapter itself, and the *)
(* Device is given up with what it held.  A half that is left may go with  *)
(* its adapter: that is up to the system.                                  *)
CloseDevice ==
  /\ tunStep = "device" /\ tunStep' = "idle"
  /\ adapter' = [adapter EXCEPT ![tuns] = "closed"]
  /\ routes' \in {routes, routes \ ToTun} /\ kept' = kept \cap routes'
  /\ exclude' = <<>> /\ idx' = 1 /\ phyGW' = NoGateway /\ flushed' = {}
  /\ UNCHANGED <<tuns, profile, netVars, cancelled, pump>>

-----------------------------------------------------------------------------
(* A pump ends on an error of its adapter, at the latest when that is      *)
(* closed; the writer also when d.ctx is done.                             *)
PumpEnds(d, q) ==
  /\ pump[d][q] = "running"
  /\ pump' = [pump EXCEPT ![d][q] = "gone"]
  /\ UNCHANGED <<tunStep, tuns, profile, exclude, idx, phyGW, netVars, routeVars, adapter, cancelled>>

(* The default route gets another gateway, or none; the routes through the *)
(* old one go with it when its interface went down.                        *)
Roam(g) ==
  /\ roams < MaxRoams /\ g # gateway
  /\ gateway' = g /\ roams' = roams + 1 /\ roamed' = (roamed \/ tunStep \notin {"idle", "exclude"})
  /\ routes' \in {routes, {r \in routes : r.via # gateway}}
  /\ kept' = kept \cap routes' /\ flushed' = flushed \cup (routes \ routes')
  /\ UNCHANGED <<tunStep, tuns, profile, exclude, idx, phyGW, deviceVars>>

-----------------------------------------------------------------------------
CreateStep == ExcludeServer \/ OpenAdapter \/ SetupStack \/ SetAddress \/ AddRoute \/ Created
CloseStep == CloseCancels \/ DeleteHalf \/ DeleteExclusion \/ CloseDevice

TunNext ==
  \/ \E p \in TunProfiles : StartTun(p)
  \/ CreateStep \/ StopTun \/ CloseStep
  \/ \E d \in Tuns, q \in Pumps : PumpEnds(d, q)
  \/ \E g \in Gateways \cup {NoGateway} : Roam(g)

(* A call goes on until it returns; a blocked Read returns when its        *)
(* adapter is closed, ReadContext when its context is done.                *)
TunFairness ==
  /\ WF_tunVars(CreateStep \/ CloseStep)
  /\ \A d \in Tuns : /\ WF_tunVars(adapter[d] = "closed" /\ PumpEnds(d, "reader"))
                     /\ WF_tunVars(cancelled[d] /\ PumpEnds(d, "writer"))

TunSpec == TunInit /\ [][TunNext]_tunVars /\ TunFairness

-----------------------------------------------------------------------------
(* Correctness                                                             *)

(* Every variable has its type.                                            *)
TunTypeOK ==
  /\ tunStep \in {"idle", "exclude", "stack", "address", "add", "up", "cancel", "halves",
                  "exclusions", "device"}
  /\ tuns \in 0..MaxTuns /\ roams \in 0..MaxRoams /\ profile \in TunProfiles
  /\ exclude \in Seq(IPv4s) /\ idx \in Nat \ {0}
  /\ routes \cup flushed \subseteq ToTun \cup {Route(a, g) : a \in IPv4s, g \in Gateways}
  /\ kept \subseteq routes
  /\ {gateway, phyGW} \subseteq Gateways \cup {NoGateway} /\ roamed \in BOOLEAN
  /\ adapter \in [Tuns -> {"none", "open", "closed"}]
  /\ cancelled \in [Tuns -> BOOLEAN]
  /\ pump \in [Tuns -> [Pumps -> {"off", "running", "gone"}]]

(* While any half of the address space goes into the device, every address *)
(* of the server has its own route around it, whatever command of Create   *)
(* or Close fails and although the network changes: a tunnel is sent into  *)
(* itself only by a half whose delete failed or by a network that took the *)
(* server's route away, never by the order of setupRoutes and              *)
(* teardownRoutes.                                                         *)
NoLoop ==
  (routes \cap ToTun) \ kept # {} =>
    \A ip \in Range(profile.server) : \E g \in Gateways : Route(ip, g) \in routes \cup flushed

(* After Close, and after a Create that failed at any command, no adapter  *)
(* is open, and a half of the address space, or while the network stayed   *)
(* the same any route at all, is left only if the command of Close that    *)
(* should have removed it failed or had no gateway to name.                *)
ClosedLeavesNothing ==
  tunStep = "idle" =>
    /\ routes \cap ToTun \subseteq kept
    /\ \A d \in Tuns : adapter[d] # "open"
    /\ ~roamed => routes \subseteq kept

(* The routes of Create and Close: no loop, and nothing but what a failed  *)
(* command left.                                                           *)
TunRoutes == NoLoop /\ ClosedLeavesNothing

(* Once Close has begun it ends with the adapter closed and both pumps     *)
(* gone, also when Create called it before the pumps were started.         *)
TunEnds ==
  []<>(\A d \in Tuns : cancelled[d] => /\ adapter[d] = "closed"
                                       /\ \A q \in Pumps : pump[d][q] # "running")

=============================================================================
