---------------------------- MODULE BoundedPool ----------------------------
(***************************************************************************)
(* What a concurrency limit promises: a pool of Capacity places, each held *)
(* by at most one user, taken and given back one at a time.  The frontend  *)
(* has two of them: limits.max_connections (the `active' counter that the  *)
(* accept loop tests) and limits.max_relays (the `relaySlots' channel).    *)
(* TunnelServer is shown to implement this module twice.                   *)
(***************************************************************************)
EXTENDS Naturals, FiniteSets

CONSTANTS Users,     \* whoever may hold a place
          Capacity   \* number of places

VARIABLE held        \* the users that hold a place

Init == held = {}

Acquire(u) == /\ u \notin held
              /\ Cardinality(held) < Capacity
              /\ held' = held \cup {u}

Release(u) == /\ u \in held
              /\ held' = held \ {u}

Next == \E u \in Users : Acquire(u) \/ Release(u)

Spec == Init /\ [][Next]_held

(* The same pool when nobody keeps a place for ever.                       *)
FairSpec == Spec /\ \A u \in Users : WF_held(Release(u))

=============================================================================
