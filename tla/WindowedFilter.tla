-------------------------- MODULE WindowedFilter --------------------------
(***************************************************************************)
(* The filter of Filters.tla fed with a stream of samples whose time never *)
(* goes back, as BBR does with the bandwidth of each round trip.           *)
(***************************************************************************)
EXTENDS Filters

CONSTANTS
  Window,     \* windowLength
  MaxSample,  \* bound: samples are 0..MaxSample
  MaxTime     \* bound: the time of the last sample

ASSUME WindowNat == Window \in Nat
ASSUME MaxSampleNat == MaxSample \in Nat
ASSUME MaxTimeNat == MaxTime \in Nat

Samples == 0..MaxSample
Times == 0..MaxTime

VARIABLES
  est,     \* WindowedFilter.estimates
  now,     \* the time of the newest sample
  history  \* the largest sample of each time since that of the best estimate

filterVars == <<est, now, history>>

(* history, for the properties only, after a sample s of time t: what is   *)
(* older than the best estimate is forgotten.                              *)
Record(s, t) ==
  history' = [u \in Times |-> IF u < est'[1].time THEN 0
                              ELSE IF u = t /\ s > history[u] THEN s
                              ELSE history[u]]

FilterInit ==
  /\ est = Clear
  /\ now = 0
  /\ history = [t \in Times |-> 0]

UpdateFilter(s, t) ==
  /\ t >= now
  /\ now' = t
  /\ est' = Update(est, s, t, Window)
  /\ Record(s, t)

ResetFilter(s, t) ==
  /\ t >= now
  /\ now' = t
  /\ est' = Reset(s, t)
  /\ history' = [u \in Times |-> IF u = t THEN s ELSE 0]

ClearFilter ==
  /\ est' = Clear
  /\ history' = [t \in Times |-> 0]
  /\ now' = now

FilterNext ==
  \/ \E s \in Samples, t \in Times : UpdateFilter(s, t) \/ ResetFilter(s, t)
  \/ ClearFilter

FilterSpec == FilterInit /\ [][FilterNext]_filterVars

-----------------------------------------------------------------------------
(* Every variable has its type.                                            *)
TypeOK ==
  /\ est \in [1..3 -> [sample : Samples, time : Times]]
  /\ now \in Times
  /\ history \in [Times -> Samples]

(* The invariant the comment of the file claims: a better estimate is an   *)
(* older one.  Promotion relies on it.                                     *)
Ordered ==
  /\ est[1].sample >= est[2].sample /\ est[2].sample >= est[3].sample
  /\ est[1].time <= est[2].time /\ est[2].time <= est[3].time /\ est[3].time <= now

(* What GetBest returns was measured within the window, also when the best *)
(* and the second best expire at the same sample.                          *)
BestFresh == est # Clear => now - est[1].time <= Window

(* The best dominates everything measured after it, and so do the second   *)
(* and the third: no sample is lost that should have replaced an estimate. *)
Dominates ==
  \A i \in 1..3, t \in Times :
    (est[i].time < t \/ (t = now /\ i = 1)) => history[t] <= est[i].sample

(* Nothing is recorded for a time that has not come.                       *)
NoFuture == \A u \in Times : u > now => history[u] = 0

(* The inductive invariant: order, freshness and domination hold only      *)
(* together, since an estimate is promoted to best as it stands.           *)
FilterInv == TypeOK /\ Ordered /\ BestFresh /\ Dominates /\ NoFuture

(* The estimate falls only when the best has been outside the window: a    *)
(* run of low samples does not take it down early.                         *)
BestKept ==
  [][\A s \in Samples, t \in Times :
       UpdateFilter(s, t) /\ est'[1].sample < est[1].sample
         => t - est[1].time > Window]_filterVars

=============================================================================
