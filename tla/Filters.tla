------------------------------ MODULE Filters ------------------------------
(***************************************************************************)
(* Kathleen Nichols' windowed maximum, windowed_filter.go: the three best  *)
(* estimates of a stream of samples, each with the time it was taken.      *)
(* Both users of the filter compare for the larger sample.                 *)
(***************************************************************************)
EXTENDS Naturals

(* entry{newSample, newTime}                                               *)
Estimate(s, t) == [sample |-> s, time |-> t]

Clear == <<Estimate(0, 0), Estimate(0, 0), Estimate(0, 0)>>

Reset(s, t) == <<Estimate(s, t), Estimate(s, t), Estimate(s, t)>>

GetBest(est) == est[1].sample

(* A sample that is as good as the second or the third best replaces it    *)
(* and what is behind it.                                                  *)
Insert(est, s, t) ==
  IF s >= est[2].sample THEN <<est[1], Estimate(s, t), Estimate(s, t)>>
  ELSE IF s >= est[3].sample THEN <<est[1], est[2], Estimate(s, t)>>
  ELSE est

(* Mutant: an expired best is replaced once, whatever the age of the next. *)
PromoteOnce(est, s, t, window) == <<est[2], est[3], Estimate(s, t)>>

(* The best has expired, and perhaps the second best as well.              *)
Promote(est, s, t, window) ==
  IF t - est[2].time > window
    THEN <<est[3], Estimate(s, t), Estimate(s, t)>>
    ELSE <<est[2], est[3], Estimate(s, t)>>

(* Equal estimates are spread over the window: the second best is taken    *)
(* after its first quarter, the third after its first half.                *)
Refresh(est, s, t, window) ==
  IF est[2].sample = est[1].sample /\ t - est[2].time > window \div 4
    THEN <<est[1], Estimate(s, t), Estimate(s, t)>>
  ELSE IF est[3].sample = est[2].sample /\ t - est[3].time > window \div 2
    THEN <<est[1], est[2], Estimate(s, t)>>
  ELSE est

(* Mutant: the newest estimate is too old one moment early.                *)
IsResetEarly(est, s, t, window) ==
  est[1].sample = 0 \/ s >= est[1].sample \/ t - est[3].time >= window

(* No estimate yet, a new best, or the newest estimate is too old.         *)
IsReset(est, s, t, window) ==
  est[1].sample = 0 \/ s >= est[1].sample \/ t - est[3].time > window

Update(est, s, t, window) ==
  IF IsReset(est, s, t, window) THEN Reset(s, t)
  ELSE LET ins == Insert(est, s, t)
       IN  IF t - est[1].time > window
             THEN Promote(ins, s, t, window)
             ELSE Refresh(ins, s, t, window)

=============================================================================
