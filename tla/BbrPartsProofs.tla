--------------------------- MODULE BbrPartsProofs ---------------------------
(***************************************************************************)
(* The windowed filter, the ring buffer, the packet number queue, the ack  *)
(* height tracker and the pacer, for every value of their constants.       *)
(*                                                                         *)
(* The filter keeps its order and its freshness for every window length,   *)
(* every set of sample values and every length of time, and no sample that *)
(* should have replaced an estimate is lost.  The properties hold only     *)
(* together: a promoted estimate is fresh because the third is the newest  *)
(* (Ordered), and it dominates what was measured since because it is older *)
(* than the sample that promotes it, which BestFresh gives.                *)
(*                                                                         *)
(* The ring buffer is a first-in first-out queue and the packet number     *)
(* queue a map: each has an inductive invariant over its fields, lemmas    *)
(* about what an operation does to such a value, and one step per action   *)
(* that maps it to a step of the abstract specification.                   *)
(*                                                                         *)
(* The heights of the tracker are those the current bandwidth leaves       *)
(* unexplained: a lower bandwidth explains less, and a higher one always   *)
(* finds the filter rebuilt.                                               *)
(*                                                                         *)
(* What the pacer let through ahead of the highest rate and the budget it  *)
(* still has make up one burst: a paced packet moves its size from one to  *)
(* the other, and time drains the first faster than it fills the second.   *)
(***************************************************************************)
EXTENDS MCBbrParts, SequenceTheorems, FiniteSetTheorems, WellFoundedInduction, TLAPS

(* An estimate is a record of a sample and a time.                         *)
LEMMA EstimateType ==
  ASSUME NEW s \in Samples, NEW t \in Times
  PROVE  /\ Estimate(s, t) \in [sample : Samples, time : Times]
         /\ Estimate(s, t).sample = s
         /\ Estimate(s, t).time = t
  BY DEF Estimate

(* Three estimates make a filter.                                          *)
LEMMA TripleType ==
  ASSUME NEW S, NEW a \in S, NEW b \in S, NEW c \in S
  PROVE  /\ <<a, b, c>> \in [1..3 -> S]
         /\ <<a, b, c>>[1] = a
         /\ <<a, b, c>>[2] = b
         /\ <<a, b, c>>[3] = c
  OBVIOUS

(* What Update makes of a filter e: the three estimates stay typed and in  *)
(* order, the best is within the window, it is lower than before only if   *)
(* the old one had expired, and every estimate is the new sample or an old *)
(* one that is not below it.                                               *)
Updated(e, s, t) ==
  /\ e \in [1..3 -> [sample : Samples, time : Times]]
  /\ e[1].sample >= e[2].sample /\ e[2].sample >= e[3].sample
  /\ e[1].time <= e[2].time /\ e[2].time <= e[3].time /\ e[3].time <= t
  /\ t - e[1].time <= Window
  /\ e[1].sample < est[1].sample => t - est[1].time > Window
  /\ \A k \in 1..3 :
       \/ e[k] = Estimate(s, t)
       \/ \E j \in 1..3 : /\ e[k] = est[j] /\ est[j].sample >= s
                          /\ k = 1 /\ j # 1 => t > now
  /\ e[1] = Estimate(s, t) => IsReset(est, s, t, Window) \/ t > now

(* Update does that with a sample not older than the newest estimate.      *)
LEMMA UpdateFacts ==
  ASSUME TypeOK, Ordered, BestFresh, NEW s \in Samples, NEW t \in Times, t >= now
  PROVE  Updated(Update(est, s, t, Window), s, t)
<1> DEFINE e == Update(est, s, t, Window)
<1> SUFFICES Updated(e, s, t)
  OBVIOUS
<1> DEFINE E == [sample : Samples, time : Times]
           n == Estimate(s, t)
<1>1. /\ est[1] \in E /\ est[2] \in E /\ est[3] \in E
      /\ n \in E /\ n.sample = s /\ n.time = t
  BY EstimateType DEF TypeOK
<1>2. \A x \in E : x.sample \in Nat /\ x.time \in Nat
  BY MaxSampleNat, MaxTimeNat DEF Samples, Times
<1>3. s \in Nat /\ t \in Nat /\ now \in Nat /\ Window \in Nat
  BY MaxSampleNat, MaxTimeNat, WindowNat DEF Samples, Times, TypeOK
<1>4. CASE IsReset(est, s, t, Window)
  <2>1. e = <<n, n, n>>
    BY <1>4 DEF Update, Reset
  <2>2. e \in [1..3 -> E] /\ e[1] = n /\ e[2] = n /\ e[3] = n
    BY <1>1, <2>1, TripleType
  <2> QED
    BY <1>1, <1>2, <1>3, <1>4, <2>2 DEF IsReset, Ordered, Updated
<1>5. CASE ~IsReset(est, s, t, Window)
  <2> DEFINE i == Insert(est, s, t)
  <2>1. /\ i \in [1..3 -> E] /\ i[1] = est[1]
        /\ i[1].sample >= i[2].sample /\ i[2].sample >= i[3].sample
        /\ i[1].time <= i[2].time /\ i[2].time <= i[3].time /\ i[3].time <= t
        /\ t - i[3].time <= Window /\ i[3].sample >= s
        /\ i[2] = n \/ i[2] = est[2]
        /\ i[3] = n \/ i[3] = est[3]
    <3>1. CASE s >= est[2].sample
      <4>1. i = <<est[1], n, n>>
        BY <3>1 DEF Insert
      <4>2. i \in [1..3 -> E] /\ i[1] = est[1] /\ i[2] = n /\ i[3] = n
        BY <1>1, <4>1, TripleType
      <4> QED
        BY <1>1, <1>2, <1>3, <1>5, <4>2 DEF IsReset, Ordered
    <3>2. CASE ~(s >= est[2].sample) /\ s >= est[3].sample
      <4>1. i = <<est[1], est[2], n>>
        BY <3>2 DEF Insert
      <4>2. i \in [1..3 -> E] /\ i[1] = est[1] /\ i[2] = est[2] /\ i[3] = n
        BY <1>1, <4>1, TripleType
      <4> QED
        BY <1>1, <1>2, <1>3, <1>5, <3>2, <4>2 DEF IsReset, Ordered
    <3>3. CASE ~(s >= est[2].sample) /\ ~(s >= est[3].sample)
      <4>1. i = est
        BY <3>3 DEF Insert
      <4> QED
        BY <1>1, <1>2, <1>3, <1>5, <3>3, <4>1 DEF IsReset, Ordered, TypeOK
    <3> QED
      BY <3>1, <3>2, <3>3
  <2>2. i[1] \in E /\ i[2] \in E /\ i[3] \in E
    BY <2>1
  <2> HIDE DEF i
  <2>3. CASE t - est[1].time > Window
    <3>0. t > now
      <4>1. est # Clear
        BY <1>5 DEF IsReset, Clear, Estimate
      <4> QED
        BY <1>1, <1>2, <1>3, <2>3, <4>1 DEF BestFresh
    <3>1. e = Promote(i, s, t, Window)
      BY <1>5, <2>3 DEF Update, i
    <3>2. CASE t - i[2].time > Window
      <4>1. e = <<i[3], n, n>>
        BY <3>1, <3>2 DEF Promote
      <4>2. e \in [1..3 -> E] /\ e[1] = i[3] /\ e[2] = n /\ e[3] = n
        BY <1>1, <2>2, <4>1, TripleType
      <4> QED
        BY <1>1, <1>2, <1>3, <2>1, <2>2, <2>3, <3>0, <4>2 DEF Updated
    <3>3. CASE ~(t - i[2].time > Window)
      <4>1. e = <<i[2], i[3], n>>
        BY <3>1, <3>3 DEF Promote
      <4>2. e \in [1..3 -> E] /\ e[1] = i[2] /\ e[2] = i[3] /\ e[3] = n
        BY <1>1, <2>2, <4>1, TripleType
      <4> QED
        BY <1>1, <1>2, <1>3, <2>1, <2>2, <2>3, <3>0, <3>3, <4>2 DEF Updated
    <3> QED
      BY <3>2, <3>3
  <2>4. CASE ~(t - est[1].time > Window)
    <3>1. e = Refresh(i, s, t, Window)
      BY <1>5, <2>4 DEF Update, i
    <3>2. CASE e = <<i[1], n, n>>
      <4>1. e \in [1..3 -> E] /\ e[1] = i[1] /\ e[2] = n /\ e[3] = n
        BY <1>1, <2>2, <3>2, TripleType
      <4> QED
        BY <1>1, <1>2, <1>3, <1>5, <2>1, <2>2, <2>4, <4>1 DEF IsReset, Updated
    <3>3. CASE e = <<i[1], i[2], n>>
      <4>1. e \in [1..3 -> E] /\ e[1] = i[1] /\ e[2] = i[2] /\ e[3] = n
        BY <1>1, <2>2, <3>3, TripleType
      <4> QED
        BY <1>1, <1>2, <1>3, <1>5, <2>1, <2>2, <2>4, <4>1 DEF IsReset, Updated
    <3>4. CASE e = i
      BY <1>1, <1>2, <1>3, <1>5, <2>1, <2>2, <2>4, <3>4 DEF IsReset, Updated
    <3> QED
      BY <3>1, <3>2, <3>3, <3>4 DEF Refresh
  <2> QED
    BY <2>3, <2>4
<1> QED
  BY <1>4, <1>5

(* The filter starts in its invariant.                                     *)
LEMMA InitFilter == FilterInit => FilterInv
<1> SUFFICES ASSUME FilterInit PROVE FilterInv
  OBVIOUS
<1>1. 0 \in Samples /\ 0 \in Times
  BY MaxSampleNat, MaxTimeNat DEF Samples, Times
<1> DEFINE z == Estimate(0, 0)
<1>2. z \in [sample : Samples, time : Times] /\ z.sample = 0 /\ z.time = 0
  BY <1>1, EstimateType
<1>3. /\ est \in [1..3 -> [sample : Samples, time : Times]]
      /\ est[1] = z /\ est[2] = z /\ est[3] = z
  BY <1>2, TripleType DEF FilterInit, Clear
<1> QED
  BY <1>1, <1>2, <1>3, WindowNat
  DEF FilterInit, FilterInv, TypeOK, Ordered, BestFresh, Dominates, NoFuture, Samples, Times

(* Every step keeps it.                                                    *)
LEMMA StepFilter == FilterInv /\ [FilterNext]_filterVars => FilterInv'
<1> SUFFICES ASSUME FilterInv, [FilterNext]_filterVars PROVE FilterInv'
  OBVIOUS
<1> USE DEF FilterInv
<1>0. /\ \A x \in Samples : x \in Nat
      /\ \A x \in Times : x \in Nat
      /\ Window \in Nat /\ now \in Times /\ 0 \in Samples /\ 0 \in Times
  BY MaxSampleNat, MaxTimeNat, WindowNat DEF Samples, Times, TypeOK
<1>1. ASSUME NEW s \in Samples, NEW t \in Times, UpdateFilter(s, t)
      PROVE  FilterInv'
  <2> DEFINE n == Estimate(s, t)
  <2>1. t >= now /\ now' = t /\ est' = Update(est, s, t, Window)
    BY <1>1 DEF UpdateFilter
  <2>a. TypeOK /\ Ordered /\ BestFresh
    OBVIOUS
  <2>b. Updated(est', s, t)
    BY <2>1, <2>a, UpdateFacts, Zenon
  <2>2. /\ est' \in [1..3 -> [sample : Samples, time : Times]]
        /\ est'[1].sample >= est'[2].sample /\ est'[2].sample >= est'[3].sample
        /\ est'[1].time <= est'[2].time /\ est'[2].time <= est'[3].time /\ est'[3].time <= t
        /\ t - est'[1].time <= Window
        /\ \A k \in 1..3 :
             \/ est'[k] = n
             \/ \E j \in 1..3 : /\ est'[k] = est[j] /\ est[j].sample >= s
                                /\ k = 1 /\ j # 1 => t > now
        /\ est'[1] = n => IsReset(est, s, t, Window) \/ t > now
    BY <2>b DEF Updated
  <2>3. n.sample = s /\ n.time = t
    BY EstimateType
  <2>4. \A u \in Times : history'[u] = IF u < est'[1].time THEN 0
                                       ELSE IF u = t /\ s > history[u] THEN s
                                       ELSE history[u]
    BY <1>1 DEF UpdateFilter, Record
  <2>5. TypeOK' /\ Ordered' /\ BestFresh'
    BY <1>0, <1>1, <2>1, <2>2 DEF TypeOK, Ordered, BestFresh, UpdateFilter, Record
  <2>6. NoFuture'
    BY <1>0, <2>1, <2>4 DEF NoFuture
  <2>7. Dominates'
    <3> SUFFICES ASSUME NEW i \in 1..3, NEW u \in Times,
                        est'[i].time < u \/ (u = t /\ i = 1)
                 PROVE  history'[u] <= est'[i].sample
      BY <2>1 DEF Dominates
    <3>1. /\ est'[i].time \in Nat /\ est'[i].sample \in Nat /\ u \in Nat
          /\ t \in Nat /\ s \in Nat /\ now \in Nat /\ history[u] \in Nat
          /\ est'[1].time \in Nat /\ est[1].time \in Nat /\ est[1].sample \in Nat
          /\ est[2].time \in Nat /\ est[3].time \in Nat
      BY <1>0, <2>2 DEF TypeOK
    <3>2. CASE est'[i] = n
      <4>1. CASE u > t
        BY <2>1, <2>4, <3>1, <4>1 DEF NoFuture
      <4>2. CASE u = t /\ i = 1
        <5>1. history[t] <= s
          <6>1. CASE t > now
            BY <3>1, <4>2, <6>1 DEF NoFuture
          <6>2. CASE ~(t > now)
            <7>1. t = now /\ IsReset(est, s, t, Window)
              BY <2>1, <2>2, <3>1, <3>2, <4>2, <6>2
            <7>2. history[t] <= est[1].sample
              BY <7>1 DEF Dominates
            <7>3. est = Clear => est[1].sample = 0
              BY DEF Clear, Estimate
            <7> QED
              BY <1>0, <3>1, <4>2, <7>1, <7>2, <7>3 DEF IsReset, BestFresh, Ordered
          <6> QED
            BY <6>1, <6>2
        <5> QED
          BY <2>3, <2>4, <3>1, <3>2, <4>2, <5>1
      <4> QED
        BY <2>3, <3>1, <3>2, <4>1, <4>2
    <3>3. CASE est'[i] # n
      <4>1. PICK j \in 1..3 : /\ est'[i] = est[j] /\ est[j].sample >= s
                              /\ i = 1 /\ j # 1 => t > now
        BY <2>2, <3>3
      <4>2. est[j].time \in Nat /\ est[j].time <= now
        BY <1>0 DEF TypeOK, Ordered
      <4>3. history[u] <= est'[i].sample
        <5>1. CASE est[j].time < u
          BY <4>1, <5>1 DEF Dominates
        <5>2. CASE ~(est[j].time < u)
          <6>1. u = t /\ i = 1
            BY <3>1, <4>1, <4>2, <5>2
          <6>2. j = 1 /\ t = now
            BY <2>1, <3>1, <4>1, <4>2, <5>2, <6>1
          <6> QED
            BY <4>1, <6>1, <6>2 DEF Dominates
        <5> QED
          BY <5>1, <5>2
      <4> QED
        BY <2>4, <3>1, <4>1, <4>3
    <3> QED
      BY <3>2, <3>3
  <2> QED
    BY <2>5, <2>6, <2>7
<1>2. ASSUME NEW s \in Samples, NEW t \in Times, ResetFilter(s, t)
      PROVE  FilterInv'
  <2> DEFINE n == Estimate(s, t)
  <2>1. n \in [sample : Samples, time : Times] /\ n.sample = s /\ n.time = t
    BY EstimateType
  <2>2. /\ est' \in [1..3 -> [sample : Samples, time : Times]]
        /\ est'[1] = n /\ est'[2] = n /\ est'[3] = n
    BY <1>2, <2>1, TripleType DEF ResetFilter, Reset
  <2>3. now' = t /\ history' = [u \in Times |-> IF u = t THEN s ELSE 0]
    BY <1>2 DEF ResetFilter
  <2> QED
    BY <1>0, <2>1, <2>2, <2>3 DEF TypeOK, Ordered, BestFresh, Dominates, NoFuture
<1>3. CASE ClearFilter
  <2> DEFINE z == Estimate(0, 0)
  <2>1. z \in [sample : Samples, time : Times] /\ z.sample = 0 /\ z.time = 0
    BY <1>0, EstimateType
  <2>2. /\ est' \in [1..3 -> [sample : Samples, time : Times]]
        /\ est'[1] = z /\ est'[2] = z /\ est'[3] = z
    BY <1>3, <2>1, TripleType DEF ClearFilter, Clear
  <2>3. /\ now' = now /\ est' = Clear
        /\ history' = [t \in Times |-> 0]
    BY <1>3 DEF ClearFilter
  <2>4. BestFresh'
    BY <2>3 DEF BestFresh, Clear
  <2> QED
    BY <1>0, <2>1, <2>2, <2>3, <2>4 DEF TypeOK, Ordered, Dominates, NoFuture
<1>4. CASE UNCHANGED filterVars
  BY <1>4 DEF filterVars, TypeOK, Ordered, BestFresh, Dominates, NoFuture
<1> QED
  BY <1>1, <1>2, <1>3, <1>4 DEF FilterNext

(* The filter is always in its invariant.                                  *)
THEOREM FilterInvariance == FilterSpec => []FilterInv
  BY InitFilter, StepFilter, PTL DEF FilterSpec

(* The estimates of windowed_filter.go keep the order its comment claims:  *)
(* a better estimate is an older one.                                      *)
THEOREM FilterOrdered == FilterSpec => []Ordered
<1>1. FilterInv => Ordered
  BY DEF FilterInv
<1> QED
  BY <1>1, FilterInvariance, PTL

(* What GetBest returns is never older than the window at the last sample. *)
THEOREM FilterFresh == FilterSpec => []BestFresh
<1>1. FilterInv => BestFresh
  BY DEF FilterInv
<1> QED
  BY <1>1, FilterInvariance, PTL

(* No sample measured after an estimate exceeds it.                        *)
THEOREM FilterDominates == FilterSpec => []Dominates
<1>1. FilterInv => Dominates
  BY DEF FilterInv
<1> QED
  BY <1>1, FilterInvariance, PTL

(* Update lowers the best only when it is outside the window.              *)
THEOREM FilterKeepsBest == FilterSpec => BestKept
<1>1. FilterInv /\ [FilterNext]_filterVars =>
        [\A s \in Samples, t \in Times :
           UpdateFilter(s, t) /\ est'[1].sample < est[1].sample
             => t - est[1].time > Window]_filterVars
  <2>1. ASSUME FilterInv, NEW s \in Samples, NEW t \in Times, UpdateFilter(s, t)
        PROVE  Updated(est', s, t)
    BY <2>1, UpdateFacts DEF FilterInv, UpdateFilter
  <2> QED
    BY <2>1 DEF Updated
<1> QED
  BY <1>1, FilterInvariance, PTL DEF FilterSpec, BestKept

-----------------------------------------------------------------------------
(* The ring buffer.                                                        *)

(* Offsets from the head wrap around once at most.                         *)
LEMMA WrapOnce ==
  ASSUME NEW n \in Nat, NEW h \in Nat, NEW k \in Nat, h < n, k < n
  PROVE  (h + k) % n = IF h + k < n THEN h + k ELSE h + k - n
<1>1. CASE h + k < n
  BY <1>1
<1>2. CASE h + k >= n
  BY <1>2
<1> QED
  BY <1>1, <1>2

(* What the doubled slice holds.                                           *)
LEMMA GrownFacts ==
  ASSUME NEW S, ZeroValue \in S, NEW r \in Seq(S), NEW h \in Nat, Len(r) = 0 \/ h < Len(r), Len(r) = 0 => h = 0
  PROVE  /\ Grown(r, h) \in Seq(S)
         /\ Len(Grown(r, h)) = IF Len(r) = 0 THEN 1 ELSE 2 * Len(r)
         /\ \A i \in 0..(Len(r) - 1) :
              Grown(r, h)[i + 1] = r[(IF h + i < Len(r) THEN h + i ELSE h + i - Len(r)) + 1]
         /\ \A i \in Nat : i >= Len(r) /\ i < Len(Grown(r, h)) => Grown(r, h)[i + 1] = ZeroValue
<1> DEFINE n == Len(r)
           m == IF n = 0 THEN 1 ELSE n
           p == SubSeq(r, h + 1, n)
           q == SubSeq(r, 1, h)
           z == Zeros(m)
<1>1. n \in Nat /\ m \in Nat /\ m > 0
  OBVIOUS
<1>2. p \in Seq(S) /\ Len(p) = n - h /\ \A i \in 1..(n - h) : p[i] = r[h + i]
  BY <1>1
<1>3. q \in Seq(S) /\ Len(q) = h /\ \A i \in 1..h : q[i] = r[i]
  BY <1>1
<1>4. z \in Seq(S) /\ Len(z) = m /\ \A i \in 1..m : z[i] = ZeroValue
  BY <1>1 DEF Zeros
<1>5. Grown(r, h) = (p \o q) \o z
  BY DEF Grown
<1> HIDE DEF n, m, p, q, z
<1>6. h \in 0..n
  BY <1>1 DEF n
<1>7. /\ p \o q \in Seq(S) /\ Len(p \o q) = n
      /\ \A i \in 1..n : (p \o q)[i] = IF i <= n - h THEN p[i] ELSE q[i - (n - h)]
  <2>1. /\ p \o q \in Seq(S) /\ Len(p \o q) = Len(p) + Len(q)
        /\ \A i \in 1..(Len(p) + Len(q)) : (p \o q)[i] = IF i <= Len(p) THEN p[i] ELSE q[i - Len(p)]
    BY <1>2, <1>3, ConcatProperties, Zenon
  <2>2. Len(p) = n - h /\ Len(p) + Len(q) = n
    BY <1>1, <1>2, <1>3, <1>6
  <2> QED
    BY <2>1, <2>2, Zenon
<1>8. /\ (p \o q) \o z \in Seq(S) /\ Len((p \o q) \o z) = n + m
      /\ \A i \in 1..(n + m) : ((p \o q) \o z)[i] = IF i <= n THEN (p \o q)[i] ELSE z[i - n]
  <2> DEFINE w == p \o q
  <2>1. w \in Seq(S) /\ Len(w) = n
    BY <1>7
  <2> HIDE DEF w
  <2>2. /\ w \o z \in Seq(S) /\ Len(w \o z) = Len(w) + Len(z)
        /\ \A i \in 1..(Len(w) + Len(z)) : (w \o z)[i] = IF i <= Len(w) THEN w[i] ELSE z[i - Len(w)]
    BY <1>4, <2>1, ConcatProperties, Zenon
  <2> QED
    BY <1>4, <2>1, <2>2, Zenon DEF w
<1> DEFINE g == Grown(r, h)
           w == p \o q
<1>9. g \in Seq(S) /\ Len(g) = n + m
  BY <1>5, <1>8
<1>10. \A i \in 1..(n + m) : g[i] = IF i <= n THEN w[i] ELSE z[i - n]
  BY <1>5, <1>8
<1>11. \A i \in 1..n : w[i] = IF i <= n - h THEN p[i] ELSE q[i - (n - h)]
  BY <1>7
<1> HIDE DEF g, w
<1>12. ASSUME NEW i \in 0..(n - 1)
       PROVE  g[i + 1] = r[(IF h + i < n THEN h + i ELSE h + i - n) + 1]
  <2>1. i \in Nat /\ i + 1 \in 1..n /\ i + 1 \in 1..(n + m)
    BY <1>1
  <2>2. g[i + 1] = IF i + 1 <= n - h THEN p[i + 1] ELSE q[i + 1 - (n - h)]
    BY <1>1, <1>10, <1>11, <2>1
  <2>3. CASE i + 1 <= n - h
    BY <1>1, <1>2, <1>6, <2>1, <2>2, <2>3
  <2>4. CASE ~(i + 1 <= n - h)
    <3>1. i + 1 - (n - h) \in 1..h /\ i + 1 - (n - h) = (h + i - n) + 1
      BY <1>1, <1>6, <2>1, <2>4
    <3> QED
      BY <1>1, <1>3, <1>6, <2>1, <2>2, <2>4, <3>1
  <2> QED
    BY <2>3, <2>4
<1>13. ASSUME NEW i \in Nat, i >= n, i < n + m PROVE g[i + 1] = ZeroValue
  <2> DEFINE j == i + 1
  <2>1. j \in 1..(n + m) /\ ~(j <= n) /\ j - n \in 1..m
    BY <1>1, <1>13
  <2> HIDE DEF j
  <2>2. g[j] = z[j - n]
    BY <1>10, <2>1
  <2>3. \A k \in 1..m : z[k] = ZeroValue
    BY <1>4
  <2> QED
    BY <2>1, <2>2, <2>3, Zenon DEF j
<1> QED
  BY <1>1, <1>9, <1>12, <1>13 DEF n, m, g

-----------------------------------------------------------------------------
(* A buffer as its slice r, its positions h and t and its flag f.          *)
Stored == Elements \cup {ZeroValue}

Shaped(r, h, t, f) ==
  /\ r \in Seq(Stored) /\ h \in Nat /\ t \in Nat /\ f \in BOOLEAN
  /\ IF Len(r) = 0 THEN h = 0 /\ t = 0 /\ ~f ELSE h < Len(r) /\ t < Len(r)
  /\ f => h = t

LenOf(r, h, t, f) == IF f THEN Len(r) ELSE IF t >= h THEN t - h ELSE t + Len(r) - h

(* The slots between head and tail, and the slot at offset k.              *)
Held(h, t, f, i) == f \/ IF t >= h THEN h <= i /\ i < t ELSE h <= i \/ i < t
At(r, h, k) == IF h + k < Len(r) THEN h + k ELSE h + k - Len(r)

(* The inductive invariant: the slots held are those that hold something.  *)
Good(r, h, t, f) ==
  Shaped(r, h, t, f) /\ \A i \in 0..(Len(r) - 1) : Held(h, t, f, i) <=> r[i + 1] # ZeroValue

Seen(r, h, t, f) == [i \in 1..LenOf(r, h, t, f) |-> r[((h + (i - 1)) % Len(r)) + 1]]

RingIInv == Good(ring, headPos, tailPos, full)

(* As many slots are held as the length says, one after the other from the *)
(* head.                                                                   *)
LEMMA HeldSlots ==
  ASSUME NEW r, NEW h, NEW t, NEW f, Shaped(r, h, t, f), Len(r) # 0
  PROVE  /\ LenOf(r, h, t, f) \in 0..Len(r)
         /\ \A k \in 0..(LenOf(r, h, t, f) - 1) :
              (h + k) % Len(r) = At(r, h, k) /\ At(r, h, k) \in 0..(Len(r) - 1)
         /\ \A i \in 0..(Len(r) - 1) :
              (\A k \in 0..(LenOf(r, h, t, f) - 1) : (h + k) % Len(r) # i) <=> ~Held(h, t, f, i)
         /\ \A k \in 0..(LenOf(r, h, t, f) - 1) : Held(h, t, f, At(r, h, k))
<1> DEFINE n == Len(r)
           l == LenOf(r, h, t, f)
<1>1. n \in Nat /\ n > 0 /\ h \in 0..(n - 1) /\ t \in 0..(n - 1) /\ f \in BOOLEAN /\ (f => h = t)
  BY DEF Shaped
<1>2. l = IF f THEN n ELSE IF t >= h THEN t - h ELSE t + n - h
  BY DEF LenOf
<1>3. l \in 0..n
  BY <1>1, <1>2
<1> HIDE DEF l, n
<1>4. \A k \in 0..(l - 1) : (h + k) % n = At(r, h, k) /\ At(r, h, k) \in 0..(n - 1)
  <2> SUFFICES ASSUME NEW k \in 0..(l - 1)
               PROVE  (h + k) % n = At(r, h, k) /\ At(r, h, k) \in 0..(n - 1)
    OBVIOUS
  <2>1. k \in Nat /\ k < n /\ h \in Nat /\ h < n
    BY <1>1, <1>3
  <2>2. (h + k) % n = IF h + k < n THEN h + k ELSE h + k - n
    BY <1>1, <2>1, WrapOnce
  <2> QED
    BY <1>1, <2>1, <2>2 DEF At, n
<1>5. \A k \in 0..(l - 1) : Held(h, t, f, At(r, h, k))
  BY <1>1, <1>2, <1>3 DEF Held, At, n
<1>6. ASSUME NEW i \in 0..(n - 1)
      PROVE  (\A k \in 0..(l - 1) : (h + k) % n # i) <=> ~Held(h, t, f, i)
  <2>1. (\A k \in 0..(l - 1) : (h + k) % n # i) <=> (\A k \in 0..(l - 1) : At(r, h, k) # i)
    BY <1>4
  <2> DEFINE j == IF h <= i THEN i - h ELSE i - h + n
  <2>2. Held(h, t, f, i) => j \in 0..(l - 1) /\ At(r, h, j) = i
    BY <1>1, <1>2, <1>3 DEF Held, At, n
  <2> QED
    BY <2>1, <2>2, <1>5
<1> QED
  BY <1>3, <1>4, <1>5, <1>6 DEF n, l

(* What Offset sees, for every offset below the length.                    *)
LEMMA SeenFacts ==
  ASSUME NEW r, NEW h, NEW t, NEW f, Good(r, h, t, f)
  PROVE  /\ Seen(r, h, t, f) \in Seq(Elements)
         /\ Len(Seen(r, h, t, f)) = LenOf(r, h, t, f) /\ LenOf(r, h, t, f) \in 0..Len(r)
         /\ \A k \in 1..LenOf(r, h, t, f) : Seen(r, h, t, f)[k] = r[At(r, h, k - 1) + 1]
<1>1. r \in Seq(Stored) /\ Len(r) \in Nat /\ Shaped(r, h, t, f)
  BY DEF Good, Shaped
<1>2. CASE Len(r) = 0
  <2>1. LenOf(r, h, t, f) = 0
    BY <1>1, <1>2 DEF Shaped, LenOf
  <2> QED
    BY <1>2, <2>1 DEF Seen
<1>3. CASE Len(r) # 0
  <2> DEFINE l == LenOf(r, h, t, f)
  <2>1. l \in 0..Len(r) /\ l \in Nat
    BY <1>1, <1>3, HeldSlots
  <2>2. ASSUME NEW k \in 1..l
        PROVE  /\ r[((h + (k - 1)) % Len(r)) + 1] = r[At(r, h, k - 1) + 1]
               /\ r[At(r, h, k - 1) + 1] \in Elements
    <3>1. k - 1 \in 0..(l - 1)
      BY <2>1
    <3>2. /\ (h + (k - 1)) % Len(r) = At(r, h, k - 1) /\ At(r, h, k - 1) \in 0..(Len(r) - 1)
          /\ Held(h, t, f, At(r, h, k - 1))
      BY <1>1, <1>3, <3>1, HeldSlots
    <3>3. r[At(r, h, k - 1) + 1] # ZeroValue
      BY <3>2 DEF Good
    <3>4. r[At(r, h, k - 1) + 1] \in Stored
      BY <1>1, <3>2
    <3> QED
      BY <3>2, <3>3, <3>4 DEF Stored
  <2> HIDE DEF l
  <2> DEFINE c == [k \in 1..l |-> r[((h + (k - 1)) % Len(r)) + 1]]
  <2>3. c \in Seq(Elements) /\ Len(c) = l
    BY <2>1, <2>2
  <2>4. Seen(r, h, t, f) = c
    BY DEF Seen, l
  <2> QED
    BY <2>1, <2>2, <2>3, <2>4 DEF l
<1> QED
  BY <1>2, <1>3

(* The invariant of the specification, in both states of a step.           *)
LEMMA GoodRing ==
  /\ RingIInv => RingInv /\ Contents = Seen(ring, headPos, tailPos, full)
  /\ RingIInv' => Contents' = Seen(ring, headPos, tailPos, full)'
<1>1. Contents = Seen(ring, headPos, tailPos, full)
  BY DEF Contents, Seen, Offset, Slot, RingLen, LenOf
<1>2. Contents' = Seen(ring, headPos, tailPos, full)'
  BY DEF Contents, Seen, Offset, Slot, RingLen, LenOf
<1>3. ASSUME RingIInv PROVE RingInv
  <2>1. RingTypeOK /\ Shaped(ring, headPos, tailPos, full) /\ Len(ring) \in Nat
    BY <1>3 DEF RingIInv, Good, Shaped, RingTypeOK, Stored
  <2>2. CASE Len(ring) = 0
    BY <2>1, <2>2 DEF RingInv, NoStaleSlot
  <2>3. CASE Len(ring) # 0
    <3>1. RingLen = LenOf(ring, headPos, tailPos, full)
      BY DEF RingLen, LenOf
    <3> QED
      BY <1>3, <2>1, <2>3, <3>1, HeldSlots DEF RingIInv, Good, RingInv, NoStaleSlot, Slot
  <2> QED
    BY <2>2, <2>3
<1> QED
  BY <1>1, <1>2, <1>3

-----------------------------------------------------------------------------
(* A buffer without elements.                                              *)
LEMMA ZerosGood ==
  ASSUME NEW n \in Nat, NEW no \in BOOLEAN, ~no
  PROVE  Good(Zeros(n), 0, 0, no) /\ Seen(Zeros(n), 0, 0, no) = <<>>
<1> DEFINE z == Zeros(n)
<1>1. z \in Seq(Stored) /\ Len(z) = n /\ \A i \in 1..n : z[i] = ZeroValue
  BY DEF Zeros, Stored
<1> HIDE DEF z
<1>2. Good(z, 0, 0, no)
  <2>1. Shaped(z, 0, 0, no)
    <3>1. z \in Seq(Stored) /\ no \in BOOLEAN /\ ~no
      BY <1>1
    <3>2. Len(z) \in Nat /\ (Len(z) # 0 => 0 < Len(z))
      BY <1>1
    <3> QED
      BY <3>1, <3>2 DEF Shaped
  <2>2. \A i \in 0..(Len(z) - 1) : ~Held(0, 0, no, i) /\ z[i + 1] = ZeroValue
    BY <1>1 DEF Held
  <2> QED
    BY <2>1, <2>2 DEF Good
<1>3. LenOf(z, 0, 0, no) = 0
  BY DEF LenOf
<1>4. Seen(z, 0, 0, no) = <<>>
  <2>1. Seen(z, 0, 0, no) \in Seq(Elements) /\ Len(Seen(z, 0, 0, no)) = 0
    BY <1>2, <1>3, SeenFacts
  <2> HIDE DEF Seen
  <2> QED
    BY <2>1, EmptySeq
<1> QED
  BY <1>2, <1>4 DEF z

(* Growing moves the elements to the front of the new slice, in order.     *)
LEMMA GrownGood ==
  ASSUME NEW r, NEW h, NEW t, NEW f, Good(r, h, t, f), f \/ Len(r) = 0,
         NEW no \in BOOLEAN, ~no
  PROVE  /\ Good(Grown(r, h), 0, Len(r), no)
         /\ Seen(Grown(r, h), 0, Len(r), no) = Seen(r, h, t, f)
         /\ Len(Grown(r, h)) # 0
<1> DEFINE g == Grown(r, h)
           n == Len(r)
<1>1. r \in Seq(Stored) /\ n \in Nat /\ h \in Nat /\ (n = 0 => h = 0) /\ (n = 0 \/ h < n)
  BY DEF Good, Shaped
<1>2. ZeroValue \in Stored
  BY DEF Stored
<1>3. /\ g \in Seq(Stored) /\ Len(g) = IF n = 0 THEN 1 ELSE 2 * n
      /\ \A i \in 0..(n - 1) : g[i + 1] = r[At(r, h, i) + 1]
      /\ \A i \in Nat : i >= n /\ i < Len(g) => g[i + 1] = ZeroValue
  BY <1>1, <1>2, GrownFacts DEF At
<1> HIDE DEF g
<1>4. LenOf(r, h, t, f) = n /\ LenOf(g, 0, n, no) = n
  BY <1>1 DEF LenOf, Good, Shaped
<1>5. n < Len(g) /\ Len(g) \in Nat
  BY <1>1, <1>3
<1>6. \A k \in 1..n : Seen(r, h, t, f)[k] = r[At(r, h, k - 1) + 1]
  BY <1>4, SeenFacts
<1>7. \A k \in 1..n : Seen(r, h, t, f)[k] \in Elements
  BY <1>1, <1>4, SeenFacts
<1>8. \A i \in 0..(n - 1) : g[i + 1] # ZeroValue
  <2> SUFFICES ASSUME NEW i \in 0..(n - 1) PROVE g[i + 1] # ZeroValue
    OBVIOUS
  <2>1. i + 1 \in 1..n /\ (i + 1) - 1 = i
    BY <1>1
  <2> QED
    BY <1>3, <1>6, <1>7, <2>1, ZeroOutside
<1>9. Good(g, 0, n, no)
  <2>1. Shaped(g, 0, n, no)
    <3>1. g \in Seq(Stored) /\ no \in BOOLEAN /\ ~no
      BY <1>3
    <3>2. 0 \in Nat /\ n \in Nat /\ Len(g) # 0 /\ 0 < Len(g) /\ n < Len(g)
      BY <1>1, <1>5
    <3> QED
      BY <3>1, <3>2 DEF Shaped
  <2>2. ASSUME NEW i \in 0..(Len(g) - 1) PROVE Held(0, n, no, i) <=> g[i + 1] # ZeroValue
    <3>1. Held(0, n, no, i) <=> i < n
      BY <1>1, <1>5 DEF Held
    <3>2. i \in Nat /\ i < Len(g)
      BY <1>5
    <3>3. CASE i < n
      <4>1. i \in 0..(n - 1)
        BY <1>1, <3>2, <3>3
      <4> QED
        BY <1>8, <3>1, <3>3, <4>1
    <3>4. CASE ~(i < n)
      <4>1. i >= n
        BY <1>1, <3>2, <3>4
      <4> QED
        BY <1>3, <3>1, <3>2, <3>4, <4>1
    <3> QED
      BY <3>3, <3>4
  <2> QED
    BY <2>1, <2>2 DEF Good
<1>10. Seen(g, 0, n, no) = Seen(r, h, t, f)
  <2>1. /\ Seen(r, h, t, f) \in Seq(Elements) /\ Len(Seen(r, h, t, f)) = n
        /\ Seen(g, 0, n, no) \in Seq(Elements) /\ Len(Seen(g, 0, n, no)) = n
    BY <1>4, <1>9, SeenFacts
  <2>2. ASSUME NEW k \in 1..n PROVE Seen(g, 0, n, no)[k] = Seen(r, h, t, f)[k]
    <3>1. At(g, 0, k - 1) = k - 1 /\ k - 1 \in 0..(n - 1)
      BY <1>1, <1>5 DEF At
    <3>2. Seen(g, 0, n, no)[k] = g[At(g, 0, k - 1) + 1]
      <4>1. k \in 1..LenOf(g, 0, n, no)
        BY <1>4
      <4>2. \A j \in 1..LenOf(g, 0, n, no) : Seen(g, 0, n, no)[j] = g[At(g, 0, j - 1) + 1]
        BY <1>9, SeenFacts
      <4> QED
        BY <4>1, <4>2
    <3> QED
      BY <1>3, <1>6, <3>1, <3>2
  <2> QED
    BY <2>1, <2>2, SeqEqual
<1>11. Len(g) # 0
  BY <1>1, <1>5
<1> QED
  BY <1>9, <1>10, <1>11 DEF g

(* Slot i gets x.                                                          *)
Put(r, i, x) == [r EXCEPT ![i + 1] = x]

(* Into a slice with room, an element goes behind the others.              *)
LEMMA PushGood ==
  ASSUME NEW r, NEW h, NEW t, NEW no \in BOOLEAN, ~no, Good(r, h, t, no), Len(r) # 0, NEW x \in Elements,
         NEW u, u = IF t + 1 = Len(r) THEN 0 ELSE t + 1, NEW f \in BOOLEAN, f <=> u = h
  PROVE  /\ Good(Put(r, t, x), h, u, f)
         /\ Seen(Put(r, t, x), h, u, f) = Append(Seen(r, h, t, no), x)
<1> DEFINE s == Put(r, t, x)
           n == Len(r)
           l == LenOf(r, h, t, no)
<1>1. r \in Seq(Stored) /\ n \in Nat /\ n > 0 /\ h \in 0..(n - 1) /\ t \in 0..(n - 1)
  BY DEF Good, Shaped
<1>2. s \in Seq(Stored) /\ Len(s) = n
  BY <1>1 DEF Stored, Put
<1>3. s[t + 1] = x /\ \A i \in 0..(n - 1) : i # t => s[i + 1] = r[i + 1]
  BY <1>1 DEF Put
<1> HIDE DEF s
<1>4. u \in 0..(n - 1) /\ f \in BOOLEAN
  BY <1>1
<1>5. Shaped(s, h, u, f)
  BY <1>1, <1>2, <1>4 DEF Shaped
<1>6. \A i \in 0..(n - 1) : Held(h, u, f, i) <=> i = t \/ Held(h, t, no, i)
  BY <1>1, <1>4 DEF Held
<1>7. Good(s, h, u, f)
  <2>1. ASSUME NEW i \in 0..(n - 1) PROVE Held(h, u, f, i) <=> s[i + 1] # ZeroValue
    <3>1. CASE i = t
      BY <1>3, <1>6, <3>1, ZeroOutside
    <3>2. CASE i # t
      BY <1>3, <1>6, <3>2 DEF Good
    <3> QED
      BY <3>1, <3>2
  <2> QED
    BY <1>2, <1>5, <2>1 DEF Good
<1>8. l \in 0..(n - 1) /\ LenOf(s, h, u, f) = l + 1 /\ At(r, h, l) = t
  BY <1>1, <1>2, <1>4 DEF LenOf, At
<1>9. \A k \in 0..(l - 1) : At(r, h, k) # t /\ At(r, h, k) \in 0..(n - 1)
  BY <1>1 DEF At, LenOf
<1>10. \A k \in Nat : At(s, h, k) = At(r, h, k)
  BY <1>2 DEF At
<1> HIDE DEF l
<1>11. /\ Seen(r, h, t, no) \in Seq(Elements) /\ Len(Seen(r, h, t, no)) = l
       /\ \A k \in 1..l : Seen(r, h, t, no)[k] = r[At(r, h, k - 1) + 1]
  BY SeenFacts DEF l
<1>12. /\ Seen(s, h, u, f) \in Seq(Elements) /\ Len(Seen(s, h, u, f)) = l + 1
       /\ \A k \in 1..(l + 1) : Seen(s, h, u, f)[k] = s[At(s, h, k - 1) + 1]
  BY <1>7, <1>8, SeenFacts
<1> DEFINE c == Seen(r, h, t, no)
           d == Seen(s, h, u, f)
<1> HIDE DEF c, d
<1>13. d = Append(c, x)
  <2>1. /\ Append(c, x) \in Seq(Elements) /\ Len(Append(c, x)) = l + 1
        /\ Append(c, x)[l + 1] = x /\ \A k \in 1..l : Append(c, x)[k] = c[k]
    <3>1. c \in Seq(Elements) /\ Len(c) = l
      BY <1>11 DEF c
    <3> QED
      BY <3>1, AppendProperties
  <2>2. ASSUME NEW k \in 1..(l + 1) PROVE d[k] = Append(c, x)[k]
    <3>1. k - 1 \in Nat /\ d[k] = s[At(r, h, k - 1) + 1]
      BY <1>8, <1>10, <1>12 DEF d
    <3>2. CASE k = l + 1
      BY <1>3, <1>8, <2>1, <3>1, <3>2
    <3>3. CASE k # l + 1
      <4>1. k \in 1..l /\ k - 1 \in 0..(l - 1)
        BY <1>8, <3>3
      <4> QED
        BY <1>3, <1>9, <1>11, <2>1, <3>1, <4>1 DEF c
    <3> QED
      BY <3>2, <3>3
  <2>3. d \in Seq(Elements) /\ Len(d) = l + 1
    BY <1>12 DEF d
  <2> QED
    BY <2>1, <2>2, <2>3, SeqEqual
<1> QED
  BY <1>7, <1>13 DEF s, c, d

(* The element at the head leaves.                                         *)
LEMMA PopGood ==
  ASSUME NEW r, NEW h, NEW t, NEW f, Good(r, h, t, f), f \/ h # t, NEW no \in BOOLEAN, ~no,
         NEW g, g = IF h + 1 = Len(r) THEN 0 ELSE h + 1
  PROVE  /\ Good(Put(r, h, ZeroValue), g, t, no)
         /\ Seen(Put(r, h, ZeroValue), g, t, no) = Tail(Seen(r, h, t, f))
         /\ Seen(r, h, t, f) # <<>>
<1> DEFINE s == Put(r, h, ZeroValue)
           n == Len(r)
           l == LenOf(r, h, t, f)
<1>1. /\ r \in Seq(Stored) /\ n \in Nat /\ n > 0 /\ h \in 0..(n - 1) /\ t \in 0..(n - 1)
      /\ f \in BOOLEAN /\ (f => h = t)
  BY DEF Good, Shaped
<1>2. s \in Seq(Stored) /\ Len(s) = n
  BY <1>1 DEF Stored, Put
<1>3. s[h + 1] = ZeroValue /\ \A i \in 0..(n - 1) : i # h => s[i + 1] = r[i + 1]
  BY <1>1 DEF Put
<1> HIDE DEF s
<1>4. g \in 0..(n - 1)
  BY <1>1
<1>5. Shaped(s, g, t, no)
  <2>1. s \in Seq(Stored) /\ no \in BOOLEAN /\ ~no
    BY <1>2
  <2>2. g \in Nat /\ t \in Nat /\ Len(s) # 0 /\ g < Len(s) /\ t < Len(s)
    BY <1>1, <1>2, <1>4
  <2> QED
    BY <2>1, <2>2 DEF Shaped
<1>6. \A i \in 0..(n - 1) : Held(g, t, no, i) <=> i # h /\ Held(h, t, f, i)
  BY <1>1, <1>4 DEF Held
<1>7. Good(s, g, t, no)
  <2>1. ASSUME NEW i \in 0..(n - 1) PROVE Held(g, t, no, i) <=> s[i + 1] # ZeroValue
    <3>1. CASE i = h
      BY <1>3, <1>6, <3>1
    <3>2. CASE i # h
      BY <1>3, <1>6, <3>2 DEF Good
    <3> QED
      BY <3>1, <3>2
  <2> QED
    BY <1>2, <1>5, <2>1 DEF Good
<1>8. l \in 1..n /\ LenOf(s, g, t, no) = l - 1
  BY <1>1, <1>2, <1>4 DEF LenOf
<1>9. \A k \in 0..(l - 2) :
         At(s, g, k) = At(r, h, k + 1) /\ At(r, h, k + 1) # h /\ At(r, h, k + 1) \in 0..(n - 1)
  BY <1>1, <1>2, <1>4, <1>8 DEF At
<1> HIDE DEF l
<1> DEFINE c == Seen(r, h, t, f)
           d == Seen(s, g, t, no)
<1>10. c \in Seq(Elements) /\ Len(c) = l /\ \A k \in 1..l : c[k] = r[At(r, h, k - 1) + 1]
  BY SeenFacts DEF l
<1>11. d \in Seq(Elements) /\ Len(d) = l - 1 /\ \A k \in 1..(l - 1) : d[k] = s[At(s, g, k - 1) + 1]
  BY <1>7, <1>8, SeenFacts
<1> HIDE DEF c, d
<1>12. c # <<>>
  BY <1>8, <1>10
<1>13. Tail(c) \in Seq(Elements) /\ Len(Tail(c)) = l - 1 /\ \A k \in 1..(l - 1) : Tail(c)[k] = c[k + 1]
  BY <1>10, <1>12, HeadTailProperties
<1>14. ASSUME NEW k \in 1..(l - 1) PROVE d[k] = Tail(c)[k]
  <2>1. k - 1 \in 0..(l - 2) /\ k + 1 \in 1..l /\ (k - 1) + 1 = k /\ (k + 1) - 1 = k
    BY <1>8
  <2>2. At(s, g, k - 1) = At(r, h, k) /\ At(r, h, k) # h /\ At(r, h, k) \in 0..(n - 1)
    BY <1>9, <2>1
  <2>3. d[k] = s[At(r, h, k) + 1] /\ s[At(r, h, k) + 1] = r[At(r, h, k) + 1]
    BY <1>3, <1>11, <2>2
  <2>4. Tail(c)[k] = r[At(r, h, k) + 1]
    BY <1>10, <1>13, <2>1
  <2> QED
    BY <2>3, <2>4
<1>15. d = Tail(c)
  BY <1>11, <1>13, <1>14, SeqEqual
<1> QED
  BY <1>7, <1>12, <1>15 DEF s, c, d

-----------------------------------------------------------------------------
(* Every call keeps the invariant and does to the contents what a queue    *)
(* does.                                                                   *)
LEMMA RingStarts == RingInit => RingIInv /\ Contents = <<>>
<1> SUFFICES ASSUME RingInit PROVE RingIInv /\ Contents = <<>>
  OBVIOUS
<1>1. ring = Zeros(InitSize) /\ headPos = 0 /\ tailPos = 0 /\ full \in BOOLEAN /\ ~full /\ InitSize \in Nat
  BY SizesAssumption DEF RingInit
<1>2. Good(Zeros(InitSize), 0, 0, full) /\ Seen(Zeros(InitSize), 0, 0, full) = <<>>
  BY <1>1, ZerosGood
<1>3. RingIInv /\ Seen(ring, headPos, tailPos, full) = <<>>
  BY <1>1, <1>2 DEF RingIInv
<1> QED
  BY <1>3, GoodRing

(* PushBack into a slice that has room, or into the doubled one.           *)
LEMMA PushStep ==
  ASSUME RingIInv, NEW x \in Elements, PushBack(x)
  PROVE  RingIInv' /\ Contents' = Append(Contents, x)
<1> DEFINE c == Seen(ring, headPos, tailPos, full)
           d == Seen(ring, headPos, tailPos, full)'
<1>1. CASE full \/ Len(ring) = 0
  <2> DEFINE no == FALSE
             g == Grown(ring, headPos)
             n == Len(ring)
             u == IF n + 1 = Len(g) THEN 0 ELSE n + 1
             v == u = 0
  <2>1. no \in BOOLEAN /\ ~no /\ v \in BOOLEAN /\ (v <=> u = 0)
    OBVIOUS
  <2>2. ring' = Put(g, n, x) /\ headPos' = 0 /\ tailPos' = u /\ full' = v
    BY <1>1 DEF PushBack, Put
  <2> HIDE DEF no, g, n, u, v
  <2>3. Good(g, 0, n, no) /\ Seen(g, 0, n, no) = c /\ Len(g) # 0
    BY <1>1, <2>1, GrownGood, ZenonT(60) DEF RingIInv, g, n
  <2> HIDE DEF c
  <2>4. u = IF n + 1 = Len(g) THEN 0 ELSE n + 1
    BY DEF u
  <2>5. Good(ring', 0, u, v) /\ Seen(ring', 0, u, v) = Append(c, x)
    BY <2>1, <2>2, <2>3, <2>4, PushGood
  <2>6. Good(ring, headPos, tailPos, full)' /\ d = Append(c, x)
    BY <2>2, <2>5
  <2> QED
    BY <2>6, GoodRing DEF RingIInv, c
<1>2. CASE ~(full \/ Len(ring) = 0)
  <2> DEFINE u == IF tailPos + 1 = Len(ring) THEN 0 ELSE tailPos + 1
             v == u = headPos
  <2>1. ring' = Put(ring, tailPos, x) /\ headPos' = headPos /\ tailPos' = u /\ full' = v
    BY <1>2 DEF PushBack, Put
  <2>2. full \in BOOLEAN /\ ~full
    BY <1>2 DEF RingIInv, Good, Shaped
  <2>3. Good(ring, headPos, tailPos, full) /\ Len(ring) # 0
    BY <1>2 DEF RingIInv
  <2>4. u = (IF tailPos + 1 = Len(ring) THEN 0 ELSE tailPos + 1) /\ v \in BOOLEAN /\ (v <=> u = headPos)
    OBVIOUS
  <2> HIDE DEF u, v
  <2>5. Good(ring', headPos, u, v) /\ Seen(ring', headPos, u, v) = Append(c, x)
    BY <2>1, <2>2, <2>3, <2>4, PushGood
  <2>6. Good(ring, headPos, tailPos, full)' /\ d = Append(c, x)
    BY <2>1, <2>5
  <2> QED
    BY <2>6, GoodRing DEF RingIInv
<1> QED
  BY <1>1, <1>2

(* PopFront takes the element at the head.                                 *)
LEMMA PopStep ==
  ASSUME RingIInv, PopFront
  PROVE  RingIInv' /\ Contents # <<>> /\ Contents' = Tail(Contents)
<1> DEFINE g == IF headPos + 1 = Len(ring) THEN 0 ELSE headPos + 1
           c == Seen(ring, headPos, tailPos, full)
           d == Seen(ring, headPos, tailPos, full)'
<1>1. /\ ring' = Put(ring, headPos, ZeroValue) /\ headPos' = g /\ tailPos' = tailPos
      /\ full' \in BOOLEAN /\ ~full' /\ (full \/ headPos # tailPos)
  BY DEF PopFront, RingEmpty, Put
<1>2. Good(ring', g, tailPos, full') /\ Seen(ring', g, tailPos, full') = Tail(c) /\ c # <<>>
  <2>1. g = IF headPos + 1 = Len(ring) THEN 0 ELSE headPos + 1
    OBVIOUS
  <2> HIDE DEF g
  <2> QED
    BY <1>1, <2>1, PopGood DEF RingIInv
<1> HIDE DEF g
<1>3. Good(ring, headPos, tailPos, full)' /\ d = Tail(c) /\ c # <<>>
  BY <1>1, <1>2
<1> QED
  BY <1>3, GoodRing DEF RingIInv

(* Clear leaves no element.                                                *)
LEMMA ClearStep ==
  ASSUME RingIInv, ClearRing
  PROVE  RingIInv' /\ Contents' = <<>>
<1>1. /\ ring' = Zeros(Len(ring)) /\ headPos' = 0 /\ tailPos' = 0 /\ full' \in BOOLEAN /\ ~full'
      /\ Len(ring) \in Nat
  <2>1. full' = FALSE /\ ring \in Seq(Stored)
    BY DEF ClearRing, RingIInv, Good, Shaped
  <2>2. full' \in BOOLEAN /\ ~full'
    BY <2>1
  <2>3. Len(ring) \in Nat
    BY <2>1
  <2> QED
    BY <2>2, <2>3 DEF ClearRing
<1>2. Good(Zeros(Len(ring)), 0, 0, full') /\ Seen(Zeros(Len(ring)), 0, 0, full') = <<>>
  BY <1>1, ZerosGood
<1>3. Good(ring, headPos, tailPos, full)' /\ Seen(ring, headPos, tailPos, full)' = <<>>
  BY <1>1, <1>2
<1> QED
  BY <1>3, GoodRing DEF RingIInv

(* Every step keeps the invariant and is a step of the queue.              *)
LEMMA RingStep == RingIInv /\ [RingNext]_ringVars => RingIInv' /\ [Fifo!Next]_Contents
<1> SUFFICES ASSUME RingIInv, [RingNext]_ringVars PROVE RingIInv' /\ [Fifo!Next]_Contents
  OBVIOUS
<1>1. ASSUME NEW x \in Elements, PushBack(x) PROVE RingIInv' /\ [Fifo!Next]_Contents
  BY <1>1, PushStep DEF Fifo!Next, Fifo!Push
<1>2. CASE PopFront
  BY <1>2, PopStep DEF Fifo!Next, Fifo!Pop
<1>3. CASE ClearRing
  BY <1>3, ClearStep DEF Fifo!Next, Fifo!Empty
<1>4. CASE UNCHANGED ringVars
  <2>1. UNCHANGED <<ring, headPos, tailPos, full>>
    BY <1>4 DEF ringVars
  <2>2. RingIInv'
    BY <2>1 DEF RingIInv
  <2>3. Contents' = Contents
    BY <2>1 DEF Contents, RingLen, Offset, Slot
  <2> QED
    BY <2>2, <2>3
<1> QED
  BY <1>1, <1>2, <1>3, <1>4 DEF RingNext

(* ringbuffer.go: through every wrap, doubling and clear the positions are *)
(* slots of the slice and no slot outside head..tail keeps an element: the *)
(* collector can free what was popped.                                     *)
THEOREM RingCorrect == RingSpec => []RingInv
<1>1. RingInit => RingIInv
  BY RingStarts
<1>2. RingIInv /\ [RingNext]_ringVars => RingIInv'
  BY RingStep
<1>3. RingIInv => RingInv
  BY GoodRing
<1> QED
  BY <1>1, <1>2, <1>3, PTL DEF RingSpec

(* ringbuffer.go implements a first-in first-out queue, whatever the sizes *)
(* and however often the slice doubles while it is wrapped around.         *)
THEOREM RingIsFifo == RingSpec => IsFifo
<1>1. RingInit => RingIInv /\ Fifo!Init
  BY RingStarts DEF Fifo!Init
<1>2. RingIInv /\ [RingNext]_ringVars => RingIInv' /\ [Fifo!Next]_Contents
  BY RingStep
<1> QED
  BY <1>1, <1>2, PTL DEF RingSpec, IsFifo, Fifo!Spec

-----------------------------------------------------------------------------
(* The packet number queue.  A slot of the deque.                          *)
Wrappers == [present : BOOLEAN, entry : Entries \cup {NoEntry}]

(* The slots of a deque s that are present, and the packet numbers found   *)
(* in it when it starts at packet f.                                       *)
Present(s) == {i \in 1..Len(s) : s[i].present}
Found(s, f, q) == q - f + 1 \in Present(s)

(* A deque whose present slots hold entries of packets.                    *)
Deque(s, f) ==
  /\ s \in Seq(Wrappers) /\ f \in Int
  /\ \A i \in Present(s) : f + i - 1 \in Packets /\ s[i].entry \in Entries

(* The inductive invariant: the count is exact, the deque starts with a    *)
(* present slot, and what is present belongs to a packet.                  *)
Queue(s, n, f) ==
  /\ Deque(s, f)
  /\ n = Cardinality(Present(s))
  /\ s = <<>> => f = invalidPacketNumber
  /\ s # <<>> => 1 \in Present(s)

QueueIInv == Queue(entries, numberOfPresentEntries, firstPacket)

(* A set of numbers that is not empty has a least one.                     *)
LEMMA LeastNumber ==
  ASSUME NEW S \in SUBSET Nat, S # {}
  PROVE  \E n \in S : \A k \in S : n <= k
<1> DEFINE R == OpToRel(<, Nat)
<1>1. IsWellFoundedOn(R, Nat)
  BY NatLessThanWellFounded
<1>2. \A x, y \in Nat : y < x => <<y, x>> \in R
  BY DEF OpToRel
<1> HIDE DEF R
<1>3. \E x \in S : \A y \in S : ~(<<y, x>> \in R)
  BY <1>1, WFMin, Zenon
<1>4. PICK x \in S : \A y \in S : ~(<<y, x>> \in R)
  BY <1>3
<1>5. \A y \in S : ~(y < x)
  BY <1>2, <1>4, Zenon
<1> QED
  BY <1>5

(* The present slots can be counted.                                       *)
LEMMA PresentFinite ==
  ASSUME NEW s, Len(s) \in Nat
  PROVE  /\ Present(s) \in SUBSET (1..Len(s))
         /\ IsFiniteSet(Present(s)) /\ Cardinality(Present(s)) \in Nat
<1>1. Present(s) \in SUBSET (1..Len(s)) /\ IsFiniteSet(1..Len(s))
  BY FS_Interval DEF Present
<1> QED
  BY <1>1, FS_Subset, FS_CardinalityType

(* The numbers from 1 to n.                                                *)
LEMMA CountTo == \A n \in Nat : Cardinality(1..n) = n
  BY FS_Interval

(* Moving the numbers of a set changes none of its size.                   *)
LEMMA Shifted ==
  ASSUME NEW S \in SUBSET Int, NEW T \in SUBSET Int, NEW k \in Int, IsFiniteSet(S),
         \A i \in Int : i \in T <=> i + k \in S
  PROVE  Cardinality(T) = Cardinality(S)
<1> DEFINE g == [i \in S |-> i - k]
<1>1. g \in [S -> T]
  <2> SUFFICES ASSUME NEW i \in S PROVE i - k \in T
    OBVIOUS
  <2>1. i - k \in Int /\ (i - k) + k = i
    OBVIOUS
  <2> QED
    BY <2>1
<1>2. \A a, b \in S : g[a] = g[b] => a = b
  OBVIOUS
<1>3. \A t \in T : \E a \in S : g[a] = t
  <2> SUFFICES ASSUME NEW t \in T PROVE \E a \in S : g[a] = t
    OBVIOUS
  <2>1. t + k \in S /\ g[t + k] = t
    OBVIOUS
  <2> QED
    BY <2>1
<1> HIDE DEF g
<1>4. g \in Bijection(S, T)
  BY <1>1, <1>2, <1>3 DEF Bijection, Injection, Surjection, IsInjective
<1> QED
  BY <1>4, FS_Bijection DEF ExistsBijection

(* The end of a deque, from its k-th slot.                                 *)
LEMMA Suffix ==
  ASSUME NEW s, NEW f, Deque(s, f), NEW k \in 0..Len(s)
  PROVE  LET rest == SubSeq(s, k + 1, Len(s))
         IN  /\ Deque(rest, f + k) /\ Len(rest) = Len(s) - k
             /\ \A i \in 1..Len(rest) : rest[i] = s[i + k]
             /\ \A i \in Int : i \in Present(rest) <=> i > 0 /\ i + k \in Present(s)
             /\ Cardinality(Present(rest)) =
                  Cardinality(Present(s)) - Cardinality({i \in 1..k : s[i].present})
<1> DEFINE n == Len(s)
           rest == SubSeq(s, k + 1, n)
           low == {i \in 1..k : s[i].present}
           high == {i \in Present(s) : i > k}
<1>1. s \in Seq(Wrappers) /\ n \in Nat /\ f \in Int /\ k \in Nat
  BY LenProperties DEF Deque
<1>2. /\ rest \in Seq(Wrappers) /\ Len(rest) = n - k
      /\ \A i \in 1..(n - k) : rest[i] = s[i + k]
  BY <1>1
<1> HIDE DEF rest
<1>3. \A i \in Int : i \in Present(rest) <=> i > 0 /\ i + k \in Present(s)
  BY <1>1, <1>2 DEF Present
<1>4. \A i \in Present(s) : i \in 1..n
  BY DEF Present
<1>5. Deque(rest, f + k)
  <2> SUFFICES ASSUME NEW i \in Present(rest)
               PROVE  (f + k) + i - 1 \in Packets /\ rest[i].entry \in Entries
    BY <1>1, <1>2 DEF Deque
  <2>1. i \in 1..(n - k)
    BY <1>2 DEF Present
  <2>2. i + k \in Present(s) /\ rest[i] = s[i + k]
    BY <1>2, <1>3, <2>1
  <2>3. f + (i + k) - 1 \in Packets /\ s[i + k].entry \in Entries
    BY <2>2 DEF Deque
  <2>4. (f + k) + i - 1 = f + (i + k) - 1
    BY <1>1, <2>1
  <2> QED
    BY <2>2, <2>3, <2>4
<1>6. low = {i \in Present(s) : i <= k}
  BY <1>1 DEF Present
<1> HIDE DEF low
<1>7. low \cup high = Present(s) /\ low \cap high = {}
  BY <1>4, <1>6
<1>8. IsFiniteSet(low) /\ IsFiniteSet(high) /\ Cardinality(low) \in Nat /\ Cardinality(high) \in Nat
  <2>1. low \in SUBSET Present(s) /\ high \in SUBSET Present(s)
    BY <1>6
  <2>2. IsFiniteSet(Present(s))
    BY <1>1, PresentFinite
  <2> QED
    BY <2>1, <2>2, FS_Subset, FS_CardinalityType
<1>h. \A i \in Int : i \in high <=> i \in Present(s) /\ i > k
  BY <1>4
<1> HIDE DEF high
<1>9. Cardinality(Present(s)) = Cardinality(low) + Cardinality(high)
  <2>1. Cardinality(low \cup high) = Cardinality(low) + Cardinality(high) - Cardinality(low \cap high)
    BY <1>8, FS_Union
  <2>2. Cardinality(low \cup high) = Cardinality(Present(s)) /\ Cardinality(low \cap high) = 0
    BY <1>7, FS_EmptySet, Zenon
  <2> QED
    BY <1>8, <2>1, <2>2
<1>10. Cardinality(Present(rest)) = Cardinality(high)
  <2>1. high \in SUBSET Int /\ Present(rest) \in SUBSET Int
    BY <1>2, <1>4 DEF Present, high
  <2>2. \A i \in Int : i \in Present(rest) <=> i + k \in high
    BY <1>1, <1>3, <1>h
  <2> QED
    <3>1. k \in Int /\ IsFiniteSet(high)
      BY <1>1, <1>8
    <3> HIDE DEF rest
    <3> QED
      BY <2>1, <2>2, <3>1, Shifted, Zenon
<1> QED
  BY <1>2, <1>3, <1>5, <1>8, <1>9, <1>10 DEF rest, low

(* clearup drops the absent slots at the front: the packets found stay,    *)
(* and so does the end.                                                    *)
LEMMA Cleared ==
  ASSUME NEW s, NEW f, Deque(s, f)
  PROVE  LET c == clearup(s, f)
         IN  /\ Queue(c.entries, Cardinality(Present(s)), c.firstPacket)
             /\ \A q \in Int : Found(c.entries, c.firstPacket, q) <=> Found(s, f, q)
             /\ \A q \in Int : Found(s, f, q) =>
                  c.entries[q - c.firstPacket + 1] = s[q - f + 1]
             /\ c.entries # <<>> => c.firstPacket + Len(c.entries) = f + Len(s)
<1> DEFINE n == Len(s)
           dead == {i \in 1..n : \A j \in 1..i : ~s[j].present}
           gone == Cardinality(dead)
           rest == SubSeq(s, gone + 1, n)
           first == IF rest = <<>> THEN invalidPacketNumber ELSE f + gone
           c == clearup(s, f)
<1>1. s \in Seq(Wrappers) /\ n \in Nat /\ f \in Int
  BY LenProperties DEF Deque
<1>2. c.entries = rest /\ c.firstPacket = first
  BY DEF clearup
<1>3. \A i \in Int : i \in Present(s) <=> i \in 1..n /\ s[i].present
  BY <1>1 DEF Present
<1>4. \A i \in 1..n : i \in dead <=> \A j \in 1..i : j \notin Present(s)
  BY <1>1, <1>3
<1>d. dead \in SUBSET (1..n)
  OBVIOUS
<1> HIDE DEF dead
<1>5. /\ gone \in 0..n /\ \A i \in 1..gone : i \notin Present(s)
      /\ gone < n => gone + 1 \in Present(s)
  <2>1. CASE Present(s) = {}
    <3>1. dead = 1..n
      <4>1. \A i \in 1..n : i \in dead
        BY <1>4, <2>1, Zenon
      <4> QED
        BY <1>d, <4>1, Zenon
    <3>2. Cardinality(1..n) = n
      BY <1>1, CountTo
    <3>3. gone = n
      BY <3>1, <3>2, Zenon
    <3> QED
      BY <1>1, <2>1, <3>3
  <2>2. CASE Present(s) # {}
    <3>1. PICK k \in Present(s) : \A i \in Present(s) : k <= i
      <4>1. Present(s) \in SUBSET Nat
        BY <1>1 DEF Present
      <4> QED
        BY <2>2, <4>1, LeastNumber
    <3>2. k \in 1..n
      BY <1>1, PresentFinite
    <3>3. dead = 1..(k - 1)
      <4>1. \A i \in 1..n : i \in dead <=> i < k
        <5> SUFFICES ASSUME NEW i \in 1..n PROVE i \in dead <=> i < k
          OBVIOUS
        <5>1. i < k => i \in dead
          BY <1>4, <3>1, <3>2
        <5>2. i >= k => i \notin dead
          BY <1>4, <3>1, <3>2
        <5> QED
          BY <3>2, <5>1, <5>2
      <4>2. \A i \in 1..(k - 1) : i \in 1..n /\ i < k
        BY <1>1, <3>2
      <4>3. \A i \in 1..n : i < k => i \in 1..(k - 1)
        BY <1>1, <3>2
      <4> QED
        BY <1>d, <4>1, <4>2, <4>3, Zenon
    <3>5. Cardinality(1..(k - 1)) = k - 1
      BY <3>2, CountTo
    <3>4. gone = k - 1
      BY <3>3, <3>5, Zenon
    <3> QED
      BY <1>1, <3>1, <3>2, <3>4
  <2> QED
    BY <2>1, <2>2
<1> HIDE DEF gone
<1>6. /\ Deque(rest, f + gone) /\ Len(rest) = n - gone
      /\ \A i \in 1..Len(rest) : rest[i] = s[i + gone]
      /\ \A i \in Int : i \in Present(rest) <=> i > 0 /\ i + gone \in Present(s)
      /\ Cardinality(Present(rest)) =
           Cardinality(Present(s)) - Cardinality({i \in 1..gone : s[i].present})
  BY <1>5, Suffix
<1>7. Cardinality(Present(rest)) = Cardinality(Present(s))
  <2>1. {i \in 1..gone : s[i].present} = {}
    BY <1>1, <1>3, <1>5
  <2>2. Cardinality({i \in 1..gone : s[i].present}) = 0
    BY <2>1, FS_EmptySet, Zenon
  <2>3. Cardinality(Present(s)) \in Nat
    BY <1>1, PresentFinite
  <2> QED
    BY <1>6, <2>2, <2>3
<1>8. rest = <<>> <=> gone = n
  <2>1. rest \in Seq(Wrappers)
    BY <1>6 DEF Deque
  <2> QED
    <3>1. rest = <<>> <=> Len(rest) = 0
      BY <2>1, EmptySeq
    <3> HIDE DEF rest
    <3> QED
      BY <1>1, <1>5, <1>6, <3>1
<1> HIDE DEF rest
<1>9. CASE rest = <<>>
  <2>1. first = invalidPacketNumber /\ gone = n /\ Present(s) = {} /\ Present(rest) = {}
    BY <1>1, <1>3, <1>5, <1>6, <1>8, <1>9 DEF Present
  <2>2. Queue(rest, Cardinality(Present(s)), first)
    BY <1>6, <1>7, <1>9, <2>1 DEF Queue, Deque, invalidPacketNumber
  <2> QED
    BY <1>2, <1>9, <2>1, <2>2 DEF Found
<1>10. CASE rest # <<>>
  <2>1. first = f + gone /\ gone < n
    BY <1>5, <1>8, <1>10
  <2> HIDE DEF first
  <2>2. 1 \in Present(rest)
    BY <1>5, <1>6, <2>1
  <2>3. Queue(rest, Cardinality(Present(s)), first)
    BY <1>6, <1>7, <1>10, <2>1, <2>2 DEF Queue
  <2>4. \A q \in Int : Found(rest, first, q) <=> Found(s, f, q)
    <3> SUFFICES ASSUME NEW q \in Int PROVE Found(rest, first, q) <=> Found(s, f, q)
      OBVIOUS
    <3>1. q - first + 1 \in Int /\ (q - first + 1) + gone = q - f + 1 /\ q - f + 1 \in Int
      BY <1>1, <1>5, <2>1
    <3>2. q - f + 1 \in Present(s) => q - first + 1 > 0
      BY <1>1, <1>3, <1>5, <2>1, <3>1
    <3> QED
      BY <1>6, <3>1, <3>2 DEF Found
  <2>5. \A q \in Int : Found(s, f, q) => rest[q - first + 1] = s[q - f + 1]
    <3> SUFFICES ASSUME NEW q \in Int, Found(s, f, q) PROVE rest[q - first + 1] = s[q - f + 1]
      OBVIOUS
    <3>1. (q - first + 1) + gone = q - f + 1
      BY <1>1, <1>5, <2>1
    <3>2. q - first + 1 \in 1..Len(rest)
      BY <2>4 DEF Found, Present
    <3> QED
      BY <1>6, <3>1, <3>2
  <2>6. first + Len(rest) = f + n
    BY <1>1, <1>5, <1>6, <2>1
  <2> QED
    BY <1>2, <2>3, <2>4, <2>5, <2>6
<1> QED
  BY <1>9, <1>10

(* A queue is empty when it counts no entry, and starts at a packet else.  *)
LEMMA QueueFacts ==
  ASSUME NEW s, NEW n, NEW f, Queue(s, n, f)
  PROVE  /\ n \in Nat /\ Len(s) \in Nat /\ f \in Int
         /\ n = 0 <=> s = <<>>
         /\ s = <<>> => f = -1 /\ Len(s) = 0 /\ Present(s) = {}
         /\ s # <<>> => f \in Packets /\ f \in Nat /\ Len(s) > 0 /\ 1 \in Present(s)
<1>1. s \in Seq(Wrappers) /\ Len(s) \in Nat /\ f \in Int
  BY LenProperties DEF Queue, Deque
<1>2. n \in Nat /\ (n = 0 <=> Present(s) = {})
  BY <1>1, PresentFinite, FS_EmptySet DEF Queue
<1>3. s = <<>> => f = -1 /\ Len(s) = 0 /\ Present(s) = {}
  BY EmptySeq DEF Queue, Present, invalidPacketNumber
<1>4. s # <<>> => 1 \in Present(s) /\ Len(s) > 0
  BY <1>1, EmptySeq DEF Queue
<1>5. 1 \in Present(s) => f \in Packets
  <2>1. 1 \in Present(s) => f + 1 - 1 \in Packets
    BY DEF Queue, Deque
  <2> QED
    BY <1>1, <2>1
<1> QED
  BY <1>1, <1>2, <1>3, <1>4, <1>5, PacketsAreNumbers

(* What Emplace makes of the deque behind its last packet.                 *)
Behind(s, f, p, e) == s \o [i \in 1..(p - f - Len(s)) |-> Hole] \o <<Wrapper(e)>>

(* The slots of the numbers skipped are holes, and one more is present.    *)
LEMMA EmplacedBehind ==
  ASSUME NEW s, NEW n, NEW f, Queue(s, n, f), s # <<>>, NEW p \in Packets, NEW e \in Entries,
         p > f + Len(s) - 1
  PROVE  LET t == Behind(s, f, p, e)
         IN  /\ Queue(t, n + 1, f) /\ t # <<>> /\ Len(t) = p - f + 1
             /\ Present(t) = Present(s) \cup {p - f + 1}
             /\ \A i \in Present(s) : t[i] = s[i]
             /\ t[p - f + 1] = Wrapper(e)
<1> DEFINE l == Len(s)
           m == p - f - l
           holes == [i \in 1..m |-> Hole]
           sh == s \o holes
           t == sh \o <<Wrapper(e)>>
           k == p - f + 1
<1>1. s \in Seq(Wrappers) /\ l \in Nat /\ f \in Int /\ n \in Nat /\ p \in Nat /\ 1 \in Present(s) /\ l > 0
  BY QueueFacts, PacketsAreNumbers DEF Queue, Deque
<1>2. m \in Nat /\ k = l + m + 1
  BY <1>1
<1>3. Hole \in Wrappers /\ Wrapper(e) \in Wrappers /\ Wrapper(e).entry = e
  BY DEF Hole, Wrapper, Wrappers
<1>4. ~Hole.present /\ Wrapper(e).present
  BY DEF Hole, Wrapper
<1> HIDE DEF m, k, l
<1>5. holes \in Seq(Wrappers) /\ Len(holes) = m /\ \A i \in 1..m : holes[i] = Hole
  BY <1>2, <1>3
<1> HIDE DEF holes
<1>6. /\ sh \in Seq(Wrappers) /\ Len(sh) = l + m
      /\ \A i \in 1..l : sh[i] = s[i]
      /\ \A i \in (l + 1)..(l + m) : sh[i] = Hole
  BY <1>1, <1>2, <1>5 DEF l
<1> HIDE DEF sh
<1>7. /\ t \in Seq(Wrappers) /\ Len(t) = l + m + 1
      /\ \A i \in 1..(l + m) : t[i] = sh[i]
      /\ t[l + m + 1] = Wrapper(e)
  BY <1>1, <1>2, <1>3, <1>6
<1> HIDE DEF t
<1>8. \A i \in 1..l : t[i] = s[i]
  BY <1>1, <1>2, <1>6, <1>7
<1>9. \A i \in (l + 1)..(l + m) : t[i] = Hole
  BY <1>1, <1>2, <1>6, <1>7
<1>10. \A i \in Int : i \in Present(t) <=> i \in Present(s) \/ i = k
  <2> SUFFICES ASSUME NEW i \in Int PROVE i \in Present(t) <=> i \in Present(s) \/ i = k
    OBVIOUS
  <2>1. CASE i \in 1..l
    <3>1. i # k /\ i \in 1..Len(t) /\ t[i] = s[i]
      BY <1>1, <1>2, <1>7, <1>8, <2>1
    <3> QED
      BY <2>1, <3>1 DEF Present, l
  <2>2. CASE i \in (l + 1)..(l + m)
    <3>1. i # k /\ i \notin 1..l /\ t[i] = Hole
      BY <1>1, <1>2, <1>9, <2>2
    <3> QED
      BY <1>4, <3>1 DEF Present, l
  <2>3. CASE i = k
    <3>1. t[i] = Wrapper(e) /\ i \in 1..Len(t)
      BY <1>1, <1>2, <1>7, <2>3
    <3> QED
      BY <1>4, <2>3, <3>1 DEF Present
  <2>4. CASE i \notin 1..k
    <3>1. i \notin 1..l /\ i \notin 1..Len(t) /\ i # k
      BY <1>1, <1>2, <1>7, <2>4
    <3> QED
      BY <3>1 DEF Present, l
  <2> QED
    BY <1>1, <1>2, <2>1, <2>2, <2>3, <2>4
<1>11. Present(t) = Present(s) \cup {k}
  <2>1. \A i \in Present(t) : i \in Int
    BY <1>7 DEF Present
  <2>2. \A i \in Present(s) : i \in Int
    BY <1>1 DEF Present, l
  <2>3. k \in Int
    BY <1>1, <1>2
  <2> QED
    BY <1>10, <2>1, <2>2, <2>3
<1>12. \A i \in Present(s) : i \in 1..l /\ t[i] = s[i]
  BY <1>8 DEF Present, l
<1>13. Cardinality(Present(t)) = n + 1
  <2>1. k \notin Present(s)
    BY <1>1, <1>2, <1>12
  <2>2. IsFiniteSet(Present(s)) /\ n = Cardinality(Present(s))
    BY <1>1, PresentFinite DEF Queue, l
  <2>3. Cardinality(Present(s) \cup {k}) = n + 1
    BY <2>1, <2>2, FS_AddElement
  <2> QED
    BY <1>11, <2>3, Zenon
<1>14. Deque(t, f)
  <2> SUFFICES ASSUME NEW i \in Present(t) PROVE f + i - 1 \in Packets /\ t[i].entry \in Entries
    BY <1>1, <1>7 DEF Deque
  <2>1. CASE i \in Present(s)
    BY <1>12, <2>1 DEF Queue, Deque
  <2>2. CASE i = k
    <3>1. f + i - 1 = p
      BY <1>1, <2>2 DEF k
    <3>2. t[i] = Wrapper(e)
      BY <1>2, <1>7, <2>2
    <3> QED
      BY <1>3, <3>1, <3>2
  <2> QED
    BY <1>11, <2>1, <2>2
<1>15. t # <<>> /\ 1 \in Present(t)
  BY <1>1, <1>11, <1>7, <1>2, EmptySeq
<1>16. Queue(t, n + 1, f)
  BY <1>13, <1>14, <1>15 DEF Queue
<1> QED
  BY <1>2, <1>7, <1>11, <1>12, <1>15, <1>16 DEF Behind, t, sh, holes, m, k, l

(* Emplace into an empty queue.                                            *)
LEMMA EmplacedFirst ==
  ASSUME NEW p \in Packets, NEW e \in Entries
  PROVE  LET t == Append(<<>>, Wrapper(e))
         IN  /\ Queue(t, 1, p) /\ t # <<>> /\ Len(t) = 1
             /\ Present(t) = {1} /\ t[1] = Wrapper(e)
<1> DEFINE t == Append(<<>>, Wrapper(e))
<1>1. Wrapper(e) \in Wrappers /\ Wrapper(e).entry = e /\ p \in Int /\ p + 1 - 1 = p
  BY PacketsAreNumbers DEF Wrapper, Wrappers
<1>2. Wrapper(e).present
  BY DEF Wrapper
<1>3. t \in Seq(Wrappers) /\ Len(t) = 1 /\ t[1] = Wrapper(e)
  BY <1>1
<1>4. t # <<>>
  BY <1>3, EmptySeq
<1> HIDE DEF t
<1>5. Present(t) = {1}
  <2>1. \A i \in 1..1 : t[i].present
    BY <1>2, <1>3
  <2> QED
    BY <1>3, <2>1 DEF Present
<1>6. Cardinality(Present(t)) = 1
  BY <1>5, FS_Singleton, Zenon
<1>7. Deque(t, p)
  BY <1>1, <1>3, <1>5 DEF Deque
<1> QED
  BY <1>3, <1>4, <1>5, <1>6, <1>7 DEF Queue, t

(* Remove clears the mark of a slot.                                       *)
LEMMA Unmarked ==
  ASSUME NEW s, NEW f, Deque(s, f), NEW k \in Present(s)
  PROVE  LET t == [s EXCEPT ![k].present = FALSE]
         IN  /\ Deque(t, f) /\ Len(t) = Len(s)
             /\ Present(t) = Present(s) \ {k}
             /\ Cardinality(Present(t)) = Cardinality(Present(s)) - 1
             /\ \A i \in Present(t) : t[i] = s[i]
<1> DEFINE w == [s[k] EXCEPT !.present = FALSE]
           t == [s EXCEPT ![k].present = FALSE]
<1>1. s \in Seq(Wrappers) /\ f \in Int /\ Len(s) \in Nat /\ k \in 1..Len(s)
  BY LenProperties DEF Deque, Present
<1>2. s[k] \in Wrappers
  BY <1>1, ElementOfSeq
<1>3. w \in Wrappers /\ w.entry = s[k].entry
  BY <1>2 DEF Wrappers
<1>4. ~w.present
  BY <1>2 DEF Wrappers
<1>5. t = [s EXCEPT ![k] = w]
  OBVIOUS
<1> HIDE DEF w, t
<1>6. t \in Seq(Wrappers) /\ Len(t) = Len(s) /\ t[k] = w /\ \A i \in 1..Len(s) : i # k => t[i] = s[i]
  BY <1>1, <1>3, <1>5
<1>7. \A i \in 1..Len(s) : i \in Present(t) <=> i \in Present(s) /\ i # k
  BY <1>4, <1>6 DEF Present
<1>8. Present(t) = Present(s) \ {k}
  <2>1. \A i \in Present(t) : i \in 1..Len(s)
    BY <1>6 DEF Present
  <2>2. \A i \in Present(s) : i \in 1..Len(s)
    BY DEF Present
  <2> QED
    BY <1>7, <2>1, <2>2
<1>9. Cardinality(Present(t)) = Cardinality(Present(s)) - 1
  <2>1. IsFiniteSet(Present(s))
    BY <1>1, PresentFinite
  <2>2. Cardinality(Present(s) \ {k}) = Cardinality(Present(s)) - 1
    BY <2>1, FS_RemoveElement
  <2> QED
    BY <1>8, <2>2, Zenon
<1>10. \A i \in Present(t) : t[i] = s[i]
  BY <1>6, <1>8 DEF Present
<1>11. Deque(t, f)
  BY <1>1, <1>6, <1>8, <1>10 DEF Deque
<1> QED
  BY <1>6, <1>8, <1>9, <1>10, <1>11 DEF t

(* getEntryWraper finds the packets of the present slots.                  *)
LEMMA EntryFound ==
  ASSUME NEW s, NEW n, NEW f, Queue(s, n, f), NEW q \in Int
  PROVE  (~(n = 0) /\ q >= f /\ q - f < Len(s) /\ s[q - f + 1].present) <=> Found(s, f, q)
<1>1. /\ n \in Nat /\ Len(s) \in Nat /\ f \in Int /\ (n = 0 <=> s = <<>>)
      /\ (s = <<>> => Len(s) = 0)
  BY QueueFacts
<1> DEFINE k == q - f + 1
<1>2. k \in 1..Len(s) <=> q >= f /\ q - f < Len(s)
  BY <1>1
<1>3. k \in 1..Len(s) => ~(n = 0)
  BY <1>1
<1> HIDE DEF k
<1>4. Found(s, f, q) <=> k \in 1..Len(s) /\ s[k].present
  BY DEF Found, Present, k
<1> QED
  BY <1>2, <1>3, <1>4 DEF k

(* The same of the state, before and after a step.                         *)
LEMMA EntriesFound ==
  /\ QueueIInv => \A q \in Int : HasEntry(q) <=> Found(entries, firstPacket, q)
  /\ QueueIInv' => \A q \in Int : HasEntry(q)' <=> Found(entries', firstPacket', q)
<1>1. QueueIInv => \A q \in Int : HasEntry(q) <=> Found(entries, firstPacket, q)
  BY EntryFound DEF QueueIInv, HasEntry, IsEmpty
<1>2. QueueIInv' => \A q \in Int : HasEntry(q)' <=> Found(entries', firstPacket', q)
  BY EntryFound DEF QueueIInv, HasEntry, IsEmpty
<1> QED
  BY <1>1, <1>2

(* The map of a deque, and its last packet.                                *)
Numbers(s, f) == {q \in Packets : Found(s, f, q)}
MapOf(s, f) == [q \in Numbers(s, f) |-> s[q - f + 1].entry]
LastOf(s, f) == IF s = <<>> THEN -1 ELSE f + Len(s) - 1

(* They are what the refinement mapping says.                              *)
LEMMA Mapped ==
  /\ QueueIInv =>
       /\ [p \in {q \in Packets : HasEntry(q)} |-> GetEntry(p)] = MapOf(entries, firstPacket)
       /\ LastPacket = LastOf(entries, firstPacket)
  /\ QueueIInv' =>
       /\ [p \in {q \in Packets : HasEntry(q)} |-> GetEntry(p)]' = MapOf(entries', firstPacket')
       /\ LastPacket' = LastOf(entries', firstPacket')
<1>1. QueueIInv => {q \in Packets : HasEntry(q)} = Numbers(entries, firstPacket)
  <2>1. QueueIInv => \A q \in Packets : HasEntry(q) <=> Found(entries, firstPacket, q)
    BY EntriesFound, PacketsAreNumbers
  <2> QED
    BY <2>1, Zenon DEF Numbers
<1>2. QueueIInv' => {q \in Packets : HasEntry(q)}' = Numbers(entries', firstPacket')
  <2>1. QueueIInv' => \A q \in Packets : HasEntry(q)' <=> Found(entries', firstPacket', q)
    BY EntriesFound, PacketsAreNumbers
  <2> QED
    BY <2>1, Zenon DEF Numbers
<1>3. QueueIInv => LastPacket = LastOf(entries, firstPacket)
  <2>1. QueueIInv => (numberOfPresentEntries = 0 <=> entries = <<>>)
    BY QueueFacts DEF QueueIInv
  <2> QED
    BY <2>1 DEF LastPacket, LastOf, IsEmpty, invalidPacketNumber
<1>4. QueueIInv' => LastPacket' = LastOf(entries', firstPacket')
  <2>1. QueueIInv' => (numberOfPresentEntries' = 0 <=> entries' = <<>>)
    BY QueueFacts DEF QueueIInv
  <2> QED
    BY <2>1 DEF LastPacket, LastOf, IsEmpty, invalidPacketNumber
<1>5. QueueIInv => [p \in {q \in Packets : HasEntry(q)} |-> GetEntry(p)]
                     = MapOf(entries, firstPacket)
  BY <1>1, Zenon DEF GetEntry, MapOf
<1>6. QueueIInv' => [p \in {q \in Packets : HasEntry(q)} |-> GetEntry(p)]'
                     = MapOf(entries', firstPacket')
  BY <1>2, Zenon DEF GetEntry, MapOf
<1> QED
  BY <1>3, <1>4, <1>5, <1>6

(* A step that loses the packets of S and no other drops them.             *)
Loses(s, f, t, g, S) ==
  /\ \A q \in Packets : Found(t, g, q) <=> Found(s, f, q) /\ q \notin S
  /\ \A q \in Packets : Found(t, g, q) => t[q - g + 1].entry = s[q - f + 1].entry
  /\ t # <<>> => g + Len(t) = f + Len(s)

(* What Drop of the packet map says of the two deques.                     *)
Drops(s, f, t, g, S) ==
  /\ MapOf(t, g) = [p \in DOMAIN MapOf(s, f) \ S |-> MapOf(s, f)[p]]
  /\ LastOf(t, g) = IF DOMAIN MapOf(t, g) = {} THEN -1 ELSE LastOf(s, f)

(* The first gives the second.                                             *)
LEMMA Dropped ==
  ASSUME NEW s, NEW n, NEW f, Queue(s, n, f), NEW t, NEW m, NEW g, Queue(t, m, g), NEW S,
         Loses(s, f, t, g, S)
  PROVE  Drops(s, f, t, g, S)
<1>1. DOMAIN MapOf(s, f) = Numbers(s, f) /\ DOMAIN MapOf(t, g) = Numbers(t, g)
  BY DEF MapOf
<1>2. Numbers(t, g) = Numbers(s, f) \ S
  BY DEF Numbers, Loses
<1>3. \A q \in Numbers(t, g) : t[q - g + 1].entry = MapOf(s, f)[q]
  BY <1>2 DEF MapOf, Numbers, Loses
<1>4. MapOf(t, g) = [p \in Numbers(t, g) |-> MapOf(s, f)[p]]
  BY <1>3 DEF MapOf
<1>5. Numbers(t, g) = {} <=> t = <<>>
  <2>1. t = <<>> => Present(t) = {}
    BY QueueFacts
  <2>2. t # <<>> => g \in Numbers(t, g)
    BY QueueFacts DEF Numbers, Found
  <2> QED
    BY <2>1, <2>2 DEF Numbers, Found
<1>6. t # <<>> => s # <<>>
  <2>1. s = <<>> => Present(s) = {}
    BY QueueFacts
  <2>2. s = <<>> => Numbers(s, f) = {}
    BY <2>1 DEF Numbers, Found
  <2> QED
    BY <1>2, <1>5, <2>2
<1>7. LastOf(t, g) = IF t = <<>> THEN -1 ELSE LastOf(s, f)
  <2>1. t # <<>> => g + Len(t) - 1 = f + Len(s) - 1
    <3>1. g \in Int /\ Len(t) \in Nat
      BY QueueFacts
    <3>2. f \in Int /\ Len(s) \in Nat
      BY QueueFacts
    <3> QED
      BY <3>1, <3>2 DEF Loses
  <2> QED
    BY <1>6, <2>1 DEF LastOf
<1> QED
  BY <1>1, <1>2, <1>4, <1>5, <1>7 DEF Drops

(* Emplace puts the packet behind all the others.                          *)
LEMMA EmplaceStep ==
  ASSUME QueueIInv, NEW p \in Packets, NEW e \in Entries, Emplace(p, e)
  PROVE  QueueIInv' /\ Map!Put(p, e) /\ (HasEntry(p) /\ GetEntry(p) = e)'
<1> DEFINE s == entries
           n == numberOfPresentEntries
           f == firstPacket
           t == entries'
           g == firstPacket'
<1>1. /\ n \in Nat /\ Len(s) \in Nat /\ f \in Int /\ (n = 0 <=> s = <<>>)
      /\ (s = <<>> => f = -1 /\ Len(s) = 0 /\ Present(s) = {})
      /\ (s # <<>> => f \in Nat)
  BY QueueFacts DEF QueueIInv
<1>2. p \in Nat
  BY PacketsAreNumbers
<1>3. /\ QueueIInv' /\ t # <<>> /\ Len(t) = p - g + 1
      /\ p > LastOf(s, f)
      /\ \A q \in Int : Found(t, g, q) <=> Found(s, f, q) \/ q = p
      /\ \A q \in Int : Found(s, f, q) => t[q - g + 1] = s[q - f + 1]
      /\ t[p - g + 1] = Wrapper(e)
  <2>1. CASE IsEmpty
    <3>1. s = <<>> /\ t = Append(<<>>, Wrapper(e)) /\ numberOfPresentEntries' = 1 /\ g = p
      BY <1>1, <2>1 DEF Emplace, IsEmpty
    <3>2. /\ Queue(t, 1, p) /\ t # <<>> /\ Len(t) = 1
          /\ Present(t) = {1} /\ t[1] = Wrapper(e)
      BY <3>1, EmplacedFirst
    <3>3. QueueIInv'
      BY <3>1, <3>2 DEF QueueIInv
    <3>4. \A q \in Int : Found(t, g, q) <=> q = p
      BY <1>2, <3>1, <3>2 DEF Found
    <3>5. \A q \in Int : ~Found(s, f, q)
      BY <1>1, <3>1 DEF Found
    <3>6. p - g + 1 = 1 /\ p > LastOf(s, f)
      BY <1>2, <3>1 DEF LastOf
    <3> HIDE DEF s, n, f, t, g
    <3> QED
      BY <3>2, <3>3, <3>4, <3>5, <3>6
  <2>2. CASE ~IsEmpty
    <3>1. /\ s # <<>> /\ p > f + Len(s) - 1
          /\ t = s \o [i \in 1..(p - f - Len(s)) |-> Hole] \o <<Wrapper(e)>>
          /\ numberOfPresentEntries' = n + 1 /\ g = f
      BY <1>1, <2>2 DEF Emplace, IsEmpty, LastPacket
    <3>2. /\ Queue(t, n + 1, f) /\ t # <<>> /\ Len(t) = p - f + 1
          /\ Present(t) = Present(s) \cup {p - f + 1}
          /\ \A i \in Present(s) : t[i] = s[i]
          /\ t[p - f + 1] = Wrapper(e)
      <4> DEFINE u == Behind(s, f, p, e)
      <4>1. Queue(s, n, f)
        BY DEF QueueIInv
      <4>2. t = u
        BY <3>1 DEF Behind
      <4> HIDE DEF s, n, f, t
      <4>3. /\ Queue(u, n + 1, f) /\ u # <<>> /\ Len(u) = p - f + 1
            /\ Present(u) = Present(s) \cup {p - f + 1}
            /\ \A i \in Present(s) : u[i] = s[i]
            /\ u[p - f + 1] = Wrapper(e)
        BY <3>1, <4>1, EmplacedBehind
      <4> HIDE DEF u
      <4> QED
        BY <4>2, <4>3
    <3>3. QueueIInv'
      BY <3>1, <3>2 DEF QueueIInv
    <3> HIDE DEF s, n, f, t, g
    <3>4. \A q \in Int : Found(t, g, q) <=> Found(s, f, q) \/ q = p
      <4> SUFFICES ASSUME NEW q \in Int PROVE Found(t, f, q) <=> Found(s, f, q) \/ q = p
        BY <3>1
      <4>1. q - f + 1 = p - f + 1 <=> q = p
        BY <1>1, <1>2
      <4> QED
        BY <3>2, <4>1 DEF Found
    <3>5. \A q \in Int : Found(s, f, q) => t[q - g + 1] = s[q - f + 1]
      BY <3>1, <3>2 DEF Found
    <3>6. p > LastOf(s, f)
      BY <3>1 DEF LastOf
    <3> QED
      BY <3>1, <3>2, <3>3, <3>4, <3>5, <3>6
  <2> QED
    BY <2>1, <2>2
<1>4. Wrapper(e).entry = e
  BY DEF Wrapper
<1>5. LastOf(t, g) = p
  <2>1. g \in Int /\ Len(t) \in Nat
    BY <1>3, QueueFacts DEF QueueIInv
  <2> HIDE DEF t, g
  <2> QED
    BY <1>2, <1>3, <2>1 DEF LastOf
<1>6. DOMAIN MapOf(s, f) = Numbers(s, f) /\ Numbers(t, g) = Numbers(s, f) \cup {p}
  <2> HIDE DEF s, f, t, g
  <2>1. \A q \in Packets : q \in Int
    BY PacketsAreNumbers
  <2> QED
    BY <1>3, <2>1 DEF MapOf, Numbers
<1>7. p \notin Numbers(s, f)
  <2>1. \A i \in Present(s) : i <= Len(s) /\ i \in Int /\ s # <<>>
    BY <1>1 DEF Present
  <2> HIDE DEF s, f
  <2>2. Found(s, f, p) => p <= f + Len(s) - 1 /\ s # <<>>
    BY <1>1, <1>2, <2>1 DEF Found
  <2>3. p > LastOf(s, f)
    BY <1>3
  <2>4. s # <<>> => p > f + Len(s) - 1
    BY <2>3 DEF LastOf
  <2> QED
    BY <1>1, <1>2, <2>2, <2>4 DEF Numbers
<1>8. MapOf(t, g) = [q \in DOMAIN MapOf(s, f) \cup {p} |-> IF q = p THEN e ELSE MapOf(s, f)[q]]
  <2> HIDE DEF s, f, t, g
  <2>1. \A q \in Numbers(s, f) : t[q - g + 1].entry = MapOf(s, f)[q] /\ q # p
    <3>1. \A q \in Numbers(s, f) : q \in Int /\ Found(s, f, q) /\ q # p
      BY <1>7, PacketsAreNumbers DEF Numbers
    <3>2. \A q \in Numbers(s, f) : t[q - g + 1] = s[q - f + 1]
      BY <1>3, <3>1
    <3> QED
      BY <3>1, <3>2 DEF MapOf
  <2>2. t[p - g + 1].entry = e
    BY <1>3, <1>4
  <2>3. \A q \in Numbers(t, g) :
          t[q - g + 1].entry = IF q = p THEN e ELSE MapOf(s, f)[q]
    BY <1>6, <2>1, <2>2
  <2>4. MapOf(t, g) = [q \in Numbers(t, g) |-> IF q = p THEN e ELSE MapOf(s, f)[q]]
    BY <2>3 DEF MapOf
  <2> QED
    BY <1>6, <2>4, Zenon
<1>9. Map!Put(p, e)
  BY <1>3, <1>5, <1>8, Mapped DEF Map!Put
<1>10. HasEntry(p)' /\ GetEntry(p)' = e
  <2>1. Found(entries', firstPacket', p)
    BY <1>2, <1>3
  <2>2. HasEntry(p)'
    BY <1>2, <1>3, <2>1, EntriesFound
  <2>3. GetEntry(p)' = e
    BY <1>3, <1>4 DEF GetEntry
  <2> QED
    BY <2>2, <2>3
<1> QED
  BY <1>3, <1>9, <1>10

(* Remove drops the packet that it is asked for.                           *)
LEMMA RemoveStep ==
  ASSUME QueueIInv, NEW p \in Packets, Remove(p)
  PROVE  QueueIInv' /\ Map!Drop({p})
<1> DEFINE s == entries
           f == firstPacket
           k == p - f + 1
           marked == [s EXCEPT ![k].present = FALSE]
           t == entries'
           g == firstPacket'
           m == numberOfPresentEntries'
<1>1. p \in Nat /\ f \in Int /\ Found(s, f, p) /\ Deque(s, f) /\ s # <<>>
  BY EntriesFound, QueueFacts, PacketsAreNumbers DEF Remove, QueueIInv, Queue, Found
<1>2. k \in Present(s) /\ k \in Int
  BY <1>1 DEF Found
<1>3. /\ Deque(marked, f) /\ Len(marked) = Len(s)
      /\ Present(marked) = Present(s) \ {k}
      /\ Cardinality(Present(marked)) = Cardinality(Present(s)) - 1
      /\ \A i \in Present(marked) : marked[i] = s[i]
  BY <1>1, <1>2, Unmarked
<1>4. m = Cardinality(Present(marked))
  BY <1>3 DEF Remove, QueueIInv, Queue
<1>5. /\ p = f => t = clearup(marked, f).entries /\ g = clearup(marked, f).firstPacket
      /\ p # f => t = marked /\ g = f
  BY DEF Remove
<1> HIDE DEF marked
<1>6. /\ Queue(t, m, g)
      /\ \A q \in Int : Found(t, g, q) <=> Found(marked, f, q)
      /\ \A q \in Int : Found(marked, f, q) => t[q - g + 1] = marked[q - f + 1]
      /\ t # <<>> => g + Len(t) = f + Len(marked)
  <2>1. CASE p = f
    <3> DEFINE c == clearup(marked, f)
    <3>1. /\ Queue(c.entries, Cardinality(Present(marked)), c.firstPacket)
          /\ \A q \in Int : Found(c.entries, c.firstPacket, q) <=> Found(marked, f, q)
          /\ \A q \in Int : Found(marked, f, q) =>
               c.entries[q - c.firstPacket + 1] = marked[q - f + 1]
          /\ c.entries # <<>> => c.firstPacket + Len(c.entries) = f + Len(marked)
      BY <1>3, Cleared
    <3>2. t = c.entries /\ g = c.firstPacket
      BY <1>5, <2>1
    <3> HIDE DEF c, t, g, m
    <3> QED
      BY <1>4, <3>1, <3>2
  <2>2. CASE p # f
    <3>1. t = marked /\ g = f
      BY <1>5, <2>2
    <3>2. 1 \in Present(s) /\ k # 1
      BY <1>1, <2>2 DEF QueueIInv, Queue
    <3>3. 1 \in Present(marked) /\ marked # <<>>
      <4>1. 1 \in Present(marked)
        BY <1>3, <3>2
      <4>2. 1 \in 1..Len(marked)
        BY <4>1 DEF Present
      <4> QED
        BY <4>1, <4>2, EmptySeq
    <3>4. Queue(t, m, g)
      BY <1>3, <1>4, <3>1, <3>3 DEF Queue
    <3> QED
      BY <3>1, <3>4
  <2> QED
    BY <2>1, <2>2
<1>7. QueueIInv'
  BY <1>6 DEF QueueIInv
<1> DEFINE n == numberOfPresentEntries
<1>8. Queue(s, n, f)
  BY DEF QueueIInv
<1> HIDE DEF s, f, t, g, m, n
<1>9. \A q \in Packets : Found(t, g, q) <=> Found(s, f, q) /\ q \notin {p}
  <2> SUFFICES ASSUME NEW q \in Packets PROVE Found(t, g, q) <=> Found(s, f, q) /\ q # p
    OBVIOUS
  <2>1. q \in Int /\ (q - f + 1 = k <=> q = p)
    BY <1>1, PacketsAreNumbers
  <2> QED
    BY <1>3, <1>6, <2>1 DEF Found
<1>10. \A q \in Packets : Found(t, g, q) => t[q - g + 1].entry = s[q - f + 1].entry
  <2> SUFFICES ASSUME NEW q \in Packets, Found(t, g, q) PROVE t[q - g + 1] = s[q - f + 1]
    OBVIOUS
  <2>1. q \in Int
    BY PacketsAreNumbers
  <2>2. Found(marked, f, q) /\ t[q - g + 1] = marked[q - f + 1]
    BY <1>6, <2>1
  <2> QED
    BY <1>3, <2>2 DEF Found
<1>11. Drops(s, f, t, g, {p})
  <2>1. t # <<>> => g + Len(t) = f + Len(s)
    BY <1>3, <1>6
  <2> QED
    <3>1. Loses(s, f, t, g, {p})
      BY <1>9, <1>10, <2>1 DEF Loses
    <3> QED
      BY <1>6, <1>8, <3>1, Dropped
<1>12. Map!Drop({p})
  BY <1>7, <1>11, Mapped DEF Map!Drop, Map!Without, Drops, s, f, t, g
<1> QED
  BY <1>7, <1>12

(* RemoveUpTo drops the packets below its argument.                        *)
LEMMA UpToStep ==
  ASSUME QueueIInv, NEW p \in Packets, RemoveUpTo(p)
  PROVE  /\ QueueIInv' /\ Map!Drop({q \in Packets : q < p})
         /\ \A q \in Packets : HasEntry(q)' = (HasEntry(q) /\ q >= p)
<1> DEFINE s == entries
           f == firstPacket
           n == numberOfPresentEntries
           t == entries'
           g == firstPacket'
           m == numberOfPresentEntries'
           l == Len(s)
           k == IF f = invalidPacketNumber \/ p <= f THEN 0 ELSE IF p - f <= l THEN p - f ELSE l
           rest == SubSeq(s, k + 1, l)
           c == clearup(rest, f + k)
           S == {q \in Packets : q < p}
<1>1. /\ Queue(s, n, f) /\ Deque(s, f) /\ n = Cardinality(Present(s))
      /\ t = c.entries /\ g = c.firstPacket
      /\ m = n - Cardinality({i \in 1..k : s[i].present})
  BY DEF RemoveUpTo, QueueIInv, Queue
<1>2. /\ p \in Nat /\ l \in Nat /\ f \in Int /\ (s = <<>> => f = -1 /\ l = 0)
      /\ (s # <<>> => f \in Nat)
  BY QueueFacts, PacketsAreNumbers DEF QueueIInv
<1>3. k \in 0..l /\ k \in Int
  BY <1>2
<1>4. \A i \in Int : i \in Present(s) => (i > k <=> f + i - 1 >= p)
  <2> SUFFICES ASSUME NEW i \in Int, i \in Present(s) PROVE i > k <=> f + i - 1 >= p
    OBVIOUS
  <2>1. i \in 1..l
    BY DEF Present
  <2>2. f \in Nat
    BY <1>2, <2>1
  <2> HIDE DEF s, f, l
  <2> QED
    BY <1>2, <2>1, <2>2 DEF invalidPacketNumber
<1> HIDE DEF k, s, f, n, t, g, m
<1>5. /\ Deque(rest, f + k) /\ Len(rest) = l - k
      /\ \A i \in 1..Len(rest) : rest[i] = s[i + k]
      /\ \A i \in Int : i \in Present(rest) <=> i > 0 /\ i + k \in Present(s)
      /\ Cardinality(Present(rest)) =
           Cardinality(Present(s)) - Cardinality({i \in 1..k : s[i].present})
  BY <1>1, <1>3, Suffix
<1> HIDE DEF rest
<1>6. /\ Queue(c.entries, Cardinality(Present(rest)), c.firstPacket)
      /\ \A q \in Int : Found(c.entries, c.firstPacket, q) <=> Found(rest, f + k, q)
      /\ \A q \in Int : Found(rest, f + k, q) =>
           c.entries[q - c.firstPacket + 1] = rest[q - (f + k) + 1]
      /\ c.entries # <<>> => c.firstPacket + Len(c.entries) = (f + k) + Len(rest)
  BY <1>5, Cleared
<1> HIDE DEF c
<1>7. Queue(t, m, g)
  BY <1>1, <1>5, <1>6
<1>8. \A q \in Packets : Found(rest, f + k, q) <=> Found(s, f, q) /\ q \notin S
  <2> SUFFICES ASSUME NEW q \in Packets
               PROVE  Found(rest, f + k, q) <=> Found(s, f, q) /\ q >= p
    BY <1>2, PacketsAreNumbers
  <2>1. q \in Int
    BY PacketsAreNumbers
  <2> DEFINE i == q - (f + k) + 1
             j == q - f + 1
  <2>2. i \in Int /\ j \in Int /\ i + k = j /\ f + j - 1 = q /\ (i > 0 <=> j > k)
    BY <1>2, <1>3, <2>1
  <2> HIDE DEF i, j
  <2>3. i \in Present(rest) <=> j \in Present(s) /\ j > k
    BY <1>5, <2>2
  <2>4. j \in Present(s) => (j > k <=> q >= p)
    BY <1>4, <2>2
  <2> QED
    BY <2>3, <2>4 DEF Found, i, j
<1>9. \A q \in Packets : Found(t, g, q) <=> Found(s, f, q) /\ q \notin S
  BY <1>1, <1>6, <1>8, PacketsAreNumbers
<1>10. \A q \in Packets : Found(t, g, q) => t[q - g + 1].entry = s[q - f + 1].entry
  <2> SUFFICES ASSUME NEW q \in Packets, Found(t, g, q) PROVE t[q - g + 1] = s[q - f + 1]
    OBVIOUS
  <2>1. q \in Int
    BY PacketsAreNumbers
  <2>2. Found(rest, f + k, q) /\ t[q - g + 1] = rest[q - (f + k) + 1]
    BY <1>1, <1>6, <2>1
  <2>3. q - (f + k) + 1 \in 1..Len(rest)
    BY <2>2 DEF Found, Present
  <2>4. (q - (f + k) + 1) + k = q - f + 1
    BY <1>2, <1>3, <2>1
  <2> QED
    BY <1>5, <2>2, <2>3, <2>4
<1>11. t # <<>> => g + Len(t) = f + Len(s)
  BY <1>1, <1>2, <1>3, <1>5, <1>6
<1>12. \A q \in Packets : q \in Int /\ (q \notin S <=> q >= p)
  BY <1>2, PacketsAreNumbers
<1> HIDE DEF S
<1>13. Drops(s, f, t, g, S)
  <2>1. Loses(s, f, t, g, S)
    BY <1>9, <1>10, <1>11 DEF Loses
  <2> QED
    BY <1>1, <1>7, <2>1, Dropped
<1>14. QueueIInv'
  BY <1>7 DEF QueueIInv, t, g, m
<1>15. Map!Drop(S)
  BY <1>13, <1>14, Mapped DEF Map!Drop, Map!Without, Drops, s, f, t, g
<1>16. \A q \in Packets : HasEntry(q)' <=> (HasEntry(q) /\ q >= p)
  BY <1>9, <1>12, <1>14, EntriesFound DEF s, f, t, g
<1>17. \A q \in Packets : HasEntry(q)' = (HasEntry(q) /\ q >= p)
  BY <1>16 DEF HasEntry
<1> QED
  BY <1>14, <1>15, <1>17 DEF S

(* The queue starts empty.                                                 *)
LEMMA QueueStarts == QueueInit => QueueIInv /\ Map!Init
<1> SUFFICES ASSUME QueueInit PROVE QueueIInv /\ Map!Init
  OBVIOUS
<1>1. entries = <<>> /\ numberOfPresentEntries = 0 /\ firstPacket = -1
  BY DEF QueueInit, invalidPacketNumber
<1>2. entries \in Seq(Wrappers) /\ Len(entries) = 0
  BY <1>1, EmptySeq
<1>3. Present(entries) = {}
  BY <1>2 DEF Present
<1>4. Cardinality(Present(entries)) = 0
  BY <1>3, FS_EmptySet, Zenon
<1>5. QueueIInv
  BY <1>1, <1>2, <1>3, <1>4 DEF QueueIInv, Queue, Deque, invalidPacketNumber
<1>6. Numbers(entries, firstPacket) = {}
  BY <1>3 DEF Numbers, Found
<1>7. MapOf(entries, firstPacket) = [p \in {} |-> {}] /\ LastOf(entries, firstPacket) = -1
  BY <1>1, <1>6 DEF MapOf, LastOf
<1>8. Map!Init
  BY <1>5, <1>7, Mapped DEF Map!Init
<1> QED
  BY <1>5, <1>8

(* Every step keeps the invariant and is a step of the map.                *)
LEMMA QueueStep ==
  ASSUME QueueIInv, [QueueNext]_queueVars
  PROVE  QueueIInv' /\ [Map!Next]_(Map!vars)
<1>1. ASSUME NEW p \in Packets, NEW e \in Entries, Emplace(p, e)
      PROVE  QueueIInv' /\ [Map!Next]_(Map!vars)
  BY <1>1, EmplaceStep DEF Map!Next
<1>2. ASSUME NEW p \in Packets, Remove(p) PROVE QueueIInv' /\ [Map!Next]_(Map!vars)
  BY <1>2, RemoveStep DEF Map!Next
<1>3. ASSUME NEW p \in Packets, RemoveUpTo(p) PROVE QueueIInv' /\ [Map!Next]_(Map!vars)
  BY <1>3, UpToStep DEF Map!Next
<1>4. CASE UNCHANGED queueVars
  <2>1. UNCHANGED <<entries, numberOfPresentEntries, firstPacket>>
    BY <1>4 DEF queueVars
  <2>2. QueueIInv'
    BY <2>1 DEF QueueIInv
  <2>3. UNCHANGED Map!vars
    BY <2>1, <2>2, Mapped DEF Map!vars
  <2> QED
    BY <2>2, <2>3
<1> QED
  BY <1>1, <1>2, <1>3, <1>4 DEF QueueNext

(* It makes a well-formed queue.                                           *)
LEMMA QueueGood == QueueIInv => QueueInv
<1> SUFFICES ASSUME QueueIInv PROVE QueueInv
  OBVIOUS
<1>1. /\ numberOfPresentEntries \in Nat /\ Len(entries) \in Nat /\ firstPacket \in Int
      /\ (numberOfPresentEntries = 0 <=> entries = <<>>)
      /\ (entries = <<>> => firstPacket = -1)
      /\ (entries # <<>> => firstPacket \in Packets /\ 1 \in Present(entries))
  BY QueueFacts DEF QueueIInv
<1>2. QueueTypeOK
  BY <1>1 DEF QueueTypeOK, QueueIInv, Queue, Deque, Wrappers, invalidPacketNumber
<1>3. CountExact
  BY <1>1 DEF CountExact, QueueIInv, Queue, Present, invalidPacketNumber
<1>4. FrontPresent
  BY <1>1 DEF FrontPresent, Present
<1> QED
  BY <1>2, <1>3, <1>4 DEF QueueInv

(* packet_number_indexed_queue.go: whatever is inserted and removed, the   *)
(* count is exact, a queue that is empty again is in its initial state,    *)
(* and no slot is held for packets before the lowest present one.          *)
THEOREM QueueCorrect == QueueSpec => []QueueInv
<1>1. QueueInit => QueueIInv
  BY QueueStarts
<1>2. QueueIInv /\ [QueueNext]_queueVars => QueueIInv'
  BY QueueStep
<1>3. QueueIInv => QueueInv
  BY QueueGood
<1> QED
  BY <1>1, <1>2, <1>3, PTL DEF QueueSpec

(* packet_number_indexed_queue.go implements a map from packet numbers to  *)
(* entries: GetEntry finds what Emplace put under that very number until   *)
(* Remove or RemoveUpTo drops it, through gaps and removals in any order.  *)
THEOREM QueueIsMap == QueueSpec => IsPacketMap
<1> DEFINE Calls ==
      \A p \in Packets :
        /\ \A e \in Entries : Emplace(p, e) => (HasEntry(p) /\ GetEntry(p) = e)'
        /\ RemoveUpTo(p) => \A q \in Packets : HasEntry(q)' = (HasEntry(q) /\ q >= p)
<1>1. QueueInit => QueueIInv /\ Map!Init
  BY QueueStarts
<1>2. QueueIInv /\ [QueueNext]_queueVars => QueueIInv' /\ [Map!Next]_(Map!vars)
  BY QueueStep
<1>3. QueueIInv => Calls
  <2> SUFFICES ASSUME QueueIInv, NEW p \in Packets
               PROVE  /\ \A e \in Entries : Emplace(p, e) => (HasEntry(p) /\ GetEntry(p) = e)'
                      /\ RemoveUpTo(p) => \A q \in Packets : HasEntry(q)' = (HasEntry(q) /\ q >= p)
    OBVIOUS
  <2>1. ASSUME NEW e \in Entries, Emplace(p, e) PROVE (HasEntry(p) /\ GetEntry(p) = e)'
    BY <2>1, EmplaceStep
  <2>2. ASSUME RemoveUpTo(p) PROVE \A q \in Packets : HasEntry(q)' = (HasEntry(q) /\ q >= p)
    BY <2>2, UpToStep
  <2> QED
    BY <2>1, <2>2
<1>4. CallsByNumber <=> [][Calls]_queueVars
  BY DEF CallsByNumber
<1> HIDE DEF Calls
<1> QED
  BY <1>1, <1>2, <1>3, <1>4, PTL DEF QueueSpec, IsPacketMap, Map!Spec

-----------------------------------------------------------------------------
(* The ack height tracker.                                                 *)

(* The three entries of an updated filter are old ones or the new one.     *)
LEMMA UpdatedEntries ==
  ASSUME NEW E, NEW f \in [1..3 -> E], NEW x, NEW t, NEW w, Estimate(x, t) \in E
  PROVE  /\ Update(f, x, t, w) \in [1..3 -> E]
         /\ \A i \in 1..3 : \/ Update(f, x, t, w)[i] = Estimate(x, t)
                            \/ \E j \in 1..3 : Update(f, x, t, w)[i] = f[j]
<1> DEFINE n == Estimate(x, t)
           Old(y) == y = n \/ \E j \in 1..3 : y = f[j]
           OK(g) == g \in [1..3 -> E] /\ \A i \in 1..3 : Old(g[i])
<1>1. \A y : Old(y) => y \in E
  OBVIOUS
<1>2. Old(n) /\ Old(f[1]) /\ Old(f[2]) /\ Old(f[3])
  OBVIOUS
<1> HIDE DEF n, Old
<1>3. ASSUME NEW a, NEW b, NEW c, Old(a), Old(b), Old(c) PROVE OK(<<a, b, c>>)
  <2>1. a \in E /\ b \in E /\ c \in E
    BY <1>1, <1>3
  <2>2. /\ <<a, b, c>> \in [1..3 -> E] /\ <<a, b, c>>[1] = a /\ <<a, b, c>>[2] = b
        /\ <<a, b, c>>[3] = c
    BY <2>1, TripleType
  <2> QED
    BY <1>3, <2>2
<1>4. OK(f)
  BY <1>2
<1> HIDE DEF OK
<1>5. \A g : OK(g) => Old(g[1]) /\ Old(g[2]) /\ Old(g[3])
  BY DEF OK
<1> DEFINE ins == Insert(f, x, t)
<1>6. OK(ins)
  BY <1>2, <1>3, <1>4 DEF Insert, n
<1> HIDE DEF ins
<1>7. OK(Promote(ins, x, t, w))
  BY <1>2, <1>3, <1>5, <1>6 DEF Promote, n
<1>8. OK(Refresh(ins, x, t, w))
  BY <1>2, <1>3, <1>5, <1>6 DEF Refresh, n
<1>9. OK(Reset(x, t))
  BY <1>2, <1>3 DEF Reset, n
<1>10. OK(Update(f, x, t, w))
  BY <1>7, <1>8, <1>9 DEF Update, ins
<1> QED
  BY <1>10 DEF OK, Old, n

(* The types of the filter in round r, and the heights that a bandwidth bw *)
(* leaves unexplained.                                                     *)
Events(r) == [bytesAcked : Nat, timeDelta : 0..MaxDelta, round : 0..r]
HeightTyped(f, r) ==
  f \in [est : [1..3 -> [sample : Int, time : 0..r]], event : [1..3 -> Events(r)]]
Fits(x, ev, bw) == x > 0 => x <= ev.bytesAcked - bytesFromBandwidthAndTimeDelta(bw, ev.timeDelta)
Unexplained(f, bw) == \A i \in 1..3 : Fits(f.est[i].sample, f.event[i], bw)

(* An insertion keeps the types, and the heights unexplained if the new    *)
(* one is.                                                                 *)
LEMMA HeightInserted ==
  ASSUME NEW r \in Nat, NEW f, HeightTyped(f, r), NEW x \in Int, NEW ev \in Events(r),
         NEW t \in 0..r, NEW bw \in Nat
  PROVE  /\ HeightTyped(FilterUpdate(f, x, ev, t), r)
         /\ Unexplained(f, bw) /\ Fits(x, ev, bw) => Unexplained(FilterUpdate(f, x, ev, t), bw)
<1> DEFINE E == [sample : Int, time : 0..r]
           n == Estimate(x, t)
           new == Update(f.est, x, t, HeightWindow)
           Pos(i) == CHOOSE j \in 1..3 : f.est[j] = new[i]
           event == [i \in 1..3 |-> IF new[i] = n THEN ev ELSE f.event[Pos(i)]]
           u == [est |-> new, event |-> event]
<1>1. FilterUpdate(f, x, ev, t) = u
  BY DEF FilterUpdate
<1>2. n \in E /\ n.sample = x
  BY DEF Estimate
<1>3. f.est \in [1..3 -> E] /\ f.event \in [1..3 -> Events(r)]
  BY DEF HeightTyped
<1> HIDE DEF E, n
<1>4. new \in [1..3 -> E] /\ \A i \in 1..3 : new[i] = n \/ \E j \in 1..3 : new[i] = f.est[j]
  BY <1>2, <1>3, UpdatedEntries DEF n
<1> HIDE DEF new
<1>5. \A i \in 1..3 : new[i] # n => Pos(i) \in 1..3 /\ f.est[Pos(i)] = new[i]
  BY <1>4
<1> HIDE DEF Pos
<1>6. \A i \in 1..3 : event[i] = IF new[i] = n THEN ev ELSE f.event[Pos(i)]
  OBVIOUS
<1>7. event \in [1..3 -> Events(r)]
  BY <1>3, <1>5
<1> HIDE DEF event
<1>8. HeightTyped(u, r)
  BY <1>4, <1>7 DEF HeightTyped, E
<1>9. ASSUME Unexplained(f, bw), Fits(x, ev, bw) PROVE Unexplained(u, bw)
  <2> SUFFICES ASSUME NEW i \in 1..3 PROVE Fits(new[i].sample, event[i], bw)
    BY DEF Unexplained
  <2>1. CASE new[i] = n
    BY <1>2, <1>6, <1>9, <2>1
  <2>2. CASE new[i] # n
    BY <1>5, <1>6, <1>9, <2>2 DEF Unexplained
  <2> QED
    BY <2>1, <2>2
<1> QED
  BY <1>1, <1>8, <1>9

(* Update inserts an old event again with its height at the new bandwidth. *)
LEMMA HeightReinserted ==
  ASSUME NEW r \in Nat, NEW f, NEW g, HeightTyped(f, r), HeightTyped(g, r), NEW bw \in Nat,
         Unexplained(g, bw), NEW i \in 1..3
  PROVE  HeightTyped(Reinsert(g, f, i, bw), r) /\ Unexplained(Reinsert(g, f, i, bw), bw)
<1> DEFINE ev == f.event[i]
           expected == bytesFromBandwidthAndTimeDelta(bw, ev.timeDelta)
           x == ev.bytesAcked - expected
<1>1. ev \in Events(r)
  BY DEF HeightTyped
<1>2. ev.bytesAcked \in Nat /\ ev.timeDelta \in Nat /\ ev.round \in 0..r
  BY <1>1, AckHeightConstants DEF Events
<1>3. expected \in Int
  BY <1>2 DEF bytesFromBandwidthAndTimeDelta
<1>4. Reinsert(g, f, i, bw) = IF expected < ev.bytesAcked THEN FilterUpdate(g, x, ev, ev.round) ELSE g
  BY DEF Reinsert
<1>5. x \in Int /\ Fits(x, ev, bw)
  BY <1>2, <1>3 DEF Fits
<1> HIDE DEF ev, x, expected
<1>6. /\ HeightTyped(FilterUpdate(g, x, ev, ev.round), r)
      /\ Unexplained(FilterUpdate(g, x, ev, ev.round), bw)
  BY <1>1, <1>2, <1>5, HeightInserted
<1> QED
  BY <1>4, <1>6

(* A tracker without heights.                                              *)
LEMMA HeightsEmpty ==
  ASSUME NEW r \in Nat, NEW bw \in Nat
  PROVE  HeightTyped(NoHeights, r) /\ Unexplained(NoHeights, bw)
<1>1. /\ Estimate(0, 0) \in [sample : Int, time : 0..r] /\ Estimate(0, 0).sample = 0
      /\ Event(0, 0, 0) \in Events(r)
  BY AckHeightConstants DEF Estimate, Event, Events
<1>2. /\ Clear \in [1..3 -> [sample : Int, time : 0..r]]
      /\ Clear[1] = Estimate(0, 0) /\ Clear[2] = Estimate(0, 0) /\ Clear[3] = Estimate(0, 0)
  BY <1>1, TripleType DEF Clear
<1>3. /\ NoHeights.est = Clear /\ NoHeights.event \in [1..3 -> Events(r)]
      /\ NoHeights = [est |-> NoHeights.est, event |-> NoHeights.event]
  BY <1>1 DEF NoHeights
<1>4. HeightTyped(NoHeights, r)
  BY <1>2, <1>3 DEF HeightTyped
<1>5. \A i \in 1..3 : NoHeights.est[i].sample = 0
  BY <1>1, <1>2, <1>3
<1> QED
  BY <1>4, <1>5 DEF Unexplained, Fits

(* After the three insertions no height is explained by the new bandwidth, *)
(* whatever the old ones were.                                             *)
LEMMA HeightsReduced ==
  ASSUME NEW r \in Nat, NEW f, HeightTyped(f, r), NEW bw \in Nat
  PROVE  HeightTyped(Reduced(f, bw), r) /\ Unexplained(Reduced(f, bw), bw)
<1> DEFINE g1 == Reinsert(NoHeights, f, 1, bw)
           g2 == Reinsert(g1, f, 2, bw)
<1>1. HeightTyped(NoHeights, r) /\ Unexplained(NoHeights, bw)
  BY HeightsEmpty
<1>2. HeightTyped(g1, r) /\ Unexplained(g1, bw)
  BY <1>1, HeightReinserted
<1> HIDE DEF g1
<1>3. HeightTyped(g2, r) /\ Unexplained(g2, bw)
  BY <1>2, HeightReinserted
<1> HIDE DEF g2
<1> QED
  BY <1>3, HeightReinserted DEF Reduced, g1, g2

(* A later round and a lower bandwidth keep what holds of the heights.     *)
LEMMA HeightsLater ==
  ASSUME NEW r \in Nat, NEW q \in Nat, r <= q, NEW f, HeightTyped(f, r)
  PROVE  HeightTyped(f, q)
<1>1. Events(r) \subseteq Events(q) /\ [sample : Int, time : 0..r] \subseteq [sample : Int, time : 0..q]
  BY DEF Events
<1>2. /\ f = [est |-> f.est, event |-> f.event] /\ f.est \in [1..3 -> [sample : Int, time : 0..r]]
      /\ f.event \in [1..3 -> Events(r)]
  BY DEF HeightTyped
<1>3. f.est \in [1..3 -> [sample : Int, time : 0..q]] /\ f.event \in [1..3 -> Events(q)]
  BY <1>1, <1>2
<1> QED
  BY <1>2, <1>3 DEF HeightTyped

(* A lower bandwidth explains fewer bytes.                                 *)
LEMMA HeightsLower ==
  ASSUME NEW r \in Nat, NEW f, HeightTyped(f, r), NEW bw \in Nat, NEW lower \in Nat, lower <= bw,
         Unexplained(f, bw)
  PROVE  Unexplained(f, lower)
<1> SUFFICES ASSUME NEW i \in 1..3 PROVE Fits(f.est[i].sample, f.event[i], lower)
  BY DEF Unexplained
<1> DEFINE x == f.est[i].sample
           n == f.event[i].bytesAcked
           d == f.event[i].timeDelta
<1>1. x \in Int /\ n \in Nat /\ d \in Nat
  BY AckHeightConstants DEF HeightTyped, Events
<1>2. x > 0 => x <= n - bw * d
  BY DEF Unexplained, Fits, bytesFromBandwidthAndTimeDelta
<1> HIDE DEF x, n, d
<1>3. lower * d <= bw * d
  <2> DEFINE k == bw - lower
  <2>1. k \in Nat /\ bw = lower + k
    OBVIOUS
  <2> HIDE DEF k
  <2>2. bw * d = lower * d + k * d
    BY <1>1, <2>1
  <2>3. k * d >= 0
    BY <1>1, <2>1
  <2> QED
    BY <1>1, <2>1, <2>2, <2>3
<1>4. x > 0 => x <= n - lower * d
  BY <1>1, <1>2, <1>3
<1> QED
  BY <1>4 DEF Fits, bytesFromBandwidthAndTimeDelta, x, n, d

(* The invariant in terms of the above.                                    *)
LEMMA HeightInvariant ==
  /\ AckHeightTypeOK <=> /\ HeightTyped(filter, round)
                         /\ epochStarted \in BOOLEAN /\ aggregationDelta \in 0..MaxDelta
                         /\ aggregationEpochBytes \in Nat /\ extraAcked \in Int
                         /\ bandwidth \in Bandwidths \cup {0} /\ round \in 0..MaxRound
                         /\ options \in Options
  /\ NoHeightOverstated <=> (options.reduce => Unexplained(filter, bandwidth))
<1>1. HeightTyped(filter, round) <=>
        filter \in [est : [1..3 -> [sample : Int, time : 0..round]],
                    event : [1..3 -> [bytesAcked : Nat, timeDelta : 0..MaxDelta, round : 0..round]]]
  BY DEF HeightTyped, Events
<1> QED
  BY <1>1 DEF AckHeightTypeOK, NoHeightOverstated, Unexplained, Fits

(* The parts of the invariant give it in the next state.                   *)
LEMMA HeightPrimed ==
  ASSUME HeightTyped(filter', round'), options'.reduce => Unexplained(filter', bandwidth'),
         epochStarted' \in BOOLEAN, aggregationDelta' \in 0..MaxDelta,
         aggregationEpochBytes' \in Nat, extraAcked' \in Int,
         bandwidth' \in Bandwidths \cup {0}, round' \in 0..MaxRound, options' \in Options
  PROVE  HeightInv'
<1>1. filter' \in [est : [1..3 -> [sample : Int, time : 0..round']],
                  event : [1..3 -> [bytesAcked : Nat, timeDelta : 0..MaxDelta, round : 0..round']]]
  BY DEF HeightTyped, Events
<1>2. AckHeightTypeOK'
  BY <1>1, Zenon DEF AckHeightTypeOK
<1>3. NoHeightOverstated'
  BY DEF NoHeightOverstated, Unexplained, Fits
<1> QED
  BY <1>2, <1>3 DEF HeightInv

(* The tracker starts in its invariant.                                    *)
LEMMA HeightStarts == HeightInit => HeightInv
<1> SUFFICES ASSUME HeightInit PROVE HeightInv
  OBVIOUS
<1>1. filter = NoHeights /\ round = 0 /\ bandwidth = 0 /\ options \in Options
  BY DEF HeightInit
<1>2. HeightTyped(filter, round) /\ Unexplained(filter, bandwidth)
  BY <1>1, HeightsEmpty
<1>3. /\ aggregationDelta \in 0..MaxDelta /\ aggregationEpochBytes \in Nat
      /\ extraAcked \in Int /\ round \in 0..MaxRound
  BY AckHeightConstants DEF HeightInit
<1>4. epochStarted \in BOOLEAN
  BY DEF HeightInit
<1> QED
  BY <1>1, <1>2, <1>3, <1>4, HeightInvariant DEF HeightInv

(* An ack event: the heights are reduced whenever the bandwidth grows, and *)
(* a new height is what the bandwidth leaves of the epoch.                 *)
LEMMA AckStep ==
  ASSUME HeightInv, AckEvent
  PROVE  /\ HeightInv'
         /\ extraAcked' >= 0 /\ (extraAcked' = 0 <=> EpochEnds(bandwidth'))
<1>1. PICK bw \in Bandwidths, isNew \in BOOLEAN, t \in {round, round + 1}, got \in AckedBytes :
        /\ bw > bandwidth => isNew
        /\ t <= MaxRound
        /\ TrackerUpdate(bw, isNew, t, got)
        /\ bandwidth' = bw /\ round' = t /\ options' = options
  BY DEF AckEvent
<1>2. /\ bw \in Nat /\ got \in Nat \ {0} /\ bandwidth \in Nat /\ round \in Nat /\ t \in Nat
      /\ round <= t /\ t \in 0..MaxRound /\ aggregationDelta \in Nat
      /\ aggregationEpochBytes \in Nat /\ options \in Options
  BY <1>1, AckHeightConstants DEF HeightInv, AckHeightTypeOK
<1>3. HeightTyped(filter, t) /\ (options.reduce => Unexplained(filter, bandwidth))
  BY <1>2, HeightInvariant, HeightsLater DEF HeightInv
<1> DEFINE kept == IF options.reduce /\ isNew THEN Reduced(filter, bw) ELSE filter
           bytes == aggregationEpochBytes + got
           covered == bytesFromBandwidthAndTimeDelta(bw, aggregationDelta)
           extra == bytes - covered
           ev == Event(bytes, aggregationDelta, 0)
<1>4. HeightTyped(kept, t) /\ (options.reduce => Unexplained(kept, bw))
  <2>1. CASE options.reduce /\ isNew
    BY <1>2, <1>3, <2>1, HeightsReduced
  <2>2. CASE ~(options.reduce /\ isNew)
    <3>1. kept = filter
      BY <2>2
    <3>2. options.reduce => bw <= bandwidth
      BY <1>1, <1>2, <2>2
    <3>3. options.reduce => Unexplained(filter, bw)
      BY <1>2, <1>3, <3>2, HeightsLower
    <3> QED
      BY <1>3, <3>1, <3>3
  <2> QED
    BY <2>1, <2>2
<1> HIDE DEF kept
<1>5. covered \in Nat /\ bytes \in Nat /\ extra \in Int
  BY <1>2 DEF bytesFromBandwidthAndTimeDelta
<1>6. ev \in Events(t) /\ Fits(extra, ev, bw)
  BY <1>2, <1>5 DEF Event, Events, Fits, HeightInv, AckHeightTypeOK
<1>7. ~EpochEnds(bw) => extra > 0
  <2>1. options.threshold \in {1, 2}
    BY <1>2, AckHeightConstants
  <2> QED
    BY <1>2, <1>5, <2>1 DEF EpochEnds
<1> HIDE DEF covered, bytes, extra, ev
<1>8. CASE EpochEnds(bw)
  <2>1. /\ filter' = kept /\ epochStarted' = TRUE /\ aggregationDelta' = 0
        /\ aggregationEpochBytes' = got /\ extraAcked' = 0
    BY <1>1, <1>8 DEF TrackerUpdate, kept
  <2>2. /\ epochStarted' \in BOOLEAN /\ aggregationDelta' \in 0..MaxDelta
        /\ aggregationEpochBytes' \in Nat /\ extraAcked' \in Int
    BY <1>2, <2>1, AckHeightConstants
  <2>3. HeightInv'
    BY <1>1, <1>2, <1>4, <2>1, <2>2, HeightPrimed
  <2>4. extraAcked' >= 0 /\ extraAcked' = 0 /\ EpochEnds(bandwidth')
    BY <1>1, <1>8, <2>1
  <2> QED
    BY <2>3, <2>4
<1>9. CASE ~EpochEnds(bw)
  <2>1. /\ filter' = FilterUpdate(kept, extra, ev, t) /\ epochStarted' = epochStarted
        /\ aggregationDelta' = aggregationDelta
        /\ aggregationEpochBytes' = bytes /\ extraAcked' = extra
    BY <1>1, <1>9 DEF TrackerUpdate, kept, extra, ev, bytes, covered
  <2>2. /\ epochStarted' \in BOOLEAN /\ aggregationDelta' \in 0..MaxDelta
        /\ aggregationEpochBytes' \in Nat /\ extraAcked' \in Int
    BY <1>5, <2>1 DEF HeightInv, AckHeightTypeOK
  <2>3. /\ HeightTyped(filter', t) /\ (options.reduce => Unexplained(filter', bw))
    <3>1. t \in 0..t
      BY <1>2
    <3> QED
      BY <1>2, <1>4, <1>5, <1>6, <2>1, <3>1, HeightInserted
  <2>4. HeightInv'
    BY <1>1, <1>2, <2>2, <2>3, HeightPrimed
  <2>5. extraAcked' > 0 /\ ~EpochEnds(bandwidth')
    BY <1>1, <1>7, <1>9, <2>1
  <2>6. extraAcked' >= 0 /\ extraAcked' # 0
    BY <2>2, <2>5
  <2> QED
    BY <2>4, <2>5, <2>6
<1> QED
  BY <1>8, <1>9

(* Every step of the tracker.                                              *)
LEMMA HeightStep ==
  HeightInv /\ [HeightNext]_heightVars =>
    /\ HeightInv'
    /\ AckEvent => /\ extraAcked' >= 0
                   /\ extraAcked' = 0 <=> EpochEnds(bandwidth')
<1> SUFFICES ASSUME HeightInv, [HeightNext]_heightVars PROVE HeightInv'
  BY AckStep
<1>1. CASE AckEvent
  BY <1>1, AckStep
<1>2. CASE ResetMaxAckHeightTracker
  <2> DEFINE est0 == Reset(0, round)
             event == [i \in 1..3 |-> Event(0, 0, round)]
  <2>1. /\ filter' = [est |-> est0, event |-> event]
        /\ UNCHANGED <<options, epochStarted, aggregationDelta, aggregationEpochBytes, bandwidth,
                       round, extraAcked>>
    BY <1>2 DEF ResetMaxAckHeightTracker
  <2>2. round \in Nat /\ bandwidth \in Nat
    BY AckHeightConstants DEF HeightInv, AckHeightTypeOK
  <2>3. /\ Estimate(0, round) \in [sample : Int, time : 0..round]
        /\ Estimate(0, round).sample = 0 /\ Event(0, 0, round) \in Events(round)
    BY <2>2, AckHeightConstants DEF Estimate, Event, Events
  <2>4. /\ est0 \in [1..3 -> [sample : Int, time : 0..round]]
        /\ \A i \in 1..3 : est0[i] = Estimate(0, round)
    BY <2>3, TripleType DEF Reset
  <2>5. event \in [1..3 -> Events(round)]
    BY <2>3
  <2> HIDE DEF est0, event
  <2>6. HeightTyped(filter', round)
    BY <2>1, <2>4, <2>5 DEF HeightTyped
  <2>7. \A i \in 1..3 : filter'.est[i].sample = 0
    BY <2>1, <2>3, <2>4
  <2>8. Unexplained(filter', bandwidth)
    BY <2>7 DEF Unexplained, Fits
  <2> QED
    BY <2>1, <2>6, <2>8, HeightPrimed DEF HeightInv, AckHeightTypeOK
<1>3. CASE HeightTick
  <2>1. /\ aggregationDelta' \in 0..MaxDelta
        /\ UNCHANGED <<options, filter, epochStarted, aggregationEpochBytes, bandwidth, round,
                       extraAcked>>
    BY <1>3, AckHeightConstants DEF HeightTick, HeightInv, AckHeightTypeOK
  <2> QED
    BY <2>1, HeightPrimed, HeightInvariant DEF HeightInv, AckHeightTypeOK
<1>4. CASE UNCHANGED heightVars
  <2>1. UNCHANGED <<options, filter, epochStarted, aggregationDelta, aggregationEpochBytes,
                    bandwidth, round, extraAcked>>
    BY <1>4 DEF heightVars
  <2> QED
    BY <2>1, HeightPrimed, HeightInvariant DEF HeightInv, AckHeightTypeOK
<1> QED
  BY <1>1, <1>2, <1>3, <1>4 DEF HeightNext

(* maxAckHeightTracker: with reduceExtraAckedOnBandwidthIncrease, no       *)
(* height of the filter ever counts bytes that the current bandwidth       *)
(* explains, for every window, bandwidth and threshold.                    *)
THEOREM HeightCorrect == HeightSpec => []HeightInv
<1> QED
  BY HeightStarts, HeightStep, PTL DEF HeightSpec

(* maxAckHeightTracker.Update: an ack event returns no negative height, and *)
(* zero exactly when it starts a new aggregation epoch.                    *)
THEOREM HeightEpochs == HeightSpec => ZeroMeansNewEpoch
<1> DEFINE Rule == AckEvent => /\ extraAcked' >= 0
                               /\ extraAcked' = 0 <=> EpochEnds(bandwidth')
<1>1. HeightInv /\ [HeightNext]_heightVars => Rule
  BY HeightStep
<1>2. ZeroMeansNewEpoch <=> [][Rule]_heightVars
  BY DEF ZeroMeansNewEpoch
<1> HIDE DEF Rule
<1> QED
  BY <1>1, <1>2, HeightCorrect, PTL DEF HeightSpec

-----------------------------------------------------------------------------
(* The pacer.  Products of naturals grow with their factors.               *)
LEMMA ProductGrows ==
  ASSUME NEW a \in Nat, NEW b \in Nat, NEW c \in Nat, a <= b
  PROVE  a * c \in Nat /\ b * c \in Nat /\ a * c <= b * c /\ c * a <= c * b
  OBVIOUS

(* What division by a positive number leaves.                             *)
LEMMA DivisionFacts ==
  ASSUME NEW x \in Int, NEW d \in Nat \ {0}
  PROVE  /\ x \div d \in Int /\ x % d \in Int /\ 0 <= x % d /\ x % d < d
         /\ x = d * (x \div d) + (x % d)
         /\ x >= 0 => x \div d >= 0
<1>1. x \div d \in Int /\ x % d \in Int
  OBVIOUS
<1>2. 0 <= x % d /\ x % d < d
  OBVIOUS
<1>3. x = d * (x \div d) + (x % d)
  OBVIOUS
<1>4. x >= 0 => x \div d >= 0
  <2> DEFINE p == x \div d
             u == x % d
  <2>1. p \in Int /\ u \in Int /\ u < d /\ x = d * p + u
    BY <1>1, <1>2, <1>3
  <2> SUFFICES ASSUME x >= 0, p < 0 PROVE FALSE
    BY <1>1
  <2> HIDE DEF p, u
  <2>2. d * p <= d * (0 - 1)
    BY <2>1
  <2> QED
    BY <2>1, <2>2
<1> QED
  BY <1>1, <1>2, <1>3, <1>4


(* A larger number has a larger quotient.                                  *)
LEMMA DivisionGrows ==
  ASSUME NEW x \in Int, NEW y \in Int, NEW d \in Nat \ {0}, x <= y
  PROVE  x \div d <= y \div d
<1> DEFINE p == x \div d
           q == y \div d
           u == x % d
           v == y % d
<1>1. /\ p \in Int /\ u \in 0..(d - 1) /\ x = d * p + u
      /\ q \in Int /\ v \in 0..(d - 1) /\ y = d * q + v
  BY DivisionFacts
<1> SUFFICES ASSUME p > q PROVE FALSE
  BY <1>1
<1> HIDE DEF p, q, u, v
<1>2. d * p >= d * (q + 1)
  BY <1>1
<1>3. d * (q + 1) = d * q + d
  BY <1>1
<1> QED
  BY <1>1, <1>2, <1>3

(* An integer that overflows once at most.                                 *)
LEMMA WrapFacts ==
  ASSUME NEW x \in Nat
  PROVE  /\ Wrap(x) \in Int /\ Wrap(x) <= x
         /\ Wrap(x) < 0 => x >= HalfRange
         /\ x < 2 * HalfRange => Wrap(x) = x \/ Wrap(x) = x - 2 * HalfRange
         /\ Wrap(x) >= 0 /\ x < 2 * HalfRange => Wrap(x) = x
<1> DEFINE h == HalfRange
           q == (x + h) \div (2 * h)
           u == (x + h) % (2 * h)
           p == 2 * h * q
<1>1. h \in Nat \ {0} /\ 2 * h \in Nat \ {0} /\ x + h \in Nat
  BY PacerConstants
<1>2. q \in Int /\ u \in Int /\ 0 <= u /\ u < 2 * h /\ x + h = 2 * h * q + u /\ q >= 0
  <2> HIDE DEF h
  <2>1. x + h \in Int /\ x + h >= 0
    BY <1>1
  <2> QED
    BY <1>1, <2>1, DivisionFacts
<1>3. Wrap(x) = u - h
  BY DEF Wrap
<1>4. p \in Int /\ p >= 0 /\ x + h = p + u
  <2> HIDE DEF h, q, u
  <2>1. 2 * h * q \in Nat
    BY <1>1, <1>2
  <2> QED
    BY <2>1, <1>2
<1>5. q = 0 => p = 0
  BY <1>1
<1>6. q > 0 => p >= 2 * h
  <2> HIDE DEF h, q, u
  <2> SUFFICES ASSUME q > 0 PROVE 2 * h * q >= 2 * h
    OBVIOUS
  <2>1. 1 \in Nat /\ q \in Nat /\ 1 <= q
    BY <1>2
  <2>2. (2 * h) * 1 <= (2 * h) * q
    BY <1>1, <2>1, ProductGrows
  <2> QED
    BY <1>1, <1>2, <2>2
<1>7. q = 1 => p = 2 * h
  BY <1>1
<1>8. q > 1 => p >= 4 * h
  <2> HIDE DEF h, q, u
  <2> SUFFICES ASSUME q > 1 PROVE 2 * h * q >= 4 * h
    OBVIOUS
  <2>1. 2 \in Nat /\ q \in Nat /\ 2 <= q
    BY <1>2
  <2>2. (2 * h) * 2 <= (2 * h) * q
    BY <1>1, <2>1, ProductGrows
  <2> QED
    BY <1>1, <1>2, <2>2
<1> HIDE DEF q, u, p
<1> QED
  BY <1>1, <1>2, <1>3, <1>4, <1>5, <1>6, <1>7, <1>8

(* DivisionFacts towards zero, by the ticks of a second.                        *)
LEMMA QuotFacts ==
  ASSUME NEW x \in Int
  PROVE  /\ Quot(x, Second) \in Int
         /\ x >= 0 => /\ Quot(x, Second) >= 0
                      /\ Second * Quot(x, Second) <= x
                      /\ x < Second * Quot(x, Second) + Second
         /\ x < 0 => /\ Quot(x, Second) <= 0
                     /\ -x < Second * (-Quot(x, Second)) + Second
<1>1. Second \in Nat \ {0}
  BY PacerConstants
<1>2. CASE x >= 0
  <2> DEFINE q == x \div Second
             u == x % Second
             p == Second * q
  <2>1. q \in Int /\ q >= 0 /\ u \in Int /\ 0 <= u /\ u < Second /\ x = p + u
    BY <1>1, <1>2, DivisionFacts
  <2>2. p \in Int
    BY <1>1, <2>1
  <2>3. Quot(x, Second) = q
    BY <1>2 DEF Quot
  <2>4. p <= x /\ x < p + Second
    <3> HIDE DEF p, q, u
    <3> QED
      BY <1>1, <2>1, <2>2
  <2> HIDE DEF q
  <2> QED
    BY <1>2, <2>1, <2>3, <2>4
<1>3. CASE x < 0
  <2> DEFINE q == (-x) \div Second
             u == (-x) % Second
             p == Second * q
  <2>0. -x \in Int /\ -x >= 0
    BY <1>3
  <2>1. q \in Int /\ q >= 0 /\ u \in Int /\ 0 <= u /\ u < Second /\ -x = p + u
    BY <1>1, <2>0, DivisionFacts
  <2>2. p \in Int
    BY <1>1, <2>1
  <2>3. Quot(x, Second) = -q
    BY <1>3 DEF Quot
  <2>4. -x < p + Second
    <3> HIDE DEF p, q, u
    <3> QED
      BY <1>1, <2>0, <2>1, <2>2
  <2>5. -Quot(x, Second) = q
    BY <2>1, <2>3
  <2> HIDE DEF q
  <2> QED
    BY <1>3, <2>1, <2>3, <2>4, <2>5
<1> QED
  BY <1>2, <1>3
(* The sizes a pacer is given.                                             *)
PacketSizes == Mtus \cup {InitialPacketSize}

(* The rate given to the pacer is positive and at most the highest one.    *)
LEMMA HighestFacts ==
  /\ HighestRate \in Nat \ {0}
  /\ \A r \in PacingRates : /\ bandwidthForPacer(r) \in Nat \ {0}
                             /\ bandwidthForPacer(r) <= HighestRate
<1> DEFINE top == CHOOSE r \in PacingRates : \A q \in PacingRates : q <= r
<1>1. top \in PacingRates /\ \A q \in PacingRates : q <= top
  BY PacerConstants
<1>2. HighestRate = bandwidthForPacer(top)
  BY DEF HighestRate
<1> HIDE DEF top
<1> QED
  BY <1>1, <1>2, PacerConstants DEF bandwidthForPacer

(* A burst holds a packet, and grows with the rate and the size.           *)
LEMMA BurstFacts ==
  ASSUME NEW r \in Nat, NEW s \in Nat
  PROVE  /\ MaxBurst(r, s) \in Nat /\ s <= MaxBurst(r, s)
         /\ \A q \in Nat, u \in Nat : r <= q /\ s <= u => MaxBurst(r, s) <= MaxBurst(q, u)
<1> DEFINE k == maxBurstPacingDelayMultiplier * MinPacingDelay
           n == maxBurstPackets
           portion(q) == (k * q) \div Second
           whole(u) == n * u
<1>1. k \in Nat /\ n \in Nat /\ 1 <= n /\ Second \in Nat \ {0}
  BY PacerConstants
<1>2. \A q, u : MaxBurst(q, u) = Larger(portion(q), whole(u))
  BY DEF MaxBurst
<1> HIDE DEF k, n
<1>3. ASSUME NEW q \in Nat PROVE portion(q) \in Nat /\ (r <= q => portion(r) <= portion(q))
  <2>1. k * q \in Nat /\ k * r \in Nat /\ (r <= q => k * r <= k * q)
    BY <1>1, ProductGrows
  <2>2. portion(q) \in Nat
    BY <1>1, <2>1, DivisionFacts
  <2>3. r <= q => portion(r) <= portion(q)
    BY <1>1, <2>1, DivisionGrows
  <2> QED
    BY <2>2, <2>3
<1>4. ASSUME NEW u \in Nat PROVE whole(u) \in Nat /\ (s <= u => whole(s) <= whole(u))
  BY <1>1, ProductGrows
<1>5. s <= whole(s)
  <2>1. 1 \in Nat
    OBVIOUS
  <2>2. 1 * s <= n * s
    BY <1>1, <2>1, ProductGrows
  <2> QED
    BY <1>1, <2>2
<1>6. portion(r) \in Nat /\ whole(s) \in Nat
  BY <1>3, <1>4
<1> HIDE DEF portion, whole
<1>7. MaxBurst(r, s) \in Nat /\ s <= MaxBurst(r, s)
  BY <1>2, <1>5, <1>6 DEF Larger
<1>8. ASSUME NEW q \in Nat, NEW u \in Nat, r <= q, s <= u PROVE MaxBurst(r, s) <= MaxBurst(q, u)
  <2>1. portion(q) \in Nat /\ whole(u) \in Nat /\ portion(r) <= portion(q) /\ whole(s) <= whole(u)
    BY <1>3, <1>4, <1>8
  <2> QED
    BY <1>2, <1>6, <2>1 DEF Larger
<1> QED
  BY <1>7, <1>8

(* At one rate it grows with the size.                                    *)
LEMMA BurstGrows ==
  ASSUME NEW r \in Nat, NEW s \in Nat, NEW u \in Nat, s <= u
  PROVE  MaxBurst(r, s) \in Nat /\ MaxBurst(r, u) \in Nat /\ MaxBurst(r, s) <= MaxBurst(r, u)
  BY BurstFacts

(* The types, with the sizes of sender and pacer in order.                 *)
PacerKept ==
  /\ PacerTypeOK
  /\ pacingRate \in PacingRates
  /\ pacerSize \in PacketSizes /\ senderSize <= pacerSize
  /\ sinceSent = Never => excess = 0

(* The inductive invariant: what was sent ahead of the highest rate and    *)
(* what may be sent at once are together a burst of some size.             *)
PacerIInv ==
  /\ PacerKept
  /\ \E s \in PacketSizes :
       /\ pacerSize <= s
       /\ excess + Second * budgetAtLastSent <= Second * MaxBurst(HighestRate, s)

(* What has passed since the last packet, at the highest rate.             *)
Drained == IF sinceSent = Never THEN 0 ELSE HighestRate * sinceSent

(* The budget fits in a burst, and grows by what was drained since the     *)
(* last packet unless the guard against overflows sets it.                 *)
LEMMA BudgetFacts ==
  ASSUME PacerKept
  PROVE  /\ Budget \in Nat /\ Budget <= maxBurstSize /\ maxBurstSize \in Nat
         /\ pacerSize <= maxBurstSize
         /\ maxBurstSize <= MaxBurst(HighestRate, pacerSize)
         /\ Drained \in Nat
         /\ sinceSent # Never => \/ Second * Budget <= Second * budgetAtLastSent + Drained
                                 \/ Drained >= HalfRange
<1> DEFINE b == budgetAtLastSent
           t == sinceSent
           r == getBandwidth
           x == r * t
           y == Wrap(x)
           z == Quot(y, Second)
<1>1. /\ b \in Nat /\ pacerSize \in Nat \ {0} /\ r \in Nat \ {0} /\ r <= HighestRate
      /\ HighestRate \in Nat \ {0} /\ (t # Never => t \in Nat)
      /\ Second \in Nat \ {0} /\ HalfRange \in Nat /\ HalfRange \div 2 - 1 \in Nat
  BY PacerConstants, HighestFacts DEF PacerKept, PacerTypeOK, getBandwidth
<1>2. /\ maxBurstSize \in Nat /\ pacerSize <= maxBurstSize
      /\ maxBurstSize <= MaxBurst(HighestRate, pacerSize)
  BY <1>1, BurstFacts DEF maxBurstSize
<1>3. CASE t = Never
  BY <1>1, <1>2, <1>3 DEF Budget, Drained
<1>4. CASE t # Never
  <2>1. x \in Nat /\ x <= HighestRate * t /\ HighestRate * t \in Nat
    BY <1>1, <1>4, ProductGrows
  <2>2. Drained = HighestRate * t
    BY <1>4 DEF Drained
  <2>3. y \in Int /\ y <= x /\ (y < 0 => x >= HalfRange)
    BY <2>1, WrapFacts
  <2>4. z \in Int /\ (y >= 0 => z >= 0 /\ Second * z <= y) /\ (y < 0 => z <= 0)
    BY <2>3, QuotFacts
  <2> DEFINE c == IF b + z < 0 THEN HalfRange \div 2 - 1 ELSE b + z
  <2>5. Budget = Smaller(maxBurstSize, c)
    BY <1>4 DEF Budget
  <2> HIDE DEF x, y, z
  <2>6. c \in Nat
    BY <1>1, <2>4
  <2>7. Budget \in Nat /\ Budget <= maxBurstSize /\ Budget <= c
    <3> HIDE DEF c
    <3> QED
      BY <1>2, <2>5, <2>6 DEF Smaller
  <2>8. CASE y < 0
    BY <2>1, <2>2, <2>3, <2>7, <2>8, <1>1, <1>2
  <2>9. CASE y >= 0
    <3>1. Budget <= b + z
      BY <1>1, <2>4, <2>7, <2>9
    <3>2. Second * Budget <= Second * (b + z)
      BY <1>1, <2>4, <2>7, <2>9, <3>1, ProductGrows
    <3>3. Second * (b + z) = Second * b + Second * z
      BY <1>1, <2>4
    <3>4. Second * Budget \in Int /\ Second * b \in Int /\ Second * z \in Int
      BY <1>1, <2>4, <2>7
    <3> QED
      BY <2>1, <2>2, <2>3, <2>4, <2>7, <2>9, <3>2, <3>3, <3>4, <1>2
  <2> QED
    BY <2>3, <2>8, <2>9
<1> QED
  BY <1>3, <1>4

(* Rounded up, the time until the budget suffices is not over while the    *)
(* bytes of that time do not make up what is missing.                      *)
LEMMA Ceiling ==
  ASSUME NEW d \in Nat, NEW r \in Nat \ {0}, NEW t \in Nat, r * t < d
  PROVE  t < (d \div r) + (IF d % r > 0 THEN 1 ELSE 0)
<1> DEFINE q == d \div r
           u == d % r
           n == q + (IF u > 0 THEN 1 ELSE 0)
<1>1. q \in Nat /\ u \in Nat /\ u < r /\ d = r * q + u
  BY DivisionFacts
<1> HIDE DEF q, u
<1> SUFFICES ASSUME t >= n PROVE FALSE
  BY <1>1 DEF q, u
<1>2. n \in Nat
  BY <1>1
<1>3. r * n <= r * t
  <2> HIDE DEF n
  <2> QED
    BY <1>2, ProductGrows
<1>4. r * q \in Nat /\ r * t \in Nat /\ r * n \in Nat
  BY <1>1, <1>2
<1>5. CASE u > 0
  <2>1. n = q + 1
    BY <1>5
  <2>2. r * n = r * q + r
    <3> HIDE DEF n
    <3> QED
      BY <1>1, <2>1
  <2> QED
    BY <1>1, <1>3, <1>4, <2>2
<1>6. CASE u = 0
  <2>1. n = q
    BY <1>6, <1>1
  <2>2. r * n = r * q
    BY <2>1
  <2> HIDE DEF n
  <2> QED
    BY <1>1, <1>3, <1>4, <1>6, <2>2
<1> QED
  BY <1>1, <1>5, <1>6

(* While products overflow once at most, the pacer does not spin: with the *)
(* budget below a packet the guard did not act, so that no product has     *)
(* overflowed and the rounded time lies ahead.                             *)
LEMMA PacerWaits ==
  ASSUME BurstsFit, ProductsFit, PacerIInv
  PROVE  NoSpin
<1> DEFINE b == budgetAtLastSent
           t == sinceSent
           r == getBandwidth
           x == r * t
           y == Wrap(x)
           z == Quot(y, Second)
           P == pacerSize
           H == HighestRate
<1>0. PacerKept
  BY DEF PacerIInv
<1>1. /\ b \in Nat /\ P \in Nat \ {0} /\ r \in Nat \ {0} /\ r <= H
      /\ H \in Nat \ {0} /\ (t # Never => t \in Nat /\ t <= MaxIdle)
      /\ Second \in Nat \ {0} /\ Second > 3 /\ HalfRange \in Nat /\ MaxIdle \in Nat
      /\ senderSize \in Nat /\ senderSize <= P /\ excess \in Nat /\ MinPacingDelay \in Nat
  BY <1>0, PacerConstants, HighestFacts DEF PacerKept, PacerTypeOK, getBandwidth
<1>2. maxBurstSize \in Nat /\ P <= maxBurstSize
  BY <1>0, BudgetFacts
<1> SUFFICES ASSUME ~HasPacingBudget PROVE t # Never /\ t < TimeUntilSend
  BY DEF NoSpin
<1>3. Budget < P
  BY <1>0, <1>1, BudgetFacts DEF HasPacingBudget
<1>4. t # Never
  BY <1>1, <1>2, <1>3 DEF Budget
<1>5. PICK s \in PacketSizes :
        /\ P <= s
        /\ excess + Second * b <= Second * MaxBurst(H, s)
  BY DEF PacerIInv
<1> DEFINE M == MaxBurst(H, s)
<1>6. s \in Nat \ {0}
  BY PacerConstants DEF PacketSizes
<1>7. M \in Nat /\ s <= M /\ P <= M
  BY <1>1, <1>5, <1>6, BurstFacts
<1>8. Second * M <= HalfRange /\ H * MaxIdle + Second * (M + 1) <= 2 * HalfRange
  BY <1>5 DEF BurstsFit, ProductsFit, PacketSizes
<1>9. excess + Second * b <= Second * M
  BY <1>5
<1> HIDE DEF M, H, P, r, b
<1>10. /\ x \in Nat /\ x <= H * t /\ H * t \in Nat /\ H * MaxIdle \in Nat /\ H * t <= H * MaxIdle
  <2>1. x \in Nat /\ x <= H * t /\ H * t \in Nat
    BY <1>1, <1>4, ProductGrows
  <2>2. H * t <= H * MaxIdle /\ H * MaxIdle \in Nat
    BY <1>1, <1>4, ProductGrows
  <2> QED
    BY <2>1, <2>2
<1> HIDE DEF x
<1>11. Second * b \in Nat /\ Second * M \in Nat /\ Second * (b + 1) = Second * b + Second
       /\ Second * (M + 1) = Second * M + Second
  BY <1>1, <1>7
<1>12. x + Second * (b + 1) <= 2 * HalfRange /\ x < 2 * HalfRange
  BY <1>1, <1>7, <1>8, <1>9, <1>10, <1>11
<1>13. y \in Int /\ (y = x \/ y = x - 2 * HalfRange) /\ (y >= 0 => y = x)
  BY <1>10, <1>12, WrapFacts
<1> HIDE DEF y
<1>14. /\ z \in Int
       /\ y >= 0 => z >= 0 /\ Second * z <= y /\ y < Second * z + Second
       /\ y < 0 => z <= 0 /\ -y < Second * (-z) + Second
  BY <1>13, QuotFacts
<1>15. Budget = Smaller(maxBurstSize, IF b + z < 0 THEN HalfRange \div 2 - 1 ELSE b + z)
  BY <1>4 DEF Budget, b, z, y, x, r
<1> HIDE DEF z
<1>16. y >= 0
  <2> SUFFICES ASSUME y < 0 PROVE FALSE
    BY <1>13
  <2>1. -y >= Second * (b + 1)
    BY <1>1, <1>10, <1>11, <1>12, <1>13
  <2>2. b + z < 0
    <3> DEFINE w == -z
    <3> SUFFICES ASSUME w <= b PROVE FALSE
      BY <1>1, <1>14
    <3>1. w \in Nat /\ -y < Second * w + Second
      BY <1>14
    <3> HIDE DEF w
    <3>2. Second * w <= Second * b
      BY <1>1, <3>1, ProductGrows
    <3>3. Second * w \in Nat
      BY <1>1, <3>1
    <3> QED
      BY <1>1, <1>11, <1>13, <2>1, <3>1, <3>2, <3>3
  <2>3. Budget = Smaller(maxBurstSize, HalfRange \div 2 - 1)
    BY <1>15, <2>2
  <2>4. 4 * M <= HalfRange
    <3>1. 4 \in Nat /\ 4 <= Second
      BY <1>1
    <3>2. 4 * M <= Second * M
      BY <1>1, <1>7, <3>1, ProductGrows
    <3> QED
      BY <1>1, <1>7, <1>8, <1>11, <3>2
  <2>5. P <= HalfRange \div 2 - 1
    BY <1>1, <1>7, <2>4
  <2> QED
    BY <1>1, <1>2, <1>3, <2>3, <2>5 DEF Smaller
<1>17. b + z < P /\ z >= 0 /\ x < Second * z + Second
  BY <1>1, <1>2, <1>3, <1>13, <1>14, <1>15, <1>16 DEF Smaller
<1> DEFINE d == Second * (P - b)
<1>18. P - b \in Nat /\ d \in Nat /\ x < d
  <2>1. z + 1 \in Nat /\ P - b \in Nat /\ z + 1 <= P - b
    BY <1>1, <1>14, <1>17
  <2>2. Second * (z + 1) <= Second * (P - b)
    BY <1>1, <2>1, ProductGrows
  <2>3. Second * (z + 1) = Second * z + Second /\ Second * z \in Int /\ Second * (P - b) \in Nat
    BY <1>1, <1>14, <2>1
  <2> QED
    BY <1>1, <1>10, <1>17, <2>1, <2>2, <2>3
<1>19. t < (d \div r) + (IF d % r > 0 THEN 1 ELSE 0)
  <2> HIDE DEF d
  <2> QED
    BY <1>1, <1>4, <1>18, Ceiling DEF x
<1>20. TimeUntilSend = Larger(MinPacingDelay, (d \div r) + (IF d % r > 0 THEN 1 ELSE 0))
  BY <1>1, <1>14, <1>17 DEF TimeUntilSend, r, b, P
<1>21. (d \div r) + (IF d % r > 0 THEN 1 ELSE 0) \in Int
  BY <1>1, <1>18, DivisionFacts
<1> QED
  BY <1>1, <1>4, <1>19, <1>20, <1>21 DEF Larger

(* Sending keeps the invariant: a packet that is paced adds to the excess  *)
(* no more than it takes from the budget, and one that is not only takes.  *)
LEMMA SendStep ==
  ASSUME BurstsFit, PacerIInv, NEW size \in QuicPackets, SendPaced(size) \/ SendUnpaced(size)
  PROVE  PacerIInv'
<1> DEFINE S == Second
           D == Drained
           e == excess
           b == budgetAtLastSent
           B == Budget
           H == HighestRate
           c == Smaller(size, senderSize)
<1>0. PacerKept
  BY DEF PacerIInv
<1>1. /\ S \in Nat \ {0} /\ HalfRange \in Nat /\ e \in Nat /\ b \in Nat /\ H \in Nat
      /\ senderSize \in Nat \ {0} /\ pacerSize \in Nat \ {0} /\ size \in Nat
      /\ MaxIdle \in Nat /\ Never # 0 /\ quicSize \in Nat \ {0}
  BY <1>0, PacerConstants, HighestFacts DEF PacerKept, PacerTypeOK, QuicPackets
<1>2. /\ B \in Nat /\ B <= maxBurstSize /\ maxBurstSize \in Nat /\ D \in Nat
      /\ maxBurstSize <= MaxBurst(H, pacerSize)
      /\ (sinceSent # Never => S * B <= S * b + D \/ D >= HalfRange)
  BY <1>0, BudgetFacts
<1>3. PICK s \in PacketSizes : pacerSize <= s /\ e + S * b <= S * MaxBurst(H, s)
  BY DEF PacerIInv
<1> DEFINE M == MaxBurst(H, s)
<1>4. M \in Nat /\ MaxBurst(H, pacerSize) \in Nat /\ MaxBurst(H, pacerSize) <= M
  <2>1. s \in Nat
    BY PacerConstants DEF PacketSizes
  <2> QED
    BY <1>1, <1>3, <2>1, BurstGrows
<1>5. B <= M
  BY <1>2, <1>4
<1>6. S * M <= HalfRange
  BY <1>3 DEF BurstsFit, PacketSizes
<1>7. e + S * b <= S * M
  BY <1>3
<1>8. sinceSent = Never => e = 0
  BY <1>0 DEF PacerKept
<1>9. sinceSent' = 0 /\ UNCHANGED <<pacerSize, senderSize, quicSize, pacingRate>>
      /\ b' = IF size > B THEN 0 ELSE B - size
  BY DEF SendPaced, SendUnpaced, SentPacket
<1>10. c \in Nat /\ c <= size /\ (SendPaced(size) => c <= B /\ e' = Larger(0, e - D) + S * c)
  BY <1>1, <1>2 DEF SendPaced, HasPacingBudget, Drained, Smaller
<1>11. SendUnpaced(size) => e' = IF sinceSent = Never THEN e ELSE Larger(0, e - D)
  BY DEF SendUnpaced, Drained
<1>12. sinceSent = Never => D = 0
  BY DEF Drained
<1>13. S * B \in Nat /\ S * b \in Nat /\ S * M \in Nat /\ S * B <= S * M
       /\ S * c \in Nat /\ S * (B - c) = S * B - S * c
  <2> HIDE DEF c, B, M, S
  <2> QED
    BY <1>1, <1>2, <1>4, <1>5, <1>10, ProductGrows
<1> HIDE DEF S, D, B, M, H, c
<1>14. Larger(0, e - D) \in Nat /\ Larger(0, e - D) + S * B <= S * M
  BY <1>1, <1>2, <1>6, <1>7, <1>8, <1>12, <1>13 DEF Larger
<1>15. b' \in Nat /\ e' \in Nat /\ e' + S * b' <= S * M
  <2>1. CASE SendPaced(size)
    <3>1. b' \in Nat /\ b' <= B - c /\ B - c \in Nat /\ e' = Larger(0, e - D) + S * c
      BY <1>1, <1>2, <1>9, <1>10, <2>1
    <3>2. \A p \in Nat, q \in Nat : p <= q => S * p <= S * q /\ S * p \in Nat
      BY <1>1, ProductGrows
    <3>3. S * b' <= S * B - S * c /\ S * b' \in Nat
      BY <1>13, <3>1, <3>2
    <3> QED
      BY <1>13, <1>14, <3>1, <3>3
  <2>2. CASE SendUnpaced(size)
    <3>1. b' \in Nat /\ b' <= B
      BY <1>1, <1>2, <1>9
    <3>2. \A p \in Nat : p <= B => S * p <= S * B /\ S * p \in Nat
      BY <1>1, <1>2, ProductGrows
    <3>4. S * b' <= S * B /\ S * b' \in Nat
      BY <3>1, <3>2
    <3>3. e' \in Nat /\ e' = Larger(0, e - D)
      BY <1>1, <1>2, <1>8, <1>11, <1>12, <1>14, <2>2 DEF Larger
    <3> QED
      BY <1>13, <1>14, <3>1, <3>4, <3>3
  <2> QED
    BY <2>1, <2>2
<1>16. (PacerKept)'
  BY <1>0, <1>1, <1>9, <1>15 DEF PacerKept, PacerTypeOK, getBandwidth, S
<1> QED
  BY <1>3, <1>9, <1>15, <1>16 DEF PacerIInv, S, M, H

(* A change of the size keeps the larger of the old and the new burst.     *)
LEMMA SizeStep ==
  ASSUME PacerIInv, NEW n \in Mtus, SetMaxDatagramSize(n)
  PROVE  PacerIInv'
<1> DEFINE H == HighestRate
<1>0. PacerKept
  BY DEF PacerIInv
<1>1. /\ senderSize' = n /\ pacerSize' = n /\ quicSize' = n
      /\ UNCHANGED <<budgetAtLastSent, sinceSent, pacingRate, excess>>
  BY DEF SetMaxDatagramSize
<1>2. (PacerKept)'
  BY <1>0, <1>1, PacerConstants DEF PacerKept, PacerTypeOK, getBandwidth, PacketSizes
<1>3. PICK s \in PacketSizes :
        pacerSize <= s /\ excess + Second * budgetAtLastSent <= Second * MaxBurst(H, s)
  BY DEF PacerIInv
<1>4. n \in Nat /\ s \in Nat /\ H \in Nat /\ n \in PacketSizes
  BY PacerConstants, HighestFacts DEF PacketSizes
<1>5. CASE n <= s
  BY <1>1, <1>2, <1>3, <1>5 DEF PacerIInv
<1>6. CASE s < n
  <2> HIDE DEF H
  <2>0. s <= n
    BY <1>4, <1>6
  <2>1. MaxBurst(H, s) \in Nat /\ MaxBurst(H, n) \in Nat /\ MaxBurst(H, s) <= MaxBurst(H, n)
    BY <1>4, <2>0, BurstGrows
  <2>2. Second \in Nat /\ excess \in Nat /\ budgetAtLastSent \in Nat
    BY <1>0, PacerConstants DEF PacerKept, PacerTypeOK
  <2>3. Second * MaxBurst(H, s) <= Second * MaxBurst(H, n)
    BY <2>1, <2>2, ProductGrows
  <2>4. /\ excess + Second * budgetAtLastSent \in Int
        /\ Second * MaxBurst(H, s) \in Int /\ Second * MaxBurst(H, n) \in Int
    BY <2>1, <2>2
  <2>5. \A x \in Int, y \in Int, z \in Int : x <= y /\ y <= z => x <= z
    OBVIOUS
  <2>6. excess + Second * budgetAtLastSent <= Second * MaxBurst(H, n)
    BY <1>3, <2>3, <2>4, <2>5
  <2> QED
    BY <1>1, <1>2, <1>4, <2>6 DEF PacerIInv, H
<1> QED
  BY <1>4, <1>5, <1>6

(* The invariant holds at first, the budget being a burst of packets ...   *)
LEMMA PacerStarts == PacerInit => PacerIInv
<1> SUFFICES ASSUME PacerInit PROVE PacerIInv
  OBVIOUS
<1> DEFINE I == InitialPacketSize
           H == HighestRate
<1>1. I \in Nat \ {0} /\ maxBurstPackets \in Nat /\ Second \in Nat /\ I \in PacketSizes
  BY PacerConstants DEF PacketSizes
<1>2. senderSize \in Nat \ {0} /\ senderSize <= I /\ quicSize \in Nat \ {0}
  BY <1>1, PacerConstants DEF PacerInit, seedPacketSize, Smaller
<1>3. budgetAtLastSent \in Nat
  BY <1>1 DEF PacerInit
<1>4. getBandwidth \in Nat \ {0}
  BY HighestFacts DEF PacerInit, getBandwidth
<1>5. PacerKept
  BY <1>1, <1>2, <1>3, <1>4 DEF PacerInit, PacerKept, PacerTypeOK
<1>6. MaxBurst(H, I) \in Nat /\ budgetAtLastSent <= MaxBurst(H, I)
  <2> DEFINE a == (maxBurstPacingDelayMultiplier * MinPacingDelay * H) \div Second
             c == maxBurstPackets * I
  <2>1. MaxBurst(H, I) = Larger(a, c) /\ budgetAtLastSent = c
    BY DEF MaxBurst, PacerInit
  <2>2. c \in Nat
    BY <1>1
  <2>3. a \in Int
    <3>1. maxBurstPacingDelayMultiplier * MinPacingDelay * H \in Int /\ Second \in Nat \ {0}
      BY PacerConstants, HighestFacts
    <3> QED
      BY <3>1, DivisionFacts
  <2> HIDE DEF a, c
  <2> QED
    BY <2>1, <2>2, <2>3 DEF Larger
<1>7. Second * budgetAtLastSent <= Second * MaxBurst(H, I)
  BY <1>1, <1>3, <1>6, ProductGrows
<1>8. excess + Second * budgetAtLastSent = Second * budgetAtLastSent /\ pacerSize <= I
  BY <1>1, <1>3 DEF PacerInit
<1> QED
  BY <1>1, <1>5, <1>7, <1>8 DEF PacerIInv

(* ... and every step keeps it, with or without overflows.                 *)
LEMMA PacerStep ==
  ASSUME BurstsFit, PacerIInv, [PacerNext]_pacerVars
  PROVE  PacerIInv'
<1>1. ASSUME NEW size \in QuicPackets, SendPaced(size) \/ SendUnpaced(size) PROVE PacerIInv'
  BY <1>1, SendStep
<1>2. ASSUME NEW n \in Mtus, SetMaxDatagramSize(n) PROVE PacerIInv'
  BY <1>2, SizeStep
<1>3. ASSUME UNCHANGED <<budgetAtLastSent, pacerSize, senderSize, quicSize, excess>>,
             pacingRate' \in PacingRates, sinceSent' \in (0..MaxIdle) \cup {Never},
             sinceSent' = Never => sinceSent = Never
      PROVE  PacerIInv'
  <2>1. getBandwidth' \in Nat \ {0}
    BY <1>3, HighestFacts DEF getBandwidth
  <2>2. (PacerKept)'
    BY <1>3, <2>1 DEF PacerIInv, PacerKept, PacerTypeOK
  <2> QED
    BY <1>3, <2>2 DEF PacerIInv
<1>4. pacingRate \in PacingRates /\ sinceSent \in (0..MaxIdle) \cup {Never}
  BY DEF PacerIInv, PacerKept, PacerTypeOK
<1>5. ASSUME NEW r \in PacingRates, SetPacingRate(r) PROVE PacerIInv'
  BY <1>3, <1>4, <1>5 DEF SetPacingRate
<1>6. CASE PacerTick
  <2>1. /\ sinceSent # Never /\ sinceSent < MaxIdle /\ sinceSent' = sinceSent + 1
        /\ UNCHANGED <<budgetAtLastSent, pacerSize, senderSize, quicSize, pacingRate, excess>>
    BY <1>6 DEF PacerTick
  <2>2. sinceSent' \in 0..MaxIdle /\ sinceSent' # Never
    BY <1>4, <2>1, PacerConstants
  <2> QED
    BY <1>3, <1>4, <2>1, <2>2
<1>7. CASE UNCHANGED pacerVars
  BY <1>3, <1>4, <1>7 DEF pacerVars
<1> QED
  BY <1>1, <1>2, <1>5, <1>6, <1>7 DEF PacerNext

(* It bounds the bursts.                                                   *)
LEMMA PacerBursts ==
  ASSUME PacerIInv
  PROVE  PacerTypeOK /\ BurstBounded
<1>0. PacerTypeOK
  BY DEF PacerIInv, PacerKept
<1>1. PICK s \in PacketSizes :
        excess + Second * budgetAtLastSent <= Second * MaxBurst(HighestRate, s)
  BY DEF PacerIInv
<1>2. s \in Nat
  BY PacerConstants DEF PacketSizes
<1>3. MaxBurst(HighestRate, s) \in Nat
  BY <1>2, HighestFacts, BurstFacts
<1>4. Second \in Nat /\ excess \in Nat /\ budgetAtLastSent \in Nat
  BY <1>0, PacerConstants DEF PacerTypeOK
<1>5. Second * budgetAtLastSent \in Nat /\ Second * MaxBurst(HighestRate, s) \in Nat
  BY <1>3, <1>4
<1>6. \A x \in Nat, y \in Nat, z \in Nat : x + y <= z => x <= z
  OBVIOUS
<1>7. excess <= Second * MaxBurst(HighestRate, s)
  BY <1>1, <1>4, <1>5, <1>6
<1> QED
  BY <1>0, <1>7 DEF BurstBounded, PacketSizes

(* pacer.go: whatever the rates, the idle times and the sizes QUIC sends   *)
(* at, and however often the product of rate and time overflows, the       *)
(* packets that Budget lets through exceed the highest rate by one burst   *)
(* at most, each counted up to the size the sender was told: all of it for *)
(* every packet that is not larger.                                        *)
THEOREM PacerBounded == BurstsFit => (PacerSpec => [](PacerTypeOK /\ BurstBounded))
<1>1. BurstsFit /\ PacerIInv /\ [PacerNext]_pacerVars => PacerIInv'
  BY PacerStep
<1>2. PacerIInv => PacerTypeOK /\ BurstBounded
  BY PacerBursts
<1>3. BurstsFit => []BurstsFit
  OBVIOUS
<1> QED
  BY <1>1, <1>2, <1>3, PacerStarts, PTL DEF PacerSpec

(* pacer.go, Budget and TimeUntilSend: as long as that product overflows   *)
(* into the negative numbers, which Budget guards against, and no further, *)
(* the timer of a sender without budget always lies ahead.                 *)
THEOREM PacerCorrect == BurstsFit /\ ProductsFit => (PacerSpec => []PacerInv)
<1>1. BurstsFit /\ PacerIInv /\ [PacerNext]_pacerVars => PacerIInv'
  BY PacerStep
<1>2. BurstsFit /\ ProductsFit /\ PacerIInv => PacerInv
  BY PacerBursts, PacerWaits DEF PacerInv
<1>3. BurstsFit /\ ProductsFit => [](BurstsFit /\ ProductsFit)
  OBVIOUS
<1> QED
  BY <1>1, <1>2, <1>3, PacerStarts, PTL DEF PacerSpec

-----------------------------------------------------------------------------
(* The five parts together.  The inductive invariant is theirs.            *)
PartsIInv == RingIInv /\ QueueIInv /\ PacerIInv /\ HeightInv

(* A step of the whole is a step of each part or leaves it alone.          *)
LEMMA PartsApart ==
  ASSUME [Next]_vars
  PROVE  /\ [RingNext]_ringVars /\ [QueueNext]_queueVars
         /\ [PacerNext]_pacerVars /\ [HeightNext]_heightVars
<1>1. CASE UNCHANGED vars
  BY <1>1 DEF vars
<1>2. CASE Next
  BY <1>2 DEF Next
<1> QED
  BY <1>1, <1>2

(* The parts of bbr that depend on nothing but their caller are correct    *)
(* under every sequence of calls: the containers are well formed, no ack   *)
(* height is overstated, and the pacer neither spins nor bursts.           *)
THEOREM PartsCorrect == BurstsFit /\ ProductsFit => (Spec => []PartsInv)
<1>1. Init => PartsIInv
  BY RingStarts, QueueStarts, PacerStarts, HeightStarts DEF Init, PartsIInv
<1>2. BurstsFit /\ PartsIInv /\ [Next]_vars => PartsIInv'
  <2> SUFFICES ASSUME BurstsFit, PartsIInv, [Next]_vars PROVE PartsIInv'
    OBVIOUS
  <2>1. RingIInv'
    BY PartsApart, RingStep DEF PartsIInv
  <2>2. QueueIInv'
    BY PartsApart, QueueStep DEF PartsIInv
  <2>3. PacerIInv'
    BY PartsApart, PacerStep DEF PartsIInv
  <2>4. HeightInv'
    BY PartsApart, HeightStep DEF PartsIInv
  <2> QED
    BY <2>1, <2>2, <2>3, <2>4 DEF PartsIInv
<1>3. BurstsFit /\ ProductsFit /\ PartsIInv => PartsInv
  BY GoodRing, QueueGood, PacerBursts, PacerWaits DEF PartsIInv, PartsInv, PacerInv
<1>4. BurstsFit /\ ProductsFit => [](BurstsFit /\ ProductsFit)
  OBVIOUS
<1> QED
  BY <1>1, <1>2, <1>3, <1>4, PTL DEF Spec
=============================================================================
