----------------------------- MODULE AckHeight -----------------------------
(***************************************************************************)
(* The maxAckHeightTracker of bandwidth_sampler.go: how many bytes are     *)
(* acknowledged ahead of the estimated bandwidth, measured over epochs of  *)
(* acknowledgements and kept in a windowed filter.                         *)
(*                                                                         *)
(* The filter orders events by their extra bytes, so it is the filter of   *)
(* numbers of Filters.tla, and what else an event holds is kept next to    *)
(* it.  Bytes per tick are the unit of bandwidth.                          *)
(***************************************************************************)
EXTENDS Filters, Integers

CONSTANTS
  HeightWindow, \* windowLength of the filter, in round trips
  Options,      \* inputs: what the profile sets, records of the fields below
  Bandwidths,   \* bound: bandwidth estimates
  AckedBytes,   \* bound: bytes of an ack event
  MaxDelta,     \* bound: length of an epoch
  MaxBytes,     \* bound: bytes acknowledged in an epoch
  MaxRound      \* bound: round trips

ASSUME AckHeightConstants ==
  /\ HeightWindow \in Nat
  /\ Options \subseteq [threshold : {1, 2}, reduce : BOOLEAN, expire : BOOLEAN]
  /\ Bandwidths \subseteq Nat /\ AckedBytes \subseteq Nat \ {0}
  /\ Bandwidths # {} /\ MaxDelta \in Nat /\ MaxBytes \in Nat /\ MaxRound \in Nat

VARIABLES
  options,               \* threshold: ackAggregationBandwidthThreshold; reduce:
                         \* reduceExtraAckedOnBandwidthIncrease; expire: the sender
                         \* resets the tracker (expireAckAggregationInStartup)
  filter,                \* maxAckHeightFilter: the estimates and their events
  epochStarted,          \* ~aggregationEpochStartTime.IsZero()
  aggregationDelta,      \* time since aggregationEpochStartTime
  aggregationEpochBytes, \* aggregationEpochBytes
  bandwidth,             \* the bandwidth of the last event, an input
  round,                 \* roundTripCount, an input
  extraAcked             \* what the last Update returned

heightVars == <<options, filter, epochStarted, aggregationDelta, aggregationEpochBytes,
                bandwidth, round, extraAcked>>

(* The rest of an extraAckedEvent.                                         *)
Event(bytes, delta, rnd) == [bytesAcked |-> bytes, timeDelta |-> delta, round |-> rnd]

bytesFromBandwidthAndTimeDelta(bw, delta) == bw * delta

NoHeights == [est |-> Clear, event |-> [i \in 1..3 |-> Event(0, 0, 0)]]

MaxAckHeight(f) == GetBest(f.est)

(* maxAckHeightFilter.Update: an entry that is not the new one is one of   *)
(* the old ones, and moves together with its event.                        *)
FilterUpdate(f, extra, ev, t) ==
  LET new == Update(f.est, extra, t, HeightWindow)
  IN  [est |-> new,
       event |-> [i \in 1..3 |->
                    IF new[i] = Estimate(extra, t) THEN ev
                    ELSE f.event[CHOOSE j \in 1..3 : f.est[j] = new[i]]]]

(* Mutant: the heights are reinserted as they were.                        *)
ReinsertSame(g, f, i, bw) ==
  IF f.event[i].bytesAcked > 0
    THEN FilterUpdate(g, f.est[i].sample, f.event[i], f.event[i].round)
    ELSE g

(* Height i of the filter f, recalculated and put into the filter g.       *)
Reinsert(g, f, i, bw) ==
  LET expected == bytesFromBandwidthAndTimeDelta(bw, f.event[i].timeDelta)
  IN  IF expected < f.event[i].bytesAcked
        THEN FilterUpdate(g, f.event[i].bytesAcked - expected, f.event[i], f.event[i].round)
        ELSE g

Reduced(f, bw) ==
  Reinsert(Reinsert(Reinsert(NoHeights, f, 1, bw), f, 2, bw), f, 3, bw)

HeightInit ==
  /\ options \in Options
  /\ filter = NoHeights
  /\ epochStarted = FALSE /\ aggregationDelta = 0 /\ aggregationEpochBytes = 0
  /\ bandwidth = 0
  /\ round = 0
  /\ extraAcked = 0

(* Mutant: an epoch goes on however slow the acknowledgements become.      *)
EpochEndsNever(bw) == ~epochStarted

(* The acknowledgements are no faster than the bandwidth.                  *)
EpochEnds(bw) ==
  \/ ~epochStarted
  \/ aggregationEpochBytes <=
       options.threshold * bytesFromBandwidthAndTimeDelta(bw, aggregationDelta)

(* An ack event: bw is the bandwidth estimate, isNew tells whether it is   *)
(* a new maximum, t is the round trip.                                     *)
TrackerUpdate(bw, isNew, t, bytesAcked) ==
  LET kept == IF options.reduce /\ isNew THEN Reduced(filter, bw) ELSE filter
      bytes == aggregationEpochBytes + bytesAcked
      extra == bytes - bytesFromBandwidthAndTimeDelta(bw, aggregationDelta)
  IN  \/ /\ EpochEnds(bw)
         /\ filter' = kept
         /\ epochStarted' = TRUE
         /\ aggregationDelta' = 0
         /\ aggregationEpochBytes' = bytesAcked
         /\ extraAcked' = 0
      \/ /\ ~EpochEnds(bw)
         /\ filter' = FilterUpdate(kept, extra, Event(bytes, aggregationDelta, 0), t)
         /\ aggregationEpochBytes' = bytes
         /\ extraAcked' = extra
         /\ UNCHANGED <<epochStarted, aggregationDelta>>

(* The event reaches the tracker.  A larger bandwidth is a new maximum; a  *)
(* smaller one can be, when the old maximum has left the sender's filter.  *)
AckEvent ==
  \E bw \in Bandwidths, isNew \in BOOLEAN, t \in {round, round + 1}, bytes \in AckedBytes :
    /\ bw > bandwidth => isNew
    /\ t <= MaxRound /\ (EpochEnds(bw) \/ aggregationEpochBytes + bytes <= MaxBytes)
    /\ TrackerUpdate(bw, isNew, t, bytes)
    /\ bandwidth' = bw
    /\ round' = t
    /\ UNCHANGED options

(* Reset(0, roundTripCount), by the sender when the bandwidth grew.        *)
ResetMaxAckHeightTracker ==
  /\ options.expire
  /\ filter' = [est |-> Reset(0, round), event |-> [i \in 1..3 |-> Event(0, 0, round)]]
  /\ UNCHANGED <<options, epochStarted, aggregationDelta, aggregationEpochBytes, bandwidth,
                 round, extraAcked>>

HeightTick ==
  /\ epochStarted /\ aggregationDelta < MaxDelta
  /\ aggregationDelta' = aggregationDelta + 1
  /\ UNCHANGED <<options, filter, epochStarted, aggregationEpochBytes, bandwidth, round,
                 extraAcked>>

HeightNext == AckEvent \/ ResetMaxAckHeightTracker \/ HeightTick

HeightSpec == HeightInit /\ [][HeightNext]_heightVars

-----------------------------------------------------------------------------
(* The estimates are three, with their events, none of a future round.     *)
AckHeightTypeOK ==
  /\ filter \in [est : [1..3 -> [sample : Int, time : 0..round]],
                 event : [1..3 -> [bytesAcked : Nat, timeDelta : 0..MaxDelta, round : 0..round]]]
  /\ epochStarted \in BOOLEAN /\ aggregationDelta \in 0..MaxDelta
  /\ aggregationEpochBytes \in Nat /\ extraAcked \in Int
  /\ bandwidth \in Bandwidths \cup {0} /\ round \in 0..MaxRound
  /\ options \in Options

(* An epoch that goes on always has extra bytes: the sampler takes zero to *)
(* mean that a new epoch started, and stores an A0 candidate then.         *)
ZeroMeansNewEpoch ==
  [][AckEvent => /\ extraAcked' >= 0
                 /\ extraAcked' = 0 <=> EpochEnds(bandwidth')]_heightVars

(* No height of the filter counts bytes that the current bandwidth         *)
(* explains, however the bandwidth fell and rose since it was measured:    *)
(* the congestion window is raised by the best of them.                    *)
NoHeightOverstated ==
  options.reduce =>
    \A i \in 1..3 :
      filter.est[i].sample > 0 =>
        filter.est[i].sample <= filter.event[i].bytesAcked
          - bytesFromBandwidthAndTimeDelta(bandwidth, filter.event[i].timeDelta)

(* The tracker is well formed and overstates no height.                    *)
HeightInv == AckHeightTypeOK /\ NoHeightOverstated

(* "Reinsert the heights into the filter after recalculating": the best    *)
(* height, measured within the window, is still counted with the bytes     *)
(* that a larger bandwidth leaves of it.                                   *)
HeightsReinserted ==
  [][/\ AckEvent /\ options.reduce
     /\ bandwidth' > bandwidth /\ round' - filter.est[1].time <= HeightWindow =>
       MaxAckHeight(filter') >=
         filter.event[1].bytesAcked
           - bytesFromBandwidthAndTimeDelta(bandwidth', filter.event[1].timeDelta)]_heightVars

=============================================================================
