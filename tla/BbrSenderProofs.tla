--------------------------- MODULE BbrSenderProofs ---------------------------
(***************************************************************************)
(* The BBR sender keeps its windows within their limits, its mode in step  *)
(* with its gains and its full bandwidth flag, and its conservation phase  *)
(* for a whole round; and before full bandwidth it lowers neither window   *)
(* nor, without an overshoot, pacing rate.  This holds for every profile,  *)
(* gain cycle, set of samples, datagram size and number of packets.        *)
(*                                                                         *)
(* OnCongestionEventEx is a chain of thirteen methods on one struct.  Each *)
(* has a lemma that says which fields it may change (Same) and what it     *)
(* makes of them; EventStep puts the chain together, field by field.       *)
(***************************************************************************)
EXTENDS BbrSender, FiniteSetTheorems, WellFoundedInduction, TLAPS

(* The struct, as a function of its field names.                           *)
Fields ==
  {"mode", "roundTripCount", "lastSentPacket", "currentRoundTripEnd", "numLossEventsInRound",
   "bytesLostInRound", "totalBytesAcked", "maxBandwidth", "minRtt", "minRttAge",
   "congestionWindow", "initialCongestionWindow", "maxCongestionWindow", "minCongestionWindow",
   "pacingRate", "pacingGain", "congestionWindowGain", "cycleCurrentOffset", "cycleAge",
   "isAtFullBandwidth", "roundsWithoutBandwidthGain", "bandwidthAtLastRound",
   "exitingQuiescence", "exitProbeRttIn", "probeRttRoundPassed", "lastSampleIsAppLimited",
   "hasNoAppLimitedSample", "recoveryState", "endRecoveryAt", "recoveryWindow",
   "detectOvershooting", "bytesLostWhileDetectingOvershooting", "maxDatagramSize"}
Sender(s) == s = [x \in Fields |-> s[x]]

(* The names, to be cited without the set that lists them.                 *)
LEMMA Names ==
  {"mode", "roundTripCount", "lastSentPacket", "currentRoundTripEnd", "numLossEventsInRound",
   "bytesLostInRound", "totalBytesAcked", "maxBandwidth", "minRtt", "minRttAge",
   "congestionWindow", "initialCongestionWindow", "maxCongestionWindow", "minCongestionWindow",
   "pacingRate", "pacingGain", "congestionWindowGain", "cycleCurrentOffset", "cycleAge",
   "isAtFullBandwidth", "roundsWithoutBandwidthGain", "bandwidthAtLastRound",
   "exitingQuiescence", "exitProbeRttIn", "probeRttRoundPassed", "lastSampleIsAppLimited",
   "hasNoAppLimitedSample", "recoveryState", "endRecoveryAt", "recoveryWindow",
   "detectOvershooting", "bytesLostWhileDetectingOvershooting", "maxDatagramSize"} \subseteq Fields
BY DEF Fields

(* Only the fields of S can tell t from s.                                 *)
Same(s, t, S) == \A x \in Fields \ S : t[x] = s[x]

(* The three samples of the bandwidth filter are numbers.                  *)
SamplesOK(est) == est[1].sample \in Nat /\ est[2].sample \in Nat /\ est[3].sample \in Nat

(* The types of the fields that a window, a rate or a mode is made from.   *)
Typed(s) ==
  /\ s.mode \in Modes
  /\ s.recoveryState \in {"none", "conservation", "growth"}
  /\ s.lastSentPacket \in PacketNumbers /\ s.currentRoundTripEnd \in PacketNumbers
  /\ s.endRecoveryAt \in PacketNumbers
  /\ s.recoveryWindow \in Nat /\ s.pacingRate \in Nat /\ s.minRtt \in Nat
  /\ s.pacingGain \in Nat /\ s.congestionWindowGain \in Nat
  /\ s.cycleCurrentOffset \in 0..(gainCycleLength - 1)
  /\ SamplesOK(s.maxBandwidth)

(* The limits count packets of the current datagram size, and the          *)
(* congestion window lies between them.                                    *)
Limits(s) ==
  /\ s.maxDatagramSize \in Nat \ {0}
  /\ s.minCongestionWindow = MinPackets * s.maxDatagramSize
  /\ s.initialCongestionWindow = InitialPackets * s.maxDatagramSize
  /\ s.maxCongestionWindow = MaxPackets * s.maxDatagramSize
  /\ s.congestionWindow \in Nat
  /\ s.minCongestionWindow <= s.congestionWindow
  /\ s.congestionWindow <= s.maxCongestionWindow

Core(s) == Sender(s) /\ Typed(s) /\ Limits(s)

(* What a congestion event holds.                                          *)
Event(e) ==
  /\ e.inFlight \in Nat /\ e.bytesAcked \in Nat /\ e.bandwidth \in Nat /\ e.rtt \in Nat
  /\ e.ackHeight \in Nat /\ IsFiniteSet(e.lost) /\ e.random \in 0..(gainCycleLength - 2)
  /\ e.lastAcked \in PacketNumbers

(* updateRoundTripCounter moves the end of the round to the last packet    *)
(* sent, and nothing else that matters.                                    *)
LEMMA RoundTripCounter ==
  ASSUME NEW s, NEW e, Core(s), Event(e)
  PROVE  /\ Core(updateRoundTripCounter(s, e))
         /\ Same(s, updateRoundTripCounter(s, e), {"roundTripCount", "currentRoundTripEnd"})
         /\ updateRoundTripCounter(s, e).currentRoundTripEnd =
              IF IsRoundStart(s, e) THEN s.lastSentPacket ELSE s.currentRoundTripEnd
<1> DEFINE t == updateRoundTripCounter(s, e)
<1>1. /\ Sender(t) /\ Same(s, t, {"roundTripCount", "currentRoundTripEnd"})
      /\ t.currentRoundTripEnd = IF IsRoundStart(s, e) THEN s.lastSentPacket ELSE s.currentRoundTripEnd
  BY Names DEF updateRoundTripCounter, Sender, Same, Core
<1> HIDE DEF t
<1>2. Typed(t)
  BY <1>1, Names DEF Same, Typed, Core
<1>3. Limits(t)
  BY <1>1, Names DEF Same, Limits, Core
<1> QED
  BY <1>1, <1>2, <1>3 DEF Core, t

(* updateRecoveryState enters recovery only at full bandwidth and with     *)
(* something acknowledged, in the conservation phase and with the round    *)
(* extended to the last packet sent; growth comes at the start of a round. *)
LEMMA RecoveryState ==
  ASSUME NEW s, NEW e, NEW r \in BOOLEAN, Core(s), Event(e)
  PROVE  LET t == updateRecoveryState(s, e, r)
         IN  /\ Core(t)
             /\ Same(s, t, {"endRecoveryAt", "recoveryState", "recoveryWindow", "currentRoundTripEnd"})
             /\ InRecovery(s) => t.currentRoundTripEnd = s.currentRoundTripEnd
             /\ ~InRecovery(s) /\ InRecovery(t) =>
                  /\ t.currentRoundTripEnd = s.lastSentPacket /\ e.acked # {}
                  /\ s.isAtFullBandwidth /\ t.recoveryState = "conservation"
             /\ InRecovery(s) /\ t.recoveryState = "growth" => s.recoveryState = "growth" \/ r
<1> DEFINE t == updateRecoveryState(s, e, r)
<1>1. /\ Sender(t) /\ Same(s, t, {"endRecoveryAt", "recoveryState", "recoveryWindow", "currentRoundTripEnd"})
  BY Names DEF updateRecoveryState, Sender, Same, Core
<1>2. t.recoveryState \in {"none", "conservation", "growth"}
  BY Names DEF updateRecoveryState, Sender, Core, Typed
<1>3. t.recoveryWindow \in Nat
  BY Names DEF updateRecoveryState, Sender, Core, Typed
<1>4. t.endRecoveryAt \in PacketNumbers /\ t.currentRoundTripEnd \in PacketNumbers
  BY Names DEF updateRecoveryState, Sender, Core, Typed
<1>5. InRecovery(s) => t.currentRoundTripEnd = s.currentRoundTripEnd
  BY Names DEF updateRecoveryState, Sender, Core, Typed
<1>6. ~InRecovery(s) /\ InRecovery(t) =>
                  /\ t.currentRoundTripEnd = s.lastSentPacket /\ e.acked # {}
                  /\ s.isAtFullBandwidth /\ t.recoveryState = "conservation"
  BY Names DEF updateRecoveryState, Sender, Core, InRecovery
<1>7. InRecovery(s) /\ t.recoveryState = "growth" => s.recoveryState = "growth" \/ r
  BY Names DEF updateRecoveryState, Sender, Core, InRecovery, Typed
<1> HIDE DEF t
<1>8. Typed(t)
  BY <1>1, <1>2, <1>3, <1>4, Names DEF Same, Typed, Core
<1>9. Limits(t)
  BY <1>1, Names DEF Same, Limits, Core
<1> QED
  BY <1>1, <1>5, <1>6, <1>7, <1>8, <1>9 DEF Core, t

(* The samples of an updated filter are old ones or the new one.           *)
LEMMA UpdatedSamples ==
  ASSUME NEW est, NEW x \in Nat, NEW n, NEW w, SamplesOK(est)
  PROVE  SamplesOK(Update(est, x, n, w))
<1> DEFINE z == Estimate(x, n)
<1>1. z.sample \in Nat
  BY DEF Estimate
<1> HIDE DEF z
<1> DEFINE ins == Insert(est, x, n)
<1>2. SamplesOK(ins)
  BY <1>1 DEF Insert, SamplesOK, z
<1> HIDE DEF ins
<1>3. SamplesOK(Reset(x, n))
  BY <1>1 DEF Reset, SamplesOK, z
<1>4. SamplesOK(Promote(ins, x, n, w))
  BY <1>1, <1>2 DEF Promote, SamplesOK, z
<1>5. SamplesOK(Refresh(ins, x, n, w))
  BY <1>1, <1>2 DEF Refresh, SamplesOK, z
<1> QED
  BY <1>3, <1>4, <1>5 DEF Update, ins

(* What the sampler measured reaches the filter and the flags.             *)
LEMMA Sampled ==
  ASSUME NEW s, NEW e, Core(s), Event(e)
  PROVE  LET t == applySample(s, e)
         IN  /\ Core(t)
             /\ Same(s, t, {"totalBytesAcked", "lastSampleIsAppLimited", "hasNoAppLimitedSample",
                            "maxBandwidth"})
<1> DEFINE t == applySample(s, e)
           limited == IF e.sendState.valid THEN e.sendState.appLimited
                      ELSE s.lastSampleIsAppLimited
           useful == e.bytesAcked > 0 /\ (~e.appLimited \/ e.bandwidth > bandwidthEstimate(s))
           total == s.totalBytesAcked + e.bytesAcked
           hasNo == s.hasNoAppLimitedSample \/ (e.sendState.valid /\ ~limited)
           best == IF useful THEN Update(s.maxBandwidth, e.bandwidth, s.roundTripCount,
                                         bandwidthWindowSize)
                   ELSE s.maxBandwidth
<1>1. t = [s EXCEPT !.totalBytesAcked = total, !.lastSampleIsAppLimited = limited,
                    !.hasNoAppLimitedSample = hasNo, !.maxBandwidth = best]
  BY DEF applySample
<1>2. SamplesOK(best)
  BY UpdatedSamples DEF Core, Typed, Event
<1> HIDE DEF t, total, limited, hasNo, best
<1>3. /\ Sender(t) /\ t.maxBandwidth = best
      /\ Same(s, t, {"totalBytesAcked", "lastSampleIsAppLimited", "hasNoAppLimitedSample",
                     "maxBandwidth"})
  BY <1>1, Names DEF Sender, Same, Core
<1>4. Typed(t)
  BY <1>2, <1>3, Names DEF Same, Typed, Core
<1>5. Limits(t)
  BY <1>3, Names DEF Same, Limits, Core
<1> QED
  BY <1>3, <1>4, <1>5 DEF Core, t

(* The minimum RTT stays a number.                                         *)
LEMMA MinRttUpdated ==
  ASSUME NEW s, NEW e, Core(s), Event(e)
  PROVE  LET t == maybeUpdateMinRtt(s, e)
         IN  Core(t) /\ Same(s, t, {"minRtt", "minRttAge"})
<1> DEFINE t == maybeUpdateMinRtt(s, e)
<1>1. /\ Sender(t) /\ Same(s, t, {"minRtt", "minRttAge"})
  BY Names DEF maybeUpdateMinRtt, Sender, Same, Core
<1>2. t.minRtt \in Nat
  BY Names DEF maybeUpdateMinRtt, Sender, Core, Typed, Event
<1> HIDE DEF t
<1>3. Typed(t)
  BY <1>1, <1>2, Names DEF Same, Typed, Core
<1>4. Limits(t)
  BY <1>1, Names DEF Same, Limits, Core
<1> QED
  BY <1>1, <1>3, <1>4 DEF Core, t

(* Counting losses touches the two counters.                               *)
LEMMA LossesCounted ==
  ASSUME NEW s, NEW e, Core(s), Event(e)
  PROVE  LET t == countLosses(s, e)
         IN  Core(t) /\ Same(s, t, {"numLossEventsInRound", "bytesLostInRound"})
<1> DEFINE t == countLosses(s, e)
<1>1. /\ Sender(t) /\ Same(s, t, {"numLossEventsInRound", "bytesLostInRound"})
  BY Names DEF countLosses, Sender, Same, Core
<1> HIDE DEF t
<1>3. Typed(t)
  BY <1>1, Names DEF Same, Typed, Core
<1>4. Limits(t)
  BY <1>1, Names DEF Same, Limits, Core
<1> QED
  BY <1>1, <1>3, <1>4 DEF Core, t

(* The gain cycle and the offsets into it.                                 *)
LEMMA CycleFacts ==
  /\ gainCycleLength \in Nat /\ gainCycleLength >= 3
  /\ \A i \in 0..(gainCycleLength - 1) : pacingGain[i + 1] \in Nat
  /\ \A i \in 0..(gainCycleLength - 1) : pacingGain[i + 1] \in {pacingGain[j] : j \in 1..gainCycleLength}
  /\ \A i \in Nat : (i + 1) % gainCycleLength \in 0..(gainCycleLength - 1)
<1>1. gainCycleLength \in Nat /\ gainCycleLength >= 3
  BY GainCycle DEF gainCycleLength
<1>2. \A i \in 0..(gainCycleLength - 1) : i + 1 \in 1..gainCycleLength
  BY <1>1
<1>3. \A i \in 0..(gainCycleLength - 1) : pacingGain[i + 1] \in Nat
  BY <1>1, <1>2, GainCycle DEF gainCycleLength
<1>4. \A i \in 0..(gainCycleLength - 1) : pacingGain[i + 1] \in {pacingGain[j] : j \in 1..gainCycleLength}
  BY <1>2
<1>5. \A i \in Nat : (i + 1) % gainCycleLength \in 0..(gainCycleLength - 1)
  BY <1>1
<1> QED
  BY <1>1, <1>3, <1>4, <1>5

(* The gains of the cycle.                                                 *)
Gains == {pacingGain[j] : j \in 1..gainCycleLength}

(* In PROBE_BW the pacing gain moves within the cycle; elsewhere it stays. *)
LEMMA GainCyclePhase ==
  ASSUME NEW s, NEW e, Core(s), Event(e)
  PROVE  LET t == updateGainCyclePhase(s, e)
         IN  /\ Core(t)
             /\ Same(s, t, {"cycleCurrentOffset", "cycleAge", "pacingGain"})
             /\ s.mode # "ProbeBw" => t.pacingGain = s.pacingGain
             /\ s.pacingGain \in Gains => t.pacingGain \in Gains
<1> DEFINE t == updateGainCyclePhase(s, e)
           offset == (s.cycleCurrentOffset + 1) % gainCycleLength
<1>0. s.cycleCurrentOffset \in Nat
  BY CycleFacts DEF Core, Typed
<1>1. offset \in 0..(gainCycleLength - 1)
  BY <1>0, CycleFacts
<1> HIDE DEF offset
<1>2. pacingGain[offset + 1] \in Nat /\ pacingGain[offset + 1] \in Gains
  BY <1>1, CycleFacts DEF Gains
<1>3. PICK g \in {s.pacingGain, pacingGain[offset + 1]} :
        t \in {s, [s EXCEPT !.cycleCurrentOffset = offset, !.cycleAge = 0, !.pacingGain = g]}
  <2> DEFINE drained == e.inFlight <= getTargetCongestionWindow(s, 1000)
             stay == /\ configForProfile.drainToTarget /\ s.pacingGain < 1000
                     /\ pacingGain[offset + 1] = 1000 /\ ~drained
             g == IF stay THEN s.pacingGain ELSE pacingGain[offset + 1]
  <2>1. t \in {s, [s EXCEPT !.cycleCurrentOffset = offset, !.cycleAge = 0, !.pacingGain = g]}
    BY Zenon DEF updateGainCyclePhase, offset
  <2>2. g \in {s.pacingGain, pacingGain[offset + 1]}
    OBVIOUS
  <2> QED
    BY <2>1, <2>2, ZenonT(60)
<1>4. s.mode # "ProbeBw" => t = s
  BY DEF updateGainCyclePhase
<1> HIDE DEF t
<1>5. /\ Sender(t) /\ Same(s, t, {"cycleCurrentOffset", "cycleAge", "pacingGain"})
      /\ t.pacingGain \in {s.pacingGain, g} /\ t.cycleCurrentOffset \in {s.cycleCurrentOffset, offset}
  BY <1>3, Names DEF Sender, Same, Core
<1>6. Typed(t)
  BY <1>1, <1>2, <1>5, Names DEF Same, Typed, Core
<1>7. Limits(t)
  BY <1>5, Names DEF Same, Limits, Core
<1> QED
  BY <1>2, <1>4, <1>5, <1>6, <1>7 DEF Core, t

(* Full bandwidth, once reached, is kept.                                  *)
LEMMA FullBandwidth ==
  ASSUME NEW s, NEW e, NEW r \in BOOLEAN, Core(s), Event(e)
  PROVE  LET t == checkIfFullBandwidthReached(s, e, r)
         IN  /\ Core(t)
             /\ Same(s, t, {"bandwidthAtLastRound", "roundsWithoutBandwidthGain", "isAtFullBandwidth"})
             /\ s.isAtFullBandwidth => t.isAtFullBandwidth
<1> DEFINE t == checkIfFullBandwidthReached(s, e, r)
<1>1. /\ Sender(t) /\ Same(s, t, {"bandwidthAtLastRound", "roundsWithoutBandwidthGain", "isAtFullBandwidth"})
  <2> DEFINE best == bandwidthEstimate(s)
             rounds == s.roundsWithoutBandwidthGain + 1
             at == \/ rounds >= configForProfile.numStartupRtts
                   \/ shouldExitStartupDueToLoss(s, e)
             u == [s EXCEPT !.bandwidthAtLastRound = best, !.roundsWithoutBandwidthGain = 0]
             v == [s EXCEPT !.roundsWithoutBandwidthGain = rounds, !.isAtFullBandwidth = at]
  <2>1. t = s \/ t = u \/ t = v
    BY DEF checkIfFullBandwidthReached
  <2> HIDE DEF t, best, rounds, at
  <2>2. Sender(u) /\ Same(s, u, {"bandwidthAtLastRound", "roundsWithoutBandwidthGain", "isAtFullBandwidth"})
    BY Names DEF Sender, Same, Core
  <2>3. Sender(v) /\ Same(s, v, {"bandwidthAtLastRound", "roundsWithoutBandwidthGain", "isAtFullBandwidth"})
    BY Names DEF Sender, Same, Core
  <2>4. Sender(s) /\ Same(s, s, {"bandwidthAtLastRound", "roundsWithoutBandwidthGain", "isAtFullBandwidth"})
    BY DEF Same, Core
  <2> QED
    BY <2>1, <2>2, <2>3, <2>4, Zenon
<1>2. s.isAtFullBandwidth => t = s
  BY DEF checkIfFullBandwidthReached
<1> HIDE DEF t
<1>3. Typed(t)
  BY <1>1, Names DEF Same, Typed, Core
<1>4. Limits(t)
  BY <1>1, Names DEF Same, Limits, Core
<1> QED
  BY <1>1, <1>2, <1>3, <1>4 DEF Core, t

-----------------------------------------------------------------------------
(* The gains of a profile are numbers.                                     *)
LEMMA ProfileFacts ==
  /\ highGain \in Nat /\ highCwndGain \in Nat /\ drainGain \in Nat
  /\ configForProfile.cwndGainConstant \in Nat
<1> DEFINE g == configForProfile.highGain
<1>1. g \in Nat /\ g > 0 /\ highCwndGain \in Nat /\ configForProfile.cwndGainConstant \in Nat
  BY DEF configForProfile, highCwndGain
<1> HIDE DEF g
<1>2. 1000000 \div g \in Nat
  BY <1>1
<1> QED
  BY <1>1, <1>2 DEF highGain, drainGain, g

(* The gains that belong to each mode.                                     *)
Modal(s) ==
  /\ s.mode = "Startup" => s.pacingGain = highGain /\ s.congestionWindowGain = highCwndGain
  /\ s.mode = "Drain" => /\ s.isAtFullBandwidth
                         /\ s.pacingGain = drainGain /\ s.congestionWindowGain = highCwndGain
  /\ s.mode = "ProbeBw" => /\ s.isAtFullBandwidth /\ s.pacingGain \in Gains
                           /\ s.congestionWindowGain = configForProfile.cwndGainConstant
  /\ s.mode = "ProbeRtt" => s.pacingGain = 1000

(* STARTUP is over once full bandwidth is reached; false for a moment in   *)
(* every event that reaches it.                                            *)
Settled(s) == s.mode = "Startup" => ~s.isAtFullBandwidth

ModeFields == {"mode", "pacingGain", "congestionWindowGain", "cycleCurrentOffset", "cycleAge"}

(* Whatever the random offset, PROBE_BW starts at a gain of the cycle.     *)
LEMMA ProbeBandwidthEntered ==
  ASSUME NEW s, NEW n \in 0..(gainCycleLength - 2), Core(s)
  PROVE  LET t == enterProbeBandwidthMode(s, n)
         IN  /\ Core(t) /\ Same(s, t, ModeFields)
             /\ t.mode = "ProbeBw" /\ t.pacingGain \in Gains
             /\ t.congestionWindowGain = configForProfile.cwndGainConstant
<1> DEFINE t == enterProbeBandwidthMode(s, n)
           offset == IF n >= 1 THEN n + 1 ELSE n
           g == pacingGain[offset + 1]
           c == configForProfile.cwndGainConstant
<1>1. offset \in 0..(gainCycleLength - 1)
  BY CycleFacts
<1>2. t = [s EXCEPT !.mode = "ProbeBw", !.cycleCurrentOffset = offset, !.cycleAge = 0,
                    !.congestionWindowGain = c, !.pacingGain = g]
  BY DEF enterProbeBandwidthMode
<1> HIDE DEF t, offset
<1>3. g \in Nat /\ g \in Gains
  BY <1>1, CycleFacts DEF Gains
<1>4. c \in Nat
  BY ProfileFacts
<1> HIDE DEF g, c
<1>5. /\ Sender(t) /\ Same(s, t, ModeFields)
      /\ t.mode = "ProbeBw" /\ t.pacingGain = g /\ t.congestionWindowGain = c
      /\ t.cycleCurrentOffset = offset
  BY <1>2, Names DEF Sender, Same, Core, ModeFields
<1>6. Typed(t)
  BY <1>1, <1>3, <1>4, <1>5, Names DEF Same, Typed, Core, ModeFields, Modes
<1>7. Limits(t)
  BY <1>5, Names DEF Same, Limits, Core, ModeFields
<1> QED
  BY <1>3, <1>5, <1>6, <1>7 DEF Core, t, c

(* STARTUP starts with the gains of the profile.                           *)
LEMMA StartupEntered ==
  ASSUME NEW s, Core(s)
  PROVE  LET t == enterStartupMode(s)
         IN  /\ Core(t) /\ Same(s, t, ModeFields)
             /\ t.mode = "Startup" /\ t.pacingGain = highGain
             /\ t.congestionWindowGain = highCwndGain
<1> DEFINE t == enterStartupMode(s)
<1>1. /\ Sender(t) /\ Same(s, t, ModeFields)
      /\ t.mode = "Startup" /\ t.pacingGain = highGain /\ t.congestionWindowGain = highCwndGain
      /\ t.cycleCurrentOffset = s.cycleCurrentOffset
  BY Names DEF enterStartupMode, Sender, Same, Core, ModeFields
<1> HIDE DEF t
<1>2. Typed(t)
  BY <1>1, ProfileFacts, Names DEF Same, Typed, Core, ModeFields, Modes
<1>3. Limits(t)
  BY <1>1, Names DEF Same, Limits, Core, ModeFields
<1> QED
  BY <1>1, <1>2, <1>3 DEF Core, t

(* Full bandwidth ends STARTUP in the same event.                          *)
LEMMA StartupOrDrainLeft ==
  ASSUME NEW s, NEW e, Core(s), Event(e), Modal(s)
  PROVE  LET t == maybeExitStartupOrDrain(s, e)
         IN  Core(t) /\ Same(s, t, ModeFields) /\ Modal(t) /\ Settled(t)
<1> DEFINE t == maybeExitStartupOrDrain(s, e)
           u == [s EXCEPT !.mode = "Drain", !.pacingGain = drainGain,
                          !.congestionWindowGain = highCwndGain]
           d == IF s.mode = "Startup" /\ s.isAtFullBandwidth THEN u ELSE s
           p == enterProbeBandwidthMode(d, e.random)
<1>1. (t = p /\ d.mode = "Drain") \/ t = d
  BY DEF maybeExitStartupOrDrain
<1>2. /\ Sender(u) /\ Same(s, u, ModeFields) /\ u.mode = "Drain" /\ u.pacingGain = drainGain
      /\ u.congestionWindowGain = highCwndGain /\ u.cycleCurrentOffset = s.cycleCurrentOffset
  BY Names DEF Sender, Same, Core, ModeFields
<1> HIDE DEF u, p, t
<1>3. Typed(u)
  BY <1>2, ProfileFacts, Names DEF Same, Typed, Core, ModeFields, Modes
<1>4. Limits(u)
  BY <1>2, Names DEF Same, Limits, Core, ModeFields
<1>5. u.isAtFullBandwidth = s.isAtFullBandwidth
  BY <1>2, Names DEF Same, ModeFields
<1>6. Core(d) /\ Same(s, d, ModeFields) /\ Modal(d) /\ Settled(d)
  <2>1. CASE s.mode = "Startup" /\ s.isAtFullBandwidth
    <3>1. d = u
      BY <2>1
    <3>2. Modal(u) /\ Settled(u)
      BY <1>2, <1>5, <2>1 DEF Modal, Settled
    <3> QED
      BY <1>2, <1>3, <1>4, <3>1, <3>2 DEF Core
  <2>2. CASE ~(s.mode = "Startup" /\ s.isAtFullBandwidth)
    <3>1. d = s
      BY <2>2
    <3>2. Same(s, s, ModeFields) /\ Settled(s)
      BY <2>2 DEF Same, Settled
    <3> QED
      BY <3>1, <3>2
  <2> QED
    BY <2>1, <2>2
<1> HIDE DEF d
<1>7. ASSUME t = p, d.mode = "Drain"
      PROVE  Core(t) /\ Same(s, t, ModeFields) /\ Modal(t) /\ Settled(t)
  <2>1. /\ Core(t) /\ Same(d, t, ModeFields) /\ t.mode = "ProbeBw" /\ t.pacingGain \in Gains
        /\ t.congestionWindowGain = configForProfile.cwndGainConstant
    BY <1>6, <1>7, ProbeBandwidthEntered DEF Event, p
  <2>2. Same(s, t, ModeFields)
    BY <1>6, <2>1 DEF Same
  <2>3. t.isAtFullBandwidth
    <3>1. d.isAtFullBandwidth
      BY <1>6, <1>7 DEF Modal
    <3>2. t.isAtFullBandwidth = d.isAtFullBandwidth
      BY <2>1, Names DEF Same, ModeFields
    <3> QED
      BY <3>1, <3>2
  <2> QED
    BY <2>1, <2>2, <2>3 DEF Modal, Settled
<1> QED
  BY <1>1, <1>6, <1>7 DEF t

ProbeFields == {"exitProbeRttIn", "probeRttRoundPassed", "minRttAge", "exitingQuiescence"}

(* The fields of PROBE_RTT have no part in the mode and its gains.         *)
LEMMA ProbeFieldsApart ==
  ASSUME NEW s, NEW t, Core(s), Modal(s), Settled(s), Sender(t), Same(s, t, ProbeFields)
  PROVE  Core(t) /\ Modal(t) /\ Settled(t)
<1>1. Typed(t)
  BY Names DEF Same, Typed, Core, ProbeFields
<1>2. Limits(t)
  BY Names DEF Same, Limits, Core, ProbeFields
<1>3. /\ t.mode = s.mode /\ t.pacingGain = s.pacingGain
      /\ t.congestionWindowGain = s.congestionWindowGain
      /\ t.isAtFullBandwidth = s.isAtFullBandwidth
  BY Names DEF Same, ProbeFields
<1>4. Modal(t)
  BY <1>3 DEF Modal
<1>5. Settled(t)
  BY <1>3 DEF Settled
<1> QED
  BY <1>1, <1>2, <1>4, <1>5 DEF Core

(* PROBE_RTT goes back to PROBE_BW at full bandwidth and to STARTUP        *)
(* before.                                                                 *)
LEMMA ProbeRttStep ==
  ASSUME NEW s, NEW e, NEW r \in BOOLEAN, NEW x \in BOOLEAN, Core(s), Event(e), Modal(s), Settled(s)
  PROVE  LET t == maybeEnterOrExitProbeRtt(s, e, r, x)
         IN  Core(t) /\ Same(s, t, ModeFields \cup ProbeFields) /\ Modal(t) /\ Settled(t)
<1> DEFINE t == maybeEnterOrExitProbeRtt(s, e, r, x)
           enter == x /\ ~s.exitingQuiescence /\ s.mode # "ProbeRtt"
           p0 == [s EXCEPT !.mode = "ProbeRtt", !.pacingGain = 1000, !.exitProbeRttIn = Unscheduled]
           p == IF enter THEN p0 ELSE s
           passed == p.probeRttRoundPassed \/ r
           q1 == [p EXCEPT !.exitProbeRttIn = ProbeRttTime, !.probeRttRoundPassed = FALSE]
           done == [p EXCEPT !.probeRttRoundPassed = passed, !.minRttAge = 0]
           q2 == enterProbeBandwidthMode(done, e.random)
           q3 == enterStartupMode(done)
           q4 == [p EXCEPT !.probeRttRoundPassed = passed]
           q == IF p.mode # "ProbeRtt" THEN p
                ELSE IF p.exitProbeRttIn = Unscheduled THEN
                  IF e.inFlight < p.minCongestionWindow + BufferSize THEN q1 ELSE p
                ELSE IF p.exitProbeRttIn = 0 /\ passed THEN
                  IF done.isAtFullBandwidth THEN q2 ELSE q3
                ELSE q4
           S == ModeFields \cup ProbeFields
           OK(u) == Core(u) /\ Same(s, u, S) /\ Modal(u) /\ Settled(u)
<1>1. t = [q EXCEPT !.exitingQuiescence = FALSE]
  BY DEF maybeEnterOrExitProbeRtt
<1>2. OK(p)
  <2>1. CASE enter
    <3>1. /\ Sender(p0) /\ Same(s, p0, S) /\ p0.mode = "ProbeRtt" /\ p0.pacingGain = 1000
          /\ p0.congestionWindowGain = s.congestionWindowGain
          /\ p0.cycleCurrentOffset = s.cycleCurrentOffset
      <4>0. s = [y \in Fields |-> s[y]]
        BY DEF Core, Sender
      <4>1. p0.mode = "ProbeRtt" /\ p0.pacingGain = 1000
        BY <4>0, Names
      <4>2. Same(s, p0, {"mode", "pacingGain", "exitProbeRttIn"})
        BY <4>0, Names, ZenonT(60) DEF Same
      <4>3. Sender(p0)
        <5> DEFINE w == "ProbeRtt"
                   g == 1000
        <5>1. p0 = [s EXCEPT !.mode = w, !.pacingGain = g, !.exitProbeRttIn = Unscheduled]
          OBVIOUS
        <5> HIDE DEF p0, w, g
        <5> QED
          BY <4>0, <5>1, Names DEF Sender
      <4> HIDE DEF p0
      <4>4. {"mode", "pacingGain", "exitProbeRttIn"} \subseteq S
        BY DEF ModeFields, ProbeFields
      <4> QED
        BY <4>1, <4>2, <4>3, <4>4, Names DEF Same
    <3>2. p = p0
      BY <2>1
    <3> HIDE DEF p0, p
    <3>3. Typed(p0)
      BY <3>1, Names DEF Same, Typed, Core, ModeFields, ProbeFields, Modes
    <3>4. Limits(p0)
      BY <3>1, Names DEF Same, Limits, Core, ModeFields, ProbeFields
    <3>5. Modal(p0) /\ Settled(p0)
      BY <3>1 DEF Modal, Settled
    <3> QED
      BY <3>1, <3>2, <3>3, <3>4, <3>5 DEF Core
  <2>2. CASE ~enter
    <3>1. p = s
      BY <2>2
    <3>2. Same(s, s, S)
      BY DEF Same
    <3> QED
      BY <3>1, <3>2
  <2> QED
    BY <2>1, <2>2
<1> HIDE DEF p, passed
<1>3. Sender(p) /\ Sender(s)
  BY <1>2 DEF Core
<1>4. ASSUME NEW u, Sender(u), Same(p, u, ProbeFields) PROVE OK(u)
  <2>1. Core(u) /\ Modal(u) /\ Settled(u)
    BY <1>2, <1>4, ProbeFieldsApart
  <2>2. Same(s, u, S)
    BY <1>2, <1>4 DEF Same
  <2> QED
    BY <2>1, <2>2
<1>5. OK(q1)
  <2>1. Sender(q1) /\ Same(p, q1, ProbeFields)
    BY <1>3, Names DEF Sender, Same, ProbeFields
  <2> HIDE DEF q1
  <2> QED
    BY <1>4, <2>1
<1>6. OK(done) /\ done.isAtFullBandwidth = p.isAtFullBandwidth
  <2>1. Sender(done) /\ Same(p, done, ProbeFields) /\ done.isAtFullBandwidth = p.isAtFullBandwidth
    BY <1>3, Names DEF Sender, Same, ProbeFields
  <2> HIDE DEF done
  <2> QED
    BY <1>4, <2>1
<1>7. OK(q4)
  <2>1. Sender(q4) /\ Same(p, q4, ProbeFields)
    BY <1>3, Names DEF Sender, Same, ProbeFields
  <2> HIDE DEF q4
  <2> QED
    BY <1>4, <2>1
<1> HIDE DEF q1, q4, done
<1>8. ASSUME done.isAtFullBandwidth PROVE OK(q2)
  <2>1. /\ Core(q2) /\ Same(done, q2, ModeFields) /\ q2.mode = "ProbeBw" /\ q2.pacingGain \in Gains
        /\ q2.congestionWindowGain = configForProfile.cwndGainConstant
    BY <1>6, ProbeBandwidthEntered DEF Event
  <2> HIDE DEF q2
  <2>2. q2.isAtFullBandwidth = done.isAtFullBandwidth
    BY <2>1, Names DEF Same, ModeFields
  <2>3. Same(s, q2, S)
    BY <1>6, <2>1 DEF Same
  <2>4. Modal(q2) /\ Settled(q2)
    BY <1>8, <2>1, <2>2 DEF Modal, Settled
  <2> QED
    BY <2>1, <2>3, <2>4
<1>9. ASSUME ~done.isAtFullBandwidth PROVE OK(q3)
  <2>1. /\ Core(q3) /\ Same(done, q3, ModeFields) /\ q3.mode = "Startup" /\ q3.pacingGain = highGain
        /\ q3.congestionWindowGain = highCwndGain
    BY <1>6, StartupEntered
  <2> HIDE DEF q3
  <2>2. q3.isAtFullBandwidth = done.isAtFullBandwidth
    BY <2>1, Names DEF Same, ModeFields
  <2>3. Same(s, q3, S)
    BY <1>6, <2>1 DEF Same
  <2>4. Modal(q3) /\ Settled(q3)
    BY <1>9, <2>1, <2>2 DEF Modal, Settled
  <2> QED
    BY <2>1, <2>3, <2>4
<1> HIDE DEF q2, q3, OK
<1>10. OK(q)
  BY <1>2, <1>5, <1>7, <1>8, <1>9
<1> HIDE DEF q, t
<1>11. Sender(q) /\ Core(q) /\ Modal(q) /\ Settled(q) /\ Same(s, q, S)
  BY <1>10 DEF OK, Core
<1>12. Sender(t) /\ Same(q, t, ProbeFields)
  BY <1>1, <1>11, Names DEF Sender, Same, ProbeFields
<1>13. Core(t) /\ Modal(t) /\ Settled(t)
  BY <1>11, <1>12, ProbeFieldsApart
<1>14. Same(s, t, S)
  BY <1>11, <1>12 DEF Same
<1> QED
  BY <1>13, <1>14 DEF t

-----------------------------------------------------------------------------
(* Products of numbers are numbers.                                        *)
LEMMA Products == \A x, y \in Nat : x * y \in Nat
<1> SUFFICES ASSUME NEW x \in Nat, NEW y \in Nat PROVE x * y \in Nat
  OBVIOUS
<1>1. x * y \in Int /\ x >= 0 /\ y >= 0
  OBVIOUS
<1>2. x * y >= 0
  BY <1>1
<1> QED
  BY <1>1, <1>2

(* So are their quotients.                                                 *)
LEMMA Quotients == \A x \in Nat, d \in Nat \ {0} : x \div d \in Nat
  OBVIOUS

(* Multiplication is monotonic.                                            *)
LEMMA Monotone == \A x, y, z \in Nat : x <= y => x * z <= y * z /\ z * x <= z * y
<1> SUFFICES ASSUME NEW x \in Nat, NEW y \in Nat, NEW z \in Nat, x <= y PROVE x * z <= y * z /\ z * x <= z * y
  OBVIOUS
<1> DEFINE d == y - x
<1>1. d \in Nat /\ y = x + d
  OBVIOUS
<1> HIDE DEF d
<1>2. y * z = x * z + d * z /\ z * y = z * x + z * d /\ z * d = d * z
  BY <1>1
<1>3. d * z \in Nat /\ x * z \in Nat
  BY <1>1, Products
<1> QED
  BY <1>2, <1>3

(* The minimum, the initial and the maximum window are in this order.      *)
LEMMA LimitsOrdered ==
  ASSUME NEW s, Limits(s)
  PROVE  /\ s.minCongestionWindow \in Nat /\ s.initialCongestionWindow \in Nat
         /\ s.maxCongestionWindow \in Nat
         /\ s.minCongestionWindow <= s.initialCongestionWindow
         /\ s.initialCongestionWindow <= s.maxCongestionWindow
<1>2. s.maxDatagramSize \in Nat
  BY DEF Limits
<1> DEFINE z == s.maxDatagramSize
<1> HIDE DEF z
<1>3. z \in Nat
  BY <1>2 DEF z
<1>4. /\ MinPackets * z \in Nat /\ InitialPackets * z \in Nat /\ MaxPackets * z \in Nat
  BY <1>3, PacketsAssumption, Products
<1>5. MinPackets * z <= InitialPackets * z /\ InitialPackets * z <= MaxPackets * z
  BY <1>3, Monotone, PacketsAssumption
<1> QED
  BY <1>4, <1>5 DEF Limits, z

(* A target window is never below the minimum window.                      *)
LEMMA TargetFacts ==
  ASSUME NEW s, NEW gain \in Nat, Core(s)
  PROVE  /\ bandwidthEstimate(s) \in Nat
         /\ getTargetCongestionWindow(s, gain) \in Nat
         /\ s.minCongestionWindow <= getTargetCongestionWindow(s, gain)
<1> DEFINE i == s.initialCongestionWindow
           m == s.minCongestionWindow
           w == bandwidthEstimate(s)
           bdp == bdpFromRttAndBandwidth(getMinRtt(s), bandwidthEstimate(s))
           window == (gain * bdp) \div 1000
           start == (gain * i) \div 1000
<1>1. i \in Nat /\ m \in Nat
  BY LimitsOrdered DEF Core
<1>2. w \in Nat
  BY DEF bandwidthEstimate, GetBest, Core, Typed, SamplesOK
<1>3. getMinRtt(s) \in Nat
  BY TimesAssumption DEF getMinRtt, Core, Typed
<1> HIDE DEF w, i, m
<1>4. bdp \in Nat
  BY <1>2, <1>3, Products DEF bdpFromRttAndBandwidth, w
<1> HIDE DEF bdp
<1>5. gain * bdp \in Nat /\ gain * i \in Nat
  BY <1>1, <1>4, Products
<1>6. window \in Nat /\ start \in Nat
  BY <1>5
<1>7. getTargetCongestionWindow(s, gain) = Larger(IF window = 0 THEN start ELSE window, m)
  BY DEF getTargetCongestionWindow, bdp, i, m
<1> HIDE DEF window, start
<1> QED
  BY <1>1, <1>2, <1>6, <1>7 DEF Larger, m, w

(* calculatePacingRate lowers the rate before full bandwidth only when it  *)
(* detects an overshoot, and then stops looking for one.                   *)
LEMMA PacingRateStep ==
  ASSUME NEW s, NEW e, Core(s), Event(e)
  PROVE  LET t == calculatePacingRate(s, e)
         IN  /\ Core(t)
             /\ Same(s, t, {"pacingRate", "bytesLostWhileDetectingOvershooting", "detectOvershooting"})
             /\ ~s.isAtFullBandwidth /\ t.pacingRate < s.pacingRate =>
                  s.detectOvershooting /\ ~t.detectOvershooting
<1> DEFINE t == calculatePacingRate(s, e)
           w == bandwidthEstimate(s)
           target == (s.pacingGain * w) \div 1000
           lost == s.bytesLostWhileDetectingOvershooting + Cardinality(e.lost)
           overshoot == /\ s.detectOvershooting /\ s.pacingRate > target /\ lost > 0
                        /\ \/ s.hasNoAppLimitedSample
                           \/ lost * configForProfile.lostMultiplier > s.initialCongestionWindow
           floor == BandwidthFromDelta(s.initialCongestionWindow, DefaultRtt)
           high == Larger(target, floor)
           kept == Larger(s.pacingRate, target)
           count == IF s.detectOvershooting THEN lost ELSE s.bytesLostWhileDetectingOvershooting
           t1 == [s EXCEPT !.pacingRate = target]
           t2 == [s EXCEPT !.pacingRate = floor]
           t3 == [s EXCEPT !.pacingRate = high, !.bytesLostWhileDetectingOvershooting = 0,
                           !.detectOvershooting = FALSE]
           t4 == [s EXCEPT !.pacingRate = kept, !.bytesLostWhileDetectingOvershooting = count]
           S == {"pacingRate", "bytesLostWhileDetectingOvershooting", "detectOvershooting"}
<1>1. t = IF w = 0 THEN s ELSE IF s.isAtFullBandwidth THEN t1 ELSE IF s.pacingRate = 0 THEN t2
          ELSE IF overshoot THEN t3 ELSE t4
  BY DEF calculatePacingRate
<1>2. target \in Nat /\ floor \in Nat
  <2>1. w \in Nat /\ s.pacingGain \in Nat /\ s.initialCongestionWindow \in Nat
    BY TargetFacts, LimitsOrdered DEF Core, Typed
  <2>2. s.pacingGain * w \in Nat
    BY <2>1, Products
  <2>3. target \in Nat
    BY <2>2, Quotients
  <2> QED
    BY <2>1, <2>3, Quotients, TimesAssumption DEF BandwidthFromDelta
<1>3. s.pacingRate \in Nat /\ Sender(s)
  BY DEF Core, Typed
<1>4. overshoot => s.detectOvershooting
  OBVIOUS
<1> HIDE DEF target, floor, t, overshoot, count, w
<1>5. high \in Nat /\ kept \in Nat /\ kept >= s.pacingRate
  BY <1>2, <1>3 DEF Larger
<1> HIDE DEF high, kept
<1>6. Sender(t1) /\ Same(s, t1, S) /\ t1.pacingRate = target
  BY <1>3, Names DEF Sender, Same
<1>7. Sender(t2) /\ Same(s, t2, S) /\ t2.pacingRate = floor
  BY <1>3, Names DEF Sender, Same
<1>8. Sender(t3) /\ Same(s, t3, S) /\ t3.pacingRate = high /\ ~t3.detectOvershooting
  BY <1>3, Names DEF Sender, Same
<1>9. Sender(t4) /\ Same(s, t4, S) /\ t4.pacingRate = kept
  BY <1>3, Names DEF Sender, Same
<1>10. Same(s, s, S)
  BY DEF Same
<1> HIDE DEF t1, t2, t3, t4
<1>11. Sender(t) /\ Same(s, t, S)
  BY <1>1, <1>3, <1>6, <1>7, <1>8, <1>9, <1>10, Zenon
<1>12. t.pacingRate \in Nat
  BY <1>1, <1>2, <1>3, <1>5, <1>6, <1>7, <1>8, <1>9
<1>13. ASSUME ~s.isAtFullBandwidth, t.pacingRate < s.pacingRate
       PROVE  s.detectOvershooting /\ ~t.detectOvershooting
  <2>1. ~(s.pacingRate < s.pacingRate) /\ ~(kept < s.pacingRate)
    BY <1>3, <1>5
  <2>2. s.pacingRate = 0 => ~(floor < s.pacingRate)
    BY <1>2
  <2>3. t = t3 /\ overshoot
    BY <1>1, <1>7, <1>9, <1>13, <2>1, <2>2, Zenon
  <2> QED
    BY <1>4, <1>8, <2>3
<1>14. Typed(t)
  BY <1>11, <1>12, Names DEF Same, Typed, Core
<1>15. Limits(t)
  BY <1>11, Names DEF Same, Limits, Core
<1> QED
  BY <1>11, <1>13, <1>14, <1>15 DEF Core, t

(* calculateCongestionWindow stays within the limits, and never shrinks    *)
(* the window before full bandwidth.                                       *)
LEMMA CongestionWindowStep ==
  ASSUME NEW s, NEW e, Core(s), Event(e)
  PROVE  LET t == calculateCongestionWindow(s, e)
         IN  /\ Core(t)
             /\ Same(s, t, {"congestionWindow"})
             /\ ~s.isAtFullBandwidth => t.congestionWindow >= s.congestionWindow
<1> DEFINE t == calculateCongestionWindow(s, e)
           extra == s.isAtFullBandwidth \/ configForProfile.ackAggregationStartup
           aim == getTargetCongestionWindow(s, s.congestionWindowGain)
           target == aim + (IF extra THEN e.ackHeight ELSE 0)
           grown == IF s.isAtFullBandwidth
                      THEN Smaller(target, s.congestionWindow + e.bytesAcked)
                    ELSE IF s.congestionWindow < target
                              \/ s.totalBytesAcked < s.initialCongestionWindow
                      THEN s.congestionWindow + e.bytesAcked
                    ELSE s.congestionWindow
           w == Smaller(Larger(grown, s.minCongestionWindow), s.maxCongestionWindow)
           u == [s EXCEPT !.congestionWindow = w]
<1>1. t = s \/ t = u
  BY DEF calculateCongestionWindow
<1>2. aim \in Nat
  BY TargetFacts DEF Core, Typed
<1> HIDE DEF aim
<1>3. target \in Nat
  BY <1>2 DEF Event
<1>4. /\ s.congestionWindow \in Nat /\ e.bytesAcked \in Nat
      /\ s.minCongestionWindow \in Nat /\ s.maxCongestionWindow \in Nat
      /\ s.minCongestionWindow <= s.congestionWindow
      /\ s.congestionWindow <= s.maxCongestionWindow
  BY LimitsOrdered DEF Core, Limits, Event
<1> HIDE DEF target
<1>5. grown \in Nat /\ (~s.isAtFullBandwidth => grown >= s.congestionWindow)
  BY <1>3, <1>4 DEF Smaller
<1> HIDE DEF grown, t
<1>6. /\ w \in Nat /\ s.minCongestionWindow <= w /\ w <= s.maxCongestionWindow
      /\ ~s.isAtFullBandwidth => w >= s.congestionWindow
  BY <1>4, <1>5 DEF Smaller, Larger
<1> HIDE DEF w
<1>7. Sender(u) /\ Same(s, u, {"congestionWindow"}) /\ u.congestionWindow = w
  BY Names DEF Sender, Same, Core
<1>8. Sender(s) /\ Same(s, s, {"congestionWindow"})
  BY DEF Same, Core
<1> HIDE DEF u
<1>9. /\ Sender(t) /\ Same(s, t, {"congestionWindow"})
      /\ t.congestionWindow \in {s.congestionWindow, w}
  BY <1>1, <1>7, <1>8, Zenon
<1>10. Typed(t)
  BY <1>9, Names DEF Same, Typed, Core
<1>11. Limits(t)
  BY <1>4, <1>6, <1>9, Names DEF Same, Limits, Core
<1>12. ~s.isAtFullBandwidth => t.congestionWindow >= s.congestionWindow
  BY <1>4, <1>6, <1>9
<1> QED
  BY <1>9, <1>10, <1>11, <1>12 DEF Core, t

(* In recovery the event ends with a window of at least the minimum, the   *)
(* zero on entry and the losses notwithstanding.                           *)
LEMMA RecoveryWindowStep ==
  ASSUME NEW s, NEW e, Core(s), Event(e)
  PROVE  LET t == calculateRecoveryWindow(s, e)
         IN  /\ Core(t)
             /\ Same(s, t, {"recoveryWindow"})
             /\ InRecovery(s) => t.recoveryWindow >= s.minCongestionWindow
<1> DEFINE t == calculateRecoveryWindow(s, e)
           aim == getTargetCongestionWindow(s, 1000)
           floor == aim \div 2
           lost == Cardinality(e.lost)
           reduced == IF s.recoveryWindow >= lost THEN s.recoveryWindow - lost
                      ELSE s.maxDatagramSize
           released == reduced + (IF s.recoveryState = "growth" THEN e.bytesAcked ELSE 0)
           window == IF s.recoveryWindow = 0 THEN e.inFlight + e.bytesAcked
                     ELSE Larger(released, e.inFlight + e.bytesAcked)
           w == Larger(Larger(window, s.minCongestionWindow), floor)
           u == [s EXCEPT !.recoveryWindow = w]
<1>1. IF InRecovery(s) THEN t = u ELSE t = s
  BY DEF calculateRecoveryWindow
<1>2. aim \in Nat
  BY TargetFacts
<1> HIDE DEF aim
<1>3. floor \in Nat
  BY <1>2
<1>4. lost \in Nat
  BY FS_CardinalityType DEF Event
<1>5. /\ s.recoveryWindow \in Nat /\ e.bytesAcked \in Nat /\ e.inFlight \in Nat
      /\ s.minCongestionWindow \in Nat /\ s.maxDatagramSize \in Nat
  BY LimitsOrdered DEF Core, Typed, Limits, Event
<1> HIDE DEF floor, lost, t
<1>6. window \in Nat
  BY <1>4, <1>5 DEF Larger
<1> HIDE DEF window
<1>7. w \in Nat /\ w >= s.minCongestionWindow
  BY <1>3, <1>5, <1>6 DEF Larger
<1> HIDE DEF w
<1>8. Sender(u) /\ Same(s, u, {"recoveryWindow"}) /\ u.recoveryWindow = w
  BY Names DEF Sender, Same, Core
<1>9. Sender(s) /\ Same(s, s, {"recoveryWindow"})
  BY DEF Same, Core
<1> HIDE DEF u
<1>10. /\ Sender(t) /\ Same(s, t, {"recoveryWindow"})
       /\ t.recoveryWindow \in {s.recoveryWindow, w} /\ (InRecovery(s) => t.recoveryWindow = w)
  BY <1>1, <1>8, <1>9, Zenon
<1>11. Typed(t)
  BY <1>5, <1>7, <1>10, Names DEF Same, Typed, Core
<1>12. Limits(t)
  BY <1>10, Names DEF Same, Limits, Core
<1> QED
  BY <1>7, <1>10, <1>11, <1>12 DEF Core, t

(* The counters of the round start again.                                  *)
LEMMA RoundEnded ==
  ASSUME NEW s, NEW r \in BOOLEAN, Core(s)
  PROVE  LET t == endRound(s, r)
         IN  Core(t) /\ Same(s, t, {"numLossEventsInRound", "bytesLostInRound"})
<1> DEFINE t == endRound(s, r)
<1>1. Sender(t) /\ Same(s, t, {"numLossEventsInRound", "bytesLostInRound"})
  BY Names DEF endRound, Sender, Same, Core
<1> HIDE DEF t
<1>2. Typed(t)
  BY <1>1, Names DEF Same, Typed, Core
<1>3. Limits(t)
  BY <1>1, Names DEF Same, Limits, Core
<1> QED
  BY <1>1, <1>2, <1>3 DEF Core, t

-----------------------------------------------------------------------------
(* OnCongestionEventEx: the mode and the flag agree again at its end,      *)
(* recovery has its window, and only a round start ends conservation.      *)
LEMMA EventStep ==
  ASSUME NEW s, NEW e, Core(s), Event(e), Modal(s), Settled(s),
         InRecovery(s) => s.isAtFullBandwidth
  PROVE  LET t == CongestionEvent(s, e)
         IN  /\ Core(t) /\ Modal(t) /\ Settled(t)
             /\ InRecovery(t) => t.isAtFullBandwidth /\ t.recoveryWindow >= t.minCongestionWindow
             /\ t.lastSentPacket = s.lastSentPacket
             /\ ~t.isAtFullBandwidth =>
                  /\ t.congestionWindow >= s.congestionWindow
                  /\ t.pacingRate < s.pacingRate => s.detectOvershooting /\ ~t.detectOvershooting
             /\ InRecovery(s) => \/ t.currentRoundTripEnd = s.currentRoundTripEnd
                                 \/ t.currentRoundTripEnd = s.lastSentPacket
             /\ ~InRecovery(s) /\ InRecovery(t) =>
                  /\ t.currentRoundTripEnd = s.lastSentPacket /\ e.acked # {}
                  /\ t.recoveryState = "conservation"
             /\ InRecovery(s) /\ t.recoveryState = "growth" =>
                  s.recoveryState = "growth" \/ IsRoundStart(s, e)
<1> DEFINE t == CongestionEvent(s, e)
           r == IsRoundStart(s, e)
           a1 == updateRoundTripCounter(s, e)
           a2 == updateRecoveryState(a1, e, r)
           a3 == applySample(a2, e)
           x == MinRttExpired(a3, e)
           a4 == maybeUpdateMinRtt(a3, e)
           a5 == countLosses(a4, e)
           a6 == updateGainCyclePhase(a5, e)
           a7 == checkIfFullBandwidthReached(a6, e, r)
           a8 == maybeExitStartupOrDrain(a7, e)
           a9 == maybeEnterOrExitProbeRtt(a8, e, r, x)
           a10 == calculatePacingRate(a9, e)
           a11 == calculateCongestionWindow(a10, e)
           a12 == calculateRecoveryWindow(a11, e)
<1>1. t = endRound(a12, r)
  BY DEF CongestionEvent
<1>2. r \in BOOLEAN /\ x \in BOOLEAN
  BY DEF IsRoundStart, MinRttExpired
<1> HIDE DEF t, r, x
<1>3. /\ Core(a1) /\ Same(s, a1, {"roundTripCount", "currentRoundTripEnd"})
      /\ a1.currentRoundTripEnd = IF r THEN s.lastSentPacket ELSE s.currentRoundTripEnd
  BY RoundTripCounter DEF r
<1> HIDE DEF a1
<1>4. /\ Core(a2)
      /\ Same(a1, a2, {"endRecoveryAt", "recoveryState", "recoveryWindow", "currentRoundTripEnd"})
      /\ InRecovery(a1) => a2.currentRoundTripEnd = a1.currentRoundTripEnd
      /\ ~InRecovery(a1) /\ InRecovery(a2) =>
           /\ a2.currentRoundTripEnd = a1.lastSentPacket /\ e.acked # {}
           /\ a1.isAtFullBandwidth /\ a2.recoveryState = "conservation"
      /\ InRecovery(a1) /\ a2.recoveryState = "growth" => a1.recoveryState = "growth" \/ r
  BY <1>2, <1>3, RecoveryState
<1> HIDE DEF a2
<1>5. /\ Core(a3)
      /\ Same(a2, a3, {"totalBytesAcked", "lastSampleIsAppLimited", "hasNoAppLimitedSample",
                       "maxBandwidth"})
  BY <1>4, Sampled
<1> HIDE DEF a3
<1>6. Core(a4) /\ Same(a3, a4, {"minRtt", "minRttAge"})
  BY <1>5, MinRttUpdated
<1> HIDE DEF a4
<1>7. Core(a5) /\ Same(a4, a5, {"numLossEventsInRound", "bytesLostInRound"})
  BY <1>6, LossesCounted
<1> HIDE DEF a5
<1>8. /\ Core(a6) /\ Same(a5, a6, {"cycleCurrentOffset", "cycleAge", "pacingGain"})
      /\ a5.mode # "ProbeBw" => a6.pacingGain = a5.pacingGain
      /\ a5.pacingGain \in Gains => a6.pacingGain \in Gains
  BY <1>7, GainCyclePhase
<1> HIDE DEF a6
<1>9. /\ Core(a7)
      /\ Same(a6, a7, {"bandwidthAtLastRound", "roundsWithoutBandwidthGain", "isAtFullBandwidth"})
      /\ a6.isAtFullBandwidth => a7.isAtFullBandwidth
  BY <1>2, <1>8, FullBandwidth
<1> HIDE DEF a7
(* Up to here the modes have not moved.                                    *)
<1>10. /\ a7.mode = s.mode /\ a7.congestionWindowGain = s.congestionWindowGain
       /\ s.mode # "ProbeBw" => a7.pacingGain = s.pacingGain
       /\ s.pacingGain \in Gains => a7.pacingGain \in Gains
  BY <1>3, <1>4, <1>5, <1>6, <1>7, <1>8, <1>9, Names DEF Same
<1>11. a6.isAtFullBandwidth = s.isAtFullBandwidth /\ a1.isAtFullBandwidth = s.isAtFullBandwidth
  BY <1>3, <1>4, <1>5, <1>6, <1>7, <1>8, Names DEF Same
<1>12. s.isAtFullBandwidth => a7.isAtFullBandwidth
  BY <1>9, <1>11
<1>13. Modal(a7)
  BY <1>10, <1>12 DEF Modal
<1>14. Core(a8) /\ Same(a7, a8, ModeFields) /\ Modal(a8) /\ Settled(a8)
  BY <1>9, <1>13, StartupOrDrainLeft
<1> HIDE DEF a8
<1>15. Core(a9) /\ Same(a8, a9, ModeFields \cup ProbeFields) /\ Modal(a9) /\ Settled(a9)
  BY <1>2, <1>14, ProbeRttStep
<1> HIDE DEF a9
<1>16. /\ Core(a10)
       /\ Same(a9, a10, {"pacingRate", "bytesLostWhileDetectingOvershooting", "detectOvershooting"})
       /\ ~a9.isAtFullBandwidth /\ a10.pacingRate < a9.pacingRate =>
            a9.detectOvershooting /\ ~a10.detectOvershooting
  BY <1>15, PacingRateStep
<1> HIDE DEF a10
<1>17. /\ Core(a11) /\ Same(a10, a11, {"congestionWindow"})
       /\ ~a10.isAtFullBandwidth => a11.congestionWindow >= a10.congestionWindow
  BY <1>16, CongestionWindowStep
<1> HIDE DEF a11
<1>18. /\ Core(a12) /\ Same(a11, a12, {"recoveryWindow"})
       /\ InRecovery(a11) => a12.recoveryWindow >= a11.minCongestionWindow
  BY <1>17, RecoveryWindowStep
<1> HIDE DEF a12
<1>19. Core(t) /\ Same(a12, t, {"numLossEventsInRound", "bytesLostInRound"})
  BY <1>1, <1>2, <1>18, RoundEnded
(* Each field, from the step that may change it.                           *)
<1>20. /\ t.mode = a9.mode /\ t.pacingGain = a9.pacingGain
       /\ t.congestionWindowGain = a9.congestionWindowGain
       /\ t.isAtFullBandwidth = a9.isAtFullBandwidth
  BY <1>16, <1>17, <1>18, <1>19, Names DEF Same
<1>21. Modal(t) /\ Settled(t)
  BY <1>15, <1>20 DEF Modal, Settled
<1>22. a9.isAtFullBandwidth = a7.isAtFullBandwidth /\ a10.isAtFullBandwidth = a9.isAtFullBandwidth
  BY <1>14, <1>15, <1>16, Names DEF Same, ModeFields, ProbeFields
<1>23. s.isAtFullBandwidth => t.isAtFullBandwidth
  BY <1>12, <1>20, <1>22
<1>24. /\ t.recoveryState = a2.recoveryState /\ a11.recoveryState = a2.recoveryState
       /\ a1.recoveryState = s.recoveryState
       /\ t.currentRoundTripEnd = a2.currentRoundTripEnd
       /\ t.lastSentPacket = s.lastSentPacket /\ a1.lastSentPacket = s.lastSentPacket
  BY <1>3, <1>4, <1>5, <1>6, <1>7, <1>8, <1>9, <1>14, <1>15, <1>16, <1>17, <1>18, <1>19, Names
     DEF Same, ModeFields, ProbeFields
<1>25. t.recoveryWindow = a12.recoveryWindow /\ t.minCongestionWindow = a11.minCongestionWindow
  BY <1>18, <1>19, Names DEF Same
<1>26. InRecovery(t) => t.isAtFullBandwidth /\ t.recoveryWindow >= t.minCongestionWindow
  BY <1>4, <1>11, <1>18, <1>23, <1>24, <1>25 DEF InRecovery
<1>27. /\ t.congestionWindow = a11.congestionWindow /\ a10.congestionWindow = s.congestionWindow
       /\ t.pacingRate = a10.pacingRate /\ a9.pacingRate = s.pacingRate
       /\ t.detectOvershooting = a10.detectOvershooting
       /\ a9.detectOvershooting = s.detectOvershooting
  BY <1>3, <1>4, <1>5, <1>6, <1>7, <1>8, <1>9, <1>14, <1>15, <1>16, <1>17, <1>18, <1>19, Names
     DEF Same, ModeFields, ProbeFields
<1>28. ~t.isAtFullBandwidth => /\ t.congestionWindow >= s.congestionWindow
                               /\ t.pacingRate < s.pacingRate =>
                                    s.detectOvershooting /\ ~t.detectOvershooting
  BY <1>16, <1>17, <1>20, <1>22, <1>27
<1>29. /\ InRecovery(s) => \/ t.currentRoundTripEnd = s.currentRoundTripEnd
                           \/ t.currentRoundTripEnd = s.lastSentPacket
       /\ ~InRecovery(s) /\ InRecovery(t) =>
            /\ t.currentRoundTripEnd = s.lastSentPacket /\ e.acked # {}
            /\ t.recoveryState = "conservation"
       /\ InRecovery(s) /\ t.recoveryState = "growth" => s.recoveryState = "growth" \/ r
  BY <1>3, <1>4, <1>24 DEF InRecovery
<1> QED
  BY <1>19, <1>21, <1>24, <1>26, <1>28, <1>29 DEF t, r

-----------------------------------------------------------------------------
(* A set of packet numbers below a bound has a largest one.                *)
LEMMA LargestNumber ==
  ASSUME NEW n \in Nat, NEW S \in SUBSET (0..n), S # {}
  PROVE  Max(S) \in S
<1> DEFINE R == OpToRel(<, Nat)
           T == {n - k : k \in S}
<1>1. IsWellFoundedOn(R, Nat)
  BY NatLessThanWellFounded
<1>2. \A x, y \in Nat : y < x => <<y, x>> \in R
  BY DEF OpToRel
<1>3. T \subseteq Nat /\ T # {}
  <2>1. \A k \in S : n - k \in Nat
    OBVIOUS
  <2>2. PICK k \in S : TRUE
    OBVIOUS
  <2>3. n - k \in T
    BY <2>2
  <2> QED
    BY <2>1, <2>3
<1> HIDE DEF R
<1>4. \E x \in T : \A y \in T : ~(<<y, x>> \in R)
  <2> HIDE DEF T
  <2> QED
    BY <1>1, <1>3, WFMin, Zenon
<1>5. PICK x \in T : \A y \in T : ~(<<y, x>> \in R)
  BY <1>4
<1>6. \A y \in T : ~(y < x)
  <2> HIDE DEF T
  <2> QED
    BY <1>2, <1>3, <1>5, Zenon
<1>7. PICK k \in S : x = n - k
  BY <1>5
<1>8. \A j \in S : k >= j
  BY <1>6, <1>7
<1> QED
  BY <1>8 DEF Max

(* The inductive invariant.                                                *)
SenderIInv ==
  /\ setup \in Setups
  /\ Core(b) /\ Modal(b) /\ Settled(b)
  /\ InRecovery(b) => b.isAtFullBandwidth /\ b.recoveryWindow >= b.minCongestionWindow
  /\ outstanding \subseteq 0..b.lastSentPacket
  /\ recoveryFrom \in PacketNumbers /\ largestAcked \in PacketNumbers
  /\ InRecovery(b) => /\ recoveryFrom \in Nat /\ recoveryFrom <= b.lastSentPacket
                      /\ recoveryFrom <= b.currentRoundTripEnd
  /\ b.recoveryState = "growth" => largestAcked > recoveryFrom

(* The inductive invariant implies what the runs check.                    *)
LEMMA SenderInvariant ==
  ASSUME SenderIInv
  PROVE  SenderInv /\ ModeConsistent /\ ConservationLastsRound
<1>1. SenderTypeOK
  BY DEF SenderIInv, SenderTypeOK, Core, Typed, Limits
<1>2. WindowInRange
  BY LimitsOrdered DEF SenderIInv, WindowInRange, GetCongestionWindow, Smaller, Core, Typed, Limits
<1>3. ModeConsistent
  BY DEF SenderIInv, ModeConsistent, Modal, Settled, Gains
<1> QED
  BY <1>1, <1>2, <1>3 DEF SenderIInv, SenderInv, ConservationLastsRound

(* newBbrSender for any datagram size.                                     *)
LEMMA NewSender ==
  ASSUME NEW size \in Nat \ {0}
  PROVE  /\ Core(NewBbrSender(size)) /\ Modal(NewBbrSender(size)) /\ Settled(NewBbrSender(size))
         /\ ~InRecovery(NewBbrSender(size)) /\ NewBbrSender(size).lastSentPacket = invalidPacketNumber
<1> DEFINE t == NewBbrSender(size)
<1>1. Sender(t)
  BY DEF NewBbrSender, Sender, Fields
<1>2. /\ t.mode = "Startup" /\ t.pacingGain = highGain /\ t.congestionWindowGain = highCwndGain
      /\ t.recoveryState = "none" /\ t.maxBandwidth = Clear
  BY DEF NewBbrSender
<1>3. /\ t.lastSentPacket = invalidPacketNumber /\ t.currentRoundTripEnd = invalidPacketNumber
      /\ t.endRecoveryAt = invalidPacketNumber /\ t.pacingRate = 0 /\ t.minRtt = 0
      /\ t.cycleCurrentOffset = 0
  BY DEF NewBbrSender
<1>4. /\ t.maxDatagramSize = size /\ t.minCongestionWindow = MinPackets * size
      /\ t.initialCongestionWindow = InitialPackets * size
      /\ t.maxCongestionWindow = MaxPackets * size
      /\ t.congestionWindow = InitialPackets * size /\ t.recoveryWindow = MaxPackets * size
  BY DEF NewBbrSender
<1>5. ~t.isAtFullBandwidth
  BY DEF NewBbrSender
<1> HIDE DEF t
<1>6. SamplesOK(Clear)
  BY DEF SamplesOK, Clear, Estimate
<1>7. Typed(t)
  <2>1. highGain \in Nat /\ highCwndGain \in Nat
    BY ProfileFacts
  <2>2. MaxPackets * size \in Nat
    BY PacketsAssumption, Products
  <2>3. 0 \in 0..(gainCycleLength - 1)
    BY CycleFacts
  <2> QED
    BY <1>2, <1>3, <1>4, <1>6, <2>1, <2>2, <2>3 DEF Typed, Modes, PacketNumbers
<1>8. Limits(t)
  BY <1>4, Monotone, Products, PacketsAssumption DEF Limits
<1> QED
  BY <1>1, <1>2, <1>3, <1>5, <1>7, <1>8 DEF Core, Modal, Settled, InRecovery, t

(* The invariant holds of a new connection.                                *)
LEMMA SenderStarts == Init => SenderIInv
<1> SUFFICES ASSUME Init PROVE SenderIInv
  OBVIOUS
<1>1. PICK size \in setup.datagramSizes : b = NewBbrSender(size)
  BY DEF Init
<1>2. size \in Nat \ {0}
  BY <1>1, SetupsAssumption DEF Init, Setup
<1>3. Core(b) /\ Modal(b) /\ Settled(b) /\ ~InRecovery(b)
  BY <1>1, <1>2, NewSender
<1> QED
  BY <1>3 DEF Init, SenderIInv, InRecovery, PacketNumbers

(* The gains are those of the connection's profile, which does not change. *)
LEMMA SameProfile ==
  ASSUME setup' = setup, Modal(b')
  PROVE  Modal(b)'
<1>1. /\ highGain' = highGain /\ highCwndGain' = highCwndGain /\ drainGain' = drainGain
      /\ (configForProfile.cwndGainConstant)' = configForProfile.cwndGainConstant
  BY DEF highGain, highCwndGain, drainGain, configForProfile
<1> QED
  BY <1>1 DEF Modal

(* OnPacketSent moves the last packet on; recovery began no later.         *)
LEMMA SentStep ==
  ASSUME SenderIInv, setup' = setup, NEW k \in BOOLEAN, OnPacketSent(k)
  PROVE  SenderIInv' /\ b'.congestionWindow = b.congestionWindow /\ b'.pacingRate = b.pacingRate
<1> DEFINE S == {"lastSentPacket", "exitingQuiescence"}
           n == b.lastSentPacket + 1
           q == b.exitingQuiescence \/ Cardinality(outstanding) = 0
<1>1. b' = [b EXCEPT !.lastSentPacket = n, !.exitingQuiescence = q]
  BY DEF OnPacketSent
<1> HIDE DEF q
<1>2. n \in Nat /\ b.lastSentPacket <= n /\ b.lastSentPacket \in PacketNumbers
  BY DEF SenderIInv, Core, Typed, PacketNumbers, invalidPacketNumber
<1> HIDE DEF n
<1>3. Sender(b') /\ Same(b, b', S) /\ b'.lastSentPacket = n
  BY <1>1, Names DEF SenderIInv, Core, Sender, Same
<1>4. Typed(b')
  BY <1>2, <1>3, Names DEF SenderIInv, Core, Same, Typed, PacketNumbers
<1>5. Limits(b')
  BY <1>3, Names DEF SenderIInv, Core, Same, Limits
<1>6. /\ b'.mode = b.mode /\ b'.pacingGain = b.pacingGain
      /\ b'.congestionWindowGain = b.congestionWindowGain
      /\ b'.isAtFullBandwidth = b.isAtFullBandwidth
  BY <1>3, Names DEF Same
<1>7. Modal(b')
  BY <1>6 DEF SenderIInv, Modal
<1>8. Modal(b)'
  BY <1>7, SameProfile
<1>9. Settled(b)'
  BY <1>6 DEF SenderIInv, Settled
<1>10. /\ b'.recoveryState = b.recoveryState /\ b'.recoveryWindow = b.recoveryWindow
       /\ b'.minCongestionWindow = b.minCongestionWindow
       /\ b'.currentRoundTripEnd = b.currentRoundTripEnd
       /\ b'.congestionWindow = b.congestionWindow /\ b'.pacingRate = b.pacingRate
  BY <1>3, Names DEF Same
<1>11. InRecovery(b)' => (b.isAtFullBandwidth /\ b.recoveryWindow >= b.minCongestionWindow)'
  BY <1>6, <1>10 DEF SenderIInv, InRecovery
<1>12. (outstanding \subseteq 0..b.lastSentPacket)'
  <2>1. outstanding \subseteq 0..n
    BY <1>2 DEF SenderIInv, PacketNumbers, invalidPacketNumber
  <2>2. n \in 0..n
    BY <1>2
  <2> QED
    BY <1>3, <2>1, <2>2 DEF OnPacketSent, n
<1>13. recoveryFrom' = recoveryFrom /\ largestAcked' = largestAcked
  BY DEF OnPacketSent
<1>14. InRecovery(b)' => (/\ recoveryFrom \in Nat /\ recoveryFrom <= b.lastSentPacket
                          /\ recoveryFrom <= b.currentRoundTripEnd)'
  BY <1>2, <1>3, <1>10, <1>13 DEF SenderIInv, InRecovery, PacketNumbers, invalidPacketNumber
<1>15. (b.recoveryState = "growth" => largestAcked > recoveryFrom)'
  BY <1>10, <1>13 DEF SenderIInv
<1>16. Core(b)'
  BY <1>3, <1>4, <1>5 DEF Core
<1> QED
  BY <1>8, <1>9, <1>10, <1>11, <1>12, <1>13, <1>14, <1>15, <1>16 DEF SenderIInv

(* Windows that count packets scale without a remainder.                   *)
LEMMA ScaledPackets ==
  ASSUME NEW n \in Nat, NEW old \in Nat \ {0}, NEW new \in Nat
  PROVE  scaleByteWindow(n * old, old, new) = n * new
<1>1. \A k \in Nat : (k * old) \div old = k
  OBVIOUS
<1>2. (n * old) * new = (n * new) * old
  OBVIOUS
<1>3. n * new \in Nat
  BY Products
<1> QED
  BY <1>1, <1>2, <1>3 DEF scaleByteWindow

(* SetMaxDatagramSize moves all limits at once: the window it leaves is    *)
(* within the new ones, and the recovery window too.                       *)
LEMMA DatagramSizeStep ==
  ASSUME SenderIInv, setup' = setup, NEW size \in setup.datagramSizes, SetMaxDatagramSize(size)
  PROVE  /\ SenderIInv'
         /\ b'.congestionWindow >= b.congestionWindow /\ b'.pacingRate = b.pacingRate
<1> DEFINE old == b.maxDatagramSize
           S == {"maxDatagramSize", "initialCongestionWindow", "maxCongestionWindow",
                 "minCongestionWindow", "congestionWindow", "recoveryWindow"}
           initial == scaleByteWindow(b.initialCongestionWindow, old, size)
           max == scaleByteWindow(b.maxCongestionWindow, old, size)
           min == MinPackets * size
           window == IF b.congestionWindow = b.minCongestionWindow THEN min
                     ELSE IF b.congestionWindow = b.initialCongestionWindow THEN initial
                     ELSE Smaller(max, Larger(b.congestionWindow, min))
           recovery == Smaller(max, Larger(b.recoveryWindow, min))
<1>1. size \in Nat \ {0} /\ size > old /\ old \in Nat \ {0}
  BY SetupsAssumption DEF SenderIInv, Setup, SetMaxDatagramSize, Core, Limits
<1>2. b' = [b EXCEPT !.maxDatagramSize = size, !.initialCongestionWindow = initial,
                     !.maxCongestionWindow = max, !.minCongestionWindow = min,
                     !.congestionWindow = window, !.recoveryWindow = recovery]
  BY DEF SetMaxDatagramSize, setMaxDatagramSize
<1>3. initial = InitialPackets * size /\ max = MaxPackets * size
  <2>1. /\ b.initialCongestionWindow = InitialPackets * old
        /\ b.maxCongestionWindow = MaxPackets * old
    BY DEF SenderIInv, Core, Limits
  <2> HIDE DEF old
  <2>2. /\ scaleByteWindow(InitialPackets * old, old, size) = InitialPackets * size
        /\ scaleByteWindow(MaxPackets * old, old, size) = MaxPackets * size
    BY <1>1, ScaledPackets, PacketsAssumption
  <2> QED
    BY <2>1, <2>2
<1> HIDE DEF initial, max
<1>4. /\ min \in Nat /\ initial \in Nat /\ max \in Nat /\ min <= initial /\ initial <= max
      /\ b.minCongestionWindow <= min /\ b.initialCongestionWindow <= initial
      /\ b.maxCongestionWindow <= max
  BY <1>1, <1>3, Monotone, Products, PacketsAssumption DEF SenderIInv, Core, Limits
<1>5. /\ b.congestionWindow \in Nat /\ b.minCongestionWindow <= b.congestionWindow
      /\ b.congestionWindow <= b.maxCongestionWindow /\ b.recoveryWindow \in Nat
      /\ b.minCongestionWindow \in Nat /\ b.initialCongestionWindow \in Nat
      /\ b.maxCongestionWindow \in Nat
  BY LimitsOrdered DEF SenderIInv, Core, Limits, Typed
<1> HIDE DEF min
<1>6. /\ window \in Nat /\ min <= window /\ window <= max /\ window >= b.congestionWindow
      /\ recovery \in Nat /\ recovery >= min
  BY <1>4, <1>5 DEF Smaller, Larger
<1> HIDE DEF window, recovery
<1>7. Sender(b') /\ Same(b, b', S)
  BY <1>2, Names DEF SenderIInv, Core, Sender, Same
<1>8. /\ b'.maxDatagramSize = size /\ b'.initialCongestionWindow = initial
      /\ b'.maxCongestionWindow = max /\ b'.minCongestionWindow = min
      /\ b'.congestionWindow = window /\ b'.recoveryWindow = recovery
  BY <1>2, Names DEF SenderIInv, Core, Sender
<1>9. Typed(b')
  BY <1>6, <1>7, <1>8, Names DEF SenderIInv, Core, Same, Typed
<1>10. Limits(b')
  BY <1>1, <1>3, <1>6, <1>8 DEF Limits, min
<1>11. Core(b)'
  BY <1>7, <1>9, <1>10 DEF Core
<1>12. /\ b'.mode = b.mode /\ b'.pacingGain = b.pacingGain
       /\ b'.congestionWindowGain = b.congestionWindowGain
       /\ b'.isAtFullBandwidth = b.isAtFullBandwidth
  BY <1>7, Names DEF Same
<1>13. Modal(b)'
  <2>1. Modal(b')
    BY <1>12 DEF SenderIInv, Modal
  <2> QED
    BY <2>1, SameProfile
<1>14. Settled(b)'
  BY <1>12 DEF SenderIInv, Settled
<1>15. /\ b'.recoveryState = b.recoveryState /\ b'.lastSentPacket = b.lastSentPacket
       /\ b'.currentRoundTripEnd = b.currentRoundTripEnd /\ b'.pacingRate = b.pacingRate
       /\ UNCHANGED <<outstanding, recoveryFrom, largestAcked>>
  BY <1>7, Names DEF Same, SetMaxDatagramSize
<1>16. InRecovery(b)' => (b.isAtFullBandwidth /\ b.recoveryWindow >= b.minCongestionWindow)'
  BY <1>6, <1>8, <1>12, <1>15 DEF SenderIInv, InRecovery
<1> QED
  BY <1>6, <1>8, <1>11, <1>13, <1>14, <1>15, <1>16 DEF SenderIInv, InRecovery

(* Time changes ages only.                                                 *)
LEMMA TickStep ==
  ASSUME SenderIInv, setup' = setup, Tick
  PROVE  SenderIInv' /\ b'.congestionWindow = b.congestionWindow /\ b'.pacingRate = b.pacingRate
<1> DEFINE S == {"minRttAge", "cycleAge", "exitProbeRttIn"}
           v1 == IF b.minRtt = 0 THEN 0 ELSE Smaller(b.minRttAge + 1, MinRttExpiry + 1)
           v2 == IF b.mode = "ProbeBw" THEN Smaller(b.cycleAge + 1, MaxCycleAge) ELSE 0
           v3 == IF b.exitProbeRttIn > 0 THEN b.exitProbeRttIn - 1 ELSE b.exitProbeRttIn
<1>1. b' = [b EXCEPT !.minRttAge = v1, !.cycleAge = v2, !.exitProbeRttIn = v3]
  BY DEF Tick
<1> HIDE DEF v1, v2, v3
<1>2. Sender(b') /\ Same(b, b', S)
  BY <1>1, Names DEF SenderIInv, Core, Sender, Same
<1>3. Typed(b')
  BY <1>2, Names DEF SenderIInv, Core, Same, Typed
<1>4. Limits(b')
  BY <1>2, Names DEF SenderIInv, Core, Same, Limits
<1>5. Core(b)'
  BY <1>2, <1>3, <1>4 DEF Core
<1>6. /\ b'.mode = b.mode /\ b'.pacingGain = b.pacingGain
      /\ b'.congestionWindowGain = b.congestionWindowGain
      /\ b'.isAtFullBandwidth = b.isAtFullBandwidth
  BY <1>2, Names DEF Same
<1>7. Modal(b)'
  <2>1. Modal(b')
    BY <1>6 DEF SenderIInv, Modal
  <2> QED
    BY <2>1, SameProfile
<1>8. Settled(b)'
  BY <1>6 DEF SenderIInv, Settled
<1>9. /\ b'.recoveryState = b.recoveryState /\ b'.lastSentPacket = b.lastSentPacket
      /\ b'.currentRoundTripEnd = b.currentRoundTripEnd /\ b'.pacingRate = b.pacingRate
      /\ b'.congestionWindow = b.congestionWindow /\ b'.recoveryWindow = b.recoveryWindow
      /\ b'.minCongestionWindow = b.minCongestionWindow
      /\ UNCHANGED <<outstanding, recoveryFrom, largestAcked>>
  BY <1>2, Names DEF Same, Tick
<1>10. InRecovery(b)' => (b.isAtFullBandwidth /\ b.recoveryWindow >= b.minCongestionWindow)'
  BY <1>6, <1>9 DEF SenderIInv, InRecovery
<1> QED
  BY <1>5, <1>7, <1>8, <1>9, <1>10 DEF SenderIInv, InRecovery

(* A congestion event over packets that are in flight.                     *)
LEMMA CongestionEventStep ==
  ASSUME SenderIInv, setup' = setup, NEW acked \in SUBSET outstanding,
         NEW lost \in SUBSET outstanding, OnCongestionEventEx(acked, lost)
  PROVE  /\ SenderIInv'
         /\ ~b'.isAtFullBandwidth =>
              /\ b'.congestionWindow >= b.congestionWindow
              /\ b'.pacingRate < b.pacingRate => b.detectOvershooting /\ ~b'.detectOvershooting
<1> DEFINE prior == Cardinality(outstanding)
           Ev(m, random) ==
             [acked |-> acked, lost |-> lost, random |-> random,
              lastAcked |-> IF acked = {} THEN invalidPacketNumber ELSE Max(acked),
              priorInFlight |-> prior, inFlight |-> prior - Cardinality(acked \cup lost),
              bytesAcked |-> m.bytesAcked, bandwidth |-> m.bandwidth,
              appLimited |-> m.appLimited, rtt |-> m.rtt, ackHeight |-> m.ackHeight,
              sendState |-> m.sendState]
<1>1. PICK m \in Samples(acked, lost), random \in 0..(gainCycleLength - 2) :
        /\ b' = CongestionEvent(b, Ev(m, random))
        /\ largestAcked' = IF InRecovery(b') THEN Larger(largestAcked, Ev(m, random).lastAcked)
                           ELSE invalidPacketNumber
  BY DEF OnCongestionEventEx
<1> DEFINE e == Ev(m, random)
<1>2. /\ e.acked = acked /\ e.lost = lost /\ e.random = random
      /\ e.lastAcked = (IF acked = {} THEN invalidPacketNumber ELSE Max(acked))
      /\ e.inFlight = prior - Cardinality(acked \cup lost)
      /\ e.bytesAcked = m.bytesAcked /\ e.bandwidth = m.bandwidth /\ e.rtt = m.rtt
      /\ e.ackHeight = m.ackHeight
  OBVIOUS
<1>3. b' = CongestionEvent(b, e)
  BY <1>1
<1>4. largestAcked' = IF InRecovery(b') THEN Larger(largestAcked, e.lastAcked)
                      ELSE invalidPacketNumber
  BY <1>1
<1> HIDE DEF e
<1>5. /\ b.lastSentPacket \in PacketNumbers /\ outstanding \subseteq 0..b.lastSentPacket
      /\ acked \cup lost \subseteq outstanding
  BY DEF SenderIInv, Core, Typed
<1>6. IsFiniteSet(outstanding)
  <2>1. IsFiniteSet(0..b.lastSentPacket)
    <3>1. b.lastSentPacket \in Int /\ 0 \in Int
      BY <1>5 DEF PacketNumbers, invalidPacketNumber
    <3> QED
      BY <3>1, FS_Interval, Zenon
  <2> QED
    BY <1>5, <2>1, FS_Subset
<1>7. IsFiniteSet(lost) /\ e.inFlight \in Nat
  <2>1. /\ IsFiniteSet(acked \cup lost) /\ IsFiniteSet(lost)
        /\ Cardinality(acked \cup lost) <= prior
    BY <1>5, <1>6, FS_Subset
  <2>2. prior \in Nat /\ Cardinality(acked \cup lost) \in Nat
    BY <1>6, <2>1, FS_CardinalityType
  <2> HIDE DEF prior
  <2> QED
    BY <1>2, <2>1, <2>2
<1>8. IsFiniteSet(acked) /\ Cardinality(acked) \in Nat
  BY <1>6, FS_Subset, FS_CardinalityType
<1>9. e.bytesAcked \in Nat /\ e.bandwidth \in Nat /\ e.rtt \in Nat /\ e.ackHeight \in Nat
  <2>1. /\ m.bytesAcked \in 0..Cardinality(acked) /\ m.bandwidth \in setup.bandwidths \cup {0}
        /\ m.rtt \in setup.rtts \cup {0} /\ m.ackHeight \in setup.ackHeights
    <3> DEFINE A == 0..Cardinality(acked)
               B == setup.bandwidths \cup {0}
               C == setup.appLimitedFlags \cup {FALSE}
               D == setup.rtts \cup {0}
               E == SendStates \cup {NoSendState}
    <3>1. m \in [bytesAcked : A, bandwidth : B, appLimited : C, rtt : D,
                 ackHeight : setup.ackHeights, sendState : E]
      BY Zenon DEF Samples
    <3> HIDE DEF A, B, C, D, E
    <3>2. m.bytesAcked \in A /\ m.bandwidth \in B /\ m.rtt \in D /\ m.ackHeight \in setup.ackHeights
      BY <3>1
    <3> QED
      BY <3>2 DEF A, B, D
  <2>2. /\ setup.bandwidths \subseteq Nat /\ setup.rtts \subseteq Nat
        /\ setup.ackHeights \subseteq Nat
    BY SetupsAssumption DEF SenderIInv, Setup
  <2> QED
    BY <1>2, <1>8, <2>1, <2>2
<1>10. e.lastAcked \in PacketNumbers /\ (acked # {} => b.lastSentPacket \in Nat)
  <2>1. CASE acked = {}
    BY <1>2, <2>1 DEF PacketNumbers
  <2>2. CASE acked # {}
    <3>1. b.lastSentPacket \in Nat /\ acked \in SUBSET (0..b.lastSentPacket)
      <4>1. PICK p \in acked : TRUE
        BY <2>2
      <4>2. p \in 0..b.lastSentPacket /\ acked \subseteq 0..b.lastSentPacket
        BY <1>5
      <4>3. b.lastSentPacket # -1
        BY <4>2
      <4> QED
        BY <1>5, <4>2, <4>3 DEF PacketNumbers, invalidPacketNumber
    <3>2. Max(acked) \in acked
      BY <2>2, <3>1, LargestNumber
    <3>3. Max(acked) \in Nat
      <4>1. \A k \in acked : k \in Nat
        BY <3>1
      <4> QED
        BY <3>2, <4>1, Zenon
    <3>4. e.lastAcked = Max(acked)
      BY <1>2, <2>2
    <3> QED
      BY <3>1, <3>3, <3>4 DEF PacketNumbers
  <2> QED
    BY <2>1, <2>2
<1>11. Event(e)
  BY <1>2, <1>7, <1>9, <1>10 DEF Event
<1>12. /\ Core(b') /\ Modal(b') /\ Settled(b')
       /\ InRecovery(b') => b'.isAtFullBandwidth /\ b'.recoveryWindow >= b'.minCongestionWindow
       /\ b'.lastSentPacket = b.lastSentPacket
       /\ ~b'.isAtFullBandwidth =>
            /\ b'.congestionWindow >= b.congestionWindow
            /\ b'.pacingRate < b.pacingRate => b.detectOvershooting /\ ~b'.detectOvershooting
       /\ InRecovery(b) => \/ b'.currentRoundTripEnd = b.currentRoundTripEnd
                           \/ b'.currentRoundTripEnd = b.lastSentPacket
       /\ ~InRecovery(b) /\ InRecovery(b') =>
            /\ b'.currentRoundTripEnd = b.lastSentPacket /\ e.acked # {}
            /\ b'.recoveryState = "conservation"
       /\ InRecovery(b) /\ b'.recoveryState = "growth" =>
            b.recoveryState = "growth" \/ IsRoundStart(b, e)
  BY <1>3, <1>11, EventStep DEF SenderIInv
<1>13. /\ outstanding' = outstanding \ (acked \cup lost)
       /\ recoveryFrom' = IF ~InRecovery(b') THEN invalidPacketNumber
                          ELSE IF InRecovery(b) THEN recoveryFrom ELSE b.lastSentPacket
  BY DEF OnCongestionEventEx, InRecovery
<1>14. (outstanding \subseteq 0..b.lastSentPacket)'
  BY <1>5, <1>12, <1>13
<1>15. recoveryFrom' \in PacketNumbers /\ largestAcked' \in PacketNumbers
  BY <1>4, <1>5, <1>10, <1>13 DEF SenderIInv, Larger, PacketNumbers
<1>16. InRecovery(b') => /\ recoveryFrom' \in Nat /\ recoveryFrom' <= b'.lastSentPacket
                         /\ recoveryFrom' <= b'.currentRoundTripEnd
  BY <1>2, <1>5, <1>10, <1>12, <1>13 DEF SenderIInv, PacketNumbers, invalidPacketNumber
<1>17. b'.recoveryState = "growth" => largestAcked' > recoveryFrom'
  <2> SUFFICES ASSUME b'.recoveryState = "growth" PROVE largestAcked' > recoveryFrom'
    OBVIOUS
  <2>1. InRecovery(b') /\ InRecovery(b)
    BY <1>12 DEF InRecovery
  <2>2. /\ largestAcked' = Larger(largestAcked, e.lastAcked) /\ recoveryFrom' = recoveryFrom
        /\ largestAcked \in Int /\ e.lastAcked \in Int /\ recoveryFrom \in Nat
        /\ recoveryFrom <= b.currentRoundTripEnd /\ b.currentRoundTripEnd \in PacketNumbers
    BY <1>4, <1>10, <1>13, <2>1 DEF SenderIInv, PacketNumbers, invalidPacketNumber, Core, Typed
  <2>3. CASE b.recoveryState = "growth"
    <3>1. largestAcked > recoveryFrom
      BY <2>3 DEF SenderIInv
    <3> QED
      BY <2>2, <3>1 DEF Larger
  <2>4. CASE IsRoundStart(b, e)
    <3>1. e.lastAcked > recoveryFrom
      BY <2>2, <2>4 DEF IsRoundStart, PacketNumbers, invalidPacketNumber
    <3> QED
      BY <2>2, <3>1 DEF Larger
  <2> QED
    BY <1>12, <2>1, <2>3, <2>4
<1>18. Modal(b)'
  BY <1>12, SameProfile
<1>19. /\ Core(b)' /\ Settled(b)'
       /\ InRecovery(b)' => (b.isAtFullBandwidth /\ b.recoveryWindow >= b.minCongestionWindow)'
       /\ InRecovery(b)' => (/\ recoveryFrom \in Nat /\ recoveryFrom <= b.lastSentPacket
                             /\ recoveryFrom <= b.currentRoundTripEnd)'
  BY <1>12, <1>16
<1> QED
  BY <1>12, <1>14, <1>15, <1>17, <1>18, <1>19 DEF SenderIInv, PacketNumbers

-----------------------------------------------------------------------------
(* Every step keeps the invariant, and before full bandwidth lowers        *)
(* neither the window nor, without an overshoot, the pacing rate.          *)
LEMMA SenderStep ==
  SenderIInv /\ [Next]_vars =>
    /\ SenderIInv'
    /\ ~b'.isAtFullBandwidth =>
         /\ b'.congestionWindow >= b.congestionWindow
         /\ b'.pacingRate < b.pacingRate => b.detectOvershooting /\ ~b'.detectOvershooting
<1> SUFFICES ASSUME SenderIInv, [Next]_vars
             PROVE  /\ SenderIInv'
                    /\ ~b'.isAtFullBandwidth =>
                         /\ b'.congestionWindow >= b.congestionWindow
                         /\ b'.pacingRate < b.pacingRate =>
                              b.detectOvershooting /\ ~b'.detectOvershooting
  OBVIOUS
<1>0. b.congestionWindow \in Nat /\ b.pacingRate \in Nat
  BY DEF SenderIInv, Core, Typed, Limits
<1> DEFINE Kept == /\ b'.congestionWindow >= b.congestionWindow
                   /\ ~(b'.pacingRate < b.pacingRate)
<1>1. ASSUME setup' = setup, NEW k \in BOOLEAN, OnPacketSent(k) PROVE SenderIInv' /\ Kept
  BY <1>0, <1>1, SentStep
<1>2. ASSUME setup' = setup, NEW size \in setup.datagramSizes, SetMaxDatagramSize(size)
      PROVE  SenderIInv' /\ Kept
  BY <1>0, <1>2, DatagramSizeStep
<1>3. ASSUME setup' = setup, Tick PROVE SenderIInv' /\ Kept
  BY <1>0, <1>3, TickStep
<1>4. ASSUME UNCHANGED vars PROVE SenderIInv' /\ Kept
  <2>1. UNCHANGED <<setup, b, outstanding, recoveryFrom, largestAcked>>
    BY <1>4 DEF vars
  <2>2. Modal(b)'
    <3>1. Modal(b')
      BY <2>1 DEF SenderIInv
    <3> QED
      BY <2>1, <3>1, SameProfile
  <2> QED
    BY <1>0, <2>1, <2>2 DEF SenderIInv
<1>5. ASSUME Next PROVE \/ SenderIInv' /\ Kept
                        \/ \E acked, lost \in SUBSET outstanding :
                             setup' = setup /\ OnCongestionEventEx(acked, lost)
  <2>1. setup.packetKinds \subseteq BOOLEAN
    BY SetupsAssumption DEF SenderIInv, Setup
  <2> QED
    BY <1>1, <1>2, <1>3, <1>5, <2>1 DEF Next
<1> QED
  BY <1>4, <1>5, CongestionEventStep

(* The inductive invariant. Beyond the properties it says that the limits  *)
(* are the packet counts times the datagram size (rescaling is exact),     *)
(* that the recovery window in recovery is at least the minimum, and that  *)
(* the current round ends no earlier than the packet recovery began with:  *)
(* that is why only a later packet can end the conservation phase.         *)
THEOREM SenderInvariance == Spec => []SenderIInv
<1> QED
  BY SenderStarts, SenderStep, PTL DEF Spec

(* The congestion window is always within its limits and what may be sent  *)
(* is never less than the minimum window.                                  *)
THEOREM SenderWindows == Spec => []SenderInv
<1>1. SenderIInv => SenderInv
  BY SenderInvariant
<1> QED
  BY <1>1, SenderInvariance, PTL

(* The mode, the gains and the full bandwidth flag always agree.           *)
THEOREM SenderModes == Spec => []ModeConsistent
<1>1. SenderIInv => ModeConsistent
  BY SenderInvariant
<1> QED
  BY <1>1, SenderInvariance, PTL

(* The growth phase of recovery begins only after a packet sent since      *)
(* recovery began was acknowledged.                                        *)
THEOREM SenderConserves == Spec => []ConservationLastsRound
<1>1. SenderIInv => ConservationLastsRound
  BY SenderInvariant
<1> QED
  BY <1>1, SenderInvariance, PTL

(* Before full bandwidth no step lowers the congestion window, and the     *)
(* pacing rate falls only when an overshoot is detected, at most once.     *)
THEOREM SenderStartup == Spec => StartupKept
<1>1. SenderIInv /\ [Next]_vars =>
        [~b'.isAtFullBandwidth =>
           /\ b'.congestionWindow >= b.congestionWindow
           /\ b'.pacingRate < b.pacingRate => b.detectOvershooting /\ ~b'.detectOvershooting]_vars
  BY SenderStep
<1> QED
  BY <1>1, SenderInvariance, PTL DEF Spec, StartupKept
=============================================================================
