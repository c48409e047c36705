----------------------------- MODULE BbrSender -----------------------------
(***************************************************************************)
(* The BBR congestion controller of the HTTP/3 frontend, bbr_sender.go.    *)
(* The record b is the bbrSender struct; every method is an operator from  *)
(* the struct before it to the struct after it, and OnCongestionEventEx is *)
(* their composition in the order of the code.                             *)
(*                                                                         *)
(* Bytes are counted in units of one packet payload, time in ticks,        *)
(* bandwidth in bytes per tick, and gains in thousandths.  A time that the *)
(* code only compares with the clock is kept as the age or the wait it     *)
(* stands for, cut off where the comparison no longer changes.  What the   *)
(* bandwidth sampler measures is an input of the event.                    *)
(***************************************************************************)
EXTENDS Filters, Integers, Sequences, FiniteSetsExt

CONSTANTS
  pacingGain,         \* the cycle of gains of PROBE_BW, in thousandths
  MinPackets,         \* minCongestionWindowPackets
  InitialPackets,     \* initialCongestionWindowPackets
  MaxPackets,         \* congestion.MaxCongestionWindowPackets
  StartupLossCount,   \* defaultStartupFullLossCount
  MinRttExpiry,       \* minRttExpiry
  ProbeRttTime,       \* probeRttTime
  DefaultRtt,         \* rttStats.MinRTT(), or 100 ms before it has one
  BufferSize,         \* congestion.MaxPacketBufferSize
  Setups              \* bounds: what a connection is and meets, see Setup

(* A connection: its profile, the datagram sizes given to NewBbrSender and *)
(* SetMaxDatagramSize, what the sampler can measure (bandwidths and RTTs   *)
(* without 0, excess bytes of ack aggregation, bytes in flight at the last *)
(* sent packet, app-limited or not), packets in flight (TRUE) or ack-only  *)
(* (FALSE), whether time passes between events, and how many packets there *)
(* are in all and in flight.                                               *)
Setup ==
  [profile : {"conservative", "standard", "aggressive"},
   datagramSizes : SUBSET (Nat \ {0}), bandwidths : SUBSET (Nat \ {0}),
   rtts : SUBSET (Nat \ {0}), ackHeights : SUBSET Nat, sendInFlights : SUBSET Nat,
   appLimitedFlags : SUBSET BOOLEAN, packetKinds : SUBSET BOOLEAN, timePasses : BOOLEAN,
   maxPacketNumber : Nat, maxOutstanding : Nat]

ASSUME SetupsAssumption == Setups \subseteq Setup
ASSUME GainCycle ==
  /\ pacingGain \in Seq(Nat) /\ Len(pacingGain) >= 3
  /\ pacingGain[1] > 1000 /\ pacingGain[2] < 1000
  /\ \A i \in 3..Len(pacingGain) : pacingGain[i] = 1000
ASSUME PacketsAssumption ==
  /\ MinPackets \in Nat /\ InitialPackets \in Nat /\ MaxPackets \in Nat
  /\ 0 < MinPackets /\ MinPackets <= InitialPackets /\ InitialPackets <= MaxPackets
ASSUME TimesAssumption ==
  /\ MinRttExpiry \in Nat /\ ProbeRttTime \in Nat /\ DefaultRtt \in Nat \ {0}
  /\ StartupLossCount \in Nat /\ BufferSize \in Nat

VARIABLES
  setup,        \* the connection this behaviour is about
  b,            \* the bbrSender
  outstanding,  \* the packets in flight, known to the connection
  recoveryFrom, \* history, in recovery: the newest packet when it was entered
  largestAcked  \* history, in recovery: the largest packet acknowledged

vars == <<setup, b, outstanding, recoveryFrom, largestAcked>>

-----------------------------------------------------------------------------
invalidPacketNumber == -1
Unscheduled == -1
gainCycleLength == Len(pacingGain)
bandwidthWindowSize == gainCycleLength + 2

(* The gains and switches of the three profiles.                           *)
configForProfile ==
  CASE setup.profile = "conservative" ->
         [highGain |-> 2250, highCwndGain |-> 1750, cwndGainConstant |-> 1750,
          numStartupRtts |-> 2, drainToTarget |-> TRUE, detectOvershooting |-> TRUE,
          lostMultiplier |-> 1, ackAggregationStartup |-> FALSE]
    [] setup.profile = "aggressive" ->
         [highGain |-> 3000, highCwndGain |-> 2250, cwndGainConstant |-> 2500,
          numStartupRtts |-> 4, drainToTarget |-> FALSE, detectOvershooting |-> FALSE,
          lostMultiplier |-> 2, ackAggregationStartup |-> TRUE]
    [] OTHER ->
         [highGain |-> 2885, highCwndGain |-> 2000, cwndGainConstant |-> 2000,
          numStartupRtts |-> 3, drainToTarget |-> FALSE, detectOvershooting |-> FALSE,
          lostMultiplier |-> 2, ackAggregationStartup |-> FALSE]

highGain == configForProfile.highGain
highCwndGain == configForProfile.highCwndGain
drainGain == 1000000 \div configForProfile.highGain

Larger(x, y) == IF x >= y THEN x ELSE y
Smaller(x, y) == IF x <= y THEN x ELSE y

BandwidthFromDelta(bytes, delta) == bytes \div delta
bdpFromRttAndBandwidth(rtt, bandwidth) == rtt * bandwidth

bandwidthEstimate(s) == GetBest(s.maxBandwidth)
getMinRtt(s) == IF s.minRtt # 0 THEN s.minRtt ELSE DefaultRtt
InRecovery(s) == s.recoveryState # "none"

(* The window of a gain: gain times the bandwidth-delay product, or gain   *)
(* times the initial window while there is no estimate.                    *)
getTargetCongestionWindow(s, gain) ==
  LET bdp == bdpFromRttAndBandwidth(getMinRtt(s), bandwidthEstimate(s))
      window == (gain * bdp) \div 1000
  IN  Larger(IF window = 0 THEN (gain * s.initialCongestionWindow) \div 1000 ELSE window,
             s.minCongestionWindow)

GetCongestionWindow(s) ==
  IF s.mode = "ProbeRtt" THEN s.minCongestionWindow
  ELSE IF InRecovery(s) THEN Smaller(s.congestionWindow, s.recoveryWindow)
  ELSE s.congestionWindow

CanSend(s, bytesInFlight) == bytesInFlight < GetCongestionWindow(s)

-----------------------------------------------------------------------------
(* The steps of a congestion event e.                                      *)

IsRoundStart(s, e) ==
  /\ e.acked # {}
  /\ s.currentRoundTripEnd = invalidPacketNumber \/ e.lastAcked > s.currentRoundTripEnd

updateRoundTripCounter(s, e) ==
  IF IsRoundStart(s, e)
    THEN [s EXCEPT !.roundTripCount = @ + 1, !.currentRoundTripEnd = s.lastSentPacket]
    ELSE s

(* Mutant: entering recovery does not extend the current round.            *)
updateRecoveryStateSameRound(s, e, isRoundStart) ==
  LET hasLosses == e.lost # {}
      end == IF hasLosses THEN s.lastSentPacket ELSE s.endRecoveryAt
      phase == IF s.recoveryState = "conservation" /\ isRoundStart THEN "growth"
               ELSE s.recoveryState
  IN  IF e.acked = {} \/ ~s.isAtFullBandwidth THEN s
      ELSE IF ~InRecovery(s) THEN
        IF hasLosses
          THEN [s EXCEPT !.endRecoveryAt = end, !.recoveryState = "conservation",
                         !.recoveryWindow = 0]
          ELSE s
      ELSE [s EXCEPT !.endRecoveryAt = end,
                     !.recoveryState = IF ~hasLosses /\ e.lastAcked > end THEN "none" ELSE phase]

(* A loss at full bandwidth enters recovery; the conservation phase lasts  *)
(* for the round that starts with it, and recovery ends with the           *)
(* acknowledgement of a packet sent after the last loss.                   *)
updateRecoveryState(s, e, isRoundStart) ==
  LET hasLosses == e.lost # {}
      end == IF hasLosses THEN s.lastSentPacket ELSE s.endRecoveryAt
      phase == IF s.recoveryState = "conservation" /\ isRoundStart THEN "growth"
               ELSE s.recoveryState
  IN  IF e.acked = {} \/ ~s.isAtFullBandwidth THEN s
      ELSE IF ~InRecovery(s) THEN
        IF hasLosses
          THEN [s EXCEPT !.endRecoveryAt = end, !.recoveryState = "conservation",
                         !.recoveryWindow = 0, !.currentRoundTripEnd = s.lastSentPacket]
          ELSE s
      ELSE [s EXCEPT !.endRecoveryAt = end,
                     !.recoveryState = IF ~hasLosses /\ e.lastAcked > end THEN "none" ELSE phase]

(* What the sampler measured goes into the flags and the filter.           *)
applySample(s, e) ==
  LET limited == IF e.sendState.valid THEN e.sendState.appLimited ELSE s.lastSampleIsAppLimited
      useful == e.bytesAcked > 0 /\ (~e.appLimited \/ e.bandwidth > bandwidthEstimate(s))
  IN  [s EXCEPT !.totalBytesAcked = @ + e.bytesAcked,
                !.lastSampleIsAppLimited = limited,
                !.hasNoAppLimitedSample = @ \/ (e.sendState.valid /\ ~limited),
                !.maxBandwidth = IF useful THEN Update(@, e.bandwidth, s.roundTripCount,
                                                       bandwidthWindowSize)
                                 ELSE @]

MinRttExpired(s, e) == e.rtt # 0 /\ s.minRtt # 0 /\ s.minRttAge > MinRttExpiry

maybeUpdateMinRtt(s, e) ==
  IF e.rtt # 0 /\ (MinRttExpired(s, e) \/ e.rtt < s.minRtt \/ s.minRtt = 0)
    THEN [s EXCEPT !.minRtt = e.rtt, !.minRttAge = 0]
    ELSE s

countLosses(s, e) ==
  IF e.lost = {} THEN s
  ELSE [s EXCEPT !.numLossEventsInRound = @ + 1, !.bytesLostInRound = @ + Cardinality(e.lost)]

(* The phase of the gain cycle, in PROBE_BW.                               *)
updateGainCyclePhase(s, e) ==
  LET drained == e.inFlight <= getTargetCongestionWindow(s, 1000)
      probing == /\ s.pacingGain > 1000 /\ e.lost = {}
                 /\ e.priorInFlight < getTargetCongestionWindow(s, s.pacingGain)
      advance == \/ s.cycleAge > getMinRtt(s) /\ ~probing
                 \/ s.pacingGain < 1000 /\ drained
      offset == (s.cycleCurrentOffset + 1) % gainCycleLength
      stay == /\ configForProfile.drainToTarget /\ s.pacingGain < 1000
              /\ pacingGain[offset + 1] = 1000 /\ ~drained
  IN  IF s.mode = "ProbeBw" /\ advance
        THEN [s EXCEPT !.cycleCurrentOffset = offset, !.cycleAge = 0,
                       !.pacingGain = IF stay THEN @ ELSE pacingGain[offset + 1]]
        ELSE s

shouldExitStartupDueToLoss(s, e) ==
  /\ s.numLossEventsInRound >= StartupLossCount /\ e.sendState.valid
  /\ e.sendState.inFlight > 0 /\ s.bytesLostInRound > 0
  /\ s.bytesLostInRound > (e.sendState.inFlight * 20) \div 1000

checkIfFullBandwidthReached(s, e, isRoundStart) ==
  IF ~isRoundStart \/ s.isAtFullBandwidth \/ s.lastSampleIsAppLimited THEN s
  ELSE IF bandwidthEstimate(s) >= (s.bandwidthAtLastRound * 1250) \div 1000
    THEN [s EXCEPT !.bandwidthAtLastRound = bandwidthEstimate(s),
                   !.roundsWithoutBandwidthGain = 0]
  ELSE LET rounds == s.roundsWithoutBandwidthGain + 1
       IN  [s EXCEPT !.roundsWithoutBandwidthGain = rounds,
                     !.isAtFullBandwidth = \/ rounds >= configForProfile.numStartupRtts
                                           \/ shouldExitStartupDueToLoss(s, e)]

enterStartupMode(s) ==
  [s EXCEPT !.mode = "Startup", !.pacingGain = highGain, !.congestionWindowGain = highCwndGain]

(* The random offset of the gain cycle is never 1, the low gain.           *)
enterProbeBandwidthMode(s, random) ==
  LET offset == IF random >= 1 THEN random + 1 ELSE random
  IN  [s EXCEPT !.mode = "ProbeBw", !.cycleCurrentOffset = offset, !.cycleAge = 0,
                !.congestionWindowGain = configForProfile.cwndGainConstant,
                !.pacingGain = pacingGain[offset + 1]]

maybeExitStartupOrDrain(s, e) ==
  LET drain == IF s.mode = "Startup" /\ s.isAtFullBandwidth
                 THEN [s EXCEPT !.mode = "Drain", !.pacingGain = drainGain,
                                !.congestionWindowGain = highCwndGain]
                 ELSE s
  IN  IF drain.mode = "Drain" /\ e.inFlight <= getTargetCongestionWindow(drain, 1000)
        THEN enterProbeBandwidthMode(drain, e.random)
        ELSE drain

(* Mutant: PROBE_RTT always returns to PROBE_BW.                           *)
maybeEnterOrExitProbeRttBw(s, e, isRoundStart, minRttExpired) ==
  LET enter == minRttExpired /\ ~s.exitingQuiescence /\ s.mode # "ProbeRtt"
      p == IF enter THEN [s EXCEPT !.mode = "ProbeRtt", !.pacingGain = 1000,
                                   !.exitProbeRttIn = Unscheduled]
           ELSE s
      q == IF p.mode # "ProbeRtt" THEN p
           ELSE IF p.exitProbeRttIn = Unscheduled THEN [p EXCEPT !.exitProbeRttIn = ProbeRttTime]
           ELSE IF p.exitProbeRttIn = 0 THEN enterProbeBandwidthMode(p, e.random)
           ELSE p
  IN  [q EXCEPT !.exitingQuiescence = FALSE]

(* PROBE_RTT is entered when the minimum RTT expires.  The time to leave   *)
(* it is set once the data in flight is down to the small window, and a    *)
(* round must pass as well.                                                *)
maybeEnterOrExitProbeRtt(s, e, isRoundStart, minRttExpired) ==
  LET enter == minRttExpired /\ ~s.exitingQuiescence /\ s.mode # "ProbeRtt"
      p == IF enter THEN [s EXCEPT !.mode = "ProbeRtt", !.pacingGain = 1000,
                                   !.exitProbeRttIn = Unscheduled]
           ELSE s
      passed == p.probeRttRoundPassed \/ isRoundStart
      q == IF p.mode # "ProbeRtt" THEN p
           ELSE IF p.exitProbeRttIn = Unscheduled THEN
             IF e.inFlight < p.minCongestionWindow + BufferSize
               THEN [p EXCEPT !.exitProbeRttIn = ProbeRttTime, !.probeRttRoundPassed = FALSE]
               ELSE p
           ELSE IF p.exitProbeRttIn = 0 /\ passed THEN
             LET done == [p EXCEPT !.probeRttRoundPassed = passed, !.minRttAge = 0]
             IN  IF done.isAtFullBandwidth THEN enterProbeBandwidthMode(done, e.random)
                 ELSE enterStartupMode(done)
           ELSE [p EXCEPT !.probeRttRoundPassed = passed]
  IN  [q EXCEPT !.exitingQuiescence = FALSE]

(* Before full bandwidth the pacing rate is not lowered, except once when  *)
(* overshooting is detected.                                               *)
calculatePacingRate(s, e) ==
  LET target == (s.pacingGain * bandwidthEstimate(s)) \div 1000
      lost == s.bytesLostWhileDetectingOvershooting + Cardinality(e.lost)
      overshoot == /\ s.detectOvershooting /\ s.pacingRate > target /\ lost > 0
                   /\ \/ s.hasNoAppLimitedSample
                      \/ lost * configForProfile.lostMultiplier > s.initialCongestionWindow
      floor == BandwidthFromDelta(s.initialCongestionWindow, DefaultRtt)
  IN  IF bandwidthEstimate(s) = 0 THEN s
      ELSE IF s.isAtFullBandwidth THEN [s EXCEPT !.pacingRate = target]
      ELSE IF s.pacingRate = 0 THEN [s EXCEPT !.pacingRate = floor]
      ELSE IF overshoot
        THEN [s EXCEPT !.pacingRate = Larger(target, floor),
                       !.bytesLostWhileDetectingOvershooting = 0,
                       !.detectOvershooting = FALSE]
        ELSE [s EXCEPT !.pacingRate = Larger(@, target),
                       !.bytesLostWhileDetectingOvershooting =
                          IF s.detectOvershooting THEN lost ELSE @]

(* Mutant: the window follows the target before full bandwidth as well.    *)
calculateCongestionWindowTarget(s, e) ==
  LET target == getTargetCongestionWindow(s, s.congestionWindowGain)
  IN  IF s.mode = "ProbeRtt" THEN s
      ELSE [s EXCEPT !.congestionWindow =
              Smaller(Larger(Smaller(target, s.congestionWindow + e.bytesAcked),
                             s.minCongestionWindow), s.maxCongestionWindow)]

calculateCongestionWindow(s, e) ==
  LET extra == s.isAtFullBandwidth \/ configForProfile.ackAggregationStartup
      target == getTargetCongestionWindow(s, s.congestionWindowGain)
                  + (IF extra THEN e.ackHeight ELSE 0)
      grown == IF s.isAtFullBandwidth
                 THEN Smaller(target, s.congestionWindow + e.bytesAcked)
               ELSE IF s.congestionWindow < target \/ s.totalBytesAcked < s.initialCongestionWindow
                 THEN s.congestionWindow + e.bytesAcked
               ELSE s.congestionWindow
  IN  IF s.mode = "ProbeRtt" THEN s
      ELSE [s EXCEPT !.congestionWindow =
                        Smaller(Larger(grown, s.minCongestionWindow), s.maxCongestionWindow)]

calculateRecoveryWindow(s, e) ==
  LET floor == getTargetCongestionWindow(s, 1000) \div 2
      lost == Cardinality(e.lost)
      reduced == IF s.recoveryWindow >= lost THEN s.recoveryWindow - lost
                 ELSE s.maxDatagramSize
      released == reduced + (IF s.recoveryState = "growth" THEN e.bytesAcked ELSE 0)
      window == IF s.recoveryWindow = 0 THEN e.inFlight + e.bytesAcked
                ELSE Larger(released, e.inFlight + e.bytesAcked)
  IN  IF ~InRecovery(s) THEN s
      ELSE [s EXCEPT !.recoveryWindow = Larger(Larger(window, s.minCongestionWindow), floor)]

endRound(s, isRoundStart) ==
  IF isRoundStart THEN [s EXCEPT !.numLossEventsInRound = 0, !.bytesLostInRound = 0] ELSE s

(* The whole of OnCongestionEventEx.                                       *)
CongestionEvent(s0, e) ==
  LET roundStart == IsRoundStart(s0, e)
      s1 == updateRecoveryState(updateRoundTripCounter(s0, e), e, roundStart)
      s2 == applySample(s1, e)
      expired == MinRttExpired(s2, e)
      s3 == countLosses(maybeUpdateMinRtt(s2, e), e)
      s4 == checkIfFullBandwidthReached(updateGainCyclePhase(s3, e), e, roundStart)
      s5 == maybeEnterOrExitProbeRtt(maybeExitStartupOrDrain(s4, e), e, roundStart, expired)
      s6 == calculateRecoveryWindow(calculateCongestionWindow(calculatePacingRate(s5, e), e), e)
  IN  endRound(s6, roundStart)

scaleByteWindow(window, old, new) == (window * new) \div old

(* Mutant: the recovery window keeps the old limits.                       *)
setMaxDatagramSizeOldRecovery(s, size) ==
  LET initial == scaleByteWindow(s.initialCongestionWindow, s.maxDatagramSize, size)
      max == scaleByteWindow(s.maxCongestionWindow, s.maxDatagramSize, size)
      min == MinPackets * size
      window == IF s.congestionWindow = s.minCongestionWindow THEN min
                ELSE IF s.congestionWindow = s.initialCongestionWindow THEN initial
                ELSE Smaller(max, Larger(s.congestionWindow, min))
  IN  [s EXCEPT !.maxDatagramSize = size, !.initialCongestionWindow = initial,
                !.maxCongestionWindow = max, !.minCongestionWindow = min,
                !.congestionWindow = window]

(* SetMaxDatagramSize: the windows that count packets are rescaled, a      *)
(* window at its minimum or its initial value stays there.                 *)
setMaxDatagramSize(s, size) ==
  LET initial == scaleByteWindow(s.initialCongestionWindow, s.maxDatagramSize, size)
      max == scaleByteWindow(s.maxCongestionWindow, s.maxDatagramSize, size)
      min == MinPackets * size
      window == IF s.congestionWindow = s.minCongestionWindow THEN min
                ELSE IF s.congestionWindow = s.initialCongestionWindow THEN initial
                ELSE Smaller(max, Larger(s.congestionWindow, min))
  IN  [s EXCEPT !.maxDatagramSize = size, !.initialCongestionWindow = initial,
                !.maxCongestionWindow = max, !.minCongestionWindow = min,
                !.congestionWindow = window,
                !.recoveryWindow = Smaller(max, Larger(@, min))]

-----------------------------------------------------------------------------
(* newBbrSender for a datagram size.                                       *)
NewBbrSender(size) ==
  [mode |-> "Startup", roundTripCount |-> 0,
   lastSentPacket |-> invalidPacketNumber, currentRoundTripEnd |-> invalidPacketNumber,
   numLossEventsInRound |-> 0, bytesLostInRound |-> 0, totalBytesAcked |-> 0,
   maxBandwidth |-> Clear, minRtt |-> 0, minRttAge |-> 0,
   congestionWindow |-> InitialPackets * size,
   initialCongestionWindow |-> InitialPackets * size,
   maxCongestionWindow |-> MaxPackets * size, minCongestionWindow |-> MinPackets * size,
   pacingRate |-> 0, pacingGain |-> highGain, congestionWindowGain |-> highCwndGain,
   cycleCurrentOffset |-> 0, cycleAge |-> 0,
   isAtFullBandwidth |-> FALSE, roundsWithoutBandwidthGain |-> 0, bandwidthAtLastRound |-> 0,
   exitingQuiescence |-> FALSE, exitProbeRttIn |-> Unscheduled, probeRttRoundPassed |-> FALSE,
   lastSampleIsAppLimited |-> FALSE, hasNoAppLimitedSample |-> FALSE,
   recoveryState |-> "none", endRecoveryAt |-> invalidPacketNumber,
   recoveryWindow |-> MaxPackets * size,
   detectOvershooting |-> configForProfile.detectOvershooting,
   bytesLostWhileDetectingOvershooting |-> 0, maxDatagramSize |-> size]

Init ==
  /\ setup \in Setups
  /\ \E size \in setup.datagramSizes : b = NewBbrSender(size)
  /\ outstanding = {}
  /\ recoveryFrom = invalidPacketNumber
  /\ largestAcked = invalidPacketNumber

(* The connection sends the next packet when the window lets it; one that  *)
(* only acknowledges is not counted in flight.                             *)
OnPacketSent(isRetransmittable) ==
  LET number == b.lastSentPacket + 1
      inFlight == Cardinality(outstanding)
  IN  /\ number <= setup.maxPacketNumber
      /\ isRetransmittable => CanSend(b, inFlight) /\ inFlight < setup.maxOutstanding
      /\ b' = [b EXCEPT !.lastSentPacket = number,
                        !.exitingQuiescence = @ \/ inFlight = 0]
      /\ outstanding' = IF isRetransmittable THEN outstanding \cup {number} ELSE outstanding
      /\ UNCHANGED <<recoveryFrom, largestAcked>>

(* What the sampler can answer for these packets.  A sample needs an       *)
(* acknowledged packet it still tracks; only the packets it tracks count   *)
(* as acknowledged bytes.                                                  *)
SendStates ==
  [valid : {TRUE}, appLimited : setup.appLimitedFlags, inFlight : setup.sendInFlights]
NoSendState == [valid |-> FALSE, appLimited |-> FALSE, inFlight |-> 0]

Samples(acked, lost) ==
  { m \in [bytesAcked : 0..Cardinality(acked), bandwidth : setup.bandwidths \cup {0},
           appLimited : setup.appLimitedFlags \cup {FALSE}, rtt : setup.rtts \cup {0},
           ackHeight : setup.ackHeights, sendState : SendStates \cup {NoSendState}] :
      /\ (m.rtt = 0) = (m.bandwidth = 0)
      /\ m.bytesAcked = 0 => m.bandwidth = 0
      /\ m.bandwidth = 0 => ~m.appLimited
      /\ m.bandwidth # 0 => m.sendState.valid
      /\ m.sendState.valid => m.bandwidth # 0 \/ lost # {} }

OnCongestionEventEx(acked, lost) ==
  /\ acked \cup lost # {} /\ acked \cap lost = {}
  /\ \E m \in Samples(acked, lost), random \in 0..(gainCycleLength - 2) :
       LET prior == Cardinality(outstanding)
           e == [acked |-> acked, lost |-> lost, random |-> random,
                 lastAcked |-> IF acked = {} THEN invalidPacketNumber ELSE Max(acked),
                 priorInFlight |-> prior, inFlight |-> prior - Cardinality(acked \cup lost),
                 bytesAcked |-> m.bytesAcked, bandwidth |-> m.bandwidth,
                 appLimited |-> m.appLimited, rtt |-> m.rtt, ackHeight |-> m.ackHeight,
                 sendState |-> m.sendState]
       IN  /\ b' = CongestionEvent(b, e)
           /\ largestAcked' = IF InRecovery(b') THEN Larger(largestAcked, e.lastAcked)
                              ELSE invalidPacketNumber
  /\ outstanding' = outstanding \ (acked \cup lost)
  /\ recoveryFrom' = IF ~InRecovery(b') THEN invalidPacketNumber
                     ELSE IF InRecovery(b) THEN recoveryFrom ELSE b.lastSentPacket

SetMaxDatagramSize(size) ==
  /\ size > b.maxDatagramSize
  /\ b' = setMaxDatagramSize(b, size)
  /\ UNCHANGED <<outstanding, recoveryFrom, largestAcked>>

(* Time passes.                                                            *)
MaxCycleAge == Max(setup.rtts \cup {DefaultRtt}) + 1

Tick ==
  /\ setup.timePasses
  /\ b' = [b EXCEPT !.minRttAge = IF b.minRtt = 0 THEN 0 ELSE Smaller(@ + 1, MinRttExpiry + 1),
                    !.cycleAge = IF b.mode = "ProbeBw" THEN Smaller(@ + 1, MaxCycleAge) ELSE 0,
                    !.exitProbeRttIn = IF @ > 0 THEN @ - 1 ELSE @]
  /\ UNCHANGED <<outstanding, recoveryFrom, largestAcked>>

Next ==
  /\ setup' = setup
  /\ \/ \E r \in setup.packetKinds : OnPacketSent(r)
     \/ \E acked, lost \in SUBSET outstanding : OnCongestionEventEx(acked, lost)
     \/ \E size \in setup.datagramSizes : SetMaxDatagramSize(size)
     \/ Tick

Spec == Init /\ [][Next]_vars

-----------------------------------------------------------------------------
Modes == {"Startup", "Drain", "ProbeBw", "ProbeRtt"}
PacketNumbers == Nat \cup {invalidPacketNumber}

(* Every field of the sender has its type.                                 *)
SenderTypeOK ==
  /\ b.mode \in Modes /\ b.recoveryState \in {"none", "conservation", "growth"}
  /\ {b.lastSentPacket, b.currentRoundTripEnd, b.endRecoveryAt} \subseteq PacketNumbers
  /\ {b.congestionWindow, b.recoveryWindow, b.pacingRate, b.minRtt, b.pacingGain} \subseteq Nat
  /\ b.cycleCurrentOffset \in 0..(gainCycleLength - 1)
  /\ outstanding \subseteq 0..b.lastSentPacket

(* The congestion window stays between its limits, and what the connection *)
(* may send never falls below the minimum window: not in recovery, where   *)
(* the window is set to zero on entry and losses are taken off it, not in  *)
(* PROBE_RTT, and not when the datagram size moves the limits.             *)
WindowInRange ==
  /\ b.minCongestionWindow <= b.congestionWindow
  /\ b.congestionWindow <= b.maxCongestionWindow
  /\ b.minCongestionWindow <= GetCongestionWindow(b)

(* The sender is well formed and its windows are within their limits.      *)
SenderInv == SenderTypeOK /\ WindowInRange

(* The mode, the gains and the full bandwidth flag tell the same story,    *)
(* whatever PROBE_RTT interrupted.                                         *)
ModeConsistent ==
  /\ b.mode = "Startup" => /\ ~b.isAtFullBandwidth
                           /\ b.pacingGain = highGain /\ b.congestionWindowGain = highCwndGain
  /\ b.mode = "Drain" => /\ b.isAtFullBandwidth
                         /\ b.pacingGain = drainGain /\ b.congestionWindowGain = highCwndGain
  /\ b.mode = "ProbeBw" => /\ b.isAtFullBandwidth
                           /\ b.pacingGain \in {pacingGain[i] : i \in 1..gainCycleLength}
                           /\ b.congestionWindowGain = configForProfile.cwndGainConstant
  /\ b.mode = "ProbeRtt" => b.pacingGain = 1000
  /\ InRecovery(b) => b.isAtFullBandwidth

(* The comment on conservation: it lasts for a whole round.  Growth is     *)
(* reached only after a packet sent since recovery began is acknowledged.  *)
ConservationLastsRound == b.recoveryState = "growth" => largestAcked > recoveryFrom

(* "CWND never decreases in STARTUP", and not in a PROBE_RTT before full   *)
(* bandwidth either; and until then the pacing rate falls at most once,    *)
(* when overshooting is detected.                                          *)
StartupKept ==
  [][~b'.isAtFullBandwidth =>
       /\ b'.congestionWindow >= b.congestionWindow
       /\ b'.pacingRate < b.pacingRate => b.detectOvershooting /\ ~b'.detectOvershooting]_vars

=============================================================================
