-------------------------- MODULE BandwidthSampler --------------------------
(***************************************************************************)
(* bandwidth_sampler.go: what is remembered of every packet in flight and  *)
(* the sample taken when it is acknowledged.  The record s is the          *)
(* bandwidthSampler; every packet has one byte.                            *)
(*                                                                         *)
(* The connection is quic-go as the code uses it: packets are acknowledged *)
(* in any order, and lost from the oldest on when three newer ones are     *)
(* acknowledged (packetThreshold), or earlier by time.  Packets 0 to       *)
(* earlier - 1 are in flight when the controller is installed on the       *)
(* connection.                                                             *)
(***************************************************************************)
EXTENDS Integers, Sequences, FiniteSets, FiniteSetsExt

CONSTANT Setups   \* bounds: what a connection is and meets, see Setup

(* A connection: overestimateAvoidance, set by the conservative profile;   *)
(* whether the sender may call OnAppLimited; how many packet numbers are   *)
(* skipped; the packets in flight before the controller is installed; and  *)
(* how many packets, packets in flight and ticks there are at most.        *)
Setup ==
  [overestimateAvoidance : BOOLEAN, appLimitedFlags : SUBSET BOOLEAN, skips : SUBSET Nat,
   earlier : Nat, maxPacket : Nat, maxOutstanding : Nat, maxTime : Nat \ {0}]

ASSUME SamplerSetups == Setups \subseteq Setup

VARIABLES
  setup,        \* the connection this behaviour is about
  s,            \* the bandwidthSampler
  outstanding,  \* the packets in flight, known to the connection
  largestAcked, \* the largest packet acknowledged, known to the connection
  now,          \* the clock; the zero time is 0
  samples,      \* the samples of the last congestion event
  phase,        \* history: is the sampler app-limited, and what was sent since
  limitedSent   \* history: the packets sent in an app-limited phase

vars == <<setup, s, outstanding, largestAcked, now, samples, phase, limitedSent>>

invalidPacketNumber == -1
packetThreshold == 3

AckPoint(t, total) == [ackTime |-> t, totalBytesAcked |-> total]
NoPoint == AckPoint(0, 0)

(* recentAckPoints.Update: the two most recent points at distinct times.   *)
RecentUpdate(points, t, total) ==
  IF t > points[2].ackTime THEN <<points[2], AckPoint(t, total)>>
  ELSE <<points[1], AckPoint(t, total)>>

LessRecentPoint(points) ==
  IF points[1].totalBytesAcked # 0 THEN points[1] ELSE points[2]

(* The last candidate that had acknowledged no more than the packet saw    *)
(* when it was sent, and the candidates left.  When that is the last one,  *)
(* the loop that drops the others stops half way, as they get fewer.       *)
chooseA0Point(cands, total) ==
  LET n == Len(cands)
      later == {i \in 2..n : cands[i].totalBytesAcked > total}
  IN  IF n = 1 THEN [a0 |-> cands[1], rest |-> cands]
      ELSE IF later # {} THEN [a0 |-> cands[Min(later) - 1], rest |-> SubSeq(cands, Min(later) - 1, n)]
      ELSE [a0 |-> cands[n], rest |-> SubSeq(cands, (n \div 2) + 1, n)]

-----------------------------------------------------------------------------
newBandwidthSampler ==
  [totalBytesSent |-> 0, totalBytesAcked |-> 0, totalBytesLost |-> 0,
   totalBytesSentAtLastAckedPacket |-> 0, lastAckedPacketSentTime |-> 0,
   lastAckedPacketAckTime |-> 0, lastSentPacket |-> invalidPacketNumber,
   isAppLimited |-> FALSE, endOfAppLimitedPhase |-> invalidPacketNumber,
   connectionStateMap |-> [p \in {} |-> {}],
   recentAckPoints |-> <<NoPoint, NoPoint>>, a0Candidates |-> <<>>,
   totalBytesAckedAfterLastAckEvent |-> 0]

(* connectionStateOnSentPacket with its sendTimeState.                     *)
newConnectionStateOnSentPacket(b, sentTime, bytesInFlight) ==
  [sentTime |-> sentTime,
   totalBytesSentAtLastAckedPacket |-> b.totalBytesSentAtLastAckedPacket,
   lastAckedPacketSentTime |-> b.lastAckedPacketSentTime,
   lastAckedPacketAckTime |-> b.lastAckedPacketAckTime,
   isAppLimited |-> b.isAppLimited, totalBytesSent |-> b.totalBytesSent,
   totalBytesAcked |-> b.totalBytesAcked, totalBytesLost |-> b.totalBytesLost,
   bytesInFlight |-> bytesInFlight]

(* Mutant: the recent ack points survive the quiescence.                   *)
OpenTransmissionKept(b, t) ==
  LET points == RecentUpdate(b.recentAckPoints, t, b.totalBytesAcked)
      timed == [b EXCEPT !.lastAckedPacketAckTime = t,
                         !.totalBytesSentAtLastAckedPacket = b.totalBytesSent,
                         !.lastAckedPacketSentTime = t]
  IN  IF setup.overestimateAvoidance
        THEN [timed EXCEPT !.recentAckPoints = points, !.a0Candidates = <<points[2]>>]
        ELSE timed

(* No packet was in flight: the transmission starts at the A0 point.       *)
OpenTransmission(b, t) ==
  LET points == RecentUpdate(<<NoPoint, NoPoint>>, t, b.totalBytesAcked)
      timed == [b EXCEPT !.lastAckedPacketAckTime = t,
                         !.totalBytesSentAtLastAckedPacket = b.totalBytesSent,
                         !.lastAckedPacketSentTime = t]
  IN  IF setup.overestimateAvoidance
        THEN [timed EXCEPT !.recentAckPoints = points, !.a0Candidates = <<points[2]>>]
        ELSE timed

(* OnPacketSent of a packet that is retransmittable.                       *)
Sent(b, p, t, bytesInFlight) ==
  LET counted == [b EXCEPT !.lastSentPacket = p, !.totalBytesSent = @ + 1]
      opened == IF bytesInFlight = 0 THEN OpenTransmission(counted, t) ELSE counted
      state == newConnectionStateOnSentPacket(opened, t, bytesInFlight + 1)
  IN  [opened EXCEPT !.connectionStateMap =
         [q \in DOMAIN @ \cup {p} |-> IF q = p THEN state ELSE @[q]]]

(* Mutant: the phase ends with the last packet sent before it.             *)
AckEndsPhaseEarly(b, p) == p >= b.endOfAppLimitedPhase

(* An acknowledgement that ends the app-limited phase.                     *)
AckEndsPhase(b, p) ==
  b.endOfAppLimitedPhase = invalidPacketNumber \/ p > b.endOfAppLimitedPhase

(* There is a point to measure from, and time has passed since.            *)
SampleUsable(e, a0, t) == e.lastAckedPacketSentTime # 0 /\ t > a0.ackTime

(* onPacketAcknowledged: the sampler and the samples x after the packet p  *)
(* was acknowledged at time t.  A sample holds both slopes.                *)
onPacketAcknowledged(x, p, t) ==
  IF p \notin DOMAIN x.b.connectionStateMap THEN x
  ELSE LET e == x.b.connectionStateMap[p]
           total == x.b.totalBytesAcked + 1
           acked == [x.b EXCEPT
                       !.totalBytesAcked = total,
                       !.totalBytesSentAtLastAckedPacket = e.totalBytesSent,
                       !.lastAckedPacketSentTime = e.sentTime,
                       !.lastAckedPacketAckTime = t,
                       !.recentAckPoints =
                          IF setup.overestimateAvoidance THEN RecentUpdate(@, t, total) ELSE @,
                       !.isAppLimited = @ /\ ~AckEndsPhase(x.b, p)]
           chosen == IF /\ setup.overestimateAvoidance /\ acked.a0Candidates # <<>>
                        /\ e.lastAckedPacketSentTime # 0
                       THEN chooseA0Point(acked.a0Candidates, e.totalBytesAcked)
                       ELSE [a0 |-> AckPoint(e.lastAckedPacketAckTime, e.totalBytesAcked),
                             rest |-> acked.a0Candidates]
           sample == [packet |-> p, isAppLimited |-> e.isAppLimited,
                      rtt |-> t - e.sentTime, a0 |-> chosen.a0,
                      ackedBytes |-> total - chosen.a0.totalBytesAcked,
                      ackedTime |-> t - chosen.a0.ackTime,
                      sentBytes |-> e.totalBytesSent - e.totalBytesSentAtLastAckedPacket,
                      sentTime |-> e.sentTime - e.lastAckedPacketSentTime]
       IN  [b |-> [acked EXCEPT !.a0Candidates = chosen.rest],
            samples |-> IF SampleUsable(e, chosen.a0, t)
                          THEN x.samples \cup {sample} ELSE x.samples]

(* onAckEventEnd: with a new aggregation epoch the last ack point of the   *)
(* epoch before becomes a candidate.                                       *)
onAckEventEnd(b, newEpoch) ==
  IF b.totalBytesAcked = b.totalBytesAckedAfterLastAckEvent THEN b
  ELSE [b EXCEPT !.totalBytesAckedAfterLastAckEvent = b.totalBytesAcked,
                 !.a0Candidates = IF setup.overestimateAvoidance /\ newEpoch
                                    THEN Append(@, LessRecentPoint(b.recentAckPoints))
                                    ELSE @]

NextPacket == Max({s.lastSentPacket, largestAcked, setup.earlier - 1} \cup outstanding) + 1

(* The loop over the acknowledged packets, which come in ascending order.  *)
Acknowledged(x, acked, t) ==
  LET after[n \in 0..NextPacket] ==
        IF n = 0 THEN x
        ELSE IF n - 1 \in acked THEN onPacketAcknowledged(after[n - 1], n - 1, t)
        ELSE after[n - 1]
  IN  after[NextPacket]

(* OnCongestionEvent of the sampler: losses first, then the acknowledged   *)
(* packets in order.                                                       *)
CongestionEvent(b, acked, lost, t, newEpoch) ==
  LET counted == [b EXCEPT !.totalBytesLost = @ + Cardinality(lost)]
      after == Acknowledged([b |-> counted, samples |-> {}], acked, t)
  IN  [b |-> IF acked = {} THEN after.b ELSE onAckEventEnd(after.b, newEpoch),
       samples |-> after.samples]

Limited(b) == [b EXCEPT !.isAppLimited = TRUE, !.endOfAppLimitedPhase = b.lastSentPacket]

(* Mutant: the packets before the last one acknowledged are obsolete.      *)
leastUnackedExact(acked, lost) == IF acked # {} THEN Max(acked) ELSE Max(lost) + 1

(* The sender's estimate of the first packet that is still in flight.      *)
leastUnacked(acked, lost) == IF acked # {} THEN Max(acked) - 2 ELSE Max(lost) + 1

RemoveObsoletePackets(b, least) ==
  [b EXCEPT !.connectionStateMap = [p \in {q \in DOMAIN @ : q >= least} |-> @[p]]]

-----------------------------------------------------------------------------
Init ==
  /\ setup \in Setups
  /\ s = newBandwidthSampler
  /\ outstanding = 0..(setup.earlier - 1)
  /\ largestAcked = invalidPacketNumber
  /\ now = 1
  /\ samples = {}
  /\ phase = [limited |-> FALSE, sent |-> {}]
  /\ limitedSent = {}

(* A packet is sent; quic-go may skip a number.                            *)
OnPacketSent(p) ==
  /\ p <= setup.maxPacket /\ Cardinality(outstanding) < setup.maxOutstanding
  /\ s' = Sent(s, p, now, Cardinality(outstanding))
  /\ outstanding' = outstanding \cup {p}
  /\ phase' = [phase EXCEPT !.sent = @ \cup {p}]
  /\ limitedSent' = IF phase.limited THEN limitedSent \cup {p} ELSE limitedSent
  /\ samples' = {}
  /\ UNCHANGED <<largestAcked, now>>

(* An ack-only packet: only its number is recorded.                        *)
OnAckOnlySent(p) ==
  /\ p <= setup.maxPacket
  /\ s' = [s EXCEPT !.lastSentPacket = p]
  /\ phase' = [phase EXCEPT !.sent = @ \cup {p}]
  /\ samples' = {}
  /\ UNCHANGED <<outstanding, largestAcked, now, limitedSent>>

(* Losses the connection reports with these acknowledgements: the oldest   *)
(* packets, and all that are three behind the largest acknowledged one, a  *)
(* number that was skipped counted like a packet: what the sender expects  *)
(* of quic-go's packetThreshold, which is not in this repository.          *)
Losses(acked) ==
  LET largest == Max(acked \cup {largestAcked})
      left == outstanding \ acked
  IN  {l \in SUBSET {p \in left : p < largest} :
         /\ \A p \in left : p + packetThreshold <= largest => p \in l
         /\ \A p \in l, q \in left : q < p => q \in l}

(* OnCongestionEventEx of the sender as far as it uses the sampler: it     *)
(* may call OnAppLimited before the event (maybeAppLimited) and after it   *)
(* (PROBE_RTT), and removes the obsolete packets at the end.               *)
OnCongestionEvent(acked, lost, newEpoch, before, after) ==
  LET b1 == IF before THEN Limited(s) ELSE s
      ev == CongestionEvent(b1, acked, lost, now, newEpoch)
      b2 == IF after THEN Limited(ev.b) ELSE ev.b
      ended == (IF before THEN {} ELSE phase.sent) \cap acked # {}
  IN  /\ s' = RemoveObsoletePackets(b2, leastUnacked(acked, lost))
      /\ samples' = ev.samples
      /\ outstanding' = outstanding \ (acked \cup lost)
      /\ largestAcked' = Max(acked \cup {largestAcked})
      /\ phase' = [limited |-> after \/ ((before \/ phase.limited) /\ ~ended),
                   sent |-> IF before \/ after THEN {} ELSE phase.sent]
      /\ limitedSent' = limitedSent \cap (outstanding' \cup acked)
      /\ UNCHANGED now

Tick ==
  /\ now < setup.maxTime
  /\ now' = now + 1
  /\ samples' = {}
  /\ UNCHANGED <<s, outstanding, largestAcked, phase, limitedSent>>

Next ==
  /\ setup' = setup
  /\ \/ \E k \in setup.skips : OnPacketSent(NextPacket + k)
     \/ OnAckOnlySent(NextPacket)
     \/ \E acked \in SUBSET outstanding : \E lost \in Losses(acked) :
          /\ acked \cup lost # {}
          /\ \E newEpoch \in BOOLEAN, before, after \in setup.appLimitedFlags :
               OnCongestionEvent(acked, lost, newEpoch, before, after)
     \/ Tick

Spec == Init /\ [][Next]_vars

-----------------------------------------------------------------------------
SentStates ==
  [sentTime : 1..setup.maxTime, totalBytesSentAtLastAckedPacket : Nat,
   lastAckedPacketSentTime : 0..setup.maxTime, lastAckedPacketAckTime : 0..setup.maxTime,
   isAppLimited : BOOLEAN, totalBytesSent : Nat, totalBytesAcked : Nat,
   totalBytesLost : Nat, bytesInFlight : Nat]

(* The fields of the sampler; what it remembers are packets it was told of. *)
SamplerTypeOK ==
  /\ {s.totalBytesSent, s.totalBytesAcked, s.totalBytesLost,
      s.totalBytesAckedAfterLastAckEvent, s.totalBytesSentAtLastAckedPacket} \subseteq Nat
  /\ {s.lastSentPacket, s.endOfAppLimitedPhase} \subseteq -1..setup.maxPacket
  /\ DOMAIN s.connectionStateMap \subseteq setup.earlier..s.lastSentPacket
  /\ \A p \in DOMAIN s.connectionStateMap : s.connectionStateMap[p] \in SentStates

(* "they should differ by no more than 2 packets": the estimate of what is *)
(* obsolete never drops the state of a packet that is still in flight, so  *)
(* that its acknowledgement is counted.  With a library that does not      *)
(* count skipped numbers it would hold for connections without skips only. *)
NothingForgotten == outstanding \ 0..(setup.earlier - 1) \subseteq DOMAIN s.connectionStateMap

(* "once OnAppLimited() is called, all sent packets will produce           *)
(* app-limited samples up until an ack for a packet that was sent after    *)
(* OnAppLimited() was called": for every order of calls, and no others do. *)
AppLimitedRule == \A x \in samples : x.isAppLimited <=> x.packet \in limitedSent

(* No sample divides by zero or by a negative time, or has negative bytes, *)
(* on either slope; a send slope without time counts as infinite.          *)
SamplesPositive ==
  \A x \in samples : x.ackedTime > 0 /\ x.ackedBytes > 0 /\ x.sentBytes >= 0 /\ x.sentTime >= 0
                     /\ x.rtt >= 0

(* The candidates are in the order of their time and of their bytes: the   *)
(* search for the last one before a packet depends on it.                  *)
CandidatesOrdered ==
  \A i, j \in 1..Len(s.a0Candidates) : i < j =>
    /\ s.a0Candidates[i].ackTime <= s.a0Candidates[j].ackTime
    /\ s.a0Candidates[i].totalBytesAcked <= s.a0Candidates[j].totalBytesAcked

(* The sampler is well formed: its fields, its samples, its candidates.    *)
SamplerInv == SamplerTypeOK /\ SamplesPositive /\ CandidatesOrdered

=============================================================================
