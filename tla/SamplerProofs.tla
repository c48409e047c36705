---------------------------- MODULE SamplerProofs ----------------------------
(***************************************************************************)
(* The bandwidth sampler, for every profile, every set of skipped numbers  *)
(* and any number of packets, packets in flight and ticks.                 *)
(***************************************************************************)
EXTENDS BandwidthSampler, FiniteSetTheorems, WellFoundedInduction, TLAPS

(* The fields of the bandwidthSampler: a struct is a function on them.     *)
Fields ==
  {"totalBytesSent", "totalBytesAcked", "totalBytesLost", "totalBytesSentAtLastAckedPacket",
   "lastAckedPacketSentTime", "lastAckedPacketAckTime", "lastSentPacket", "isAppLimited",
   "endOfAppLimitedPhase", "connectionStateMap", "recentAckPoints", "a0Candidates",
   "totalBytesAckedAfterLastAckEvent"}
Struct(b) == b = [x \in Fields |-> b[x]]

(* A point of time and bytes that lies before another one.                 *)
Points == [ackTime : Nat, totalBytesAcked : Nat]
Before(p, q) == p.ackTime <= q.ackTime /\ p.totalBytesAcked <= q.totalBytesAcked

(* The counters and the times of a sampler at time t.                      *)
Counts(b, t) ==
  /\ b.totalBytesSent \in Nat /\ b.totalBytesAcked \in Nat /\ b.totalBytesLost \in Nat
  /\ b.totalBytesAckedAfterLastAckEvent \in Nat
  /\ b.totalBytesSentAtLastAckedPacket \in 0..b.totalBytesSent
  /\ b.lastAckedPacketSentTime \in 0..t /\ b.lastAckedPacketAckTime \in 0..t

(* What is remembered of a packet is of the past.                          *)
SentBefore(e, t, acked, sent) ==
  /\ e \in [sentTime : 1..t, totalBytesSentAtLastAckedPacket : Nat,
            lastAckedPacketSentTime : 0..t, lastAckedPacketAckTime : 0..t,
            isAppLimited : BOOLEAN, totalBytesSent : 0..sent, totalBytesAcked : 0..acked,
            totalBytesLost : Nat, bytesInFlight : Nat]
  /\ e.totalBytesSentAtLastAckedPacket <= e.totalBytesSent
  /\ e.lastAckedPacketSentTime <= e.sentTime
Remembers(b, t) ==
  \A p \in DOMAIN b.connectionStateMap :
    SentBefore(b.connectionStateMap[p], t, b.totalBytesAcked, b.totalBytesSent)

(* Candidates in the order of time and bytes, none after the point z.      *)
Ordered(cands, z) ==
  /\ cands \in Seq(Points)
  /\ \A i, j \in 1..Len(cands) : i < j => Before(cands[i], cands[j])
  /\ \A i \in 1..Len(cands) : Before(cands[i], z)

(* The ack points are in order, and no candidate is later than the one     *)
(* that the next epoch would add.                                          *)
Measured(b, t) ==
  LET points == b.recentAckPoints
  IN  /\ points[1] \in Points /\ points[2] \in Points
      /\ Before(points[1], points[2]) /\ Before(points[2], AckPoint(t, b.totalBytesAcked))
      /\ Ordered(b.a0Candidates, LessRecentPoint(points))

(* The numbers it knows, in a connection c; the phase ends in the past.    *)
Numbered(b, c) ==
  /\ b.lastSentPacket \in -1..c.maxPacket
  /\ b.endOfAppLimitedPhase \in -1..b.lastSentPacket
  /\ DOMAIN b.connectionStateMap \subseteq c.earlier..b.lastSentPacket
  /\ b.isAppLimited \in BOOLEAN

Good(b, t, c) ==
  Struct(b) /\ Counts(b, t) /\ Remembers(b, t) /\ Measured(b, t) /\ Numbered(b, c)

(* What the connection knows of packets.                                   *)
Connection ==
  /\ outstanding \subseteq 0..(setup.maxPacket + setup.earlier)
  /\ largestAcked \in -1..(setup.maxPacket + setup.earlier)
  /\ NothingForgotten

(* The phase that was recorded is the phase of the sampler.                *)
PhaseKnown ==
  /\ phase = [limited |-> phase.limited, sent |-> phase.sent]
  /\ phase.limited \in BOOLEAN /\ phase.sent \subseteq setup.earlier..s.lastSentPacket
  /\ phase.limited <=> s.isAppLimited
  /\ \A p \in DOMAIN s.connectionStateMap : p \in phase.sent <=> p > s.endOfAppLimitedPhase

(* The packets in flight carry the mark of the phase they were sent in.    *)
MarksKnown ==
  /\ limitedSent \subseteq setup.earlier..s.lastSentPacket
  /\ \A p \in DOMAIN s.connectionStateMap \cap outstanding :
       s.connectionStateMap[p].isAppLimited <=> p \in limitedSent

(* The inductive invariant of the sampler.                                 *)
SamplerIInv ==
  /\ setup \in Setups /\ now \in 1..setup.maxTime
  /\ Good(s, now, setup) /\ Connection /\ PhaseKnown /\ MarksKnown
  /\ SamplesPositive /\ AppLimitedRule

(* The names, to be cited without the set that lists them.                 *)
LEMMA Names ==
  {"totalBytesSent", "totalBytesAcked", "totalBytesLost", "totalBytesSentAtLastAckedPacket",
   "lastAckedPacketSentTime", "lastAckedPacketAckTime", "lastSentPacket", "isAppLimited",
   "endOfAppLimitedPhase", "connectionStateMap", "recentAckPoints", "a0Candidates",
   "totalBytesAckedAfterLastAckEvent"} \subseteq Fields
  BY DEF Fields

(* Only the fields of S can tell d from b.                                 *)
Same(b, d, S) == \A x \in Fields \ S : d[x] = b[x]

(* A point.                                                                *)
LEMMA PointFacts ==
  ASSUME NEW t \in Nat, NEW n \in Nat
  PROVE  /\ AckPoint(t, n) \in Points
         /\ AckPoint(t, n).ackTime = t /\ AckPoint(t, n).totalBytesAcked = n
  BY DEF AckPoint, Points

(* The two elements of a pair.                                             *)
LEMMA PointPair ==
  ASSUME NEW a, NEW b
  PROVE  <<a, b>>[1] = a /\ <<a, b>>[2] = b
  OBVIOUS

(* recentAckPoints.Update keeps the order, and LessRecentPoint only moves  *)
(* forward.                                                                *)
LEMMA RecentUpdated ==
  ASSUME NEW r, r[1] \in Points, r[2] \in Points, Before(r[1], r[2]),
         NEW t \in Nat, NEW n \in Nat, Before(r[2], AckPoint(t, n))
  PROVE  LET u == RecentUpdate(r, t, n)
         IN  /\ u[1] \in Points /\ u[2] = AckPoint(t, n) /\ Before(u[1], u[2])
             /\ Before(LessRecentPoint(r), LessRecentPoint(u))
<1> DEFINE q == AckPoint(t, n)
           u == RecentUpdate(r, t, n)
<1>1. q \in Points /\ q.ackTime = t /\ q.totalBytesAcked = n
  BY PointFacts
<1>2. \A a \in Points : a.ackTime \in Nat /\ a.totalBytesAcked \in Nat
  BY DEF Points
<1>3. u = <<r[2], q>> \/ u = <<r[1], q>>
  BY DEF RecentUpdate
<1> HIDE DEF q
<1>4. CASE u = <<r[2], q>>
  <2>1. u[1] = r[2] /\ u[2] = q
    BY <1>4, PointPair
  <2> HIDE DEF u
  <2>2. Before(LessRecentPoint(r), LessRecentPoint(u))
    BY <1>1, <1>2, <2>1 DEF LessRecentPoint, Before, q
  <2> QED
    BY <1>1, <2>1, <2>2 DEF q, u
<1>5. CASE u = <<r[1], q>>
  <2>1. u[1] = r[1] /\ u[2] = q
    BY <1>5, PointPair
  <2> HIDE DEF u
  <2>2. Before(r[1], q)
    BY <1>1, <1>2 DEF Before, q
  <2>3. Before(LessRecentPoint(r), LessRecentPoint(u))
    BY <1>1, <1>2, <2>1 DEF LessRecentPoint, Before, q
  <2> QED
    BY <1>1, <2>1, <2>2, <2>3 DEF q, u
<1> QED
  BY <1>3, <1>4, <1>5

(* A set of numbers that is not empty has a least one ...                  *)
LEMMA LeastNumber ==
  ASSUME NEW S \in SUBSET Nat, S # {}
  PROVE  \E n \in S : \A k \in S : n <= k
<1> DEFINE R == OpToRel(<, Nat)
<1>1. IsWellFoundedOn(R, Nat)
  BY NatLessThanWellFounded
<1>2. \A x, y \in Nat : y < x => <<y, x>> \in R
  BY DEF OpToRel
<1> HIDE DEF R
<1>3. \E x \in S : \A y \in S : ~(<<y, x>> \in R)
  BY <1>1, WFMin, Zenon
<1>4. PICK x \in S : \A y \in S : ~(<<y, x>> \in R)
  BY <1>3
<1>5. \A y \in S : ~(y < x)
  BY <1>2, <1>4, Zenon
<1> QED
  BY <1>5

(* ... and, if it is bounded, a largest one.                               *)
LEMMA LargestNumber ==
  ASSUME NEW n \in Nat, NEW S \in SUBSET (-1..n), S # {}
  PROVE  Max(S) \in S /\ \A k \in S : k <= Max(S)
<1> DEFINE T == {n - k : k \in S}
<1>0. \A k \in S : n - k \in Nat
  OBVIOUS
<1>1. T \in SUBSET Nat /\ T # {}
  <2>1. T \in SUBSET Nat
    BY <1>0
  <2>2. PICK k \in S : TRUE
    OBVIOUS
  <2>3. n - k \in T
    BY <2>2
  <2> QED
    BY <2>1, <2>3
<1> HIDE DEF T
<1>2. PICK m \in T : \A k \in T : m <= k
  BY <1>1, LeastNumber
<1>3. PICK x \in S : m = n - x
  BY <1>2 DEF T
<1>4. \A k \in S : n - k \in T
  BY DEF T
<1>5. \A k \in S : x >= k
  BY <1>2, <1>3, <1>4
<1> QED
  BY <1>5 DEF Max

-----------------------------------------------------------------------------
(* A suffix of the candidates is as ordered as they are.                   *)
LEMMA SuffixOrdered ==
  ASSUME NEW cands, NEW z, Ordered(cands, z), NEW m \in 1..Len(cands)
  PROVE  Ordered(SubSeq(cands, m, Len(cands)), z)
<1> DEFINE n == Len(cands)
           rest == SubSeq(cands, m, n)
<1>1. n \in Nat /\ cands \in Seq(Points)
  BY DEF Ordered
<1>2. /\ rest \in Seq(Points) /\ Len(rest) = n - m + 1
      /\ \A i \in 1..(n - m + 1) : rest[i] = cands[m + i - 1]
  BY <1>1
<1> HIDE DEF rest, n
<1>3. \A i \in 1..(n - m + 1) : m + i - 1 \in 1..n
  BY <1>1 DEF n
<1>4. \A i, j \in 1..Len(rest) : i < j => Before(rest[i], rest[j])
  <2> SUFFICES ASSUME NEW i \in 1..Len(rest), NEW j \in 1..Len(rest), i < j
               PROVE  Before(rest[i], rest[j])
    OBVIOUS
  <2>1. m + i - 1 \in 1..n /\ m + j - 1 \in 1..n /\ m + i - 1 < m + j - 1
    BY <1>1, <1>2, <1>3
  <2>2. Before(cands[m + i - 1], cands[m + j - 1])
    BY <2>1 DEF Ordered, n
  <2> QED
    BY <1>2, <2>2
<1>5. \A i \in 1..Len(rest) : Before(rest[i], z)
  BY <1>2, <1>3 DEF Ordered, n
<1> QED
  BY <1>2, <1>4, <1>5 DEF Ordered, rest, n

(* chooseA0Point returns a candidate and leaves a suffix of them.          *)
LEMMA Chosen ==
  ASSUME NEW cands, NEW z, Ordered(cands, z), cands # <<>>, NEW total \in Nat
  PROVE  LET c == chooseA0Point(cands, total)
         IN  c.a0 \in Points /\ Before(c.a0, z) /\ Ordered(c.rest, z)
<1> DEFINE n == Len(cands)
           later == {i \in 2..n : cands[i].totalBytesAcked > total}
           c == chooseA0Point(cands, total)
<1>1. n \in Nat /\ n > 0 /\ cands \in Seq(Points)
  BY DEF Ordered
<1>2. later # {} => Min(later) \in 2..n
  <2> HAVE later # {}
  <2>1. later \in SUBSET Nat /\ later \subseteq 2..n
    OBVIOUS
  <2> HIDE DEF later
  <2>2. \E i \in later : \A k \in later : i <= k
    BY <2>1, LeastNumber
  <2> QED
    BY <2>1, <2>2 DEF Min
<1> DEFINE m == Min(later) - 1
           h == (n \div 2) + 1
<1>3. /\ n = 1 => c.a0 = cands[1] /\ c.rest = cands
      /\ n # 1 /\ later # {} => c.a0 = cands[m] /\ c.rest = SubSeq(cands, m, n)
      /\ n # 1 /\ later = {} => c.a0 = cands[n] /\ c.rest = SubSeq(cands, h, n)
  BY DEF chooseA0Point
<1>4. later # {} => m \in 1..n
  BY <1>1, <1>2
<1>5. n # 1 => h \in 1..n
  BY <1>1
<1> HIDE DEF later, m, h, c
<1>6. \A i \in 1..n : cands[i] \in Points /\ Before(cands[i], z)
  BY <1>1 DEF Ordered
<1>7. \A i \in 1..n : Ordered(SubSeq(cands, i, n), z)
  BY SuffixOrdered
<1>8. n \in 1..n /\ 1 \in 1..n
  BY <1>1
<1> HIDE DEF n
<1> QED
  BY <1>3, <1>4, <1>5, <1>6, <1>7, <1>8 DEF c

-----------------------------------------------------------------------------
(* What is remembered stays of the past.                                   *)
LEMMA SentBeforeKept ==
  ASSUME NEW e, NEW t \in Nat, NEW n \in Nat, NEW m \in Nat, SentBefore(e, t, n, m),
         NEW t2 \in Nat, NEW n2 \in Nat, NEW m2 \in Nat, t <= t2, n <= n2, m <= m2
  PROVE  SentBefore(e, t2, n2, m2)
  BY DEF SentBefore

(* ... when the counters and the clock only grow.                          *)
LEMMA RemembersKept ==
  ASSUME NEW b, NEW d, NEW t \in Nat, NEW t2 \in Nat, t <= t2, Remembers(b, t),
         d.connectionStateMap = b.connectionStateMap,
         b.totalBytesAcked \in Nat, b.totalBytesSent \in Nat,
         d.totalBytesAcked \in Nat, d.totalBytesSent \in Nat,
         b.totalBytesAcked <= d.totalBytesAcked, b.totalBytesSent <= d.totalBytesSent
  PROVE  Remembers(d, t2)
  BY SentBeforeKept DEF Remembers

(* One point is ordered.                                                   *)
LEMMA OneOrdered ==
  ASSUME NEW q \in Points
  PROVE  Ordered(<<q>>, q)
<1>1. <<q>> \in Seq(Points) /\ Len(<<q>>) = 1 /\ <<q>>[1] = q
  OBVIOUS
<1>2. Before(q, q)
  BY DEF Before, Points
<1> HIDE DEF Before
<1> QED
  BY <1>1, <1>2 DEF Ordered

(* The first packet of a transmission starts the measurement anew.         *)
LEMMA Opened ==
  ASSUME NEW b, NEW t \in Nat, t > 0, NEW c, Good(b, t, c)
  PROVE  LET d == OpenTransmission(b, t)
         IN  /\ Good(d, t, c)
             /\ Same(b, d, {"lastAckedPacketAckTime", "totalBytesSentAtLastAckedPacket",
                            "lastAckedPacketSentTime", "recentAckPoints", "a0Candidates"})
<1> DEFINE d == OpenTransmission(b, t)
           total == b.totalBytesAcked
           points == RecentUpdate(<<NoPoint, NoPoint>>, t, total)
           sent == b.totalBytesSent
           one == <<points[2]>>
           timed == [b EXCEPT !.lastAckedPacketAckTime = t,
                              !.totalBytesSentAtLastAckedPacket = sent,
                              !.lastAckedPacketSentTime = t]
           full == [timed EXCEPT !.recentAckPoints = points, !.a0Candidates = one]
<1>1. d = full \/ d = timed
  BY DEF OpenTransmission
<1>2. total \in Nat /\ sent \in Nat
  BY DEF Good, Counts
<1>3. points = <<NoPoint, AckPoint(t, total)>>
  BY PointPair, PointFacts, <1>2 DEF RecentUpdate, NoPoint
<1>4. /\ points[1] = NoPoint /\ points[2] = AckPoint(t, total)
      /\ NoPoint \in Points /\ AckPoint(t, total) \in Points
      /\ NoPoint.totalBytesAcked = 0 /\ NoPoint.ackTime = 0
  BY <1>2, <1>3, PointPair, PointFacts DEF NoPoint
<1>5. /\ Before(points[1], points[2]) /\ Before(points[2], AckPoint(t, total))
      /\ LessRecentPoint(points) = points[2]
  BY <1>4 DEF Before, LessRecentPoint, Points
<1>6. Ordered(one, LessRecentPoint(points))
  BY <1>4, <1>5, OneOrdered
<1> DEFINE S == {"lastAckedPacketAckTime", "totalBytesSentAtLastAckedPacket",
                 "lastAckedPacketSentTime", "recentAckPoints", "a0Candidates"}
           New(x) == /\ x.lastAckedPacketAckTime = t /\ x.lastAckedPacketSentTime = t
                     /\ x.totalBytesSentAtLastAckedPacket = sent
<1> HIDE DEF total, sent, points, one
<1>7. Struct(timed) /\ Same(b, timed, S) /\ New(timed) /\ timed.recentAckPoints = b.recentAckPoints
      /\ timed.a0Candidates = b.a0Candidates
  BY Names DEF Good, Struct, Same
<1> HIDE DEF timed
<1>8. Struct(full) /\ Same(b, full, S) /\ New(full) /\ full.recentAckPoints = points
      /\ full.a0Candidates = one
  BY <1>7, Names DEF Struct, Same
<1> HIDE DEF full, d
<1>9. /\ Struct(d) /\ Same(b, d, S) /\ New(d)
      /\ \/ d.recentAckPoints = b.recentAckPoints /\ d.a0Candidates = b.a0Candidates
         \/ d.recentAckPoints = points /\ d.a0Candidates = one
  BY <1>1, <1>7, <1>8, Zenon
<1>10. /\ d.totalBytesAcked = b.totalBytesAcked /\ d.totalBytesSent = b.totalBytesSent
       /\ d.totalBytesLost = b.totalBytesLost /\ d.lastSentPacket = b.lastSentPacket
       /\ d.totalBytesAckedAfterLastAckEvent = b.totalBytesAckedAfterLastAckEvent
       /\ d.connectionStateMap = b.connectionStateMap
       /\ d.endOfAppLimitedPhase = b.endOfAppLimitedPhase /\ d.isAppLimited = b.isAppLimited
  BY <1>9, Names DEF Same
<1>11. Counts(d, t)
  BY <1>9, <1>10 DEF Good, Counts, sent
<1>12. Remembers(d, t)
  BY <1>10 DEF Good, Remembers
<1>13. Measured(d, t)
  BY <1>4, <1>5, <1>6, <1>9, <1>10 DEF Good, Measured, total
<1>14. Numbered(d, c)
  BY <1>10 DEF Good, Numbered
<1> QED
  BY <1>9, <1>11, <1>12, <1>13, <1>14 DEF Good, d

(* A packet that is sent is remembered with the mark of the phase, and     *)
(* nothing else that is remembered changes.                                *)
LEMMA SentGood ==
  ASSUME NEW b, NEW t \in Nat, t > 0, NEW c, c.maxPacket \in Nat, c.earlier \in Nat,
         Good(b, t, c), NEW p \in Nat, p > b.lastSentPacket, p <= c.maxPacket, p >= c.earlier,
         NEW n \in Nat
  PROVE  LET d == Sent(b, p, t, n)
         IN  /\ Good(d, t, c)
             /\ d.lastSentPacket = p /\ d.endOfAppLimitedPhase = b.endOfAppLimitedPhase
             /\ d.isAppLimited = b.isAppLimited
             /\ DOMAIN d.connectionStateMap = DOMAIN b.connectionStateMap \cup {p}
             /\ d.connectionStateMap[p].isAppLimited = b.isAppLimited
             /\ \A q \in DOMAIN b.connectionStateMap :
                  d.connectionStateMap[q] = b.connectionStateMap[q]
<1> DEFINE d == Sent(b, p, t, n)
           more == b.totalBytesSent + 1
           counted == [b EXCEPT !.lastSentPacket = p, !.totalBytesSent = more]
           opened == IF n = 0 THEN OpenTransmission(counted, t) ELSE counted
           state == newConnectionStateOnSentPacket(opened, t, n + 1)
           states == [q \in DOMAIN opened.connectionStateMap \cup {p} |->
                        IF q = p THEN state ELSE opened.connectionStateMap[q]]
<1>1. d = [opened EXCEPT !.connectionStateMap = states]
  BY DEF Sent
<1>2. more \in Nat /\ more = b.totalBytesSent + 1
  BY DEF Good, Counts
<1> HIDE DEF more
<1>3. /\ Struct(counted) /\ Same(b, counted, {"lastSentPacket", "totalBytesSent"})
      /\ counted.lastSentPacket = p /\ counted.totalBytesSent = more
  BY Names DEF Good, Struct, Same
<1> HIDE DEF counted
<1>4. /\ counted.totalBytesAcked = b.totalBytesAcked
      /\ counted.totalBytesSentAtLastAckedPacket = b.totalBytesSentAtLastAckedPacket
      /\ counted.lastAckedPacketSentTime = b.lastAckedPacketSentTime
      /\ counted.lastAckedPacketAckTime = b.lastAckedPacketAckTime
      /\ counted.totalBytesLost = b.totalBytesLost
      /\ counted.totalBytesAckedAfterLastAckEvent = b.totalBytesAckedAfterLastAckEvent
      /\ counted.connectionStateMap = b.connectionStateMap
      /\ counted.recentAckPoints = b.recentAckPoints /\ counted.a0Candidates = b.a0Candidates
      /\ counted.endOfAppLimitedPhase = b.endOfAppLimitedPhase
      /\ counted.isAppLimited = b.isAppLimited
  BY <1>3, Names DEF Same
<1>5. Good(counted, t, c)
  <2>1. Counts(counted, t)
    BY <1>2, <1>3, <1>4 DEF Good, Counts
  <2>2. Remembers(counted, t)
    BY <1>2, <1>3, <1>4, RemembersKept DEF Good, Counts
  <2>3. Measured(counted, t)
    BY <1>4 DEF Good, Measured
  <2>4. Numbered(counted, c)
    BY <1>3, <1>4 DEF Good, Numbered
  <2> QED
    BY <1>3, <2>1, <2>2, <2>3, <2>4 DEF Good
<1>6. /\ Good(opened, t, c)
      /\ Same(counted, opened, {"lastAckedPacketAckTime", "totalBytesSentAtLastAckedPacket",
                                "lastAckedPacketSentTime", "recentAckPoints", "a0Candidates"})
  BY <1>5, Opened DEF Same
<1> HIDE DEF opened
<1>7. /\ opened.connectionStateMap = b.connectionStateMap /\ opened.totalBytesSent = more
      /\ opened.totalBytesAcked = b.totalBytesAcked /\ opened.isAppLimited = b.isAppLimited
      /\ opened.lastSentPacket = p /\ opened.endOfAppLimitedPhase = b.endOfAppLimitedPhase
  BY <1>3, <1>4, <1>6, Names DEF Same
<1>8. SentBefore(state, t, opened.totalBytesAcked, opened.totalBytesSent)
  <2>1. /\ Counts(opened, t) /\ opened.isAppLimited \in BOOLEAN
    BY <1>6 DEF Good, Numbered
  <2>2. state \in [sentTime : 1..t, totalBytesSentAtLastAckedPacket : Nat,
            lastAckedPacketSentTime : 0..t, lastAckedPacketAckTime : 0..t,
            isAppLimited : BOOLEAN, totalBytesSent : 0..opened.totalBytesSent,
            totalBytesAcked : 0..opened.totalBytesAcked,
            totalBytesLost : Nat, bytesInFlight : Nat]
    BY <2>1 DEF Counts, newConnectionStateOnSentPacket
  <2>3. state.totalBytesSentAtLastAckedPacket <= state.totalBytesSent
    BY <2>1 DEF Counts, newConnectionStateOnSentPacket
  <2>4. state.lastAckedPacketSentTime <= state.sentTime
    BY <2>1 DEF Counts, newConnectionStateOnSentPacket
  <2> QED
    BY <2>2, <2>3, <2>4 DEF SentBefore
<1>9. state.isAppLimited = opened.isAppLimited
  BY DEF newConnectionStateOnSentPacket
<1> HIDE DEF state
<1>10. /\ DOMAIN states = DOMAIN b.connectionStateMap \cup {p} /\ states[p] = state
       /\ \A q \in DOMAIN b.connectionStateMap : q # p => states[q] = b.connectionStateMap[q]
  BY <1>7
<1>11. p \notin DOMAIN b.connectionStateMap
  BY DEF Good, Numbered
<1> HIDE DEF states
<1>12. /\ Struct(d) /\ Same(opened, d, {"connectionStateMap"}) /\ d.connectionStateMap = states
  BY <1>1, <1>6, Names DEF Good, Struct, Same
<1> HIDE DEF d
<1>13. /\ d.totalBytesAcked = opened.totalBytesAcked /\ d.totalBytesSent = opened.totalBytesSent
       /\ d.totalBytesSentAtLastAckedPacket = opened.totalBytesSentAtLastAckedPacket
       /\ d.lastAckedPacketSentTime = opened.lastAckedPacketSentTime
       /\ d.lastAckedPacketAckTime = opened.lastAckedPacketAckTime
       /\ d.totalBytesLost = opened.totalBytesLost /\ d.lastSentPacket = opened.lastSentPacket
       /\ d.totalBytesAckedAfterLastAckEvent = opened.totalBytesAckedAfterLastAckEvent
       /\ d.recentAckPoints = opened.recentAckPoints /\ d.a0Candidates = opened.a0Candidates
       /\ d.endOfAppLimitedPhase = opened.endOfAppLimitedPhase
       /\ d.isAppLimited = opened.isAppLimited
  BY <1>12, Names DEF Same
<1>14. Counts(d, t)
  BY <1>6, <1>13 DEF Good, Counts
<1>15. Remembers(d, t)
  BY <1>6, <1>7, <1>8, <1>10, <1>12, <1>13 DEF Good, Remembers
<1>16. Measured(d, t)
  BY <1>6, <1>13 DEF Good, Measured
<1>17. Numbered(d, c)
  <2>1. DOMAIN d.connectionStateMap \subseteq c.earlier..p
    BY <1>10, <1>12 DEF Good, Numbered
  <2>2. Numbered(opened, c)
    BY <1>6 DEF Good
  <2> QED
    BY <1>7, <1>13, <2>1, <2>2 DEF Numbered
<1>18. Good(d, t, c)
  BY <1>12, <1>14, <1>15, <1>16, <1>17 DEF Good
<1> QED
  BY <1>7, <1>9, <1>10, <1>11, <1>12, <1>13, <1>18, Zenon DEF d

-----------------------------------------------------------------------------
(* A sample that divides by a positive time.                               *)
Positive(x) ==
  x.ackedTime > 0 /\ x.ackedBytes > 0 /\ x.sentBytes >= 0 /\ x.sentTime >= 0 /\ x.rtt >= 0

(* A sample of the packet p as the sampler b remembers it.                 *)
SampleOf(x, p, b) ==
  /\ Positive(x) /\ x.packet = p /\ p \in DOMAIN b.connectionStateMap
  /\ x.isAppLimited = b.connectionStateMap[p].isAppLimited

(* The order of the points is transitive.                                  *)
LEMMA BeforeTransitive ==
  ASSUME NEW p \in Points, NEW q \in Points, NEW r \in Points, Before(p, q), Before(q, r)
  PROVE  Before(p, r)
  BY DEF Before, Points

(* Candidates before a point are before every later one.                   *)
LEMMA OrderedLater ==
  ASSUME NEW cands, NEW y \in Points, NEW z \in Points, Ordered(cands, y), Before(y, z)
  PROVE  Ordered(cands, z)
<1>1. \A i \in 1..Len(cands) : cands[i] \in Points
  BY DEF Ordered
<1> QED
  BY <1>1, BeforeTransitive DEF Ordered

(* The acknowledgement of a packet keeps the sampler good, forgets         *)
(* nothing, may end the phase, and adds at most a sample of this packet.   *)
LEMMA AckedGood ==
  ASSUME NEW x, NEW p, NEW t \in Nat, t > 0, NEW c, Good(x.b, t, c)
  PROVE  LET y == onPacketAcknowledged(x, p, t)
         IN  /\ Good(y.b, t, c)
             /\ y.b.connectionStateMap = x.b.connectionStateMap
             /\ y.b.lastSentPacket = x.b.lastSentPacket
             /\ y.b.endOfAppLimitedPhase = x.b.endOfAppLimitedPhase
             /\ y.b.isAppLimited <=>
                  x.b.isAppLimited /\ ~(p \in DOMAIN x.b.connectionStateMap /\ AckEndsPhase(x.b, p))
             /\ \A z \in y.samples : z \in x.samples \/ SampleOf(z, p, x.b)
<1> DEFINE y == onPacketAcknowledged(x, p, t)
           Goal(w) == /\ Good(w.b, t, c)
                      /\ w.b.connectionStateMap = x.b.connectionStateMap
                      /\ w.b.lastSentPacket = x.b.lastSentPacket
                      /\ w.b.endOfAppLimitedPhase = x.b.endOfAppLimitedPhase
                      /\ w.b.isAppLimited <=>
                           x.b.isAppLimited /\ ~(p \in DOMAIN x.b.connectionStateMap /\ AckEndsPhase(x.b, p))
                      /\ \A z \in w.samples : z \in x.samples \/ SampleOf(z, p, x.b)
<1> SUFFICES Goal(y)
  BY Zenon
<1>1. CASE p \notin DOMAIN x.b.connectionStateMap
  <2>1. y = x
    BY <1>1 DEF onPacketAcknowledged
  <2>2. x.b.isAppLimited \in BOOLEAN
    BY DEF Good, Numbered
  <2>3. Goal(x)
    BY <1>1, <2>2, Zenon
  <2> HIDE DEF Goal, y
  <2> QED
    BY <2>1, <2>3
<1>2. CASE p \in DOMAIN x.b.connectionStateMap
  <2> DEFINE b == x.b
             e == b.connectionStateMap[p]
             total == b.totalBytesAcked + 1
             sent == e.totalBytesSent
             sentTime == e.sentTime
             points == IF setup.overestimateAvoidance THEN RecentUpdate(b.recentAckPoints, t, total)
                       ELSE b.recentAckPoints
             limited == b.isAppLimited /\ ~AckEndsPhase(b, p)
             acked == [b EXCEPT !.totalBytesAcked = total,
                                !.totalBytesSentAtLastAckedPacket = sent,
                                !.lastAckedPacketSentTime = sentTime,
                                !.lastAckedPacketAckTime = t,
                                !.recentAckPoints = points,
                                !.isAppLimited = limited]
             chosen == IF /\ setup.overestimateAvoidance /\ acked.a0Candidates # <<>>
                          /\ e.lastAckedPacketSentTime # 0
                         THEN chooseA0Point(acked.a0Candidates, e.totalBytesAcked)
                         ELSE [a0 |-> AckPoint(e.lastAckedPacketAckTime, e.totalBytesAcked),
                               rest |-> acked.a0Candidates]
             sample == [packet |-> p, isAppLimited |-> e.isAppLimited,
                        rtt |-> t - e.sentTime, a0 |-> chosen.a0,
                        ackedBytes |-> total - chosen.a0.totalBytesAcked,
                        ackedTime |-> t - chosen.a0.ackTime,
                        sentBytes |-> e.totalBytesSent - e.totalBytesSentAtLastAckedPacket,
                        sentTime |-> e.sentTime - e.lastAckedPacketSentTime]
             rest == chosen.rest
             after == [acked EXCEPT !.a0Candidates = rest]
             taken == IF SampleUsable(e, chosen.a0, t)
                        THEN x.samples \cup {sample} ELSE x.samples
  <2>1. y = [b |-> after, samples |-> taken]
    BY <1>2 DEF onPacketAcknowledged
  <2>2. /\ Struct(b) /\ Counts(b, t) /\ Remembers(b, t) /\ Measured(b, t) /\ Numbered(b, c)
    BY DEF Good
  <2>3. /\ SentBefore(e, t, b.totalBytesAcked, b.totalBytesSent)
        /\ b.totalBytesAcked \in Nat /\ b.totalBytesSent \in Nat
    BY <1>2, <2>2 DEF Remembers, Counts
  <2>4. /\ sentTime \in 1..t /\ sent \in 0..b.totalBytesSent /\ total \in Nat
        /\ e.lastAckedPacketAckTime \in 0..t /\ e.totalBytesAcked \in 0..b.totalBytesAcked
        /\ e.lastAckedPacketSentTime \in 0..sentTime
        /\ e.totalBytesSentAtLastAckedPacket \in 0..sent
        /\ total = b.totalBytesAcked + 1
    BY <2>3 DEF SentBefore
  <2> HIDE DEF e, total, sent, sentTime
  <2>5. /\ points[1] \in Points /\ points[2] \in Points /\ Before(points[1], points[2])
        /\ Before(points[2], AckPoint(t, total))
        /\ Before(LessRecentPoint(b.recentAckPoints), LessRecentPoint(points))
    <3> DEFINE r == b.recentAckPoints
    <3>1. /\ r[1] \in Points /\ r[2] \in Points /\ Before(r[1], r[2])
          /\ Before(r[2], AckPoint(t, b.totalBytesAcked))
      BY <2>2 DEF Measured
    <3>2. Before(r[2], AckPoint(t, total))
      BY <2>3, <2>4, <3>1, PointFacts, SMTT(60) DEF Before, Points
    <3>3. \A q \in Points : Before(q, q)
      BY DEF Before, Points
    <3>4. AckPoint(t, total) \in Points
      BY <2>4, PointFacts
    <3> HIDE DEF r
    <3>5. /\ Before(LessRecentPoint(r), LessRecentPoint(r))
      BY <3>1, <3>3 DEF LessRecentPoint
    <3>6. CASE setup.overestimateAvoidance
      <4>1. points = RecentUpdate(r, t, total)
        BY <3>6 DEF r
      <4> HIDE DEF points
      <4> QED
        BY <2>4, <3>1, <3>2, <3>3, <3>4, <4>1, RecentUpdated DEF r
    <3>7. CASE ~setup.overestimateAvoidance
      <4>1. points = r
        BY <3>7 DEF r
      <4> HIDE DEF points
      <4> QED
        BY <3>1, <3>2, <3>5, <4>1 DEF r
    <3> QED
      BY <3>6, <3>7
  <2>6. Ordered(b.a0Candidates, LessRecentPoint(points))
    <3>1. LessRecentPoint(b.recentAckPoints) \in Points /\ LessRecentPoint(points) \in Points
      BY <2>2, <2>5 DEF Measured, LessRecentPoint
    <3>2. Ordered(b.a0Candidates, LessRecentPoint(b.recentAckPoints))
      BY <2>2 DEF Measured
    <3> HIDE DEF points
    <3> QED
      BY <2>5, <3>1, <3>2, OrderedLater
  <2>6a. Ordered(b.a0Candidates, AckPoint(t, b.totalBytesAcked))
    <3> DEFINE r == b.recentAckPoints
    <3>1. /\ r[1] \in Points /\ r[2] \in Points /\ Before(r[1], r[2])
          /\ Before(r[2], AckPoint(t, b.totalBytesAcked)) /\ Ordered(b.a0Candidates, LessRecentPoint(r))
      BY <2>2 DEF Measured
    <3>2. AckPoint(t, b.totalBytesAcked) \in Points
      BY <2>3, PointFacts
    <3> HIDE DEF r
    <3>3. LessRecentPoint(r) \in Points /\ Before(LessRecentPoint(r), AckPoint(t, b.totalBytesAcked))
      BY <3>1, <3>2, BeforeTransitive DEF LessRecentPoint
    <3> QED
      BY <3>1, <3>2, <3>3, OrderedLater
  <2>7. limited \in BOOLEAN /\ (limited <=> b.isAppLimited /\ ~AckEndsPhase(b, p))
    BY <2>2 DEF Numbered
  <2> HIDE DEF points, limited
  <2> DEFINE S == {"totalBytesAcked", "totalBytesSentAtLastAckedPacket", "lastAckedPacketSentTime",
                   "lastAckedPacketAckTime", "recentAckPoints", "isAppLimited", "a0Candidates"}
             New(w) == /\ w.totalBytesAcked = total /\ w.totalBytesSentAtLastAckedPacket = sent
                       /\ w.lastAckedPacketSentTime = sentTime /\ w.lastAckedPacketAckTime = t
                       /\ w.recentAckPoints = points /\ w.isAppLimited = limited
  <2>8. /\ Struct(acked) /\ Same(b, acked, S) /\ New(acked) /\ acked.a0Candidates = b.a0Candidates
    <3> HIDE DEF b
    <3> QED
      BY <2>2, Names DEF Struct, Same
  <2> HIDE DEF acked
  <2>9. /\ chosen.a0 \in Points /\ Ordered(rest, LessRecentPoint(points))
        /\ chosen.a0.totalBytesAcked <= b.totalBytesAcked
    <3> DEFINE cands == b.a0Candidates
               cp == chooseA0Point(cands, e.totalBytesAcked)
               q == AckPoint(e.lastAckedPacketAckTime, e.totalBytesAcked)
    <3>1. \/ cands # <<>> /\ chosen = cp
          \/ chosen = [a0 |-> q, rest |-> cands]
      BY <2>8
    <3>2. e.totalBytesAcked \in Nat /\ e.lastAckedPacketAckTime \in Nat
      BY <2>3, <2>4
    <3>3. q \in Points /\ q.totalBytesAcked = e.totalBytesAcked
      BY <3>2, PointFacts
    <3>4. cands # <<>> => /\ cp.a0 \in Points /\ Ordered(cp.rest, LessRecentPoint(points))
                         /\ Before(cp.a0, AckPoint(t, b.totalBytesAcked))
      BY <2>6, <2>6a, <3>2, Chosen
    <3>5. cands # <<>> => cp.a0.totalBytesAcked <= b.totalBytesAcked
      BY <2>3, <3>4, PointFacts DEF Before
    <3> HIDE DEF cp, q, cands, chosen
    <3>6. CASE cands # <<>> /\ chosen = cp
      BY <3>4, <3>5, <3>6
    <3>7. CASE chosen = [a0 |-> q, rest |-> cands]
      <4>1. chosen.a0 = q /\ chosen.rest = cands
        BY <3>7
      <4> QED
        BY <2>3, <2>4, <2>6, <3>3, <4>1 DEF cands
    <3> QED
      BY <3>1, <3>6, <3>7
  <2> HIDE DEF chosen, rest
  <2>10. SampleUsable(e, chosen.a0, t) => SampleOf(sample, p, b)
    <3> HAVE SampleUsable(e, chosen.a0, t)
    <3> DEFINE a0 == chosen.a0
    <3>1. t > a0.ackTime /\ a0.ackTime \in Nat /\ a0.totalBytesAcked \in Nat
      BY <2>9 DEF SampleUsable, Points
    <3> HIDE DEF a0
    <3>2. Positive(sample)
      <4>1. t - a0.ackTime > 0 /\ total - a0.totalBytesAcked > 0
        BY <2>3, <2>4, <2>9, <3>1 DEF a0
      <4>2. e.totalBytesSent - e.totalBytesSentAtLastAckedPacket >= 0
        BY <2>3, <2>4 DEF sent
      <4>3. e.sentTime - e.lastAckedPacketSentTime >= 0 /\ t - e.sentTime >= 0
        BY <2>3, <2>4 DEF sentTime
      <4> QED
        BY <4>1, <4>2, <4>3 DEF Positive, a0
    <3>3. sample.packet = p /\ sample.isAppLimited = e.isAppLimited
      OBVIOUS
    <3> HIDE DEF sample
    <3> QED
      BY <1>2, <3>2, <3>3, Zenon DEF SampleOf, e
  <2>11. \A z \in taken : z \in x.samples \/ SampleOf(z, p, b)
    <3> HIDE DEF sample, b
    <3> QED
      BY <2>10, Zenon
  <2> HIDE DEF sample, taken
  <2>12. /\ Struct(after) /\ Same(b, after, S) /\ New(after) /\ after.a0Candidates = rest
    BY <2>8, Names DEF Struct, Same
  <2> HIDE DEF after
  <2>13. /\ after.totalBytesSent = b.totalBytesSent
         /\ after.totalBytesLost = b.totalBytesLost /\ after.lastSentPacket = b.lastSentPacket
         /\ after.totalBytesAckedAfterLastAckEvent = b.totalBytesAckedAfterLastAckEvent
         /\ after.connectionStateMap = b.connectionStateMap
         /\ after.endOfAppLimitedPhase = b.endOfAppLimitedPhase
    BY <2>12, Names DEF Same
  <2>14. Counts(after, t)
    BY <2>2, <2>3, <2>4, <2>12, <2>13 DEF Counts
  <2>15. Remembers(after, t)
    BY <2>2, <2>3, <2>4, <2>12, <2>13, RemembersKept
  <2>16. Measured(after, t)
    BY <2>5, <2>9, <2>12 DEF Measured
  <2>17. Numbered(after, c)
    BY <2>2, <2>7, <2>12, <2>13 DEF Numbered
  <2>18. Good(after, t, c)
    BY <2>12, <2>14, <2>15, <2>16, <2>17 DEF Good
  <2>19. y.b = after /\ y.samples = taken
    BY <2>1
  <2> HIDE DEF y
  <2> QED
    BY <1>2, <2>7, <2>11, <2>12, <2>13, <2>18, <2>19, Zenon
<1> QED
  BY <1>1, <1>2

-----------------------------------------------------------------------------
(* One turn of the loop over the acknowledged packets.                     *)
Turn(x, n, acked, t) == IF n \in acked THEN onPacketAcknowledged(x, n, t) ELSE x

(* The states x, g[1], ... g[m] of the loop.                               *)
IsLoop(g, m, x, acked, t) ==
  g = [n \in 0..m |-> IF n = 0 THEN x ELSE Turn(g[n - 1], n - 1, acked, t)]

(* The loop is defined: it has states up to every number.                  *)
LEMMA LoopDefined ==
  ASSUME NEW N \in Nat, NEW x, NEW acked, NEW t
  PROVE  \E g : IsLoop(g, N, x, acked, t)
<1> DEFINE Bad == {m \in Nat : ~\E g : IsLoop(g, m, x, acked, t)}
<1> SUFFICES ASSUME Bad # {} PROVE FALSE
  BY Zenon
<1>1. Bad \in SUBSET Nat
  OBVIOUS
<1>2. PICK m \in Bad : \A k \in Bad : m <= k
  BY <1>1, LeastNumber
<1>3. m \in Nat /\ ~\E g : IsLoop(g, m, x, acked, t)
  BY <1>2
<1>4. m # 0
  <2> SUFFICES ASSUME m = 0 PROVE FALSE
    OBVIOUS
  <2> DEFINE g == [n \in 0..0 |-> x]
  <2>1. g = [n \in 0..0 |-> IF n = 0 THEN x ELSE Turn(g[n - 1], n - 1, acked, t)]
    OBVIOUS
  <2> HIDE DEF g
  <2>2. IsLoop(g, 0, x, acked, t)
    BY <2>1 DEF IsLoop
  <2> QED
    BY <1>3, <2>2
<1>5. m - 1 \in Nat /\ m - 1 \notin Bad
  BY <1>2, <1>3, <1>4
<1>6. PICK g : IsLoop(g, m - 1, x, acked, t)
  BY <1>5
<1> DEFINE h == [n \in 0..m |-> IF n = m THEN Turn(g[m - 1], m - 1, acked, t) ELSE g[n]]
<1>7. \A n \in 0..m : h[n] = IF n = 0 THEN x ELSE Turn(h[n - 1], n - 1, acked, t)
  <2> TAKE n \in 0..m
  <2>1. \A k \in 0..(m - 1) : h[k] = g[k]
    BY <1>3, <1>4
  <2>2. \A k \in 0..(m - 1) : g[k] = IF k = 0 THEN x ELSE Turn(g[k - 1], k - 1, acked, t)
    BY <1>6 DEF IsLoop
  <2>3. CASE n = m
    <3>1. h[n] = Turn(g[m - 1], m - 1, acked, t) /\ h[m - 1] = g[m - 1]
      BY <1>3, <1>4, <2>1, <2>3
    <3> HIDE DEF h
    <3> QED
      BY <1>4, <2>3, <3>1
  <2>4. CASE n # m /\ n # 0
    <3>1. h[n] = g[n] /\ h[n - 1] = g[n - 1] /\ n \in 0..(m - 1)
      BY <1>3, <2>1, <2>4
    <3> HIDE DEF h
    <3> QED
      BY <2>2, <2>4, <3>1
  <2>5. CASE n = 0
    <3>1. h[n] = g[n] /\ n \in 0..(m - 1)
      BY <1>3, <1>4, <2>1, <2>5
    <3> HIDE DEF h
    <3> QED
      BY <2>2, <2>5, <3>1
  <2> QED
    BY <2>3, <2>4, <2>5
<1>8. h = [n \in 0..m |-> h[n]]
  OBVIOUS
<1> HIDE DEF h
<1>9. h = [n \in 0..m |-> IF n = 0 THEN x ELSE Turn(h[n - 1], n - 1, acked, t)]
  BY <1>7, <1>8
<1> QED
  BY <1>3, <1>9 DEF IsLoop

(* Acknowledged is the last of these states.                               *)
LEMMA LoopResult ==
  ASSUME NEW x, NEW acked, NEW t, NextPacket \in Nat
  PROVE  \E g : /\ Acknowledged(x, acked, t) = g[NextPacket] /\ g[0] = x
                /\ \A n \in 0..(NextPacket - 1) : g[n + 1] = Turn(g[n], n, acked, t)
<1> DEFINE N == NextPacket
           Def(g) == g = [n \in 0..N |->
                            IF n = 0 THEN x
                            ELSE IF n - 1 \in acked THEN onPacketAcknowledged(g[n - 1], n - 1, t)
                            ELSE g[n - 1]]
           after == CHOOSE g : Def(g)
<1>1. Acknowledged(x, acked, t) = after[N]
  BY Zenon DEF Acknowledged
<1>2. PICK g0 : IsLoop(g0, N, x, acked, t)
  BY LoopDefined
<1>3. Def(g0)
  BY <1>2, Zenon DEF IsLoop, Turn
<1>4. Def(after)
  BY <1>3, Zenon
<1> HIDE DEF after
<1>5. after = [n \in 0..N |-> IF n = 0 THEN x ELSE Turn(after[n - 1], n - 1, acked, t)]
  BY <1>4, Zenon DEF Turn
<1> HIDE DEF N
<1>6. N \in Nat
  BY DEF N
<1>7. after[0] = x
  BY <1>5, <1>6
<1>8. \A n \in 0..(N - 1) : after[n + 1] = Turn(after[n], n, acked, t)
  <2> TAKE n \in 0..(N - 1)
  <2>1. n + 1 \in 0..N /\ n + 1 # 0 /\ (n + 1) - 1 = n
    BY <1>6
  <2> QED
    BY <1>5, <2>1
<1> QED
  BY <1>1, <1>7, <1>8 DEF N

(* What d shares with b: all that is remembered, and the end of the phase. *)
Keeps(b, d) ==
  /\ d.connectionStateMap = b.connectionStateMap /\ d.lastSentPacket = b.lastSentPacket
  /\ d.endOfAppLimitedPhase = b.endOfAppLimitedPhase

(* The packets acknowledged that end the phase of b.                       *)
Ending(b, acked) == {p \in acked : p \in DOMAIN b.connectionStateMap /\ AckEndsPhase(b, p)}

(* The loop after n turns.                                                 *)
LoopInv(y, n, b, acked, t, c) ==
  /\ Good(y.b, t, c) /\ Keeps(b, y.b)
  /\ y.b.isAppLimited <=> b.isAppLimited /\ \A p \in Ending(b, acked) : ~(p < n)
  /\ \A z \in y.samples : \E p \in acked : SampleOf(z, p, b)

(* One turn keeps the invariant of the loop.                               *)
LEMMA TurnKeeps ==
  ASSUME NEW b, NEW acked, NEW t \in Nat, t > 0, NEW c, NEW N \in Nat, acked \subseteq Nat,
         NEW y, NEW n \in Nat, LoopInv(y, n, b, acked, t, c)
  PROVE  LoopInv(Turn(y, n, acked, t), n + 1, b, acked, t, c)
<1> DEFINE w == Turn(y, n, acked, t)
           E == Ending(b, acked)
<1>1. /\ Good(y.b, t, c) /\ Keeps(b, y.b)
      /\ y.b.isAppLimited <=> b.isAppLimited /\ \A p \in E : ~(p < n)
      /\ \A z \in y.samples : \E p \in acked : SampleOf(z, p, b)
  BY DEF LoopInv
<1>2. \A p \in E : p \in Nat
  BY DEF Ending
<1>3. \A p \in Nat : ~(p < n + 1) <=> ~(p < n) /\ p # n
  OBVIOUS
<1>4. (\A p \in E : ~(p < n + 1)) <=> (\A p \in E : ~(p < n)) /\ n \notin E
  <2> HIDE DEF E
  <2> QED
    BY <1>2, <1>3, Zenon
<1>5. \A z, p : SampleOf(z, p, y.b) => SampleOf(z, p, b)
  BY <1>1 DEF SampleOf, Keeps
<1>6. CASE n \notin acked
  <2>1. w = y /\ n \notin E
    BY <1>6 DEF Turn, Ending
  <2> HIDE DEF w, E
  <2>2. LoopInv(y, n + 1, b, acked, t, c)
    BY <1>1, <1>4, <2>1, Zenon DEF LoopInv, E
  <2> QED
    BY <2>1, <2>2 DEF w
<1>7. CASE n \in acked
  <2> DEFINE d == onPacketAcknowledged(y, n, t)
             ends == n \in DOMAIN y.b.connectionStateMap /\ AckEndsPhase(y.b, n)
  <2>1. w = d
    BY <1>7 DEF Turn
  <2>2. /\ Good(d.b, t, c) /\ Keeps(y.b, d.b)
        /\ d.b.isAppLimited <=> y.b.isAppLimited /\ ~ends
        /\ \A z \in d.samples : z \in y.samples \/ SampleOf(z, n, y.b)
    <3> HIDE DEF d
    <3> QED
      BY <1>1, AckedGood, Zenon DEF d, Keeps
  <2>3. ends <=> n \in E
    BY <1>1, <1>7 DEF Keeps, Ending, AckEndsPhase
  <2> HIDE DEF w, d, ends, E
  <2>4. Keeps(b, d.b)
    BY <1>1, <2>2 DEF Keeps
  <2>5. d.b.isAppLimited <=> b.isAppLimited /\ \A p \in E : ~(p < n + 1)
    BY <1>1, <1>4, <2>2, <2>3, Zenon
  <2>6. \A z \in d.samples : \E p \in acked : SampleOf(z, p, b)
    BY <1>1, <1>5, <1>7, <2>2, Zenon
  <2>7. LoopInv(d, n + 1, b, acked, t, c)
    BY <2>2, <2>4, <2>5, <2>6, Zenon DEF LoopInv, E
  <2> QED
    BY <2>1, <2>7 DEF w
<1> QED
  BY <1>6, <1>7

(* The whole loop.                                                         *)
LEMMA AcknowledgedGood ==
  ASSUME NEW b, NEW acked, NEW t \in Nat, t > 0, NEW c, NextPacket \in Nat,
         acked \subseteq 0..(NextPacket - 1), Good(b, t, c)
  PROVE  LoopInv(Acknowledged([b |-> b, samples |-> {}], acked, t), NextPacket, b, acked, t, c)
<1> DEFINE x == [b |-> b, samples |-> {}]
           N == NextPacket
<1>1. PICK g : /\ Acknowledged(x, acked, t) = g[N] /\ g[0] = x
               /\ \A n \in 0..(N - 1) : g[n + 1] = Turn(g[n], n, acked, t)
  BY LoopResult
<1>2. N \in Nat /\ acked \subseteq Nat
  OBVIOUS
<1>3. LoopInv(x, 0, b, acked, t, c)
  <2>1. x.b = b /\ x.samples = {}
    OBVIOUS
  <2>2. \A p \in Ending(b, acked) : ~(p < 0)
    <3>1. Ending(b, acked) \subseteq acked
      BY Zenon DEF Ending
    <3>2. \A p \in acked : ~(p < 0)
      BY <1>2
    <3> QED
      BY <3>1, <3>2, Zenon
  <2>3. b.isAppLimited \in BOOLEAN
    BY DEF Good, Numbered
  <2> HIDE DEF x
  <2> QED
    BY <2>1, <2>2, <2>3, Zenon DEF LoopInv, Keeps
<1> HIDE DEF x, N
<1> DEFINE Bad == {n \in Nat : n <= N /\ ~LoopInv(g[n], n, b, acked, t, c)}
<1>4. Bad = {}
  <2> SUFFICES ASSUME Bad # {} PROVE FALSE
    OBVIOUS
  <2>1. Bad \in SUBSET Nat
    OBVIOUS
  <2>2. PICK m \in Bad : \A k \in Bad : m <= k
    BY <2>1, LeastNumber
  <2>3. m \in Nat /\ m <= N /\ ~LoopInv(g[m], m, b, acked, t, c)
    BY <2>2
  <2>4. m # 0
    BY <1>1, <1>3, <2>3
  <2>5. m - 1 \in Nat /\ m - 1 \in 0..(N - 1) /\ (m - 1) + 1 = m /\ m - 1 <= N /\ ~(m <= m - 1)
    BY <1>2, <2>3, <2>4
  <2>6. LoopInv(g[m - 1], m - 1, b, acked, t, c)
    BY <2>2, <2>5
  <2>7. LoopInv(Turn(g[m - 1], m - 1, acked, t), m, b, acked, t, c)
    BY <1>2, <2>5, <2>6, TurnKeeps
  <2>8. g[m] = Turn(g[m - 1], m - 1, acked, t)
    BY <1>1, <2>5
  <2> QED
    BY <2>3, <2>7, <2>8
<1>5. N <= N
  BY <1>2
<1>6. LoopInv(g[N], N, b, acked, t, c)
  BY <1>2, <1>4, <1>5
<1> QED
  BY <1>1, <1>6 DEF x, N

-----------------------------------------------------------------------------
(* A sampler that differs from a good one only in fields that no count     *)
(* depends on.                                                             *)
LEMMA LimitedGood ==
  ASSUME NEW b, NEW t, NEW c, c.maxPacket \in Nat, Good(b, t, c)
  PROVE  /\ Good(Limited(b), t, c) /\ Limited(b).isAppLimited = TRUE
         /\ Limited(b).endOfAppLimitedPhase = b.lastSentPacket
         /\ Limited(b).lastSentPacket = b.lastSentPacket
         /\ Limited(b).connectionStateMap = b.connectionStateMap
<1> DEFINE d == Limited(b)
           last == b.lastSentPacket
<1> HIDE DEF last
<1>1. d = [b EXCEPT !.isAppLimited = TRUE, !.endOfAppLimitedPhase = last]
  BY DEF Limited, last
<1> HIDE DEF d
<1>2. /\ Struct(d) /\ Same(b, d, {"isAppLimited", "endOfAppLimitedPhase"})
      /\ d.endOfAppLimitedPhase = last
  BY <1>1, Names DEF Struct, Same, Good
<1>3. d.isAppLimited = TRUE
  BY <1>1, Names DEF Struct, Good
<1>4. /\ d.totalBytesAcked = b.totalBytesAcked /\ d.totalBytesSent = b.totalBytesSent
      /\ d.totalBytesSentAtLastAckedPacket = b.totalBytesSentAtLastAckedPacket
      /\ d.lastAckedPacketSentTime = b.lastAckedPacketSentTime
      /\ d.lastAckedPacketAckTime = b.lastAckedPacketAckTime
      /\ d.totalBytesLost = b.totalBytesLost /\ d.lastSentPacket = b.lastSentPacket
      /\ d.totalBytesAckedAfterLastAckEvent = b.totalBytesAckedAfterLastAckEvent
      /\ d.recentAckPoints = b.recentAckPoints /\ d.a0Candidates = b.a0Candidates
      /\ d.connectionStateMap = b.connectionStateMap
  BY <1>2, Names DEF Same
<1>5. Counts(d, t)
  BY <1>4 DEF Good, Counts
<1>6. Remembers(d, t)
  BY <1>4 DEF Good, Remembers
<1>7. Measured(d, t)
  BY <1>4 DEF Good, Measured
<1>8. Numbered(d, c)
  <2>1. d.isAppLimited \in BOOLEAN
    BY <1>3, Zenon
  <2>2. last \in -1..last
    BY DEF Good, Numbered, last
  <2> QED
    BY <1>2, <1>4, <2>1, <2>2 DEF Good, Numbered, last
<1> QED
  BY <1>2, <1>3, <1>4, <1>5, <1>6, <1>7, <1>8 DEF Good, d, last

(* RemoveObsoletePackets only forgets packets.                             *)
LEMMA RemovedGood ==
  ASSUME NEW b, NEW t, NEW c, Good(b, t, c), NEW least
  PROVE  LET d == RemoveObsoletePackets(b, least)
         IN  /\ Good(d, t, c) /\ d.isAppLimited = b.isAppLimited
             /\ d.endOfAppLimitedPhase = b.endOfAppLimitedPhase
             /\ d.lastSentPacket = b.lastSentPacket
             /\ DOMAIN d.connectionStateMap = {q \in DOMAIN b.connectionStateMap : q >= least}
             /\ \A q \in DOMAIN d.connectionStateMap :
                  d.connectionStateMap[q] = b.connectionStateMap[q]
<1> DEFINE d == RemoveObsoletePackets(b, least)
           left == {q \in DOMAIN b.connectionStateMap : q >= least}
           states == [p \in left |-> b.connectionStateMap[p]]
<1>1. d = [b EXCEPT !.connectionStateMap = states]
  BY DEF RemoveObsoletePackets
<1>2. /\ DOMAIN states = left /\ left \subseteq DOMAIN b.connectionStateMap
      /\ \A q \in left : states[q] = b.connectionStateMap[q]
  OBVIOUS
<1> HIDE DEF d, states
<1>3. /\ Struct(d) /\ Same(b, d, {"connectionStateMap"}) /\ d.connectionStateMap = states
  BY <1>1, Names DEF Struct, Same, Good
<1>4. /\ d.totalBytesAcked = b.totalBytesAcked /\ d.totalBytesSent = b.totalBytesSent
      /\ d.totalBytesSentAtLastAckedPacket = b.totalBytesSentAtLastAckedPacket
      /\ d.lastAckedPacketSentTime = b.lastAckedPacketSentTime
      /\ d.lastAckedPacketAckTime = b.lastAckedPacketAckTime
      /\ d.totalBytesLost = b.totalBytesLost /\ d.lastSentPacket = b.lastSentPacket
      /\ d.totalBytesAckedAfterLastAckEvent = b.totalBytesAckedAfterLastAckEvent
      /\ d.recentAckPoints = b.recentAckPoints /\ d.a0Candidates = b.a0Candidates
      /\ d.endOfAppLimitedPhase = b.endOfAppLimitedPhase /\ d.isAppLimited = b.isAppLimited
  BY <1>3, Names DEF Same
<1>5. Counts(d, t)
  BY <1>4 DEF Good, Counts
<1>6. Remembers(d, t)
  BY <1>2, <1>3, <1>4 DEF Good, Remembers
<1>7. Measured(d, t)
  BY <1>4 DEF Good, Measured
<1>8. Numbered(d, c)
  BY <1>2, <1>3, <1>4 DEF Good, Numbered
<1> QED
  BY <1>2, <1>3, <1>4, <1>5, <1>6, <1>7, <1>8 DEF Good, d

(* The end of an event with acknowledgements only touches the candidates:  *)
(* the point it adds is later than all of them.                            *)
LEMMA EventEndGood ==
  ASSUME NEW b, NEW t, NEW c, Good(b, t, c), NEW newEpoch
  PROVE  LET d == onAckEventEnd(b, newEpoch)
         IN  Good(d, t, c) /\ Keeps(b, d) /\ d.isAppLimited = b.isAppLimited
<1> DEFINE d == onAckEventEnd(b, newEpoch)
           z == LessRecentPoint(b.recentAckPoints)
           total == b.totalBytesAcked
           cands == b.a0Candidates
           more == IF setup.overestimateAvoidance /\ newEpoch THEN Append(cands, z) ELSE cands
           e == [b EXCEPT !.totalBytesAckedAfterLastAckEvent = total, !.a0Candidates = more]
<1>1. d = b \/ d = e
  BY DEF onAckEventEnd
<1>2. CASE d = b
  BY <1>2 DEF Keeps
<1>3. CASE d = e
  <2>1. z \in Points /\ Before(z, z) /\ Ordered(cands, z) /\ total \in Nat
    <3>1. z \in Points /\ Ordered(cands, z) /\ total \in Nat
      BY DEF Good, Measured, LessRecentPoint, Counts
    <3> QED
      BY <3>1 DEF Before, Points
  <2> HIDE DEF z, cands, total
  <2>2. Ordered(Append(cands, z), z)
    <3> DEFINE n == Len(cands)
               app == Append(cands, z)
    <3>1. cands \in Seq(Points) /\ n \in Nat
      BY <2>1 DEF Ordered
    <3>2. /\ app \in Seq(Points) /\ Len(app) = n + 1 /\ app[n + 1] = z
          /\ \A i \in 1..n : app[i] = cands[i]
      BY <2>1, <3>1
    <3> HIDE DEF n, app
    <3>3. \A i \in 1..n : Before(cands[i], z)
      BY <2>1 DEF Ordered, n
    <3>4. \A i, j \in 1..n : i < j => Before(cands[i], cands[j])
      BY <2>1 DEF Ordered, n
    <3>5. \A i \in 1..(n + 1) : i = n + 1 \/ i \in 1..n
      BY <3>1
    <3>6. \A i \in 1..Len(app) : Before(app[i], z)
      BY <2>1, <3>2, <3>3, <3>5
    <3>7. \A i, j \in 1..Len(app) : i < j => Before(app[i], app[j])
      <4> SUFFICES ASSUME NEW i \in 1..(n + 1), NEW j \in 1..(n + 1), i < j
                   PROVE  Before(app[i], app[j])
        BY <3>2
      <4>1. i \in 1..n
        BY <3>1
      <4>2. app[i] = cands[i]
        BY <3>2, <4>1
      <4>3. j = n + 1 \/ j \in 1..n
        BY <3>5
      <4>4. CASE j = n + 1
        BY <3>2, <3>3, <4>1, <4>2, <4>4
      <4>5. CASE j \in 1..n
        <5>1. app[j] = cands[j]
          BY <3>2, <4>5
        <5> QED
          BY <3>4, <4>1, <4>2, <4>5, <5>1
      <4> QED
        BY <4>3, <4>4, <4>5
    <3> QED
      BY <3>2, <3>6, <3>7 DEF Ordered, app
  <2>3. Ordered(more, z)
    BY <2>1, <2>2
  <2> HIDE DEF more
  <2>4. /\ Struct(e) /\ Same(b, e, {"totalBytesAckedAfterLastAckEvent", "a0Candidates"})
        /\ e.totalBytesAckedAfterLastAckEvent = total /\ e.a0Candidates = more
    BY Names DEF Struct, Same, Good
  <2> HIDE DEF e
  <2>5. /\ e.totalBytesAcked = b.totalBytesAcked /\ e.totalBytesSent = b.totalBytesSent
        /\ e.totalBytesSentAtLastAckedPacket = b.totalBytesSentAtLastAckedPacket
        /\ e.lastAckedPacketSentTime = b.lastAckedPacketSentTime
        /\ e.lastAckedPacketAckTime = b.lastAckedPacketAckTime
        /\ e.totalBytesLost = b.totalBytesLost /\ e.lastSentPacket = b.lastSentPacket
        /\ e.recentAckPoints = b.recentAckPoints /\ e.connectionStateMap = b.connectionStateMap
        /\ e.endOfAppLimitedPhase = b.endOfAppLimitedPhase /\ e.isAppLimited = b.isAppLimited
    BY <2>4, Names DEF Same
  <2>6. Counts(e, t)
    BY <2>1, <2>4, <2>5 DEF Good, Counts
  <2>7. Remembers(e, t)
    BY <2>5 DEF Good, Remembers
  <2>8. Measured(e, t)
    BY <2>3, <2>4, <2>5 DEF Good, Measured, z
  <2>9. Numbered(e, c)
    BY <2>5 DEF Good, Numbered
  <2>10. Good(e, t, c) /\ Keeps(b, e)
    BY <2>4, <2>5, <2>6, <2>7, <2>8, <2>9 DEF Good, Keeps
  <2> QED
    BY <1>3, <2>5, <2>10
<1> QED
  BY <1>1, <1>2, <1>3

(* The losses are counted.                                                 *)
LEMMA LossesGood ==
  ASSUME NEW b, NEW t \in Nat, NEW c, Good(b, t, c), NEW n \in Nat
  PROVE  LET d == [b EXCEPT !.totalBytesLost = @ + n]
         IN  Good(d, t, c) /\ Keeps(b, d) /\ d.isAppLimited = b.isAppLimited
<1> DEFINE more == b.totalBytesLost + n
           d == [b EXCEPT !.totalBytesLost = more]
<1>1. more \in Nat
  BY DEF Good, Counts
<1> HIDE DEF more
<1>2. Struct(d) /\ Same(b, d, {"totalBytesLost"}) /\ d.totalBytesLost = more
  BY Names DEF Struct, Same, Good
<1> HIDE DEF d
<1>3. /\ d.totalBytesAcked = b.totalBytesAcked /\ d.totalBytesSent = b.totalBytesSent
      /\ d.totalBytesSentAtLastAckedPacket = b.totalBytesSentAtLastAckedPacket
      /\ d.lastAckedPacketSentTime = b.lastAckedPacketSentTime
      /\ d.lastAckedPacketAckTime = b.lastAckedPacketAckTime
      /\ d.lastSentPacket = b.lastSentPacket
      /\ d.totalBytesAckedAfterLastAckEvent = b.totalBytesAckedAfterLastAckEvent
      /\ d.recentAckPoints = b.recentAckPoints /\ d.a0Candidates = b.a0Candidates
      /\ d.connectionStateMap = b.connectionStateMap
      /\ d.endOfAppLimitedPhase = b.endOfAppLimitedPhase /\ d.isAppLimited = b.isAppLimited
  BY <1>2, Names DEF Same
<1>4. Counts(d, t)
  BY <1>1, <1>2, <1>3 DEF Good, Counts
<1>5. Remembers(d, t)
  BY <1>3 DEF Good, Remembers
<1>6. Measured(d, t)
  BY <1>3 DEF Good, Measured
<1>7. Numbered(d, c)
  BY <1>3 DEF Good, Numbered
<1>8. Good(d, t, c) /\ Keeps(b, d) /\ d.isAppLimited = b.isAppLimited
  BY <1>2, <1>3, <1>4, <1>5, <1>6, <1>7 DEF Good, Keeps
<1> QED
  BY <1>8 DEF d, more

(* The whole congestion event of the sampler.                              *)
LEMMA EventGood ==
  ASSUME NEW b, NEW acked, NEW lost, NEW t \in Nat, t > 0, NEW c, NEW newEpoch,
         NextPacket \in Nat, acked \subseteq 0..(NextPacket - 1), Good(b, t, c),
         Cardinality(lost) \in Nat
  PROVE  LoopInv(CongestionEvent(b, acked, lost, t, newEpoch), NextPacket, b, acked, t, c)
<1> DEFINE n == Cardinality(lost)
           counted == [b EXCEPT !.totalBytesLost = @ + n]
           after == Acknowledged([b |-> counted, samples |-> {}], acked, t)
           last == IF acked = {} THEN after.b ELSE onAckEventEnd(after.b, newEpoch)
           ev == CongestionEvent(b, acked, lost, t, newEpoch)
           N == NextPacket
<1>1. ev = [b |-> last, samples |-> after.samples]
  BY DEF CongestionEvent
<1> HIDE DEF n
<1>2. Good(counted, t, c) /\ Keeps(b, counted) /\ counted.isAppLimited = b.isAppLimited
  BY LossesGood DEF n
<1> HIDE DEF counted
<1>3. LoopInv(after, N, counted, acked, t, c)
  BY <1>2, AcknowledgedGood
<1> HIDE DEF after
<1>4. Good(after.b, t, c) /\ Keeps(counted, after.b)
  BY <1>3 DEF LoopInv
<1>5. Good(last, t, c) /\ Keeps(after.b, last) /\ last.isAppLimited = after.b.isAppLimited
  <2>1. acked = {} => last = after.b
    OBVIOUS
  <2>2. acked # {} => last = onAckEventEnd(after.b, newEpoch)
    OBVIOUS
  <2>3. Keeps(after.b, after.b)
    BY DEF Keeps
  <2> HIDE DEF last
  <2> QED
    BY <1>4, <2>1, <2>2, <2>3, EventEndGood
<1> HIDE DEF last, ev
<1>6. ev.b = last /\ ev.samples = after.samples
  BY <1>1
<1>7. Keeps(b, ev.b)
  BY <1>2, <1>4, <1>5, <1>6 DEF Keeps
<1>8. Ending(counted, acked) = Ending(b, acked)
  BY <1>2 DEF Keeps, Ending, AckEndsPhase
<1>9. \A z, p : SampleOf(z, p, counted) <=> SampleOf(z, p, b)
  BY <1>2 DEF Keeps, SampleOf
<1>10. ev.b.isAppLimited <=> b.isAppLimited /\ \A p \in Ending(b, acked) : ~(p < N)
  BY <1>2, <1>3, <1>5, <1>6, <1>8, Zenon DEF LoopInv
<1>11. \A z \in ev.samples : \E p \in acked : SampleOf(z, p, b)
  BY <1>3, <1>6, <1>9, Zenon DEF LoopInv
<1> QED
  BY <1>5, <1>6, <1>7, <1>10, <1>11, Zenon DEF LoopInv, ev, N

-----------------------------------------------------------------------------
(* What SamplerSetups says of the connection.                              *)
LEMMA SetupFacts ==
  ASSUME setup \in Setups
  PROVE  /\ setup.maxPacket \in Nat /\ setup.earlier \in Nat
         /\ setup.maxTime \in Nat /\ setup.maxTime > 0
         /\ setup.skips \subseteq Nat /\ setup.appLimitedFlags \subseteq BOOLEAN
  BY SamplerSetups DEF Setup

(* The next packet number is larger than every number in use.              *)
LEMMA NextPacketFacts ==
  ASSUME setup \in Setups, Good(s, now, setup), Connection
  PROVE  /\ NextPacket \in Nat /\ NextPacket > s.lastSentPacket /\ NextPacket >= setup.earlier
         /\ outstanding \subseteq 0..(NextPacket - 1)
<1> DEFINE S == {s.lastSentPacket, largestAcked, setup.earlier - 1} \cup outstanding
           n == setup.maxPacket + setup.earlier
<1>1. setup.maxPacket \in Nat /\ setup.earlier \in Nat
  BY SetupFacts
<1>2. /\ s.lastSentPacket \in -1..n /\ largestAcked \in -1..n /\ setup.earlier - 1 \in -1..n
      /\ outstanding \subseteq 0..n /\ n \in Nat
  BY <1>1 DEF Good, Numbered, Connection
<1> HIDE DEF n
<1>3. S \in SUBSET (-1..n) /\ S # {}
  <2>1. \A x \in 0..n : x \in -1..n
    BY <1>2
  <2> QED
    BY <1>2, <2>1, Zenon
<1>4. /\ s.lastSentPacket \in S /\ setup.earlier - 1 \in S /\ outstanding \subseteq S
  OBVIOUS
<1>5. NextPacket = Max(S) + 1
  BY DEF NextPacket
<1> HIDE DEF S
<1>6. Max(S) \in S /\ \A k \in S : k <= Max(S)
  BY <1>2, <1>3, LargestNumber
<1>7. Max(S) \in -1..n
  BY <1>3, <1>6
<1> HIDE DEF Max
<1>8. NextPacket \in Nat /\ \A k \in S : k < NextPacket
  <2>1. NextPacket \in Nat
    BY <1>2, <1>5, <1>7
  <2>2. \A k \in S : k \in Int /\ k <= Max(S)
    BY <1>2, <1>3, <1>6
  <2> QED
    BY <1>5, <1>7, <2>1, <2>2
<1> HIDE DEF NextPacket
<1>9. NextPacket > s.lastSentPacket /\ NextPacket >= setup.earlier
  BY <1>1, <1>2, <1>4, <1>8
<1>10. \A k \in outstanding : k \in Nat /\ k < NextPacket
  BY <1>2, <1>4, <1>8
<1>11. outstanding \subseteq 0..(NextPacket - 1)
  BY <1>8, <1>10
<1> QED
  BY <1>8, <1>9, <1>11

(* The packets in flight are finitely many.                                *)
LEMMA FinitePackets ==
  ASSUME setup \in Setups, Connection, NEW T \in SUBSET outstanding
  PROVE  Cardinality(T) \in Nat
<1> DEFINE U == 0..(setup.maxPacket + setup.earlier)
<1>1. T \in SUBSET U
  BY DEF Connection
<1>2. IsFiniteSet(U)
  <2>1. setup.maxPacket + setup.earlier \in Int /\ 0 \in Int
    BY SetupFacts
  <2> QED
    BY <2>1, FS_Interval
<1> HIDE DEF U
<1>3. IsFiniteSet(T)
  BY <1>1, <1>2, FS_Subset
<1> QED
  BY <1>3, FS_CardinalityType

(* A new sampler is good.                                                  *)
LEMMA NewGood ==
  ASSUME NEW c, c.maxPacket \in Nat, c.earlier \in Nat
  PROVE  Good(newBandwidthSampler, 1, c)
<1> DEFINE b == newBandwidthSampler
           none == [p \in {} |-> {}]
           pair == <<NoPoint, NoPoint>>
           no == <<>>
<1>1. b = [totalBytesSent |-> 0, totalBytesAcked |-> 0, totalBytesLost |-> 0,
           totalBytesSentAtLastAckedPacket |-> 0, lastAckedPacketSentTime |-> 0,
           lastAckedPacketAckTime |-> 0, lastSentPacket |-> -1,
           isAppLimited |-> FALSE, endOfAppLimitedPhase |-> -1,
           connectionStateMap |-> none,
           recentAckPoints |-> pair, a0Candidates |-> no,
           totalBytesAckedAfterLastAckEvent |-> 0]
  BY DEF newBandwidthSampler, invalidPacketNumber
<1>2. /\ b.connectionStateMap = none /\ b.recentAckPoints = pair /\ b.a0Candidates = no
      /\ b.totalBytesSent = 0 /\ b.totalBytesAcked = 0 /\ b.totalBytesLost = 0
      /\ b.totalBytesSentAtLastAckedPacket = 0 /\ b.lastAckedPacketSentTime = 0
      /\ b.lastAckedPacketAckTime = 0 /\ b.lastSentPacket = -1
      /\ b.endOfAppLimitedPhase = -1 /\ b.totalBytesAckedAfterLastAckEvent = 0
  BY <1>1
<1>3. b.isAppLimited = FALSE
  BY <1>1
<1>4. DOMAIN none = {}
  OBVIOUS
<1>5. no \in Seq(Points) /\ Len(no) = 0
  OBVIOUS
<1>6. Struct(b)
  <2> HIDE DEF none, pair, no
  <2> QED
    BY <1>1 DEF Struct, Fields
<1>7. /\ pair[1] = NoPoint /\ pair[2] = NoPoint
      /\ NoPoint \in Points /\ NoPoint = AckPoint(0, 0)
      /\ NoPoint.totalBytesAcked = 0 /\ NoPoint.ackTime = 0
  BY PointPair, PointFacts DEF NoPoint
<1> HIDE DEF b, none, pair, no
<1>8. Counts(b, 1)
  BY <1>2 DEF Counts
<1>9. Remembers(b, 1)
  BY <1>2, <1>4 DEF Remembers
<1>10. Measured(b, 1)
  <2>1. Before(NoPoint, NoPoint) /\ Before(NoPoint, AckPoint(1, 0))
    BY <1>7, PointFacts DEF Before
  <2>2. Ordered(no, LessRecentPoint(pair))
    BY <1>5 DEF Ordered
  <2> QED
    BY <1>2, <1>7, <2>1, <2>2 DEF Measured
<1>11. Numbered(b, c)
  <2>1. b.isAppLimited \in BOOLEAN
    BY <1>3, Zenon
  <2> QED
    BY <1>2, <1>4, <2>1 DEF Numbered
<1> QED
  BY <1>6, <1>8, <1>9, <1>10, <1>11 DEF Good, b

(* Time passes: what was of the past stays so.                             *)
LEMMA LaterGood ==
  ASSUME NEW b, NEW c, NEW t \in Nat, Good(b, t, c)
  PROVE  Good(b, t + 1, c)
<1>1. Counts(b, t + 1)
  BY DEF Good, Counts
<1>2. Remembers(b, t + 1)
  BY RemembersKept DEF Good, Counts
<1>3. Measured(b, t + 1)
  <2> DEFINE r == b.recentAckPoints
             n == b.totalBytesAcked
  <2>1. r[2] \in Points /\ Before(r[2], AckPoint(t, n)) /\ n \in Nat
    BY DEF Good, Measured, Counts
  <2>2. Before(r[2], AckPoint(t + 1, n))
    BY <2>1, PointFacts DEF Before, Points
  <2> QED
    BY <2>2 DEF Good, Measured
<1> QED
  BY <1>1, <1>2, <1>3 DEF Good

-----------------------------------------------------------------------------
(* Steps without samples.                                                  *)
LEMMA NoSamples ==
  ASSUME samples = {}
  PROVE  SamplesPositive /\ AppLimitedRule
  BY DEF SamplesPositive, AppLimitedRule

(* The invariant holds when the controller is installed.                   *)
LEMMA InitSampler ==
  ASSUME Init
  PROVE  SamplerIInv
<1>1. /\ setup \in Setups /\ s = newBandwidthSampler /\ outstanding = 0..(setup.earlier - 1)
      /\ largestAcked = -1 /\ now = 1 /\ samples = {}
      /\ phase = [limited |-> FALSE, sent |-> {}] /\ limitedSent = {}
  BY DEF Init, invalidPacketNumber
<1>2. /\ setup.maxPacket \in Nat /\ setup.earlier \in Nat
      /\ setup.maxTime \in Nat /\ setup.maxTime > 0
  BY <1>1, SetupFacts
<1>3. Good(s, now, setup)
  BY <1>1, <1>2, NewGood
<1>4. DOMAIN s.connectionStateMap = {} /\ s.lastSentPacket = -1
  BY <1>1 DEF newBandwidthSampler, invalidPacketNumber
<1>5. s.isAppLimited = FALSE
  BY <1>1 DEF newBandwidthSampler
<1>6. Connection
  BY <1>1, <1>2 DEF Connection, NothingForgotten
<1>7. PhaseKnown
  <2>1. phase.limited = FALSE
    BY <1>1
  <2>2. phase.sent = {}
    BY <1>1
  <2>3. phase.limited \in BOOLEAN /\ (phase.limited <=> s.isAppLimited)
    BY <1>5, <2>1, Zenon
  <2>4. phase = [limited |-> phase.limited, sent |-> phase.sent]
    BY <1>1, <2>1, <2>2, Zenon
  <2> QED
    BY <1>4, <2>2, <2>3, <2>4, Zenon DEF PhaseKnown
<1>8. MarksKnown
  BY <1>1, <1>4, Zenon DEF MarksKnown
<1>9. SamplesPositive /\ AppLimitedRule
  BY <1>1, NoSamples
<1>10. now \in 1..setup.maxTime
  BY <1>1, <1>2
<1> QED
  BY <1>1, <1>3, <1>6, <1>7, <1>8, <1>9, <1>10 DEF SamplerIInv

(* A retransmittable packet is sent, perhaps after a skipped number.       *)
LEMMA SentSampler ==
  ASSUME SamplerIInv, NEW k \in setup.skips, OnPacketSent(NextPacket + k), setup' = setup
  PROVE  SamplerIInv'
<1> DEFINE p == NextPacket + k
           n == Cardinality(outstanding)
           d == Sent(s, p, now, n)
<1>1. /\ p <= setup.maxPacket /\ s' = d /\ outstanding' = outstanding \cup {p}
      /\ phase' = [phase EXCEPT !.sent = @ \cup {p}]
      /\ limitedSent' = IF phase.limited THEN limitedSent \cup {p} ELSE limitedSent
      /\ samples' = {} /\ largestAcked' = largestAcked /\ now' = now
  BY DEF OnPacketSent
<1>2. /\ setup \in Setups /\ now \in 1..setup.maxTime
      /\ Good(s, now, setup) /\ Connection /\ PhaseKnown /\ MarksKnown
  BY DEF SamplerIInv
<1>3. /\ setup.maxPacket \in Nat /\ setup.earlier \in Nat /\ setup.maxTime \in Nat /\ k \in Nat
      /\ now \in Nat /\ now > 0
  BY <1>2, SetupFacts
<1>4. /\ NextPacket \in Nat /\ NextPacket > s.lastSentPacket /\ NextPacket >= setup.earlier
      /\ outstanding \subseteq 0..(NextPacket - 1) /\ s.lastSentPacket \in -1..setup.maxPacket
  BY <1>2, NextPacketFacts DEF Good, Numbered
<1>5. p \in Nat /\ p > s.lastSentPacket /\ p >= setup.earlier /\ p \notin outstanding
  <2> HIDE DEF NextPacket
  <2> QED
    BY <1>3, <1>4
<1>6. n \in Nat
  BY <1>2, FinitePackets
<1> HIDE DEF p, n
<1>7. /\ Good(d, now, setup)
      /\ d.lastSentPacket = p /\ d.endOfAppLimitedPhase = s.endOfAppLimitedPhase
      /\ d.isAppLimited = s.isAppLimited
      /\ DOMAIN d.connectionStateMap = DOMAIN s.connectionStateMap \cup {p}
      /\ d.connectionStateMap[p].isAppLimited = s.isAppLimited
      /\ \A q \in DOMAIN s.connectionStateMap :
           d.connectionStateMap[q] = s.connectionStateMap[q]
  BY <1>1, <1>2, <1>3, <1>5, <1>6, SentGood
<1> HIDE DEF d
<1>8. Connection'
  <2>1. outstanding' \subseteq 0..(setup.maxPacket + setup.earlier)
    BY <1>1, <1>2, <1>3, <1>5 DEF Connection
  <2>2. NothingForgotten'
    BY <1>1, <1>2, <1>7 DEF Connection, NothingForgotten
  <2> QED
    BY <1>1, <1>2, <2>1, <2>2 DEF Connection
<1>9. phase' = [limited |-> phase.limited, sent |-> phase.sent \cup {p}]
  BY <1>1, <1>2 DEF PhaseKnown
<1>10. phase'.limited = phase.limited /\ phase'.sent = phase.sent \cup {p}
  BY <1>9
<1>11. p \notin DOMAIN s.connectionStateMap /\ p > s.endOfAppLimitedPhase
  BY <1>2, <1>5 DEF Good, Numbered
<1>12. PhaseKnown'
  <2>1. phase'.sent \subseteq setup.earlier..p
    BY <1>2, <1>3, <1>4, <1>5, <1>10 DEF PhaseKnown
  <2>2. \A q \in DOMAIN d.connectionStateMap : q \in phase'.sent <=> q > d.endOfAppLimitedPhase
    <3>1. \A q \in DOMAIN s.connectionStateMap : q \in phase.sent <=> q > s.endOfAppLimitedPhase
      BY <1>2 DEF PhaseKnown
    <3>2. \A q \in DOMAIN s.connectionStateMap : q # p
      BY <1>11
    <3> QED
      BY <1>7, <1>10, <1>11, <3>1, <3>2, Zenon
  <2>3. phase'.limited \in BOOLEAN /\ (phase'.limited <=> d.isAppLimited)
    BY <1>2, <1>7, <1>10, Zenon DEF PhaseKnown
  <2>4. phase' = [limited |-> phase'.limited, sent |-> phase'.sent]
    BY <1>9, <1>10
  <2> QED
    BY <1>1, <1>7, <2>1, <2>2, <2>3, <2>4, Zenon DEF PhaseKnown
<1>13. MarksKnown'
  <2>1. limitedSent \subseteq setup.earlier..s.lastSentPacket
    BY <1>2 DEF MarksKnown
  <2>2. limitedSent' \subseteq setup.earlier..p /\ p \notin limitedSent
    BY <1>1, <1>3, <1>4, <1>5, <2>1
  <2>3. p \in limitedSent' <=> s.isAppLimited
    BY <1>1, <1>2, <2>2, Zenon DEF PhaseKnown
  <2>4. \A q : q # p => (q \in limitedSent' <=> q \in limitedSent)
    BY <1>1, Zenon
  <2>5. \A q \in DOMAIN s.connectionStateMap \cap outstanding :
          s.connectionStateMap[q].isAppLimited <=> q \in limitedSent
    BY <1>2 DEF MarksKnown
  <2>6. \A q \in DOMAIN d.connectionStateMap \cap outstanding' :
          d.connectionStateMap[q].isAppLimited <=> q \in limitedSent'
    <3> TAKE q \in DOMAIN d.connectionStateMap \cap outstanding'
    <3>1. CASE q = p
      BY <1>7, <2>3, <3>1, Zenon
    <3>2. CASE q # p
      <4>1. q \in DOMAIN s.connectionStateMap \cap outstanding
        BY <1>1, <1>7, <3>2, Zenon
      <4>2. d.connectionStateMap[q] = s.connectionStateMap[q]
        BY <1>7, <4>1, Zenon
      <4> QED
        BY <2>4, <2>5, <3>2, <4>1, <4>2, Zenon
    <3> QED
      BY <3>1, <3>2, Zenon
  <2> QED
    BY <1>1, <1>7, <2>2, <2>6, Zenon DEF MarksKnown
<1>14. SamplesPositive' /\ AppLimitedRule'
  BY <1>1 DEF SamplesPositive, AppLimitedRule
<1> QED
  BY <1>1, <1>2, <1>7, <1>8, <1>12, <1>13, <1>14, Zenon DEF SamplerIInv

(* An ack-only packet only moves the last number sent.                     *)
LEMMA AckOnlyGood ==
  ASSUME NEW b, NEW t, NEW c, c.maxPacket \in Nat, c.earlier \in Nat, Good(b, t, c),
         NEW p \in Nat, p > b.lastSentPacket, p <= c.maxPacket
  PROVE  LET d == [b EXCEPT !.lastSentPacket = p]
         IN  /\ Good(d, t, c) /\ d.lastSentPacket = p
             /\ d.connectionStateMap = b.connectionStateMap
             /\ d.endOfAppLimitedPhase = b.endOfAppLimitedPhase
             /\ d.isAppLimited = b.isAppLimited
<1> DEFINE d == [b EXCEPT !.lastSentPacket = p]
<1>1. Struct(d) /\ Same(b, d, {"lastSentPacket"}) /\ d.lastSentPacket = p
  BY Names DEF Struct, Same, Good
<1> HIDE DEF d
<1>2. /\ d.totalBytesAcked = b.totalBytesAcked /\ d.totalBytesSent = b.totalBytesSent
      /\ d.totalBytesSentAtLastAckedPacket = b.totalBytesSentAtLastAckedPacket
      /\ d.lastAckedPacketSentTime = b.lastAckedPacketSentTime
      /\ d.lastAckedPacketAckTime = b.lastAckedPacketAckTime
      /\ d.totalBytesLost = b.totalBytesLost
      /\ d.totalBytesAckedAfterLastAckEvent = b.totalBytesAckedAfterLastAckEvent
      /\ d.recentAckPoints = b.recentAckPoints /\ d.a0Candidates = b.a0Candidates
      /\ d.connectionStateMap = b.connectionStateMap
      /\ d.endOfAppLimitedPhase = b.endOfAppLimitedPhase /\ d.isAppLimited = b.isAppLimited
  BY <1>1, Names DEF Same
<1>3. Counts(d, t)
  BY <1>2 DEF Good, Counts
<1>4. Remembers(d, t)
  BY <1>2 DEF Good, Remembers
<1>5. Measured(d, t)
  BY <1>2 DEF Good, Measured
<1>6. Numbered(d, c)
  BY <1>1, <1>2 DEF Good, Numbered
<1>7. Good(d, t, c)
  BY <1>1, <1>3, <1>4, <1>5, <1>6 DEF Good
<1> QED
  BY <1>1, <1>2, <1>7 DEF d

(* An ack-only packet is sent.                                             *)
LEMMA AckOnlySampler ==
  ASSUME SamplerIInv, OnAckOnlySent(NextPacket), setup' = setup
  PROVE  SamplerIInv'
<1> DEFINE p == NextPacket
           d == [s EXCEPT !.lastSentPacket = p]
<1>1. /\ p <= setup.maxPacket /\ s' = d
      /\ phase' = [phase EXCEPT !.sent = @ \cup {p}]
      /\ samples' = {} /\ largestAcked' = largestAcked /\ now' = now
      /\ outstanding' = outstanding /\ limitedSent' = limitedSent
  BY DEF OnAckOnlySent
<1>2. /\ setup \in Setups /\ now \in 1..setup.maxTime
      /\ Good(s, now, setup) /\ Connection /\ PhaseKnown /\ MarksKnown
  BY DEF SamplerIInv
<1>3. setup.maxPacket \in Nat /\ setup.earlier \in Nat
  BY <1>2, SetupFacts
<1>4. /\ p \in Nat /\ p > s.lastSentPacket /\ p >= setup.earlier
      /\ s.lastSentPacket \in -1..setup.maxPacket
  BY <1>2, NextPacketFacts DEF Good, Numbered
<1> HIDE DEF p
<1>5. /\ Good(d, now, setup) /\ d.lastSentPacket = p
      /\ d.connectionStateMap = s.connectionStateMap
      /\ d.endOfAppLimitedPhase = s.endOfAppLimitedPhase
      /\ d.isAppLimited = s.isAppLimited
  BY <1>1, <1>2, <1>3, <1>4, AckOnlyGood
<1> HIDE DEF d
<1>6. phase' = [limited |-> phase.limited, sent |-> phase.sent \cup {p}]
  BY <1>1, <1>2 DEF PhaseKnown
<1>7. phase'.limited = phase.limited /\ phase'.sent = phase.sent \cup {p}
  BY <1>6
<1>8. p \notin DOMAIN s.connectionStateMap
  BY <1>2, <1>4 DEF Good, Numbered
<1>9. Connection'
  BY <1>1, <1>2, <1>5 DEF Connection, NothingForgotten
<1>10. PhaseKnown'
  <2>1. phase'.sent \subseteq setup.earlier..p
    BY <1>2, <1>3, <1>4, <1>7 DEF PhaseKnown
  <2>2. \A q \in DOMAIN d.connectionStateMap : q \in phase'.sent <=> q > d.endOfAppLimitedPhase
    <3>1. \A q \in DOMAIN s.connectionStateMap : q \in phase.sent <=> q > s.endOfAppLimitedPhase
      BY <1>2 DEF PhaseKnown
    <3>2. \A q \in DOMAIN s.connectionStateMap : q # p
      BY <1>8
    <3> QED
      BY <1>5, <1>7, <3>1, <3>2, Zenon
  <2>3. phase'.limited \in BOOLEAN /\ (phase'.limited <=> d.isAppLimited)
    BY <1>2, <1>5, <1>7, Zenon DEF PhaseKnown
  <2>4. phase' = [limited |-> phase'.limited, sent |-> phase'.sent]
    BY <1>6, <1>7
  <2> QED
    BY <1>1, <1>5, <2>1, <2>2, <2>3, <2>4, Zenon DEF PhaseKnown
<1>11. MarksKnown'
  <2>1. limitedSent \subseteq setup.earlier..s.lastSentPacket
    BY <1>2 DEF MarksKnown
  <2>2. limitedSent' \subseteq setup.earlier..p
    BY <1>1, <1>3, <1>4, <2>1
  <2> QED
    BY <1>1, <1>2, <1>5, <2>2, Zenon DEF MarksKnown
<1>12. SamplesPositive' /\ AppLimitedRule'
  BY <1>1 DEF SamplesPositive, AppLimitedRule
<1> QED
  BY <1>1, <1>2, <1>5, <1>9, <1>10, <1>11, <1>12, Zenon DEF SamplerIInv

(* The clock moves.                                                        *)
LEMMA TickSampler ==
  ASSUME SamplerIInv, Tick, setup' = setup
  PROVE  SamplerIInv'
<1>1. /\ now < setup.maxTime /\ now' = now + 1 /\ samples' = {}
      /\ s' = s /\ outstanding' = outstanding /\ largestAcked' = largestAcked
      /\ phase' = phase /\ limitedSent' = limitedSent
  BY DEF Tick
<1>2. /\ setup \in Setups /\ now \in 1..setup.maxTime
      /\ Good(s, now, setup) /\ Connection /\ PhaseKnown /\ MarksKnown
  BY DEF SamplerIInv
<1>3. setup.maxTime \in Nat /\ now \in Nat
  BY <1>2, SetupFacts
<1>4. Good(s, now + 1, setup) /\ now + 1 \in 1..setup.maxTime
  BY <1>1, <1>2, <1>3, LaterGood
<1>5. Connection'
  BY <1>1, <1>2 DEF Connection, NothingForgotten
<1>6. PhaseKnown'
  BY <1>1, <1>2 DEF PhaseKnown
<1>7. MarksKnown'
  BY <1>1, <1>2 DEF MarksKnown
<1>8. SamplesPositive' /\ AppLimitedRule'
  BY <1>1 DEF SamplesPositive, AppLimitedRule
<1> QED
  BY <1>1, <1>2, <1>4, <1>5, <1>6, <1>7, <1>8, Zenon DEF SamplerIInv

-----------------------------------------------------------------------------
(* What stays in flight is not obsolete: with acknowledgements a survivor  *)
(* is at most two behind the largest, without them it is newer than all    *)
(* that was lost.                                                          *)
LEMMA Survivors ==
  ASSUME setup \in Setups, Connection, NEW acked \in SUBSET outstanding,
         NEW lost \in Losses(acked), acked \cup lost # {}
  PROVE  /\ lost \subseteq outstanding \ acked
         /\ \A q \in outstanding \ (acked \cup lost) : q >= leastUnacked(acked, lost)
         /\ Max(acked \cup {largestAcked}) \in -1..(setup.maxPacket + setup.earlier)
<1> DEFINE n == setup.maxPacket + setup.earlier
           left == outstanding \ acked
           all == acked \cup {largestAcked}
           largest == Max(all)
<1>1. n \in Nat
  BY SetupFacts
<1>2. outstanding \subseteq 0..n /\ largestAcked \in -1..n
  BY DEF Connection
<1> HIDE DEF n
<1>3. \A x \in 0..n : x \in -1..n
  BY <1>1
<1>4. all \in SUBSET (-1..n) /\ all # {} /\ acked \in SUBSET (-1..n)
  BY <1>2, <1>3, Zenon
<1>5. /\ lost \subseteq left
      /\ \A p \in left : p + 3 <= largest => p \in lost
      /\ \A p \in lost, q \in left : q < p => q \in lost
  BY Zenon DEF Losses, packetThreshold
<1>6. acked \subseteq all
  OBVIOUS
<1>7. lost \in SUBSET (-1..n)
  BY <1>2, <1>3, <1>5, Zenon
<1> HIDE DEF all, largest
<1>8. largest \in all /\ \A k \in all : k <= largest
  BY <1>1, <1>4, LargestNumber DEF largest
<1>9. largest \in -1..n
  BY <1>4, <1>8
<1>10. ASSUME NEW q \in outstanding \ (acked \cup lost)
       PROVE  q >= leastUnacked(acked, lost)
  <2>1. q \in left /\ q \notin lost /\ q \in 0..n
    BY <1>2
  <2>2. CASE acked # {}
    <3> DEFINE m == Max(acked)
    <3>1. m \in acked
      BY <1>1, <1>4, <2>2, LargestNumber
    <3>2. leastUnacked(acked, lost) = m - 2
      BY <2>2 DEF leastUnacked
    <3> HIDE DEF m
    <3>3. m <= largest /\ m \in -1..n
      BY <1>4, <1>6, <1>8, <3>1
    <3>4. ~(q + 3 <= largest)
      BY <1>5, <2>1
    <3>5. q >= m - 2
      BY <1>1, <1>9, <2>1, <3>3, <3>4
    <3> QED
      BY <3>2, <3>5
  <2>3. CASE acked = {}
    <3> DEFINE m == Max(lost)
    <3>1. m \in lost
      BY <1>1, <1>7, <2>3, LargestNumber
    <3>2. leastUnacked(acked, lost) = m + 1
      BY <2>3 DEF leastUnacked
    <3> HIDE DEF m
    <3>3. m \in -1..n /\ ~(q < m) /\ q # m
      BY <1>5, <1>7, <2>1, <3>1
    <3>4. q >= m + 1
      BY <1>1, <2>1, <3>3
    <3> QED
      BY <3>2, <3>4
  <2> QED
    BY <2>2, <2>3
<1>11. lost \subseteq outstanding \ acked
  BY <1>5
<1> QED
  BY <1>9, <1>10, <1>11 DEF largest, all, n

(* Acknowledgements and losses are reported.                               *)
LEMMA CongestionSampler ==
  ASSUME SamplerIInv, setup' = setup,
         NEW acked \in SUBSET outstanding, NEW lost \in Losses(acked), acked \cup lost # {},
         NEW newEpoch \in BOOLEAN, NEW before \in setup.appLimitedFlags,
         NEW after \in setup.appLimitedFlags,
         OnCongestionEvent(acked, lost, newEpoch, before, after)
  PROVE  SamplerIInv'
<1> DEFINE b1 == IF before THEN Limited(s) ELSE s
           ev == CongestionEvent(b1, acked, lost, now, newEpoch)
           b2 == IF after THEN Limited(ev.b) ELSE ev.b
           ended == (IF before THEN {} ELSE phase.sent) \cap acked # {}
           least == leastUnacked(acked, lost)
           d == RemoveObsoletePackets(b2, least)
           M == s.connectionStateMap
<1>1. /\ s' = d /\ samples' = ev.samples
      /\ outstanding' = outstanding \ (acked \cup lost)
      /\ largestAcked' = Max(acked \cup {largestAcked})
      /\ phase' = [limited |-> after \/ ((before \/ phase.limited) /\ ~ended),
                   sent |-> IF before \/ after THEN {} ELSE phase.sent]
      /\ limitedSent' = limitedSent \cap (outstanding' \cup acked)
      /\ now' = now
  BY DEF OnCongestionEvent
<1>2. /\ setup \in Setups /\ now \in 1..setup.maxTime
      /\ Good(s, now, setup) /\ Connection /\ PhaseKnown /\ MarksKnown
  BY DEF SamplerIInv
<1>3. /\ setup.maxPacket \in Nat /\ setup.earlier \in Nat /\ setup.maxTime \in Nat
      /\ now \in Nat /\ now > 0 /\ before \in BOOLEAN /\ after \in BOOLEAN
  BY <1>2, SetupFacts
<1>4. /\ NextPacket \in Nat /\ outstanding \subseteq 0..(NextPacket - 1)
  BY <1>2, NextPacketFacts
<1>5. /\ lost \subseteq outstanding \ acked
      /\ \A q \in outstanding \ (acked \cup lost) : q >= least
      /\ largestAcked' \in -1..(setup.maxPacket + setup.earlier)
  BY <1>1, <1>2, Survivors
<1>6. Cardinality(lost) \in Nat
  BY <1>2, <1>5, FinitePackets
<1>7. /\ Good(Limited(s), now, setup) /\ Limited(s).isAppLimited = TRUE
      /\ Limited(s).endOfAppLimitedPhase = s.lastSentPacket
      /\ Limited(s).lastSentPacket = s.lastSentPacket
      /\ Limited(s).connectionStateMap = M
  BY <1>2, <1>3, LimitedGood
<1>8. /\ Good(b1, now, setup) /\ b1.lastSentPacket = s.lastSentPacket
      /\ b1.connectionStateMap = M
      /\ b1.endOfAppLimitedPhase = IF before THEN s.lastSentPacket ELSE s.endOfAppLimitedPhase
      /\ b1.isAppLimited <=> before \/ s.isAppLimited
  BY <1>2, <1>3, <1>7, Zenon
<1> HIDE DEF b1
<1>9. LoopInv(ev, NextPacket, b1, acked, now, setup)
  BY <1>3, <1>4, <1>6, <1>8, EventGood
<1> HIDE DEF ev
<1>10. /\ Good(ev.b, now, setup) /\ Keeps(b1, ev.b)
       /\ ev.b.isAppLimited <=> b1.isAppLimited /\ \A p \in Ending(b1, acked) : ~(p < NextPacket)
       /\ \A z \in ev.samples : \E p \in acked : SampleOf(z, p, b1)
  BY <1>9, Zenon DEF LoopInv
<1>11. Ending(b1, acked) # {} <=> ended
  <2>1. DOMAIN M \subseteq setup.earlier..s.lastSentPacket /\ s.lastSentPacket \in Int
        /\ s.endOfAppLimitedPhase \in Int
    BY <1>2, <1>3 DEF Good, Numbered
  <2>2. \A p \in Ending(b1, acked) :
          /\ p \in acked /\ p \in DOMAIN M
          /\ b1.endOfAppLimitedPhase = -1 \/ p > b1.endOfAppLimitedPhase
    BY <1>8 DEF Ending, AckEndsPhase, invalidPacketNumber
  <2>3. \A p \in DOMAIN M : p \in phase.sent <=> p > s.endOfAppLimitedPhase
    BY <1>2 DEF PhaseKnown
  <2>4. CASE before
    <3>1. b1.endOfAppLimitedPhase = s.lastSentPacket
      BY <1>8, <2>4
    <3>2. \A p \in DOMAIN M : p \in Int /\ ~(p > s.lastSentPacket) /\ s.lastSentPacket # -1
      BY <1>3, <2>1
    <3>3. Ending(b1, acked) = {}
      BY <2>2, <3>1, <3>2, Zenon
    <3>4. ~ended
      BY <2>4, Zenon
    <3> QED
      BY <3>3, <3>4
  <2>5. CASE ~before
    <3>1. b1.endOfAppLimitedPhase = s.endOfAppLimitedPhase
      BY <1>8, <2>5
    <3>2. ended <=> phase.sent \cap acked # {}
      BY <2>5, Zenon
    <3>3. \A p \in DOMAIN M : p \in Int /\ p > -1
      BY <1>3, <2>1
    <3>4. \A p \in Ending(b1, acked) : p \in phase.sent \cap acked
      <4> TAKE p \in Ending(b1, acked)
      <4>1. p \in acked /\ p \in DOMAIN M
        BY <2>2
      <4>2. s.endOfAppLimitedPhase = -1 \/ p > s.endOfAppLimitedPhase
        BY <2>2, <3>1
      <4>3. p > s.endOfAppLimitedPhase
        BY <3>3, <4>1, <4>2
      <4> QED
        BY <2>3, <4>1, <4>3, Zenon
    <3>5. \A p \in phase.sent \cap acked : p \in Ending(b1, acked)
      <4> TAKE p \in phase.sent \cap acked
      <4>1. p \in setup.earlier..s.lastSentPacket
        BY <1>2 DEF PhaseKnown
      <4>2. p \in outstanding /\ p \notin 0..(setup.earlier - 1)
        BY <1>3, <2>1, <4>1
      <4>3. p \in DOMAIN M
        BY <1>2, <4>2, Zenon DEF Connection, NothingForgotten
      <4>4. p > b1.endOfAppLimitedPhase
        BY <2>3, <3>1, <4>3
      <4> QED
        BY <1>8, <4>3, <4>4, Zenon DEF Ending, AckEndsPhase
    <3> QED
      BY <3>2, <3>4, <3>5, Zenon
  <2> QED
    BY <1>3, <2>4, <2>5, Zenon
<1>12. ev.b.isAppLimited <=> (before \/ phase.limited) /\ ~ended
  <2>1. \A p \in Ending(b1, acked) : p < NextPacket
    <3>1. Ending(b1, acked) \subseteq acked
      BY Zenon DEF Ending
    <3>2. \A p \in acked : p < NextPacket
      <4> HIDE DEF NextPacket
      <4> QED
        BY <1>4
    <3> QED
      BY <3>1, <3>2, Zenon
  <2>2. phase.limited <=> s.isAppLimited
    BY <1>2, Zenon DEF PhaseKnown
  <2> HIDE DEF ended
  <2> QED
    BY <1>8, <1>10, <1>11, <2>1, <2>2, Zenon
<1> HIDE DEF ended
<1>13. /\ Good(Limited(ev.b), now, setup) /\ Limited(ev.b).isAppLimited = TRUE
       /\ Limited(ev.b).endOfAppLimitedPhase = ev.b.lastSentPacket
       /\ Limited(ev.b).lastSentPacket = ev.b.lastSentPacket
       /\ Limited(ev.b).connectionStateMap = ev.b.connectionStateMap
  BY <1>3, <1>10, LimitedGood
<1>14. /\ ev.b.connectionStateMap = M /\ ev.b.lastSentPacket = s.lastSentPacket
       /\ ev.b.endOfAppLimitedPhase = b1.endOfAppLimitedPhase
  BY <1>8, <1>10 DEF Keeps
<1>15. /\ Good(b2, now, setup) /\ b2.lastSentPacket = s.lastSentPacket
       /\ b2.connectionStateMap = M
       /\ b2.endOfAppLimitedPhase =
            IF before \/ after THEN s.lastSentPacket ELSE s.endOfAppLimitedPhase
       /\ b2.isAppLimited <=> after \/ ((before \/ phase.limited) /\ ~ended)
  <2>1. CASE after
    <3>1. b2 = Limited(ev.b)
      BY <2>1
    <3> HIDE DEF b2
    <3> QED
      BY <1>13, <1>14, <2>1, <3>1, Zenon
  <2>2. CASE ~after
    <3>1. b2 = ev.b
      BY <2>2
    <3> HIDE DEF b2
    <3> QED
      BY <1>8, <1>10, <1>12, <1>14, <2>2, <3>1, Zenon
  <2> QED
    BY <2>1, <2>2
<1> HIDE DEF b2, least
<1>16. /\ Good(d, now, setup) /\ d.isAppLimited = b2.isAppLimited
       /\ d.endOfAppLimitedPhase = b2.endOfAppLimitedPhase
       /\ d.lastSentPacket = b2.lastSentPacket
       /\ DOMAIN d.connectionStateMap = {q \in DOMAIN M : q >= least}
       /\ \A q \in DOMAIN d.connectionStateMap : d.connectionStateMap[q] = M[q]
  BY <1>15, RemovedGood
<1> HIDE DEF d
<1>17. Connection'
  <2>1. NothingForgotten'
    <3>1. \A q \in outstanding' \ 0..(setup.earlier - 1) : q \in DOMAIN M /\ q >= least
      BY <1>1, <1>2, <1>5, Zenon DEF Connection, NothingForgotten
    <3> QED
      BY <1>1, <1>16, <3>1 DEF NothingForgotten
  <2>2. outstanding' \subseteq 0..(setup.maxPacket + setup.earlier)
    BY <1>1, <1>2, Zenon DEF Connection
  <2> QED
    BY <1>5, <2>1, <2>2 DEF Connection
<1>18. PhaseKnown'
  <2> DEFINE lim == after \/ ((before \/ phase.limited) /\ ~ended)
             snt == IF before \/ after THEN {} ELSE phase.sent
  <2>1. phase' = [limited |-> lim, sent |-> snt]
    BY <1>1, Zenon
  <2>2. lim \in BOOLEAN /\ (lim <=> d.isAppLimited)
    BY <1>15, <1>16, Zenon
  <2>3. snt \subseteq setup.earlier..s.lastSentPacket
    BY <1>2 DEF PhaseKnown
  <2>4. \A q \in DOMAIN d.connectionStateMap : q \in snt <=> q > d.endOfAppLimitedPhase
    <3>1. \A q \in DOMAIN d.connectionStateMap : q \in DOMAIN M
      BY <1>16
    <3>2. \A q \in DOMAIN M : ~(q > s.lastSentPacket)
      BY <1>2, <1>3 DEF Good, Numbered
    <3>3. \A q \in DOMAIN M : q \in phase.sent <=> q > s.endOfAppLimitedPhase
      BY <1>2 DEF PhaseKnown
    <3>4. CASE before \/ after
      <4>1. snt = {} /\ d.endOfAppLimitedPhase = s.lastSentPacket
        BY <1>15, <1>16, <3>4, Zenon
      <4> QED
        BY <3>1, <3>2, <4>1, Zenon
    <3>5. CASE ~(before \/ after)
      <4>1. snt = phase.sent /\ d.endOfAppLimitedPhase = s.endOfAppLimitedPhase
        BY <1>15, <1>16, <3>5, Zenon
      <4> QED
        BY <3>1, <3>3, <4>1, Zenon
    <3> QED
      BY <3>4, <3>5, Zenon
  <2> HIDE DEF lim, snt
  <2>5. phase'.limited = lim /\ phase'.sent = snt
    BY <2>1
  <2>6. d.lastSentPacket = s.lastSentPacket
    BY <1>15, <1>16
  <2> QED
    BY <1>1, <2>1, <2>2, <2>3, <2>4, <2>5, <2>6, Zenon DEF PhaseKnown
<1>19. MarksKnown'
  <2>1. /\ limitedSent \subseteq setup.earlier..s.lastSentPacket
        /\ \A q \in DOMAIN M \cap outstanding : M[q].isAppLimited <=> q \in limitedSent
    BY <1>2 DEF MarksKnown
  <2>2. limitedSent' \subseteq setup.earlier..d.lastSentPacket
    BY <1>1, <1>15, <1>16, <2>1, Zenon
  <2>3. \A q \in DOMAIN d.connectionStateMap \cap outstanding' :
          d.connectionStateMap[q].isAppLimited <=> q \in limitedSent'
    <3> TAKE q \in DOMAIN d.connectionStateMap \cap outstanding'
    <3>1. q \in DOMAIN M \cap outstanding /\ d.connectionStateMap[q] = M[q]
      BY <1>1, <1>16, Zenon
    <3>2. q \in limitedSent' <=> q \in limitedSent
      BY <1>1, Zenon
    <3> QED
      BY <2>1, <3>1, <3>2, Zenon
  <2> QED
    BY <1>1, <2>2, <2>3, Zenon DEF MarksKnown
<1>20. SamplesPositive'
  <2>1. \A z \in samples' : Positive(z)
    BY <1>1, <1>10, Zenon DEF SampleOf
  <2> QED
    BY <2>1, Zenon DEF SamplesPositive, Positive
<1>21. AppLimitedRule'
  <2> SUFFICES ASSUME NEW z \in samples'
               PROVE  z.isAppLimited <=> z.packet \in limitedSent'
    BY Zenon DEF AppLimitedRule
  <2>1. PICK p \in acked : SampleOf(z, p, b1)
    BY <1>1, <1>10, Zenon
  <2>2. z.packet = p /\ p \in DOMAIN M /\ z.isAppLimited = M[p].isAppLimited
    BY <1>8, <2>1, Zenon DEF SampleOf
  <2>3. M[p].isAppLimited <=> p \in limitedSent
    BY <1>2, <2>2, Zenon DEF MarksKnown
  <2>4. p \in limitedSent' <=> p \in limitedSent
    BY <1>1, Zenon
  <2> QED
    BY <2>2, <2>3, <2>4, Zenon
<1> QED
  BY <1>1, <1>2, <1>16, <1>17, <1>18, <1>19, <1>20, <1>21, Zenon DEF SamplerIInv

-----------------------------------------------------------------------------
(* The invariant of the bandwidth sampler is inductive.                    *)
THEOREM SamplerInvariance == Spec => []SamplerIInv
<1>1. Init => SamplerIInv
  BY InitSampler
<1>2. SamplerIInv /\ [Next]_vars => SamplerIInv'
  <2> SUFFICES ASSUME SamplerIInv, [Next]_vars PROVE SamplerIInv'
    OBVIOUS
  <2>1. CASE UNCHANGED vars
    <3>1. /\ setup' = setup /\ s' = s /\ outstanding' = outstanding
          /\ largestAcked' = largestAcked /\ now' = now /\ samples' = samples
          /\ phase' = phase /\ limitedSent' = limitedSent
      BY <2>1 DEF vars
    <3> QED
      BY <3>1 DEF SamplerIInv, Connection, NothingForgotten, PhaseKnown, MarksKnown,
                  SamplesPositive, AppLimitedRule
  <2>2. CASE Next
    <3>1. setup' = setup
      BY <2>2 DEF Next
    <3>2. CASE \E k \in setup.skips : OnPacketSent(NextPacket + k)
      BY <3>1, <3>2, SentSampler
    <3>3. CASE OnAckOnlySent(NextPacket)
      BY <3>1, <3>3, AckOnlySampler
    <3>4. CASE \E acked \in SUBSET outstanding : \E lost \in Losses(acked) :
                 /\ acked \cup lost # {}
                 /\ \E newEpoch \in BOOLEAN, before, after \in setup.appLimitedFlags :
                      OnCongestionEvent(acked, lost, newEpoch, before, after)
      <4>1. PICK acked \in SUBSET outstanding : \E lost \in Losses(acked) :
                 /\ acked \cup lost # {}
                 /\ \E newEpoch \in BOOLEAN, before, after \in setup.appLimitedFlags :
                      OnCongestionEvent(acked, lost, newEpoch, before, after)
        BY <3>4
      <4>2. PICK lost \in Losses(acked) :
                 /\ acked \cup lost # {}
                 /\ \E newEpoch \in BOOLEAN, before, after \in setup.appLimitedFlags :
                      OnCongestionEvent(acked, lost, newEpoch, before, after)
        BY <4>1
      <4>3. PICK newEpoch \in BOOLEAN, before \in setup.appLimitedFlags,
                 after \in setup.appLimitedFlags :
                   OnCongestionEvent(acked, lost, newEpoch, before, after)
        BY <4>2
      <4> QED
        BY <3>1, <4>2, <4>3, CongestionSampler
    <3>5. CASE Tick
      BY <3>1, <3>5, TickSampler
    <3> QED
      BY <2>2, <3>2, <3>3, <3>4, <3>5 DEF Next
  <2> QED
    BY <2>1, <2>2
<1> QED
  BY <1>1, <1>2, PTL DEF Spec

(* The sampler is well formed: its fields have their types, every sample   *)
(* divides by a positive time and has bytes that are not negative, and     *)
(* the A0 candidates are in the order chooseA0Point relies on.             *)
THEOREM SamplerCorrect == Spec => []SamplerInv
<1>1. SamplerIInv => SamplerInv
  <2> SUFFICES ASSUME SamplerIInv PROVE SamplerInv
    OBVIOUS
  <2>1. /\ setup \in Setups /\ now \in 1..setup.maxTime
        /\ Good(s, now, setup) /\ SamplesPositive
    BY DEF SamplerIInv
  <2>2. setup.maxPacket \in Nat /\ setup.earlier \in Nat /\ setup.maxTime \in Nat
    BY <2>1, SetupFacts
  <2>3. Counts(s, now) /\ Remembers(s, now) /\ Measured(s, now) /\ Numbered(s, setup)
    BY <2>1 DEF Good
  <2>4. SamplerTypeOK
    <3>1. {s.totalBytesSent, s.totalBytesAcked, s.totalBytesLost,
           s.totalBytesAckedAfterLastAckEvent, s.totalBytesSentAtLastAckedPacket} \subseteq Nat
      BY <2>3 DEF Counts
    <3>2. {s.lastSentPacket, s.endOfAppLimitedPhase} \subseteq -1..setup.maxPacket
      BY <2>2, <2>3 DEF Numbered
    <3>3. \A p \in DOMAIN s.connectionStateMap : s.connectionStateMap[p] \in SentStates
      <4> TAKE p \in DOMAIN s.connectionStateMap
      <4> DEFINE e == s.connectionStateMap[p]
      <4>1. SentBefore(e, now, s.totalBytesAcked, s.totalBytesSent)
        BY <2>3 DEF Remembers
      <4> HIDE DEF e
      <4> QED
        BY <2>1, <2>2, <2>3, <4>1 DEF SentBefore, SentStates, Counts, e
    <3> QED
      BY <2>3, <3>1, <3>2, <3>3 DEF SamplerTypeOK, Numbered
  <2>5. CandidatesOrdered
    BY <2>3 DEF Measured, Ordered, Before, CandidatesOrdered
  <2> QED
    BY <2>1, <2>4, <2>5 DEF SamplerInv
<1> QED
  BY <1>1, SamplerInvariance, PTL

(* RemoveObsoletePackets never drops the state of a packet in flight.      *)
THEOREM SamplerRemembers == Spec => []NothingForgotten
<1>1. SamplerIInv => NothingForgotten
  BY DEF SamplerIInv, Connection
<1> QED
  BY <1>1, SamplerInvariance, PTL

(* A sample is app-limited exactly when its packet was sent in a phase     *)
(* that OnAppLimited began and no acknowledgement had ended.               *)
THEOREM SamplerPhases == Spec => []AppLimitedRule
<1>1. SamplerIInv => AppLimitedRule
  BY DEF SamplerIInv
<1> QED
  BY <1>1, SamplerInvariance, PTL

=============================================================================
