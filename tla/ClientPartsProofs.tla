-------------------------- MODULE ClientPartsProofs --------------------------
(***************************************************************************)
(* Proofs about the parts of the client that speak a protocol or run the   *)
(* core: the dialogues of Socks5, for any peers, addresses, ports and      *)
(* payloads; DnsResolver, for any queries and responses, cut anywhere; and *)
(* CoreManager, for any number of generations, any capacity of Exits and   *)
(* any set of profiles.  Every step of the manager is treated in a lemma   *)
(* of its own, under the guard its callers establish, so that the session  *)
(* that calls it (ClientSessionProofs) can cite them too.                  *)
(***************************************************************************)
EXTENDS CoreManager, Socks5, DnsResolver, Integers, SequenceTheorems, WellFoundedInduction, TLAPS

-----------------------------------------------------------------------------
(* A set of numbers that is not empty has a least element.                 *)
LEMMA LeastNumber ==
  ASSUME NEW S \in SUBSET Nat, S # {}
  PROVE  \E n \in S : \A k \in S : n <= k
<1> DEFINE R == OpToRel(<, Nat)
<1>1. IsWellFoundedOn(R, Nat)
  BY NatLessThanWellFounded
<1>2. \A x, y \in Nat : y < x => <<y, x>> \in R
  BY DEF OpToRel
<1> HIDE DEF R
<1>3. \E x \in S : \A y \in S : ~(<<y, x>> \in R)
  BY <1>1, WFMin, Zenon
<1>4. PICK x \in S : \A y \in S : ~(<<y, x>> \in R)
  BY <1>3
<1>5. \A y \in S : ~(y < x)
  BY <1>2, <1>4, Zenon
<1> QED
  BY <1>5

-----------------------------------------------------------------------------
(* Socks5                                                                  *)

(* Two byte strings after each other.                                      *)
LEMMA Joined ==
  ASSUME NEW s \in Seq(Octets), NEW t \in Seq(Octets)
  PROVE  /\ s \o t \in Seq(Octets) /\ Len(s \o t) = Len(s) + Len(t)
         /\ Len(s) \in Nat /\ Len(t) \in Nat
         /\ \A i \in 1..Len(s) : (s \o t)[i] = s[i]
         /\ \A i \in 1..Len(t) : (s \o t)[Len(s) + i] = t[i]
<1>1. Len(s) \in Nat /\ Len(t) \in Nat
  BY LenProperties
<1>2. /\ s \o t \in Seq(Octets) /\ Len(s \o t) = Len(s) + Len(t)
      /\ \A i \in 1..(Len(s) + Len(t)) :
           (s \o t)[i] = IF i <= Len(s) THEN s[i] ELSE t[i - Len(s)]
  BY ConcatProperties
<1>3. ASSUME NEW i \in 1..Len(s) PROVE (s \o t)[i] = s[i]
  BY <1>1, <1>2
<1>4. ASSUME NEW i \in 1..Len(t) PROVE (s \o t)[Len(s) + i] = t[i]
  <2> DEFINE j == Len(s) + i
  <2>1. j \in 1..(Len(s) + Len(t)) /\ ~(j <= Len(s)) /\ j - Len(s) = i
    BY <1>1
  <2> HIDE DEF j
  <2>2. (s \o t)[j] = t[j - Len(s)]
    BY <1>2, <2>1
  <2> QED
    BY <2>1, <2>2 DEF j
<1> QED
  BY <1>1, <1>2, <1>3, <1>4

(* What is left of a byte string.                                          *)
LEMMA AfterFacts ==
  ASSUME NEW s \in Seq(Octets), NEW n \in Nat, n <= Len(s)
  PROVE  /\ After(s, n) \in Seq(Octets) /\ Len(s) \in Nat
         /\ Len(After(s, n)) = Len(s) - n
         /\ \A i \in 1..(Len(s) - n) : After(s, n)[i] = s[n + i]
<1>1. Len(s) \in Nat
  BY LenProperties
<1>2. \A i \in (n + 1)..Len(s) : s[i] \in Octets
  BY <1>1, ElementOfSeq
<1>3. n + 1 \in Int /\ Len(s) \in Int
  BY <1>1
<1>4. /\ SubSeq(s, n + 1, Len(s)) \in Seq(Octets)
      /\ Len(SubSeq(s, n + 1, Len(s))) = IF n + 1 <= Len(s) THEN Len(s) - (n + 1) + 1 ELSE 0
      /\ \A i \in 1..(Len(s) - (n + 1) + 1) : SubSeq(s, n + 1, Len(s))[i] = s[n + 1 + i - 1]
  BY <1>2, <1>3, SubSeqProperties
<1> DEFINE u == SubSeq(s, n + 1, Len(s))
<1>5. u \in Seq(Octets) /\ After(s, n) = u
  BY <1>4 DEF After
<1>6. Len(u) = Len(s) - n
  BY <1>1, <1>4
<1>7. ASSUME NEW i \in 1..(Len(s) - n) PROVE u[i] = s[n + i]
  <2>1. i \in 1..(Len(s) - (n + 1) + 1) /\ n + 1 + i - 1 = n + i
    BY <1>1
  <2> QED
    BY <1>4, <2>1
<1> HIDE DEF u
<1> QED
  BY <1>1, <1>5, <1>6, <1>7

(* What is left of what was left.                                          *)
LEMMA AfterTwice ==
  ASSUME NEW s \in Seq(Octets), NEW n \in Nat, NEW m \in Nat, n + m <= Len(s)
  PROVE  After(After(s, n), m) = After(s, n + m)
<1>1. Len(s) \in Nat
  BY LenProperties
<1> DEFINE u == After(s, n)
           v == After(u, m)
           w == After(s, n + m)
<1>2. n <= Len(s) /\ n + m \in Nat
  BY <1>1
<1>3. u \in Seq(Octets) /\ Len(u) = Len(s) - n /\ \A i \in 1..(Len(s) - n) : u[i] = s[n + i]
  BY <1>2, AfterFacts
<1>4. w \in Seq(Octets) /\ Len(w) = Len(s) - (n + m)
      /\ \A i \in 1..(Len(s) - (n + m)) : w[i] = s[n + m + i]
  BY <1>2, AfterFacts
<1> HIDE DEF u
<1>5. m <= Len(u)
  BY <1>1, <1>2, <1>3
<1>6. v \in Seq(Octets) /\ Len(v) = Len(u) - m /\ \A i \in 1..(Len(u) - m) : v[i] = u[m + i]
  BY <1>3, <1>5, AfterFacts
<1> HIDE DEF v, w
<1>7. Len(v) = Len(w)
  BY <1>1, <1>3, <1>4, <1>6
<1>8. ASSUME NEW i \in 1..Len(v) PROVE v[i] = w[i]
  <2>1. i \in Int /\ i \in 1..(Len(u) - m) /\ i \in 1..(Len(s) - (n + m))
    BY <1>1, <1>3, <1>4, <1>6, <1>7, <1>8
  <2>2. m + i \in 1..(Len(s) - n) /\ n + (m + i) = n + m + i
    BY <1>1, <1>3, <2>1
  <2>3. v[i] = u[m + i] /\ u[m + i] = s[n + (m + i)] /\ w[i] = s[n + m + i]
    BY <1>3, <1>4, <1>6, <2>1, <2>2
  <2> QED
    BY <2>2, <2>3
<1>9. v = w
  BY <1>4, <1>6, <1>7, <1>8, SeqEqual
<1> QED
  BY <1>9 DEF u, v, w

(* A stream up to a byte.                                                  *)
LEMMA UpToFacts ==
  ASSUME NEW s \in Seq(Octets), NEW n \in Nat
  PROVE  /\ UpTo(s, n) \in Seq(Octets) /\ Len(UpTo(s, n)) \in Nat
         /\ Len(UpTo(s, n)) <= Len(s) /\ Len(UpTo(s, n)) = IF n < Len(s) THEN n ELSE Len(s)
         /\ \A i \in 1..Len(UpTo(s, n)) : UpTo(s, n)[i] = s[i]
<1> DEFINE m == IF n < Len(s) THEN n ELSE Len(s)
<1>1. Len(s) \in Nat /\ m \in Nat /\ m <= Len(s)
  BY LenProperties
<1>2. UpTo(s, n) = SubSeq(s, 1, m)
  BY DEF UpTo
<1> HIDE DEF m
<1>3. \A i \in 1..m : s[i] \in Octets
  BY <1>1, ElementOfSeq
<1>4. 1 \in Int /\ m \in Int
  BY <1>1
<1>5. /\ SubSeq(s, 1, m) \in Seq(Octets)
      /\ Len(SubSeq(s, 1, m)) = IF 1 <= m THEN m - 1 + 1 ELSE 0
      /\ \A i \in 1..(m - 1 + 1) : SubSeq(s, 1, m)[i] = s[1 + i - 1]
  BY <1>3, <1>4, SubSeqProperties
<1>6. Len(SubSeq(s, 1, m)) = m
  BY <1>1, <1>5
<1>7. ASSUME NEW i \in 1..m PROVE SubSeq(s, 1, m)[i] = s[i]
  BY <1>1, <1>5
<1>8. Len(SubSeq(s, 1, m)) = IF n < Len(s) THEN n ELSE Len(s)
  BY <1>6 DEF m
<1> QED
  BY <1>1, <1>2, <1>5, <1>6, <1>7, <1>8

(* A few bytes make a byte string.                                         *)
LEMMA FewBytes ==
  /\ \A x, y \in Octets : <<x, y>> \in Seq(Octets) /\ Len(<<x, y>>) = 2
                          /\ <<x, y>>[1] = x /\ <<x, y>>[2] = y
  /\ \A x, y, z \in Octets : <<x, y, z>> \in Seq(Octets) /\ Len(<<x, y, z>>) = 3
                             /\ <<x, y, z>>[1] = x /\ <<x, y, z>>[2] = y /\ <<x, y, z>>[3] = z
  OBVIOUS

(* The two bytes of a port.                                                *)
LEMMA Port ==
  ASSUME NEW p \in U16s
  PROVE  /\ p \div 256 \in Octets /\ p % 256 \in Octets
         /\ 256 * (p \div 256) + (p % 256) = p
<1>1. p \in Nat /\ p <= 65535
  BY SMTT(60) DEF U16s
<1> DEFINE q == p \div 256
           r == p % 256
<1>2. q \in Int /\ r \in Int /\ 0 <= r /\ r < 256 /\ p = 256 * q + r
  BY <1>1, SMTT(60)
<1> HIDE DEF q, r
<1>3. 0 <= q /\ q <= 255
  BY <1>1, <1>2, SMTT(60)
<1>4. q \in Octets /\ r \in Octets
  BY <1>2, <1>3 DEF Octets
<1> QED
  BY <1>2, <1>4 DEF q, r

(* Where the byte string s has the address field f of a message.           *)
Begins(s, f) == \A i \in 1..Len(f) : 3 + i <= Len(s) => s[3 + i] = f[i]

(* A message that can be read is as long as its address field says.        *)
LEMMA MessageLength ==
  ASSUME NEW s \in Seq(Octets), NEW f, IsAddress(f), Begins(s, f), messageLen(s) # Unusable
  PROVE  /\ messageLen(s) = Len(f) + 5 /\ Len(f) \in Nat \ {0} /\ Len(s) >= 4
         /\ s[4] = f[1] /\ f[1] \in {1, 3, 4}
         /\ f[1] = 3 => Len(s) >= 5 /\ s[5] = f[2]
<1>1. Len(s) \in Nat /\ f \in Seq(Octets) /\ f # <<>>
  BY LenProperties DEF IsAddress
<1>2. Len(f) \in Nat \ {0} /\ \A i \in 1..Len(f) : f[i] \in Nat
  <2>1. Len(f) \in Nat \ {0}
    BY <1>1, EmptySeq
  <2>2. \A i \in 1..Len(f) : f[i] \in Octets
    BY <1>1, ElementOfSeq
  <2>3. \A x \in Octets : x \in Nat
    BY DEF Octets
  <2> QED
    BY <2>1, <2>2, <2>3
<1>3. Len(s) >= 4
  BY <1>1 DEF messageLen
<1>4. s[4] = f[1]
  <2>1. 1 \in 1..Len(f) /\ 3 + 1 = 4
    BY <1>2
  <2> QED
    BY <1>1, <1>3, <2>1 DEF Begins
<1>5. s[4] \in {1, 3, 4}
  BY <1>1, <1>3 DEF messageLen
<1>6. CASE s[4] = 1
  <2>1. messageLen(s) = 10
    BY <1>1, <1>3, <1>6 DEF messageLen
  <2>2. Len(f) = 5 /\ f[1] = 1
    BY <1>4, <1>6 DEF IsAddress
  <2> QED
    BY <1>2, <1>3, <1>4, <1>6, <2>1, <2>2
<1>7. CASE s[4] = 4
  <2>1. messageLen(s) = 22
    BY <1>1, <1>3, <1>7 DEF messageLen
  <2>2. Len(f) = 17 /\ f[1] = 4
    BY <1>4, <1>7 DEF IsAddress
  <2> QED
    BY <1>2, <1>3, <1>4, <1>7, <2>1, <2>2
<1>8. CASE s[4] = 3
  <2>1. Len(s) >= 5 /\ messageLen(s) = 7 + s[5]
    BY <1>1, <1>3, <1>8 DEF messageLen
  <2>2. Len(f) >= 2 /\ Len(f) = 2 + f[2]
    BY <1>4, <1>8 DEF IsAddress
  <2>3. s[5] = f[2] /\ f[2] \in Nat
    <3>1. 2 \in 1..Len(f) /\ 3 + 2 = 5
      BY <1>2, <2>2
    <3> QED
      BY <1>1, <1>2, <2>1, <3>1 DEF Begins
  <2> QED
    BY <1>2, <1>3, <1>4, <1>8, <2>1, <2>2, <2>3
<1> QED
  BY <1>5, <1>6, <1>7, <1>8

(* The stream of an application, byte by byte.                             *)
AppBytes(a, s) ==
  LET k == Len(a.methods)
      n == Len(a.address)
  IN /\ s \in Seq(Octets) /\ Len(s) \in Nat
     /\ Len(s) >= 2 => s[1] = a.version /\ s[2] = k
     /\ \A i \in 1..k : 2 + i <= Len(s) => s[2 + i] = a.methods[i]
     /\ k + 4 <= Len(s) => s[k + 4] = a.cmd
     /\ \A i \in 1..n : k + 5 + i <= Len(s) => s[k + 5 + i] = a.address[i]
     /\ k + n + 7 <= Len(s) => /\ s[k + n + 6] = a.port \div 256
                               /\ s[k + n + 7] = a.port % 256

(* The stream of an application is laid out so, as far as it goes.         *)
LEMMA AppLayout ==
  ASSUME NEW a \in Apps
  PROVE  /\ AppBytes(a, AppSends(a))
         /\ Len(a.methods) \in 0..255 /\ Len(a.address) \in Nat \ {0}
         /\ Len(AppHead(a)) = Len(a.methods) + Len(a.address) + 7
<1> DEFINE k == Len(a.methods)
           n == Len(a.address)
           h1 == <<a.version, k>>
           h2 == h1 \o a.methods
           b3 == <<5, a.cmd, 0>>
           h3 == h2 \o b3
           h4 == h3 \o a.address
           b5 == PutU16(a.port)
           h5 == h4 \o b5
           w == h5 \o a.payload
           s == AppSends(a)
<1>1. /\ a.version \in Octets /\ a.cmd \in Octets /\ a.port \in U16s /\ a.bytes \in Nat
      /\ a.methods \in Seq(Octets) /\ k <= 255 /\ a.payload \in Seq(Octets)
      /\ IsAddress(a.address)
  BY SocksPeers DEF IsApp
<1>2. /\ a.address \in Seq(Octets) /\ a.address # <<>>
  BY <1>1 DEF IsAddress
<1>3. k \in 0..255 /\ k \in Nat /\ n \in Nat \ {0} /\ k \in Octets /\ 5 \in Octets /\ 0 \in Octets
  <2>1. k \in Nat /\ n \in Nat \ {0}
    BY <1>1, <1>2, LenProperties, EmptySeq
  <2> HIDE DEF k, n
  <2> QED
    BY <1>1, <2>1 DEF Octets
<1>4. h1 \in Seq(Octets) /\ Len(h1) = 2 /\ h1[1] = a.version /\ h1[2] = k
  BY <1>1, <1>3, FewBytes
<1>5. b3 \in Seq(Octets) /\ Len(b3) = 3 /\ b3[1] = 5 /\ b3[2] = a.cmd /\ b3[3] = 0
  BY <1>1, <1>3, FewBytes
<1>6. b5 \in Seq(Octets) /\ Len(b5) = 2 /\ b5[1] = a.port \div 256 /\ b5[2] = a.port % 256
  <2>1. a.port \div 256 \in Octets /\ a.port % 256 \in Octets
    BY <1>1, Port
  <2> QED
    BY <2>1, FewBytes DEF PutU16
<1> HIDE DEF k, n, h1, b3, b5
<1>7. h2 \in Seq(Octets) /\ Len(h2) = Len(h1) + k /\ (\A i \in 1..Len(h1) : h2[i] = h1[i])
      /\ \A i \in 1..k : h2[Len(h1) + i] = a.methods[i]
  BY <1>1, <1>4, Joined DEF k
<1> HIDE DEF h2
<1>8. /\ h3 \in Seq(Octets) /\ Len(h3) = Len(h2) + Len(b3)
      /\ \A i \in 1..Len(h2) : h3[i] = h2[i]
      /\ \A i \in 1..Len(b3) : h3[Len(h2) + i] = b3[i]
  BY <1>5, <1>7, Joined
<1> HIDE DEF h3
<1>9. /\ h4 \in Seq(Octets) /\ Len(h4) = Len(h3) + n
      /\ \A i \in 1..Len(h3) : h4[i] = h3[i]
      /\ \A i \in 1..n : h4[Len(h3) + i] = a.address[i]
  BY <1>2, <1>8, Joined DEF n
<1> HIDE DEF h4
<1>10. /\ h5 \in Seq(Octets) /\ Len(h5) = Len(h4) + Len(b5)
       /\ \A i \in 1..Len(h4) : h5[i] = h4[i]
       /\ \A i \in 1..Len(b5) : h5[Len(h4) + i] = b5[i]
  <2>1. b5 \in Seq(Octets) /\ h4 \in Seq(Octets)
    BY <1>6, <1>9
  <2> QED
    BY <2>1, Joined
<1>11. AppHead(a) = h5
  BY DEF AppHead, h1, h2, b3, h3, h4, b5, k
<1> HIDE DEF h5
<1>12. w \in Seq(Octets) /\ \A i \in 1..Len(h5) : w[i] = h5[i]
  BY <1>1, <1>10, Joined
<1>13. s = UpTo(w, a.bytes)
  BY <1>11 DEF AppSends
<1> HIDE DEF w
<1>14. s \in Seq(Octets) /\ Len(s) \in Nat /\ \A i \in 1..Len(s) : s[i] = w[i]
  BY <1>1, <1>12, <1>13, UpToFacts
<1> HIDE DEF s
<1>18. Len(h2) = 2 + k /\ Len(h3) = k + 5 /\ Len(h4) = k + n + 5 /\ Len(h5) = k + n + 7
  BY <1>3, <1>4, <1>5, <1>6, <1>7, <1>8, <1>9, <1>10
<1>15. \A i \in 1..(k + n + 5) : w[i] = h4[i]
  BY <1>3, <1>10, <1>12, <1>18
<1>16. \A i \in 1..(k + 5) : w[i] = h3[i]
  BY <1>3, <1>9, <1>15, <1>18
<1>17. \A i \in 1..(2 + k) : w[i] = h2[i]
  BY <1>3, <1>8, <1>16, <1>18
<1>20. Len(s) >= 2 => s[1] = a.version /\ s[2] = k
  <2>1. 1 \in 1..(2 + k) /\ 2 \in 1..(2 + k) /\ 1 \in 1..Len(h1) /\ 2 \in 1..Len(h1)
    BY <1>3, <1>4
  <2> QED
    BY <1>4, <1>7, <1>14, <1>17, <2>1
<1>21. ASSUME NEW i \in 1..k, 2 + i <= Len(s) PROVE s[2 + i] = a.methods[i]
  <2>1. 2 + i \in 1..(2 + k) /\ 2 + i \in 1..Len(s)
    BY <1>3, <1>14, <1>21
  <2> QED
    BY <1>4, <1>7, <1>14, <1>17, <2>1
<1>22. k + 4 <= Len(s) => s[k + 4] = a.cmd
  <2>1. 2 + k + 2 = k + 4 /\ k + 4 \in 1..(k + 5) /\ 2 \in 1..Len(b3)
        /\ (k + 4 <= Len(s) => k + 4 \in 1..Len(s))
    BY <1>3, <1>5, <1>14
  <2>2. h3[k + 4] = a.cmd
    BY <1>5, <1>8, <1>18, <2>1
  <2> QED
    BY <1>14, <1>16, <2>1, <2>2
<1>23. ASSUME NEW i \in 1..n, k + 5 + i <= Len(s) PROVE s[k + 5 + i] = a.address[i]
  <2>1. k + 5 + i \in 1..(k + n + 5) /\ k + 5 + i \in 1..Len(s)
    BY <1>3, <1>14, <1>23
  <2> QED
    BY <1>9, <1>14, <1>15, <1>18, <2>1
<1>24. k + n + 7 <= Len(s) => s[k + n + 6] = a.port \div 256 /\ s[k + n + 7] = a.port % 256
  <2>1. /\ k + n + 5 + 1 = k + n + 6 /\ k + n + 5 + 2 = k + n + 7
        /\ k + n + 6 \in 1..(k + n + 7) /\ k + n + 7 \in 1..(k + n + 7)
        /\ 1 \in 1..Len(b5) /\ 2 \in 1..Len(b5)
    BY <1>3, <1>6
  <2>2. w[k + n + 6] = b5[1] /\ w[k + n + 7] = b5[2]
    BY <1>10, <1>12, <1>18, <2>1
  <2>3. k + n + 7 <= Len(s) => k + n + 6 \in 1..Len(s) /\ k + n + 7 \in 1..Len(s)
    BY <1>3, <1>14
  <2> QED
    BY <1>6, <1>14, <2>2, <2>3
<1>25. AppBytes(a, s)
  BY <1>14, <1>20, <1>21, <1>22, <1>23, <1>24, Zenon DEF AppBytes, k, n
<1>26. Len(AppHead(a)) = k + n + 7
  BY <1>11, <1>18
<1> QED
  BY <1>3, <1>25, <1>26 DEF k, n, s

(* The stream of the core, byte by byte.                                   *)
CoreBytes(c, s) ==
  /\ s \in Seq(Octets) /\ Len(s) \in Nat
  /\ 4 <= Len(s) => s[4] = c.rep
  /\ \A i \in 1..Len(c.address) : 5 + i <= Len(s) => s[5 + i] = c.address[i]

(* The stream of the core is laid out so, as far as it goes.               *)
LEMMA CoreLayout ==
  ASSUME NEW c \in CoreReplies
  PROVE  /\ CoreBytes(c, CoreSends(c))
         /\ Len(c.address) \in Nat \ {0} /\ Len(CoreHead(c)) = Len(c.address) + 7
<1> DEFINE n == Len(c.address)
           h1 == <<5, c.method>>
           b2 == <<5, c.rep, 0>>
           h2 == h1 \o b2
           h3 == h2 \o c.address
           b4 == <<0, 0>>
           h4 == h3 \o b4
           w == h4 \o c.payload
           s == CoreSends(c)
<1>1. /\ c.method \in Octets /\ c.rep \in Octets /\ c.bytes \in Nat
      /\ c.payload \in Seq(Octets) /\ IsAddress(c.address)
  BY SocksPeers DEF IsCoreReply
<1>2. /\ c.address \in Seq(Octets) /\ c.address # <<>>
  BY <1>1 DEF IsAddress
<1>3. n \in Nat \ {0} /\ 5 \in Octets /\ 0 \in Octets
  BY <1>2, EmptySeq DEF Octets
<1>4. h1 \in Seq(Octets) /\ Len(h1) = 2
  BY <1>1, <1>3, FewBytes
<1>5. b2 \in Seq(Octets) /\ Len(b2) = 3 /\ b2[2] = c.rep
  BY <1>1, <1>3, FewBytes
<1>6. b4 \in Seq(Octets) /\ Len(b4) = 2
  BY <1>3, FewBytes
<1> HIDE DEF n, h1, b2, b4
<1>7. /\ h2 \in Seq(Octets) /\ Len(h2) = Len(h1) + Len(b2)
      /\ \A i \in 1..Len(b2) : h2[Len(h1) + i] = b2[i]
  BY <1>4, <1>5, Joined
<1> HIDE DEF h2
<1>8. /\ h3 \in Seq(Octets) /\ Len(h3) = Len(h2) + n
      /\ \A i \in 1..Len(h2) : h3[i] = h2[i]
      /\ \A i \in 1..n : h3[Len(h2) + i] = c.address[i]
  BY <1>2, <1>7, Joined DEF n
<1> HIDE DEF h3
<1>9. /\ h4 \in Seq(Octets) /\ Len(h4) = Len(h3) + Len(b4)
      /\ \A i \in 1..Len(h3) : h4[i] = h3[i]
  BY <1>6, <1>8, Joined
<1>10. CoreHead(c) = h4
  BY DEF CoreHead, h1, b2, h2, h3, b4, h4
<1> HIDE DEF h4
<1>11. w \in Seq(Octets) /\ \A i \in 1..Len(h4) : w[i] = h4[i]
  BY <1>1, <1>9, Joined
<1>12. s = UpTo(w, c.bytes)
  BY <1>10 DEF CoreSends
<1> HIDE DEF w
<1>13. s \in Seq(Octets) /\ Len(s) \in Nat /\ \A i \in 1..Len(s) : s[i] = w[i]
  BY <1>1, <1>11, <1>12, UpToFacts
<1> HIDE DEF s
<1>19. Len(h2) = 5 /\ Len(h3) = 5 + n /\ Len(h4) = n + 7
  BY <1>3, <1>4, <1>5, <1>6, <1>7, <1>8, <1>9
<1>14. \A i \in 1..(5 + n) : w[i] = h3[i]
  BY <1>3, <1>9, <1>11, <1>19
<1>15. 4 <= Len(s) => s[4] = c.rep
  <2>1. 4 \in 1..5 /\ 4 \in 1..(5 + n) /\ 2 + 2 = 4 /\ 2 \in 1..Len(b2)
    BY <1>3, <1>5
  <2>2. w[4] = c.rep
    BY <1>4, <1>5, <1>7, <1>8, <1>14, <1>19, <2>1
  <2> QED
    BY <1>13, <2>2
<1>16. ASSUME NEW i \in 1..n, 5 + i <= Len(s) PROVE s[5 + i] = c.address[i]
  <2>1. 5 + i \in 1..(5 + n) /\ 5 + i \in 1..Len(s)
    BY <1>3, <1>13, <1>16
  <2> QED
    BY <1>8, <1>13, <1>14, <1>19, <2>1
<1>17. CoreBytes(c, s)
  BY <1>13, <1>15, <1>16 DEF CoreBytes, n
<1>18. Len(CoreHead(c)) = n + 7
  BY <1>10, <1>19
<1> QED
  BY <1>3, <1>17, <1>18 DEF n, s

(* Bytes a to b of s, which may be none, and that they are those of t from *)
(* c on.                                                                   *)
Part(s, a, b) == SubSeq(s, a, b)
Within(s, a, b) ==
  s \in Seq(Octets) /\ a \in Nat \ {0} /\ b \in Nat /\ a <= b + 1 /\ b <= Len(s)
Agree(s, a, b, t, c, d) ==
  /\ Within(s, a, b) /\ Within(t, c, d) /\ b - a = d - c
  /\ \A i \in 1..(b - a + 1) : s[a + i - 1] = t[c + i - 1]

(* A part of a byte string.                                                *)
LEMMA Slice ==
  ASSUME NEW s, NEW a, NEW b, Within(s, a, b)
  PROVE  /\ SubSeq(s, a, b) \in Seq(Octets) /\ Len(SubSeq(s, a, b)) = b - a + 1
         /\ \A i \in 1..(b - a + 1) : SubSeq(s, a, b)[i] = s[a + i - 1]
<1>0. s \in Seq(Octets) /\ a \in Nat \ {0} /\ b \in Nat /\ a <= b + 1 /\ b <= Len(s)
  BY DEF Within
<1>1. Len(s) \in Nat
  BY <1>0, LenProperties
<1>2. \A i \in a..b : s[i] \in Octets
  BY <1>0, <1>1, ElementOfSeq
<1>3. a \in Int /\ b \in Int /\ a <= b + 1
  BY <1>0
<1>4. /\ SubSeq(s, a, b) \in Seq(Octets)
      /\ Len(SubSeq(s, a, b)) = IF a <= b THEN b - a + 1 ELSE 0
      /\ \A i \in 1..(b - a + 1) : SubSeq(s, a, b)[i] = s[a + i - 1]
  BY <1>2, <1>3, SubSeqProperties
<1> DEFINE u == SubSeq(s, a, b)
<1>5. Len(u) = IF a <= b THEN b - a + 1 ELSE 0
  BY <1>4
<1> HIDE DEF u
<1>6. Len(u) = b - a + 1
  BY <1>3, <1>5
<1> QED
  BY <1>4, <1>6 DEF u

(* Two parts that agree byte by byte.                                      *)
LEMMA SameSlice ==
  ASSUME NEW s, NEW a, NEW b, NEW t, NEW c, NEW d, Agree(s, a, b, t, c, d)
  PROVE  Part(s, a, b) = Part(t, c, d)
<1> DEFINE u == SubSeq(s, a, b)
           v == SubSeq(t, c, d)
<1>1. u \in Seq(Octets) /\ Len(u) = b - a + 1 /\ \A i \in 1..(b - a + 1) : u[i] = s[a + i - 1]
  BY Slice DEF Agree
<1>2. v \in Seq(Octets) /\ Len(v) = d - c + 1 /\ \A i \in 1..(d - c + 1) : v[i] = t[c + i - 1]
  BY Slice DEF Agree
<1>3. d - c + 1 = b - a + 1
  BY DEF Within, Agree
<1> HIDE DEF u, v
<1>4. Len(u) = Len(v)
  BY <1>1, <1>2, <1>3
<1>5. ASSUME NEW i \in 1..Len(u) PROVE u[i] = v[i]
  BY <1>1, <1>2, <1>3 DEF Agree
<1>6. u = v
  BY <1>1, <1>2, <1>4, <1>5, SeqEqual
<1> QED
  BY <1>6 DEF u, v, Part

(* A part of a part.                                                       *)
LEMMA SliceTwice ==
  ASSUME NEW s, NEW a, NEW b, Within(s, a, b), NEW c, NEW d, Within(SubSeq(s, a, b), c, d)
  PROVE  SubSeq(SubSeq(s, a, b), c, d) = SubSeq(s, a + c - 1, a + d - 1)
<1> DEFINE u == SubSeq(s, a, b)
           e == a + c - 1
           f == a + d - 1
<1>1. u \in Seq(Octets) /\ Len(u) = b - a + 1 /\ \A i \in 1..(b - a + 1) : u[i] = s[a + i - 1]
  BY Slice
<1>4. Within(u, c, d)
  OBVIOUS
<1> HIDE DEF u
<1>0. /\ s \in Seq(Octets) /\ a \in Nat \ {0} /\ b \in Nat /\ a <= b + 1 /\ b <= Len(s)
      /\ c \in Nat \ {0} /\ d \in Nat /\ c <= d + 1 /\ d <= b - a + 1
  BY <1>1, <1>4 DEF Within
<1>2. Len(s) \in Nat
  BY <1>0, LenProperties
<1>3. e \in Nat \ {0} /\ f \in Nat /\ e <= f + 1 /\ f <= Len(s) /\ d - c = f - e
  BY <1>0, <1>2
<1>7. Within(s, e, f)
  BY <1>0, <1>3 DEF Within
<1>5. Agree(u, c, d, s, e, f)
  <2> SUFFICES ASSUME NEW i \in 1..(d - c + 1) PROVE u[c + i - 1] = s[e + i - 1]
    BY <1>3, <1>4, <1>7 DEF Agree
  <2>1. c + i - 1 \in 1..(b - a + 1) /\ a + (c + i - 1) - 1 = e + i - 1
    BY <1>0, <1>3
  <2> QED
    BY <1>1, <2>1
<1> HIDE DEF e, f
<1>6. Part(u, c, d) = Part(s, e, f)
  BY <1>5, SameSlice
<1> QED
  BY <1>6 DEF u, e, f, Part

(* A byte string is its first bytes and the rest.                          *)
LEMMA FirstAndRest ==
  ASSUME NEW f \in Seq(Octets), Len(f) >= 1
  PROVE  /\ <<f[1]>> \o SubSeq(f, 2, Len(f)) = f
         /\ Len(f) >= 2 => <<f[1], f[2]>> \o SubSeq(f, 3, Len(f)) = f
<1>1. Len(f) \in Nat /\ 1 \in Nat /\ 2 \in Nat \ {0} /\ 3 \in Nat \ {0} /\ Len(f) <= Len(f)
  BY LenProperties
<1>2. f[1] \in Octets
  BY <1>1, ElementOfSeq
<1>3. <<f[1]>> \o SubSeq(f, 2, Len(f)) = f
  <2> DEFINE h == <<f[1]>>
             r == SubSeq(f, 2, Len(f))
             w == h \o r
  <2>1. h \in Seq(Octets) /\ Len(h) = 1 /\ h[1] = f[1]
    BY <1>2
  <2>2. /\ r \in Seq(Octets) /\ Len(r) = Len(f) - 2 + 1
        /\ \A i \in 1..(Len(f) - 2 + 1) : r[i] = f[2 + i - 1]
    <3> DEFINE a == 2
    <3>1. Within(f, a, Len(f))
      BY <1>1 DEF Within
    <3> HIDE DEF a
    <3>2. /\ SubSeq(f, a, Len(f)) \in Seq(Octets) /\ Len(SubSeq(f, a, Len(f))) = Len(f) - a + 1
          /\ \A i \in 1..(Len(f) - a + 1) : SubSeq(f, a, Len(f))[i] = f[a + i - 1]
      BY <3>1, Slice
    <3> QED
      BY <3>2 DEF a
  <2> HIDE DEF h, r
  <2>3. /\ w \in Seq(Octets) /\ Len(w) = Len(h) + Len(r)
        /\ \A i \in 1..Len(h) : w[i] = h[i]
        /\ \A i \in 1..Len(r) : w[Len(h) + i] = r[i]
    BY <2>1, <2>2, Joined
  <2> HIDE DEF w
  <2>4. Len(w) = Len(f)
    BY <1>1, <2>1, <2>2, <2>3
  <2>5. ASSUME NEW i \in 1..Len(w) PROVE w[i] = f[i]
    <3>1. CASE i = 1
      BY <2>1, <2>3, <3>1
    <3>2. CASE i # 1
      <4> DEFINE j == i - 1
      <4>1. j \in 1..Len(r) /\ Len(h) + j = i /\ 2 + j - 1 = i /\ j \in 1..(Len(f) - 2 + 1)
        BY <1>1, <2>1, <2>2, <2>4, <3>2
      <4> HIDE DEF j
      <4> QED
        BY <2>2, <2>3, <4>1
    <3> QED
      BY <3>1, <3>2
  <2>6. w = f
    BY <2>3, <2>4, <2>5, SeqEqual
  <2> QED
    BY <2>6 DEF w, h, r
<1>4. ASSUME Len(f) >= 2 PROVE <<f[1], f[2]>> \o SubSeq(f, 3, Len(f)) = f
  <2> DEFINE h == <<f[1], f[2]>>
             r == SubSeq(f, 3, Len(f))
             w == h \o r
  <2>0. f[2] \in Octets
    BY <1>1, <1>4, ElementOfSeq
  <2>1. h \in Seq(Octets) /\ Len(h) = 2 /\ h[1] = f[1] /\ h[2] = f[2]
    BY <1>2, <2>0, FewBytes
  <2>2. /\ r \in Seq(Octets) /\ Len(r) = Len(f) - 3 + 1
        /\ \A i \in 1..(Len(f) - 3 + 1) : r[i] = f[3 + i - 1]
    <3> DEFINE a == 3
    <3>1. Within(f, a, Len(f))
      BY <1>1, <1>4 DEF Within
    <3> HIDE DEF a
    <3>2. /\ SubSeq(f, a, Len(f)) \in Seq(Octets) /\ Len(SubSeq(f, a, Len(f))) = Len(f) - a + 1
          /\ \A i \in 1..(Len(f) - a + 1) : SubSeq(f, a, Len(f))[i] = f[a + i - 1]
      BY <3>1, Slice
    <3> QED
      BY <3>2 DEF a
  <2> HIDE DEF h, r
  <2>3. /\ w \in Seq(Octets) /\ Len(w) = Len(h) + Len(r)
        /\ \A i \in 1..Len(h) : w[i] = h[i]
        /\ \A i \in 1..Len(r) : w[Len(h) + i] = r[i]
    BY <2>1, <2>2, Joined
  <2> HIDE DEF w
  <2>4. Len(w) = Len(f)
    BY <1>1, <1>4, <2>1, <2>2, <2>3
  <2>5. ASSUME NEW i \in 1..Len(w) PROVE w[i] = f[i]
    <3>1. CASE i = 1 \/ i = 2
      BY <2>1, <2>3, <3>1
    <3>2. CASE ~(i = 1 \/ i = 2)
      <4> DEFINE j == i - 2
      <4>1. j \in 1..Len(r) /\ Len(h) + j = i /\ 3 + j - 1 = i /\ j \in 1..(Len(f) - 3 + 1)
        BY <1>1, <2>1, <2>2, <2>4, <3>2
      <4> HIDE DEF j
      <4> QED
        BY <2>2, <2>3, <4>1
    <3> QED
      BY <3>1, <3>2
  <2>6. w = f
    BY <2>3, <2>4, <2>5, SeqEqual
  <2> QED
    BY <2>6 DEF w, h, r
<1> QED
  BY <1>3, <1>4

(* The text of an IPv6 address is not one of IPv4.                         *)
LEMMA LiteralV6 ==
  ~isV4(Literals[2])
<1> DEFINE l == [i \in 1..16 |-> IF i = 16 THEN 1 ELSE 0]
<1>1. Literals[2] = l
  BY DEF Literals
<1>2. \A i \in 1..16 : l[i] \in Octets
  BY DEF Octets
<1>3. l \in Seq(Octets) /\ Len(l) = 16
  BY <1>2
<1>4. l[12] = 0
  OBVIOUS
<1> HIDE DEF l
<1>5. SubSeq(l, 1, 12)[12] = 0
  <2>1. \A i \in 1..(12 - 1 + 1) : SubSeq(l, 1, 12)[i] = l[1 + i - 1]
    <3>1. Within(l, 1, 12)
      BY <1>3 DEF Within
    <3> QED
      BY <3>1, Slice
  <2> QED
    BY <1>4, <2>1
<1>6. Mapped[12] = 255
  BY DEF Mapped
<1> QED
  BY <1>1, <1>3, <1>5, <1>6 DEF isV4

(* A host that is an address, or the text of one.                          *)
LEMMA HostAddress ==
  ASSUME NEW s, NEW ip,
         \/ s[4] # 3 /\ SubSeq(s, 5, messageLen(s) - 2) = ip
         \/ s[4] = 3 /\ ParseIP(SubSeq(s, 6, 5 + s[5])) = <<ip>>
  PROVE  hostField(s) = <<IF isV4(ip) THEN 1 ELSE 4>> \o rdata(ip)
<1> DEFINE one == <<ip>>
           name == SubSeq(s, 6, 5 + s[5])
           ips == IF s[4] = 3 THEN ParseIP(name) ELSE <<SubSeq(s, 5, messageLen(s) - 2)>>
<1>1. one # <<>> /\ one[1] = ip
  OBVIOUS
<1>2. ips = one
  OBVIOUS
<1>3. hostField(s) = IF ips = <<>> THEN <<3, Len(name)>> \o name
                     ELSE <<IF isV4(ips[1]) THEN 1 ELSE 4>> \o rdata(ips[1])
  BY DEF hostField
<1> HIDE DEF ips, one
<1> QED
  BY <1>1, <1>2, <1>3

(* A host that is a name and no address.                                   *)
LEMMA HostName ==
  ASSUME NEW s, NEW name, SubSeq(s, 6, 5 + s[5]) = name, s[4] = 3, ParseIP(name) = <<>>
  PROVE  hostField(s) = <<3, Len(name)>> \o name
  BY DEF hostField

(* The message s has the whole address field f, and the bytes a to b of f  *)
(* are three further on in s.                                              *)
Field(s, f) == s \in Seq(Octets) /\ f \in Seq(Octets) /\ Begins(s, f) /\ Len(f) + 3 <= Len(s)

Shifted(s, f, a, b) == SubSeq(s, a + 3, b + 3) = SubSeq(f, a, b)

(* Every part of the field is there.                                       *)
LEMMA FieldSlice ==
  ASSUME NEW s, NEW f, NEW a, NEW b, Field(s, f), Within(f, a, b)
  PROVE  Shifted(s, f, a, b)
<1> DEFINE c == a + 3
           d == b + 3
<1>1. Len(s) \in Nat /\ Len(f) \in Nat
  BY LenProperties DEF Field
<1>2. a \in Nat \ {0} /\ b \in Nat /\ a <= b + 1 /\ b <= Len(f) /\ Len(f) + 3 <= Len(s)
  BY DEF Within, Field
<1>3. c \in Nat \ {0} /\ d \in Nat /\ c <= d + 1 /\ d <= Len(s) /\ d - c = b - a
  BY <1>1, <1>2
<1>4. Within(s, c, d)
  BY <1>3 DEF Within, Field
<1>5. Agree(s, c, d, f, a, b)
  <2> SUFFICES ASSUME NEW i \in 1..(d - c + 1) PROVE s[c + i - 1] = f[a + i - 1]
    BY <1>3, <1>4 DEF Agree
  <2>1. /\ a + i - 1 \in 1..Len(f) /\ 3 + (a + i - 1) = c + i - 1
        /\ 3 + (a + i - 1) <= Len(s)
    BY <1>1, <1>2, <1>3
  <2> QED
    BY <2>1 DEF Begins, Field
<1> HIDE DEF c, d
<1>6. Part(s, c, d) = Part(f, a, b)
  BY <1>5, SameSlice
<1> QED
  BY <1>6 DEF c, d, Part, Shifted

(* The host of a request reaches the core as the canonical field of the    *)
(* destination.                                                            *)
LEMMA HostForwarded ==
  ASSUME NEW s \in Seq(Octets), NEW f, IsAddress(f), Begins(s, f), readable(s)
  PROVE  hostField(s) = Canonical(f)
<1> DEFINE n == Len(f)
<1>1. /\ messageLen(s) = n + 5 /\ n \in Nat \ {0} /\ s[4] = f[1] /\ f[1] \in {1, 3, 4}
      /\ n + 5 <= Len(s) /\ (f[1] = 3 => s[5] = f[2])
  BY MessageLength DEF readable
<1>2. f \in Seq(Octets) /\ Len(s) \in Nat
  BY LenProperties DEF IsAddress
<1> HIDE DEF n
<1>3. Field(s, f)
  BY <1>1, <1>2 DEF Field, n
<1>4. <<f[1]>> \o SubSeq(f, 2, n) = f /\ (n >= 2 => <<f[1], f[2]>> \o SubSeq(f, 3, n) = f)
  <2>1. Len(f) >= 1
    BY <1>1 DEF n
  <2> QED
    BY <1>2, <2>1, FirstAndRest DEF n
<1>5. CASE f[1] = 1
  <2>1. n = 5
    BY <1>5 DEF IsAddress, n
  <2> DEFINE ip == SubSeq(f, 2, 5)
  <2>0. Within(f, 2, 5)
    BY <1>2, <2>1 DEF Within, n
  <2>2. ip \in Seq(Octets) /\ Len(ip) = 4
    <3>1. ip \in Seq(Octets) /\ Len(ip) = 5 - 2 + 1
      BY <2>0, Slice
    <3> QED
      BY <3>1
  <2>3. SubSeq(s, 5, messageLen(s) - 2) = ip
    <3>1. messageLen(s) - 2 = 8
      BY <1>1, <2>1
    <3>2. SubSeq(s, 2 + 3, 5 + 3) = SubSeq(f, 2, 5)
      <4>1. Shifted(s, f, 2, 5)
        BY <1>3, <2>0, FieldSlice
      <4> QED
        BY <4>1 DEF Shifted
    <3> QED
      BY <3>1, <3>2
  <2> HIDE DEF ip
  <2>4. hostField(s) = <<IF isV4(ip) THEN 1 ELSE 4>> \o rdata(ip)
    <3>1. s[4] # 3
      BY <1>1, <1>5
    <3> QED
      BY <2>3, <3>1, HostAddress
  <2>5. isV4(ip) /\ rdata(ip) = ip
    BY <2>2 DEF isV4, rdata
  <2>6. hostField(s) = <<f[1]>> \o ip
    BY <1>5, <2>4, <2>5
  <2>7. hostField(s) = f
    BY <1>4, <2>1, <2>6 DEF ip
  <2> QED
    BY <1>5, <2>7 DEF Canonical
<1>6. CASE f[1] = 4
  <2>1. n = 17
    BY <1>6 DEF IsAddress, n
  <2> DEFINE ip == SubSeq(f, 2, 17)
  <2>0. Within(f, 2, 17)
    BY <1>2, <2>1 DEF Within, n
  <2>2. ip \in Seq(Octets) /\ Len(ip) = 16
    <3>1. ip \in Seq(Octets) /\ Len(ip) = 17 - 2 + 1
      BY <2>0, Slice, SMTT(60)
    <3> QED
      BY <3>1
  <2>3. SubSeq(s, 5, messageLen(s) - 2) = ip
    <3>1. messageLen(s) - 2 = 20
      BY <1>1, <2>1
    <3>2. SubSeq(s, 2 + 3, 17 + 3) = SubSeq(f, 2, 17)
      <4>1. Shifted(s, f, 2, 17)
        BY <1>3, <2>0, FieldSlice
      <4> QED
        BY <4>1 DEF Shifted
    <3>3. 2 + 3 = 5 /\ 17 + 3 = 20
      OBVIOUS
    <3> QED
      BY <3>1, <3>2, <3>3
  <2>4. SubSeq(ip, 1, 12) = SubSeq(f, 2, 13) /\ SubSeq(ip, 13, 16) = SubSeq(f, 14, 17)
    <3>1. SubSeq(SubSeq(f, 2, 17), 1, 12) = SubSeq(f, 2 + 1 - 1, 2 + 12 - 1)
      <4>1. Within(SubSeq(f, 2, 17), 1, 12)
        BY <2>2 DEF Within
      <4> QED
        BY <2>0, <4>1, SliceTwice
    <3>2. SubSeq(SubSeq(f, 2, 17), 13, 16) = SubSeq(f, 2 + 13 - 1, 2 + 16 - 1)
      <4>1. Within(SubSeq(f, 2, 17), 13, 16)
        BY <2>2 DEF Within
      <4> QED
        BY <2>0, <4>1, SliceTwice
    <3> QED
      BY <3>1, <3>2
  <2> HIDE DEF ip
  <2>5. hostField(s) = <<IF isV4(ip) THEN 1 ELSE 4>> \o rdata(ip)
    <3>1. s[4] # 3
      BY <1>1, <1>6
    <3> QED
      BY <2>3, <3>1, HostAddress
  <2>6. CASE SubSeq(f, 2, 13) = Mapped
    <3>1. isV4(ip) /\ rdata(ip) = SubSeq(f, 14, 17)
      BY <2>2, <2>4, <2>6 DEF isV4, rdata
    <3> QED
      BY <1>6, <2>5, <2>6, <3>1 DEF Canonical
  <2>7. CASE SubSeq(f, 2, 13) # Mapped
    <3>0. SubSeq(ip, 1, 12) # Mapped /\ Len(ip) = 16
      BY <2>2, <2>4, <2>7
    <3>1. ~isV4(ip) /\ rdata(ip) = ip
      BY <3>0 DEF isV4, rdata
    <3>2. hostField(s) = <<f[1]>> \o ip
      BY <1>6, <2>5, <3>1
    <3>3. hostField(s) = f
      BY <1>4, <2>1, <3>2 DEF ip
    <3> QED
      BY <1>6, <2>7, <3>3 DEF Canonical
  <2> QED
    BY <2>6, <2>7
<1>7. CASE f[1] = 3
  <2>1. n >= 2 /\ n = 2 + f[2]
    BY <1>7 DEF IsAddress, n
  <2> DEFINE name == SubSeq(f, 3, n)
  <2>0. Within(f, 3, n)
    BY <1>1, <1>2, <2>1 DEF Within, n
  <2>2. name \in Seq(Octets) /\ Len(name) = n - 3 + 1
    BY <2>0, Slice
  <2>3. f[2] \in Nat /\ Len(name) = f[2]
    <3>1. f[2] \in Octets
      <4>1. 2 \in 1..Len(f)
        BY <1>1, <2>1 DEF n
      <4> QED
        BY <1>2, <4>1, ElementOfSeq
    <3>3. \A x \in Octets : x \in Nat
      BY DEF Octets
    <3>2. f[2] \in Nat
      BY <3>1, <3>3
    <3> DEFINE y == f[2]
    <3>4. y \in Nat /\ n = 2 + y /\ Len(name) = n - 3 + 1
      BY <2>1, <2>2, <3>2
    <3> HIDE DEF name, y
    <3>5. Len(name) = y
      BY <3>4
    <3> QED
      BY <3>2, <3>5 DEF y
  <2>4. SubSeq(s, 6, 5 + s[5]) = name
    <3>0. s[5] = f[2] /\ n = 2 + f[2] /\ f[2] \in Nat
      BY <1>1, <1>7, <2>1, <2>3
    <3> DEFINE y == f[2]
    <3>1. 3 + 3 = 6 /\ n + 3 = 5 + s[5]
      <4> HIDE DEF y
      <4>1. s[5] = y /\ n = 2 + y /\ y \in Nat
        BY <3>0 DEF y
      <4> QED
        BY <4>1
    <3>2. SubSeq(s, 3 + 3, n + 3) = SubSeq(f, 3, n)
      <4>1. Shifted(s, f, 3, n)
        BY <1>3, <2>0, FieldSlice
      <4> QED
        BY <4>1 DEF Shifted
    <3> QED
      BY <3>1, <3>2
  <2> HIDE DEF name
  <2>5. CASE name = Literals[1]
    <3>1. ParseIP(name) = <<Literals[2]>>
      BY <2>5 DEF ParseIP
    <3>2. hostField(s) = <<IF isV4(Literals[2]) THEN 1 ELSE 4>> \o rdata(Literals[2])
      BY <1>1, <1>7, <2>4, <3>1, HostAddress
    <3>3. hostField(s) = <<4>> \o Literals[2]
      BY <3>2, LiteralV6 DEF rdata
    <3> QED
      BY <1>7, <2>5, <3>3 DEF Canonical, name, n
  <2>6. CASE name # Literals[1]
    <3>1. ParseIP(name) = <<>>
      BY <2>6 DEF ParseIP
    <3>2. hostField(s) = <<3, Len(name)>> \o name
      BY <1>1, <1>7, <2>4, <3>1, HostName
    <3>3. hostField(s) = <<f[1], f[2]>> \o name
      BY <1>7, <2>3, <3>2
    <3>4. hostField(s) = f
      BY <1>4, <2>1, <3>3 DEF name
    <3> QED
      BY <1>7, <2>6, <3>4 DEF Canonical, name, n
  <2> QED
    BY <2>5, <2>6
<1> QED
  BY <1>1, <1>5, <1>6, <1>7

(* The request of an application, behind its greeting.                     *)
RequestOf(a) == After(AppSends(a), Len(a.methods) + 2)

(* A request that was read is the one the application sent: its command,   *)
(* its destination in canonical form, its port and its end.                *)
LEMMA Destination ==
  ASSUME NEW a \in Apps, Len(a.methods) + 2 <= Len(AppSends(a)), readable(RequestOf(a))
  PROVE  /\ RequestOf(a)[2] = a.cmd
         /\ hostField(RequestOf(a)) = a.canonical
         /\ portOf(RequestOf(a)) = a.port
         /\ After(RequestOf(a), messageLen(RequestOf(a))) = After(AppSends(a), Len(AppHead(a)))
<1> DEFINE w == AppSends(a)
           k == Len(a.methods)
           n == Len(a.address)
           s == RequestOf(a)
           p == a.port
<1>1. /\ k \in Nat /\ n \in Nat \ {0} /\ Len(AppHead(a)) = k + n + 7
      /\ w \in Seq(Octets) /\ Len(w) \in Nat
      /\ (k + 4 <= Len(w) => w[k + 4] = a.cmd)
      /\ (\A i \in 1..n : k + 5 + i <= Len(w) => w[k + 5 + i] = a.address[i])
      /\ (k + n + 7 <= Len(w) => w[k + n + 6] = p \div 256 /\ w[k + n + 7] = p % 256)
  <2>1. AppBytes(a, w) /\ k \in 0..255 /\ n \in Nat \ {0} /\ Len(AppHead(a)) = k + n + 7
    BY AppLayout
  <2>2. k \in Nat
    BY <2>1
  <2> QED
    BY <2>1, <2>2 DEF AppBytes
<1>2. p \in U16s /\ IsAddress(a.address) /\ a.canonical = Canonical(a.address)
  BY SocksPeers DEF IsApp
<1> HIDE DEF w, k, n, p
<1>3. k + 2 \in Nat /\ k + 2 <= Len(w)
  BY <1>1 DEF w, k
<1>4. /\ s \in Seq(Octets) /\ Len(s) = Len(w) - (k + 2)
      /\ \A i \in 1..(Len(w) - (k + 2)) : s[i] = w[k + 2 + i]
  <2>1. /\ After(w, k + 2) \in Seq(Octets) /\ Len(After(w, k + 2)) = Len(w) - (k + 2)
        /\ \A i \in 1..(Len(w) - (k + 2)) : After(w, k + 2)[i] = w[k + 2 + i]
    BY <1>1, <1>3, AfterFacts
  <2>2. s = After(w, k + 2)
    BY DEF RequestOf, w, k
  <2> QED
    BY <2>1, <2>2
<1>0. k \in Nat /\ n \in Nat \ {0} /\ Len(w) \in Nat
  BY <1>1
<1>14. Len(s) = Len(w) - (k + 2)
  BY <1>4
<1>5. readable(s)
  OBVIOUS
<1>6. s = After(w, k + 2)
  BY DEF RequestOf, w, k
<1> HIDE DEF s
<1>7. Begins(s, a.address)
  <2> SUFFICES ASSUME NEW i \in 1..n, 3 + i <= Len(s) PROVE s[3 + i] = a.address[i]
    BY DEF Begins, n
  <2>1. /\ 3 + i \in 1..(Len(w) - (k + 2)) /\ k + 2 + (3 + i) = k + 5 + i
        /\ k + 5 + i <= Len(w)
    BY <1>0, <1>14
  <2>2. s[3 + i] = w[k + 5 + i]
    BY <1>4, <2>1
  <2> QED
    BY <1>1, <2>1, <2>2
<1>8. messageLen(s) = n + 5 /\ n + 5 <= Len(s) /\ Len(s) >= 4
  <2>1. messageLen(s) = n + 5 /\ Len(s) >= 4
    BY <1>2, <1>4, <1>5, <1>7, MessageLength DEF readable, n
  <2> QED
    BY <1>5, <2>1 DEF readable
<1>9. k + n + 7 <= Len(w)
  BY <1>0, <1>14, <1>8
<1>10. s[2] = a.cmd
  <2>1. 2 \in 1..(Len(w) - (k + 2)) /\ k + 2 + 2 = k + 4 /\ k + 4 <= Len(w)
    BY <1>0, <1>9
  <2>2. s[2] = w[k + 4]
    BY <1>4, <2>1
  <2> QED
    BY <1>1, <2>1, <2>2
<1>11. hostField(s) = a.canonical
  BY <1>2, <1>4, <1>5, <1>7, HostForwarded
<1>12. portOf(s) = p
  <2>1. /\ n + 4 \in 1..(Len(w) - (k + 2)) /\ n + 5 \in 1..(Len(w) - (k + 2))
        /\ k + 2 + (n + 4) = k + n + 6 /\ k + 2 + (n + 5) = k + n + 7
        /\ messageLen(s) - 1 = n + 4
    BY <1>0, <1>8, <1>9
  <2>2. s[n + 4] = w[k + n + 6] /\ s[n + 5] = w[k + n + 7]
    BY <1>4, <2>1
  <2>3. s[messageLen(s) - 1] = p \div 256 /\ s[messageLen(s)] = p % 256
    BY <1>1, <1>8, <1>9, <2>1, <2>2
  <2>4. 256 * (p \div 256) + (p % 256) = p
    BY <1>2, Port
  <2> QED
    BY <2>3, <2>4 DEF portOf
<1>13. After(s, messageLen(s)) = After(w, Len(AppHead(a)))
  <2>1. n + 5 \in Nat /\ k + 2 + (n + 5) = k + n + 7 /\ k + 2 + (n + 5) <= Len(w)
    BY <1>0, <1>9
  <2>2. After(After(w, k + 2), n + 5) = After(w, k + 2 + (n + 5))
    BY <1>1, <1>3, <2>1, AfterTwice
  <2> QED
    BY <1>1, <1>6, <1>8, <2>1, <2>2
<1> QED
  BY <1>10, <1>11, <1>12, <1>13 DEF s, w, p

(* The core's reply, behind its choice of a method.                        *)
ReplyOf(c) == After(CoreSends(c), 2)

(* The code of a reply that was read is the one the core sent, and its     *)
(* payload begins behind the address, of whatever type.                    *)
LEMMA Granting ==
  ASSUME NEW c \in CoreReplies, 2 <= Len(CoreSends(c)), replyLen(ReplyOf(c)) # Unusable,
         replyLen(ReplyOf(c)) <= Len(ReplyOf(c))
  PROVE  /\ ReplyOf(c)[2] = c.rep
         /\ After(ReplyOf(c), replyLen(ReplyOf(c))) = After(CoreSends(c), Len(CoreHead(c)))
<1> DEFINE w == CoreSends(c)
           n == Len(c.address)
           s == ReplyOf(c)
<1>1. /\ n \in Nat \ {0} /\ Len(CoreHead(c)) = n + 7 /\ w \in Seq(Octets) /\ Len(w) \in Nat
      /\ (4 <= Len(w) => w[4] = c.rep)
      /\ (\A i \in 1..n : 5 + i <= Len(w) => w[5 + i] = c.address[i])
  BY CoreLayout DEF CoreBytes
<1>2. IsAddress(c.address)
  BY SocksPeers DEF IsCoreReply
<1>3. s = After(w, 2) /\ 2 \in Nat /\ 2 <= Len(w)
  BY DEF ReplyOf
<1>4. replyLen(s) # Unusable /\ replyLen(s) <= Len(s)
  OBVIOUS
<1> HIDE DEF w, n, s
<1>5. /\ s \in Seq(Octets) /\ Len(s) = Len(w) - 2
      /\ \A i \in 1..(Len(w) - 2) : s[i] = w[2 + i]
  BY <1>1, <1>3, AfterFacts
<1>6. Begins(s, c.address)
  <2> SUFFICES ASSUME NEW i \in 1..n, 3 + i <= Len(s) PROVE s[3 + i] = c.address[i]
    BY DEF Begins, n
  <2>1. 3 + i \in 1..(Len(w) - 2) /\ 2 + (3 + i) = 5 + i /\ 5 + i <= Len(w)
    BY <1>1, <1>3, <1>5
  <2>2. s[3 + i] = w[5 + i]
    BY <1>5, <2>1
  <2> QED
    BY <1>1, <2>1, <2>2
<1>7. replyLen(s) = n + 5 /\ n + 7 <= Len(w)
  <2>1. replyLen(s) = n + 5
    BY <1>2, <1>4, <1>5, <1>6, MessageLength DEF replyLen, n
  <2> QED
    BY <1>1, <1>4, <1>5, <2>1
<1>8. s[2] = c.rep
  <2>1. 2 \in 1..(Len(w) - 2) /\ 2 + 2 = 4 /\ 4 <= Len(w)
    BY <1>1, <1>7
  <2> QED
    BY <1>1, <1>5, <2>1
<1>9. After(s, replyLen(s)) = After(w, Len(CoreHead(c)))
  <2>1. n + 5 \in Nat /\ 2 + (n + 5) = n + 7 /\ 2 + (n + 5) <= Len(w)
    BY <1>1, <1>7
  <2>2. After(After(w, 2), n + 5) = After(w, 2 + (n + 5))
    BY <1>1, <1>3, <2>1, AfterTwice
  <2> QED
    BY <1>1, <1>3, <1>7, <2>1, <2>2
<1> QED
  BY <1>8, <1>9 DEF s, w

-----------------------------------------------------------------------------
(* The application offered "no authentication", and its greeting was read. *)
Greeted ==
  /\ 0 \in {socksApp.methods[i] : i \in DOMAIN socksApp.methods}
  /\ Len(socksApp.methods) + 2 <= Len(AppSends(socksApp))

(* The core was asked for the destination of the application's request.    *)
Forwarded ==
  /\ socksApp.cmd = 1
  /\ toCore = <<5, 1, 0>> \o <<5, 1, 0>> \o socksApp.canonical \o PutU16(socksApp.port)
  /\ fromApp = After(AppSends(socksApp), Len(AppHead(socksApp)))

(* The connection to the core is open.                                     *)
Dialled == upConn = "open" /\ socksCore \in CoreReplies

(* The core granted the request, and its reply was read.                   *)
CoreGranted ==
  socksCore.rep = 0 /\ fromCore = After(CoreSends(socksCore), Len(CoreHead(socksCore)))

(* What is known before each step of the handler.                          *)
AtGreeting == fromApp = AppSends(socksApp) /\ toApp = <<>> /\ upConn = "none"
AtRequest == Greeted /\ fromApp = RequestOf(socksApp) /\ toApp = <<5, 0>> /\ upConn = "none"
AtCoreGreeting ==
  /\ Greeted /\ fromApp = RequestOf(socksApp) /\ readable(fromApp) /\ fromApp[2] = 1
  /\ Dialled /\ fromCore = CoreSends(socksCore) /\ toCore = <<5, 1, 0>> /\ toApp = <<5, 0>>
AtCoreReply ==
  /\ Greeted /\ Forwarded /\ Dialled /\ toApp = <<5, 0>>
  /\ 2 <= Len(CoreSends(socksCore)) /\ fromCore = ReplyOf(socksCore)
AtAnswer == Greeted /\ Forwarded /\ Dialled /\ CoreGranted /\ toApp = <<5, 0>>
AtSplice == Greeted /\ Forwarded /\ Dialled /\ CoreGranted /\ toApp = <<5, 0>> \o Connected
AtClosed == upConn # "open" /\ toApp \in {<<>>, <<5, 0>>, <<5, 255>>, <<5, 0>> \o Refused}

(* The inductive invariant of the two dialogues.                           *)
SocksIInv ==
  /\ socksApp \in Apps
  /\ spc \in {"greeting", "request", "coreGreeting", "coreReply", "answer", "splice", "closed"}
  /\ spc = "greeting" => AtGreeting
  /\ spc = "request" => AtRequest
  /\ spc = "coreGreeting" => AtCoreGreeting
  /\ spc = "coreReply" => AtCoreReply
  /\ spc = "answer" => AtAnswer
  /\ spc = "splice" => AtSplice
  /\ spc = "closed" => AtClosed

(* The deferred calls leave no connection to the core open.                *)
LEMMA Ending ==
  ASSUME EndHandler
  PROVE  spc' = "closed" /\ upConn' # "open"
  BY DEF EndHandler

(* Before the greeting nothing was read or written.                        *)
LEMMA SocksInitial == SocksInit => SocksIInv
  BY DEF SocksInit, SocksIInv, AtGreeting

(* A step that ends the handler leaves a dialogue that may end.            *)
LEMMA EndStep ==
  ASSUME SocksIInv, EndHandler, UNCHANGED socksApp,
         toApp' \in {<<>>, <<5, 0>>, <<5, 255>>, <<5, 0>> \o Refused}
  PROVE  SocksIInv'
  BY Ending DEF SocksIInv, AtClosed

(* So does a refusal, written or not.                                      *)
LEMMA RefuseStep ==
  ASSUME SocksIInv, Refuse, UNCHANGED socksApp, toApp = <<5, 0>>
  PROVE  SocksIInv'
<1>1. toApp' \in {<<>>, <<5, 0>>, <<5, 255>>, <<5, 0>> \o Refused} /\ EndHandler
  BY Zenon DEF Refuse
<1> QED
  BY <1>1, EndStep

(* The greeting is read to its last method, and no further.                *)
LEMMA GreetingStep ==
  ASSUME SocksIInv, Greeting
  PROVE  SocksIInv'
<1> DEFINE w == fromApp
           k == Len(socksApp.methods)
           n == 2 + fromApp[2]
<1>1. socksApp \in Apps /\ fromApp = AppSends(socksApp) /\ toApp = <<>> /\ upConn = "none"
  BY DEF Greeting, SocksIInv, AtGreeting
<1>2. Len(w) >= 2 /\ Len(w) >= n /\ UNCHANGED socksApp
  BY DEF Greeting
<1>3. /\ w \in Seq(Octets) /\ Len(w) \in Nat /\ k \in Nat /\ w[2] = k
      /\ \A i \in 1..k : 2 + i <= Len(w) => w[2 + i] = socksApp.methods[i]
  <2>1. AppBytes(socksApp, w) /\ k \in 0..255
    BY <1>1, AppLayout
  <2>2. k \in Nat
    BY <2>1
  <2> QED
    BY <1>2, <2>1, <2>2 DEF AppBytes
<1>4. CASE fromApp[1] # 5
  <2>1. EndHandler /\ toApp' = <<>>
    BY <1>1, <1>4 DEF Greeting
  <2> QED
    BY <1>2, <2>1, EndStep
<1>5. CASE fromApp[1] = 5 /\ ~\E i \in 3..n : fromApp[i] = 0
  <2>1. EndHandler /\ toApp' = <<>> \o <<5, 255>>
    BY <1>1, <1>5 DEF Greeting
  <2>2. toApp' = <<5, 255>>
    BY <2>1
  <2> QED
    BY <1>2, <2>1, <2>2, EndStep
<1>6. CASE fromApp[1] = 5 /\ \E i \in 3..n : fromApp[i] = 0
  <2>1. /\ fromApp' = After(fromApp, n) /\ toApp' = <<>> \o <<5, 0>>
        /\ spc' = "request" /\ upConn' = "none"
    BY <1>1, <1>6 DEF Greeting
  <2>2. toApp' = <<5, 0>>
    BY <2>1
  <2>3. n = k + 2 /\ k + 2 <= Len(w)
    BY <1>2, <1>3
  <2>4. 0 \in {socksApp.methods[i] : i \in DOMAIN socksApp.methods}
    <3>1. PICK i \in 3..n : fromApp[i] = 0
      BY <1>6
    <3> DEFINE j == i - 2
    <3>2. j \in 1..k /\ 2 + j = i /\ 2 + j <= Len(w)
      BY <1>3, <2>3
    <3> HIDE DEF j
    <3>3. socksApp.methods[j] = 0
      BY <1>3, <3>1, <3>2
    <3>4. DOMAIN socksApp.methods = 1..k
      <4>1. socksApp.methods \in Seq(Octets)
        BY <1>1, SocksPeers DEF IsApp
      <4> QED
        BY <4>1, LenProperties
    <3> QED
      BY <3>2, <3>3, <3>4
  <2> HIDE DEF n
  <2>5. AtRequest'
    <3>1. Greeted'
      BY <1>1, <1>2, <2>3, <2>4 DEF Greeted
    <3>2. (fromApp = RequestOf(socksApp))'
      BY <1>1, <1>2, <2>1, <2>3 DEF RequestOf
    <3> QED
      BY <2>1, <2>2, <3>1, <3>2 DEF AtRequest
  <2> QED
    BY <1>1, <1>2, <2>1, <2>5 DEF SocksIInv
<1> QED
  BY <1>4, <1>5, <1>6

(* The request stays where it is until the core has been dialled.          *)
LEMMA RequestStep ==
  ASSUME SocksIInv, Request5
  PROVE  SocksIInv'
<1>1. AtRequest /\ readable(fromApp) /\ UNCHANGED <<socksApp, fromApp>> /\ toApp = <<5, 0>>
  BY DEF Request5, SocksIInv, AtRequest
<1>2. CASE fromApp[1] # 5 \/ fromApp[2] # 1
  BY <1>1, <1>2, EndStep DEF Request5
<1>3. CASE ~(fromApp[1] # 5 \/ fromApp[2] # 1) /\ Refuse
  BY <1>1, <1>3, RefuseStep
<1>4. CASE /\ ~(fromApp[1] # 5 \/ fromApp[2] # 1)
           /\ socksCore' \in CoreReplies /\ fromCore' = CoreSends(socksCore')
           /\ toCore' = <<5, 1, 0>> /\ upConn' = "open" /\ spc' = "coreGreeting"
           /\ UNCHANGED toApp
  <2>1. AtCoreGreeting'
    BY <1>1, <1>4 DEF AtRequest, AtCoreGreeting, Greeted, Dialled
  <2> QED
    BY <1>1, <1>4, <2>1 DEF SocksIInv
<1> QED
  BY <1>2, <1>3, <1>4 DEF Request5

(* The core is asked for the application's destination.                    *)
LEMMA CoreGreetingStep ==
  ASSUME SocksIInv, CoreGreeting
  PROVE  SocksIInv'
<1>1. /\ AtCoreGreeting /\ socksApp \in Apps /\ toApp = <<5, 0>>
      /\ Len(fromCore) >= 2 /\ UNCHANGED <<socksApp, socksCore>>
  BY DEF CoreGreeting, SocksIInv, AtCoreGreeting
<1>2. CASE Refuse
  BY <1>1, <1>2, RefuseStep
<1>3. CASE /\ toCore' = toCore \o <<5, 1, 0>> \o hostField(fromApp) \o PutU16(portOf(fromApp))
           /\ fromCore' = After(fromCore, 2)
           /\ fromApp' = After(fromApp, messageLen(fromApp))
           /\ spc' = "coreReply" /\ UNCHANGED <<toApp, upConn>>
  <2>1. /\ fromApp = RequestOf(socksApp) /\ readable(RequestOf(socksApp))
        /\ Len(socksApp.methods) + 2 <= Len(AppSends(socksApp))
    BY <1>1 DEF AtCoreGreeting, Greeted
  <2>2. /\ fromApp[2] = socksApp.cmd /\ hostField(fromApp) = socksApp.canonical
        /\ portOf(fromApp) = socksApp.port
        /\ After(fromApp, messageLen(fromApp)) = After(AppSends(socksApp), Len(AppHead(socksApp)))
    BY <1>1, <2>1, Destination
  <2>3. Forwarded'
    BY <1>1, <1>3, <2>2 DEF Forwarded, AtCoreGreeting
  <2>4. Greeted' /\ Dialled'
    BY <1>1, <1>3 DEF AtCoreGreeting, Greeted, Dialled
  <2>5. (fromCore = ReplyOf(socksCore))' /\ (2 <= Len(CoreSends(socksCore)))'
    <3>1. Len(CoreSends(socksCore)) \in Nat
      BY <1>1, CoreLayout DEF AtCoreGreeting, Dialled, CoreBytes
    <3> QED
      BY <1>1, <1>3, <3>1 DEF AtCoreGreeting, ReplyOf
  <2>6. AtCoreReply'
    BY <1>1, <1>3, <2>3, <2>4, <2>5 DEF AtCoreReply
  <2> QED
    BY <1>1, <1>3, <2>6 DEF SocksIInv
<1> QED
  BY <1>2, <1>3 DEF CoreGreeting

(* The core's reply is read to its end, and no further.                    *)
LEMMA CoreReplyStep ==
  ASSUME SocksIInv, CoreReply
  PROVE  SocksIInv'
<1>1. /\ AtCoreReply /\ socksApp \in Apps /\ toApp = <<5, 0>>
      /\ UNCHANGED <<socksApp, socksCore, fromApp, toCore>>
  BY DEF CoreReply, SocksIInv, AtCoreReply
<1>2. CASE Refuse
  BY <1>1, <1>2, RefuseStep
<1>3. CASE /\ ~(fromCore[1] # 5 \/ fromCore[2] # 0 \/ replyLen(fromCore) = Unusable)
           /\ replyLen(fromCore) <= Len(fromCore)
           /\ fromCore' = After(fromCore, replyLen(fromCore))
           /\ spc' = "answer" /\ UNCHANGED <<toApp, upConn>>
  <2>1. /\ fromCore = ReplyOf(socksCore) /\ socksCore \in CoreReplies
        /\ 2 <= Len(CoreSends(socksCore))
    BY <1>1 DEF AtCoreReply, Dialled
  <2>2. /\ fromCore[2] = socksCore.rep
        /\ After(fromCore, replyLen(fromCore)) = After(CoreSends(socksCore), Len(CoreHead(socksCore)))
    BY <1>3, <2>1, Granting
  <2>3. AtAnswer'
    BY <1>1, <1>3, <2>2 DEF AtCoreReply, AtAnswer, Greeted, Forwarded, Dialled, CoreGranted
  <2> QED
    BY <1>1, <1>3, <2>3 DEF SocksIInv
<1> QED
  BY <1>2, <1>3 DEF CoreReply

(* The application is told of success behind the grant.                    *)
LEMMA AnswerStep ==
  ASSUME SocksIInv, Answer5
  PROVE  SocksIInv'
<1>1. AtAnswer /\ socksApp \in Apps
  BY DEF Answer5, SocksIInv
<1>2. AtSplice' /\ spc' = "splice" /\ UNCHANGED socksApp
  BY <1>1 DEF Answer5, AtAnswer, AtSplice, Greeted, Forwarded, Dialled, CoreGranted
<1> QED
  BY <1>1, <1>2 DEF SocksIInv

(* A peer that leaves ends the handler.                                    *)
LEMMA LostStep ==
  ASSUME SocksIInv, AppLost \/ CoreLost
  PROVE  SocksIInv'
<1>1. CASE AppLost
  <2>1. toApp = <<>> \/ toApp = <<5, 0>>
    BY <1>1 DEF AppLost, SocksIInv, AtGreeting, AtRequest, AtAnswer
  <2> QED
    BY <1>1, <2>1, EndStep DEF AppLost
<1>2. CASE CoreLost
  <2>1. toApp = <<5, 0>>
    BY <1>2 DEF CoreLost, SocksIInv, AtCoreGreeting, AtCoreReply
  <2> QED
    BY <1>2, <2>1, RefuseStep DEF CoreLost
<1> QED
  BY <1>1, <1>2

(* One case per step of the handler.                                       *)
LEMMA SocksSteps == SocksIInv /\ [SocksNext]_socksVars => SocksIInv'
<1> SUFFICES ASSUME SocksIInv, [SocksNext]_socksVars PROVE SocksIInv'
  OBVIOUS
<1>1. CASE SocksNext
  BY <1>1, GreetingStep, RequestStep, CoreGreetingStep, CoreReplyStep, AnswerStep, LostStep
     DEF SocksNext
<1>2. CASE UNCHANGED socksVars
  BY <1>2 DEF socksVars, SocksIInv, AtGreeting, AtRequest, AtCoreGreeting, AtCoreReply, AtAnswer,
       AtSplice, AtClosed, Greeted, Forwarded, Dialled, CoreGranted
<1> QED
  BY <1>1, <1>2

(* The inductive invariant says what is asked of a dialogue.               *)
LEMMA SocksImplied == SocksIInv => SocksInv
  BY DEF SocksIInv, SocksInv, TunnelAligned, ToldTruly, AtSplice, AtClosed, Greeted, Forwarded,
     Dialled, CoreGranted

(* For any applications and cores that send the messages of RFC 1928 and   *)
(* leave at any byte: a tunnel of serveSocks5 begins with the first byte   *)
(* of payload on both sides and leads to the destination the application   *)
(* named; the application is told of success only behind the core's grant, *)
(* and a handler that ends before leaves no connection to the core.        *)
THEOREM SocksCorrect == SocksSpec => []SocksInv
  BY SocksInitial, SocksSteps, SocksImplied, PTL DEF SocksSpec

-----------------------------------------------------------------------------
(* DnsResolver                                                             *)

(* g[0], ... g[N]: x, and what becomes of it step by step.                 *)
StepsOf(step, S) == step \in [Nat -> [S -> S]]
Iterated(g, N, S, x, step) ==
  g \in [0..N -> S] /\ g[0] = x /\ \A n \in 1..N : g[n] = step[n][g[n - 1]]

(* Steps can be taken any number of times.                                 *)
LEMMA Iterates ==
  ASSUME NEW N, N \in Nat, NEW S, NEW x, x \in S, NEW step, StepsOf(step, S)
  PROVE  \E g : Iterated(g, N, S, x, step)
<1>0. step \in [Nat -> [S -> S]]
  BY DEF StepsOf
<1> DEFINE P(m) == \E g \in [0..m -> S] : g[0] = x /\ \A n \in 1..m : g[n] = step[n][g[n - 1]]
           Failing == {m \in Nat : ~P(m)}
<1> SUFFICES ASSUME Failing # {} PROVE FALSE
  <2>1. P(N) => \E g : Iterated(g, N, S, x, step)
    BY DEF Iterated
  <2> QED
    BY <2>1, Zenon
<1>1. Failing \in SUBSET Nat
  OBVIOUS
<1>2. PICK m \in Failing : \A k \in Failing : m <= k
  BY <1>1, LeastNumber
<1>3. m \in Nat /\ ~P(m)
  BY <1>2
<1>4. m # 0
  <2>1. P(0)
    <3> DEFINE g == [n \in 0..0 |-> x]
    <3>1. g \in [0..0 -> S] /\ g[0] = x /\ \A n \in 1..0 : g[n] = step[n][g[n - 1]]
      OBVIOUS
    <3> QED
      BY <3>1
  <2> QED
    BY <1>3, <2>1
<1>5. m - 1 \in Nat /\ m - 1 \notin Failing
  <2>1. m - 1 \in Nat /\ ~(m <= m - 1)
    BY <1>3, <1>4
  <2> HIDE DEF Failing
  <2> QED
    BY <1>2, <2>1
<1>6. P(m - 1)
  BY <1>5, Zenon
<1>7. PICK g \in [0..(m - 1) -> S] :
        g[0] = x /\ \A n \in 1..(m - 1) : g[n] = step[n][g[n - 1]]
  BY <1>6
<1> DEFINE h == [n \in 0..m |-> IF n = m THEN step[m][g[m - 1]] ELSE g[n]]
<1>8. g[m - 1] \in S /\ step[m] \in [S -> S]
  BY <1>0, <1>3, <1>5
<1>9. h \in [0..m -> S] /\ h[0] = x /\ h[m] = step[m][h[m - 1]]
  BY <1>3, <1>4, <1>5, <1>7, <1>8
<1>10. ASSUME NEW n \in 1..(m - 1) PROVE h[n] = step[n][h[n - 1]]
  <2>1. h[n] = g[n] /\ h[n - 1] = g[n - 1]
    BY <1>3
  <2> QED
    BY <1>7, <2>1
<1> HIDE DEF h
<1>11. \A n \in 1..m : n = m \/ n \in 1..(m - 1)
  BY <1>3
<1>12. P(m)
  BY <1>9, <1>10, <1>11
<1> QED
  BY <1>3, <1>12

(* The parts of s, one more after each other.                              *)
Chain(g, s, S) ==
  /\ g \in [0..Len(s) -> Seq(S)] /\ g[0] = <<>>
  /\ \A n \in 1..Len(s) : g[n] = g[n - 1] \o s[n]

(* There is such a chain.                                                  *)
LEMMA ChainExists ==
  ASSUME NEW S, NEW s \in Seq(Seq(S))
  PROVE  \E g : Chain(g, s, S)
<1> DEFINE step == [n \in Nat |-> [v \in Seq(S) |-> IF n \in 1..Len(s) THEN v \o s[n] ELSE v]]
<1>1. Len(s) \in Nat /\ <<>> \in Seq(S)
  BY LenProperties, EmptySeq
<1>2. \A n \in 1..Len(s) : s[n] \in Seq(S)
  BY <1>1, ElementOfSeq
<1>3. \A n \in 1..Len(s), v \in Seq(S) : v \o s[n] \in Seq(S)
  BY <1>2, ConcatProperties
<1> DEFINE T == Seq(S)
<1> HIDE DEF T
<1>4. step \in [Nat -> [Seq(S) -> Seq(S)]]
  <2>1. \A n \in 1..Len(s), v \in T : v \o s[n] \in T
    BY <1>3, Zenon DEF T
  <2>2. [n \in Nat |-> [v \in T |-> IF n \in 1..Len(s) THEN v \o s[n] ELSE v]] \in [Nat -> [T -> T]]
    BY <2>1, Zenon
  <2> QED
    BY <2>2, Zenon DEF T
<1>5. \A n \in 1..Len(s), v \in Seq(S) : step[n][v] = v \o s[n]
  <2>1. \A n \in 1..Len(s) : n \in Nat
    BY <1>1
  <2>2. \A n \in 1..Len(s), v \in T :
          [k \in Nat |-> [w \in T |-> IF k \in 1..Len(s) THEN w \o s[k] ELSE w]][n][v] = v \o s[n]
    BY <2>1, Zenon
  <2> QED
    BY <2>2, Zenon DEF T
<1> HIDE DEF step
<1>6. PICK g : Iterated(g, Len(s), Seq(S), <<>>, step)
  BY <1>1, <1>4, Iterates DEF StepsOf
<1>7. ASSUME NEW n \in 1..Len(s) PROVE g[n] = g[n - 1] \o s[n]
  <2>1. n - 1 \in 0..Len(s)
    BY <1>1
  <2>2. g[n - 1] \in Seq(S)
    BY <1>6, <2>1 DEF Iterated
  <2> QED
    BY <1>5, <1>6, <2>2 DEF Iterated
<1> QED
  BY <1>6, <1>7 DEF Chain, Iterated

(* Its last member is the flattened sequence.                              *)
LEMMA ChainResult ==
  ASSUME NEW S, NEW s \in Seq(Seq(S)), NEW g, Chain(g, s, S)
  PROVE  FlattenSeq(s) = g[Len(s)]
<1>1. Len(s) \in Nat /\ \A n \in 1..Len(s) : s[n] \in Seq(S)
  BY LenProperties, ElementOfSeq
<1>2. CASE Len(s) = 0
  <2>1. s = <<>> /\ FlattenSeq(s) = s
    BY <1>2, EmptySeq DEF FlattenSeq
  <2> QED
    BY <1>2, <2>1 DEF Chain
<1>3. CASE Len(s) # 0
  <2> DEFINE Def(f) == f = [i \in 1..Len(s) |-> IF i = 1 THEN s[i] ELSE f[i - 1] \o s[i]]
             F == CHOOSE f : Def(f)
             f0 == [i \in 1..Len(s) |-> g[i]]
  <2>1. FlattenSeq(s) = F[Len(s)]
    BY <1>3, Zenon DEF FlattenSeq
  <2>2. ASSUME NEW i \in 1..Len(s) PROVE f0[i] = IF i = 1 THEN s[i] ELSE f0[i - 1] \o s[i]
    <3>1. g[i] = g[i - 1] \o s[i] /\ g[0] = <<>> /\ s[i] \in Seq(S)
      BY <1>1 DEF Chain
    <3>2. CASE i = 1
      <4>1. g[i] = <<>> \o s[i]
        <5>1. i - 1 = 0
          BY <3>2
        <5> QED
          BY <3>1, <5>1, Zenon
      <4>2. <<>> \o s[i] = s[i]
        BY <3>1, ConcatEmptySeq
      <4> QED
        BY <3>2, <4>1, <4>2
    <3>3. CASE i # 1
      <4>1. i - 1 \in 1..Len(s)
        BY <1>1, <3>3
      <4> QED
        BY <3>1, <3>3, <4>1
    <3> QED
      BY <3>2, <3>3
  <2>3. f0 = [i \in 1..Len(s) |-> f0[i]]
    OBVIOUS
  <2> HIDE DEF f0
  <2>4. Def(f0)
    BY <2>2, <2>3
  <2>5. Def(F)
    BY <2>4, Zenon
  <2> HIDE DEF F
  <2>6. F = [i \in 1..Len(s) |-> IF i = 1 THEN s[i] ELSE F[i - 1] \o s[i]]
    BY <2>5
  <2> HIDE DEF Def
  <2> DEFINE Differ == {i \in Nat : i \in 1..Len(s) /\ F[i] # g[i]}
  <2>7. Differ = {}
    <3> SUFFICES ASSUME Differ # {} PROVE FALSE
      BY Zenon
    <3>1. Differ \in SUBSET Nat
      OBVIOUS
    <3>2. PICK i \in Differ : \A k \in Differ : i <= k
      BY <3>1, LeastNumber
    <3>3. i \in 1..Len(s) /\ F[i] # g[i] /\ i \in Nat
      BY <3>2
    <3>4. g[i] = g[i - 1] \o s[i] /\ g[0] = <<>> /\ s[i] \in Seq(S)
      BY <1>1, <3>3 DEF Chain
    <3>5. CASE i = 1
      <4>1. g[i] = <<>> \o s[i]
        <5>1. i - 1 = 0
          BY <3>5
        <5> QED
          BY <3>4, <5>1, Zenon
      <4>2. <<>> \o s[i] = s[i]
        BY <3>4, ConcatEmptySeq
      <4> QED
        BY <2>6, <3>3, <3>5, <4>1, <4>2
    <3>6. CASE i # 1
      <4>1. i - 1 \in 1..Len(s) /\ i - 1 \in Nat /\ ~(i <= i - 1)
        BY <1>1, <3>3, <3>6
      <4>2. F[i - 1] = g[i - 1]
        BY <3>2, <4>1
      <4>3. F[i] = F[i - 1] \o s[i]
        BY <2>6, <3>3, <3>6
      <4> QED
        BY <3>3, <3>4, <4>2, <4>3
    <3> QED
      BY <3>5, <3>6
  <2>8. Len(s) \in 1..Len(s) /\ Len(s) \in Nat
    BY <1>1, <1>3
  <2> QED
    BY <2>1, <2>7, <2>8
<1> QED
  BY <1>2, <1>3

(* The first j parts.                                                      *)
Flat(s, j) == FlattenSeq(SubSeq(s, 1, j))

(* Flattening takes the parts one after the other.                         *)
LEMMA Flattened ==
  ASSUME NEW S, NEW s \in Seq(Seq(S))
  PROVE  /\ Len(s) \in Nat /\ Flat(s, 0) = <<>> /\ Flat(s, Len(s)) = FlattenSeq(s)
         /\ \A j \in 0..Len(s) : Flat(s, j) \in Seq(S)
         /\ \A j \in 1..Len(s) : s[j] \in Seq(S) /\ Flat(s, j) = Flat(s, j - 1) \o s[j]
<1>1. Len(s) \in Nat /\ \A n \in 1..Len(s) : s[n] \in Seq(S)
  BY LenProperties, ElementOfSeq
<1>2. PICK g : Chain(g, s, S)
  BY ChainExists
<1>3. ASSUME NEW j \in 0..Len(s) PROVE Flat(s, j) = g[j]
  <2> DEFINE p == SubSeq(s, 1, j)
             h == [n \in 0..j |-> g[n]]
  <2>0. 1 \in Int /\ j \in Int /\ j \in Nat /\ \A i \in 1..j : s[i] \in Seq(S)
    BY <1>1
  <2>1. /\ p \in Seq(Seq(S)) /\ Len(p) = (IF 1 <= j THEN j - 1 + 1 ELSE 0)
        /\ \A i \in 1..(j - 1 + 1) : p[i] = s[1 + i - 1]
    BY <2>0, SubSeqProperties
  <2> HIDE DEF p
  <2>2. Len(p) = j
    BY <2>0, <2>1
  <2>3. \A i \in 1..j : p[i] = s[i]
    BY <2>0, <2>1
  <2>4. h \in [0..j -> Seq(S)] /\ h[0] = <<>>
    BY <1>1, <1>2 DEF Chain
  <2>5. ASSUME NEW n \in 1..j PROVE h[n] = h[n - 1] \o p[n]
    <3>1. h[n] = g[n] /\ h[n - 1] = g[n - 1] /\ n \in 1..Len(s)
      BY <1>1
    <3> QED
      BY <1>2, <2>3, <3>1 DEF Chain
  <2>6. h[j] = g[j]
    BY <2>0
  <2> HIDE DEF h
  <2>7. Chain(h, p, S)
    BY <2>2, <2>4, <2>5 DEF Chain
  <2>8. FlattenSeq(p) = h[j]
    BY <2>1, <2>2, <2>7, ChainResult
  <2> QED
    BY <2>6, <2>8 DEF p, Flat
<1>4. FlattenSeq(s) = g[Len(s)]
  BY <1>2, ChainResult
<1>5. 0 \in 0..Len(s) /\ Len(s) \in 0..Len(s)
  BY <1>1
<1>6. \A j \in 0..Len(s) : Flat(s, j) \in Seq(S)
  BY <1>2, <1>3 DEF Chain
<1>7. ASSUME NEW j \in 1..Len(s) PROVE Flat(s, j) = Flat(s, j - 1) \o s[j]
  <2>1. j \in 0..Len(s) /\ j - 1 \in 0..Len(s)
    BY <1>1
  <2> QED
    BY <1>2, <1>3, <2>1 DEF Chain
<1>8. Flat(s, 0) = <<>>
  BY <1>2, <1>3, <1>5 DEF Chain
<1> QED
  BY <1>1, <1>3, <1>4, <1>5, <1>6, <1>7, <1>8

(* What comes out of it is of one kind.                                    *)
LEMMA FlattenedType ==
  ASSUME NEW S, NEW s, s \in Seq(Seq(S))
  PROVE  FlattenSeq(s) \in Seq(S)
<1>1. /\ Len(s) \in Nat /\ Flat(s, Len(s)) = FlattenSeq(s)
      /\ \A j \in 0..Len(s) : Flat(s, j) \in Seq(S)
  BY Flattened
<1>2. Len(s) \in 0..Len(s)
  BY <1>1
<1> QED
  BY <1>1, <1>2

(* u is the beginning of v.                                                *)
BeginsWith(v, u) ==
  /\ Len(u) \in Nat /\ Len(v) \in Nat /\ Len(u) <= Len(v)
  /\ \A k \in 1..Len(u) : v[k] = u[k]

(* What comes first stays where it is.                                     *)
LEMMA FlatGrows ==
  ASSUME NEW S, NEW s, s \in Seq(Seq(S)), NEW i, i \in 0..Len(s), NEW j, j \in 0..Len(s), i <= j
  PROVE  BeginsWith(Flat(s, j), Flat(s, i))
<1>1. /\ Len(s) \in Nat /\ \A n \in 0..Len(s) : Flat(s, n) \in Seq(S)
      /\ \A n \in 1..Len(s) : s[n] \in Seq(S) /\ Flat(s, n) = Flat(s, n - 1) \o s[n]
  BY Flattened
<1>2. \A n \in 0..Len(s) : Len(Flat(s, n)) \in Nat
  BY <1>1, LenProperties
<1> DEFINE Same(n) == /\ Len(Flat(s, i)) <= Len(Flat(s, n))
                      /\ \A k \in 1..Len(Flat(s, i)) : Flat(s, n)[k] = Flat(s, i)[k]
           Failing == {n \in Nat : i <= n /\ n <= Len(s) /\ ~Same(n)}
<1>3. Failing = {}
  <2> SUFFICES ASSUME Failing # {} PROVE FALSE
    BY Zenon
  <2>1. Failing \in SUBSET Nat
    OBVIOUS
  <2>2. PICK n \in Failing : \A k \in Failing : n <= k
    BY <2>1, LeastNumber
  <2>3. n \in Nat /\ i <= n /\ n <= Len(s) /\ ~Same(n)
    BY <2>2
  <2>4. n # i
    BY <1>2, <2>3
  <2>5. n - 1 \in Nat /\ i <= n - 1 /\ n - 1 <= Len(s) /\ ~(n <= n - 1) /\ n \in 1..Len(s)
        /\ n - 1 \in 0..Len(s)
    BY <1>1, <2>3, <2>4
  <2>6. Same(n - 1)
    <3> HIDE DEF Same
    <3> QED
      BY <2>2, <2>5
  <2> DEFINE u == Flat(s, n - 1)
             v == s[n]
  <2>7. u \in Seq(S) /\ v \in Seq(S) /\ Flat(s, n) = u \o v
    BY <1>1, <2>5
  <2>8. /\ Len(u \o v) = Len(u) + Len(v) /\ Len(u) \in Nat /\ Len(v) \in Nat
        /\ \A k \in 1..(Len(u) + Len(v)) : (u \o v)[k] = IF k <= Len(u) THEN u[k] ELSE v[k - Len(u)]
    <3> HIDE DEF u, v
    <3>1. /\ Len(u \o v) = Len(u) + Len(v)
          /\ \A k \in 1..(Len(u) + Len(v)) : (u \o v)[k] = IF k <= Len(u) THEN u[k] ELSE v[k - Len(u)]
      BY <2>7, ConcatProperties, ZenonT(30)
    <3>2. Len(u) \in Nat /\ Len(v) \in Nat
      BY <2>7, LenProperties, ZenonT(30)
    <3> QED
      BY <3>1, <3>2, ZenonT(30)
  <2>9. Len(Flat(s, i)) \in Nat
    BY <1>2
  <2> HIDE DEF u, v
  <2>10. Len(Flat(s, i)) <= Len(u) /\ \A k \in 1..Len(Flat(s, i)) : u[k] = Flat(s, i)[k]
    BY <2>6 DEF u
  <2>11. Len(Flat(s, i)) <= Len(u \o v)
    BY <2>8, <2>9, <2>10
  <2>12. ASSUME NEW k \in 1..Len(Flat(s, i)) PROVE (u \o v)[k] = Flat(s, i)[k]
    <3>1. k \in 1..(Len(u) + Len(v)) /\ k <= Len(u)
      BY <2>8, <2>9, <2>10
    <3> QED
      BY <2>8, <2>10, <3>1
  <2> QED
    BY <2>3, <2>7, <2>11, <2>12
<1>4. j \in Nat /\ j <= Len(s)
  BY <1>1
<1>5. Same(j)
  BY <1>3, <1>4
<1> QED
  BY <1>2, <1>5 DEF BeginsWith

(* Part j of s and where its bytes are.                                    *)
PartPlaced(s, j) ==
  /\ Len(Flat(s, j - 1)) \in Nat /\ Len(s[j]) \in Nat /\ Len(FlattenSeq(s)) \in Nat
  /\ Len(Flat(s, j)) = Len(Flat(s, j - 1)) + Len(s[j])
  /\ Len(Flat(s, j)) <= Len(FlattenSeq(s))
  /\ \A k \in 1..Len(s[j]) : FlattenSeq(s)[Len(Flat(s, j - 1)) + k] = s[j][k]

(* The parts are placed one after the other.                               *)
LEMMA FlatPart ==
  ASSUME NEW S, NEW s, s \in Seq(Seq(S)), NEW j, j \in 1..Len(s)
  PROVE  PartPlaced(s, j)
<1>1. /\ Len(s) \in Nat /\ Flat(s, Len(s)) = FlattenSeq(s)
      /\ \A n \in 0..Len(s) : Flat(s, n) \in Seq(S)
      /\ \A n \in 1..Len(s) : s[n] \in Seq(S) /\ Flat(s, n) = Flat(s, n - 1) \o s[n]
  BY Flattened
<1>2. j \in 0..Len(s) /\ j - 1 \in 0..Len(s) /\ Len(s) \in 0..Len(s) /\ j <= Len(s)
  BY <1>1
<1> DEFINE u == Flat(s, j - 1)
           v == s[j]
           w == FlattenSeq(s)
<1>3. u \in Seq(S) /\ v \in Seq(S) /\ Flat(s, j) = u \o v
  BY <1>1, <1>2
<1>4. /\ Len(u \o v) = Len(u) + Len(v) /\ Len(u) \in Nat /\ Len(v) \in Nat
      /\ \A k \in 1..(Len(u) + Len(v)) : (u \o v)[k] = IF k <= Len(u) THEN u[k] ELSE v[k - Len(u)]
  BY <1>3, ConcatProperties, LenProperties
<1>5. BeginsWith(Flat(s, Len(s)), Flat(s, j))
  BY <1>2, FlatGrows
<1> HIDE DEF u, v
<1>6. Len(w) \in Nat /\ Len(u \o v) <= Len(w) /\ \A k \in 1..Len(u \o v) : w[k] = (u \o v)[k]
  BY <1>1, <1>3, <1>5 DEF BeginsWith
<1> HIDE DEF w
<1>7. ASSUME NEW k \in 1..Len(v) PROVE w[Len(u) + k] = v[k]
  <2> DEFINE m == Len(u) + k
  <2>1. m \in 1..(Len(u) + Len(v)) /\ ~(m <= Len(u)) /\ m - Len(u) = k
    BY <1>4
  <2> HIDE DEF m
  <2>2. w[m] = (u \o v)[m] /\ (u \o v)[m] = v[m - Len(u)]
    BY <1>4, <1>6, <2>1
  <2> QED
    BY <2>1, <2>2 DEF m
<1> QED
  BY <1>3, <1>4, <1>6, <1>7 DEF u, v, w, PartPlaced

(* As many as there are parts, if none has more than one.                  *)
LEMMA FlatShort ==
  ASSUME NEW S, NEW s, s \in Seq(Seq(S)), \A j \in 1..Len(s) : Len(s[j]) <= 1
  PROVE  Len(FlattenSeq(s)) <= Len(s)
<1>1. /\ Len(s) \in Nat /\ Flat(s, Len(s)) = FlattenSeq(s) /\ Flat(s, 0) = <<>>
  BY Flattened
<1> DEFINE Failing == {n \in Nat : n <= Len(s) /\ ~(Len(Flat(s, n)) <= n)}
<1>2. Failing = {}
  <2> SUFFICES ASSUME Failing # {} PROVE FALSE
    BY Zenon
  <2>1. Failing \in SUBSET Nat
    OBVIOUS
  <2>2. PICK n \in Failing : \A k \in Failing : n <= k
    BY <2>1, LeastNumber
  <2>3. n \in Nat /\ n <= Len(s) /\ ~(Len(Flat(s, n)) <= n)
    BY <2>2
  <2>4. n # 0
    <3>1. Len(Flat(s, 0)) = 0
      BY <1>1
    <3> QED
      BY <2>3, <3>1
  <2>5. n - 1 \in Nat /\ n - 1 <= Len(s) /\ ~(n <= n - 1) /\ n \in 1..Len(s)
    BY <1>1, <2>3, <2>4
  <2>6. Len(Flat(s, n - 1)) <= n - 1
    BY <2>2, <2>5
  <2>7. /\ Len(Flat(s, n - 1)) \in Nat /\ Len(s[n]) \in Nat
        /\ Len(Flat(s, n)) = Len(Flat(s, n - 1)) + Len(s[n])
    BY <2>5, FlatPart DEF PartPlaced
  <2>8. Len(s[n]) <= 1
    BY <2>5
  <2> DEFINE a == Len(Flat(s, n - 1))
             b == Len(s[n])
             c == Len(Flat(s, n))
  <2>9. a <= n - 1 /\ a \in Nat /\ b \in Nat /\ c = a + b /\ b <= 1 /\ n \in Nat /\ ~(c <= n)
    BY <2>3, <2>6, <2>7, <2>8
  <2> HIDE DEF a, b, c, Failing
  <2> QED
    BY <2>9
<1>3. Len(Flat(s, Len(s))) <= Len(s)
  BY <1>1, <1>2
<1> QED
  BY <1>1, <1>3

(* A label begins at off, and the walk over labels as a function of where  *)
(* it begins, for all of the last m bytes.                                 *)
Goes(pkt, off, longest) ==
  off < Len(pkt) /\ At(pkt, off) > 0 /\ At(pkt, off) <= longest
LastBytes(pkt, m) == {off \in Nat : off + m >= Len(pkt)}
IsWalk(g, D, pkt, longest) ==
  g = [off \in D |-> IF Goes(pkt, off, longest) THEN g[off + 1 + At(pkt, off)] ELSE off]

(* The walk is defined.                                                    *)
LEMMA WalkDefined ==
  ASSUME NEW pkt, pkt \in Seq(Octets), NEW longest, NEW m, m \in Nat
  PROVE  \E g : IsWalk(g, LastBytes(pkt, m), pkt, longest)
<1>1. Len(pkt) \in Nat /\ \A off \in Nat : off < Len(pkt) => At(pkt, off) \in Nat
  <2>1. Len(pkt) \in Nat /\ \A i \in 1..Len(pkt) : pkt[i] \in Octets
    BY LenProperties, ElementOfSeq
  <2>2. \A x \in Octets : x \in Nat
    BY DEF Octets
  <2> QED
    BY <2>1, <2>2 DEF At
<1> DEFINE P(n) == \E g : IsWalk(g, LastBytes(pkt, n), pkt, longest)
           Failing == {n \in Nat : ~P(n)}
<1> SUFFICES ASSUME Failing # {} PROVE FALSE
  BY Zenon
<1>2. Failing \in SUBSET Nat
  OBVIOUS
<1>3. PICK n \in Failing : \A k \in Failing : n <= k
  BY <1>2, LeastNumber
<1>4. n \in Nat /\ ~P(n)
  BY <1>3
<1>5. n # 0
  <2>1. P(0)
    <3> DEFINE g == [off \in LastBytes(pkt, 0) |-> off]
    <3>1. \A off \in LastBytes(pkt, 0) : ~Goes(pkt, off, longest)
      BY <1>1 DEF LastBytes, Goes
    <3>2. IsWalk(g, LastBytes(pkt, 0), pkt, longest)
      BY <3>1 DEF IsWalk
    <3> QED
      BY <3>2
  <2> QED
    BY <1>4, <2>1
<1>6. n - 1 \in Nat /\ n - 1 \notin Failing
  <2>1. n - 1 \in Nat /\ ~(n <= n - 1)
    BY <1>4, <1>5
  <2> HIDE DEF Failing
  <2> QED
    BY <1>3, <2>1
<1>7. P(n - 1)
  BY <1>6, Zenon
<1>8. PICK g : IsWalk(g, LastBytes(pkt, n - 1), pkt, longest)
  BY <1>7
<1> DEFINE D == LastBytes(pkt, n)
           E == LastBytes(pkt, n - 1)
           to(off) == off + 1 + At(pkt, off)
           h == [off \in D |-> IF off \in E THEN g[off]
                               ELSE IF Goes(pkt, off, longest) THEN g[to(off)] ELSE off]
<1>9. ASSUME NEW off \in D, Goes(pkt, off, longest)
      PROVE  to(off) \in E /\ to(off) \in D
  <2>1. off \in Nat /\ off + n >= Len(pkt) /\ At(pkt, off) \in Nat
    BY <1>1, <1>9 DEF LastBytes, Goes
  <2> DEFINE x == At(pkt, off)
  <2> HIDE DEF x
  <2>2. x \in Nat
    BY <2>1 DEF x
  <2>3. off + 1 + x \in Nat /\ off + 1 + x + (n - 1) >= Len(pkt) /\ off + 1 + x + n >= Len(pkt)
    BY <1>1, <1>4, <2>1, <2>2
  <2> QED
    BY <2>3 DEF LastBytes, x
<1>10. E \subseteq D
  BY <1>1, <1>4 DEF LastBytes
<1>11. \A off \in E : g[off] = IF Goes(pkt, off, longest) THEN g[to(off)] ELSE off
  BY <1>8, Zenon DEF IsWalk
<1> HIDE DEF D, E, to
<1>12. ASSUME NEW off \in D PROVE h[off] = IF Goes(pkt, off, longest) THEN h[to(off)] ELSE off
  <2>1. CASE Goes(pkt, off, longest)
    <3>1. to(off) \in E /\ to(off) \in D
      BY <1>9, <2>1
    <3>2. h[to(off)] = g[to(off)]
      BY <3>1, Zenon
    <3>3. h[off] = g[to(off)]
      BY <1>11, <2>1, Zenon
    <3> QED
      BY <2>1, <3>2, <3>3, Zenon
  <2>2. CASE ~Goes(pkt, off, longest)
    BY <1>11, <2>2, Zenon
  <2> QED
    BY <2>1, <2>2
<1>13. h = [off \in D |-> h[off]]
  BY Zenon
<1> HIDE DEF h
<1>14. h = [off \in D |-> IF Goes(pkt, off, longest) THEN h[to(off)] ELSE off]
  BY <1>12, <1>13
<1>15. P(n)
  BY <1>14, Zenon DEF D, to, IsWalk
<1> QED
  BY <1>4, <1>15

(* skipLabels: over one label, or none.                                    *)
LEMMA LabelsSkipped ==
  ASSUME NEW pkt, pkt \in Seq(Octets), NEW longest, NEW start, start \in Nat
  PROVE  /\ skipLabels(pkt, start, longest) \in Nat /\ start <= skipLabels(pkt, start, longest)
         /\ skipLabels(pkt, start, longest)
              = IF Goes(pkt, start, longest)
                  THEN skipLabels(pkt, start + 1 + At(pkt, start), longest) ELSE start
<1>1. Len(pkt) \in Nat /\ \A off \in Nat : off < Len(pkt) => At(pkt, off) \in Nat
  <2>1. Len(pkt) \in Nat /\ \A i \in 1..Len(pkt) : pkt[i] \in Octets
    BY LenProperties, ElementOfSeq
  <2>2. \A x \in Octets : x \in Nat
    BY DEF Octets
  <2> QED
    BY <2>1, <2>2 DEF At
<1> DEFINE Def(f) == f = [off \in Nat |->
                            IF off < Len(pkt) /\ At(pkt, off) > 0 /\ At(pkt, off) <= longest
                              THEN f[off + 1 + At(pkt, off)] ELSE off]
           F == CHOOSE f : Def(f)
<1>2. \A off : skipLabels(pkt, off, longest) = F[off]
  BY Zenon DEF skipLabels
<1>3. LastBytes(pkt, Len(pkt)) = Nat
  BY <1>1 DEF LastBytes
<1>4. \E f : Def(f)
  <2>1. \E g : IsWalk(g, LastBytes(pkt, Len(pkt)), pkt, longest)
    BY <1>1, WalkDefined
  <2> QED
    BY <1>3, <2>1, Zenon DEF IsWalk, Goes
<1>5. Def(F)
  BY <1>4, Zenon
<1> HIDE DEF F
<1>6. \A off \in Nat : F[off] = IF Goes(pkt, off, longest) THEN F[off + 1 + At(pkt, off)] ELSE off
  BY <1>5, Zenon DEF Goes
<1> HIDE DEF Def
<1> DEFINE Failing == {m \in Nat : \E off \in Nat : off + m >= Len(pkt) /\ ~(F[off] \in Nat /\ off <= F[off])}
<1>7. Failing = {}
  <2> SUFFICES ASSUME Failing # {} PROVE FALSE
    BY Zenon
  <2>1. Failing \in SUBSET Nat
    OBVIOUS
  <2>2. PICK m \in Failing : \A k \in Failing : m <= k
    BY <2>1, LeastNumber
  <2>3. PICK off \in Nat : off + m >= Len(pkt) /\ ~(F[off] \in Nat /\ off <= F[off])
    BY <2>2
  <2>4. m \in Nat
    BY <2>2
  <2>5. Goes(pkt, off, longest) /\ F[off] = F[off + 1 + At(pkt, off)]
    BY <1>6, <2>3
  <2> DEFINE to == off + 1 + At(pkt, off)
  <2>6. At(pkt, off) \in Nat /\ off < Len(pkt)
    BY <1>1, <2>5 DEF Goes
  <2>7. m - 1 \in Nat /\ to \in Nat /\ to + (m - 1) >= Len(pkt) /\ off <= to /\ ~(m <= m - 1)
    BY <1>1, <2>3, <2>4, <2>6
  <2> HIDE DEF to
  <2>8. F[off] = F[to]
    BY <2>5 DEF to
  <2>9. F[to] \in Nat /\ to <= F[to]
    BY <2>2, <2>7
  <2> QED
    BY <2>3, <2>7, <2>8, <2>9
<1>8. F[start] \in Nat /\ start <= F[start]
  BY <1>1, <1>7
<1>9. F[start] = IF Goes(pkt, start, longest) THEN F[start + 1 + At(pkt, start)] ELSE start
  BY <1>6
<1> QED
  BY <1>2, <1>8, <1>9

(* Addresses, and where parseAnswers stands in its loop.                   *)
IP == {ip \in Seq(Octets) : Len(ip) = 4 \/ Len(ip) = 16}
Reading == [off : Nat, ips : Seq(IP)]

(* A byte and a 16-bit number of a packet.                                 *)
LEMMA NumberAt ==
  ASSUME NEW pkt, pkt \in Seq(Octets), NEW k, k \in Nat
  PROVE  /\ Len(pkt) \in Nat
         /\ k < Len(pkt) => At(pkt, k) \in Octets /\ At(pkt, k) \in Nat
         /\ k + 2 <= Len(pkt) => U16(pkt, k) \in U16s /\ U16(pkt, k) \in Nat
<1>1. Len(pkt) \in Nat /\ \A i \in 1..Len(pkt) : pkt[i] \in Octets
  BY LenProperties, ElementOfSeq
<1>2. \A x \in Octets : x \in Nat /\ x <= 255
  BY DEF Octets
<1>3. k < Len(pkt) => At(pkt, k) \in Octets /\ At(pkt, k) \in Nat
  BY <1>1, <1>2 DEF At
<1>4. ASSUME k + 2 <= Len(pkt) PROVE U16(pkt, k) \in U16s /\ U16(pkt, k) \in Nat
  <2> DEFINE x == At(pkt, k)
             y == At(pkt, k + 1)
  <2>1. x \in Octets /\ y \in Octets
    BY <1>1, <1>4 DEF At
  <2> HIDE DEF x, y
  <2>2. 256 * x + y \in Nat /\ 256 * x + y <= 65535
    BY <1>2, <2>1
  <2>3. U16(pkt, k) = 256 * x + y
    BY DEF x, y, U16
  <2> QED
    BY <2>2, <2>3 DEF U16s
<1> QED
  BY <1>1, <1>3, <1>4

(* An owner name ends behind where it begins.                              *)
LEMMA OwnerEnds ==
  ASSUME NEW pkt, pkt \in Seq(Octets), NEW off, off \in Nat
  PROVE  ownerEnd(pkt, off) \in Nat
<1>1. skipLabels(pkt, off, 255) \in Nat
  BY LabelsSkipped
<1> QED
  BY <1>1 DEF ownerEnd

(* A record gives one address or none.                                     *)
LEMMA AddressType ==
  ASSUME NEW typ, NEW data, data \in Seq(Octets)
  PROVE  address(typ, data) \in Seq(IP) /\ Len(address(typ, data)) <= 1
<1>1. CASE (typ = qtypeA /\ Len(data) = 4) \/ (typ = qtypeAAAA /\ Len(data) = 16)
  <2>1. data \in IP /\ address(typ, data) = <<data>>
    BY <1>1 DEF IP, address
  <2> HIDE DEF IP
  <2>2. <<data>> \in Seq(IP) /\ Len(<<data>>) = 1
    BY <2>1
  <2> QED
    BY <2>1, <2>2
<1>2. CASE ~((typ = qtypeA /\ Len(data) = 4) \/ (typ = qtypeAAAA /\ Len(data) = 16))
  <2>1. address(typ, data) = <<>>
    BY <1>2 DEF address
  <2>2. <<>> \in Seq(IP) /\ Len(<<>>) = 0
    BY EmptySeq
  <2> QED
    BY <2>1, <2>2
<1> QED
  BY <1>1, <1>2

(* A round of the loop reads at most one address.                          *)
LEMMA RoundType ==
  ASSUME NEW pkt, pkt \in Seq(Octets), NEW s, s \in Reading
  PROVE  readRecord(pkt, s) \in Reading /\ Len(readRecord(pkt, s).ips) <= Len(s.ips) + 1
<1>1. Len(pkt) \in Nat /\ s.off \in Nat /\ s.ips \in Seq(IP) /\ Len(s.ips) \in Nat
  BY LenProperties DEF Reading
<1> DEFINE fixed == ownerEnd(pkt, s.off)
           data == fixed + 10
           end == data + U16(pkt, fixed + 8)
<1>2. fixed \in Nat
  BY <1>1, OwnerEnds
<1>3. CASE s.off + 10 > Len(pkt) \/ data > Len(pkt) \/ end > Len(pkt)
  <2>1. readRecord(pkt, s) = s
    BY <1>3 DEF readRecord
  <2> QED
    BY <1>1, <2>1
<1>4. CASE ~(s.off + 10 > Len(pkt) \/ data > Len(pkt) \/ end > Len(pkt))
  <2> DEFINE part == SubSeq(pkt, data + 1, end)
             a == address(U16(pkt, fixed), part)
  <2>1. readRecord(pkt, s) = [off |-> end, ips |-> s.ips \o a]
    BY <1>4 DEF readRecord
  <2> HIDE DEF fixed
  <2>2. fixed + 8 \in Nat /\ fixed + 8 + 2 <= Len(pkt)
    BY <1>1, <1>2, <1>4
  <2>3. U16(pkt, fixed + 8) \in Nat
    BY <2>2, NumberAt
  <2>4. end \in Nat /\ data + 1 \in Nat \ {0} /\ data + 1 <= end + 1 /\ end <= Len(pkt)
    BY <1>1, <1>2, <1>4, <2>3
  <2>5. Within(pkt, data + 1, end)
    BY <2>4 DEF Within
  <2>6. part \in Seq(Octets)
    BY <2>5, Slice
  <2> HIDE DEF part
  <2>7. a \in Seq(IP) /\ Len(a) <= 1 /\ Len(a) \in Nat
    BY <2>6, AddressType, LenProperties
  <2> HIDE DEF a, end
  <2>8. s.ips \o a \in Seq(IP) /\ Len(s.ips \o a) = Len(s.ips) + Len(a)
    BY <1>1, <2>7, ConcatProperties
  <2>9. Len(s.ips \o a) <= Len(s.ips) + 1
    BY <1>1, <2>7, <2>8
  <2> QED
    BY <2>1, <2>4, <2>8, <2>9 DEF Reading
<1> QED
  BY <1>3, <1>4

(* Where it stands after every round.                                      *)
Rounds(g, pkt) ==
  /\ g \in [0..U16(pkt, 6) -> Reading]
  /\ g[0] = [off |-> answersStart(pkt), ips |-> <<>>]
  /\ \A i \in 1..U16(pkt, 6) : g[i] = readRecord(pkt, g[i - 1])

(* parseAnswers returns what the last round left.                          *)
LEMMA ParseRounds ==
  ASSUME NEW pkt, pkt \in Seq(Octets), Len(pkt) >= 12, answersStart(pkt) # Bad
  PROVE  \E g : Rounds(g, pkt) /\ parseAnswers(pkt) = g[U16(pkt, 6)].ips
<1> DEFINE n == U16(pkt, 6)
           x == [off |-> answersStart(pkt), ips |-> <<>>]
           step == [k \in Nat |-> [v \in Reading |-> readRecord(pkt, v)]]
<1>1. Len(pkt) \in Nat /\ n \in Nat
  <2>1. 6 \in Nat /\ Len(pkt) \in Nat
    BY LenProperties
  <2>2. 6 + 2 <= Len(pkt)
    BY <2>1
  <2> QED
    BY <2>1, <2>2, NumberAt
<1>2. x \in Reading
  <2>1. questionName(pkt) \in Nat
    BY LabelsSkipped DEF questionName
  <2>2. answersStart(pkt) \in Nat
    BY <2>1 DEF answersStart, Bad
  <2>3. <<>> \in Seq(IP)
    BY EmptySeq
  <2> QED
    BY <2>2, <2>3 DEF Reading
<1>3. StepsOf(step, Reading) /\ \A k \in Nat, v \in Reading : step[k][v] = readRecord(pkt, v)
  BY RoundType, Zenon DEF StepsOf
<1> HIDE DEF n, x, step
<1>4. PICK g : Iterated(g, n, Reading, x, step)
  BY <1>1, <1>2, <1>3, Iterates
<1>5. g \in [0..n -> Reading] /\ g[0] = x /\ \A i \in 1..n : g[i] = step[i][g[i - 1]]
  BY <1>4 DEF Iterated
<1>6. ASSUME NEW i \in 1..n PROVE g[i] = readRecord(pkt, g[i - 1])
  <2>1. i - 1 \in 0..n /\ i \in Nat
    BY <1>1
  <2>2. g[i - 1] \in Reading
    BY <1>5, <2>1
  <2> QED
    BY <1>3, <1>5, <2>1, <2>2
<1> DEFINE Def(f) == f = [i \in 0..n |-> IF i = 0 THEN x ELSE readRecord(pkt, f[i - 1])]
           F == CHOOSE f : Def(f)
<1>7. parseAnswers(pkt) = F[n].ips
  <2>1. ~(Len(pkt) < 12)
    BY <1>1
  <2> QED
    BY <2>1, Zenon DEF parseAnswers, n, x
<1>8. Def(g)
  <2>1. g = [i \in 0..n |-> g[i]]
    BY <1>5
  <2>2. \A i \in 0..n : i = 0 \/ i \in 1..n
    BY <1>1
  <2>3. \A i \in 0..n : g[i] = IF i = 0 THEN x ELSE readRecord(pkt, g[i - 1])
    BY <1>5, <1>6, <2>2
  <2> QED
    BY <2>1, <2>3
<1>9. Def(F)
  BY <1>8, Zenon
<1> HIDE DEF F
<1>10. \A i \in 0..n : F[i] = IF i = 0 THEN x ELSE readRecord(pkt, F[i - 1])
  BY <1>9, Zenon
<1> HIDE DEF Def
<1> DEFINE Differ == {i \in Nat : i \in 0..n /\ F[i] # g[i]}
<1>11. Differ = {}
  <2> SUFFICES ASSUME Differ # {} PROVE FALSE
    BY Zenon
  <2>1. Differ \in SUBSET Nat
    OBVIOUS
  <2>2. PICK i \in Differ : \A k \in Differ : i <= k
    BY <2>1, LeastNumber
  <2>3. i \in 0..n /\ F[i] # g[i] /\ i \in Nat
    BY <2>2
  <2>4. i # 0
    BY <1>5, <1>10, <2>3
  <2>5. i - 1 \in 0..n /\ i - 1 \in Nat /\ ~(i <= i - 1) /\ i \in 1..n
    BY <1>1, <2>3, <2>4
  <2>6. F[i - 1] = g[i - 1]
    BY <2>2, <2>5
  <2> QED
    BY <1>6, <1>10, <2>3, <2>4, <2>5, <2>6
<1>12. n \in 0..n /\ n \in Nat
  BY <1>1
<1>13. F[n] = g[n]
  BY <1>11, <1>12
<1> QED
  BY <1>5, <1>6, <1>7, <1>13 DEF Rounds, n, x

(* parseAnswers returns addresses, of any packet, and no more of them than *)
(* fit the count of a header.                                              *)
LEMMA ParseType ==
  ASSUME NEW pkt, pkt \in Seq(Octets)
  PROVE  parseAnswers(pkt) \in Seq(IP) /\ Len(parseAnswers(pkt)) \in U16s
<1>1. Len(pkt) \in Nat
  BY LenProperties
<1>2. CASE Len(pkt) < 12 \/ answersStart(pkt) = Bad
  <2>1. parseAnswers(pkt) = <<>>
    BY <1>2 DEF parseAnswers
  <2>2. <<>> \in Seq(IP) /\ Len(<<>>) = 0
    BY EmptySeq
  <2> QED
    BY <2>1, <2>2 DEF U16s
<1>3. CASE ~(Len(pkt) < 12) /\ answersStart(pkt) # Bad
  <2> DEFINE n == U16(pkt, 6)
  <2>1. PICK g : Rounds(g, pkt) /\ parseAnswers(pkt) = g[n].ips
    BY <1>1, <1>3, ParseRounds
  <2>2. n \in U16s /\ n \in Nat
    <3>1. 6 \in Nat /\ 6 + 2 <= Len(pkt)
      BY <1>1, <1>3
    <3> QED
      BY <3>1, NumberAt
  <2>3. /\ g \in [0..n -> Reading] /\ g[0].ips = <<>>
        /\ \A i \in 1..n : g[i] = readRecord(pkt, g[i - 1])
    BY <2>1 DEF Rounds
  <2> HIDE DEF n
  <2> DEFINE Failing == {i \in Nat : i \in 0..n /\ ~(Len(g[i].ips) <= i)}
  <2>4. Failing = {}
    <3> SUFFICES ASSUME Failing # {} PROVE FALSE
      BY Zenon
    <3>1. Failing \in SUBSET Nat
      OBVIOUS
    <3>2. PICK i \in Failing : \A k \in Failing : i <= k
      BY <3>1, LeastNumber
    <3>3. i \in Nat /\ i \in 0..n /\ ~(Len(g[i].ips) <= i)
      BY <3>2
    <3>4. i # 0
      <4>1. Len(g[0].ips) = 0
        BY <2>3
      <4> QED
        BY <3>3, <4>1
    <3>5. i - 1 \in 0..n /\ i - 1 \in Nat /\ ~(i <= i - 1) /\ i \in 1..n
      BY <2>2, <3>3, <3>4
    <3>6. Len(g[i - 1].ips) <= i - 1
      BY <3>2, <3>5
    <3>7. g[i - 1] \in Reading /\ g[i] = readRecord(pkt, g[i - 1])
      BY <2>3, <3>5
    <3>8. Len(g[i].ips) <= Len(g[i - 1].ips) + 1
      BY <3>7, RoundType
    <3>9. g[i] \in Reading /\ g[i - 1] \in Reading
      BY <2>3, <3>3, <3>7
    <3>10. Len(g[i].ips) \in Nat /\ Len(g[i - 1].ips) \in Nat
      BY <3>9, LenProperties DEF Reading
    <3> DEFINE a == Len(g[i].ips)
               b == Len(g[i - 1].ips)
    <3> HIDE DEF a, b, Failing
    <3>11. a \in Nat /\ b \in Nat /\ a <= b + 1 /\ b <= i - 1 /\ ~(a <= i)
      BY <3>3, <3>6, <3>8, <3>10 DEF a, b
    <3> QED
      BY <3>3, <3>11
  <2>5. n \in 0..n
    BY <2>2
  <2>6. Len(g[n].ips) <= n /\ g[n].ips \in Seq(IP)
    BY <2>2, <2>3, <2>4, <2>5 DEF Reading
  <2>7. Len(g[n].ips) \in Nat
    BY <2>6, LenProperties
  <2> QED
    BY <2>1, <2>2, <2>6, <2>7 DEF U16s
<1> QED
  BY <1>2, <1>3

(* The two bytes p at offset k.                                            *)
PairAt(s, k, p) == s[k + 1] = p[1] /\ s[k + 2] = p[2]

(* A number written and read.                                              *)
LEMMA PairWritten ==
  ASSUME NEW n, n \in U16s
  PROVE  /\ PutU16(n) \in Seq(Octets) /\ Len(PutU16(n)) = 2
         /\ \A s, k : k \in Nat /\ PairAt(s, k, PutU16(n)) => U16(s, k) = n
<1> DEFINE x == n \div 256
           y == n % 256
<1>1. x \in Octets /\ y \in Octets /\ 256 * x + y = n
  BY Port
<1>2. PutU16(n) = <<x, y>>
  BY DEF PutU16
<1> HIDE DEF x, y
<1>3. <<x, y>> \in Seq(Octets) /\ Len(<<x, y>>) = 2 /\ <<x, y>>[1] = x /\ <<x, y>>[2] = y
  BY <1>1, FewBytes
<1>4. ASSUME NEW s, NEW k, k \in Nat, PairAt(s, k, PutU16(n)) PROVE U16(s, k) = n
  <2>1. s[k + 1] = x /\ s[k + 2] = y /\ k + 1 + 1 = k + 2
    BY <1>2, <1>3, <1>4 DEF PairAt
  <2> QED
    BY <1>1, <2>1 DEF U16, At
<1> QED
  BY <1>2, <1>3, <1>4

(* Two bytes more.                                                         *)
Grown(w, p, v) ==
  /\ v \in Seq(Octets) /\ Len(v) = Len(w) + Len(p)
  /\ \A i \in 1..Len(w) : v[i] = w[i]
  /\ \A i \in 1..Len(p) : v[Len(w) + i] = p[i]

(* What it means to write p behind w.                                      *)
LEMMA Grows ==
  ASSUME NEW w, w \in Seq(Octets), NEW p, p \in Seq(Octets)
  PROVE  Grown(w, p, w \o p)
  BY Joined DEF Grown

(* The header of a message, pair by pair.                                  *)
HeaderAt(w, id, hi, lo, qd, an, ar) ==
  /\ PairAt(w, 0, PutU16(id)) /\ PairAt(w, 2, <<hi, lo>>) /\ PairAt(w, 4, PutU16(qd))
  /\ PairAt(w, 6, PutU16(an)) /\ PairAt(w, 8, PutU16(0)) /\ PairAt(w, 10, PutU16(ar))
HeaderFields(id, hi, lo, qd, an, ar) ==
  /\ id \in U16s /\ hi \in Octets /\ lo \in Octets /\ qd \in U16s /\ an \in U16s /\ ar \in U16s

(* Twelve bytes.                                                           *)
LEMMA HeaderLayout ==
  ASSUME NEW id, NEW hi, NEW lo, NEW qd, NEW an, NEW ar, HeaderFields(id, hi, lo, qd, an, ar)
  PROVE  /\ Header(id, hi, lo, qd, an, ar) \in Seq(Octets)
         /\ Len(Header(id, hi, lo, qd, an, ar)) = 12
         /\ HeaderAt(Header(id, hi, lo, qd, an, ar), id, hi, lo, qd, an, ar)
<1> DEFINE a == PutU16(id)
           b == <<hi, lo>>
           c == PutU16(qd)
           d == PutU16(an)
           e == PutU16(0)
           f == PutU16(ar)
           w2 == a \o b
           w3 == w2 \o c
           w4 == w3 \o d
           w5 == w4 \o e
           w6 == w5 \o f
<1>0. 0 \in U16s
  BY DEF U16s
<1>1. /\ a \in Seq(Octets) /\ Len(a) = 2 /\ c \in Seq(Octets) /\ Len(c) = 2
      /\ d \in Seq(Octets) /\ Len(d) = 2 /\ e \in Seq(Octets) /\ Len(e) = 2
      /\ f \in Seq(Octets) /\ Len(f) = 2
  BY <1>0, PairWritten DEF HeaderFields
<1>2. b \in Seq(Octets) /\ Len(b) = 2
  BY FewBytes DEF HeaderFields
<1> HIDE DEF a, b, c, d, e, f
<1>3. Grown(a, b, w2)
  BY <1>1, <1>2, Grows
<1>4. w2 \in Seq(Octets) /\ Len(w2) = 4
  BY <1>1, <1>2, <1>3 DEF Grown
<1> HIDE DEF w2
<1>5. Grown(w2, c, w3)
  BY <1>1, <1>4, Grows
<1>6. w3 \in Seq(Octets) /\ Len(w3) = 6
  BY <1>1, <1>4, <1>5 DEF Grown
<1> HIDE DEF w3
<1>7. Grown(w3, d, w4)
  BY <1>1, <1>6, Grows
<1>8. w4 \in Seq(Octets) /\ Len(w4) = 8
  BY <1>1, <1>6, <1>7 DEF Grown
<1> HIDE DEF w4
<1>9. Grown(w4, e, w5)
  BY <1>1, <1>8, Grows
<1>10. w5 \in Seq(Octets) /\ Len(w5) = 10
  BY <1>1, <1>8, <1>9 DEF Grown
<1> HIDE DEF w5
<1>11. Grown(w5, f, w6)
  BY <1>1, <1>10, Grows
<1>12. w6 \in Seq(Octets) /\ Len(w6) = 12
  BY <1>1, <1>10, <1>11 DEF Grown
<1> HIDE DEF w6
<1>13. PairAt(w2, 0, a) /\ PairAt(w2, 2, b)
  BY <1>1, <1>2, <1>3 DEF Grown, PairAt
<1>14. PairAt(w3, 0, a) /\ PairAt(w3, 2, b) /\ PairAt(w3, 4, c)
  BY <1>1, <1>4, <1>5, <1>13 DEF Grown, PairAt
<1>15. PairAt(w4, 0, a) /\ PairAt(w4, 2, b) /\ PairAt(w4, 4, c) /\ PairAt(w4, 6, d)
  BY <1>1, <1>6, <1>7, <1>14 DEF Grown, PairAt
<1>16. /\ PairAt(w5, 0, a) /\ PairAt(w5, 2, b) /\ PairAt(w5, 4, c) /\ PairAt(w5, 6, d)
       /\ PairAt(w5, 8, e)
  BY <1>1, <1>8, <1>9, <1>15 DEF Grown, PairAt
<1>17. /\ PairAt(w6, 0, a) /\ PairAt(w6, 2, b) /\ PairAt(w6, 4, c) /\ PairAt(w6, 6, d)
       /\ PairAt(w6, 8, e) /\ PairAt(w6, 10, f)
  BY <1>1, <1>10, <1>11, <1>16 DEF Grown, PairAt
<1>18. Header(id, hi, lo, qd, an, ar) = w6
  BY Zenon DEF Header, w6, w5, w4, w3, w2, a, b, c, d, e, f
<1> QED
  BY <1>12, <1>17, <1>18 DEF HeaderAt, a, b, c, d, e, f

(* The question: seven bytes.                                              *)
LEMMA QuestionLayout ==
  ASSUME NEW qt, qt \in U16s
  PROVE  /\ Question(qt) \in Seq(Octets) /\ Len(Question(qt)) = 7
         /\ Question(qt)[1] = 1 /\ Question(qt)[2] = 97 /\ Question(qt)[3] = 0
         /\ PairAt(Question(qt), 3, PutU16(qt)) /\ PairAt(Question(qt), 5, PutU16(1))
<1> DEFINE a == <<1, 97, 0>>
           b == PutU16(qt)
           c == PutU16(1)
           w2 == a \o b
           w3 == w2 \o c
<1>0. 1 \in U16s /\ 1 \in Octets /\ 97 \in Octets /\ 0 \in Octets
  BY DEF U16s, Octets
<1>1. b \in Seq(Octets) /\ Len(b) = 2 /\ c \in Seq(Octets) /\ Len(c) = 2
  BY <1>0, PairWritten
<1>2. a \in Seq(Octets) /\ Len(a) = 3 /\ a[1] = 1 /\ a[2] = 97 /\ a[3] = 0
  BY <1>0, FewBytes
<1> HIDE DEF a, b, c
<1>3. Grown(a, b, w2)
  BY <1>1, <1>2, Grows
<1>4. w2 \in Seq(Octets) /\ Len(w2) = 5
  BY <1>1, <1>2, <1>3 DEF Grown
<1> HIDE DEF w2
<1>5. Grown(w2, c, w3)
  BY <1>1, <1>4, Grows
<1>6. w3 \in Seq(Octets) /\ Len(w3) = 7
  BY <1>1, <1>4, <1>5 DEF Grown
<1> HIDE DEF w3
<1>7. w2[1] = 1 /\ w2[2] = 97 /\ w2[3] = 0 /\ PairAt(w2, 3, b)
  BY <1>1, <1>2, <1>3 DEF Grown, PairAt
<1>8. w3[1] = 1 /\ w3[2] = 97 /\ w3[3] = 0 /\ PairAt(w3, 3, b) /\ PairAt(w3, 5, c)
  BY <1>1, <1>4, <1>5, <1>7 DEF Grown, PairAt
<1>9. Question(qt) = w3
  BY Zenon DEF Question, w3, w2, a, b, c
<1> QED
  BY <1>6, <1>8, <1>9 DEF b, c

(* w is the header h, the question for qt and rest.                        *)
MessageAt(w, h, qt, rest) ==
  /\ w \in Seq(Octets) /\ Len(rest) \in Nat /\ Len(w) = 19 + Len(rest)
  /\ \A i \in 1..12 : w[i] = h[i]
  /\ w[13] = 1 /\ w[14] = 97 /\ w[15] = 0
  /\ \A i \in 1..7 : w[12 + i] = Question(qt)[i]
  /\ \A i \in 1..Len(rest) : w[19 + i] = rest[i]

(* A message is written so.                                                *)
LEMMA MessageLayout ==
  ASSUME NEW h, h \in Seq(Octets), Len(h) = 12, NEW qt, qt \in U16s, NEW rest, rest \in Seq(Octets)
  PROVE  MessageAt(h \o Question(qt) \o rest, h, qt, rest)
<1> DEFINE q == Question(qt)
           v == h \o q
           w == v \o rest
<1>1. /\ q \in Seq(Octets) /\ Len(q) = 7 /\ q[1] = 1 /\ q[2] = 97 /\ q[3] = 0
  BY QuestionLayout
<1>2. Len(rest) \in Nat
  BY LenProperties
<1> HIDE DEF q
<1>3. Grown(h, q, v)
  BY <1>1, Grows
<1> HIDE DEF v
<1>4. /\ v \in Seq(Octets) /\ Len(v) = 19
      /\ (\A i \in 1..12 : v[i] = h[i]) /\ (\A i \in 1..7 : v[12 + i] = q[i])
  BY <1>1, <1>3 DEF Grown
<1>5. Grown(v, rest, w)
  BY <1>4, Grows
<1>6. /\ w \in Seq(Octets) /\ Len(w) = 19 + Len(rest)
      /\ (\A i \in 1..19 : w[i] = v[i]) /\ (\A i \in 1..Len(rest) : w[19 + i] = rest[i])
  BY <1>4, <1>5 DEF Grown
<1> HIDE DEF w
<1>7. \A i \in 1..12 : w[i] = h[i]
  BY <1>4, <1>6, SMTT(40)
<1>8. ASSUME NEW i \in 1..7 PROVE w[12 + i] = q[i]
  <2>1. 12 + i \in 1..19
    OBVIOUS
  <2> QED
    BY <1>4, <1>6, <2>1
<1>9. w[13] = 1 /\ w[14] = 97 /\ w[15] = 0
  BY <1>1, <1>8
<1>10. MessageAt(w, h, qt, rest)
  BY <1>2, <1>6, <1>7, <1>8, <1>9 DEF MessageAt, q
<1> QED
  BY <1>10 DEF w, v, q

(* pkt is what arrived of w.                                               *)
Arrived(pkt, w, n) ==
  /\ pkt \in Seq(Octets) /\ Len(pkt) \in Nat /\ Len(pkt) = (IF n < Len(w) THEN n ELSE Len(w))
  /\ \A i \in 1..Len(pkt) : pkt[i] = w[i]

(* UpTo is what arrived.                                                   *)
LEMMA Arrives ==
  ASSUME NEW w, w \in Seq(Octets), NEW n, n \in Nat
  PROVE  Arrived(UpTo(w, n), w, n)
  BY UpToFacts DEF Arrived

(* The walk over the name of the question ends at its last byte, or behind *)
(* the packet.                                                             *)
LEMMA NameWalk ==
  ASSUME NEW pkt, NEW w, NEW n, Arrived(pkt, w, n), NEW h, NEW qt, NEW rest,
         MessageAt(w, h, qt, rest), Len(pkt) >= 12
  PROVE  /\ Len(pkt) >= 15 => questionName(pkt) = 14 /\ At(pkt, 14) = 0
         /\ Len(pkt) < 15 => questionName(pkt) >= Len(pkt)
<1>1. pkt \in Seq(Octets) /\ Len(pkt) \in Nat /\ \A i \in 1..Len(pkt) : pkt[i] = w[i]
  BY DEF Arrived
<1>2. w[13] = 1 /\ w[15] = 0
  BY DEF MessageAt
<1>3. Len(pkt) >= 13 => At(pkt, 12) = 1
  <2>1. Len(pkt) >= 13 => 13 \in 1..Len(pkt)
    BY <1>1
  <2> QED
    BY <1>1, <1>2, <2>1 DEF At
<1>4. Len(pkt) >= 15 => At(pkt, 14) = 0
  <2>1. Len(pkt) >= 15 => 15 \in 1..Len(pkt)
    BY <1>1
  <2> QED
    BY <1>1, <1>2, <2>1 DEF At
<1>5. /\ questionName(pkt) = IF Goes(pkt, 12, 191)
                                THEN skipLabels(pkt, 12 + 1 + At(pkt, 12), 191) ELSE 12
  BY <1>1, LabelsSkipped DEF questionName
<1>6. /\ skipLabels(pkt, 14, 191) = IF Goes(pkt, 14, 191)
                                THEN skipLabels(pkt, 14 + 1 + At(pkt, 14), 191) ELSE 14
  BY <1>1, LabelsSkipped
<1>7. Goes(pkt, 12, 191) <=> Len(pkt) >= 13
  BY <1>1, <1>3 DEF Goes
<1>8. ~Goes(pkt, 14, 191)
  BY <1>1, <1>4 DEF Goes
<1>9. Len(pkt) >= 13 => questionName(pkt) = 14
  <2>1. Len(pkt) >= 13 => 12 + 1 + At(pkt, 12) = 14
    BY <1>3
  <2> QED
    BY <1>5, <1>6, <1>7, <1>8, <2>1
<1>10. Len(pkt) < 13 => questionName(pkt) = 12
  BY <1>1, <1>5, <1>7
<1> QED
  BY <1>1, <1>4, <1>9, <1>10

(* The flags of a query, and those of its reply.                           *)
FlagsOf(x, op, other, rd) ==
  op \in 0..15 /\ other \in 0..3 /\ rd \in {0, 1} /\ x = 8 * op + 2 * other + rd
ReplyFlags(x, op, rd) ==
  /\ x \in Octets /\ 128 + 8 * op + rd \in Octets
  /\ 128 + ((x \div 8) % 16) * 8 + (x % 2) = 128 + 8 * op + rd

(* The reply has the opcode and RD of the query.                           *)
LEMMA Flags ==
  ASSUME NEW x, NEW op, NEW other, NEW rd, FlagsOf(x, op, other, rd)
  PROVE  ReplyFlags(x, op, rd)
<1>0. op \in 0..15 /\ other \in 0..3 /\ rd \in {0, 1} /\ x = 8 * op + 2 * other + rd
  BY DEF FlagsOf
<1>1. op \in Int /\ 0 <= op /\ op <= 15 /\ other \in Int /\ 0 <= other /\ other <= 3
      /\ rd \in Int /\ 0 <= rd /\ rd <= 1
  BY <1>0
<1>2. x \in Int /\ 8 * op <= x /\ x <= 8 * op + 7
  BY <1>0, <1>1
<1>3. x \div 8 = op
  BY <1>1, <1>2
<1>4. op % 16 = op
  BY <1>1
<1>5. x % 2 = rd
  <2> DEFINE y == 4 * op + other
  <2>1. y \in Int /\ x = 2 * y + rd
    BY <1>0, <1>1
  <2> HIDE DEF y
  <2> QED
    BY <1>1, <2>1
<1>6. x \in Octets /\ 128 + 8 * op + rd \in Octets
  BY <1>1, <1>2 DEF Octets
<1> QED
  BY <1>1, <1>3, <1>4, <1>5, <1>6 DEF ReplyFlags

(* Two bytes of a packet.                                                  *)
LEMMA TwoBytes ==
  ASSUME NEW pkt, pkt \in Seq(Octets), NEW k, k \in Nat, k + 2 <= Len(pkt),
         NEW p, p \in Seq(Octets), Len(p) = 2, PairAt(pkt, k, p)
  PROVE  SubSeq(pkt, k + 1, k + 2) = p
<1>1. Len(pkt) \in Nat
  BY LenProperties
<1> DEFINE a == k + 1
           b == k + 2
           u == SubSeq(pkt, a, b)
<1>2. a \in Nat \ {0} /\ b \in Nat /\ a <= b + 1 /\ b <= Len(pkt) /\ b - a + 1 = 2
  BY <1>1
<1>3. PairAt(pkt, k, p) => pkt[a] = p[1] /\ pkt[b] = p[2]
  BY DEF PairAt
<1>4. a + 1 - 1 = a /\ a + 2 - 1 = b
  OBVIOUS
<1> HIDE DEF a, b
<1>5. Within(pkt, a, b)
  BY <1>2 DEF Within
<1>6. u \in Seq(Octets) /\ Len(u) = b - a + 1 /\ \A i \in 1..(b - a + 1) : u[i] = pkt[a + i - 1]
  BY <1>5, Slice
<1> HIDE DEF u
<1>7. Len(u) = 2 /\ u[1] = pkt[a] /\ u[2] = pkt[b]
  BY <1>2, <1>4, <1>6
<1>8. \A i \in 1..2 : u[i] = p[i]
  BY <1>3, <1>7
<1>9. u = p
  BY <1>6, <1>7, <1>8, SeqEqual
<1> QED
  BY <1>9 DEF u, a, b

(* The packet of a query is the layout of a message, cut.                  *)
SentHeader(q) ==
  Header(q.id, 8 * q.opcode + 2 * q.other + q.rd, q.low, q.questions, 0, q.additional)

(* What is sent is laid out as a message.                                  *)
LEMMA QuerySent ==
  ASSUME NEW q, q \in Datagram
  PROVE  /\ MessageAt(Sent(q), SentHeader(q), q.qtype, q.extra)
         /\ Arrived(packet(q), Sent(q), q.bytes) /\ q.bytes \in Nat
         /\ Len(SentHeader(q)) = 12
         /\ HeaderAt(SentHeader(q), q.id, 8 * q.opcode + 2 * q.other + q.rd, q.low,
                     q.questions, 0, q.additional)
<1>1. /\ q.id \in U16s /\ q.opcode \in 0..15 /\ q.other \in 0..3 /\ q.rd \in {0, 1}
      /\ q.low \in Octets /\ q.questions \in U16s /\ q.additional \in U16s /\ q.qtype \in U16s
      /\ q.extra \in Seq(Octets) /\ q.bytes \in BodyBytes
  BY DEF Datagram
<1>2. q.bytes \in Nat
  BY <1>1 DEF BodyBytes
<1> DEFINE hi == 8 * q.opcode + 2 * q.other + q.rd
<1>3. hi \in Octets
  <2>1. FlagsOf(hi, q.opcode, q.other, q.rd)
    BY <1>1 DEF FlagsOf
  <2> HIDE DEF hi
  <2>2. ReplyFlags(hi, q.opcode, q.rd)
    BY <2>1, Flags
  <2> QED
    BY <2>2 DEF ReplyFlags
<1>4. 0 \in U16s
  BY DEF U16s
<1> HIDE DEF hi
<1>5. HeaderFields(q.id, hi, q.low, q.questions, 0, q.additional)
  BY <1>1, <1>3, <1>4 DEF HeaderFields
<1> DEFINE h == Header(q.id, hi, q.low, q.questions, 0, q.additional)
<1>6. /\ h \in Seq(Octets) /\ Len(h) = 12
      /\ HeaderAt(h, q.id, hi, q.low, q.questions, 0, q.additional)
  BY <1>5, HeaderLayout
<1>7. SentHeader(q) = h
  BY DEF SentHeader, hi
<1> HIDE DEF h
<1>8. MessageAt(h \o Question(q.qtype) \o q.extra, h, q.qtype, q.extra)
  BY <1>1, <1>6, MessageLayout
<1>9. Sent(q) = h \o Question(q.qtype) \o q.extra
  BY DEF Sent, h, hi
<1>10. Sent(q) \in Seq(Octets)
  BY <1>8, <1>9 DEF MessageAt
<1>11. Arrived(packet(q), Sent(q), q.bytes)
  BY <1>2, <1>10, Arrives DEF packet
<1> QED
  BY <1>2, <1>6, <1>7, <1>8, <1>9, <1>11 DEF hi

(* What parseQueryWithEnd finds in a query it accepts.                     *)
QueryRead(pkt, q) ==
  /\ questionEnd(pkt) = 19 /\ qtype(pkt) = q.qtype
  /\ At(pkt, 2) = 8 * q.opcode + 2 * q.other + q.rd
  /\ SubSeq(pkt, 1, 2) = PutU16(q.id) /\ SubSeq(pkt, 5, 6) = PutU16(1)
  /\ SubSeq(pkt, 13, 19) = Question(q.qtype)

(* A query is accepted if it has one question and arrived up to its end.   *)
LEMMA QueryParsed ==
  ASSUME NEW q, q \in Datagram
  PROVE  /\ parsed(packet(q)) <=> WellFormed(q)
         /\ parsed(packet(q)) => QueryRead(packet(q), q)
<1> DEFINE pkt == packet(q)
           w == Sent(q)
           h == SentHeader(q)
           hi == 8 * q.opcode + 2 * q.other + q.rd
<1>1. /\ MessageAt(w, h, q.qtype, q.extra) /\ Arrived(pkt, w, q.bytes)
      /\ HeaderAt(h, q.id, hi, q.low, q.questions, 0, q.additional)
  BY QuerySent
<1>2. q.bytes \in Nat
  BY QuerySent
<1>3. q.id \in U16s /\ q.questions \in U16s /\ q.qtype \in U16s
  BY DEF Datagram
<1> HIDE DEF pkt, w, h, hi
<1>4. pkt \in Seq(Octets) /\ Len(pkt) \in Nat /\ \A i \in 1..Len(pkt) : pkt[i] = w[i]
  BY <1>1 DEF Arrived
<1>5. Len(w) \in Nat /\ Len(w) >= 19
  BY <1>1, SMTT(40) DEF MessageAt
<1>6. Len(pkt) >= 19 <=> q.bytes >= 19
  BY <1>1, <1>2, <1>5 DEF Arrived
<1>7. ASSUME Len(pkt) >= 12
      PROVE  /\ \A i \in 1..12 : pkt[i] = h[i] /\ U16(pkt, 4) = q.questions
  <2>1. \A i \in 1..12 : i \in 1..Len(pkt)
    BY <1>4, <1>7
  <2>2. \A i \in 1..12 : w[i] = h[i]
    BY <1>1 DEF MessageAt
  <2>3. \A i \in 1..12 : pkt[i] = h[i]
    BY <1>4, <2>1, <2>2
  <2>4. PairAt(pkt, 4, PutU16(q.questions))
    BY <1>1, <2>3 DEF HeaderAt, PairAt
  <2>5. 4 \in Nat
    OBVIOUS
  <2> QED
    BY <1>3, <2>3, <2>4, <2>5, PairWritten
<1>8. ASSUME Len(pkt) >= 12
      PROVE  /\ Len(pkt) >= 15 => questionName(pkt) = 14 /\ At(pkt, 14) = 0
             /\ Len(pkt) < 15 => questionName(pkt) >= Len(pkt)
  BY <1>1, <1>8, NameWalk
<1>9. ASSUME Len(pkt) >= 12 PROVE nameEnd(pkt) = IF Len(pkt) >= 15 THEN 15 ELSE Bad
  <2>1. CASE Len(pkt) >= 15
    BY <1>4, <1>8, <1>9, <2>1 DEF nameEnd, Pointer
  <2>2. CASE Len(pkt) < 15
    BY <1>4, <1>8, <1>9, <2>2 DEF nameEnd
  <2> QED
    BY <1>4, <2>1, <2>2
<1>10. questionEnd(pkt) = IF q.questions = 1 /\ Len(pkt) >= 19 THEN 19 ELSE Bad
  <2>1. CASE Len(pkt) < 12
    BY <1>4, <2>1 DEF questionEnd
  <2>2. CASE Len(pkt) >= 12
    <3>1. U16(pkt, 4) = q.questions /\ nameEnd(pkt) = IF Len(pkt) >= 15 THEN 15 ELSE Bad
      BY <1>7, <1>9, <2>2
    <3> QED
      BY <1>4, <2>2, <3>1 DEF questionEnd, Bad
  <2> QED
    BY <1>4, <2>1, <2>2
<1>11. parsed(pkt) <=> WellFormed(q)
  BY <1>6, <1>10 DEF parsed, WellFormed, Bad
<1>12. ASSUME parsed(pkt) PROVE QueryRead(pkt, q)
  <2>1. q.questions = 1 /\ Len(pkt) >= 19 /\ questionEnd(pkt) = 19
    BY <1>10, <1>12 DEF parsed
  <2>2. \A i \in 1..12 : pkt[i] = h[i]
    BY <1>4, <1>7, <2>1, SMTT(40)
  <2>3. ASSUME NEW i \in 1..7 PROVE pkt[12 + i] = Question(q.qtype)[i]
    <3>1. 12 + i \in 1..Len(pkt)
      BY <1>4, <2>1
    <3>2. w[12 + i] = Question(q.qtype)[i]
      BY <1>1 DEF MessageAt
    <3> QED
      BY <1>4, <3>1, <3>2
  <2>4. /\ PairAt(pkt, 0, PutU16(q.id)) /\ PairAt(pkt, 2, <<hi, q.low>>) /\ PairAt(pkt, 4, PutU16(1))
    BY <1>1, <2>1, <2>2 DEF HeaderAt, PairAt
  <2>5. At(pkt, 2) = hi
    BY <2>4 DEF PairAt, At
  <2>6. 1 \in U16s
    BY DEF U16s
  <2>7. /\ PutU16(q.id) \in Seq(Octets) /\ Len(PutU16(q.id)) = 2
        /\ PutU16(1) \in Seq(Octets) /\ Len(PutU16(1)) = 2
    BY <1>3, <2>6, PairWritten
  <2>8. SubSeq(pkt, 0 + 1, 0 + 2) = PutU16(q.id) /\ SubSeq(pkt, 4 + 1, 4 + 2) = PutU16(1)
    <3>1. 0 \in Nat /\ 0 + 2 <= Len(pkt) /\ 4 \in Nat /\ 4 + 2 <= Len(pkt)
      BY <1>4, <2>1
    <3> QED
      BY <1>4, <2>4, <2>7, <3>1, TwoBytes
  <2>9. SubSeq(pkt, 1, 2) = PutU16(q.id) /\ SubSeq(pkt, 5, 6) = PutU16(1)
    BY <2>8
  <2> DEFINE v == Question(q.qtype)
             u == SubSeq(pkt, 13, 19)
  <2>10. v \in Seq(Octets) /\ Len(v) = 7 /\ PairAt(v, 3, PutU16(q.qtype))
    BY <1>3, QuestionLayout
  <2>11. Within(pkt, 13, 19)
    BY <1>4, <2>1 DEF Within
  <2>12. u \in Seq(Octets) /\ Len(u) = 19 - 13 + 1 /\ \A i \in 1..(19 - 13 + 1) : u[i] = pkt[13 + i - 1]
    BY <2>11, Slice
  <2> HIDE DEF u, v
  <2>13. \A i \in 1..7 : pkt[12 + i] = v[i]
    BY <2>3 DEF v
  <2>14. ASSUME NEW i \in 1..7 PROVE u[i] = v[i]
    <3>1. i \in 1..(19 - 13 + 1) /\ 13 + i - 1 = 12 + i
      OBVIOUS
    <3> QED
      BY <2>12, <2>13, <3>1
  <2>15. Len(u) = Len(v)
    BY <2>10, <2>12
  <2>16. u = v
    BY <2>10, <2>12, <2>14, <2>15, SeqEqual
  <2>17. PairAt(pkt, 15, PutU16(q.qtype))
    BY <2>10, <2>13 DEF PairAt
  <2>18. U16(pkt, 15) = q.qtype
    <3>1. 15 \in Nat
      OBVIOUS
    <3> QED
      BY <1>3, <2>17, <3>1, PairWritten
  <2>19. qtype(pkt) = q.qtype
    BY <2>1, <2>18 DEF qtype
  <2> QED
    BY <2>1, <2>5, <2>9, <2>16, <2>19 DEF QueryRead, u, v, hi
<1> QED
  BY <1>11, <1>12 DEF pkt

(* r is the record of the owner name o: its bytes, type and data.          *)
RecordAt(r, o, typ, data) ==
  /\ r \in Seq(Octets) /\ Len(o) \in Nat /\ Len(data) \in Nat
  /\ Len(r) = Len(o) + 10 + Len(data)
  /\ \A i \in 1..Len(o) : r[i] = o[i]
  /\ PairAt(r, Len(o), PutU16(typ)) /\ PairAt(r, Len(o) + 8, PutU16(Len(data)))
  /\ \A i \in 1..Len(data) : r[Len(o) + 10 + i] = data[i]

(* Records are laid out so.                                                *)
LEMMA RecordLayout ==
  ASSUME NEW o, o \in Seq(Octets), NEW typ, typ \in U16s,
         NEW data, data \in Seq(Octets), Len(data) \in U16s
  PROVE  RecordAt(record(o, typ, data), o, typ, data)
<1> DEFINE b == PutU16(typ)
           c == PutU16(1)
           d == <<0, 0, 1, 44>>
           e == PutU16(Len(data))
           w2 == o \o b
           w3 == w2 \o c
           w4 == w3 \o d
           w5 == w4 \o e
           w6 == w5 \o data
           n == Len(o)
           k == Len(data)
<1>0. 1 \in U16s
  BY DEF U16s
<1>1. /\ b \in Seq(Octets) /\ Len(b) = 2 /\ c \in Seq(Octets) /\ Len(c) = 2
      /\ e \in Seq(Octets) /\ Len(e) = 2
  BY <1>0, PairWritten
<1>2. d \in Seq(Octets) /\ Len(d) = 4
  <2>1. 0 \in Octets /\ 1 \in Octets /\ 44 \in Octets
    BY DEF Octets
  <2> QED
    BY <2>1
<1>3. n \in Nat /\ k \in Nat
  BY LenProperties
<1>4. Len(o) = n /\ Len(data) = k
  OBVIOUS
<1> HIDE DEF b, c, d, e, n, k
<1>5. Grown(o, b, w2)
  BY <1>1, Grows
<1> HIDE DEF w2
<1>6. w2 \in Seq(Octets) /\ Len(w2) = n + 2
  BY <1>1, <1>3, <1>4, <1>5 DEF Grown
<1>7. Grown(w2, c, w3)
  BY <1>1, <1>6, Grows
<1> HIDE DEF w3
<1>8. w3 \in Seq(Octets) /\ Len(w3) = n + 4
  BY <1>1, <1>3, <1>6, <1>7 DEF Grown
<1>9. Grown(w3, d, w4)
  BY <1>2, <1>8, Grows
<1> HIDE DEF w4
<1>10. w4 \in Seq(Octets) /\ Len(w4) = n + 8
  BY <1>2, <1>3, <1>8, <1>9 DEF Grown
<1>11. Grown(w4, e, w5)
  BY <1>1, <1>10, Grows
<1> HIDE DEF w5
<1>12. w5 \in Seq(Octets) /\ Len(w5) = n + 10
  BY <1>1, <1>3, <1>10, <1>11 DEF Grown
<1>13. Grown(w5, data, w6)
  BY <1>12, Grows
<1> HIDE DEF w6
<1>14. w6 \in Seq(Octets) /\ Len(w6) = n + 10 + k /\ \A i \in 1..k : w6[n + 10 + i] = data[i]
  BY <1>3, <1>4, <1>12, <1>13 DEF Grown
<1>15. (\A i \in 1..n : w2[i] = o[i]) /\ w2[n + 1] = b[1] /\ w2[n + 2] = b[2]
  BY <1>1, <1>3, <1>4, <1>5 DEF Grown
<1>16. (\A i \in 1..n : w3[i] = o[i]) /\ w3[n + 1] = b[1] /\ w3[n + 2] = b[2]
  BY <1>3, <1>6, <1>7, <1>15 DEF Grown
<1>17. (\A i \in 1..n : w4[i] = o[i]) /\ w4[n + 1] = b[1] /\ w4[n + 2] = b[2]
  BY <1>3, <1>8, <1>9, <1>16 DEF Grown
<1>18. /\ (\A i \in 1..n : w5[i] = o[i]) /\ w5[n + 1] = b[1] /\ w5[n + 2] = b[2]
       /\ w5[n + 8 + 1] = e[1] /\ w5[n + 8 + 2] = e[2]
  BY <1>1, <1>3, <1>10, <1>11, <1>17 DEF Grown
<1>19. /\ (\A i \in 1..n : w6[i] = o[i]) /\ w6[n + 1] = b[1] /\ w6[n + 2] = b[2]
       /\ w6[n + 8 + 1] = e[1] /\ w6[n + 8 + 2] = e[2]
  BY <1>3, <1>12, <1>13, <1>18 DEF Grown
<1>20. RecordAt(w6, o, typ, data)
  BY <1>3, <1>4, <1>14, <1>19 DEF RecordAt, PairAt, b, e
<1>21. record(o, typ, data) = w6
  BY Zenon DEF record, w6, w5, w4, w3, w2, b, c, d, e
<1> QED
  BY <1>20, <1>21

(* The bytes of an address in an answer.                                   *)
LEMMA AddressData ==
  ASSUME NEW ip, ip \in IP
  PROVE  rdata(ip) \in Seq(Octets) /\ Len(rdata(ip)) \in U16s
<1>1. ip \in Seq(Octets) /\ Len(ip) \in Nat /\ (Len(ip) = 4 \/ Len(ip) = 16)
  BY LenProperties DEF IP
<1>2. CASE isV4(ip) /\ Len(ip) = 16
  <2>1. rdata(ip) = SubSeq(ip, 13, 16)
    BY <1>2 DEF rdata
  <2>2. Within(ip, 13, 16)
    BY <1>1, <1>2 DEF Within
  <2>3. SubSeq(ip, 13, 16) \in Seq(Octets) /\ Len(SubSeq(ip, 13, 16)) = 16 - 13 + 1
    BY <2>2, Slice
  <2> QED
    BY <2>1, <2>3 DEF U16s
<1>3. CASE ~(isV4(ip) /\ Len(ip) = 16)
  <2>1. rdata(ip) = ip
    BY <1>3 DEF rdata
  <2>2. 4 \in U16s /\ 16 \in U16s
    BY DEF U16s
  <2> QED
    BY <1>1, <2>1, <2>2
<1> QED
  BY <1>2, <1>3

(* Addresses of the family that the type qt asks for.                      *)
Family(qt) == {ip \in IP : qt = IF isV4(ip) THEN qtypeA ELSE qtypeAAAA}

(* ofFamily keeps those and no other, and no more than there were.         *)
LEMMA FamilyKept ==
  ASSUME NEW ips, ips \in Seq(IP), NEW qt
  PROVE  /\ ofFamily(ips, qt) = Wanted(ips, qt)
         /\ Wanted(ips, qt) \in Seq(Family(qt)) /\ Len(Wanted(ips, qt)) <= Len(ips)
<1> DEFINE opts == [i \in DOMAIN ips |->
                      IF qt = (IF isV4(ips[i]) THEN qtypeA ELSE qtypeAAAA) THEN <<ips[i]>> ELSE <<>>]
<1>1. Len(ips) \in Nat /\ DOMAIN ips = 1..Len(ips) /\ \A i \in 1..Len(ips) : ips[i] \in IP
  BY LenProperties, ElementOfSeq
<1>2. ofFamily(ips, qt) = Wanted(ips, qt)
  <2>1. \A ip : ((qt = qtypeA /\ isV4(ip)) \/ (qt = qtypeAAAA /\ ~isV4(ip)))
                  <=> qt = (IF isV4(ip) THEN qtypeA ELSE qtypeAAAA)
    BY Zenon
  <2> DEFINE opts2 == [i \in DOMAIN ips |->
                        IF (qt = qtypeA /\ isV4(ips[i])) \/ (qt = qtypeAAAA /\ ~isV4(ips[i]))
                          THEN <<ips[i]>> ELSE <<>>]
  <2>2. opts2 = opts
    BY <2>1, Zenon
  <2> QED
    BY <2>2, Zenon DEF ofFamily, Wanted
<1>3. ASSUME NEW i \in 1..Len(ips)
      PROVE  opts[i] \in Seq(Family(qt)) /\ Len(opts[i]) <= 1
  <2>1. CASE qt = (IF isV4(ips[i]) THEN qtypeA ELSE qtypeAAAA)
    <3>1. ips[i] \in Family(qt) /\ opts[i] = <<ips[i]>>
      BY <1>1, <2>1, Zenon DEF Family
    <3> HIDE DEF opts
    <3>2. <<ips[i]>> \in Seq(Family(qt)) /\ Len(<<ips[i]>>) = 1
      BY <3>1
    <3> QED
      BY <3>1, <3>2
  <2>2. CASE qt # (IF isV4(ips[i]) THEN qtypeA ELSE qtypeAAAA)
    <3>1. opts[i] = <<>>
      BY <1>1, <2>2, Zenon
    <3>2. <<>> \in Seq(Family(qt)) /\ Len(<<>>) = 0
      BY EmptySeq
    <3> QED
      BY <3>1, <3>2
  <2> QED
    BY <2>1, <2>2
<1>4. opts = [i \in 1..Len(ips) |-> opts[i]]
  BY <1>1
<1> HIDE DEF opts
<1>5. opts \in Seq(Seq(Family(qt))) /\ Len(opts) = Len(ips)
  BY <1>1, <1>3, <1>4
<1>7. FlattenSeq(opts) \in Seq(Family(qt))
  BY <1>5, FlattenedType
<1>8. Len(FlattenSeq(opts)) <= Len(opts)
  BY <1>3, <1>5, FlatShort
<1>9. Wanted(ips, qt) = FlattenSeq(opts)
  BY Zenon DEF Wanted, opts
<1> QED
  BY <1>2, <1>5, <1>7, <1>8, <1>9

(* buildResponse answers the question of a query it accepts.               *)
LEMMA BuildsResponse ==
  ASSUME NEW q, q \in Datagram, parsed(packet(q)),
         NEW ips, ips \in Seq(IP), Len(ips) \in U16s
  PROVE  buildResponse(packet(q), ips) = Response(q, ips) /\ Response(q, ips) \in Seq(Octets)
<1> DEFINE pkt == packet(q)
           qt == q.qtype
           kept == Wanted(ips, qt)
           x == At(pkt, 2)
           hi == 128 + 8 * q.opcode + q.rd
           lo == IF kept = <<>> THEN 131 ELSE 128
           a == PutU16(q.id)
           c == PutU16(1)
           v == Question(qt)
           rs == [i \in DOMAIN kept |-> record(<<192, 12>>, qt, rdata(kept[i]))]
           h == a \o <<hi, lo>> \o c \o PutU16(Len(kept)) \o PutU16(0) \o PutU16(0)
<1>1. QueryRead(pkt, q)
  BY QueryParsed
<1>2. /\ q.opcode \in 0..15 /\ q.other \in 0..3 /\ q.rd \in {0, 1} /\ q.id \in U16s /\ qt \in U16s
  BY DEF Datagram
<1>3. /\ ofFamily(ips, qt) = kept /\ kept \in Seq(Family(qt)) /\ Len(kept) <= Len(ips)
  BY FamilyKept
<1>4. 128 + ((x \div 8) % 16) * 8 + (x % 2) = hi /\ hi \in Octets
  <2>1. x = 8 * q.opcode + 2 * q.other + q.rd
    BY <1>1, Zenon DEF QueryRead
  <2> HIDE DEF x
  <2>2. FlagsOf(x, q.opcode, q.other, q.rd)
    BY <1>2, <2>1 DEF FlagsOf
  <2>3. ReplyFlags(x, q.opcode, q.rd)
    BY <2>2, Flags
  <2> QED
    BY <2>3, Zenon DEF ReplyFlags
<1>5. 128 + (IF kept = <<>> THEN 3 ELSE 0) = lo /\ lo \in Octets
  BY DEF Octets
<1>6. \A i \in DOMAIN kept : kept[i] \in Family(qt)
  BY <1>3, LenProperties, ElementOfSeq
<1>7. [i \in DOMAIN kept |->
          record(<<192, 12>>, IF isV4(kept[i]) THEN qtypeA ELSE qtypeAAAA, rdata(kept[i]))] = rs
  <2>1. \A i \in DOMAIN kept : qt = IF isV4(kept[i]) THEN qtypeA ELSE qtypeAAAA
    BY <1>6, Zenon DEF Family
  <2> QED
    BY <2>1, Zenon
<1>8. Owner("pointer") = <<192, 12>>
  BY DEF Owner
<1>9. /\ SubSeq(pkt, 1, 2) = a /\ SubSeq(pkt, 5, 6) = c /\ SubSeq(pkt, 13, questionEnd(pkt)) = v
      /\ qtype(pkt) = qt
  BY <1>1, Zenon DEF QueryRead
<1>10. Response(q, ips) = h \o v \o FlattenSeq(rs)
  BY <1>8, Zenon DEF Response, Header
<1>11. buildResponse(pkt, ips) = h \o v \o FlattenSeq(rs)
  <2> HIDE DEF pkt, kept, a, c, v, qt
  <2>1. buildResponse(pkt, ips) =
          SubSeq(pkt, 1, 2) \o <<128 + ((x \div 8) % 16) * 8 + (x % 2), 128 + (IF kept = <<>> THEN 3 ELSE 0)>>
          \o SubSeq(pkt, 5, 6) \o PutU16(Len(kept)) \o PutU16(0) \o PutU16(0)
          \o SubSeq(pkt, 13, questionEnd(pkt)) \o FlattenSeq([i \in DOMAIN kept |->
          record(<<192, 12>>, IF isV4(kept[i]) THEN qtypeA ELSE qtypeAAAA, rdata(kept[i]))])
    BY <1>3, <1>9, Zenon DEF buildResponse
  <2> HIDE DEF rs, hi, lo, x
  <2> QED
    BY <1>4, <1>5, <1>7, <1>9, <2>1, Zenon
<1>12. Len(kept) \in U16s /\ 0 \in U16s /\ 1 \in U16s
  <2>1. Len(kept) \in Nat /\ Len(ips) \in Nat
    BY <1>3, LenProperties
  <2> QED
    BY <1>3, <2>1 DEF U16s
<1>13. HeaderFields(q.id, hi, lo, 1, Len(kept), 0)
  BY <1>2, <1>4, <1>5, <1>12 DEF HeaderFields
<1>14. Header(q.id, hi, lo, 1, Len(kept), 0) = h
  BY Zenon DEF Header
<1> HIDE DEF hi, lo, kept
<1>15. h \in Seq(Octets) /\ Len(h) = 12
  BY <1>13, <1>14, HeaderLayout
<1> HIDE DEF h
<1>16. ASSUME NEW i \in DOMAIN kept PROVE rs[i] \in Seq(Octets)
  <2>1. kept[i] \in IP
    BY <1>6 DEF Family
  <2>2. rdata(kept[i]) \in Seq(Octets) /\ Len(rdata(kept[i])) \in U16s
    BY <2>1, AddressData
  <2>3. <<192, 12>> \in Seq(Octets)
    <3>1. 192 \in Octets /\ 12 \in Octets
      BY DEF Octets
    <3> QED
      BY <3>1, FewBytes
  <2> DEFINE r == record(<<192, 12>>, qt, rdata(kept[i]))
  <2>4. RecordAt(r, <<192, 12>>, qt, rdata(kept[i]))
    BY <1>2, <2>2, <2>3, RecordLayout
  <2>5. r \in Seq(Octets)
    BY <2>4 DEF RecordAt
  <2> QED
    BY <2>5, Zenon
<1>17. DOMAIN kept = 1..Len(kept) /\ Len(kept) \in Nat
  BY <1>3, LenProperties
<1>18. rs = [i \in 1..Len(kept) |-> rs[i]]
  BY <1>17
<1> HIDE DEF rs
<1>19. rs \in Seq(Seq(Octets))
  BY <1>16, <1>17, <1>18
<1>20. FlattenSeq(rs) \in Seq(Octets)
  BY <1>19, FlattenedType
<1>21. MessageAt(h \o v \o FlattenSeq(rs), h, qt, FlattenSeq(rs))
  BY <1>2, <1>15, <1>20, MessageLayout
<1>22. h \o v \o FlattenSeq(rs) \in Seq(Octets)
  BY <1>21 DEF MessageAt
<1> QED
  BY <1>10, <1>11, <1>22 DEF pkt

(* The record r begins at off, as far as the packet goes.                  *)
HasRecord(pkt, off, r) ==
  /\ pkt \in Seq(Octets) /\ off \in Nat
  /\ \A k \in 1..Len(r) : off + k <= Len(pkt) => pkt[off + k] = r[k]
PlainRecord(r, o, typ, data) ==
  /\ o \in {<<192, 12>>, <<1, 97, 0>>} /\ typ \in U16s /\ data \in Seq(Octets) /\ Len(data) \in U16s
  /\ RecordAt(r, o, typ, data)

(* ownerEnd finds the end of a name that is a pointer or labels.           *)
LEMMA OwnerFound ==
  ASSUME NEW pkt, NEW off, NEW r, NEW o, NEW typ, NEW data,
         HasRecord(pkt, off, r), PlainRecord(r, o, typ, data), off + 10 <= Len(pkt)
  PROVE  ownerEnd(pkt, off) = off + Len(o) /\ Len(o) \in {2, 3}
<1>1. pkt \in Seq(Octets) /\ off \in Nat /\ Len(pkt) \in Nat /\ off + 10 <= Len(pkt)
  BY LenProperties DEF HasRecord
<1>2. Len(data) \in Nat /\ Len(r) = Len(o) + 10 + Len(data) /\ \A i \in 1..Len(o) : r[i] = o[i]
  BY DEF PlainRecord, RecordAt
<1>3. CASE o = <<192, 12>>
  <2>1. Len(o) = 2 /\ o[1] = 192
    BY <1>3
  <2>2. 1 \in 1..Len(r) /\ 1 \in 1..Len(o) /\ off + 1 <= Len(pkt)
    BY <1>1, <1>2, <2>1
  <2>3. At(pkt, off) = 192
    BY <1>2, <2>1, <2>2 DEF HasRecord, At
  <2> QED
    BY <2>1, <2>3 DEF ownerEnd, Pointer
<1>4. CASE o = <<1, 97, 0>>
  <2>1. Len(o) = 3 /\ o[1] = 1 /\ o[3] = 0
    BY <1>4
  <2>2. /\ 1 \in 1..Len(r) /\ 1 \in 1..Len(o) /\ off + 1 <= Len(pkt)
        /\ 3 \in 1..Len(r) /\ 3 \in 1..Len(o) /\ off + 3 <= Len(pkt)
    BY <1>1, <1>2, <2>1
  <2>3. pkt[off + 1] = 1 /\ pkt[off + 3] = 0
    BY <1>2, <2>1, <2>2 DEF HasRecord
  <2>4. At(pkt, off) = 1
    BY <2>3 DEF At
  <2>5. At(pkt, off + 2) = 0 /\ off + 2 \in Nat
    <3>1. off + 2 + 1 = off + 3 /\ off + 2 \in Nat
      BY <1>1
    <3> QED
      BY <2>3, <3>1 DEF At
  <2>6. skipLabels(pkt, off, 255) = IF Goes(pkt, off, 255)
                                      THEN skipLabels(pkt, off + 1 + At(pkt, off), 255) ELSE off
    BY <1>1, LabelsSkipped
  <2>7. Goes(pkt, off, 255) /\ off + 1 + At(pkt, off) = off + 2
    BY <1>1, <2>4 DEF Goes
  <2> DEFINE on == off + 2
  <2>8. on \in Nat /\ At(pkt, on) = 0
    BY <2>5
  <2> HIDE DEF on
  <2>9. skipLabels(pkt, on, 255) = IF Goes(pkt, on, 255)
                                     THEN skipLabels(pkt, on + 1 + At(pkt, on), 255) ELSE on
    BY <1>1, <2>8, LabelsSkipped
  <2>10. ~Goes(pkt, on, 255)
    BY <2>8 DEF Goes
  <2>11. skipLabels(pkt, off, 255) = on
    BY <2>6, <2>7, <2>9, <2>10 DEF on
  <2>12. ownerEnd(pkt, off) = on + 1
    BY <2>4, <2>11 DEF ownerEnd, Pointer
  <2> QED
    BY <1>1, <2>1, <2>12 DEF on
<1> QED
  BY <1>3, <1>4 DEF PlainRecord

(* What a round makes of a record.                                         *)
RoundOf(pkt, off, r, typ, data, ips) ==
  readRecord(pkt, [off |-> off, ips |-> ips])
    = IF off + Len(r) <= Len(pkt)
        THEN [off |-> off + Len(r), ips |-> ips \o address(typ, data)]
        ELSE [off |-> off, ips |-> ips]

(* A round of parseAnswers: the record if it arrived whole, else no more.  *)
LEMMA RoundReads ==
  ASSUME NEW pkt, NEW off, NEW r, NEW o, NEW typ, NEW data, NEW ips,
         HasRecord(pkt, off, r), PlainRecord(r, o, typ, data)
  PROVE  RoundOf(pkt, off, r, typ, data, ips)
<1> SUFFICES readRecord(pkt, [off |-> off, ips |-> ips])
               = IF off + Len(r) <= Len(pkt)
                   THEN [off |-> off + Len(r), ips |-> ips \o address(typ, data)]
                   ELSE [off |-> off, ips |-> ips]
  BY Zenon DEF RoundOf
<1> DEFINE s == [off |-> off, ips |-> ips]
           m == Len(o)
           k == Len(data)
           L == Len(pkt)
<1>1. pkt \in Seq(Octets) /\ off \in Nat /\ L \in Nat /\ s.off = off /\ s.ips = ips
  BY LenProperties DEF HasRecord
<1>2. /\ m \in Nat /\ k \in Nat /\ Len(r) = m + 10 + k /\ k \in U16s /\ typ \in U16s
      /\ data \in Seq(Octets)
      /\ PairAt(r, m, PutU16(typ)) /\ PairAt(r, m + 8, PutU16(k))
      /\ \A i \in 1..k : r[m + 10 + i] = data[i]
  BY DEF PlainRecord, RecordAt
<1>3. \A i \in 1..Len(r) : off + i <= L => pkt[off + i] = r[i]
  BY DEF HasRecord
<1>4. CASE off + 10 > L
  <2>1. readRecord(pkt, s) = s
    BY <1>1, <1>4 DEF readRecord
  <2>2. ~(off + Len(r) <= L)
    BY <1>1, <1>2, <1>4
  <2> QED
    BY <2>1, <2>2
<1>5. CASE off + 10 <= L
  <2> DEFINE fixed == ownerEnd(pkt, off)
             first == fixed + 10
             end == first + U16(pkt, fixed + 8)
  <2>1. fixed = off + m
    BY <1>5, OwnerFound
  <2>2. readRecord(pkt, s)
          = IF first > L THEN s ELSE IF end > L THEN s
            ELSE [off |-> end, ips |-> ips \o address(U16(pkt, fixed), SubSeq(pkt, first + 1, end))]
    <3>1. ~(off + 10 > L)
      BY <1>1, <1>5
    <3> QED
      BY <1>1, <3>1, Zenon DEF readRecord
  <2> HIDE DEF fixed, s, m, k, L
  <2>3. fixed \in Nat /\ first = off + m + 10
    BY <1>1, <1>2, <2>1
  <2>4. CASE first > L
    <3>1. ~(off + Len(r) <= L)
      BY <1>1, <1>2, <2>3, <2>4, SMTT(40)
    <3> QED
      BY <2>2, <2>4, <3>1 DEF s, L
  <2>5. CASE ~(first > L)
    <3>1. PairAt(pkt, fixed + 8, PutU16(k)) /\ PairAt(pkt, fixed, PutU16(typ))
      <4>1. /\ m + 8 + 1 \in 1..Len(r) /\ m + 8 + 2 \in 1..Len(r)
            /\ m + 1 \in 1..Len(r) /\ m + 2 \in 1..Len(r)
        BY <1>2
      <4>2. /\ off + (m + 8 + 1) <= L /\ off + (m + 8 + 2) <= L
            /\ off + (m + 1) <= L /\ off + (m + 2) <= L
        BY <1>1, <1>2, <2>3, <2>5
      <4>3. /\ pkt[off + (m + 8 + 1)] = r[m + 8 + 1] /\ pkt[off + (m + 8 + 2)] = r[m + 8 + 2]
            /\ pkt[off + (m + 1)] = r[m + 1] /\ pkt[off + (m + 2)] = r[m + 2]
        BY <1>3, <4>1, <4>2
      <4>4. /\ off + (m + 8 + 1) = fixed + 8 + 1 /\ off + (m + 8 + 2) = fixed + 8 + 2
            /\ off + (m + 1) = fixed + 1 /\ off + (m + 2) = fixed + 2
        <5>1. off \in Nat /\ m \in Nat
          BY <1>1, <1>2
        <5> QED
          BY <2>1, <5>1
      <4> QED
        BY <1>2, <4>3, <4>4 DEF PairAt
    <3>2. U16(pkt, fixed + 8) = k /\ U16(pkt, fixed) = typ
      <4>1. fixed + 8 \in Nat
        BY <2>3
      <4> QED
        BY <1>2, <2>3, <3>1, <4>1, PairWritten
    <3>3. end = first + k /\ end = off + Len(r) /\ end \in Nat
      BY <1>1, <1>2, <2>3, <3>2, SMTT(40)
    <3>4. CASE end > L
      <4>1. ~(off + Len(r) <= L)
        BY <1>1, <3>3, <3>4
      <4> QED
        BY <2>2, <2>5, <3>4, <4>1 DEF s, L
    <3>5. CASE ~(end > L)
      <4> DEFINE u == SubSeq(pkt, first + 1, end)
      <4>1. /\ first + 1 \in Nat \ {0} /\ first + 1 <= end + 1 /\ end <= L
            /\ end - (first + 1) + 1 = k
        BY <1>1, <1>2, <2>3, <3>3, <3>5, SMTT(40)
      <4>2. Within(pkt, first + 1, end)
        BY <1>1, <3>3, <4>1 DEF Within, L
      <4>3. /\ u \in Seq(Octets) /\ Len(u) = end - (first + 1) + 1
            /\ \A i \in 1..(end - (first + 1) + 1) : u[i] = pkt[first + 1 + i - 1]
        BY <4>2, Slice
      <4> HIDE DEF u, end
      <4>4. Len(u) = k
        BY <4>1, <4>3
      <4>5. ASSUME NEW i \in 1..k PROVE u[i] = data[i]
        <5>1. /\ i \in 1..(end - (first + 1) + 1) /\ first + 1 + i - 1 = off + (m + 10 + i)
              /\ m + 10 + i \in 1..Len(r) /\ off + (m + 10 + i) <= L
          BY <1>1, <1>2, <2>3, <3>3, <4>1
        <5>2. u[i] = pkt[off + (m + 10 + i)]
          BY <4>3, <5>1
        <5>3. pkt[off + (m + 10 + i)] = r[m + 10 + i]
          BY <1>3, <5>1
        <5> QED
          BY <1>2, <5>2, <5>3
      <4>6. u = data
        <5>1. Len(u) = Len(data)
          BY <4>4 DEF k
        <5>2. \A i \in 1..Len(u) : u[i] = data[i]
          BY <4>4, <4>5
        <5> QED
          BY <1>2, <4>3, <5>1, <5>2, SeqEqual
      <4>7. off + Len(r) <= Len(pkt)
        BY <3>3, <4>1 DEF L
      <4>8. readRecord(pkt, s) = [off |-> end, ips |-> ips \o address(U16(pkt, fixed), u)]
        BY <2>2, <2>5, <3>5, Zenon DEF u, end
      <4> QED
        BY <3>2, <3>3, <4>6, <4>7, <4>8 DEF s
    <3> QED
      BY <3>4, <3>5
  <2> QED
    BY <2>4, <2>5
<1>6. off + 10 > L \/ off + 10 <= L
  BY <1>1
<1> QED
  BY <1>4, <1>5, <1>6

(* A set of numbers with 0 and nothing above n has a greatest.             *)
LEMMA GreatestNumber ==
  ASSUME NEW S, S \subseteq Nat, 0 \in S, NEW n, n \in Nat, \A x \in S : x <= n
  PROVE  Max(S) \in S /\ \A x \in S : x <= Max(S)
<1> DEFINE U == {u \in Nat : \A x \in S : x <= u}
<1>1. U \in SUBSET Nat /\ U # {}
  <2>1. n \in U
    OBVIOUS
  <2> QED
    BY <2>1
<1>2. PICK u \in U : \A v \in U : u <= v
  BY <1>1, LeastNumber
<1>3. u \in Nat /\ \A x \in S : x <= u /\ x \in Nat
  BY <1>2
<1>4. u \in S
  <2> SUFFICES ASSUME u \notin S PROVE FALSE
    OBVIOUS
  <2>1. u # 0
    OBVIOUS
  <2>2. u - 1 \in Nat /\ ~(u <= u - 1)
    BY <1>3, <2>1
  <2>3. \A x \in S : x <= u - 1
    BY <1>3
  <2>4. u - 1 \in U
    BY <2>2, <2>3
  <2> QED
    BY <1>2, <2>2, <2>4
<1>5. \E m \in S : \A x \in S : m >= x
  BY <1>3, <1>4
<1>6. Max(S) \in S /\ \A x \in S : Max(S) >= x
  BY <1>5, Zenon DEF Max
<1>7. Max(S) \in Nat
  BY <1>6
<1> QED
  BY <1>3, <1>6, <1>7

(* What an endpoint sends is laid out as a message.                        *)
AnswerHeader(msg) == Header(7, 129, 128, 1, Len(msg.records), 0)

(* The records of a message, as bytes.                                     *)
LEMMA RecordsTyped ==
  ASSUME NEW msg, msg \in Message
  PROVE  /\ Records(msg) \in Seq(Seq(Octets)) /\ Len(Records(msg)) = Len(msg.records)
         /\ Len(msg.records) \in U16s /\ Len(msg.records) \in Nat
         /\ DOMAIN msg.records = 1..Len(msg.records)
         /\ \A i \in 1..Len(msg.records) :
              /\ msg.records[i] \in Record
              /\ Records(msg)[i] = record(Owner(msg.records[i].owner), msg.records[i].typ,
                                          msg.records[i].data)
<1> DEFINE rs == msg.records
           n == Len(rs)
           R == Records(msg)
<1>1. rs \in Seq(Record) /\ n \in U16s
  BY DEF Message
<1>2. n \in Nat /\ DOMAIN rs = 1..n /\ \A i \in 1..n : rs[i] \in Record
  BY <1>1, LenProperties, ElementOfSeq
<1>3. ASSUME NEW i \in 1..n
      PROVE  R[i] = record(Owner(rs[i].owner), rs[i].typ, rs[i].data)
  BY <1>2, Zenon DEF Records
<1>4. R = [i \in 1..n |-> R[i]]
  BY <1>2, Zenon DEF Records
<1>5. ASSUME NEW i \in 1..n PROVE R[i] \in Seq(Octets)
  <2> DEFINE r == rs[i]
  <2>1. /\ r.owner \in {"pointer", "labels", "mixed"} /\ r.typ \in U16s
        /\ r.data \in Seq(Octets) /\ Len(r.data) \in U16s
    BY <1>2 DEF Record
  <2> HIDE DEF r
  <2>2. Owner(r.owner) \in Seq(Octets)
    <3>1. 192 \in Octets /\ 12 \in Octets /\ 1 \in Octets /\ 97 \in Octets /\ 0 \in Octets
      BY DEF Octets
    <3>2. <<192, 12>> \in Seq(Octets) /\ <<1, 97, 0>> \in Seq(Octets) /\ <<1, 97, 192, 12>> \in Seq(Octets)
      BY <3>1
    <3>3. CASE r.owner = "pointer"
      BY <3>2, <3>3 DEF Owner
    <3>4. CASE r.owner = "labels"
      BY <3>2, <3>4 DEF Owner
    <3>5. CASE r.owner = "mixed"
      BY <3>2, <3>5 DEF Owner
    <3> QED
      BY <2>1, <3>3, <3>4, <3>5
  <2>3. RecordAt(record(Owner(r.owner), r.typ, r.data), Owner(r.owner), r.typ, r.data)
    BY <2>1, <2>2, RecordLayout
  <2>4. record(Owner(r.owner), r.typ, r.data) \in Seq(Octets)
    BY <2>3 DEF RecordAt
  <2> QED
    BY <1>3, <2>4 DEF r
<1> HIDE DEF R
<1>6. R \in Seq(Seq(Octets)) /\ Len(R) = n
  BY <1>2, <1>4, <1>5
<1> QED
  BY <1>1, <1>2, <1>3, <1>6 DEF R

(* A response arrives as a message does.                                   *)
LEMMA ResponseReceived ==
  ASSUME NEW msg, msg \in Message
  PROVE  /\ MessageAt(Encode(msg), AnswerHeader(msg), msg.qtype, FlattenSeq(Records(msg)))
         /\ HeaderAt(AnswerHeader(msg), 7, 129, 128, 1, Len(msg.records), 0)
         /\ Arrived(Received(msg), Encode(msg), msg.bytes) /\ msg.bytes \in Nat
<1> DEFINE h == AnswerHeader(msg)
           rest == FlattenSeq(Records(msg))
<1>1. msg.qtype \in U16s /\ msg.bytes \in Nat /\ Len(msg.records) \in U16s
  BY DEF Message, BodyBytes
<1>2. 7 \in U16s /\ 129 \in Octets /\ 128 \in Octets /\ 1 \in U16s /\ 0 \in U16s
  BY DEF U16s, Octets
<1>3. HeaderFields(7, 129, 128, 1, Len(msg.records), 0)
  BY <1>1, <1>2 DEF HeaderFields
<1>4. /\ h \in Seq(Octets) /\ Len(h) = 12 /\ HeaderAt(h, 7, 129, 128, 1, Len(msg.records), 0)
  BY <1>3, HeaderLayout DEF AnswerHeader
<1>5. Records(msg) \in Seq(Seq(Octets))
  BY RecordsTyped
<1>6. rest \in Seq(Octets)
  BY <1>5, FlattenedType
<1>7. Encode(msg) = h \o Question(msg.qtype) \o rest
  BY Zenon DEF Encode, AnswerHeader
<1> HIDE DEF h, rest
<1>8. MessageAt(h \o Question(msg.qtype) \o rest, h, msg.qtype, rest)
  BY <1>1, <1>4, <1>6, MessageLayout
<1>9. Encode(msg) \in Seq(Octets)
  BY <1>7, <1>8 DEF MessageAt
<1>10. Arrived(Received(msg), Encode(msg), msg.bytes)
  BY <1>1, <1>9, Arrives DEF Received
<1> QED
  BY <1>1, <1>4, <1>7, <1>8, <1>10 DEF h, rest

(* No owner name of the message is a label followed by a pointer.          *)
PlainNames(msg) == \A i \in DOMAIN msg.records : msg.records[i].owner # "mixed"

(* Where the record behind the first j begins, and the addresses.          *)
Position(msg, j) == 19 + Len(Flat(Records(msg), j))
Found(msg) == [i \in 1..Len(msg.records) |-> address(msg.records[i].typ, msg.records[i].data)]
LastWhole(msg) == Max({0} \cup WholeRecords(msg))

(* Positions are numbers, grow and stay within the message.                *)
LEMMA Positions ==
  ASSUME NEW msg, msg \in Message
  PROVE  /\ Position(msg, 0) = 19
         /\ \A j \in 0..Len(msg.records) : Position(msg, j) \in Nat /\ Position(msg, j) <= Len(Encode(msg))
         /\ \A i, j \in 0..Len(msg.records) : i <= j => Position(msg, i) <= Position(msg, j)
         /\ \A j \in 1..Len(msg.records) :
              Position(msg, j) = Position(msg, j - 1) + Len(Records(msg)[j])
<1> DEFINE R == Records(msg)
           n == Len(msg.records)
<1>1. R \in Seq(Seq(Octets)) /\ Len(R) = n /\ n \in Nat
  BY RecordsTyped
<1>2. Len(Encode(msg)) = 19 + Len(FlattenSeq(R)) /\ Len(FlattenSeq(R)) \in Nat
  BY ResponseReceived DEF MessageAt
<1>3. \A j : Position(msg, j) = 19 + Len(Flat(R, j))
  BY DEF Position
<1> HIDE DEF R, n
<1>4. Flat(R, 0) = <<>> /\ Flat(R, Len(R)) = FlattenSeq(R)
  BY <1>1, Flattened
<1>5. ASSUME NEW i \in 0..n, NEW j \in 0..n, i <= j
      PROVE  Len(Flat(R, i)) \in Nat /\ Len(Flat(R, j)) \in Nat /\ Len(Flat(R, i)) <= Len(Flat(R, j))
  <2>1. BeginsWith(Flat(R, j), Flat(R, i))
    BY <1>1, <1>5, FlatGrows
  <2> QED
    BY <2>1 DEF BeginsWith
<1>6. Position(msg, 0) = 19
  <2>1. Len(Flat(R, 0)) = 0
    BY <1>4
  <2> QED
    BY <1>3, <2>1
<1>7. ASSUME NEW j \in 0..n PROVE Position(msg, j) \in Nat /\ Position(msg, j) <= Len(Encode(msg))
  <2>1. n \in 0..n /\ j <= n
    BY <1>1
  <2>2. Len(Flat(R, j)) \in Nat /\ Len(Flat(R, j)) <= Len(Flat(R, n))
    BY <1>5, <2>1
  <2>3. Flat(R, n) = FlattenSeq(R)
    BY <1>1, <1>4
  <2> QED
    BY <1>2, <1>3, <2>2, <2>3
<1>8. ASSUME NEW i \in 0..n, NEW j \in 0..n, i <= j PROVE Position(msg, i) <= Position(msg, j)
  <2>1. Len(Flat(R, i)) \in Nat /\ Len(Flat(R, j)) \in Nat /\ Len(Flat(R, i)) <= Len(Flat(R, j))
    BY <1>5, <1>8
  <2> QED
    BY <1>3, <2>1
<1>9. ASSUME NEW j \in 1..n PROVE Position(msg, j) = Position(msg, j - 1) + Len(R[j])
  <2>1. /\ Len(Flat(R, j - 1)) \in Nat /\ Len(R[j]) \in Nat
        /\ Len(Flat(R, j)) = Len(Flat(R, j - 1)) + Len(R[j])
    <3>1. PartPlaced(R, j)
      BY <1>1, FlatPart
    <3> QED
      BY <3>1 DEF PartPlaced
  <2> DEFINE x == Len(Flat(R, j - 1))
             y == Len(R[j])
             z == Len(Flat(R, j))
  <2>2. Position(msg, j) = 19 + z /\ Position(msg, j - 1) = 19 + x
    BY <1>3
  <2>3. x \in Nat /\ y \in Nat /\ z = x + y
    BY <2>1
  <2> HIDE DEF x, y, z
  <2>4. Position(msg, j) = Position(msg, j - 1) + y
    BY <2>2, <2>3
  <2> QED
    BY <2>4 DEF y
<1> QED
  BY <1>6, <1>7, <1>8, <1>9 DEF R, n

(* The records that arrived whole are the first ones.                      *)
LEMMA WholeFirst ==
  ASSUME NEW msg, msg \in Message
  PROVE  /\ LastWhole(msg) \in 0..Len(msg.records)
         /\ \A j \in 1..Len(msg.records) :
              j <= LastWhole(msg) <=> Position(msg, j) <= Len(Received(msg))
<1> DEFINE n == Len(msg.records)
           W == WholeRecords(msg)
           S == {0} \cup W
           P(j) == Position(msg, j)
           L == Len(Received(msg))
           E == Len(Encode(msg))
<1>1. n \in Nat
  BY RecordsTyped
<1>2. /\ \A j \in 0..n : P(j) \in Nat /\ P(j) <= E
      /\ \A i, j \in 0..n : i <= j => P(i) <= P(j)
  BY Positions
<1>3. L \in Nat /\ msg.bytes \in Nat /\ L = (IF msg.bytes < E THEN msg.bytes ELSE E)
  BY ResponseReceived DEF Arrived
<1>4. \A j : j \in W <=> j \in 1..n /\ P(j) <= msg.bytes
  BY Zenon DEF WholeRecords, Position, Flat
<1>5. E \in Nat
  BY ResponseReceived DEF MessageAt
<1> HIDE DEF n, W, P, L, E
<1>6. S \subseteq Nat /\ 0 \in S /\ \A x \in S : x <= n
  BY <1>1, <1>4
<1> DEFINE m == Max(S)
<1>7. m \in S /\ \A x \in S : x <= m
  BY <1>1, <1>6, GreatestNumber
<1> HIDE DEF m
<1>8. m \in 0..n /\ (m # 0 => m \in W)
  BY <1>1, <1>4, <1>7
<1>9. ASSUME NEW j \in 1..n PROVE j <= m <=> P(j) <= L
  <2>1. j \in 0..n /\ P(j) \in Nat /\ P(j) <= E
    BY <1>1, <1>2
  <2>2. P(j) <= L <=> P(j) <= msg.bytes
    BY <1>3, <1>5, <2>1
  <2>3. ASSUME j <= m PROVE P(j) <= msg.bytes
    <3>1. m # 0 /\ m \in W
      BY <1>1, <1>8, <2>3
    <3>2. P(m) <= msg.bytes /\ P(j) <= P(m) /\ P(m) \in Nat
      BY <1>2, <1>4, <1>8, <2>1, <2>3, <3>1
    <3> QED
      BY <1>3, <2>1, <3>2
  <2>4. ASSUME P(j) <= msg.bytes PROVE j <= m
    <3>1. j \in S
      BY <1>4, <2>4
    <3> QED
      BY <1>7, <3>1
  <2> QED
    BY <2>2, <2>3, <2>4
<1>10. LastWhole(msg) = m
  BY DEF LastWhole, m, S, W
<1> QED
  BY <1>8, <1>9, <1>10 DEF n, P, L

(* What a round does at the beginning of a record.                         *)
LEMMA RecordRound ==
  ASSUME NEW msg, msg \in Message, PlainNames(msg), NEW j, j \in 1..Len(msg.records), NEW ips
  PROVE  readRecord(Received(msg), [off |-> Position(msg, j - 1), ips |-> ips])
           = IF Position(msg, j) <= Len(Received(msg))
               THEN [off |-> Position(msg, j), ips |-> ips \o Found(msg)[j]]
               ELSE [off |-> Position(msg, j - 1), ips |-> ips]
<1> DEFINE R == Records(msg)
           n == Len(msg.records)
           pkt == Received(msg)
           w == Encode(msg)
           rest == FlattenSeq(R)
           off == Position(msg, j - 1)
           a == Len(Flat(R, j - 1))
           r == msg.records[j]
           o == Owner(r.owner)
<1>1. /\ R \in Seq(Seq(Octets)) /\ Len(R) = n /\ n \in Nat /\ r \in Record
      /\ R[j] = record(o, r.typ, r.data) /\ DOMAIN msg.records = 1..n
  BY RecordsTyped
<1>2. Len(w) = 19 + Len(rest) /\ Len(rest) \in Nat /\ \A i \in 1..Len(rest) : w[19 + i] = rest[i]
  BY ResponseReceived DEF MessageAt
<1>3. pkt \in Seq(Octets) /\ Len(pkt) \in Nat /\ \A i \in 1..Len(pkt) : pkt[i] = w[i]
  BY ResponseReceived DEF Arrived
<1>4. off = 19 + a
  BY DEF Position
<1>5. Position(msg, j) = off + Len(R[j])
  BY Positions
<1>6. Found(msg)[j] = address(r.typ, r.data)
  BY DEF Found
<1>7. /\ r.owner \in {"pointer", "labels", "mixed"} /\ r.typ \in U16s
      /\ r.data \in Seq(Octets) /\ Len(r.data) \in U16s
  BY <1>1 DEF Record
<1>8. o \in {<<192, 12>>, <<1, 97, 0>>}
  <2>1. r.owner = "pointer" \/ r.owner = "labels"
    BY <1>1, <1>7 DEF PlainNames
  <2>2. CASE r.owner = "pointer"
    BY <2>2 DEF Owner
  <2>3. CASE r.owner = "labels"
    BY <2>3 DEF Owner
  <2> QED
    BY <2>1, <2>2, <2>3
<1> HIDE DEF R, n, pkt, w, rest, off, a, r, o
<1>9. /\ a \in Nat /\ Len(R[j]) \in Nat /\ Len(rest) \in Nat
      /\ Len(Flat(R, j)) = a + Len(R[j]) /\ Len(Flat(R, j)) <= Len(rest)
      /\ \A k \in 1..Len(R[j]) : rest[a + k] = R[j][k]
  <2>1. j \in 1..Len(R)
    BY <1>1 DEF n
  <2>2. PartPlaced(R, j)
    BY <1>1, <2>1, FlatPart
  <2> QED
    BY <2>2 DEF PartPlaced, a, rest
<1>10. HasRecord(pkt, off, R[j])
  <2>1. ASSUME NEW k \in 1..Len(R[j]), off + k <= Len(pkt) PROVE pkt[off + k] = R[j][k]
    <3>1. a + k \in 1..Len(rest) /\ off + k = 19 + (a + k) /\ off + k \in 1..Len(pkt)
      BY <1>3, <1>4, <1>9, <2>1, SMTT(40)
    <3>2. pkt[off + k] = w[off + k]
      BY <1>3, <3>1
    <3>3. w[19 + (a + k)] = rest[a + k] /\ rest[a + k] = R[j][k]
      BY <1>2, <1>9, <3>1
    <3> QED
      BY <3>1, <3>2, <3>3
  <2>2. off \in Nat
    BY <1>4, <1>9
  <2> QED
    BY <1>3, <2>1, <2>2 DEF HasRecord
<1>11. PlainRecord(R[j], o, r.typ, r.data)
  <2>1. o \in Seq(Octets)
    <3>1. 192 \in Octets /\ 12 \in Octets /\ 1 \in Octets /\ 97 \in Octets /\ 0 \in Octets
      BY DEF Octets
    <3>2. <<192, 12>> \in Seq(Octets) /\ <<1, 97, 0>> \in Seq(Octets)
      BY <3>1, FewBytes
    <3> QED
      BY <1>8, <3>2
  <2>2. RecordAt(record(o, r.typ, r.data), o, r.typ, r.data)
    BY <1>7, <2>1, RecordLayout
  <2> QED
    BY <1>1, <1>7, <1>8, <2>2 DEF PlainRecord
<1>12. readRecord(pkt, [off |-> off, ips |-> ips])
         = IF off + Len(R[j]) <= Len(pkt)
             THEN [off |-> off + Len(R[j]), ips |-> ips \o address(r.typ, r.data)]
             ELSE [off |-> off, ips |-> ips]
  <2>1. RoundOf(pkt, off, R[j], r.typ, r.data, ips)
    BY <1>10, <1>11, RoundReads
  <2> QED
    BY <2>1, Zenon DEF RoundOf
<1> QED
  BY <1>5, <1>6, <1>12, Zenon DEF pkt, off

(* The addresses of a message are those of its whole records.              *)
LEMMA AddressesFound ==
  ASSUME NEW msg, msg \in Message
  PROVE  /\ Found(msg) \in Seq(Seq(IP)) /\ Len(Found(msg)) = Len(msg.records)
         /\ Addresses(msg) = Flat(Found(msg), LastWhole(msg))
<1> DEFINE n == Len(msg.records)
           w == LastWhole(msg)
           F == Found(msg)
           found == [i \in 1..w |->
             LET r == msg.records[i] IN
             IF <<r.typ, Len(r.data)>> \in {<<qtypeA, 4>>, <<qtypeAAAA, 16>>} THEN <<r.data>> ELSE <<>>]
<1>1. n \in Nat /\ \A i \in 1..n : msg.records[i] \in Record
  BY RecordsTyped
<1>2. w \in 0..n
  BY WholeFirst
<1>3. \A i \in 1..n : F[i] = address(msg.records[i].typ, msg.records[i].data)
  BY DEF Found
<1>4. F = [i \in 1..n |-> F[i]]
  BY DEF Found
<1>5. Addresses(msg) = FlattenSeq(found)
  BY Zenon DEF Addresses, LastWhole
<1>6. ASSUME NEW i \in 1..n PROVE F[i] \in Seq(IP)
  <2>1. msg.records[i].data \in Seq(Octets)
    BY <1>1 DEF Record
  <2> QED
    BY <1>3, <2>1, AddressType
<1> HIDE DEF F, n, w
<1>7. F \in Seq(Seq(IP)) /\ Len(F) = n
  BY <1>1, <1>4, <1>6
<1>8. ASSUME NEW i \in 1..w PROVE found[i] = F[i]
  <2> DEFINE r == msg.records[i]
             k == Len(r.data)
  <2>1. i \in 1..n
    BY <1>1, <1>2
  <2>2. <<r.typ, k>> \in {<<qtypeA, 4>>, <<qtypeAAAA, 16>>}
          <=> (r.typ = qtypeA /\ k = 4) \/ (r.typ = qtypeAAAA /\ k = 16)
    OBVIOUS
  <2>3. found[i] = IF <<r.typ, k>> \in {<<qtypeA, 4>>, <<qtypeAAAA, 16>>} THEN <<r.data>> ELSE <<>>
    BY Zenon
  <2>4. F[i] = IF (r.typ = qtypeA /\ k = 4) \/ (r.typ = qtypeAAAA /\ k = 16) THEN <<r.data>> ELSE <<>>
    BY <1>3, <2>1, Zenon DEF address
  <2> HIDE DEF found, r, k
  <2> QED
    BY <2>2, <2>3, <2>4, Zenon
<1>9. found = [i \in 1..w |-> F[i]]
  <2>1. found = [i \in 1..w |-> found[i]]
    BY Zenon
  <2> HIDE DEF found
  <2>2. [i \in 1..w |-> found[i]] = [i \in 1..w |-> F[i]]
    BY <1>8, Zenon
  <2> QED
    BY <2>1, <2>2, Zenon
<1>10. SubSeq(F, 1, w) = [i \in 1..w |-> F[i]]
  <2>1. w \in Nat /\ w <= Len(F) /\ Len(F) \in Nat
    BY <1>1, <1>2, <1>7
  <2>2. SubSeq(F, 1, w) \in Seq(Seq(IP)) /\ Len(SubSeq(F, 1, w)) = w /\ \A i \in 1..w : SubSeq(F, 1, w)[i] = F[i]
    BY <1>7, <2>1
  <2> QED
    BY <2>1, <2>2
<1> QED
  BY <1>5, <1>7, <1>9, <1>10 DEF F, n, w, Flat

(* parseAnswers finds the addresses of the records that arrived whole.     *)
LEMMA AnswersFound ==
  ASSUME NEW msg, msg \in Message, PlainNames(msg)
  PROVE  parseAnswers(Received(msg)) = Addresses(msg)
<1> DEFINE pkt == Received(msg)
           L == Len(pkt)
           n == Len(msg.records)
           w == LastWhole(msg)
           F == Found(msg)
           P(j) == Position(msg, j)
           low(j) == IF j < w THEN j ELSE w
<1>1. pkt \in Seq(Octets) /\ L \in Nat /\ \A i \in 1..L : pkt[i] = Encode(msg)[i]
  BY ResponseReceived DEF Arrived
<1>2. w \in 0..n /\ \A j \in 1..n : j <= w <=> P(j) <= L
  BY WholeFirst
<1>3. F \in Seq(Seq(IP)) /\ Len(F) = n /\ Addresses(msg) = Flat(F, w)
  BY AddressesFound
<1>4. n \in Nat /\ n \in U16s
  BY RecordsTyped
<1>5. /\ P(0) = 19 /\ (\A j \in 0..n : P(j) \in Nat)
      /\ \A i, j \in 0..n : i <= j => P(i) <= P(j)
  BY Positions
<1>6. Flat(F, 0) = <<>> /\ \A j \in 1..n : F[j] \in Seq(IP) /\ Flat(F, j) = Flat(F, j - 1) \o F[j]
  BY <1>3, Flattened
<1>7. L >= 12 => /\ L >= 15 => questionName(pkt) = 14 /\ At(pkt, 14) = 0
                 /\ L < 15 => questionName(pkt) >= L
  BY ResponseReceived, NameWalk
<1>8. CASE L < 15
  <2>1. parseAnswers(pkt) = <<>>
    <3>1. CASE L < 12
      BY <3>1 DEF parseAnswers
    <3>2. CASE L >= 12
      <4>1. answersStart(pkt) = Bad
        BY <1>7, <1>8, <3>2 DEF answersStart
      <4> QED
        BY <4>1 DEF parseAnswers
    <3> QED
      BY <1>1, <3>1, <3>2
  <2>2. w = 0
    <3> SUFFICES ASSUME w # 0 PROVE FALSE
      OBVIOUS
    <3>1. w \in 1..n /\ w \in 0..n /\ 0 \in 0..n /\ 0 <= w
      BY <1>2, <1>4
    <3>2. P(w) <= L /\ P(0) <= P(w) /\ P(w) \in Nat
      BY <1>2, <1>5, <3>1
    <3> QED
      BY <1>1, <1>5, <1>8, <3>2
  <2> QED
    BY <1>3, <1>6, <2>1, <2>2
<1>9. CASE L >= 15
  <2>1. answersStart(pkt) = 19
    <3>1. questionName(pkt) = 14 /\ At(pkt, 14) = 0
      BY <1>1, <1>7, <1>9
    <3> QED
      BY <1>1, <1>9, <3>1 DEF answersStart, Pointer
  <2>2. U16(pkt, 6) = n
    <3>1. HeaderAt(AnswerHeader(msg), 7, 129, 128, 1, n, 0)
      BY ResponseReceived
    <3>2. PairAt(AnswerHeader(msg), 6, PutU16(n))
      BY <3>1 DEF HeaderAt
    <3>3. \A i \in 1..12 : Encode(msg)[i] = AnswerHeader(msg)[i]
      BY ResponseReceived DEF MessageAt
    <3>4. 7 \in 1..12 /\ 8 \in 1..12 /\ 7 \in 1..L /\ 8 \in 1..L
      BY <1>1, <1>9
    <3>5. PairAt(pkt, 6, PutU16(n))
      BY <1>1, <3>2, <3>3, <3>4 DEF PairAt
    <3> HIDE DEF pkt, n
    <3> QED
      BY <1>1, <1>4, <3>5, PairWritten
  <2>3. PICK g : Rounds(g, pkt) /\ parseAnswers(pkt) = g[U16(pkt, 6)].ips
    <3>1. L >= 12 /\ answersStart(pkt) # Bad
      BY <1>1, <1>9, <2>1 DEF Bad
    <3> QED
      BY <1>1, <3>1, ParseRounds
  <2>4. g[0] = [off |-> 19, ips |-> <<>>] /\ \A i \in 1..n : g[i] = readRecord(pkt, g[i - 1])
    BY <2>1, <2>2, <2>3 DEF Rounds
  <2>5. \A j \in 1..n : \A ips :
          readRecord(pkt, [off |-> P(j - 1), ips |-> ips])
            = IF P(j) <= L THEN [off |-> P(j), ips |-> ips \o F[j]]
              ELSE [off |-> P(j - 1), ips |-> ips]
    BY RecordRound
  <2> HIDE DEF pkt, n, L, w, F, P
  <2> DEFINE At0(j) == g[j] = [off |-> P(low(j)), ips |-> Flat(F, low(j))]
             Failing == {j \in Nat : j \in 0..n /\ ~At0(j)}
  <2>6. Failing = {}
    <3> SUFFICES ASSUME Failing # {} PROVE FALSE
      OBVIOUS
    <3>1. Failing \in SUBSET Nat
      OBVIOUS
    <3>2. PICK j \in Failing : \A k \in Failing : j <= k
      BY <3>1, LeastNumber
    <3>3. j \in Nat /\ j \in 0..n /\ ~At0(j)
      BY <3>2
    <3>4. j # 0
      <4>1. low(0) = 0
        BY <1>2, <1>4
      <4>2. At0(0)
        BY <1>5, <1>6, <2>4, <4>1
      <4> QED
        BY <3>3, <4>2
    <3>5. j - 1 \in Nat /\ j - 1 \in 0..n /\ j \in 1..n /\ ~(j <= j - 1)
      BY <1>4, <3>3, <3>4
    <3>6. j - 1 \notin Failing
      <4> HIDE DEF Failing
      <4> QED
        BY <3>2, <3>5
    <3>7. At0(j - 1)
      BY <3>5, <3>6, Zenon
    <3>8. g[j] = readRecord(pkt, [off |-> P(low(j - 1)), ips |-> Flat(F, low(j - 1))])
      BY <2>4, <3>5, <3>7
    <3>9. CASE j <= w
      <4>1. low(j - 1) = j - 1 /\ low(j) = j /\ P(j) <= L
        BY <1>2, <1>4, <3>5, <3>9
      <4>2. g[j] = [off |-> P(j), ips |-> Flat(F, j - 1) \o F[j]]
        BY <2>5, <3>5, <3>8, <4>1
      <4>3. At0(j)
        BY <1>6, <3>5, <4>1, <4>2
      <4> QED
        BY <3>3, <4>3
    <3>10. CASE j = w + 1
      <4>1. low(j - 1) = j - 1 /\ low(j) = j - 1 /\ ~(P(j) <= L)
        BY <1>2, <1>4, <3>5, <3>10
      <4>2. g[j] = [off |-> P(j - 1), ips |-> Flat(F, j - 1)]
        BY <2>5, <3>5, <3>8, <4>1
      <4>3. At0(j)
        BY <4>1, <4>2
      <4> QED
        BY <3>3, <4>3
    <3>11. CASE j > w + 1
      <4>1. low(j - 1) = w /\ low(j) = w /\ w + 1 \in 1..n /\ ~(w + 1 <= w)
        BY <1>2, <1>4, <3>5, <3>11
      <4>2. ~(P(w + 1) <= L)
        BY <1>2, <4>1
      <4>3. g[j] = [off |-> P(w), ips |-> Flat(F, w)]
        <5> DEFINE x == w + 1
        <5>1. x \in 1..n /\ ~(P(x) <= L)
          BY <4>1, <4>2, Zenon
        <5>3. x - 1 = w
          BY <1>2, <1>4
        <5> HIDE DEF x
        <5>2. readRecord(pkt, [off |-> P(x - 1), ips |-> Flat(F, w)]) = [off |-> P(x - 1), ips |-> Flat(F, w)]
          BY <2>5, <5>1
        <5> QED
          BY <3>8, <4>1, <5>2, <5>3
      <4>4. At0(j)
        BY <4>1, <4>3
      <4> QED
        BY <3>3, <4>4
    <3> QED
      BY <1>2, <1>4, <3>3, <3>9, <3>10, <3>11
  <2>7. n \in 0..n /\ low(n) = w
    BY <1>2, <1>4
  <2>8. At0(n)
    BY <1>4, <2>6, <2>7
  <2> QED
    BY <1>3, <2>2, <2>3, <2>7, <2>8 DEF pkt
<1> QED
  BY <1>1, <1>8, <1>9

(* Where the lookup stands.  As long as it goes on, every endpoint before  *)
(* the next one has been heard at most once.                               *)
Asking == qpc \in {"port", "lookup"}
DnsTyped ==
  /\ query \in Queries /\ qpc \in {"port", "lookup", "answered", "dropped"}
  /\ endpoint \in 1..(Endpoints + 1) /\ heard \in Seq(Responses) /\ Len(heard) <= Endpoints
  /\ reply \in Seq(Octets) /\ (qpc = "answered" => WellFormed(query))
  /\ Asking => endpoint <= Endpoints /\ Len(heard) < endpoint

(* A query is answered with what was found, if it parses.                  *)
LEMMA QueryAnswerStep ==
  ASSUME NEW ips, ips \in Seq(IP), Len(ips) \in U16s, DnsTyped, Answer(ips)
  PROVE  /\ reply' \in Seq(Octets) /\ qpc' \in {"answered", "dropped"}
         /\ qpc' = "answered" => WellFormed(query) /\ reply' = Response(query, ips)
<1>1. query \in Datagram /\ reply \in Seq(Octets)
  BY QueriesTyped DEF DnsTyped
<1>2. parsed(packet(query)) <=> WellFormed(query)
  BY <1>1, QueryParsed
<1>3. CASE parsed(packet(query))
  <2>1. reply' = buildResponse(packet(query), ips) /\ qpc' = "answered"
    BY <1>3 DEF Answer
  <2>2. buildResponse(packet(query), ips) = Response(query, ips) /\ Response(query, ips) \in Seq(Octets)
    BY <1>1, <1>3, BuildsResponse
  <2> QED
    BY <1>2, <1>3, <2>1, <2>2
<1>4. CASE ~parsed(packet(query))
  BY <1>1, <1>4 DEF Answer
<1> QED
  BY <1>3, <1>4, Zenon

(* The empty answer is one.                                                *)
LEMMA NoAddress == <<>> \in Seq(IP) /\ Len(<<>>) \in U16s
<1>1. <<>> \in Seq(IP) /\ Len(<<>>) = 0
  BY EmptySeq
<1> QED
  BY <1>1 DEF U16s

(* An endpoint that failed is followed by the next, or the query answered. *)
LEMMA FailedStep ==
  ASSUME DnsTyped, qpc = "lookup", NextEndpoint
  PROVE  /\ endpoint' = endpoint + 1 /\ endpoint \in 1..Endpoints
         /\ \/ endpoint < Endpoints /\ UNCHANGED <<qpc, reply>>
            \/ /\ reply' \in Seq(Octets) /\ qpc' \in {"answered", "dropped"}
               /\ qpc' = "answered" => WellFormed(query) /\ reply' = Response(query, <<>>)
<1>1. endpoint \in 1..(Endpoints + 1) /\ endpoint <= Endpoints
  BY DEF DnsTyped, Asking
<1>2. CASE endpoint = Endpoints
  <2>1. Answer(<<>>)
    BY <1>2 DEF NextEndpoint
  <2>2. /\ reply' \in Seq(Octets) /\ qpc' \in {"answered", "dropped"}
        /\ qpc' = "answered" => WellFormed(query) /\ reply' = Response(query, <<>>)
    BY <2>1, NoAddress, QueryAnswerStep
  <2>3. endpoint' = endpoint + 1 /\ endpoint \in 1..Endpoints
    BY <1>1, EndpointsNat DEF NextEndpoint
  <2> QED
    BY <2>2, <2>3
<1>3. CASE endpoint # Endpoints
  BY <1>1, <1>3, EndpointsNat DEF NextEndpoint
<1> QED
  BY <1>2, <1>3

(* What every step of the lookup does to the typed state.                  *)
LEMMA DnsTypedInductive == DnsTyped /\ [DnsNext]_dnsVars => DnsTyped'
<1> SUFFICES ASSUME DnsTyped, [DnsNext]_dnsVars PROVE DnsTyped'
  OBVIOUS
<1>1. /\ query \in Queries /\ qpc \in {"port", "lookup", "answered", "dropped"}
      /\ endpoint \in 1..(Endpoints + 1) /\ heard \in Seq(Responses) /\ Len(heard) <= Endpoints
      /\ reply \in Seq(Octets) /\ (qpc = "answered" => WellFormed(query))
      /\ (Asking => endpoint <= Endpoints /\ Len(heard) < endpoint)
  BY DEF DnsTyped
<1>2. Len(heard) \in Nat /\ Endpoints \in Nat
  BY <1>1, LenProperties, EndpointsNat
<1>3. CASE UNCHANGED dnsVars
  BY <1>1, <1>3 DEF dnsVars, DnsTyped, Asking, WellFormed
<1>4. CASE HandleUDP
  <2>1. qpc = "port" /\ qpc' \in {"lookup", "dropped"} /\ UNCHANGED <<query, endpoint, heard, reply>>
    BY <1>4 DEF HandleUDP
  <2> QED
    BY <1>1, <2>1 DEF DnsTyped, Asking
<1>5. CASE LookupFails
  <2>1. qpc = "lookup" /\ NextEndpoint /\ UNCHANGED <<query, heard>>
    BY <1>5 DEF LookupFails
  <2>2. /\ endpoint' = endpoint + 1 /\ endpoint \in 1..Endpoints
        /\ \/ endpoint < Endpoints /\ UNCHANGED <<qpc, reply>>
           \/ /\ reply' \in Seq(Octets) /\ qpc' \in {"answered", "dropped"}
              /\ qpc' = "answered" => WellFormed(query)
    BY <2>1, FailedStep
  <2>3. Len(heard) < endpoint
    BY <1>1, <2>1 DEF Asking
  <2>4. endpoint' \in 1..(Endpoints + 1) /\ Len(heard) < endpoint' /\ (endpoint < Endpoints => endpoint' <= Endpoints)
    BY <1>2, <2>2, <2>3
  <2> QED
    BY <1>1, <2>1, <2>2, <2>4 DEF DnsTyped, Asking, WellFormed
<1>6. CASE LookupAnswered
  <2>1. qpc = "lookup" /\ UNCHANGED query
    BY <1>6 DEF LookupAnswered
  <2>2. PICK msg \in Responses :
          /\ heard' = Append(heard, msg)
          /\ LET ips == parseAnswers(Received(msg)) IN
             IF ips = <<>> THEN NextEndpoint ELSE Answer(ips) /\ UNCHANGED endpoint
    BY <1>6 DEF LookupAnswered
  <2>3. heard' \in Seq(Responses) /\ Len(heard') = Len(heard) + 1
    BY <1>1, <2>2
  <2>4. endpoint <= Endpoints /\ Len(heard) < endpoint
    BY <1>1, <2>1 DEF Asking
  <2>5. Len(heard') <= Endpoints
    BY <1>1, <1>2, <2>3, <2>4
  <2>6. CASE NextEndpoint
    <3>1. /\ endpoint' = endpoint + 1 /\ endpoint \in 1..Endpoints
          /\ \/ endpoint < Endpoints /\ UNCHANGED <<qpc, reply>>
             \/ /\ reply' \in Seq(Octets) /\ qpc' \in {"answered", "dropped"}
                /\ qpc' = "answered" => WellFormed(query)
      BY <2>1, <2>6, FailedStep
    <3>2. /\ endpoint' \in 1..(Endpoints + 1) /\ Len(heard') < endpoint'
          /\ (endpoint < Endpoints => endpoint' <= Endpoints)
      BY <1>2, <2>3, <2>4, <3>1
    <3> QED
      BY <1>1, <2>1, <2>3, <2>5, <3>1, <3>2 DEF DnsTyped, Asking, WellFormed
  <2>7. CASE Answer(parseAnswers(Received(msg))) /\ UNCHANGED endpoint
    <3>1. msg \in Message
      BY ResponsesTyped
    <3>2. Received(msg) \in Seq(Octets)
      BY <3>1, ResponseReceived DEF Arrived
    <3>3. parseAnswers(Received(msg)) \in Seq(IP) /\ Len(parseAnswers(Received(msg))) \in U16s
      BY <3>2, ParseType
    <3>4. reply' \in Seq(Octets) /\ qpc' \in {"answered", "dropped"} /\ (qpc' = "answered" => WellFormed(query))
      BY <2>7, <3>3, QueryAnswerStep
    <3> QED
      BY <1>1, <2>1, <2>3, <2>5, <2>7, <3>4 DEF DnsTyped, Asking, WellFormed
  <2> QED
    BY <2>2, <2>6, <2>7
<1> QED
  BY <1>3, <1>4, <1>5, <1>6 DEF DnsNext

(* The lookup begins so.                                                   *)
LEMMA DnsStarts == DnsInit => DnsTyped
<1> SUFFICES ASSUME DnsInit PROVE DnsTyped
  OBVIOUS
<1>1. query \in Queries /\ qpc = "port" /\ endpoint = 1 /\ heard = <<>> /\ reply = <<>>
  BY DEF DnsInit, NoReply
<1>2. <<>> \in Seq(Responses) /\ <<>> \in Seq(Octets) /\ Len(<<>>) = 0
  BY EmptySeq
<1>3. 1 \in 1..(Endpoints + 1) /\ 0 <= Endpoints /\ 1 <= Endpoints /\ 0 < 1
  BY EndpointsNat
<1> QED
  BY <1>1, <1>2, <1>3 DEF DnsTyped, Asking

(* The types of the variables follow.                                      *)
LEMMA DnsTyping == DnsTyped => DnsTypeOK
<1> SUFFICES ASSUME DnsTyped PROVE DnsTypeOK
  OBVIOUS
<1>1. Range(heard) \subseteq Responses
  BY LenProperties, ElementOfSeq DEF DnsTyped, Range
<1> QED
  BY <1>1 DEF DnsTyped, DnsTypeOK

(* The lookup of a query stays typed, and only a query of one whole        *)
(* question is answered.                                                   *)
LEMMA DnsStaysTyped == DnsSpec => []DnsTyped
  BY DnsStarts, DnsTypedInductive, PTL DEF DnsSpec

(* DnsTypeOK is an invariant, whatever the owner names of the records: the *)
(* datagram written back is a string of bytes, and no endpoint is asked    *)
(* behind the last one.                                                    *)
THEOREM DnsTypes == DnsSpec => []DnsTypeOK
  BY DnsStaysTyped, DnsTyping, PTL

(* A query is answered only if it has one question and arrived whole.      *)
THEOREM DnsAnswersQueries == DnsSpec => [](qpc = "answered" => WellFormed(query))
<1>1. DnsTyped => (qpc = "answered" => WellFormed(query))
  BY DEF DnsTyped
<1> QED
  BY <1>1, DnsStaysTyped, PTL

(* No endpoint that was heard before the one that is asked had an address, *)
(* and the reply fits.                                                     *)
DnsInv == (Asking => \A i \in DOMAIN heard : Addresses(heard[i]) = <<>>) /\ ReplyFits

(* No response names the owner of a record by a label and a pointer.       *)
PlainOwners == \A msg \in Responses : PlainNames(msg)

(* Every response is read rightly, if its owners are plain.                *)
LEMMA RightlyRead ==
  ASSUME PlainOwners, NEW msg, msg \in Responses
  PROVE  parseAnswers(Received(msg)) = Addresses(msg)
  BY ResponsesTyped, AnswersFound DEF PlainOwners

(* The reply r fits the query q and the responses hs.                      *)
FitsHeard(r, q, hs) ==
  LET useful == {i \in DOMAIN hs : Addresses(hs[i]) # <<>>}
  IN r = Response(q, IF useful = {} THEN <<>> ELSE Addresses(hs[Min(useful)]))

(* One without addresses fits when no endpoint had any.                    *)
LEMMA EmptyReplyFits ==
  ASSUME NEW hs, \A i \in DOMAIN hs : Addresses(hs[i]) = <<>>, NEW q
  PROVE  FitsHeard(Response(q, <<>>), q, hs)
<1>1. {i \in DOMAIN hs : Addresses(hs[i]) # <<>>} = {}
  OBVIOUS
<1> QED
  BY <1>1, Zenon DEF FitsHeard

(* One with those of the last endpoint heard fits when it is the first     *)
(* with any.                                                               *)
LEMMA LastReplyFits ==
  ASSUME NEW hs, NEW q, NEW n, n \in Nat, DOMAIN hs = 1..(n + 1),
         \A i \in 1..n : Addresses(hs[i]) = <<>>, Addresses(hs[n + 1]) # <<>>
  PROVE  FitsHeard(Response(q, Addresses(hs[n + 1])), q, hs)
<1> DEFINE useful == {i \in DOMAIN hs : Addresses(hs[i]) # <<>>}
<1>1. useful = {n + 1}
  <2>1. \A i : i \in 1..(n + 1) <=> i \in 1..n \/ i = n + 1
    OBVIOUS
  <2> QED
    BY <2>1
<1>2. Min({n + 1}) = n + 1
  <2>1. \E x \in {n + 1} : \A y \in {n + 1} : x <= y
    OBVIOUS
  <2> QED
    BY <2>1 DEF Min
<1>3. (IF useful = {} THEN <<>> ELSE Addresses(hs[Min(useful)])) = Addresses(hs[n + 1])
  <2>1. useful # {} /\ Min(useful) = n + 1
    BY <1>1, <1>2
  <2> HIDE DEF useful
  <2> QED
    BY <2>1, Zenon
<1> QED
  BY <1>3, Zenon DEF FitsHeard

(* The lookup goes on only while no endpoint had an address.               *)
LEMMA DnsInvInductive ==
  ASSUME PlainOwners, DnsTyped, DnsInv, [DnsNext]_dnsVars
  PROVE  DnsInv'
<1>1. /\ heard \in Seq(Responses) /\ qpc \in {"port", "lookup", "answered", "dropped"}
      /\ (Asking => \A i \in DOMAIN heard : Addresses(heard[i]) = <<>>) /\ ReplyFits
  BY DEF DnsTyped, DnsInv
<1>2. Len(heard) \in Nat /\ DOMAIN heard = 1..Len(heard)
  BY <1>1, LenProperties
<1>3. CASE UNCHANGED dnsVars
  BY <1>1, <1>3, Zenon DEF dnsVars, DnsInv, Asking, ReplyFits
<1>4. CASE HandleUDP
  <2>1. qpc = "port" /\ qpc' \in {"lookup", "dropped"} /\ UNCHANGED <<query, endpoint, heard, reply>>
    BY <1>4 DEF HandleUDP
  <2>2. ReplyFits'
    BY <2>1 DEF ReplyFits
  <2>3. \A i \in DOMAIN heard' : Addresses(heard'[i]) = <<>>
    BY <1>1, <2>1 DEF Asking
  <2> QED
    BY <2>2, <2>3 DEF DnsInv
<1>5. CASE LookupFails
  <2>1. qpc = "lookup" /\ NextEndpoint /\ UNCHANGED <<query, heard>>
    BY <1>5 DEF LookupFails
  <2>2. \/ UNCHANGED <<qpc, reply>>
        \/ qpc' \in {"answered", "dropped"} /\ (qpc' = "answered" => reply' = Response(query, <<>>))
    BY <2>1, FailedStep
  <2>3. \A i \in DOMAIN heard' : Addresses(heard'[i]) = <<>>
    BY <1>1, <2>1 DEF Asking
  <2>4. ReplyFits'
    <3>1. CASE qpc' = "answered"
      <4>1. FitsHeard(Response(query', <<>>), query', heard')
        BY <2>3, EmptyReplyFits
      <4>2. reply' = Response(query', <<>>)
        BY <2>1, <2>2, <3>1
      <4> QED
        BY <4>1, <4>2, Zenon DEF ReplyFits, FitsHeard
    <3>2. CASE qpc' # "answered"
      BY <3>2 DEF ReplyFits
    <3> QED
      BY <3>1, <3>2
  <2> QED
    BY <2>3, <2>4 DEF DnsInv
<1>6. CASE LookupAnswered
  <2>1. qpc = "lookup" /\ UNCHANGED query
    BY <1>6 DEF LookupAnswered
  <2>2. PICK msg \in Responses :
          /\ heard' = Append(heard, msg)
          /\ LET ips == parseAnswers(Received(msg)) IN
             IF ips = <<>> THEN NextEndpoint ELSE Answer(ips) /\ UNCHANGED endpoint
    BY <1>6 DEF LookupAnswered
  <2>3. parseAnswers(Received(msg)) = Addresses(msg)
    BY RightlyRead
  <2> DEFINE n == Len(heard)
  <2>4. /\ DOMAIN heard' = 1..(n + 1) /\ heard'[n + 1] = msg
        /\ \A i \in 1..n : heard'[i] = heard[i]
    BY <1>1, <1>2, <2>2
  <2>5. n \in Nat /\ \A i \in 1..n : Addresses(heard[i]) = <<>>
    BY <1>1, <1>2, <2>1 DEF Asking
  <2>6. \A i \in 1..n : Addresses(heard'[i]) = <<>>
    BY <2>4, <2>5
  <2> HIDE DEF n
  <2>7. CASE Addresses(msg) = <<>>
    <3>1. NextEndpoint
      BY <2>2, <2>3, <2>7
    <3>2. \/ UNCHANGED <<qpc, reply>>
          \/ qpc' \in {"answered", "dropped"} /\ (qpc' = "answered" => reply' = Response(query, <<>>))
      BY <2>1, <3>1, FailedStep
    <3>3. ASSUME NEW i \in DOMAIN heard' PROVE Addresses(heard'[i]) = <<>>
      <4>1. i \in 1..n \/ i = n + 1
        BY <2>4, <2>5
      <4> QED
        BY <2>4, <2>6, <2>7, <4>1
    <3>4. ReplyFits'
      <4>1. CASE qpc' = "answered"
        <5>1. FitsHeard(Response(query', <<>>), query', heard')
          BY <3>3, EmptyReplyFits
        <5>2. reply' = Response(query', <<>>)
          BY <2>1, <3>2, <4>1
        <5> QED
          BY <5>1, <5>2, Zenon DEF ReplyFits, FitsHeard
      <4>2. CASE qpc' # "answered"
        BY <4>2 DEF ReplyFits
      <4> QED
        BY <4>1, <4>2
    <3> QED
      BY <3>3, <3>4 DEF DnsInv
  <2>8. CASE Addresses(msg) # <<>>
    <3>1. Answer(Addresses(msg))
      BY <2>2, <2>3, <2>8
    <3>2. Addresses(msg) \in Seq(IP) /\ Len(Addresses(msg)) \in U16s
      <4>1. Received(msg) \in Seq(Octets)
        BY ResponsesTyped, ResponseReceived DEF Arrived
      <4> QED
        BY <2>3, <4>1, ParseType
    <3>3. qpc' \in {"answered", "dropped"} /\ (qpc' = "answered" => reply' = Response(query, Addresses(msg)))
      BY <3>1, <3>2, QueryAnswerStep
    <3>4. ReplyFits'
      <4>1. CASE qpc' = "answered"
        <5>1. reply' = Response(query', Addresses(heard'[n + 1])) /\ Addresses(heard'[n + 1]) # <<>>
          BY <2>1, <2>4, <2>8, <3>3, <4>1
        <5>2. FitsHeard(Response(query', Addresses(heard'[n + 1])), query', heard')
          BY <2>4, <2>5, <2>6, <5>1, LastReplyFits
        <5> QED
          BY <5>1, <5>2, Zenon DEF ReplyFits, FitsHeard
      <4>2. CASE qpc' # "answered"
        BY <4>2 DEF ReplyFits
      <4> QED
        BY <4>1, <4>2
    <3>5. ~Asking'
      BY <3>3 DEF Asking
    <3> QED
      BY <3>4, <3>5 DEF DnsInv
  <2> QED
    BY <2>7, <2>8
<1> QED
  BY <1>3, <1>4, <1>5, <1>6 DEF DnsNext

(* DnsAnswers is an invariant when no response names the owner of a record *)
(* by a label and a pointer: parseAnswers finds the addresses of the whole *)
(* records of a message cut anywhere, and the reply carries those of the   *)
(* first endpoint that had any.                                            *)
THEOREM DnsCorrect == PlainOwners => (DnsSpec => []DnsAnswers)
<1>1. PlainOwners => []PlainOwners
  OBVIOUS
<1>2. DnsInit => DnsInv
  <2> SUFFICES ASSUME DnsInit PROVE DnsInv
    OBVIOUS
  <2>1. qpc = "port" /\ heard = <<>>
    BY DEF DnsInit
  <2> QED
    BY <2>1 DEF DnsInv, ReplyFits
<1>3. PlainOwners /\ DnsTyped /\ DnsInv /\ [DnsNext]_dnsVars => DnsInv'
  BY DnsInvInductive
<1>4. PlainOwners /\ DnsTyped /\ DnsInv => DnsAnswers
  <2> SUFFICES ASSUME PlainOwners, DnsTyped, DnsInv PROVE DnsAnswers
    OBVIOUS
  <2>1. \A i \in DOMAIN heard : heard[i] \in Responses
    BY LenProperties, ElementOfSeq DEF DnsTyped
  <2>2. AnswersExtracted
    BY <2>1, RightlyRead DEF AnswersExtracted
  <2> QED
    BY <2>2 DEF DnsInv, DnsAnswers
<1> QED
  BY <1>1, <1>2, <1>3, <1>4, DnsStaysTyped, PTL DEF DnsSpec

-----------------------------------------------------------------------------
(* CoreManager                                                             *)

USE MaxGenNat, ExitCapNat, NoneNoProfile, CancelsBoolean

(* The caller inside Start: no generation runs, there is a number left for *)
(* the next one, and the file holds what will be registered.               *)
CallInv ==
  /\ call \in {"write", "register"} => ~running /\ generation < MaxGen
  /\ call = "register" => file = asked

(* Generations to come are untouched; a process is alive only while its    *)
(* supervisor waits in cmd.Run.                                            *)
GenInv ==
  \A g \in Gens : /\ g > generation => sup[g] = "none"
                  /\ proc[g] = "alive" => sup[g] = "waiting"

(* Manager.cmd is the current generation's from the making of the cmd to   *)
(* the return of cmd.Run, and the file is the one it was started with.     *)
CurrentInv ==
  /\ \A g \in Gens : (g = generation /\ sup[g] \in {"made", "starting", "waiting"}) => cmd = g
  /\ \A g \in Gens : (g = generation /\ Supervised(g)) => file = want[g]

(* The supervisor of the current generation leaves only when its context   *)
(* is cancelled.                                                           *)
LeaveInv == \A g \in Gens : (g = generation /\ sup[g] \in {"return", "gone"}) => ctx[g]

(* The inductive invariant of the manager.                                 *)
CoreIInv == CoreInv /\ CallInv /\ GenInv /\ CurrentInv /\ LeaveInv

-----------------------------------------------------------------------------
(* The first state satisfies the invariant.                                *)
LEMMA CoreInitial == CoreInit => CoreIInv
  <1> SUFFICES ASSUME CoreInit PROVE CoreIInv
    OBVIOUS
  <1>1. CoreTypeOK
    <2>1. running \in BOOLEAN
      BY DEF CoreInit
    <2>2. ctx \in [Gens -> BOOLEAN]
      BY DEF CoreInit
    <2>3. exits \in Seq(Gens) /\ Len(exits) <= ExitCap
      BY DEF CoreInit
    <2>4. QED
      BY <2>1, <2>2, <2>3 DEF CoreInit, CoreTypeOK, SupStates
  <1>2. QED
    BY <1>1 DEF CoreInit, CoreIInv, CoreInv, RunningExact, Supervised, StopFindsCore,
       CoreRunsItsProfile, CallInv, GenInv, CurrentInv, LeaveInv, Gens

(* A step that changes nothing of the manager keeps the invariant.         *)
LEMMA CoreStutter == CoreIInv /\ UNCHANGED coreVars => CoreIInv'
  BY DEF coreVars, CoreIInv, CoreInv, CoreTypeOK, RunningExact, Supervised, StopFindsCore,
         CoreRunsItsProfile, CallInv, GenInv, CurrentInv, LeaveInv

(* The steps of Start keep the invariant.                                  *)
LEMMA StartCheckKeeps ==
  ASSUME CoreIInv, NEW p \in Profiles, StartCheck(p)
  PROVE  CoreIInv'
  BY DEF StartCheck, managerVars, CoreIInv, CoreInv, CoreTypeOK, RunningExact, Supervised,
         StopFindsCore, CoreRunsItsProfile, CallInv, GenInv, CurrentInv, LeaveInv

(* One lemma per action of Start, Stop and the supervisor of a core.       *)
LEMMA WriteConfigKeeps ==
  ASSUME CoreIInv, WriteConfig
  PROVE  CoreIInv'
  BY DEF WriteConfig, managerVars, CoreIInv, CoreInv, CoreTypeOK, RunningExact, Supervised,
         StopFindsCore, CoreRunsItsProfile, CallInv, GenInv, CurrentInv, LeaveInv, Gens

(* Start takes a generation in its second critical section.                *)
LEMMA RegisterKeeps ==
  ASSUME CoreIInv, Register
  PROVE  CoreIInv'
  <1> DEFINE n == generation + 1
  <1>1. ~running /\ n \in Gens /\ file = asked
    BY DEF Register, CoreIInv, CoreInv, CoreTypeOK, CallInv, Gens
  <1>2. /\ call' = "idle" /\ running' = TRUE /\ generation' = n /\ last' = n
        /\ sup' = [sup EXCEPT ![n] = "loop"] /\ want' = [want EXCEPT ![n] = asked]
        /\ UNCHANGED <<cmd, asked, victim, file, proc, ctx, has, exits>>
    BY <1>1 DEF Register
  <1>3. sup[n] = "none" /\ proc[n] # "alive"
    BY <1>1 DEF CoreIInv, CoreInv, CoreTypeOK, GenInv, Gens
  <1> HIDE DEF n
  <1>4. CoreTypeOK'
    BY <1>1, <1>2 DEF CoreIInv, CoreInv, CoreTypeOK, Gens, SupStates
  <1>5. GenInv'
    BY <1>1, <1>2, <1>3, <1>4 DEF CoreIInv, CoreInv, CoreTypeOK, GenInv, Gens, n
  <1>6. QED
    BY <1>1, <1>2, <1>3, <1>4, <1>5 DEF CoreIInv, CoreInv, CoreTypeOK, RunningExact, Supervised,
       StopFindsCore, CoreRunsItsProfile, CallInv, CurrentInv, LeaveInv, Gens

(* The steps of Stop keep it.                                              *)
LEMMA CancelKeeps ==
  ASSUME CoreIInv, NEW g \in 0..MaxGen, Cancel(g)
  PROVE  CoreIInv'
  BY DEF Cancel, managerVars, CoreIInv, CoreInv, CoreTypeOK, RunningExact, Supervised,
         StopFindsCore, CoreRunsItsProfile, CallInv, GenInv, CurrentInv, LeaveInv, Gens

(* Stop moves the generation on and reads cmd under the lock.              *)
LEMMA StopLockKeeps ==
  ASSUME CoreIInv, call \in {"idle", "stop"}, generation < MaxGen, StopLock
  PROVE  CoreIInv'
  <1>1. CoreTypeOK'
    <2>1. running' \in BOOLEAN
      BY DEF StopLock
    <2>2. QED
      BY <2>1 DEF StopLock, CoreIInv, CoreInv, CoreTypeOK
  <1>2. generation' \in Gens /\ sup'[generation'] = "none" /\ proc'[generation'] # "alive"
    BY DEF StopLock, CoreIInv, CoreInv, CoreTypeOK, GenInv, Gens
  <1>3. GenInv'
    BY DEF StopLock, CoreIInv, CoreInv, CoreTypeOK, GenInv, Gens
  <1>4. QED
    BY <1>1, <1>2, <1>3 DEF StopLock, CoreIInv, CoreInv, RunningExact, Supervised,
       StopFindsCore, CoreRunsItsProfile, CallInv, CurrentInv, LeaveInv

(* Stop kills the process of the cmd it read.                              *)
LEMMA StopKillKeeps ==
  ASSUME CoreIInv, StopKill
  PROVE  CoreIInv'
  BY DEF StopKill, managerVars, CoreIInv, CoreInv, CoreTypeOK, RunningExact, Supervised,
         StopFindsCore, CoreRunsItsProfile, CallInv, GenInv, CurrentInv, LeaveInv, Gens

(* waitExit receives.                                                      *)
LEMMA TakeExitKeeps ==
  ASSUME CoreIInv, TakeExit
  PROVE  CoreIInv'
  <1>1. exits' \in Seq(Gens) /\ Len(exits') <= ExitCap
    BY DEF TakeExit, CoreIInv, CoreInv, CoreTypeOK
  <1>2. QED
    BY <1>1 DEF TakeExit, managerVars, callerVars, CoreIInv, CoreInv, CoreTypeOK, RunningExact,
       Supervised, StopFindsCore, CoreRunsItsProfile, CallInv, GenInv, CurrentInv, LeaveInv

(* The steps of a supervisor and of its process keep it.                   *)
LEMMA LoopKeeps ==
  ASSUME CoreIInv, NEW g \in Gens, Loop(g)
  PROVE  CoreIInv'
  <1>1. CASE Current(g)
    <2>1. /\ running /\ generation = g /\ sup[g] = "loop" /\ cmd' = g
          /\ proc' = [proc EXCEPT ![g] = "nil"] /\ sup' = [sup EXCEPT ![g] = "made"]
          /\ UNCHANGED <<running, generation, call, asked, victim, last, file, ctx, want, has, exits>>
      BY <1>1 DEF Loop, Current, callerVars
    <2>2. CoreTypeOK'
      BY <2>1 DEF CoreIInv, CoreInv, CoreTypeOK, SupStates, Gens
    <2>3. \A h \in Gens : sup'[h] = IF h = g THEN "made" ELSE sup[h]
      BY <2>1 DEF CoreIInv, CoreInv, CoreTypeOK
    <2>4. \A h \in Gens : proc'[h] = IF h = g THEN "nil" ELSE proc[h]
      BY <2>1 DEF CoreIInv, CoreInv, CoreTypeOK
    <2>5. RunningExact' /\ StopFindsCore' /\ CoreRunsItsProfile' /\ CallInv'
      BY <2>1, <2>3, <2>4 DEF CoreIInv, CoreInv, RunningExact, Supervised, StopFindsCore,
         CoreRunsItsProfile, CallInv
    <2>6. GenInv' /\ CurrentInv' /\ LeaveInv'
      BY <2>1, <2>3, <2>4 DEF CoreIInv, CoreInv, CoreTypeOK, Supervised, GenInv, CurrentInv,
         LeaveInv, Gens
    <2>7. QED
      BY <2>2, <2>5, <2>6 DEF CoreIInv, CoreInv
  <1>2. CASE ~Current(g)
    <2>1. g # generation
      BY <1>2 DEF Loop, Current, CoreIInv, CoreInv, RunningExact, Supervised, Gens
    <2>2. QED
      BY <1>2, <2>1 DEF Loop, callerVars, CoreIInv, CoreInv, CoreTypeOK, RunningExact, Supervised,
         StopFindsCore, CoreRunsItsProfile, CallInv, GenInv, CurrentInv, LeaveInv, Gens, SupStates
  <1>3. QED
    BY <1>1, <1>2

(* The supervisor tests the context and then starts the process.           *)
LEMMA LaunchKeeps ==
  ASSUME CoreIInv, NEW g \in Gens, Launch(g)
  PROVE  CoreIInv'
  BY DEF Launch, managerVars, callerVars, CoreIInv, CoreInv, CoreTypeOK, RunningExact,
     Supervised, StopFindsCore, CoreRunsItsProfile, CallInv, GenInv, CurrentInv, LeaveInv, Gens,
     SupStates

LEMMA StartProcessKeeps ==
  ASSUME CoreIInv, NEW g \in Gens, StartProcess(g)
  PROVE  CoreIInv'
  <1>1. CASE sup' = [sup EXCEPT ![g] = "exited"] /\ UNCHANGED <<proc, has>>
    BY <1>1 DEF StartProcess, managerVars, callerVars, CoreIInv, CoreInv, CoreTypeOK, RunningExact,
       Supervised, StopFindsCore, CoreRunsItsProfile, CallInv, GenInv, CurrentInv, LeaveInv, Gens,
       SupStates
  <1>2. CASE /\ sup' = [sup EXCEPT ![g] = "waiting"] /\ proc' = [proc EXCEPT ![g] = "alive"]
             /\ has' = [has EXCEPT ![g] = file]
    <2>1. CoreTypeOK'
      BY <1>2 DEF StartProcess, managerVars, callerVars, CoreIInv, CoreInv, CoreTypeOK, SupStates
    <2>2. g = generation => cmd = g /\ file = want[g]
      BY DEF StartProcess, CoreIInv, CurrentInv, Supervised
    <2>3. QED
      BY <1>2, <2>1, <2>2 DEF StartProcess, managerVars, callerVars, CoreIInv, CoreInv, CoreTypeOK,
         RunningExact, Supervised, StopFindsCore, CoreRunsItsProfile, CallInv, GenInv, CurrentInv,
         LeaveInv, Gens
  <1>3. QED
    BY <1>1, <1>2 DEF StartProcess

(* The process ends by itself.                                             *)
LEMMA CoreDiesKeeps ==
  ASSUME CoreIInv, NEW g \in Gens, CoreDies(g)
  PROVE  CoreIInv'
  BY DEF CoreDies, managerVars, callerVars, CoreIInv, CoreInv, CoreTypeOK, RunningExact, Supervised,
         StopFindsCore, CoreRunsItsProfile, CallInv, GenInv, CurrentInv, LeaveInv, Gens

(* cmd.Run returns.                                                        *)
LEMMA RunReturnsKeeps ==
  ASSUME CoreIInv, NEW g \in Gens, RunReturns(g)
  PROVE  CoreIInv'
  BY DEF RunReturns, managerVars, callerVars, CoreIInv, CoreInv, CoreTypeOK, RunningExact, Supervised,
         StopFindsCore, CoreRunsItsProfile, CallInv, GenInv, CurrentInv, LeaveInv, Gens, SupStates

(* The supervisor looks whether it is still the current one.               *)
LEMMA AfterRunKeeps ==
  ASSUME CoreIInv, NEW g \in Gens, AfterRun(g)
  PROVE  CoreIInv'
  BY DEF AfterRun, Current, callerVars, CoreIInv, CoreInv, CoreTypeOK, RunningExact, Supervised,
         StopFindsCore, CoreRunsItsProfile, CallInv, GenInv, CurrentInv, LeaveInv, Gens, SupStates

(* The exit is reported.                                                   *)
LEMMA ReportKeeps ==
  ASSUME CoreIInv, NEW g \in Gens, Report(g)
  PROVE  CoreIInv'
  <1>1. exits' \in Seq(Gens) /\ Len(exits') <= ExitCap
    BY DEF Report, CoreIInv, CoreInv, CoreTypeOK
  <1>2. QED
    BY <1>1, SMTT(60) DEF Report, managerVars, callerVars, CoreIInv, CoreInv, CoreTypeOK, RunningExact,
       Supervised, StopFindsCore, CoreRunsItsProfile, CallInv, GenInv, CurrentInv, LeaveInv, Gens,
       SupStates

(* The pause before the next try ends.                                     *)
LEMMA BackoffKeeps ==
  ASSUME CoreIInv, NEW g \in Gens, Backoff(g)
  PROVE  CoreIInv'
  <1> USE DEF Backoff, managerVars, callerVars, CoreIInv, CoreInv
  <1>1. sup' \in [Gens -> SupStates]
    BY DEF CoreTypeOK, SupStates
  <1>2. CoreTypeOK'
    BY <1>1 DEF CoreTypeOK
  <1>3. \A h \in Gens : \/ sup'[h] = sup[h]
                        \/ h = g /\ sup[h] = "backoff" /\ sup'[h] = "loop"
                        \/ h = g /\ sup[h] = "backoff" /\ sup'[h] = "return" /\ ctx[h]
    BY DEF CoreTypeOK
  <1>4. RunningExact'
    BY <1>3 DEF CoreTypeOK, RunningExact, Supervised, Gens
  <1>5. QED
    BY <1>2, <1>3, <1>4 DEF CoreTypeOK, Supervised, StopFindsCore, CoreRunsItsProfile, CallInv,
       GenInv, CurrentInv, LeaveInv

(* The deferred function clears running and cmd for its own generation.    *)
LEMMA DeferredKeeps ==
  ASSUME CoreIInv, NEW g \in Gens, Deferred(g)
  PROVE  CoreIInv'
  <1>1. running' \in BOOLEAN
    BY DEF Deferred, CoreIInv, CoreInv, CoreTypeOK
  <1>2. CASE generation = g
    BY <1>1, <1>2 DEF Deferred, callerVars, CoreIInv, CoreInv, CoreTypeOK, RunningExact, Supervised,
       StopFindsCore, CoreRunsItsProfile, CallInv, GenInv, CurrentInv, LeaveInv, Gens, SupStates
  <1>3. CASE generation # g
    BY <1>1, <1>3 DEF Deferred, callerVars, CoreIInv, CoreInv, CoreTypeOK, RunningExact, Supervised,
       StopFindsCore, CoreRunsItsProfile, CallInv, GenInv, CurrentInv, LeaveInv, Gens, SupStates
  <1>4. QED
    BY <1>2, <1>3

(* What goes on beside the caller keeps it.                                *)
LEMMA BackgroundKeeps ==
  ASSUME CoreIInv, NEW g \in Gens, Supervise(g) \/ CoreDies(g) \/ ContextKills(g)
  PROVE  CoreIInv'
  BY LoopKeeps, LaunchKeeps, StartProcessKeeps, CoreDiesKeeps, RunReturnsKeeps, AfterRunKeeps,
     ReportKeeps, BackoffKeeps, DeferredKeeps
  DEF Supervise, ContextKills

-----------------------------------------------------------------------------
(* One case per step of the caller, of the supervisors and of the core.    *)
LEMMA CoreSteps == CoreIInv /\ [CoreNext]_coreVars => CoreIInv'
  <1> SUFFICES ASSUME CoreIInv, [CoreNext]_coreVars PROVE CoreIInv'
    OBVIOUS
  <1>1. CASE CallStart
    BY <1>1, StartCheckKeeps DEF CallStart
  <1>2. CASE CallStop
    <2>1. last \in 0..MaxGen
      BY DEF CoreIInv, CoreInv, CoreTypeOK
    <2>2. QED
      BY <1>2, <2>1, CancelKeeps, StopLockKeeps DEF CallStop
  <1>3. CASE InCall
    BY <1>3, WriteConfigKeeps, RegisterKeeps, StopKillKeeps DEF InCall
  <1>4. CASE TakeExit
    BY <1>4, TakeExitKeeps
  <1>5. CASE \E g \in Gens : Supervise(g) \/ CoreDies(g) \/ ContextKills(g)
    BY <1>5, BackgroundKeeps
  <1>6. CASE UNCHANGED coreVars
    BY <1>6, CoreStutter
  <1>7. QED
    BY <1>1, <1>2, <1>3, <1>4, <1>5, <1>6 DEF CoreNext

(* The inductive invariant holds: whatever order the critical sections of  *)
(* Start, Stop and the supervisors of old and new generations come in.     *)
THEOREM CoreInvariance == CoreSpec => []CoreIInv
  BY CoreInitial, CoreSteps, PTL DEF CoreSpec

(* Manager.running, Manager.cmd and the file are the current generation's  *)
(* (CoreInv: RunningExact, StopFindsCore, CoreRunsItsProfile), whether the *)
(* caller cancels the context before Stop or not.                          *)
THEOREM CoreCorrect == CoreSpec => []CoreInv
  <1>1. CoreIInv => CoreInv
    BY DEF CoreIInv
  <1>2. QED
    BY <1>1, CoreInvariance, PTL

-----------------------------------------------------------------------------
(* With a caller that cancels the context before Stop: every generation    *)
(* that was left has a cancelled context, and the one Stop is about to     *)
(* leave has it already.                                                   *)
CancelInv ==
  /\ \A g \in Gens : (g < generation /\ sup[g] # "none") => ctx[g]
  /\ \A g \in Gens : (g = generation /\ sup[g] # "none") => last = g
  /\ call = "stop" => last = 0 \/ ctx[last]

(* A step of a supervisor or of its process touches neither contexts nor   *)
(* the caller, and makes no supervisor.                                    *)
LEMMA BackgroundFrame ==
  ASSUME CoreIInv, NEW g \in Gens, Supervise(g) \/ CoreDies(g) \/ ContextKills(g)
  PROVE  /\ UNCHANGED <<generation, call, asked, victim, last, file, ctx, want>>
         /\ \A h \in Gens : sup[h] = "none" => sup'[h] = "none"
  BY DEF Supervise, Loop, Launch, StartProcess, RunReturns, AfterRun, Report, Backoff, Deferred,
         CoreDies, ContextKills, managerVars, callerVars, CoreIInv, CoreInv, CoreTypeOK

(* CancelInv holds while there is no supervisor.                           *)
LEMMA CancelInitial == CoreInit => CancelInv
  BY DEF CoreInit, CancelInv, Gens

(* With contexts that are always cancelled, every step keeps CancelInv.    *)
LEMMA CancelStep ==
  ASSUME Cancels \subseteq {TRUE}, CoreIInv, CancelInv, [CoreNext]_coreVars
  PROVE  CancelInv'
  <1>1. CASE CallStart
    BY <1>1 DEF CallStart, StartCheck, managerVars, CancelInv
  <1>2. CASE WriteConfig
    BY <1>2 DEF WriteConfig, managerVars, CancelInv
  <1>3. CASE Register
    <2>1. ~running /\ generation + 1 \in Gens /\ generation \in 0..MaxGen
      BY <1>3 DEF Register, CoreIInv, CoreInv, CoreTypeOK, CallInv, Gens
    <2>2. \A g \in Gens : (g = generation /\ sup[g] # "none") => ctx[g]
      BY <2>1 DEF CoreIInv, CoreInv, RunningExact, Supervised, LeaveInv, Gens
    <2>3. QED
      BY <1>3, <2>1, <2>2 DEF Register, CancelInv, CoreIInv, CoreInv, CoreTypeOK, GenInv, Gens
  <1>4. CASE CallStop /\ Cancel(last)
    BY <1>4 DEF Cancel, managerVars, CancelInv, CoreIInv, CoreInv, CoreTypeOK, Gens
  <1>5. CASE CallStop /\ call = "stop" /\ StopLock
    BY <1>5 DEF CallStop, StopLock, CancelInv, CoreIInv, CoreInv, CoreTypeOK, GenInv, Gens
  <1>6. CASE StopKill
    BY <1>6 DEF StopKill, managerVars, CancelInv
  <1>7. CASE TakeExit
    BY <1>7 DEF TakeExit, managerVars, callerVars, CancelInv
  <1>8. ASSUME NEW g \in Gens, Supervise(g) \/ CoreDies(g) \/ ContextKills(g)
        PROVE  CancelInv'
    BY <1>8, BackgroundFrame DEF CancelInv
  <1>9. CASE UNCHANGED coreVars
    BY <1>9 DEF coreVars, CancelInv
  <1>10. QED
    BY <1>1, <1>2, <1>3, <1>4, <1>5, <1>6, <1>7, <1>8, <1>9 DEF CoreNext, CallStop, InCall

(* What a step may do to a generation that was left: the caller's steps    *)
(* and those of other supervisors neither pass its context test nor create *)
(* its process.                                                            *)
LEMMA LateStepIsLaunch ==
  ASSUME CoreIInv, [CoreNext]_coreVars, NEW h \in Gens
  PROVE  /\ LateTest(h) => Launch(h)
         /\ LateLaunch(h) => StartProcess(h)
  <1>1. CASE CallStart \/ CallStop \/ InCall \/ TakeExit \/ UNCHANGED coreVars
    BY <1>1 DEF LateTest, LateLaunch, CallStart, CallStop, InCall, TakeExit, StartCheck,
       WriteConfig, Register, Cancel, StopLock, StopKill, managerVars, callerVars, coreVars,
       CoreIInv, CoreInv, CoreTypeOK
  <1>2. ASSUME NEW g \in Gens, Supervise(g) \/ CoreDies(g)
        PROVE  /\ LateTest(h) => Launch(h)
               /\ LateLaunch(h) => StartProcess(h)
    <2>1. CASE Launch(g)
      BY <2>1 DEF LateTest, LateLaunch, Launch, CoreIInv, CoreInv, CoreTypeOK
    <2>2. CASE StartProcess(g)
      BY <2>2 DEF LateTest, LateLaunch, StartProcess, CoreIInv, CoreInv, CoreTypeOK
    <2>3. CASE Loop(g) \/ RunReturns(g) \/ AfterRun(g) \/ Report(g) \/ Backoff(g) \/ Deferred(g)
               \/ CoreDies(g)
      BY <2>3 DEF LateTest, LateLaunch, Loop, RunReturns, AfterRun, Report, Backoff, Deferred,
         CoreDies, CoreIInv, CoreInv, CoreTypeOK
    <2> QED
      BY <1>2, <2>1, <2>2, <2>3 DEF Supervise
  <1> QED
    BY <1>1, <1>2 DEF CoreNext, ContextKills

(* Provided the caller cancels the context before Stop, as disconnect      *)
(* does: no cmd.Run of a generation that was left passes the test of its   *)
(* context, and a process that one creates which had passed it before the  *)
(* cancellation has a cancelled context, by which os/exec kills it.        *)
THEOREM LateCoresDoomed ==
  ASSUME Cancels \subseteq {TRUE}
  PROVE  CoreSpec => LateCoreDoomed
  <1>1. CoreSpec => []CancelInv
    <2>1. CoreIInv /\ CancelInv /\ [CoreNext]_coreVars => CancelInv'
      BY CancelStep
    <2>2. QED
      BY <2>1, CancelInitial, CoreInvariance, PTL DEF CoreSpec
  <1>2. CoreIInv /\ CancelInv /\ [CoreNext]_coreVars
          => [\A g \in Gens : ~LateTest(g) /\ (LateLaunch(g) => ctx[g])]_coreVars
    <2> SUFFICES ASSUME CoreIInv, CancelInv, [CoreNext]_coreVars, NEW h \in Gens
                 PROVE  ~LateTest(h) /\ (LateLaunch(h) => ctx[h])
      OBVIOUS
    <2>1. ASSUME h # generation, sup[h] # "none" PROVE ctx[h]
      BY <2>1 DEF CancelInv, CoreIInv, CoreInv, CoreTypeOK, GenInv, Gens
    <2>2. ASSUME LateTest(h) PROVE FALSE
      <3>1. Launch(h) /\ sup'[h] = "starting" /\ ctx[h]
        BY <2>1, <2>2, LateStepIsLaunch DEF LateTest
      <3> QED
        BY <3>1 DEF Launch, CoreIInv, CoreInv, CoreTypeOK
    <2>3. ASSUME LateLaunch(h) PROVE ctx[h]
      BY <2>1, <2>3, LateStepIsLaunch DEF LateLaunch, StartProcess
    <2>4. QED
      BY <2>2, <2>3
  <1>3. QED
    BY <1>1, <1>2, CoreInvariance, PTL DEF CoreSpec, LateCoreDoomed

=============================================================================
