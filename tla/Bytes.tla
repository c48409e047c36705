------------------------------- MODULE Bytes -------------------------------
(***************************************************************************)
(* Big-endian numbers and IP addresses as sequences of bytes, as the DNS   *)
(* and the SOCKS5 codecs write them.                                       *)
(***************************************************************************)
EXTENDS Naturals, Sequences

Octets == {x \in Nat : x <= 255}
U16s == {x \in Nat : x <= 65535}

(* What arrives of s when its sender leaves after n bytes.                 *)
UpTo(s, n) == SubSeq(s, 1, IF n < Len(s) THEN n ELSE Len(s))

PutU16(n) == <<n \div 256, n % 256>>

(* net.IP.To4: an IPv4 address mapped into IPv6 is an IPv4 address.        *)
Mapped == [i \in 1..12 |-> IF i > 10 THEN 255 ELSE 0]
isV4(ip) == Len(ip) = 4 \/ SubSeq(ip, 1, 12) = Mapped
rdata(ip) == IF isV4(ip) /\ Len(ip) = 16 THEN SubSeq(ip, 13, 16) ELSE ip

=============================================================================
