---------------------------- MODULE DnsResolver ----------------------------
(***************************************************************************)
(* tui/internal/tun/dns.go and handleUDP: a DNS query that reaches the     *)
(* device is sent to the DNS-over-HTTPS endpoints one after the other and  *)
(* answered with the addresses of the first that has any.  Packets are     *)
(* sequences of bytes, as the two parsers walk over them by offsets.  The  *)
(* goroutines of two queries share nothing, so one query is a behaviour.   *)
(***************************************************************************)
EXTENDS Integers, Sequences, SequencesExt, FiniteSetsExt, Bytes

CONSTANTS
  Endpoints,   \* number of DNS-over-HTTPS endpoints
  Queries,     \* what a program of this machine sends
  Responses    \* what an endpoint may answer

ASSUME EndpointsNat == Endpoints \in Nat \ {0}

(* A message has one question, about one name, and records whose owner is  *)
(* written in one of three ways; a query has the fields of a DNS header    *)
(* and whatever follows its question.  Of either only the first bytes      *)
(* arrive: lookupOnce reads no more than 65536 of a response.              *)
BodyBytes == {n \in Nat : n <= 65536}
Record == [owner : {"pointer", "labels", "mixed"}, typ : U16s,
           data : {d \in Seq(Octets) : Len(d) \in U16s}]
Message == [qtype : U16s, records : {rs \in Seq(Record) : Len(rs) \in U16s}, bytes : BodyBytes]
Datagram == [port : U16s, id : U16s, opcode : 0..15, other : 0..3, rd : {0, 1}, low : Octets,
             questions : U16s, additional : U16s, qtype : U16s, extra : Seq(Octets),
             bytes : BodyBytes]

ASSUME QueriesTyped == Queries \subseteq Datagram
ASSUME ResponsesTyped == Responses \subseteq Message

qtypeA == 1
qtypeAAAA == 28
Bad == 0         \* an offset that stands for an error of the parser
NoReply == <<>>

VARIABLES
  query,     \* the datagram
  qpc,       \* "port", "lookup", "answered" or "dropped"
  endpoint,  \* the endpoint that lookup asks next
  heard,     \* the Messages the endpoints answered with
  reply      \* the datagram written back

dnsVars == <<query, qpc, endpoint, heard, reply>>

-----------------------------------------------------------------------------
(* The codec.  Offsets count from zero as in the code.                     *)
At(pkt, off) == pkt[off + 1]
U16(pkt, off) == 256 * At(pkt, off) + At(pkt, off + 1)
Pointer(l) == l >= 192

(* The first offset, from start on, that does not hold the length of a     *)
(* label of at most longest bytes.                                         *)
skipLabels(pkt, start, longest) ==
  LET end[off \in Nat] ==
        IF off < Len(pkt) /\ At(pkt, off) > 0 /\ At(pkt, off) <= longest
          THEN end[off + 1 + At(pkt, off)] ELSE off
  IN end[start]

questionName(pkt) == skipLabels(pkt, 12, 191)

(* The end of the name of the question; parseQueryWithEnd refuses a        *)
(* compressed one.                                                         *)
nameEnd(pkt) ==
  LET off == questionName(pkt) IN
  IF off >= Len(pkt) THEN Bad ELSE IF Pointer(At(pkt, off)) THEN Bad ELSE off + 1

questionEnd(pkt) ==
  IF Len(pkt) < 12 THEN Bad
  ELSE IF U16(pkt, 4) # 1 \/ nameEnd(pkt) = Bad \/ nameEnd(pkt) + 4 > Len(pkt) THEN Bad
       ELSE nameEnd(pkt) + 4

parsed(pkt) == questionEnd(pkt) # Bad
qtype(pkt) == U16(pkt, questionEnd(pkt) - 4)

record(owner, typ, data) ==
  owner \o PutU16(typ) \o PutU16(1) \o <<0, 0, 1, 44>> \o PutU16(Len(data)) \o data

(* Mutant: every address is put into the answer.                           *)
ofFamilyAny(ips, qt) == ips

ofFamily(ips, qt) ==
  FlattenSeq([i \in DOMAIN ips |->
    IF (qt = qtypeA /\ isV4(ips[i])) \/ (qt = qtypeAAAA /\ ~isV4(ips[i])) THEN <<ips[i]>> ELSE <<>>])

(* The opcode and RD of the query, QR and RA, the NXDOMAIN code; the       *)
(* question; one record per address.                                       *)
buildResponse(q, ips) ==
  LET kept == ofFamily(ips, qtype(q))
      hi == 128 + ((At(q, 2) \div 8) % 16) * 8 + (At(q, 2) % 2)
      lo == 128 + (IF kept = <<>> THEN 3 ELSE 0)
  IN SubSeq(q, 1, 2) \o <<hi, lo>> \o SubSeq(q, 5, 6) \o PutU16(Len(kept)) \o PutU16(0) \o PutU16(0)
     \o SubSeq(q, 13, questionEnd(q))
     \o FlattenSeq([i \in DOMAIN kept |->
          record(<<192, 12>>, IF isV4(kept[i]) THEN qtypeA ELSE qtypeAAAA, rdata(kept[i]))])

(* Where parseAnswers takes the question to end: one question, and a       *)
(* pointer ends its name.                                                  *)
answersStart(pkt) ==
  LET off == questionName(pkt) IN
  IF off >= Len(pkt) THEN Bad ELSE IF Pointer(At(pkt, off)) THEN off + 6 ELSE off + 5

(* Where it takes the owner name at off to end.                            *)
ownerEnd(pkt, off) ==
  IF Pointer(At(pkt, off)) THEN off + 2 ELSE skipLabels(pkt, off, 255) + 1

address(typ, data) ==
  IF (typ = qtypeA /\ Len(data) = 4) \/ (typ = qtypeAAAA /\ Len(data) = 16) THEN <<data>>
  ELSE <<>>

(* One round of its loop: nothing changes after a break.                   *)
readRecord(pkt, s) ==
  IF s.off + 10 > Len(pkt) THEN s
  ELSE LET fixed == ownerEnd(pkt, s.off)
           data == fixed + 10
       IN IF data > Len(pkt) THEN s
          ELSE LET end == data + U16(pkt, fixed + 8) IN
               IF end > Len(pkt) THEN s
               ELSE [off |-> end,
                     ips |-> s.ips \o address(U16(pkt, fixed), SubSeq(pkt, data + 1, end))]

(* The addresses of a response; none is the error "no answers".            *)
parseAnswers(pkt) ==
  LET read[i \in 0..U16(pkt, 6)] ==
        IF i = 0 THEN [off |-> answersStart(pkt), ips |-> <<>>] ELSE readRecord(pkt, read[i - 1])
  IN IF Len(pkt) < 12 THEN <<>>
     ELSE IF answersStart(pkt) = Bad THEN <<>> ELSE read[U16(pkt, 6)].ips

-----------------------------------------------------------------------------
(* What an endpoint sends, and what a program does.                        *)
Owner(kind) ==
  CASE kind = "pointer" -> <<192, 12>>
    [] kind = "labels" -> <<1, 97, 0>>
    [] kind = "mixed" -> <<1, 97, 192, 12>>    \* a label, then a pointer: RFC 1035 4.1.4
Question(qt) == <<1, 97, 0>> \o PutU16(qt) \o PutU16(1)
Header(id, hi, lo, qd, an, ar) ==
  PutU16(id) \o <<hi, lo>> \o PutU16(qd) \o PutU16(an) \o PutU16(0) \o PutU16(ar)
Records(msg) == [i \in DOMAIN msg.records |->
                   LET r == msg.records[i] IN record(Owner(r.owner), r.typ, r.data)]
Encode(msg) == Header(7, 129, 128, 1, Len(msg.records), 0) \o Question(msg.qtype)
               \o FlattenSeq(Records(msg))
Received(msg) == UpTo(Encode(msg), msg.bytes)
Sent(q) == Header(q.id, 8 * q.opcode + 2 * q.other + q.rd, q.low, q.questions, 0, q.additional)
           \o Question(q.qtype) \o q.extra
packet(q) == UpTo(Sent(q), q.bytes)

(* The records that arrived whole, and the addresses among them.           *)
WholeRecords(msg) ==
  {n \in 1..Len(msg.records) :
     19 + Len(FlattenSeq(SubSeq(Records(msg), 1, n))) <= msg.bytes}
Addresses(msg) ==
  FlattenSeq([i \in 1..Max({0} \cup WholeRecords(msg)) |->
    LET r == msg.records[i] IN
    IF <<r.typ, Len(r.data)>> \in {<<qtypeA, 4>>, <<qtypeAAAA, 16>>} THEN <<r.data>> ELSE <<>>])

-----------------------------------------------------------------------------
DnsInit ==
  /\ query \in Queries
  /\ qpc = "port" /\ endpoint = 1 /\ heard = <<>> /\ reply = NoReply

(* handleUDP: port 53 of any address is answered, other ports are dropped, *)
(* as is a datagram for which no endpoint can be made.                     *)
HandleUDP ==
  /\ qpc = "port"
  /\ qpc' \in (IF query.port = 53 THEN {"lookup", "dropped"} ELSE {"dropped"})
  /\ UNCHANGED <<query, endpoint, heard, reply>>

(* Mutant: a lookup that failed is not answered.                           *)
AnswerOnSuccess(ips) ==
  IF parsed(packet(query)) /\ ips # <<>>
    THEN reply' = buildResponse(packet(query), ips) /\ qpc' = "answered"
    ELSE qpc' = "dropped" /\ UNCHANGED reply

(* The end of the goroutine: a failed lookup is answered like a name       *)
(* without addresses, a query that does not parse not at all.              *)
Answer(ips) ==
  IF parsed(packet(query))
    THEN reply' = buildResponse(packet(query), ips) /\ qpc' = "answered"
    ELSE qpc' = "dropped" /\ UNCHANGED reply

(* lookupOnce fails: no connection, a timeout, another status, no address. *)
NextEndpoint ==
  /\ endpoint' = endpoint + 1
  /\ IF endpoint = Endpoints THEN Answer(<<>>) ELSE UNCHANGED <<qpc, reply>>

LookupFails ==
  /\ qpc = "lookup" /\ NextEndpoint
  /\ UNCHANGED <<query, heard>>

LookupAnswered ==
  /\ qpc = "lookup"
  /\ \E msg \in Responses :
       /\ heard' = Append(heard, msg)
       /\ LET ips == parseAnswers(Received(msg)) IN
          IF ips = <<>> THEN NextEndpoint ELSE Answer(ips) /\ UNCHANGED endpoint
  /\ UNCHANGED query

DnsNext == HandleUDP \/ LookupFails \/ LookupAnswered

(* The HTTP client gives every endpoint ten seconds.                       *)
DnsFairness == WF_dnsVars(LookupFails \/ LookupAnswered)

DnsSpec == DnsInit /\ [][DnsNext]_dnsVars /\ DnsFairness

-----------------------------------------------------------------------------
(* Correctness                                                             *)

(* Every variable has its type.                                            *)
DnsTypeOK ==
  /\ query \in Queries /\ qpc \in {"port", "lookup", "answered", "dropped"}
  /\ endpoint \in 1..(Endpoints + 1)
  /\ Range(heard) \subseteq Responses /\ Len(heard) <= Endpoints
  /\ reply \in Seq(Octets)

(* parseAnswers finds exactly the addresses of the records that arrived    *)
(* whole, wherever the message was cut, and reads no byte behind its end.  *)
AnswersExtracted ==
  \A i \in DOMAIN heard : parseAnswers(Received(heard[i])) = Addresses(heard[i])

(* The answer to a query that has these addresses: its id, opcode and RD,  *)
(* its question alone, and, as records of the type it asked for, those of  *)
(* that family; NXDOMAIN if there are none.                                *)
Wanted(ips, qt) ==
  FlattenSeq([i \in DOMAIN ips |->
    IF qt = (IF isV4(ips[i]) THEN qtypeA ELSE qtypeAAAA) THEN <<ips[i]>> ELSE <<>>])
Response(q, ips) ==
  LET want == Wanted(ips, q.qtype)
  IN Header(q.id, 128 + 8 * q.opcode + q.rd, IF want = <<>> THEN 131 ELSE 128, 1, Len(want), 0)
     \o Question(q.qtype)
     \o FlattenSeq([i \in DOMAIN want |-> record(Owner("pointer"), q.qtype, rdata(want[i]))])

(* The datagram the program gets is the answer to its own question, with   *)
(* the addresses which the first endpoint with any address gave.           *)
ReplyFits ==
  qpc = "answered" =>
    LET useful == {i \in DOMAIN heard : Addresses(heard[i]) # <<>>}
    IN reply = Response(query, IF useful = {} THEN <<>> ELSE Addresses(heard[Min(useful)]))

(* The answers of the endpoints are read, and the query answered, rightly. *)
DnsAnswers == AnswersExtracted /\ ReplyFits

(* A query of one question is answered even when every endpoint fails; one *)
(* that does not parse never is.                                           *)
WellFormed(q) == q.questions = 1 /\ q.bytes >= 19
QueryAnswered ==
  (qpc = "lookup") ~> (IF WellFormed(query) THEN qpc = "answered" ELSE qpc = "dropped")

=============================================================================
