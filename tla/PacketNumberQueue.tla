------------------------- MODULE PacketNumberQueue -------------------------
(***************************************************************************)
(* packet_number_indexed_queue.go: the states of the packets in flight,    *)
(* kept in a deque that starts at the lowest packet present and has a slot *)
(* for every number up to the last one inserted.  The deque is the ring    *)
(* buffer of RingBuffer.tla, taken here as the sequence it implements.     *)
(***************************************************************************)
EXTENDS Integers, Sequences, FiniteSets

CONSTANTS
  Packets,  \* bound: packet numbers
  Entries,  \* what is kept of a packet
  NoEntry   \* the zero value of an entry

ASSUME PacketsAreNumbers == Packets \in SUBSET Nat
ASSUME NoEntryOutside == NoEntry \notin Entries

VARIABLES
  entries,                \* entries: a sequence of present marks and entries
  numberOfPresentEntries, \* numberOfPresentEntries
  firstPacket             \* firstPacket

queueVars == <<entries, numberOfPresentEntries, firstPacket>>

invalidPacketNumber == -1
Wrapper(e) == [present |-> TRUE, entry |-> e]
Hole == [present |-> FALSE, entry |-> NoEntry]

IsEmpty == numberOfPresentEntries = 0

LastPacket == IF IsEmpty THEN invalidPacketNumber ELSE firstPacket + Len(entries) - 1

(* getEntryWraper finds something: the number is in the deque and present. *)
HasEntry(p) ==
  /\ ~IsEmpty /\ p >= firstPacket /\ p - firstPacket < Len(entries)
  /\ entries[p - firstPacket + 1].present

GetEntry(p) == entries[p - firstPacket + 1].entry

(* The deque s that starts at packet first, without the absent entries at  *)
(* its front.                                                              *)
clearup(s, first) ==
  LET gone == Cardinality({i \in 1..Len(s) : \A j \in 1..i : ~s[j].present})
      rest == SubSeq(s, gone + 1, Len(s))
  IN  [entries |-> rest,
       firstPacket |-> IF rest = <<>> THEN invalidPacketNumber ELSE first + gone]

QueueInit ==
  /\ entries = <<>>
  /\ numberOfPresentEntries = 0
  /\ firstPacket = invalidPacketNumber

(* Mutant: the numbers that were skipped get no slot.                      *)
EmplaceNoGap(p, e) ==
  /\ IF IsEmpty
       THEN entries' = Append(entries, Wrapper(e)) /\ firstPacket' = p
       ELSE p > LastPacket /\ entries' = Append(entries, Wrapper(e)) /\ UNCHANGED firstPacket
  /\ numberOfPresentEntries' = numberOfPresentEntries + 1

(* A packet is inserted past the end; the numbers skipped get empty slots. *)
Emplace(p, e) ==
  \/ /\ IsEmpty
     /\ entries' = Append(entries, Wrapper(e))
     /\ numberOfPresentEntries' = 1
     /\ firstPacket' = p
  \/ /\ ~IsEmpty /\ p > LastPacket
     /\ entries' = entries \o [i \in 1..(p - firstPacket - Len(entries)) |-> Hole]
                     \o <<Wrapper(e)>>
     /\ numberOfPresentEntries' = numberOfPresentEntries + 1
     /\ UNCHANGED firstPacket

(* Mutant: the front is not cleared.                                       *)
RemoveNoClearup(p) ==
  /\ HasEntry(p)
  /\ entries' = [entries EXCEPT ![p - firstPacket + 1].present = FALSE]
  /\ numberOfPresentEntries' = numberOfPresentEntries - 1
  /\ UNCHANGED firstPacket

Remove(p) ==
  /\ HasEntry(p)
  /\ LET marked == [entries EXCEPT ![p - firstPacket + 1].present = FALSE]
         c == IF p = firstPacket THEN clearup(marked, firstPacket)
              ELSE [entries |-> marked, firstPacket |-> firstPacket]
     IN  entries' = c.entries /\ firstPacket' = c.firstPacket
  /\ numberOfPresentEntries' = numberOfPresentEntries - 1

RemoveUpTo(p) ==
  LET n == IF firstPacket = invalidPacketNumber \/ p <= firstPacket THEN 0
           ELSE IF p - firstPacket <= Len(entries) THEN p - firstPacket ELSE Len(entries)
      c == clearup(SubSeq(entries, n + 1, Len(entries)), firstPacket + n)
  IN  /\ entries' = c.entries
      /\ firstPacket' = c.firstPacket
      /\ numberOfPresentEntries' =
           numberOfPresentEntries - Cardinality({i \in 1..n : entries[i].present})

QueueNext ==
  \E p \in Packets : \/ \E e \in Entries : Emplace(p, e)
                     \/ Remove(p)
                     \/ RemoveUpTo(p)

QueueSpec == QueueInit /\ [][QueueNext]_queueVars

-----------------------------------------------------------------------------
(* The types of the three fields.                                          *)
QueueTypeOK ==
  /\ entries \in Seq([present : BOOLEAN, entry : Entries \cup {NoEntry}])
  /\ numberOfPresentEntries \in Nat
  /\ firstPacket \in Packets \cup {invalidPacketNumber}

(* The count is exact, and "removing all elements of the queue will return *)
(* it to its initial state": Emplace relies on it, since it appends to     *)
(* the deque when the count is zero.                                       *)
CountExact ==
  /\ numberOfPresentEntries = Cardinality({i \in 1..Len(entries) : entries[i].present})
  /\ numberOfPresentEntries = 0 => entries = <<>> /\ firstPacket = invalidPacketNumber

(* "The deque starts at the lowest present index": no memory is held for   *)
(* packets that are gone.                                                  *)
FrontPresent == entries # <<>> => entries[1].present

(* The queue is well formed, counts right and holds no dead front.         *)
QueueInv == QueueTypeOK /\ CountExact /\ FrontPresent

(* The map's steps are those of the packet asked for: a packet that is     *)
(* inserted is found under its own number, and RemoveUpTo forgets exactly  *)
(* the packets below its argument.                                         *)
CallsByNumber ==
  [][\A p \in Packets :
       /\ \A e \in Entries : Emplace(p, e) => (HasEntry(p) /\ GetEntry(p) = e)'
       /\ RemoveUpTo(p) => \A q \in Packets : HasEntry(q)' = (HasEntry(q) /\ q >= p)]_queueVars

(* Through gaps, removals in any order and RemoveUpTo past the end, what   *)
(* GetEntry finds is a map from the numbers inserted to their entries.     *)
Map == INSTANCE PacketMap
         WITH map <- [p \in {q \in Packets : HasEntry(q)} |-> GetEntry(p)],
              last <- LastPacket
IsPacketMap == Map!Spec /\ CallsByNumber

=============================================================================
