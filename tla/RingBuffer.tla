----------------------------- MODULE RingBuffer -----------------------------
(***************************************************************************)
(* ringbuffer.go: a queue in a slice that wraps around and doubles when it *)
(* is full.  Positions count from zero as in the code.                     *)
(***************************************************************************)
EXTENDS Naturals, Sequences

CONSTANTS
  Elements,  \* what is stored
  ZeroValue, \* the zero value of the element type
  InitSize,  \* the argument of Init
  MaxSize    \* bound: the largest slice

ASSUME ZeroOutside == ZeroValue \notin Elements
ASSUME SizesAssumption == InitSize \in Nat /\ MaxSize \in Nat /\ InitSize <= MaxSize

VARIABLES ring, headPos, tailPos, full

ringVars == <<ring, headPos, tailPos, full>>

(* Slot i of a slice, counted from zero.                                   *)
Slot(r, i) == r[i + 1]

RingLen ==
  IF full THEN Len(ring)
  ELSE IF tailPos >= headPos THEN tailPos - headPos
  ELSE tailPos + Len(ring) - headPos

RingEmpty == ~full /\ headPos = tailPos

(* The element at an offset from the head.                                 *)
Offset(i) == Slot(ring, (headPos + i) % Len(ring))

Zeros(n) == [i \in 1..n |-> ZeroValue]

(* Mutant: the wrapped part is not moved behind the rest.                  *)
GrownFlat(r, head) == r \o Zeros(IF Len(r) = 0 THEN 1 ELSE Len(r))

(* The slice of twice the size, with the oldest element first.             *)
Grown(r, head) ==
  SubSeq(r, head + 1, Len(r)) \o SubSeq(r, 1, head)
    \o Zeros(IF Len(r) = 0 THEN 1 ELSE Len(r))

RingInit ==
  /\ ring = Zeros(InitSize)
  /\ headPos = 0
  /\ tailPos = 0
  /\ full = FALSE

PushBack(x) ==
  LET grow == full \/ Len(ring) = 0
      r == IF grow THEN Grown(ring, headPos) ELSE ring
      head == IF grow THEN 0 ELSE headPos
      tail == IF grow THEN Len(ring) ELSE tailPos
      next == IF tail + 1 = Len(r) THEN 0 ELSE tail + 1
  IN  /\ Len(r) <= MaxSize
      /\ ring' = [r EXCEPT ![tail + 1] = x]
      /\ headPos' = head
      /\ tailPos' = next
      /\ full' = (next = head)

PopFront ==
  /\ ~RingEmpty
  /\ full' = FALSE
  /\ ring' = [ring EXCEPT ![headPos + 1] = ZeroValue]
  /\ headPos' = IF headPos + 1 = Len(ring) THEN 0 ELSE headPos + 1
  /\ tailPos' = tailPos

ClearRing ==
  /\ ring' = Zeros(Len(ring))
  /\ headPos' = 0
  /\ tailPos' = 0
  /\ full' = FALSE

RingNext == (\E x \in Elements : PushBack(x)) \/ PopFront \/ ClearRing

RingSpec == RingInit /\ [][RingNext]_ringVars

-----------------------------------------------------------------------------
(* The positions are slots of the slice; full means that they met.         *)
RingTypeOK ==
  /\ ring \in Seq(Elements \cup {ZeroValue})
  /\ headPos \in Nat /\ tailPos \in Nat /\ full \in BOOLEAN
  /\ Len(ring) = 0 \/ (headPos < Len(ring) /\ tailPos < Len(ring))
  /\ full => headPos = tailPos

(* The elements from the head on, as Offset returns them.                  *)
Contents == [i \in 1..RingLen |-> Offset(i - 1)]

(* The buffer is a first-in first-out queue: through wrapping, doubling    *)
(* while wrapped and clearing, Front, Back and Offset see its elements in  *)
(* order.                                                                  *)
Fifo == INSTANCE FifoQueue WITH queue <- Contents
IsFifo == Fifo!Spec

(* A slot that holds no element of the queue holds nothing: popped packets *)
(* are not kept alive.                                                     *)
NoStaleSlot ==
  \A i \in 0..(Len(ring) - 1) :
    (\A k \in 0..(RingLen - 1) : (headPos + k) % Len(ring) # i) <=> Slot(ring, i) = ZeroValue

(* The buffer is well formed and keeps nothing alive.                      *)
RingInv == RingTypeOK /\ NoStaleSlot

=============================================================================
