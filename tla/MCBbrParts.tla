---------------------------- MODULE MCBbrParts ----------------------------
(***************************************************************************)
(* The five parts of the congestion controller that depend on nothing but  *)
(* their caller, each driven by every sequence of calls.  They share no    *)
(* state, so that a behaviour is one of a single part and the others stay  *)
(* in their initial states.                                                *)
(***************************************************************************)
EXTENDS RingBuffer, PacketNumberQueue, WindowedFilter, Pacer, AckHeight

CONSTANT Parts   \* the parts that are driven

VARIABLE part    \* the part this behaviour is about

vars == <<part, ringVars, queueVars, filterVars, pacerVars, heightVars>>

(* The conservative profile reduces heights when the bandwidth grows; the  *)
(* aggressive one resets the tracker in STARTUP.                           *)
Conservative == [threshold |-> 2, reduce |-> TRUE, expire |-> FALSE]
Aggressive == [threshold |-> 1, reduce |-> FALSE, expire |-> TRUE]
MCOptions == {Conservative, Aggressive}

Init ==
  /\ part \in Parts
  /\ RingInit /\ QueueInit /\ FilterInit /\ PacerInit /\ HeightInit
  /\ part # "pacer" => pacingRate = 0 /\ senderSize = InitialPacketSize /\ quicSize = senderSize
  /\ part # "height" => options = Conservative

Next ==
  /\ part' = part
  /\ \/ /\ part = "ring" /\ RingNext
        /\ UNCHANGED <<queueVars, filterVars, pacerVars, heightVars>>
     \/ /\ part = "queue" /\ QueueNext
        /\ UNCHANGED <<ringVars, filterVars, pacerVars, heightVars>>
     \/ /\ part = "filter" /\ FilterNext
        /\ UNCHANGED <<ringVars, queueVars, pacerVars, heightVars>>
     \/ /\ part = "pacer" /\ PacerNext
        /\ UNCHANGED <<ringVars, queueVars, filterVars, heightVars>>
     \/ /\ part = "height" /\ HeightNext
        /\ UNCHANGED <<ringVars, queueVars, filterVars, pacerVars>>

Spec == Init /\ [][Next]_vars

(* The two containers are well formed, the pacer neither spins nor lets    *)
(* more than a burst through, and no height counts bytes that the bandwidth*)
(* explains.                                                               *)
PartsInv == RingInv /\ QueueInv /\ PacerInv /\ HeightInv

=============================================================================
