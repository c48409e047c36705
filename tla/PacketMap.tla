----------------------------- MODULE PacketMap -----------------------------
(***************************************************************************)
(* What the packet queue promises: a map from packet numbers to entries    *)
(* that accepts numbers in increasing order until it is empty again.       *)
(***************************************************************************)
EXTENDS Integers

CONSTANTS Packets, Entries

VARIABLES
  map,   \* the entries present, a partial function on packet numbers
  last   \* the last packet inserted since the map was empty, else -1

vars == <<map, last>>

Without(f, S) == [p \in DOMAIN f \ S |-> f[p]]

Init == map = [p \in {} |-> {}] /\ last = -1

Put(p, e) ==
  /\ p > last
  /\ map' = [q \in DOMAIN map \cup {p} |-> IF q = p THEN e ELSE map[q]]
  /\ last' = p

Drop(S) ==
  /\ map' = Without(map, S)
  /\ last' = IF DOMAIN map' = {} THEN -1 ELSE last

Next ==
  \/ \E p \in Packets, e \in Entries : Put(p, e)
  \/ \E p \in Packets : Drop({p})
  \/ \E p \in Packets : Drop({q \in Packets : q < p})

Spec == Init /\ [][Next]_vars
=============================================================================
