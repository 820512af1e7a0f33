----------------------------- MODULE BlockQueue ----------------------------
(***************************************************************************)
(* What the contracts promise about the queue of blocks, whoever proposes, *)
(* challenges or asks to be paid: blocks are added at the end; the end may *)
(* be cut off, but never what is final; and the stake of a block is given  *)
(* away at a cut, or once it is final, never both ways.                    *)
(***************************************************************************)
EXTENDS Naturals, Sequences

VARIABLES
  queue,      \* the identifiers of the blocks
  final,      \* the positions of the blocks that are final
  slashed,    \* the blocks whose stake was taken at a cut
  returned    \* the blocks whose stake was given back

vars == <<queue, final, slashed, returned>>

Init == queue = <<>> /\ final = {} /\ slashed = {} /\ returned = {}

Keeps(n) == \A i \in 1..n : queue'[i] = queue[i]

(* A block is added.                                                       *)
Add == /\ DOMAIN queue' = 1..Len(queue) + 1
       /\ Keeps(Len(queue))
       /\ UNCHANGED <<final, slashed, returned>>

(* The blocks from i on are removed, none of which is final.               *)
Cut(i) == /\ \A k \in final : k < i
          /\ DOMAIN queue' = 1..i - 1
          /\ Keeps(i - 1)
          /\ slashed' = slashed \cup {queue[k] : k \in i..Len(queue)}
          /\ UNCHANGED <<final, returned>>

(* Time passes: more blocks are final.                                     *)
Age == /\ final \subseteq final'
       /\ UNCHANGED <<queue, slashed, returned>>

(* The stake of a final block is given back.                               *)
Return(i) == /\ i \in final
             /\ queue[i] \notin slashed \cup returned
             /\ returned' = returned \cup {queue[i]}
             /\ UNCHANGED <<queue, final, slashed>>

Next == \/ Add
        \/ \E i \in DOMAIN queue : Cut(i) \/ Return(i)
        \/ Age

Spec == Init /\ [][Next]_vars
=============================================================================
