----------------------------- MODULE RecencyList -----------------------------
(***************************************************************************)
(* What the recency lists of a cache promise (spec 4.2 and 9): for every  *)
(* set an order of its ways, way_head first, where moving a block to the   *)
(* head leaves the relative order of all other ways unchanged.  Each list *)
(* starts as blocks[0] .. blocks[assoc-1].                                 *)
(***************************************************************************)
EXTENDS Integers, Sequences, SequencesExt

CONSTANTS Sets, Assoc

Ways == 0 .. Assoc - 1

VARIABLE order

Init == order = [s \in Sets |-> [i \in 1 .. Assoc |-> i - 1]]

ToHead(s, w) == order' = [order EXCEPT ![s] = Cons(w, Remove(@, w))]

Next == \E s \in Sets, w \in Ways : ToHead(s, w)

Spec == Init /\ [][Next]_order

=============================================================================
