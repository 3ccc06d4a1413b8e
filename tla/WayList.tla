------------------------------- MODULE WayList -------------------------------
(***************************************************************************)
(* The intrusive recency list of one cache set (src/src/mem-system/        *)
(* cache.c): every block has way_prev and way_next pointers, the set has   *)
(* way_head and way_tail.  Blocks are named by their way; NULL is Nil.     *)
(* A list is the record [head, tail, next, prev]; Cache.tla keeps one per  *)
(* set and changes it only through Relink, the translation of              *)
(* cache_update_waylist.  Every caller (cache_set_block,                   *)
(* cache_access_block, cache_replace_block) passes cache_waylist_head, so  *)
(* the move to the tail is not part of the model.                          *)
(***************************************************************************)
EXTENDS Integers, Sequences

CONSTANTS Assoc, Nil

ASSUME Assoc \in Nat \ {0} /\ Nil \notin 0 .. Assoc - 1

Ways == 0 .. Assoc - 1

Lists == [head : Ways, tail : Ways, next : [Ways -> Ways \cup {Nil}],
          prev : [Ways -> Ways \cup {Nil}]]

\* cache_create: blocks[0] .. blocks[assoc-1], linked in way order.
Created ==
    [head |-> 0,
     tail |-> Assoc - 1,
     prev |-> [w \in Ways |-> IF w = 0 THEN Nil ELSE w - 1],
     next |-> [w \in Ways |-> IF w = Assoc - 1 THEN Nil ELSE w + 1]]

\* Fault variants of Relink: the tail branch does not move way_tail back;
\* the inner branch does not set way_prev->way_next to way_next.
RelinkNoTailMove(l, b) ==
    IF l.prev[b] = Nil THEN l
    ELSE LET isTail == l.next[b] = Nil
             n1 == IF isTail THEN [l.next EXCEPT ![l.prev[b]] = Nil]
                   ELSE [l.next EXCEPT ![l.prev[b]] = l.next[b]]
             p1 == IF isTail THEN l.prev ELSE [l.prev EXCEPT ![l.next[b]] = l.prev[b]]
         IN  [head |-> b,
              tail |-> l.tail,
              next |-> [n1 EXCEPT ![b] = l.head],
              prev |-> [p1 EXCEPT ![b] = Nil, ![l.head] = b]]

RelinkInnerLinkKept(l, b) ==
    IF l.prev[b] = Nil THEN l
    ELSE LET isTail == l.next[b] = Nil
             n1 == IF isTail THEN [l.next EXCEPT ![l.prev[b]] = Nil]
                   ELSE l.next
             p1 == IF isTail THEN l.prev ELSE [l.prev EXCEPT ![l.next[b]] = l.prev[b]]
         IN  [head |-> b,
              tail |-> IF isTail THEN l.prev[b] ELSE l.tail,
              next |-> [n1 EXCEPT ![b] = l.head],
              prev |-> [p1 EXCEPT ![b] = Nil, ![l.head] = b]]

\* cache_update_waylist(set, blk, cache_waylist_head).  A block without
\* neighbours (assoc 1) and the head return early; the tail is unlinked by
\* moving way_tail back, an inner block by joining its neighbours; then
\* the block is linked in front of way_head.
Relink(l, b) ==
    IF l.prev[b] = Nil THEN l
    ELSE LET isTail == l.next[b] = Nil
             \* unlink
             n1 == IF isTail THEN [l.next EXCEPT ![l.prev[b]] = Nil]
                   ELSE [l.next EXCEPT ![l.prev[b]] = l.next[b]]
             p1 == IF isTail THEN l.prev ELSE [l.prev EXCEPT ![l.next[b]] = l.prev[b]]
             \* link at the head
         IN  [head |-> b,
              tail |-> IF isTail THEN l.prev[b] ELSE l.tail,
              next |-> [n1 EXCEPT ![b] = l.head],
              prev |-> [p1 EXCEPT ![b] = Nil, ![l.head] = b]]

\* The ways met walking way_next from way_head, at most Assoc of them.
RECURSIVE WalkFrom(_, _, _)
WalkFrom(l, w, k) ==
    IF w = Nil \/ k = 0 THEN <<>> ELSE <<w>> \o WalkFrom(l, l.next[w], k - 1)

Order(l) == WalkFrom(l, l.head, Assoc)

\* The list is well formed: walking from way_head meets every way once and
\* ends at way_tail, and way_prev is the inverse of way_next.  The loops of
\* cache_replace_block walk way_prev from way_tail and rely on it.
WellFormed(l) ==
    LET o == Order(l)
    IN  /\ Len(o) = Assoc
        /\ \A i, j \in 1 .. Assoc : i # j => o[i] # o[j]
        /\ o[Assoc] = l.tail /\ l.next[l.tail] = Nil
        /\ l.prev[l.head] = Nil
        /\ \A w \in Ways : l.next[w] # Nil => l.prev[l.next[w]] = w

=============================================================================
