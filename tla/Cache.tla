------------------------------- MODULE Cache -------------------------------
(***************************************************************************)
(* The cache store and its replacement engine (src/src/mem-system/cache.c) *)
(*                                                                         *)
(* One cache: NumSets sets of Assoc ways.  Every set keeps its blocks and  *)
(* a recency list (way_head .. way_tail, the pointer list of WayList),   *)
(* every block its tag, coherence state and the thread that brought it    *)
(* (thread_id, -1 = NoThread).  The                                        *)
(* cache keeps used_ways[t], the blocks owned by t, and reads              *)
(* assigned_ways[t], the quota written by the partitioning algorithm       *)
(* (-1 = unconstrained).                                                   *)
(*                                                                         *)
(* The memory hierarchy (mod-stack, not in this repository) drives the     *)
(* cache through three calls, one action each:                             *)
(*   Miss  = cache_replace_block followed by cache_set_transient_tag,      *)
(*           the pair find_and_lock performs for a missing block;          *)
(*   Fill  = cache_set_block, on a block the caller located before;        *)
(*   Hit   = cache_access_block, on a block the caller located before.     *)
(* Repartition stands for ucp/fcp writing assigned_ways; it writes any    *)
(* vector ucp_repartition can leave: a quota >= 1 per thread, together at *)
(* most assoc (the loop may stop early).  The vectors of fcp_repartition  *)
(* (all -1, or a partition of assoc) are among them.  UCP.tla and FCP.tla *)
(* model the algorithms themselves.                                       *)
(***************************************************************************)
EXTENDS Integers, Sequences, FiniteSets, SequencesExt

CONSTANTS
    NumSets,     \* cache->num_sets
    Assoc,       \* cache->assoc
    Threads,     \* flattened thread ids core * x86_cpu_num_threads + thread
    NoThread,    \* block->thread_id == -1
    Tags,        \* the tags the model distinguishes; 0 is the tag after xcalloc
    Nil,         \* a NULL way_prev / way_next
    Policies     \* the replacement policies a cache can be created with

ASSUME /\ NumSets \in Nat \ {0}
       /\ Assoc \in Nat \ {0}
       /\ Threads \subseteq Nat /\ Threads # {}
       /\ NoThread \notin Threads
       /\ 0 \in Tags
       /\ Policies \subseteq {"LRU", "FIFO", "Random", "PLRU"} /\ Policies # {}

Sets == 0 .. NumSets - 1
Ways == 0 .. Assoc - 1

WL == INSTANCE WayList

\* enum cache_block_state_t: only "invalid (0) or not" is read by this
\* code, so the five valid MOESI/N states are one value.
Invalid == "I"
Valid   == "V"
States  == {Invalid, Valid}

\* assigned_ways[t] == -1: partitioning is not enforced for t.
Unconstrained == -1

VARIABLES
    blk,           \* blk[s][w] = [tag, state, thread] of cache->sets[s].blocks[w]
    waylist,       \* waylist[s] = [head, tail, next, prev] of set s (WayList)
    usedWays,      \* cache->used_ways
    assignedWays,  \* cache->assigned_ways
    policy,        \* cache->policy, fixed by cache_create
    op             \* the last call and its arguments (history, for properties)

vars == <<blk, waylist, usedWays, assignedWays, policy, op>>

Ops == [kind : {"init", "fill", "hit", "repartition"}]
       \cup [kind : {"miss"}, set : Sets, thread : Threads, way : Ways]

\* ucp_repartition: the threads that reach the cache are seeded with 1 and
\* given ways from a balance of assoc, so each has a quota >= 1 and together
\* at most assoc (the loop may stop early); all -1 before the first call.
\* Threads are the threads that reach the cache: the others keep -1 from
\* ucp_create, own no block and never miss here, so they change nothing.
Quotas == {[t \in Threads |-> Unconstrained]}
          \cup {q \in [Threads -> 1 .. Assoc] :
                    SumFunctionOnSet(q, Threads) <= Assoc}

TypeOK ==
    /\ blk \in [Sets -> [Ways -> [tag : Tags, state : States,
                                  thread : Threads \cup {NoThread}]]]
    /\ waylist \in [Sets -> WL!Lists]
    /\ usedWays \in [Threads -> Nat]
    /\ assignedWays \in Quotas
    /\ policy \in Policies
    /\ op \in Ops

-----------------------------------------------------------------------------
(* cache_create: the list runs blocks[0] (head) .. blocks[assoc-1] (tail), *)
(* every block has tag 0, state 0 and thread_id -1, used_ways is 0 and     *)
(* assigned_ways is -1 (also what ucp_create / fcp_create write).          *)
Init ==
    /\ blk = [s \in Sets |-> [w \in Ways |->
                 [tag |-> 0, state |-> Invalid, thread |-> NoThread]]]
    /\ waylist = [s \in Sets |-> WL!Created]
    /\ usedWays = [t \in Threads |-> 0]
    /\ assignedWays = [t \in Threads |-> Unconstrained]
    /\ policy \in Policies
    /\ op = [kind |-> "init"]

WayTail(s) == waylist[s].tail

\* cache->used_ways_in_set: the blocks of set s each thread owns.
UsedWaysInSet(s) ==
    [t \in Threads |-> Quantify(Ways, LAMBDA w : blk[s][w].thread = t)]

\* The first way, walking from way_tail towards way_head, whose block is
\* owned by a thread of T; the tail when none is (way keeps the tail's
\* value).
FromTail(s, T) ==
    LET o == WL!Order(waylist[s])
        i == SelectLastInSeq(o, LAMBDA w : blk[s][w].thread \in T)
    IN  IF i = 0 THEN WayTail(s) ELSE o[i]

\* The partitioned-LRU branch of cache_replace_block.  Partitioning applies
\* when the LRU block is valid and the requester r has a quota.  A thread
\* at or above its quota in the set evicts its own LRU block; one below it
\* evicts the LRU block of a thread at or above its quota.
PLRUVictim(s, r) ==
    LET n == UsedWaysInSet(s)
    IN  IF blk[s][WayTail(s)].state # Invalid /\ assignedWays[r] # Unconstrained
        THEN IF n[r] >= assignedWays[r]
             THEN FromTail(s, {r})
             \* a -1 owner would index used_ways_in_set[-1]: CountedBlocksOwned
             \* shows it never occurs
             ELSE FromTail(s, {x \in Threads \ {r} : n[x] >= assignedWays[x]})
        ELSE WayTail(s)

ReplaceBlock(s, r, v) ==
    CASE policy \in {"LRU", "FIFO"} ->
            /\ v = WayTail(s)
            /\ waylist' = [waylist EXCEPT ![s] = WL!Relink(@, v)]
      [] policy = "PLRU" ->
            /\ v = PLRUVictim(s, r)
            /\ waylist' = [waylist EXCEPT ![s] = WL!Relink(@, v)]
      [] policy = "Random" ->
            \* random() % assoc: any way, the list is not touched
            /\ v \in Ways
            /\ UNCHANGED waylist

\* Fault variants of UsedWaysAfter: the counts of the old and the new
\* owner swapped; the old owner's count not decremented.
UsedWaysAfterSwapped(old, t) ==
    IF t = old THEN usedWays
    ELSE [x \in Threads |-> usedWays[x] - (IF x = t THEN 1 ELSE 0)
                                        + (IF x = old THEN 1 ELSE 0)]

UsedWaysAfterNoRelease(old, t) ==
    IF t = old THEN usedWays
    ELSE [usedWays EXCEPT ![t] = @ + 1]

\* cache_set_thread_id: t becomes the owner of a block owned by old;
\* used_ways moves one block from old (unless -1) to t.
UsedWaysAfter(old, t) ==
    IF t = old THEN usedWays
    ELSE [x \in Threads |-> usedWays[x] + (IF x = t THEN 1 ELSE 0)
                                        - (IF x = old THEN 1 ELSE 0)]

\* A block the caller can name: found by cache_find_block or returned by
\* cache_replace_block, both of which leave an owner on it.
Located(s, w) == blk[s][w].thread # NoThread

-----------------------------------------------------------------------------
\* Miss by thread r in set s: replace a way, then cache_set_transient_tag
\* records r as its owner (the transient tag itself is not modelled).
Miss(s, r) ==
    \E v \in Ways :
        /\ ReplaceBlock(s, r, v)
        /\ usedWays' = UsedWaysAfter(blk[s][v].thread, r)
        /\ blk' = [blk EXCEPT ![s][v].thread = r]
        /\ op' = [kind |-> "miss", set |-> s, thread |-> r, way |-> v]
        /\ UNCHANGED <<assignedWays, policy>>

\* cache_set_block(set, way, tag, state, client t).  FIFO moves a block
\* that receives a new tag to the head; partitioned LRU re-owns the block.
Fill(s, w, tag, st, t) ==
    /\ Located(s, w)
    /\ waylist' = IF policy = "FIFO" /\ blk[s][w].tag # tag
                  THEN [waylist EXCEPT ![s] = WL!Relink(@, w)]
                  ELSE waylist
    /\ IF policy = "PLRU"
       THEN /\ usedWays' = UsedWaysAfter(blk[s][w].thread, t)
            /\ blk' = [blk EXCEPT ![s][w].thread = t, ![s][w].tag = tag,
                                  ![s][w].state = st]
       ELSE /\ blk' = [blk EXCEPT ![s][w].tag = tag, ![s][w].state = st]
            /\ UNCHANGED usedWays
    /\ op' = [kind |-> "fill"]
    /\ UNCHANGED <<assignedWays, policy>>

\* cache_access_block: LRU and partitioned LRU promote the block; FIFO
\* only when the block is still invalid (its first access).
Hit(s, w) ==
    /\ Located(s, w)
    /\ waylist' = IF \/ policy \in {"LRU", "PLRU"}
                     \/ policy = "FIFO" /\ blk[s][w].state = Invalid
                  THEN [waylist EXCEPT ![s] = WL!Relink(@, w)]
                  ELSE waylist
    /\ op' = [kind |-> "hit"]
    /\ UNCHANGED <<blk, usedWays, assignedWays, policy>>

\* The partitioning algorithm writes new quotas; it runs only on
\* partitioned-LRU caches (cache_partitioning_schedule asserts it).
Repartition ==
    /\ policy = "PLRU"
    /\ assignedWays' \in Quotas
    /\ op' = [kind |-> "repartition"]
    /\ UNCHANGED <<blk, waylist, usedWays, policy>>

Next ==
    \/ \E s \in Sets, r \in Threads : Miss(s, r)
    \/ \E s \in Sets, w \in Ways, tag \in Tags, st \in States, t \in Threads :
          Fill(s, w, tag, st, t)
    \/ \E s \in Sets, w \in Ways : Hit(s, w)
    \/ Repartition

Spec == Init /\ [][Next]_vars

-----------------------------------------------------------------------------
(***************************************************************************)
(* Properties                                                              *)
(***************************************************************************)

\* used_ways[t], kept incrementally by cache_set_thread_id on every miss and
\* (partitioned LRU) every set_block, always equals the number of blocks of
\* the whole cache that t owns (spec section 8).  UCP and FCP read it as
\* the occupancy of each thread.
UsedWaysAccurate ==
    \A t \in Threads :
        usedWays[t] = Quantify(Sets \X Ways, LAMBDA sw : blk[sw[1]][sw[2]].thread = t)

ListsWellFormed == \A s \in Sets : WL!WellFormed(waylist[s])

\* The pointer lists implement the recency lists of spec 4.2: mapped to the
\* order walked from way_head, every step of the cache either leaves every
\* order alone or moves one way of one set to the head, keeping the
\* relative order of the others.
Recency == INSTANCE RecencyList
               WITH order <- [s \in Sets |-> WL!Order(waylist[s])]

RefinesRecencyList == Recency!Spec

\* Spec section 8's example and the comment of cache.c:509-511: a thread
\* gives up a way of its own only when it holds more blocks of the set than
\* its quota; one holding exactly its quota (with a valid LRU block) takes
\* the way of a competing thread.  The code tests "used >= assigned"
\* (cache.c:533), so it evicts its own block then.
AtQuotaEvictsCompetitor ==
    [][ op'.kind = "miss" /\ policy = "PLRU"
        /\ blk[op'.set][WayTail(op'.set)].state # Invalid
        /\ assignedWays[op'.thread] # Unconstrained
        /\ UsedWaysInSet(op'.set)[op'.thread] = assignedWays[op'.thread]
        => blk[op'.set][op'.way].thread # op'.thread ]_vars

=============================================================================
