-------------------------------- MODULE UCP --------------------------------
(***************************************************************************)
(* Utility-based cache partitioning (src/src/mem-system/ucp.c).            *)
(*                                                                         *)
(* Every thread that reaches the cache has an auxiliary tag directory      *)
(* (ATD, not in this repository) whose stack_distance_counters[d] count    *)
(* the hits the thread would have had at recency position d.  Each         *)
(* ucp_repartition on a warm cache gives every reachable thread one way    *)
(* and hands out the remaining ways greedily by marginal utility, then     *)
(* halves the counters.  The result is cache->assigned_ways.               *)
(*                                                                         *)
(* The ATD is modelled by what the spec (section 6) says of it: a hit at   *)
(* distance d increments counter d.  Marginal utilities (doubles in the    *)
(* code) are kept as fractions hits / ways and compared exactly.           *)
(***************************************************************************)
EXTENDS Integers, FiniteSets, SequencesExt

CONSTANTS
    NumThreads,   \* x86_cpu_num_cores * x86_cpu_num_threads
    Assoc,        \* cache->assoc
    Reachable,    \* the threads with mod->reachable_threads[t] (and an ATD)
    MaxCount      \* bound on a stack distance counter

Threads   == 0 .. NumThreads - 1
Distances == 0 .. Assoc - 1

\* The halving loop indexes counters 0 .. total_num_threads - 1 of arrays
\* of assoc entries: beyond assoc it writes out of bounds (not modelled).
ASSUME /\ NumThreads \in Nat \ {0} /\ Assoc \in Nat \ {0}
       /\ Reachable \subseteq Threads /\ Reachable # {}
       /\ Cardinality(Reachable) <= Assoc
       /\ NumThreads <= Assoc
       /\ MaxCount \in Nat

Unconstrained == -1

VARIABLES
    sdc,           \* sdc[t][d] = atds[t]->stack_distance_counters[d]
    assignedWays,  \* cache->assigned_ways
    op             \* the kind of the last step (history)

vars == <<sdc, assignedWays, op>>

Histograms == [Reachable -> [Distances -> 0 .. MaxCount]]

TypeOK ==
    /\ sdc \in Histograms
    /\ assignedWays \in [Threads -> {Unconstrained} \cup 1 .. Assoc]
    /\ op \in {"init", "hit", "repartition"}

\* ucp_create writes -1 to every quota; the ATDs start empty.
Init ==
    /\ sdc = [t \in Reachable |-> [d \in Distances |-> 0]]
    /\ assignedWays = [t \in Threads |-> Unconstrained]
    /\ op = "init"

-----------------------------------------------------------------------------
\* Fractions: x > y on [n, d] pairs with positive d.
Above(x, y) == x.n * y.d > y.n * x.d

\* ucp_mu: extra hits per extra way when growing from alloc to new_alloc.
Mu(h, t, alloc, new_alloc) ==
    [n |-> SumFunctionOnSet(h[t], alloc .. new_alloc - 1), d |-> new_alloc - alloc]

Zero == [n |-> 0, d |-> 1]

\* ucp_max_mu: the increment i in 1 .. balance of the largest utility, the
\* smallest such i on ties ("mu > *max_mu"); 0 ways and utility 0 if none
\* is positive.
RECURSIVE MaxMuFrom(_, _, _, _, _, _)
MaxMuFrom(h, t, alloc, balance, i, best) ==
    IF i > balance THEN best
    ELSE LET mu == Mu(h, t, alloc, alloc + i)
         IN  MaxMuFrom(h, t, alloc, balance, i + 1,
                       IF Above(mu, best.mu) THEN [mu |-> mu, req |-> i] ELSE best)

MaxMu(h, t, alloc, balance) ==
    MaxMuFrom(h, t, alloc, balance, 1, [mu |-> Zero, req |-> 0])

\* Fault variant of WinnerFrom: "max_mu >= max", ties go to the last
\* thread.
RECURSIVE WinnerFromGE(_, _, _, _, _)
WinnerFromGE(h, a, balance, t, best) ==
    IF t = NumThreads THEN best
    ELSE LET c == IF t \in Reachable THEN MaxMu(h, t, a[t], balance)
                  ELSE [mu |-> Zero, req |-> 0]
         IN  WinnerFromGE(h, a, balance, t + 1,
                          IF ~Above(best.mu, c.mu) THEN [id |-> t, mu |-> c.mu, req |-> c.req]
                          ELSE best)

\* "Choose winner": the first thread id, reachable or not, whose max_mu is
\* above all before it; an unreachable thread keeps max_mu = ways_req = 0
\* from xcalloc.  max starts at -1, so thread 0 is the first candidate.
RECURSIVE WinnerFrom(_, _, _, _, _)
WinnerFrom(h, a, balance, t, best) ==
    IF t = NumThreads THEN best
    ELSE LET c == IF t \in Reachable THEN MaxMu(h, t, a[t], balance)
                  ELSE [mu |-> Zero, req |-> 0]
         IN  WinnerFrom(h, a, balance, t + 1,
                        IF Above(c.mu, best.mu) THEN [id |-> t, mu |-> c.mu, req |-> c.req]
                        ELSE best)

Winner(h, a, balance) ==
    WinnerFrom(h, a, balance, 0, [id |-> -1, mu |-> [n |-> -1, d |-> 1], req |-> 0])

\* while (balance): grant the winner its ways; stop when the balance did
\* not move ("Break potential infinite loop").
RECURSIVE Allocate(_, _, _, _)
Allocate(h, a, balance, lastBalance) ==
    IF balance = 0 THEN a
    ELSE LET w  == Winner(h, a, balance)
             a1 == [a EXCEPT ![w.id] = @ + w.req]
             b1 == balance - w.req
         IN  IF b1 = lastBalance THEN a1 ELSE Allocate(h, a1, b1, b1)

\* Fault variant of Lookahead: reachable threads start from 0 ways.
LookaheadSeedZero(h) ==
    LET a0 == [t \in Threads |-> IF t \in Reachable THEN 0 ELSE assignedWays[t]]
    IN  Allocate(h, a0, Assoc, Assoc)

\* The quotas ucp_repartition computes from histograms h.
Lookahead(h) ==
    LET a0 == [t \in Threads |-> IF t \in Reachable THEN 1 ELSE assignedWays[t]]
    IN  Allocate(h, a0, Assoc - Cardinality(Reachable), Assoc)

\* The decay loop: counters 0 .. total_num_threads - 1 of every ATD are
\* halved (integer division).
Halve(h) ==
    [t \in Reachable |-> [d \in Distances |->
        IF d < NumThreads THEN h[t][d] \div 2 ELSE h[t][d]]]

-----------------------------------------------------------------------------
\* The ATD of thread t records a hit at stack distance d.
Hit(t, d) ==
    /\ sdc[t][d] < MaxCount
    /\ sdc' = [sdc EXCEPT ![t][d] = @ + 1]
    /\ op' = "hit"
    /\ UNCHANGED assignedWays

\* ucp_repartition on a warm cache (cache_usage >= UCP_CACHE_TH); on a cold
\* one it returns before writing anything, a stuttering step.
Repartition ==
    /\ assignedWays' = Lookahead(sdc)
    /\ sdc' = Halve(sdc)
    /\ op' = "repartition"

Next ==
    \/ \E t \in Reachable, d \in Distances : Hit(t, d)
    \/ Repartition

Spec == Init /\ [][Next]_vars

-----------------------------------------------------------------------------
(***************************************************************************)
(* Properties                                                              *)
(***************************************************************************)

\* The spec's own definition of the allocation (section 4.4): while ways
\* remain, grant the (thread, increment) of the single largest marginal
\* utility, the lowest thread and then the smallest increment on ties;
\* stop when the largest utility is zero.  Written over sets, not loops.
RECURSIVE Greedy(_, _, _)
Greedy(h, a, balance) ==
    LET cands == {c \in Reachable \X (1 .. balance) :
                     Above(Mu(h, c[1], a[c[1]], a[c[1]] + c[2]), Zero)}
        MuOf(c) == Mu(h, c[1], a[c[1]], a[c[1]] + c[2])
        Better(c, e) == \/ Above(MuOf(c), MuOf(e))
                        \/ /\ ~Above(MuOf(e), MuOf(c))
                           /\ \/ c[1] < e[1]
                              \/ c[1] = e[1] /\ c[2] <= e[2]
        best == CHOOSE c \in cands : \A e \in cands : Better(c, e)
    IN  IF balance = 0 \/ cands = {} THEN a
        ELSE Greedy(h, [a EXCEPT ![best[1]] = @ + best[2]], balance - best[2])

\* Every repartition writes the quotas of the greedy marginal-utility
\* allocation over the counters it read: ucp_max_mu, the winner loop and
\* the balance bookkeeping of ucp_repartition compute exactly it.
AllocationIsGreedy ==
    [][op' = "repartition" =>
        assignedWays' = Greedy(sdc,
                               [t \in Threads |-> IF t \in Reachable THEN 1
                                                  ELSE Unconstrained],
                               Assoc - Cardinality(Reachable))]_vars

\* Spec section 4.4: after converging, every thread's histogram is halved.
HistogramsHalved ==
    [][op' = "repartition" =>
        sdc' = [t \in Reachable |-> [d \in Distances |-> sdc[t][d] \div 2]]]_vars

=============================================================================
