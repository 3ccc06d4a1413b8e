-------------------------------- MODULE FCP --------------------------------
(***************************************************************************)
(* Fairness-driven cache partitioning (src/src/mem-system/fcp.c).          *)
(*                                                                         *)
(* fcp_repartition runs once per partitioning interval.  Its inputs are    *)
(* the occupancy used_ways[t] kept by the cache and the individual speedup *)
(* of every thread (fcp_individual_speedup, ipc / ipc_alone); both are     *)
(* chosen freely at each call.  Its output is cache->assigned_ways, read   *)
(* by the partitioned-LRU replacement.  All threads reach the cache.       *)
(*                                                                         *)
(* Speedups are positive integers of a small set (any common scale); the   *)
(* unfairness max/min is kept as the fraction [n |-> max, d |-> min] and   *)
(* compared by cross-multiplying, so "x > y * 1.02" is exact.              *)
(***************************************************************************)
EXTENDS Integers, Sequences, FiniteSets, SequencesExt

CONSTANTS
    NumThreads,       \* x86_cpu_num_cores * x86_cpu_num_threads
    NumSets,          \* cache->num_sets
    Assoc,            \* cache->assoc
    SpeedupValues,    \* the individual speedups a thread can show
    PairingPolicy,    \* cache->pairing.policy
    PairingInterval   \* cache->pairing.interval (0: pair only once)

Threads == 0 .. NumThreads - 1

\* fcp_pairing asserts an even thread count and more than two ways per
\* pair; config.c rejects Nearest with a non-zero interval.  Random
\* pairing is "not implemented" (fatal).
ASSUME /\ NumThreads \in Nat \ {0} /\ NumSets \in Nat \ {0}
       /\ Assoc >= NumThreads
       /\ SpeedupValues \subseteq Nat \ {0} /\ SpeedupValues # {}
       /\ PairingPolicy \in {"None", "Nearest", "MinMax", "Sec", "Mix"}
       /\ PairingInterval \in Nat
       /\ PairingPolicy # "None" => /\ NumThreads % 2 = 0
                                    /\ (Assoc * 2) \div NumThreads > 2
       /\ PairingPolicy = "Nearest" => PairingInterval = 0

\* The #defines of fcp.c.
FCP_HISTORY_SIZE == 3
FCP_MAX_INC_INT == 2
FCP_BACKOFF_INTERVALS == 5
FCP_MIN_WAYS == 1

Unconstrained == -1
NoUnfairness == [n |-> 0, d |-> 1]   \* last_unfairness_values after xcalloc

VARIABLES
    state,         \* fcp->state
    backoff,       \* fcp->backoff
    stateCounter,  \* fcp->state_counter, abstracted (see NextStateCounter)
    history,       \* fcp->last_unfairness_values
    counter,       \* fcp->counter modulo the pairing interval
    assignedWays,  \* cache->assigned_ways
    pairs,         \* fcp->pairing.pairs, in list order
    warm,          \* esim_time > FCP_TIME_TH and cache usage > FCP_CACHE_TH
    \* history variables, for the properties only
    unfairness,    \* the unfairness computed by the last call
    onTrend,       \* unfairness values recorded since FCP last entered ON
    sinceBackoff,  \* calls since FCP last went from ON to BACKOFF
    repaired       \* the last call rebuilt the pairs

vars == <<state, backoff, stateCounter, history, counter, assignedWays,
          pairs, warm, unfairness, onTrend, sinceBackoff, repaired>>

Fraction == [n : Nat, d : Nat \ {0}]
Pair == [id1 : Threads, id2 : Threads, ways : 1 .. Assoc]

TypeOK ==
    /\ state \in {"OFF", "ON", "BACKOFF"}
    /\ backoff \in 0 .. FCP_BACKOFF_INTERVALS
    /\ stateCounter \in 0 .. 4
    /\ history \in [0 .. FCP_HISTORY_SIZE - 1 -> Fraction]
    /\ counter \in Nat
    /\ assignedWays \in [Threads -> {Unconstrained} \cup 1 .. Assoc]
    /\ pairs \in Seq(Pair)
    /\ warm \in BOOLEAN
    /\ unfairness \in Fraction
    /\ onTrend \in Seq(Fraction)
    /\ sinceBackoff \in 0 .. FCP_BACKOFF_INTERVALS + 1
    /\ repaired \in BOOLEAN

-----------------------------------------------------------------------------
\* fcp_create: state OFF, counters zero, all quotas -1, no pairs.
Init ==
    /\ state = "OFF"
    /\ backoff = 0
    /\ stateCounter = 0
    /\ history = [i \in 0 .. FCP_HISTORY_SIZE - 1 |-> NoUnfairness]
    /\ counter = 0
    /\ assignedWays = [t \in Threads |-> Unconstrained]
    /\ pairs = <<>>
    /\ warm = FALSE
    /\ unfairness = NoUnfairness
    /\ onTrend = <<>>
    /\ sinceBackoff = 0
    /\ repaired = FALSE

SumOf(f) == SumFunctionOnSet(f, Threads)

\* x > y * FCP_UNF_INC_TH (1.02), on fractions.
IncreasesOn(x, y) == x.n * y.d * 100 > 102 * y.n * x.d

\* The double max / min: a fraction in lowest terms, so equal ratios are
\* one value as they are in the code.
Ratio(n, d) ==
    LET g == CHOOSE k \in 1 .. d : n % k = 0 /\ d % k = 0
                                   /\ \A j \in 1 .. d : n % j = 0 /\ d % j = 0 => j <= k
    IN  [n |-> n \div g, d |-> d \div g]

\* The occupancies of a warmed-up cache: the cache is full (usage > 0.99
\* of a cache smaller than 100 blocks means every block is owned).
Occupancies == {u \in [Threads -> 0 .. NumSets * Assoc] :
                    SumOf(u) = NumSets * Assoc}

\* list_sort(fcp->threads, compare_is): the threads by increasing speedup;
\* the order of equal speedups is not fixed by the comparison.
Orders == {o \in [1 .. NumThreads -> Threads] : Range(o) = Threads}

SortedOrders(sp) ==
    {o \in Orders : \A i \in 1 .. NumThreads - 1 : sp[o[i]] <= sp[o[i + 1]]}

\* Fault variant of NextStateCounter: the abstract count wraps to the
\* wrong remainder, so the history is read from a stale slot.
NextStateCounterOff(c) == IF c = 4 THEN 3 ELSE c + 1

\* fcp->state_counter is only read as "state_counter >= 2" and modulo 3;
\* 2, 3, 4 stand for every count >= 2 with that remainder.
NextStateCounter(c) == IF c = 4 THEN 2 ELSE c + 1

-----------------------------------------------------------------------------
(* fcp_pairing: the pairs, built over the list sorted by speedup.          *)
\* fcp_pair_create.
PairCreate(id1, id2, ways) == [id1 |-> id1, id2 |-> id2, ways |-> ways]

MakePairs(ord) ==
    LET half == NumThreads \div 2
        wpp  == (Assoc * 2) \div NumThreads
        P(a, b) == PairCreate(ord[a], ord[b], wpp)
    IN  CASE PairingPolicy \in {"Nearest", "Sec"} ->
                [i \in 1 .. half |-> P(2 * i - 1, 2 * i)]
          [] PairingPolicy = "MinMax" ->
                [i \in 1 .. half |-> P(i, NumThreads - i + 1)]
          [] PairingPolicy = "Mix" ->
                [i \in 1 .. half |-> P(i, half + i)]

\* Fault variant of Distribute: the loop stops one way early.
RECURSIVE DistributeShort(_, _, _)
DistributeShort(a, ways, i) ==
    IF ways <= 1 THEN a
    ELSE LET t  == i % NumThreads
             a1 == IF ways > 0 THEN [a EXCEPT ![t] = @ + 1] ELSE a
             w1 == IF ways > 0 THEN ways - 1 ELSE ways
             take == w1 < 0 /\ a1[t] > 1
         IN  DistributeShort(IF take THEN [a1 EXCEPT ![t] = @ - 1] ELSE a1,
                             IF take THEN w1 + 1 ELSE w1, i + 1)

\* The seeding of assigned_ways on entering ON: round(used / num_sets),
\* at least one way, then the loop "for (i = 0; ways != 0; i++)" hands out
\* or takes back single ways, thread by thread, until assoc are assigned.
RECURSIVE Distribute(_, _, _)
Distribute(a, ways, i) ==
    IF ways = 0 THEN a
    ELSE LET t  == i % NumThreads
             a1 == IF ways > 0 THEN [a EXCEPT ![t] = @ + 1] ELSE a
             w1 == IF ways > 0 THEN ways - 1 ELSE ways
             take == w1 < 0 /\ a1[t] > 1
         IN  Distribute(IF take THEN [a1 EXCEPT ![t] = @ - 1] ELSE a1,
                        IF take THEN w1 + 1 ELSE w1, i + 1)

Seed(u) ==
    LET r == [t \in Threads |-> (2 * u[t] + NumSets) \div (2 * NumSets)]
        s == [t \in Threads |-> IF r[t] = 0 THEN 1 ELSE r[t]]
    IN  Distribute(s, Assoc - SumOf(s), 0)

\* The quotas a seeding can produce, over all occupancies.
Seeds == {Seed(u) : u \in Occupancies}

\* Fault variant of Transfer: the FCP_MIN_WAYS guard is dropped.
TransferUnguarded(a, max, min) == [a EXCEPT ![max] = @ - 1, ![min] = @ + 1]

\* One way from max to min, if max keeps FCP_MIN_WAYS.
Transfer(a, max, min) ==
    IF a[max] > FCP_MIN_WAYS THEN [a EXCEPT ![max] = @ - 1, ![min] = @ + 1]
    ELSE a

\* The intrapair loop of the ON action.  A pair whose members have equal
\* speedups leaves min and max as they were (the previous pair's, or the
\* head and tail of the sorted list).
RECURSIVE PairTransfers(_, _, _, _, _)
PairTransfers(a, ps, sp, min, max) ==
    IF ps = <<>> THEN a
    ELSE LET p  == Head(ps)
             mn == CASE sp[p.id1] > sp[p.id2] -> p.id2
                     [] sp[p.id1] < sp[p.id2] -> p.id1
                     [] OTHER -> min
             mx == CASE sp[p.id1] > sp[p.id2] -> p.id1
                     [] sp[p.id1] < sp[p.id2] -> p.id2
                     [] OTHER -> max
         IN  PairTransfers(Transfer(a, mx, mn), Tail(ps), sp, mn, mx)

\* fcp_pairing_adjust_ways: the while loops that take (give) single ways
\* alternately from (to) the two members, starting with id1.
RECURSIVE Shave(_, _, _, _)
Shave(a, m, c, status) ==
    IF status <= 0 THEN a
    ELSE IF a[m[c]] > 1 THEN Shave([a EXCEPT ![m[c]] = @ - 1], m, 3 - c, status - 1)
                        ELSE Shave(a, m, 3 - c, status)

RECURSIVE Grant(_, _, _, _, _)
Grant(a, m, c, status, cap) ==
    IF status >= 0 THEN a
    ELSE IF a[m[c]] < cap THEN Grant([a EXCEPT ![m[c]] = @ + 1], m, 3 - c, status + 1, cap)
                          ELSE Grant(a, m, 3 - c, status, cap)

Status(a, p) == a[p.id1] + a[p.id2] - p.ways

\* Fault variant of Recover: the ways taken back are not counted, so the
\* second loop never hands them out.
RECURSIVE RecoverNoCount(_, _)
RecoverNoCount(a, ps) ==
    IF ps = <<>> THEN [a |-> a, ways |-> 0]
    ELSE LET p == Head(ps)
             st == Status(a, p)
             r == RecoverNoCount(Shave(a, <<p.id1, p.id2>>, 1, st), Tail(ps))
         IN  [a |-> r.a, ways |-> r.ways]

\* First loop: shave every pair above its budget, counting the ways taken.
RECURSIVE Recover(_, _)
Recover(a, ps) ==
    IF ps = <<>> THEN [a |-> a, ways |-> 0]
    ELSE LET p == Head(ps)
             st == Status(a, p)
             r == Recover(Shave(a, <<p.id1, p.id2>>, 1, st), Tail(ps))
         IN  [a |-> r.a, ways |-> r.ways + (IF st > 0 THEN st ELSE 0)]

\* Second loop: grant to pairs below budget until the recovered ways are
\* spent ("if (ways == 0) break").
RECURSIVE Reassign(_, _, _)
Reassign(a, ps, ways) ==
    IF ps = <<>> THEN a
    ELSE LET p  == Head(ps)
             st == Status(a, p)
             a1 == IF st < 0 THEN Grant(a, <<p.id1, p.id2>>, 1, st, p.ways) ELSE a
             w1 == IF st < 0 THEN ways + st ELSE ways
         IN  IF w1 = 0 THEN a1 ELSE Reassign(a1, Tail(ps), w1)

\* Fault variant of AdjustWays: the recovered ways are never handed out
\* again (the second loop is skipped).
AdjustWaysNoReassign(a, ps) == Recover(a, ps).a

AdjustWays(a, ps) ==
    LET r == Recover(a, ps)
    IN  IF r.ways > 0 THEN Reassign(r.a, ps, r.ways) ELSE r.a

-----------------------------------------------------------------------------
(* fcp_repartition, for a warmed-up cache (the early return of a cold     *)
(* cache changes nothing), with speedups sp sorted as ord; seed is        *)
(* Seed(used_ways) for the occupancy of this call, read only on entering  *)
(* ON.                                                                     *)
\* Fault variant of Enabling: BACKOFF ends one call early.
EnablingEarly == state = "OFF" \/ (state = "BACKOFF" /\ backoff <= 1)

Enabling == state = "OFF" \/ (state = "BACKOFF" /\ backoff = 0)

\* fcp->backoff after a call that moves FCP from state to st: set to
\* FCP_BACKOFF_INTERVALS on leaving ON, and decremented by the BACKOFF case
\* of the action switch in the same call and in every call of BACKOFF.
NextBackoff(st) ==
    CASE st = "BACKOFF" /\ state = "ON" -> FCP_BACKOFF_INTERVALS - 1
      [] st = "BACKOFF" -> backoff - 1
      [] OTHER -> backoff

\* The pairing step: pairs are made on the first call when the pairing
\* interval is 0, and on every call the counter is a multiple of it.
Rebuild ==
    /\ PairingPolicy # "None"
    /\ IF PairingInterval = 0 THEN pairs = <<>> ELSE counter = 0

\* The ON case's trend test: with FCP_MAX_INC_INT values recorded, each of
\* the last ones rises by more than FCP_UNF_INC_TH over the one before.
Increasing(unf) ==
    /\ stateCounter >= FCP_MAX_INC_INT
    /\ IncreasesOn(unf, history[(stateCounter - 1) % FCP_HISTORY_SIZE])
    /\ IncreasesOn(history[(stateCounter - 1) % FCP_HISTORY_SIZE],
                   history[(stateCounter - 2) % FCP_HISTORY_SIZE])

\* The transition switch: the state after it, and the quotas it leaves
\* (seeded on entering ON, unconstrained on leaving ON).
NextState(unf) ==
    CASE Enabling -> "ON"
      [] state = "ON" /\ Increasing(unf) -> "BACKOFF"
      [] OTHER -> state

Transitioned(seed, st) ==
    CASE Enabling -> seed
      [] state = "ON" /\ st = "BACKOFF" -> [t \in Threads |-> Unconstrained]
      [] OTHER -> assignedWays

\* The action switch for the new state: in ON one way goes from max to min
\* (or within every pair), and the pair budgets are restored when the pairs
\* were rebuilt; OFF and BACKOFF leave the quotas.
Act(a0, st, ps, sp, min, max) ==
    LET a1 == IF st = "ON" /\ PairingPolicy = "None" THEN Transfer(a0, max, min)
              ELSE IF st = "ON" THEN PairTransfers(a0, ps, sp, min, max)
              ELSE a0
    IN  IF st = "ON" /\ Rebuild THEN AdjustWays(a1, ps) ELSE a1

Repartition(seed, sp, ord) ==
    LET min == ord[1]
        max == ord[NumThreads]
        unf == Ratio(sp[max], sp[min])
        rebuild == Rebuild
        ps == IF rebuild THEN MakePairs(ord) ELSE pairs
        st == NextState(unf)
    IN  /\ warm
        /\ state' = st
        /\ backoff' = NextBackoff(st)
        /\ assignedWays' = Act(Transitioned(seed, st), st, ps, sp, min, max)
        /\ pairs' = ps
        \* history of unfairness values, kept while the state does not change
        /\ IF st # state
           THEN /\ stateCounter' = 0
                /\ UNCHANGED history
           ELSE /\ history' = [history EXCEPT ![stateCounter % FCP_HISTORY_SIZE] = unf]
                /\ stateCounter' = NextStateCounter(stateCounter)
        /\ counter' = IF PairingInterval = 0 THEN 0 ELSE (counter + 1) % PairingInterval
        /\ unfairness' = unf
        /\ onTrend' = IF st = "ON" /\ state = "ON"
                      THEN IF Len(onTrend) < FCP_MAX_INC_INT THEN Append(onTrend, unf)
                           ELSE Append(Tail(onTrend), unf)
                      ELSE <<>>
        /\ sinceBackoff' = CASE state = "ON" /\ st = "BACKOFF" -> 0
                             [] state = "BACKOFF" -> Min({sinceBackoff + 1, FCP_BACKOFF_INTERVALS + 1})
                             [] OTHER -> sinceBackoff
        /\ repaired' = rebuild
        /\ UNCHANGED warm

\* Simulated time passes FCP_TIME_TH and the cache fills up; both stay so.
WarmUp ==
    /\ ~warm
    /\ warm' = TRUE
    /\ UNCHANGED <<state, backoff, stateCounter, history, counter, assignedWays,
                   pairs, unfairness, onTrend, sinceBackoff, repaired>>

\* The seeding reads used_ways only when FCP enters ON.
Call ==
    \E sp \in [Threads -> SpeedupValues] :
        \E ord \in SortedOrders(sp) :
            IF Enabling THEN \E seed \in Seeds : Repartition(seed, sp, ord)
                        ELSE Repartition(assignedWays, sp, ord)

Next == WarmUp \/ Call

Spec == Init /\ [][Next]_vars

-----------------------------------------------------------------------------
(***************************************************************************)
(* Properties                                                              *)
(***************************************************************************)

\* The invariant of spec section 5, which fcp_repartition asserts in the
\* unpaired ON action: while FCP is ON every thread has at least one way
\* and the quotas add up to assoc; in OFF and BACKOFF every quota is -1.
\* The seeding rounds occupancies, so it relies on the redistribution loop.
QuotasPartitionCache ==
    IF state = "ON"
    THEN /\ \A t \in Threads : assignedWays[t] >= FCP_MIN_WAYS
         /\ SumOf(assignedWays) = Assoc
    ELSE \A t \in Threads : assignedWays[t] = Unconstrained

\* Spec 4.5 and 8: leaving ON for BACKOFF disables partitioning for exactly
\* FCP_BACKOFF_INTERVALS calls; the next call re-enables it.
BackoffLastsFiveIntervals ==
    /\ [](state = "BACKOFF" => sinceBackoff < FCP_BACKOFF_INTERVALS)
    /\ [][state = "BACKOFF" /\ state' = "ON"
            => sinceBackoff' = FCP_BACKOFF_INTERVALS]_vars

\* FCP leaves ON exactly when the unfairness rose by more than 2% in each
\* of the last FCP_MAX_INC_INT intervals spent in ON: the circular buffer
\* last_unfairness_values, indexed by state_counter, must hold the two
\* values recorded before the current one.
BackoffOnRisingTrend ==
    [][state = "ON" /\ state' # "OFF" =>
        (state' = "BACKOFF" <=>
            /\ Len(onTrend) = FCP_MAX_INC_INT
            /\ IncreasesOn(unfairness', onTrend[2])
            /\ IncreasesOn(onTrend[2], onTrend[1]))]_vars

\* A pair whose ways differ from its budget of 2*assoc/count.
OffBudget == \E p \in Range(pairs) : assignedWays[p.id1] + assignedWays[p.id2] # p.ways

\* Spec 4.5: every pair owns a budget of 2*assoc/count ways.  Re-entering
\* ON from BACKOFF re-seeds the quotas from occupancy and skips
\* fcp_pairing_adjust_ways unless the pairs are rebuilt in the same call,
\* and a tie in the intrapair loop moves a way between pairs.  With a
\* pairing interval, fcp->counter comes back to a multiple of it every
\* interval calls, and such a call that ends in ON (rebuild, intrapair
\* transfers, then the shave/grant pass) leaves every pair at its budget.
PairBudgetsRestored == [][counter = 0 /\ state' = "ON" => ~OffBudget']_vars

\* Spec 4.5: with pairing, the one-way transfer is applied within each
\* pair, so a call that stays ON and does not rebuild the pairs keeps the
\* total of every pair.
PairTransfersStayInPair ==
    [][state = "ON" /\ state' = "ON" /\ ~repaired' =>
        \A p \in Range(pairs) :
            assignedWays'[p.id1] + assignedWays'[p.id2]
                = assignedWays[p.id1] + assignedWays[p.id2]]_vars

=============================================================================
