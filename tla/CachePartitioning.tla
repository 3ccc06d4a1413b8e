-------------------------- MODULE CachePartitioning --------------------------
(***************************************************************************)
(* The partitioning controller (src/src/mem-system/cache-partitioning.c).  *)
(*                                                                         *)
(* One wrapper per partitioned cache.  cache_partitioning_schedule puts    *)
(* the first EV_CACHE_PARTITIONING event on the esim queue; every event    *)
(* runs cache_partitioning_handler, which decides whether an interval      *)
(* (of cycles, committed uinsts or evictions) has elapsed, runs the        *)
(* algorithm's execute callback if so, and reschedules itself, or frees    *)
(* the wrapper once esim_finish is set.                                     *)
(*                                                                         *)
(* Time advances from event to event: the handler step moves now to the    *)
(* event's cycle, and the metric (uinsts of the reachable cores, or the    *)
(* module's evictions) grows meanwhile at a constant rate of Rates per     *)
(* cycle.  The int backoff and the clamps keep their names; an MC module   *)
(* gives them values scaled down together with IntMax, the largest int.   *)
(***************************************************************************)
EXTENDS Integers

CONSTANTS
    Kinds,        \* the interval kinds a cache can be configured with
    Interval,     \* cache->partitioning.interval
    Rates,        \* metric increments per cycle the threads can show
    DefBackoff,   \* def_backoff
    MinBackoff,   \* min_backoff
    MaxBackoff,   \* max_backoff
    IntMax,       \* INT_MAX, the largest value of wrapper->backoff
    MaxTime       \* bound on esim_cycle

ASSUME /\ Kinds \subseteq {"cycles", "instructions", "evictions"} /\ Kinds # {}
       /\ Interval \in Nat \ {0}
       /\ Rates \subseteq Nat
       /\ 0 < MinBackoff /\ MinBackoff <= DefBackoff
       /\ DefBackoff <= MaxBackoff /\ MaxBackoff <= IntMax

IntMin == -IntMax - 1

VARIABLES
    kind,        \* cache->partitioning.interval_kind, fixed by the configuration
    now,         \* esim_cycle()
    evt,         \* the cycle of the pending event; -1 once the wrapper is freed
    metric,      \* the running uinst or eviction count the handler reads
    lastCycle,   \* wrapper->last_esim_cycle
    lastMetric,  \* wrapper->last_uinsts / wrapper->last_evictions
    backoff,     \* wrapper->backoff
    finish,      \* esim_finish
    executed,    \* the last handler call ran execute_callback (history)
    intCycles,   \* cycles since the current interval began (history)
    op           \* the last step (history)

vars == <<kind, now, evt, metric, lastCycle, lastMetric, backoff, finish,
          executed, intCycles, op>>

Freed == -1

TypeOK ==
    /\ kind \in Kinds
    /\ now \in Nat /\ metric \in Nat
    /\ evt \in Nat \cup {Freed}
    /\ lastCycle \in Nat /\ lastMetric \in Nat
    /\ backoff \in Int
    /\ finish \in BOOLEAN /\ executed \in BOOLEAN
    /\ intCycles \in Nat
    /\ op \in {"schedule", "handler", "finish"}

(* cache_partitioning_create (xcalloc: all zero) followed by              *)
(* cache_partitioning_schedule: the first event is one interval away for  *)
(* the cycle kind and wrapper->backoff (still 0) away otherwise.           *)
Init ==
    /\ kind \in Kinds
    /\ now = 0 /\ metric = 0
    /\ lastCycle = 0 /\ lastMetric = 0 /\ backoff = 0
    /\ evt = IF kind = "cycles" THEN Interval ELSE 0
    /\ finish = FALSE
    /\ executed = FALSE
    /\ intCycles = 0
    /\ op = "schedule"

-----------------------------------------------------------------------------
\* The conversion of a double to int: truncation towards zero; a value
\* out of int range is undefined behaviour, which x86 (cvttsd2si) turns
\* into INT_MIN and a saturating target into the nearest bound.
ToInt(num, den) ==
    LET q == IF num >= 0 THEN num \div den ELSE -((-num) \div den)
    IN  IF q > IntMax \/ q < IntMin
        THEN {IntMin, IF q > 0 THEN IntMax ELSE IntMin}
        ELSE {q}

\* MAX with min_backoff, then MIN with max_backoff.
Clamp(b) == IF b < MinBackoff THEN MinBackoff
            ELSE IF b > MaxBackoff THEN MaxBackoff ELSE b

\* The predicted wait: 0.75 * (interval - m) / (m / c) when the rate m / c
\* is not zero (c the cycles counted, m the metric of the interval),
\* def_backoff otherwise, clamped.
Predictions(m, c) ==
    IF c = 0 \/ m = 0 THEN {Clamp(DefBackoff)}
    ELSE {Clamp(b) : b \in ToInt(3 * (Interval - m) * c, 4 * m)}

\* The interval is over: always for cycles, once the interval's metric
\* reaches cache->partitioning.interval otherwise.
Elapsed(k, m) == k = "cycles" \/ m >= Interval

\* cache_partitioning_handler, run when the event of cycle evt fires; the
\* threads have added rate * (evt - now) to the metric in the meantime.
Handler(rate) ==
    LET t  == evt
        m  == metric + rate * (evt - now)
        cycles == t - lastCycle                   \* cycles_int
        mInt   == m - lastMetric                   \* METRIC
        elapsed == Elapsed(kind, mInt)
    IN  /\ evt # Freed
        /\ evt <= MaxTime \/ finish
        /\ now' = t
        /\ metric' = m
        /\ \E b \in (IF kind = "cycles" THEN {backoff} ELSE Predictions(mInt, cycles)) :
              /\ backoff' = b
              \* execute, report, and store the values of the next interval
              /\ executed' = elapsed
              /\ lastCycle' = IF elapsed /\ kind = "cycles" THEN t ELSE lastCycle
              /\ lastMetric' = IF elapsed /\ kind # "cycles" THEN m ELSE lastMetric
              /\ intCycles' = IF executed THEN t - now ELSE intCycles + (t - now)
              \* schedule_next_event
              /\ evt' = IF finish THEN Freed
                        ELSE t + (IF kind = "cycles" THEN Interval ELSE b)
        /\ op' = "handler"
        /\ UNCHANGED <<kind, finish>>

\* The simulation ends (esim_finish is set by the emulator or the timing
\* loop); the pending event still runs once and frees the wrapper.
Finish ==
    /\ ~finish
    /\ finish' = TRUE
    /\ op' = "finish"
    /\ UNCHANGED <<kind, now, evt, metric, lastCycle, lastMetric, backoff,
                   executed, intCycles>>

Next ==
    \/ \E r \in Rates : Handler(r)
    \/ Finish

Spec == Init /\ [][Next]_vars

-----------------------------------------------------------------------------
(***************************************************************************)
(* Properties                                                              *)
(***************************************************************************)

HandlerStep == op' = "handler"

\* Spec 4.3: the wait is 0.75 * remaining / observed rate, the rate being
\* the interval's metric over the interval's cycles (cycles_int).
PredictionUsesIntervalRate ==
    [][HandlerStep /\ kind # "cycles" /\ ~executed' /\ evt' # Freed =>
        backoff' \in Predictions(metric' - lastMetric, intCycles')]_vars

\* The clamp's intent: when the exact prediction is beyond max_backoff the
\* handler waits max_backoff, not less.
LongWaitsCapped ==
    [][HandlerStep /\ kind # "cycles" /\ ~executed' /\ evt' # Freed
        /\ metric' > lastMetric /\ now' > lastCycle
        /\ 3 * (Interval - (metric' - lastMetric)) * (now' - lastCycle)
              >= 4 * (metric' - lastMetric) * MaxBackoff
        => backoff' = MaxBackoff]_vars

=============================================================================
