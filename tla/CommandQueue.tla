---------------------------- MODULE CommandQueue ----------------------------
(***************************************************************************)
(* The command queues of the Multi2Sim OpenCL runtime                      *)
(* (src/tools/libm2s-clrt/command-queue.c).  Every queue is a singly       *)
(* linked list of items (head, tail, item->next) guarded by queue->lock,   *)
(* with a 'process' flag and one worker thread created by                  *)
(* clCreateCommandQueue that dequeues and performs items.  The host        *)
(* application is one thread that enqueues commands, flushes, finishes     *)
(* and releases queues.                                                    *)
(*                                                                         *)
(* Each critical section under queue->lock is one step.  A wait on         *)
(* cond_process, or on the events of an item, is the guard of the step     *)
(* that follows it.  Item contents (transfers, kernels) are abstracted:    *)
(* the action of an item is the step that completes its done event.       *)
(* clFlush, clFinish, the event calls and the device threads are not in   *)
(* the repository.  clFlush is modelled by what the queue code needs from  *)
(* it: set 'process' and signal cond_process.  clFinish flushes and waits  *)
(* for every command of the queue, as OpenCL specifies.                    *)
(***************************************************************************)
EXTENDS Integers, Sequences, SequencesExt, FiniteSets

CONSTANTS
    Queues,     \* command queues the host may create
    NumCmds,    \* commands the host enqueues, numbered in host order
    MaxWaits,   \* largest event wait list of a command
    NDRanges,   \* <<work_dim, global, local>> arguments of clEnqueueNDRangeKernel
    Nil         \* NULL

\* The item of the k-th command the host enqueues.
Cmd(k) == <<"cmd", k>>

Items == {Cmd(k) : k \in 1 .. NumCmds}

\* The special item clrt_command_queue_free enqueues: data is NULL.
Term(q) == <<"term", q>>

Nodes == Items \cup {Term(q) : q \in Queues}

ASSUME NumCmds \in Nat /\ MaxWaits \in Nat /\ Nil \notin Nodes

VARIABLES
    qst,        \* per queue: "none" (not created), "live", "freed"
    head,       \* queue->head
    tail,       \* queue->tail
    next,       \* item->next
    process,    \* queue->process
    thr,        \* worker thread: "none", "dequeue", "perform", "exited"
    cur,        \* the item the worker performs
    ndr,        \* the <<work_dim, global, local>> of a kernel command, or Nil
    waits,      \* item->wait_events, as the items whose done events they are
    done,       \* the items whose done event is CL_COMPLETE
    flushed,    \* items that were in their queue when it was flushed
    enq,        \* history: the nodes enqueued on each queue, in order
    ndeq,       \* history: how many of them the worker dequeued
    nextCmd,    \* the next command the host enqueues
    hpc,        \* host: "idle", "finish", "finishing", "free", "join"
    hq          \* the queue of the host's blocking call

vars == <<qst, head, tail, next, process, thr, cur, ndr, waits, done, flushed,
          enq, ndeq, nextCmd, hpc, hq>>

TypeOK ==
    /\ qst \in [Queues -> {"none", "live", "freed"}]
    /\ head \in [Queues -> Nodes \cup {Nil}]
    /\ tail \in [Queues -> Nodes \cup {Nil}]
    /\ next \in [Nodes -> Nodes \cup {Nil}]
    /\ process \in [Queues -> BOOLEAN]
    /\ thr \in [Queues -> {"none", "dequeue", "perform", "exited"}]
    /\ cur \in [Queues -> Items \cup {Nil}]
    /\ ndr \in [Items -> NDRanges \cup {Nil}]
    /\ waits \in [Items -> SUBSET Items]
    /\ done \subseteq Items /\ flushed \subseteq Items
    /\ enq \in [Queues -> Seq(Nodes)] /\ ndeq \in [Queues -> Nat]
    /\ nextCmd \in 1 .. NumCmds + 1
    /\ hpc \in {"idle", "finish", "finishing", "free", "join"}
    /\ hq \in Queues \cup {Nil}

Init ==
    /\ qst = [q \in Queues |-> "none"]
    /\ head = [q \in Queues |-> Nil]
    /\ tail = [q \in Queues |-> Nil]
    /\ next = [n \in Nodes |-> Nil]
    /\ process = [q \in Queues |-> FALSE]
    /\ thr = [q \in Queues |-> "none"]
    /\ cur = [q \in Queues |-> Nil]
    /\ ndr = [i \in Items |-> Nil]
    /\ waits = [i \in Items |-> {}]
    /\ done = {} /\ flushed = {}
    /\ enq = [q \in Queues |-> <<>>] /\ ndeq = [q \in Queues |-> 0]
    /\ nextCmd = 1 /\ hpc = "idle" /\ hq = Nil

\* The items walked from queue->head along item->next.
RECURSIVE WalkFrom(_, _)
WalkFrom(n, k) ==
    IF n = Nil \/ k = 0 THEN <<>> ELSE <<n>> \o WalkFrom(next[n], k - 1)

Listed(q) == WalkFrom(head[q], Cardinality(Nodes))

QueueOf(i) == CHOOSE q \in Queues : \E k \in DOMAIN enq[q] : enq[q][k] = i

Enqueued == {Cmd(k) : k \in 1 .. nextCmd - 1}

\* Queue operations.

\* clrt_command_queue_enqueue: link the item after queue->tail, or make it
\* head and tail of an empty queue.
Enqueue(q, n) ==
    /\ IF head[q] = Nil
          THEN /\ head' = [head EXCEPT ![q] = n]
               /\ UNCHANGED next
          ELSE /\ next' = [next EXCEPT ![tail[q]] = n]
               /\ UNCHANGED head
    /\ tail' = [tail EXCEPT ![q] = n]
    /\ enq' = [enq EXCEPT ![q] = Append(@, n)]

\* clFlush: the queue becomes processable and the worker is signalled.
Flush(q) ==
    /\ process' = [process EXCEPT ![q] = TRUE]
    /\ flushed' = flushed \cup (Range(Listed(q)) \cap Items)

\* clCreateCommandQueue: an empty, unprocessable queue and its worker.
CreateCommandQueue(q) ==
    /\ hpc = "idle" /\ qst[q] = "none"
    /\ qst' = [qst EXCEPT ![q] = "live"]
    /\ thr' = [thr EXCEPT ![q] = "dequeue"]
    /\ UNCHANGED <<head, tail, next, process, cur, ndr, waits, done, flushed,
                   enq, ndeq, nextCmd, hpc, hq>>

\* The wait lists a host may pass: events of earlier commands of the same
\* queue, or of commands of another queue that was flushed after them.
WaitLists(q) ==
    {w \in SUBSET Enqueued :
        /\ Cardinality(w) <= MaxWaits
        /\ \A e \in w : QueueOf(e) = q \/ e \in flushed}

\* clrt_queue_item_create followed by clrt_command_queue_enqueue, the common
\* body of every clEnqueue* call; a blocking call then runs clFinish.  The
\* argument checks before it return an error code and change nothing: they
\* are stuttering steps.
EnqueueCommand(q, w, nd, blocking) ==
    /\ hpc = "idle" /\ qst[q] = "live" /\ nextCmd <= NumCmds
    /\ waits' = [waits EXCEPT ![Cmd(nextCmd)] = w]
    /\ ndr' = [ndr EXCEPT ![Cmd(nextCmd)] = nd]
    /\ Enqueue(q, Cmd(nextCmd))
    /\ nextCmd' = nextCmd + 1
    /\ hpc' = IF blocking THEN "finish" ELSE "idle"
    /\ hq' = IF blocking THEN q ELSE Nil
    /\ UNCHANGED <<qst, process, thr, cur, done, flushed, ndeq>>

EnqueueReadBuffer(q, w, blocking) == EnqueueCommand(q, w, Nil, blocking)

EnqueueWriteBuffer(q, w, blocking) == EnqueueCommand(q, w, Nil, blocking)

EnqueueCopyBuffer(q, w) == EnqueueCommand(q, w, Nil, FALSE)

EnqueueMapBuffer(q, w, blocking) == EnqueueCommand(q, w, Nil, blocking)

EnqueueUnmapMemObject(q, w) == EnqueueCommand(q, w, Nil, FALSE)

\* The group_starts table is a function of the arguments: the command
\* keeps them, and GroupStarts computes the table from them.
EnqueueNDRangeKernel(q, w, nd) == EnqueueCommand(q, w, nd, FALSE)

\* clFlush and clFinish called by the application.
HostFlush(q) ==
    /\ hpc = "idle" /\ qst[q] = "live"
    /\ Flush(q)
    /\ UNCHANGED <<qst, head, tail, next, thr, cur, ndr, waits, done, enq, ndeq,
                   nextCmd, hpc, hq>>

HostFinish(q) ==
    /\ hpc = "idle" /\ qst[q] = "live"
    /\ hpc' = "finish" /\ hq' = q
    /\ UNCHANGED <<qst, head, tail, next, process, thr, cur, ndr, waits, done,
                   flushed, enq, ndeq, nextCmd>>

\* clFinish: flush, then wait until every command of the queue completed.
FinishFlush ==
    /\ hpc = "finish"
    /\ Flush(hq)
    /\ hpc' = "finishing"
    /\ UNCHANGED <<qst, head, tail, next, thr, cur, ndr, waits, done, enq, ndeq,
                   nextCmd, hq>>

FinishReturn ==
    /\ hpc = "finishing"
    /\ \A i \in Enqueued : QueueOf(i) = hq => i \in done
    /\ hpc' = "idle" /\ hq' = Nil
    /\ UNCHANGED <<qst, head, tail, next, process, thr, cur, ndr, waits, done,
                   flushed, enq, ndeq, nextCmd>>

\* clReleaseCommandQueue of the last reference (clrt_object_release, not in
\* the repository) calls clrt_command_queue_free:
\* enqueue the termination item, clFlush, join the worker, then destroy.
ReleaseCommandQueue(q) ==
    /\ hpc = "idle" /\ qst[q] = "live"
    /\ Enqueue(q, Term(q))
    /\ hpc' = "free" /\ hq' = q
    /\ UNCHANGED <<qst, process, thr, cur, ndr, waits, done, flushed, ndeq, nextCmd>>

\* Fault variant: the free path joins without clFlush.
FreeFlushMissing ==
    /\ hpc = "free"
    /\ hpc' = "join"
    /\ UNCHANGED <<qst, head, tail, next, process, thr, cur, ndr, waits, done,
                   flushed, enq, ndeq, nextCmd, hq>>

FreeFlush ==
    /\ hpc = "free"
    /\ Flush(hq)
    /\ hpc' = "join"
    /\ UNCHANGED <<qst, head, tail, next, thr, cur, ndr, waits, done, enq, ndeq,
                   nextCmd, hq>>

Join ==
    /\ hpc = "join" /\ thr[hq] = "exited"
    /\ qst' = [qst EXCEPT ![hq] = "freed"]
    /\ hpc' = "idle" /\ hq' = Nil
    /\ UNCHANGED <<head, tail, next, process, thr, cur, ndr, waits, done, flushed,
                   enq, ndeq, nextCmd>>

\* The worker thread, clrt_command_queue_thread_proc.

\* Fault variants of Dequeue: queue->tail is not reset when the tail is
\* taken; 'process' is cleared by every dequeue; the termination item is
\* not recognised.
DequeueTailKept(q) ==
    /\ thr[q] = "dequeue" /\ process[q] /\ head[q] # Nil
    /\ LET n == head[q] IN
       /\ head' = [head EXCEPT ![q] = next[n]]
       /\ IF n = tail[q]
             THEN /\ process' = [process EXCEPT ![q] = FALSE]
                  /\ UNCHANGED tail
             ELSE UNCHANGED <<tail, process>>
       /\ thr' = [thr EXCEPT ![q] = IF n = Term(q) THEN "exited" ELSE "perform"]
       /\ cur' = [cur EXCEPT ![q] = IF n = Term(q) THEN Nil ELSE n]
    /\ ndeq' = [ndeq EXCEPT ![q] = @ + 1]
    /\ UNCHANGED <<qst, next, ndr, waits, done, flushed, enq, nextCmd, hpc, hq>>

DequeueClearsProcess(q) ==
    /\ thr[q] = "dequeue" /\ process[q] /\ head[q] # Nil
    /\ LET n == head[q] IN
       /\ head' = [head EXCEPT ![q] = next[n]]
       /\ tail' = IF n = tail[q] THEN [tail EXCEPT ![q] = Nil] ELSE tail
       /\ process' = [process EXCEPT ![q] = FALSE]
       /\ thr' = [thr EXCEPT ![q] = IF n = Term(q) THEN "exited" ELSE "perform"]
       /\ cur' = [cur EXCEPT ![q] = IF n = Term(q) THEN Nil ELSE n]
    /\ ndeq' = [ndeq EXCEPT ![q] = @ + 1]
    /\ UNCHANGED <<qst, next, ndr, waits, done, flushed, enq, nextCmd, hpc, hq>>

DequeueNoTermCheck(q) ==
    /\ thr[q] = "dequeue" /\ process[q] /\ head[q] # Nil
    /\ LET n == head[q] IN
       /\ head' = [head EXCEPT ![q] = next[n]]
       /\ IF n = tail[q]
             THEN /\ tail' = [tail EXCEPT ![q] = Nil]
                  /\ process' = [process EXCEPT ![q] = FALSE]
             ELSE UNCHANGED <<tail, process>>
       /\ thr' = [thr EXCEPT ![q] = "perform"]
       /\ cur' = [cur EXCEPT ![q] = n]
    /\ ndeq' = [ndeq EXCEPT ![q] = @ + 1]
    /\ UNCHANGED <<qst, next, ndr, waits, done, flushed, enq, nextCmd, hpc, hq>>

\* clrt_command_queue_dequeue: wait until the queue is processable and not
\* empty, unlink the head; taking the tail empties the queue and clears
\* 'process'.  The termination item ends the thread.
Dequeue(q) ==
    /\ thr[q] = "dequeue" /\ process[q] /\ head[q] # Nil
    /\ LET n == head[q] IN
       /\ head' = [head EXCEPT ![q] = next[n]]
       /\ IF n = tail[q]
             THEN /\ tail' = [tail EXCEPT ![q] = Nil]
                  /\ process' = [process EXCEPT ![q] = FALSE]
             ELSE UNCHANGED <<tail, process>>
       /\ thr' = [thr EXCEPT ![q] = IF n = Term(q) THEN "exited" ELSE "perform"]
       /\ cur' = [cur EXCEPT ![q] = IF n = Term(q) THEN Nil ELSE n]
    /\ ndeq' = [ndeq EXCEPT ![q] = @ + 1]
    /\ UNCHANGED <<qst, next, ndr, waits, done, flushed, enq, nextCmd, hpc, hq>>

\* clrt_command_queue_perform_item and clrt_queue_item_free: wait for the
\* events of the wait list, run the action, complete the done event.
Perform(q) ==
    /\ thr[q] = "perform" /\ waits[cur[q]] \subseteq done
    /\ done' = done \cup {cur[q]}
    /\ thr' = [thr EXCEPT ![q] = "dequeue"]
    /\ cur' = [cur EXCEPT ![q] = Nil]
    /\ UNCHANGED <<qst, head, tail, next, process, ndr, waits, flushed, enq, ndeq,
                   nextCmd, hpc, hq>>

\* The application has released every queue it created and exits.
Finished ==
    /\ hpc = "idle" /\ \A q \in Queues : qst[q] # "live"
    /\ UNCHANGED vars

Host ==
    \/ \E q \in Queues :
          \/ CreateCommandQueue(q) \/ HostFlush(q) \/ HostFinish(q)
          \/ ReleaseCommandQueue(q)
          \/ \E w \in WaitLists(q) :
                \/ \E b \in BOOLEAN :
                      EnqueueReadBuffer(q, w, b) \/ EnqueueWriteBuffer(q, w, b)
                      \/ EnqueueMapBuffer(q, w, b)
                \/ EnqueueCopyBuffer(q, w) \/ EnqueueUnmapMemObject(q, w)
                \/ \E nd \in NDRanges : EnqueueNDRangeKernel(q, w, nd)
    \/ FinishFlush \/ FinishReturn \/ FreeFlush \/ Join

Next == Host \/ (\E q \in Queues : Dequeue(q) \/ Perform(q)) \/ Finished

\* The workers are runnable whenever their guard holds and only they falsify
\* it; the host's blocking calls continue once they are unblocked.  The
\* application's own calls get no fairness: it may stop at any point.
Fairness ==
    /\ \A q \in Queues : WF_vars(Dequeue(q)) /\ WF_vars(Perform(q))
    /\ WF_vars(FinishFlush) /\ WF_vars(FinishReturn)
    /\ WF_vars(FreeFlush) /\ WF_vars(Join)

Spec == Init /\ [][Next]_vars /\ Fairness

\* The work-group table of clEnqueueNDRangeKernel, a pure computation.
\* Sizes are triples indexed x, y, z; dimensions from work_dim on are 1.

Padded(dims, v) == [d \in 1 .. 3 |-> IF d <= dims THEN v[d] ELSE 1]

NumGroups(g, l) == [d \in 1 .. 3 |-> g[d] \div l[d]]

\* Fault variant: the row stride of the index uses num_groups[1].
GroupIndexWrongStride(n, i, j, k) == i * n[2] * n[1] + j * n[2] + k

GroupIndex(n, i, j, k) == i * n[2] * n[1] + j * n[1] + k

\* The writes of the triple loop: group index and group start.
GroupStarts(dims, global, local) ==
    LET g == Padded(dims, global)
        l == Padded(dims, local)
        n == NumGroups(g, l)
    IN  {<<GroupIndex(n, i, j, k), <<l[1] * k, l[2] * j, l[3] * i>> >> :
            i \in 0 .. n[3] - 1, j \in 0 .. n[2] - 1, k \in 0 .. n[1] - 1}

\* Properties.

\* The items still to be dequeued from q, in the order they were enqueued.
Pending(q) == SubSeq(enq[q], ndeq[q] + 1, Len(enq[q]))

\* The list of every queue, walked from queue->head, holds exactly the
\* items enqueued and not yet dequeued, in enqueue order, and queue->tail
\* is its last item, NULL exactly when queue->head is: what the tail
\* append of clrt_command_queue_enqueue and the head unlink, tail reset
\* and asserts of clrt_command_queue_dequeue rely on together.
QueueIsFifo ==
    \A q \in Queues :
        /\ Listed(q) = Pending(q)
        /\ tail[q] = IF Pending(q) = <<>> THEN Nil ELSE Last(Pending(q))

\* A command that was in its queue when the queue was flushed (by clFlush,
\* clFinish or the free path) is eventually performed, although the
\* worker clears 'process' whenever it takes the tail and the host may
\* never flush again.
FlushedCommandsComplete ==
    \A i \in Items : i \in flushed ~> i \in done

\* The table clEnqueueNDRangeKernel builds for every kernel the host
\* enqueued has each entry of group_starts written exactly once, for
\* indices 0 .. num_groups - 1, and the starts written are exactly the
\* origins of the work-groups of its work_dim-dimensional NDRange.
GroupStartsExact ==
    \A i \in Enqueued : ndr[i] # Nil =>
        LET dims == ndr[i][1]
            global == ndr[i][2]
            local == ndr[i][3]
            extent(d) == IF d <= dims THEN global[d] \div local[d] ELSE 1
            total == extent(1) * extent(2) * extent(3)
            w == GroupStarts(dims, global, local)
            origin(d) == IF d <= dims
                            THEN {m * local[d] : m \in 0 .. extent(d) - 1}
                            ELSE {0}
        IN  /\ {x[1] : x \in w} = 0 .. total - 1
            /\ Cardinality(w) = total
            /\ {x[2] : x \in w} = origin(1) \X origin(2) \X origin(3)

\* Every blocking call of the host (clFinish, and the pthread_join of
\* clrt_command_queue_free) eventually returns.
HostCallsReturn == hpc # "idle" ~> hpc = "idle"

=============================================================================
