------------------------------- MODULE Network -------------------------------
(***************************************************************************)
(* Fragment transfer through the buffers of an interconnect                *)
(* (src/src/network/message.c and buffer.c).  A message is cut into       *)
(* fragments (net_msg_create); every fragment carries its own event stack *)
(* through EV_NET_SEND, EV_NET_OUTPUT_BUFFER, EV_NET_INPUT_BUFFER and     *)
(* EV_NET_RECEIVE (net_event_handler).  Buffers keep the fragment list,   *)
(* the message list, the byte count, read/write busy times and a wakeup   *)
(* list (net_buffer_insert, _extract, _wait, _wakeup).                     *)
(*                                                                         *)
(* Time is the esim cycle: an event is due when its delay is 0, and Tick  *)
(* advances the cycle once every due event has run.  Busy times are kept  *)
(* relative to the current cycle: busy >= cycle is a positive value, and  *)
(* busy = cycle + lat - 1 is the value lat.  Links have one virtual       *)
(* channel (no link arbitrator).  One bus connects some output buffers to *)
(* the input buffers of the next nodes; its lanes are shared.  Routing     *)
(* tables, the switch scheduler and the bus arbiter are outside the        *)
(* repository and are constants and fair choices.                          *)
(***************************************************************************)
EXTENDS Integers, Sequences, SequencesExt, FiniteSets

CONSTANTS
    Nodes, Buffers,
    BufNode,     \* buffer->node
    BufSize,     \* buffer->size
    LinkDst,     \* output buffer -> link->dst_buffer (one link per buffer);
                 \* for a bus buffer, the input buffer of bus_node's
                 \* dst_buffer_list at the route's next node
    LinkBw,      \* link->bandwidth
    BusBufs,     \* the output buffers of kind net_buffer_bus
    Lanes,       \* the lanes of the bus
    BusBw,       \* bus->bandwidth
    NodeBw,      \* node->bandwidth of switches
    Route,       \* <<node, dst>> -> entry->output_buffer
    Msgs, MsgSrc, MsgDst, MsgSize,
    Switching,   \* net->switching: "SAF" or "VCT"
    DefBw,       \* net->def_bandwidth
    Nil

OutBuffers == DOMAIN LinkDst

\* The fatal "message does not fit in buffer" of the handler is a
\* configuration error; every configuration checked satisfies this.
ASSUME /\ Switching \in {"SAF", "VCT"} /\ BusBufs \subseteq OutBuffers
       /\ \A m \in Msgs, b \in Buffers : 1 <= MsgSize[m] /\ MsgSize[m] <= BufSize[b]

(* net_msg_create: SAF sends one fragment; VCT cuts the message into      *)
(* (size-1)/bw+1 fragments of def_bandwidth bytes, the last one holding   *)
(* the remainder.                                                          *)
NumFrags(m) == IF Switching = "SAF" THEN 1 ELSE (MsgSize[m] - 1) \div DefBw + 1

FragSize(f) ==
    LET m == f[1]  r == MsgSize[m] % DefBw
    IN  CASE Switching = "SAF"          -> MsgSize[m]
          [] f[2] < NumFrags(m) - 1      -> DefBw
          [] OTHER                       -> IF r # 0 THEN r ELSE DefBw

Frags == UNION {{<<m, i>> : i \in 0 .. NumFrags(m) - 1} : m \in Msgs}

LastFrag(m) == <<m, NumFrags(m) - 1>>

Events == {"none", "send", "obuf", "ibuf", "recv"}

VARIABLES
    msg,    \* per message: st (idle, sent, returned, done), arrived
    fr,     \* per fragment stack: ev, dl (delay), wt (wakeup list), at, busy
    bufs,   \* per buffer: frags, msgs, count, rbusy, wbusy
    lanes   \* bus->busy of every lane, relative to the cycle

vars == <<msg, fr, bufs, lanes>>

MaxLat == 8

TypeOK ==
    /\ msg \in [Msgs -> [st : {"idle", "sent", "returned", "done"},
                         arrived : 0 .. MaxLat]]
    /\ \A m \in Msgs : msg[m].arrived <= NumFrags(m)
    /\ fr \in [Frags -> [ev : Events, dl : 0 .. MaxLat, wt : Buffers \cup {Nil},
                         at : Buffers \cup {Nil}, busy : 0 .. MaxLat]]
    /\ \A b \in Buffers :
         /\ bufs[b].frags \in Seq(Frags) /\ bufs[b].msgs \in Seq(Msgs)
         /\ bufs[b].count \in Nat
         /\ bufs[b].rbusy \in 0 .. MaxLat /\ bufs[b].wbusy \in 0 .. MaxLat
    /\ lanes \in [Lanes -> 0 .. MaxLat]

Init ==
    /\ msg = [m \in Msgs |-> [st |-> "idle", arrived |-> 0]]
    /\ fr = [f \in Frags |-> [ev |-> "none", dl |-> 0, wt |-> Nil, at |-> Nil, busy |-> 0]]
    /\ bufs = [b \in Buffers |-> [frags |-> <<>>, msgs |-> <<>>, count |-> 0,
                                  rbusy |-> 0, wbusy |-> 0]]
    /\ lanes = [l \in Lanes |-> 0]

Pending(f) == fr[f].ev # "none" /\ fr[f].wt = Nil
Due(f) == Pending(f) /\ fr[f].dl = 0

-----------------------------------------------------------------------------
(* buffer.c                                                                 *)

\* Fault variant: the message joins msg_list with every fragment.
InsertEveryFrag(bs, b, f) ==
    [bs EXCEPT ![b].count = @ + FragSize(f),
               ![b].frags = Append(@, f),
               ![b].msgs  = Append(@, f[1])]

\* net_buffer_insert: the message joins msg_list with its header fragment.
Insert(bs, b, f) ==
    [bs EXCEPT ![b].count = @ + FragSize(f),
               ![b].frags = Append(@, f),
               ![b].msgs  = IF f[2] = 0 THEN Append(@, f[1]) ELSE @]

\* net_buffer_extract: the message leaves msg_list with its last fragment.
Extract(bs, b, f) ==
    [bs EXCEPT ![b].count = @ - FragSize(f),
               ![b].frags = RemoveFirst(@, f),
               ![b].msgs  = IF f = LastFrag(f[1]) THEN RemoveFirst(@, f[1]) ELSE @]

WakeupNone(frs, b) == frs

\* net_buffer_wakeup: every waiter of b is scheduled with delay 0.
Wakeup(frs, b) ==
    [g \in Frags |-> IF frs[g].wt = b THEN [frs[g] EXCEPT !.wt = Nil, !.dl = 0]
                     ELSE frs[g]]

\* net_buffer_wait: the stack joins the wakeup list of b.
Wait(f, b) ==
    /\ fr' = [fr EXCEPT ![f].wt = b]
    /\ UNCHANGED <<msg, bufs, lanes>>

\* esim_schedule_event(event, stack, d) for a stalled fragment.
Retry(f, d) ==
    /\ fr' = [fr EXCEPT ![f].dl = d]
    /\ UNCHANGED <<msg, bufs, lanes>>

\* Fault variant of NotHead: only an empty buffer stalls the fragment.
NotHeadEmptyOnly(b, f) == bufs[b].frags = <<>>

\* "list_get(buffer->frag_list, 0) != frag": f is not at the head of b.
NotHead(b, f) == bufs[b].frags = <<>> \/ Head(bufs[b].frags) # f

Lat(f, bw) == (FragSize(f) - 1) \div bw + 1

\* Move f from buffer b to buffer nb: extract (waking b's waiters), insert,
\* occupy b for reading and nb for writing, schedule next event after lat.
Transfer(f, b, nb, lat, next) ==
    /\ bufs' = [Insert(Extract(bufs, b, f), nb, f) EXCEPT
                    ![b].rbusy = lat, ![nb].wbusy = lat]
    /\ fr' = [Wakeup(fr, b) EXCEPT ![f] = [@ EXCEPT !.at = nb, !.busy = lat,
                                                    !.ev = next, !.dl = lat]]
    /\ UNCHANGED msg
-----------------------------------------------------------------------------
(* net_event_handler                                                        *)

OutBuf(f) == Route[<<MsgSrc[f[1]], MsgDst[f[1]]>>]

\* The checks of EV_NET_SEND that panic with net_err_can_send.
SendChecks(f) ==
    LET ob == OutBuf(f)
    IN  /\ bufs[ob].wbusy = 0
        /\ MsgSize[f[1]] <= BufSize[ob]
        /\ bufs[ob].count + FragSize(f) <= BufSize[ob]

\* EV_NET_SEND: insert in the output buffer (1 cycle latency), schedule
\* EV_NET_OUTPUT_BUFFER and the send of the next fragment one cycle later.
SendFrag(f) ==
    LET ob == OutBuf(f)
        fr1 == [fr EXCEPT ![f] = [@ EXCEPT !.at = ob, !.busy = 1, !.ev = "obuf", !.dl = 1]]
    IN  /\ bufs' = [Insert(bufs, ob, f) EXCEPT ![ob].wbusy = 1]
        /\ fr' = IF f[2] < NumFrags(f[1]) - 1
                 THEN [fr1 EXCEPT ![<<f[1], f[2] + 1>>] = [@ EXCEPT !.ev = "send", !.dl = 1]]
                 ELSE fr1
        /\ UNCHANGED lanes

\* The caller checks that the message can be sent (the conditions the
\* handler panics on) and creates it; its EV_NET_SEND runs with delay 0.
Inject(m) ==
    /\ msg[m].st = "idle"
    /\ SendChecks(<<m, 0>>)
    /\ msg' = [msg EXCEPT ![m].st = "sent"]
    /\ SendFrag(<<m, 0>>)

\* EV_NET_SEND of a later fragment; if a check fails the handler panics,
\* which the model shows as an event that can never run.
Send(f) ==
    /\ Due(f) /\ fr[f].ev = "send"
    /\ SendChecks(f)
    /\ SendFrag(f)
    /\ UNCHANGED msg

\* The link branch of EV_NET_OUTPUT_BUFFER.  With one virtual channel the
\* link is used by this buffer only: link->busy and the write_busy of the
\* link's destination buffer are set only here, to the value read_busy
\* gets, so their stalls are the read_busy stall.
LinkOutput(f, b) ==
    LET ib == LinkDst[b]
    IN  \/ bufs[ib].count + FragSize(f) > BufSize[ib] /\ Wait(f, ib)
        \/ bufs[ib].count + FragSize(f) <= BufSize[ib] /\ fr[f].busy = 0
           /\ Transfer(f, b, ib, Lat(f, LinkBw), "ibuf") /\ UNCHANGED lanes

\* Another output buffer of the bus whose head fragment asks for a lane:
\* the arbiter may give the bus to it in this cycle.
BusCompeting(b) ==
    \E b2 \in BusBufs \ {b} :
        bufs[b2].frags # <<>> /\ fr[Head(bufs[b2].frags)].ev = "obuf"

\* net_bus_arbitration returns a lane free in this cycle; the fragment
\* takes it, and the lane, the buffer's read side and the input buffer's
\* write side stay busy for the transfer latency over bus->bandwidth.
BusTransfer(f) ==
    LET b == fr[f].at  ib == LinkDst[b]  lat == Lat(f, BusBw)
    IN  /\ Due(f) /\ fr[f].ev = "obuf" /\ b \in BusBufs
        /\ ~NotHead(b, f) /\ bufs[b].rbusy = 0 /\ bufs[ib].wbusy = 0
        /\ bufs[ib].count + FragSize(f) <= BufSize[ib] /\ fr[f].busy = 0
        /\ \E l \in Lanes : /\ lanes[l] = 0
                             /\ Transfer(f, b, ib, lat, "ibuf")
                             /\ lanes' = [lanes EXCEPT ![l] = lat]

\* The bus branch: wait for the input buffer's write side, for room in it,
\* and for a lane; the arbiter returns NULL when every lane is busy or
\* another buffer of the bus wins, and the fragment retries next cycle.
BusOutput(f, b) ==
    LET ib == LinkDst[b]
    IN  \/ bufs[ib].wbusy > 0 /\ Retry(f, bufs[ib].wbusy)
        \/ bufs[ib].wbusy = 0 /\ bufs[ib].count + FragSize(f) > BufSize[ib]
           /\ Wait(f, ib)
        \/ bufs[ib].wbusy = 0 /\ bufs[ib].count + FragSize(f) <= BufSize[ib]
           /\ ((\A l \in Lanes : lanes[l] > 0) \/ BusCompeting(b)) /\ Retry(f, 1)
        \/ BusTransfer(f)

\* EV_NET_OUTPUT_BUFFER: wait to be at the head of the buffer and for its
\* read side, then take the link or the bus branch.
OutputBuffer(f) ==
    LET b == fr[f].at
    IN  /\ Due(f) /\ fr[f].ev = "obuf"
        /\ \/ NotHead(b, f) /\ Wait(f, b)
           \/ ~NotHead(b, f) /\ bufs[b].rbusy > 0 /\ Retry(f, bufs[b].rbusy)
           \/ ~NotHead(b, f) /\ bufs[b].rbusy = 0 /\ b \notin BusBufs
              /\ LinkOutput(f, b)
           \/ ~NotHead(b, f) /\ bufs[b].rbusy = 0 /\ b \in BusBufs
              /\ BusOutput(f, b)

\* Another input buffer of node n whose head fragment is routed to ob:
\* net_node_schedule may give ob to it instead.
Competing(n, ob, b) ==
    \E b2 \in Buffers \ (OutBuffers \cup {b}) :
        /\ BufNode[b2] = n /\ bufs[b2].frags # <<>>
        /\ Route[<<n, MsgDst[Head(bufs[b2].frags)[1]]>>] = ob

InputBufferMoveNoFullCheck(f) ==
    LET b == fr[f].at  n == BufNode[b]  ob == Route[<<n, MsgDst[f[1]]>>]
    IN  /\ Due(f) /\ fr[f].ev = "ibuf" /\ n # MsgDst[f[1]]
        /\ ~NotHead(b, f) /\ bufs[b].rbusy = 0 /\ bufs[ob].wbusy = 0
        /\ fr[f].busy = 0
        /\ Transfer(f, b, ob, Lat(f, NodeBw), "obuf")
        /\ UNCHANGED lanes

\* The transfer of EV_NET_INPUT_BUFFER to the next output buffer.
InputBufferMove(f) ==
    LET b == fr[f].at  n == BufNode[b]  ob == Route[<<n, MsgDst[f[1]]>>]
    IN  /\ Due(f) /\ fr[f].ev = "ibuf" /\ n # MsgDst[f[1]]
        /\ ~NotHead(b, f) /\ bufs[b].rbusy = 0 /\ bufs[ob].wbusy = 0
        /\ bufs[ob].count + FragSize(f) <= BufSize[ob] /\ fr[f].busy = 0
        /\ Transfer(f, b, ob, Lat(f, NodeBw), "obuf")
        /\ UNCHANGED lanes

\* EV_NET_INPUT_BUFFER: at the destination node go to EV_NET_RECEIVE;
\* otherwise wait to be at the head, for the input and output buffers and
\* for the node scheduler, then move to the output buffer of the route.
InputBuffer(f) ==
    LET b == fr[f].at  n == BufNode[b]  ob == Route[<<n, MsgDst[f[1]]>>]
    IN  /\ Due(f) /\ fr[f].ev = "ibuf"
        /\ \/ n = MsgDst[f[1]] /\ fr' = [fr EXCEPT ![f].ev = "recv"]
              /\ UNCHANGED <<msg, bufs, lanes>>
           \/ n # MsgDst[f[1]] /\ NotHead(b, f) /\ Wait(f, b)
           \/ n # MsgDst[f[1]] /\ ~NotHead(b, f) /\ bufs[b].rbusy > 0
              /\ Retry(f, bufs[b].rbusy)
           \/ n # MsgDst[f[1]] /\ ~NotHead(b, f) /\ bufs[b].rbusy = 0
              /\ bufs[ob].wbusy > 0 /\ Retry(f, bufs[ob].wbusy)
           \/ n # MsgDst[f[1]] /\ ~NotHead(b, f) /\ bufs[b].rbusy = 0
              /\ bufs[ob].wbusy = 0 /\ bufs[ob].count + FragSize(f) > BufSize[ob]
              /\ Wait(f, ob)
           \/ n # MsgDst[f[1]] /\ ~NotHead(b, f) /\ bufs[b].rbusy = 0
              /\ bufs[ob].wbusy = 0 /\ bufs[ob].count + FragSize(f) <= BufSize[ob]
              /\ Competing(n, ob, b) /\ Retry(f, 1)
           \/ InputBufferMove(f)

\* A fragment of m is counted as arrived; with the last one the stack takes
\* the message's return event and net_stack_return schedules it with no
\* delay, so m is returned until its receiver runs.
Arrive(m) ==
    [msg EXCEPT ![m].arrived = @ + 1,
                ![m].st = IF msg[m].arrived + 1 = NumFrags(m) THEN "returned" ELSE @]

\* Fault variant of Receive: the fragment keeps its pending event.
ReceiveStackKept(f) ==
    /\ Due(f) /\ fr[f].ev = "recv"
    /\ msg' = Arrive(f[1])
    /\ UNCHANGED <<fr, bufs, lanes>>

\* EV_NET_RECEIVE: net_receive_frag counts the fragment as arrived (it
\* stays in the input buffer, message.h); when all fragments have arrived
\* the stack returns to the sender's event, otherwise it is freed.
Receive(f) ==
    /\ Due(f) /\ fr[f].ev = "recv"
    /\ msg' = Arrive(f[1])
    /\ fr' = [fr EXCEPT ![f].ev = "none"]
    /\ UNCHANGED <<bufs, lanes>>

\* The receiver of a returned message extracts all its fragments from the
\* destination input buffer, waking the waiters of that buffer.
Consume(m) ==
    LET b == fr[<<m, 0>>].at
        fs == [i \in 1 .. NumFrags(m) |-> <<m, i - 1>>]
    IN  /\ msg[m].st = "returned"
        /\ msg' = [msg EXCEPT ![m].st = "done"]
        /\ bufs' = FoldLeft(LAMBDA bs, f : Extract(bs, b, f), bufs, fs)
        /\ fr' = [g \in Frags |-> IF g[1] = m THEN [Wakeup(fr, b)[g] EXCEPT !.at = Nil]
                                  ELSE Wakeup(fr, b)[g]]
        /\ UNCHANGED lanes

Dec(x) == IF x > 0 THEN x - 1 ELSE 0

\* The esim cycle advances once no event of this cycle is left.
Tick ==
    /\ \A f \in Frags : ~Due(f)
    /\ \/ \E f \in Frags : Pending(f) \/ fr[f].busy > 0
       \/ \E b \in Buffers : bufs[b].rbusy > 0 \/ bufs[b].wbusy > 0
       \/ \E l \in Lanes : lanes[l] > 0
    /\ fr' = [f \in Frags |-> [fr[f] EXCEPT !.dl = IF Pending(f) THEN @ - 1 ELSE @,
                                            !.busy = Dec(@)]]
    /\ bufs' = [b \in Buffers |-> [bufs[b] EXCEPT !.rbusy = Dec(@), !.wbusy = Dec(@)]]
    /\ lanes' = [l \in Lanes |-> Dec(lanes[l])]
    /\ UNCHANGED msg

\* Every message has been consumed: the network is idle.
Idle ==
    /\ \A m \in Msgs : msg[m].st = "done"
    /\ UNCHANGED vars

Step(f) == Send(f) \/ OutputBuffer(f) \/ InputBuffer(f) \/ Receive(f)

Next ==
    \/ \E m \in Msgs : Inject(m) \/ Consume(m)
    \/ \E f \in Frags : Step(f)
    \/ Tick
    \/ Idle

\* esim runs every due event before the cycle ends, the caller consumes a
\* returned message, and net_node_schedule is round-robin (node.c), so a
\* fragment that keeps asking for an output buffer eventually gets it.
\* net_bus_arbitration (bus.c, not in the repository) is assumed to serve
\* in turn the buffers that keep asking for a lane.
Fairness ==
    /\ WF_vars(Tick)
    /\ \A f \in Frags : /\ WF_vars(Step(f))
                         /\ SF_vars(InputBufferMove(f)) /\ SF_vars(BusTransfer(f))
    /\ \A m \in Msgs : WF_vars(Consume(m))

Spec == Init /\ [][Next]_vars /\ Fairness
-----------------------------------------------------------------------------
(* Properties                                                               *)

\* The buffers a message of m crosses: output buffer, link, input buffer,
\* and on through the routes of the nodes it reaches, until its destination.
RECURSIVE PathFrom(_, _, _)
PathFrom(ob, d, k) ==
    LET ib == LinkDst[ob]
    IN  <<ob, ib>> \o (IF BufNode[ib] = d \/ k = 0 THEN <<>>
                       ELSE PathFrom(Route[<<BufNode[ib], d>>], d, k - 1))

PathOf == [m \in Msgs |-> PathFrom(Route[<<MsgSrc[m], MsgDst[m]>>], MsgDst[m],
                                    Cardinality(Buffers))]

Index(s, x) == IF x \in ToSet(s) THEN CHOOSE i \in 1 .. Len(s) : s[i] = x ELSE 0

\* How far fragment f has come: 0 before it is sent, its buffer's place on
\* the path while in the network, past the end once consumed.
Pos(f) ==
    IF msg[f[1]].st = "done" THEN Len(PathOf[f[1]]) + 1 ELSE Index(PathOf[f[1]], fr[f].at)

Occurrences(s, x) == Len(SelectSeq(s, LAMBDA y : y = x))

\* The byte count of every buffer is the size of the fragments in it and
\* never exceeds the buffer: the stalls of the handler keep
\* net_buffer_insert from panicking with "not enough space in buffer".
Occupancy ==
    \A b \in Buffers :
        /\ bufs[b].count = FoldLeft(LAMBDA a, f : a + FragSize(f), 0, bufs[b].frags)
        /\ bufs[b].count <= BufSize[b]

\* The lists of every buffer agree with where the fragments are: frag_list
\* holds exactly the fragments whose frag->buffer is the buffer, and
\* msg_list holds a message once from the moment its header fragment
\* entered the buffer until its last fragment left it, so
\* net_buffer_extract never panics with "message is not in buffer".
BufferListsAgree ==
    \A b \in Buffers :
        /\ ToSet(bufs[b].frags) = {f \in Frags : fr[f].at = b}
        /\ \A m \in Msgs :
             LET i == Index(PathOf[m], b)
             IN  Occurrences(bufs[b].msgs, m) =
                    IF i > 0 /\ Pos(<<m, 0>>) >= i /\ Pos(LastFrag(m)) <= i THEN 1 ELSE 0

\* The fragments of a message never overtake one another: along the path
\* and, in a shared buffer, in frag_list.  The head-of-buffer stalls of the
\* handler keep this order, on which msg_list bookkeeping relies.
FragmentsInOrder ==
    \A f \in Frags :
        LET g == <<f[1], f[2] + 1>>
        IN  g \in Frags =>
              /\ Pos(f) >= Pos(g)
              /\ fr[f].at = fr[g].at /\ fr[f].at # Nil =>
                    Index(bufs[fr[f].at].frags, f) < Index(bufs[fr[f].at].frags, g)

\* Every message sent is eventually returned to the sender's event: no
\* fragment waits forever in a wakeup list or behind a busy resource.
EveryMessageReturned ==
    \A m \in Msgs : msg[m].st = "sent" ~> msg[m].st = "returned"

=============================================================================
