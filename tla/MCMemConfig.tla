----------------------------- MODULE MCMemConfig -----------------------------
(* Model-checking instance of MemConfig: two x86 L1 caches c0 and c1, an    *)
(* L2 c2, two main memories m0 and m1.                                      *)
EXTENDS MemConfig

\* The [Module] sections in file order.
MCModList == <<"m0", "c2", "c0", "c1", "m1">>

\* The links a LowModules list may name, a self-loop among them.
MCLinks == {<<"c0", "c2">>, <<"c1", "c2">>, <<"c1", "c0">>, <<"c0", "m0">>,
            <<"c2", "m0">>, <<"c2", "m1">>, <<"c2", "c2">>}

\* Block sizes: all 64; the L1s 32; m1 32 (smaller than the L2 above it).
MCBlockSizes ==
    { [m \in {"c0", "c1", "c2", "m0", "m1"} |-> 64],
      [m \in {"c0", "c1", "c2", "m0", "m1"} |-> IF m \in {"c0", "c1"} THEN 32 ELSE 64],
      [m \in {"c0", "c1", "c2", "m0", "m1"} |-> IF m = "m1" THEN 32 ELSE 64] }

W(w) == [w |-> w, v |-> 0]
N(v) == [w |-> "num", v |-> v]
Bounds(lo, hi) == <<W("BOUNDS"), N(lo), N(hi)>>
Addr(d, md, eq) == <<W("ADDR"), W("DIV"), N(d), W("MOD"), N(md), W("EQ"), N(eq)>>

\* A section with the default geometry of a 2-set, 2-way cache and a
\* 4-entry, 2-way directory, no partitioning and no AddressRange.
Sect(m, bs) ==
    [type |-> IF m \in {"c0", "c1", "c2"} THEN "Cache" ELSE "MainMemory",
     bsize |-> bs, sets |-> 2, assoc |-> 2, lat |-> 1, dirlat |-> 1, mshr |-> 16,
     ports |-> 2, policy |-> "LRU", part |-> <<>>, dirsize |-> 4, dirassoc |-> 2,
     range |-> <<>>]

\* Changes to the default sections, [module |-> changed fields]: the L2
\* with UCP, Static or FCP partitioning (FCP on plain LRU); pairing under
\* UCP, and Nearest with a non-zero interval; FCP pairing with a negative
\* interval; UCP with an interval of 0; a cache with 3 sets and an <eq> not below <mod>; interleaved
\* main memories; bounded ones, the top bound -1; bounds both negative and
\* an L1 interleaved every 32 bytes; a high bound that is not a block end.
MCVariants ==
    { <<>>,
      [c2 |-> [policy |-> "PLRU", part |-> <<W("UCP")>>]],
      [c2 |-> [policy |-> "PLRU", part |-> <<W("Static")>>]],
      [c2 |-> [policy |-> "LRU", part |-> <<W("FCP")>>]],
      [c2 |-> [policy |-> "PLRU", part |-> <<W("UCP"), N(1000), W("Cycles"), W("MinMax")>>],
       c1 |-> [part |-> <<W("FCP"), N(1000), W("Cycles"), W("Nearest"), N(2)>>]],
      [c2 |-> [policy |-> "PLRU", part |-> <<W("FCP"), N(-5), W("Evictions"), W("MinMax"), N(2)>>]],
      [c2 |-> [policy |-> "PLRU", part |-> <<W("UCP"), N(0), W("Instructions")>>]],
      [c1 |-> [sets |-> 3], m1 |-> [range |-> Addr(64, 2, 2)]],
      [m0 |-> [range |-> Addr(64, 2, 0)], m1 |-> [range |-> Addr(64, 2, 1)]],
      [m0 |-> [range |-> Bounds(0, 63)], m1 |-> [range |-> Bounds(64, -1)]],
      [m1 |-> [range |-> Bounds(-64, -1)], c0 |-> [range |-> Addr(32, 2, 1)]],
      [m0 |-> [range |-> Bounds(0, 47)]] }

Changed(v, m) == IF m \in DOMAIN v THEN v[m] ELSE <<>>

\* The [Module] sections of the files: a block-size assignment with a
\* variant applied.
MCSections ==
    { [m \in {"c0", "c1", "c2", "m0", "m1"} |->
          [f \in DOMAIN Sect(m, b[m]) |->
              IF f \in DOMAIN Changed(v, m) THEN Changed(v, m)[f] ELSE Sect(m, b[m])[f]]] :
        b \in MCBlockSizes, v \in MCVariants }

E(d, i) == [data |-> d, inst |-> i]

\* Both threads on c0; one thread per L1; thread 0 split over both L1s.
MCEntries ==
    { [t \in {0, 1} |-> E("c0", "c0")],
      [t \in {0, 1} |-> IF t = 0 THEN E("c0", "c0") ELSE E("c1", "c1")],
      [t \in {0, 1} |-> IF t = 0 THEN E("c0", "c1") ELSE E("c1", "c1")] }

MCGpuEntries == { {}, {"c1"} }


\* Networks.  The empty name, and the NULL net pointer.
MCNoNet == ""

MCPorts == {"c0", "c1", "c2", "m0", "m1"} \X {"high", "low"}

\* The LowNetwork of the upper module and the HighNetwork of the lower one
\* must be one network for every link.
Adjacent(L, p, q) ==
    \/ p[2] = "low" /\ q[2] = "high" /\ <<p[1], q[1]>> \in L
    \/ p[2] = "high" /\ q[2] = "low" /\ <<q[1], p[1]>> \in L

RECURSIVE Grow(_, _)
Grow(L, S) ==
    LET n == S \cup {q \in MCPorts : \E p \in S : Adjacent(L, p, q)}
    IN  IF n = S THEN S ELSE Grow(L, n)

Linked(L, p) == \E q \in MCPorts : Adjacent(L, p, q)

\* The network of a linked port is named after the first module, in the
\* order below, whose HighNetwork it is.
MCOrder == <<"c0", "c1", "c2", "m0", "m1">>

NetOf(L, p) ==
    IF Linked(L, p)
    THEN LET ports == Grow(L, {p})
             i == CHOOSE i \in 1 .. 5 : /\ <<MCOrder[i], "high">> \in ports
                                       /\ \A j \in 1 .. i - 1 : <<MCOrder[j], "high">> \notin ports
         IN  "net_" \o MCOrder[i]
    ELSE MCNoNet

Buf(in, bw) == [in |-> in, out |-> 72, bw |-> bw]

\* The file that joins every linked port to the network of its links,
\* buffers of 72 bytes (a 64-byte block and its header).
Canonical(L) ==
    LET nets == {NetOf(L, p) : p \in MCPorts} \ {MCNoNet}
    IN  [nets |-> SetToSeq(nets), buf |-> [n \in nets |-> Buf(72, 1)],
         at |-> [p \in MCPorts |-> NetOf(L, p)], node |-> {}]

\* No module is in one network through both ports.
Consistent(L) ==
    \A m \in {"c0", "c1", "c2", "m0", "m1"} :
        NetOf(L, <<m, "high">>) = MCNoNet \/ NetOf(L, <<m, "high">>) # NetOf(L, <<m, "low">>)

\* A file for links no file can route: every linked port in a network of
\* its own.
Fallback(L) ==
    LET Own(p) == p[2] \o "_" \o p[1]
        nets == {Own(p) : p \in {q \in MCPorts : Linked(L, q)}}
    IN  [nets |-> SetToSeq(nets), buf |-> [n \in nets |-> Buf(72, 1)],
         at |-> [p \in MCPorts |-> IF Linked(L, p) THEN Own(p) ELSE MCNoNet], node |-> {}]

\* The two-level hierarchy: both L1s under c2, c2 over both memories.
Std == {<<"c0", "c2">>, <<"c1", "c2">>, <<"c2", "m0">>, <<"c2", "m1">>}

Spare == "spare"

\* Faulty files for it: no network at all; input buffers missing; an
\* unused network without input buffer size, or without bandwidth; an
\* undeclared network name; a node name in an internal network; c2 in one
\* network through both ports; every port in a network of its own.
Faults ==
    LET C == Canonical(Std)
    IN  { [C EXCEPT !.nets = <<>>, !.buf = [n \in {} |-> Buf(0, 0)],
                    !.at = [p \in MCPorts |-> MCNoNet]],
          [C EXCEPT !.buf = [n \in DOMAIN C.buf |-> Buf(0, 1)]],
          [C EXCEPT !.nets = Append(@, Spare), !.buf = @ @@ (Spare :> Buf(0, 1))],
          [C EXCEPT !.nets = Append(@, Spare), !.buf = @ @@ (Spare :> Buf(72, 0))],
          [C EXCEPT !.at[<<"c0", "low">>] = "ext"],
          [C EXCEPT !.node = {<<"c2", "low">>}],
          [C EXCEPT !.at[<<"c2", "low">>] = C.at[<<"c2", "high">>]],
          Fallback(Std) }

MCNetPlans(L) ==
    IF ~Consistent(L) THEN {Fallback(L)}
    ELSE {Canonical(L)} \cup (IF L = Std THEN Faults ELSE {})

=============================================================================
