------------------------------ MODULE MemConfig ------------------------------
(***************************************************************************)
(* The hierarchy set-up of mem_config_read (src/src/mem-system/config.c)   *)
(* after the configuration file has been parsed.                           *)
(*                                                                         *)
(* The parsed file is the record conf, chosen at Init among the            *)
(* configurations the constants allow: which modules each cache lists in   *)
(* LowModules, the block sizes, the [Entry] sections of the x86 threads    *)
(* (data_mod, inst_mod) and of the Southern Islands GPU, and the          *)
(* replacement and partitioning policy of every cache.  From there the     *)
(* program runs the phases of mem_config_read in order; pc names the next *)
(* one.  A phase whose code recurses is one action, with the recursion as  *)
(* a RECURSIVE operator; the two worklist loops take one action per pop,   *)
(* so the stack is part of the state.                                      *)
(*                                                                         *)
(* A fatal() ends the program with a message (pc = "fatal"); a failed     *)
(* assert() aborts it (pc = "abort"); failure keeps the phase.           *)
(***************************************************************************)
EXTENDS Integers, Sequences, FiniteSets, SequencesExt, Graphs, Bitwise

CONSTANTS
    Mods,          \* the modules; mem_system->mod_list is ModList
    ModList,       \* mem_system->mod_list, the order of the [Module] sections
    Caches,        \* the modules of kind mod_kind_cache; the others are main memories
    Links,         \* the <<module, low module>> pairs a LowModules list may name
    SectionChoices, \* the [Module] sections the files give, [Mods -> Section]
    AddrBits,      \* the width of unsigned int (32 in the build)
    Threads,       \* x86 threads, flattened core * x86_cpu_num_threads + thread
    EntryChoices,  \* the x86 [Entry] sections: [Threads -> [data : Mods, inst : Mods]]
    GpuEntryChoices, \* the entry modules of the Southern Islands compute units
    MaxLevels,     \* MEM_SYSTEM_MAX_LEVELS
    Fused,         \* si_gpu_fused_device
    NetPlans(_),   \* the network settings a file may give for a set of links
    NoNet          \* an empty network name, and a NULL net pointer

ASSUME /\ Caches \subseteq Mods
       /\ ModList \in Seq(Mods) /\ Len(ModList) = Cardinality(Mods)
       /\ Links \subseteq Caches \X Mods
       /\ MaxLevels \in Nat \ {0}
       /\ Fused \in BOOLEAN

MainMemories == Mods \ Caches

\* struct arch_t: the architectures with entries to the memory hierarchy,
\* in the order arch_for_each visits them.
NoArch == "none"
ArchList == <<"x86", "si">>

\* The names of cache_policy_map (cache.c), cache_partitioning_policy_map
\* and thread_pairing_policy_map (cache-partitioning.c) and interval_kind_map.
CachePolicies == {"LRU", "FIFO", "Random", "PLRU"}
PartPolicies == {"None", "Static", "UCP", "FCP"}
PairPolicies == {"None", "Nearest", "Random", "MinMax", "Sec", "Mix"}
IntervalKinds == {"Cycles", "Instructions", "Evictions"}

Phases == {"modules", "low_modules", "switches", "routes", "disjoint", "sub_blocks", "levels", "threads",
           "main_memory", "mod_reachability", "atds", "partitioning",
           "done", "fatal", "abort", "crash"}

VARIABLES
    conf,          \* the parsed file (constant after Init)
    pc,            \* the next phase of mem_config_read
    failure,       \* the phase in which fatal() or a failed assert() stopped it
    arch,          \* mod->arch
    subBlock,      \* mod->sub_block_size
    level,         \* mod->level
    maxLevel,      \* max_mod_level
    reachThreads,  \* the threads t with mod->reachable_threads[t] set
    reachMM,       \* mod->reachable_mm_modules, as a set (no duplicates)
    stack,         \* the worklist of the phase running, list_pop takes the last
    perLevel,      \* perLevel[t][l] = thread t's reachable_modules_per_level[l]
    atd,           \* the <<mod, thread>> pairs with an atd_per_thread
    range,         \* mod->range_kind and mod->range
    highNet,       \* mod->high_net (NoNet: NULL)
    lowNet         \* mod->low_net (NoNet: NULL)

vars == <<conf, pc, failure, arch, subBlock, level, maxLevel, reachThreads,
          reachMM, stack, perLevel, atd, range, highNet, lowNet>>

Addrs == 0 .. 2 ^ AddrBits - 1

\* A module's two network ports: HighNetwork and LowNetwork.
Ports == Mods \X {"high", "low"}

\* The network part of the file conf, a record of NetPlans(conf.low):
\* nets, the [Network] sections in file order; buf[n], their
\* DefaultInputBufferSize, DefaultOutputBufferSize and DefaultBandwidth
\* (0 when missing, the default config_read_int is given); at[p], the
\* network the port's variable names (NoNet when empty); node, the ports
\* whose HighNetworkNode or LowNetworkNode is not empty.

\* mem_config_read_networks: one net_t per [Network] section.
InternalNets == Range(conf.net.nets)

TypeOK ==
    /\ conf.low \subseteq Links /\ conf.net.nets \in Seq(InternalNets)
    /\ pc \in Phases
    /\ arch \in [Mods -> {NoArch} \cup Range(ArchList)]
    /\ subBlock \in [Mods -> Nat]
    /\ level \in [Mods -> Nat] /\ maxLevel \in Nat
    /\ reachThreads \in [Mods -> SUBSET Threads]
    /\ reachMM \in [Mods -> SUBSET MainMemories]
    /\ stack \in Seq(Mods)
    /\ atd \subseteq Mods \X Threads
    /\ range \in [Mods -> {<<>>} \cup [kind : {"bounds"}, low : Addrs, high : Addrs]
                          \cup [kind : {"interleaved"}, div : Addrs, mod : Addrs, eq : Addrs]]
    /\ highNet \in [Mods -> {NoNet} \cup InternalNets]
    /\ lowNet \in [Mods -> {NoNet} \cup InternalNets]

-----------------------------------------------------------------------------
\* Reading the [Module] sections.  A section is a record: Type, the
\* geometry variables (of its CacheGeometry section for a cache), Policy,
\* the Partitioning tokens, and the AddressRange tokens.  A token is a word
\* (w = "BOUNDS", "ADDR", "DIV", "MOD", "EQ", a map name, or "bad" for
\* anything else) or an integer as str_to_int reads it (w = "num").

BSize(m) == conf.sect[m].bsize

\* "n & (n - 1)" is zero: n is a power of two.
PowerOfTwo(n) == n >= 1 /\ (n & (n - 1)) = 0

\* An int stored into an unsigned int field of struct mod_t.
U(v) == v % (2 ^ AddrBits)

\* The switch over the Partitioning tokens of mem_config_read_cache: policy,
\* interval, interval kind, pairing (FCP only), pairing interval (0 under
\* Nearest); a sixth token, an unknown name or a non-number is fatal.
PartitioningTokens(ts) ==
    /\ Len(ts) <= 5
    /\ Len(ts) >= 1 => ts[1].w \in PartPolicies
    /\ Len(ts) >= 2 => ts[2].w = "num"
    /\ Len(ts) >= 3 => ts[3].w \in IntervalKinds
    /\ Len(ts) >= 4 => ts[1].w = "FCP" /\ ts[4].w \in PairPolicies
    /\ Len(ts) >= 5 => ts[5].w = "num" /\ ~(ts[4].w = "Nearest" /\ ts[5].v # 0)

\* The partitioning policy, interval (5000000 by default) and partitioned-LRU
\* flag a cache is created with.
Part(c) == [policy |-> IF conf.sect[c].part = <<>> THEN "None" ELSE conf.sect[c].part[1].w,
            interval |-> IF Len(conf.sect[c].part) >= 2 THEN conf.sect[c].part[2].v ELSE 5000000,
            lru |-> conf.sect[c].policy = "PLRU"]

\* The checks of mem_config_read_cache after the tokens, each a fatal.
CacheChecks(s) ==
    /\ s.policy \in CachePolicies
    /\ PowerOfTwo(s.sets)
    /\ s.assoc >= 1
    /\ s.bsize >= 4 /\ PowerOfTwo(s.bsize)
    /\ s.dirlat >= 1 /\ s.lat >= 1 /\ s.mshr >= 0 /\ s.ports >= 1

\* The checks of mem_config_read_main_memory, each a fatal.
MainMemoryChecks(s) ==
    /\ PowerOfTwo(s.bsize) /\ s.lat >= 1 /\ s.ports >= 1
    /\ PowerOfTwo(s.dirsize) /\ PowerOfTwo(s.dirassoc) /\ s.dirassoc <= s.dirsize

\* cache_create's "assert(!(num_sets & (num_sets - 1)))" and the same of
\* block_size; a main memory's cache has dir_size / dir_assoc sets.
CreateOK(s) ==
    LET sets == IF s.type = "Cache" THEN s.sets ELSE s.dirsize \div s.dirassoc
    IN  (sets & (sets - 1)) = 0 /\ (s.bsize & (s.bsize - 1)) = 0

Num(t) == t.w = "num"

\* Fault variant of BoundsOK: the high bound is not checked.
BoundsOKLowOnly(ts, bs) ==
    /\ Len(ts) = 3 /\ Num(ts[2]) /\ Num(ts[3])
    /\ U(ts[2].v) % bs = 0

\* "BOUNDS <low> <high>": both bounds numbers, low a multiple of the block
\* size and high + 1 (in unsigned arithmetic) too, no fourth token.
BoundsOK(ts, bs) ==
    /\ Len(ts) = 3 /\ Num(ts[2]) /\ Num(ts[3])
    /\ U(ts[2].v) % bs = 0
    /\ U(U(ts[3].v) + 1) % bs = 0

\* "ADDR DIV <div> MOD <mod> EQ <eq>": div >= 1 and a multiple of the block
\* size, mod >= 1, eq < mod, compared as unsigned values.
AddrOK(ts, bs) ==
    /\ Len(ts) = 7 /\ ts[2].w = "DIV" /\ ts[4].w = "MOD" /\ ts[6].w = "EQ"
    /\ Num(ts[3]) /\ Num(ts[5]) /\ Num(ts[7])
    /\ U(ts[3].v) >= 1 /\ U(ts[3].v) % bs = 0
    /\ U(ts[5].v) >= 1
    /\ U(ts[7].v) < U(ts[5].v)

\* mem_config_read_module_address_range: whether it returns, and the range
\* it stores (range_kind and the unsigned fields).  No AddressRange is
\* BOUNDS 0 -1.
ReadRangeOK(ts, bs) ==
    \/ ts = <<>>
    \/ ts[1].w = "BOUNDS" /\ BoundsOK(ts, bs)
    \/ ts[1].w = "ADDR" /\ AddrOK(ts, bs)

ReadRange(ts) ==
    CASE ts = <<>> -> [kind |-> "bounds", low |-> 0, high |-> U(-1)]
      [] ts[1].w = "BOUNDS" -> [kind |-> "bounds", low |-> U(ts[2].v), high |-> U(ts[3].v)]
      [] OTHER -> [kind |-> "interleaved", div |-> U(ts[3].v), mod |-> U(ts[5].v),
                   eq |-> U(ts[7].v)]

\* The network a module's port names; mem_config_read_main_memory reads
\* no LowNetwork.
Named(m, side) ==
    IF side = "low" /\ conf.sect[m].type # "Cache" THEN NoNet
    ELSE conf.net.at[<<m, side>>]

\* Fault variant of InsertInNetwork: the input buffer size is not checked.
InsertInNetworkNoInputCheck(m, side, joined) ==
    LET n == Named(m, side)
        b == conf.net.buf[n]
    IN  \/ n = NoNet
        \/ /\ n \in InternalNets
           /\ <<m, side>> \notin conf.net.node
           /\ n # joined
           /\ b.out # 0 /\ b.out >= BSize(m) + 8

\* mem_config_insert_module_in_network for one port, the module having
\* joined network joined before: whether it returns.  An empty name joins
\* nothing (NULL).  A name with a [Network] section is an internal network:
\* the node name must be empty, the module not in it yet, and both default
\* buffer sizes given and large enough for a block and its 8-byte header;
\* then an end node is added.  Any other name is looked up among the
\* external networks (net_find), of which this model has none.
InsertInNetwork(m, side, joined) ==
    LET n == Named(m, side)
        b == conf.net.buf[n]
    IN  \/ n = NoNet
        \/ /\ n \in InternalNets
           /\ <<m, side>> \notin conf.net.node
           /\ n # joined
           /\ b.in # 0 /\ b.out # 0
           /\ b.in >= BSize(m) + 8 /\ b.out >= BSize(m) + 8

\* One iteration of mem_config_read_modules: the Type decides the reader,
\* whose checks are fatal and whose cache_create may abort; then the
\* address range is read.
ReadModule(m) ==
    LET s == conf.sect[m]
        read == IF s.type = "Cache" THEN PartitioningTokens(s.part) /\ CacheChecks(s)
                ELSE s.type = "MainMemory" /\ MainMemoryChecks(s)
        joined == InsertInNetwork(m, "high", NoNet)
                  /\ InsertInNetwork(m, "low", Named(m, "high"))
    IN  IF ~read THEN "fatal"
        ELSE IF ~joined THEN "fatal"
        ELSE IF ~CreateOK(s) THEN "abort"
        ELSE IF ReadRangeOK(s.range, s.bsize) THEN "ok" ELSE "fatal"

-----------------------------------------------------------------------------
\* mod->low_mod_list and mod->high_mod_list.  mem_config_read_low_modules
\* visits the caches in mod_list order and links each listed low module;
\* the low lists keep the order of mod_list (one of the orders a file may
\* write), the high lists the order in which their caches were read.
LowList(m) == SelectSeq(ModList, LAMBDA x : <<m, x>> \in conf.low)
HighList(m) == SelectSeq(ModList, LAMBDA x : <<x, m>> \in conf.low)

\* arch->mem_entry_mod_list of each architecture.
EntryMods(a) ==
    IF a = "x86"
    THEN SelectSeq(ModList, LAMBDA m : \E t \in Threads :
                                 m \in {conf.entry[t].data, conf.entry[t].inst})
    ELSE SelectSeq(ModList, LAMBDA m : m \in conf.gpu)

\* Fault variant of RouteOK: "level >= MEM_SYSTEM_MAX_LEVELS" is fatal.
RECURSIVE RouteOKLevelOffByOne(_, _, _)
RouteOKLevelOffByOne(m, bs, l) ==
    /\ l < MaxLevels
    /\ BSize(m) >= bs
    /\ ~(LowList(m) = <<>> /\ m \in Caches)
    /\ \A i \in 1 .. Len(LowList(m)) :
           RouteOKLevelOffByOne(LowList(m)[i], BSize(m), l + 1)

\* mem_config_check_route_to_main_memory(mod, block_size, level): no fatal
\* on any path below mod.  A level beyond MEM_SYSTEM_MAX_LEVELS (also how a
\* cycle ends), a decreasing block size, or a cache without low modules is
\* fatal.
RECURSIVE RouteOK(_, _, _)
RouteOK(m, bs, l) ==
    /\ l <= MaxLevels
    /\ BSize(m) >= bs
    /\ ~(LowList(m) = <<>> /\ m \in Caches)
    /\ \A i \in 1 .. Len(LowList(m)) : RouteOK(LowList(m)[i], BSize(m), l + 1)

\* mem_config_set_mod_arch(mod, a) and its loop over the low modules; both
\* return [col, res]: the colouring after the call and the architecture
\* returned.
RECURSIVE SetModArch(_, _, _), SetLowArch(_, _, _)
SetModArch(col, m, a) ==
    IF col[m] # NoArch THEN [col |-> col, res |-> col[m]]
    ELSE LET r == SetLowArch(col, LowList(m), a)
         IN  IF r.res # a THEN r
             ELSE [col |-> [r.col EXCEPT ![m] = a], res |-> a]

\* Fault variant of SetLowArch: a low module's other architecture is not
\* returned ("if (low_mod_arch != arch) return" missing).
SetLowArchNoPropagate(col, ls, a) ==
    IF ls = <<>> THEN [col |-> col, res |-> a]
    ELSE LET r == SetModArch(col, Head(ls), a)
         IN  SetLowArch(r.col, Tail(ls), a)

SetLowArch(col, ls, a) ==
    IF ls = <<>> THEN [col |-> col, res |-> a]
    ELSE LET r == SetModArch(col, Head(ls), a)
         IN  IF r.res # a THEN r ELSE SetLowArch(r.col, Tail(ls), a)

\* mem_config_check_disjoint for every architecture in turn: the colouring
\* after it, res # a for the first entry found coloured by another one.
RECURSIVE CheckDisjoint(_, _, _)
CheckDisjoint(col, as, es) ==
    IF as = <<>> THEN [col |-> col, ok |-> TRUE]
    ELSE IF es = <<>>
         THEN CheckDisjoint(col, Tail(as),
                            IF Len(as) > 1 THEN EntryMods(as[2]) ELSE <<>>)
         ELSE LET r == SetModArch(col, Head(es), Head(as))
              IN  IF r.res # Head(as) THEN [col |-> r.col, ok |-> FALSE]
                  ELSE CheckDisjoint(r.col, as, Tail(es))

\* Fault variant of SetModLevel: a module that has a level is not visited
\* again ("if (mod->level) return").
RECURSIVE SetModLevelOnce(_, _, _)
SetModLevelOnce(lv, m, l) ==
    IF lv[m] > 0 THEN lv
    ELSE FoldLeft(LAMBDA acc, x : SetModLevelOnce(acc, x, l + 1),
                  [lv EXCEPT ![m] = l], LowList(m))

\* mem_config_set_mod_level: returns the levels after the call.
RECURSIVE SetModLevel(_, _, _)
SetModLevel(lv, m, l) ==
    IF lv[m] >= l THEN lv
    ELSE FoldLeft(LAMBDA acc, x : SetModLevel(acc, x, l + 1),
                  [lv EXCEPT ![m] = l], LowList(m))

\* mem_config_calculate_mod_levels_arch for every architecture: each entry
\* module starts a recursion at level 1.
ModLevels ==
    FoldLeft(LAMBDA lv, m : SetModLevel(lv, m, 1), [m \in Mods |-> 0],
             EntryMods("x86") \o EntryMods("si"))


-----------------------------------------------------------------------------
Init ==
    /\ \E L \in SUBSET Links :
          conf \in [low : {L}, sect : SectionChoices, entry : EntryChoices,
                    gpu : GpuEntryChoices, net : NetPlans(L)]
    /\ pc = "modules"
    /\ failure = "none"
    /\ arch = [m \in Mods |-> NoArch]
    /\ subBlock = [m \in Mods |-> 0]
    /\ level = [m \in Mods |-> 0] /\ maxLevel = 0
    /\ reachThreads = [m \in Mods |-> {}]
    /\ reachMM = [m \in Mods |-> {}]
    /\ stack = <<>>
    /\ perLevel = [t \in Threads |-> <<>>]
    /\ atd = {}
    /\ range = [m \in Mods |-> <<>>]
    /\ highNet = [m \in Mods |-> NoNet]
    /\ lowNet = [m \in Mods |-> NoNet]

Results == <<arch, subBlock, level, maxLevel, reachThreads, reachMM, stack,
             perLevel, atd, range, highNet, lowNet>>

Fatal == pc' = "fatal" /\ failure' = pc
Abort == pc' = "abort" /\ failure' = pc
Crash == pc' = "crash" /\ failure' = pc
Goto(p) == pc' = p /\ UNCHANGED failure

\* mem_config_read_modules: the [Module] sections in file order; the first
\* one that fails stops the program, and otherwise every module has its
\* range and its networks.
ReadModules ==
    /\ pc = "modules"
    /\ LET bad == SelectSeq(ModList, LAMBDA m : ReadModule(m) # "ok")
       IN  IF bad = <<>>
           THEN /\ Goto("low_modules")
                /\ range' = [m \in Mods |-> ReadRange(conf.sect[m].range)]
                /\ highNet' = [m \in Mods |-> Named(m, "high")]
                /\ lowNet' = [m \in Mods |-> Named(m, "low")]
           ELSE /\ IF ReadModule(Head(bad)) = "fatal" THEN Fatal ELSE Abort
                /\ UNCHANGED <<range, highNet, lowNet>>
    /\ UNCHANGED <<conf, arch, subBlock, level, maxLevel, reachThreads, reachMM,
                   stack, perLevel, atd>>

\* mem_config_read_low_modules: a cache with an empty LowModules is fatal;
\* after linking, the route from every module is checked.
ReadLowModules ==
    /\ pc = "low_modules"
    /\ IF \E c \in Caches : LowList(c) = <<>> THEN Fatal
       ELSE IF \E m \in Mods : ~RouteOK(m, BSize(m), 1) THEN Fatal
       ELSE Goto("switches")
    /\ UNCHANGED <<conf, Results>>

\* One network of mem_config_create_switches: a DefaultBandwidth below 1 is
\* fatal, a buffer size that is not positive fails "assert(def_..._size
\* > 0)"; then the switch, a link both ways between it and every end node
\* and the routing table are made.
SwitchOutcome(n) ==
    LET b == conf.net.buf[n]
    IN  IF b.bw < 1 THEN "fatal"
        ELSE IF b.in > 0 /\ b.out > 0 THEN "ok" ELSE "abort"

\* mem_config_create_switches over net_list, after mem_config_read_entries
\* (not modelled).  The [Network] variables are also enforced, but
\* config_check reports a missing one only after this phase, whose
\* assertions a missing buffer size fails first.
CreateSwitches ==
    /\ pc = "switches"
    /\ LET bad == SelectSeq(conf.net.nets, LAMBDA n : SwitchOutcome(n) # "ok")
       IN  IF bad = <<>> THEN Goto("routes")
           ELSE IF SwitchOutcome(Head(bad)) = "fatal" THEN Fatal ELSE Abort
    /\ UNCHANGED <<conf, Results>>

\* A route between two end nodes of an internal network: every end node
\* is linked both ways with the switch, so net_routing_table_floyd_warshall
\* finds one between any two distinct nodes (one node per module).
Routed(m, x) == m # x

\* One comparison of mem_config_check_routes: the network of the module's
\* port must be the one the other module's opposite port joined, and the
\* routing table of that network, read through the pointer (NULL when no
\* network was named: a crash), must have a route.
RouteCheck(net, other, m, x) ==
    CASE net # other -> "fatal"
      [] net = NoNet -> "crash"
      [] ~Routed(m, x) -> "fatal"
      [] OTHER -> "ok"

\* Fault variant of RouteChecks: a low module's LowNetwork is compared
\* instead of its HighNetwork.
RouteChecksWrongPort(m) ==
    [i \in 1 .. Len(LowList(m)) |->
        RouteCheck(lowNet[m], lowNet[LowList(m)[i]], m, LowList(m)[i])]
    \o [i \in 1 .. Len(HighList(m)) |->
        RouteCheck(highNet[m], lowNet[HighList(m)[i]], m, HighList(m)[i])]

\* The comparisons for module m: its low modules, then its high modules.
RouteChecks(m) ==
    [i \in 1 .. Len(LowList(m)) |->
        RouteCheck(lowNet[m], highNet[LowList(m)[i]], m, LowList(m)[i])]
    \o [i \in 1 .. Len(HighList(m)) |->
        RouteCheck(highNet[m], lowNet[HighList(m)[i]], m, HighList(m)[i])]

RoutesOutcome(m) ==
    LET bad == SelectSeq(RouteChecks(m), LAMBDA r : r # "ok")
    IN  IF bad = <<>> THEN "ok" ELSE Head(bad)

\* mem_config_check_routes, in mod_list order, after mem_config_read_commands
\* and config_check (not modelled).
CheckRoutes ==
    /\ pc = "routes"
    /\ LET bad == SelectSeq(ModList, LAMBDA m : RoutesOutcome(m) # "ok")
       IN  IF bad = <<>> THEN Goto("disjoint")
           ELSE IF RoutesOutcome(Head(bad)) = "fatal" THEN Fatal ELSE Crash
    /\ UNCHANGED <<conf, Results>>

\* "if (!si_gpu_fused_device) arch_for_each(mem_config_check_disjoint)".
Disjoint ==
    /\ pc = "disjoint"
    /\ IF Fused
       THEN Goto("sub_blocks") /\ UNCHANGED arch
       ELSE LET r == CheckDisjoint(arch, ArchList, EntryMods(Head(ArchList)))
            IN  /\ arch' = r.col
                /\ IF r.ok THEN Goto("sub_blocks") ELSE Fatal
    /\ UNCHANGED <<conf, subBlock, level, maxLevel, reachThreads, reachMM,
                   stack, perLevel, atd, range, highNet, lowNet>>

\* mem_config_calculate_sub_block_sizes: the smallest block size among the
\* module and its high modules (num_sub_blocks = block_size / this).
SubBlocks ==
    /\ pc = "sub_blocks"
    /\ subBlock' = [m \in Mods |->
                      Min({BSize(m)} \cup {BSize(h) : h \in Range(HighList(m))})]
    /\ Goto("levels")
    /\ UNCHANGED <<conf, arch, level, maxLevel, reachThreads, reachMM, stack,
                   perLevel, atd, range, highNet, lowNet>>

\* mem_config_calculate_mod_levels, then the start of
\* mem_config_x86_thread_reachability: every thread marks its data and
\* instruction modules and pushes both.
Levels ==
    /\ pc = "levels"
    /\ level' = ModLevels
    /\ maxLevel' = Max({0} \cup Range(ModLevels))
    /\ reachThreads' = [m \in Mods |-> {t \in Threads :
                          m \in {conf.entry[t].data, conf.entry[t].inst}}]
    /\ stack' = FoldLeft(LAMBDA s, t : s \o <<conf.entry[t].data, conf.entry[t].inst>>,
                         <<>>, SetToSortSeq(Threads, <))
    /\ Goto("threads")
    /\ UNCHANGED <<conf, arch, subBlock, reachMM, perLevel, atd, range, highNet, lowNet>>

\* Fault variant of ThreadStep: only the first low module receives the
\* popped module's threads.
ThreadStepFirstLow ==
    /\ pc = "threads" /\ stack # <<>>
    /\ LET m == Last(stack)
           lows == LowList(m)
       IN  /\ reachThreads' = [x \in Mods |->
                 IF lows # <<>> /\ x = Head(lows)
                 THEN reachThreads[x] \cup reachThreads[m] ELSE reachThreads[x]]
           /\ stack' = Front(stack) \o lows
           /\ IF lows # <<>> /\ reachThreads[m] = {} THEN Abort ELSE Goto("threads")
    /\ UNCHANGED <<conf, arch, subBlock, level, maxLevel, reachMM, perLevel, atd, range, highNet, lowNet>>

\* One pop of the thread worklist: every low module of the popped module
\* receives its threads and is pushed, whether or not it gained any;
\* "assert(or)" needs the popped module to be reachable by some thread.
ThreadStep ==
    /\ pc = "threads" /\ stack # <<>>
    /\ LET m == Last(stack)
           lows == LowList(m)
       IN  /\ reachThreads' = [x \in Mods |->
                 IF x \in Range(lows) THEN reachThreads[x] \cup reachThreads[m]
                 ELSE reachThreads[x]]
           /\ stack' = Front(stack) \o lows
           /\ IF lows # <<>> /\ reachThreads[m] = {} THEN Abort ELSE Goto("threads")
    /\ UNCHANGED <<conf, arch, subBlock, level, maxLevel, reachMM, perLevel, atd, range, highNet, lowNet>>

\* Fault variant of ThreadsDone: the main-memory pass is seeded from
\* mod_list instead of mm_mod_list.
ThreadsDoneAllModules ==
    /\ pc = "threads" /\ stack = <<>>
    /\ reachMM' = [m \in Mods |-> {m}]
    /\ stack' = ModList
    /\ Goto("main_memory")
    /\ UNCHANGED <<conf, arch, subBlock, level, maxLevel, reachThreads,
                   perLevel, atd, range, highNet, lowNet>>

\* The worklist is empty (num_reachable_threads is counted), and
\* mem_config_main_memory_reachability starts: every main memory reaches
\* itself and is pushed.
ThreadsDone ==
    /\ pc = "threads" /\ stack = <<>>
    /\ reachMM' = [m \in Mods |-> IF m \in MainMemories THEN {m} ELSE {}]
    /\ stack' = SelectSeq(ModList, LAMBDA m : m \in MainMemories)
    /\ Goto("main_memory")
    /\ UNCHANGED <<conf, arch, subBlock, level, maxLevel, reachThreads,
                   perLevel, atd, range, highNet, lowNet>>

\* Fault variant of MainMemoryStep: the popped module itself, not the main
\* memories it reaches, is added to its high modules.
MainMemoryStepSelf ==
    /\ pc = "main_memory" /\ stack # <<>>
    /\ LET m == Last(stack)
           highs == HighList(m)
       IN  /\ reachMM' = [x \in Mods |->
                 IF x \in Range(highs) THEN reachMM[x] \cup ({m} \cap MainMemories)
                 ELSE reachMM[x]]
           /\ stack' = Front(stack) \o highs
    /\ Goto("main_memory")
    /\ UNCHANGED <<conf, arch, subBlock, level, maxLevel, reachThreads,
                   perLevel, atd, range, highNet, lowNet>>

\* One pop of the main-memory worklist: every high module of the popped one
\* gains the main memories it lacks and is pushed.
MainMemoryStep ==
    /\ pc = "main_memory" /\ stack # <<>>
    /\ LET m == Last(stack)
           highs == HighList(m)
       IN  /\ reachMM' = [x \in Mods |->
                 IF x \in Range(highs) THEN reachMM[x] \cup reachMM[m] ELSE reachMM[x]]
           /\ stack' = Front(stack) \o highs
    /\ Goto("main_memory")
    /\ UNCHANGED <<conf, arch, subBlock, level, maxLevel, reachThreads,
                   perLevel, atd, range, highNet, lowNet>>

MainMemoryDone ==
    /\ pc = "main_memory" /\ stack = <<>>
    /\ Goto("mod_reachability")
    /\ UNCHANGED <<conf, Results>>

\* mem_config_mod_reachability: every module must have a level in
\* 1 .. max_mod_level; each thread lists the modules it reaches per level.
ModReachability ==
    /\ pc = "mod_reachability"
    /\ IF \E m \in Mods : ~(level[m] > 0 /\ level[m] <= maxLevel)
       THEN Abort /\ UNCHANGED perLevel
       ELSE /\ perLevel' = [t \in Threads |-> [l \in 1 .. maxLevel |->
                              {m \in Mods : level[m] = l /\ t \in reachThreads[m]}]]
            /\ Goto("atds")
    /\ UNCHANGED <<conf, arch, subBlock, level, maxLevel, reachThreads,
                   reachMM, stack, atd, range, highNet, lowNet>>

\* mem_config_create_atds: one ATD per module and thread reaching it.
CreateATDs ==
    /\ pc = "atds"
    /\ atd' = {mt \in Mods \X Threads : mt[2] \in reachThreads[mt[1]]}
    /\ Goto("partitioning")
    /\ UNCHANGED <<conf, arch, subBlock, level, maxLevel, reachThreads,
                   reachMM, stack, perLevel, range, highNet, lowNet>>

\* mem_config_cache_partitioning, in mod_list order: Static is fatal;
\* UCP and FCP create a wrapper and cache_partitioning_schedule asserts the
\* cache uses partitioned LRU and a non-zero interval (a negative one
\* passes).  The first cache that fails decides.
CachePartitioning ==
    /\ pc = "partitioning"
    /\ LET bad == SelectSeq(ModList, LAMBDA c : c \in Caches /\
                      \/ Part(c).policy = "Static"
                      \/ Part(c).policy \in {"UCP", "FCP"} /\ ~(Part(c).lru /\ Part(c).interval # 0))
       IN  IF bad = <<>> THEN Goto("done")
           ELSE IF Part(Head(bad)).policy = "Static" THEN Fatal
           ELSE Abort
    /\ UNCHANGED <<conf, Results>>

Next ==
    \/ ReadModules \/ ReadLowModules \/ CreateSwitches \/ CheckRoutes \/ Disjoint \/ SubBlocks \/ Levels
    \/ ThreadStep \/ ThreadsDone \/ MainMemoryStep \/ MainMemoryDone
    \/ ModReachability \/ CreateATDs \/ CachePartitioning

Spec == Init /\ [][Next]_vars


-----------------------------------------------------------------------------
(***************************************************************************)
(* Reference definitions, over the graph of the LowModules links.          *)
(***************************************************************************)
Hierarchy == [node |-> Mods, edge |-> conf.low]

\* The modules reachable from S through low modules, S included.
RECURSIVE Closure(_)
Closure(S) ==
    LET n == S \cup AllSuccessors(Hierarchy, S)
    IN  IF n = S THEN S ELSE Closure(n)

Below == [m \in Mods |-> Closure({m})]

\* The modules on the longest path down from m, m included (on a DAG).
RECURSIVE Height(_)
Height(m) == 1 + Max({0} \cup {Height(x) : x \in Successors(Hierarchy, m)})

\* A hierarchy is sound when it has no cycle, no path of more than
\* MEM_SYSTEM_MAX_LEVELS modules, every link goes to an equal or larger
\* block, and every cache reaches a main memory.
Sound ==
    /\ \A m \in Mods : m \notin Closure(Successors(Hierarchy, m))
    /\ \A m \in Mods : Height(m) <= MaxLevels
    /\ \A p \in conf.low : BSize(p[1]) <= BSize(p[2])
    /\ \A c \in Caches : Below[c] \cap MainMemories # {}

AllEntries == Range(EntryMods("x86")) \cup Range(EntryMods("si"))

\* The level of m: the modules on the longest path from an entry down to
\* m, m included; 0 when no entry reaches m.
RECURSIVE Depth(_)
Depth(m) ==
    LET above == {Depth(h) : h \in Predecessors(Hierarchy, m)} \ {0}
    IN  IF m \notin AllEntries /\ above = {} THEN 0
        ELSE Max({1} \cup {d + 1 : d \in above})

\* Whether range r serves address a, as the format comments of
\* mem_config_read_module_address_range read: "BOUNDS <low> <high>" and
\* "ADDR DIV <div> MOD <mod> EQ <eq>".
Serves(r, a) ==
    IF r.kind = "bounds" THEN r.low <= a /\ a <= r.high
    ELSE (a \div r.div) % r.mod = r.eq

PhaseOrder == <<"modules", "low_modules", "switches", "routes", "disjoint", "sub_blocks",
                "levels", "threads", "main_memory", "mod_reachability", "atds", "partitioning", "done">>

Rank(p) == CHOOSE i \in 1 .. Len(PhaseOrder) : PhaseOrder[i] = p

\* mem_config_read has completed phase p without stopping in it.
Past(p) ==
    Rank(IF pc \in {"fatal", "abort", "crash"} THEN failure ELSE pc) > Rank(p)

\* The phase p has run (completed or stopped in it).
Ran(p) == Past(p) \/ (pc \in {"fatal", "abort", "crash"} /\ failure = p)

(***************************************************************************)
(* Properties                                                              *)
(***************************************************************************)

\* The route check of mem_config_read_low_modules (a depth-first walk from
\* every module, bounded by MEM_SYSTEM_MAX_LEVELS) accepts exactly the sound
\* hierarchies: every later phase may walk the links without looping and
\* every cache reaches a main memory.
RouteCheckExact == Ran("low_modules") => (Past("low_modules") <=> Sound)

\* mem_config_check_disjoint (the recursive test-and-set colouring of
\* mem_config_set_mod_arch) stops with a fatal exactly when a module lies
\* below entries of both architectures; when it passes, every module below
\* an architecture's entries has that architecture and the others none.
DisjointCheckExact ==
    LET x86 == UNION {Below[m] : m \in Range(EntryMods("x86"))}
        si  == UNION {Below[m] : m \in Range(EntryMods("si"))}
    IN  ~Fused /\ Ran("disjoint") =>
            /\ Past("disjoint") <=> x86 \cap si = {}
            /\ Past("disjoint") =>
                  \A m \in Mods : arch[m] = IF m \in x86 THEN "x86"
                                            ELSE IF m \in si THEN "si" ELSE NoArch

\* mem_config_set_mod_level, which stops at a module whose level is
\* already at least the one it brings, leaves every module at its longest
\* distance from an entry (level 1) and max_mod_level at the largest.
LevelsAreLongestPaths ==
    Past("levels") =>
        /\ \A m \in Mods : level[m] = Depth(m)
        /\ maxLevel = Max({0} \cup {Depth(m) : m \in Mods})

\* The thread worklist leaves in reachable_threads of every module exactly
\* the threads whose data or instruction module reaches it, and every
\* module and thread reaching it gets an ATD.
ThreadReachabilityExact ==
    /\ Past("threads") =>
          \A m \in Mods : reachThreads[m] =
              {t \in Threads : m \in Below[conf.entry[t].data] \cup Below[conf.entry[t].inst]}
    /\ Past("atds") => atd = {mt \in Mods \X Threads : mt[2] \in reachThreads[mt[1]]}

\* The main-memory worklist, walking high_mod_list upwards, leaves in
\* reachable_mm_modules of every module exactly the main memories below it.
MainMemoryReachabilityExact ==
    Past("main_memory") => \A m \in Mods : reachMM[m] = Below[m] \cap MainMemories

\* The checks of mem_config_read_module_address_range, made on unsigned
\* int values (a negative bound wraps around), leave every module that was
\* read with a range serving whole blocks of its own block size: all the
\* addresses of one block are served alike.
RangesServeWholeBlocks ==
    pc = "low_modules" =>
        \A m \in Mods, a \in Addrs :
            Serves(range[m], a) = Serves(range[m], a - (a % BSize(m)))


\* mem_config_check_routes compares the net pointers the insertion left in
\* the modules.  After it, the set-up goes on exactly when the file puts
\* every LowModules link in one network: the LowNetwork of the upper module
\* is the HighNetwork of the lower one, and it is not empty.  A link with
\* both names empty passes the pointer comparison (NULL = NULL) and then
\* crashes on the NULL routing table instead of failing with a message.
NetworkRoutesExact ==
    Ran("routes") =>
        (Past("routes") <=>
            \A p \in conf.low : Named(p[1], "low") = Named(p[2], "high")
                               /\ Named(p[1], "low") # NoNet)

\* mem_config_create_switches asserts that every network's default buffer
\* sizes are positive, and relies on mem_config_insert_module_in_network
\* having checked them: the assertion can fail only for a network that
\* no module joined.
SwitchAssertOnlyUnused ==
    pc = "abort" /\ failure = "switches" =>
        LET first == Head(SelectSeq(conf.net.nets, LAMBDA n : SwitchOutcome(n) # "ok"))
        IN  \A m \in Mods : first \notin {highNet[m], lowNet[m]}

=============================================================================
