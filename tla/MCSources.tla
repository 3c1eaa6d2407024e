------------------------------- MODULE MCSources -------------------------------
(***************************************************************************)
(* The sources of the graph, from the probes in the kernel to what the       *)
(* collectors make of them, each by itself, as MCMonitors does: the parts    *)
(* share no state of the models.  Those that compute and keep no state       *)
(* are given an input at the start.                                         *)
(***************************************************************************)
EXTENDS Sniffers, RdmaTopology, CommonParent, IpcCollection, SwappedMaps, IpcProbes,
        HccsBandwidth, NumaTopology, RdmaStatistics

CONSTANTS mlx0, mlx1,                      \* RDMA devices
          MaxCounter, MaxTime, MaxNumber   \* bounds of the inputs

\* None is the value of no key that a command prints.
ASSUME InputsAssumption ==
    /\ MaxCounter \in Nat /\ MaxTime \in Nat /\ MaxNumber \in Nat
    /\ None \notin {0, 1, Word, Blank, mlx0, mlx1}

VARIABLES part, input
-----------------------------------------------------------------------------
(* The instances. *)

Pd(dev, pdn, pid) == [dev |-> dev, pdn |-> pdn, pid |-> pid]
Qp(dev, lqpn, rqpn, pdn, pid) ==
    [dev |-> dev, lqpn |-> lqpn, rqpn |-> rqpn, pdn |-> pdn, pid |-> pid]
MCPds == {<<Pd(mlx0, 1, 1), Pd(mlx0, 2, 1)>>, <<Pd(mlx1, 1, 1), Pd(mlx0, 1, 1)>>}
MCQps == {<<Qp(mlx0, 1, 2, 1, 1), Qp(mlx0, 2, 1, 2, 1)>>,
          <<Qp(mlx1, 1, 2, 1, 1), Qp(mlx0, 2, 1, 1, 1)>>}
MCMrs == {<<[dev |-> mlx1, lkey |-> 1, pdn |-> 1, pid |-> 1]>>}
MCPorts == <<<<mlx1, 1>>, <<mlx1, 2>>>>

\* A port of which the command says all, of one counter no number, one counter
\* only, everything and then nothing, or nothing that can be used.
Shown(named, number, shows, unreadable) ==
    [port |-> mlx0, named |-> named, number |-> number, shows |-> shows, unreadable |-> unreadable]
Sent == {"tx_pkts", "sent_pkts"}
MCAliases == "send_pkts" :> Sent
MCSysfsName == "send_pkts" :> "tx_pkts"
MCOutputs ==
    {<<>>, <<Shown(TRUE, "port", Sent, {})>>, <<Shown(TRUE, "port", Sent, {"tx_pkts"})>>,
     <<Shown(FALSE, "none", Sent, {}), Shown(TRUE, "port", {"sent_pkts"}, {})>>,
     <<Shown(TRUE, "port", Sent, {}), Shown(TRUE, "port", {}, {})>>,
     <<Shown(TRUE, "none", Sent, {})>>, <<Shown(TRUE, "zero", Sent, {})>>}

MCKinds == <<"uds", "sysv_sem">>
MCPieces == [uds |-> 3, sysv_sem |-> 0]

MCTrees == {t \in [Pids -> 0..3] : \A p \in Pids : t[p] < p}
MCEntries == {{}, {4}, {3, 4}, {2, 3, 4}}
-----------------------------------------------------------------------------
(* Inputs of the two parts that compute. *)

\* Machines of up to three nodes, each of which may not report a distance.
Distances(nodes) ==
    [nodes -> UNION {[others -> {10, 20}] : others \in SUBSET nodes}]
Machines == UNION {{[of |-> "dies", nodes |-> nodes, distance |-> d] : d \in
                    {e \in Distances(nodes) : \A n \in nodes : n \in DOMAIN e[n] /\ e[n][n] = 10}} :
                   nodes \in SUBSET (0..2)}

\* Counters of two dies: the second is quiet, busy or not reported.
Watched == {"ddr_rd", "total", "outer", "rd_cpipe", "cycles"}
Counts0 == [Watched -> 0..MaxCounter]
Always == {<<0, PaEvent("ring2pa", 0)>>, <<0, "sccl">>}
Report(c, d) ==
    [k \in ({0} \X Watched) \cup Always \cup DOMAIN d |->
        IF k \in DOMAIN d THEN d[k]
        ELSE IF k \in Always THEN [count |-> 1, interval |-> IF k[2] = "sccl" THEN 1 ELSE 2]
        ELSE [count |-> c[k[2]], interval |-> 1]]
Second == {<<>>} \cup [{<<1, "total">>} -> {[count |-> 0, interval |-> 1], [count |-> 2, interval |-> 2]}]
Traffic == {[of |-> "traffic", clusters |-> cl, counters |-> Report(c, d), enabled |-> e] :
            cl \in {<<{0}, {1}>>, <<{0, 1}, {2}>>}, c \in Counts0, d \in Second,
            e \in {{"ddr", "hha", "l3c", "pa"}, {"hha"}, {"l3c", "pa"}}}

Numbers == {[of |-> "numbers", numbers |-> s] : s \in SUBSET (0..MaxNumber)}
Matrices == {[of |-> "matrix", rows |-> <<[id |-> 0, distances |-> a], [id |-> i, distances |-> b]>>] :
             i \in 0..1, a, b \in {<<10, 20>>, <<21, 10>>, <<10>>, <<>>}}

MCCpus == [n \in {0, 1} |-> IF n = 0 THEN {0, 1} ELSE {2}]
Placed == UNION {[s -> 0..MaxTime] : s \in SUBSET DOMAIN MCCpus}
MapLine == [file : BOOLEAN, anon : 0..1, dirty : 0..1, pages : UNION {[s -> 1..2] : s \in SUBSET DOMAIN MCCpus}]
NoThreads == <<>>
MCStatus == [voluntary : 0..2, involuntary : 0..1, allowed : {{0}, {0, 2}}]
MCThread == {ReadCpuStatus(there, s, time) : there \in BOOLEAN, s \in MCStatus, time \in 0..MaxTime}
Placements ==
    {[of |-> "process", p |-> [readable |-> r, cpuTime |-> t, lines |-> ls, threads |-> NoThreads]] :
     r \in BOOLEAN, t \in Placed, ls \in {<<a>> : a \in MapLine} \cup
        {<<a, [file |-> TRUE, anon |-> 1, dirty |-> 1, pages |-> [n \in {1} |-> 2]]>> : a \in MapLine}}
ThreadSets == {[of |-> "threads", threads |-> [t |-> a, u |-> b], share |-> s] :
               a, b \in MCThread, s \in {<<1, 2>>, <<1, 3>>, <<3, 4>>}}

\* Two resources, each under two names of its number and of its device.
Keyed(keys) == UNION {[there -> {0, 1, Word, Blank}] : there \in SUBSET keys}
Printed(item, names) ==
    [k \in DOMAIN item \cup DOMAIN names |-> IF k \in DOMAIN names THEN names[k] ELSE item[k]]
Tables == {[of |-> "records", items |-> <<Printed(a, [dev |-> mlx0]),
                                          Printed(b, [dev |-> Blank, ifname |-> mlx1])>>] :
           a \in Keyed({"lqpn", "qpn", "pid"}), b \in Keyed({"mrn", "mr"})}

HccsInputs == Machines \cup Traffic
NumaInputs == Numbers \cup Matrices \cup Placements \cup ThreadSets
-----------------------------------------------------------------------------
others(p) ==
    /\ part = p /\ UNCHANGED <<part, input>>
    /\ p # "sniffers" => UNCHANGED sniffer_vars
    /\ p # "rdma" => UNCHANGED topology_vars
    /\ p # "parents" => UNCHANGED parent_vars
    /\ p # "ipc" => UNCHANGED ipc_vars
    /\ p # "maps" => UNCHANGED maps_vars
    /\ p # "probes" => UNCHANGED probes_vars
    /\ p # "statistics" => UNCHANGED stat_vars

sources_vars == <<part, input, sniffer_vars, topology_vars, parent_vars, ipc_vars, maps_vars,
                  probes_vars, stat_vars>>

\* The parts that are not this one's start in one state each.
SourcesInit ==
    /\ part \in {"sniffers", "rdma", "parents", "ipc", "maps", "probes", "hccs", "numa",
                "statistics", "records"}
    /\ SnifferInit /\ (part # "sniffers" => sniffer = "sched")
    /\ TopologyInit /\ (part # "rdma" => /\ pds = CHOOSE t \in PdRecords : TRUE
                                         /\ qps = CHOOSE t \in QpRecords : TRUE)
    /\ ParentInit /\ (part # "parents" => /\ ppid = CHOOSE t \in Trees : TRUE
                                          /\ entered = [w \in Walks |-> {}])
    /\ IpcInit
    /\ MapsInit /\ (part # "maps" => /\ tool = CHOOSE t \in Programs : TRUE
                                     /\ take = CHOOSE t \in ReaderOf[tool].take : TRUE)
    /\ ProbesInit /\ (part # "probes" => /\ kind = CHOOSE k \in ProbeKinds : TRUE
                                         /\ enabled = Directions)
    /\ StatInit /\ (part # "statistics" => /\ order = [n \in Sent |-> IF n = "tx_pkts" THEN 1 ELSE 2]
                                           /\ known.answer = <<>> /\ known.ports = {})
    /\ input \in CASE part = "hccs" -> HccsInputs
                   [] part = "numa" -> NumaInputs
                   [] part = "records" -> Tables
                   [] OTHER -> {<<>>}

SourcesNext ==
    \/ others("sniffers") /\ SnifferNext
    \/ others("rdma") /\ TopologyNext
    \/ others("parents") /\ ParentNext
    \/ others("ipc") /\ IpcNext
    \/ others("maps") /\ MapsNext
    \/ others("probes") /\ ProbesNext
    \/ others("statistics") /\ StatNext

SourcesSpec == SourcesInit /\ [][SourcesNext]_sources_vars

SourcesFairSpec == SourcesSpec /\ IpcFairness
-----------------------------------------------------------------------------
\* What happened reaches the graph: the calls the probes of the kernel see are
\* counted as themselves and once, and so is what they count while their maps
\* are swapped, but for handlers too late for a swap, the rows and lines of the programs reach the
\* frames and the events they are parsed into, what the RDMA monitor calls
\* traffic is what a counter has grown, and the rounds that nobody disturbs find
\* the queue pairs and connections there are, and the parents and ancestors
\* their processes have.
SourcesKept ==
    /\ part = "sniffers" => SnifferTypeOK /\ CountedOnce /\ RecentRowsKept
    /\ part = "rdma" => TopologyTypeOK /\ ConnectionsFound /\ PairsFound
    /\ part = "parents" => ParentTypeOK /\ ParentsFound
    /\ part = "maps" => MapsTypeOK /\ CountsKept
    /\ part = "ipc" => IpcTypeOK /\ LinesKept /\ NoProgramLeft
    /\ part = "probes" => ProbesTypeOK /\ CallsAttributed /\ ArgsFreed
    /\ part = "statistics" => StatTypeOK /\ RatesAreTraffic /\ LacksOnlyAtStart

\* What is computed of a machine, a report of counters, a process and its
\* threads is right, whatever was read of them.
FunctionsCorrect ==
    input # <<>> =>
        CASE input.of = "dies" -> DiesPartitionNodes(input.nodes, input.distance)
          [] input.of = "traffic" ->
               \A n \in 0..2 : OwnTraffic(input.clusters, input.counters, input.enabled, n)
          [] input.of = "numbers" -> RangesRoundTrip(input.numbers)
          [] input.of = "matrix" -> DistancesSymmetric(input.rows)
          [] input.of = "process" -> /\ PlacementMeasured(DOMAIN MCCpus, input.p)
                                     /\ ProcessReachesNodes(MCCpus, input.p)
          [] input.of = "records" -> RecordsKept(input.items)
          [] input.of = "threads" -> BusiestThreadsStay(input.threads, input.share, input.share)
=============================================================================
