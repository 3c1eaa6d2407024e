------------------------------ MODULE NumaTopology ------------------------------
(***************************************************************************)
(* How processes and threads are placed on the NUMA nodes of the machine:    *)
(* the static deployment, the pages and the CPU time of a process on each    *)
(* node, the score of how well they match, the threads that are worth a      *)
(* node of their own, and the neighbours and edges made of them.             *)
(*                                                                         *)
(* Files of procfs and sysfs are what was read from them: a line of          *)
(* numa_maps is a record, a list of CPUs a set.  Fractions are pairs of      *)
(* numbers, never divided.                                                  *)
(***************************************************************************)
EXTENDS Integers, SequencesExt

Sum(f) == SumFunction(f)

\* The numbers from the least to the greatest.
InOrder(numbers) ==
    MapThenFoldSet(LAMBDA n, less : Append(less, n), <<>>, LAMBDA n : n, LAMBDA s : Max(s), numbers)
-----------------------------------------------------------------------------
(* common/str_converter: a set of numbers as the ranges of a string.        *)

ListToRanges(numbers) ==
    LET add(n, ranges) ==
            IF ranges # <<>> /\ n <= Last(ranges)[2] + 1
            THEN Append(Front(ranges), <<Last(ranges)[1], n>>)
            ELSE Append(ranges, <<n, n>>)
    IN MapThenFoldSet(add, <<>>, LAMBDA n : n, LAMBDA s : Max(s), numbers)

\* Mutant: a range ends before its last number.
RangesToListOpen(ranges) == UNION {r[1]..(r[2] - 1) : r \in Range(ranges)}

RangesToList(ranges) == UNION {r[1]..r[2] : r \in Range(ranges)}
-----------------------------------------------------------------------------
(* StaticNumaDeployment: cpus[n] are the CPUs of node n.                     *)

\* The matrix of numactl, row by row: [id, distances]; the column is the
\* position, and each entry is entered both ways.
ParseDistances(rows) ==
    LET ways(e) == {<<e[1], e[2]>>, <<e[2], e[1]>>}
        enter(d, e) == [pair \in DOMAIN d \cup ways(e) |-> IF pair \in ways(e) THEN e[3] ELSE d[pair]]
        entries(row) == [i \in DOMAIN row.distances |-> <<row.id, i - 1, row.distances[i]>>]
    IN FoldLeft(enter, <<>>, FlattenSeq([r \in DOMAIN rows |-> entries(rows[r])]))

\* A CPU listed twice is of the later node.
CpuToNuma(cpus) == [c \in UNION Range(cpus) |-> Max({n \in DOMAIN cpus : c \in cpus[n]})]

QueryNumaIdByCpu(cpus, list) == {CpuToNuma(cpus)[c] : c \in list \cap UNION Range(cpus)}
-----------------------------------------------------------------------------
(* NumaSniffer.get_numa_access_info_by_pid: a line maps pages, as many on    *)
(* each node as it says; a file or not, with so many anonymous and dirty.    *)

PagesOn(lines, node, Test(_)) ==
    Sum([i \in DOMAIN lines |-> IF Test(lines[i]) /\ node \in DOMAIN lines[i].pages
                                THEN lines[i].pages[node] ELSE 0])

ReadOnly(line) == line.file /\ line.anon = 0
DirtyAnon(line) == line.anon > 0 /\ line.dirty > 0

TotalPages(lines, node) == PagesOn(lines, node, LAMBDA line : TRUE)
ReadOnlyPages(lines, node) == PagesOn(lines, node, ReadOnly)
DirtyAnonPages(lines, node) == PagesOn(lines, node, DirtyAnon)

\* NumaAffinityInfo, from the time on each node and the pages: lists with an
\* entry for each node of the machine, in the order of their ids.  The 1e-10 that
\* keeps the code from dividing by no time at all is left out of the score.
Affinity(nodes, cpuTime, lines) ==
    LET order == InOrder(nodes)
        time == [i \in DOMAIN order |-> IF order[i] \in DOMAIN cpuTime THEN cpuTime[order[i]] ELSE 0]
        pages == [i \in DOMAIN order |-> DirtyAnonPages(lines, order[i])]
    IN [time |-> time, pages |-> pages,
        score |-> IF Sum(pages) = 0 \/ Sum(time) = 0 THEN <<0, 1>>
                  ELSE <<Sum([i \in DOMAIN order |-> time[i] * pages[i]]), Sum(time) * Sum(pages)>>]

\* The nodes are named by their positions in the lists.
AccessedNumaNodes(affinity) ==
    {i - 1 : i \in {j \in DOMAIN affinity.time : affinity.time[j] > 0 \/ affinity.pages[j] > 0}}
-----------------------------------------------------------------------------
(* NumaCollector. *)

\* _read_cpu_status: a thread that has ended since it was listed has no status
\* any more, and gets -1 for both counts and no CPUs; its time is known still.
ReadCpuStatus(there, status, time) ==
    [voluntary |-> IF there THEN status.voluntary ELSE -1,
     involuntary |-> IF there THEN status.involuntary ELSE -1,
     allowed |-> IF there THEN status.allowed ELSE {},
     time |-> time]

\* _filter_proc_status_by_thresh, with the shares as pairs: a thread stays
\* that has its share of all switches, of the involuntary ones, or more than
\* its share of the time.  The sums are over the ended ones too.
OverTime(t, threads, timeShare) ==
    timeShare[2] * threads[t].time > timeShare[1] * Sum([u \in DOMAIN threads |-> threads[u].time])
\* Mutant: a share that is just reached is not enough.
FilterThreadsAbove(threads, switchShare, timeShare) ==
    LET all(of(_)) == Sum([t \in DOMAIN threads |-> of(threads[t])])
        switches(s) == s.voluntary + s.involuntary
        involuntary(s) == s.involuntary
    IN {t \in DOMAIN threads :
            LET s == threads[t]
            IN \/ switchShare[2] * switches(s) > switchShare[1] * all(switches)
               \/ switchShare[2] * s.involuntary > switchShare[1] * all(involuntary)
               \/ OverTime(t, threads, timeShare)}
FilterThreads(threads, switchShare, timeShare) ==
    LET all(of(_)) == Sum([t \in DOMAIN threads |-> of(threads[t])])
        switches(s) == s.voluntary + s.involuntary
        involuntary(s) == s.involuntary
    IN {t \in DOMAIN threads :
            LET s == threads[t]
            IN \/ switchShare[2] * switches(s) >= switchShare[1] * all(switches)
               \/ switchShare[2] * s.involuntary >= switchShare[1] * all(involuntary)
               \/ OverTime(t, threads, timeShare)}

Link(kind, from, to) == [kind |-> kind, from |-> from, to |-> to]
NumaSet(nodes) == <<"numa set", nodes>>
Node(n) == <<"node", n>>

\* A process that cannot be read has no neighbours; one that can has the set
\* of nodes it uses, and its threads have the set their CPUs are of.
ProcessNeighbors(cpus, p, enableThreads, switchShare, timeShare) ==
    LET nodes == DOMAIN cpus
        used == NumaSet(AccessedNumaNodes(Affinity(nodes, p.cpuTime, p.lines)))
        kept == FilterThreads(p.threads, switchShare, timeShare)
        setOf(t) == NumaSet(QueryNumaIdByCpu(cpus, p.threads[t].allowed))
    IN IF ~p.readable THEN {}
       ELSE {Link("access", "process", used)}
            \cup {Link("status", t, setOf(t)) : t \in IF enableThreads THEN kept ELSE {}}

\* _get_numaset_neighbors_with_edges: nodes the machine has.
SetNeighbors(cpus, set) ==
    {Link("contain", set, Node(n)) : n \in RangesToList(ListToRanges(set[2])) \cap DOMAIN cpus}

\* CacheMissStats: a list with an entry for each node of the machine, or for
\* those with any count; total_miss is all of them.
CacheMissList(nodes, misses) ==
    LET order == InOrder(IF nodes # {} THEN nodes ELSE DOMAIN misses)
    IN [i \in DOMAIN order |-> IF order[i] \in DOMAIN misses THEN misses[order[i]] ELSE 0]
-----------------------------------------------------------------------------
(* Properties of one machine and one process on it. *)

\* Writing a set of numbers as ranges and reading it back loses nothing, and
\* the ranges are as few as can be.
RangesRoundTrip(numbers) ==
    LET ranges == ListToRanges(numbers)
    IN /\ RangesToList(ranges) = numbers
       /\ \A i \in 1..Len(ranges) - 1 : ranges[i][2] + 1 < ranges[i + 1][1]

\* Whatever numactl printed, the distance from a node is that to it.
DistancesSymmetric(rows) ==
    \A pair \in DOMAIN ParseDistances(rows) :
        ParseDistances(rows)[pair] = ParseDistances(rows)[<<pair[2], pair[1]>>]

\* No page counts twice, and the score is a fraction that is one exactly when
\* every dirty page is on the node where all the time is spent.
PlacementMeasured(nodes, p) ==
    LET a == Affinity(nodes, p.cpuTime, p.lines)
    IN /\ \A n \in nodes :
            ReadOnlyPages(p.lines, n) + DirtyAnonPages(p.lines, n) <= TotalPages(p.lines, n)
       /\ a.score[1] <= a.score[2]
       /\ a.score[1] = a.score[2] <=>
            \E j \in DOMAIN a.time : a.time[j] > 0 /\ a.pages[j] > 0 /\
                \A k \in DOMAIN a.time \ {j} : a.time[k] = 0 /\ a.pages[k] = 0

\* On a machine whose nodes are numbered from 0 without a gap, a process leads
\* to exactly the nodes it has time or dirty pages on.
ProcessReachesNodes(cpus, p) ==
    LET links == ProcessNeighbors(cpus, p, FALSE, <<1, 1>>, <<1, 1>>)
        reached == UNION {SetNeighbors(cpus, l.to) : l \in links}
        onNode(n) == \/ n \in DOMAIN p.cpuTime /\ p.cpuTime[n] > 0
                     \/ DirtyAnonPages(p.lines, n) > 0
    IN DOMAIN cpus = 0..Cardinality(DOMAIN cpus) - 1 /\ p.readable =>
        {l.to : l \in reached} = {Node(n) : n \in {m \in DOMAIN cpus : onNode(m)}}

\* Threads end between the listing and the reading of their status.  When one at
\* least could be read, and the threshold does not exceed one over their number,
\* one of these stays, and one that has ended does for its time alone: the -1
\* of its counts never pass for its share.  And no thread goes while one with less
\* of everything stays, whatever the thresholds.
BusiestThreadsStay(threads, switchShare, timeShare) ==
    LET kept == FilterThreads(threads, switchShare, timeShare)
        read == {t \in DOMAIN threads : threads[t].voluntary >= 0 /\ threads[t].involuntary >= 0}
        more(s, t) == s.voluntary >= t.voluntary /\ s.involuntary >= t.involuntary /\ s.time >= t.time
    IN /\ read # {} /\ switchShare[1] * Cardinality(DOMAIN threads) <= switchShare[2] =>
            /\ read \cap kept # {}
            /\ switchShare[1] > 0 => \A t \in kept \ read : OverTime(t, threads, timeShare)
       /\ \A t \in kept, u \in DOMAIN threads : more(threads[u], threads[t]) => u \in kept
=============================================================================
