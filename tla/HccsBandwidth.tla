----------------------------- MODULE HccsBandwidth -----------------------------
(***************************************************************************)
(* From the counters of the HCCS monitor to the edges of the graph: the     *)
(* sniffer finds the dies (SCCL) of the machine from the distances between   *)
(* its NUMA nodes, works out what each die did from its counters, and the    *)
(* collector draws an edge from a node to itself for each kind of traffic    *)
(* there was.                                                               *)
(*                                                                         *)
(* A counter is a count over an interval. The intervals are divisors of      *)
(* Scale and rates are per Scale seconds, so that they are whole numbers; a  *)
(* counter never reported counts as 0 over one second. What links carry is   *)
(* in flits per cycle, the factor that makes gigabytes of it left out.       *)
(***************************************************************************)
EXTENDS Integers, SequencesExt

CONSTANTS Scale, AccessBytes   \* AccessBytes: 64, or less in a small model

ASSUME BandwidthAssumption == Scale \in Nat /\ AccessBytes \in Nat

Close == 15                    \* the distance within which nodes share a die

Links == 0..3
DdrEvents == {"ddr_wr", "ddr_rd"}
HhaEvents == {"total", "outer", "sccl", "rd64", "wr64", "rd128", "wr128"}
L3cPipes == {"rd_cpipe", "wr_cpipe"}
L3cEvents == L3cPipes \cup {"rd_spipe", "wr_spipe", "back_inv", "retry_req"} \cup
             {"rd_hit_cpipe", "wr_hit_cpipe", "rd_hit_spipe", "wr_hit_spipe"}
PaEvent(way, link) == way \o ToString(link)
-----------------------------------------------------------------------------
(* _sccl_to_numa_ids and _build_numa_to_sccl_map: distance[n] is what node  *)
(* n reports, for the nodes it reports one for.                             *)

CloseTo(distance, n, m) == m \in DOMAIN distance[n] /\ distance[n][m] <= Close

\* Mutant: a node joins the cluster of every node it is close to.
ScclToNumasAgain(nodes, distance) ==
    LET visit(n, clusters) ==
            IF n \in UNION Range(clusters) THEN clusters
            ELSE Append(clusters, {n} \cup {m \in nodes : CloseTo(distance, n, m)})
    IN MapThenFoldSet(visit, <<>>, LAMBDA n : n, LAMBDA s : Max(s), nodes)

\* The nodes are visited in the order of their ids; each one that is not in a
\* cluster yet starts the next one, of the nodes close to it that are in none.
ScclToNumas(nodes, distance) ==
    LET visit(n, clusters) ==
            LET visited == UNION Range(clusters)
            IN IF n \in visited THEN clusters
               ELSE Append(clusters, {n} \cup {m \in nodes \ visited : CloseTo(distance, n, m)})
    IN IF Cardinality(nodes) <= 1 THEN <<nodes>>
       ELSE MapThenFoldSet(visit, <<>>, LAMBDA n : n, LAMBDA s : Max(s), nodes)

\* A later cluster overwrites what an earlier one said of a node.
NumaToSccl(clusters) ==
    [n \in UNION Range(clusters) |-> Max({i \in DOMAIN clusters : n \in clusters[i]}) - 1]
-----------------------------------------------------------------------------
(* The bandwidths of one die, from counters[<<die, event>>].                *)

Counter(counters, die, event) ==
    IF <<die, event>> \in DOMAIN counters THEN counters[<<die, event>>]
    ELSE [count |-> 0, interval |-> 1]

Rate(counters, die, event) ==
    LET c == Counter(counters, die, event) IN c.count * (Scale \div c.interval)

Zeros(kinds) == [k \in kinds |-> 0]

DdrBandwidth(counters, die) ==
    LET rate(e) == AccessBytes * Rate(counters, die, e)
    IN [read |-> rate("ddr_rd"), write |-> rate("ddr_wr"), total |-> rate("ddr_rd") + rate("ddr_wr")]

HhaKinds == {"total", "cross_socket", "cross_die", "inner_die", "read", "write"}

HhaBandwidth(counters, die) ==
    LET rate(e) == Rate(counters, die, e)
    IN IF Counter(counters, die, "total").count = 0 THEN Zeros(HhaKinds)
       ELSE [total |-> rate("total"), cross_socket |-> rate("outer"), cross_die |-> rate("sccl"),
             inner_die |-> Max({0, rate("total") - rate("outer") - rate("sccl")}),
             read |-> AccessBytes * rate("rd64") + 2 * AccessBytes * rate("rd128"),
             write |-> AccessBytes * rate("wr64") + 2 * AccessBytes * rate("wr128")]

L3cBandwidth(counters, die) ==
    IF \A e \in L3cPipes : Counter(counters, die, e).count = 0 THEN Zeros(L3cEvents)
    ELSE [e \in L3cEvents |-> Rate(counters, die, e)]

\* Each way, what each link carried per cycle, and all of them together.
PaBandwidth(counters, die) ==
    LET ways == {"ring2pa", "pa2ring"}
        cycles == Counter(counters, die, "cycles").count
        link == [w \in ways |-> [l \in Links |-> IF cycles = 0 THEN 0 ELSE Rate(counters, die, PaEvent(w, l))]]
    IN [w \in ways |-> [total |-> SumFunction(link[w]), link |-> link[w]]]

\* query_bandwidth: nothing for a node that is in no cluster.
Known(clusters, n) == n \in DOMAIN NumaToSccl(clusters)

Snapshot(clusters, counters, enabled, n) ==
    LET die == NumaToSccl(clusters)[n]
    IN [ddr |-> IF "ddr" \in enabled THEN DdrBandwidth(counters, die) ELSE Zeros({"read", "write", "total"}),
        hha |-> IF "hha" \in enabled THEN HhaBandwidth(counters, die) ELSE Zeros(HhaKinds),
        l3c |-> IF "l3c" \in enabled THEN L3cBandwidth(counters, die) ELSE Zeros(L3cEvents),
        pa |-> IF "pa" \in enabled THEN PaBandwidth(counters, die)
               ELSE [w \in {"ring2pa", "pa2ring"} |-> [total |-> 0, link |-> Zeros(Links)]]]
-----------------------------------------------------------------------------
(* HCCSCollector.get_neighbors_with_edges: an edge of a node to itself for  *)
(* each kind of traffic that is enabled and there is some of.               *)

NumaEdges(clusters, counters, enabled, n) ==
    LET s == Snapshot(clusters, counters, enabled, n)
        edge(kind, info, some) == IF some THEN {[kind |-> kind, node |-> n, info |-> info]} ELSE {}
    IN IF ~Known(clusters, n) THEN {}
       ELSE edge("ddr", s.ddr, s.ddr.total > 0)
            \cup edge("hha", s.hha, s.hha.total > 0)
            \cup edge("hccs", Restrict(s.hha, HhaKinds \ {"read", "write"}),
                      s.hha.total > 0 /\ s.hha.cross_socket > 0)
            \cup edge("l3c", s.l3c, \E e \in L3cPipes : s.l3c[e] > 0)
            \cup edge("pa", s.pa, \E w \in DOMAIN s.pa : s.pa[w].total > 0)

\* L3CBandwidthInfo.total_hit_rate: hits and accesses, no rate without an access.
HitRate(l3c) ==
    LET both(hit) == IF hit THEN l3c["rd_hit_cpipe"] + l3c["wr_hit_cpipe"] ELSE l3c["rd_cpipe"] + l3c["wr_cpipe"]
    IN IF both(FALSE) = 0 THEN <<0, 1>> ELSE <<both(TRUE), both(FALSE)>>
-----------------------------------------------------------------------------
(* Properties of one machine and one report of counters. *)

\* Every node is on one die and no die is without a node, whatever the
\* distances are - missing, not symmetric or not transitive - and dies are
\* numbered in the order of their smallest nodes.
DiesPartitionNodes(nodes, distance) ==
    LET clusters == ScclToNumas(nodes, distance)
    IN /\ UNION Range(clusters) = nodes
       /\ \A i, j \in DOMAIN clusters : i < j =>
            clusters[i] \cap clusters[j] = {} /\ Min(clusters[i]) < Min(clusters[j])
       /\ nodes # {} => {} \notin Range(clusters)

\* What a node is shown to do depends on the counters of its own die alone,
\* what is cross-socket is part of what the home agents did, and no operation
\* of theirs is missing from the split into cross-socket, cross-die and inner.
OwnTraffic(clusters, counters, enabled, n) ==
    LET own == {k \in DOMAIN counters : Known(clusters, n) /\ k[1] = NumaToSccl(clusters)[n]}
        edges == NumaEdges(clusters, counters, enabled, n)
    IN /\ edges = NumaEdges(clusters, Restrict(counters, own), enabled, n)
       /\ \A e \in edges : e.kind = "hccs" =>
            \E h \in edges : h.kind = "hha" /\ Restrict(h.info, DOMAIN e.info) = e.info
       /\ \A e \in edges : e.kind = "hha" =>
            e.info.cross_socket + e.info.cross_die + e.info.inner_die >= e.info.total
=============================================================================
