------------------------------ MODULE RdmaTopology ------------------------------
(***************************************************************************)
(* The RDMA collector in a collection: from the processes that own           *)
(* protection domains to the domains, to the queue pairs, memory regions     *)
(* and the device of each, and from a queue pair to the one it talks to.     *)
(*                                                                         *)
(* Which queue pair a number stands for is looked up in QPNManager, a        *)
(* singleton that knows the queue pairs made so far and that the seed of     *)
(* every collection empties - of another collection, too, that runs at the   *)
(* same time.  Entities are the same when their identities are: a domain's   *)
(* is its process and number, without the device it is of.                   *)
(***************************************************************************)
EXTENDS Integers, SequencesExt

CONSTANTS Rounds,        \* collections, each of which runs once
          PdRecords,     \* the tables that may be cached: sequences of records
          QpRecords,
          MrRecords,
          Updates,       \* how often the caches change: a bound of the model
          Ports          \* the ports with statistics, as <<device, port>>

ASSUME TablesAssumption ==
    \A table \in PdRecords \cup QpRecords \cup MrRecords : table \in Seq(Range(table))

VARIABLES pds, qps, mrs, \* the caches of the sniffer
          pdEntities,    \* the domains registered, each with its device ...
          qpEntities,    \* ... and the queue pairs, each with its remote number
          qpn2qp,        \* QPNManager: the first queue pair of each number
          todo,          \* entities each round has still to expand
          found,         \* entities of its graph
          edges,         \* edges of its graph
          updates,       \* history: how often the caches have changed
          disturbed      \* history: another round's seed came after this one's

topology_vars == <<pds, qps, mrs, pdEntities, qpEntities, qpn2qp, todo, found, edges, updates,
                   disturbed>>

Process(pid) == [kind |-> "process", id |-> <<pid>>]
Device(dev) == [kind |-> "device", id |-> <<dev>>]
Domain(r) == [kind |-> "pd", id |-> <<r.pid, r.pdn>>]
QueuePair(r) == [kind |-> "qp", id |-> <<r.pid, r.lqpn>>]
Region(r) == [kind |-> "mr", id |-> <<r.pid, r.pdn, r.lkey>>]
Statistic(port) == [kind |-> "stat", id |-> port]

Unset == [kind |-> "none", id |-> <<>>]

TopologyInit ==
    /\ pds \in PdRecords /\ qps \in QpRecords /\ mrs \in MrRecords
    /\ pdEntities = <<>> /\ qpEntities = <<>> /\ qpn2qp = <<>>
    /\ todo = [r \in Rounds |-> {Unset}]
    /\ found = [r \in Rounds |-> {}] /\ edges = [r \in Rounds |-> {}]
    /\ disturbed = [r \in Rounds |-> FALSE] /\ updates = 0

\* What the sniffer finds in its tables, as places in them: the domains of a
\* process, and what has the number of a domain, on the device it was
\* registered with.
PdsByPid(pid) == {i \in DOMAIN pds : pds[i].pid = pid}
OnDomain(record, e) == record.pdn = e.id[2] /\ record.dev = pdEntities[e]
QpsByPdn(e) == {i \in DOMAIN qps : OnDomain(qps[i], e)}
MrsByPdn(e) == {i \in DOMAIN mrs : OnDomain(mrs[i], e)}

\* create_ensure_unique_id: what is made of the places and not registered yet
\* is, the first one of each identity.
FirstOf(registry, made) ==
    LET first(k) == Min({i \in DOMAIN made : made[i].key = k})
    IN [k \in DOMAIN registry \cup {made[i].key : i \in DOMAIN made} |->
            IF k \in DOMAIN registry THEN registry[k] ELSE made[first(k)].value]
-----------------------------------------------------------------------------
\* PDRecord.valid and get_all_pid_accessing_rdma.
Valid(r) == r.pdn >= 0 /\ r.pid > 0

\* _get_seed_graph: the numbers are forgotten.
Seed(r) ==
    /\ todo[r] = {Unset}
    /\ qpn2qp' = <<>>
    /\ LET processes == {Process(p.pid) : p \in {q \in Range(pds) : Valid(q)}}
       IN todo' = [todo EXCEPT ![r] = processes] /\ found' = [found EXCEPT ![r] = processes]
    /\ disturbed' = [s \in Rounds |-> disturbed[s] \/ (s # r /\ todo[s] # {Unset})]
    /\ UNCHANGED <<pds, qps, mrs, pdEntities, qpEntities, edges, updates>>

\* clear reads the tables anew, which may be in the middle of a round; those
\* that have ended may run again.
UpdateCache ==
    /\ updates < Updates /\ updates' = updates + 1
    /\ pds' \in PdRecords /\ qps' \in QpRecords /\ mrs' \in MrRecords
    /\ todo' = [r \in Rounds |-> IF todo[r] = {} THEN {Unset} ELSE todo[r]]
    /\ found' = [r \in Rounds |-> IF todo[r] = {} THEN {} ELSE found[r]]
    /\ edges' = [r \in Rounds |-> IF todo[r] = {} THEN {} ELSE edges[r]]
    /\ disturbed' = [r \in Rounds |-> todo[r] \notin {{}, {Unset}}]
    /\ UNCHANGED <<pdEntities, qpEntities, qpn2qp>>

\* An entity is expanded once; what it leads to is queued if it is new.
Expanded(r, e, neighbors, new_edges) ==
    /\ todo' = [todo EXCEPT ![r] = (@ \ {e}) \cup (neighbors \ found[r])]
    /\ found' = [found EXCEPT ![r] = @ \cup neighbors]
    /\ edges' = [edges EXCEPT ![r] = @ \cup new_edges]
    /\ UNCHANGED <<pds, qps, mrs, updates, disturbed>>

Edge(kind, from, to) == [kind |-> kind, from |-> from, to |-> to]

ExpandProcess(r, e) ==
    LET own == PdsByPid(e.id[1])
        domains == {Domain(pds[i]) : i \in own}
    IN /\ e.kind = "process"
       /\ pdEntities' = FirstOf(pdEntities,
              [i \in own |-> [key |-> Domain(pds[i]), value |-> pds[i].dev]])
       /\ Expanded(r, e, domains, {Edge("own", e, d) : d \in domains})
       /\ UNCHANGED <<qpEntities, qpn2qp>>

\* A queue pair registers itself.
ExpandDomain(r, e) ==
    LET device == Device(pdEntities[e])
        pairs == QpsByPdn(e)
        owned == {QueuePair(qps[i]) : i \in pairs} \cup {Region(mrs[i]) : i \in MrsByPdn(e)}
    IN /\ e.kind = "pd"
       /\ qpEntities' = FirstOf(qpEntities,
              [i \in pairs |-> [key |-> QueuePair(qps[i]), value |-> qps[i].rqpn]])
       /\ qpn2qp' = FirstOf(qpn2qp,
              [i \in pairs |-> [key |-> qps[i].lqpn, value |-> QueuePair(qps[i])]])
       /\ Expanded(r, e, owned \cup {device},
                   {Edge("own", e, o) : o \in owned} \cup {Edge("access", e, device)})
       /\ UNCHANGED pdEntities

\* Mutant: a number is forgotten once it has been looked up.
ExpandQueuePairForgetting(r, e) ==
    /\ e.kind = "qp"
    /\ qpn2qp' = Restrict(qpn2qp, DOMAIN qpn2qp \ {qpEntities[e], e.id[2]})
    /\ Expanded(r, e, {}, {})
    /\ UNCHANGED <<pdEntities, qpEntities>>

\* The queue pair that the remote number stands for, if it is another one.
ExpandQueuePair(r, e) ==
    LET others == {qpn2qp[n] : n \in DOMAIN qpn2qp \cap {qpEntities[e]}} \ {e}
    IN /\ e.kind = "qp"
       /\ Expanded(r, e, others, {Edge("connect", e, o) : o \in others})
       /\ UNCHANGED <<pdEntities, qpEntities, qpn2qp>>

\* The statistics of one port of the device, the first that is listed.
ExpandDevice(r, e) ==
    LET own == {i \in DOMAIN Ports : Ports[i][1] = e.id[1]}
        stats == IF own = {} THEN {} ELSE {Statistic(Ports[Min(own)])}
    IN /\ e.kind = "device"
       /\ Expanded(r, e, stats, {Edge("has", e, s) : s \in stats})
       /\ UNCHANGED <<pdEntities, qpEntities, qpn2qp>>

\* A memory region or statistics: of no type this collector supports.
ExpandOther(r, e) ==
    /\ e.kind \in {"mr", "stat"}
    /\ Expanded(r, e, {}, {})
    /\ UNCHANGED <<pdEntities, qpEntities, qpn2qp>>

TopologyNext ==
    \/ UpdateCache
    \/ \E r \in Rounds :
        \/ Seed(r)
        \/ \E e \in todo[r] : \/ ExpandProcess(r, e) \/ ExpandDomain(r, e) \/ ExpandDevice(r, e)
                              \/ ExpandQueuePair(r, e) \/ ExpandOther(r, e)

TopologySpec == TopologyInit /\ [][TopologyNext]_topology_vars
-----------------------------------------------------------------------------
(* Properties. *)

Finished(r) == todo[r] = {}

\* Whatever the order in which entities are expanded, two queue pairs that
\* name each other and share their numbers with nobody are connected in the
\* graph of a round that no other round's seed fell into: the one that is
\* expanded last finds the other.
ConnectionsFound ==
    \A r \in Rounds : Finished(r) /\ ~disturbed[r] =>
        \A a, b \in found[r] \cap DOMAIN qpEntities :
            /\ a # b /\ qpEntities[a] = b.id[2] /\ qpEntities[b] = a.id[2]
            /\ \A q \in DOMAIN qpEntities \ {a, b} : q.id[2] \notin {a.id[2], b.id[2]}
            => {Edge("connect", a, b), Edge("connect", b, a)} \cap edges[r] # {}

\* A queue pair of a process with a valid domain is in the graph, unless a
\* domain with the same process and number is on another device, which takes
\* the other's place.
PairsFound ==
    \A r \in Rounds : Finished(r) /\ ~disturbed[r] =>
        \A q \in Range(qps) : \A p \in {d \in Range(pds) : Valid(d)} :
            Domain(p) = Domain(q) /\ pdEntities[Domain(q)] = q.dev => QueuePair(q) \in found[r]

TopologyTypeOK ==
    /\ pds \in PdRecords /\ qps \in QpRecords /\ mrs \in MrRecords
    /\ \A n \in DOMAIN qpn2qp : qpn2qp[n] \in DOMAIN qpEntities /\ qpn2qp[n].id[2] = n
    /\ \A r \in Rounds : \A e \in edges[r] : {e.from, e.to} \subseteq found[r]
=============================================================================
