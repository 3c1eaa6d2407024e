----------------------------- MODULE GraphExchange -----------------------------
(***************************************************************************)
(* What is in the graphs that hosts send to each other.  A host finds        *)
(* entities of its own, which its collectors make in the namespace           *)
(* "local"; a host that collects from another makes each entity it receives  *)
(* in the namespace of the sender's address, unless it has one already, and  *)
(* takes the object its registry has under the id that results.  What an     *)
(* entity does not say of itself is looked up on the machine where it is     *)
(* made, a received entity's too.  When a graph is fetched, and by whom, is   *)
(* in RemoteSync; how the registry is kept in IdRegistry.                    *)
(***************************************************************************)
EXTENDS Naturals, Sequences, FiniteSets

CONSTANTS
    Peers,       \* hosts
    Syncs,       \* sync threads: <<h, s>> is of host h and collects from s
    Loop,        \* <<h, Loop>> is the thread that collects on h
    Addresses,   \* what get_local_ip may say on each host, a set of functions
    Local,       \* DEFAULT_NAMESPACE
    Things,      \* an entity's kind and number: a process with its pid, ...
    LookedUp,    \* the fields of each that are looked up where they are missing
    InId,        \* those of them that are part of the id
    Related,     \* the things that collectors may find with each
    Missing,     \* no value
    MaxFound, MaxFetches     \* bounds of the model

Spaces == {Local} \cup UNION {{a[h] : h \in Peers} : a \in Addresses}

\* A thread of a host may collect from the host itself; an address is none of
\* the words "local".
ASSUME ExchangeAssumption ==
    /\ Syncs \subseteq Peers \X Peers /\ Loop \notin Peers /\ Missing \notin Peers
    /\ \A a \in Addresses : DOMAIN a = Peers /\ \A h \in Peers : a[h] # Local
    /\ \A k \in Things : InId[k] \subseteq LookedUp[k] /\ Related[k] \subseteq Things
    /\ MaxFound \in Nat /\ MaxFetches \in Nat

VARIABLES
    address,     \* local_ip of each host's EnvInfo: "None" where it is not known
    registry,    \* the objects recorded on each host
    growing,     \* the graph being collected on each host
    latest,      \* the graph it sends
    synced,      \* _cached_graph of the collector of each sync thread
    stack,       \* the stack of namespaces of each thread
    receiving,   \* the sync threads in _on_recv_graph
    inbox,       \* what these have still to make of the graph received
    built,       \* what they have made
    finds, fetches     \* counters of the bounds

graphVars == <<growing, latest, synced>>
receiveVars == <<stack, receiving, inbox, built>>
exchange_vars == <<address, registry, graphVars, receiveVars, finds, fetches>>

Workers == Syncs \cup {<<h, Loop>> : h \in Peers}
-----------------------------------------------------------------------------
(* Entities.  The value of a field is the host whose files gave it, as if     *)
(* hosts differed in all of them.  Two fields are history: the host that      *)
(* found the entity, and which fields it could fill.                         *)

Entities == {e \in [space : Spaces, thing : Things, origin : Peers,
                    details : UNION {[LookedUp[k] -> Peers \cup {Missing}] : k \in Things},
                    knew : SUBSET UNION {LookedUp[k] : k \in Things}] :
                DOMAIN e.details = LookedUp[e.thing] /\ e.knew \subseteq LookedUp[e.thing]}

Global_Id(e) == <<e.space, e.thing, [f \in InId[e.thing] |-> e.details[f]]>>

\* Mutant: one stack for all threads of a host.
SharedNamespace(w) ==
    LET inside == {v \in Workers : v[1] = w[1] /\ stack[v] # <<>>}
        v == CHOOSE v \in inside : TRUE
    IN IF inside = {} THEN Local ELSE address[stack[v][Len(stack[v])]]

\* EntityNameSpace.get_namespace.
Namespace(w) == IF stack[w] = <<>> THEN Local ELSE address[stack[w][Len(stack[w])]]

\* What is missing is looked up on this machine, and may be missing here too.
Completions(e, h) ==
    {d \in [LookedUp[e.thing] -> Peers \cup {Missing}] :
        \A f \in LookedUp[e.thing] :
            IF e.details[f] = Missing THEN d[f] \in {h, Missing} ELSE d[f] = e.details[f]}

\* __post_init__: the entities that e may become when worker w makes it.
Placed(e, w) ==
    {[e EXCEPT !.space = IF e.space = Local THEN Namespace(w) ELSE e.space, !.details = d] :
     d \in Completions(e, w[1])}

\* record_or_get: who comes first stays, whatever else the other one says.
RecordOrGetEntity(objects, e) ==
    IF \E o \in objects : Global_Id(o) = Global_Id(e)
    THEN CHOOSE o \in objects : Global_Id(o) = Global_Id(e)
    ELSE e

\* create_entity: the objects that it may return.
CreateEntity(objects, e, w) == {RecordOrGetEntity(objects, p) : p \in Placed(e, w)}

\* What a collector of host h says of a thing it has found.
Bare(k, h) == [space |-> Local, thing |-> k, origin |-> h,
               details |-> [f \in LookedUp[k] |-> Missing], knew |-> {}]
Knowing(e) == [e EXCEPT !.knew = {f \in LookedUp[e.thing] : e.details[f] # Missing}]
Find(k, h) ==
    {RecordOrGetEntity(registry[h], Knowing(p)) : p \in Placed(Bare(k, h), <<h, Loop>>)}
-----------------------------------------------------------------------------
(* Graphs.  An edge is the pair of its ends. *)

EmptyGraph == [nodes |-> {}, edges |-> {}]

Endpoints(edges) == {e[1] : e \in edges} \cup {e[2] : e \in edges}

\* Graph.__post_init__: ends of edges that are not among the nodes are added.
GraphOf(nodes, edges) == [nodes |-> nodes \cup Endpoints(edges), edges |-> edges]

MergeGraphs(graphs) ==
    GraphOf(UNION {g.nodes : g \in graphs}, UNION {g.edges : g \in graphs})
-----------------------------------------------------------------------------
ExchangeInit ==
    /\ address \in Addresses
    /\ registry = [h \in Peers |-> {}]
    /\ growing = [h \in Peers |-> EmptyGraph] /\ latest = [h \in Peers |-> EmptyGraph]
    /\ synced = [t \in Syncs |-> EmptyGraph]
    /\ stack = [w \in Workers |-> <<>>] /\ receiving = {}
    /\ inbox = [t \in Syncs |-> EmptyGraph] /\ built = [t \in Syncs |-> EmptyGraph]
    /\ finds = 0 /\ fetches = 0

Found(h, e, graph) ==
    /\ finds < MaxFound /\ finds' = finds + 1
    /\ registry' = [registry EXCEPT ![h] = @ \cup {e}]
    /\ growing' = [growing EXCEPT ![h] = graph]
    /\ UNCHANGED <<address, latest, synced, receiveVars, fetches>>

\* A collection begins with the seeds of the collectors, of which that of a
\* remote collector is what it has cached.
SeedGraph(h) ==
    \E k \in Things : \E e \in Find(k, h) :
        Found(h, e, MergeGraphs({GraphOf({e}, {})} \cup {synced[t] : t \in {u \in Syncs : u[1] = h}}))

\* The collectors are asked about each entity, a received one too, and answer
\* what there is with the thing of that number on their own machine.
Expand(h) ==
    \E e \in growing[h].nodes : \E k \in Related[e.thing] : \E n \in Find(k, h) :
        Found(h, n, GraphOf(growing[h].nodes \cup {n}, growing[h].edges \cup {<<e, n>>}))

\* A collection may end at any time, as collectors may answer nothing; its
\* graph is what the server sends from now on.
PublishGraph(h) ==
    /\ latest' = [latest EXCEPT ![h] = growing[h]]
    /\ UNCHANGED <<address, registry, growing, synced, receiveVars, finds, fetches>>

\* _do_sync, up to the namespace of the sender.
ReceiveGraph(t) ==
    /\ t \notin receiving /\ fetches < MaxFetches
    /\ receiving' = receiving \cup {t}
    /\ stack' = [stack EXCEPT ![t] = Append(@, t[2])]
    /\ inbox' = [inbox EXCEPT ![t] = latest[t[2]]]
    /\ fetches' = fetches + 1
    /\ UNCHANGED <<address, registry, graphVars, built, finds>>

\* Graph(**graph_dict): its nodes, then its edges with their ends, each of which
\* is made anew.
ReceiveNode(t) ==
    /\ t \in receiving
    /\ \E e \in inbox[t].nodes : \E o \in CreateEntity(registry[t[1]], e, t) :
        /\ registry' = [registry EXCEPT ![t[1]] = @ \cup {o}]
        /\ inbox' = [inbox EXCEPT ![t].nodes = @ \ {e}]
        /\ built' = [built EXCEPT ![t].nodes = @ \cup {o}]
    /\ UNCHANGED <<address, graphVars, stack, receiving, finds, fetches>>

ReceiveEdge(t) ==
    /\ t \in receiving /\ inbox[t].nodes = {}
    /\ \E e \in inbox[t].edges : \E x \in CreateEntity(registry[t[1]], e[1], t) :
        \E y \in CreateEntity(registry[t[1]] \cup {x}, e[2], t) :
            /\ registry' = [registry EXCEPT ![t[1]] = @ \cup {x, y}]
            /\ inbox' = [inbox EXCEPT ![t].edges = @ \ {e}]
            /\ built' = [built EXCEPT ![t].edges = @ \cup {<<x, y>>}]
    /\ UNCHANGED <<address, graphVars, stack, receiving, finds, fetches>>

\* The end of the with statement, however it is reached.
LeaveNamespace(t) ==
    /\ receiving' = receiving \ {t}
    /\ stack' = [stack EXCEPT ![t] = IF @ = <<>> THEN @ ELSE SubSeq(@, 1, Len(@) - 1)]
    /\ inbox' = [inbox EXCEPT ![t] = EmptyGraph]
    /\ built' = [built EXCEPT ![t] = EmptyGraph]
    /\ UNCHANGED <<address, registry, growing, latest, finds, fetches>>

StoreGraph(t) ==
    /\ t \in receiving /\ inbox[t] = EmptyGraph
    /\ synced' = [synced EXCEPT ![t] = GraphOf(built[t].nodes, built[t].edges)]
    /\ LeaveNamespace(t)

\* The graph has an entity or an edge that this version does not know.
ReceiveRaises(t) ==
    /\ t \in receiving /\ inbox[t] # EmptyGraph
    /\ LeaveNamespace(t) /\ UNCHANGED synced

ExchangeNext ==
    \/ \E h \in Peers : SeedGraph(h) \/ Expand(h) \/ PublishGraph(h)
    \/ \E t \in Syncs :
        ReceiveGraph(t) \/ ReceiveNode(t) \/ ReceiveEdge(t) \/ StoreGraph(t) \/ ReceiveRaises(t)

ExchangeSpec == ExchangeInit /\ [][ExchangeNext]_exchange_vars
-----------------------------------------------------------------------------
GraphsOver(S) == [nodes : SUBSET S, edges : SUBSET (S \X S)]

ExchangeTypeOK ==
    /\ address \in Addresses
    /\ \A h \in Peers : registry[h] \subseteq Entities
    /\ growing \in [Peers -> GraphsOver(Entities)] /\ latest \in [Peers -> GraphsOver(Entities)]
    /\ synced \in [Syncs -> GraphsOver(Entities)]
    /\ stack \in [Workers -> Seq(Peers)] /\ receiving \subseteq Syncs
    /\ inbox \in [Syncs -> GraphsOver(Entities)] /\ built \in [Syncs -> GraphsOver(Entities)]
    /\ finds \in Nat /\ fetches \in Nat

\* The only host with this address.
Owns(h, space) == address[h] = space /\ \A g \in Peers : address[g] = space => g = h

\* As Entity.__post_init__ has it of nodes A, B and C: a namespace names the host
\* that found the entity, over however many hosts it came, if no other host has
\* the address; two hosts that do not know theirs are both "None".
NamesOrigin ==
    \A h \in Peers : \A o \in registry[h] :
        /\ o.space = Local => o.origin = h
        /\ \A g \in Peers : Owns(g, o.space) => o.origin = g

\* What is received is never shown as the receiver's own, be it its own.
ReceivedNotLocal == \A t \in Syncs : \A o \in synced[t].nodes : o.space # Local

\* An object and its id are one, and graphs are made of these objects, with both
\* ends of every edge.
Whole(g, h) == g.nodes \subseteq registry[h] /\ Endpoints(g.edges) \subseteq g.nodes
ObjectsShared ==
    /\ \A h \in Peers : \A o, p \in registry[h] : Global_Id(o) = Global_Id(p) => o = p
    /\ \A h \in Peers : Whole(growing[h], h) /\ Whole(latest[h], h)
    /\ \A t \in Syncs : Whole(synced[t], t[1])

\* What the host that found an entity knew of it is not replaced by what another
\* would say; what it did not know may well be filled in by another.
DetailsOfOrigin ==
    \A h \in Peers : \A o \in registry[h] : \A f \in o.knew : o.details[f] = o.origin

OriginKept == NamesOrigin /\ ReceivedNotLocal /\ ObjectsShared /\ DetailsOfOrigin

\* As RemoteCollector.get_neighbors_with_edges has it, there is no need to expand
\* received entities: nothing of one host is related to what is of another.
RemoteNotExpanded ==
    \A h \in Peers : \A e \in latest[h].edges : e[1].origin = e[2].origin
=============================================================================
