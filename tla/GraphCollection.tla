---------------------------- MODULE GraphCollection ----------------------------
(***************************************************************************)
(* One collection: Collector._expand_graph_bfs over a CollectorSet.  From   *)
(* the seed graph it takes entities off a queue, asks every subcollector    *)
(* that claims the entity's type for neighbours and edges, queues the       *)
(* neighbours it has not seen and merges the reports of each edge.          *)
(*                                                                         *)
(* Subcollectors read live data: what one answers is any of its possible    *)
(* Answers at the moment it is asked.  An OSError or a ValueError is an      *)
(* empty answer; any other exception ends the collection.                   *)
(***************************************************************************)
EXTENDS Naturals, Sequences, FiniteSetsExt

CONSTANTS Entities,
          Edges,          \* edge identities (global_id)
          Kinds,          \* entity classes
          KindOf,         \* KindOf[n], the class of entity n
          AnyKind,        \* the base class Entity, which every entity is an instance of
          Subcollectors,  \* how many there are, asked in order
          Supports,       \* Supports[c]: supported_source_node_type()
          Answers,        \* Answers[c][n]: what c may answer about n
          Calls           \* the calls made: seed graph, ignore sets, max_iterations

Collectors == 1 .. Subcollectors
Replies == [near : Seq(Entities), links : [Edges -> Nat]]
NoLinks == [e \in Edges |-> 0]
Nothing == [near |-> <<>>, links |-> NoLinks]

\* max_iterations = None is any number not below that of the entities.
ASSUME CollectionAssumption ==
    /\ Subcollectors \in Nat
    /\ AnyKind \notin Kinds
    /\ KindOf \in [Entities -> Kinds]
    /\ Supports \in [Collectors -> SUBSET (Kinds \cup {AnyKind})]
    /\ \A c \in Collectors, n \in Entities : Answers[c][n] \subseteq Replies
    /\ \A call \in Calls : /\ call.nodes \in Seq(Entities)
                           /\ call.edges \subseteq Edges
                           /\ call.ignore_entities \subseteq Entities
                           /\ call.ignore_edges \subseteq Edges
                           /\ call.max_iterations \in Nat

VARIABLES call,               \* the arguments
          phase,
          queue,
          visited,            \* entities expanded, in order
          ignore_entity_ids,
          current,            \* the entity being expanded
          to_ask,             \* subcollectors still to be asked about it
          neighbors,          \* answered and not yet looked at
          new_edges,          \* reports of each edge in these answers
          weight,             \* reports merged into each edge; 0: not in the graph
          replies             \* history: what was answered about each entity

vars == <<call, phase, queue, visited, ignore_entity_ids, current, to_ask, neighbors,
          new_edges, weight, replies>>

Phases == {"next", "ask", "done", "failed"}

TypeOK == /\ call \in Calls
          /\ phase \in Phases
          /\ queue \in Seq(Entities)
          /\ visited \in Seq(Entities)
          /\ ignore_entity_ids \subseteq Entities
          /\ phase = "ask" => current \in Entities
          /\ to_ask \subseteq Collectors
          /\ neighbors \in Seq(Entities)
          /\ new_edges \in [Edges -> Nat]
          /\ weight \in [Edges -> Nat]
          /\ replies \in [Entities -> [Collectors -> Replies]]

\* A Graph holds the ends of its edges.
Begun == /\ call \in Calls
         /\ phase = "next"
         /\ visited = <<>>
         /\ current = 0
         /\ to_ask = {}
         /\ neighbors = <<>>
         /\ new_edges = NoLinks
         /\ weight = [e \in Edges |-> IF e \in call.edges THEN 1 ELSE 0]
         /\ replies = [n \in Entities |-> [c \in Collectors |-> Nothing]]

\* Mutant: an entity the caller has already is expanded first hand.
InitQueuesIgnored == /\ Begun
                     /\ queue \in {Append(call.nodes, n) : n \in call.ignore_entities}
                     /\ ignore_entity_ids = {}

\* The seed graph is what the seed collectors that answered found.
Init == /\ Begun
        /\ queue = call.nodes
        /\ ignore_entity_ids = call.ignore_entities

-----------------------------------------------------------------------------
\* entity_type2collector: a class some subcollector names is looked up as it
\* is; only a class nobody names is tested with isinstance.
Named == UNION {Supports[c] : c \in Collectors}
Claims(c, kind) == Supports[c] \cap {kind, AnyKind} # {}
AskedFor(kind) == IF kind \in Named THEN {c \in Collectors : kind \in Supports[c]}
                                    ELSE {c \in Collectors : Claims(c, kind)}

\* The loop goes round once more.
CanGoOn == /\ phase = "next"
           /\ queue # <<>>
           /\ Len(visited) < call.max_iterations

\* Mutant: the entity to be skipped is put back.
SkipRequeues == /\ CanGoOn
                /\ Head(queue) \in ignore_entity_ids
                /\ queue' = Append(Tail(queue), Head(queue))
                /\ UNCHANGED <<call, phase, visited, ignore_entity_ids, current, to_ask,
                               neighbors, new_edges, weight, replies>>

\* Queued more than once, or to be ignored.
Skip == /\ CanGoOn
        /\ Head(queue) \in ignore_entity_ids
        /\ queue' = Tail(queue)
        /\ UNCHANGED <<call, phase, visited, ignore_entity_ids, current, to_ask,
                       neighbors, new_edges, weight, replies>>

\* Mutant: the queue is trusted to hold nothing twice.
VisitQueued == /\ CanGoOn
               /\ queue' = Tail(queue)
               /\ visited' = Append(visited, Head(queue))
               /\ ignore_entity_ids' = ignore_entity_ids \cup {Head(queue)}
               /\ current' = Head(queue)
               /\ to_ask' = AskedFor(KindOf[Head(queue)])
               /\ phase' = "ask"
               /\ UNCHANGED <<call, neighbors, new_edges, weight, replies>>

Visit == /\ CanGoOn
         /\ Head(queue) \notin ignore_entity_ids
         /\ VisitQueued

\* The first subcollector left answers.
Ask == /\ phase = "ask"
       /\ \E c \in to_ask :
            /\ \A d \in to_ask : c <= d
            /\ to_ask' = to_ask \ {c}
            /\ \E reply \in Answers[c][current] \cup {Nothing} :
                 /\ neighbors' = neighbors \o reply.near
                 /\ new_edges' = [e \in Edges |-> new_edges[e] + reply.links[e]]
                 /\ replies' = [replies EXCEPT ![current][c] = reply]
       /\ UNCHANGED <<call, phase, queue, visited, ignore_entity_ids, current, weight>>

AskRaises == /\ phase = "ask"
             /\ to_ask # {}
             /\ phase' = "failed"
             /\ UNCHANGED <<call, queue, visited, ignore_entity_ids, current, to_ask,
                            neighbors, new_edges, weight, replies>>

Answered == phase = "ask" /\ to_ask = {}

Looked == /\ Answered
          /\ neighbors # <<>>
          /\ neighbors' = Tail(neighbors)
          /\ UNCHANGED <<call, phase, visited, current, to_ask, new_edges, weight, replies>>

Unseen(s) == IF Head(s) \in ignore_entity_ids THEN <<>> ELSE <<Head(s)>>

\* Mutant: an entity counts as seen as soon as it is queued.
EnqueueMarks == /\ Looked
                /\ queue' = queue \o Unseen(neighbors)
                /\ ignore_entity_ids' = ignore_entity_ids \cup {Head(neighbors)}

\* Mutant: the whole list is put on the queue.
EnqueueList == /\ Looked
               /\ queue' = Append(queue, neighbors)
               /\ UNCHANGED ignore_entity_ids

\* A neighbour not yet expanded is queued, even if it is queued already.
Enqueue == /\ Looked
           /\ queue' = queue \o Unseen(neighbors)
           /\ UNCHANGED ignore_entity_ids

\* Edges not of the seed graph that are to be ignored.
Ignored(e) == e \in call.ignore_edges /\ weight[e] = 0

Merging(total) == /\ Answered
                  /\ neighbors = <<>>
                  /\ weight' = total
                  /\ new_edges' = NoLinks
                  /\ phase' = "next"
                  /\ UNCHANGED <<call, queue, visited, ignore_entity_ids, current, to_ask,
                                 neighbors, replies>>

\* Mutant: a new edge is put on the ignore list and not in gid2edge.
MergeSeedOnly == Merging([e \in Edges |->
    IF e \in call.edges \/ (weight[e] = 0 /\ ~Ignored(e)) THEN weight[e] + new_edges[e]
                                                          ELSE weight[e]])

\* The first report of an edge is the edge, the others are merged into it.
MergeEdges == Merging([e \in Edges |-> IF Ignored(e) THEN 0 ELSE weight[e] + new_edges[e]])

Finish == /\ phase = "next"
          /\ ~CanGoOn
          /\ phase' = "done"
          /\ UNCHANGED <<call, queue, visited, ignore_entity_ids, current, to_ask,
                         neighbors, new_edges, weight, replies>>

Next == Skip \/ Visit \/ Ask \/ AskRaises \/ Enqueue \/ MergeEdges \/ Finish

Spec == Init /\ [][Next]_vars

\* The collecting thread is scheduled and every subcollector answers.
FairSpec == Spec /\ WF_vars(Next)

-----------------------------------------------------------------------------
(* Properties *)

Elements(s) == {s[i] : i \in 1 .. Len(s)}
Near(n) == UNION {Elements(replies[n][c].near) : c \in Collectors}

\* However often an entity is queued (by several neighbours, by the seed graph
\* and a neighbour), subcollectors are asked about it once: its reports would
\* be merged twice.
VisitedOnce == \A i, j \in 1 .. Len(visited) : visited[i] = visited[j] => i = j

\* Everything expanded is in the seed graph or next to something expanded before.
Reached == \A i \in 1 .. Len(visited) :
              \/ visited[i] \in Elements(call.nodes)
              \/ \E j \in 1 .. (i - 1) : visited[i] \in Near(visited[j])

\* A collection that was not cut short has expanded the seed graph and all that
\* was answered about what it expanded, up to what it was told to ignore:
\* nothing is lost between the queue, its duplicates and the ignore set.
Complete == phase = "done" /\ Len(visited) < call.max_iterations =>
    \A n \in Elements(call.nodes) \cup UNION {Near(m) : m \in Elements(visited)} :
        n \in Elements(visited) \cup call.ignore_entities

\* Between expansions an edge of the graph has had every report merged into it,
\* once, whichever ends of it were expanded, and an ignored edge has none.
Reports(e) == MapThenSumSet(LAMBDA p : replies[p[1]][p[2]].links[e],
                            Elements(visited) \X Collectors)
MergedOnce == phase \in {"next", "done"} => \A e \in Edges :
    weight[e] = IF e \in call.edges THEN 1 + Reports(e)
                ELSE IF e \in call.ignore_edges THEN 0
                ELSE Reports(e)

\* A collection ends, whatever is answered.
Ends == <>(phase \in {"done", "failed"})

-----------------------------------------------------------------------------
(* What the source says of itself and the code does not keep *)

\* "Provides unified neighbor discovery across all data sources": whoever
\* claims an entity's class, by name or as the base class, is asked about it.
AllSourcesAsked ==
    [][Visit => \A c \in Collectors : Claims(c, KindOf[current']) => c \in to_ask']_vars
=============================================================================
