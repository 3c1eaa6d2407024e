---------------------------- MODULE SubscriberHub ----------------------------
(***************************************************************************)
(* The subscribers of the core's graphs: the collection that broadcasts a    *)
(* graph, the routes by which clients add and remove subscribers, and the    *)
(* memory subscriber from which get_last_graph answers.  A broadcast works   *)
(* on a copy of the dictionary's values; each asynchronous subscriber gets   *)
(* every graph in a thread of its own.                                       *)
(***************************************************************************)
EXTENDS Integers, SequencesExt

CONSTANTS
    Names,          \* names of subscribers
    Memory,         \* the name the core gave its memory subscriber
    MaxGraphs,      \* graphs broadcast: a bound of the model
    MaxSubscribers  \* subscribers created: a bound of the model

ASSUME HubAssumption ==
    /\ Memory \in Names
    /\ MaxGraphs \in Nat /\ MaxSubscribers \in Nat \ {0}

VARIABLES
    subscribers,    \* the dictionary, in order: records of a name and a subscriber's number
    made,           \* async_notify of the subscribers there are
    graph,          \* the graph being broadcast, or the last one
    targets,        \* notify_targets still to be told
    threads,        \* asynchronous deliveries under way: <<subscriber, graph>>
    received,       \* what each subscriber got, in order
    failed,         \* history: subscribers that raised, and over which graph
    checked         \* a DELETE that has seen its name in the dictionary

hub_vars == <<subscribers, made, graph, targets, threads, received, failed, checked>>

Numbers == 1..MaxSubscribers
NoName == ""
Entry(name, sub) == [name |-> name, sub |-> sub]
Registered == {subscribers[i].sub : i \in DOMAIN subscribers}

\* The core's own, synchronous, is subscriber 1.
HubInit ==
    /\ subscribers = <<Entry(Memory, 1)>>
    /\ made = <<FALSE>>
    /\ graph = 0 /\ targets = <<>> /\ threads = {} /\ failed = {} /\ checked = NoName
    /\ received = [n \in Numbers |-> <<>>]

-----------------------------------------------------------------------------
(* The routes. *)

\* Mutant: the entry is found by its number in the dictionary.
OthersButFirst(name) == IF subscribers = <<>> THEN <<>> ELSE Tail(subscribers)

\* The dictionary without a name: what was behind its entry moves up.
Others(name) ==
    IF \E i \in DOMAIN subscribers : subscribers[i].name = name
      THEN RemoveAt(subscribers, CHOOSE i \in DOMAIN subscribers : subscribers[i].name = name)
      ELSE subscribers

\* POST /subscriber: an unknown type or unknown fields are refused, else the
\* subscriber takes its name over from whoever has it.
RegisterSubscriberRoute ==
    \E name \in Names, async \in BOOLEAN :
        /\ Len(made) < MaxSubscribers
        /\ made' = Append(made, async)
        /\ subscribers' = Append(Others(name), Entry(name, Len(made')))
        /\ UNCHANGED <<graph, targets, threads, received, failed, checked>>

\* DELETE /subscriber/{name}: the look is not under the lock.
DeleteRouteLook ==
    /\ checked = NoName
    /\ \E i \in DOMAIN subscribers : checked' = subscribers[i].name
    /\ UNCHANGED <<subscribers, made, graph, targets, threads, received, failed>>

DeleteRoute ==
    /\ checked # NoName /\ checked' = NoName
    /\ subscribers' = Others(checked)
    /\ UNCHANGED <<made, graph, targets, threads, received, failed>>
-----------------------------------------------------------------------------
(* SubscriberCollection.notify: one broadcast at a time, that of the loop. *)

Notify ==
    /\ targets = <<>> /\ graph < MaxGraphs
    /\ graph' = graph + 1
    /\ targets' = [i \in DOMAIN subscribers |-> subscribers[i].sub]
    /\ UNCHANGED <<subscribers, made, threads, received, failed, checked>>

Receive(n, g) == received' = [received EXCEPT ![n] = Append(@, g)]

\* Mutant: what a subscriber raises ends the broadcast.
DeliverOrAbort ==
    /\ targets # <<>> /\ ~made[Head(targets)]
    /\ \/ Receive(Head(targets), graph) /\ targets' = Tail(targets) /\ UNCHANGED failed
       \/ /\ Head(targets) # 1
          /\ failed' = failed \cup {<<Head(targets), graph>>}
          /\ targets' = <<>>
          /\ UNCHANGED received
    /\ UNCHANGED <<subscribers, made, graph, threads, checked>>

\* Any but the memory subscriber may raise; it is logged and the next one told.
Deliver ==
    /\ targets # <<>> /\ ~made[Head(targets)]
    /\ \/ Receive(Head(targets), graph) /\ UNCHANGED failed
       \/ /\ Head(targets) # 1
          /\ failed' = failed \cup {<<Head(targets), graph>>}
          /\ UNCHANGED received
    /\ targets' = Tail(targets)
    /\ UNCHANGED <<subscribers, made, graph, threads, checked>>

DeliverAsync ==
    /\ targets # <<>> /\ made[Head(targets)]
    /\ threads' = threads \cup {<<Head(targets), graph>>}
    /\ targets' = Tail(targets)
    /\ UNCHANGED <<subscribers, made, graph, received, failed, checked>>

AsyncReceive(d) ==
    /\ d \in threads /\ threads' = threads \ {d}
    /\ Receive(d[1], d[2])
    /\ UNCHANGED <<subscribers, made, graph, targets, failed, checked>>

HubNext ==
    \/ RegisterSubscriberRoute \/ DeleteRouteLook \/ DeleteRoute
    \/ Notify \/ Deliver \/ DeliverAsync
    \/ \E n \in Numbers, g \in 1..MaxGraphs : AsyncReceive(<<n, g>>)

HubSpec == HubInit /\ [][HubNext]_hub_vars
-----------------------------------------------------------------------------
(* Properties. *)

HubTypeOK ==
    /\ subscribers \in Seq([name : Names, sub : 1..Len(made)])
    /\ made \in Seq(BOOLEAN) /\ Len(made) <= MaxSubscribers
    /\ graph \in 0..MaxGraphs /\ targets \in Seq(1..Len(made))
    /\ threads \subseteq Numbers \X (1..graph)
    /\ received \in [Numbers -> Seq(1..graph)]
    /\ failed \subseteq Numbers \X (1..graph) /\ checked \in Names \cup {NoName}

\* Nobody is told of a graph twice, and a synchronous subscriber hears of the
\* graphs in the order of their collection, however often it changed places
\* with others in the dictionary while it was walked.
HeardOnceInOrder ==
    \A n \in DOMAIN made :
        /\ IsInjective(received[n])
        /\ ~made[n] => \A i, j \in DOMAIN received[n] : i < j => received[n][i] < received[n][j]

\* When a broadcast is over, whoever heard of the graph before and is still
\* registered was told of this one too, whatever the subscribers before it
\* raised and whoever came and went meanwhile.
Told(n, g) == \/ \E i \in DOMAIN received[n] : received[n][i] = g
              \/ <<n, g>> \in failed \cup threads
EverybodyTold ==
    targets = <<>> =>
        \A n \in Registered : \A g \in 2..graph : Told(n, g - 1) => Told(n, g)

\* get_last_graph answers the last graph broadcast, as long as no client has
\* taken the name of the memory subscriber or deleted it.
LastGraphIsLatest ==
    targets = <<>> /\ graph > 0 /\ 1 \in Registered => Last(received[1]) = graph

BroadcastKept == HeardOnceInOrder /\ EverybodyTold /\ LastGraphIsLatest
=============================================================================
