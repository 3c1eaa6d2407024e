---- MODULE MCGraphCollection ----
(* Three processes and a socket.  The first subcollector knows both classes and
   may report an edge from either end, more than once; the second does not name
   a class, as the IPC collector, and the third names processes only. *)
EXTENDS GraphCollection
CONSTANTS p, q, r, s, process, socket

MCKindOf == [n \in Entities |-> IF n = s THEN socket ELSE process]
MCSupports == <<{process, socket}, {AnyKind}, {process}>>

Link(e, count) == [f \in Edges |-> IF f = e THEN count ELSE 0]
Answer(near, links) == [near |-> near, links |-> links]
SocketAnswers == [n \in Entities |->
    IF n = s THEN {Answer(<<p, q>>, Link("ps", 1)), Answer(<<q>>, NoLinks)}
             ELSE {Answer(<<s, s>>, Link("ps", 2))}]
ParentAnswers == [n \in Entities |->
    {Answer(<<p>>, Link("pr", 1)), Answer(<<q, r>>, Link("pr", 1))}]
MCAnswers == <<SocketAnswers, ParentAnswers, ParentAnswers>>

Call(nodes, edges, entities, ignored, max) ==
    [nodes |-> nodes, edges |-> edges, ignore_entities |-> entities,
     ignore_edges |-> ignored, max_iterations |-> max]
MCCalls == {Call(<<p>>, {}, {}, {}, 4),
            Call(<<p, r>>, {"pr"}, {}, {}, 4),
            Call(<<q, s>>, {}, {}, {"ps"}, 4),
            Call(<<p>>, {}, {q}, {"pr"}, 4),
            Call(<<p, s>>, {"ps"}, {}, {"ps"}, 2)}
====
