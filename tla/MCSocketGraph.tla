---- MODULE MCSocketGraph ----
(* Two processes send to a socket, one of them from two ports; a third receives. *)
EXTENDS SocketGraph
CONSTANTS p, q, r, s, process, socket

MCRows == {[function |-> "send", pid |-> p, socket |-> s, port |-> 1],
           [function |-> "send", pid |-> p, socket |-> s, port |-> 2],
           [function |-> "send", pid |-> q, socket |-> s, port |-> 1],
           [function |-> "recv", pid |-> r, socket |-> s, port |-> 1]}
MCEdges == {<<p, s>>, <<q, s>>}
MCKindOf == [n \in Entities |-> IF n = s THEN socket ELSE process]
MCSupports == <<{process, socket}>>
MCAnswers == <<[n \in Entities |-> {SocketAnswer(n)}]>>
MCCalls == {[nodes |-> <<n>>, edges |-> {}, ignore_entities |-> {}, ignore_edges |-> {},
             max_iterations |-> 4] : n \in {p, q, r}}
====
