------------------------------ MODULE SocketGraph ------------------------------
(***************************************************************************)
(* What the socket collector answers, from the rows its sniffer holds: the  *)
(* sends and receives of processes at sockets (without thread nodes and     *)
(* filter).  A row is found from the process and from the socket.            *)
(***************************************************************************)
EXTENDS GraphCollection, SequencesExt

CONSTANT Rows       \* records of a function, a pid and a socket

Sends == {row \in Rows : row.function = "send"}

\* SendToSocketEdge; the edges of a receiver carry no data.
EdgeOf(row) == <<row.pid, row.socket>>

At(n) == {row \in Rows : n \in {row.pid, row.socket}}
Other(row, n) == IF n = row.pid THEN row.socket ELSE row.pid

SocketAnswer(n) ==
    [near |-> SetToSeq({Other(row, n) : row \in At(n)}),
     links |-> [e \in Edges |-> Cardinality({row \in At(n) \cap Sends : EdgeOf(row) = e})]]

-----------------------------------------------------------------------------
(* What the source says of itself and the code does not keep *)

\* "data_size: Total bytes transferred": the data flow of an edge is that of
\* the rows about it, each counted once.
TrafficCountedOnce == phase = "done" =>
    \A e \in Edges : weight[e] <= Cardinality({row \in Sends : EdgeOf(row) = e})
=============================================================================
