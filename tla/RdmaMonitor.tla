---------------------------- MODULE RdmaMonitor ----------------------------
(***************************************************************************)
(* The RDMA monitor takes a snapshot of the port counters every interval    *)
(* and keeps the difference to the one before.  Every session has an event  *)
(* of its own, which its thread takes from the monitor's attribute when it  *)
(* first runs; a stop waits a tenth of a second for the thread, outside of  *)
(* the lock, while one snapshot may take the commands it runs longer.       *)
(* RDMACollector, the one owner, calls start and stop in turn; the thread   *)
(* that collects the graph reads statistics and clears them meanwhile.      *)
(***************************************************************************)
EXTENDS Naturals

CONSTANT RdmaSessions    \* threads (and events) ever started: a bound of the model

ASSUME RdmaAssumption == RdmaSessions \in Nat

VARIABLES
    rcontrol,    \* where the owner's call is
    rthread,     \* _thread; 0 is None
    revent,      \* _stop_event, numbered by the session that made it; 0 is None
    rset,        \* the events that are set
    rpcs,        \* where each thread is
    rlocal,      \* stop_event of each thread
    rate         \* _stats_per_second holds a difference

rdmaControl == <<rcontrol, rthread, revent, rset>>
rdmaThreads == <<rpcs, rlocal>>
rdma_vars == <<rdmaControl, rdmaThreads, rate>>

Threads == 1..RdmaSessions
RLive(t) == rpcs[t] \in {"begin", "loop", "wait"}

\* __init__ takes the first snapshot.
RdmaInit ==
    /\ rcontrol = "idle" /\ rthread = 0 /\ revent = 0 /\ rset = {}
    /\ rpcs = [t \in Threads |-> "unborn"]
    /\ rlocal = [t \in Threads |-> 0]
    /\ rate = FALSE
-----------------------------------------------------------------------------
(* The owner. *)

RdmaStart ==
    /\ rcontrol = "idle"
    /\ ~(rthread # 0 /\ RLive(rthread))
    /\ \E t \in Threads :
        /\ \A u \in Threads : rpcs[u] = "unborn" <=> u >= t
        /\ rthread' = t /\ revent' = t
        /\ rpcs' = [rpcs EXCEPT ![t] = "begin"]
    /\ UNCHANGED <<rcontrol, rset, rlocal, rate>>

\* The first critical section of stop; a thread that has ended, even if by an
\* exception, leaves it nothing to do.
\* Mutant: a stop does not set the event.
RdmaStopUnset ==
    /\ rcontrol = "idle" /\ rcontrol' = "joining"
    /\ rthread # 0 /\ RLive(rthread) /\ revent # 0
    /\ UNCHANGED <<rthread, revent, rset, rdmaThreads, rate>>

RdmaStop ==
    /\ rcontrol = "idle" /\ rcontrol' = "joining"
    /\ rthread # 0 /\ RLive(rthread) /\ revent # 0
    /\ rset' = rset \cup {revent}
    /\ UNCHANGED <<rthread, revent, rdmaThreads, rate>>

\* join(0.1 s) and the second critical section: the handles go, whether the
\* thread has ended or not.
RdmaJoin ==
    /\ rcontrol = "joining" /\ rcontrol' = "idle"
    /\ rthread' = 0 /\ revent' = 0
    /\ UNCHANGED <<rset, rdmaThreads, rate>>
-----------------------------------------------------------------------------
(* The difference of two snapshots: _update makes one, and a query does so    *)
(* when there is none, all under the lock; clear makes one and forgets it.    *)
Update == rate' = TRUE

RdmaQuery == Update /\ UNCHANGED <<rdmaControl, rdmaThreads>>

RdmaClear == rate' = FALSE /\ UNCHANGED <<rdmaControl, rdmaThreads>>
-----------------------------------------------------------------------------
(* _loop. *)
RStep(t, from, to) == rpcs[t] = from /\ rpcs' = [rpcs EXCEPT ![t] = to]

RdmaBegin(t) ==
    /\ RStep(t, "begin", IF revent = 0 THEN "done" ELSE "loop")
    /\ rlocal' = [rlocal EXCEPT ![t] = revent]
    /\ UNCHANGED <<rdmaControl, rate>>

\* One round under the lock; the output of the rdma command may raise out of
\* _update, which ends the thread.
RdmaRound(t) ==
    /\ \/ /\ rlocal[t] \in rset
          /\ RStep(t, "loop", "done")
          /\ UNCHANGED rate
       \/ /\ rlocal[t] \notin rset
          /\ RStep(t, "loop", "wait")
          /\ Update
       \/ /\ rlocal[t] \notin rset
          /\ RStep(t, "loop", "raised")
          /\ UNCHANGED rate
    /\ UNCHANGED <<rdmaControl, rlocal>>

RdmaPause(t) ==
    /\ RStep(t, "wait", IF rlocal[t] \in rset THEN "done" ELSE "loop")
    /\ UNCHANGED <<rdmaControl, rlocal, rate>>

RdmaThreadStep(t) == RdmaBegin(t) \/ RdmaRound(t) \/ RdmaPause(t)

RdmaNext ==
    \/ RdmaStart \/ RdmaStop \/ RdmaJoin \/ RdmaQuery \/ RdmaClear
    \/ \E t \in Threads : RdmaThreadStep(t)

RdmaSpec == RdmaInit /\ [][RdmaNext]_rdma_vars

\* Every thread is scheduled.
RdmaFairness == \A t \in Threads : WF_rdma_vars(RdmaThreadStep(t))

RdmaFairSpec == RdmaSpec /\ RdmaFairness
-----------------------------------------------------------------------------
(* Properties. *)

RdmaTypeOK ==
    /\ rcontrol \in {"idle", "joining"}
    /\ rthread \in Threads \cup {0} /\ revent \in Threads \cup {0}
    /\ rset \subseteq Threads
    /\ rpcs \in [Threads -> {"unborn", "begin", "loop", "wait", "done", "raised"}]
    /\ rlocal \in [Threads -> Threads \cup {0}]
    /\ rate \in BOOLEAN

NobodyRaised == \A t \in Threads : rpcs[t] # "raised"

\* A thread that a stop gave up on is still under control: its event is set,
\* or it took the event of the session that is open, which the next stop will
\* set.  Only after a thread has raised does a stop find that "monitoring is
\* not running" and set nothing.
RdmaReachable ==
    NobodyRaised =>
        \A t \in Threads : rpcs[t] \in {"loop", "wait"} =>
            rlocal[t] \in rset \/ (rlocal[t] = revent /\ rthread = revent /\ RLive(rthread))

\* Between a stop and the next start every thread ends, those that outlived
\* their join included.
RdmaThreadsEnd ==
    rthread = 0 ~> (\A t \in Threads : ~RLive(t)) \/ rthread # 0 \/ ~NobodyRaised
=============================================================================
