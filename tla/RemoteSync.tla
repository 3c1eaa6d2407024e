------------------------------ MODULE RemoteSync ------------------------------
(***************************************************************************)
(* Remote collectors of several hosts, the masters, and the slave host they *)
(* collect from.  Each master's RemoteCollector starts and stops collection *)
(* on the slave over HTTP, where it is counted, and runs a thread that       *)
(* fetches the slave's graph into a cache.                                   *)
(*                                                                         *)
(* A POST may be answered; it may fail without having been executed; or it  *)
(* may go unanswered and be executed all the same, at once (its answer is    *)
(* lost, or is an error) or later (the slave's event loop was blocked).       *)
(*                                                                         *)
(* start and stop of a collector are serialised by the lock of its host's   *)
(* core.  The n-th start of a master makes its n-th thread and stop event;   *)
(* 0 is the event a collector is made with.  Graphs are numbered in the      *)
(* order in which the slave keeps them, 0 is the empty graph.                *)
(***************************************************************************)
EXTENDS Naturals, FiniteSets

CONSTANTS Masters,
          MaxStarts,      \* bound: starts tried by a master
          MaxUnanswered,  \* bound: POSTs executed and not answered
          MaxGraphs,      \* bound: graphs of the slave that count as new
          MaxRestarts     \* bound: restarts of the slave

ASSUME RemoteAssumption == /\ IsFiniteSet(Masters)
                           /\ MaxStarts \in Nat
                           /\ MaxUnanswered \in Nat
                           /\ MaxGraphs \in Nat
                           /\ MaxRestarts \in Nat

Starts == 1 .. MaxStarts

VARIABLES started,        \* _started
          stop_event,     \* _stop_event and, of the same number, _sync_thread
          event_set,      \* stop events that are set
          call,           \* where a master's start or stop is
          starts,         \* starts tried
          thread_pc,      \* where each sync thread is
          in_hand,        \* the graph a thread has fetched and not stored yet
          cached,         \* _cached_graph
          references,     \* _running of the slave's core
          late_starts,    \* starts and ...
          late_stops,     \* ... stops the slave has still to execute
          slave_graph,    \* the slave's latest graph
          collections,    \* graphs the slave has kept
          unanswered,     \* history: POSTs executed and not answered
          stop_failed,    \* history: masters with a stop that raised
          outlived,       \* history: masters with a join that timed out
          restarts        \* history: restarts of the slave

lifecycle == <<started, stop_event, event_set, call, starts>>
syncing == <<thread_pc, in_hand, cached>>
counting == <<references, late_starts, late_stops, unanswered>>
collecting == <<slave_graph, collections, restarts>>
failures == <<stop_failed, outlived>>
vars == <<started, stop_event, event_set, call, starts, thread_pc, in_hand, cached,
          references, late_starts, late_stops, slave_graph, collections, unanswered,
          stop_failed, outlived, restarts>>

Alive == {"check", "trigger", "fetch", "store", "wait"}

TypeOK == /\ started \in [Masters -> BOOLEAN]
          /\ stop_event \in [Masters -> 0 .. MaxStarts]
          /\ event_set \in [Masters -> SUBSET Starts]
          /\ call \in [Masters -> {"idle", "join", "stop"}]
          /\ starts \in [Masters -> 0 .. MaxStarts]
          /\ thread_pc \in [Masters -> [Starts -> Alive \cup {"none", "dead"}]]
          /\ in_hand \in [Masters -> [Starts -> Nat]]
          /\ cached \in [Masters -> Nat]
          /\ references \in Nat
          /\ late_starts \in Nat
          /\ late_stops \in Nat
          /\ slave_graph \in Nat
          /\ collections \in Nat
          /\ unanswered \in Nat
          /\ stop_failed \subseteq Masters
          /\ outlived \subseteq Masters
          /\ restarts \in Nat

\* run_online has started the slave's core once, before it serves.
Init == /\ started = [m \in Masters |-> FALSE]
        /\ stop_event = [m \in Masters |-> 0]
        /\ event_set = [m \in Masters |-> {}]
        /\ call = [m \in Masters |-> "idle"]
        /\ starts = [m \in Masters |-> 0]
        /\ thread_pc = [m \in Masters |-> [t \in Starts |-> "none"]]
        /\ in_hand = [m \in Masters |-> [t \in Starts |-> 0]]
        /\ cached = [m \in Masters |-> 0]
        /\ references = 1
        /\ late_starts = 0
        /\ late_stops = 0
        /\ slave_graph = 0
        /\ collections = 0
        /\ unanswered = 0
        /\ stop_failed = {}
        /\ outlived = {}
        /\ restarts = 0

-----------------------------------------------------------------------------
(* The slave: WittyProfilerCore.start and stop behind the control routes *)

\* Mutant: a stop is counted whether the core runs or not.
UncheckedDrop == references' = references - 1

Drop == references' = IF references = 0 THEN 0 ELSE references - 1

ServeLateStart == /\ late_starts > 0
                  /\ late_starts' = late_starts - 1
                  /\ references' = references + 1
                  /\ UNCHANGED <<lifecycle, syncing, late_stops, unanswered, collecting,
                                 failures>>

ServeLateStop == /\ late_stops > 0
                 /\ late_stops' = late_stops - 1
                 /\ Drop
                 /\ UNCHANGED <<lifecycle, syncing, late_starts, unanswered, collecting,
                                failures>>

\* The slave comes back with its own reference and no graph.
Restart == /\ restarts < MaxRestarts
           /\ restarts' = restarts + 1
           /\ references' = 1
           /\ late_starts' = 0
           /\ late_stops' = 0
           /\ slave_graph' = 0
           /\ UNCHANGED <<lifecycle, syncing, collections, unanswered, failures>>

\* At the bound a graph counts as unchanged.
KeepGraph == IF collections < MaxGraphs
               THEN /\ collections' = collections + 1
                    /\ slave_graph' = collections + 1
               ELSE UNCHANGED <<collections, slave_graph>>

\* The slave's own loop, another client, or a trigger nobody waits for any more.
Collect == /\ KeepGraph
           /\ UNCHANGED <<lifecycle, syncing, counting, restarts, failures>>

-----------------------------------------------------------------------------
(* start() *)

Try(m) == /\ call[m] = "idle"
          /\ ~started[m]
          /\ starts[m] < MaxStarts
          /\ starts' = [starts EXCEPT ![m] = starts[m] + 1]

Start(m) == /\ Try(m)
            /\ references' = references + 1
            /\ stop_event' = [stop_event EXCEPT ![m] = starts[m] + 1]
            /\ thread_pc' = [thread_pc EXCEPT ![m][starts[m] + 1] = "check"]
            /\ started' = [started EXCEPT ![m] = TRUE]
            /\ UNCHANGED <<event_set, call, in_hand, cached, late_starts, late_stops,
                           unanswered, collecting, failures>>

NoAnswer == /\ unanswered < MaxUnanswered
            /\ unanswered' = unanswered + 1

\* The POST raises: never executed, or executed by and by.
StartTried(m) == /\ Try(m)
                 /\ \/ UNCHANGED <<late_starts, unanswered>>
                    \/ NoAnswer /\ late_starts' = late_starts + 1
                 /\ UNCHANGED <<stop_event, event_set, call, syncing, references,
                                late_stops, collecting, failures>>

\* Mutant: the collector counts as started before the POST.
StartRaisesStarted(m) == StartTried(m) /\ started' = [started EXCEPT ![m] = TRUE]

StartRaises(m) == StartTried(m) /\ UNCHANGED started

-----------------------------------------------------------------------------
(* stop() *)

Signal(m, signalled) == /\ call[m] = "idle"
                        /\ started[m]
                        /\ event_set' = [event_set EXCEPT ![m] = @ \cup signalled]
                        /\ call' = [call EXCEPT ![m] = "join"]
                        /\ UNCHANGED <<started, stop_event, starts, syncing, counting,
                                       collecting, failures>>

\* Mutant: the thread is not told.
StopUnsignalled(m) == Signal(m, {})

Stop(m) == Signal(m, {stop_event[m]})

SyncThreadAlive(m) == stop_event[m] # 0 /\ thread_pc[m][stop_event[m]] \in Alive

Joined(m) == /\ call[m] = "join"
             /\ call' = [call EXCEPT ![m] = "stop"]
             /\ UNCHANGED <<started, stop_event, event_set, starts, syncing, counting,
                            collecting, stop_failed>>

\* Mutant: the thread is not waited for.
NoJoin(m) == Joined(m) /\ UNCHANGED outlived

Join(m) == ~SyncThreadAlive(m) /\ NoJoin(m)

JoinTimesOut(m) == /\ SyncThreadAlive(m)
                   /\ Joined(m)
                   /\ outlived' = outlived \cup {m}

StopAnswered(m) == /\ call[m] = "stop"
                   /\ Drop
                   /\ started' = [started EXCEPT ![m] = FALSE]
                   /\ call' = [call EXCEPT ![m] = "idle"]
                   /\ UNCHANGED <<stop_event, event_set, starts, syncing, late_starts,
                                  late_stops, unanswered, collecting, failures>>

\* The POST raises and _started stays as it is.
StopRaises(m) == /\ call[m] = "stop"
                 /\ call' = [call EXCEPT ![m] = "idle"]
                 /\ \/ UNCHANGED <<late_stops, unanswered>>
                    \/ NoAnswer /\ late_stops' = late_stops + 1
                 /\ stop_failed' = stop_failed \cup {m}
                 /\ UNCHANGED <<started, stop_event, event_set, starts, syncing, references,
                                late_starts, collecting, outlived>>

-----------------------------------------------------------------------------
(* _sync_loop and _do_sync of thread t.  The loop tests self._stop_event,    *)
(* which is the event of the latest start and not that of the thread.         *)

ThreadGoto(m, t, place) == thread_pc' = [thread_pc EXCEPT ![m][t] = place]

Check(m, t) ==
    /\ thread_pc[m][t] = "check"
    /\ ThreadGoto(m, t, IF stop_event[m] \in event_set[m] THEN "dead" ELSE "trigger")
    /\ UNCHANGED <<lifecycle, in_hand, cached, counting, collecting, failures>>

Trigger(m, t) == /\ thread_pc[m][t] = "trigger"
                 /\ ThreadGoto(m, t, "fetch")
                 /\ KeepGraph
                 /\ UNCHANGED <<lifecycle, in_hand, cached, counting, restarts, failures>>

Fetch(m, t) == /\ thread_pc[m][t] = "fetch"
               /\ in_hand' = [in_hand EXCEPT ![m][t] = slave_graph]
               /\ ThreadGoto(m, t, "store")
               /\ UNCHANGED <<lifecycle, cached, counting, collecting, failures>>

SyncFails(m, t, place) == /\ thread_pc[m][t] \in {"trigger", "fetch"}
                          /\ ThreadGoto(m, t, place)
                          /\ UNCHANGED <<lifecycle, in_hand, cached, counting, collecting,
                                         failures>>

\* Mutant: an error ends the loop.
SyncErrorEnds(m, t) == SyncFails(m, t, "dead")

\* An error is logged; the next round tries again.
SyncError(m, t) == SyncFails(m, t, "wait")

Store(m, t) == /\ thread_pc[m][t] = "store"
               /\ cached' = [cached EXCEPT ![m] = in_hand[m][t]]
               /\ in_hand' = [in_hand EXCEPT ![m][t] = 0]
               /\ ThreadGoto(m, t, "wait")
               /\ UNCHANGED <<lifecycle, counting, collecting, failures>>

\* The interval is over or the event is set: either way the loop tests again.
Wake(m, t) == /\ thread_pc[m][t] = "wait"
              /\ ThreadGoto(m, t, "check")
              /\ UNCHANGED <<lifecycle, in_hand, cached, counting, collecting, failures>>

\* clear(), of any thread and at any time; the POST was answered.
Clear(m) == /\ cached[m] # 0
            /\ cached' = [cached EXCEPT ![m] = 0]
            /\ UNCHANGED <<lifecycle, thread_pc, in_hand, counting, collecting, failures>>

-----------------------------------------------------------------------------
ThreadStep(m, t) == \/ Check(m, t) \/ Trigger(m, t) \/ Fetch(m, t) \/ SyncError(m, t)
                    \/ Store(m, t) \/ Wake(m, t)

StopStep(m) == Join(m) \/ JoinTimesOut(m) \/ StopAnswered(m) \/ StopRaises(m)

Next == \/ \E m \in Masters :
             \/ Start(m) \/ StartRaises(m) \/ Stop(m) \/ StopStep(m) \/ Clear(m)
             \/ \E t \in Starts : ThreadStep(m, t)
        \/ ServeLateStart \/ ServeLateStop \/ Restart \/ Collect

Spec == Init /\ [][Next]_vars

\* Threads are scheduled and every HTTP call has a time-out.
Fairness == \A m \in Masters : /\ WF_vars(StopStep(m))
                               /\ \A t \in Starts : WF_vars(ThreadStep(m, t))

FairSpec == Spec /\ Fairness

-----------------------------------------------------------------------------
(* Properties *)

Holders == {m \in Masters : started[m]}

\* Requests for starting that are lost, late or unanswered can only leave
\* references behind; unless a stop has failed or the slave was restarted, no
\* master ever drops the reference of another one or the slave's own.
NobodyRobbed ==
    stop_failed = {} /\ restarts = 0 => references >= 1 + Cardinality(Holders)

\* Without a join that timed out there is one sync thread at a time.
OneSyncThread == \A m \in Masters \ outlived : \A t, u \in Starts :
    thread_pc[m][t] \in Alive /\ thread_pc[m][u] \in Alive => t = u

\* No failure of a sync ends syncing: unless one of its stops has failed, a
\* started collector has its thread.
StartedSyncs == \A m \in Masters \ stop_failed :
    started[m] /\ call[m] = "idle" => SyncThreadAlive(m)

CacheStep == \A m \in Masters \ outlived :
                 cached'[m] = 0 \/ cached'[m] >= cached[m]

\* The cache does not go back to an older graph of the slave, unless a thread
\* outlived its join and races with its successor.
CacheMovesOn == [][CacheStep]_vars

\* After the last stop every sync thread ends, those that outlived an earlier
\* stop and were taken over by a later start as well.
SyncingEnds == \A m \in Masters :
    <>[](~started[m]) => <>[](\A t \in Starts : thread_pc[m][t] \notin Alive)

-----------------------------------------------------------------------------
(* What the source says of itself and the code does not keep *)

\* "Stop the remote server collection and background sync thread.": a thread
\* that was told to stop does not begin another sync.
StoppedThreadIsStopped == [][\A m \in Masters, t \in Starts :
    t \in event_set[m] /\ thread_pc[m][t] = "check" => thread_pc'[m][t] # "trigger"]_vars
=============================================================================
