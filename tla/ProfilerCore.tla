----------------------------- MODULE ProfilerCore -----------------------------
(***************************************************************************)
(* The orchestrator: WittyProfilerCore with the CollectorSet it drives.     *)
(* Callers (the server's main thread, the handlers of the control routes,   *)
(* users of the facade) start and stop it by reference counting under one   *)
(* RLock; every first start makes a new collection loop with a stop event   *)
(* of its own; loops and callers collect and publish graphs without the     *)
(* lock.  Any call into a collector may raise.                              *)
(*                                                                         *)
(* A loop thread and the threading.Event made with it have one identity,    *)
(* the number of the start that made them; 0 stands for None.  A graph is   *)
(* the stamp of its collection: the n-th collection to complete yields n.   *)
(***************************************************************************)
EXTENDS Naturals

CONSTANTS Callers,      \* threads that call the core
          NoCaller,     \* the lock is free
          Collectors,   \* number of subcollectors, started and stopped in order
          MaxLoops,     \* bound: loops made
          MaxRefs,      \* bound: references held by callers
          MaxRounds     \* bound: collections begun

ASSUME CoreAssumption == /\ NoCaller \notin Callers
                         /\ Collectors \in Nat
                         /\ MaxLoops \in Nat
                         /\ MaxRefs \in Nat
                         /\ MaxRounds \in Nat

Loops == 1 .. MaxLoops
Subcollectors == 1 .. Collectors

VARIABLES running,       \* _running
          thread,        \* _thread
          stop_event,    \* _stop_event
          event_set,     \* the stop events that are set
          lock,          \* holder of the RLock
          start_status,  \* CollectorSet._start_status
          up,            \* subcollectors that have been started
          cursor,        \* position of the loop over subcollectors
          pc,            \* where each caller is
          loops,         \* loops made so far
          loop_pc,       \* where each loop thread is
          rounds,        \* collections begun
          graphs,        \* collections completed
          in_hand,       \* the graph a loop or ...
          in_call,       \* ... a caller has collected and not yet published
          latest,        \* latest_graph of the memory subscriber
          raised         \* history: some collector call has raised

lifecycle == <<running, thread, stop_event, event_set, lock, loops>>
set_vars == <<start_status, up, cursor>>
data == <<rounds, graphs, in_hand, in_call, latest>>
vars == <<running, thread, stop_event, event_set, lock, loops, start_status, up,
          cursor, pc, loop_pc, rounds, graphs, in_hand, in_call, latest, raised>>

LockedAt == {"start_collectors", "start_thread", "stop_collectors", "join"}
CallerAt == LockedAt \cup {"idle", "collect", "notify"}
Alive == {"check", "wait", "collect", "notify"}
LoopAt == Alive \cup {"none", "created", "dead"}

TypeOK == /\ running \in Nat
          /\ thread \in 0 .. MaxLoops
          /\ stop_event \in 0 .. MaxLoops
          /\ event_set \subseteq Loops
          /\ lock \in Callers \cup {NoCaller}
          /\ start_status \in BOOLEAN
          /\ up \subseteq Subcollectors
          /\ cursor \in 1 .. (Collectors + 1)
          /\ pc \in [Callers -> CallerAt]
          /\ loops \in 0 .. MaxLoops
          /\ loop_pc \in [Loops -> LoopAt]
          /\ rounds \in Nat
          /\ graphs \in Nat
          /\ in_hand \in [Loops -> Nat]
          /\ in_call \in [Callers -> Nat]
          /\ latest \in Nat
          /\ raised \in BOOLEAN

Init == /\ running = 0
        /\ thread = 0
        /\ stop_event = 0
        /\ event_set = {}
        /\ lock = NoCaller
        /\ start_status = FALSE
        /\ up = {}
        /\ cursor = 1
        /\ pc = [c \in Callers |-> "idle"]
        /\ loops = 0
        /\ loop_pc = [l \in Loops |-> "none"]
        /\ rounds = 0
        /\ graphs = 0
        /\ in_hand = [l \in Loops |-> 0]
        /\ in_call = [c \in Callers |-> 0]
        /\ latest = 0
        /\ raised = FALSE

-----------------------------------------------------------------------------
Goto(c, place) == pc' = [pc EXCEPT ![c] = place]
Release(c) == /\ lock' = NoCaller
              /\ Goto(c, "idle")

Fail == /\ raised' = TRUE
        /\ UNCHANGED <<running, thread, stop_event, event_set, loops, set_vars, loop_pc,
                       data>>

\* Mutant: the lock is acquired and released by hand, and not on this path.
RaiseHoldingLock(c) == Goto(c, "idle") /\ UNCHANGED lock /\ Fail

\* An exception out of a collector ends the call; "with" releases the lock.
Raise(c) == Release(c) /\ Fail

-----------------------------------------------------------------------------
(* start() *)

\* Already running: one more reference.
StartNested(c) == /\ pc[c] = "idle"
                  /\ lock = NoCaller
                  /\ running > 0
                  /\ running < MaxRefs
                  /\ running' = running + 1
                  /\ UNCHANGED <<thread, stop_event, event_set, lock, loops, set_vars,
                                 pc, loop_pc, data, raised>>

\* A new event and a new, not yet started, thread; then CollectorSet.start,
\* which returns at once if the set believes it is started.
NewLoop(c) == /\ pc[c] = "idle"
              /\ lock = NoCaller
              /\ loops < MaxLoops
              /\ lock' = c
              /\ running' = 1
              /\ loops' = loops + 1
              /\ thread' = loops + 1
              /\ stop_event' = loops + 1
              /\ loop_pc' = [loop_pc EXCEPT ![loops + 1] = "created"]
              /\ cursor' = 1
              /\ Goto(c, IF start_status THEN "start_thread" ELSE "start_collectors")
              /\ UNCHANGED <<event_set, start_status, up, data, raised>>

\* Mutant: the test of _running is gone.
StartAlways(c) == NewLoop(c)

StartFirst(c) == running = 0 /\ NewLoop(c)

StartCollector(c) == /\ pc[c] = "start_collectors"
                     /\ cursor <= Collectors
                     /\ up' = up \cup {cursor}
                     /\ cursor' = cursor + 1
                     /\ UNCHANGED <<lifecycle, start_status, pc, loop_pc, data, raised>>

\* The next subcollector, which a start or a stop has come to, raises.
CollectorRaises(c) == /\ pc[c] \in {"start_collectors", "stop_collectors"}
                      /\ cursor <= Collectors
                      /\ Raise(c)

StartCollectorsDone(c) ==
    /\ pc[c] = "start_collectors"
    /\ cursor > Collectors
    /\ start_status' = TRUE
    /\ Goto(c, "start_thread")
    /\ UNCHANGED <<lifecycle, up, cursor, loop_pc, data, raised>>

StartThread(c) == /\ pc[c] = "start_thread"
                  /\ loop_pc' = [loop_pc EXCEPT ![thread] = "check"]
                  /\ Release(c)
                  /\ UNCHANGED <<running, thread, stop_event, event_set, loops, set_vars,
                                 data, raised>>

-----------------------------------------------------------------------------
(* stop(): a stop of a core that is not running changes nothing.  *)

DropReference(c) == /\ pc[c] = "idle"
                    /\ lock = NoCaller
                    /\ running' = running - 1
                    /\ UNCHANGED <<thread, stop_event, event_set, lock, loops, set_vars,
                                   pc, loop_pc, data, raised>>

\* Mutant: a stop of a core that is not running counts.
StopUnguarded(c) == running # 1 /\ DropReference(c)

StopNested(c) == running > 1 /\ DropReference(c)

\* The last reference: signal the loop, then CollectorSet.stop, which returns
\* at once if the set believes it is stopped.
Shutdown(c, signalled) ==
    /\ pc[c] = "idle"
    /\ lock = NoCaller
    /\ running = 1
    /\ lock' = c
    /\ running' = 0
    /\ event_set' = event_set \cup signalled
    /\ cursor' = 1
    /\ Goto(c, IF start_status THEN "stop_collectors" ELSE "join")
    /\ UNCHANGED <<thread, stop_event, loops, start_status, up, loop_pc, data, raised>>

\* Mutant: the event is not set, _running alone is to end the loop.
StopSilently(c) == Shutdown(c, {})

StopLast(c) == Shutdown(c, {stop_event})

StopCollector(c) == /\ pc[c] = "stop_collectors"
                    /\ cursor <= Collectors
                    /\ up' = up \ {cursor}
                    /\ cursor' = cursor + 1
                    /\ UNCHANGED <<lifecycle, start_status, pc, loop_pc, data, raised>>

AllStopped(c) == /\ pc[c] = "stop_collectors"
                 /\ cursor > Collectors
                 /\ Goto(c, "join")
                 /\ UNCHANGED <<running, thread, stop_event, event_set, loops, up, cursor,
                                loop_pc, data, raised>>

\* Mutant: the join is left outside the lock.
JoinUnlocked(c) == AllStopped(c) /\ start_status' = FALSE /\ lock' = NoCaller

\* Mutant: the set goes on believing that it is started.
StatusKept(c) == AllStopped(c) /\ UNCHANGED <<start_status, lock>>

StopCollectorsDone(c) == AllStopped(c) /\ start_status' = FALSE /\ UNCHANGED lock

\* join(timeout=1.0) returns when the loop is dead or the second is over.
Join(c) == /\ pc[c] = "join"
           /\ loop_pc[thread] # "created"
           /\ thread' = 0
           /\ stop_event' = 0
           /\ Release(c)
           /\ UNCHANGED <<running, event_set, loops, set_vars, loop_pc, data, raised>>

\* A thread that was never started cannot be joined: the handles stay.
JoinRaises(c) == /\ pc[c] = "join"
                 /\ loop_pc[thread] = "created"
                 /\ Raise(c)

-----------------------------------------------------------------------------
(* trigger_collect() of a caller: no lock *)

Trigger(c) == /\ pc[c] = "idle"
              /\ rounds < MaxRounds
              /\ rounds' = rounds + 1
              /\ Goto(c, "collect")
              /\ UNCHANGED <<lifecycle, set_vars, loop_pc, graphs, in_hand, in_call, latest,
                             raised>>

Collect(c) == /\ pc[c] = "collect"
              /\ graphs' = graphs + 1
              /\ in_call' = [in_call EXCEPT ![c] = graphs + 1]
              /\ Goto(c, "notify")
              /\ UNCHANGED <<lifecycle, set_vars, loop_pc, rounds, in_hand, latest, raised>>

CollectRaises(c) == /\ pc[c] = "collect"
                    /\ raised' = TRUE
                    /\ Goto(c, "idle")
                    /\ UNCHANGED <<lifecycle, set_vars, loop_pc, data>>

Notify(c) == /\ pc[c] = "notify"
             /\ latest' = in_call[c]
             /\ Goto(c, "idle")
             /\ UNCHANGED <<lifecycle, set_vars, loop_pc, rounds, graphs, in_hand, in_call,
                            raised>>

-----------------------------------------------------------------------------
(* _loop(stop_event) of the loop thread l: the event is the argument, so l's *)
(* own; _running is read without the lock.                                   *)

LoopGoto(l, place) == loop_pc' = [loop_pc EXCEPT ![l] = place]

\* Mutant: the loop looks at self._stop_event and not at its argument.
SignalledByCurrent(l) == stop_event \in event_set

Signalled(l) == l \in event_set

LoopCheck(l) == /\ loop_pc[l] = "check"
                /\ LoopGoto(l, IF running > 0 /\ ~Signalled(l) THEN "wait" ELSE "dead")
                /\ UNCHANGED <<lifecycle, set_vars, pc, data, raised>>

NewRound(l) == /\ loop_pc[l] = "wait"
               /\ rounds < MaxRounds
               /\ rounds' = rounds + 1
               /\ LoopGoto(l, "collect")
               /\ UNCHANGED <<lifecycle, set_vars, pc, graphs, in_hand, in_call, latest,
                              raised>>

\* Mutant: the event is not looked at between the wait and the collection.
WakeUnchecked(l) == NewRound(l)

\* The wait ends with the update interval ...
LoopWake(l) == ~Signalled(l) /\ NewRound(l)

\* ... or with the event.
LoopBreak(l) == /\ loop_pc[l] = "wait"
                /\ Signalled(l)
                /\ LoopGoto(l, "dead")
                /\ UNCHANGED <<lifecycle, set_vars, pc, data, raised>>

LoopCollect(l) == /\ loop_pc[l] = "collect"
                  /\ graphs' = graphs + 1
                  /\ in_hand' = [in_hand EXCEPT ![l] = graphs + 1]
                  /\ LoopGoto(l, "notify")
                  /\ UNCHANGED <<lifecycle, set_vars, pc, rounds, in_call, latest, raised>>

\* An exception ends the loop: it is logged, and nothing else happens.
LoopCollectRaises(l) == /\ loop_pc[l] = "collect"
                        /\ raised' = TRUE
                        /\ LoopGoto(l, "dead")
                        /\ UNCHANGED <<lifecycle, set_vars, pc, data>>

LoopNotify(l) == /\ loop_pc[l] = "notify"
                 /\ latest' = in_hand[l]
                 /\ LoopGoto(l, "check")
                 /\ UNCHANGED <<lifecycle, set_vars, pc, rounds, graphs, in_hand, in_call,
                                raised>>

-----------------------------------------------------------------------------
\* What a caller does once its call is under way.
CallStep(c) == \/ StartCollector(c) \/ StartCollectorsDone(c) \/ StartThread(c)
               \/ StopCollector(c) \/ StopCollectorsDone(c)
               \/ Join(c) \/ JoinRaises(c)
               \/ CollectorRaises(c)
               \/ Collect(c) \/ CollectRaises(c) \/ Notify(c)

CallerStep(c) == \/ StartNested(c) \/ StartFirst(c)
                 \/ StopNested(c) \/ StopLast(c)
                 \/ Trigger(c)
                 \/ CallStep(c)

LoopStep(l) == \/ LoopCheck(l) \/ LoopWake(l) \/ LoopBreak(l)
               \/ LoopCollect(l) \/ LoopCollectRaises(l) \/ LoopNotify(l)

Next == \/ \E c \in Callers : CallerStep(c)
        \/ \E l \in Loops : LoopStep(l)

Spec == Init /\ [][Next]_vars

\* Threads are scheduled and collectors answer: a call under way and a loop
\* that can go on do so.  Nobody is obliged to call anything.
Fairness == /\ \A c \in Callers : WF_vars(CallStep(c))
            /\ \A l \in Loops : WF_vars(LoopStep(l))

FairSpec == Spec /\ Fairness

-----------------------------------------------------------------------------
(* Properties *)

\* A started loop that nobody has told to stop.
Live(l) == loop_pc[l] \in Alive /\ l \notin event_set

\* However starts, stops, time-outs of join and exceptions interleave, there
\* are never two loops that nobody has told to stop: a loop that outlived its
\* join keeps its own event and cannot be revived by the next start.
AtMostOneLiveLoop == \A l, m \in Loops : Live(l) /\ Live(m) => l = m

\* Once the count is zero every loop has been told to stop, whatever raised.
StoppedCoreIsQuiet == running = 0 => \A l \in Loops : ~Live(l)

\* stop() dereferences _stop_event and _thread, which another stop sets to
\* None: they are present whenever the count says that there is one to stop.
HandlesPresent == /\ running > 0 => thread \in Loops /\ stop_event = thread
                  /\ \A c \in Callers : pc[c] = "join" => thread \in Loops

\* As long as no collector has raised, between calls the count, the loop and
\* the collectors agree: all of them on, or all of them off.
AllOn == /\ start_status
         /\ up = Subcollectors
         /\ Live(thread)
AllOff == /\ ~start_status
          /\ up = {}
          /\ thread = 0
          /\ stop_event = 0
LifecycleConsistent ==
    ~raised /\ lock = NoCaller => IF running > 0 THEN AllOn ELSE AllOff

\* The core implements its promise.  A loop that was told to stop has one
\* publication left exactly while it is collecting or about to notify.
Finishing(l) == loop_pc[l] \in {"collect", "notify"}
session_phase == [l \in Loops |->
    CASE loop_pc[l] \in {"none", "created"} -> "unused"
      [] Live(l) -> "open"
      [] l \in event_set /\ Finishing(l) -> "closing"
      [] OTHER -> "closed"]
Promise == INSTANCE CollectionSessions WITH Sessions <- Loops, phase <- session_phase,
                                            shown <- latest
SessionsRefined == Promise!FairSpec

\* A loop that was told to stop ends: the daemon threads do not pile up.
SignalledLoopEnds ==
    \A l \in Loops : (loop_pc[l] \in Alive /\ l \in event_set) ~> loop_pc[l] = "dead"

\* start and stop return, with or without an exception: join's time-out keeps
\* a stop from waiting on a loop that collects for ever.
LockReleased == lock # NoCaller ~> lock = NoCaller

-----------------------------------------------------------------------------
(* What the source says of itself and the code does not keep *)

\* "Indicate whether the core collection loop is active."
IsRunningMeansActive == lock = NoCaller /\ running > 0 => Live(thread)
=============================================================================
