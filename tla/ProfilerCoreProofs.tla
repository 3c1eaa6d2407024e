-------------------------- MODULE ProfilerCoreProofs --------------------------
(***************************************************************************)
(* Theorems about ProfilerCore, for any number of callers, subcollectors,   *)
(* loops, references and collections.                                       *)
(***************************************************************************)
EXTENDS ProfilerCore, TLAPS

\* The caller inside start or stop is the one that holds the lock.
LockHeld == \A c \in Callers : pc[c] \in LockedAt <=> lock = c

\* Loops are made in order, and an event is not set before it is made.
MadeInOrder == \A l \in Loops : /\ loop_pc[l] = "none" <=> l > loops
                                /\ l > loops => l \notin event_set

\* What the handles refer to in each part of start and of stop.
Handles ==
    /\ running > 0 => thread \in 1 .. loops /\ stop_event = thread
    /\ \A c \in Callers :
        /\ pc[c] \in {"start_collectors", "start_thread"} =>
            running = 1 /\ loop_pc[thread] = "created" /\ thread \notin event_set
        /\ pc[c] \in {"stop_collectors", "join"} => running = 0 /\ thread \in 1 .. loops

\* The only live loop is the one the handles refer to, and it is counted.
LiveIsCurrent == \A l \in Loops : Live(l) => running > 0 /\ l = stop_event

\* Where the collectors are in each part of start and of stop, until one raises.
Progress ==
    ~raised =>
        /\ lock = NoCaller => IF running > 0 THEN AllOn ELSE AllOff
        /\ \A c \in Callers :
            /\ pc[c] = "start_collectors" => ~start_status /\ up = 1 .. (cursor - 1)
            /\ pc[c] = "start_thread" => start_status /\ up = Subcollectors
            /\ pc[c] = "stop_collectors" => /\ start_status
                                            /\ up = cursor .. Collectors
                                            /\ loop_pc[thread] # "created"
            /\ pc[c] = "join" => /\ ~start_status
                                 /\ up = {}
                                 /\ loop_pc[thread] # "created"

Shape == TypeOK /\ LockHeld /\ MadeInOrder
Control == Handles /\ LiveIsCurrent
IInv == Shape /\ Control /\ Progress

-----------------------------------------------------------------------------
(* Every step keeps the inductive invariant: one lemma per action.          *)

\* A call that raises leaves the handles and the collectors as they are.
LEMMA RaiseKeeps == ASSUME IInv, NEW c \in Callers, lock = c, Raise(c) PROVE IInv'
<1> USE CoreAssumption DEF Loops, Subcollectors, LockedAt, CallerAt, Alive, LoopAt,
                           lifecycle, set_vars, data, Raise, Fail, Goto, Release
<1>1. Shape'
  BY DEF IInv, Shape, TypeOK, LockHeld, MadeInOrder, Control, Handles
<1>2. Control'
  BY DEF IInv, Shape, TypeOK, LockHeld, MadeInOrder, Control, Handles, LiveIsCurrent, Live
<1>3. Progress'
  BY DEF IInv, Shape, TypeOK, LockHeld, Control, Handles, Progress, AllOn, AllOff, Live
<1> QED
  BY <1>1, <1>2, <1>3 DEF IInv

LEMMA StartNestedKeeps == ASSUME IInv, NEW c \in Callers, StartNested(c) PROVE IInv'
<1> USE CoreAssumption DEF Loops, Subcollectors, LockedAt, CallerAt, Alive, LoopAt,
                           lifecycle, set_vars, data, StartNested, Goto, Release
<1>1. Shape'
  BY DEF IInv, Shape, TypeOK, LockHeld, MadeInOrder, Control, Handles
<1>2. Control'
  BY DEF IInv, Shape, TypeOK, LockHeld, MadeInOrder, Control, Handles, LiveIsCurrent, Live
<1>3. Progress'
  BY DEF IInv, Shape, TypeOK, LockHeld, Control, Handles, Progress, AllOn, AllOff, Live
<1> QED
  BY <1>1, <1>2, <1>3 DEF IInv

LEMMA StartFirstKeeps == ASSUME IInv, NEW c \in Callers, StartFirst(c) PROVE IInv'
<1> USE CoreAssumption DEF Loops, Subcollectors, LockedAt, CallerAt, Alive, LoopAt,
                           lifecycle, set_vars, data, StartFirst, NewLoop, Goto, Release
<1>1. Shape'
  BY DEF IInv, Shape, TypeOK, LockHeld, MadeInOrder, Control, Handles
<1>2. Control'
  BY DEF IInv, Shape, TypeOK, LockHeld, MadeInOrder, Control, Handles, LiveIsCurrent, Live
<1>3. Progress'
  BY DEF IInv, Shape, TypeOK, LockHeld, Control, Handles, Progress, AllOn, AllOff, Live
<1> QED
  BY <1>1, <1>2, <1>3 DEF IInv

LEMMA StartCollectorKeeps == ASSUME IInv, NEW c \in Callers, StartCollector(c) PROVE IInv'
<1> USE CoreAssumption DEF Loops, Subcollectors, LockedAt, CallerAt, Alive, LoopAt,
                           lifecycle, set_vars, data, StartCollector, Goto, Release
<1>1. Shape'
  BY DEF IInv, Shape, TypeOK, LockHeld, MadeInOrder, Control, Handles
<1>2. Control'
  BY DEF IInv, Shape, TypeOK, LockHeld, MadeInOrder, Control, Handles, LiveIsCurrent, Live
<1>3. Progress'
  BY DEF IInv, Shape, TypeOK, LockHeld, Control, Handles, Progress, AllOn, AllOff, Live
<1> QED
  BY <1>1, <1>2, <1>3 DEF IInv

LEMMA StartCollectorsDoneKeeps == ASSUME IInv, NEW c \in Callers, StartCollectorsDone(c) PROVE IInv'
<1> USE CoreAssumption DEF Loops, Subcollectors, LockedAt, CallerAt, Alive, LoopAt,
                           lifecycle, set_vars, data, StartCollectorsDone, Goto, Release
<1>1. Shape'
  BY DEF IInv, Shape, TypeOK, LockHeld, MadeInOrder, Control, Handles
<1>2. Control'
  BY DEF IInv, Shape, TypeOK, LockHeld, MadeInOrder, Control, Handles, LiveIsCurrent, Live
<1>3. Progress'
  BY DEF IInv, Shape, TypeOK, LockHeld, Control, Handles, Progress, AllOn, AllOff, Live
<1> QED
  BY <1>1, <1>2, <1>3 DEF IInv

LEMMA StartThreadKeeps == ASSUME IInv, NEW c \in Callers, StartThread(c) PROVE IInv'
<1> USE CoreAssumption DEF Loops, Subcollectors, LockedAt, CallerAt, Alive, LoopAt,
                           lifecycle, set_vars, data, StartThread, Goto, Release
<1>1. Shape'
  BY DEF IInv, Shape, TypeOK, LockHeld, MadeInOrder, Control, Handles
<1>2. Control'
  BY DEF IInv, Shape, TypeOK, LockHeld, MadeInOrder, Control, Handles, LiveIsCurrent, Live
<1>3. Progress'
  BY DEF IInv, Shape, TypeOK, LockHeld, Control, Handles, Progress, AllOn, AllOff, Live
<1> QED
  BY <1>1, <1>2, <1>3 DEF IInv

LEMMA StopNestedKeeps == ASSUME IInv, NEW c \in Callers, StopNested(c) PROVE IInv'
<1> USE CoreAssumption DEF Loops, Subcollectors, LockedAt, CallerAt, Alive, LoopAt,
                           lifecycle, set_vars, data, StopNested, DropReference, Goto, Release
<1>1. Shape'
  BY DEF IInv, Shape, TypeOK, LockHeld, MadeInOrder, Control, Handles
<1>2. Control'
  BY DEF IInv, Shape, TypeOK, LockHeld, MadeInOrder, Control, Handles, LiveIsCurrent, Live
<1>3. Progress'
  BY DEF IInv, Shape, TypeOK, LockHeld, Control, Handles, Progress, AllOn, AllOff, Live
<1> QED
  BY <1>1, <1>2, <1>3 DEF IInv

LEMMA StopLastKeeps == ASSUME IInv, NEW c \in Callers, StopLast(c) PROVE IInv'
<1> USE CoreAssumption DEF Loops, Subcollectors, LockedAt, CallerAt, Alive, LoopAt,
                           lifecycle, set_vars, data, StopLast, Shutdown, Goto, Release
<1>1. Shape'
  BY DEF IInv, Shape, TypeOK, LockHeld, MadeInOrder, Control, Handles
<1>2. Control'
  BY DEF IInv, Shape, TypeOK, LockHeld, MadeInOrder, Control, Handles, LiveIsCurrent, Live
<1>3. Progress'
  BY DEF IInv, Shape, TypeOK, LockHeld, Control, Handles, Progress, AllOn, AllOff, Live
<1> QED
  BY <1>1, <1>2, <1>3 DEF IInv

LEMMA StopCollectorKeeps == ASSUME IInv, NEW c \in Callers, StopCollector(c) PROVE IInv'
<1> USE CoreAssumption DEF Loops, Subcollectors, LockedAt, CallerAt, Alive, LoopAt,
                           lifecycle, set_vars, data, StopCollector, Goto, Release
<1>1. Shape'
  BY DEF IInv, Shape, TypeOK, LockHeld, MadeInOrder, Control, Handles
<1>2. Control'
  BY DEF IInv, Shape, TypeOK, LockHeld, MadeInOrder, Control, Handles, LiveIsCurrent, Live
<1>3. Progress'
  BY DEF IInv, Shape, TypeOK, LockHeld, Control, Handles, Progress, AllOn, AllOff, Live
<1> QED
  BY <1>1, <1>2, <1>3 DEF IInv

LEMMA CollectorRaisesKeeps == ASSUME IInv, NEW c \in Callers, CollectorRaises(c) PROVE IInv'
  BY RaiseKeeps DEF CollectorRaises, IInv, Shape, LockHeld, LockedAt

LEMMA StopCollectorsDoneKeeps == ASSUME IInv, NEW c \in Callers, StopCollectorsDone(c) PROVE IInv'
<1> USE CoreAssumption DEF Loops, Subcollectors, LockedAt, CallerAt, Alive, LoopAt,
                           lifecycle, set_vars, data, StopCollectorsDone, AllStopped, Goto, Release
<1>1. Shape'
  BY DEF IInv, Shape, TypeOK, LockHeld, MadeInOrder, Control, Handles
<1>2. Control'
  BY DEF IInv, Shape, TypeOK, LockHeld, MadeInOrder, Control, Handles, LiveIsCurrent, Live
<1>3. Progress'
  BY DEF IInv, Shape, TypeOK, LockHeld, Control, Handles, Progress, AllOn, AllOff, Live
<1> QED
  BY <1>1, <1>2, <1>3 DEF IInv

LEMMA JoinKeeps == ASSUME IInv, NEW c \in Callers, Join(c) PROVE IInv'
<1> USE CoreAssumption DEF Loops, Subcollectors, LockedAt, CallerAt, Alive, LoopAt,
                           lifecycle, set_vars, data, Join, Goto, Release
<1>1. Shape'
  BY DEF IInv, Shape, TypeOK, LockHeld, MadeInOrder, Control, Handles
<1>2. Control'
  BY DEF IInv, Shape, TypeOK, LockHeld, MadeInOrder, Control, Handles, LiveIsCurrent, Live
<1>3. Progress'
  BY DEF IInv, Shape, TypeOK, LockHeld, Control, Handles, Progress, AllOn, AllOff, Live
<1> QED
  BY <1>1, <1>2, <1>3 DEF IInv

LEMMA JoinRaisesKeeps == ASSUME IInv, NEW c \in Callers, JoinRaises(c) PROVE IInv'
  BY RaiseKeeps DEF JoinRaises, IInv, Shape, LockHeld, LockedAt

LEMMA TriggerKeeps == ASSUME IInv, NEW c \in Callers, Trigger(c) PROVE IInv'
<1> USE CoreAssumption DEF Loops, Subcollectors, LockedAt, CallerAt, Alive, LoopAt,
                           lifecycle, set_vars, data, Trigger, Goto, Release
<1>1. Shape'
  BY DEF IInv, Shape, TypeOK, LockHeld, MadeInOrder, Control, Handles
<1>2. Control'
  BY DEF IInv, Shape, TypeOK, LockHeld, MadeInOrder, Control, Handles, LiveIsCurrent, Live
<1>3. Progress'
  BY DEF IInv, Shape, TypeOK, LockHeld, Control, Handles, Progress, AllOn, AllOff, Live
<1> QED
  BY <1>1, <1>2, <1>3 DEF IInv

LEMMA CollectKeeps == ASSUME IInv, NEW c \in Callers, Collect(c) PROVE IInv'
<1> USE CoreAssumption DEF Loops, Subcollectors, LockedAt, CallerAt, Alive, LoopAt,
                           lifecycle, set_vars, data, Collect, Goto, Release
<1>1. Shape'
  BY DEF IInv, Shape, TypeOK, LockHeld, MadeInOrder, Control, Handles
<1>2. Control'
  BY DEF IInv, Shape, TypeOK, LockHeld, MadeInOrder, Control, Handles, LiveIsCurrent, Live
<1>3. Progress'
  BY DEF IInv, Shape, TypeOK, LockHeld, Control, Handles, Progress, AllOn, AllOff, Live
<1> QED
  BY <1>1, <1>2, <1>3 DEF IInv

LEMMA CollectRaisesKeeps == ASSUME IInv, NEW c \in Callers, CollectRaises(c) PROVE IInv'
<1> USE CoreAssumption DEF Loops, Subcollectors, LockedAt, CallerAt, Alive, LoopAt,
                           lifecycle, set_vars, data, CollectRaises, Goto, Release
<1>1. Shape'
  BY DEF IInv, Shape, TypeOK, LockHeld, MadeInOrder, Control, Handles
<1>2. Control'
  BY DEF IInv, Shape, TypeOK, LockHeld, MadeInOrder, Control, Handles, LiveIsCurrent, Live
<1>3. Progress'
  BY DEF IInv, Shape, TypeOK, LockHeld, Control, Handles, Progress, AllOn, AllOff, Live
<1> QED
  BY <1>1, <1>2, <1>3 DEF IInv

LEMMA NotifyKeeps == ASSUME IInv, NEW c \in Callers, Notify(c) PROVE IInv'
<1> USE CoreAssumption DEF Loops, Subcollectors, LockedAt, CallerAt, Alive, LoopAt,
                           lifecycle, set_vars, data, Notify, Goto, Release
<1>1. Shape'
  BY DEF IInv, Shape, TypeOK, LockHeld, MadeInOrder, Control, Handles
<1>2. Control'
  BY DEF IInv, Shape, TypeOK, LockHeld, MadeInOrder, Control, Handles, LiveIsCurrent, Live
<1>3. Progress'
  BY DEF IInv, Shape, TypeOK, LockHeld, Control, Handles, Progress, AllOn, AllOff, Live
<1> QED
  BY <1>1, <1>2, <1>3 DEF IInv

LEMMA LoopCheckKeeps == ASSUME IInv, NEW l \in Loops, LoopCheck(l) PROVE IInv'
<1> USE CoreAssumption DEF Loops, Subcollectors, LockedAt, CallerAt, Alive, LoopAt,
                           lifecycle, set_vars, data, LoopCheck, Signalled, LoopGoto
<1>1. Shape'
  BY DEF IInv, Shape, TypeOK, LockHeld, MadeInOrder, Control, Handles
<1>2. Control'
  BY DEF IInv, Shape, TypeOK, LockHeld, MadeInOrder, Control, Handles, LiveIsCurrent, Live
<1>3. Progress'
  BY DEF IInv, Shape, TypeOK, LockHeld, Control, Handles, Progress, AllOn, AllOff, Live
<1> QED
  BY <1>1, <1>2, <1>3 DEF IInv

LEMMA LoopWakeKeeps == ASSUME IInv, NEW l \in Loops, LoopWake(l) PROVE IInv'
<1> USE CoreAssumption DEF Loops, Subcollectors, LockedAt, CallerAt, Alive, LoopAt,
                           lifecycle, set_vars, data, LoopWake, Signalled, NewRound, LoopGoto
<1>1. Shape'
  BY DEF IInv, Shape, TypeOK, LockHeld, MadeInOrder, Control, Handles
<1>2. Control'
  BY DEF IInv, Shape, TypeOK, LockHeld, MadeInOrder, Control, Handles, LiveIsCurrent, Live
<1>3. Progress'
  BY DEF IInv, Shape, TypeOK, LockHeld, Control, Handles, Progress, AllOn, AllOff, Live
<1> QED
  BY <1>1, <1>2, <1>3 DEF IInv

LEMMA LoopBreakKeeps == ASSUME IInv, NEW l \in Loops, LoopBreak(l) PROVE IInv'
<1> USE CoreAssumption DEF Loops, Subcollectors, LockedAt, CallerAt, Alive, LoopAt,
                           lifecycle, set_vars, data, LoopBreak, Signalled, LoopGoto
<1>1. Shape'
  BY DEF IInv, Shape, TypeOK, LockHeld, MadeInOrder, Control, Handles
<1>2. Control'
  BY DEF IInv, Shape, TypeOK, LockHeld, MadeInOrder, Control, Handles, LiveIsCurrent, Live
<1>3. Progress'
  BY DEF IInv, Shape, TypeOK, LockHeld, Control, Handles, Progress, AllOn, AllOff, Live
<1> QED
  BY <1>1, <1>2, <1>3 DEF IInv

LEMMA LoopCollectKeeps == ASSUME IInv, NEW l \in Loops, LoopCollect(l) PROVE IInv'
<1> USE CoreAssumption DEF Loops, Subcollectors, LockedAt, CallerAt, Alive, LoopAt,
                           lifecycle, set_vars, data, LoopCollect, LoopGoto
<1>1. Shape'
  BY DEF IInv, Shape, TypeOK, LockHeld, MadeInOrder, Control, Handles
<1>2. Control'
  BY DEF IInv, Shape, TypeOK, LockHeld, MadeInOrder, Control, Handles, LiveIsCurrent, Live
<1>3. Progress'
  BY DEF IInv, Shape, TypeOK, LockHeld, Control, Handles, Progress, AllOn, AllOff, Live
<1> QED
  BY <1>1, <1>2, <1>3 DEF IInv

LEMMA LoopCollectRaisesKeeps == ASSUME IInv, NEW l \in Loops, LoopCollectRaises(l) PROVE IInv'
<1> USE CoreAssumption DEF Loops, Subcollectors, LockedAt, CallerAt, Alive, LoopAt,
                           lifecycle, set_vars, data, LoopCollectRaises, LoopGoto
<1>1. Shape'
  BY DEF IInv, Shape, TypeOK, LockHeld, MadeInOrder, Control, Handles
<1>2. Control'
  BY DEF IInv, Shape, TypeOK, LockHeld, MadeInOrder, Control, Handles, LiveIsCurrent, Live
<1>3. Progress'
  BY DEF IInv, Shape, TypeOK, LockHeld, Control, Handles, Progress, AllOn, AllOff, Live
<1> QED
  BY <1>1, <1>2, <1>3 DEF IInv

LEMMA LoopNotifyKeeps == ASSUME IInv, NEW l \in Loops, LoopNotify(l) PROVE IInv'
<1> USE CoreAssumption DEF Loops, Subcollectors, LockedAt, CallerAt, Alive, LoopAt,
                           lifecycle, set_vars, data, LoopNotify, LoopGoto
<1>1. Shape'
  BY DEF IInv, Shape, TypeOK, LockHeld, MadeInOrder, Control, Handles
<1>2. Control'
  BY DEF IInv, Shape, TypeOK, LockHeld, MadeInOrder, Control, Handles, LiveIsCurrent, Live
<1>3. Progress'
  BY DEF IInv, Shape, TypeOK, LockHeld, Control, Handles, Progress, AllOn, AllOff, Live
<1> QED
  BY <1>1, <1>2, <1>3 DEF IInv

-----------------------------------------------------------------------------
(* The invariant and what follows from it.                                  *)

LEMMA InitEstablishes == Init => IInv
<1> SUFFICES ASSUME Init PROVE IInv
  OBVIOUS
<1> USE CoreAssumption DEF Init, Loops, Subcollectors, LockedAt, CallerAt, Alive, LoopAt
<1>1. TypeOK
  <2>1. /\ event_set \subseteq Loops
        /\ up \subseteq Subcollectors
    OBVIOUS
  <2>2. /\ pc \in [Callers -> CallerAt]
        /\ loop_pc \in [Loops -> LoopAt]
    OBVIOUS
  <2>3. /\ in_hand \in [Loops -> Nat]
        /\ in_call \in [Callers -> Nat]
    OBVIOUS
  <2>4. /\ thread \in 0 .. MaxLoops
        /\ stop_event \in 0 .. MaxLoops
        /\ loops \in 0 .. MaxLoops
        /\ cursor \in 1 .. (Collectors + 1)
    OBVIOUS
  <2> QED
    BY <2>1, <2>2, <2>3, <2>4 DEF TypeOK
<1>2. LockHeld /\ MadeInOrder
  BY DEF LockHeld, MadeInOrder
<1>3. Control
  BY DEF Control, Handles, LiveIsCurrent, Live
<1>4. Progress
  BY DEF Progress, AllOff
<1> QED
  BY <1>1, <1>2, <1>3, <1>4 DEF IInv, Shape

LEMMA StepKeeps == IInv /\ [Next]_vars => IInv'
<1> SUFFICES ASSUME IInv, [Next]_vars PROVE IInv'
  OBVIOUS
<1>1. CASE \E c \in Callers : CallerStep(c)
  <2>1. PICK c \in Callers : CallerStep(c)
    BY <1>1
  <2> QED
    BY <2>1, StartNestedKeeps, StartFirstKeeps, StopNestedKeeps, StopLastKeeps,
       TriggerKeeps, StartCollectorKeeps, StartCollectorsDoneKeeps, StartThreadKeeps,
       StopCollectorKeeps, StopCollectorsDoneKeeps, JoinKeeps, JoinRaisesKeeps,
       CollectorRaisesKeeps, CollectKeeps, CollectRaisesKeeps, NotifyKeeps
       DEF CallerStep, CallStep
<1>2. CASE \E l \in Loops : LoopStep(l)
  BY <1>2, LoopCheckKeeps, LoopWakeKeeps, LoopBreakKeeps, LoopCollectKeeps,
     LoopCollectRaisesKeeps, LoopNotifyKeeps DEF LoopStep
<1>3. CASE UNCHANGED vars
  BY <1>3 DEF vars, IInv, Shape, TypeOK, LockHeld, MadeInOrder, Control, Handles,
     LiveIsCurrent, Live, Progress, AllOn, AllOff
<1> QED
  BY <1>1, <1>2, <1>3 DEF Next

\* IInv holds in every reachable state: the strengthening that the properties
\* of the runs need, with what holds in the middle of a start and of a stop.
THEOREM Invariance == Spec => []IInv
  BY InitEstablishes, StepKeeps, PTL DEF Spec

\* Every variable of the core keeps its type.
THEOREM TypeCorrect == Spec => []TypeOK
<1>1. IInv => TypeOK
  BY DEF IInv, Shape
<1> QED
  BY <1>1, Invariance, PTL

\* Two loops that nobody told to stop never exist: every live loop is the one
\* self._stop_event refers to.
THEOREM OneLoop == Spec => []AtMostOneLiveLoop
<1>1. IInv => AtMostOneLiveLoop
  BY DEF IInv, Control, LiveIsCurrent, AtMostOneLiveLoop
<1> QED
  BY <1>1, Invariance, PTL

\* A count of zero means that every loop was told to stop, also after a start
\* or a stop that raised.
THEOREM Quiet == Spec => []StoppedCoreIsQuiet
<1>1. IInv => StoppedCoreIsQuiet
  BY DEF IInv, Control, LiveIsCurrent, StoppedCoreIsQuiet
<1> QED
  BY <1>1, Invariance, PTL

\* stop() never dereferences None.
THEOREM NoNoneDereference == Spec => []HandlesPresent
<1>1. IInv => HandlesPresent
  BY CoreAssumption
     DEF IInv, Shape, TypeOK, Control, Handles, HandlesPresent, Loops
<1> QED
  BY <1>1, Invariance, PTL

\* Until a collector raises, the count, the loop and the collectors agree
\* whenever no call holds the lock.
THEOREM Lifecycle == Spec => []LifecycleConsistent
<1>1. IInv => LifecycleConsistent
  BY DEF IInv, Progress, LifecycleConsistent
<1> QED
  BY <1>1, Invariance, PTL

-----------------------------------------------------------------------------
(* The core implements CollectionSessions.                                  *)

PhaseOf(l) == session_phase[l]

LEMMA PhaseCases ==
    ASSUME NEW l \in Loops, TypeOK
    PROVE  /\ loop_pc[l] \in {"none", "created"} => PhaseOf(l) = "unused"
           /\ Live(l) => PhaseOf(l) = "open"
           /\ loop_pc[l] \in {"collect", "notify"} /\ l \in event_set =>
                 PhaseOf(l) = "closing"
           /\ loop_pc[l] \in {"check", "wait"} /\ l \in event_set => PhaseOf(l) = "closed"
           /\ loop_pc[l] = "dead" => PhaseOf(l) = "closed"
  BY DEF PhaseOf, session_phase, Live, Alive, Finishing, TypeOK, LoopAt

\* A step that moves no loop, sets no event and publishes nothing.
LEMMA Stutters ==
    ASSUME UNCHANGED <<loop_pc, event_set, latest>>
    PROVE  UNCHANGED Promise!vars
  BY DEF Promise!vars, session_phase, Live, Alive, Finishing

\* One loop moves: the phases of the others are what they were.
LEMMA OthersKeepTheirPhase ==
    ASSUME NEW l \in Loops, NEW place, TypeOK,
           loop_pc' = [loop_pc EXCEPT ![l] = place], UNCHANGED event_set
    PROVE  session_phase' = [session_phase EXCEPT ![l] = PhaseOf(l)']
  BY DEF PhaseOf, session_phase, Live, Alive, Finishing, TypeOK

LEMMA OpenIsLive ==
    ASSUME NEW l \in Loops, TypeOK, PhaseOf(l) = "open"
    PROVE  Live(l)
  BY DEF PhaseOf, session_phase, Live, Alive, Finishing, TypeOK, LoopAt

LEMMA PhaseIsFunction == session_phase = [l \in Loops |-> PhaseOf(l)]
  BY DEF session_phase, PhaseOf

LEMMA PhaseCasesNext ==
    ASSUME NEW l \in Loops, TypeOK'
    PROVE  /\ loop_pc'[l] \in {"none", "created"} => PhaseOf(l)' = "unused"
           /\ Live(l)' => PhaseOf(l)' = "open"
           /\ loop_pc'[l] \in {"collect", "notify"} /\ l \in event_set' =>
                 PhaseOf(l)' = "closing"
           /\ loop_pc'[l] \in {"check", "wait"} /\ l \in event_set' =>
                 PhaseOf(l)' = "closed"
           /\ loop_pc'[l] = "dead" => PhaseOf(l)' = "closed"
  BY DEF PhaseOf, session_phase, Live, Alive, Finishing, TypeOK, LoopAt

\* One loop moves: what the abstract state sees of it.
LEMMA LoopMoves ==
    ASSUME NEW l \in Loops, NEW place, TypeOK, TypeOK',
           loop_pc' = [loop_pc EXCEPT ![l] = place], UNCHANGED event_set
    PROVE  /\ PhaseOf(l)' = PhaseOf(l) => UNCHANGED session_phase
           /\ \A from, to : PhaseOf(l) = from /\ PhaseOf(l)' = to =>
                               Promise!Move(l, from, to)
<1>1. session_phase' = [session_phase EXCEPT ![l] = PhaseOf(l)']
  BY OthersKeepTheirPhase
<1>2. session_phase = [k \in Loops |-> PhaseOf(k)]
  BY PhaseIsFunction
<1> QED
  BY <1>1, <1>2 DEF Promise!Move, PhaseOf

\* The event of one loop is set: what the abstract state sees of it.
LEMMA EventIsSet ==
    ASSUME NEW l \in Loops, TypeOK, TypeOK',
           event_set' = event_set \cup {l}, UNCHANGED loop_pc
    PROVE  /\ PhaseOf(l)' = PhaseOf(l) => UNCHANGED session_phase
           /\ \A from, to : PhaseOf(l) = from /\ PhaseOf(l)' = to =>
                               Promise!Move(l, from, to)
<1>1. session_phase' = [session_phase EXCEPT ![l] = PhaseOf(l)']
  BY DEF PhaseOf, session_phase, Live, Alive, Finishing, TypeOK
<1>2. session_phase = [k \in Loops |-> PhaseOf(k)]
  BY PhaseIsFunction
<1> QED
  BY <1>1, <1>2 DEF Promise!Move, PhaseOf

LEMMA StartFirstImplements ==
    ASSUME IInv, IInv', NEW c \in Callers, StartFirst(c) PROVE [Promise!Next]_(Promise!vars)
<1>1. PICK l \in Loops : /\ loop_pc[l] = "none"
                         /\ loop_pc' = [loop_pc EXCEPT ![l] = "created"]
  <2>1. loops + 1 \in Loops /\ loops + 1 > loops
    BY CoreAssumption DEF StartFirst, NewLoop, IInv, Shape, TypeOK, Loops
  <2>2. loop_pc[loops + 1] = "none"
    BY <2>1 DEF IInv, Shape, MadeInOrder
  <2> QED
    BY <2>1, <2>2 DEF StartFirst, NewLoop
<1>2. PhaseOf(l)' = PhaseOf(l)
  <2>1. loop_pc'[l] = "created"
    BY <1>1 DEF IInv, Shape, TypeOK
  <2> QED
    BY <1>1, <2>1, PhaseCases, PhaseCasesNext DEF IInv, Shape
<1>3. UNCHANGED <<event_set, latest>>
  BY DEF StartFirst, NewLoop, data
<1> QED
  BY <1>1, <1>2, <1>3, LoopMoves DEF IInv, Shape, Promise!vars

LEMMA StartThreadImplements ==
    ASSUME IInv, IInv', NEW c \in Callers, StartThread(c) PROVE [Promise!Next]_(Promise!vars)
<1>1. PICK l \in Loops : /\ loop_pc[l] = "created"
                         /\ l \notin event_set
                         /\ l = stop_event
                         /\ loop_pc' = [loop_pc EXCEPT ![l] = "check"]
  <2>1. running = 1 /\ loop_pc[thread] = "created" /\ thread \notin event_set
    BY DEF StartThread, IInv, Control, Handles
  <2>2. thread \in Loops /\ stop_event = thread
    BY <2>1, CoreAssumption DEF IInv, Shape, TypeOK, Control, Handles, Loops
  <2> QED
    BY <2>1, <2>2 DEF StartThread
<1>2. UNCHANGED <<event_set, latest>>
  BY DEF StartThread, data
<1>3. PhaseOf(l) = "unused"
  BY <1>1, PhaseCases DEF IInv, Shape
<1>4. PhaseOf(l)' = "open"
  <2>1. Live(l)'
    BY <1>1, <1>2 DEF Live, Alive, IInv, Shape, TypeOK
  <2> QED
    BY <2>1, PhaseCasesNext DEF IInv, Shape
<1>5. \A t \in Loops : ~Promise!IsOpen(t)
  <2>1. ASSUME NEW t \in Loops, Promise!IsOpen(t) PROVE FALSE
    <3>1. Live(t)
      BY <2>1, OpenIsLive DEF Promise!IsOpen, PhaseOf, IInv, Shape
    <3>2. t = l
      BY <1>1, <3>1 DEF IInv, Control, LiveIsCurrent
    <3> QED
      BY <1>1, <3>1, <3>2 DEF Live, Alive
  <2> QED
    BY <2>1
<1>6. Promise!Move(l, "unused", "open")
  BY <1>1, <1>2, <1>3, <1>4, LoopMoves DEF IInv, Shape
<1> QED
  BY <1>1, <1>2, <1>5, <1>6 DEF Promise!Next, Promise!Open

LEMMA StopLastImplements ==
    ASSUME IInv, IInv', NEW c \in Callers, StopLast(c) PROVE [Promise!Next]_(Promise!vars)
<1>0. UNCHANGED <<loop_pc, latest>>
  BY DEF StopLast, Shutdown, data
<1>1. PICK l \in Loops : event_set' = event_set \cup {l}
  BY CoreAssumption
     DEF StopLast, Shutdown, IInv, Shape, TypeOK, Control, Handles, Loops
<1>2. CASE Live(l)
  <2>1. PhaseOf(l) = "open"
    BY <1>0, <1>1, <1>2, PhaseCases DEF IInv, Shape
  <2>2. PhaseOf(l)' \in {"closing", "closed"}
    <3>1. loop_pc'[l] \in Alive /\ l \in event_set'
      BY <1>0, <1>1, <1>2 DEF Live
    <3> QED
      BY <1>0, <1>1, <3>1, PhaseCasesNext DEF Alive, IInv, Shape
  <2>3. \/ Promise!Move(l, "open", "closing")
        \/ Promise!Move(l, "open", "closed")
    BY <1>0, <1>1, <2>1, <2>2, EventIsSet DEF IInv, Shape
  <2> QED
    BY <1>0, <1>1, <2>3 DEF Promise!Next, Promise!Signal
<1>3. CASE ~Live(l)
  <2>1. PhaseOf(l)' = PhaseOf(l)
    BY <1>0, <1>1, <1>3 DEF PhaseOf, session_phase, Live
  <2> QED
    BY <1>0, <1>1, <2>1, EventIsSet DEF IInv, Shape, Promise!vars
<1> QED
  BY <1>2, <1>3

LEMMA LoopCheckImplements ==
    ASSUME IInv, IInv', NEW l \in Loops, LoopCheck(l) PROVE [Promise!Next]_(Promise!vars)
<1>1. PICK place : /\ loop_pc' = [loop_pc EXCEPT ![l] = place]
                   /\ place = IF running > 0 /\ l \notin event_set THEN "wait" ELSE "dead"
                   /\ UNCHANGED <<event_set, latest>>
  BY DEF LoopCheck, LoopGoto, Signalled, lifecycle, data
<1>2. PhaseOf(l)' = PhaseOf(l)
  <2>1. loop_pc[l] = "check" /\ loop_pc'[l] = place
    BY <1>1 DEF LoopCheck, IInv, Shape, TypeOK
  <2>2. CASE l \in event_set
    BY <1>1, <2>1, <2>2, PhaseCases, PhaseCasesNext DEF IInv, Shape
  <2>3. CASE l \notin event_set
    <3>1. Live(l) /\ running > 0
      BY <2>1, <2>3 DEF Live, Alive, IInv, Control, LiveIsCurrent
    <3>2. Live(l)'
      BY <1>1, <2>1, <2>3, <3>1 DEF Live, Alive
    <3> QED
      BY <3>1, <3>2, PhaseCases, PhaseCasesNext DEF IInv, Shape
  <2> QED
    BY <2>2, <2>3
<1> QED
  BY <1>1, <1>2, LoopMoves DEF IInv, Shape, Promise!vars

LEMMA LoopWakeImplements ==
    ASSUME IInv, IInv', NEW l \in Loops, LoopWake(l) PROVE [Promise!Next]_(Promise!vars)
<1>1. /\ loop_pc' = [loop_pc EXCEPT ![l] = "collect"]
      /\ UNCHANGED <<event_set, latest>>
  BY DEF LoopWake, NewRound, LoopGoto, lifecycle
<1>2. Live(l) /\ Live(l)'
  BY <1>1 DEF LoopWake, NewRound, Signalled, Live, Alive, IInv, Shape, TypeOK
<1>3. PhaseOf(l)' = PhaseOf(l)
  BY <1>2, PhaseCases, PhaseCasesNext DEF IInv, Shape
<1> QED
  BY <1>1, <1>3, LoopMoves DEF IInv, Shape, Promise!vars

LEMMA LoopBreakImplements ==
    ASSUME IInv, IInv', NEW l \in Loops, LoopBreak(l) PROVE [Promise!Next]_(Promise!vars)
<1>1. /\ loop_pc' = [loop_pc EXCEPT ![l] = "dead"]
      /\ UNCHANGED <<event_set, latest>>
  BY DEF LoopBreak, LoopGoto, lifecycle, data
<1>2. loop_pc[l] = "wait" /\ l \in event_set /\ loop_pc'[l] = "dead"
  BY <1>1 DEF LoopBreak, Signalled, IInv, Shape, TypeOK
<1>3. PhaseOf(l)' = PhaseOf(l)
  BY <1>2, PhaseCases, PhaseCasesNext DEF IInv, Shape
<1> QED
  BY <1>1, <1>3, LoopMoves DEF IInv, Shape, Promise!vars

LEMMA LoopCollectImplements ==
    ASSUME IInv, IInv', NEW l \in Loops, LoopCollect(l) PROVE [Promise!Next]_(Promise!vars)
<1>1. /\ loop_pc' = [loop_pc EXCEPT ![l] = "notify"]
      /\ UNCHANGED <<event_set, latest>>
  BY DEF LoopCollect, LoopGoto, lifecycle
<1>2. loop_pc[l] = "collect" /\ loop_pc'[l] = "notify"
  BY <1>1 DEF LoopCollect, IInv, Shape, TypeOK
<1>3. PhaseOf(l)' = PhaseOf(l)
  BY <1>1, <1>2, PhaseCases, PhaseCasesNext DEF IInv, Shape, Live, Alive
<1> QED
  BY <1>1, <1>3, LoopMoves DEF IInv, Shape, Promise!vars

\* An exception closes the session, open or closing, with no publication.
LEMMA LoopCollectRaisesImplements ==
    ASSUME IInv, IInv', NEW l \in Loops, LoopCollectRaises(l)
    PROVE  [Promise!Next]_(Promise!vars)
<1>1. /\ loop_pc' = [loop_pc EXCEPT ![l] = "dead"]
      /\ UNCHANGED <<event_set, latest>>
  BY DEF LoopCollectRaises, LoopGoto, lifecycle, data
<1>2. loop_pc[l] = "collect" /\ loop_pc'[l] = "dead"
  BY <1>1 DEF LoopCollectRaises, IInv, Shape, TypeOK
<1>3. PhaseOf(l) \in {"open", "closing"} /\ PhaseOf(l)' = "closed"
  BY <1>1, <1>2, PhaseCases, PhaseCasesNext DEF IInv, Shape, Live, Alive
<1>4. Promise!Move(l, "open", "closed") \/ Promise!Move(l, "closing", "closed")
  BY <1>1, <1>3, LoopMoves DEF IInv, Shape
<1>5. latest' \in Nat
  BY DEF IInv, Shape, TypeOK
<1> QED
  BY <1>1, <1>4, <1>5 DEF Promise!Next, Promise!Signal, Promise!Close

\* A notification is a publication of an open session, or the last one of a
\* closing session.
LEMMA LoopNotifyImplements ==
    ASSUME IInv, IInv', NEW l \in Loops, LoopNotify(l) PROVE [Promise!Next]_(Promise!vars)
<1>1. /\ loop_pc' = [loop_pc EXCEPT ![l] = "check"]
      /\ UNCHANGED event_set
      /\ latest' \in Nat
  BY DEF LoopNotify, LoopGoto, lifecycle, IInv, Shape, TypeOK
<1>2. loop_pc[l] = "notify" /\ loop_pc'[l] = "check"
  BY <1>1 DEF LoopNotify, IInv, Shape, TypeOK
<1>3. CASE l \in event_set
  <2>1. PhaseOf(l) = "closing" /\ PhaseOf(l)' = "closed"
    BY <1>1, <1>2, <1>3, PhaseCases, PhaseCasesNext DEF IInv, Shape
  <2>2. Promise!Move(l, "closing", "closed")
    BY <1>1, <2>1, LoopMoves DEF IInv, Shape
  <2> QED
    BY <1>1, <2>2 DEF Promise!Next, Promise!Close
<1>4. CASE l \notin event_set
  <2>1. Live(l) /\ Live(l)'
    BY <1>1, <1>2, <1>4 DEF Live, Alive
  <2>2. PhaseOf(l) = "open" /\ PhaseOf(l)' = "open"
    BY <2>1, PhaseCases, PhaseCasesNext DEF IInv, Shape
  <2>3. UNCHANGED session_phase
    BY <1>1, <2>2, LoopMoves DEF IInv, Shape
  <2> QED
    BY <1>1, <2>2, <2>3
       DEF Promise!Next, Promise!Publish, Promise!IsOpen, PhaseOf
<1> QED
  BY <1>3, <1>4

\* What a caller does to its own call, or to the collectors, is invisible but
\* for a publication on demand.
LEMMA CallerImplements ==
    ASSUME IInv, IInv', NEW c \in Callers, CallerStep(c) PROVE [Promise!Next]_(Promise!vars)
<1>1. CASE StartFirst(c)
  BY <1>1, StartFirstImplements
<1>2. CASE StartThread(c)
  BY <1>2, StartThreadImplements
<1>3. CASE StopLast(c)
  BY <1>3, StopLastImplements
<1>4. CASE Notify(c)
  <2>1. latest' \in Nat
    BY DEF IInv, Shape, TypeOK
  <2>2. UNCHANGED session_phase
    BY <1>4 DEF Notify, lifecycle, session_phase, Live, Alive, Finishing
  <2> QED
    BY <2>1, <2>2 DEF Promise!Next, Promise!OnDemand
<1>5. CASE \/ StartNested(c) \/ StopNested(c) \/ Trigger(c)
           \/ StartCollector(c) \/ StartCollectorsDone(c)
           \/ StopCollector(c) \/ StopCollectorsDone(c)
           \/ Join(c) \/ JoinRaises(c) \/ CollectorRaises(c)
           \/ Collect(c) \/ CollectRaises(c)
  <2>1. UNCHANGED <<loop_pc, event_set, latest>>
    BY <1>5 DEF StartNested, StopNested, DropReference, Trigger, StartCollector,
       StartCollectorsDone, StopCollector, StopCollectorsDone, AllStopped, Join,
       JoinRaises, CollectorRaises, Raise, Fail, Collect, CollectRaises, lifecycle, data
  <2> QED
    BY <2>1, Stutters
<1> QED
  BY <1>1, <1>2, <1>3, <1>4, <1>5 DEF CallerStep, CallStep

\* The core implements its promise, safety part: sessions open one at a time,
\* never reopen, and publish at most once after the stop that signalled them.
THEOREM Refinement == Spec => Promise!Spec
<1>1. Init => Promise!Init
  <2> SUFFICES ASSUME Init PROVE Promise!Init
    OBVIOUS
  <2>1. ASSUME NEW l \in Loops PROVE PhaseOf(l) = "unused"
    BY InitEstablishes, PhaseCases DEF Init, IInv, Shape
  <2>2. session_phase = [l \in Loops |-> "unused"]
    BY <2>1, PhaseIsFunction
  <2> QED
    BY <2>2 DEF Init, Promise!Init
<1>2. IInv /\ IInv' /\ [Next]_vars => [Promise!Next]_(Promise!vars)
  <2> SUFFICES ASSUME IInv, IInv', [Next]_vars PROVE [Promise!Next]_(Promise!vars)
    OBVIOUS
  <2>1. CASE \E c \in Callers : CallerStep(c)
    BY <2>1, CallerImplements
  <2>2. CASE \E l \in Loops : LoopStep(l)
    BY <2>2, LoopCheckImplements, LoopWakeImplements, LoopBreakImplements,
       LoopCollectImplements, LoopCollectRaisesImplements, LoopNotifyImplements
       DEF LoopStep
  <2>3. CASE UNCHANGED vars
    BY <2>3, Stutters DEF vars
  <2> QED
    BY <2>1, <2>2, <2>3 DEF Next
<1> QED
  BY <1>1, <1>2, Invariance, PTL DEF Spec, Promise!Spec
=============================================================================
