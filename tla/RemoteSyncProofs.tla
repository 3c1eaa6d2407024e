--------------------------- MODULE RemoteSyncProofs ---------------------------
(* The inductive invariant of RemoteSync and what follows from it. *)
EXTENDS RemoteSync, FiniteSetTheorems, TLAPS

IsAlive(m, t) == thread_pc[m][t] \in Alive

\* Threads are made in the order of starts; without a join that timed out only
\* the latest is alive, and it is not once it was joined.
ThreadsOf(m) ==
    /\ stop_event[m] <= starts[m]
    /\ event_set[m] \subseteq 1 .. stop_event[m]
    /\ \A t \in Starts : t > stop_event[m] => thread_pc[m][t] = "none"
    /\ call[m] # "idle" => started[m]
    /\ started[m] => stop_event[m] \in Starts
    /\ m \notin outlived => \A t \in Starts :
          IsAlive(m, t) => t = stop_event[m] /\ started[m] /\ call[m] # "stop"

Threads == \A m \in Masters : ThreadsOf(m)

\* A started collector has a live thread whose event is not set.
Syncing == \A m \in Masters \ stop_failed :
    started[m] /\ call[m] = "idle" =>
        /\ stop_event[m] \in Starts
        /\ stop_event[m] \notin event_set[m]
        /\ IsAlive(m, stop_event[m])

\* While every stop is answered none is late, and the count is large enough.
Count == stop_failed = {} /\ restarts = 0 =>
             late_stops = 0 /\ references >= 1 + Cardinality(Holders)

\* The slave's graph is the newest or gone; a graph about to be stored is not
\* older than the cached one.
GraphsInOrder ==
    /\ slave_graph \in {0, collections}
    /\ \A m \in Masters : cached[m] <= collections
    /\ \A m \in Masters, t \in Starts : in_hand[m][t] <= collections
    /\ \A m \in Masters \ outlived, t \in Starts :
          thread_pc[m][t] = "store" => in_hand[m][t] = 0 \/ in_hand[m][t] >= cached[m]

IInv == TypeOK /\ Threads /\ Syncing /\ Count /\ GraphsInOrder

-----------------------------------------------------------------------------
LEMMA TypeKeeps == IInv /\ [Next]_vars => TypeOK'
<1> SUFFICES ASSUME IInv, [Next]_vars PROVE TypeOK'
  OBVIOUS
<1> USE RemoteAssumption DEF IInv, TypeOK, Starts, Alive, lifecycle, syncing, counting,
           collecting, failures
<1>0. ASSUME NEW m \in Masters, NEW t \in Starts,
             NEW place \in Alive \cup {"none", "dead"}, ThreadGoto(m, t, place)
      PROVE  thread_pc' \in [Masters -> [Starts -> Alive \cup {"none", "dead"}]]
  BY <1>0 DEF ThreadGoto
<1>1. ASSUME NEW m \in Masters, Start(m) PROVE TypeOK'
  <2>1. starts[m] + 1 \in Starts /\ starts[m] + 1 \in 0 .. MaxStarts
    BY <1>1 DEF Start, Try
  <2>2. /\ starts' \in [Masters -> 0 .. MaxStarts] /\ stop_event' \in [Masters -> 0 .. MaxStarts]
        /\ started' \in [Masters -> BOOLEAN] /\ references' \in Nat
    BY <1>1, <2>1 DEF Start, Try
  <2>3. thread_pc' \in [Masters -> [Starts -> Alive \cup {"none", "dead"}]]
    BY <1>1, <2>1 DEF Start
  <2> QED
    BY <1>1, <2>2, <2>3 DEF Start
<1>2. ASSUME NEW m \in Masters, StartRaises(m) PROVE TypeOK'
  <2>1. late_starts' \in Nat /\ unanswered' \in Nat
    BY <1>2 DEF StartRaises, StartTried, NoAnswer
  <2>2. starts' \in [Masters -> 0 .. MaxStarts]
    BY <1>2 DEF StartRaises, StartTried, Try
  <2> QED
    BY <1>2, <2>1, <2>2 DEF StartRaises, StartTried
<1>3. ASSUME NEW m \in Masters, Stop(m) PROVE TypeOK'
  <2>1. event_set' \in [Masters -> SUBSET Starts]
    BY <1>3 DEF Stop, Signal, Threads, ThreadsOf
  <2>2. call' \in [Masters -> {"idle", "join", "stop"}]
    BY <1>3 DEF Stop, Signal
  <2> QED
    BY <1>3, <2>1, <2>2 DEF Stop, Signal
<1>4. ASSUME NEW m \in Masters, Join(m) PROVE TypeOK'
  BY <1>4 DEF Join, NoJoin, Joined, SyncThreadAlive
<1>5. ASSUME NEW m \in Masters, JoinTimesOut(m) PROVE TypeOK'
  BY <1>5 DEF JoinTimesOut, Joined, SyncThreadAlive
<1>6. ASSUME NEW m \in Masters, StopAnswered(m) PROVE TypeOK'
  BY <1>6 DEF StopAnswered, Drop
<1>7. ASSUME NEW m \in Masters, StopRaises(m) PROVE TypeOK'
  BY <1>7 DEF StopRaises, NoAnswer
<1>8. ASSUME NEW m \in Masters, Clear(m) PROVE TypeOK'
  BY <1>8 DEF Clear
<1>9. ASSUME NEW m \in Masters, NEW t \in Starts, Check(m, t) PROVE TypeOK'
  <2>1. thread_pc' \in [Masters -> [Starts -> Alive \cup {"none", "dead"}]]
    <3>1. \E place \in Alive \cup {"none", "dead"} : ThreadGoto(m, t, place)
      BY <1>9 DEF Check
    <3> QED
      BY <1>0, <3>1
  <2> QED
    BY <1>9, <2>1 DEF Check
<1>10. ASSUME NEW m \in Masters, NEW t \in Starts, Trigger(m, t) PROVE TypeOK'
  <2>1. thread_pc' \in [Masters -> [Starts -> Alive \cup {"none", "dead"}]]
    BY <1>0, <1>10 DEF Trigger
  <2>2. collections' \in Nat /\ slave_graph' \in Nat
    BY <1>10 DEF Trigger, KeepGraph
  <2> QED
    BY <1>10, <2>1, <2>2 DEF Trigger
<1>11. ASSUME NEW m \in Masters, NEW t \in Starts, Fetch(m, t) PROVE TypeOK'
  <2>1. thread_pc' \in [Masters -> [Starts -> Alive \cup {"none", "dead"}]]
    BY <1>0, <1>11 DEF Fetch
  <2>2. in_hand' \in [Masters -> [Starts -> Nat]]
    BY <1>11 DEF Fetch
  <2> QED
    BY <1>11, <2>1, <2>2 DEF Fetch
<1>12. ASSUME NEW m \in Masters, NEW t \in Starts, SyncError(m, t) PROVE TypeOK'
  <2>1. thread_pc' \in [Masters -> [Starts -> Alive \cup {"none", "dead"}]]
    BY <1>0, <1>12 DEF SyncError, SyncFails
  <2> QED
    BY <1>12, <2>1 DEF SyncError, SyncFails
<1>13. ASSUME NEW m \in Masters, NEW t \in Starts, Store(m, t) PROVE TypeOK'
  <2>1. thread_pc' \in [Masters -> [Starts -> Alive \cup {"none", "dead"}]]
    BY <1>0, <1>13 DEF Store
  <2>2. in_hand' \in [Masters -> [Starts -> Nat]]
    BY <1>13 DEF Store
  <2> QED
    BY <1>13, <2>1, <2>2 DEF Store
<1>14. ASSUME NEW m \in Masters, NEW t \in Starts, Wake(m, t) PROVE TypeOK'
  <2>1. thread_pc' \in [Masters -> [Starts -> Alive \cup {"none", "dead"}]]
    BY <1>0, <1>14 DEF Wake
  <2> QED
    BY <1>14, <2>1 DEF Wake
<1>15. CASE ServeLateStart
  BY <1>15 DEF ServeLateStart
<1>16. CASE ServeLateStop
  BY <1>16 DEF ServeLateStop, Drop
<1>17. CASE Restart
  BY <1>17 DEF Restart
<1>18. CASE Collect
  BY <1>18 DEF Collect, KeepGraph
<1>19. CASE UNCHANGED vars
  BY <1>19 DEF vars
<1> QED
    BY <1>1, <1>2, <1>3, <1>4, <1>5, <1>6, <1>7, <1>8, <1>9, <1>10, <1>11, <1>12, <1>13,
     <1>14, <1>15, <1>16, <1>17, <1>18, <1>19
     DEF Next, ThreadStep, StopStep

\* What a master's threads depend on stays as it is.
Undisturbed(k) == /\ stop_event'[k] = stop_event[k]
                  /\ event_set'[k] = event_set[k]
                  /\ starts'[k] = starts[k]
                  /\ started'[k] = started[k]
                  /\ call'[k] = call[k]
                  /\ \A t \in Starts : thread_pc'[k][t] = thread_pc[k][t]
                  /\ k \in outlived <=> k \in outlived'

LEMMA Frame == ASSUME Threads, NEW k \in Masters, Undisturbed(k) PROVE ThreadsOf(k)'
  BY DEF Threads, ThreadsOf, Undisturbed, IsAlive

LEMMA ThreadsKeep == IInv /\ [Next]_vars => Threads'
<1> SUFFICES ASSUME IInv, [Next]_vars PROVE Threads'
  OBVIOUS
<1> USE RemoteAssumption DEF IInv, TypeOK, Starts, lifecycle, syncing, counting,
           collecting, failures
<1>1. ASSUME NEW m \in Masters, Start(m) PROVE Threads'
  <2>1. ASSUME NEW k \in Masters, k # m PROVE ThreadsOf(k)'
    <3>1. Undisturbed(k)
      BY <1>1, <2>1 DEF Start, Try, Undisturbed
    <3> QED
      BY <3>1, Frame
  <2>2. ThreadsOf(m)'
    BY <1>1 DEF Start, Try, Threads, ThreadsOf, IsAlive, Alive
  <2> QED
    BY <2>1, <2>2 DEF Threads
<1>2. ASSUME NEW m \in Masters, StartRaises(m) PROVE Threads'
  <2>1. ASSUME NEW k \in Masters, k # m PROVE ThreadsOf(k)'
    <3>1. Undisturbed(k)
      BY <1>2, <2>1 DEF StartRaises, StartTried, Try, Undisturbed
    <3> QED
      BY <3>1, Frame
  <2>2. ThreadsOf(m)'
    BY <1>2 DEF StartRaises, StartTried, Try, Threads, ThreadsOf, IsAlive, Alive
  <2> QED
    BY <2>1, <2>2 DEF Threads
<1>3. ASSUME NEW m \in Masters, Stop(m) PROVE Threads'
  <2>1. ASSUME NEW k \in Masters, k # m PROVE ThreadsOf(k)'
    <3>1. Undisturbed(k)
      BY <1>3, <2>1 DEF Stop, Signal, Undisturbed
    <3> QED
      BY <3>1, Frame
  <2>2. ThreadsOf(m)'
    BY <1>3 DEF Stop, Signal, Threads, ThreadsOf, IsAlive, Alive
  <2> QED
    BY <2>1, <2>2 DEF Threads
<1>4. ASSUME NEW m \in Masters, Join(m) PROVE Threads'
  <2>1. ASSUME NEW k \in Masters, k # m PROVE ThreadsOf(k)'
    <3>1. Undisturbed(k)
      BY <1>4, <2>1 DEF Join, NoJoin, Joined, SyncThreadAlive, Undisturbed
    <3> QED
      BY <3>1, Frame
  <2>2. ThreadsOf(m)'
    BY <1>4 DEF Join, NoJoin, Joined, SyncThreadAlive, Threads, ThreadsOf, IsAlive, Alive
  <2> QED
    BY <2>1, <2>2 DEF Threads
<1>5. ASSUME NEW m \in Masters, JoinTimesOut(m) PROVE Threads'
  <2>1. ASSUME NEW k \in Masters, k # m PROVE ThreadsOf(k)'
    <3>1. Undisturbed(k)
      BY <1>5, <2>1 DEF JoinTimesOut, Joined, SyncThreadAlive, Undisturbed
    <3> QED
      BY <3>1, Frame
  <2>2. ThreadsOf(m)'
    BY <1>5 DEF JoinTimesOut, Joined, SyncThreadAlive, Threads, ThreadsOf, IsAlive, Alive
  <2> QED
    BY <2>1, <2>2 DEF Threads
<1>6. ASSUME NEW m \in Masters, StopAnswered(m) PROVE Threads'
  <2>1. ASSUME NEW k \in Masters, k # m PROVE ThreadsOf(k)'
    <3>1. Undisturbed(k)
      BY <1>6, <2>1 DEF StopAnswered, Undisturbed
    <3> QED
      BY <3>1, Frame
  <2>2. ThreadsOf(m)'
    BY <1>6 DEF StopAnswered, Threads, ThreadsOf, IsAlive, Alive
  <2> QED
    BY <2>1, <2>2 DEF Threads
<1>7. ASSUME NEW m \in Masters, StopRaises(m) PROVE Threads'
  <2>1. ASSUME NEW k \in Masters, k # m PROVE ThreadsOf(k)'
    <3>1. Undisturbed(k)
      BY <1>7, <2>1 DEF StopRaises, Undisturbed
    <3> QED
      BY <3>1, Frame
  <2>2. ThreadsOf(m)'
    BY <1>7 DEF StopRaises, Threads, ThreadsOf, IsAlive, Alive
  <2> QED
    BY <2>1, <2>2 DEF Threads
<1>8. ASSUME NEW m \in Masters, Clear(m) PROVE Threads'
  <2> SUFFICES ASSUME NEW k \in Masters PROVE Undisturbed(k)
    BY Frame DEF Threads
  <2> QED
    BY <1>8 DEF Clear, Undisturbed
<1>9. ASSUME NEW m \in Masters, NEW t \in Starts, Check(m, t) PROVE Threads'
  <2>1. ASSUME NEW k \in Masters, k # m PROVE ThreadsOf(k)'
    <3>1. Undisturbed(k)
      BY <1>9, <2>1 DEF Check, ThreadGoto, Undisturbed
    <3> QED
      BY <3>1, Frame
  <2>2. ThreadsOf(m)'
    BY <1>9 DEF Check, ThreadGoto, Threads, ThreadsOf, IsAlive, Alive
  <2> QED
    BY <2>1, <2>2 DEF Threads
<1>10. ASSUME NEW m \in Masters, NEW t \in Starts, Trigger(m, t) PROVE Threads'
  <2>1. ASSUME NEW k \in Masters, k # m PROVE ThreadsOf(k)'
    <3>1. Undisturbed(k)
      BY <1>10, <2>1 DEF Trigger, ThreadGoto, Undisturbed
    <3> QED
      BY <3>1, Frame
  <2>2. ThreadsOf(m)'
    BY <1>10 DEF Trigger, ThreadGoto, Threads, ThreadsOf, IsAlive, Alive
  <2> QED
    BY <2>1, <2>2 DEF Threads
<1>11. ASSUME NEW m \in Masters, NEW t \in Starts, Fetch(m, t) PROVE Threads'
  <2>1. ASSUME NEW k \in Masters, k # m PROVE ThreadsOf(k)'
    <3>1. Undisturbed(k)
      BY <1>11, <2>1 DEF Fetch, ThreadGoto, Undisturbed
    <3> QED
      BY <3>1, Frame
  <2>2. ThreadsOf(m)'
    BY <1>11 DEF Fetch, ThreadGoto, Threads, ThreadsOf, IsAlive, Alive
  <2> QED
    BY <2>1, <2>2 DEF Threads
<1>12. ASSUME NEW m \in Masters, NEW t \in Starts, SyncError(m, t) PROVE Threads'
  <2>1. ASSUME NEW k \in Masters, k # m PROVE ThreadsOf(k)'
    <3>1. Undisturbed(k)
      BY <1>12, <2>1 DEF SyncError, SyncFails, ThreadGoto, Undisturbed
    <3> QED
      BY <3>1, Frame
  <2>2. ThreadsOf(m)'
    BY <1>12 DEF SyncError, SyncFails, ThreadGoto, Threads, ThreadsOf, IsAlive, Alive
  <2> QED
    BY <2>1, <2>2 DEF Threads
<1>13. ASSUME NEW m \in Masters, NEW t \in Starts, Store(m, t) PROVE Threads'
  <2>1. ASSUME NEW k \in Masters, k # m PROVE ThreadsOf(k)'
    <3>1. Undisturbed(k)
      BY <1>13, <2>1 DEF Store, ThreadGoto, Undisturbed
    <3> QED
      BY <3>1, Frame
  <2>2. ThreadsOf(m)'
    BY <1>13 DEF Store, ThreadGoto, Threads, ThreadsOf, IsAlive, Alive
  <2> QED
    BY <2>1, <2>2 DEF Threads
<1>14. ASSUME NEW m \in Masters, NEW t \in Starts, Wake(m, t) PROVE Threads'
  <2>1. ASSUME NEW k \in Masters, k # m PROVE ThreadsOf(k)'
    <3>1. Undisturbed(k)
      BY <1>14, <2>1 DEF Wake, ThreadGoto, Undisturbed
    <3> QED
      BY <3>1, Frame
  <2>2. ThreadsOf(m)'
    BY <1>14 DEF Wake, ThreadGoto, Threads, ThreadsOf, IsAlive, Alive
  <2> QED
    BY <2>1, <2>2 DEF Threads
<1>15. ASSUME UNCHANGED <<lifecycle, syncing, failures>> PROVE Threads'
  <2> SUFFICES ASSUME NEW k \in Masters PROVE Undisturbed(k)
    BY Frame DEF Threads
  <2> QED
    BY <1>15 DEF Undisturbed
<1>16. CASE ServeLateStart \/ ServeLateStop \/ Restart \/ Collect \/ UNCHANGED vars
  BY <1>15, <1>16 DEF ServeLateStart, ServeLateStop, Restart, Collect, vars
<1> QED
    BY <1>1, <1>2, <1>3, <1>4, <1>5, <1>6, <1>7, <1>8, <1>9, <1>10, <1>11, <1>12, <1>13,
     <1>14, <1>16
     DEF Next, ThreadStep, StopStep

LEMMA SyncingKeeps == IInv /\ [Next]_vars => Syncing'
<1> SUFFICES ASSUME IInv, [Next]_vars PROVE Syncing'
  OBVIOUS
<1> USE RemoteAssumption DEF IInv, TypeOK, Threads, ThreadsOf, Syncing, IsAlive, Starts,
           Alive, lifecycle, syncing, counting, collecting, failures
<1>1. ASSUME NEW m \in Masters, Start(m) PROVE Syncing'
  BY <1>1 DEF Start, Try
<1>2. ASSUME NEW m \in Masters, StartRaises(m) PROVE Syncing'
  BY <1>2 DEF StartRaises, StartTried, Try, NoAnswer
<1>3. ASSUME NEW m \in Masters, Stop(m) PROVE Syncing'
  BY <1>3 DEF Stop, Signal
<1>4. ASSUME NEW m \in Masters, Join(m) PROVE Syncing'
  BY <1>4 DEF Join, NoJoin, Joined, SyncThreadAlive
<1>5. ASSUME NEW m \in Masters, JoinTimesOut(m) PROVE Syncing'
  BY <1>5 DEF JoinTimesOut, Joined, SyncThreadAlive
<1>6. ASSUME NEW m \in Masters, StopAnswered(m) PROVE Syncing'
  BY <1>6 DEF StopAnswered, Drop
<1>7. ASSUME NEW m \in Masters, StopRaises(m) PROVE Syncing'
  BY <1>7 DEF StopRaises, NoAnswer
<1>8. ASSUME NEW m \in Masters, Clear(m) PROVE Syncing'
  BY <1>8 DEF Clear
<1>9. ASSUME NEW m \in Masters, NEW t \in Starts, Check(m, t) PROVE Syncing'
  BY <1>9 DEF Check, ThreadGoto
<1>10. ASSUME NEW m \in Masters, NEW t \in Starts, Trigger(m, t) PROVE Syncing'
  BY <1>10 DEF Trigger, ThreadGoto, KeepGraph
<1>11. ASSUME NEW m \in Masters, NEW t \in Starts, Fetch(m, t) PROVE Syncing'
  BY <1>11 DEF Fetch, ThreadGoto
<1>12. ASSUME NEW m \in Masters, NEW t \in Starts, SyncError(m, t) PROVE Syncing'
  BY <1>12 DEF SyncError, SyncFails, ThreadGoto
<1>13. ASSUME NEW m \in Masters, NEW t \in Starts, Store(m, t) PROVE Syncing'
  BY <1>13 DEF Store, ThreadGoto
<1>14. ASSUME NEW m \in Masters, NEW t \in Starts, Wake(m, t) PROVE Syncing'
  BY <1>14 DEF Wake, ThreadGoto
<1>15. CASE ServeLateStart
  BY <1>15 DEF ServeLateStart
<1>16. CASE ServeLateStop
  BY <1>16 DEF ServeLateStop, Drop
<1>17. CASE Restart
  BY <1>17 DEF Restart
<1>18. CASE Collect
  BY <1>18 DEF Collect, KeepGraph
<1>19. CASE UNCHANGED vars
  BY <1>19 DEF vars
<1> QED
    BY <1>1, <1>2, <1>3, <1>4, <1>5, <1>6, <1>7, <1>8, <1>9, <1>10, <1>11, <1>12, <1>13,
     <1>14, <1>15, <1>16, <1>17, <1>18, <1>19
     DEF Next, ThreadStep, StopStep

LEMMA GraphsKeep == IInv /\ [Next]_vars => GraphsInOrder'
<1> SUFFICES ASSUME IInv, [Next]_vars PROVE GraphsInOrder'
  OBVIOUS
<1> USE RemoteAssumption DEF IInv, TypeOK, Threads, ThreadsOf, GraphsInOrder, IsAlive,
           Starts, Alive, lifecycle, syncing, counting, collecting, failures
<1>1. ASSUME NEW m \in Masters, Start(m) PROVE GraphsInOrder'
  BY <1>1 DEF Start, Try
<1>2. ASSUME NEW m \in Masters, StartRaises(m) PROVE GraphsInOrder'
  BY <1>2 DEF StartRaises, StartTried, Try, NoAnswer
<1>3. ASSUME NEW m \in Masters, Stop(m) PROVE GraphsInOrder'
  BY <1>3 DEF Stop, Signal
<1>4. ASSUME NEW m \in Masters, Join(m) PROVE GraphsInOrder'
  BY <1>4 DEF Join, NoJoin, Joined, SyncThreadAlive
<1>5. ASSUME NEW m \in Masters, JoinTimesOut(m) PROVE GraphsInOrder'
  BY <1>5 DEF JoinTimesOut, Joined, SyncThreadAlive
<1>6. ASSUME NEW m \in Masters, StopAnswered(m) PROVE GraphsInOrder'
  BY <1>6 DEF StopAnswered, Drop
<1>7. ASSUME NEW m \in Masters, StopRaises(m) PROVE GraphsInOrder'
  BY <1>7 DEF StopRaises, NoAnswer
<1>8. ASSUME NEW m \in Masters, Clear(m) PROVE GraphsInOrder'
  BY <1>8 DEF Clear
<1>9. ASSUME NEW m \in Masters, NEW t \in Starts, Check(m, t) PROVE GraphsInOrder'
  BY <1>9 DEF Check, ThreadGoto
<1>10. ASSUME NEW m \in Masters, NEW t \in Starts, Trigger(m, t) PROVE GraphsInOrder'
  <2>1. slave_graph' \in {0, collections'}
    BY <1>10 DEF Trigger, ThreadGoto, KeepGraph
  <2>2. \A k \in Masters : cached'[k] <= collections'
    BY <1>10 DEF Trigger, ThreadGoto, KeepGraph
  <2>3. \A k \in Masters, u \in Starts : in_hand'[k][u] <= collections'
    <3>1. collections' \in Nat /\ collections' >= collections
      BY <1>10 DEF Trigger, KeepGraph
    <3>2. in_hand' = in_hand
      BY <1>10 DEF Trigger
    <3>3. \A k \in Masters, u \in Starts : in_hand[k][u] \in Nat /\ in_hand[k][u] <= collections
      OBVIOUS
    <3>4. collections \in Nat
      OBVIOUS
    <3> HIDE DEF IInv, TypeOK, Threads, ThreadsOf, GraphsInOrder, IsAlive, Starts, Alive
    <3> QED
      BY <3>1, <3>2, <3>3, <3>4
  <2>4. ASSUME NEW k \in Masters \ outlived', NEW u \in Starts, thread_pc'[k][u] = "store"
        PROVE in_hand'[k][u] = 0 \/ in_hand'[k][u] >= cached'[k]
    <3>1. thread_pc[k][u] = "store" /\ in_hand' = in_hand /\ cached' = cached
      BY <1>10, <2>4 DEF Trigger, ThreadGoto
    <3> QED
      BY <1>10, <2>4, <3>1 DEF Trigger
  <2> QED
    BY <2>1, <2>2, <2>3, <2>4
<1>11. ASSUME NEW m \in Masters, NEW t \in Starts, Fetch(m, t) PROVE GraphsInOrder'
  <2>1. slave_graph' \in {0, collections'}
    BY <1>11 DEF Fetch, ThreadGoto
  <2>2. \A k \in Masters : cached'[k] <= collections'
    BY <1>11 DEF Fetch, ThreadGoto
  <2>3. \A k \in Masters, u \in Starts : in_hand'[k][u] <= collections'
    BY <1>11 DEF Fetch, ThreadGoto
  <2>4. ASSUME NEW k \in Masters \ outlived', NEW u \in Starts, thread_pc'[k][u] = "store"
        PROVE in_hand'[k][u] = 0 \/ in_hand'[k][u] >= cached'[k]
    BY <1>11, <2>4 DEF Fetch, ThreadGoto
  <2> QED
    BY <2>1, <2>2, <2>3, <2>4
<1>12. ASSUME NEW m \in Masters, NEW t \in Starts, SyncError(m, t) PROVE GraphsInOrder'
  BY <1>12 DEF SyncError, SyncFails, ThreadGoto
<1>13. ASSUME NEW m \in Masters, NEW t \in Starts, Store(m, t) PROVE GraphsInOrder'
  <2>1. slave_graph' \in {0, collections'}
    BY <1>13 DEF Store, ThreadGoto
  <2>2. \A k \in Masters : cached'[k] <= collections'
    BY <1>13 DEF Store, ThreadGoto
  <2>3. \A k \in Masters, u \in Starts : in_hand'[k][u] <= collections'
    BY <1>13 DEF Store, ThreadGoto
  <2>4. ASSUME NEW k \in Masters \ outlived', NEW u \in Starts, thread_pc'[k][u] = "store"
        PROVE in_hand'[k][u] = 0 \/ in_hand'[k][u] >= cached'[k]
    BY <1>13, <2>4 DEF Store, ThreadGoto
  <2> QED
    BY <2>1, <2>2, <2>3, <2>4
<1>14. ASSUME NEW m \in Masters, NEW t \in Starts, Wake(m, t) PROVE GraphsInOrder'
  BY <1>14 DEF Wake, ThreadGoto
<1>15. CASE ServeLateStart
  BY <1>15 DEF ServeLateStart
<1>16. CASE ServeLateStop
  BY <1>16 DEF ServeLateStop, Drop
<1>17. CASE Restart
  BY <1>17 DEF Restart
<1>18. CASE Collect
  BY <1>18 DEF Collect, KeepGraph
<1>19. CASE UNCHANGED vars
  BY <1>19 DEF vars
<1> QED
    BY <1>1, <1>2, <1>3, <1>4, <1>5, <1>6, <1>7, <1>8, <1>9, <1>10, <1>11, <1>12, <1>13,
     <1>14, <1>15, <1>16, <1>17, <1>18, <1>19
     DEF Next, ThreadStep, StopStep

LEMMA HoldersFinite == IsFiniteSet(Holders) /\ Cardinality(Holders) \in Nat
BY RemoteAssumption, FS_Subset, FS_CardinalityType DEF Holders

\* A start adds a holder with its reference, an answered stop takes both away;
\* whatever else happens only adds references.
LEMMA CountKeeps == IInv /\ [Next]_vars => Count'
<1> SUFFICES ASSUME IInv, [Next]_vars, stop_failed' = {}, restarts' = 0
             PROVE  late_stops' = 0 /\ references' >= 1 + Cardinality(Holders')
  BY DEF Count
<1> USE RemoteAssumption DEF IInv, TypeOK, lifecycle, syncing, counting, collecting,
                            failures
<1>1. stop_failed = {} /\ restarts = 0
  <2>1. stop_failed \subseteq stop_failed' /\ restarts <= restarts'
    BY DEF Next, ThreadStep, StopStep, Start, StartRaises, StartTried, Stop, Signal, Join,
           NoJoin, Joined, JoinTimesOut, StopAnswered, StopRaises, Clear, Check, Trigger,
           Fetch, SyncError, SyncFails, Store, Wake, ServeLateStart, ServeLateStop, Restart,
           Collect, vars
  <2> QED
    BY <2>1
<1>2. late_stops = 0 /\ references >= 1 + Cardinality(Holders)
  BY <1>1 DEF Count
<1>3. ASSUME started' = started, late_stops' = late_stops, references' \in Nat,
             references' >= references
      PROVE  late_stops' = 0 /\ references' >= 1 + Cardinality(Holders')
  BY <1>2, <1>3, HoldersFinite DEF Holders
<1>4. ASSUME NEW m \in Masters, Start(m)
      PROVE  late_stops' = 0 /\ references' >= 1 + Cardinality(Holders')
  <2>1. Holders' = Holders \cup {m} /\ m \notin Holders
    BY <1>4 DEF Start, Try, Holders
  <2>2. Cardinality(Holders') = Cardinality(Holders) + 1
    BY <2>1, HoldersFinite, FS_AddElement
  <2> QED
    BY <1>2, <1>4, <2>2, HoldersFinite DEF Start
<1>5. ASSUME NEW m \in Masters, StopAnswered(m)
      PROVE  late_stops' = 0 /\ references' >= 1 + Cardinality(Holders')
  <2>1. m \in Holders
    BY <1>5 DEF StopAnswered, Holders, Threads, ThreadsOf
  <2>2. Holders' = Holders \ {m}
    BY <1>5 DEF StopAnswered, Holders
  <2>3. Cardinality(Holders') = Cardinality(Holders) - 1
    BY <2>1, <2>2, HoldersFinite, FS_RemoveElement
  <2>4. Cardinality(Holders) >= 1
    BY <2>1, HoldersFinite, FS_EmptySet
  <2> QED
    BY <1>2, <1>5, <2>3, <2>4, HoldersFinite DEF StopAnswered, Drop
<1>6. ASSUME NEW m \in Masters,
             StartRaises(m) \/ Stop(m) \/ Join(m) \/ JoinTimesOut(m) \/ Clear(m)
      PROVE  late_stops' = 0 /\ references' >= 1 + Cardinality(Holders')
  BY <1>3, <1>6 DEF StartRaises, StartTried, Stop, Signal, Join, NoJoin, Joined,
                    JoinTimesOut, Clear
<1>7. ASSUME NEW m \in Masters, StopRaises(m) PROVE FALSE
  BY <1>7 DEF StopRaises
<1>8. ASSUME NEW m \in Masters, NEW t \in Starts, ThreadStep(m, t)
      PROVE  late_stops' = 0 /\ references' >= 1 + Cardinality(Holders')
  BY <1>3, <1>8 DEF ThreadStep, Check, Trigger, Fetch, SyncError, SyncFails, Store, Wake
<1>9. CASE ServeLateStart \/ Collect \/ UNCHANGED vars
  BY <1>3, <1>9 DEF ServeLateStart, Collect, vars
<1>10. CASE ServeLateStop \/ Restart
  BY <1>1, <1>2, <1>10 DEF ServeLateStop, Restart
<1> QED
  BY <1>4, <1>5, <1>6, <1>7, <1>8, <1>9, <1>10 DEF Next, StopStep

LEMMA InitEstablishes == Init => IInv
<1> SUFFICES ASSUME Init PROVE IInv
  OBVIOUS
<1> USE RemoteAssumption DEF Init, Starts
<1>1. TypeOK
  BY DEF TypeOK, Alive
<1>2. Threads
  BY DEF Threads, ThreadsOf, IsAlive, Alive
<1>3. Syncing /\ GraphsInOrder
  BY DEF Syncing, GraphsInOrder
<1>4. Count
  <2>1. Holders = {}
    BY DEF Holders
  <2> QED
    BY <2>1, FS_EmptySet DEF Count
<1> QED
  BY <1>1, <1>2, <1>3, <1>4 DEF IInv

-----------------------------------------------------------------------------
(* Theorems *)

\* The inductive invariant holds in every behaviour.
THEOREM Invariance == Spec => []IInv
<1>1. IInv /\ [Next]_vars => IInv'
  BY TypeKeeps, ThreadsKeep, SyncingKeeps, CountKeeps, GraphsKeep DEF IInv
<1> QED
  BY InitEstablishes, <1>1, PTL DEF Spec

\* Every variable keeps its type; in particular the slave's count of
\* references is never negative, however many stops are repeated.
THEOREM TypeCorrect == Spec => []TypeOK
<1>1. IInv => TypeOK
  BY DEF IInv
<1> QED
  BY <1>1, Invariance, PTL

\* While every stop is answered no master drops a reference that is not its
\* own, for any number of masters and whatever happens to the starts.
THEOREM Balance == Spec => []NobodyRobbed
<1>1. IInv => NobodyRobbed
  BY DEF IInv, Count, NobodyRobbed
<1> QED
  BY <1>1, Invariance, PTL

\* Unless a join has timed out, a collector has one sync thread (start and
\* stop, lines 105 to 145).
THEOREM OneThread == Spec => []OneSyncThread
<1>1. IInv => OneSyncThread
  BY DEF IInv, Threads, ThreadsOf, OneSyncThread, IsAlive
<1> QED
  BY <1>1, Invariance, PTL

\* A started collector none of whose stops has failed has its sync thread,
\* whatever fails in a sync.
THEOREM KeepsSyncing == Spec => []StartedSyncs
<1>1. IInv => StartedSyncs
  BY DEF IInv, Syncing, StartedSyncs, SyncThreadAlive, IsAlive, Starts
<1> QED
  BY <1>1, Invariance, PTL

\* Unless a join has timed out, no step puts back an older graph of the slave.
THEOREM NoOlderGraph == Spec => CacheMovesOn
<1>1. IInv /\ [Next]_vars => CacheStep \/ UNCHANGED vars
  <2> SUFFICES ASSUME IInv, [Next]_vars, NEW k \in Masters \ outlived,
                      cached'[k] # cached[k]
               PROVE  cached'[k] = 0 \/ cached'[k] >= cached[k]
    BY DEF CacheStep, IInv, TypeOK
  <2>1. ASSUME NEW m \in Masters, Clear(m)
        PROVE  cached'[k] = 0 \/ cached'[k] >= cached[k]
    BY <2>1 DEF Clear, IInv, TypeOK
  <2>2. ASSUME NEW m \in Masters, NEW t \in Starts, Store(m, t)
        PROVE  cached'[k] = 0 \/ cached'[k] >= cached[k]
    BY <2>2 DEF Store, IInv, TypeOK, GraphsInOrder
  <2> QED
    BY <2>1, <2>2 DEF Next, ThreadStep, StopStep, Start, StartRaises, StartTried, Stop,
         Signal, Join, NoJoin, Joined, JoinTimesOut, StopAnswered, StopRaises, Check,
         Trigger, Fetch, SyncError, SyncFails, Wake, ServeLateStart, ServeLateStop,
         Restart, Collect, vars, syncing
<1> QED
  BY <1>1, Invariance, PTL DEF Spec, CacheMovesOn
=============================================================================
