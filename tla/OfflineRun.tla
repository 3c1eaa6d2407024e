------------------------------ MODULE OfflineRun ------------------------------
(***************************************************************************)
(* main(): the process lock, then an offline or an online run of the core,  *)
(* until the process ends.  Offline, SIGTERM has a handler, which Python     *)
(* runs on the main thread between two steps of whatever it is doing: a      *)
(* frame on top of the others, that stops the core (whose RLock lets the     *)
(* same thread in) and raises SystemExit.  SIGINT raises KeyboardInterrupt   *)
(* where the thread is.  Runs follow each other on one host and share the    *)
(* lock file and the two result files.                                      *)
(***************************************************************************)
EXTENDS Integers, SequencesExt

CONSTANTS
    Procs,           \* processes: runs of main()
    Subs,            \* number of subcollectors
    MaxSignals       \* signals sent to a process: a bound of the model

ASSUME RunAssumption ==
    Procs \subseteq Nat \ {0} /\ Subs \in Nat \ {0} /\ MaxSignals \in Nat

VARIABLES
    holder,          \* the process that holds the lock file; 0 is none
    main,            \* where main() is, in each process
    at,              \* the subcollector its start or stop has come to
    frames,          \* the handler frames on top of it: where each of them is
    handled,         \* the SIGTERM handler is installed
    refs,            \* _running
    on,              \* subcollectors that are on
    set_on,          \* CollectorSet._start_status
    loop,            \* the collection loop: "none", "made", "on" or "told"
    signals,         \* how many signals were sent
    disturbed,       \* history: a signal or an exception hit a start or a stop
    json, text,      \* whose graph each result file holds
    torn             \* history: a run ended between the two results

run_data == <<refs, on, set_on, loop>>
run_files == <<json, text, torn>>
run_vars == <<holder, main, at, frames, handled, run_data, signals, disturbed, run_files>>

Ended == {"exit 0", "exit 1"}
Writing == {"write_json", "open_text", "write_text"}
Starting == {"start", "start_subs", "start_thread"}
Stopping == {"stop_subs", "join"}
FrameAt == {"handler", "stop_subs", "join", "restore"}

OfflineInit ==
    /\ holder = 0 /\ json = 0 /\ text = 0 /\ torn = FALSE
    /\ main = [p \in Procs |-> "off"] /\ at = [p \in Procs |-> 0]
    /\ frames = [p \in Procs |-> <<>>]
    /\ handled = [p \in Procs |-> FALSE]
    /\ refs = [p \in Procs |-> 0] /\ on = [p \in Procs |-> {}]
    /\ set_on = [p \in Procs |-> FALSE] /\ loop = [p \in Procs |-> "none"]
    /\ signals = [p \in Procs |-> 0] /\ disturbed = [p \in Procs |-> FALSE]

InMain(p, place) == frames[p] = <<>> /\ main[p] = place
Goto(p, place) == main' = [main EXCEPT ![p] = place]

\* The process ends: whatever its frames, the system takes its lock back.
End(p, code) ==
    /\ Goto(p, code) /\ frames' = [frames EXCEPT ![p] = <<>>]
    /\ holder' = IF holder = p THEN 0 ELSE holder
    /\ torn' = (torn \/ main[p] \in Writing)

-----------------------------------------------------------------------------
(* main() *)

\* Somebody runs the command.
Launch(p) ==
    /\ InMain(p, "off") /\ Goto(p, "lock")
    /\ UNCHANGED <<holder, at, frames, handled, run_data, signals, disturbed, run_files>>

\* Mutant: the lock file is opened and not locked.
AcquireAnyway(p) ==
    /\ InMain(p, "lock") /\ holder' = p /\ Goto(p, "locked")
    /\ UNCHANGED <<at, frames, handled, run_data, signals, disturbed, run_files>>

\* acquire(): flock without waiting; who cannot have it exits.
Acquire(p) ==
    /\ InMain(p, "lock")
    /\ IF holder = 0
         THEN holder' = p /\ Goto(p, "locked") /\ UNCHANGED <<frames, torn>>
         ELSE End(p, "exit 1")
    /\ UNCHANGED <<at, handled, run_data, signals, disturbed, json, text>>

\* Offline: the handler, then start.  Online: start and the server.
BeginRun(p) ==
    /\ InMain(p, "locked") /\ Goto(p, "start")
    /\ handled' \in {handled, [handled EXCEPT ![p] = TRUE]}
    /\ UNCHANGED <<holder, at, frames, run_data, signals, disturbed, run_files>>

StartCore(p) ==
    /\ InMain(p, "start") /\ Goto(p, "start_subs")
    /\ refs' = [refs EXCEPT ![p] = 1] /\ loop' = [loop EXCEPT ![p] = "made"]
    /\ at' = [at EXCEPT ![p] = 1]
    /\ UNCHANGED <<holder, frames, handled, on, set_on, signals, disturbed, run_files>>

StartSub(p) ==
    /\ InMain(p, "start_subs")
    /\ IF at[p] <= Subs
         THEN /\ on' = [on EXCEPT ![p] = @ \cup {at[p]}]
              /\ at' = [at EXCEPT ![p] = @ + 1]
              /\ UNCHANGED <<main, set_on>>
         ELSE /\ set_on' = [set_on EXCEPT ![p] = TRUE]
              /\ Goto(p, "start_thread")
              /\ UNCHANGED <<on, at>>
    /\ UNCHANGED <<holder, frames, handled, refs, loop, signals, disturbed, run_files>>

StartLoop(p) ==
    /\ InMain(p, "start_thread") /\ Goto(p, "sleep")
    /\ loop' = [loop EXCEPT ![p] = "on"]
    /\ UNCHANGED <<holder, at, frames, handled, refs, on, set_on, signals, disturbed, run_files>>

\* stop(), up to the collectors.
StopCalled(p) ==
    IF refs[p] = 0
      THEN UNCHANGED <<refs, loop, at>>
      ELSE /\ refs' = [refs EXCEPT ![p] = 0]
           /\ loop' = [loop EXCEPT ![p] = IF @ = "on" THEN "told" ELSE @]
           /\ at' = [at EXCEPT ![p] = 1]

\* Where a stop of p goes from there; a core that is not running is left alone.
AfterStop(p, back) == CASE refs[p] = 0 -> back [] set_on[p] -> "stop_subs" [] OTHER -> "join"

\* The duration is over, or uvicorn returns.
StopCore(p) ==
    /\ InMain(p, "sleep") /\ StopCalled(p)
    /\ Goto(p, AfterStop(p, "collect"))
    /\ UNCHANGED <<holder, frames, handled, on, set_on, signals, disturbed, run_files>>

\* One collector less, in main() or in the handler on top, or the flag after the last.
OneSubLess(p) ==
    IF at[p] <= Subs
      THEN on' = [on EXCEPT ![p] = @ \ {at[p]}] /\ at' = [at EXCEPT ![p] = @ + 1]
           /\ UNCHANGED set_on
      ELSE set_on' = [set_on EXCEPT ![p] = FALSE] /\ UNCHANGED <<on, at>>

StopSub(p) ==
    /\ InMain(p, "stop_subs") /\ OneSubLess(p)
    /\ Goto(p, IF at[p] <= Subs THEN "stop_subs" ELSE "join")
    /\ UNCHANGED <<holder, frames, handled, refs, loop, signals, disturbed, run_files>>

JoinLoop(p) ==
    /\ InMain(p, "join")
    /\ IF handled[p] THEN Goto(p, "collect") /\ UNCHANGED <<holder, frames, torn>>
                     ELSE End(p, "exit 0")
    /\ UNCHANGED <<at, handled, run_data, signals, disturbed, json, text>>

\* A collector raises in a start or a stop: nothing is taken back.
SubRaises(p) ==
    /\ frames[p] = <<>> /\ main[p] \in {"start_subs", "stop_subs"} /\ at[p] <= Subs
    /\ End(p, "exit 1") /\ disturbed' = [disturbed EXCEPT ![p] = TRUE]
    /\ UNCHANGED <<at, handled, run_data, signals, json, text>>

CollectGraph(p) ==
    /\ InMain(p, "collect") /\ Goto(p, "open_json")
    /\ UNCHANGED <<holder, at, frames, handled, run_data, signals, disturbed, run_files>>

\* A file is empty from its opening to its writing.
WriteJson(p) ==
    /\ \/ InMain(p, "open_json") /\ Goto(p, "write_json") /\ json' = 0
       \/ InMain(p, "write_json") /\ Goto(p, "open_text") /\ json' = p
    /\ UNCHANGED <<holder, at, frames, handled, run_data, signals, disturbed, text, torn>>

WriteText(p) ==
    /\ \/ InMain(p, "open_text") /\ Goto(p, "write_text") /\ text' = 0 /\ UNCHANGED holder
       \/ InMain(p, "write_text") /\ Goto(p, "exit 0") /\ text' = p /\ holder' = 0
    /\ UNCHANGED <<at, frames, handled, run_data, signals, disturbed, json, torn>>
-----------------------------------------------------------------------------
(* Signals. *)

Hit(p) == main[p] \in Starting \cup Stopping \/ frames[p] # <<>>

Sigterm(p) ==
    /\ handled[p] /\ main[p] \notin Ended /\ signals[p] < MaxSignals
    /\ signals' = [signals EXCEPT ![p] = @ + 1]
    /\ disturbed' = [disturbed EXCEPT ![p] = @ \/ Hit(p)]
    /\ frames' = [frames EXCEPT ![p] = Append(@, "handler")]
    /\ UNCHANGED <<holder, main, at, handled, run_data, run_files>>

\* KeyboardInterrupt: around the sleep or the server it is caught, and a stop
\* follows; elsewhere main() ends.
Interrupt(p) ==
    /\ main[p] \notin Ended \cup {"off", "lock"} /\ signals[p] < MaxSignals
    /\ signals' = [signals EXCEPT ![p] = @ + 1]
    /\ disturbed' = [disturbed EXCEPT ![p] = @ \/ Hit(p)]
    /\ IF main[p] = "sleep"
         THEN frames' = [frames EXCEPT ![p] = <<>>] /\ UNCHANGED <<main, holder, torn>>
         ELSE End(p, "exit 0")
    /\ UNCHANGED <<at, handled, run_data, json, text>>

Top(p) == Last(frames[p])
InFrame(p, place) == frames[p] # <<>> /\ Top(p) = place
FrameGoto(p, place) == frames' = [frames EXCEPT ![p] = Append(Front(@), place)]

\* Mutant: the handler is for ending, not for stopping.
HandlerStopsNothing(p) ==
    /\ InFrame(p, "handler") /\ FrameGoto(p, "restore")
    /\ UNCHANGED <<holder, main, at, handled, run_data, signals, disturbed, run_files>>

\* Mutant: the lock of the core lets nobody in, not even its holder.
HandlerStopsLocked(p) ==
    /\ InFrame(p, "handler") /\ main[p] \notin Starting \cup Stopping
    /\ StopCalled(p) /\ FrameGoto(p, AfterStop(p, "restore"))
    /\ UNCHANGED <<holder, main, handled, on, set_on, signals, disturbed, run_files>>

HandlerStops(p) ==
    /\ InFrame(p, "handler") /\ StopCalled(p) /\ FrameGoto(p, AfterStop(p, "restore"))
    /\ UNCHANGED <<holder, main, handled, on, set_on, signals, disturbed, run_files>>

HandlerStopsSub(p) ==
    /\ InFrame(p, "stop_subs") /\ OneSubLess(p)
    /\ FrameGoto(p, IF at[p] <= Subs THEN "stop_subs" ELSE "join")
    /\ UNCHANGED <<holder, main, handled, refs, loop, signals, disturbed, run_files>>

\* A thread that was made and not started cannot be joined: RuntimeError,
\* which main() takes for a fatal error.
HandlerJoins(p) ==
    /\ InFrame(p, "join")
    /\ IF loop[p] = "made" THEN End(p, "exit 1")
                           ELSE FrameGoto(p, "restore") /\ UNCHANGED <<main, holder, torn>>
    /\ UNCHANGED <<at, handled, run_data, signals, disturbed, json, text>>

\* SystemExit(0) passes through every frame.
HandlerExits(p) ==
    /\ InFrame(p, "restore") /\ End(p, "exit 0")
    /\ UNCHANGED <<at, handled, run_data, signals, disturbed, json, text>>

Handler(p) == HandlerStops(p) \/ HandlerStopsSub(p) \/ HandlerJoins(p) \/ HandlerExits(p)

MainStep(p) ==
    \/ Acquire(p) \/ BeginRun(p) \/ StartCore(p) \/ StartSub(p) \/ StartLoop(p)
    \/ StopCore(p) \/ StopSub(p) \/ JoinLoop(p) \/ SubRaises(p)
    \/ CollectGraph(p) \/ WriteJson(p) \/ WriteText(p)

OfflineNext == \E p \in Procs : Launch(p) \/ MainStep(p) \/ Handler(p) \/ Sigterm(p) \/ Interrupt(p)

OfflineSpec == OfflineInit /\ [][OfflineNext]_run_vars
\* The main thread runs, whatever is on top of its stack.
OfflineFairness == \A p \in Procs : WF_run_vars(MainStep(p) \/ Handler(p))
OfflineFairSpec == OfflineSpec /\ OfflineFairness
-----------------------------------------------------------------------------
(* Properties. *)

RunTypeOK ==
    /\ holder \in Procs \cup {0} /\ json \in Procs \cup {0} /\ text \in Procs \cup {0}
    /\ main \in [Procs -> Starting \cup Stopping \cup Ended \cup
                   {"off", "lock", "locked", "sleep", "collect", "open_json"} \cup Writing]
    /\ at \in [Procs -> 0..Subs + 1] /\ frames \in [Procs -> Seq(FrameAt)]
    /\ handled \in [Procs -> BOOLEAN] /\ refs \in [Procs -> 0..1]
    /\ on \in [Procs -> SUBSET (1..Subs)] /\ set_on \in [Procs -> BOOLEAN]
    /\ loop \in [Procs -> {"none", "made", "on", "told"}]
    /\ signals \in [Procs -> 0..MaxSignals] /\ disturbed \in [Procs -> BOOLEAN]
    /\ torn \in BOOLEAN

\* Killed in its sleep or afterwards, once, interrupted, or left alone: a run
\* that ends has told its loop and switched off every collector.
EndsClean ==
    \A p \in Procs : main[p] \in Ended /\ ~disturbed[p] =>
        on[p] = {} /\ ~set_on[p] /\ loop[p] # "on" /\ refs[p] = 0

\* The two result files are of one run, but while a run is writing them or if
\* one was ended in between: the lock keeps the runs apart.
ResultsOfOneRun ==
    (\A p \in Procs : main[p] \notin Writing) /\ ~torn => json = text

\* A signalled run ends, however many frames are on top of each other.
SignalEndsRun == \A p \in Procs : signals[p] > 0 ~> main[p] \in Ended

\* "Register SIGTERM handler for graceful shutdown when killed": a handler that
\* is through with its stop has stopped the collectors.
KilledGracefully ==
    \A p \in Procs : frames[p] # <<>> /\ Top(p) \in {"join", "restore"} => on[p] = {}
=============================================================================
