---------------------------- MODULE HccsMonitor ----------------------------
(***************************************************************************)
(* The HCCS monitor runs the PMU program.  Unlike its three siblings it     *)
(* guards its calls with a lock, tells its reader to end with an event, and *)
(* looks for input with a select of 0.1 seconds.  start and stop hold the   *)
(* lock for all they do, the join included, and the last thing a reader     *)
(* does is to take that lock: a reader that is not yet there when a stop    *)
(* begins can only end after the join has given up on it.                   *)
(* HCCSSniffer, the one subscriber, calls start and stop in turn.           *)
(***************************************************************************)
EXTENDS Naturals

CONSTANT HccsSessions    \* programs (and readers) started: a bound of the model

ASSUME HccsAssumption == HccsSessions \in Nat

VARIABLES
    hcontrol,     \* where the sniffer's call is
    hsubscribed,  \* the sniffer is a subscriber (_subscription_name, _started)
    hrunning,     \* _running
    hstop,        \* _stop_event is set
    hproc,        \* _proc; 0 is None
    hprocState,   \* what the operating system knows of each program
    hreader,      \* _reader_thread; 0 is None
    hpc,          \* where each reader is
    hstuck        \* history: readers given up on in the middle of a line

hccsCall == <<hcontrol, hsubscribed>>
hccsProc == <<hproc, hprocState>>
hccsThread == <<hreader, hpc, hstuck>>
hccs_vars == <<hrunning, hstop, hccsCall, hccsProc, hccsThread>>

Sessions == 1..HccsSessions
Looping(r) == hpc[r] \in {"test", "select", "line"}
HLive(r) == Looping(r) \/ hpc[r] = "finish"
HOngoing(p) == p # 0 /\ hprocState[p] # "dead"

\* stop holds _state_lock while it waits; everything else under the lock is
\* one step.
LockHeld == hcontrol \in {"waiting", "joining"}

HccsInit ==
    /\ hcontrol = "idle" /\ hsubscribed = FALSE /\ hrunning = FALSE /\ hstop = FALSE
    /\ hproc = 0 /\ hreader = 0 /\ hstuck = {}
    /\ hprocState = [p \in Sessions |-> "unborn"]
    /\ hpc = [r \in Sessions |-> "unborn"]
-----------------------------------------------------------------------------
(* start: the next session, unless the processor, the binary or Popen says   *)
(* no; then False is returned and nothing has changed.                       *)
HccsStart ==
    \/ UNCHANGED <<hrunning, hstop, hccsProc, hccsThread>>
    \/ \E s \in Sessions :
        /\ \A t \in Sessions : hpc[t] = "unborn" <=> t >= s
        /\ hproc' = s /\ hprocState' = [hprocState EXCEPT ![s] = "alive"]
        /\ hreader' = s /\ hpc' = [hpc EXCEPT ![s] = "test"]
        /\ hstop' = FALSE /\ hrunning' = TRUE
        /\ UNCHANGED hstuck

HccsRegister ==
    /\ hcontrol = "idle" /\ ~hsubscribed /\ hsubscribed' = TRUE
    /\ IF hrunning THEN UNCHANGED <<hrunning, hstop, hccsProc, hccsThread>> ELSE HccsStart
    /\ UNCHANGED hcontrol

\* unregister_subscriber of the last one is stop, which has nothing to do
\* when the monitor neither runs nor has a program.
\* Mutant: only the flag is tested.
TestsFlagOnly ==
    /\ hcontrol = "idle" /\ hsubscribed /\ hsubscribed' = FALSE
    /\ IF ~hrunning
         THEN UNCHANGED <<hcontrol, hrunning, hstop, hprocState>>
         ELSE /\ hcontrol' = "waiting" /\ hstop' = TRUE /\ hrunning' = FALSE
              /\ hprocState' = IF HOngoing(hproc) THEN [hprocState EXCEPT ![hproc] = "terminated"]
                                                  ELSE hprocState
    /\ UNCHANGED <<hproc, hccsThread>>

HccsUnregister ==
    /\ hcontrol = "idle" /\ hsubscribed /\ hsubscribed' = FALSE
    /\ IF ~hrunning /\ hproc = 0
         THEN UNCHANGED <<hcontrol, hrunning, hstop, hprocState>>
         ELSE /\ hcontrol' = "waiting" /\ hstop' = TRUE /\ hrunning' = FALSE
              /\ hprocState' = IF HOngoing(hproc) THEN [hprocState EXCEPT ![hproc] = "terminated"]
                                                  ELSE hprocState
    /\ UNCHANGED <<hproc, hccsThread>>

\* wait(5 s) returns or gives up.
HccsWait ==
    /\ hcontrol = "waiting"
    /\ hproc' = 0
    /\ hcontrol' = IF hreader = 0 THEN "idle" ELSE "joining"
    /\ UNCHANGED <<hsubscribed, hrunning, hstop, hprocState, hccsThread>>

\* join(5 s) returns when the reader has ended.  It gives up on one that
\* waits for the lock, or for the rest of a line; a reader in its select, or
\* between two steps, is through with it long before.
DropHandle ==
    /\ hcontrol' = "idle"
    /\ hstuck' = IF hpc[hreader] = "line" THEN hstuck \cup {hreader} ELSE hstuck
    /\ hreader' = 0
    /\ UNCHANGED <<hsubscribed, hrunning, hstop, hccsProc, hpc>>

\* Mutants: the join does not wait; it has no time-out.
NoHccsJoin == hcontrol = "joining" /\ DropHandle
JoinForEver == hcontrol = "joining" /\ ~HLive(hreader) /\ DropHandle

HccsJoin == hcontrol = "joining" /\ hpc[hreader] \notin {"test", "select"} /\ DropHandle
-----------------------------------------------------------------------------
(* _read_loop.  Each use of self._proc may find None, which a stop puts      *)
(* there: the loop test copes, the two reads raise.                          *)
HStep(r, from, to) == hpc[r] = from /\ hpc' = [hpc EXCEPT ![r] = to]

HccsTest(r) ==
    /\ HStep(r, "test", IF hstop \/ ~HOngoing(hproc) THEN "finish" ELSE "select")
    /\ UNCHANGED <<hrunning, hstop, hccsCall, hccsProc, hreader, hstuck>>

HccsSelect(r) ==
    /\ \/ hproc = 0 /\ HStep(r, "select", "raised")
       \/ hproc # 0 /\ hstop /\ HStep(r, "select", "finish")
       \/ hproc # 0 /\ ~hstop /\ \E to \in {"test", "line"} : HStep(r, "select", to)
    /\ UNCHANGED <<hrunning, hstop, hccsCall, hccsProc, hreader, hstuck>>

\* readline: a line (_process_line counts it and tells the sniffer, and any
\* ValueError stays inside), the end of the output, or the missing program.
HccsLine(r) ==
    /\ \/ hproc = 0 /\ HStep(r, "line", "raised")
       \/ HOngoing(hproc) /\ HStep(r, "line", "test")
       \/ hproc # 0 /\ ~HOngoing(hproc) /\ HStep(r, "line", "finish")
    /\ UNCHANGED <<hrunning, hstop, hccsCall, hccsProc, hreader, hstuck>>

HccsFinish(r) ==
    /\ ~LockHeld
    /\ HStep(r, "finish", "done")
    /\ hrunning' = FALSE
    /\ UNCHANGED <<hstop, hccsCall, hccsProc, hreader, hstuck>>

HccsDies(p) ==
    /\ hprocState[p] \in {"alive", "terminated"}
    /\ hprocState' = [hprocState EXCEPT ![p] = "dead"]
    /\ UNCHANGED <<hrunning, hstop, hccsCall, hproc, hccsThread>>

HccsReaderStep(r) == HccsTest(r) \/ HccsSelect(r) \/ HccsLine(r) \/ HccsFinish(r)
HccsStopStep == HccsWait \/ HccsJoin

HccsNext ==
    \/ HccsRegister \/ HccsUnregister \/ HccsStopStep
    \/ \E s \in Sessions : HccsReaderStep(s) \/ HccsDies(s)

HccsSpec == HccsInit /\ [][HccsNext]_hccs_vars

\* The caller of a stop and the readers run on; select has its own time-out.
HccsFairness ==
    /\ WF_hccs_vars(HccsStopStep)
    /\ \A r \in Sessions : WF_hccs_vars(HccsReaderStep(r))

HccsFairSpec == HccsSpec /\ HccsFairness
-----------------------------------------------------------------------------
(* Properties. *)

HccsTypeOK ==
    /\ hcontrol \in {"idle", "waiting", "joining"}
    /\ hsubscribed \in BOOLEAN /\ hrunning \in BOOLEAN /\ hstop \in BOOLEAN
    /\ hproc \in Sessions \cup {0} /\ hreader \in Sessions \cup {0}
    /\ hprocState \in [Sessions -> {"unborn", "alive", "terminated", "dead"}]
    /\ hpc \in [Sessions -> {"unborn", "test", "select", "line", "finish", "done", "raised"}]
    /\ hstuck \subseteq Sessions

\* At most one reader reads and notifies, although all sessions share one
\* event which the next start clears: a reader that a stop gave up on is past
\* its loop, unless it hung in the middle of a line.
HccsOneReader ==
    \A r, s \in Sessions \ hstuck : Looping(r) /\ Looping(s) => r = s

\* No program is left behind: one that was never asked to end is the one the
\* monitor holds, even after a late reader of the session before has declared
\* the monitor as not running.
HccsNoOrphan == \A p \in Sessions : hprocState[p] = "alive" => p = hproc

\* A stop does not wait for ever for a reader that waits for the stop's lock.
HccsStopReturns == LockHeld ~> ~LockHeld
=============================================================================
