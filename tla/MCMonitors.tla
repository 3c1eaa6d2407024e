------------------------------ MODULE MCMonitors ------------------------------
(***************************************************************************)
(* The three designs of monitor share nothing at run time, and what they do  *)
(* while they run nothing with how they come to be, so one run checks them   *)
(* side by side: a behaviour is one of one part, the others stay in their    *)
(* initial states, where their fairness asks nothing.                       *)
(***************************************************************************)
EXTENDS ProgramMonitor, HccsMonitor, RdmaMonitor, MonitorLaunch, TLC

CONSTANTS h1, h2, t1, t2, t3   \* runs, and threads that ask for a monitor

VARIABLE part

MCHostOf == (t1 :> h1) @@ (t2 :> h1) @@ (t3 :> h2)

\* No output, every style, two of them, lines that are no style and no key.
MCReports == {<<>>, <<"csv">>, <<"msgspec">>, <<"other">>, <<"other", "csv">>,
              <<"csv", "msgspec">>, <<"unreadable", "csv">>}

\* Named by its implementer, by the second place alone, or by none.
MCMachines ==
    {[cpuinfo |-> a, lscpu |-> b, product |-> "none", tree |-> "none"] :
     a \in {"implementer", "none"}, b \in {"name", "none"}}
-----------------------------------------------------------------------------
monitors_vars == <<part, monitor_vars, hccs_vars, rdma_vars, launch_vars>>

MonitorsInit ==
    /\ part \in {"program", "hccs", "rdma", "launch"}
    /\ MonitorInit /\ HccsInit /\ RdmaInit /\ LaunchInit
    /\ part # "program" => kind = "socket"
    /\ part # "launch" => monitor = "sched" /\ config.msgspec /\ config.style = "csv"

MonitorsNext ==
    \/ part = "program" /\ MonitorNext /\ UNCHANGED <<part, hccs_vars, rdma_vars, launch_vars>>
    \/ part = "hccs" /\ HccsNext /\ UNCHANGED <<part, monitor_vars, rdma_vars, launch_vars>>
    \/ part = "rdma" /\ RdmaNext /\ UNCHANGED <<part, monitor_vars, hccs_vars, launch_vars>>
    \/ part = "launch" /\ LaunchNext /\ UNCHANGED <<part, monitor_vars, hccs_vars, rdma_vars>>

MonitorsSpec == MonitorsInit /\ [][MonitorsNext]_monitors_vars

MonitorsFairSpec == MonitorsSpec /\ MonitorFairness /\ HccsFairness /\ RdmaFairness

\* Every variable of the four modules has its type.
MonitorsTypeOK == MonitorTypeOK /\ HccsTypeOK /\ RdmaTypeOK /\ LaunchTypeOK

\* Two readers never read one pipe and tell the same subscribers, of either
\* design, but for those a join gave up on.
OneReader == OneReaderAtATime /\ HccsOneReader

\* The threads of a run get one object, the runs of a machine one that owns
\* its files and one program, which speaks as it is understood; the lock is
\* with a run that uses it.
OneLaunched == OneMonitor /\ OneProgram /\ LockInUse /\ OutputUnderstood

\* No call of a stop, of either kind, waits for ever.
StopsReturn == StopReturns /\ HccsStopReturns

\* A stop reaches the threads it was for, even those its join gave up on.
StoppedThreadsEnd == StoppedReaderEnds /\ RdmaThreadsEnd
=============================================================================
