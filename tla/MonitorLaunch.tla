----------------------------- MODULE MonitorLaunch -----------------------------
(***************************************************************************)
(* How a monitor comes to be, and to run its program: the socket, cache,     *)
(* scheduling and HCCS monitors are each one object of a process, made by    *)
(* whichever thread asks first, and all but the last are one of a machine:   *)
(* the object is made with a lock on a file that other processes want too.   *)
(* The first three then own files, which making the next object empties.     *)
(* What a monitor does while it runs is in ProgramMonitor and HccsMonitor.   *)
(***************************************************************************)
EXTENDS Naturals, FiniteSets, Sequences

CONSTANTS
    Hosts,       \* runs of the profiler on one machine
    Askers,      \* the threads of these that ask for the monitor
    HostOf,      \* the run an asker is a thread of
    Nobody,
    Reports,     \* what the programs may say of themselves
    Machines     \* what the machine may say of its processor

ASSUME LaunchAssumption == HostOf \in [Askers -> Hosts] /\ Nobody \notin Hosts \cup Askers

VARIABLES
    monitor,     \* which of the monitors
    config,      \* what is configured of it, and whether there is msgspec
    instance,    \* _instance of each run, by number; 0 is None
    class_lock,  \* the asker in __new__, of each run
    lock_file,   \* the run that has the lock on the file
    files,       \* the run that emptied the files last
    cleanup,     \* the runs that registered _cleanup
    started,     \* _running of each run
    speaks,      \* the output style of the program of each run
    asker,       \* where each asker is
    got,         \* the object it got
    made,        \* objects made in each run
    broken       \* history: the runs in which __new__ raised with the lock held

askerVars == <<class_lock, asker, got>>
objectVars == <<instance, made, broken, cleanup>>
machineVars == <<lock_file, files>>
runVars == <<started, speaks>>
launch_vars == <<monitor, config, askerVars, objectVars, machineVars, runVars>>

Styles == {"csv", "msgspec"}
Locked == monitor # "hccs"
Run(t) == HostOf[t]
-----------------------------------------------------------------------------
(* Whether a program may be started: what it prints when asked for its        *)
(* version is a sequence of lines, each of them a style, another key with a   *)
(* value, or none of these.                                                  *)

SaysStyles(report) == {report[i] : i \in DOMAIN report} \cap Styles

\* Of the socket program a line that cannot be parsed raises, of the cache and
\* the scheduling program it is skipped; for all of them every style given has
\* to be the expected one, and a program may give none.
SocketVerdict(report, expected) ==
    CASE report = <<>> -> "refused"
      [] \E i \in DOMAIN report : report[i] = "unreadable" -> "raises"
      [] OTHER -> IF SaysStyles(report) \subseteq {expected} THEN "accepted" ELSE "refused"

CacheVerdict(report, expected) ==
    IF report # <<>> /\ SaysStyles(report) \subseteq {expected} THEN "accepted" ELSE "refused"
SchedVerdict(report, expected) ==
    IF report # <<>> /\ SaysStyles(report) \subseteq {expected} THEN "accepted" ELSE "refused"

\* Of the HCCS program the first style counts, and there has to be one.
IsFirstStyle(report, i) ==
    report[i] \in Styles /\ \A j \in DOMAIN report : j < i => report[j] \notin Styles
FirstStyle(report) ==
    IF \E i \in DOMAIN report : IsFirstStyle(report, i)
    THEN report[CHOOSE i \in DOMAIN report : IsFirstStyle(report, i)]
    ELSE "none"
HccsVerdict(report, expected) == IF FirstStyle(report) = expected THEN "accepted" ELSE "refused"

Verdict(report) ==
    CASE monitor = "socket" -> SocketVerdict(report, config.style)
      [] monitor = "cache" -> CacheVerdict(report, config.style)
      [] monitor = "sched" -> SchedVerdict(report, config.style)
      [] OTHER -> HccsVerdict(report, "csv")

\* The processor is looked for in four places; the second is not looked at if
\* the first has named it.
IsKunpeng(machine) ==
    \/ machine.cpuinfo \in {"name", "implementer"}
    \/ machine.lscpu = "name"
    \/ machine.product = "name" \/ machine.tree = "name"

ShouldEnableHccs ==
    /\ config.cpu # "disabled"
    /\ config.cpu = "auto_detect" => IsKunpeng(config.machine)

\* The class that get_socket_monitor, get_cache_monitor, get_sched_monitor
\* choose decides how the output is parsed.
SocketReads == IF config.msgspec /\ config.style = "msgspec" THEN "msgspec" ELSE "csv"
CacheReads == IF config.msgspec /\ config.style = "msgspec" THEN "msgspec" ELSE "csv"
SchedReads == IF config.msgspec /\ config.style = "msgspec" THEN "msgspec" ELSE "csv"
Reads == CASE monitor = "socket" -> SocketReads
           [] monitor = "cache" -> CacheReads
           [] monitor = "sched" -> SchedReads
           [] OTHER -> "csv"
-----------------------------------------------------------------------------
LaunchInit ==
    /\ monitor \in {"socket", "cache", "sched", "hccs"}
    /\ config \in IF monitor = "hccs"
                  THEN [cpu : {"disabled", "auto_detect", "other"}, machine : Machines]
                  ELSE [style : Styles, msgspec : BOOLEAN]
    /\ instance = [h \in Hosts |-> 0] /\ made = [h \in Hosts |-> 0]
    /\ class_lock = [h \in Hosts |-> Nobody]
    /\ lock_file = Nobody /\ files = Nobody
    /\ cleanup = {} /\ broken = {} /\ started = {}
    /\ speaks = [h \in Hosts |-> "off"]
    /\ asker = [t \in Askers |-> "idle"] /\ got = [t \in Askers |-> 0]

\* An asker leaves __new__ with an object or, by an exception, without.
Leave(t, object) ==
    /\ class_lock' = [class_lock EXCEPT ![Run(t)] = Nobody]
    /\ asker' = [asker EXCEPT ![t] = "idle"]
    /\ got' = IF object = 0 THEN got ELSE [got EXCEPT ![t] = object]

\* The test of get_instance and __new__ without the lock.
Ask(t) ==
    /\ asker[t] = "idle"
    /\ IF instance[Run(t)] # 0
       THEN got' = [got EXCEPT ![t] = instance[Run(t)]] /\ UNCHANGED asker
       ELSE asker' = [asker EXCEPT ![t] = "waiting"] /\ UNCHANGED got
    /\ UNCHANGED <<monitor, config, class_lock, objectVars, machineVars, runVars>>

TakeClassLock(t) ==
    /\ asker[t] = "waiting" /\ class_lock[Run(t)] = Nobody
    /\ class_lock' = [class_lock EXCEPT ![Run(t)] = t]
    /\ asker' = [asker EXCEPT ![t] = "locked"]
    /\ UNCHANGED <<monitor, config, got, objectVars, machineVars, runVars>>

\* Somebody else made it meanwhile.
FoundMade(t) ==
    /\ asker[t] = "locked" /\ instance[Run(t)] # 0
    /\ Leave(t, instance[Run(t)])
    /\ UNCHANGED <<monitor, config, objectVars, machineVars, runVars>>

\* Mutant: whoever else has the lock.
AcquireWithoutLock(t) ==
    /\ asker[t] = "locked" /\ instance[Run(t)] = 0
    /\ lock_file' = IF Locked THEN Run(t) ELSE lock_file
    /\ asker' = [asker EXCEPT ![t] = "making"]
    /\ UNCHANGED <<monitor, config, class_lock, got, objectVars, files, runVars>>

\* The HCCS monitor takes no lock on a file.
AcquireProcessLock(t) ==
    /\ asker[t] = "locked" /\ instance[Run(t)] = 0
    /\ IF Locked THEN lock_file = Nobody /\ lock_file' = Run(t) ELSE UNCHANGED lock_file
    /\ asker' = [asker EXCEPT ![t] = "making"]
    /\ UNCHANGED <<monitor, config, class_lock, got, objectVars, files, runVars>>

\* A file descriptor of one's own process that has the lock is in the way too.
LockTaken(t) ==
    /\ asker[t] = "locked" /\ instance[Run(t)] = 0
    /\ Locked /\ lock_file # Nobody
    /\ Leave(t, 0)
    /\ UNCHANGED <<monitor, config, objectVars, machineVars, runVars>>

InitMonitor(t) ==
    /\ asker[t] = "making"
    /\ files' = IF Locked THEN Run(t) ELSE files
    /\ cleanup' = cleanup \cup {Run(t)}
    /\ made' = [made EXCEPT ![Run(t)] = @ + 1]
    /\ asker' = [asker EXCEPT ![t] = "made"]
    /\ UNCHANGED <<monitor, config, class_lock, got, instance, broken, lock_file, runVars>>

\* The files cannot be opened: the exception leaves the lock on the file with a
\* descriptor nobody has.
InitRaises(t) ==
    /\ asker[t] = "making" /\ Locked
    /\ files' \in {files, Run(t)}
    /\ broken' = broken \cup {Run(t)}
    /\ Leave(t, 0)
    /\ UNCHANGED <<monitor, config, instance, cleanup, made, lock_file, runVars>>

PublishInstance(t) ==
    /\ asker[t] = "made"
    /\ instance' = [instance EXCEPT ![Run(t)] = made[Run(t)]]
    /\ Leave(t, made[Run(t)])
    /\ UNCHANGED <<monitor, config, made, broken, cleanup, machineVars, runVars>>
-----------------------------------------------------------------------------
(* The program of a run. *)

\* _start of a sniffer that has the monitor: all but the HCCS monitor count as
\* running before the program has been looked at.
StartProgram(t) ==
    /\ asker[t] = "idle" /\ got[t] # 0 /\ Run(t) \notin started
    /\ ~Locked => ShouldEnableHccs
    /\ \E report \in Reports :
        IF Verdict(report) = "accepted"
        THEN /\ started' = started \cup {Run(t)}
             /\ speaks' = [speaks EXCEPT ![Run(t)] = FirstStyle(report)]
        ELSE /\ started' = IF Locked THEN started \cup {Run(t)} ELSE started
             /\ UNCHANGED speaks
    /\ UNCHANGED <<monitor, config, askerVars, objectVars, machineVars>>

\* The handle is dropped, whether or not the program ended in the five seconds
\* it is waited for.
Terminated(h) ==
    /\ started' = started \ {h}
    /\ speaks' = [speaks EXCEPT ![h] = "off"]

StopProgram(t) ==
    /\ asker[t] = "idle" /\ got[t] # 0
    /\ Terminated(Run(t))
    /\ UNCHANGED <<monitor, config, askerVars, objectVars, machineVars>>

\* What the end of a process leaves of it; the lock goes with the descriptor.
Ended(h) ==
    /\ instance' = [instance EXCEPT ![h] = 0] /\ made' = [made EXCEPT ![h] = 0]
    /\ class_lock' = [class_lock EXCEPT ![h] = Nobody]
    /\ lock_file' = IF lock_file = h THEN Nobody ELSE lock_file
    /\ cleanup' = cleanup \ {h} /\ broken' = broken \ {h}
    /\ asker' = [t \in Askers |-> IF Run(t) = h THEN "idle" ELSE asker[t]]
    /\ got' = [t \in Askers |-> IF Run(t) = h THEN 0 ELSE got[t]]
    /\ UNCHANGED <<monitor, config, files>>

\* A run ends and another begins: _cleanup, where it was registered, stops the
\* program before it gives the lock back.
ExitRun(h) ==
    /\ IF h \in cleanup THEN Terminated(h) ELSE UNCHANGED runVars
    /\ Ended(h)

\* A run is killed: its program goes on until it writes to nobody.
KillRun(h) == Terminated(h) /\ Ended(h)

LaunchNext ==
    \/ \E t \in Askers :
        \/ Ask(t) \/ TakeClassLock(t) \/ FoundMade(t) \/ AcquireProcessLock(t) \/ LockTaken(t)
        \/ InitMonitor(t) \/ InitRaises(t) \/ PublishInstance(t)
        \/ StartProgram(t) \/ StopProgram(t)
    \/ \E h \in Hosts : ExitRun(h) \/ KillRun(h)

LaunchSpec == LaunchInit /\ [][LaunchNext]_launch_vars
-----------------------------------------------------------------------------
LaunchTypeOK ==
    /\ instance \in [Hosts -> Nat] /\ made \in [Hosts -> Nat]
    /\ class_lock \in [Hosts -> Askers \cup {Nobody}]
    /\ lock_file \in Hosts \cup {Nobody} /\ files \in Hosts \cup {Nobody}
    /\ cleanup \subseteq Hosts /\ broken \subseteq Hosts /\ started \subseteq Hosts
    /\ speaks \in [Hosts -> Styles \cup {"off", "none"}]
    /\ asker \in [Askers -> {"idle", "waiting", "locked", "making", "made"}]
    /\ got \in [Askers -> Nat]

\* The threads of a run have one monitor, and the runs of a machine too if it
\* has files; these are then the ones it opened, and nobody emptied them since.
OneMonitor ==
    /\ \A t \in Askers : got[t] # 0 => got[t] = instance[Run(t)]
    /\ \A g, h \in Hosts : Locked /\ instance[g] # 0 /\ instance[h] # 0 => g = h
    /\ \A h \in Hosts : Locked /\ instance[h] # 0 => files = h

\* Two programs count the same events twice: of the monitors with a lock one run
\* has a program.  One that outlives the run or the stop it was left by is
\* nobody's, and not counted.
OneProgram ==
    \A g, h \in Hosts : Locked /\ speaks[g] # "off" /\ speaks[h] # "off" => g = h

\* A run that has the lock has the monitor, or is making it, or has failed to.
LockInUse ==
    \A h \in Hosts : lock_file = h =>
        \/ instance[h] # 0 \/ h \in broken
        \/ \E t \in Askers : Run(t) = h /\ asker[t] \in {"making", "made"}

\* The output of a program that names its style is parsed as that style, unless
\* msgspec is configured and there is none.
OutputUnderstood ==
    \A h \in Hosts : speaks[h] \in Styles /\ (Locked /\ config.style = "msgspec" => config.msgspec)
                     => speaks[h] = Reads
=============================================================================
