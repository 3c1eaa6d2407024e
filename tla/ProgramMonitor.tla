--------------------------- MODULE ProgramMonitor ---------------------------
(***************************************************************************)
(* The monitors that run an external program and read its lines: the       *)
(* socket, cache and scheduling monitors are three copies of one design.   *)
(* The sniffer that owns a monitor subscribes (register_subscriber) and    *)
(* unsubscribes; the first starts the program and a reader thread, the     *)
(* second stops both, waiting five seconds for each and then letting go.   *)
(* The reader buffers rows and now and then writes them to disk and hands  *)
(* them to the subscriber.  The sniffer is the only subscriber, under a    *)
(* name of its own, so `subscribed' stands for the dictionary.             *)
(***************************************************************************)
EXTENDS Naturals, Sequences, FiniteSets

CONSTANTS
    MaxProcs,          \* programs started: a bound of the model
    MaxLines,          \* lines a program prints: a bound of the model
    EntryBufferSize    \* entry_buffer_size of the configuration

ASSUME MonitorAssumption == /\ MaxProcs \in Nat
                            /\ MaxLines \in Nat
                            /\ EntryBufferSize \in Nat \ {0}

VARIABLES
    kind,        \* which of the three monitors this is
    control,     \* where the sniffer's call is
    subscribed,  \* the sniffer is in _subscribers
    running,     \* _running
    proc,        \* _sniffer_proc; 0 is None
    procState,   \* what the operating system knows of each program
    printed,     \* lines read so far from each program
    columns,     \* _column_names is set (socket monitor only)
    reader,      \* _reader_thread; 0 is None
    rpc,         \* where each reader is
    rproc,       \* the program a reader is reading from
    buffer,      \* _data_buffer: rows <<program, line>>
    bufferSize,  \* _data_buffer_size
    batch,       \* the data frame a reader is reporting
    disk,        \* the rows written to the data file; as the properties say
                 \* nothing of them once a reader has outlived its stop, the
                 \* model stops recording them then
    outlived     \* history: readers still alive when their join timed out

callVars == <<control, subscribed>>
procVars == <<proc, procState>>
dataVars == <<printed, columns, buffer, bufferSize, disk>>
threadVars == <<reader, rpc, rproc, batch, outlived>>
monitor_vars == <<kind, running, callVars, procVars, dataVars, threadVars>>

Kinds == {"socket", "cache", "sched"}
Procs == 1..MaxProcs
\* A reader is started at most once for each program.
Readers == 1..MaxProcs

Dead == {"unborn", "done", "raised"}
Live(r) == rpc[r] \notin Dead
Ongoing(p) == p # 0 /\ procState[p] # "dead"

MonitorInit ==
    /\ kind \in Kinds
    /\ control = "idle" /\ subscribed = FALSE /\ running = FALSE /\ columns = FALSE
    /\ proc = 0 /\ reader = 0 /\ bufferSize = 0
    /\ procState = [p \in Procs |-> "unborn"]
    /\ printed = [p \in Procs |-> 0]
    /\ rpc = [r \in Readers |-> "unborn"]
    /\ rproc = [r \in Readers |-> 0]
    /\ batch = [r \in Readers |-> <<>>]
    /\ buffer = <<>> /\ disk = <<>>
    /\ outlived = {}

-----------------------------------------------------------------------------
(* The sniffer's calls. *)

Unborn(f) == {i \in DOMAIN f : f[i] = "unborn"}
IsFirst(f, i) == i \in Unborn(f) /\ \A j \in Unborn(f) : i <= j
Call(from, to) == control = from /\ control' = to

\* register_subscriber, as far as _start, which marks the monitor as running
\* before it has looked at the program.
RegisterSubscriber ==
    /\ Unborn(procState) # {} /\ Unborn(rpc) # {}
    /\ ~subscribed /\ subscribed' = TRUE
    /\ Call("idle", IF running THEN "idle" ELSE "starting")
    /\ running' = TRUE
    /\ UNCHANGED <<kind, procVars, dataVars, threadVars>>

\* check_binary_compatible, then _start_sniffer.  A program that does not
\* announce the configured message style, or does not start, raises out of
\* _start, with the monitor still running; one that is still alive is kept.
StartSniffer ==
    /\ \/ Call("starting", "idle") /\ UNCHANGED procVars
       \/ /\ Call("starting", "reading")
          /\ IF Ongoing(proc)
               THEN UNCHANGED procVars
               ELSE \E p \in Procs :
                      /\ IsFirst(procState, p) /\ proc' = p
                      /\ procState' = [procState EXCEPT ![p] = "alive"]
    /\ UNCHANGED <<kind, subscribed, running, dataVars, threadVars>>

StartReaderThread ==
    /\ Call("reading", "idle")
    /\ IF reader # 0 /\ Live(reader)
         THEN UNCHANGED <<reader, rpc>>
         ELSE \E r \in Readers :
                /\ IsFirst(rpc, r) /\ reader' = r
                /\ rpc' = [rpc EXCEPT ![r] = "test"]
    /\ UNCHANGED <<kind, subscribed, running, procVars, dataVars, rproc, batch, outlived>>

\* unregister_subscriber, the last one: _stop has nothing to do when the
\* monitor neither runs nor has a program, else it asks the program to end.
UnregisterSubscriber ==
    /\ subscribed /\ subscribed' = FALSE
    /\ Call("idle", IF ~running /\ proc = 0 THEN "idle" ELSE "waiting")
    /\ running' = FALSE
    /\ procState' = IF Ongoing(proc) THEN [procState EXCEPT ![proc] = "terminated"]
                                     ELSE procState
    /\ UNCHANGED <<kind, proc, dataVars, threadVars>>

\* Popen.wait(5 s): the program is dead, or the time is over.
WaitForProgram ==
    /\ Call("waiting", IF reader = 0 THEN "clearing" ELSE "joining")
    /\ UNCHANGED <<kind, subscribed, running, procVars, dataVars, threadVars>>

\* Thread.join(5 s): either way the handle is dropped.  The join gives up on a
\* reader that waits for output of a program that ignores its SIGTERM; all
\* else a reader does is over long before.
Hangs(r) == rpc[r] = "read" /\ procState[rproc[r]] # "dead"

\* Mutant: the handle is dropped and nothing waited for.
DropReader ==
    /\ Call("joining", "clearing")
    /\ reader' = 0
    /\ UNCHANGED <<kind, subscribed, running, procVars, dataVars, rpc, rproc, batch, outlived>>

JoinReader ==
    /\ Call("joining", "clearing")
    /\ ~Live(reader) \/ Hangs(reader)
    /\ outlived' = IF Live(reader) THEN outlived \cup {reader} ELSE outlived
    /\ reader' = 0
    /\ UNCHANGED <<kind, subscribed, running, procVars, dataVars, rpc, rproc, batch>>

\* The end of _stop: the rows not yet reported go, their count stays.
ClearSession ==
    /\ Call("clearing", "idle")
    /\ proc' = 0 /\ buffer' = <<>>
    /\ UNCHANGED <<kind, subscribed, running, procState, printed, columns,
                   bufferSize, disk, threadVars>>
-----------------------------------------------------------------------------
(* The readers: _read_output. *)

Step(r, from, to) == rpc[r] = from /\ rpc' = [rpc EXCEPT ![r] = to]

\* A thread that ends takes its locals with it.
Ends(r, from, to) == /\ Step(r, from, to)
                     /\ rproc' = [rproc EXCEPT ![r] = 0]
                     /\ batch' = [batch EXCEPT ![r] = <<>>]

\* The loop condition, and the program to read from; _sniffer_proc may be
\* None by now, which raises.
TestLoop(r) ==
    /\ \/ running /\ Ongoing(proc) /\ Step(r, "test", "read")
       \/ running /\ proc = 0 /\ Step(r, "test", "raised")
       \/ (running => proc # 0 /\ ~Ongoing(proc)) /\ Step(r, "test", "leaving")
    /\ rproc' = [rproc EXCEPT ![r] = IF rpc'[r] = "read" THEN proc ELSE 0]
    /\ UNCHANGED <<kind, running, callVars, procVars, dataVars, reader, batch, outlived>>

\* _on_recv_line: line 1 of a program is its header, which the cache and the
\* scheduling monitor recognise and skip.
SocketRow(k) == TRUE
CacheRow(k) == k # 1
SchedRow(k) == k # 1
IsRow(k) == CASE kind = "socket" -> SocketRow(k)
              [] kind = "cache" -> CacheRow(k)
              [] kind = "sched" -> SchedRow(k)

\* One line: kept, it may fill the buffer or find the report interval over.
ReadLine(r) ==
    LET p == rproc[r]
        k == printed[p] + 1
    IN /\ rpc[r] = "read" /\ k <= MaxLines
       /\ printed' = [printed EXCEPT ![p] = k]
       /\ \/ /\ ~IsRow(k)
             /\ Step(r, "read", "test")
             /\ UNCHANGED <<buffer, bufferSize>>
          \/ /\ IsRow(k)
             /\ buffer' = Append(buffer, <<p, k>>)
             /\ bufferSize' = bufferSize + 1
             /\ \/ Step(r, "read", "convert")
                \/ bufferSize' < EntryBufferSize /\ Step(r, "read", "test")
       /\ UNCHANGED <<kind, running, callVars, procVars, columns, disk,
                      reader, rproc, batch, outlived>>

\* readline returns nothing once the program is dead.
ReadEnd(r) ==
    /\ rpc[r] = "read" /\ procState[rproc[r]] = "dead"
    /\ Ends(r, "read", "leaving")
    /\ UNCHANGED <<kind, running, callVars, procVars, dataVars, reader, outlived>>

\* _convert_buffer_to_dataframe: the first row a socket monitor ever sees
\* gives the column names and is no data.  The other two stamp every row with
\* the window of this report; the scheduling monitor then drops the rows whose
\* window ended long before the last one, and here all end together.
\* Mutant: the first row of every report is taken for a header.
HeaderEveryTime(rows) == IF rows # <<>> THEN Tail(rows) ELSE rows
SocketFrame(rows) == IF ~columns /\ rows # <<>> THEN Tail(rows) ELSE rows
CacheFrame(rows) == rows
SchedFrame(rows) == rows
DataFrameOf(rows) == CASE kind = "socket" -> SocketFrame(rows)
                       [] kind = "cache" -> CacheFrame(rows)
                       [] kind = "sched" -> SchedFrame(rows)

Frame(r) ==
    /\ Step(r, "convert", "append")
    /\ batch' = [batch EXCEPT ![r] = DataFrameOf(buffer)]
    /\ columns' = (columns \/ (kind = "socket" /\ buffer # <<>>))
    /\ UNCHANGED <<kind, running, callVars, procVars, printed, disk, reader, rproc, outlived>>

\* Mutants: the buffer is kept; its count is taken down by a full buffer.
ConvertAndKeep(r) == Frame(r) /\ UNCHANGED <<buffer, bufferSize>>
ConvertFull(r) == Frame(r) /\ buffer' = <<>> /\ bufferSize' = bufferSize - EntryBufferSize

ConvertBuffer(r) == Frame(r) /\ buffer' = <<>> /\ bufferSize' = 0
AppendToDisk(r) ==
    /\ Step(r, "append", "notify")
    /\ disk' = IF outlived = {} THEN disk \o batch[r] ELSE disk
    /\ UNCHANGED <<kind, running, callVars, procVars, printed, columns, buffer, bufferSize,
                   reader, rproc, batch, outlived>>

\* _notify_subscribers walks the dictionary: the callback, then the look for
\* the next entry, which raises when the dictionary shrank meanwhile.
NotifySubscribers(r) ==
    /\ Step(r, "notify", IF subscribed THEN "notified" ELSE "test")
    /\ batch' = [batch EXCEPT ![r] = <<>>]
    /\ UNCHANGED <<kind, running, callVars, procVars, dataVars, reader, rproc, outlived>>

NextSubscriber(r) ==
    /\ \/ subscribed /\ Step(r, "notified", "test") /\ UNCHANGED <<rproc, batch>>
       \/ ~subscribed /\ Ends(r, "notified", "raised")
    /\ UNCHANGED <<kind, running, callVars, procVars, dataVars, reader, outlived>>

\* A line that cannot be decoded, rows with the wrong number of fields, and
\* a full disk are raised out of the thread, which leaves _running as it is.
ReportFails(r) ==
    /\ \E from \in {"read", "convert", "append"} : Ends(r, from, "raised")
    /\ UNCHANGED <<kind, running, callVars, procVars, dataVars, reader, outlived>>

\* Mutant: the reader leaves without a word.
LeaveSilently(r) ==
    /\ Step(r, "leaving", "done")
    /\ UNCHANGED <<kind, running, callVars, procVars, dataVars, reader, rproc, batch, outlived>>

LeaveLoop(r) ==
    /\ Step(r, "leaving", "done")
    /\ running' = FALSE
    /\ UNCHANGED <<kind, callVars, procVars, dataVars, reader, rproc, batch, outlived>>

\* The program ends, by itself or as it was asked to.
ProgramDies(p) ==
    /\ procState[p] \in {"alive", "terminated"}
    /\ procState' = [procState EXCEPT ![p] = "dead"]
    /\ UNCHANGED <<kind, running, callVars, proc, dataVars, threadVars>>

ReaderStep(r) ==
    \/ TestLoop(r) \/ ReadLine(r) \/ ReadEnd(r)
    \/ ConvertBuffer(r) \/ AppendToDisk(r) \/ NotifySubscribers(r) \/ NextSubscriber(r)
    \/ ReportFails(r) \/ LeaveLoop(r)

StopStep == WaitForProgram \/ JoinReader \/ ClearSession

Calls == RegisterSubscriber \/ StartSniffer \/ StartReaderThread \/ UnregisterSubscriber \/ StopStep
Reading == \E r \in Readers : ReaderStep(r)

\* The three copies.
SocketMonitor == kind = "socket" /\ (Calls \/ Reading)
CacheCalls == kind = "cache" /\ Calls
CacheReading == kind = "cache" /\ Reading
SchedCalls == kind = "sched" /\ Calls
SchedReading == kind = "sched" /\ Reading

MonitorNext ==
    \/ SocketMonitor
    \/ CacheCalls \/ CacheReading
    \/ SchedCalls \/ SchedReading
    \/ \E p \in Procs : ProgramDies(p)

MonitorSpec == MonitorInit /\ [][MonitorNext]_monitor_vars

\* The caller of a stop and the reader threads run; a program that was asked
\* to end does so (the monitored programs keep SIGTERM's default).  Programs
\* that print, fail or end by themselves are under no obligation.
ProgramEnds == \E p \in Procs : procState[p] = "terminated" /\ ProgramDies(p)
MonitorFairness ==
    /\ WF_monitor_vars(StopStep)
    /\ WF_monitor_vars(Reading)
    /\ WF_monitor_vars(ProgramEnds)

MonitorFairSpec == MonitorSpec /\ MonitorFairness
-----------------------------------------------------------------------------
(* Properties. *)

RowsUpTo(n) == Procs \X (0..n)
MonitorTypeOK ==
    /\ kind \in Kinds
    /\ control \in {"idle", "starting", "reading", "waiting", "joining", "clearing"}
    /\ subscribed \in BOOLEAN /\ running \in BOOLEAN /\ columns \in BOOLEAN
    /\ proc \in Procs \cup {0} /\ reader \in Readers \cup {0}
    /\ procState \in [Procs -> {"unborn", "alive", "terminated", "dead"}]
    /\ printed \in [Procs -> 0..MaxLines]
    /\ rpc \in [Readers -> Dead \cup {"test", "read", "convert", "append",
                                       "notify", "notified", "leaving"}]
    /\ rproc \in [Readers -> Procs \cup {0}]
    /\ buffer \in Seq(RowsUpTo(MaxLines)) /\ bufferSize \in Nat
    /\ batch \in [Readers -> Seq(RowsUpTo(MaxLines))]
    /\ disk \in Seq(RowsUpTo(MaxLines))
    /\ outlived \subseteq Readers

\* Two readers never share the buffer, the running flag and the program's
\* output, whatever the order of deaths, stops and starts, unless a join has
\* given up on one of them (join(timeout=5) with the handle dropped).
OneReaderAtATime ==
    \A r, s \in Readers \ outlived : Live(r) /\ Live(s) => r = s

\* A monitor that says it is running, outside of a call, has its reader at
\* work: only a start that failed, or a reader that raised, leaves the flag
\* up with nobody behind it.
RunningIsRead ==
    running /\ control = "idle" /\ reader # 0 => Live(reader) \/ rpc[reader] = "raised"

Before(a, b) == a[1] < b[1] \/ (a[1] = b[1] /\ a[2] < b[2])
InOrder(rows) == \A i, j \in DOMAIN rows : i < j => Before(rows[i], rows[j])
Items(rows) == {rows[i] : i \in DOMAIN rows}

\* While no reader has outlived its stop, the data file gets the rows in
\* the order they were printed and none of them twice, over all the programs
\* that were ever started; the frames handed to the sniffer are the same.
RowsInOrderOnce ==
    outlived = {} => InOrder(disk)

\* In the session that is going on no row the program printed is lost: it is
\* on disk, in the frame being written, or in the buffer.
Reporting(r) == IF rpc[r] = "append" THEN Items(batch[r]) ELSE {}
NoRowLost ==
    outlived = {} /\ proc # 0 /\ reader # 0 /\ rpc[reader] # "raised" /\ rproc[reader] = proc =>
        \A k \in 2..printed[proc] :
            <<proc, k>> \in Items(disk) \cup Items(buffer) \cup Reporting(reader)

RowsKept == RowsInOrderOnce /\ NoRowLost

\* A stop returns, even when the program ignores it and the reader hangs.
StopReturns == control \in {"waiting", "joining", "clearing"} ~> control = "idle"

\* A reader whose monitor was stopped ends, unless a later start revives it.
SomeReader == \E r \in Readers : Live(r)
StoppedReaderEnds == ~running /\ SomeReader ~> running \/ ~SomeReader \/ outlived # {}
=============================================================================
