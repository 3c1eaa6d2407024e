# witty-profiler in TLA+

Models of the Python collector of witty-profiler (`src/collector/python/src/witty_profiler`,
`P/` below): a profiler that starts a set of collectors, builds a graph of processes, sockets,
devices and their relations in a background loop, hands it to subscribers and serves it to
other hosts, which may be collecting from it in turn.

## 1. Inventory

| Component (source under `P/`) | State | Operations | What is hard | What makes it correct |
|---|---|---|---|---|
| Profiler core `controller/witty_profiler_core.py` | reference count, loop thread, its stop event, RLock | `start`, `stop`, `trigger_collect`, `_loop`, `is_running`, `get_last_graph` | nested start and stop of several threads; `join` with a time-out, so an old loop overlaps the next session; collectors that raise at any point; unlocked collection and publication | one live loop; a stopped core is quiet; handles never `None` when used; count, loop and collectors agree; told loops end; the lock comes free |
| Collector set `collector/collect_set.py` | subcollectors, `_start_status`, dispatch table by entity class | `start`, `stop`, seed graph, `get_neighbors_with_edges` | one of several fails; a table that hides generic subcollectors | everything on or everything off; everybody who can is asked |
| Breadth-first collection `collector/collector_base.py` | queue, ignore sets, edge map, nodes | `collect_whole_graph`, `expand_since_graph`, `collect_since` | entities queued many times, seeds, ignore sets and iteration limits together; edges reported by both ends; live data; errors half-way | once each, only what is reachable, all of it, each report merged once, termination |
| Socket collector `collector/local_collector/socket_collector.py`, `edge/socket/socket_sniffer.py` | records, data frame | queries, answers about a process or a socket | the same row answers two questions; swap under a lock, merge without | traffic counted once; no record lost |
| Socket, cache and scheduling monitors `edge/socket/socket_monitor.py`, `edge/cpu/{cache,sched}_monitor.py` | the one object, a lock file; subprocess, reader thread, subscribers, buffer, file | make; register (first starts), unregister (last stops), read, flush, notify | threads and runs that make it at once, a construction that fails half-way; a reader that outlives its stop; a start that raises with the subscriber registered; a dictionary changed while it is iterated | one monitor with files and a program for a machine; one reader at a time; what runs is read; no row lost or doubled |
| HCCS monitor `edge/cpu/hccs_monitor.py`, `edge/cpu/hccs_sniffer.py` | as above, one shared event, a state lock; counters | start, stop, register, read loop; dies, bandwidths, edges | stop joins a reader that wants the lock stop holds; clearing the event revives a reader; distances that are not an equivalence | one reader; no program left behind; bounded stop; traffic on the node it is of |
| RDMA monitor and collector `edge/rdma/`, `collector/local_collector/rdma_collector.py` | thread, event, snapshots, RLock; tables; registry of queue pairs | start, stop, update, clear; answers | join outside the lock; event read late; counters with several names, a source that changes between snapshots; a seed of one collection empties the registry of another | stoppable; rates are what one counter has grown; connections and pairs found |
| Remote collector `collector/remote_collector/remote_collector.py`, `backend/backend_client/` | started flag, sync thread, event, cached graph; the count on the other host | start, stop, sync, clear | lost replies, time-outs, a revived thread, a late store after clear | remote references balanced; one sync thread, which ends; the cache moves on |
| Subscribers `subscriber/` | named subscribers, order | register (with override), unregister, notify (maybe asynchronous) | a dictionary that changes while it is walked; override of the core's own subscriber | each graph told once, in order, to everybody who stays; the last graph is the latest |
| Rotated storage `storage/rotated_file_storage.py` | files, index, use counts | enter, exit, rotate, clear, read all | counts of the wrong file after a rotation | the stream is the last rows written, in order; files bounded |
| Identity registry, entities, graphs `common/id_manager.py`, `common/singleton.py`, `entity/`, `graph/`, `edge/edge.py` | id to object and back; a stack of namespaces for each thread | record-or-get, release, re-identify; make again what another host sent | two-step change of identity; singleton made twice; entities that come back to their host, or over a host with the same address | one object per id; identity and registry agree; a namespace names the host of origin, whose word stands |
| Servers and command line `backend/`, `__main__.py`, `common/process_lock.py`, `common/worker_context.py` | event loop, signal handlers, lock file, result files | run online or offline, control routes | signals inside start and stop; nested handlers; routes that block on another host | results of one run; clean ends; everybody is answered |
| Common parent collector `collector/local_collector/common_parent_collector.py` | what was seen in this round | answers | order of answers; another round's seed | common parents found in any order |
| IPC sniffers and collector `edge/ipc/`, `collector/local_collector/ipc_collector.py` | programs, streams, buffers | start, stop, drain, answer | a text stream that hides what it took; a read that waits for more | lines parsed once and whole; no program left; a stop ends the wait |
| eBPF and PMU programs `tools/ebpftools/` | two maps of statistics, maps of arguments | handlers of events; swap, read, empty; entry and return of calls | handlers that straddle a swap; elements used again; calls that fail | each hit counted once and as itself |
| Static and NUMA `collector/local_collector/numa_collector.py`, `edge/cpu/numa_sniffer.py`, `common/str_converter.py` | none between calls | parse, measure, pick the busiest threads | gaps and borders of ranges, unreadable processes, ties | ranges round-trip; every page and second is on one node |
| NPU, GPU, shared memory, docker collectors; visualisation; configuration; skills | none between calls | parse a tool's output; layout | | not modelled, see section 5 |

Interactions: servers and the facade call the core; the core starts and stops the collector set
and asks it for a graph; the set asks its collectors; collectors that watch something own a
monitor with a thread or a process; the core hands each graph to the subscriber collection; a
remote collector is a client of another host's server and so of another core.
`PROJECT.json` lists the hazards at the lines where they bite, with the properties that cover
them.

## 2. Modules

| Module | Models | Role |
|---|---|---|
| `CollectionSessions` | nothing in particular | abstract specification: what the core promises of its sessions |
| `ProfilerCore` | `WittyProfilerCore` with `CollectorSet.start/stop` | detailed specification, refines `CollectionSessions` |
| `ProfilerCoreProofs` | | invariant, safety theorems and refinement, proved |
| `GraphCollection` | `_expand_graph_bfs` over `CollectorSet.get_neighbors_with_edges` | one collection |
| `SumLaws` | | induction over numbers and over the subsets of a finite set, and lemmas on sums over finite sets, proved |
| `GraphCollectionProofs` | | invariant and safety theorems, proved |
| `SocketGraph` | answers of the socket collector | instance of the answers of `GraphCollection` |
| `RemoteSync` | `RemoteCollector` of several hosts and the core they are counted by | composition of masters, their sync threads and a slave |
| `RemoteSyncProofs` | | invariant, safety theorems and an action property, proved |
| `ProgramMonitor` | `SocketMonitor`, `CacheMonitor`, `SchedMonitor` | one design, three instances |
| `HccsMonitor`, `RdmaMonitor` | `HCCSMonitor`, `RDMAMonitor` | two more designs of a restartable monitor |
| `MonitorLaunch` | `__new__`, the lock file and the check of the program, of all monitors but the RDMA one | from no monitor to a program that runs |
| `MonitorProofs` | | invariants and safety theorems of all four, proved |
| `Sniffers` | socket, cache and scheduling sniffer | from the rows of a monitor to a data frame |
| `HccsBandwidth`, `NumaTopology` | what is computed of a machine, counters, processes and threads | operators, checked over bounded inputs |
| `RdmaStatistics` | snapshots and rates of the RDMA monitor, records of its tables | what is made of the output of a command |
| `RdmaTopology`, `CommonParent`, `IpcCollection` | the RDMA, common parent and IPC collectors | answers with a state of their own |
| `SwappedMaps`, `IpcProbes` | the eBPF programs and their loaders | handlers in the kernel against user space; calls and their arguments |
| `SourceSumsProofs` | | invariants and safety theorems of `SwappedMaps` and `CommonParent`, and what `NumaTopology` and `HccsBandwidth` compute of any input, proved |
| `SourceProofs` | | invariants and safety theorems of `IpcProbes`, `IpcCollection`, `RdmaTopology`, `RdmaStatistics` and `Sniffers`, what is computed of any counters and tables, and both safety properties of `MCSources`, proved |
| `IdRegistry` | `GlobalIDManager`, `Entity.__setattr__` | registry of identities |
| `GraphExchange` | `RemoteCollector._on_recv_graph`, `Graph`, `EntityNameSpace`, the seeds of `CollectorSet` | what is in the graphs that hosts send each other |
| `RotatedStorage` | `RotatedFileStorage` | files of a monitor |
| `SubscriberHub` | `SubscriberCollection` and its routes | broadcasts against registrations |
| `ServiceProofs` | | invariants and safety theorems of `IdRegistry`, `GraphExchange`, `OfflineRun`, `RotatedStorage` and `SubscriberHub`, and of all of `MCService`, proved |
| `OfflineRun` | `main()`, process lock, offline run, signals | whole runs of the program |
| `ControlRoutes` | `FastAPIServer` of several hosts | servers that are each other's slaves |
| `MCProfilerCore`, `MCGraphCollection`, `MCSocketGraph`, `MCRemoteSync`, `MCGraphExchange` | | values of the constants for TLC |
| `MCMonitors`, `MCService`, `MCSources` | | compositions of parts that share no state |

### ProfilerCore

State: `running`, `thread`, `stop_event`, `lock`, `start_status` and `latest` are the attributes
of the same names (`latest` is `latest_graph` of the memory subscriber). A thread and the event
made with it share an identity, the number of the start that made them, and 0 is `None`;
`event_set` holds the events that are set. `pc` and `loop_pc` say where each caller and each loop
thread is, `cursor` how far the set has come with its subcollectors and `up` which of them run.
A graph is the number of the collection that produced it.

Actions follow the code at the points where another thread can get in between. `start` is
`StartNested`, or `StartFirst` followed by a `StartCollector` for each subcollector,
`StartCollectorsDone` and `StartThread`, all with the lock held. `stop` is `StopNested`, or
`StopLast`, the `StopCollector`s, `StopCollectorsDone` and `Join`; `JoinRaises` is the join of a
thread that was never started. `CollectorRaises` is an exception of any subcollector in either.
`Join` does not wait for the loop: with a time-out of one second it may return with the loop
alive. A loop reads the count without the lock, waits on its own event, collects and publishes
(`LoopCheck`, `LoopWake` or `LoopBreak`, `LoopCollect`, `LoopNotify`); an exception ends it
(`LoopCollectRaises`). `Trigger`, `Collect` and `Notify` are `trigger_collect` of a caller,
without the lock. A `stop` of a core that is not running changes nothing and is left out.

`RLock` re-entry by a subscriber that calls back into the core is not modelled, that by the
SIGTERM handler is in `OfflineRun`; `trigger_clear` touches no state of the core.

### CollectionSessions

A session is unused, open, closing or closed. One session is open at most; only an open or a
closing session publishes; a session that was told to stop in the middle of a collection
publishes at most once more. Under the refinement mapping in `ProfilerCore` a session is a loop
thread: open while alive and not told to stop, closing while it was told and is collecting or
notifying. `shown` is `latest`. The abstract specification adds that closing ends.

### GraphCollection

State: the queue, `visited` (the entities appended to `nodes` after the seed graph), the ignore
set, the entity being expanded, the subcollectors still to be asked, their answers so far, and
for each edge how many reports have been merged into it (0: not in the graph). `replies` is a
history of what was answered. `Supports` is `supported_source_node_type`, and `AskedFor` the
dispatch of `CollectorSet`: classes named at construction are looked up, others tested with
`isinstance`. The memo of that test is a cache of a function of the class and is recomputed.

Collectors read live data, so an answer is any of `Answers[c][n]` at the time of asking.
`Nothing`, which may always be answered, is also what an `OSError` or a `ValueError` of a
subcollector amounts to; any other exception is `AskRaises`. The graph's weights count reports,
so a report lost or merged twice shows. What data a report carries is left to `SocketGraph`:
rows of the sniffer, found from the process by its pid and from the socket by its address.

`add_collector` has no caller. The `ValueError` that `merge_other` can raise outside the `try`
is not modelled separately: for the collection it is an `AskRaises`.

### RemoteSync

State of a master: `started`, `stop_event` and `cached` are `_started`, `_stop_event` and
`_cached_graph` of its collector, `call` is how far its `stop` has come, and `thread_pc` and
`in_hand` say where each sync thread is and what it has fetched. The n-th start makes the n-th
event and thread; a `stop` joins the thread of that number. Of the slave: `references` is
`_running` of its core, 1 when it serves, since `run_online` has started it; `late_starts` and
`late_stops` are requests it has still to execute; `slave_graph` is its latest graph.

`start` and `stop` of a collector are called with the core's lock held, one at a time. A `start`
is one action: the POST is answered (`Start`) or raises (`StartRaises`). `stop` is `Stop` (sets
the event), `Join` or `JoinTimesOut`, and `StopAnswered` or `StopRaises`. The client neither
retries nor numbers its requests. A POST that raises was not executed, or was (its answer came
after the time-out or was an error), or will be: the control routes run on the event loop, which
another request may be blocking. That a request is executed at once and not answered is a late
request served at once. `ServeLateStart` and `ServeLateStop` are `start` and `stop` of the
slave's core as far as they count; what the core does with its references is `ProfilerCore`.

A sync thread reads `self._stop_event` when it tests it (`Check`), which is the event of the
latest start and not its own. `Trigger`, `Fetch` and `Store` are `_do_sync`, `SyncError` any
error in it, `Wake` the wait, over by time or event. `Collect` is any other collection of the
slave: its own loop, another client, a trigger that timed out. `Clear` is `clear()` with its
POST answered; on the slave it touches neither count nor latest graph. `Restart` brings the
slave back with its own reference, requests in flight lost.

What is in a graph is in `GraphExchange`. Not modelled: `is_valid`, asked once at construction;
`trigger_collect`, which has no caller. Graphs are numbered in the order the slave keeps them; that
it may keep an older one last is a hazard listed at `notify` of the core.

### ProgramMonitor, HccsMonitor, RdmaMonitor

The socket, cache and scheduling monitor are three copies of one design: `kind` says which one a
behaviour is of, and `SocketFrame`, `CacheFrame`, `SchedFrame` (and `...Row`) are where they
differ: only the socket monitor takes a header line off, once for the object. `control` says how
far a call of the sniffer is (`RegisterSubscriber`, `StartSniffer`, `StartReaderThread`;
`UnregisterSubscriber`, `WaitForProgram`, `JoinReader`, `ClearSession`); `rpc` where each reader
is between the test of `_running` and the notification of the subscribers, which may find the
dictionary changed (`NextSubscriber`). Both waits of a stop may give up: `outlived` are the
readers it gave up on, which go on with the flag, the buffer and the program of the next session.

In `HccsMonitor` a call of `start` or `stop` holds the lock throughout, so that it is one action
up to its waits; the reader takes the lock only to finish (`HccsFinish`), which is why
`HccsJoin` gives up on every reader that is not done before the stop. In `RdmaMonitor` a thread
takes its event in `RdmaBegin`, which may come after the next `stop` or `start`.

### MonitorLaunch

`monitor` says which of the four a behaviour is of, `config` what is configured of it. An asker is a
thread of a run of the profiler (`HostOf`) that wants the monitor: `Ask` looks at `_instance`
without the lock of the class, `TakeClassLock` to `PublishInstance` are `__new__`, which for all but
the HCCS monitor takes a lock on a file (`AcquireProcessLock`, or `LockTaken`) before `_init`
empties the files (`InitMonitor`, `InitRaises`). `StartProgram` is `_start` of a sniffer that has
the object: what the program prints when asked for its version decides whether it is started, and
`Verdict` has the four ways of reading that. `ExitRun` is the end of a run by itself, with
`_cleanup` where it was registered; `KillRun` is any other end. What a started monitor does is
`ProgramMonitor` and `HccsMonitor`.

The HCCS monitor takes no lock on a file, so several runs may each have one. A construction that
raises in `_init` leaves the lock with a descriptor nobody closes: the run cannot make the monitor
again, nor can another, until the run ends; `LockInUse` lists it. A program that a stop gave up on,
or whose run was killed, is nobody's and is not counted.

### RdmaStatistics

A snapshot is made of the JSON output of the `rdma` command, or of its text, or of sysfs
(`Collected`, `FromRdma`, `FromSysfs`); `order` is the order in which this process happens to go
over the set of a counter's names. `TakeSnapshot` is `_update`, `ClearStatistics` is `clear`, and
`PortCounts` the hardware, which may start again from zero. A rate is kept as the difference it is
made of, without the interval. A number that sysfs does not have in its first snapshot makes every
later update raise (`DiffRaises`), and a port that one snapshot lacked gets all it ever counted:
both are as in the code, and `RatesAreTraffic` and `LacksOnlyAtStart` say what holds beside them.
`GetQpRecords`, `GetMrRecords`, `GetPdRecords` are the tables, for the JSON and the text output;
that the command prints one object instead of a list is left out.

### Sniffers, RotatedStorage

`Sniffers`: `RecordDf` appends under the lock; `SwapRecords`, `Compute` and `Store` are the update
of whoever asks, in three steps because only the first is locked. `Prune` keeps a window.
`RotatedStorage`: `Enter`, `WriteRow` and `Exit` are one `with` statement; sizes are in rows, and
a size is what was written (Python's own file buffer is left out).

### IdRegistry, SubscriberHub

`IdRegistry`: `Create` to `RecordOrGet` is `create_ensure_unique_id`, `SetAttr`, `Exists`,
`Release` and `Rename` the setting of an attribute, in the steps between which no lock is held.
`GetManager` and `Construct` are the singleton, which two threads may both construct.
`SubscriberHub`: a broadcast (`Notify`) walks a copy of the dictionary's values and delivers one by
one, the asynchronous ones by a thread each; the delete route looks and deletes in two steps.

### GraphExchange

Of each host the addresses it takes for its own (`address`), the objects of its registry, the graph
it is collecting (`growing`) and the one it serves (`latest`); of each sync thread the cached graph
(`synced`), the stack of namespaces, and what it has made and has still to make of the graph
received. An entity is a namespace, a thing (kind and number), and what was looked up of it, a field
being the host whose files gave it, or `Missing`; `origin` and `knew` are history. `Placed` is
`__post_init__`: what is missing is looked up on the machine where the entity is made, and the
namespace of an entity that is still `local` is that of the thread. `RecordOrGetEntity` returns
whoever has the id already, so that an object recorded first stays whatever is received later.

`SeedGraph` and `Expand` are a collection, one at a time on a host, reduced to what it records;
what a collector may find with what is `Related`. `ReceiveGraph` enters the namespace of the sender,
`ReceiveNode` and `ReceiveEdge` make one node and one edge with its ends, `StoreGraph` leaves the
namespace and replaces the cache, `ReceiveRaises` leaves it by an exception. Changes of an
entity's attributes and the singleton of the registry are `IdRegistry`; when graphs are fetched is
`RemoteSync`. That nodes are edited by merging edges, and JSON itself, are left out.

A host that does not know its address calls itself "None", so two of them are one; `NamesOrigin`
speaks of addresses that one host has. A field the origin did not know may be filled in with what
the receiver's own `/proc` says of the number; `DetailsOfOrigin` speaks of those it knew.

### OfflineRun, ControlRoutes

`OfflineRun`: one action for each place of `main()` where a signal can get in. `frames` is the
stack of SIGTERM handlers on top of it, of which only the topmost moves; each stops the core as
`main()` would, and leaves with `SystemExit`. Online and offline runs differ in whether the
handler is installed (`BeginRun`). `disturbed` remembers that a signal, an exception or a handler
hit a start or a stop: nothing is promised of such a run but that it ends, and `KilledGracefully`
shows what becomes of one. `ControlRoutes`: a host serves one request at a time, since the
handlers of the control routes never yield; `Post` and `PostTimesOut` are its own requests to its
slave. What a core does with its references is `ProfilerCore`, how a master counts is
`RemoteSync`.

### RdmaTopology, CommonParent, IpcCollection

Each is a collector whose answers change its own state, driven as `GraphCollection` drives it: a
queue of entities, expanded in any order. `RdmaTopology` has the caches of the sniffer as
sequences of records and `QPNManager` as the set of queue pairs made so far; `CommonParent` the
children and depths of a round; `IpcCollection` the programs, what is in each pipe, what the text
stream took from it, and the buffer. A line is two pieces of text, so that reads can cut it.

### SwappedMaps, IpcProbes

`SwappedMaps`: the handlers of the sched, cache, PMU, socket and IPC programs in one
parameterised form (`HandlerOf`), and their loaders (`ReaderOf`); the steps of a handler are the
helper calls of BPF (look up, insert, add), which another CPU or the loader can come between.
`Swap` makes the other map active, `Take`, `CountIn`, `Delete` and `Clear` read and empty the
one that was. `IpcProbes`: `Enter`, `Return`, `DeleteFirst`, `Use`, `UseAndDelete`, `NotCounted`
are the two kprobes of a call; `ProbesOf` says in which order each program looks, uses and
deletes. A deleted element keeps its content until it is used again.

### HccsBandwidth, NumaTopology

No state: dies out of NUMA distances, bandwidths out of counters, edges out of bandwidths; ranges
of numbers, distances, pages and CPU time per node, threads worth a node of their own. Divisions
are avoided by a common multiple of the intervals (`Scale`) and by comparing fractions. The 1e-10 that
the code adds to the total time, so as not to divide by zero, is left out of the score of a placement.

A thread that ends between the listing of `/proc/<pid>/task` and the reading of its status has -1 for
both counts (`ReadCpuStatus`), stays in the list, and enters the sums that `FilterThreads` compares
with. `BusiestThreadsStay` says what holds of it: as long as one thread could be read, and the threshold
is not above an even share (with the default of 0.1, up to ten threads), one of those read stays, and
those that ended stay for their time alone. It does not hold beyond that: if all have ended the sums are
negative, so that a single ended thread without time is dropped (0.1 * -2 > -2), and among more threads
than the threshold is made for, enough ended ones pass with their -2. Nothing is claimed of these cases
but that no thread goes while one with less of everything stays.

## 3. Runs

| Run | Instance | States | Result |
|---|---|---|---|
| `core` | two callers, two subcollectors, two loops, two references, three collections | 142 486 | all properties hold |
| `core_is_running` | the same | | violated: `is_running()` is true with no loop alive |
| `graph` | three processes and a socket, three subcollectors, five calls | 7 643 | all properties hold |
| `graph_sources` | the same | | violated: the generic subcollector is not asked |
| `graph_traffic` | two senders, a receiver, a socket, four rows | | violated: bytes counted twice |
| `remote_sync` | one master, two starts, two unanswered requests, two graphs, a restart | 58 031 | all properties hold |
| `remote_stale` | one master, two starts | | violated: a thread told to stop syncs on |
| `monitors` | two programs of two lines, buffer of two; three HCCS and two RDMA sessions; two runs with three threads that make a monitor | 164 171 | all properties hold |
| `service` | three objects, two ids; three files, six rows; three subscribers, two graphs; two runs, two signals each; two hosts, two requests; three hosts that send graphs | 147 124 | all properties hold |
| `remote_expanded` | three hosts, three entities found, one graph sent | | violated: a local entity is related to a process of another host |
| `killed_gracefully` | one run, one signal | | violated: SIGTERM during the start leaves collectors on |
| `sources` | two updaters; two RDMA tables; trees of four processes; two IPC sessions; two CPUs, two hits, maps of one element; two threads with room for one call; one port with counters of two names; small machines | 469 422 | all properties hold |

Properties of `core`: `AtMostOneLiveLoop`, `StoppedCoreIsQuiet`, `HandlesPresent`,
`LifecycleConsistent` (safety), `SessionsRefined` (the refinement with its liveness),
`SignalledLoopEnds` and `LockReleased` (liveness), `TypeOK`. Of `graph`: `VisitedOnce`,
`Reached`, `Complete`, `MergedOnce` (safety), `Ends` (liveness), `TypeOK`.
Of `remote_sync`: `OneSyncThread`, `StartedSyncs`, `NobodyRobbed` (safety), `CacheMovesOn`
(action), `SyncingEnds` (liveness), `TypeOK`, which says that the slave's count is never negative.

Of `monitors`: `OneReader` (`OneReaderAtATime` and `HccsOneReader`: one reader, unless a join gave
up on another), `OneLaunched` (`OneMonitor`, `OneProgram`, `LockInUse`, `OutputUnderstood`: one
object for a run, one run with the files and a program, a lock that somebody uses, output parsed as
what it is), `RunningIsRead`, `RowsKept` (on disk in order, once, none lost), `HccsNoOrphan` and
`RdmaReachable` (no program, no thread that the next stop does not reach); `StopsReturn` and
`StoppedThreadsEnd` (liveness). Of `service`: `EntitiesKept` (`IdentityKept` of the registry,
`OriginKept` of the exchange), `StorageKept`, `BroadcastKept`,
`EndsClean`, `ResultsOfOneRun`, and for liveness `SignalEndsRun` and `RequestsAnswered`: every
client is answered even by hosts that wait for each other, and hosts that are not each other's
slaves come to rest. Of `sources`: `SourcesKept` (`CountedOnce` and `RecentRowsKept` of the
sniffers, `ConnectionsFound` and `PairsFound` of RDMA, `LinesKept` and `NoProgramLeft` of IPC,
`CallsAttributed` and `ArgsFreed` of the probes, `RatesAreTraffic` and `LacksOnlyAtStart` of the
statistics, `CountsKept` of the maps, `ParentsFound`), `FunctionsCorrect` (`DiesPartitionNodes`, `OwnTraffic`, `RangesRoundTrip`, `DistancesSymmetric`, `PlacementMeasured`,
`ProcessReachesNodes`, `RecordsKept`, `BusiestThreadsStay`) and `StopEndsWaiting` (liveness).

Parts side by side. The modules that `MCMonitors`, `MCService` and `MCSources` put together share
no state, so their product would show nothing that the parts do not. A variable `part` chooses
one at the start; the others stay in their initial states, where their fairness asks nothing.
One run then checks all parts in the sum of their state spaces, each property being a statement
about one part, or one conjunct for each.

What holds only on a condition says so in its formula, and the condition is what the code fails
at, named by the hazards: `OneReader` and `RowsKept` until a join has given up,
`RdmaReachable` until a thread has raised, `IdentityKept` while one registry was made,
`NamesOrigin` of addresses that one host has, `RatesAreTraffic` between snapshots of one source,
`StorageKept` while writers do not overlap, `LastGraphIsLatest` while nobody takes the memory
subscriber's name, `EndsClean` for runs not disturbed in a start or stop, `RecentRowsKept` and
`ParentsFound` while updates and rounds do not overlap, `BusiestThreadsStay` while one thread could be
read and the threshold is not above an even share, `CountsKept` up to the handlers that
straddle a swap, `CallsAttributed` up to an element used again and a program that asks at the
entry about one direction.

Bounds. `MaxLoops` = 2 lets a loop that outlived its join meet its successor, `MaxRounds` = 3
gives each of a late loop, its successor and a caller a collection in flight at once, `MaxRefs`
= 2 has nested starts, and two subcollectors give a failure with one before it and one after
it. The bounds are guards of `StartFirst`, `StartNested` and of the beginning of a collection,
so that nothing under way is ever cut off; a run therefore ends in states where nothing may
begin any more, and deadlock is not checked. In `graph` there are neighbours reported twice,
edges reported from both ends and by two subcollectors, a seed edge, ignored entities and
edges, and a limit on iterations that cuts a collection short; a collection ends, so deadlock
is not checked either. There `max_iterations` = 4, the number of entities, stands for `None`.

In `remote_sync` two starts let a thread meet its successor, and two unanswered requests
let a stop be repeated until the count would pass zero. At `MaxGraphs` the slave's graph
counts as unchanged, so threads go on. Masters meet only in the slave's count and its graphs;
that many of them do not rob each other is a theorem (`Balance`).

In `monitors` a second program lets an outlived reader meet a session after its own, and a
buffer of two rows with a header line gives a frame of one row, of two, and an unfinished one; a
third HCCS session revives a reader twice. In `service` three objects on two ids make two
threads compete for an id that a third object gives up; three files of two rows and six rows
come round to the first; two runs share the lock, and two signals put a handler on a handler;
three hosts in a row, of which the first also collects from the second, let an entity come back to
its host and go over a second one to a third, the last two may have one address, and each host has a
process of the same number, so that two finds and two graphs sent are enough for a conflict.
In `sources` maps of one element and two keys make room run out and elements be used again, two
swaps let a handler straddle one and be read by the next; three calls of two threads with room
for one do the same for arguments; four processes give a parent two children and a grandparent.
The models of these runs stop where their bounds do, so deadlock is not checked.

Fairness. Operating system threads are scheduled and collectors answer, so `ProfilerCore` has
weak fairness for each call under way and each loop, and none for starting a call:
`SignalledLoopEnds` and `LockReleased` do not depend on anybody calling anything. Nothing
forces a collection to succeed. `GraphCollection` has weak fairness of `Next`: the thread that
runs the collection is scheduled and each question gets an answer or an exception.

In `RemoteSync` the threads and a `stop` under way have weak fairness, as every HTTP call has a
time-out; requests, collections and the beginning of a call have none. The same holds of a
stop and the threads of the monitors. Beyond that `ProgramMonitor` has it that a program asked to
terminate does so: the monitored programs keep the default of SIGTERM or end on it. A program
that prints, fails or ends by itself is under no obligation, and a reader of a silent program
hangs. In `OfflineRun` `main()` or the handler on top of it moves on, and nobody need send a
signal. In `ControlRoutes` each event loop runs, and a POST to a slave is answered or times out.
In `IpcCollection` a call under way moves on where it can; a read of a stream that has less than
asked for, from a program still alive, cannot, and a stop need never come: `StopEndsWaiting` is
about what happens once it has.

What the violations say:

- `start` sets the count before it starts the collectors and the thread. If a collector raises,
  the count stays 1, `is_running()` says true, the next `start` only counts, and the next `stop`
  joins a thread that was never started. Likewise, an exception in a collection ends the loop
  and leaves the count.
- A subcollector that relies on the default `supported_source_node_type` (the base class) is
  asked only about classes that no other subcollector names. The IPC collector is one: the socket
  collector names processes.
- The socket collector answers the same row about the process and about the socket; `merge_other`
  adds.
- A sync thread that outlives the join of `stop` (an HTTP call may take longer than the five
  seconds) looks at the event of the next start: it goes on, and two threads sync one cache.
  The next `stop` that is not followed by a start ends both (`SyncingEnds`).
- The entities a remote collector has received are queued with the others, and the local
  collectors are asked about them. They look at a process's number, not at its namespace: the graph
  published relates a process of another host to the sockets, NUMA nodes and devices of the local
  process with that number.
- SIGTERM during the start of the collectors: the handler's `stop` finds a set that does not
  count as started, stops no collector and fails at the join of a thread not yet started.

## 4. Proofs

`ProfilerCoreProofs` proves for any callers, subcollectors and bounds, from `CoreAssumption`:
`TypeCorrect`, `OneLoop`, `Quiet`, `NoNoneDereference`, `Lifecycle`, and `Refinement`, the
safety part of `CollectionSessions`. None of the properties is inductive. The invariant `IInv`
adds: who is inside `start` or `stop` holds the lock and nobody else is; the thread and event
handles belong to the latest start, or are `None`, or were left behind by an exception; any
loop that is alive and not told to stop is the one the handles name, and only while the count
is positive; events are only set for loops that exist; and how far a call has come fixes which
subcollectors run as long as nothing has raised. `OneLoop` and `Quiet` follow from the third
part alone, which is why it is there. There is one lemma per action for each group of conjuncts.

`GraphCollectionProofs` proves for any entities, edges, subcollectors, answers and calls, from
`CollectionAssumption`: `TypeCorrect`, `ExpandedOnce`, `OnlyReachable`, `AllReachable` and
`EdgesMergedOnce`. Its invariant says that the ignore set is what the call ignores and what was
visited; that every entity known so far (the seeds and all answered neighbours of visited entities)
is visited, ignored, in the queue or among the neighbours not looked at; that what is queued was
known; and that a finished collection had an empty queue or had used up its iterations. For the
edges it keeps accounts: what has been merged into an edge and what the answers not merged yet still
report of it make up the reports of all answers given. These are sums over finite sets; `SumLaws`
proves that such a sum exists and does not depend on the order of its terms, by induction on the size
of the set, and how it changes with the function that is summed.

`RemoteSyncProofs` proves for any masters and bounds, from `RemoteAssumption`: `TypeCorrect`,
`Balance`, `OneThread`, `KeepsSyncing` and the action property `NoOlderGraph`. Its invariant adds
to them: threads exist up to the latest start, and without a join that timed out only the
latest is alive, and only until it was joined; a started collector's event is not set; while
no stop has failed none is late, so every drop in the count is that of a holder; the slave's
graph is the newest or gone, and a graph about to be stored is not older than the cached one.
What a failed stop does to the count is not claimed: the collector stays started, and a second
stop drops a reference that is somebody else's.

`MonitorProofs` proves for any numbers of sessions, programs and lines, from `MonitorAssumption`,
`HccsAssumption` and `RdmaAssumption`: `ProgramReadsOnce`, `RunningHasReader`, `MonitorKeepsRows`,
`HccsReadsOnce`, `HccsKeepsProgram`, `RdmaStaysReachable` and, with `LaunchAssumption`,
`LaunchedOnce`; of the two kinds of reader together `ReadersAlone`, and of all
`MonitorsTypeCorrect`. That at most one reader lives is not inductive: a start would add a second.
`ProgramInv` says that a reader not given up on is the one whose handle the monitor holds, that the
handle is `None` wherever a start can be, and that the held reader put the flag down if it left; a
late reader can put it down but only a start puts it up. `FlowInv` follows the rows while no join
has given up: those on disk, those in the frame a reader has made and those in the buffer come in
this order, each was printed by the program it names, those in the buffer by the one that runs, and
no line printed in the open session is in none of the three, but for the header a reader took off.
`HccsInv` says that whoever is in its loop is the reader the monitor holds or was given up on in the
middle of a line, and that outside of a stop there is a program if and only if there is a reader; so
the event that a start clears has no other reader to revive. `RdmaInv` says whose event each thread
took and that an event left behind is set. `LaunchInv` says that whoever is in `__new__` holds the
lock of the class; that who is making a monitor has the lock on the file and no monitor yet, and who
has one has the lock, the files and a `_cleanup`; and that a program is of a run that has a monitor,
in the style that was asked for.

`ServiceProofs` proves, for any subscribers, graphs, files and rows, from `HubAssumption` and
`StorageAssumption`, `EverySubscriberTold`, `StreamIsKept` and, with the assumptions of the
registry, the exchange, the runs and the routes, `EntitiesStayThemselves` and `ServiceTypeCorrect`.
`HubInv` orders things: the dictionary and what a broadcast has still to tell hold subscribers in
the order in which they were made, as a name taken over moves to the end; who is still to be told
has neither heard of the graph nor has a thread that will tell it; and whoever knew the graph before
has been told of this one or is still to be. `StorageInv` is about writers that do not overlap: the
one inside is in the current file, which has room for its row, and the counts of use are of it
alone; and the files, from the oldest to the current one, begin each at the row after the last of
the one before, full ones but for what `clear_all` passed.

Of the registry it proves `RegistryKeepsIdentity` for any objects, ids and threads, from
`OwnerAssumption` and `NoneAssumption`. `RegistryInv` adds to it what each call in the middle
knows about its object: not recorded (before `record_or_get`, before the second half of a
rename), or recorded under the old id or not at all. Since an object is in the hands of one
thread, that knowledge survives what the other threads do.

Of the exchange it proves `ExchangeKeepsOrigin` for any hosts, addresses and things, whoever
collects from whom, from `ExchangeAssumption`. `ExchangeInv` has three parts. Every object recorded
is right (its namespace is `local` on the host that found it, and otherwise belongs to no other
host; what that host knew is still there), and no two of a host have one id. All graphs are of
objects that their host has recorded, the cached ones of none that is `local`. And a thread that
receives a graph has the sender on its stack and nothing else, and what it has still to make are
objects of the sender: so that what it makes of them is named after the host they are of. Registries
only grow, which is why the second and the third part survive what other threads record;
`record_or_get` (`RecordKeeps`) leaves the first as it is, since an id contains the namespace.

Of the offline runs it proves `ResultsBelongTogether` and `RunEndsClean` for any runs, subcollectors and
signals, from `RunAssumption`. For the first: who is past `acquire` holds the lock, and who has
written the first file is the run in it. For the second: in a run not disturbed, where `main()`
and the stack of handlers are fixes which collectors, loop and count are on; a handler on top
of the sleep does what `main()` would, and anywhere else finds nothing to stop.

`SourceSumsProofs` proves of the swapped maps, for any CPUs, keys, programs and sizes of map, from
`MapsAssumption`, `CountsOfMaps`. A hit can be in the hands of a handler, in an element, emitted, or
refused, and `CountsKept` weighs these sums against the hits; but it is not inductive, since an
element that a handler still points to may be deleted, given to another key, or read already.
`MapsInv` therefore keeps two accounts for each key: one has the elements that will be emitted
whatever the reader meets, the other also those that may be. With what is emitted, in hand and
refused, the first falls short of the hits, and the second exceeds them, by no more than the misses,
which are the handlers that straddled a swap and have ended; over all keys the second does not exceed
the hits at all. `CountsKept` counts the elements still to be read, which lie between the two. The
rest of the invariant says that a key has one element in a map and, of a handler that is not late,
that it works in the active map and points to an element of its own key, which nobody can delete.

Of the common parents, for any trees (also with the circles that processes read at different times
can show), processes, levels and rounds, from `ParentAssumption`, `ParentsAreFound`. The lookup is a
recursive function over what it is asked and has found; it is tail recursive, and a call either is
its last or marks a process as looked up from with more levels than before, so the levels that are
still spare bound its depth, and what each call keeps holds at the end (`LookupIs`, `LookupFinds`).
`ParentInv` says of a round not disturbed that the children seen of a parent are those looked up
from; that each member was reached from one the others found, or from a common parent, with no more
levels than are used up; and that the parent of a process looked up from with levels left is a member
and was itself looked up from, with one level less at least. What is expanded was looked up from,
and with all levels if no child of it was seen; the levels that `LevelsLeft` starts with are left by
the way from such an origin (`LevelsLeftFound`), which is what the third part rests on.

`SourceProofs` proves of the probes, for any threads, objects and size of the map, from
`ProbesAssumption`, `CallsCounted` and `ArgumentsFreed`: `ProbesInv` says which arguments a call has
at each of its points, that a thread has one element at most, and that an element that was
deleted keeps its content until it is given away, which `recycled` remembers.

Of the IPC collector, from `IpcAssumption`, it proves `ProgramsStop`, `LinesReachEvents` and
`IpcTypeCorrect`. `IpcInv`: a stop under way has still to come to each kind whose program runs.
`StreamsInv`: what a program printed is what was parsed, followed by the buffer, by what the text
stream took and by what is in the pipe, in that order.

Of the rounds of the RDMA collector, from `TablesAssumption`, `RdmaFindsConnections`,
`RdmaFindsPairs` and `TopologyTypeCorrect`. `TopologyInv`: an undisturbed round has found what
follows from the entities it has expanded; the numbers of the queue pairs it has found are known;
and of two that are expanded and name each other, the one expanded later has looked up the other.

Of the RDMA monitor's statistics, from `StatisticsAssumption` (whose aliases of a field are those of
`COUNTER_FIELD_MAP` and the field's name in sysfs, which that map lacks for `dupl_pkts`), `RatesOfCounters` and
`OnlyStartLacks`. `StatInv`: the last snapshot and, once there are rates, the one before say of a
field nothing, or what the counters had then under the name that the output and the order of the
names pick. So the same output picks the same name twice, and the rate is what one counter has
grown.

Of the sniffers, from `SnifferAssumption`, `RowsCountedOnce`, `RecentRowsStay` and
`SnifferTypeCorrect`. `SnifferInv`: the entries are made of rows that were recorded, no row is in
two of them or in an entry and in the hands of an update, and while updates do not overlap every
recent row is recorded, in the hands of the update, or in an entry.

What is computed of a machine, a process or a table has no steps, so that its theorems are facts
about operators, for inputs of any size:

| theorem | property | holds of | by |
|---|---|---|---|
| `RangesAreExact` | `RangesRoundTrip` | any finite set of integers (as a string the code's ranges hold no negative ones, which no caller has) | the ranges made so far cover the numbers taken, and the last ends with the greatest |
| `DistancesAreSymmetric` | `DistancesSymmetric` | any printed matrix, square or not | entering a pair both ways keeps the table symmetric |
| `DiesArePartition` | `DiesPartitionNodes` | any nodes and distances, symmetric or not | a node that is taken takes its neighbours out of those left, and is the least of them |
| `PlacementIsMeasured` | `PlacementMeasured` | any nodes, times and pages | the sum of products is at most the product of the sums, and equal when one node has both |
| `NodesAreReached` | `ProcessReachesNodes` | any machine whose nodes are in a row | the position of a node in the lists is then its number |
| `TheBusiestStay` | `BusiestThreadsStay` | any threads, ended ones with -1 among them, and any thresholds | the sum is at most as often the greatest count as there are threads, and more than as often -2 once one has more; the tests grow with each count |
| `TrafficIsOwn` | `OwnTraffic` | any clusters and report of counters, from `BandwidthAssumption` | each sum is over the counters of the node's die |
| `RecordsAreKept` | `RecordsKept` | any table, in JSON or text | a filter keeps as many as pass its test |

`FunctionsAreCorrect` (`FunctionsCorrect`) applies them to the inputs of `MCSources`, for any bounds
on the counters, times and numbers of these; `InputsAssumption` says that the bounds are natural
numbers, and that a missing field is none of the values a field can have.

`SourcesReachGraph` puts the parts together: a step of one leaves the variables of the others alone,
so `SourcesSpec` implies the specification of each part, and `SourcesKept` holds with their
theorems.

Induction. Where a proof needs it, over a length, a size or a number, it takes the least
counterexample of a set of numbers, with the theorem that `<` is well-founded on `Nat`: a
statement about sets, with no operator for a parameter. `SumLaws` states this once as `AllNumbers`,
and as `AllSubsets` for the subsets of a finite set, by their size. With it `FoldExists` shows that a
fold over a finite set obeys its equation, whatever the `CHOOSE` in it picks, and what a fold keeps
at each element it keeps at the end.

Only model-checked: the liveness properties, which the prover cannot handle, and the statements
of the runs that the code violates. All invariants and action properties of the passing runs are
theorems.

## 5. Not modelled

- NPU, GPU, shared-memory and docker collectors: each call reads files or runs a tool and parses
  its output, without state between calls; to a collection they are the `Answers` of a
  subcollector in `GraphCollection`.
- Visualisation: layout and rendering of a finished graph. Skills: text and stand-alone
  converters. Configuration, environment, logging, the build script: read or run once.
- What uvicorn does with signals: online, SIGTERM is its own and only the end of
  `uvicorn.run` is in `OfflineRun`.
- Contents: fields of entities and edges beyond what a property tells apart, command lines, output
  formats, filters, thread nodes of the socket collector.
- Sizes of files as Python's buffers delay them; empty frames of the sniffers; eviction and
  resizing of the LRU maps of the dynamic socket program; discovery and programming of PMU
  devices, and the `-t` option over several dies.
- `is_valid`, `trigger_collect` of a remote collector and `add_collector`, which have no caller
  after construction.

## 6. Plan

What is left is thinner than what is done: the resizing LRU map of the socket program's loader;
the filter and the thread nodes of the socket collector; what edges carry, through merging and JSON.
Of the proofs nothing is left that the prover can reach.
