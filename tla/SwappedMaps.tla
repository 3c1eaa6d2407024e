------------------------------ MODULE SwappedMaps ------------------------------
(***************************************************************************)
(* The statistics of the eBPF programs.  Handlers in the kernel, one at a    *)
(* time on a CPU, count what happens by a key in the active one of two hash  *)
(* maps.  A program in user space makes the other map active, then reads     *)
(* and empties the one that was: nothing tells it whether a handler that     *)
(* had already chosen that map is done.                                     *)
(*                                                                         *)
(* The elements of a map are allocated when it is made: one that is deleted  *)
(* is free at once for another key, while a handler may still point to it.   *)
(* A handler counts each hit as one, be it bytes, nanoseconds or misses.     *)
(***************************************************************************)
EXTENDS Integers, FiniteSetsExt, Functions

CONSTANTS Cpus, Counted, \* what is counted: threads, or events of a PMU
          MaxEntries,    \* of a map
          MaxHits,       \* hits: a bound of the model
          MaxSwaps,      \* reads of a map: a bound of the model
          Programs       \* the programs checked

ASSUME MapsAssumption ==
    /\ MaxEntries \in Nat \ {0} /\ MaxHits \in Nat /\ MaxSwaps \in Nat
    /\ IsFiniteSet(Cpus) /\ IsFiniteSet(Counted)
-----------------------------------------------------------------------------
(* The handlers: whether the CPU is part of the key; how an element is made: *)
(* empty and looked up again ("zero"), with the hit in it ("one"), or with   *)
(* the hit in it for this CPU, the values being one for each ("own"); and    *)
(* whether a hit that cannot be counted is itself counted.                  *)

SchedSwitch == [cpuInKey |-> TRUE,  insert |-> "zero", drops |-> FALSE]
CacheMiss ==   [cpuInKey |-> TRUE,  insert |-> "zero", drops |-> TRUE]
PmuEvent ==    [cpuInKey |-> FALSE, insert |-> "one",  drops |-> TRUE]
FlowStats ==   [cpuInKey |-> FALSE, insert |-> "own",  drops |-> FALSE]
UdsStats == FlowStats
PipeStats == FlowStats
PosixMqStats == FlowStats
SysvMsgStats == FlowStats
SysvSemStats == FlowStats

HandlerOf == [sched |-> SchedSwitch, cache |-> CacheMiss, pmu |-> PmuEvent,
              socket |-> FlowStats, uds |-> UdsStats, pipe |-> PipeStats,
              posix_mq |-> PosixMqStats, sysv_msg |-> SysvMsgStats, sysv_sem |-> SysvSemStats]

(* The readers: how a map is read and emptied: all of it read, then all      *)
(* deleted ("passes"), each element in turn read, then deleted ("each"), or  *)
(* the kernel does both ("batch"); and whether the handlers count before     *)
(* they are configured, which they do when nothing has to be enabled.        *)

SchedReader ==   [take |-> {"batch", "passes"}, early |-> TRUE]
CacheReader ==   [take |-> {"passes"}, early |-> FALSE]
PmuReader ==     [take |-> {"passes"}, early |-> FALSE]
SocketReader ==  [take |-> {"each"}, early |-> FALSE]
UdsReader ==     [take |-> {"each"}, early |-> FALSE]
PipeReader ==    [take |-> {"each"}, early |-> FALSE]
PosixMqReader == [take |-> {"each"}, early |-> FALSE]
SysvMsgReader == [take |-> {"each"}, early |-> FALSE]
SysvSemReader == [take |-> {"each"}, early |-> TRUE]

ReaderOf == [sched |-> SchedReader, cache |-> CacheReader, pmu |-> PmuReader,
             socket |-> SocketReader, uds |-> UdsReader, pipe |-> PipeReader,
             posix_mq |-> PosixMqReader, sysv_msg |-> SysvMsgReader, sysv_sem |-> SysvSemReader]

ASSUME ProgramsAssumption == Programs \subseteq DOMAIN ReaderOf
-----------------------------------------------------------------------------
VARIABLES
    tool, take,  \* which program; how its maps are read
    active,         \* config_map: active_map
    elems,          \* the elements of the two maps
    drops,          \* drop_count_map
    handler,        \* the handler on each CPU
    reader,         \* the program in user space: where it is, in which map
    seen, must,     \* the elements it has read; those it has to
    rows,           \* history: what it emitted of each key
    hits, refused,  \* history: hits, and those a map had no room for
    straddled,      \* history: handlers whose map was made the one to read
    reported        \* history: the drops the reader logged

maps_vars == <<tool, take, active, elems, drops, handler, reader, seen, must, rows, hits,
               refused, straddled, reported>>

Slots == 1..MaxEntries
MapKeys == Counted \X (Cpus \cup {"any"})
NoKey == <<>>
Free == [key |-> NoKey, count |-> [c \in Cpus |-> 0]]
Idle == [at |-> "idle", key |-> NoKey, map |-> 0, slot |-> 0, late |-> FALSE]
Zero == [k \in MapKeys |-> 0]

MapsInit ==
    /\ tool \in Programs /\ take \in ReaderOf[tool].take
    /\ active = 0 /\ elems = [m \in {0, 1} |-> [s \in Slots |-> Free]] /\ drops = 0
    /\ handler = [c \in Cpus |-> Idle]
    /\ reader = [at |-> "attached", map |-> 0, slot |-> 0, left |-> MaxSwaps]
    /\ seen = {} /\ must = {} /\ rows = Zero /\ hits = Zero /\ refused = Zero
    /\ straddled = 0 /\ reported = 0

fixed == <<tool, take>>
readers_own == <<reader, seen, must, rows, reported>>
-----------------------------------------------------------------------------
(* The handlers. *)

KeyOf(c, t) == <<t, IF HandlerOf[tool].cpuInKey THEN c ELSE "any">>
HasKey(m, k) == {s \in Slots : elems[m][s].key = k}
Room(m) == {s \in Slots : elems[m][s].key = NoKey}

Counting ==
    \/ reader.at = "attached" /\ ReaderOf[tool].early
    \/ reader.at \notin {"attached", "ended"}

\* Something happens on a CPU, and the handler chooses the active map.
Hit(c) ==
    /\ Counting /\ handler[c].at = "idle" /\ SumFunction(hits) < MaxHits
    /\ \E t \in Counted : LET k == KeyOf(c, t) IN
         /\ handler' = [handler EXCEPT ![c] = [Idle EXCEPT !.at = "lookup", !.key = k, !.map = active]]
         /\ hits' = [hits EXCEPT ![k] = @ + 1]
    /\ UNCHANGED <<fixed, active, elems, drops, readers_own, refused, straddled>>

\* The element of the key, if there is one.
Lookup(c) ==
    /\ handler[c].at \in {"lookup", "again"}
    /\ LET h == handler[c]
           found == HasKey(h.map, h.key)
       IN handler' = [handler EXCEPT ![c] =
            IF found # {} THEN [h EXCEPT !.at = "add", !.slot = CHOOSE s \in found : TRUE]
            ELSE IF h.at = "lookup" THEN [h EXCEPT !.at = "insert"] ELSE Idle]
    /\ UNCHANGED <<fixed, active, elems, drops, readers_own, hits, refused, straddled>>

With(e, c, n) == [e EXCEPT !.count[c] = n]

\* The element is made.  Another CPU may have made it since: its own value of
\* it is set all the same.
Insert(c) ==
    /\ handler[c].at = "insert"
    /\ LET h == handler[c]
           own == HandlerOf[tool].insert = "own"
           zero == HandlerOf[tool].insert = "zero"
       IN /\ IF own /\ HasKey(h.map, h.key) # {}
             THEN elems' = [elems EXCEPT ![h.map] =
                    [s \in Slots |-> IF s \in HasKey(h.map, h.key)
                                     THEN With(@[s], c, 1) ELSE @[s]]]
             ELSE /\ HasKey(h.map, h.key) = {}
                  /\ \E s \in Room(h.map) : elems' = [elems EXCEPT ![h.map][s] =
                       [key |-> h.key, count |-> [Free.count EXCEPT ![c] = IF zero THEN 0 ELSE 1]]]
          /\ handler' = [handler EXCEPT ![c] = IF zero THEN [h EXCEPT !.at = "again"] ELSE Idle]
    /\ UNCHANGED <<fixed, active, drops, readers_own, hits, refused, straddled>>

\* It cannot be made: the map is full; or another CPU has made it, or another
\* handler holds the lock that one of a perf event, which interrupts
\* everything, cannot wait for.  (The second lookup of sched_switch cannot
\* succeed then: no other CPU has the key.)
Refuse(c) ==
    /\ handler[c].at = "insert"
    /\ LET h == handler[c]
           counted == HandlerOf[tool].drops
       IN /\ \/ counted
             \/ Room(h.map) = {} /\ HasKey(h.map, h.key) = {}
          /\ refused' = [refused EXCEPT ![h.key] = @ + 1]
          /\ drops' = IF counted THEN drops + 1 ELSE drops
    /\ handler' = [handler EXCEPT ![c] = Idle]
    /\ UNCHANGED <<fixed, active, elems, readers_own, hits, straddled>>

\* The hit is added to the element found, whatever has become of it: in one
\* that is free it is lost when that is next used.
Add(c) ==
    /\ handler[c].at = "add"
    /\ elems' = [elems EXCEPT ![handler[c].map][handler[c].slot] =
                   IF @ = Free THEN Free ELSE With(@, c, @.count[c] + 1)]
    /\ handler' = [handler EXCEPT ![c] = Idle]
    /\ UNCHANGED <<fixed, active, drops, readers_own, hits, refused, straddled>>
-----------------------------------------------------------------------------
(* The reader. *)

kernel == <<elems, drops, handler, hits, refused>>

\* The maps are found, the object loaded, the handlers attached, and then told
\* what to count; whatever fails ends the program.
Configure ==
    /\ reader.at = "attached"
    /\ \E at \in {"sleeping", "ended"} : reader' = [reader EXCEPT !.at = at]
    /\ UNCHANGED <<fixed, active, kernel, seen, must, rows, straddled, reported>>

\* A signal ends the loop: what is in the maps is not read.
Exit ==
    /\ reader.at = "sleeping" /\ reader' = [reader EXCEPT !.at = "ended"]
    /\ UNCHANGED <<fixed, active, kernel, seen, must, rows, straddled, reported>>

Used(m) == Slots \ Room(m)

\* Of the map that is to be read, the handlers that have chosen it.
Late(m) == {c \in Cpus : handler[c].at # "idle" /\ handler[c].map = m /\ ~handler[c].late}

BeginRead(m) ==
    /\ reader.at = "sleeping" /\ reader.left > 0
    /\ reader' = [reader EXCEPT !.at = "reading", !.map = m, !.left = @ - 1]
    /\ seen' = {} /\ must' = Used(m)
    /\ straddled' = straddled + Cardinality(Late(m))
    /\ handler' = [c \in Cpus |-> [handler[c] EXCEPT !.late = @ \/ c \in Late(m)]]
    /\ UNCHANGED <<fixed, elems, drops, hits, refused, rows, reported>>

\* Mutant: the map that is read stays the active one.
ReadActive == BeginRead(active) /\ UNCHANGED active

Swap == BeginRead(active) /\ active' = 1 - active

CountIn(e) == SumFunction(e.count)

\* An element is read.  One made since the reading began is met or not.
Take(s) ==
    /\ reader.at = "reading" /\ s \in Used(reader.map) \ seen
    /\ seen' = seen \cup {s}
    /\ LET e == elems[reader.map][s] IN rows' = [rows EXCEPT ![e.key] = @ + CountIn(e)]
    /\ reader' = IF take = "each" THEN [reader EXCEPT !.at = "deleting", !.slot = s] ELSE reader
    /\ elems' = IF take = "batch" THEN [elems EXCEPT ![reader.map][s] = Free] ELSE elems
    /\ UNCHANGED <<fixed, active, drops, handler, hits, refused, must, straddled, reported>>

\* The element read last is deleted.
Delete ==
    /\ reader.at = "deleting"
    /\ elems' = [elems EXCEPT ![reader.map][reader.slot] = Free]
    /\ reader' = [reader EXCEPT !.at = "reading"]
    /\ UNCHANGED <<fixed, active, drops, handler, hits, refused, seen, must, rows, straddled, reported>>

\* All that had to be read is.
HaveRead ==
    /\ reader.at = "reading" /\ must \subseteq seen
    /\ IF take = "passes"
       THEN reader' = [reader EXCEPT !.at = "clearing"] /\ must' = Used(reader.map)
       ELSE reader' = [reader EXCEPT !.at = "sleeping"] /\ UNCHANGED must
    /\ UNCHANGED <<fixed, active, kernel, seen, rows, straddled, reported>>

\* The second pass deletes what it meets, read by the first or not.
Clear(s) ==
    /\ reader.at = "clearing" /\ s \in Used(reader.map)
    /\ elems' = [elems EXCEPT ![reader.map][s] = Free] /\ must' = must \ {s}
    /\ UNCHANGED <<fixed, active, drops, handler, reader, hits, refused, seen, rows, straddled, reported>>

HaveCleared ==
    /\ reader.at = "clearing" /\ must = {}
    /\ reader' = [reader EXCEPT !.at = IF HandlerOf[tool].drops THEN "drops" ELSE "sleeping"]
    /\ reported' = IF HandlerOf[tool].drops THEN reported + drops ELSE reported
    /\ UNCHANGED <<fixed, active, kernel, seen, must, rows, straddled>>

\* The drops are read, and then reset.
ResetDrops ==
    /\ reader.at = "drops" /\ reader' = [reader EXCEPT !.at = "sleeping"] /\ drops' = 0
    /\ UNCHANGED <<fixed, active, elems, handler, hits, refused, seen, must, rows, straddled, reported>>

HandlerStep(c) == Hit(c) \/ Lookup(c) \/ Insert(c) \/ Refuse(c) \/ Add(c)
ReaderStep == Configure \/ Exit \/ Swap \/ Delete \/ HaveRead \/ HaveCleared \/ ResetDrops

MapsNext == ReaderStep \/ (\E c \in Cpus : HandlerStep(c)) \/ \E s \in Slots : Take(s) \/ Clear(s)

MapsSpec == MapsInit /\ [][MapsNext]_maps_vars
-----------------------------------------------------------------------------
(* Properties. *)

\* The elements whose counts have still to be read: in the map that is read,
\* those that are not.
Unread(m) == IF reader.at \in {"reading", "deleting", "clearing"} /\ m = reader.map THEN Used(m) \ seen ELSE Used(m)

Holding(k) == {p \in {0, 1} \X Slots : p[2] \in HasKey(p[1], k) \cap Unread(p[1])}
InMaps(k) == SumFunction([p \in Holding(k) |-> CountIn(elems[p[1]][p[2]])])
UnderWay(k) == Cardinality({c \in Cpus : handler[c].at # "idle" /\ handler[c].key = k})
Accounted(k) == rows[k] + InMaps(k) + UnderWay(k) + refused[k]

\* A hit is emitted once under its own key, is still to be read, or found no
\* room: only those of handlers that were running when their map was made the
\* one to read can be lost or be taken for hits of another key.  In all no
\* more is emitted than was hit, and what is missing is at most those.  No
\* more drops are logged than there were hits without room.
CountsKept ==
    /\ \A k \in MapKeys : Accounted(k) - hits[k] \in -straddled..straddled
    /\ SumFunction(hits) - SumFunction([k \in MapKeys |-> Accounted(k)]) \in 0..straddled
    /\ reported <= SumFunction(refused)

MapsTypeOK ==
    /\ tool \in Programs /\ active \in {0, 1} /\ drops \in Nat
    /\ \A m \in {0, 1}, s \in Slots : elems[m][s].key \in MapKeys \cup {NoKey}
    /\ seen \subseteq Slots /\ must \subseteq Slots
=============================================================================
