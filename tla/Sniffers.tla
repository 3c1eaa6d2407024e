------------------------------- MODULE Sniffers -------------------------------
(***************************************************************************)
(* The three sniffers that turn the rows of a monitor into a data frame:    *)
(* the monitor's reader thread appends to a buffer under a lock; whoever    *)
(* asks - the collection loop, a caller that collects, a stop - swaps the   *)
(* buffer out under the lock and merges it into the frame without it.       *)
(* The socket sniffer keeps the rows of a window of time, the cache sniffer *)
(* drops what is out of the window and adds up the rest per task, the       *)
(* scheduling sniffer only adds up.                                         *)
(***************************************************************************)
EXTENDS Integers, SequencesExt

CONSTANTS
    Updaters,     \* threads that ask
    Tasks,        \* what rows are grouped by
    Window,       \* maximum_dataframe_size_in_seconds
    LastTime,     \* times at which rows end: a bound of the model
    MaxRecords    \* rows recorded: a bound of the model

ASSUME SnifferAssumption == Window \in Nat \ {0} /\ LastTime \in Nat /\ MaxRecords \in Nat

VARIABLES
    sniffer,      \* which of the three
    records,      \* _records
    frame,        \* _data_frame, _cache_df or _sched_df
    step,         \* how many of the operations each updater has done; 0: idle
    taken,        \* update_records of each updater
    result,       \* the frame it has computed ...
    computed,     \* ... and not stored yet
    recorded,     \* history: the rows recorded, in order
    since,        \* history: how many there were at the last start or clear
    raced         \* history: two updates overlapped

sniffer_vars == <<sniffer, records, frame, step, taken, result, computed, recorded, since, raced>>

\* A row as recorded, by its number, or several of them added up.
Entry(task, rows, end) == [task |-> task, rows |-> rows, end |-> end]

Ends(f) == {f[i].end : i \in DOMAIN f}
Rows(f) == UNION {f[i].rows : i \in DOMAIN f}

\* The operations of an update, each of which reads the frame and stores it.
Operations == CASE sniffer = "socket" -> <<"concat", "prune">>
                [] sniffer = "cache" -> <<"concat", "prune", "aggregate">>
                [] sniffer = "sched" -> <<"concat", "aggregate">>

SnifferInit ==
    /\ sniffer \in {"socket", "cache", "sched"}
    /\ records = <<>> /\ frame = <<>> /\ recorded = <<>> /\ since = 0
    /\ raced = FALSE
    /\ step = [u \in Updaters |-> 0] /\ computed = [u \in Updaters |-> FALSE]
    /\ taken = [u \in Updaters |-> <<>>] /\ result = [u \in Updaters |-> <<>>]
-----------------------------------------------------------------------------
(* The monitor's thread: _record_df. *)

RecordDf ==
    /\ Len(recorded) < MaxRecords
    /\ \E task \in Tasks, end \in 1..LastTime :
         LET row == Entry(task, {Len(recorded) + 1}, end)
         IN records' = Append(records, row) /\ recorded' = Append(recorded, row)
    /\ UNCHANGED <<sniffer, frame, step, taken, result, computed, since, raced>>
-----------------------------------------------------------------------------
(* update_dataframe *)

Updating == \E u \in Updaters : step[u] # 0

\* The swap; with nothing new the frame is returned as it is.
SwapRecords(u) ==
    /\ step[u] = 0 /\ records # <<>>
    /\ taken' = [taken EXCEPT ![u] = records] /\ records' = <<>>
    /\ step' = [step EXCEPT ![u] = 1]
    /\ raced' = (raced \/ Updating)
    /\ UNCHANGED <<sniffer, frame, result, computed, recorded, since>>

\* A frame of some of the rows of another, given by their places.
Kept(f, places) == LET order == SetToSeq(places) IN [i \in DOMAIN order |-> f[order[i]]]

\* Mutant: the window is that of the oldest row of the update.
PruneFromOldest(f, new) == Kept(f, {i \in DOMAIN f : f[i].end > Min(Ends(new))})

\* The rows that end in the window before the latest one of the update.
Prune(f, new) == Kept(f, {i \in DOMAIN f : f[i].end > Max(Ends(new)) - Window})

\* groupby, sum of what is counted and max of the ends.
Aggregate(f) ==
    LET of(task) == {i \in DOMAIN f : f[i].task = task}
        tasks == SetToSeq({f[i].task : i \in DOMAIN f})
    IN [i \in DOMAIN tasks |-> Entry(tasks[i], UNION {f[k].rows : k \in of(tasks[i])},
                                      Max({f[k].end : k \in of(tasks[i])}))]

Compute(u) ==
    /\ step[u] # 0 /\ ~computed[u] /\ computed' = [computed EXCEPT ![u] = TRUE]
    /\ result' = [result EXCEPT ![u] =
           CASE Operations[step[u]] = "concat" -> frame \o taken[u]
             [] Operations[step[u]] = "prune" -> Prune(frame, taken[u])
             [] Operations[step[u]] = "aggregate" -> Aggregate(frame)]
    /\ UNCHANGED <<sniffer, records, frame, step, taken, recorded, since, raced>>

Store(u) ==
    /\ computed[u] /\ computed' = [computed EXCEPT ![u] = FALSE]
    /\ frame' = result[u] /\ result' = [result EXCEPT ![u] = <<>>]
    /\ step' = [step EXCEPT ![u] = IF @ = Len(Operations) THEN 0 ELSE @ + 1]
    /\ taken' = [taken EXCEPT ![u] = IF step[u] = Len(Operations) THEN <<>> ELSE @]
    /\ UNCHANGED <<sniffer, records, recorded, since, raced>>

\* start of the socket sniffer empties the buffer ...
Start ==
    /\ sniffer = "socket" /\ records # <<>>
    /\ records' = <<>> /\ since' = Len(recorded) /\ raced' = (raced \/ Updating)
    /\ UNCHANGED <<sniffer, frame, step, taken, result, computed, recorded>>

\* ... and an update of clear begins by dropping the frame.
DropPrevious ==
    /\ sniffer = "socket" /\ frame # <<>>
    /\ frame' = <<>> /\ since' = Len(recorded) /\ raced' = (raced \/ Updating)
    /\ UNCHANGED <<sniffer, records, step, taken, result, computed, recorded>>

SnifferNext ==
    \/ RecordDf \/ Start \/ DropPrevious
    \/ \E u \in Updaters : SwapRecords(u) \/ Compute(u) \/ Store(u)

SnifferSpec == SnifferInit /\ [][SnifferNext]_sniffer_vars
-----------------------------------------------------------------------------
(* Properties. *)

\* No row is in two places of a frame, before they are added up.
Disjoint(f) == \A i, j \in DOMAIN f : i # j => f[i].rows \cap f[j].rows = {}

\* However updates race, no row is counted twice.
CountedOnce == Disjoint(frame \o records) /\ \A u \in Updaters : Disjoint(result[u])

\* Unless updates have raced, every row since the last clear that is in the
\* window before the latest is in the frame, in the buffer, or on its way from
\* one to the other; and the scheduling times are those of every row there was.
Recent(row) == sniffer = "sched" \/ row.end > Max(Ends(recorded)) - Window
RecentRowsKept ==
    ~raced =>
        \A n \in since + 1..Len(recorded) : Recent(recorded[n]) =>
            \/ n \in Rows(frame \o records)
            \/ \E u \in Updaters : step[u] = 1 /\ n \in Rows(taken[u])

SnifferTypeOK ==
    /\ sniffer \in {"socket", "cache", "sched"}
    /\ step \in [Updaters -> 0..3] /\ computed \in [Updaters -> BOOLEAN]
    /\ \A f \in {frame, records, recorded} \cup Range(taken) \cup Range(result) :
         \A i \in DOMAIN f : f[i].task \in Tasks /\ f[i].end \in 1..LastTime
    /\ since \in 0..Len(recorded) /\ raced \in BOOLEAN
=============================================================================
