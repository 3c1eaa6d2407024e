---------------------------- MODULE RotatedStorage ----------------------------
(***************************************************************************)
(* The files of a monitor: rows go to the current file, which is left for    *)
(* the next, emptied one when it is full, if nobody is using that.  A writer *)
(* is a `with' statement: __enter__, the write, __exit__; the lock is held   *)
(* by the two methods and not by the write.  Writers overlap only when a     *)
(* reader thread has outlived its stop.                                      *)
(***************************************************************************)
EXTENDS Integers, SequencesExt

CONSTANTS
    RotationCnt,     \* max_rotation_cnt
    MaxSize,         \* max_size_in_mb, in rows
    Writers,
    MaxRows          \* rows written: a bound of the model

ASSUME StorageAssumption ==
    /\ RotationCnt \in Nat \ {0} /\ MaxSize \in Nat \ {0}
    /\ IsFiniteSet(Writers) /\ MaxRows \in Nat

VARIABLES
    index,           \* _index
    accessing,       \* _accessing_flag
    files,           \* what each file holds: rows are numbered as written
    fd,              \* the file each writer entered; -1 is none
    wrote,           \* the writer is through with its row
    rows,            \* how many rows were written
    cleared,         \* how many rows there were at the last clear_all
    mixed            \* history: two writers overlapped, or one and a clear_all

storage_vars == <<index, accessing, files, fd, wrote, rows, cleared, mixed>>

Files == 0..RotationCnt - 1
Inside == {w \in Writers : fd[w] # -1}

StorageInit ==
    /\ index = 0 /\ rows = 0 /\ cleared = 0 /\ mixed = FALSE
    /\ accessing = [i \in Files |-> 0]
    /\ files = [i \in Files |-> <<>>]
    /\ fd = [w \in Writers |-> -1] /\ wrote = [w \in Writers |-> FALSE]

\* _check_size_and_rotate, with the counts as they are then.
CheckSizeAndRotate(counts) ==
    LET next == (index + 1) % RotationCnt
    IN IF Len(files[index]) >= MaxSize /\ counts[next] = 0
         THEN index' = next /\ files' = [files EXCEPT ![next] = <<>>]
         ELSE UNCHANGED <<index, files>>

Enter(w) ==
    /\ fd[w] = -1 /\ rows + Cardinality({v \in Inside : ~wrote[v]}) < MaxRows
    /\ CheckSizeAndRotate(accessing)
    /\ accessing' = [accessing EXCEPT ![index'] = @ + 1]
    /\ fd' = [fd EXCEPT ![w] = index'] /\ wrote' = [wrote EXCEPT ![w] = FALSE]
    /\ mixed' = (mixed \/ Inside # {})
    /\ UNCHANGED <<rows, cleared>>

WriteRow(w) ==
    /\ fd[w] # -1 /\ ~wrote[w] /\ wrote' = [wrote EXCEPT ![w] = TRUE]
    /\ rows' = rows + 1
    /\ files' = [files EXCEPT ![fd[w]] = Append(@, rows')]
    /\ UNCHANGED <<index, accessing, fd, cleared, mixed>>

\* Mutant: the file stays in use.
ExitInUse(w) ==
    /\ fd[w] # -1 /\ wrote[w] /\ fd' = [fd EXCEPT ![w] = -1]
    /\ CheckSizeAndRotate(accessing)
    /\ UNCHANGED <<accessing, wrote, rows, cleared, mixed>>

\* __exit__ takes the count of the current file down, whichever was entered.
Exit(w) ==
    /\ fd[w] # -1 /\ wrote[w] /\ fd' = [fd EXCEPT ![w] = -1]
    /\ accessing' = [accessing EXCEPT ![index] = @ - 1]
    /\ CheckSizeAndRotate(accessing')
    /\ UNCHANGED <<wrote, rows, cleared, mixed>>

ClearAll ==
    /\ files' = [i \in Files |-> IF accessing[i] = 0 THEN <<>> ELSE files[i]]
    /\ index' = 0 /\ cleared' = rows
    /\ mixed' = (mixed \/ Inside # {})
    /\ UNCHANGED <<accessing, fd, wrote, rows>>

StorageNext == ClearAll \/ \E w \in Writers : Enter(w) \/ WriteRow(w) \/ Exit(w)

StorageSpec == StorageInit /\ [][StorageNext]_storage_vars

\* Mutant: the current file first.
CurrentFirst == [i \in 1..RotationCnt |-> (index + i - 1) % RotationCnt]

\* get_all_files_as_stream: the file after the current one is the oldest.
FileOrder == [i \in 1..RotationCnt |-> (index + i) % RotationCnt]
AllFilesAsStream == FlattenSeq([i \in 1..RotationCnt |-> files[FileOrder[i]]])
-----------------------------------------------------------------------------
(* Properties, for writers that do not overlap. *)

StorageTypeOK ==
    /\ index \in Files /\ accessing \in [Files -> Int]
    /\ files \in [Files -> Seq(1..rows)]
    /\ fd \in [Writers -> Files \cup {-1}] /\ wrote \in [Writers -> BOOLEAN]
    /\ rows \in 0..MaxRows /\ cleared \in 0..rows /\ mixed \in BOOLEAN

\* Whatever was rotated away, the stream is the last rows written, in order
\* and without a gap, and at least a full file of them if there were as many.
StreamIsTheLastRows ==
    ~mixed =>
        LET stream == AllFilesAsStream
            first == rows - Len(stream)
        IN /\ \A i \in DOMAIN stream : stream[i] = first + i
           /\ first <= cleared \/ RotationCnt = 1 \/ Len(stream) >= (RotationCnt - 1) * MaxSize

\* No file outgrows its limit by more than the row that filled it, and the
\* counts say who is inside.
FilesBounded ==
    ~mixed =>
        /\ \A i \in Files : Len(files[i]) <= MaxSize
        /\ \A i \in Files : accessing[i] = Cardinality({w \in Writers : fd[w] = i})

StorageKept == StreamIsTheLastRows /\ FilesBounded
=============================================================================
