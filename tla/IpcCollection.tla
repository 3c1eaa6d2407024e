----------------------------- MODULE IpcCollection -----------------------------
(***************************************************************************)
(* IPCCollector and its sniffers.  Each sniffer is a program that prints a   *)
(* line per event to a pipe.  Whoever asks for the graph asks every sniffer  *)
(* in turn for the events there are: get_events looks whether the pipe has   *)
(* data, reads some, and parses the lines that are complete.  The read is    *)
(* of a text stream, which waits until it has as many characters as asked    *)
(* for or the program has ended; what it took from the pipe beyond that it   *)
(* keeps, where the look at the pipe does not see it.                       *)
(*                                                                         *)
(* Every start makes new sniffers, so that a reader that was waiting on one  *)
(* of a session before is not one of this session's.  A line is two pieces   *)
(* of text, the second of which ends it.                                    *)
(***************************************************************************)
EXTENDS Integers, SequencesExt

CONSTANTS Kinds,        \* the kinds of sniffer, in the order they are started
          IpcSessions,  \* starts: a bound of the model
          Pieces,       \* pieces a sniffer of each kind prints: a bound of the model
          Processes,    \* who the events are about
          Chunk         \* pieces one read asks for: 4096 characters

ASSUME IpcAssumption ==
    Kinds \in Seq(STRING) /\ Chunk \in Nat \ {0} /\ IpcSessions \in Nat

-----------------------------------------------------------------------------
(* The five sniffers: the same methods, each with the columns of its own    *)
(* lines.  The semaphores' program alone has no direction to be told, and    *)
(* the collector starts it but never asks it.                               *)

Columns == <<"timestamp", "pid", "tid">>

UDSSniffer == [asked |-> TRUE, columns |->
    Columns \o <<"inode", "socket_type", "direction", "bytes", "count", "peer_inode">>]
PipeSniffer == [asked |-> TRUE, columns |->
    Columns \o <<"inode", "direction", "bytes", "count", "is_fifo">>]
SysVMsgSniffer == [asked |-> TRUE, columns |->
    Columns \o <<"msqid", "direction", "bytes", "count", "msg_type">>]
POSIXMQSniffer == [asked |-> TRUE, columns |->
    Columns \o <<"mqd", "direction", "bytes", "count", "msg_prio">>]
SysVSemSniffer == [asked |-> FALSE, columns |->
    Columns \o <<"semid", "sem_num", "sem_op_type", "count", "sem_op_val", "sem_flg">>]

SnifferOf == [uds |-> UDSSniffer, pipe |-> PipeSniffer, sysv_msg |-> SysVMsgSniffer,
              posix_mq |-> POSIXMQSniffer, sysv_sem |-> SysVSemSniffer]
-----------------------------------------------------------------------------
VARIABLES
    ipcStarted,  \* _started
    owner,       \* the kinds that the start or stop under way has still to do
    session,     \* the session of the sniffers in _sniffers
    held,        \* _sniffers: kinds
    program,     \* of each session's sniffers: "none" (_process is None), ...
    pipe,        \* what it printed and nobody took
    text,        \* what the text stream took and nobody read
    buffer,      \* _buffer
    asking,      \* what the thread that collects asks for; the kinds left
    reading,     \* the sniffer it waits for
    events,      \* the processes of the events it has
    printed,     \* history: all a sniffer printed
    parsed,      \* history: all that get_events parsed
    graphPids    \* processes of the last seed graph, or with edges to themselves

ipc_vars == <<ipcStarted, owner, session, held, program, pipe, text, buffer, asking, reading,
              events, printed, parsed, graphPids>>

Sniffer == Range(Kinds) \X (1..IpcSessions)
NoCall == [call |-> "idle", left |-> <<>>]
Streams(empty) == [s \in Sniffer |-> empty]

IpcInit ==
    /\ ipcStarted = FALSE /\ owner = NoCall /\ session = 0 /\ held = {}
    /\ program = Streams("none") /\ pipe = Streams(<<>>) /\ text = Streams(<<>>)
    /\ buffer = Streams(<<>>) /\ printed = Streams(<<>>) /\ parsed = Streams(<<>>)
    /\ asking = NoCall /\ reading = <<>> /\ events = {} /\ graphPids = {}

streams == <<pipe, text, buffer, printed, parsed>>
thread == <<asking, reading, events, graphPids>>
-----------------------------------------------------------------------------
(* The programs. *)

\* The second piece of a line has all columns of its kind, or not enough of
\* them, as the head of the table has.
Piece(pid, columns) == [pid |-> pid, columns |-> columns, last |-> columns > 0]

Prints(s) ==
    /\ program[s] = "running" /\ Len(printed[s]) < Pieces[s[1]]
    /\ \E pid \in Processes, columns \in {0, 1, Len(SnifferOf[s[1]].columns)} :
         LET piece == Piece(pid, columns) IN
         /\ piece.last <=> Len(printed[s]) % 2 = 1
         /\ piece.last => pid = Last(printed[s]).pid
         /\ pipe' = [pipe EXCEPT ![s] = Append(@, piece)]
         /\ printed' = [printed EXCEPT ![s] = Append(@, piece)]
    /\ UNCHANGED <<ipcStarted, owner, session, held, program, text, buffer, parsed, thread>>

Die(s) ==
    /\ program[s] = "running" /\ program' = [program EXCEPT ![s] = "ended"]
    /\ UNCHANGED <<ipcStarted, owner, session, held, streams, thread>>
-----------------------------------------------------------------------------
(* start and stop. *)

IpcStart ==
    /\ owner = NoCall /\ ~ipcStarted /\ session < IpcSessions
    /\ owner' = [call |-> "start", left |-> Kinds] /\ session' = session + 1
    /\ UNCHANGED <<ipcStarted, held, program, streams, thread>>

\* A sniffer that cannot be started stays in the dictionary.
StartSniffer ==
    /\ owner.call = "start" /\ owner.left # <<>>
    /\ LET s == <<Head(owner.left), session>>
       IN /\ held' = held \cup {s[1]} /\ owner' = [owner EXCEPT !.left = Tail(@)]
          /\ program' \in {program, [program EXCEPT ![s] = "running"]}
    /\ UNCHANGED <<ipcStarted, session, streams, thread>>

IpcStarted ==
    /\ owner.call = "start" /\ owner.left = <<>> /\ owner' = NoCall
    /\ ipcStarted' = TRUE
    /\ UNCHANGED <<session, held, program, streams, thread>>

IpcStop ==
    /\ owner = NoCall /\ ipcStarted
    /\ owner' = [call |-> "stop", left |-> Kinds]
    /\ UNCHANGED <<ipcStarted, session, held, program, streams, thread>>

\* The program is terminated, or killed after five seconds.
StopSniffer ==
    /\ owner.call = "stop" /\ owner.left # <<>>
    /\ owner' = [owner EXCEPT !.left = Tail(@)]
    /\ program' = [program EXCEPT ![<<Head(owner.left), session>>] = "none"]
    /\ UNCHANGED <<ipcStarted, session, held, streams, thread>>

IpcStopped ==
    /\ owner.call = "stop" /\ owner.left = <<>> /\ owner' = NoCall
    /\ held' = {} /\ ipcStarted' = FALSE
    /\ UNCHANGED <<session, program, streams, thread>>
-----------------------------------------------------------------------------
(* _collect_events. *)

\* For a seed graph, or about a process.
CollectEvents ==
    /\ asking = NoCall
    /\ \E about \in {"seed"} \cup Processes : asking' = [call |-> about, left |-> Kinds]
    /\ events' = {}
    /\ UNCHANGED <<ipcStarted, owner, session, held, program, streams, reading, graphPids>>

NextKind == asking' = [asking EXCEPT !.left = Tail(@)]

\* Mutant: a line that is not complete yet is dropped.
NoRest(chars) == <<>>

\* The parts of a text up to the last end of a line, and the rest.
Lines(chars) == LET ends == {i \in DOMAIN chars : chars[i].last}
                IN SubSeq(chars, 1, IF ends = {} THEN 0 ELSE Max(ends))
Rest(chars) == SubSeq(chars, Len(Lines(chars)) + 1, Len(chars))

\* _parse_line: an event, of a line that has the columns for one.
ParseLine(s, p) == p.columns >= Len(SnifferOf[s[1]].columns)

\* The lines that are complete, and so parsed.
TakeLines(s, chars) ==
    /\ buffer' = [buffer EXCEPT ![s] = Rest(chars)]
    /\ parsed' = [parsed EXCEPT ![s] = @ \o Lines(chars)]
    /\ events' = events \cup {p.pid : p \in {q \in Range(Lines(chars)) : ParseLine(s, q)}}

\* What the sniffer of a kind is found to be; the semaphores' is not asked.
Found(k) == IF k \in held /\ SnifferOf[k].asked THEN program[<<k, session>>] ELSE "none"

\* The look at the pipe, for a tenth of a second; a program that has ended has
\* an end to read.  With nothing there, the buffer has no complete line either.
Look ==
    /\ asking.left # <<>> /\ reading = <<>>
    /\ LET k == Head(asking.left)
           readable == Found(k) = "ended" \/ (Found(k) = "running" /\ pipe[<<k, session>>] # <<>>)
       IN IF readable THEN reading' = <<k, session>> /\ UNCHANGED asking
                      ELSE NextKind /\ UNCHANGED reading
    /\ UNCHANGED <<ipcStarted, owner, session, held, program, streams, events, graphPids>>

\* Mutant: the end of a program is not the end of the wait.
FullOnly(s, available) == Len(available) >= Chunk

\* The stream has all that was asked for, or the program is gone.
Answers(s, available) == Len(available) >= Chunk \/ program[s] # "running"

Read ==
    /\ reading # <<>> /\ reading' = <<>>
    /\ LET s == reading
           available == text[s] \o pipe[s]
           n == Min({Chunk, Len(available)})
       IN /\ Answers(s, available)
          /\ TakeLines(s, buffer[s] \o SubSeq(available, 1, n))
          /\ text' = [text EXCEPT ![s] = SubSeq(available, n + 1, Len(available))]
          /\ pipe' = [pipe EXCEPT ![s] = <<>>]
    /\ NextKind
    /\ UNCHANGED <<ipcStarted, owner, session, held, program, printed, graphPids>>

\* A seed graph has every process of an event; an answer about a process has
\* an edge to itself if an event is about it, and what the events say about
\* other processes is lost.
AnswerEvents ==
    /\ asking # NoCall /\ asking.left = <<>> /\ asking' = NoCall
    /\ graphPids' = IF asking.call = "seed" THEN events
                    ELSE graphPids \cup (events \cap {asking.call})
    /\ events' = {}
    /\ UNCHANGED <<ipcStarted, owner, session, held, program, streams, reading>>

CollectingStep == CollectEvents \/ Look \/ Read \/ AnswerEvents
OwnerStep == StartSniffer \/ IpcStarted \/ StopSniffer \/ IpcStopped
IpcNext == CollectingStep \/ OwnerStep \/ IpcStart \/ IpcStop \/ \E s \in Sniffer : Prints(s) \/ Die(s)

IpcSpec == IpcInit /\ [][IpcNext]_ipc_vars

\* The threads are scheduled and what they wait for comes; nobody has to
\* start, stop or ask, and a sniffer need not print.
IpcFairness == WF_ipc_vars(Look \/ Read \/ AnswerEvents) /\ WF_ipc_vars(OwnerStep)

IpcFairSpec == IpcSpec /\ IpcFairness
-----------------------------------------------------------------------------
(* Properties. *)

\* What a sniffer printed is parsed once, in order and in whole lines; what is
\* not yet is in the buffer, the text stream and the pipe.
LinesKept ==
    \A s \in Sniffer : printed[s] = parsed[s] \o buffer[s] \o text[s] \o pipe[s]

\* No program outlives the session it was started in, whatever could not be
\* started.
NoProgramLeft ==
    \A s \in Sniffer : program[s] = "running" =>
        s[2] = session /\ s[1] \in held /\ (ipcStarted \/ owner.call = "start")

\* A collection that waits for more than a sniffer prints goes on when the
\* collector is stopped.
StopEndsWaiting == (~ipcStarted /\ owner = NoCall) ~> (asking = NoCall \/ ipcStarted)

IpcTypeOK ==
    /\ session \in 0..IpcSessions /\ held \subseteq Range(Kinds)
    /\ program \in [Sniffer -> {"none", "running", "ended"}]
    /\ reading \in Sniffer \cup {<<>>} /\ graphPids \subseteq Processes
=============================================================================
