------------------------------- MODULE IpcProbes -------------------------------
(***************************************************************************)
(* How the eBPF programs count calls.  What is told about a call when it is  *)
(* entered, such as the object it is made on, is kept by the thread in a map *)
(* of arguments until it returns, with what it did; only then is it counted. *)
(* The programs differ in when they look whether the direction is to be      *)
(* counted, in what they do about a call that did nothing, and in whether    *)
(* they delete the arguments before they use them: what they then use is an  *)
(* element that is free for the arguments of another thread.                *)
(***************************************************************************)
EXTENDS Integers, FiniteSetsExt

CONSTANTS CallThreads, CallObjects,
          MaxArgs,      \* elements of the map of arguments
          MaxCalls,     \* calls: a bound of the model
          ProbeKinds    \* the programs checked

NoThread == "none"

ASSUME ProbesAssumption == MaxArgs \in Nat /\ MaxCalls \in Nat /\ NoThread \notin CallThreads

Directions == {"write", "read"}

(* The programs: where the direction is looked at; whether the arguments of  *)
(* a call that did nothing are kept; whether they are deleted before they    *)
(* are used.                                                                *)

UdsProbes ==     [looks |-> "enter", keeps |-> TRUE,  deletesFirst |-> TRUE]
PipeProbes ==    [looks |-> "exit",  keeps |-> TRUE,  deletesFirst |-> FALSE]
SocketProbes ==  [looks |-> "exit",  keeps |-> FALSE, deletesFirst |-> FALSE]
SysvMsgProbes == [looks |-> "exit",  keeps |-> FALSE, deletesFirst |-> TRUE]
PosixMqProbes == SysvMsgProbes
SysvSemProbes == [looks |-> "never", keeps |-> FALSE, deletesFirst |-> TRUE]

ProbesOf == [uds |-> UdsProbes, pipe |-> PipeProbes, socket |-> SocketProbes,
             sysv_msg |-> SysvMsgProbes, posix_mq |-> PosixMqProbes, sysv_sem |-> SysvSemProbes]
-----------------------------------------------------------------------------
VARIABLES
    kind, enabled,  \* which program; config_map: the directions to count
    args,           \* the elements of the map of arguments
    call,           \* what each thread calls
    counted,        \* the calls counted, by key
    made,           \* history: the calls made that are to be counted, by key
    calls,          \* history: calls
    recycled        \* history: an element was used again while in use

probes_vars == <<kind, enabled, args, call, counted, made, calls, recycled>>

Nothing == "nothing"
CallKeys == CallThreads \X CallObjects \X Directions
ArgSlots == 1..MaxArgs
NotCalling == [at |-> "none", dir |-> Nothing, obj |-> Nothing, slot |-> 0,
               kept |-> FALSE, did |-> FALSE]

ProbesInit ==
    /\ kind \in ProbeKinds /\ enabled \in SUBSET Directions \ {{}}
    /\ args = [s \in ArgSlots |-> [thread |-> NoThread, obj |-> Nothing]]
    /\ call = [t \in CallThreads |-> NotCalling]
    /\ counted = [k \in CallKeys |-> 0] /\ made = [k \in CallKeys |-> 0]
    /\ calls = 0 /\ recycled = FALSE

\* The program's record, and whether it counts a direction.
Probes == ProbesOf[kind]
Counts(dir) == Probes.looks = "never" \/ dir \in enabled

Own(t) == {s \in ArgSlots : args[s].thread = t}
FreeArgs == {s \in ArgSlots : args[s].thread = NoThread}

\* Mutant: only if the thread has none yet.
PlacesIfNone(t) == IF Own(t) # {} THEN {} ELSE FreeArgs

\* Where the arguments of a thread's call can go: over those it has already,
\* or in a free element.
Places(t) == IF Own(t) # {} THEN Own(t) ELSE FreeArgs

\* A call is entered: its arguments are kept if there is room.
Enter(t) ==
    /\ call[t].at = "none" /\ calls < MaxCalls /\ calls' = calls + 1
    /\ \E dir \in Directions, obj \in CallObjects :
         LET asked == Probes.looks # "enter" \/ dir \in enabled
         IN /\ call' = [call EXCEPT ![t] = [NotCalling EXCEPT !.at = "called", !.dir = dir,
                           !.obj = obj, !.kept = asked /\ Own(t) \cup FreeArgs # {}]]
            /\ IF asked /\ Places(t) # {}
               THEN \E s \in Places(t) :
                      /\ args' = [args EXCEPT ![s] = [thread |-> t, obj |-> obj]]
                      /\ recycled' = (recycled \/ \E u \in CallThreads : call[u].slot = s)
               ELSE UNCHANGED <<args, recycled>>
    /\ UNCHANGED <<kind, enabled, counted, made>>

\* The handler of the return is done with the call.
Done(t) ==
    /\ call' = [call EXCEPT ![t] = NotCalling]
    /\ made' = IF call[t].did /\ call[t].kept /\ Counts(call[t].dir)
               THEN [made EXCEPT ![<<t, call[t].obj, call[t].dir>>] = @ + 1] ELSE made

\* The call returns, having done something or not, and the handler finds the
\* arguments; those of a call that did nothing may not even be looked for.
Return(t) ==
    /\ call[t].at = "called"
    /\ \E did \in BOOLEAN :
         LET ignored == ~did /\ Probes.keeps
         IN call' = [call EXCEPT ![t] =
              IF ignored \/ Own(t) = {} THEN [@ EXCEPT !.at = "done", !.did = did]
              ELSE [@ EXCEPT !.at = "found", !.did = did, !.slot = CHOOSE s \in Own(t) : TRUE]]
    /\ UNCHANGED <<kind, enabled, args, counted, made, calls, recycled>>

\* The arguments are deleted; their element stays as it is until it is used
\* for others.
Deleted(s) == args' = [args EXCEPT ![s].thread = NoThread]

DeleteFirst(t) ==
    /\ call[t].at = "found" /\ Probes.deletesFirst
    /\ Deleted(call[t].slot) /\ call' = [call EXCEPT ![t].at = "using"]
    /\ UNCHANGED <<kind, enabled, counted, made, calls, recycled>>

\* A call that did something in a direction to count is counted; for a program
\* that looked when the call was entered, having arguments says it is.
Count(t) ==
    LET c == call[t] IN
    counted' = IF c.did /\ (Probes.looks = "enter" \/ Counts(c.dir))
               THEN [counted EXCEPT ![<<t, args[c.slot].obj, c.dir>>] = @ + 1] ELSE counted

Use(t) ==
    /\ call[t].at = "using" /\ Count(t) /\ Done(t)
    /\ UNCHANGED <<kind, enabled, args, calls, recycled>>

UseAndDelete(t) ==
    /\ call[t].at = "found" /\ ~Probes.deletesFirst
    /\ Count(t) /\ Deleted(call[t].slot) /\ Done(t)
    /\ UNCHANGED <<kind, enabled, calls, recycled>>

\* There was nothing to find or to look for.
NotCounted(t) ==
    /\ call[t].at = "done" /\ Done(t)
    /\ UNCHANGED <<kind, enabled, args, counted, calls, recycled>>

ProbesNext == \E t \in CallThreads :
    Enter(t) \/ Return(t) \/ DeleteFirst(t) \/ Use(t) \/ UseAndDelete(t) \/ NotCounted(t)

ProbesSpec == ProbesInit /\ [][ProbesNext]_probes_vars
-----------------------------------------------------------------------------
(* Properties. *)

\* A call that did something, in a direction to count, and for which there was
\* room, is counted once and on the object it was made on, and no other is.
\* Two things can break it, and nothing else: an element used again while in
\* use, and arguments that a failed call left behind and that a call of the
\* other direction, which is not to be counted, finds on its return.
CallsAttributed ==
    ~recycled /\ (Probes.looks # "enter" \/ enabled = Directions) => counted = made

\* Arguments are left behind only by the programs that ignore a call that did
\* nothing.
ArgsFreed == Probes.keeps \/ \A s \in ArgSlots :
    args[s].thread # NoThread => call[args[s].thread].at \in {"called", "found"}

ProbesTypeOK ==
    /\ kind \in ProbeKinds /\ enabled \subseteq Directions /\ calls \in 0..MaxCalls
    /\ \A s \in ArgSlots : args[s].thread \in CallThreads \cup {NoThread}
    /\ \A t \in CallThreads : Cardinality(Own(t)) <= 1
=============================================================================
