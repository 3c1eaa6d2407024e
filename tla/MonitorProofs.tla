---------------------------- MODULE MonitorProofs ----------------------------
(***************************************************************************)
(* For any number of sessions: the monitors that run a program have one      *)
(* reader at a time, none of them says it is running without one, and the    *)
(* rows come to the file in order and once while no reader outlives it; the  *)
(* HCCS monitor leaves no program behind; a thread of the RDMA monitor that  *)
(* outlived its join has an event that is set or that the next stop will     *)
(* set.  For any number of runs and threads of these, one monitor of each    *)
(* kind is made and one program started.                                    *)
(***************************************************************************)
EXTENDS MCMonitors, TLAPS

(* The socket, cache and scheduling monitors: the handles at each point of    *)
(* a call.                                                                   *)
Controls == {"idle", "starting", "reading", "waiting", "joining", "clearing"}
ReaderPlaces == Dead \cup {"test", "read", "convert", "append", "notify", "notified", "leaving"}

HandlesTyped ==
    /\ control \in Controls /\ subscribed \in BOOLEAN /\ running \in BOOLEAN
    /\ proc \in Procs \cup {0} /\ reader \in Readers \cup {0}
    /\ rpc \in [Readers -> ReaderPlaces] /\ outlived \subseteq Readers

\* There is a reader only with a program, neither while nobody is subscribed,
\* and none while it is being started or once it has been joined.
HandlesPaired ==
    /\ control = "idle" /\ proc = 0 => reader = 0
    /\ control = "idle" /\ ~subscribed => proc = 0
    /\ control = "starting" => proc = 0 /\ subscribed
    /\ control = "reading" => proc # 0 /\ subscribed
    /\ control \in {"starting", "reading", "clearing"} => reader = 0
    /\ control = "joining" => reader # 0

\* The reader the monitor holds was started, and put the flag down if it left.
ReaderLeft == reader # 0 => rpc[reader] # "unborn" /\ (rpc[reader] = "done" => ~running)

OneHeld == \A r \in Readers \ outlived : Live(r) => reader = r

ProgramInv == HandlesTyped /\ HandlesPaired /\ ReaderLeft /\ OneHeld

LEMMA ProgramInitEstablishes == ASSUME MonitorInit PROVE ProgramInv
BY DEF MonitorInit, ProgramInv, HandlesTyped, Controls, ReaderPlaces, Dead, HandlesPaired,
       ReaderLeft, OneHeld, Live

\* A subscription puts the flag up only where there is no reader.
LEMMA StartingKeeps ==
    ASSUME ProgramInv, RegisterSubscriber \/ StartSniffer PROVE ProgramInv'
<1>. USE DEF ProgramInv, RegisterSubscriber, StartSniffer, Call, procVars, threadVars
<1>1. HandlesTyped' /\ OneHeld'
  BY DEF HandlesTyped, Controls, OneHeld, Live
<1>2. HandlesPaired' /\ ReaderLeft'
  BY DEF HandlesTyped, HandlesPaired, ReaderLeft, Ongoing, Procs
<1>. QED  BY <1>1, <1>2

\* A reader is started only where there is none, so that no other lives that
\* was not given up on.
LEMMA StartReaderKeeps == ASSUME ProgramInv, StartReaderThread PROVE ProgramInv'
<1>. USE DEF ProgramInv, StartReaderThread, Call, procVars
<1>1. reader = 0
  BY DEF HandlesPaired
<1>2. PICK r \in Readers : IsFirst(rpc, r) /\ reader' = r /\ rpc' = [rpc EXCEPT ![r] = "test"]
  BY <1>1
<1>3. HandlesTyped'
  BY <1>2 DEF HandlesTyped, Controls, ReaderPlaces
<1>4. HandlesPaired' /\ ReaderLeft'
  BY <1>2 DEF HandlesTyped, HandlesPaired, ReaderLeft
<1>5. OneHeld'
  BY <1>1, <1>2 DEF HandlesTyped, OneHeld, Live, Readers
<1>. QED  BY <1>3, <1>4, <1>5

\* A stop gives up on a reader before it lets go of it.
LEMMA StoppingKeeps ==
    ASSUME ProgramInv, UnregisterSubscriber \/ StopStep PROVE ProgramInv'
<1>. USE DEF ProgramInv, UnregisterSubscriber, StopStep, WaitForProgram, JoinReader, ClearSession,
             Call, procVars, threadVars
<1>1. HandlesTyped' /\ OneHeld'
  BY DEF HandlesTyped, HandlesPaired, Controls, OneHeld, Live
<1>2. HandlesPaired' /\ ReaderLeft'
  BY DEF HandlesTyped, HandlesPaired, ReaderLeft
<1>. QED  BY <1>1, <1>2

\* Who is dead stays so, and who is done has put the flag down.
LEMMA ReaderStepKeeps == ASSUME ProgramInv, NEW r \in Readers, ReaderStep(r) PROVE ProgramInv'
<1>. USE DEF ProgramInv, callVars, procVars
<1>1. /\ UNCHANGED <<control, subscribed, proc, reader, outlived>>
      /\ rpc[r] \notin Dead
      /\ \E to \in ReaderPlaces \ {"unborn"} :
            rpc' = [rpc EXCEPT ![r] = to] /\ (to = "done" => running' = FALSE)
      /\ running' \in {running, FALSE}
  BY DEF ReaderStep, TestLoop, ReadLine, ReadEnd, ConvertBuffer, Frame, AppendToDisk,
         NotifySubscribers, NextSubscriber, ReportFails, LeaveLoop, Step, Ends, Dead, ReaderPlaces
<1>2. HandlesTyped' /\ HandlesPaired'
  BY <1>1 DEF HandlesTyped, HandlesPaired
<1>3. ReaderLeft'
  BY <1>1 DEF HandlesTyped, ReaderLeft
<1>4. OneHeld'
  BY <1>1 DEF HandlesTyped, OneHeld, Live
<1>. QED  BY <1>2, <1>3, <1>4

LEMMA ProgramRestKeeps ==
    ASSUME ProgramInv, (\E p \in Procs : ProgramDies(p)) \/ UNCHANGED monitor_vars
    PROVE  ProgramInv'
BY DEF ProgramInv, HandlesTyped, HandlesPaired, ReaderLeft, OneHeld, Live, ProgramDies, monitor_vars,
       callVars, threadVars, procVars

(* The rows.  A reader reads from the program of the session that is open; a  *)
(* program that was not started has printed nothing.                         *)
Working == {"test", "read", "convert", "append", "notify", "notified"}

ReaderReads ==
    /\ \A r \in Readers : rpc[r] = "read" => rproc[r] # 0
    /\ \A r \in Readers : rpc[r] \notin Working => rproc[r] = 0
    /\ \A r \in Readers : rproc[r] # 0 => procState[rproc[r]] # "unborn"
    /\ reader # 0 => proc # 0 /\ rproc[reader] \in {0, proc}

ProgramsInTurn ==
    /\ proc # 0 => procState[proc] # "unborn" /\ \A q \in Procs : q > proc => procState[q] = "unborn"
    /\ \A p, q \in Procs : p < q /\ procState[p] = "unborn" => procState[q] = "unborn"
    /\ \A p \in Procs : procState[p] = "unborn" => printed[p] = 0

TypedInv == ProgramInv /\ MonitorTypeOK /\ ReaderReads /\ ProgramsInTurn

LEMMA TypedInit == ASSUME MonitorInit PROVE TypedInv
<1>. USE DEF MonitorInit
<1>1. ProgramInv
  BY ProgramInitEstablishes
<1>2. MonitorTypeOK
  <2>1. <<>> \in Seq(RowsUpTo(MaxLines)) /\ 0 \in 0..MaxLines
    BY MonitorAssumption
  <2>2. kind \in Kinds /\ columns \in BOOLEAN /\ bufferSize \in Nat
    OBVIOUS
  <2>. QED  BY <1>1, <2>1, <2>2 DEF MonitorTypeOK, ProgramInv, HandlesTyped, Controls, ReaderPlaces
<1>3. ReaderReads /\ ProgramsInTurn
  BY DEF ReaderReads, ProgramsInTurn, Procs, Readers
<1>. QED  BY <1>1, <1>2, <1>3 DEF TypedInv

\* The calls of the sniffer leave the rows alone, but for the buffer.
LEMMA CallsKeepTypes == ASSUME TypedInv, Calls PROVE TypedInv'
<1>. USE DEF TypedInv, Calls, StopStep, RegisterSubscriber, StartSniffer, StartReaderThread,
             UnregisterSubscriber, WaitForProgram, JoinReader, ClearSession, Call,
             procVars, dataVars, threadVars
<1>1. ProgramInv'
  BY StartingKeeps, StartReaderKeeps, StoppingKeeps
<1>2. MonitorTypeOK'
  <2>1. HandlesTyped'
    BY <1>1 DEF ProgramInv
  <2>2. procState' \in [Procs -> {"unborn", "alive", "terminated", "dead"}]
    BY DEF MonitorTypeOK
  <2>3. UNCHANGED <<kind, columns, printed, rproc, bufferSize, batch, disk>>
    OBVIOUS
  <2>4. buffer' \in {buffer, <<>>} /\ <<>> \in Seq(RowsUpTo(MaxLines))
    OBVIOUS
  <2>. QED  BY <2>1, <2>2, <2>3, <2>4 DEF MonitorTypeOK, HandlesTyped, Controls, ReaderPlaces
<1>3. ReaderReads'
  <2>1. \A p \in Procs : procState[p] # "unborn" => procState'[p] # "unborn"
    BY DEF MonitorTypeOK
  <2>2. \A r \in Readers : rproc[r] # 0 => procState'[rproc[r]] # "unborn"
    BY <2>1 DEF MonitorTypeOK, ReaderReads
  <2>3. rproc' = rproc
    OBVIOUS
  <2>4. (\A r \in Readers : /\ rpc[r] = "read" => rproc[r] # 0
                            /\ rpc[r] \notin Working => rproc[r] = 0)'
    BY <2>3 DEF MonitorTypeOK, ReaderReads, Working, IsFirst, Unborn
  <2>5. (reader # 0 => proc # 0 /\ rproc[reader] \in {0, proc})'
    BY <2>3 DEF MonitorTypeOK, ReaderReads, Working, ProgramInv, HandlesPaired, IsFirst, Unborn
  <2>. QED  BY <2>2, <2>3, <2>4, <2>5 DEF ReaderReads
<1>4. ProgramsInTurn'
  <2>1. CASE UNCHANGED <<proc, procState>>
    BY <2>1 DEF ProgramsInTurn
  <2>2. CASE StartSniffer
    <3>1. proc = 0
      BY <2>2 DEF ProgramInv, HandlesPaired
    <3>2. CASE UNCHANGED procVars
      BY <2>2, <3>2 DEF ProgramsInTurn
    <3>3. ASSUME NEW p \in Procs, IsFirst(procState, p), proc' = p,
                 procState' = [procState EXCEPT ![p] = "alive"]
          PROVE  ProgramsInTurn'
      <4>1. procState[p] = "unborn" /\ \A q \in Procs : procState[q] = "unborn" => p <= q
        BY <3>3 DEF IsFirst, Unborn, MonitorTypeOK
      <4>2. procState'[p] = "alive" /\ \A q \in Procs \ {p} : procState'[q] = procState[q]
        BY <3>3 DEF MonitorTypeOK
      <4>3. printed' = printed
        BY <2>2
      <4>. HIDE DEF StartSniffer
      <4>. QED  BY <3>3, <4>1, <4>2, <4>3 DEF ProgramsInTurn, Procs
    <3>. QED  BY <2>2, <3>1, <3>2, <3>3 DEF Ongoing
  <2>3. CASE UnregisterSubscriber
    BY <2>3 DEF MonitorTypeOK, ProgramsInTurn, Ongoing, Procs
  <2>4. CASE ClearSession
    BY <2>4 DEF ProgramsInTurn
  <2>. QED  BY <2>1, <2>2, <2>3, <2>4
<1>. QED  BY <1>1, <1>2, <1>3, <1>4

LEMMA FrameTyped ==
    ASSUME kind \in Kinds, buffer \in Seq(RowsUpTo(MaxLines))
    PROVE  DataFrameOf(buffer) \in Seq(RowsUpTo(MaxLines))
<1>. DEFINE S == RowsUpTo(MaxLines)
<1>1. buffer # <<>> => Tail(buffer) \in Seq(S)
  OBVIOUS
<1>. HIDE DEF S
<1>. QED  BY <1>1 DEF DataFrameOf, SocketFrame, CacheFrame, SchedFrame, Kinds, S

\* A line that is read comes from a program that was started.
LEMMA ReadersKeepTypes == ASSUME TypedInv, NEW r \in Readers, ReaderStep(r) PROVE TypedInv'
<1>. USE DEF TypedInv
<1>1. ProgramInv'
  BY ReaderStepKeeps
<1>2. UNCHANGED <<kind, control, subscribed, procState, proc, reader, outlived>>
  BY DEF ReaderStep, TestLoop, ReadLine, ReadEnd, ConvertBuffer, Frame, AppendToDisk,
         NotifySubscribers, NextSubscriber, ReportFails, LeaveLoop, callVars, procVars, dataVars
<1>3. PICK to \in ReaderPlaces :
        /\ rpc' = [rpc EXCEPT ![r] = to]
        /\ \/ to = "read" /\ proc # 0 /\ procState[proc] # "unborn" /\ rproc' = [rproc EXCEPT ![r] = proc]
           \/ to # "read" /\ rproc' = [rproc EXCEPT ![r] = 0]
           \/ to \in Working \ {"read"} /\ rproc' = rproc
           \/ to = "done" /\ rproc' = rproc /\ rpc[r] = "leaving"
  BY DEF ReaderStep, TestLoop, ReadLine, ReadEnd, ConvertBuffer, Frame, AppendToDisk,
         NotifySubscribers, NextSubscriber, ReportFails, LeaveLoop, Step, Ends, Dead, ReaderPlaces,
         Working, MonitorTypeOK, ProgramsInTurn, Ongoing
<1>4. ReaderReads'
  BY <1>2, <1>3 DEF MonitorTypeOK, ReaderReads, Working
<1>5. ReadLine(r) \/ printed' = printed
  BY DEF ReaderStep, TestLoop, ReadEnd, ConvertBuffer, Frame, AppendToDisk,
         NotifySubscribers, NextSubscriber, ReportFails, LeaveLoop, dataVars
<1>6. ReadLine(r) => /\ rproc[r] \in Procs /\ printed[rproc[r]] + 1 \in 0..MaxLines
                     /\ procState[rproc[r]] # "unborn"
                     /\ printed' = [printed EXCEPT ![rproc[r]] = printed[rproc[r]] + 1]
  BY MonitorAssumption DEF ReadLine, MonitorTypeOK, ReaderReads
<1>7. ProgramsInTurn' /\ printed' \in [Procs -> 0..MaxLines]
  <2>1. CASE printed' = printed
    BY <1>2, <2>1 DEF MonitorTypeOK, ProgramsInTurn
  <2>2. CASE ReadLine(r)
    <3>1. printed' \in [Procs -> 0..MaxLines]
      BY <1>6, <2>2 DEF MonitorTypeOK
    <3>2. \A p \in Procs : procState[p] = "unborn" => printed'[p] = printed[p]
      BY <1>6, <2>2 DEF MonitorTypeOK
    <3>. QED  BY <1>2, <3>1, <3>2 DEF ProgramsInTurn
  <2>. QED  BY <1>5, <2>1, <2>2
<1>8. buffer' \in Seq(RowsUpTo(MaxLines)) /\ bufferSize' \in Nat
  <2>1. CASE ReadLine(r)
    <3>1. <<rproc[r], printed[rproc[r]] + 1>> \in RowsUpTo(MaxLines)
      BY <1>6, <2>1 DEF RowsUpTo
    <3>. DEFINE S == RowsUpTo(MaxLines)
                row == <<rproc[r], printed[rproc[r]] + 1>>
    <3>2. buffer' \in {buffer, Append(buffer, row)} /\ bufferSize' \in {bufferSize, bufferSize + 1}
      BY <2>1 DEF ReadLine
    <3>3. row \in S /\ buffer \in Seq(S) /\ bufferSize \in Nat
      BY <3>1 DEF MonitorTypeOK
    <3>. HIDE DEF S, row
    <3>4. buffer' \in Seq(S) /\ bufferSize' \in Nat
      BY <3>2, <3>3
    <3>. QED  BY <3>4 DEF S
  <2>2. CASE ~ReadLine(r)
    <3>1. (buffer' = buffer /\ bufferSize' = bufferSize) \/ (buffer' = <<>> /\ bufferSize' = 0)
      BY <2>2 DEF ReaderStep, TestLoop, ReadEnd, ConvertBuffer, AppendToDisk,
         NotifySubscribers, NextSubscriber, ReportFails, LeaveLoop, dataVars
    <3>. DEFINE S == RowsUpTo(MaxLines)
    <3>2. buffer \in Seq(S) /\ bufferSize \in Nat
      BY DEF MonitorTypeOK
    <3>. HIDE DEF S
    <3>3. <<>> \in Seq(S) /\ 0 \in Nat
      OBVIOUS
    <3>4. buffer' \in Seq(S) /\ bufferSize' \in Nat
      BY <3>1, <3>2, <3>3, Zenon
    <3>. QED  BY <3>4 DEF S
  <2>. QED  BY <2>1, <2>2
<1>9. batch' \in [Readers -> Seq(RowsUpTo(MaxLines))]
  <2>1. CASE ConvertBuffer(r)
    BY <2>1, FrameTyped DEF ConvertBuffer, Frame, MonitorTypeOK
  <2>2. CASE ~ConvertBuffer(r)
    <3>1. batch' = batch \/ batch' = [batch EXCEPT ![r] = <<>>]
      BY <2>2 DEF ReaderStep, TestLoop, ReadLine, ReadEnd, AppendToDisk, Ends,
         NotifySubscribers, NextSubscriber, ReportFails, LeaveLoop
    <3>2. <<>> \in Seq(RowsUpTo(MaxLines)) /\ batch \in [Readers -> Seq(RowsUpTo(MaxLines))]
      BY DEF MonitorTypeOK
    <3>. QED  BY <3>1, <3>2
  <2>. QED  BY <2>1, <2>2
<1>10. disk' \in Seq(RowsUpTo(MaxLines)) /\ columns' \in BOOLEAN
  <2>1. disk' \in {disk, disk \o batch[r]}
    BY DEF ReaderStep, TestLoop, ReadLine, ReadEnd, ConvertBuffer, Frame, AppendToDisk,
       NotifySubscribers, NextSubscriber, ReportFails, LeaveLoop, dataVars
  <2>2. columns' = columns \/ columns' = (columns \/ (kind = "socket" /\ buffer # <<>>))
    BY DEF ReaderStep, TestLoop, ReadLine, ReadEnd, ConvertBuffer, Frame, AppendToDisk,
       NotifySubscribers, NextSubscriber, ReportFails, LeaveLoop, dataVars
  <2>3. disk \o batch[r] \in Seq(RowsUpTo(MaxLines))
    BY DEF MonitorTypeOK
  <2>. QED  BY <2>1, <2>2, <2>3 DEF MonitorTypeOK
<1>11. rproc' \in [Readers -> Procs \cup {0}]
  BY <1>3 DEF MonitorTypeOK
<1>12. MonitorTypeOK'
  BY <1>1, <1>2, <1>7, <1>8, <1>9, <1>10, <1>11
     DEF MonitorTypeOK, ProgramInv, HandlesTyped, Controls, ReaderPlaces
<1>. QED  BY <1>1, <1>4, <1>7, <1>12

LEMMA RestKeepsTypes ==
    ASSUME TypedInv, (\E p \in Procs : ProgramDies(p)) \/ UNCHANGED monitor_vars
    PROVE  TypedInv'
<1>. USE DEF TypedInv, ProgramDies, monitor_vars, callVars, procVars, dataVars, threadVars
<1>1. ProgramInv'
  BY ProgramRestKeeps
<1>2. MonitorTypeOK'
  BY DEF MonitorTypeOK
<1>3. \A p \in Procs : procState'[p] = "unborn" <=> procState[p] = "unborn"
  BY DEF MonitorTypeOK
<1>4. /\ UNCHANGED <<kind, control, subscribed, proc, printed, columns, buffer, bufferSize, disk>>
      /\ UNCHANGED <<reader, rpc, rproc, batch, outlived>>
  OBVIOUS
<1>5. ProgramsInTurn'
  BY <1>3, <1>4 DEF ProgramsInTurn, MonitorTypeOK
<1>6. ReaderReads'
  BY <1>3, <1>4 DEF ReaderReads, MonitorTypeOK
<1>. QED  BY <1>1, <1>2, <1>5, <1>6

(* Sequences of rows in the order of their printing.                         *)
AllBefore(s, t) == \A a \in Items(s), b \in Items(t) : Before(a, b)

LEMMA EmptyInOrder == InOrder(<<>>) /\ Items(<<>>) = {}
BY DEF InOrder, Items

LEMMA ItemsTyped == ASSUME NEW S, NEW s \in Seq(S) PROVE Items(s) \subseteq S
BY DEF Items

LEMMA AppendInOrder ==
    ASSUME NEW S, NEW s \in Seq(S), NEW a \in S, InOrder(s), \A b \in Items(s) : Before(b, a)
    PROVE  InOrder(Append(s, a)) /\ Items(Append(s, a)) = Items(s) \cup {a}
<1>1. /\ DOMAIN s = 1..Len(s) /\ Len(s) \in Nat
      /\ DOMAIN Append(s, a) = 1..(Len(s) + 1)
      /\ \A i \in 1..Len(s) : Append(s, a)[i] = s[i]
      /\ Append(s, a)[Len(s) + 1] = a
  OBVIOUS
<1>2. InOrder(Append(s, a))
  <2>. SUFFICES ASSUME NEW i \in 1..(Len(s) + 1), NEW j \in 1..(Len(s) + 1), i < j
                PROVE  Before(Append(s, a)[i], Append(s, a)[j])
    BY <1>1 DEF InOrder
  <2>1. i \in 1..Len(s) /\ Append(s, a)[i] = s[i] /\ s[i] \in Items(s)
    BY <1>1 DEF Items
  <2>2. CASE j = Len(s) + 1
    BY <1>1, <2>1, <2>2
  <2>3. CASE j \in 1..Len(s)
    BY <1>1, <2>1, <2>3 DEF InOrder
  <2>. QED  BY <1>1, <2>2, <2>3
<1>3. Items(Append(s, a)) = Items(s) \cup {a}
  <2>1. \A i \in 1..(Len(s) + 1) : i \in 1..Len(s) \/ i = Len(s) + 1
    BY <1>1
  <2>2. \A i \in 1..Len(s) : i \in 1..(Len(s) + 1)
    BY <1>1
  <2>3. Len(s) + 1 \in 1..(Len(s) + 1)
    BY <1>1
  <2>. QED  BY <1>1, <2>1, <2>2, <2>3, Zenon DEF Items
<1>. QED  BY <1>2, <1>3

LEMMA ConcatInOrder ==
    ASSUME NEW S, NEW s \in Seq(S), NEW t \in Seq(S), InOrder(s), InOrder(t), AllBefore(s, t)
    PROVE  InOrder(s \o t) /\ Items(s \o t) = Items(s) \cup Items(t)
<1>. DEFINE m == Len(s)
            n == Len(t)
            c == s \o t
<1>1. /\ DOMAIN s = 1..m /\ DOMAIN t = 1..n /\ DOMAIN c = 1..(m + n)
      /\ m \in Nat /\ n \in Nat
      /\ \A i \in 1..m : c[i] = s[i]
      /\ \A i \in 1..n : c[m + i] = t[i]
  OBVIOUS
<1>. HIDE DEF m, n, c
<1>2. \A i \in 1..(m + n) : i \in 1..m \/ (i - m \in 1..n /\ i = m + (i - m))
  BY <1>1
<1>3. (\A i \in 1..m : i \in 1..(m + n)) /\ (\A i \in 1..n : m + i \in 1..(m + n))
  BY <1>1
<1>4. InOrder(c)
  <2>. SUFFICES ASSUME NEW i \in 1..(m + n), NEW j \in 1..(m + n), i < j
                PROVE  Before(c[i], c[j])
    BY <1>1 DEF InOrder
  <2>1. CASE i \in 1..m /\ j \in 1..m
    BY <1>1, <2>1 DEF InOrder
  <2>2. CASE i \in 1..m /\ j - m \in 1..n
    <3>1. c[i] \in Items(s) /\ c[j] \in Items(t)
      BY <1>1, <1>2, <2>2 DEF Items
    <3>. QED  BY <3>1 DEF AllBefore
  <2>3. CASE i - m \in 1..n /\ j - m \in 1..n
    <3>1. c[i] = t[i - m] /\ c[j] = t[j - m] /\ i - m < j - m
      BY <1>1, <1>2, <2>3
    <3>. QED  BY <1>1, <2>3, <3>1 DEF InOrder
  <2>. QED  BY <1>1, <1>2, <2>1, <2>2, <2>3
<1>5. Items(c) \subseteq Items(s) \cup Items(t)
  <2>. SUFFICES ASSUME NEW i \in 1..(m + n) PROVE c[i] \in Items(s) \cup Items(t)
    BY <1>1 DEF Items
  <2>1. CASE i \in 1..m
    BY <1>1, <2>1 DEF Items
  <2>2. CASE i - m \in 1..n /\ i = m + (i - m)
    <3>1. c[i] = t[i - m]
      BY <1>1, <2>2
    <3>. QED  BY <1>1, <2>2, <3>1 DEF Items
  <2>. QED  BY <1>2, <2>1, <2>2
<1>6. Items(s) \cup Items(t) \subseteq Items(c)
  BY <1>1, <1>3, Zenon DEF Items
<1>. QED  BY <1>4, <1>5, <1>6 DEF c

LEMMA TailInOrder ==
    ASSUME NEW S, NEW s \in Seq(S), s # <<>>, InOrder(s)
    PROVE  /\ InOrder(Tail(s)) /\ Items(s) = {Head(s)} \cup Items(Tail(s))
           /\ \A a \in Items(Tail(s)) : Before(Head(s), a)
<1>. DEFINE n == Len(s) - 1
<1>1. /\ DOMAIN s = 1..(n + 1) /\ n \in Nat /\ DOMAIN Tail(s) = 1..n
      /\ \A i \in 1..n : Tail(s)[i] = s[i + 1]
      /\ Head(s) = s[1]
  OBVIOUS
<1>. HIDE DEF n
<1>2. (\A i \in 1..(n + 1) : i = 1 \/ (i - 1 \in 1..n /\ i = (i - 1) + 1))
      /\ (\A i \in 1..n : i + 1 \in 1..(n + 1) /\ 1 < i + 1) /\ 1 \in 1..(n + 1)
  BY <1>1
<1>3. InOrder(Tail(s))
  BY <1>1, <1>2 DEF InOrder
<1>4. \A a \in Items(Tail(s)) : Before(Head(s), a)
  BY <1>1, <1>2 DEF InOrder, Items
<1>5. Items(s) \subseteq {Head(s)} \cup Items(Tail(s))
  <2>. SUFFICES ASSUME NEW i \in 1..(n + 1), i # 1 PROVE s[i] \in Items(Tail(s))
    BY <1>1, Zenon DEF Items
  <2>1. i - 1 \in 1..n /\ s[i] = Tail(s)[i - 1]
    BY <1>1, <1>2
  <2>. QED  BY <1>1, <2>1, Zenon DEF Items
<1>6. Head(s) \in Items(s) /\ \A i \in 1..n : Tail(s)[i] \in Items(s)
  BY <1>1, <1>2 DEF Items
<1>7. Items(Tail(s)) \subseteq Items(s)
  BY <1>1, <1>6, Zenon DEF Items
<1>. QED  BY <1>3, <1>4, <1>5, <1>6, <1>7

(* Where the rows are, while no reader has outlived its stop: on disk, in the *)
(* frame being reported, in the buffer, in this order; printed by the        *)
(* program they name; and none of the open session missing.                  *)
Pending == IF reader # 0 /\ rpc[reader] = "append" THEN batch[reader] ELSE <<>>

Flows(d, p, b) ==
    /\ InOrder(d) /\ InOrder(p) /\ InOrder(b)
    /\ AllBefore(d, p) /\ AllBefore(d, b) /\ AllBefore(p, b)

RowsOrdered == Flows(disk, Pending, buffer)

RowsPrinted ==
    /\ \A a \in Items(disk) \cup Items(Pending) \cup Items(buffer) : a[2] \in 1..printed[a[1]]
    /\ \A a \in Items(buffer) : a[1] = proc
    /\ control = "reading" => printed[proc] = 0

RowsAllThere ==
    reader # 0 /\ rpc[reader] \in Working =>
        /\ \A k \in 2..printed[proc] :
              <<proc, k>> \in Items(disk) \cup Items(Pending) \cup Items(buffer)
        /\ kind = "socket" /\ ~columns => \A k \in 1..printed[proc] : <<proc, k>> \in Items(buffer)

RowsInv == RowsOrdered /\ RowsPrinted /\ RowsAllThere
FlowInv == TypedInv /\ (outlived = {} => RowsInv)

LEMMA FlowInit == ASSUME MonitorInit PROVE FlowInv
<1>1. disk = <<>> /\ buffer = <<>> /\ Pending = <<>> /\ reader = 0 /\ control = "idle"
  BY DEF MonitorInit, Pending
<1>2. RowsInv
  BY <1>1, EmptyInOrder DEF RowsInv, RowsOrdered, Flows, AllBefore, RowsPrinted, RowsAllThere
<1>. QED  BY TypedInit, <1>2 DEF FlowInv

\* Rows may be dropped from the frame or the buffer.
LEMMA LessFlows ==
    ASSUME NEW d, NEW p, NEW b, NEW q, NEW c, Flows(d, p, b), q \in {p, <<>>}, c \in {b, <<>>}
    PROVE  /\ Flows(d, q, c)
           /\ Items(q) \subseteq Items(p) /\ Items(c) \subseteq Items(b)
BY EmptyInOrder DEF Flows, AllBefore

\* A call starts a reader on a program that has printed nothing, or leaves the
\* reader alone, or lets go of it.
LEMMA CallsKeepFlow == ASSUME FlowInv, Calls PROVE FlowInv'
<1>. SUFFICES ASSUME outlived' = {} PROVE RowsInv'
  BY CallsKeepTypes DEF FlowInv
<1>1. outlived = {} /\ RowsInv /\ TypedInv /\ TypedInv'
  <2>1. outlived \subseteq outlived'
    BY DEF Calls, StopStep, RegisterSubscriber, StartSniffer, StartReaderThread, UnregisterSubscriber,
           WaitForProgram, JoinReader, ClearSession, procVars, dataVars, threadVars
  <2>. QED  BY <2>1, CallsKeepTypes DEF FlowInv
<1>2. UNCHANGED <<kind, disk, printed, columns, batch>>
  BY DEF Calls, StopStep, RegisterSubscriber, StartSniffer, StartReaderThread, UnregisterSubscriber,
         WaitForProgram, JoinReader, ClearSession, procVars, dataVars, threadVars
<1>3. \/ reader' = reader /\ rpc' = rpc /\ buffer' = buffer /\ proc' = proc /\ control' # "reading"
      \/ reader' = 0 /\ buffer' = buffer /\ proc' = proc /\ control' # "reading"
      \/ reader' = 0 /\ buffer' = <<>> /\ control' # "reading"
      \/ /\ control = "reading" /\ reader' \in Readers /\ rpc'[reader'] = "test" /\ buffer' = buffer
         /\ proc' = proc /\ control' # "reading"
      \/ /\ proc = 0 /\ reader' = 0 /\ proc' \in Procs /\ procState[proc'] = "unborn"
         /\ buffer' = buffer
  BY <1>1
     DEF TypedInv, ProgramInv, HandlesTyped, HandlesPaired, Calls, StopStep, RegisterSubscriber,
         StartSniffer, StartReaderThread, UnregisterSubscriber, WaitForProgram, JoinReader,
         ClearSession, procVars, dataVars, threadVars, Call, IsFirst, Unborn, Ongoing
<1>4. /\ Pending' \in {Pending, <<>>} /\ buffer' \in {buffer, <<>>}
      /\ reader' # reader => Pending' = <<>>
  BY <1>2, <1>3 DEF Pending
<1>5. Flows(disk, Pending', buffer') /\ Items(Pending') \subseteq Items(Pending)
        /\ Items(buffer') \subseteq Items(buffer)
  BY <1>1, <1>4, LessFlows DEF RowsInv, RowsOrdered
<1>6. RowsOrdered'
  BY <1>2, <1>5 DEF RowsOrdered
<1>7. RowsPrinted'
  <2>1. \A a \in Items(disk) \cup Items(Pending') \cup Items(buffer') : a[2] \in 1..printed[a[1]]
    BY <1>1, <1>5 DEF RowsInv, RowsPrinted
  <2>2. Items(buffer) # {} => proc # 0
    <3>1. Items(buffer) \subseteq RowsUpTo(MaxLines)
      BY <1>1, ItemsTyped DEF TypedInv, MonitorTypeOK
    <3>. QED  BY <1>1, <3>1 DEF RowsInv, RowsPrinted, RowsUpTo, Procs
  <2>3. \A a \in Items(buffer') : a[1] = proc'
    BY <1>1, <1>3, <1>5, <2>2, EmptyInOrder DEF RowsInv, RowsPrinted
  <2>4. control' = "reading" => printed[proc'] = 0
    BY <1>1, <1>3 DEF TypedInv, ProgramsInTurn
  <2>. QED  BY <1>2, <2>1, <2>3, <2>4 DEF RowsPrinted
<1>8. RowsAllThere'
  <2>1. CASE reader' = reader /\ rpc' = rpc /\ buffer' = buffer /\ proc' = proc
    BY <1>1, <1>2, <2>1 DEF RowsInv, RowsAllThere, Pending
  <2>2. CASE reader' = 0
    BY <2>2 DEF RowsAllThere
  <2>3. CASE control = "reading" /\ proc' = proc
    <3>1. printed'[proc'] = 0
      BY <1>1, <1>2, <2>3 DEF RowsInv, RowsPrinted
    <3>. QED  BY <3>1 DEF RowsAllThere
  <2>. QED  BY <1>3, <2>1, <2>2, <2>3
<1>. QED  BY <1>6, <1>7, <1>8 DEF RowsInv

LEMMA ReaderIsHeld ==
    ASSUME TypedInv, outlived = {}, NEW r \in Readers, ReaderStep(r)
    PROVE  /\ r = reader /\ reader # 0 /\ reader' = reader /\ proc # 0
           /\ UNCHANGED <<kind, control, proc, outlived>>
<1>1. rpc[r] \notin Dead
  BY DEF ReaderStep, TestLoop, ReadLine, ReadEnd, ConvertBuffer, Frame, AppendToDisk,
         NotifySubscribers, NextSubscriber, ReportFails, LeaveLoop, Step, Ends, Dead
<1>2. UNCHANGED <<kind, control, proc, reader, outlived>>
  BY DEF ReaderStep, TestLoop, ReadLine, ReadEnd, ConvertBuffer, Frame, AppendToDisk,
         NotifySubscribers, NextSubscriber, ReportFails, LeaveLoop, callVars, procVars
<1>3. r = reader /\ reader # 0
  BY <1>1 DEF TypedInv, ProgramInv, OneHeld, Live, Readers
<1>. QED  BY <1>2, <1>3 DEF TypedInv, ReaderReads

\* A line that is read comes after all the rows there are.
LEMMA ReadLineKeepsFlow ==
    ASSUME TypedInv, RowsInv, outlived = {}, NEW r \in Readers, ReadLine(r) PROVE RowsInv'
<1>. DEFINE k == printed[proc] + 1
<1>1. /\ r = reader /\ reader # 0 /\ reader' = reader /\ proc # 0
      /\ UNCHANGED <<kind, control, proc>>
  BY ReaderIsHeld DEF ReaderStep
<1>2. rproc[r] = proc /\ rpc[r] = "read" /\ proc \in Procs /\ printed[proc] \in Nat
  BY <1>1 DEF ReadLine, TypedInv, ReaderReads, MonitorTypeOK
<1>3. /\ printed' = [printed EXCEPT ![proc] = k] /\ UNCHANGED <<columns, disk, batch>>
      /\ \/ ~IsRow(k) /\ buffer' = buffer
         \/ IsRow(k) /\ buffer' = Append(buffer, <<proc, k>>)
      /\ rpc' = [rpc EXCEPT ![r] = "test"] \/ rpc' = [rpc EXCEPT ![r] = "convert"]
  BY <1>2 DEF ReadLine, Step
<1>4. Pending = <<>> /\ Pending' = <<>>
  BY <1>1, <1>2, <1>3 DEF Pending, TypedInv, MonitorTypeOK
<1>5. \A p \in Procs : printed'[p] = printed[p] \/ (p = proc /\ printed'[p] = k)
  BY <1>3 DEF TypedInv, MonitorTypeOK
<1>6. printed'[proc] = k
  BY <1>2, <1>3 DEF TypedInv, MonitorTypeOK
<1>7. \A a \in Items(disk) \cup Items(buffer) :
          a \in RowsUpTo(MaxLines) /\ a[2] \in 1..printed[a[1]]
  BY ItemsTyped DEF TypedInv, MonitorTypeOK, RowsInv, RowsPrinted
<1>8. \A a \in Items(disk) \cup Items(buffer) : Before(a, <<proc, k>>)
  <2>. SUFFICES ASSUME NEW a \in Items(disk) \cup Items(buffer) PROVE Before(a, <<proc, k>>)
    OBVIOUS
  <2>1. a[1] \in Procs /\ a[2] \in Nat /\ a[2] <= printed[a[1]] /\ printed[a[1]] # 0
    BY <1>7, MonitorAssumption DEF RowsUpTo, TypedInv, MonitorTypeOK
  <2>2. procState[a[1]] # "unborn"
    BY <2>1 DEF TypedInv, ProgramsInTurn
  <2>3. a[1] <= proc
    BY <1>1, <1>2, <2>1, <2>2 DEF TypedInv, ProgramsInTurn, Procs
  <2>. QED  BY <1>2, <2>1, <2>3 DEF Before, Procs
<1>9. <<proc, k>> \in RowsUpTo(MaxLines)
  BY <1>2, MonitorAssumption DEF RowsUpTo, ReadLine
<1>10. \/ buffer' = buffer /\ ~IsRow(k)
       \/ /\ buffer' = Append(buffer, <<proc, k>>)
          /\ InOrder(buffer') /\ Items(buffer') = Items(buffer) \cup {<<proc, k>>}
  <2>1. buffer \in Seq(RowsUpTo(MaxLines)) /\ InOrder(buffer)
    BY DEF TypedInv, MonitorTypeOK, RowsInv, RowsOrdered, Flows
  <2>2. InOrder(Append(buffer, <<proc, k>>))
          /\ Items(Append(buffer, <<proc, k>>)) = Items(buffer) \cup {<<proc, k>>}
    BY <1>8, <1>9, <2>1, AppendInOrder
  <2>. QED  BY <1>3, <2>2
<1>. HIDE DEF k
<1>11. RowsOrdered'
  BY <1>3, <1>4, <1>8, <1>10, EmptyInOrder DEF RowsInv, RowsOrdered, Flows, AllBefore
<1>12. RowsPrinted'
  <2>1. \A a \in Items(disk) \cup Items(buffer) : a[2] \in 1..printed'[a[1]]
    BY <1>2, <1>5, <1>7 DEF RowsUpTo, k
  <2>2. k \in 1..printed'[proc]
    BY <1>2, <1>6 DEF k
  <2>3. control # "reading"
    BY <1>1 DEF TypedInv, ProgramInv, HandlesPaired
  <2>. QED  BY <1>1, <1>3, <1>4, <1>10, <2>1, <2>2, <2>3, EmptyInOrder DEF RowsInv, RowsPrinted
<1>13. RowsAllThere'
  <2>1. rpc[reader] \in Working
    BY <1>1, <1>2 DEF Working
  <2>2. k \in Nat /\ k # 0 /\ printed[proc] = k - 1
    BY <1>2 DEF k
  <2>3. (k # 1 \/ kind = "socket") => IsRow(k)
    BY DEF IsRow, SocketRow, CacheRow, SchedRow, TypedInv, MonitorTypeOK, Kinds
  <2>4. Items(buffer) \subseteq Items(buffer') /\ (IsRow(k) => <<proc, k>> \in Items(buffer'))
    BY <1>10
  <2>5. /\ \A j \in 2..printed[proc] : <<proc, j>> \in Items(disk) \cup Items(Pending) \cup Items(buffer)
        /\ kind = "socket" /\ ~columns => \A j \in 1..printed[proc] : <<proc, j>> \in Items(buffer)
    BY <1>1, <2>1 DEF RowsInv, RowsAllThere
  <2>6. \A j \in 2..k : <<proc, j>> \in Items(disk) \cup Items(Pending') \cup Items(buffer')
    <3>1. \A j \in 2..k : j \in 2..printed[proc] \/ (j = k /\ k # 1)
      BY <2>2
    <3>. QED  BY <1>4, <2>3, <2>4, <2>5, <3>1, EmptyInOrder
  <2>7. kind = "socket" /\ ~columns => \A j \in 1..k : <<proc, j>> \in Items(buffer')
    <3>1. \A j \in 1..k : j \in 1..printed[proc] \/ j = k
      BY <2>2
    <3>. QED  BY <2>3, <2>4, <2>5, <3>1
  <2>. QED  BY <1>1, <1>3, <1>6, <2>6, <2>7 DEF RowsAllThere
<1>. QED  BY <1>11, <1>12, <1>13 DEF RowsInv

\* The frame takes all rows of the buffer but the first one a socket monitor
\* ever sees, which is line 1 of its program.
LEMMA ConvertKeepsFlow ==
    ASSUME TypedInv, RowsInv, outlived = {}, NEW r \in Readers, ConvertBuffer(r) PROVE RowsInv'
<1>. DEFINE frame == DataFrameOf(buffer)
<1>1. /\ r = reader /\ reader # 0 /\ reader' = reader /\ proc # 0
      /\ UNCHANGED <<kind, control, proc>>
  BY ReaderIsHeld DEF ReaderStep
<1>2. /\ rpc[r] = "convert" /\ rpc' = [rpc EXCEPT ![r] = "append"]
      /\ UNCHANGED <<printed, disk>>
      /\ batch' = [batch EXCEPT ![r] = frame] /\ buffer' = <<>>
      /\ columns' = (columns \/ (kind = "socket" /\ buffer # <<>>))
  BY DEF ConvertBuffer, Frame, Step
<1>3. Pending = <<>> /\ Pending' = frame
  BY <1>1, <1>2 DEF Pending, TypedInv, MonitorTypeOK
<1>4. buffer \in Seq(RowsUpTo(MaxLines)) /\ InOrder(buffer)
  BY DEF TypedInv, MonitorTypeOK, RowsInv, RowsOrdered, Flows
<1>5. \/ frame = buffer /\ ~(kind = "socket" /\ ~columns /\ buffer # <<>>)
      \/ frame = Tail(buffer) /\ kind = "socket" /\ ~columns /\ buffer # <<>>
  BY DEF DataFrameOf, SocketFrame, CacheFrame, SchedFrame, TypedInv, MonitorTypeOK, Kinds
<1>6. /\ InOrder(frame) /\ Items(frame) \subseteq Items(buffer)
      /\ frame = buffer \/ Items(buffer) = {Head(buffer)} \cup Items(frame)
  BY <1>4, <1>5, TailInOrder
<1>7. RowsOrdered'
  BY <1>2, <1>3, <1>6, EmptyInOrder DEF RowsInv, RowsOrdered, Flows, AllBefore
<1>8. RowsPrinted'
  <2>1. control # "reading"
    BY <1>1 DEF TypedInv, ProgramInv, HandlesPaired
  <2>. QED  BY <1>1, <1>2, <1>3, <1>6, <2>1, EmptyInOrder DEF RowsInv, RowsPrinted
<1>9. RowsAllThere'
  <2>1. rpc[reader] \in Working
    BY <1>1, <1>2 DEF Working
  <2>2. /\ \A j \in 2..printed[proc] : <<proc, j>> \in Items(disk) \cup Items(Pending) \cup Items(buffer)
        /\ kind = "socket" /\ ~columns => \A j \in 1..printed[proc] : <<proc, j>> \in Items(buffer)
    BY <1>1, <2>1 DEF RowsInv, RowsAllThere
  <2>3. frame # buffer => \A j \in 2..printed[proc] : <<proc, j>> # Head(buffer)
    <3>. SUFFICES ASSUME frame # buffer, NEW j \in 2..printed[proc], <<proc, j>> = Head(buffer)
                  PROVE  FALSE
      OBVIOUS
    <3>1. 1 \in 1..printed[proc]
      BY <1>1, MonitorAssumption DEF TypedInv, MonitorTypeOK
    <3>2. <<proc, 1>> \in Items(buffer) /\ <<proc, 1>> # Head(buffer)
      BY <1>5, <2>2, <3>1
    <3>3. /\ Items(buffer) = {Head(buffer)} \cup Items(Tail(buffer))
          /\ \A a \in Items(Tail(buffer)) : Before(Head(buffer), a)
      BY <1>4, <1>5, TailInOrder
    <3>4. Before(<<proc, j>>, <<proc, 1>>)
      BY <3>2, <3>3
    <3>. QED  BY <1>1, <3>4 DEF Before, TypedInv, MonitorTypeOK, Procs
  <2>4. \A j \in 2..printed[proc] : <<proc, j>> \in Items(disk) \cup Items(frame)
    BY <1>3, <1>6, <2>2, <2>3, EmptyInOrder
  <2>5. kind = "socket" /\ ~columns' => printed[proc] = 0
    <3>. SUFFICES ASSUME kind = "socket", ~columns' PROVE printed[proc] = 0
      OBVIOUS
    <3>1. buffer = <<>> /\ ~columns
      BY <1>2
    <3>2. \A j \in 1..printed[proc] : FALSE
      BY <2>2, <3>1, EmptyInOrder
    <3>. QED  BY <1>1, <3>2 DEF TypedInv, MonitorTypeOK
  <2>. QED  BY <1>1, <1>2, <1>3, <2>4, <2>5 DEF RowsAllThere
<1>. QED  BY <1>7, <1>8, <1>9 DEF RowsInv

LEMMA AppendToDiskKeepsFlow ==
    ASSUME TypedInv, RowsInv, outlived = {}, NEW r \in Readers, AppendToDisk(r) PROVE RowsInv'
<1>1. /\ r = reader /\ reader # 0 /\ reader' = reader /\ proc # 0
      /\ UNCHANGED <<kind, control, proc>>
  BY ReaderIsHeld DEF ReaderStep
<1>2. /\ rpc[r] = "append" /\ rpc' = [rpc EXCEPT ![r] = "notify"]
      /\ UNCHANGED <<printed, buffer, columns>>
      /\ disk' = disk \o Pending
  BY <1>1 DEF AppendToDisk, Step, Pending
<1>3. Pending' = <<>>
  BY <1>1, <1>2 DEF Pending, TypedInv, MonitorTypeOK
<1>4. InOrder(disk') /\ Items(disk') = Items(disk) \cup Items(Pending)
  <2>1. disk \in Seq(RowsUpTo(MaxLines)) /\ Pending \in Seq(RowsUpTo(MaxLines))
    BY DEF TypedInv, MonitorTypeOK, Pending
  <2>. QED  BY <1>2, <2>1, ConcatInOrder DEF RowsInv, RowsOrdered, Flows
<1>5. RowsOrdered'
  BY <1>2, <1>3, <1>4, EmptyInOrder DEF RowsInv, RowsOrdered, Flows, AllBefore
<1>6. RowsPrinted'
  BY <1>1, <1>2, <1>3, <1>4, EmptyInOrder DEF RowsInv, RowsPrinted
<1>7. RowsAllThere'
  BY <1>1, <1>2, <1>3, <1>4 DEF RowsInv, RowsAllThere, Working
<1>. QED  BY <1>5, <1>6, <1>7 DEF RowsInv

\* The other steps of a reader leave the rows where they are, or end it.
LEMMA ReadersKeepFlow == ASSUME FlowInv, NEW r \in Readers, ReaderStep(r) PROVE FlowInv'
<1>. SUFFICES ASSUME outlived' = {} PROVE RowsInv'
  BY ReadersKeepTypes DEF FlowInv
<1>1. outlived = {} /\ RowsInv /\ TypedInv
  <2>1. outlived' = outlived
    BY DEF ReaderStep, TestLoop, ReadLine, ReadEnd, ConvertBuffer, Frame, AppendToDisk,
       NotifySubscribers, NextSubscriber, ReportFails, LeaveLoop
  <2>. QED  BY <2>1 DEF FlowInv
<1>2. /\ r = reader /\ reader # 0 /\ reader' = reader /\ proc # 0
      /\ UNCHANGED <<kind, control, proc>>
  BY <1>1, ReaderIsHeld
<1>3. CASE ReadLine(r) \/ ConvertBuffer(r) \/ AppendToDisk(r)
  BY <1>1, <1>3, ReadLineKeepsFlow, ConvertKeepsFlow, AppendToDiskKeepsFlow
<1>4. CASE ~(ReadLine(r) \/ ConvertBuffer(r) \/ AppendToDisk(r))
  <2>1. /\ UNCHANGED <<printed, columns, buffer, disk>>
        /\ \E to \in ReaderPlaces \ {"append"} :
              rpc' = [rpc EXCEPT ![r] = to] /\ (to \in Working => rpc[r] \in Working)
        /\ rpc[r] = "append" => rpc'[r] = "raised"
    BY <1>1, <1>4 DEF ReaderStep, TestLoop, ReadEnd, NotifySubscribers, NextSubscriber, ReportFails,
         LeaveLoop, Step, Ends, Dead, ReaderPlaces, Working, dataVars, TypedInv, MonitorTypeOK
  <2>2. Pending' = <<>>
    BY <1>2, <2>1 DEF Pending, FlowInv, TypedInv, MonitorTypeOK
  <2>3. Flows(disk, <<>>, buffer) /\ Items(Pending') \subseteq Items(Pending)
    BY <1>1, <2>2, LessFlows DEF RowsInv, RowsOrdered
  <2>4. RowsOrdered' /\ RowsPrinted'
    BY <1>1, <1>2, <2>1, <2>2, <2>3 DEF RowsInv, RowsOrdered, RowsPrinted
  <2>5. RowsAllThere'
    <3>1. rpc'[reader] \in Working => rpc[reader] \in Working /\ Pending = <<>>
      BY <1>1, <1>2, <2>1 DEF Working, Pending, TypedInv, MonitorTypeOK
    <3>. QED  BY <1>1, <1>2, <2>1, <2>2, <3>1 DEF RowsInv, RowsAllThere
  <2>. QED  BY <2>4, <2>5 DEF RowsInv
<1>. QED  BY <1>3, <1>4

LEMMA RestKeepsFlow ==
    ASSUME FlowInv, (\E p \in Procs : ProgramDies(p)) \/ UNCHANGED monitor_vars
    PROVE  FlowInv'
<1>1. TypedInv'
  BY RestKeepsTypes DEF FlowInv
<1>2. /\ UNCHANGED <<kind, control, subscribed, proc, printed, columns, buffer, bufferSize, disk>>
      /\ UNCHANGED <<reader, rpc, rproc, batch, outlived>>
  BY DEF ProgramDies, monitor_vars, callVars, procVars, dataVars, threadVars
<1>3. Pending' = Pending
  BY <1>2 DEF Pending
<1>. QED  BY <1>1, <1>2, <1>3 DEF FlowInv, RowsInv, RowsOrdered, RowsPrinted, RowsAllThere

-----------------------------------------------------------------------------
(* The HCCS monitor.  What its handles are at each point of a call: outside   *)
(* of a stop it has a program if and only if it has a reader, it has neither  *)
(* when nobody is subscribed, and a program that a stop waits for has been    *)
(* asked to end.                                                             *)
HccsHandles ==
    /\ hcontrol \in {"idle", "waiting"} => (hproc = 0 <=> hreader = 0)
    /\ hcontrol = "idle" /\ ~hsubscribed => hproc = 0
    /\ hcontrol = "joining" => hproc = 0 /\ hreader # 0
    /\ hcontrol = "waiting" => hproc = 0 \/ hprocState[hproc] # "alive"

\* Whoever is in its loop is the reader the monitor holds, or was given up on
\* in the middle of a line.
HccsReads == \A r \in Sessions \ hstuck : Looping(r) => hreader = r

HccsInv == HccsTypeOK /\ HccsHandles /\ HccsReads /\ HccsNoOrphan

\* The initial state has no sessions.
LEMMA HccsInitEstablishes == ASSUME HccsInit PROVE HccsInv
BY DEF HccsInit, HccsInv, HccsTypeOK, HccsHandles, HccsReads, HccsNoOrphan, Looping

\* A subscription starts a session only where there is neither program nor
\* reader.
LEMMA HccsRegisterKeeps == ASSUME HccsInv, HccsRegister PROVE HccsInv'
<1>. USE DEF HccsInv
<1>1. CASE UNCHANGED <<hrunning, hstop, hccsProc, hccsThread>>
  BY <1>1 DEF HccsRegister, HccsTypeOK, HccsHandles, HccsReads, HccsNoOrphan, Looping,
              hccsProc, hccsThread
<1>2. ASSUME NEW s \in Sessions,
             \A t \in Sessions : hpc[t] = "unborn" <=> t >= s,
             hproc' = s, hprocState' = [hprocState EXCEPT ![s] = "alive"],
             hreader' = s, hpc' = [hpc EXCEPT ![s] = "test"],
             hstop' = FALSE, hrunning' = TRUE, UNCHANGED hstuck
      PROVE  HccsInv'
  <2>1. HccsTypeOK'
    BY <1>2 DEF HccsRegister, HccsTypeOK
  <2>2. hproc = 0 /\ hreader = 0 /\ s # 0
    BY DEF HccsRegister, HccsHandles, Sessions
  <2>3. HccsHandles'
    BY <1>2, <2>2 DEF HccsRegister, HccsHandles
  <2>4. HccsReads'
    BY <1>2, <2>2 DEF HccsReads, Looping, HccsTypeOK, Sessions
  <2>5. HccsNoOrphan'
    BY <1>2, <2>2 DEF HccsNoOrphan, HccsTypeOK, Sessions
  <2>. QED  BY <2>1, <2>3, <2>4, <2>5
<1>. QED  BY <1>1, <1>2 DEF HccsRegister, HccsStart

\* The end of the last subscription asks the program to end.
LEMMA HccsUnregisterKeeps == ASSUME HccsInv, HccsUnregister PROVE HccsInv'
<1>. USE DEF HccsInv, HccsUnregister, hccsThread
<1>1. CASE ~hrunning /\ hproc = 0
  BY <1>1 DEF HccsTypeOK, HccsHandles, HccsReads, HccsNoOrphan, Looping
<1>2. CASE ~(~hrunning /\ hproc = 0)
  <2>1. hproc # 0 => hprocState'[hproc] # "alive"
    BY <1>2 DEF HOngoing, HccsTypeOK
  <2>2. \A p \in Sessions : hprocState'[p] = "alive" => hprocState[p] = "alive"
    BY <1>2 DEF HOngoing, HccsTypeOK
  <2>3. HccsTypeOK'
    BY <1>2 DEF HccsTypeOK
  <2>4. HccsHandles' /\ HccsReads' /\ HccsNoOrphan'
    BY <1>2, <2>1, <2>2 DEF HccsHandles, HccsReads, HccsNoOrphan, Looping
  <2>. QED  BY <2>3, <2>4
<1>. QED  BY <1>1, <1>2

\* Nothing that is alive is let go of when the wait is over.
LEMMA HccsWaitKeeps == ASSUME HccsInv, HccsWait PROVE HccsInv'
<1>. USE DEF HccsInv, HccsWait, hccsThread
<1>1. HccsTypeOK'
  BY DEF HccsTypeOK
<1>2. HccsHandles' /\ HccsReads'
  BY DEF HccsHandles, HccsReads, Looping
<1>3. HccsNoOrphan'
  BY DEF HccsNoOrphan, HccsHandles, Sessions
<1>. QED  BY <1>1, <1>2, <1>3

\* The reader a join lets go of is not in its loop, or is stuck.
LEMMA HccsJoinKeeps == ASSUME HccsInv, HccsJoin PROVE HccsInv'
<1>. USE DEF HccsInv, HccsJoin, DropHandle, hccsProc
<1>1. hreader \in Sessions /\ hproc = 0
  BY DEF HccsHandles, HccsTypeOK
<1>2. HccsTypeOK'
  BY <1>1 DEF HccsTypeOK
<1>3. HccsHandles'
  BY <1>1 DEF HccsHandles
<1>4. HccsReads'
  BY <1>1 DEF HccsReads, Looping
<1>5. HccsNoOrphan'
  BY DEF HccsNoOrphan
<1>. QED  BY <1>2, <1>3, <1>4, <1>5

\* Nobody enters the loop of a reader but a start.
LEMMA HccsReaderKeeps == ASSUME HccsInv, NEW r \in Sessions, HccsReaderStep(r) PROVE HccsInv'
<1>. USE DEF HccsInv, HccsReaderStep, HccsTest, HccsSelect, HccsLine, HccsFinish, HStep,
             hccsCall, hccsProc
<1>1. HccsTypeOK'
  BY DEF HccsTypeOK
<1>2. HccsHandles' /\ HccsNoOrphan'
  BY DEF HccsHandles, HccsNoOrphan
<1>3. \A s \in Sessions : Looping(s)' => Looping(s)
  BY DEF Looping, HccsTypeOK
<1>4. HccsReads'
  BY <1>3 DEF HccsReads
<1>. QED  BY <1>1, <1>2, <1>4

LEMMA HccsDiesKeeps == ASSUME HccsInv, NEW p \in Sessions, HccsDies(p) PROVE HccsInv'
<1>. USE DEF HccsInv, HccsDies, hccsCall, hccsThread
<1>1. HccsTypeOK'
  BY DEF HccsTypeOK
<1>2. HccsHandles' /\ HccsReads' /\ HccsNoOrphan'
  BY DEF HccsHandles, HccsReads, HccsNoOrphan, HccsTypeOK, Looping
<1>. QED  BY <1>1, <1>2

LEMMA HccsStutterKeeps == ASSUME HccsInv, UNCHANGED hccs_vars PROVE HccsInv'
BY DEF HccsInv, HccsTypeOK, HccsHandles, HccsReads, HccsNoOrphan, Looping, hccs_vars, hccsCall,
       hccsProc, hccsThread
-----------------------------------------------------------------------------
(* The RDMA monitor.  The two handles are of one session; a stop has set its  *)
(* event before it drops them; and the thread of the session that is open     *)
(* has taken the event of that session, and has ended only because of it.     *)
RdmaHandles ==
    /\ rthread = revent
    /\ rcontrol = "joining" => revent \in rset
    /\ rthread # 0 => rpcs[rthread] # "unborn"
    /\ rthread # 0 /\ rpcs[rthread] \in {"loop", "wait", "done"} => rlocal[rthread] = rthread
    /\ rthread # 0 /\ rpcs[rthread] = "done" => rthread \in rset

\* A thread in its loop has an event.
RdmaEvents == \A t \in Threads : rpcs[t] \in {"loop", "wait"} => rlocal[t] # 0

RdmaInv == RdmaTypeOK /\ RdmaHandles /\ RdmaEvents /\ RdmaReachable

LEMMA RdmaInitEstablishes == ASSUME RdmaInit PROVE RdmaInv
BY DEF RdmaInit, RdmaInv, RdmaTypeOK, RdmaHandles, RdmaEvents, RdmaReachable

\* A start finds no thread that lives, so that nobody has only the event of
\* the session before to be stopped by.
LEMMA RdmaStartKeeps == ASSUME RdmaInv, RdmaStart PROVE RdmaInv'
<1>. USE DEF RdmaInv
<1>1. PICK t \in Threads :
        /\ \A u \in Threads : rpcs[u] = "unborn" <=> u >= t
        /\ rthread' = t /\ revent' = t
        /\ rpcs' = [rpcs EXCEPT ![t] = "begin"]
        /\ UNCHANGED <<rcontrol, rset, rlocal, rate>>
  BY DEF RdmaStart
<1>2. rpcs[t] = "unborn" /\ t # 0
  BY <1>1 DEF Threads
<1>3. RdmaTypeOK'
  BY <1>1 DEF RdmaTypeOK
<1>4. RdmaHandles'
  BY <1>1, <1>2 DEF RdmaHandles, RdmaTypeOK, RdmaStart
<1>5. RdmaEvents'
  BY <1>1 DEF RdmaEvents, RdmaTypeOK
<1>6. RdmaReachable'
  <2>. SUFFICES ASSUME NobodyRaised', NEW u \in Threads, rpcs'[u] \in {"loop", "wait"}
                PROVE  rlocal'[u] \in rset'
    BY DEF RdmaReachable
  <2>1. rpcs[u] \in {"loop", "wait"}
    BY <1>1 DEF RdmaTypeOK
  <2>2. NobodyRaised
    BY <1>1, <1>2 DEF NobodyRaised, RdmaTypeOK
  <2>3. ~(rthread # 0 /\ RLive(rthread))
    BY DEF RdmaStart
  <2>. QED  BY <1>1, <2>1, <2>2, <2>3 DEF RdmaReachable, RdmaEvents
<1>. QED  BY <1>3, <1>4, <1>5, <1>6

LEMMA RdmaStopKeeps == ASSUME RdmaInv, RdmaStop PROVE RdmaInv'
<1>. USE DEF RdmaInv, RdmaStop, rdmaThreads
<1>1. RdmaTypeOK' /\ RdmaHandles' /\ RdmaEvents'
  BY DEF RdmaTypeOK, RdmaHandles, RdmaEvents
<1>2. RdmaReachable'
  BY DEF RdmaReachable, NobodyRaised, RLive
<1>. QED  BY <1>1, <1>2

\* Who had the event of the session that a join closes has one that is set.
LEMMA RdmaJoinKeeps == ASSUME RdmaInv, RdmaJoin PROVE RdmaInv'
<1>. USE DEF RdmaInv, RdmaJoin, rdmaThreads
<1>1. RdmaTypeOK' /\ RdmaHandles' /\ RdmaEvents'
  BY DEF RdmaTypeOK, RdmaHandles, RdmaEvents
<1>2. RdmaReachable'
  BY DEF RdmaReachable, RdmaHandles, NobodyRaised
<1>. QED  BY <1>1, <1>2

\* The first step of a thread takes the event there is: of its own session,
\* of a later one, or none.
LEMMA RdmaBeginKeeps == ASSUME RdmaInv, NEW t \in Threads, RdmaBegin(t) PROVE RdmaInv'
<1>. USE DEF RdmaInv, RdmaBegin, RStep, rdmaControl
<1>0. t # 0
  BY DEF Threads
<1>1. RdmaTypeOK'
  BY DEF RdmaTypeOK
<1>2. RdmaHandles'
  BY <1>0 DEF RdmaHandles, RdmaTypeOK
<1>3. RdmaEvents'
  BY DEF RdmaEvents, RdmaTypeOK
<1>4. RdmaReachable'
  <2>. SUFFICES ASSUME NobodyRaised', NEW u \in Threads, rpcs'[u] \in {"loop", "wait"}
                PROVE  \/ rlocal'[u] \in rset'
                       \/ rlocal'[u] = revent' /\ rthread' = revent' /\ RLive(rthread)'
    BY DEF RdmaReachable
  <2>1. NobodyRaised
    BY DEF NobodyRaised, RdmaTypeOK
  <2>2. RLive(rthread) /\ rthread # 0 => RLive(rthread)'
    BY DEF RLive, RdmaTypeOK, RdmaHandles
  <2>3. rthread # 0 => RLive(rthread) \/ rthread \in rset
    BY <2>1 DEF RLive, RdmaTypeOK, RdmaHandles, NobodyRaised
  <2>4. CASE u = t
    BY <2>2, <2>3, <2>4 DEF RdmaTypeOK, RdmaHandles
  <2>5. CASE u # t
    <3>1. rpcs[u] \in {"loop", "wait"} /\ rlocal'[u] = rlocal[u] /\ rlocal[u] # 0
      BY <2>5 DEF RdmaTypeOK, RdmaEvents
    <3>. QED  BY <2>1, <2>2, <3>1 DEF RdmaReachable
  <2>. QED  BY <2>4, <2>5
<1>. QED  BY <1>1, <1>2, <1>3, <1>4

\* A thread that ends by its event does so with it set; one that raises ends
\* the claim.
LEMMA RdmaLoopKeeps == ASSUME RdmaInv, NEW t \in Threads, RdmaRound(t) \/ RdmaPause(t)
                       PROVE  RdmaInv'
<1>. USE DEF RdmaInv, RdmaRound, RdmaPause, RStep, rdmaControl, Update
<1>1. RdmaTypeOK'
  BY DEF RdmaTypeOK
<1>2. RdmaHandles'
  BY DEF RdmaHandles, RdmaTypeOK
<1>3. RdmaEvents'
  BY DEF RdmaEvents, RdmaTypeOK
<1>4. RdmaReachable'
  <2>. SUFFICES ASSUME NobodyRaised', NEW u \in Threads, rpcs'[u] \in {"loop", "wait"}
                PROVE  \/ rlocal'[u] \in rset'
                       \/ rlocal'[u] = revent' /\ rthread' = revent' /\ RLive(rthread)'
    BY DEF RdmaReachable
  <2>1. NobodyRaised /\ rpcs[u] \in {"loop", "wait"} /\ rlocal'[u] = rlocal[u]
    BY DEF NobodyRaised, RdmaTypeOK
  <2>2. rthread # 0 /\ RLive(rthread) => RLive(rthread)' \/ rthread \in rset
    BY DEF RLive, RdmaTypeOK, RdmaHandles, NobodyRaised
  <2>. QED  BY <2>1, <2>2 DEF RdmaReachable, RdmaEvents
<1>. QED  BY <1>1, <1>2, <1>3, <1>4

LEMMA RdmaRestKeeps == ASSUME RdmaInv, RdmaQuery \/ RdmaClear \/ UNCHANGED rdma_vars
                       PROVE  RdmaInv'
BY DEF RdmaInv, RdmaTypeOK, RdmaHandles, RdmaEvents, RdmaReachable, NobodyRaised, RLive, RdmaQuery,
       RdmaClear, Update, rdma_vars, rdmaControl, rdmaThreads

LEMMA FlowStep == FlowInv /\ [MonitorNext]_monitor_vars => FlowInv'
BY CallsKeepFlow, ReadersKeepFlow, RestKeepsFlow
   DEF MonitorNext, SocketMonitor, CacheCalls, CacheReading, SchedCalls, SchedReading, Reading

LEMMA HccsStep == HccsInv /\ [HccsNext]_hccs_vars => HccsInv'
BY HccsRegisterKeeps, HccsUnregisterKeeps, HccsWaitKeeps, HccsJoinKeeps, HccsReaderKeeps,
   HccsDiesKeeps, HccsStutterKeeps DEF HccsNext, HccsStopStep

LEMMA RdmaStep == RdmaInv /\ [RdmaNext]_rdma_vars => RdmaInv'
BY RdmaStartKeeps, RdmaStopKeeps, RdmaJoinKeeps, RdmaBeginKeeps, RdmaLoopKeeps, RdmaRestKeeps
   DEF RdmaNext, RdmaThreadStep
-----------------------------------------------------------------------------
(* How monitors come to be: a run makes an object only while it has none, and  *)
(* with a lock on a file that lasts as long as the object.                   *)

Making(t) == asker[t] \in {"making", "made"}
HoldsLock == Locked => \A h \in Hosts :
    /\ instance[h] # 0 => lock_file = h /\ files = h
    /\ h \in broken => lock_file = h
    /\ speaks[h] \in Styles => speaks[h] = config.style

OneMakes ==
    /\ \A t \in Askers : asker[t] \in {"locked", "making", "made"} => class_lock[Run(t)] = t
    /\ \A t \in Askers : Making(t) =>
          /\ instance[Run(t)] = 0
          /\ Locked => lock_file = Run(t)
          /\ asker[t] = "made" => /\ made[Run(t)] # 0 /\ Run(t) \in cleanup
                                  /\ Locked => files = Run(t)

AllGotIt ==
    /\ \A t \in Askers : got[t] # 0 => got[t] = instance[Run(t)]
    /\ \A h \in Hosts : /\ speaks[h] # "off" => instance[h] # 0
                        /\ instance[h] # 0 => h \in cleanup

UnlockedSpeak == monitor = "hccs" => \A h \in Hosts : speaks[h] \in {"off", "csv"}

Monitors == {"socket", "cache", "sched", "hccs"}
LaunchInv ==
    /\ LaunchTypeOK /\ monitor \in Monitors
    /\ LockInUse /\ HoldsLock /\ OneMakes /\ AllGotIt /\ UnlockedSpeak

LEMMA RunOfHosts == ASSUME NEW t \in Askers PROVE Run(t) \in Hosts /\ Run(t) # Nobody /\ t # Nobody
BY LaunchAssumption DEF Run

LEMMA LaunchInitEstablishes == ASSUME LaunchInit PROVE LaunchInv
<1>1. LaunchTypeOK /\ monitor \in Monitors /\ LockInUse /\ AllGotIt /\ UnlockedSpeak
  BY LaunchAssumption DEF LaunchInit, LaunchTypeOK, Monitors, LockInUse, AllGotIt, UnlockedSpeak, Run
<1>2. HoldsLock /\ OneMakes
  BY LaunchAssumption DEF LaunchInit, HoldsLock, OneMakes, Making, Styles, Run
<1>. QED  BY <1>1, <1>2 DEF LaunchInv

\* What an accepted program says of its style is what was asked for.
LEMMA AcceptedStyle ==
    ASSUME NEW report, Verdict(report) = "accepted", monitor \in Monitors
    PROVE  /\ FirstStyle(report) \in Styles \cup {"none"}
           /\ Locked /\ FirstStyle(report) \in Styles => FirstStyle(report) = config.style
           /\ ~Locked => FirstStyle(report) = "csv"
<1>1. FirstStyle(report) \in SaysStyles(report) \cup {"none"}
  <2>1. CASE \E i \in DOMAIN report : IsFirstStyle(report, i)
    <3>1. PICK i \in DOMAIN report : IsFirstStyle(report, i) /\ FirstStyle(report) = report[i]
      BY <2>1 DEF FirstStyle
    <3>. QED  BY <3>1 DEF IsFirstStyle, SaysStyles
  <2>. QED  BY <2>1 DEF FirstStyle
<1>2. SaysStyles(report) \subseteq Styles /\ "none" \notin Styles
  BY DEF SaysStyles, Styles
<1>3. Locked => SaysStyles(report) \subseteq {config.style}
  BY DEF Locked, Verdict, SocketVerdict, CacheVerdict, SchedVerdict, Monitors
<1>4. ~Locked => FirstStyle(report) = "csv"
  BY DEF Locked, Verdict, HccsVerdict, Monitors
<1>. QED  BY <1>1, <1>2, <1>3, <1>4

\* Asking changes nothing of the run.
LEMMA AskKeeps ==
    ASSUME LaunchInv, NEW t \in Askers, Ask(t) \/ TakeClassLock(t) PROVE LaunchInv'
<1>. USE DEF LaunchInv, Ask, TakeClassLock, objectVars, machineVars, runVars
<1>1. LaunchTypeOK' /\ monitor' \in Monitors /\ HoldsLock' /\ UnlockedSpeak'
  BY RunOfHosts DEF LaunchTypeOK, HoldsLock, UnlockedSpeak, Locked
<1>2. LockInUse'
  BY DEF LockInUse, LaunchTypeOK
<1>3. OneMakes'
  BY RunOfHosts DEF OneMakes, Making, LaunchTypeOK, Locked
<1>4. AllGotIt'
  BY RunOfHosts DEF AllGotIt, LaunchTypeOK
<1>. QED  BY <1>1, <1>2, <1>3, <1>4

LEMMA LeftKeeps ==
    ASSUME LaunchInv, NEW t \in Askers, FoundMade(t) \/ LockTaken(t) PROVE LaunchInv'
<1>. USE DEF LaunchInv, FoundMade, LockTaken, Leave, objectVars, machineVars, runVars
<1>1. LaunchTypeOK' /\ monitor' \in Monitors /\ HoldsLock' /\ UnlockedSpeak'
  BY RunOfHosts DEF LaunchTypeOK, HoldsLock, UnlockedSpeak, Locked
<1>2. LockInUse'
  BY DEF LockInUse, LaunchTypeOK
<1>3. OneMakes'
  BY RunOfHosts DEF OneMakes, Making, LaunchTypeOK, Locked
<1>4. AllGotIt'
  BY RunOfHosts DEF AllGotIt, LaunchTypeOK
<1>. QED  BY <1>1, <1>2, <1>3, <1>4

\* Who comes to make an object is alone in it, and nobody has one.
LEMMA AcquireKeeps ==
    ASSUME LaunchInv, NEW t \in Askers, AcquireProcessLock(t) PROVE LaunchInv'
<1>. USE DEF LaunchInv, AcquireProcessLock, objectVars, runVars
<1>1. LaunchTypeOK' /\ monitor' \in Monitors /\ UnlockedSpeak'
  BY RunOfHosts DEF LaunchTypeOK, UnlockedSpeak, Locked
<1>2. HoldsLock'
  BY RunOfHosts, LaunchAssumption DEF HoldsLock, Locked
<1>3. LockInUse'
  BY RunOfHosts, LaunchAssumption DEF LockInUse, LaunchTypeOK
<1>4. OneMakes'
  BY RunOfHosts, LaunchAssumption DEF OneMakes, Making, LaunchTypeOK, Locked
<1>5. AllGotIt'
  BY DEF AllGotIt
<1>. QED  BY <1>1, <1>2, <1>3, <1>4, <1>5

LEMMA InitMonitorKeeps ==
    ASSUME LaunchInv, NEW t \in Askers, InitMonitor(t) PROVE LaunchInv'
<1>. USE DEF LaunchInv, InitMonitor, runVars
<1>1. LaunchTypeOK' /\ monitor' \in Monitors /\ UnlockedSpeak'
  BY RunOfHosts DEF LaunchTypeOK, UnlockedSpeak, Locked
<1>2. HoldsLock'
  BY RunOfHosts DEF HoldsLock, Locked, OneMakes, Making
<1>3. LockInUse'
  BY DEF LockInUse, LaunchTypeOK
<1>4. OneMakes'
  BY RunOfHosts DEF OneMakes, Making, LaunchTypeOK, Locked
<1>5. AllGotIt'
  BY DEF AllGotIt
<1>. QED  BY <1>1, <1>2, <1>3, <1>4, <1>5

LEMMA InitRaisesKeeps ==
    ASSUME LaunchInv, NEW t \in Askers, InitRaises(t) PROVE LaunchInv'
<1>. USE DEF LaunchInv, InitRaises, Leave, runVars
<1>1. LaunchTypeOK' /\ monitor' \in Monitors /\ UnlockedSpeak'
  BY RunOfHosts DEF LaunchTypeOK, UnlockedSpeak, Locked
<1>2. HoldsLock'
  BY RunOfHosts DEF HoldsLock, Locked, OneMakes, Making
<1>3. LockInUse'
  BY RunOfHosts DEF LockInUse, LaunchTypeOK, OneMakes, Making, Locked
<1>4. OneMakes'
  BY RunOfHosts DEF OneMakes, Making, LaunchTypeOK, Locked
<1>5. AllGotIt'
  BY DEF AllGotIt
<1>. QED  BY <1>1, <1>2, <1>3, <1>4, <1>5

LEMMA PublishKeeps ==
    ASSUME LaunchInv, NEW t \in Askers, PublishInstance(t) PROVE LaunchInv'
<1>. USE DEF LaunchInv, PublishInstance, Leave, machineVars, runVars
<1>1. made[Run(t)] # 0 /\ instance[Run(t)] = 0 /\ Run(t) \in cleanup
  BY DEF OneMakes, Making
<1>2. LaunchTypeOK' /\ monitor' \in Monitors /\ UnlockedSpeak'
  BY RunOfHosts DEF LaunchTypeOK, UnlockedSpeak
<1>3. HoldsLock'
  BY RunOfHosts DEF HoldsLock, Locked, OneMakes, Making, LaunchTypeOK
<1>4. LockInUse'
  BY <1>1, RunOfHosts DEF LockInUse, LaunchTypeOK
<1>5. OneMakes'
  BY RunOfHosts DEF OneMakes, Making, LaunchTypeOK, Locked
<1>6. AllGotIt'
  BY <1>1, RunOfHosts DEF AllGotIt, LaunchTypeOK
<1>. QED  BY <1>2, <1>3, <1>4, <1>5, <1>6

\* A program is started with an object, of a style that was asked for.
LEMMA StartProgramKeeps ==
    ASSUME LaunchInv, NEW t \in Askers, StartProgram(t) PROVE LaunchInv'
<1>. USE DEF LaunchInv, StartProgram, askerVars, objectVars, machineVars
<1>1. PICK report \in Reports :
          \/ /\ Verdict(report) = "accepted"
             /\ started' = started \cup {Run(t)}
             /\ speaks' = [speaks EXCEPT ![Run(t)] = FirstStyle(report)]
          \/ started' \in {started, started \cup {Run(t)}} /\ speaks' = speaks
  OBVIOUS
<1>2. LaunchTypeOK' /\ monitor' \in Monitors /\ LockInUse'
  BY <1>1, AcceptedStyle, RunOfHosts DEF LaunchTypeOK, LockInUse
<1>3. HoldsLock'
  BY <1>1, AcceptedStyle, RunOfHosts DEF HoldsLock, Locked, LaunchTypeOK
<1>4. OneMakes'
  BY DEF OneMakes, Making, Locked
<1>5. AllGotIt'
  BY <1>1, RunOfHosts DEF AllGotIt, LaunchTypeOK
<1>6. UnlockedSpeak'
  BY <1>1, AcceptedStyle, RunOfHosts DEF UnlockedSpeak, Locked, LaunchTypeOK
<1>. QED  BY <1>2, <1>3, <1>4, <1>5, <1>6

LEMMA StopProgramKeeps ==
    ASSUME LaunchInv, NEW t \in Askers, StopProgram(t) PROVE LaunchInv'
<1>. USE DEF LaunchInv, StopProgram, Terminated, askerVars, objectVars, machineVars
<1>1. LaunchTypeOK' /\ monitor' \in Monitors /\ LockInUse'
  BY RunOfHosts DEF LaunchTypeOK, LockInUse
<1>2. HoldsLock'
  BY RunOfHosts DEF HoldsLock, Locked, LaunchTypeOK, Styles
<1>3. OneMakes'
  BY DEF OneMakes, Making, Locked
<1>4. AllGotIt'
  BY RunOfHosts DEF AllGotIt, LaunchTypeOK
<1>5. UnlockedSpeak'
  BY RunOfHosts DEF UnlockedSpeak, LaunchTypeOK
<1>. QED  BY <1>1, <1>2, <1>3, <1>4, <1>5

\* The end of a run takes from it all there was, its program included: it is
\* without one if _cleanup was never registered.
LEMMA EndedKeeps ==
    ASSUME LaunchInv, NEW h \in Hosts, Ended(h), started' \subseteq started,
           speaks' = [speaks EXCEPT ![h] = "off"]
    PROVE  LaunchInv'
<1>. USE DEF LaunchInv, Ended
<1>1. LaunchTypeOK' /\ monitor' \in Monitors /\ UnlockedSpeak'
  BY DEF LaunchTypeOK, UnlockedSpeak
<1>2. LockInUse'
  BY RunOfHosts, LaunchAssumption DEF LockInUse, LaunchTypeOK
<1>3. HoldsLock'
  BY LaunchAssumption DEF HoldsLock, Locked, LaunchTypeOK, Styles
<1>4. OneMakes'
  BY RunOfHosts DEF OneMakes, Making, LaunchTypeOK, Locked
<1>5. AllGotIt'
  BY RunOfHosts DEF AllGotIt, LaunchTypeOK
<1>. QED  BY <1>1, <1>2, <1>3, <1>4, <1>5

LEMMA EndKeeps == ASSUME LaunchInv, NEW h \in Hosts, Ended(h), Terminated(h) PROVE LaunchInv'
BY EndedKeeps DEF Terminated

LEMMA ExitKeeps == ASSUME LaunchInv, NEW h \in Hosts, ExitRun(h) PROVE LaunchInv'
<1>1. CASE h \in cleanup
  BY <1>1, EndKeeps DEF ExitRun
<1>2. CASE h \notin cleanup
  <2>1. speaks[h] = "off"
    BY <1>2 DEF LaunchInv, AllGotIt
  <2>2. started' = started /\ speaks' = [speaks EXCEPT ![h] = "off"] /\ Ended(h)
    BY <1>2, <2>1 DEF ExitRun, runVars, LaunchInv, LaunchTypeOK
  <2>. QED  BY <2>2, EndedKeeps
<1>. QED  BY <1>1, <1>2

LEMMA LaunchStep == LaunchInv /\ [LaunchNext]_launch_vars => LaunchInv'
<1>1. LaunchInv /\ UNCHANGED launch_vars => LaunchInv'
  BY DEF LaunchInv, launch_vars, askerVars, objectVars, machineVars, runVars, LaunchTypeOK, LockInUse,
         HoldsLock, OneMakes, Making, AllGotIt, UnlockedSpeak, Locked
<1>. QED  BY <1>1, AskKeeps, LeftKeeps, AcquireKeeps, InitMonitorKeeps, InitRaisesKeeps,
             PublishKeeps, StartProgramKeeps, StopProgramKeeps, ExitKeeps, EndKeeps
          DEF LaunchNext, KillRun
-----------------------------------------------------------------------------
(* Theorems *)

\* The inductive invariant of the monitors that run a program.
THEOREM ProgramInvariance == MonitorSpec => []ProgramInv
<1>1. ProgramInv /\ [MonitorNext]_monitor_vars => ProgramInv'
  BY StartingKeeps, StartReaderKeeps, StoppingKeeps, ReaderStepKeeps, ProgramRestKeeps
     DEF MonitorNext, SocketMonitor, CacheCalls, CacheReading, SchedCalls, SchedReading, Calls,
         Reading
<1>. QED  BY ProgramInitEstablishes, <1>1, PTL DEF MonitorSpec

\* Two readers never share the buffer and the output of the program, unless a
\* join with its time-out has given up on one of them.
THEOREM ProgramReadsOnce == MonitorSpec => []OneReaderAtATime
<1>1. ProgramInv => OneReaderAtATime
  BY DEF ProgramInv, OneHeld, OneReaderAtATime
<1>. QED  BY <1>1, ProgramInvariance, PTL

\* A late reader that puts _running down, or a start that fails with it up,
\* never makes a monitor say it is running whose reader has left its loop.
THEOREM RunningHasReader == MonitorSpec => []RunningIsRead
<1>1. ProgramInv => RunningIsRead
  BY DEF ProgramInv, HandlesTyped, ReaderLeft, RunningIsRead, Live, Dead
<1>. QED  BY <1>1, ProgramInvariance, PTL

\* The inductive invariant of the rows.
THEOREM FlowInvariance == MonitorSpec => []FlowInv
BY FlowInit, FlowStep, PTL DEF MonitorSpec

\* The data file of a monitor gets the rows in the order of their printing and
\* none twice, and none of the session that is open is lost, wherever deaths,
\* stops and starts fall, as long as no reader has outlived its stop.
THEOREM MonitorKeepsRows == MonitorSpec => []RowsKept
<1>1. FlowInv => RowsInOrderOnce
  BY DEF FlowInv, RowsInv, RowsOrdered, Flows, RowsInOrderOnce
<1>2. ASSUME FlowInv, outlived = {}, proc # 0, reader # 0, rproc[reader] = proc
      PROVE  \A k \in 2..printed[proc] :
                 <<proc, k>> \in Items(disk) \cup Items(buffer) \cup Reporting(reader)
  <2>1. rpc[reader] \in Working /\ RowsInv
    BY <1>2 DEF FlowInv, TypedInv, ReaderReads, MonitorTypeOK
  <2>2. Items(Pending) = Reporting(reader)
    BY <1>2, EmptyInOrder DEF Pending, Reporting
  <2>. QED  BY <1>2, <2>1, <2>2 DEF RowsInv, RowsAllThere
<1>3. FlowInv => NoRowLost
  BY <1>2 DEF NoRowLost
<1>. QED  BY <1>1, <1>3, FlowInvariance, PTL DEF RowsKept

\* The inductive invariant of the HCCS monitor.
THEOREM HccsInvariance == HccsSpec => []HccsInv
BY HccsInitEstablishes, HccsStep, PTL DEF HccsSpec

\* However often the shared event is cleared by a start (line 251), at most one
\* reader that is not stuck in a line reads and notifies.
THEOREM HccsReadsOnce == HccsSpec => []HccsOneReader
<1>1. HccsInv => HccsOneReader
  BY DEF HccsInv, HccsReads, HccsOneReader
<1>. QED  BY <1>1, HccsInvariance, PTL

\* A program that nobody asked to end is the one the monitor holds, so that a
\* late reader that clears _running (line 360) does not make it lose one.
THEOREM HccsKeepsProgram == HccsSpec => []HccsNoOrphan
<1>1. HccsInv => HccsNoOrphan
  BY DEF HccsInv
<1>. QED  BY <1>1, HccsInvariance, PTL

\* The inductive invariant of the RDMA monitor.
THEOREM RdmaInvariance == RdmaSpec => []RdmaInv
BY RdmaInitEstablishes, RdmaStep, PTL DEF RdmaSpec

\* A thread that a stop gave up on, or that took its event late (line 556), has
\* one that is set or that the next stop will set, unless a thread has raised.
THEOREM RdmaStaysReachable == RdmaSpec => []RdmaReachable
<1>1. RdmaInv => RdmaReachable
  BY DEF RdmaInv
<1>. QED  BY <1>1, RdmaInvariance, PTL

\* The inductive invariant of how a monitor comes to be.
THEOREM LaunchInvariance == LaunchSpec => []LaunchInv
BY LaunchInitEstablishes, LaunchStep, PTL DEF LaunchSpec

\* All the threads of a run get the one object, made with the lock on the file
\* that other runs want and with the files that others empty; there is then one
\* program on the machine and it prints what its reader parses, for any runs and
\* threads of these, whatever __new__, starts, exits and kills come between.
THEOREM LaunchedOnce == LaunchSpec => []OneLaunched
<1>1. LaunchInv => OneMonitor
  BY DEF LaunchInv, AllGotIt, HoldsLock, OneMonitor
<1>2. LaunchInv => OneProgram /\ LockInUse
  BY DEF LaunchInv, AllGotIt, HoldsLock, OneProgram
<1>3. LaunchInv => OutputUnderstood
  BY DEF LaunchInv, LaunchTypeOK, HoldsLock, UnlockedSpeak, OutputUnderstood, Reads, SocketReads,
         CacheReads, SchedReads, Locked, Monitors, Styles
<1>. QED  BY <1>1, <1>2, <1>3, LaunchInvariance, PTL DEF OneLaunched

\* What is shown of each design holds where they are side by side: the steps of
\* one leave the others alone.
LEMMA PartsApart ==
    [MonitorsNext]_monitors_vars =>
        /\ [MonitorNext]_monitor_vars /\ [HccsNext]_hccs_vars
        /\ [RdmaNext]_rdma_vars /\ [LaunchNext]_launch_vars
BY DEF MonitorsNext, monitors_vars

\* One reader at a time, in both designs with readers.
THEOREM ReadersAlone == MonitorsSpec => []OneReader
<1>1. MonitorsSpec => MonitorSpec /\ HccsSpec
  BY PartsApart, PTL DEF MonitorsSpec, MonitorsInit, MonitorSpec, HccsSpec
<1>. QED  BY <1>1, ProgramReadsOnce, HccsReadsOnce, PTL DEF OneReader

\* Whichever monitor runs, the variables of all four keep their types.
THEOREM MonitorsTypeCorrect == MonitorsSpec => []MonitorsTypeOK
<1>. DEFINE Inv == FlowInv /\ HccsInv /\ RdmaInv /\ LaunchInv
<1>1. MonitorsInit => Inv
  BY FlowInit, HccsInitEstablishes, RdmaInitEstablishes, LaunchInitEstablishes DEF MonitorsInit
<1>2. Inv /\ [MonitorsNext]_monitors_vars => Inv'
  BY PartsApart, FlowStep, HccsStep, RdmaStep, LaunchStep
<1>3. Inv => MonitorsTypeOK
  BY DEF FlowInv, TypedInv, HccsInv, RdmaInv, LaunchInv, MonitorsTypeOK
<1>. QED  BY <1>1, <1>2, <1>3, PTL DEF MonitorsSpec
=============================================================================
