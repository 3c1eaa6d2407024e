----------------------------- MODULE RdmaStatistics -----------------------------
(***************************************************************************)
(* What the RDMA monitor reads and makes of it.  A snapshot of the ports'    *)
(* counters is taken from the JSON output of the rdma command, or else from  *)
(* its text, or else from sysfs, which name the counters in many ways and    *)
(* may leave any of them out; rates are the difference of a snapshot to the  *)
(* one before, kept here without the time it is divided by.  The tables of   *)
(* resources come from the command as well.  When snapshots are taken, and   *)
(* by whom, is in RdmaMonitor.                                              *)
(***************************************************************************)
EXTENDS Integers, SequencesExt

CONSTANTS
    Aliases,      \* field -> names of a counter: COUNTER_FIELD_MAP, and the name in sysfs
    SysfsName,    \* the fields that sysfs has -> name of the counter there
    Outputs,      \* outputs of the command: sequences of items
    None, Word, Blank,   \* no value, one that is no number, an empty one
    MaxCount      \* a bound of the model

Fields == DOMAIN Aliases
Names == UNION {Aliases[f] : f \in Fields}
Items == UNION {ToSet(a) : a \in Outputs}
StatPorts == {item.port : item \in Items}

\* An item is about a port, may lack the name of the device, has the number of
\* the port, a zero or none, and shows some of the counters, of these some as
\* what is no number.
ASSUME StatisticsAssumption ==
    /\ \A item \in Items : /\ item.number \in {"port", "zero", "none"} /\ item.named \in BOOLEAN
                           /\ item.unreadable \subseteq item.shows /\ item.shows \subseteq Names
    /\ \A answer \in Outputs : answer \in Seq(Items)
    /\ IsFiniteSet(Names) /\ DOMAIN SysfsName \subseteq Fields
    /\ \A f \in DOMAIN SysfsName : SysfsName[f] \in Aliases[f]
    /\ MaxCount \in Nat

VARIABLES
    order,      \* the order in which this process goes over the aliases, a set
    counters,   \* the counters of the ports
    last,       \* _last_snapshot
    rates,      \* _stats_per_second, or None
    known,      \* history: the counters at the last snapshot, and what showed them
    before      \* history: the same of the snapshot before; <<>> is none

stat_vars == <<order, counters, last, rates, known, before>>

-----------------------------------------------------------------------------
(* Snapshots. *)

\* _build_stat: of several names for a field the first one counts, even if its
\* value is no number.
Value(item, f) ==
    LET shown == item.shows \cap Aliases[f]
        a == CHOOSE n \in shown : \A m \in shown : order[n] <= order[m]
    IN IF shown = {} \/ a \in item.unreadable THEN 0 ELSE counters[item.port][a]

\* A comparison of a missing number with zero raises, unless there is no device.
ParseRaises(answer) == \E item \in ToSet(answer) : item.named /\ item.number = "none"

\* Of two items about a port the later one counts.
FromRdma(answer) ==
    LET good(i) == answer[i].named /\ answer[i].number = "port"
        about(p) == {i \in DOMAIN answer : good(i) /\ answer[i].port = p}
    IN [p \in {q \in StatPorts : about(q) # {}} |->
           LET item == answer[Max(about(p))] IN [f \in Fields |-> Value(item, f)]]

\* sysfs lists the ports by themselves; a file that cannot be opened counts
\* zero, one with words in it is read as None.
FromSysfs(ports, words) ==
    [p \in ports |-> [f \in Fields |->
        IF f \notin DOMAIN SysfsName THEN 0
        ELSE IF p \in words THEN None ELSE counters[p][SysfsName[f]]]]

Lacks(stat) == \E f \in Fields : stat[f] = None
Lacking(stats) == {p \in DOMAIN stats : Lacks(stats[p])}

\* What collect may return, with what it was read from; a text may raise where
\* JSON does not, its port being 0 in one place and missing in the other.
Collected ==
    LET json == {[from |-> "json", answer |-> a, stats |-> FromRdma(a)] :
                 a \in {b \in Outputs : ~ParseRaises(b)}}
        text == {[r EXCEPT !.from = "text"] : r \in json}
        sysfs == {[from |-> "sysfs", answer |-> <<>>, stats |-> FromSysfs(ports, words)] :
                  ports \in SUBSET StatPorts, words \in SUBSET StatPorts}
        empty(source) == \E r \in source : DOMAIN r.stats = {}
    IN {r \in json : DOMAIN r.stats # {}}
       \cup (IF empty(json) THEN {r \in text : DOMAIN r.stats # {}} ELSE {})
       \cup (IF empty(json) /\ empty(text) THEN sysfs ELSE {})
-----------------------------------------------------------------------------
(* Rates. *)

Quiet(stat) == \A f \in Fields : stat[f] = 0

Minus(new, old) == [f \in Fields |-> new[f] - old[f]]

DiffRaises(new, old) == \E p \in DOMAIN new : Lacks(new[p]) \/ (p \in DOMAIN old /\ Lacks(old[p]))

\* diff: a port that was not there before gets all it has ever counted.
Diff(new, old) ==
    LET changed == [p \in DOMAIN new |-> IF p \in DOMAIN old THEN Minus(new[p], old[p]) ELSE new[p]]
    IN [p \in {q \in DOMAIN new : ~Quiet(changed[q])} |-> changed[p]]

Knows(r) == [counters |-> counters, from |-> r.from, answer |-> r.answer, ports |-> DOMAIN r.stats]

\* __init__ takes a snapshot and looks at no number in it.
StatInit ==
    /\ order \in {o \in [Names -> 1..Cardinality(Names)] : IsInjective(o)}
    /\ counters = [p \in StatPorts |-> [n \in Names |-> 0]]
    /\ \E r \in Collected : last = r.stats /\ known = Knows(r)
    /\ rates = None /\ before = <<>>

DiffTaken(r) == last' = r.stats /\ known' = Knows(r) /\ before' = known

\* Mutant: the snapshot is kept before it is compared, which may raise.
SnapshotKeptFirst ==
    \E r \in Collected :
        /\ DiffTaken(r)
        /\ rates' = IF DiffRaises(r.stats, last) THEN rates ELSE Diff(r.stats, last)

\* _update: where it raises nothing has changed.
TakeSnapshot ==
    \E r \in Collected :
        /\ ~DiffRaises(r.stats, last)
        /\ DiffTaken(r)
        /\ rates' = Diff(r.stats, last)

UpdateStatistics == TakeSnapshot /\ UNCHANGED <<order, counters>>

\* clear: the difference is taken and forgotten.
ClearStatistics ==
    /\ \E r \in Collected : ~DiffRaises(r.stats, last) /\ DiffTaken(r)
    /\ rates' = None
    /\ UNCHANGED <<order, counters>>

\* A port counts, or starts again from zero.
PortCounts ==
    /\ \E p \in StatPorts : counters' \in
         {[counters EXCEPT ![p][n] = @ + 1] : n \in {m \in Names : counters[p][m] < MaxCount}}
         \cup {[counters EXCEPT ![p] = [n \in Names |-> 0]]}
    /\ UNCHANGED <<order, last, rates, known, before>>

StatNext == UpdateStatistics \/ ClearStatistics \/ PortCounts

StatSpec == StatInit /\ [][StatNext]_stat_vars
-----------------------------------------------------------------------------
(* Records of resources: what the command prints of each is a function from   *)
(* the keys that are there to numbers or words, 0 and "" being no answer in   *)
(* JSON; in a text they are words as others are.                             *)

Empty == {0, Blank}

\* item.get(k) or item.get(l): the first that is there and, of JSON, not empty,
\* or else the last.
Get(item, keys, json) ==
    LET value(k) == IF k \in DOMAIN item THEN item[k] ELSE None
        good == {i \in DOMAIN keys : value(keys[i]) \notin {None} \cup (IF json THEN Empty ELSE {})}
    IN value(keys[IF good = {} THEN Len(keys) ELSE Min(good)])

\* _safe_int of this collector: what is no number is 0.
SafeInt(value) == IF value \in {None, Word, Blank} THEN 0 ELSE value

Record(item, json, number) ==
    [device |-> Get(item, <<"dev", "device", "ifname">>, json),
     number |-> SafeInt(Get(item, number, json)),
     pdn |-> SafeInt(Get(item, <<"pdn">>, json)),
     pid |-> SafeInt(Get(item, <<"pid">>, json))]

HasDevice(r) == r.device # None
Numbered(r) == HasDevice(r) /\ r.number # 0

\* The records that pass the test, in their order.
Those(Test(_), records) ==
    FoldLeft(LAMBDA kept, r : IF Test(r) THEN Append(kept, r) ELSE kept, <<>>, records)

GetQpRecords(items, json) ==
    Those(Numbered, [i \in DOMAIN items |-> Record(items[i], json, <<"lqpn", "qpn">>)])
\* Mutant: the other name of the number is not looked for.
GetMrRecordsByMrn(items, json) ==
    Those(Numbered, [i \in DOMAIN items |-> Record(items[i], json, <<"mrn">>)])
GetMrRecords(items, json) ==
    Those(Numbered, [i \in DOMAIN items |-> Record(items[i], json, <<"mrn", "mr">>)])
GetPdRecords(items, json) ==
    Those(HasDevice, [i \in DOMAIN items |-> Record(items[i], json, <<"pdn">>)])
-----------------------------------------------------------------------------
(* Properties. *)

StatTypeOK ==
    /\ order \in [Names -> Nat]
    /\ counters \in [StatPorts -> [Names -> 0..MaxCount]]
    /\ DOMAIN last \subseteq StatPorts /\ known.ports = DOMAIN last
    /\ rates # None => DOMAIN rates \subseteq DOMAIN last

\* Of a port that was in two snapshots of one source, which said the same of it,
\* the difference is what one of the counters for the field has grown, never a
\* mixture of two; and of a port whose counters have all grown there is one.
RatesAreTraffic ==
    LET grew(p, n) == known.counters[p][n] - before.counters[p][n]
        rate(p, f) == IF p \in DOMAIN rates THEN rates[p][f] ELSE 0
        alike == known.from = before.from /\ known.answer = before.answer
        clear(p, f) == IF known.from = "sysfs" THEN f \in DOMAIN SysfsName
                       ELSE \A item \in ToSet(known.answer) :
                                item.port = p => /\ item.shows \cap Aliases[f] # {}
                                                 /\ item.unreadable = {}
    IN rates # None /\ alike =>
           \A p \in known.ports \cap before.ports, f \in Fields :
               /\ rate(p, f) = 0 \/ \E n \in Aliases[f] : rate(p, f) = grew(p, n)
               /\ clear(p, f) /\ (\A n \in Aliases[f] : grew(p, n) > 0) => rate(p, f) > 0

\* Only the snapshot of the construction may lack a number: every update raises
\* from then on, as long as the port is there.
LacksOnlyAtStart == before # <<>> => Lacking(last) = {}

\* However the command names what it prints, each resource with a device and a
\* number comes out, in this order, and the text says what JSON says, unless a
\* number is 0, which only JSON passes over.
RecordsKept(items) ==
    LET has(i, keys) == \E k \in ToSet(keys) : k \in DOMAIN items[i] /\ items[i][k] \notin Empty
        sound(i, keys) ==
            /\ has(i, <<"dev", "device", "ifname">>) /\ has(i, keys)
            /\ \A k \in ToSet(keys) : k \in DOMAIN items[i] => items[i][k] \notin {0, Word, Blank}
        shown(records, keys) ==
            {i \in DOMAIN items : sound(i, keys)} # {} =>
                Len(records) >= Cardinality({i \in DOMAIN items : sound(i, keys)})
        filled == \A i \in DOMAIN items : \A k \in DOMAIN items[i] : items[i][k] \notin Empty
    IN /\ \A json \in BOOLEAN : /\ shown(GetQpRecords(items, json), <<"lqpn", "qpn">>)
                                /\ shown(GetMrRecords(items, json), <<"mrn", "mr">>)
       /\ filled => /\ GetQpRecords(items, TRUE) = GetQpRecords(items, FALSE)
                    /\ GetMrRecords(items, TRUE) = GetMrRecords(items, FALSE)
                    /\ GetPdRecords(items, TRUE) = GetPdRecords(items, FALSE)
=============================================================================
