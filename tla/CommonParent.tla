------------------------------ MODULE CommonParent ------------------------------
(***************************************************************************)
(* CommonProcessParentCollector: a process that is the parent of two         *)
(* processes of the graph joins it, and so do the first few ancestors of     *)
(* every process in it.  What it has seen in a round - the children of each  *)
(* parent, and how far up it still was to look from each process - is kept   *)
(* in fields of the collector, which the seed of any round empties.  An      *)
(* answer is one step of the model; the code does nothing against another    *)
(* round's answer in the middle of it.                                      *)
(***************************************************************************)
EXTENDS Integers, FiniteSetsExt, Functions

CONSTANTS Pids,            \* processes
          Trees,           \* the possible ppid of each; 0: the root, or gone
          Entries,         \* what the other collectors may find to begin with
          ParentDepth,     \* single_node_parent_depth
          Walks            \* rounds: a bound of the model

ASSUME ParentAssumption ==
    /\ IsFiniteSet(Pids) /\ 0 \notin Pids /\ ParentDepth \in Nat
    /\ Trees \subseteq [Pids -> Pids \cup {0}] /\ Entries \subseteq SUBSET Pids

VARIABLES ppid, children,  \* _candidate_ppid2child_pid
          extendLeft,      \* _pid_to_depth; -1: not in it
          entered,         \* what the other collectors find in each round
          queued, met,     \* the processes to expand and those met, of each round
          overlapped       \* history: another round was under way meanwhile

parent_vars == <<ppid, children, extendLeft, entered, queued, met, overlapped>>

NobodySeen == /\ children' = [p \in Pids |-> {}]
              /\ extendLeft' = [p \in Pids |-> -1]

ParentInit ==
    /\ ppid \in Trees
    /\ children = [p \in Pids |-> {}] /\ extendLeft = [p \in Pids |-> -1]
    /\ entered \in [Walks -> Entries]
    /\ queued = [w \in Walks |-> {}] /\ met = [w \in Walks |-> {}]
    /\ overlapped = [w \in Walks |-> FALSE]

\* _get_seed_graph empties the fields; the others find the first processes.
SeedParents(w) ==
    /\ met[w] = {} /\ entered[w] # {}
    /\ NobodySeen
    /\ queued' = [queued EXCEPT ![w] = entered[w]] /\ met' = [met EXCEPT ![w] = entered[w]]
    /\ LET running == {v \in Walks : queued[v] # {}}
       IN overlapped' = [v \in Walks |-> \/ overlapped[v] \/ (v = w /\ running # {})
                                         \/ v \in running]
    /\ UNCHANGED <<ppid, entered>>

\* lookup_extend_parent: the process it looks up from and the levels it has
\* left, what it has found, and the two fields.  A process that has been looked
\* up from with as many levels left is not looked up from again.
Lookups == [pid : Pids, levels : 0..ParentDepth, near : SUBSET Pids,
            children : [Pids -> SUBSET Pids], left : [Pids -> -1..ParentDepth]]

LookupExtendParent[l \in Lookups] ==
    LET parent == ppid[l.pid]
        known == [l EXCEPT !.left[l.pid] = l.levels]
        joined == [known EXCEPT !.children[parent] = @ \cup {l.pid}]
        up(n) == LookupExtendParent[[joined EXCEPT !.pid = parent, !.levels = n,
                                                   !.near = @ \cup {parent}]]
    IN IF l.levels <= l.left[l.pid] THEN l
       ELSE IF parent = 0 THEN known
       ELSE IF Cardinality(joined.children[parent]) >= 2 THEN up(l.levels)
       ELSE IF l.levels > 0 THEN up(l.levels - 1) ELSE joined

\* The levels that the only child of an only child has used up already.
LevelsLeft[n \in 0..ParentDepth] ==
    [p \in Pids |-> IF n > 0 /\ Cardinality(children[p]) = 1
                    THEN LevelsLeft[n - 1][CHOOSE c \in children[p] : TRUE] ELSE n]

\* get_neighbors_with_edges.
AnswerParents(w, p) ==
    LET seen == LookupExtendParent[[pid |-> p, levels |-> LevelsLeft[ParentDepth][p], near |-> {},
                                    children |-> children, left |-> extendLeft]]
    IN /\ children' = seen.children /\ extendLeft' = seen.left
       /\ queued' = [queued EXCEPT ![w] = (@ \ {p}) \cup (seen.near \ met[w])]
       /\ met' = [met EXCEPT ![w] = @ \cup seen.near]
       /\ UNCHANGED <<ppid, entered, overlapped>>

ParentNext == \E w \in Walks : SeedParents(w) \/ \E p \in queued[w] : AnswerParents(w, p)

ParentSpec == ParentInit /\ [][ParentNext]_parent_vars
-----------------------------------------------------------------------------
(* Properties. *)

Ancestors[n \in 0..ParentDepth] ==
    [p \in Pids \cup {0} |-> IF n = 0 \/ p = 0 THEN {}
                             ELSE ({ppid[p]} \ {0}) \cup Ancestors[n - 1][ppid[p]]]

\* The processes of a round whose parent is p.
Offspring(w, p) == {c \in met[w] : ppid[c] = p}
Common(w) == {p \in Pids : Cardinality(Offspring(w, p)) >= 2}
Above(processes) == UNION {Ancestors[ParentDepth][p] : p \in processes}

\* In whatever order processes are expanded, a round during which no other
\* was under way ends with the common parents of its processes and the
\* first ancestors of those it began with that have no child in it - how far
\* it looks from one that has depends on the order - and adds nobody who is
\* not a common parent or a first ancestor of one of them.
ParentsFound ==
    \A w \in Walks : met[w] # {} /\ queued[w] = {} /\ ~overlapped[w] =>
        /\ Common(w) \cup Above({p \in entered[w] : Offspring(w, p) = {}}) \subseteq met[w]
        /\ met[w] \subseteq entered[w] \cup Common(w) \cup Above(entered[w] \cup Common(w))

ParentTypeOK ==
    /\ ppid \in Trees /\ children \in [Pids -> SUBSET Pids]
    /\ extendLeft \in [Pids -> -1..ParentDepth]
    /\ \A w \in Walks : queued[w] \subseteq met[w] /\ met[w] \subseteq Pids
=============================================================================
