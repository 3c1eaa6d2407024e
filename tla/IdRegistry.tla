------------------------------ MODULE IdRegistry ------------------------------
(***************************************************************************)
(* GlobalIDManager, the registry from global ids to objects, and the two    *)
(* ways in which entities get at it: create_ensure_unique_id, and setting   *)
(* an attribute, which gives the old id back and records the new one when   *)
(* the identity changes.  Each object is in the hands of one thread; ids    *)
(* are shared.  The registry is a singleton made at the first use, without  *)
(* a lock; making it empties the maps, which belong to the class.           *)
(***************************************************************************)
EXTENDS Naturals, FiniteSets

CONSTANTS Objects, Ids, Threads, None,
          OwnerOf       \* the thread that handles an object

ASSUME OwnerAssumption == OwnerOf \in [Objects -> Threads]
ASSUME NoneAssumption == None \notin Objects \cup Ids
ASSUME ThreadsAssumption == IsFiniteSet(Threads)

VARIABLES
    managers,    \* how many registries have been constructed
    id_map,      \* _global_id_map
    obj_map,     \* _global_obj_2_id_map
    identity,    \* the id the attributes of an object make
    cached,      \* _global_id_cache
    id_pc,       \* where each thread is in its call
    id_obj,      \* self
    old_id,      \* old_id of __setattr__, or the id asked for by a creation
    results      \* history: <<id, object>> given to creators since the id was last released

maps == <<id_map, obj_map>>
id_call == <<id_pc, id_obj, old_id>>
id_vars == <<managers, maps, identity, cached, id_call, results>>

RegistryInit ==
    /\ managers = 0
    /\ id_map = [i \in Ids |-> None] /\ obj_map = [o \in Objects |-> None]
    /\ identity \in [Objects -> Ids] /\ cached = [o \in Objects |-> None]
    /\ id_pc = [t \in Threads |-> "idle"]
    /\ id_obj = [t \in Threads |-> None] /\ old_id = [t \in Threads |-> None]
    /\ results = {}

IdGoto(t, from, to) == id_pc[t] = from /\ id_pc' = [id_pc EXCEPT ![t] = to]
-----------------------------------------------------------------------------
(* create_ensure_unique_id, or the factory's create_entity. *)

Create(t) ==
    /\ IdGoto(t, "idle", "get")
    /\ \E o \in Objects :
        /\ OwnerOf[o] = t /\ obj_map[o] = None
        /\ cached' = [cached EXCEPT ![o] = IF @ = None THEN identity[o] ELSE @]
        /\ id_obj' = [id_obj EXCEPT ![t] = o]
        /\ old_id' = [old_id EXCEPT ![t] = cached'[o]]
    /\ UNCHANGED <<managers, maps, identity, results>>

\* GlobalIDManager.get_instance: the look, then the construction.
GetManager(t) ==
    /\ IdGoto(t, "get", IF managers = 0 THEN "construct" ELSE "record_or_get")
    /\ UNCHANGED <<managers, maps, identity, cached, id_obj, old_id, results>>

Construct(t) ==
    /\ IdGoto(t, "construct", "record_or_get")
    /\ managers' = managers + 1
    /\ id_map' = [i \in Ids |-> None] /\ obj_map' = [o \in Objects |-> None]
    /\ UNCHANGED <<identity, cached, id_obj, old_id, results>>

\* Mutant: what is there already is replaced.
Overwrite(i, o) ==
    /\ id_map' = [id_map EXCEPT ![i] = o]
    /\ obj_map' = [obj_map EXCEPT ![o] = i]

\* record_or_get, under the write lock.
RecordOrGet(i, o) ==
    IF id_map[i] # None
      THEN UNCHANGED maps
      ELSE /\ id_map' = [id_map EXCEPT ![i] = o]
           /\ obj_map' = [obj_map EXCEPT ![o] = i]

Created(t) ==
    /\ IdGoto(t, "record_or_get", "idle")
    /\ RecordOrGet(old_id[t], id_obj[t])
    /\ results' = results \cup {<<old_id[t], id_map'[old_id[t]]>>}
    /\ UNCHANGED <<managers, identity, cached, id_obj, old_id>>
-----------------------------------------------------------------------------
(* Entity.__setattr__ of an attribute that is part of the identity (or not:   *)
(* the identity may stay as it is).                                          *)

SetAttr(t) ==
    /\ managers > 0
    /\ \E o \in Objects, i \in Ids :
        /\ OwnerOf[o] = t
        /\ IdGoto(t, "idle", IF cached[o] = None THEN "idle" ELSE "exists")
        /\ identity' = [identity EXCEPT ![o] = i]
        /\ old_id' = [old_id EXCEPT ![t] = cached[o]]
        /\ cached' = [cached EXCEPT ![o] = None]
        /\ id_obj' = [id_obj EXCEPT ![t] = o]
    /\ UNCHANGED <<managers, maps, results>>

\* The lock-free look at the old id; then the new one is computed.
Exists(t) ==
    LET o == id_obj[t]
    IN /\ id_pc[t] = "exists"
       /\ \/ /\ id_map[old_id[t]] = None
             /\ IdGoto(t, "exists", "idle")
             /\ UNCHANGED cached
          \/ /\ id_map[old_id[t]] # None
             /\ IdGoto(t, "exists", IF identity[o] = old_id[t] THEN "idle" ELSE "release")
             /\ cached' = [cached EXCEPT ![o] = identity[o]]
       /\ UNCHANGED <<managers, maps, identity, id_obj, old_id, results>>

\* Mutant: the way back from the object is forgotten.
ReleaseOneWay(i) == id_map' = [id_map EXCEPT ![i] = None] /\ UNCHANGED obj_map

\* try_release_global_id: whoever is recorded under the id.
TryRelease(i) ==
    IF id_map[i] = None
      THEN UNCHANGED maps
      ELSE /\ obj_map' = [obj_map EXCEPT ![id_map[i]] = None]
           /\ id_map' = [id_map EXCEPT ![i] = None]

Release(t) ==
    /\ IdGoto(t, "release", "rename")
    /\ TryRelease(old_id[t])
    /\ results' = {r \in results : r[1] # old_id[t]}
    /\ UNCHANGED <<managers, identity, cached, id_obj, old_id>>

Rename(t) ==
    /\ IdGoto(t, "rename", "idle")
    /\ RecordOrGet(cached[id_obj[t]], id_obj[t])
    /\ UNCHANGED <<managers, identity, cached, id_obj, old_id, results>>

RegistryNext ==
    \E t \in Threads :
        \/ Create(t) \/ GetManager(t) \/ Construct(t) \/ Created(t)
        \/ SetAttr(t) \/ Exists(t) \/ Release(t) \/ Rename(t)

RegistrySpec == RegistryInit /\ [][RegistryNext]_id_vars
-----------------------------------------------------------------------------
(* Properties.  They are claimed as long as the registry was made once: two   *)
(* threads that make it at the same time lose what was recorded in between.   *)

MadeOnce == managers <= 1 /\ \A t \in Threads : managers = 1 => id_pc[t] # "construct"

RegistryTypeOK ==
    /\ managers \in 0..Cardinality(Threads)
    /\ id_map \in [Ids -> Objects \cup {None}] /\ obj_map \in [Objects -> Ids \cup {None}]
    /\ identity \in [Objects -> Ids] /\ cached \in [Objects -> Ids \cup {None}]
    /\ id_pc \in [Threads -> {"idle", "get", "construct", "record_or_get",
                              "exists", "release", "rename"}]
    /\ id_obj \in [Threads -> Objects \cup {None}] /\ old_id \in [Threads -> Ids \cup {None}]
    /\ results \subseteq Ids \X Objects

\* The two maps of the registry are inverse to each other, and an object is
\* recorded under the id its attributes make, unless its thread is in the
\* middle of changing them; another object may well have given its id away.
Changing(o) == id_obj[OwnerOf[o]] = o /\ id_pc[OwnerOf[o]] \in {"exists", "release"}
RegistryConsistent ==
    MadeOnce =>
        /\ \A i \in Ids, o \in Objects : id_map[i] = o <=> obj_map[o] = i
        /\ \A i \in Ids : id_map[i] # None /\ ~Changing(id_map[i]) => identity[id_map[i]] = i

\* Atomic get-or-create: all who ask for one id get the same object, until
\* somebody gives the id up.
OneObjectPerId ==
    MadeOnce => \A r, s \in results : r[1] = s[1] => r[2] = s[2]

IdentityKept == RegistryConsistent /\ OneObjectPerId
=============================================================================
