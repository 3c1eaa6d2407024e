----------------------------- MODULE ServiceProofs -----------------------------
(***************************************************************************)
(* The parts of the service, for all values of their constants: what          *)
(* subscribers hear of, what the files of a monitor hold, and the types of    *)
(* everything MCService has.                                                *)
(***************************************************************************)
EXTENDS MCService, FiniteSetTheorems, TLAPS

(* The registry of ids, and the graphs that hosts exchange. *)

\* The types; the bound of managers is part of ServiceTypeOK (ServiceProofs).
Typed ==
    /\ managers \in Nat
    /\ id_map \in [Ids -> Objects \cup {None}] /\ obj_map \in [Objects -> Ids \cup {None}]
    /\ identity \in [Objects -> Ids] /\ cached \in [Objects -> Ids \cup {None}]
    /\ id_pc \in [Threads -> {"idle", "get", "construct", "record_or_get",
                              "exists", "release", "rename"}]
    /\ id_obj \in [Threads -> Objects \cup {None}] /\ old_id \in [Threads -> Ids \cup {None}]
    /\ results \subseteq Ids \X Objects

\* A call is about an object of its thread, and about an id; one that got as
\* far as giving the old id back has computed the new one.
Handles ==
    \A t \in Threads : id_pc[t] # "idle" =>
        /\ id_obj[t] \in Objects /\ OwnerOf[id_obj[t]] = t /\ old_id[t] \in Ids
        /\ id_pc[t] \in {"release", "rename"} => cached[id_obj[t]] = identity[id_obj[t]]

\* Until there is a registry nothing is recorded, and creations alone are
\* under way.
NotYet ==
    managers = 0 =>
        /\ id_map = [i \in Ids |-> None] /\ obj_map = [o \in Objects |-> None] /\ results = {}
        /\ \A t \in Threads : id_pc[t] \in {"idle", "get", "construct"}

\* What is cached is the id the attributes make.
CachedIsIdentity == \A o \in Objects : cached[o] \in {None, identity[o]}

MapsInverse == \A i \in Ids, o \in Objects : id_map[i] = o <=> obj_map[o] = i

ResultsStand == \A r \in results : id_map[r[1]] = r[2]

\* The object of a call that will record it is not recorded; the one of a call
\* that will give the old id back is recorded under that id or not at all.
CallsKnow ==
    \A t \in Threads :
        /\ id_pc[t] \in {"get", "construct", "record_or_get"} =>
             obj_map[id_obj[t]] = None /\ cached[id_obj[t]] = old_id[t]
        /\ id_pc[t] \in {"exists", "release"} => obj_map[id_obj[t]] \in {None, old_id[t]}
        /\ id_pc[t] = "rename" => obj_map[id_obj[t]] = None

\* An object that is recorded, and not being changed, has its id cached.
RecordedIsCached ==
    \A o \in Objects : obj_map[o] # None /\ ~Changing(o) => cached[o] = obj_map[o]

Recorded == MapsInverse /\ ResultsStand /\ CallsKnow /\ RecordedIsCached

RegistryInv == Typed /\ Handles /\ NotYet /\ CachedIsIdentity /\ (MadeOnce => Recorded)

-----------------------------------------------------------------------------
\* A record under an id that is free, of an object that is recorded nowhere,
\* leaves the maps inverse and what was recorded as it was.
LEMMA RecordOrGetKeeps ==
    ASSUME Typed, MapsInverse, ResultsStand, NEW i \in Ids, NEW o \in Objects,
           obj_map[o] = None, RecordOrGet(i, o)
    PROVE  /\ id_map' \in [Ids -> Objects \cup {None}]
           /\ obj_map' \in [Objects -> Ids \cup {None}]
           /\ MapsInverse'
           /\ id_map'[i] \in Objects
           /\ \A j \in Ids : id_map[j] # None => id_map'[j] = id_map[j]
           /\ \A p \in Objects : p # o => obj_map'[p] = obj_map[p]
           /\ obj_map'[o] \in {None, i}
BY NoneAssumption DEF Typed, MapsInverse, RecordOrGet, maps

\* Giving an id back leaves the maps inverse; only whoever was recorded under
\* it is recorded no more.
LEMMA TryReleaseKeeps ==
    ASSUME Typed, MapsInverse, NEW i \in Ids, TryRelease(i)
    PROVE  /\ id_map' \in [Ids -> Objects \cup {None}]
           /\ obj_map' \in [Objects -> Ids \cup {None}]
           /\ MapsInverse'
           /\ \A j \in Ids : j # i => id_map'[j] = id_map[j]
           /\ \A p \in Objects : obj_map'[p] \in {None, obj_map[p]} /\ obj_map'[p] # i
BY NoneAssumption DEF Typed, MapsInverse, TryRelease, maps

LEMMA InitEstablishes == ASSUME RegistryInit PROVE RegistryInv
BY NoneAssumption DEF RegistryInit, RegistryInv, Typed, Handles, NotYet, CachedIsIdentity,
     Recorded, MapsInverse, ResultsStand, CallsKnow, RecordedIsCached

\* A creation begins with an object that is recorded nowhere.
LEMMA CreateKeeps == ASSUME RegistryInv, NEW t \in Threads, Create(t) PROVE RegistryInv'
<1>. USE DEF RegistryInv, maps
<1>1. PICK o \in Objects :
        /\ OwnerOf[o] = t /\ obj_map[o] = None
        /\ cached' = [cached EXCEPT ![o] = IF @ = None THEN identity[o] ELSE @]
        /\ id_obj' = [id_obj EXCEPT ![t] = o]
        /\ old_id' = [old_id EXCEPT ![t] = cached'[o]]
  BY DEF Create
<1>2. /\ id_pc[t] = "idle" /\ id_pc' = [id_pc EXCEPT ![t] = "get"]
      /\ UNCHANGED <<managers, id_map, obj_map, identity, results>>
  BY DEF Create, IdGoto
<1>3. cached'[o] = identity[o] /\ \A p \in Objects : p # o => cached'[p] = cached[p]
  BY <1>1 DEF Typed, CachedIsIdentity
<1>4. Typed'
  BY <1>1, <1>2, <1>3 DEF Typed
<1>5. \A u \in Threads : id_pc[u] # "idle" => u # t /\ id_obj[u] # o
  BY <1>1, <1>2 DEF Handles
<1>6. Handles'
  BY <1>1, <1>2, <1>3, <1>5 DEF Handles, Typed
<1>7. NotYet' /\ CachedIsIdentity'
  BY <1>1, <1>2, <1>3 DEF NotYet, CachedIsIdentity, Typed
<1>8. MadeOnce' => MadeOnce
  BY <1>2 DEF MadeOnce, Typed
<1>9. ASSUME MadeOnce PROVE Recorded'
  <2>1. MapsInverse' /\ ResultsStand'
    BY <1>2, <1>9 DEF Recorded, MapsInverse, ResultsStand
  <2>2. CallsKnow'
    BY <1>1, <1>2, <1>3, <1>5, <1>9 DEF Recorded, CallsKnow, Typed, Handles
  <2>3. RecordedIsCached'
    BY <1>1, <1>2, <1>3, <1>9, OwnerAssumption DEF Recorded, RecordedIsCached, Changing, Typed
  <2>. QED  BY <2>1, <2>2, <2>3 DEF Recorded
<1>. QED  BY <1>4, <1>6, <1>7, <1>8, <1>9

LEMMA GetManagerKeeps == ASSUME RegistryInv, NEW t \in Threads, GetManager(t) PROVE RegistryInv'
<1>. USE DEF RegistryInv, GetManager, IdGoto, maps
<1>1. Typed' /\ Handles'
  BY DEF Typed, Handles
<1>2. NotYet' /\ CachedIsIdentity'
  BY DEF NotYet, CachedIsIdentity, Typed
<1>3. MadeOnce' => MadeOnce
  BY DEF MadeOnce, Typed
<1>4. ASSUME MadeOnce PROVE Recorded'
  <2>1. MapsInverse' /\ ResultsStand'
    BY <1>4 DEF Recorded, MapsInverse, ResultsStand
  <2>2. CallsKnow'
    BY <1>4 DEF Recorded, CallsKnow, Typed
  <2>3. \A o \in Objects : Changing(o)' <=> Changing(o)
    BY OwnerAssumption DEF Changing, Typed
  <2>4. RecordedIsCached'
    BY <1>4, <2>3 DEF Recorded, RecordedIsCached
  <2>. QED  BY <2>1, <2>2, <2>4 DEF Recorded
<1>. QED  BY <1>1, <1>2, <1>3, <1>4

\* Only the first construction is one after which the registry was made once.
LEMMA ConstructKeeps == ASSUME RegistryInv, NEW t \in Threads, Construct(t) PROVE RegistryInv'
<1>. USE DEF RegistryInv, Construct, IdGoto
<1>1. Typed' /\ Handles'
  BY DEF Typed, Handles
<1>2. NotYet' /\ CachedIsIdentity'
  BY DEF NotYet, CachedIsIdentity, Typed
<1>3. ASSUME MadeOnce' PROVE Recorded'
  <2>1. managers = 0 /\ MadeOnce
    BY <1>3 DEF MadeOnce, Typed
  <2>2. /\ \A i \in Ids : id_map'[i] = None
        /\ \A o \in Objects : obj_map'[o] = None
        /\ results' = {}
    BY <2>1 DEF NotYet
  <2>3. MapsInverse' /\ ResultsStand' /\ RecordedIsCached'
    BY <2>2, NoneAssumption DEF MapsInverse, ResultsStand, RecordedIsCached
  <2>4. CallsKnow'
    BY <2>1, <2>2 DEF Recorded, CallsKnow, Typed, NotYet, Handles
  <2>. QED  BY <2>3, <2>4 DEF Recorded
<1>. QED  BY <1>1, <1>2, <1>3

\* The object is recorded, or somebody else has been under this id.
LEMMA CreatedKeeps == ASSUME RegistryInv, NEW t \in Threads, Created(t) PROVE RegistryInv'
<1>. DEFINE i == old_id[t]
            o == id_obj[t]
<1>. USE DEF RegistryInv
<1>1. /\ id_pc[t] = "record_or_get" /\ id_pc' = [id_pc EXCEPT ![t] = "idle"]
      /\ RecordOrGet(i, o)
      /\ results' = results \cup {<<i, id_map'[i]>>}
      /\ UNCHANGED <<managers, identity, cached, id_obj, old_id>>
  BY DEF Created, IdGoto
<1>2. i \in Ids /\ o \in Objects /\ OwnerOf[o] = t
  BY <1>1 DEF Handles
<1>3. /\ id_map' \in [Ids -> Objects \cup {None}] /\ obj_map' \in [Objects -> Ids \cup {None}]
      /\ id_map'[i] \in Objects
  BY <1>1, <1>2 DEF RecordOrGet, Typed, maps
<1>4. Typed'
  BY <1>1, <1>2, <1>3 DEF Typed
<1>5. Handles'
  BY <1>1 DEF Handles, Typed
<1>6. managers # 0
  BY <1>1 DEF NotYet
<1>7. NotYet' /\ CachedIsIdentity'
  BY <1>1, <1>6 DEF NotYet, CachedIsIdentity
<1>8. MadeOnce' => MadeOnce
  BY <1>1 DEF MadeOnce, Typed
<1>9. ASSUME MadeOnce PROVE Recorded'
  <2>1. MapsInverse /\ ResultsStand /\ obj_map[o] = None /\ cached[o] = i
    BY <1>1, <1>9 DEF Recorded, CallsKnow
  <2>2. /\ MapsInverse'
        /\ \A j \in Ids : id_map[j] # None => id_map'[j] = id_map[j]
        /\ \A p \in Objects : p # o => obj_map'[p] = obj_map[p]
        /\ obj_map'[o] \in {None, i}
    BY <1>1, <1>2, <2>1, RecordOrGetKeeps
  <2>3. ResultsStand'
    <3>. SUFFICES ASSUME NEW r \in results' PROVE id_map'[r[1]] = r[2]
      BY DEF ResultsStand
    <3>1. CASE r = <<i, id_map'[i]>>
      BY <3>1
    <3>2. CASE r \in results
      <4>1. id_map[r[1]] = r[2] /\ r[1] \in Ids /\ r[2] \in Objects
        BY <2>1, <3>2 DEF ResultsStand, Typed
      <4>. QED  BY <2>2, <4>1, NoneAssumption
    <3>. QED  BY <1>1, <3>1, <3>2
  <2>4. \A u \in Threads : u # t /\ id_pc[u] # "idle" => id_obj[u] \in Objects /\ id_obj[u] # o
    BY <1>2 DEF Handles
  <2>5. CallsKnow'
    BY <1>1, <1>9, <2>2, <2>4 DEF Recorded, CallsKnow, Typed
  <2>6. RecordedIsCached'
    <3>. SUFFICES ASSUME NEW p \in Objects, obj_map'[p] # None, ~Changing(p)'
                  PROVE  cached'[p] = obj_map'[p]
      BY DEF RecordedIsCached
    <3>1. CASE p = o
      BY <1>1, <2>1, <2>2, <3>1
    <3>2. CASE p # o
      <4>1. ~Changing(p)
        BY <1>1, <3>2, OwnerAssumption DEF Changing, Typed
      <4>. QED  BY <1>1, <1>9, <2>2, <3>2, <4>1 DEF Recorded, RecordedIsCached
    <3>. QED  BY <3>1, <3>2
  <2>. QED  BY <2>2, <2>3, <2>5, <2>6 DEF Recorded
<1>. QED  BY <1>4, <1>5, <1>7, <1>8, <1>9

\* The attribute is set and the cached id taken away in one step of the model:
\* the object is its thread's.
LEMMA SetAttrKeeps == ASSUME RegistryInv, NEW t \in Threads, SetAttr(t) PROVE RegistryInv'
<1>. USE DEF RegistryInv, maps
<1>1. PICK o \in Objects, i \in Ids :
        /\ OwnerOf[o] = t
        /\ IdGoto(t, "idle", IF cached[o] = None THEN "idle" ELSE "exists")
        /\ identity' = [identity EXCEPT ![o] = i]
        /\ old_id' = [old_id EXCEPT ![t] = cached[o]]
        /\ cached' = [cached EXCEPT ![o] = None]
        /\ id_obj' = [id_obj EXCEPT ![t] = o]
  BY DEF SetAttr
<1>2. /\ managers # 0 /\ UNCHANGED <<managers, id_map, obj_map, results>>
      /\ id_pc[t] = "idle"
      /\ id_pc' = [id_pc EXCEPT ![t] = IF cached[o] = None THEN "idle" ELSE "exists"]
  BY <1>1 DEF SetAttr, IdGoto, Typed
<1>3. Typed'
  BY <1>1, <1>2 DEF Typed
<1>4. \A u \in Threads : id_pc[u] # "idle" => u # t /\ id_obj[u] # o
  BY <1>1, <1>2 DEF Handles
<1>5. Handles'
  BY <1>1, <1>2, <1>4 DEF Handles, Typed
<1>6. NotYet' /\ CachedIsIdentity'
  BY <1>1, <1>2 DEF NotYet, CachedIsIdentity, Typed
<1>7. MadeOnce' => MadeOnce
  BY <1>1, <1>2 DEF MadeOnce, Typed
<1>8. ASSUME MadeOnce PROVE Recorded'
  <2>1. MapsInverse' /\ ResultsStand'
    BY <1>2, <1>8 DEF Recorded, MapsInverse, ResultsStand
  <2>2. obj_map[o] \in {None, cached[o]}
    BY <1>1, <1>2, <1>8 DEF Recorded, RecordedIsCached, Changing
  <2>3. CallsKnow'
    BY <1>1, <1>2, <1>4, <1>8, <2>2 DEF Recorded, CallsKnow, Typed, Handles
  <2>4. RecordedIsCached'
    BY <1>1, <1>2, <1>8, <2>2, OwnerAssumption DEF Recorded, RecordedIsCached, Changing, Typed
  <2>. QED  BY <2>1, <2>3, <2>4 DEF Recorded
<1>. QED  BY <1>3, <1>5, <1>6, <1>7, <1>8

\* If nobody is recorded under the old id the object is recorded nowhere.
LEMMA ExistsKeeps == ASSUME RegistryInv, NEW t \in Threads, Exists(t) PROVE RegistryInv'
<1>. DEFINE o == id_obj[t]
<1>. USE DEF RegistryInv
<1>1. /\ id_pc[t] = "exists"
      /\ UNCHANGED <<managers, id_map, obj_map, identity, id_obj, old_id, results>>
  BY DEF Exists, maps
<1>2. \/ /\ id_map[old_id[t]] = None /\ id_pc' = [id_pc EXCEPT ![t] = "idle"]
         /\ UNCHANGED cached
      \/ /\ id_map[old_id[t]] # None
         /\ id_pc' = [id_pc EXCEPT ![t] = IF identity[o] = old_id[t] THEN "idle" ELSE "release"]
         /\ cached' = [cached EXCEPT ![o] = identity[o]]
  BY DEF Exists, IdGoto
<1>3. o \in Objects /\ OwnerOf[o] = t /\ old_id[t] \in Ids
  BY <1>1 DEF Handles
<1>4. Typed'
  BY <1>1, <1>2, <1>3 DEF Typed
<1>5. \A u \in Threads : u # t /\ id_pc[u] # "idle" => id_obj[u] # o
  BY <1>3 DEF Handles
<1>6. Handles'
  BY <1>1, <1>2, <1>3, <1>5 DEF Handles, Typed
<1>7. NotYet' /\ CachedIsIdentity'
  BY <1>1, <1>2, <1>3 DEF NotYet, CachedIsIdentity, Typed
<1>8. MadeOnce' => MadeOnce
  BY <1>1, <1>2 DEF MadeOnce, Typed
<1>9. ASSUME MadeOnce PROVE Recorded'
  <2>1. MapsInverse' /\ ResultsStand'
    BY <1>1, <1>9 DEF Recorded, MapsInverse, ResultsStand
  <2>2. obj_map[o] \in {None, old_id[t]} /\ (id_map[old_id[t]] = None => obj_map[o] = None)
    BY <1>1, <1>3, <1>9, NoneAssumption DEF Recorded, CallsKnow, MapsInverse
  <2>3. \A p \in Objects : p # o => cached'[p] = cached[p]
    BY <1>2, <1>3 DEF Typed
  <2>4. CallsKnow'
    BY <1>1, <1>2, <1>5, <1>9, <2>3 DEF Recorded, CallsKnow, Typed, Handles
  <2>5. RecordedIsCached'
    <3>. SUFFICES ASSUME NEW p \in Objects, obj_map'[p] # None, ~Changing(p)'
                  PROVE  cached'[p] = obj_map'[p]
      BY DEF RecordedIsCached
    <3>1. CASE p = o
      BY <1>1, <1>2, <1>3, <2>2, <3>1 DEF Changing, Typed
    <3>2. CASE p # o
      <4>1. ~Changing(p)
        BY <1>1, <1>2, <3>2, OwnerAssumption DEF Changing, Typed
      <4>. QED  BY <1>1, <1>9, <2>3, <3>2, <4>1 DEF Recorded, RecordedIsCached
    <3>. QED  BY <3>1, <3>2
  <2>. QED  BY <2>1, <2>4, <2>5 DEF Recorded
<1>. QED  BY <1>4, <1>6, <1>7, <1>8, <1>9

\* Whoever is recorded under the old id is given up: this object, if it is
\* recorded at all.
LEMMA ReleaseKeeps == ASSUME RegistryInv, NEW t \in Threads, Release(t) PROVE RegistryInv'
<1>. DEFINE i == old_id[t]
            o == id_obj[t]
<1>. USE DEF RegistryInv
<1>1. /\ id_pc[t] = "release" /\ id_pc' = [id_pc EXCEPT ![t] = "rename"]
      /\ TryRelease(i)
      /\ results' = {r \in results : r[1] # i}
      /\ UNCHANGED <<managers, identity, cached, id_obj, old_id>>
  BY DEF Release, IdGoto
<1>2. i \in Ids /\ o \in Objects /\ OwnerOf[o] = t
  BY <1>1 DEF Handles
<1>3. /\ id_map' \in [Ids -> Objects \cup {None}] /\ obj_map' \in [Objects -> Ids \cup {None}]
  BY <1>1, <1>2 DEF TryRelease, Typed, maps
<1>4. Typed'
  BY <1>1, <1>3 DEF Typed
<1>5. Handles'
  BY <1>1 DEF Handles, Typed
<1>6. managers # 0
  BY <1>1 DEF NotYet
<1>7. NotYet' /\ CachedIsIdentity'
  BY <1>1, <1>6 DEF NotYet, CachedIsIdentity
<1>8. MadeOnce' => MadeOnce
  BY <1>1 DEF MadeOnce, Typed
<1>9. ASSUME MadeOnce PROVE Recorded'
  <2>1. /\ MapsInverse'
        /\ \A j \in Ids : j # i => id_map'[j] = id_map[j]
        /\ \A p \in Objects : obj_map'[p] \in {None, obj_map[p]} /\ obj_map'[p] # i
    BY <1>1, <1>2, <1>9, TryReleaseKeeps DEF Recorded
  <2>2. obj_map'[o] = None
    BY <1>1, <1>2, <1>9, <2>1 DEF Recorded, CallsKnow
  <2>3. ResultsStand'
    BY <1>1, <1>9, <2>1 DEF Recorded, ResultsStand, Typed
  <2>4. CallsKnow'
    BY <1>1, <1>9, <2>1, <2>2 DEF Recorded, CallsKnow, Typed, Handles
  <2>5. RecordedIsCached'
    <3>. SUFFICES ASSUME NEW p \in Objects, obj_map'[p] # None, ~Changing(p)'
                  PROVE  cached'[p] = obj_map'[p]
      BY DEF RecordedIsCached
    <3>1. p # o /\ obj_map'[p] = obj_map[p]
      BY <2>1, <2>2
    <3>2. ~Changing(p)
      BY <1>1, <3>1, OwnerAssumption DEF Changing, Typed
    <3>. QED  BY <1>1, <1>9, <3>1, <3>2 DEF Recorded, RecordedIsCached
  <2>. QED  BY <2>1, <2>3, <2>4, <2>5 DEF Recorded
<1>. QED  BY <1>4, <1>5, <1>7, <1>8, <1>9

LEMMA RenameKeeps == ASSUME RegistryInv, NEW t \in Threads, Rename(t) PROVE RegistryInv'
<1>. DEFINE o == id_obj[t]
            i == cached[o]
<1>. USE DEF RegistryInv
<1>1. /\ id_pc[t] = "rename" /\ id_pc' = [id_pc EXCEPT ![t] = "idle"]
      /\ RecordOrGet(i, o)
      /\ UNCHANGED <<managers, identity, cached, id_obj, old_id, results>>
  BY DEF Rename, IdGoto
<1>2. o \in Objects /\ OwnerOf[o] = t /\ i \in Ids
  BY <1>1 DEF Handles, Typed
<1>3. id_map' \in [Ids -> Objects \cup {None}] /\ obj_map' \in [Objects -> Ids \cup {None}]
  BY <1>1, <1>2 DEF RecordOrGet, Typed, maps
<1>4. Typed'
  BY <1>1, <1>3 DEF Typed
<1>5. Handles'
  BY <1>1 DEF Handles, Typed
<1>6. managers # 0
  BY <1>1 DEF NotYet
<1>7. NotYet' /\ CachedIsIdentity'
  BY <1>1, <1>6 DEF NotYet, CachedIsIdentity
<1>8. MadeOnce' => MadeOnce
  BY <1>1 DEF MadeOnce, Typed
<1>9. ASSUME MadeOnce PROVE Recorded'
  <2>1. MapsInverse /\ ResultsStand /\ obj_map[o] = None
    BY <1>1, <1>9 DEF Recorded, CallsKnow
  <2>2. /\ MapsInverse'
        /\ \A j \in Ids : id_map[j] # None => id_map'[j] = id_map[j]
        /\ \A p \in Objects : p # o => obj_map'[p] = obj_map[p]
        /\ obj_map'[o] \in {None, i}
    BY <1>1, <1>2, <2>1, RecordOrGetKeeps
  <2>3. ResultsStand'
    BY <1>1, <2>1, <2>2, NoneAssumption DEF ResultsStand, Typed
  <2>4. \A u \in Threads : u # t /\ id_pc[u] # "idle" => id_obj[u] \in Objects /\ id_obj[u] # o
    BY <1>2 DEF Handles
  <2>5. CallsKnow'
    BY <1>1, <1>9, <2>2, <2>4 DEF Recorded, CallsKnow, Typed
  <2>6. RecordedIsCached'
    <3>. SUFFICES ASSUME NEW p \in Objects, obj_map'[p] # None, ~Changing(p)'
                  PROVE  cached'[p] = obj_map'[p]
      BY DEF RecordedIsCached
    <3>1. CASE p = o
      BY <1>1, <2>2, <3>1
    <3>2. CASE p # o
      <4>1. ~Changing(p)
        BY <1>1, <3>2, OwnerAssumption DEF Changing, Typed
      <4>. QED  BY <1>1, <1>9, <2>2, <3>2, <4>1 DEF Recorded, RecordedIsCached
    <3>. QED  BY <3>1, <3>2
  <2>. QED  BY <2>2, <2>3, <2>5, <2>6 DEF Recorded
<1>. QED  BY <1>4, <1>5, <1>7, <1>8, <1>9

LEMMA StutterKeeps == ASSUME RegistryInv, UNCHANGED id_vars PROVE RegistryInv'
BY DEF RegistryInv, Typed, Handles, NotYet, CachedIsIdentity, MadeOnce, Recorded, MapsInverse,
       ResultsStand, CallsKnow, RecordedIsCached, Changing, id_vars, maps, id_call
-----------------------------------------------------------------------------
(* Theorems *)

LEMMA RegistryStep == RegistryInv /\ [RegistryNext]_id_vars => RegistryInv'
BY CreateKeeps, GetManagerKeeps, ConstructKeeps, CreatedKeeps, SetAttrKeeps, ExistsKeeps,
   ReleaseKeeps, RenameKeeps, StutterKeeps DEF RegistryNext

LEMMA RegistryIdentity == RegistryInv => IdentityKept
<1>. SUFFICES ASSUME RegistryInv PROVE IdentityKept
  OBVIOUS
<1>1. RegistryConsistent
  <2>. SUFFICES ASSUME MadeOnce, NEW i \in Ids, id_map[i] # None, ~Changing(id_map[i])
                PROVE  identity[id_map[i]] = i
    BY DEF RegistryConsistent, RegistryInv, Recorded, MapsInverse
  <2>1. id_map[i] \in Objects
    BY DEF RegistryInv, Typed
  <2>2. obj_map[id_map[i]] = i
    BY <2>1 DEF RegistryInv, Recorded, MapsInverse
  <2>3. cached[id_map[i]] = i
    BY <2>1, <2>2, NoneAssumption DEF RegistryInv, Recorded, RecordedIsCached
  <2>. QED  BY <2>1, <2>3, NoneAssumption DEF RegistryInv, CachedIsIdentity
<1>2. OneObjectPerId
  BY DEF RegistryInv, Recorded, ResultsStand, OneObjectPerId
<1>. QED  BY <1>1, <1>2 DEF IdentityKept

\* The inductive invariant of the registry.
THEOREM Invariance == RegistrySpec => []RegistryInv
BY InitEstablishes, RegistryStep, PTL DEF RegistrySpec

\* Although an entity gives its old id back and takes the new one in two steps,
\* and looks before that without the lock, the registry and the identities do
\* not drift apart, and all who ask for one id get the same object.
THEOREM RegistryKeepsIdentity == RegistrySpec => []IdentityKept
BY RegistryIdentity, Invariance, PTL
-----------------------------------------------------------------------------
(* Entities under way from host to host. *)

\* What is right of an object of host h: NamesOrigin and DetailsOfOrigin.
Right(o, h) ==
    /\ o.space = Local => o.origin = h
    /\ \A g \in Peers : Owns(g, o.space) => o.origin = g
    /\ \A f \in o.knew : o.details[f] = o.origin

\* The objects R recorded on host h.
Sound(R, h) ==
    /\ R \subseteq Entities /\ \A o \in R : Right(o, h)
    /\ \A o, p \in R : Global_Id(o) = Global_Id(p) => o = p

\* A graph of these objects that has the ends of its edges.
Made(g, S) == g \in GraphsOver(S) /\ Endpoints(g.edges) \subseteq g.nodes

Foreign(h) == {o \in registry[h] : o.space # Local}

ExchangeSound ==
    /\ address \in Addresses /\ finds \in Nat /\ fetches \in Nat
    /\ registry \in [Peers -> SUBSET Entities] /\ \A h \in Peers : Sound(registry[h], h)

GraphsSound ==
    /\ growing \in [Peers -> GraphsOver(Entities)] /\ latest \in [Peers -> GraphsOver(Entities)]
    /\ synced \in [Syncs -> GraphsOver(Entities)]
    /\ \A h \in Peers : Made(growing[h], registry[h]) /\ Made(latest[h], registry[h])
    /\ \A t \in Syncs : Made(synced[t], Foreign(t[1]))

\* A thread is in the namespace of the host whose graph it receives, and what
\* it has still to make of it are objects of that host.
ReceivingSound ==
    /\ receiving \subseteq Syncs
    /\ stack = [w \in Workers |-> IF w \in receiving THEN <<w[2]>> ELSE <<>>]
    /\ inbox \in [Syncs -> GraphsOver(Entities)] /\ built \in [Syncs -> GraphsOver(Entities)]
    /\ \A t \in Syncs :
        inbox[t] \in GraphsOver(registry[t[2]]) /\ built[t] \in GraphsOver(Foreign(t[1]))

ExchangeInv == ExchangeSound /\ GraphsSound /\ ReceivingSound

LEMMA EntityFacts ==
    ASSUME NEW e \in Entities
    PROVE  /\ e.space \in Spaces /\ e.thing \in Things /\ e.origin \in Peers
           /\ e.details \in [LookedUp[e.thing] -> Peers \cup {Missing}]
           /\ e.knew \subseteq LookedUp[e.thing]
           /\ e = [space |-> e.space, thing |-> e.thing, origin |-> e.origin,
                   details |-> e.details, knew |-> e.knew]
<1>1. e.details \in UNION {[LookedUp[k] -> Peers \cup {Missing}] : k \in Things}
      /\ DOMAIN e.details = LookedUp[e.thing]
  BY DEF Entities
<1>2. PICK k \in Things : e.details \in [LookedUp[k] -> Peers \cup {Missing}]
  BY <1>1
<1>3. e.details \in [LookedUp[e.thing] -> Peers \cup {Missing}]
  BY <1>1, <1>2
<1>. QED
  BY <1>3 DEF Entities

\* An entity is made of a namespace, a thing of some origin, details for all the
\* fields that are looked up, and some fields known.
LEMMA EntityOf ==
    ASSUME NEW s \in Spaces, NEW k \in Things, NEW h \in Peers,
           NEW d \in [LookedUp[k] -> Peers \cup {Missing}], NEW F \in SUBSET LookedUp[k]
    PROVE  [space |-> s, thing |-> k, origin |-> h, details |-> d, knew |-> F] \in Entities
<1>1. d \in UNION {[LookedUp[j] -> Peers \cup {Missing}] : j \in Things}
  OBVIOUS
<1>2. F \in SUBSET UNION {LookedUp[j] : j \in Things}
  OBVIOUS
<1>3. DOMAIN d = LookedUp[k]
  OBVIOUS
<1>. QED
  BY <1>1, <1>2, <1>3 DEF Entities

\* The address of a host is a namespace, and not the one for its own entities.
LEMMA AddressFacts ==
    ASSUME address \in Addresses, NEW h \in Peers
    PROVE  address[h] \in Spaces /\ address[h] # Local
BY ExchangeAssumption DEF Spaces

\* record_or_get leaves the registry sound, and returns what is recorded under
\* the id asked for.
LEMMA RecordKeeps ==
    ASSUME NEW h \in Peers, NEW R, Sound(R, h), NEW e \in Entities, Right(e, h)
    PROVE  /\ Sound(R \cup {RecordOrGetEntity(R, e)}, h)
           /\ Global_Id(RecordOrGetEntity(R, e)) = Global_Id(e)
           /\ RecordOrGetEntity(R, e) \in Entities
<1>. DEFINE o == RecordOrGetEntity(R, e)
<1>1. CASE \E p \in R : Global_Id(p) = Global_Id(e)
  <2>1. o \in R /\ Global_Id(o) = Global_Id(e)
    BY <1>1 DEF RecordOrGetEntity
  <2>2. R \cup {o} = R
    BY <2>1
  <2>. HIDE DEF o
  <2>3. o \in Entities
    BY <2>1 DEF Sound
  <2>. QED
    BY <2>1, <2>2, <2>3 DEF o
<1>2. CASE ~\E p \in R : Global_Id(p) = Global_Id(e)
  <2>1. o = e
    BY <1>2 DEF RecordOrGetEntity
  <2>2. Sound(R \cup {e}, h)
    BY <1>2 DEF Sound
  <2>. QED
    BY <2>1, <2>2
<1>. QED
  BY <1>1, <1>2

\* An id has the namespace in it.
LEMMA SameIdSameSpace ==
    ASSUME NEW e, NEW o, Global_Id(o) = Global_Id(e)
    PROVE  o.space = e.space
BY DEF Global_Id

\* Whatever a collector finds is recorded, and right.
LEMMA FindKeeps ==
    ASSUME ExchangeInv, NEW h \in Peers, NEW k \in Things, NEW n \in Find(k, h)
    PROVE  Sound(registry[h] \cup {n}, h)
<1>. DEFINE w == <<h, Loop>>
            b == Bare(k, h)
<1>1. PICK p \in Placed(b, w) : n = RecordOrGetEntity(registry[h], Knowing(p))
  BY DEF Find
<1>2. stack[w] = <<>>
  <2>1. w \in Workers /\ w \notin Syncs
    BY ExchangeAssumption DEF Workers
  <2>. QED
    BY <2>1 DEF ExchangeInv, ReceivingSound
<1>3. /\ b.space = Local /\ b.thing = k /\ b.origin = h /\ b.knew = {}
      /\ b.details = [f \in LookedUp[k] |-> Missing]
  BY DEF Bare
<1>4. PICK d \in Completions(b, h) :
        p = [b EXCEPT !.space = IF b.space = Local THEN Namespace(w) ELSE b.space, !.details = d]
  BY <1>1 DEF Placed
<1>5. p = [space |-> Local, thing |-> k, origin |-> h, details |-> d, knew |-> {}]
  BY <1>2, <1>4 DEF Namespace, Bare
<1>6. d \in [LookedUp[k] -> Peers \cup {Missing}] /\ \A f \in LookedUp[k] : d[f] \in {h, Missing}
  BY <1>3, <1>4 DEF Completions
<1>. DEFINE F == {f \in LookedUp[k] : d[f] # Missing}
<1>7. Knowing(p) = [space |-> Local, thing |-> k, origin |-> h, details |-> d, knew |-> F]
  BY <1>5 DEF Knowing
<1>8. Local \in Spaces
  BY DEF Spaces
<1>9. Knowing(p) \in Entities
  BY <1>6, <1>7, <1>8, EntityOf
<1>10. Right(Knowing(p), h)
  <2>1. \A g \in Peers : ~Owns(g, Local)
    BY AddressFacts DEF Owns, ExchangeInv, ExchangeSound
  <2>. QED
    BY <1>6, <1>7, <2>1 DEF Right
<1>11. Sound(registry[h], h)
  BY DEF ExchangeInv, ExchangeSound
<1>. QED
  BY <1>1, <1>9, <1>10, <1>11, RecordKeeps

\* What a thread makes of an entity of the host it collects from is recorded,
\* right, and not local: R are the objects of its own host, and more.
LEMMA CreateRight ==
    ASSUME ExchangeInv, NEW t \in receiving, NEW R, Sound(R, t[1]),
           NEW e \in registry[t[2]], NEW o \in CreateEntity(R, e, t)
    PROVE  Sound(R \cup {o}, t[1]) /\ o.space # Local
<1>. DEFINE h == t[1]
            s == t[2]
<1>1. t \in Syncs /\ h \in Peers /\ s \in Peers /\ t \in Workers
  BY ExchangeAssumption DEF ExchangeInv, ReceivingSound, Workers
<1>2. e \in Entities /\ Right(e, s)
  BY <1>1 DEF ExchangeInv, ExchangeSound, Sound
<1>3. Namespace(t) = address[s]
  BY <1>1 DEF ExchangeInv, ReceivingSound, Namespace
<1>4. address[s] \in Spaces /\ address[s] # Local
  BY <1>1, AddressFacts DEF ExchangeInv, ExchangeSound
<1>5. PICK p \in Placed(e, t) : o = RecordOrGetEntity(R, p)
  BY DEF CreateEntity
<1>6. PICK d \in Completions(e, h) :
        p = [e EXCEPT !.space = IF e.space = Local THEN Namespace(t) ELSE e.space, !.details = d]
  BY <1>5 DEF Placed
<1>. DEFINE sp == IF e.space = Local THEN address[s] ELSE e.space
<1>7. p = [space |-> sp, thing |-> e.thing, origin |-> e.origin, details |-> d, knew |-> e.knew]
  <2>1. e = [space |-> e.space, thing |-> e.thing, origin |-> e.origin,
             details |-> e.details, knew |-> e.knew]
    BY <1>2, EntityFacts
  <2>. QED
    BY <1>3, <1>6, <2>1
<1>8. sp \in Spaces /\ sp # Local
  BY <1>2, <1>4, EntityFacts
<1>9. /\ e.thing \in Things /\ e.origin \in Peers /\ e.knew \subseteq LookedUp[e.thing]
      /\ d \in [LookedUp[e.thing] -> Peers \cup {Missing}]
  BY <1>2, <1>6, EntityFacts DEF Completions
<1>10. p \in Entities
  <2>. HIDE DEF sp
  <2>. QED
    BY <1>7, <1>8, <1>9, EntityOf
<1>11. Right(p, h)
  <2>1. ASSUME NEW g \in Peers, Owns(g, sp) PROVE e.origin = g
    BY <1>1, <1>2, <2>1 DEF Right, Owns
  <2>2. ASSUME NEW f \in e.knew PROVE d[f] = e.origin
    <3>1. e.details[f] = e.origin /\ e.details[f] # Missing /\ f \in LookedUp[e.thing]
      BY <1>2, <1>9, <2>2, ExchangeAssumption DEF Right
    <3>. QED
      BY <1>6, <3>1 DEF Completions
  <2>3. p.space = sp /\ p.origin = e.origin /\ p.knew = e.knew /\ p.details = d
    BY <1>7
  <2>. HIDE DEF sp
  <2>. QED
    BY <1>8, <2>1, <2>2, <2>3 DEF Right
<1>12. p.space # Local
  BY <1>7, <1>8
<1>13. Sound(R \cup {o}, h) /\ Global_Id(o) = Global_Id(p)
  BY <1>1, <1>5, <1>10, <1>11, RecordKeeps
<1>. QED
  BY <1>12, <1>13, SameIdSameSpace

\* Graphs of fewer objects are graphs of more.
LEMMA GraphsMonotone ==
    ASSUME NEW S, NEW T, S \subseteq T
    PROVE  /\ \A g \in GraphsOver(S) : g \in GraphsOver(T)
           /\ \A g : Made(g, S) => Made(g, T)
BY DEF GraphsOver, Made

\* The ends of edges between objects are objects.
LEMMA GraphOfMade ==
    ASSUME NEW S, NEW N \in SUBSET S, NEW E \in SUBSET (S \X S)
    PROVE  Made(GraphOf(N, E), S)
<1>1. Endpoints(E) \subseteq S
  BY DEF Endpoints
<1>. QED
  BY <1>1 DEF GraphOf, Made, GraphsOver

LEMMA MergeMade ==
    ASSUME NEW S, NEW G, \A g \in G : Made(g, S)
    PROVE  Made(MergeGraphs(G), S)
<1>1. UNION {g.nodes : g \in G} \in SUBSET S /\ UNION {g.edges : g \in G} \in SUBSET (S \X S)
  BY DEF Made, GraphsOver
<1>. QED
  BY <1>1, GraphOfMade DEF MergeGraphs

\* Where addresses stay, what was sound stays so.
LEMMA SoundStays ==
    ASSUME address' = address, NEW R, NEW h, Sound(R, h)
    PROVE  Sound(R, h)'
BY DEF Sound, Right, Owns

\* A host records more: everything sound stays so, and graphs of what was
\* recorded are graphs of what is recorded now.
LEMMA Growth ==
    ASSUME ExchangeInv, NEW h \in Peers, NEW X, Sound(registry[h] \cup X, h),
           registry' = [registry EXCEPT ![h] = @ \cup X],
           address' = address, finds' \in Nat, fetches' \in Nat
    PROVE  /\ ExchangeSound'
           /\ \A g \in Peers : registry[g] \subseteq registry'[g] /\ Foreign(g) \subseteq Foreign(g)'
           /\ registry'[h] = registry[h] \cup X
           /\ registry[h] \cup X \subseteq Entities
<1>1. registry \in [Peers -> SUBSET Entities] /\ registry[h] \cup X \subseteq Entities
  BY DEF ExchangeInv, ExchangeSound, Sound
<1>2. registry' \in [Peers -> SUBSET Entities] /\ registry'[h] = registry[h] \cup X
      /\ \A g \in Peers \ {h} : registry'[g] = registry[g]
  BY <1>1
<1>3. \A g \in Peers : registry[g] \subseteq registry'[g]
  BY <1>2
<1>4. \A g \in Peers : Sound(registry'[g], g)
  BY <1>2 DEF ExchangeInv, ExchangeSound
<1>5. \A g \in Peers : Sound(registry[g], g)'
  <2>1. TAKE g \in Peers
  <2>2. Sound(registry'[g], g)
    BY <1>4
  <2>. QED
    BY <2>2 DEF Sound, Right, Owns
<1>6. ExchangeSound'
  BY <1>2, <1>5 DEF ExchangeInv, ExchangeSound
<1>. QED
  BY <1>1, <1>2, <1>3, <1>6 DEF Foreign

\* The graphs of a host are of objects that it records, be there more of them.
LEMMA GraphsStay ==
    ASSUME ExchangeInv, \A g \in Peers : registry[g] \subseteq registry'[g],
           NEW g \in Peers, NEW grown
    PROVE  /\ Made(grown, registry[g]) => Made(grown, registry[g])'
           /\ Made(grown, Foreign(g)) => Made(grown, Foreign(g))'
           /\ grown \in GraphsOver(registry[g]) => grown \in GraphsOver(registry'[g])
           /\ grown \in GraphsOver(Foreign(g)) => grown \in GraphsOver(Foreign(g)')
BY DEF Foreign, Made, GraphsOver

\* The collection of host h finds one more entity.
LEMMA FoundKeeps ==
    ASSUME ExchangeInv, NEW h \in Peers, NEW e, Sound(registry[h] \cup {e}, h), NEW grown,
           Made(grown, registry[h] \cup {e}), Found(h, e, grown)
    PROVE  ExchangeInv'
<1>1. /\ registry' = [registry EXCEPT ![h] = @ \cup {e}] /\ growing' = [growing EXCEPT ![h] = grown]
      /\ address' = address /\ latest' = latest /\ synced' = synced /\ stack' = stack
      /\ receiving' = receiving /\ inbox' = inbox /\ built' = built
      /\ finds' \in Nat /\ fetches' \in Nat
  BY DEF Found, receiveVars, ExchangeInv, ExchangeSound
<1>2. /\ ExchangeSound' /\ \A g \in Peers : registry[g] \subseteq registry'[g]
      /\ registry'[h] = registry[h] \cup {e} /\ registry[h] \cup {e} \subseteq Entities
  BY <1>1, Growth
<1>3. \A t \in Syncs : t[1] \in Peers /\ t[2] \in Peers
  BY ExchangeAssumption
<1>4. growing' \in [Peers -> GraphsOver(Entities)]
  <2>1. grown \in GraphsOver(Entities)
    BY <1>2, GraphsMonotone DEF Made
  <2>. QED
    BY <1>1, <2>1 DEF ExchangeInv, GraphsSound
<1>5. \A g \in Peers : Made(growing'[g], registry'[g])
  <2>1. TAKE g \in Peers
  <2>2. growing'[g] = IF g = h THEN grown ELSE growing[g]
    BY <1>1 DEF ExchangeInv, GraphsSound
  <2>3. Made(growing[g], registry[g])
    BY DEF ExchangeInv, GraphsSound
  <2>. QED
    BY <1>2, <2>2, <2>3, GraphsMonotone
<1>6. GraphsSound'
  BY <1>1, <1>2, <1>3, <1>4, <1>5, GraphsStay DEF ExchangeInv, GraphsSound, Made
<1>7. ReceivingSound'
  BY <1>1, <1>2, <1>3, GraphsStay DEF ExchangeInv, ReceivingSound
<1>. QED
  BY <1>2, <1>6, <1>7 DEF ExchangeInv

LEMMA ExchangeInitially == ExchangeInit => ExchangeInv
<1>. SUFFICES ASSUME ExchangeInit PROVE ExchangeInv
  OBVIOUS
<1>1. \A S : EmptyGraph \in GraphsOver(S) /\ Made(EmptyGraph, S)
  BY DEF EmptyGraph, GraphsOver, Made, Endpoints
<1>2. ExchangeSound
  BY DEF ExchangeInit, ExchangeSound, Sound
<1>3. GraphsSound
  BY <1>1 DEF ExchangeInit, GraphsSound
<1>4. ReceivingSound
  BY <1>1 DEF ExchangeInit, ReceivingSound
<1>. QED
  BY <1>2, <1>3, <1>4 DEF ExchangeInv

LEMMA SeedGraphKeeps == ASSUME ExchangeInv, NEW h \in Peers, SeedGraph(h) PROVE ExchangeInv'
<1>. DEFINE G(e) == {GraphOf({e}, {})} \cup {synced[t] : t \in {u \in Syncs : u[1] = h}}
<1>1. PICK k \in Things : \E e \in Find(k, h) : Found(h, e, MergeGraphs(G(e)))
  BY DEF SeedGraph
<1>2. PICK e \in Find(k, h) : Found(h, e, MergeGraphs(G(e)))
  BY <1>1
<1>3. Sound(registry[h] \cup {e}, h)
  BY <1>2, FindKeeps
<1>. DEFINE S == registry[h] \cup {e}
<1>4. Made(GraphOf({e}, {}), S)
  BY GraphOfMade
<1>5. ASSUME NEW t \in Syncs, t[1] = h PROVE Made(synced[t], S)
  <2>1. Made(synced[t], Foreign(h)) /\ Foreign(h) \subseteq S
    BY <1>5 DEF ExchangeInv, GraphsSound, Foreign
  <2>. QED
    BY <2>1, GraphsMonotone
<1>6. \A g \in G(e) : Made(g, S)
  BY <1>4, <1>5
<1>7. Made(MergeGraphs(G(e)), S)
  <2>. HIDE DEF G, S
  <2>. QED
    BY <1>6, MergeMade
<1>. QED
  BY <1>2, <1>3, <1>7, FoundKeeps

LEMMA ExpandKeeps == ASSUME ExchangeInv, NEW h \in Peers, Expand(h) PROVE ExchangeInv'
<1>. DEFINE G(e, n) == GraphOf(growing[h].nodes \cup {n}, growing[h].edges \cup {<<e, n>>})
<1>1. PICK e \in growing[h].nodes : \E k \in Related[e.thing] : \E n \in Find(k, h) :
        Found(h, n, G(e, n))
  BY DEF Expand
<1>2. PICK k \in Related[e.thing] : \E n \in Find(k, h) : Found(h, n, G(e, n))
  BY <1>1
<1>3. PICK n \in Find(k, h) : Found(h, n, G(e, n))
  BY <1>2
<1>4. growing[h].nodes \subseteq registry[h] /\ growing[h].edges \subseteq registry[h] \X registry[h]
  BY DEF ExchangeInv, GraphsSound, Made, GraphsOver
<1>5. k \in Things
  <2>1. e \in Entities
    BY <1>4 DEF ExchangeInv, ExchangeSound
  <2>. QED
    BY <1>2, <2>1, EntityFacts, ExchangeAssumption
<1>6. Sound(registry[h] \cup {n}, h)
  BY <1>5, FindKeeps
<1>. DEFINE S == registry[h] \cup {n}
<1>7. /\ growing[h].nodes \cup {n} \in SUBSET S
      /\ growing[h].edges \cup {<<e, n>>} \in SUBSET (S \X S)
  BY <1>1, <1>4
<1>8. Made(G(e, n), S)
  <2>. HIDE DEF S
  <2>. QED
    BY <1>7, GraphOfMade
<1>. QED
  BY <1>3, <1>6, <1>8, FoundKeeps

\* The registries and addresses stay: so does all that is said of them.
LEMMA ExchangeStays ==
    ASSUME ExchangeInv, UNCHANGED <<address, registry>>, finds' \in Nat, fetches' \in Nat
    PROVE  ExchangeSound' /\ \A g \in Peers : Foreign(g)' = Foreign(g)
BY DEF ExchangeInv, ExchangeSound, Sound, Right, Owns, Foreign

LEMMA PublishGraphKeeps == ASSUME ExchangeInv, NEW h \in Peers, PublishGraph(h) PROVE ExchangeInv'
<1>1. /\ latest' = [latest EXCEPT ![h] = growing[h]]
      /\ UNCHANGED <<address, registry, growing, synced, stack, receiving, inbox, built>>
      /\ finds' \in Nat /\ fetches' \in Nat
  BY DEF PublishGraph, receiveVars, ExchangeInv, ExchangeSound
<1>2. ExchangeSound' /\ \A g \in Peers : Foreign(g)' = Foreign(g)
  BY <1>1, ExchangeStays
<1>3. \A t \in Syncs : t[1] \in Peers /\ t[2] \in Peers
  BY ExchangeAssumption
<1>4. GraphsSound'
  BY <1>1, <1>2, <1>3 DEF ExchangeInv, GraphsSound, Made
<1>5. ReceivingSound'
  BY <1>1, <1>2, <1>3 DEF ExchangeInv, ReceivingSound
<1>. QED
  BY <1>2, <1>4, <1>5 DEF ExchangeInv

LEMMA ReceiveGraphKeeps == ASSUME ExchangeInv, NEW t \in Syncs, ReceiveGraph(t) PROVE ExchangeInv'
<1>1. /\ t \notin receiving /\ receiving' = receiving \cup {t}
      /\ stack' = [stack EXCEPT ![t] = Append(@, t[2])]
      /\ inbox' = [inbox EXCEPT ![t] = latest[t[2]]]
      /\ UNCHANGED <<address, registry, growing, latest, synced, built>>
      /\ finds' \in Nat /\ fetches' \in Nat
  BY DEF ReceiveGraph, graphVars, ExchangeInv, ExchangeSound
<1>2. ExchangeSound' /\ \A g \in Peers : Foreign(g)' = Foreign(g)
  BY <1>1, ExchangeStays
<1>3. \A u \in Syncs : u[1] \in Peers /\ u[2] \in Peers
  BY ExchangeAssumption
<1>4. GraphsSound'
  BY <1>1, <1>2, <1>3 DEF ExchangeInv, GraphsSound, Made
<1>5. stack' = [w \in Workers |-> IF w \in receiving' THEN <<w[2]>> ELSE <<>>]
  <2>1. t \in Workers /\ stack[t] = <<>>
    BY <1>1 DEF Workers, ExchangeInv, ReceivingSound
  <2>2. stack' = [stack EXCEPT ![t] = <<t[2]>>]
    BY <1>1, <2>1
  <2>. QED
    BY <1>1, <2>1, <2>2 DEF ExchangeInv, ReceivingSound
<1>6. inbox' \in [Syncs -> GraphsOver(Entities)]
      /\ \A u \in Syncs : inbox'[u] \in GraphsOver(registry[u[2]])
  BY <1>1, <1>3 DEF ExchangeInv, ReceivingSound, GraphsSound, Made
<1>7. ReceivingSound'
  BY <1>1, <1>2, <1>3, <1>5, <1>6 DEF ExchangeInv, ReceivingSound
<1>. QED
  BY <1>2, <1>4, <1>7 DEF ExchangeInv

\* A node, or the ends of an edge, are taken from the graph received and what is
\* made of them is added to the one made: X are the objects made.
LEMMA MadeKeeps ==
    ASSUME ExchangeInv, NEW t \in receiving, NEW X, Sound(registry[t[1]] \cup X, t[1]),
           \A o \in X : o.space # Local,
           registry' = [registry EXCEPT ![t[1]] = @ \cup X],
           NEW rest \in GraphsOver(registry[t[2]]), inbox' = [inbox EXCEPT ![t] = rest],
           NEW more \in GraphsOver(Foreign(t[1]) \cup X), built' = [built EXCEPT ![t] = more],
           UNCHANGED <<address, growing, latest, synced, stack, receiving, finds, fetches>>
    PROVE  ExchangeInv'
<1>. DEFINE h == t[1]
<1>1. \A u \in Syncs : u[1] \in Peers /\ u[2] \in Peers
  BY ExchangeAssumption
<1>2. t \in Syncs /\ h \in Peers
  BY <1>1 DEF ExchangeInv, ReceivingSound
<1>3. /\ ExchangeSound' /\ \A g \in Peers : registry[g] \subseteq registry'[g]
      /\ registry'[h] = registry[h] \cup X /\ registry[h] \cup X \subseteq Entities
  <2>1. finds' \in Nat /\ fetches' \in Nat
    BY DEF ExchangeInv, ExchangeSound
  <2>. QED
    BY <1>2, <2>1, Growth
<1>4. GraphsSound'
  BY <1>1, <1>3, GraphsStay DEF ExchangeInv, GraphsSound, Made
<1>5. Foreign(h)' = Foreign(h) \cup X
  BY <1>2, <1>3 DEF Foreign
<1>6. rest \in GraphsOver(Entities) /\ more \in GraphsOver(Entities)
  <2>1. registry[t[2]] \subseteq Entities /\ Foreign(h) \cup X \subseteq Entities
    BY <1>1, <1>2, <1>3 DEF ExchangeInv, ExchangeSound, Foreign
  <2>. QED
    BY <2>1, GraphsMonotone
<1>7. ASSUME NEW u \in Syncs
      PROVE  inbox'[u] \in GraphsOver(registry'[u[2]]) /\ built'[u] \in GraphsOver(Foreign(u[1])')
  <2>1. /\ inbox'[u] = IF u = t THEN rest ELSE inbox[u]
        /\ built'[u] = IF u = t THEN more ELSE built[u]
    BY DEF ExchangeInv, ReceivingSound
  <2>2. inbox'[u] \in GraphsOver(registry[u[2]])
    BY <2>1 DEF ExchangeInv, ReceivingSound
  <2>3. inbox'[u] \in GraphsOver(registry'[u[2]])
    BY <1>1, <1>3, <2>2, GraphsStay
  <2>4. CASE u = t
    BY <1>5, <2>1, <2>3, <2>4
  <2>5. CASE u # t
    <3>1. built'[u] \in GraphsOver(Foreign(u[1]))
      BY <2>1, <2>5 DEF ExchangeInv, ReceivingSound
    <3>. QED
      BY <1>1, <1>3, <2>3, <3>1, GraphsStay
  <2>. QED
    BY <2>4, <2>5
<1>8. inbox' \in [Syncs -> GraphsOver(Entities)] /\ built' \in [Syncs -> GraphsOver(Entities)]
  BY <1>6 DEF ExchangeInv, ReceivingSound
<1>9. ReceivingSound'
  BY <1>7, <1>8 DEF ExchangeInv, ReceivingSound
<1>. QED
  BY <1>3, <1>4, <1>9 DEF ExchangeInv

LEMMA ReceiveNodeKeeps == ASSUME ExchangeInv, NEW t \in Syncs, ReceiveNode(t) PROVE ExchangeInv'
<1>1. PICK e \in inbox[t].nodes : \E o \in CreateEntity(registry[t[1]], e, t) :
        /\ registry' = [registry EXCEPT ![t[1]] = @ \cup {o}]
        /\ inbox' = [inbox EXCEPT ![t].nodes = @ \ {e}]
        /\ built' = [built EXCEPT ![t].nodes = @ \cup {o}]
  BY DEF ReceiveNode
<1>2. PICK o \in CreateEntity(registry[t[1]], e, t) :
        /\ registry' = [registry EXCEPT ![t[1]] = @ \cup {o}]
        /\ inbox' = [inbox EXCEPT ![t].nodes = @ \ {e}]
        /\ built' = [built EXCEPT ![t].nodes = @ \cup {o}]
  BY <1>1
<1>3. /\ t \in receiving
      /\ UNCHANGED <<address, growing, latest, synced, stack, receiving, finds, fetches>>
  BY DEF ReceiveNode, graphVars
<1>4. /\ inbox[t] \in GraphsOver(registry[t[2]]) /\ built[t] \in GraphsOver(Foreign(t[1]))
      /\ Sound(registry[t[1]], t[1])
  BY ExchangeAssumption DEF ExchangeInv, ReceivingSound, ExchangeSound
<1>5. e \in registry[t[2]]
  BY <1>4 DEF GraphsOver
<1>6. Sound(registry[t[1]] \cup {o}, t[1]) /\ o.space # Local
  BY <1>3, <1>4, <1>5, CreateRight
<1>. DEFINE rest == [inbox[t] EXCEPT !.nodes = @ \ {e}]
            more == [built[t] EXCEPT !.nodes = @ \cup {o}]
<1>7. rest \in GraphsOver(registry[t[2]]) /\ more \in GraphsOver(Foreign(t[1]) \cup {o})
  BY <1>4 DEF GraphsOver
<1>8. inbox' = [inbox EXCEPT ![t] = rest] /\ built' = [built EXCEPT ![t] = more]
  BY <1>2
<1>. HIDE DEF rest, more
<1>. QED
  BY <1>2, <1>3, <1>6, <1>7, <1>8, MadeKeeps

LEMMA ReceiveEdgeKeeps == ASSUME ExchangeInv, NEW t \in Syncs, ReceiveEdge(t) PROVE ExchangeInv'
<1>. DEFINE R == registry[t[1]]
            Takes(e, x, y) ==
                /\ registry' = [registry EXCEPT ![t[1]] = @ \cup {x, y}]
                /\ inbox' = [inbox EXCEPT ![t].edges = @ \ {e}]
                /\ built' = [built EXCEPT ![t].edges = @ \cup {<<x, y>>}]
<1>1. PICK e \in inbox[t].edges : \E x \in CreateEntity(R, e[1], t) :
        \E y \in CreateEntity(R \cup {x}, e[2], t) : Takes(e, x, y)
  BY DEF ReceiveEdge
<1>2. PICK x \in CreateEntity(R, e[1], t) :
        \E y \in CreateEntity(R \cup {x}, e[2], t) : Takes(e, x, y)
  BY <1>1
<1>3. PICK y \in CreateEntity(R \cup {x}, e[2], t) : Takes(e, x, y)
  BY <1>2
<1>4. /\ t \in receiving
      /\ UNCHANGED <<address, growing, latest, synced, stack, receiving, finds, fetches>>
  BY DEF ReceiveEdge, graphVars
<1>5. /\ inbox[t] \in GraphsOver(registry[t[2]]) /\ built[t] \in GraphsOver(Foreign(t[1]))
      /\ Sound(R, t[1])
  BY ExchangeAssumption DEF ExchangeInv, ReceivingSound, ExchangeSound
<1>6. e[1] \in registry[t[2]] /\ e[2] \in registry[t[2]]
  BY <1>5 DEF GraphsOver
<1>7. Sound(R \cup {x}, t[1]) /\ x.space # Local
  BY <1>2, <1>4, <1>5, <1>6, CreateRight
<1>8. Sound(R \cup {x} \cup {y}, t[1]) /\ y.space # Local
  <2>. DEFINE S == R \cup {x}
  <2>1. Sound(S, t[1]) /\ y \in CreateEntity(S, e[2], t)
    BY <1>3, <1>7
  <2>. HIDE DEF S
  <2>2. Sound(S \cup {y}, t[1]) /\ y.space # Local
    BY <1>4, <1>6, <2>1, CreateRight
  <2>. QED
    BY <2>2 DEF S
<1>9. R \cup {x} \cup {y} = R \cup {x, y}
  OBVIOUS
<1>. DEFINE rest == [inbox[t] EXCEPT !.edges = @ \ {e}]
            more == [built[t] EXCEPT !.edges = @ \cup {<<x, y>>}]
<1>10. rest \in GraphsOver(registry[t[2]]) /\ more \in GraphsOver(Foreign(t[1]) \cup {x, y})
  BY <1>5 DEF GraphsOver
<1>11. /\ registry' = [registry EXCEPT ![t[1]] = @ \cup {x, y}]
       /\ inbox' = [inbox EXCEPT ![t] = rest] /\ built' = [built EXCEPT ![t] = more]
  BY <1>3
<1>. HIDE DEF rest, more, Takes
<1>12. Sound(registry[t[1]] \cup {x, y}, t[1]) /\ \A o \in {x, y} : o.space # Local
  BY <1>7, <1>8, <1>9
<1>. QED
  BY <1>4, <1>10, <1>11, <1>12, MadeKeeps

\* The namespace of the sender is left.
LEMMA LeaveNamespaceKeeps ==
    ASSUME ExchangeInv, NEW t \in receiving, LeaveNamespace(t),
           synced' \in [Syncs -> GraphsOver(Entities)],
           \A u \in Syncs : Made(synced'[u], Foreign(u[1]))
    PROVE  ExchangeInv'
<1>1. /\ receiving' = receiving \ {t}
      /\ stack' = [stack EXCEPT ![t] = IF @ = <<>> THEN @ ELSE SubSeq(@, 1, Len(@) - 1)]
      /\ inbox' = [inbox EXCEPT ![t] = EmptyGraph] /\ built' = [built EXCEPT ![t] = EmptyGraph]
      /\ UNCHANGED <<address, registry, growing, latest>>
      /\ finds' \in Nat /\ fetches' \in Nat
  BY DEF LeaveNamespace, ExchangeInv, ExchangeSound
<1>2. ExchangeSound' /\ \A g \in Peers : Foreign(g)' = Foreign(g)
  BY <1>1, ExchangeStays
<1>3. \A u \in Syncs : u[1] \in Peers /\ u[2] \in Peers
  BY ExchangeAssumption
<1>4. GraphsSound'
  <2>1. \A u \in Syncs : Made(synced'[u], Foreign(u[1])')
    BY <1>2, <1>3
  <2>. QED
    BY <1>1, <1>2, <1>3, <2>1 DEF ExchangeInv, GraphsSound, Made
<1>5. stack' = [w \in Workers |-> IF w \in receiving' THEN <<w[2]>> ELSE <<>>]
  <2>1. t \in Syncs /\ t \in Workers /\ stack[t] = <<t[2]>>
    BY DEF Workers, ExchangeInv, ReceivingSound
  <2>2. SubSeq(stack[t], 1, Len(stack[t]) - 1) = <<>> /\ stack[t] # <<>>
    BY <2>1
  <2>3. stack' = [stack EXCEPT ![t] = <<>>]
    BY <1>1, <2>2
  <2>. QED
    BY <1>1, <2>1, <2>3 DEF ExchangeInv, ReceivingSound
<1>6. \A S : EmptyGraph \in GraphsOver(S)
  BY DEF EmptyGraph, GraphsOver
<1>7. /\ inbox' \in [Syncs -> GraphsOver(Entities)] /\ built' \in [Syncs -> GraphsOver(Entities)]
      /\ \A u \in Syncs : inbox'[u] \in GraphsOver(registry[u[2]])
                          /\ built'[u] \in GraphsOver(Foreign(u[1]))
  BY <1>1, <1>6 DEF ExchangeInv, ReceivingSound
<1>8. ReceivingSound'
  BY <1>1, <1>2, <1>3, <1>5, <1>7 DEF ExchangeInv, ReceivingSound
<1>. QED
  BY <1>2, <1>4, <1>8 DEF ExchangeInv

LEMMA StoreGraphKeeps == ASSUME ExchangeInv, NEW t \in Syncs, StoreGraph(t) PROVE ExchangeInv'
<1>. DEFINE g == GraphOf(built[t].nodes, built[t].edges)
<1>1. t \in receiving /\ LeaveNamespace(t) /\ synced' = [synced EXCEPT ![t] = g]
  BY DEF StoreGraph
<1>2. t[1] \in Peers /\ built[t] \in GraphsOver(Foreign(t[1])) /\ Foreign(t[1]) \subseteq Entities
  BY ExchangeAssumption DEF ExchangeInv, ReceivingSound, ExchangeSound, Foreign
<1>3. Made(g, Foreign(t[1]))
  BY <1>2, GraphOfMade DEF GraphsOver
<1>4. g \in GraphsOver(Entities)
  BY <1>2, <1>3, GraphsMonotone DEF Made
<1>. HIDE DEF g
<1>5. /\ synced' \in [Syncs -> GraphsOver(Entities)]
      /\ \A u \in Syncs : Made(synced'[u], Foreign(u[1]))
  BY <1>1, <1>3, <1>4 DEF ExchangeInv, GraphsSound
<1>. QED
  BY <1>1, <1>5, LeaveNamespaceKeeps

LEMMA ReceiveRaisesKeeps == ASSUME ExchangeInv, NEW t \in Syncs, ReceiveRaises(t) PROVE ExchangeInv'
BY LeaveNamespaceKeeps DEF ReceiveRaises, ExchangeInv, GraphsSound

LEMMA ExchangeStep == ExchangeInv /\ [ExchangeNext]_exchange_vars => ExchangeInv'
<1>. SUFFICES ASSUME ExchangeInv, [ExchangeNext]_exchange_vars PROVE ExchangeInv'
  OBVIOUS
<1>1. CASE UNCHANGED exchange_vars
  <2>1. /\ UNCHANGED <<address, registry, growing, latest, synced, stack, receiving, inbox, built>>
        /\ finds' \in Nat /\ fetches' \in Nat
    BY <1>1 DEF exchange_vars, graphVars, receiveVars, ExchangeInv, ExchangeSound
  <2>2. ExchangeSound' /\ \A g \in Peers : Foreign(g)' = Foreign(g)
    BY <2>1, ExchangeStays
  <2>3. \A u \in Syncs : u[1] \in Peers /\ u[2] \in Peers
    BY ExchangeAssumption
  <2>. QED
    BY <2>1, <2>2, <2>3 DEF ExchangeInv, GraphsSound, ReceivingSound, Made
<1>2. ASSUME NEW h \in Peers, SeedGraph(h) \/ Expand(h) \/ PublishGraph(h) PROVE ExchangeInv'
  BY <1>2, SeedGraphKeeps, ExpandKeeps, PublishGraphKeeps
<1>3. ASSUME NEW t \in Syncs,
             ReceiveGraph(t) \/ ReceiveNode(t) \/ ReceiveEdge(t) \/ StoreGraph(t) \/ ReceiveRaises(t)
      PROVE  ExchangeInv'
  BY <1>3, ReceiveGraphKeeps, ReceiveNodeKeeps, ReceiveEdgeKeeps, StoreGraphKeeps,
     ReceiveRaisesKeeps
<1>. QED
  BY <1>1, <1>2, <1>3 DEF ExchangeNext

LEMMA ExchangeTypes == ExchangeInv => ExchangeTypeOK
<1>. SUFFICES ASSUME ExchangeInv PROVE ExchangeTypeOK
  OBVIOUS
<1>1. stack \in [Workers -> Seq(Peers)]
  <2>1. \A w \in receiving : w[2] \in Peers
    BY ExchangeAssumption DEF ExchangeInv, ReceivingSound
  <2>2. stack = [w \in Workers |-> IF w \in receiving THEN <<w[2]>> ELSE <<>>]
    BY DEF ExchangeInv, ReceivingSound
  <2>3. \A w \in Workers : (IF w \in receiving THEN <<w[2]>> ELSE <<>>) \in Seq(Peers)
    BY <2>1
  <2>. QED
    BY <2>2, <2>3
<1>. QED
  BY <1>1 DEF ExchangeInv, ExchangeSound, GraphsSound, ReceivingSound, ExchangeTypeOK

LEMMA ExchangeOrigin == ExchangeInv => OriginKept
<1>. SUFFICES ASSUME ExchangeInv PROVE OriginKept
  OBVIOUS
<1>1. \A h \in Peers : Sound(registry[h], h)
  BY DEF ExchangeInv, ExchangeSound
<1>2. NamesOrigin /\ DetailsOfOrigin
  BY <1>1 DEF Sound, Right, NamesOrigin, DetailsOfOrigin
<1>3. \A t \in Syncs : t[1] \in Peers /\ synced[t].nodes \subseteq Foreign(t[1])
  BY ExchangeAssumption DEF ExchangeInv, GraphsSound, Made, GraphsOver
<1>4. ReceivedNotLocal
  BY <1>3 DEF ReceivedNotLocal, Foreign
<1>5. ObjectsShared
  <2>1. \A h \in Peers : Whole(growing[h], h) /\ Whole(latest[h], h)
    BY DEF ExchangeInv, GraphsSound, Made, GraphsOver, Whole
  <2>2. \A t \in Syncs : Whole(synced[t], t[1])
    BY <1>3 DEF ExchangeInv, GraphsSound, Made, Whole, Foreign
  <2>. QED
    BY <1>1, <2>1, <2>2 DEF ObjectsShared, Sound
<1>. QED
  BY <1>2, <1>4, <1>5 DEF OriginKept

\* For any hosts that collect from each other in any way, in circles too, and
\* over any number of hosts: an entity's namespace goes on to name the host
\* that found it, what that host knew of it stays, and the objects of the graphs
\* are those that the registry of their host has under their ids.
THEOREM ExchangeKeepsOrigin == ExchangeSpec => []OriginKept
BY ExchangeInitially, ExchangeStep, ExchangeOrigin, PTL DEF ExchangeSpec
-----------------------------------------------------------------------------
(* The runs from the command line. *)

Places == Starting \cup Stopping \cup Ended \cup
            {"off", "lock", "locked", "sleep", "collect", "open_json"} \cup Writing

MainTyped == main \in [Procs -> Places] /\ frames \in [Procs -> Seq(FrameAt)]

(* The lock: whoever is past acquire has it, and who has written its graph    *)
(* into the first file is still to write the second.                         *)
PastLock(p) == main[p] \notin Ended \cup {"off", "lock"}

LockKept == \A p \in Procs : PastLock(p) => holder = p

HalfWritten == \A p \in Procs : main[p] \in {"open_text", "write_text"} => json = p

LockInv == MainTyped /\ LockKept /\ HalfWritten /\ ResultsOfOneRun

LEMMA NotANumber == \A p \in Procs : p # 0
BY RunAssumption

\* Where an end, of whatever cause, leads to.
LEMMA EndKeeps ==
    ASSUME LockInv, NEW p \in Procs, NEW code \in Ended, End(p, code), UNCHANGED <<json, text>>
    PROVE  LockInv'
<1>1. MainTyped'
  BY DEF LockInv, MainTyped, End, Goto, Places, FrameAt
<1>2. LockKept' /\ HalfWritten'
  BY NotANumber DEF LockInv, MainTyped, LockKept, HalfWritten, PastLock, End, Goto, Ended
<1>3. ResultsOfOneRun'
  BY DEF LockInv, MainTyped, ResultsOfOneRun, End, Goto, Ended, Writing
<1>. QED  BY <1>1, <1>2, <1>3 DEF LockInv

\* A step of main() that neither takes the lock nor writes.
LEMMA GotoKeeps ==
    ASSUME LockInv, NEW p \in Procs, NEW place \in Places, Goto(p, place),
           PastLock(p) \/ place = "lock", place \notin Writing, main[p] \notin Writing,
           UNCHANGED <<holder, json, text, torn, frames>>
    PROVE  LockInv'
<1>1. MainTyped'
  BY DEF LockInv, MainTyped, Goto
<1>2. LockKept' /\ HalfWritten'
  BY DEF LockInv, MainTyped, LockKept, HalfWritten, PastLock, Goto, Writing
<1>3. ResultsOfOneRun'
  BY DEF LockInv, MainTyped, ResultsOfOneRun, Goto, Writing
<1>. QED  BY <1>1, <1>2, <1>3 DEF LockInv

LEMMA AcquireKeeps == ASSUME LockInv, NEW p \in Procs, Acquire(p) PROVE LockInv'
<1>1. CASE holder = 0
  <2>1. MainTyped'
    BY <1>1 DEF LockInv, MainTyped, Acquire, Goto, Places
  <2>2. LockKept' /\ HalfWritten'
    BY <1>1, NotANumber
       DEF LockInv, MainTyped, LockKept, HalfWritten, PastLock, Acquire, Goto, InMain
  <2>3. ResultsOfOneRun'
    BY <1>1 DEF LockInv, MainTyped, ResultsOfOneRun, Acquire, Goto, InMain, Writing
  <2>. QED  BY <2>1, <2>2, <2>3 DEF LockInv
<1>2. CASE holder # 0
  BY <1>2, EndKeeps DEF Acquire, Ended
<1>. QED  BY <1>1, <1>2

LEMMA WriteKeeps == ASSUME LockInv, NEW p \in Procs, WriteJson(p) \/ WriteText(p) PROVE LockInv'
<1>1. main[p] \in {"open_json"} \cup Writing
  BY DEF WriteJson, WriteText, InMain, Writing
<1>2. \A q \in Procs : q # p => main[q] \notin {"open_json"} \cup Writing
  BY <1>1 DEF LockInv, LockKept, PastLock, Ended, Writing
<1>3. MainTyped'
  BY DEF LockInv, MainTyped, WriteJson, WriteText, Goto, Places, Writing, Ended
<1>4. LockKept'
  BY <1>1 DEF LockInv, MainTyped, LockKept, PastLock, WriteJson, WriteText, Goto, Ended, Writing
<1>5. HalfWritten'
  <2>1. \A q \in Procs : q # p => main'[q] \notin Writing
    BY <1>2 DEF LockInv, MainTyped, WriteJson, WriteText, Goto
  <2>2. CASE WriteJson(p)
    BY <2>1, <2>2 DEF LockInv, MainTyped, HalfWritten, WriteJson, Goto, Writing
  <2>3. CASE WriteText(p)
    BY <2>1, <2>3 DEF LockInv, MainTyped, HalfWritten, WriteText, InMain, Goto, Writing
  <2>. QED  BY <2>2, <2>3
<1>6. ResultsOfOneRun'
  <2>1. CASE main'[p] \in Writing
    BY <2>1 DEF ResultsOfOneRun
  <2>2. CASE main'[p] \notin Writing
    <3>1. WriteText(p) /\ main[p] = "write_text" /\ text' = p /\ json' = json
      BY <2>2 DEF LockInv, MainTyped, WriteJson, WriteText, InMain, Goto, Writing
    <3>. QED  BY <3>1 DEF LockInv, HalfWritten, ResultsOfOneRun
  <2>. QED  BY <2>1, <2>2
<1>. QED  BY <1>3, <1>4, <1>5, <1>6 DEF LockInv

\* A step of a handler, or a signal, that ends nothing.
LEMMA FrameKeeps ==
    ASSUME LockInv, NEW p \in Procs, NEW s \in Seq(FrameAt), frames' = [frames EXCEPT ![p] = s],
           UNCHANGED <<main, holder, json, text, torn>>
    PROVE  LockInv'
BY DEF LockInv, MainTyped, LockKept, HalfWritten, PastLock, ResultsOfOneRun

LEMMA TopIsReplaced ==
    ASSUME NEW s \in Seq(FrameAt), s # <<>>, NEW place \in FrameAt
    PROVE  Append(Front(s), place) \in Seq(FrameAt)
BY DEF Front

LEMMA MainStepKeeps == ASSUME LockInv, NEW p \in Procs, MainStep(p) \/ Launch(p) PROVE LockInv'
<1>. USE DEF InMain, PastLock, Places, Starting, Stopping, Ended, Writing, run_data, run_files
<1>1. CASE Launch(p)
  BY <1>1, GotoKeeps DEF Launch
<1>2. CASE BeginRun(p)
  BY <1>2, GotoKeeps DEF BeginRun
<1>3. CASE StartCore(p)
  BY <1>3, GotoKeeps DEF StartCore
<1>4. CASE StartSub(p)
  <2>1. CASE Goto(p, "start_thread")
    BY <1>4, <2>1, GotoKeeps DEF StartSub
  <2>2. CASE UNCHANGED main
    BY <1>4, <2>2 DEF StartSub, LockInv, MainTyped, LockKept, HalfWritten, ResultsOfOneRun
  <2>. QED  BY <1>4, <2>1, <2>2 DEF StartSub
<1>5. CASE StartLoop(p)
  BY <1>5, GotoKeeps DEF StartLoop
<1>6. CASE StopCore(p)
  BY <1>6, GotoKeeps DEF StopCore, AfterStop
<1>7. CASE StopSub(p)
  BY <1>7, GotoKeeps DEF StopSub
<1>8. CASE JoinLoop(p)
  BY <1>8, GotoKeeps, EndKeeps DEF JoinLoop
<1>9. CASE SubRaises(p)
  BY <1>9, EndKeeps DEF SubRaises
<1>10. CASE CollectGraph(p)
  BY <1>10, GotoKeeps DEF CollectGraph
<1>. QED  BY <1>1, <1>2, <1>3, <1>4, <1>5, <1>6, <1>7, <1>8, <1>9, <1>10,
             AcquireKeeps, WriteKeeps DEF MainStep

LEMMA HandlerKeeps ==
    ASSUME LockInv, NEW p \in Procs, Handler(p) \/ Sigterm(p) \/ Interrupt(p) PROVE LockInv'
<1>. USE DEF run_data, run_files
<1>1. frames[p] \in Seq(FrameAt)
  BY DEF LockInv, MainTyped
<1>2. ASSUME NEW place \in FrameAt, FrameGoto(p, place), frames[p] # <<>>,
             UNCHANGED <<main, holder, json, text, torn>>
      PROVE  LockInv'
  BY <1>1, <1>2, FrameKeeps, TopIsReplaced DEF FrameGoto
<1>3. CASE HandlerStops(p)
  BY <1>2, <1>3 DEF HandlerStops, InFrame, AfterStop, FrameAt
<1>4. CASE HandlerStopsSub(p)
  BY <1>2, <1>4 DEF HandlerStopsSub, InFrame, FrameAt
<1>5. CASE HandlerJoins(p)
  BY <1>2, <1>5, EndKeeps DEF HandlerJoins, InFrame, FrameAt, Ended
<1>6. CASE HandlerExits(p)
  BY <1>6, EndKeeps DEF HandlerExits, Ended
<1>7. CASE Sigterm(p)
  <2>1. Append(frames[p], "handler") \in Seq(FrameAt)
    BY <1>1 DEF FrameAt
  <2>. QED  BY <1>7, <2>1, FrameKeeps DEF Sigterm
<1>8. CASE Interrupt(p)
  <2>1. CASE main[p] = "sleep"
    <3>1. << >> \in Seq(FrameAt)
      OBVIOUS
    <3>. QED  BY <1>8, <2>1, <3>1, FrameKeeps DEF Interrupt
  <2>2. CASE main[p] # "sleep"
    BY <1>8, <2>2, EndKeeps DEF Interrupt, Ended
  <2>. QED  BY <2>1, <2>2
<1>. QED  BY <1>3, <1>4, <1>5, <1>6, <1>7, <1>8 DEF Handler

LEMMA LockInit == ASSUME OfflineInit PROVE LockInv
BY DEF OfflineInit, LockInv, MainTyped, LockKept, HalfWritten, PastLock, ResultsOfOneRun, Places,
       Ended, Writing

LEMMA LockStutter == ASSUME LockInv, UNCHANGED run_vars PROVE LockInv'
BY DEF LockInv, MainTyped, LockKept, HalfWritten, PastLock, ResultsOfOneRun, run_vars, run_files

LEMMA LockStep == LockInv /\ [OfflineNext]_run_vars => LockInv'
BY MainStepKeeps, HandlerKeeps, LockStutter DEF OfflineNext

\* The inductive invariant of the lock.
THEOREM LockInvariance == OfflineSpec => []LockInv
BY LockInit, LockStep, PTL DEF OfflineSpec

\* Outside of a writing run, and if none was ended in the middle, the two result
\* files hold the graph of one run: the lock is taken before and given back
\* after both are written.
THEOREM ResultsBelongTogether == OfflineSpec => []ResultsOfOneRun
<1>1. LockInv => ResultsOfOneRun
  BY DEF LockInv
<1>. QED  BY <1>1, LockInvariance, PTL
-----------------------------------------------------------------------------
(* What a run that was left alone in its start and its stop has switched on.  *)

StateTyped ==
    /\ on \in [Procs -> SUBSET Nat] /\ set_on \in [Procs -> BOOLEAN]
    /\ refs \in [Procs -> 0..1] /\ loop \in [Procs -> {"none", "made", "on", "told"}]
    /\ at \in [Procs -> Nat] /\ disturbed \in [Procs -> BOOLEAN]

Nothing(p) == on[p] = {} /\ set_on[p] = FALSE /\ refs[p] = 0 /\ loop[p] # "on"
Everything(p) == on[p] = 1..Subs /\ set_on[p] = TRUE /\ refs[p] = 1 /\ loop[p] = "on"
Going(p) == on[p] = at[p]..Subs /\ set_on[p] = TRUE /\ refs[p] = 0 /\ loop[p] # "on"
Coming(p) == on[p] = 1..(at[p] - 1) /\ set_on[p] = FALSE /\ at[p] \in 1..(Subs + 1)
AllHaveCome(p) == on[p] = 1..Subs /\ set_on[p] = TRUE

\* In the sleep a handler does what main() does elsewhere.
Asleep(p) ==
    \/ frames[p] \in {<<>>, <<"handler">>} /\ Everything(p)
    \/ frames[p] = <<"stop_subs">> /\ Going(p)
    \/ frames[p] \in {<<"join">>, <<"restore">>} /\ Nothing(p)

\* At any other place it finds nothing to stop.
Awake(p) ==
    /\ main[p] \in {"start_subs", "start_thread"} \cup Stopping => frames[p] = <<>>
    /\ frames[p] \in {<<>>, <<"handler">>, <<"restore">>}
    /\ \/ main[p] = "start_subs" /\ Coming(p) /\ refs[p] = 1
       \/ main[p] = "start_thread" /\ AllHaveCome(p) /\ refs[p] = 1
       \/ main[p] = "stop_subs" /\ Going(p)
       \/ main[p] \notin {"start_subs", "start_thread", "stop_subs"} /\ Nothing(p)

Stage(p) == IF main[p] = "sleep" THEN Asleep(p) ELSE Awake(p)

CleanInv == StateTyped /\ \A p \in Procs : ~disturbed[p] => Stage(p)

\* What a step of another run leaves alone.
Same(p) == UNCHANGED <<main[p], frames[p], on[p], set_on[p], refs[p], loop[p], at[p], disturbed[p]>>

LEMMA SameKeeps == ASSUME NEW p, Same(p), disturbed[p] \/ Stage(p) PROVE disturbed'[p] \/ Stage(p)'
BY DEF Same, Stage, Asleep, Awake, Nothing, Everything, Going, Coming, AllHaveCome

LEMMA OneFrame ==
    ASSUME NEW x, NEW y
    PROVE  <<x>> # <<>> /\ Last(<<x>>) = x /\ Append(Front(<<x>>), y) = <<y>>
           /\ Append(<<>>, y) = <<y>> /\ (<<x>> = <<y>> => x = y)
<1>1. Front(<<x>>) = <<>>
  BY DEF Front
<1>2. <<x>> # <<>> /\ Last(<<x>>) = x
  BY DEF Last
<1>3. Append(<<>>, y) = <<y>>
  OBVIOUS
<1>4. <<x>> = <<y>> => x = y
  OBVIOUS
<1>. QED  BY <1>1, <1>2, <1>3, <1>4

\* What a step of a run has to do for the invariant.
StepKeeps(p) ==
    /\ StateTyped'
    /\ disturbed[p] => disturbed'[p]
    /\ ~disturbed'[p] => Stage(p)'
    /\ \A q \in Procs \ {p} : Same(q)

\* What main() does before it starts anything and after it has stopped all.
LEMMA OutsideKeeps ==
    ASSUME MainTyped, CleanInv, NEW p \in Procs, NEW place,
           frames[p] = <<>>, main[p] \notin {"sleep", "start_subs", "start_thread", "stop_subs"},
           place \notin {"sleep", "start_subs", "start_thread", "stop_subs"},
           main' = [main EXCEPT ![p] = place],
           frames' = frames \/ frames' = [frames EXCEPT ![p] = <<>>],
           UNCHANGED <<on, set_on, refs, loop, at, disturbed>>
    PROVE  StepKeeps(p)
<1>1. StateTyped' /\ \A q \in Procs \ {p} : Same(q)
  BY DEF CleanInv, StateTyped, MainTyped, Same
<1>2. main'[p] = place /\ frames'[p] = <<>>
  BY DEF MainTyped
<1>3. ASSUME ~disturbed[p] PROVE Stage(p)'
  BY <1>2, <1>3 DEF CleanInv, Stage, Awake, Nothing
<1>. QED  BY <1>1, <1>3 DEF StepKeeps

LEMMA Intervals ==
    /\ 1..0 = {}
    /\ \A a \in Nat : 1..a = 1..((a + 1) - 1)
    /\ \A a \in Nat \ {0} : (1..(a - 1)) \cup {a} = 1..a
    /\ \A a, n \in Nat : a <= n => (a..n) \ {a} = (a + 1)..n
    /\ \A a, n \in Nat : a > n => a..n = {}
OBVIOUS

LEMMA StopCalledKeeps ==
    ASSUME CleanInv, NEW p \in Procs, StopCalled(p), UNCHANGED <<on, set_on, disturbed>>
    PROVE  /\ StateTyped'
           /\ \A q \in Procs \ {p} : UNCHANGED <<refs[q], loop[q], at[q]>>
           /\ Everything(p) => Going(p)'
<1>. USE DEF CleanInv, StateTyped
<1>1. CASE refs[p] = 0
  BY <1>1 DEF StopCalled, Everything
<1>2. CASE refs[p] # 0
  <2>1. /\ refs' = [refs EXCEPT ![p] = 0]
        /\ loop' = [loop EXCEPT ![p] = IF @ = "on" THEN "told" ELSE @]
        /\ at' = [at EXCEPT ![p] = 1]
    BY <1>2 DEF StopCalled
  <2>2. loop' \in [Procs -> {"none", "made", "on", "told"}]
    BY <2>1
  <2>3. StateTyped'
    BY <2>1, <2>2
  <2>4. Everything(p) => Going(p)'
    BY <2>1 DEF Everything, Going
  <2>. QED  BY <2>1, <2>3, <2>4
<1>. QED  BY <1>1, <1>2

\* The steps of a start, and the call of the stop.
LEMMA StartsKeep ==
    ASSUME MainTyped, CleanInv, NEW p \in Procs,
           StartCore(p) \/ StartSub(p) \/ StartLoop(p) \/ StopCore(p)
    PROVE  StepKeeps(p)
<1>. USE DEF InMain, Goto, CleanInv, StateTyped, MainTyped
<1>1. Subs \in Nat \ {0} /\ at[p] \in Nat /\ frames[p] = <<>>
  BY RunAssumption DEF StartCore, StartSub, StartLoop, StopCore
<1>2. CASE StartCore(p)
  <2>1. StateTyped' /\ \A q \in Procs \ {p} : Same(q)
    BY <1>2 DEF StartCore, Same
  <2>2. ~disturbed[p] => Nothing(p)
    BY <1>2 DEF StartCore, Stage, Awake
  <2>3. ~disturbed[p] => Coming(p)' /\ refs'[p] = 1
    BY <1>1, <1>2, <2>2, Intervals DEF StartCore, Nothing, Coming
  <2>4. main'[p] = "start_subs" /\ frames'[p] = <<>>
    BY <1>1, <1>2 DEF StartCore
  <2>5. ~disturbed[p] => Stage(p)'
    BY <2>3, <2>4 DEF Stage, Awake
  <2>. QED  BY <1>2, <2>1, <2>5 DEF StepKeeps, StartCore
<1>3. CASE StartSub(p)
  <2>1. StateTyped' /\ \A q \in Procs \ {p} : Same(q)
    <3>1. CASE at[p] <= Subs
      <4>1. on' = [on EXCEPT ![p] = @ \cup {at[p]}] /\ at' = [at EXCEPT ![p] = @ + 1]
        BY <1>3, <3>1 DEF StartSub
      <4>2. on' \in [Procs -> SUBSET Nat] /\ at' \in [Procs -> Nat]
        BY <1>1, <4>1
      <4>. QED  BY <1>3, <3>1, <4>1, <4>2 DEF StartSub, Same
    <3>2. CASE ~(at[p] <= Subs)
      BY <1>3, <3>2 DEF StartSub, Same
    <3>. QED  BY <3>1, <3>2
  <2>2. ~disturbed[p] => Coming(p) /\ refs'[p] = 1
    BY <1>3 DEF StartSub, Stage, Awake
  <2>3. CASE at[p] <= Subs
    <3>1. ~disturbed[p] => on'[p] = 1..at[p] /\ at'[p] = at[p] + 1 /\ at'[p] \in 1..(Subs + 1)
      <4>1. on'[p] = on[p] \cup {at[p]} /\ at'[p] = at[p] + 1
        BY <1>3, <2>3 DEF StartSub
      <4>2. ~disturbed[p] => on[p] = 1..(at[p] - 1) /\ at[p] \in Nat \ {0}
        BY <1>1, <2>2 DEF Coming
      <4>. QED  BY <1>1, <2>3, <4>1, <4>2, Intervals
    <3>2. ~disturbed[p] => at'[p] - 1 = at[p] /\ set_on'[p] = FALSE
      BY <1>1, <1>3, <2>2, <2>3, <3>1 DEF StartSub, Coming
    <3>3. ~disturbed[p] => Coming(p)'
      BY <3>1, <3>2 DEF Coming
    <3>. QED  BY <1>1, <1>3, <2>1, <2>2, <2>3, <3>3 DEF StartSub, Stage, Awake, StepKeeps
  <2>4. CASE ~(at[p] <= Subs)
    <3>1. ~disturbed[p] => AllHaveCome(p)'
      BY <1>1, <1>3, <2>2, <2>4 DEF StartSub, Coming, AllHaveCome
    <3>. QED  BY <1>1, <1>3, <2>1, <2>2, <2>4, <3>1 DEF StartSub, Stage, Awake, StepKeeps
  <2>. QED  BY <2>3, <2>4
<1>4. CASE StartLoop(p)
  <2>1. StateTyped' /\ \A q \in Procs \ {p} : Same(q)
    BY <1>4 DEF StartLoop, Same
  <2>2. ~disturbed[p] => Stage(p)'
    BY <1>1, <1>4 DEF StartLoop, Stage, Awake, Asleep, AllHaveCome, Everything
  <2>. QED  BY <1>4, <2>1, <2>2 DEF StepKeeps, StartLoop
<1>5. CASE StopCore(p)
  <2>1. StateTyped' /\ \A q \in Procs \ {p} : Same(q)
    BY <1>5, StopCalledKeeps DEF StopCore, Same
  <2>2. ~disturbed[p] => Everything(p)
    BY <1>1, <1>5, OneFrame DEF StopCore, Stage, Asleep
  <2>3. ~disturbed[p] => Going(p)' /\ main'[p] = "stop_subs"
    <3>1. ~disturbed[p] => AfterStop(p, "collect") = "stop_subs"
      BY <2>2 DEF AfterStop, Everything
    <3>2. main'[p] = AfterStop(p, "collect")
      BY <1>5 DEF StopCore
    <3>. QED  BY <1>5, <2>2, <3>1, <3>2, StopCalledKeeps DEF StopCore
  <2>. QED  BY <1>1, <1>5, <2>1, <2>3 DEF StopCore, Stage, Awake, StepKeeps
<1>. QED  BY <1>2, <1>3, <1>4, <1>5

\* One collector less, whoever stops it.
LEMMA OneLess ==
    ASSUME CleanInv, NEW p \in Procs, OneSubLess(p), UNCHANGED <<refs, loop, disturbed>>
    PROVE  /\ StateTyped'
           /\ \A q \in Procs \ {p} : UNCHANGED <<on[q], set_on[q], at[q]>>
           /\ Going(p) => IF at[p] <= Subs THEN Going(p)' ELSE Nothing(p)'
<1>. USE RunAssumption DEF CleanInv, StateTyped, OneSubLess
<1>1. StateTyped' /\ \A q \in Procs \ {p} : UNCHANGED <<on[q], set_on[q], at[q]>>
  <2>1. CASE at[p] <= Subs
    BY <2>1
  <2>2. CASE ~(at[p] <= Subs)
    BY <2>2
  <2>. QED  BY <2>1, <2>2
<1>2. ASSUME Going(p), at[p] <= Subs PROVE Going(p)'
  <2>1. on'[p] = (at[p]..Subs) \ {at[p]} /\ at'[p] = at[p] + 1
    BY <1>2 DEF Going
  <2>2. at[p] \in Nat /\ Subs \in Nat
    OBVIOUS
  <2>3. on'[p] = at'[p]..Subs
    BY <1>2, <2>1, <2>2, Intervals
  <2>. QED  BY <1>2, <2>3 DEF Going
<1>3. ASSUME Going(p), ~(at[p] <= Subs) PROVE Nothing(p)'
  BY <1>3, Intervals DEF Going, Nothing
<1>. QED  BY <1>1, <1>2, <1>3

LEMMA StopSubKeeps == ASSUME MainTyped, CleanInv, NEW p \in Procs, StopSub(p) PROVE StepKeeps(p)
<1>1. StateTyped' /\ \A q \in Procs \ {p} : Same(q)
  BY OneLess DEF StopSub, Same, InMain, Goto, MainTyped
<1>2. ASSUME ~disturbed[p] PROVE Stage(p)'
  <2>1. Going(p)
    BY <1>2 DEF StopSub, InMain, CleanInv, Stage, Awake
  <2>2. IF at[p] <= Subs THEN Going(p)' ELSE Nothing(p)'
    BY <2>1, OneLess DEF StopSub
  <2>. QED  BY <2>2 DEF StopSub, InMain, Goto, MainTyped, Stage, Awake
<1>. QED  BY <1>1, <1>2 DEF StepKeeps, StopSub

LEMMA RestOfMainKeeps ==
    ASSUME MainTyped, CleanInv, NEW p \in Procs,
           \/ Launch(p) \/ Acquire(p) \/ BeginRun(p) \/ JoinLoop(p)
           \/ CollectGraph(p) \/ WriteJson(p) \/ WriteText(p)
    PROVE  StepKeeps(p)
<1>1. UNCHANGED <<on, set_on, refs, loop, at, disturbed>>
  BY DEF Launch, Acquire, BeginRun, JoinLoop, CollectGraph, WriteJson, WriteText, run_data
<1>2. frames[p] = <<>> /\ (frames' = frames \/ frames' = [frames EXCEPT ![p] = <<>>])
  BY DEF Launch, Acquire, BeginRun, JoinLoop, CollectGraph, WriteJson, WriteText, InMain, End
<1>3. main[p] \in {"off", "lock", "locked", "join", "collect", "open_json"} \cup Writing
  BY DEF Launch, Acquire, BeginRun, JoinLoop, CollectGraph, WriteJson, WriteText, InMain, Writing
<1>4. PICK place \in {"lock", "locked", "start", "collect", "open_json"} \cup Writing \cup Ended :
        main' = [main EXCEPT ![p] = place]
  BY DEF Launch, Acquire, BeginRun, JoinLoop, CollectGraph, WriteJson, WriteText, Goto, End,
         Writing, Ended
<1>. QED  BY <1>1, <1>2, <1>3, <1>4, OutsideKeeps DEF Writing, Ended

\* The end of a run that had nothing on, or was disturbed.
LEMMA EndsWithNothing ==
    ASSUME MainTyped, CleanInv, NEW p \in Procs, NEW code \in Ended, End(p, code),
           UNCHANGED <<on, set_on, refs, loop, at>>,
           disturbed' \in [Procs -> BOOLEAN], disturbed[p] => disturbed'[p],
           \A q \in Procs \ {p} : disturbed'[q] = disturbed[q],
           disturbed'[p] \/ Nothing(p)
    PROVE  StepKeeps(p)
<1>1. StateTyped' /\ \A q \in Procs \ {p} : Same(q)
  BY DEF CleanInv, StateTyped, MainTyped, Same, End, Goto
<1>2. main'[p] = code /\ frames'[p] = <<>>
  BY DEF MainTyped, End, Goto
<1>3. ASSUME ~disturbed'[p] PROVE Stage(p)'
  BY <1>2, <1>3 DEF Stage, Awake, Nothing, Ended, Stopping
<1>. QED  BY <1>1, <1>3 DEF StepKeeps

LEMMA RaisesKeeps == ASSUME MainTyped, CleanInv, NEW p \in Procs, SubRaises(p) PROVE StepKeeps(p)
<1>1. disturbed' = [disturbed EXCEPT ![p] = TRUE] /\ disturbed \in [Procs -> BOOLEAN]
  BY DEF SubRaises, CleanInv, StateTyped
<1>2. End(p, "exit 1") /\ UNCHANGED <<on, set_on, refs, loop, at>>
  BY DEF SubRaises, run_data
<1>. QED  BY <1>1, <1>2, EndsWithNothing DEF Ended

\* A signal in a start or a stop, or on top of a handler, ends the claim;
\* at any other place the run has nothing on, or everything in its sleep.
LEMMA UnhitHasNoFrames ==
    ASSUME NEW p \in Procs, ~Hit(p), CleanInv, ~disturbed[p]
    PROVE  frames[p] = <<>> /\ IF main[p] = "sleep" THEN Everything(p) ELSE Nothing(p)
BY OneFrame DEF Hit, CleanInv, Stage, Asleep, Awake, Starting, Stopping

LEMMA SignalsKeep ==
    ASSUME MainTyped, CleanInv, NEW p \in Procs, Sigterm(p) \/ Interrupt(p) PROVE StepKeeps(p)
<1>1. /\ disturbed' = [disturbed EXCEPT ![p] = @ \/ Hit(p)]
      /\ UNCHANGED <<on, set_on, refs, loop, at>> /\ disturbed \in [Procs -> BOOLEAN]
  BY DEF Sigterm, Interrupt, run_data, CleanInv, StateTyped
<1>2. disturbed' \in [Procs -> BOOLEAN] /\ \A q \in Procs \ {p} : disturbed'[q] = disturbed[q]
  BY <1>1 DEF Hit
<1>3. disturbed'[p] <=> (disturbed[p] \/ Hit(p))
  BY <1>1
<1>4. CASE UNCHANGED main
  <2>1. PICK s : /\ frames' = [frames EXCEPT ![p] = s]
                 /\ (frames[p] = <<>> => s \in {<<>>, <<"handler">>})
    <3>1. CASE Sigterm(p)
      BY <3>1, OneFrame DEF Sigterm
    <3>2. CASE Interrupt(p) /\ main[p] = "sleep"
      BY <3>2 DEF Interrupt
    <3>3. CASE Interrupt(p) /\ main[p] # "sleep"
      <4>1. main'[p] = "exit 0" /\ main[p] \notin Ended
        BY <3>3 DEF Interrupt, End, Goto, MainTyped
      <4>. QED  BY <1>4, <4>1 DEF Ended
    <3>. QED  BY <3>1, <3>2, <3>3
  <2>2. StateTyped' /\ \A q \in Procs \ {p} : Same(q)
    BY <1>1, <1>2, <1>4, <2>1 DEF CleanInv, StateTyped, MainTyped, Same
  <2>3. ASSUME ~disturbed'[p] PROVE Stage(p)'
    <3>1. frames[p] = <<>> /\ (IF main[p] = "sleep" THEN Everything(p) ELSE Nothing(p))
          /\ main[p] \notin Starting \cup Stopping
      BY <1>3, <2>3, UnhitHasNoFrames DEF Hit
    <3>2. frames'[p] \in {<<>>, <<"handler">>} /\ main'[p] = main[p]
      BY <1>4, <2>1, <3>1 DEF MainTyped
    <3>. QED  BY <1>1, <3>1, <3>2 DEF Stage, Asleep, Awake, Everything, Nothing, Starting, Stopping
  <2>. QED  BY <1>3, <2>2, <2>3 DEF StepKeeps
<1>5. CASE Interrupt(p) /\ main[p] # "sleep"
  BY <1>1, <1>2, <1>3, <1>5, UnhitHasNoFrames, EndsWithNothing DEF Interrupt, Ended
<1>. QED  BY <1>4, <1>5 DEF Sigterm, Interrupt

\* The steps of a handler: in the sleep it stops what is on, elsewhere there is
\* nothing to stop.
LEMMA HandlerStepKeeps ==
    ASSUME MainTyped, CleanInv, NEW p \in Procs, Handler(p) PROVE StepKeeps(p)
<1>. DEFINE top(x) == ~disturbed[p] => frames[p] = <<x>>
<1>1. ASSUME NEW x \in {"handler", "stop_subs", "join", "restore"}, InFrame(p, x)
      PROVE  top(x)
  BY <1>1, OneFrame DEF InFrame, Top, CleanInv, Stage, Asleep, Awake
<1>2. ASSUME NEW x, NEW y, top(x), FrameGoto(p, y)
      PROVE  /\ ~disturbed[p] => frames'[p] = <<y>>
             /\ \A q \in Procs \ {p} : frames'[q] = frames[q]
  BY <1>2, OneFrame DEF FrameGoto, MainTyped
<1>3. CASE HandlerStops(p)
  <2>1. StateTyped' /\ \A q \in Procs \ {p} : Same(q)
    BY <1>1, <1>2, <1>3, StopCalledKeeps DEF HandlerStops, Same
  <2>2. ASSUME ~disturbed[p], main[p] = "sleep" PROVE Stage(p)'
    <3>1. Everything(p)
      BY <1>1, <1>3, <2>2, OneFrame DEF HandlerStops, CleanInv, Stage, Asleep
    <3>2. AfterStop(p, "restore") = "stop_subs"
      BY <3>1 DEF AfterStop, Everything
    <3>3. Going(p)' /\ frames'[p] = <<"stop_subs">>
      BY <1>1, <1>2, <1>3, <2>2, <3>1, <3>2, StopCalledKeeps DEF HandlerStops
    <3>. QED  BY <1>3, <2>2, <3>3 DEF HandlerStops, Stage, Asleep
  <2>3. ASSUME ~disturbed[p], main[p] # "sleep" PROVE Stage(p)'
    <3>1. Nothing(p) /\ main[p] \notin {"start_subs", "start_thread"} \cup Stopping
      BY <1>1, <1>3, <2>3, OneFrame DEF HandlerStops, CleanInv, Stage, Awake, Stopping
    <3>2. AfterStop(p, "restore") = "restore" /\ UNCHANGED <<refs, loop, at>>
      BY <1>3, <3>1 DEF HandlerStops, StopCalled, AfterStop, Nothing
    <3>3. frames'[p] = <<"restore">>
      BY <1>1, <1>2, <1>3, <2>3, <3>2 DEF HandlerStops
    <3>. QED  BY <1>3, <2>3, <3>1, <3>2, <3>3 DEF HandlerStops, Stage, Awake, Nothing, Stopping
  <2>. QED  BY <1>3, <2>1, <2>2, <2>3 DEF StepKeeps, HandlerStops
<1>4. CASE HandlerStopsSub(p)
  <2>1. StateTyped' /\ \A q \in Procs \ {p} : Same(q)
    BY <1>1, <1>2, <1>4, OneLess DEF HandlerStopsSub, Same
  <2>2. ASSUME ~disturbed[p] PROVE Stage(p)'
    <3>1. main[p] = "sleep" /\ Going(p)
      BY <1>1, <1>4, <2>2, OneFrame DEF HandlerStopsSub, CleanInv, Stage, Asleep, Awake
    <3>2. IF at[p] <= Subs THEN Going(p)' ELSE Nothing(p)'
      BY <1>4, <3>1, OneLess DEF HandlerStopsSub
    <3>3. frames'[p] = IF at[p] <= Subs THEN <<"stop_subs">> ELSE <<"join">>
      BY <1>1, <1>2, <1>4, <2>2 DEF HandlerStopsSub
    <3>. QED  BY <1>4, <3>1, <3>2, <3>3 DEF HandlerStopsSub, Stage, Asleep
  <2>. QED  BY <1>4, <2>1, <2>2 DEF StepKeeps, HandlerStopsSub
<1>5. ASSUME ~disturbed[p], frames[p] \in {<<"join">>, <<"restore">>} PROVE Nothing(p)
  BY <1>5, OneFrame DEF CleanInv, Stage, Asleep, Awake, Stopping
<1>6. CASE HandlerJoins(p)
  <2>1. disturbed[p] \/ Nothing(p)
    BY <1>1, <1>5, <1>6 DEF HandlerJoins
  <2>2. CASE End(p, "exit 1")
    BY <1>6, <2>1, <2>2, EndsWithNothing DEF HandlerJoins, run_data, Ended, CleanInv, StateTyped
  <2>3. CASE FrameGoto(p, "restore") /\ UNCHANGED main
    <3>1. StateTyped' /\ \A q \in Procs \ {p} : Same(q)
      BY <1>1, <1>2, <1>6, <2>3 DEF HandlerJoins, Same, run_data, CleanInv, StateTyped
    <3>2. ASSUME ~disturbed[p] PROVE Stage(p)'
      <4>1. frames[p] = <<"join">> /\ frames'[p] = <<"restore">> /\ Nothing(p)
        BY <1>1, <1>2, <1>6, <2>1, <2>3, <3>2 DEF HandlerJoins
      <4>2. main[p] = "sleep"
        BY <3>2, <4>1, OneFrame DEF CleanInv, Stage, Awake
      <4>. QED  BY <1>6, <2>3, <4>1, <4>2 DEF HandlerJoins, Stage, Asleep, Nothing, run_data
    <3>. QED  BY <1>6, <3>1, <3>2 DEF StepKeeps, HandlerJoins
  <2>. QED  BY <1>6, <2>2, <2>3 DEF HandlerJoins
<1>7. CASE HandlerExits(p)
  <2>1. disturbed[p] \/ Nothing(p)
    BY <1>1, <1>5, <1>7 DEF HandlerExits
  <2>. QED  BY <1>7, <2>1, EndsWithNothing DEF HandlerExits, run_data, Ended, CleanInv, StateTyped
<1>. QED  BY <1>3, <1>4, <1>6, <1>7 DEF Handler

LEMMA CleanStep == ASSUME CleanInv, NEW p \in Procs, StepKeeps(p) PROVE CleanInv'
<1>1. ASSUME NEW q \in Procs, q # p, ~disturbed'[q] PROVE Stage(q)'
  <2>1. Same(q) /\ ~disturbed[q]
    BY <1>1 DEF StepKeeps, Same
  <2>. QED  BY <1>1, <2>1, SameKeeps DEF CleanInv
<1>. QED  BY <1>1 DEF StepKeeps, CleanInv

LEMMA CleanInit == ASSUME OfflineInit PROVE CleanInv
BY DEF OfflineInit, CleanInv, StateTyped, Stage, Awake, Nothing, Stopping

LEMMA CleanStutter == ASSUME CleanInv, UNCHANGED run_vars PROVE CleanInv'
BY DEF CleanInv, StateTyped, Stage, Asleep, Awake, Nothing, Everything, Going, Coming, AllHaveCome,
       run_vars, run_data
-----------------------------------------------------------------------------
(* Theorems *)

\* What is on in a run that was left alone in its start and its stop follows
\* from where it is.
THEOREM CleanInvariance == OfflineSpec => []CleanInv
<1>1. MainTyped /\ CleanInv /\ [OfflineNext]_run_vars => CleanInv'
  BY RestOfMainKeeps, StartsKeep, StopSubKeeps, RaisesKeeps, SignalsKeep, HandlerStepKeeps,
     CleanStep, CleanStutter DEF OfflineNext, MainStep
<1>2. LockInv => MainTyped
  BY DEF LockInv
<1>. QED  BY CleanInit, LockInvariance, <1>1, <1>2, PTL DEF OfflineSpec

\* A run that ends, killed in its sleep or later, interrupted, or by itself, has
\* told its loop to end and switched off every collector.
THEOREM RunEndsClean == OfflineSpec => []EndsClean
<1>1. MainTyped /\ CleanInv => EndsClean
  BY DEF CleanInv, EndsClean, Stage, Awake, Nothing, Ended
<1>2. LockInv => MainTyped
  BY DEF LockInv
<1>. QED  BY <1>1, <1>2, LockInvariance, CleanInvariance, PTL
-----------------------------------------------------------------------------

(* Numbers and sequences. *)

\* The numbers of a sequence of subscribers or of graphs go up.
Rising(s) == \A i, j \in DOMAIN s : i < j => s[i] < s[j]
In(e, s) == \E i \in DOMAIN s : s[i] = e

\* Every set of numbers has a least one: induction, for the lemmas below.
LEMMA LeastNumber == ASSUME NEW T \in SUBSET Nat, T # {}
                PROVE \E x \in T : \A y \in T : x <= y
<1>1. IsWellFoundedOn(OpToRel(<, Nat), Nat)
  BY NatLessThanWellFounded
<1>. DEFINE R == OpToRel(<, Nat)
<1>2. \A a, b \in Nat : <<a, b>> \in R <=> a < b
  BY DEF OpToRel
<1>. HIDE DEF R
<1>3. IsWellFoundedOn(R, Nat)
  BY <1>1 DEF R
<1>4. \E x \in T : \A y \in T : ~(<<y, x>> \in R)
  BY <1>3, WFMin
<1>5. PICK x \in T : \A y \in T : ~(<<y, x>> \in R)
  BY <1>4
<1>6. \A y \in T : x <= y
  <2>1. TAKE y \in T
  <2>2. x \in Nat /\ y \in Nat OBVIOUS
  <2>3. ~(y < x) BY <1>2, <1>5, <2>2
  <2>. QED BY <2>2, <2>3
<1>. QED BY <1>6

\* Where the elements of two sequences are in the one made of them.
LEMMA ConcatFacts ==
    ASSUME NEW S, NEW s \in Seq(S), NEW t \in Seq(S)
    PROVE  /\ s \o t \in Seq(S) /\ Len(s \o t) = Len(s) + Len(t)
           /\ \A i \in 1..Len(s) : (s \o t)[i] = s[i]
           /\ \A i \in 1..Len(t) : (s \o t)[Len(s) + i] = t[i]
OBVIOUS

\* The elements of a sequence have its type, and the other way round.
LEMMA Elements == ASSUME NEW S, NEW s \in Seq(S) PROVE \A i \in DOMAIN s : s[i] \in S
OBVIOUS

LEMMA Retyped ==
    ASSUME NEW S, NEW T, NEW s \in Seq(S), \A i \in DOMAIN s : s[i] \in T
    PROVE  s \in Seq(T)
OBVIOUS

\* What is left of a sequence without one of its elements.
LEMMA RemoveAtFacts ==
    ASSUME NEW S, NEW s \in Seq(S), NEW k \in DOMAIN s
    PROVE  /\ RemoveAt(s, k) \in Seq(S)
           /\ Len(RemoveAt(s, k)) = Len(s) - 1
           /\ \A i \in 1..Len(s) - 1 : RemoveAt(s, k)[i] = s[IF i < k THEN i ELSE i + 1]
<1>. DEFINE before == SubSeq(s, 1, k - 1)
            behind == SubSeq(s, k + 1, Len(s))
<1>1. k \in 1..Len(s) /\ Len(s) \in Nat
  OBVIOUS
<1>2. before \in Seq(S) /\ Len(before) = k - 1 /\ \A i \in 1..k - 1 : before[i] = s[i]
  BY <1>1
<1>3. behind \in Seq(S) /\ Len(behind) = Len(s) - k /\ \A i \in 1..Len(s) - k : behind[i] = s[k + i]
  BY <1>1
<1>4. RemoveAt(s, k) = before \o behind
  BY DEF RemoveAt
<1>. HIDE DEF before, behind
<1>5. before \o behind \in Seq(S) /\ Len(before \o behind) = Len(s) - 1
  BY <1>1, <1>2, <1>3
<1>6. ASSUME NEW i \in 1..Len(s) - 1 PROVE (before \o behind)[i] = s[IF i < k THEN i ELSE i + 1]
  <2>1. CASE i < k
    BY <2>1, <1>1, <1>2, <1>3
  <2>2. CASE ~(i < k)
    <3>0. i - (k - 1) \in 1..Len(s) - k /\ i = (k - 1) + (i - (k - 1))
      BY <2>2, <1>1
    <3>1. (before \o behind)[i] = behind[i - (k - 1)]
      <4>1. before \in Seq(S) /\ behind \in Seq(S)
        BY <1>2, <1>3
      <4>2. \A j \in 1..Len(behind) : (before \o behind)[Len(before) + j] = behind[j]
        BY <4>1, ConcatFacts
      <4>3. (before \o behind)[(k - 1) + (i - (k - 1))] = behind[i - (k - 1)]
        BY <4>2, <1>2, <1>3, <3>0
      <4>. QED
        BY <4>3, <3>0
    <3>2. k + (i - (k - 1)) = i + 1
      BY <1>1
    <3>. QED
      BY <2>2, <3>0, <3>1, <3>2, <1>3
  <2>. QED
    BY <2>1, <2>2
<1>. QED
  BY <1>4, <1>5, <1>6

\* One more at the end of a sequence that rises, or where nothing is twice.
LEMMA AppendFacts ==
    ASSUME NEW S, NEW s \in Seq(S), NEW e \in S
    PROVE  /\ Append(s, e) \in Seq(S) /\ Append(s, e) # <<>> /\ Last(Append(s, e)) = e
           /\ \A x : In(x, Append(s, e)) <=> In(x, s) \/ x = e
           /\ IsInjective(s) /\ ~In(e, s) => IsInjective(Append(s, e))
<1>. DEFINE c == Append(s, e)
            n == Len(s)
<1>1. /\ c \in Seq(S) /\ DOMAIN s = 1..n /\ DOMAIN c = 1..n + 1 /\ n \in Nat /\ Len(c) = n + 1
      /\ \A i \in 1..n : c[i] = s[i]
      /\ c[n + 1] = e
  OBVIOUS
<1>. HIDE DEF c, n
<1>2. \A i \in 1..n + 1 : i \in 1..n \/ i = n + 1
  BY <1>1
<1>3. (\A i \in 1..n : i \in 1..n + 1) /\ n + 1 \in 1..n + 1
  BY <1>1
<1>4. c # <<>> /\ Last(c) = e
  BY <1>1 DEF Last
<1>5. \A x : In(x, c) <=> In(x, s) \/ x = e
  BY <1>1, <1>2, <1>3 DEF In
<1>6. ASSUME IsInjective(s), ~In(e, s) PROVE IsInjective(c)
  BY <1>1, <1>2, <1>6, Zenon DEF IsInjective, In
<1>. QED
  BY <1>1, <1>4, <1>5, <1>6 DEF c

LEMMA AppendRises ==
    ASSUME NEW s \in Seq(Int), NEW e \in Int, Rising(s), \A i \in DOMAIN s : s[i] < e
    PROVE  Rising(Append(s, e))
BY DEF Rising

\* A sequence without its first element.
LEMMA TailFacts ==
    ASSUME NEW S, NEW s \in Seq(S), s # <<>>
    PROVE  /\ Tail(s) \in Seq(S) /\ Head(s) \in S
           /\ \A x : In(x, s) <=> x = Head(s) \/ In(x, Tail(s))
           /\ \A i \in DOMAIN Tail(s) : i + 1 \in DOMAIN s /\ Tail(s)[i] = s[i + 1]
<1>. DEFINE t == Tail(s)
            n == Len(s)
<1>1. /\ t \in Seq(S) /\ DOMAIN s = 1..n /\ DOMAIN t = 1..n - 1 /\ n \in Nat \ {0}
      /\ \A i \in 1..n - 1 : t[i] = s[i + 1]
      /\ Head(s) = s[1]
  OBVIOUS
<1>. HIDE DEF t, n
<1>2. \A i \in 1..n - 1 : i + 1 \in 1..n
  BY <1>1
<1>3. 1 \in 1..n /\ \A i \in 1..n : i = 1 \/ (i - 1 \in 1..n - 1 /\ i = (i - 1) + 1)
  BY <1>1
<1>4. s[1] \in S
  BY <1>1, <1>3
<1>5. ASSUME NEW x, In(x, s) PROVE x = Head(s) \/ In(x, t)
  <2>1. PICK i \in 1..n : s[i] = x
    BY <1>1, <1>5 DEF In
  <2>2. CASE i = 1
    BY <2>1, <2>2, <1>1
  <2>3. CASE i - 1 \in 1..n - 1 /\ i = (i - 1) + 1
    <3>1. t[i - 1] = x
      BY <2>1, <2>3, <1>1
    <3>. QED
      BY <3>1, <2>3, <1>1 DEF In
  <2>. QED
    BY <1>3, <2>2, <2>3
<1>6. ASSUME NEW x, x = Head(s) \/ In(x, t) PROVE In(x, s)
  BY <1>1, <1>2, <1>3, <1>6 DEF In
<1>. QED
  BY <1>1, <1>2, <1>4, <1>5, <1>6 DEF t

LEMMA TailRises ==
    ASSUME NEW s \in Seq(Int), s # <<>>, Rising(s)
    PROVE  Rising(Tail(s)) /\ \A i \in DOMAIN Tail(s) : Tail(s)[i] # Head(s)
<1>1. /\ DOMAIN Tail(s) = 1..Len(s) - 1 /\ DOMAIN s = 1..Len(s) /\ Len(s) \in Nat \ {0}
      /\ \A i \in 1..Len(s) - 1 : Tail(s)[i] = s[i + 1]
      /\ Head(s) = s[1] /\ \A i \in 1..Len(s) : s[i] \in Int
  OBVIOUS
<1>2. \A i \in 1..Len(s) - 1 : i + 1 \in 1..Len(s) /\ 1 < i + 1
  BY <1>1
<1>3. ASSUME NEW i \in 1..Len(s) - 1, NEW j \in 1..Len(s) - 1, i < j
      PROVE  Tail(s)[i] < Tail(s)[j]
  <2>1. i + 1 < j + 1
    BY <1>3
  <2>. QED
    BY <2>1, <1>1, <1>2 DEF Rising
<1>4. ASSUME NEW i \in 1..Len(s) - 1 PROVE Tail(s)[i] # Head(s)
  <2>1. 1 \in 1..Len(s)
    BY <1>1
  <2>2. s[1] < s[i + 1]
    BY <2>1, <1>1, <1>2 DEF Rising
  <2>. QED
    BY <2>1, <2>2, <1>1, <1>2
<1>. QED
  BY <1>1, <1>3, <1>4 DEF Rising

-----------------------------------------------------------------------------
(* The subscribers. *)

\* A broadcast under way has a graph; the core's subscriber is synchronous.
HubTyped == HubTypeOK /\ (targets # <<>> => graph > 0) /\ made # <<>> /\ ~made[1]

\* Later subscribers stand behind earlier ones, in the dictionary and in what
\* is left of the copy, because a name taken over moves to the end.
DictionaryRises == \A i, j \in DOMAIN subscribers : i < j => subscribers[i].sub < subscribers[j].sub

\* Who is still to be told has not heard of the graph, nor is there a thread
\* that will tell; a thread brings what its subscriber does not have.
ToldOnce ==
    /\ \A k \in DOMAIN targets : ~In(graph, received[targets[k]]) /\ <<targets[k], graph>> \notin threads
    /\ \A n \in Numbers, g \in 1..graph : <<n, g>> \in threads =>
           n \in DOMAIN made /\ made[n] /\ ~In(g, received[n])
    /\ \A n \in Numbers, g \in 1..graph : <<n, g>> \in failed => n \in DOMAIN made /\ n # 1
    /\ \A n \in Numbers : n \notin DOMAIN made => received[n] = <<>>

\* EverybodyTold, in the middle of a broadcast.
OnceToldKeptTold ==
    \A n \in Registered : \A g \in 2..graph :
        Told(n, g - 1) => Told(n, g) \/ (g = graph /\ In(n, targets))

\* LastGraphIsLatest, in the middle of a broadcast.
MemoryKnows ==
    graph > 0 /\ 1 \in Registered =>
        In(1, targets) \/ (received[1] # <<>> /\ Last(received[1]) = graph)

HubInv ==
    /\ HubTyped /\ DictionaryRises /\ Rising(targets) /\ ToldOnce /\ HeardOnceInOrder
    /\ OnceToldKeptTold /\ MemoryKnows

\* The dictionary without a name keeps its order, and holds nobody new.
LEMMA OthersFacts ==
    ASSUME HubTyped, DictionaryRises, NEW name
    PROVE  /\ Others(name) \in Seq([name : Names, sub : 1..Len(made)])
           /\ \A i \in DOMAIN Others(name) : Others(name)[i].sub \in Registered
           /\ \A i, j \in DOMAIN Others(name) : i < j => Others(name)[i].sub < Others(name)[j].sub
<1>. DEFINE S == [name : Names, sub : 1..Len(made)]
<1>0. subscribers \in Seq(S)
  BY DEF HubTyped, HubTypeOK
<1>. HIDE DEF S
<1>1. CASE \E i \in DOMAIN subscribers : subscribers[i].name = name
  <2>. DEFINE k == CHOOSE i \in DOMAIN subscribers : subscribers[i].name = name
              rest == RemoveAt(subscribers, k)
  <2>1. k \in DOMAIN subscribers
    BY <1>1
  <2>2. Others(name) = rest
    BY <1>1 DEF Others
  <2>. HIDE DEF k
  <2>3. /\ rest \in Seq(S) /\ Len(rest) = Len(subscribers) - 1
        /\ \A i \in 1..Len(subscribers) - 1 : rest[i] = subscribers[IF i < k THEN i ELSE i + 1]
    BY <1>0, <2>1, RemoveAtFacts
  <2>. HIDE DEF rest
  <2>4. DOMAIN rest = 1..Len(subscribers) - 1 /\ DOMAIN subscribers = 1..Len(subscribers)
        /\ Len(subscribers) \in Nat
    BY <1>0, <2>3
  <2>5. ASSUME NEW i \in DOMAIN rest
        PROVE  (IF i < k THEN i ELSE i + 1) \in DOMAIN subscribers
    BY <2>4, <2>1
  <2>6. \A i \in DOMAIN rest : rest[i].sub \in Registered
    BY <2>3, <2>4, <2>5 DEF Registered
  <2>7. ASSUME NEW i \in DOMAIN rest, NEW j \in DOMAIN rest, i < j
        PROVE  rest[i].sub < rest[j].sub
    <3>1. (IF i < k THEN i ELSE i + 1) < (IF j < k THEN j ELSE j + 1)
      BY <2>7, <2>4, <2>1
    <3>. QED
      BY <3>1, <2>3, <2>4, <2>5 DEF DictionaryRises
  <2>. QED
    BY <2>2, <2>3, <2>6, <2>7 DEF S
<1>2. CASE ~ \E i \in DOMAIN subscribers : subscribers[i].name = name
  <2>1. Others(name) = subscribers
    BY <1>2 DEF Others
  <2>. QED
    BY <2>1, <1>0 DEF Registered, DictionaryRises, S
<1>. QED
  BY <1>1, <1>2

-----------------------------------------------------------------------------
LEMMA HubInitially == ASSUME HubInit PROVE HubInv
<1>1. subscribers = <<Entry(Memory, 1)>> /\ made = <<FALSE>> /\ graph = 0 /\ targets = <<>>
      /\ threads = {} /\ failed = {} /\ received = [n \in Numbers |-> <<>>] /\ checked = NoName
  BY DEF HubInit
<1>2. Entry(Memory, 1) \in [name : Names, sub : 1..1]
  BY HubAssumption DEF Entry
<1>3. HubTyped
  <2>1. subscribers \in Seq([name : Names, sub : 1..Len(made)])
    BY <1>1, <1>2
  <2>2. graph \in 0..MaxGraphs /\ targets \in Seq(1..Len(made)) /\ Len(made) <= MaxSubscribers
    BY <1>1, HubAssumption
  <2>3. received \in [Numbers -> Seq(1..graph)]
    BY <1>1
  <2>. QED
    BY <1>1, <2>1, <2>2, <2>3 DEF HubTyped, HubTypeOK
<1>4. DictionaryRises /\ Rising(targets)
  BY <1>1 DEF DictionaryRises, Rising
<1>5. ToldOnce
  BY <1>1 DEF ToldOnce, In
<1>6. HeardOnceInOrder
  <2>1. \A n \in DOMAIN made : received[n] = <<>>
    BY <1>1, HubAssumption DEF Numbers
  <2>. QED
    BY <2>1 DEF HeardOnceInOrder, IsInjective
<1>7. OnceToldKeptTold /\ MemoryKnows
  BY <1>1 DEF OnceToldKeptTold, MemoryKnows
<1>. QED
  BY <1>3, <1>4, <1>5, <1>6, <1>7 DEF HubInv

LEMMA RegisterKeeps == ASSUME HubInv, RegisterSubscriberRoute PROVE HubInv'
<1>1. PICK name \in Names, async \in BOOLEAN :
        /\ Len(made) < MaxSubscribers
        /\ made' = Append(made, async)
        /\ subscribers' = Append(Others(name), Entry(name, Len(made')))
        /\ UNCHANGED <<graph, targets, threads, received, failed, checked>>
  BY DEF RegisterSubscriberRoute
<1>. DEFINE n == Len(made)
<1>2. /\ HubTypeOK /\ DictionaryRises /\ Rising(targets) /\ ToldOnce /\ HeardOnceInOrder
      /\ OnceToldKeptTold /\ MemoryKnows /\ made # <<>> /\ ~made[1] /\ (targets # <<>> => graph > 0)
  BY DEF HubInv, HubTyped
<1>3. /\ made' \in Seq(BOOLEAN) /\ Len(made') = n + 1 /\ n \in Nat \ {0} /\ DOMAIN made = 1..n
      /\ DOMAIN made' = 1..n + 1 /\ \A i \in 1..n : made'[i] = made[i]
  BY <1>1, <1>2 DEF HubTypeOK
<1>4. graph' = graph /\ targets' = targets /\ threads' = threads /\ received' = received
      /\ failed' = failed /\ checked' = checked
  BY <1>1
<1>. DEFINE S == [name : Names, sub : 1..Len(made)]
            T == [name : Names, sub : 1..Len(made')]
            rest == Others(name)
<1>5. rest \in Seq(S) /\ (\A i \in DOMAIN rest : rest[i].sub \in Registered)
      /\ \A i, j \in DOMAIN rest : i < j => rest[i].sub < rest[j].sub
  BY OthersFacts DEF HubInv
<1>6. \A i \in DOMAIN rest : rest[i] \in T /\ rest[i].sub < n + 1
  <2>1. \A i \in DOMAIN rest : rest[i] \in S
    BY <1>5, Elements
  <2>2. ASSUME NEW e \in S PROVE e \in T /\ e.sub < n + 1
    <3>1. e.sub \in 1..n /\ e.name \in Names /\ e = [name |-> e.name, sub |-> e.sub]
      OBVIOUS
    <3>2. e.sub \in 1..n + 1 /\ e.sub < n + 1
      BY <3>1, <1>3
    <3>. QED
      BY <3>1, <3>2, <1>3
  <2>. QED
    BY <2>1, <2>2
<1>7. rest \in Seq(T)
  BY <1>5, <1>6, Retyped
<1>8. Entry(name, n + 1) \in T /\ Entry(name, n + 1).sub = n + 1
  BY <1>3 DEF Entry
<1>9. subscribers' = Append(rest, Entry(name, n + 1))
  BY <1>1, <1>3
<1>. HIDE DEF T, S, rest, n
<1>10. subscribers' \in Seq(T) /\ DOMAIN subscribers' = 1..Len(rest) + 1 /\ DOMAIN rest = 1..Len(rest)
       /\ Len(rest) \in Nat /\ (\A i \in 1..Len(rest) : subscribers'[i] = rest[i])
       /\ subscribers'[Len(rest) + 1].sub = n + 1
  BY <1>7, <1>8, <1>9
<1>11. HubTyped'
  <2>1. targets' \in Seq(1..Len(made'))
    <3>1. 1..n \subseteq 1..n + 1
      BY <1>3
    <3>2. targets \in Seq(1..n)
      BY <1>2 DEF HubTypeOK, n
    <3>3. targets \in Seq(1..n + 1)
      BY <3>1, <3>2, Elements, Retyped
    <3>. QED
      BY <3>3, <1>3, <1>4
  <2>2. Len(made') <= MaxSubscribers
    BY <1>1, <1>3, HubAssumption DEF n
  <2>3. made' # <<>> /\ ~made'[1]
    BY <1>2, <1>3
  <2>4. HubTypeOK'
    BY <1>2, <1>3, <1>4, <1>10, <2>1, <2>2 DEF HubTypeOK, T, Numbers
  <2>. QED
    BY <2>3, <2>4, <1>2, <1>4 DEF HubTyped
<1>12. DictionaryRises'
  <2>. SUFFICES ASSUME NEW i \in 1..Len(rest) + 1, NEW j \in 1..Len(rest) + 1, i < j
                PROVE  subscribers'[i].sub < subscribers'[j].sub
    BY <1>10 DEF DictionaryRises
  <2>1. i \in 1..Len(rest) /\ (j \in 1..Len(rest) \/ j = Len(rest) + 1)
    BY <1>10
  <2>2. CASE j \in 1..Len(rest)
    BY <2>1, <2>2, <1>10, <1>5
  <2>3. CASE j = Len(rest) + 1
    BY <2>1, <2>3, <1>10, <1>6
  <2>. QED
    BY <2>1, <2>2, <2>3
<1>13. Rising(targets)'
  BY <1>2, <1>4 DEF Rising
<1>14. ToldOnce'
  <2>1. \A m \in DOMAIN made : m \in DOMAIN made' /\ made'[m] = made[m]
    BY <1>3
  <2>. QED
    BY <2>1, <1>2, <1>4 DEF ToldOnce, In, Numbers
<1>15. n + 1 \in Numbers /\ n + 1 \notin DOMAIN made
  BY <1>1, <1>3, HubAssumption DEF Numbers, n
<1>16. received[n + 1] = <<>>
  BY <1>15, <1>2 DEF ToldOnce
<1>17. HeardOnceInOrder'
  <2>. SUFFICES ASSUME NEW m \in 1..n + 1
                PROVE  /\ IsInjective(received[m])
                       /\ ~made'[m] => \A i, j \in DOMAIN received[m] :
                                          i < j => received[m][i] < received[m][j]
    BY <1>3, <1>4 DEF HeardOnceInOrder
  <2>1. CASE m = n + 1
    BY <2>1, <1>16 DEF IsInjective
  <2>2. CASE m \in 1..n
    BY <2>2, <1>2, <1>3 DEF HeardOnceInOrder
  <2>. QED
    BY <2>1, <2>2, <1>3
<1>18. Registered' \subseteq Registered \cup {n + 1}
  <2>. SUFFICES ASSUME NEW i \in 1..Len(rest) + 1
                PROVE  subscribers'[i].sub \in Registered \cup {n + 1}
    BY <1>10 DEF Registered
  <2>1. CASE i \in 1..Len(rest)
    BY <2>1, <1>10, <1>5
  <2>2. CASE i = Len(rest) + 1
    BY <2>2, <1>10
  <2>. QED
    BY <2>1, <2>2, <1>10
<1>19. OnceToldKeptTold'
  <2>1. \A m, g : Told(m, g)' <=> Told(m, g)
    BY <1>4 DEF Told
  <2>2. \A g \in 2..graph : ~Told(n + 1, g - 1)
    <3>1. graph \in Nat
      BY <1>2 DEF HubTypeOK
    <3>2. \A g \in 2..graph : g - 1 \in 1..graph
      BY <3>1
    <3>. QED
      BY <3>2, <1>15, <1>16, <1>2 DEF Told, ToldOnce
  <2>3. \A m \in Registered' : \A g \in 2..graph :
            Told(m, g - 1) => Told(m, g) \/ (g = graph /\ In(m, targets))
    BY <2>2, <1>2, <1>18 DEF OnceToldKeptTold
  <2>. QED
    BY <2>1, <2>3, <1>4 DEF OnceToldKeptTold, In
<1>20. MemoryKnows'
  <2>1. 1 \in Registered' => 1 \in Registered
    BY <1>18, <1>3
  <2>. QED
    BY <2>1, <1>2, <1>4 DEF MemoryKnows, In, Last
<1>. QED
  BY <1>11, <1>12, <1>13, <1>14, <1>17, <1>19, <1>20 DEF HubInv

\* What leaves the broadcast alone and registers nobody keeps the invariant.
LEMMA FewerKeep ==
    ASSUME HubInv, UNCHANGED <<made, graph, targets, threads, received, failed>>,
           checked' \in Names \cup {NoName},
           subscribers' \in Seq([name : Names, sub : 1..Len(made)]),
           DictionaryRises', Registered' \subseteq Registered
    PROVE  HubInv'
<1>1. made' = made /\ graph' = graph /\ targets' = targets /\ threads' = threads
      /\ received' = received /\ failed' = failed
  OBVIOUS
<1>2. HubTyped'
  BY <1>1 DEF HubInv, HubTyped, HubTypeOK
<1>3. Rising(targets)' /\ HeardOnceInOrder' /\ ToldOnce'
  BY <1>1 DEF HubInv, Rising, HeardOnceInOrder, IsInjective, ToldOnce, In
<1>4. OnceToldKeptTold'
  BY <1>1 DEF HubInv, OnceToldKeptTold, Told, In
<1>5. MemoryKnows'
  BY <1>1 DEF HubInv, MemoryKnows, In, Last
<1>. QED
  BY <1>2, <1>3, <1>4, <1>5 DEF HubInv

LEMMA DeleteKeeps == ASSUME HubInv, DeleteRouteLook \/ DeleteRoute \/ UNCHANGED hub_vars PROVE HubInv'
<1>. DEFINE S == [name : Names, sub : 1..Len(made)]
<1>1. subscribers \in Seq(S) /\ checked \in Names \cup {NoName} /\ DictionaryRises
  BY DEF HubInv, HubTyped, HubTypeOK
<1>2. CASE DeleteRouteLook
  <2>1. subscribers' = subscribers /\ UNCHANGED <<made, graph, targets, threads, received, failed>>
    BY <1>2 DEF DeleteRouteLook
  <2>2. PICK i \in DOMAIN subscribers : checked' = subscribers[i].name
    BY <1>2 DEF DeleteRouteLook
  <2>3. subscribers[i] \in S
    BY <1>1, Elements
  <2>4. checked' \in Names \cup {NoName}
    BY <2>2, <2>3
  <2>. QED
    BY <1>1, <2>1, <2>4, FewerKeep DEF DictionaryRises, Registered
<1>3. CASE DeleteRoute
  <2>1. subscribers' = Others(checked) /\ checked' = NoName
        /\ UNCHANGED <<made, graph, targets, threads, received, failed>>
    BY <1>3 DEF DeleteRoute
  <2>2. /\ Others(checked) \in Seq(S)
        /\ \A i \in DOMAIN Others(checked) : Others(checked)[i].sub \in Registered
        /\ \A i, j \in DOMAIN Others(checked) : i < j => Others(checked)[i].sub < Others(checked)[j].sub
    BY OthersFacts DEF HubInv
  <2>. HIDE DEF S
  <2>3. DictionaryRises' /\ Registered' \subseteq Registered
    BY <2>1, <2>2 DEF DictionaryRises, Registered
  <2>. QED
    BY <2>1, <2>2, <2>3, FewerKeep DEF S
<1>4. CASE UNCHANGED hub_vars
  <2>1. subscribers' = subscribers /\ checked' = checked
        /\ UNCHANGED <<made, graph, targets, threads, received, failed>>
    BY <1>4 DEF hub_vars
  <2>. QED
    BY <1>1, <2>1, FewerKeep DEF DictionaryRises, Registered
<1>. QED
  BY <1>2, <1>3, <1>4

LEMMA NotifyKeeps == ASSUME HubInv, Notify PROVE HubInv'
<1>1. targets = <<>> /\ graph < MaxGraphs /\ graph' = graph + 1
      /\ targets' = [i \in DOMAIN subscribers |-> subscribers[i].sub]
      /\ subscribers' = subscribers /\ made' = made /\ threads' = threads /\ received' = received
      /\ failed' = failed /\ checked' = checked
  BY DEF Notify
<1>2. HubTypeOK /\ DictionaryRises /\ ToldOnce /\ HeardOnceInOrder /\ OnceToldKeptTold
      /\ made # <<>> /\ ~made[1]
  BY DEF HubInv, HubTyped
<1>3. graph \in Nat /\ graph' \in 1..MaxGraphs /\ 1..graph \subseteq 1..graph' /\ graph' \notin 1..graph
  BY <1>1, <1>2, HubAssumption DEF HubTypeOK
<1>4. DOMAIN subscribers = 1..Len(subscribers) /\ Len(subscribers) \in Nat
      /\ \A i \in DOMAIN subscribers : subscribers[i].sub \in 1..Len(made)
  <2>. DEFINE S == [name : Names, sub : 1..Len(made)]
  <2>1. subscribers \in Seq(S)
    BY <1>2 DEF HubTypeOK
  <2>2. \A e \in S : e.sub \in 1..Len(made)
    OBVIOUS
  <2>. HIDE DEF S
  <2>. QED
    BY <2>1, <2>2
<1>5. targets' \in Seq(1..Len(made)) /\ DOMAIN targets' = DOMAIN subscribers
      /\ \A i \in DOMAIN targets' : targets'[i] = subscribers[i].sub
  BY <1>1, <1>4
<1>6. \A n \in Numbers : received[n] \in Seq(1..graph) /\ received[n] \in Seq(1..graph') /\ ~In(graph', received[n])
  <2>. SUFFICES ASSUME NEW n \in Numbers
                PROVE  received[n] \in Seq(1..graph) /\ received[n] \in Seq(1..graph') /\ ~In(graph', received[n])
    OBVIOUS
  <2>1. received[n] \in Seq(1..graph)
    BY <1>2 DEF HubTypeOK
  <2>2. \A i \in DOMAIN received[n] : received[n][i] \in 1..graph
    BY <2>1, Elements
  <2>. QED
    BY <2>1, <2>2, <1>3, Retyped DEF In
<1>7. HubTyped'
  <2>1. received \in [Numbers -> Seq(1..graph')]
    BY <1>6, <1>2 DEF HubTypeOK
  <2>2. threads \subseteq Numbers \X (1..graph') /\ failed \subseteq Numbers \X (1..graph')
    BY <1>2, <1>3 DEF HubTypeOK
  <2>3. HubTypeOK'
    <3>1. graph' \in 0..MaxGraphs
      BY <1>3, HubAssumption
    <3>. QED
      BY <1>1, <1>2, <1>5, <2>1, <2>2, <3>1 DEF HubTypeOK, Numbers
  <2>. QED
    BY <2>3, <1>1, <1>2, <1>3 DEF HubTyped
<1>8. DictionaryRises' /\ Rising(targets)'
  BY <1>1, <1>2, <1>5 DEF DictionaryRises, Rising
<1>9. ToldOnce'
  <2>1. \A n \in Numbers, g \in 1..graph' : <<n, g>> \in threads \cup failed => g \in 1..graph
    BY <1>2 DEF HubTypeOK
  <2>2. \A k \in DOMAIN targets' : targets'[k] \in Numbers
    <3>1. 1..Len(made) \subseteq Numbers
      BY <1>2, HubAssumption DEF HubTypeOK, Numbers
    <3>. QED
      BY <3>1, <1>4, <1>5
  <2>3. \A k \in DOMAIN targets' :
            ~In(graph', received[targets'[k]]) /\ <<targets'[k], graph'>> \notin threads
    BY <2>1, <2>2, <1>6, <1>3
  <2>4. /\ \A n \in Numbers, g \in 1..graph' : <<n, g>> \in threads =>
               n \in DOMAIN made /\ made[n] /\ ~In(g, received[n])
        /\ \A n \in Numbers, g \in 1..graph' : <<n, g>> \in failed => n \in DOMAIN made /\ n # 1
        /\ \A n \in Numbers : n \notin DOMAIN made => received[n] = <<>>
    BY <2>1, <1>2 DEF ToldOnce
  <2>. QED
    BY <2>3, <2>4, <1>1 DEF ToldOnce, In, Numbers
<1>10. HeardOnceInOrder'
  BY <1>1, <1>2 DEF HeardOnceInOrder, IsInjective
<1>11. \A n \in Registered' : In(n, targets')
  BY <1>1, <1>5 DEF Registered, In
<1>12. OnceToldKeptTold'
  <2>1. \A n, g : Told(n, g)' <=> Told(n, g)
    BY <1>1 DEF Told
  <2>2. \A g \in 2..graph' : g \in 2..graph \/ g = graph'
    BY <1>1, <1>3
  <2>3. Registered' = Registered
    BY <1>1 DEF Registered
  <2>4. \A n : ~In(n, targets)
    BY <1>1 DEF In
  <2>5. \A n \in Registered' : \A g \in 2..graph' :
            Told(n, g - 1) => Told(n, g) \/ (g = graph' /\ In(n, targets'))
    BY <2>2, <2>3, <2>4, <1>2, <1>11 DEF OnceToldKeptTold
  <2>. QED
    BY <2>1, <2>5 DEF OnceToldKeptTold, In
<1>13. MemoryKnows'
  BY <1>11 DEF MemoryKnows, In
<1>. QED
  BY <1>7, <1>8, <1>9, <1>10, <1>12, <1>13 DEF HubInv

\* The subscriber whose turn it is, and those after it.
LEMMA TurnFacts ==
    ASSUME HubInv, targets # <<>>
    PROVE  /\ Head(targets) \in Numbers /\ Head(targets) \in DOMAIN made
           /\ graph \in 1..graph /\ graph \in Nat
           /\ ~In(graph, received[Head(targets)]) /\ <<Head(targets), graph>> \notin threads
           /\ Tail(targets) \in Seq(1..Len(made)) /\ Rising(Tail(targets))
           /\ \A x : In(x, targets) <=> x = Head(targets) \/ In(x, Tail(targets))
           /\ \A k \in DOMAIN Tail(targets) :
                /\ Tail(targets)[k] \in Numbers /\ Tail(targets)[k] # Head(targets)
                /\ ~In(graph, received[Tail(targets)[k]]) /\ <<Tail(targets)[k], graph>> \notin threads
<1>. DEFINE n == Head(targets)
            S == 1..Len(made)
<1>1. HubTypeOK /\ ToldOnce /\ Rising(targets) /\ graph > 0
  BY DEF HubInv, HubTyped
<1>2. targets \in Seq(S) /\ graph \in Nat /\ graph \in 1..graph
  BY <1>1, HubAssumption DEF HubTypeOK
<1>3. S \subseteq Numbers /\ S = DOMAIN made /\ S \subseteq Int
  BY <1>1, HubAssumption DEF HubTypeOK, Numbers
<1>. HIDE DEF S
<1>4. targets \in Seq(Int)
  BY <1>2, <1>3, Elements, Retyped
<1>5. /\ Tail(targets) \in Seq(S) /\ n \in S
      /\ \A x : In(x, targets) <=> x = n \/ In(x, Tail(targets))
      /\ \A i \in DOMAIN Tail(targets) : i + 1 \in DOMAIN targets /\ Tail(targets)[i] = targets[i + 1]
  BY <1>2, TailFacts
<1>6. Rising(Tail(targets)) /\ \A i \in DOMAIN Tail(targets) : Tail(targets)[i] # n
  BY <1>1, <1>4, TailRises
<1>7. \A x : In(x, targets) => ~In(graph, received[x]) /\ <<x, graph>> \notin threads
  BY <1>1 DEF ToldOnce, In
<1>8. \A k \in DOMAIN Tail(targets) : Tail(targets)[k] \in S /\ In(Tail(targets)[k], Tail(targets))
  BY <1>5, Elements DEF In
<1>. QED
  BY <1>2, <1>3, <1>5, <1>6, <1>7, <1>8 DEF S

\* A subscriber gets a graph it did not have; one that is not told by threads
\* gets that of the broadcast.
LEMMA ReceiveFacts ==
    ASSUME HubInv, NEW n \in Numbers, NEW g \in 1..graph, n \in DOMAIN made,
           ~In(g, received[n]), ~made[n] => g = graph, Receive(n, g), made' = made
    PROVE  /\ received' \in [Numbers -> Seq(1..graph)]
           /\ \A m \in Numbers : m # n => received'[m] = received[m]
           /\ \A x : In(x, received'[n]) <=> In(x, received[n]) \/ x = g
           /\ received'[n] # <<>> /\ Last(received'[n]) = g
           /\ HeardOnceInOrder'
<1>1. HubTypeOK /\ HeardOnceInOrder
  BY DEF HubInv, HubTyped
<1>. DEFINE S == 1..graph
            s == received[n]
<1>2. received \in [Numbers -> Seq(S)] /\ graph \in Nat
  BY <1>1, HubAssumption DEF HubTypeOK
<1>3. received' = [received EXCEPT ![n] = Append(s, g)]
  BY DEF Receive
<1>4. S \subseteq Int /\ \A x \in S : x <= graph
  BY <1>2
<1>5. g \in S
  OBVIOUS
<1>. HIDE DEF S
<1>6. s \in Seq(S)
  BY <1>2
<1>7. Append(s, g) \in Seq(S) /\ Append(s, g) # <<>> /\ Last(Append(s, g)) = g
      /\ (\A x : In(x, Append(s, g)) <=> In(x, s) \/ x = g)
      /\ (IsInjective(s) /\ ~In(g, s) => IsInjective(Append(s, g)))
  BY <1>5, <1>6, AppendFacts
<1>8. received' \in [Numbers -> Seq(S)] /\ received'[n] = Append(s, g)
      /\ \A m \in Numbers : m # n => received'[m] = received[m]
  BY <1>2, <1>3, <1>7
<1>9. \A m \in DOMAIN made : m \in Numbers
  BY <1>1, HubAssumption DEF HubTypeOK, Numbers
<1>10. HeardOnceInOrder'
  <2>. SUFFICES ASSUME NEW m \in DOMAIN made
                PROVE  IsInjective(received'[m]) /\ (~made[m] => Rising(received'[m]))
    <3>1. \A m \in DOMAIN made : IsInjective(received'[m]) /\ (~made[m] => Rising(received'[m]))
      OBVIOUS
    <3>. QED
      BY <3>1 DEF HeardOnceInOrder, Rising, IsInjective
  <2>1. \A l \in DOMAIN made : IsInjective(received[l]) /\ (~made[l] => Rising(received[l]))
    BY <1>1 DEF HeardOnceInOrder, Rising
  <2>2. CASE m # n
    BY <2>1, <2>2, <1>8, <1>9
  <2>3. CASE m = n
    <3>1. IsInjective(Append(s, g))
      BY <2>1, <1>7
    <3>2. ASSUME ~made[n] PROVE Rising(Append(s, g))
      <4>1. s \in Seq(Int) /\ g \in Int
        BY <1>4, <1>5, <1>6, Elements, Retyped
      <4>2. \A i \in DOMAIN s : s[i] \in S /\ s[i] # g
        BY <1>6, Elements DEF In
      <4>3. \A i \in DOMAIN s : s[i] < g
        BY <1>2, <1>4, <3>2, <4>1, <4>2
      <4>4. Rising(s)
        BY <2>1, <3>2
      <4>. QED
        BY <4>1, <4>3, <4>4, AppendRises
    <3>. QED
      BY <2>3, <3>1, <3>2, <1>8
  <2>. QED
    BY <2>2, <2>3
<1>. QED
  BY <1>7, <1>8, <1>10 DEF S

\* The turn of the first target ends: it was told, and nobody else.
LEMMA TurnEnds ==
    ASSUME HubInv, NEW n, n = Head(targets), targets # <<>>, targets' = Tail(targets),
           subscribers' = subscribers, made' = made, graph' = graph, checked' = checked,
           received' \in [Numbers -> Seq(1..graph)], HeardOnceInOrder',
           threads' \subseteq Numbers \X (1..graph), failed' \subseteq Numbers \X (1..graph),
           \A m \in Numbers : m # n => received'[m] = received[m],
           \A m \in Numbers, g \in 1..graph : m # n \/ g # graph =>
               /\ <<m, g>> \in threads' <=> <<m, g>> \in threads
               /\ <<m, g>> \in failed' <=> <<m, g>> \in failed,
           \A x \in 1..graph : x # graph =>
               (In(x, received'[n]) <=> In(x, received[n])),
           Told(n, graph)',
           <<n, graph>> \in threads' =>
               made[n] /\ received'[n] = received[n],
           <<n, graph>> \in failed' => n # 1,
           n = 1 => received'[1] # <<>> /\ Last(received'[1]) = graph
    PROVE  HubInv'
<1>1. /\ n \in Numbers /\ n \in DOMAIN made
      /\ graph \in 1..graph /\ graph \in Nat
      /\ ~In(graph, received[n]) /\ <<n, graph>> \notin threads
      /\ targets' \in Seq(1..Len(made)) /\ Rising(targets')
      /\ \A x : In(x, targets) <=> x = n \/ In(x, targets')
      /\ \A k \in DOMAIN targets' :
            /\ targets'[k] \in Numbers /\ targets'[k] # n
            /\ ~In(graph, received[targets'[k]]) /\ <<targets'[k], graph>> \notin threads
  BY TurnFacts
<1>2. HubTypeOK /\ DictionaryRises /\ ToldOnce /\ OnceToldKeptTold /\ MemoryKnows
      /\ made # <<>> /\ ~made[1]
  BY DEF HubInv, HubTyped
<1>3. HubTyped'
  BY <1>1, <1>2 DEF HubTyped, HubTypeOK, Numbers
<1>4. DictionaryRises'
  BY <1>2 DEF DictionaryRises
<1>5. Rising(targets)'
  BY <1>1 DEF Rising
<1>6. ToldOnce'
  <2>1. \A k \in DOMAIN targets' :
            ~In(graph, received'[targets'[k]]) /\ <<targets'[k], graph>> \notin threads'
    BY <1>1
  <2>2. ASSUME NEW m \in Numbers, NEW g \in 1..graph, <<m, g>> \in threads'
        PROVE  m \in DOMAIN made /\ made[m] /\ ~In(g, received'[m])
    <3>1. CASE m = n /\ g = graph
      BY <2>2, <3>1, <1>1
    <3>2. CASE m = n /\ g # graph
      BY <2>2, <3>2, <1>1, <1>2 DEF ToldOnce
    <3>3. CASE m # n
      BY <2>2, <3>3, <1>1, <1>2 DEF ToldOnce
    <3>. QED
      BY <3>1, <3>2, <3>3
  <2>3. \A m \in Numbers, g \in 1..graph : <<m, g>> \in failed' => m \in DOMAIN made /\ m # 1
    BY <1>1, <1>2 DEF ToldOnce
  <2>4. \A m \in Numbers : m \notin DOMAIN made => received'[m] = <<>>
    BY <1>1, <1>2 DEF ToldOnce
  <2>. QED
    <3>1. graph' = graph /\ made' = made
      OBVIOUS
    <3>2. Numbers' = Numbers
      BY DEF Numbers
    <3>3. (\A k \in DOMAIN targets : ~In(graph, received[targets[k]]) /\ <<targets[k], graph>> \notin threads)'
      BY <2>1, <3>1
    <3>4. (\A k \in Numbers, g \in 1..graph : <<k, g>> \in threads =>
             k \in DOMAIN made /\ made[k] /\ ~In(g, received[k]))'
      BY <2>2, <3>1, <3>2
    <3>5. (\A k \in Numbers, g \in 1..graph : <<k, g>> \in failed => k \in DOMAIN made /\ k # 1)'
      BY <2>3, <3>1, <3>2
    <3>6. (\A k \in Numbers : k \notin DOMAIN made => received[k] = <<>>)'
      BY <2>4, <3>1, <3>2
    <3>. QED
      BY <3>3, <3>4, <3>5, <3>6 DEF ToldOnce
<1>8. Registered' = Registered /\ Registered \subseteq Numbers
  <2>. DEFINE T == [name : Names, sub : 1..Len(made)]
  <2>1. subscribers \in Seq(T)
    BY <1>2 DEF HubTypeOK
  <2>2. 1..Len(made) \subseteq Numbers
    BY <1>2, HubAssumption DEF HubTypeOK, Numbers
  <2>3. \A e \in T : e.sub \in Numbers
    BY <2>2
  <2>. HIDE DEF T
  <2>4. \A i \in DOMAIN subscribers : subscribers[i] \in T
    BY <2>1, Elements
  <2>. QED
    BY <2>3, <2>4 DEF Registered
<1>9. \A m \in Numbers, g \in 1..graph : m # n \/ g # graph => (Told(m, g)' <=> Told(m, g))
  <2>. SUFFICES ASSUME NEW m \in Numbers, NEW g \in 1..graph, m # n \/ g # graph
                PROVE  Told(m, g)' <=> Told(m, g)
    OBVIOUS
  <2>1. In(g, received'[m]) <=> In(g, received[m])
    BY <1>1
  <2>2. (<<m, g>> \in threads' <=> <<m, g>> \in threads) /\ (<<m, g>> \in failed' <=> <<m, g>> \in failed)
    BY <1>1
  <2>. QED
    BY <2>1, <2>2 DEF Told, In
<1>10. OnceToldKeptTold'
  <2>. SUFFICES ASSUME NEW m \in Registered, NEW g \in 2..graph, Told(m, g - 1)'
                PROVE  Told(m, g)' \/ (g = graph /\ In(m, targets'))
    BY <1>8 DEF OnceToldKeptTold, In
  <2>1. g \in 1..graph /\ g - 1 \in 1..graph /\ g - 1 # graph
    BY <1>1
  <2>2. Told(m, g - 1)
    BY <2>1, <1>8, <1>9
  <2>3. Told(m, g) \/ (g = graph /\ In(m, targets))
    BY <2>2, <1>2 DEF OnceToldKeptTold
  <2>4. CASE m = n /\ g = graph
    <3>1. Told(m, g)' <=> Told(n, graph)'
      BY <2>4 DEF Told
    <3>. QED
      BY <3>1
  <2>5. CASE ~(m = n /\ g = graph)
    BY <2>1, <2>3, <2>5, <1>1, <1>8, <1>9
  <2>. QED
    BY <2>4, <2>5
<1>11. MemoryKnows'
  <2>. SUFFICES ASSUME graph > 0, 1 \in Registered
                PROVE  In(1, targets') \/ (received'[1] # <<>> /\ Last(received'[1]) = graph)
    BY <1>8 DEF MemoryKnows, In, Last
  <2>1. In(1, targets) \/ (received[1] # <<>> /\ Last(received[1]) = graph)
    BY <1>2 DEF MemoryKnows
  <2>2. CASE n = 1
    BY <2>2
  <2>3. CASE n # 1
    BY <2>1, <2>3, <1>1, <1>8
  <2>. QED
    BY <2>2, <2>3
<1>. QED
  BY <1>3, <1>4, <1>5, <1>6, <1>10, <1>11 DEF HubInv

LEMMA DeliverKeeps == ASSUME HubInv, Deliver PROVE HubInv'
<1>0. PICK n : n = Head(targets)
  OBVIOUS
<1>1. targets # <<>> /\ ~made[n] /\ targets' = Tail(targets) /\ subscribers' = subscribers
      /\ made' = made /\ graph' = graph /\ threads' = threads /\ checked' = checked
  BY <1>0 DEF Deliver
<1>2. n \in Numbers /\ n \in DOMAIN made /\ graph \in 1..graph /\ ~In(graph, received[n])
      /\ <<n, graph>> \notin threads
  BY <1>0, <1>1, TurnFacts
<1>3. HubTypeOK /\ ToldOnce /\ HeardOnceInOrder
  BY DEF HubInv, HubTyped
<1>4. CASE Receive(n, graph) /\ failed' = failed
  <2>1. /\ received' \in [Numbers -> Seq(1..graph)]
        /\ \A m \in Numbers : m # n => received'[m] = received[m]
        /\ \A x : In(x, received'[n]) <=> In(x, received[n]) \/ x = graph
        /\ received'[n] # <<>> /\ Last(received'[n]) = graph
        /\ HeardOnceInOrder'
    BY <1>1, <1>2, <1>4, ReceiveFacts
  <2>2. Told(n, graph)'
    <3>1. In(graph, received'[n])
      BY <2>1
    <3>. QED
      BY <3>1, <1>1 DEF Told, In
  <2>3. <<n, graph>> \in failed => n # 1
    BY <1>2, <1>3 DEF ToldOnce
  <2>. QED
    BY <1>1, <1>2, <1>3, <1>4, <2>1, <2>2, <2>3, <1>0, TurnEnds DEF HubTypeOK
<1>5. CASE n # 1 /\ failed' = failed \cup {<<n, graph>>} /\ received' = received
  <2>1. Told(n, graph)'
    BY <1>5, <1>1 DEF Told
  <2>2. HeardOnceInOrder'
    BY <1>1, <1>3, <1>5 DEF HeardOnceInOrder, IsInjective
  <2>3. failed' \subseteq Numbers \X (1..graph) /\ threads' \subseteq Numbers \X (1..graph)
        /\ received' \in [Numbers -> Seq(1..graph)]
    BY <1>1, <1>2, <1>3, <1>5 DEF HubTypeOK
  <2>. QED
    BY <1>1, <1>2, <1>5, <2>1, <2>2, <2>3, <1>0, TurnEnds
<1>. QED
  BY <1>0, <1>1, <1>4, <1>5 DEF Deliver

LEMMA DeliverAsyncKeeps == ASSUME HubInv, DeliverAsync PROVE HubInv'
<1>0. PICK n : n = Head(targets)
  OBVIOUS
<1>1. targets # <<>> /\ made[n] /\ targets' = Tail(targets) /\ subscribers' = subscribers
      /\ made' = made /\ graph' = graph /\ threads' = threads \cup {<<n, graph>>}
      /\ checked' = checked /\ received' = received /\ failed' = failed
  BY <1>0 DEF DeliverAsync
<1>2. n \in Numbers /\ n \in DOMAIN made /\ graph \in 1..graph /\ ~In(graph, received[n])
      /\ <<n, graph>> \notin threads
  BY <1>0, <1>1, TurnFacts
<1>3. HubTypeOK /\ ToldOnce /\ HeardOnceInOrder /\ ~made[1]
  BY DEF HubInv, HubTyped
<1>4. Told(n, graph)'
  BY <1>1 DEF Told
<1>5. HeardOnceInOrder'
  BY <1>1, <1>3 DEF HeardOnceInOrder, IsInjective
<1>6. <<n, graph>> \in failed => n # 1
  BY <1>2, <1>3 DEF ToldOnce
<1>7. failed' \subseteq Numbers \X (1..graph) /\ threads' \subseteq Numbers \X (1..graph)
      /\ received' \in [Numbers -> Seq(1..graph)]
  BY <1>1, <1>2, <1>3 DEF HubTypeOK
<1>8. n # 1
  BY <1>1, <1>3
<1>. QED
  BY <1>1, <1>2, <1>4, <1>5, <1>6, <1>7, <1>8, <1>0, TurnEnds

LEMMA AsyncReceiveKeeps ==
    ASSUME HubInv, NEW n \in Numbers, NEW g \in 1..MaxGraphs, AsyncReceive(<<n, g>>)
    PROVE  HubInv'
<1>1. <<n, g>> \in threads /\ threads' = threads \ {<<n, g>>} /\ Receive(n, g)
      /\ subscribers' = subscribers /\ made' = made /\ graph' = graph /\ targets' = targets
      /\ failed' = failed /\ checked' = checked
  BY DEF AsyncReceive
<1>2. HubTyped /\ HubTypeOK /\ ToldOnce /\ OnceToldKeptTold /\ MemoryKnows /\ DictionaryRises
      /\ Rising(targets) /\ ~made[1]
  BY DEF HubInv, HubTyped
<1>3. g \in 1..graph /\ n \in DOMAIN made /\ made[n] /\ ~In(g, received[n])
  BY <1>1, <1>2 DEF HubTypeOK, ToldOnce
<1>4. /\ received' \in [Numbers -> Seq(1..graph)]
      /\ \A m \in Numbers : m # n => received'[m] = received[m]
      /\ \A x : In(x, received'[n]) <=> In(x, received[n]) \/ x = g
      /\ received'[n] # <<>> /\ Last(received'[n]) = g
      /\ HeardOnceInOrder'
  BY <1>1, <1>3, ReceiveFacts
<1>5. HubTyped'
  BY <1>1, <1>2, <1>4 DEF HubTyped, HubTypeOK, Numbers
<1>6. DictionaryRises' /\ Rising(targets)'
  BY <1>1, <1>2 DEF DictionaryRises, Rising
<1>7. \A m \in Numbers : \A x : In(x, received'[m]) <=> In(x, received[m]) \/ (m = n /\ x = g)
  BY <1>4
<1>8. \A k \in DOMAIN targets : targets[k] \in Numbers
  <2>. DEFINE S == 1..Len(made)
  <2>1. targets \in Seq(S) /\ S \subseteq Numbers
    BY <1>2, HubAssumption DEF HubTypeOK, Numbers
  <2>. HIDE DEF S
  <2>. QED
    BY <2>1, Elements
<1>9. ToldOnce'
  <2>1. ASSUME NEW k \in DOMAIN targets
        PROVE  ~In(graph, received'[targets[k]]) /\ <<targets[k], graph>> \notin threads'
    <3>1. ~In(graph, received[targets[k]]) /\ <<targets[k], graph>> \notin threads
      BY <1>2 DEF ToldOnce
    <3>. QED
      BY <3>1, <1>1, <1>7, <1>8
  <2>2. ASSUME NEW m \in Numbers, NEW x \in 1..graph, <<m, x>> \in threads'
        PROVE  m \in DOMAIN made /\ made[m] /\ ~In(x, received'[m])
    <3>1. <<m, x>> \in threads /\ ~(m = n /\ x = g)
      BY <2>2, <1>1
    <3>. QED
      BY <3>1, <1>2, <1>7 DEF ToldOnce
  <2>3. \A m \in Numbers, x \in 1..graph : <<m, x>> \in failed => m \in DOMAIN made /\ m # 1
    BY <1>2 DEF ToldOnce
  <2>4. \A m \in Numbers : m \notin DOMAIN made => received'[m] = <<>>
    BY <1>2, <1>3, <1>4 DEF ToldOnce
  <2>. QED
    BY <2>1, <2>2, <2>3, <2>4, <1>1 DEF ToldOnce, In, Numbers
<1>10. Registered' = Registered /\ \A m \in Registered : m \in Numbers
  <2>. DEFINE T == [name : Names, sub : 1..Len(made)]
  <2>1. subscribers \in Seq(T)
    BY <1>2 DEF HubTypeOK
  <2>2. 1..Len(made) \subseteq Numbers
    BY <1>2, HubAssumption DEF HubTypeOK, Numbers
  <2>3. \A e \in T : e.sub \in Numbers
    BY <2>2
  <2>. HIDE DEF T
  <2>. QED
    BY <2>1, <2>3, <1>1, Elements DEF Registered
<1>11. \A m \in Numbers : \A x : Told(m, x)' <=> Told(m, x)
  BY <1>1, <1>7 DEF Told, In
<1>12. OnceToldKeptTold'
  BY <1>1, <1>2, <1>10, <1>11 DEF OnceToldKeptTold, In
<1>13. MemoryKnows'
  <2>1. n # 1
    BY <1>2, <1>3
  <2>2. 1 \in Registered => received'[1] = received[1]
    BY <2>1, <1>4, <1>10
  <2>. QED
    BY <2>2, <1>1, <1>2, <1>10 DEF MemoryKnows, In, Last
<1>. QED
  BY <1>4, <1>5, <1>6, <1>9, <1>12, <1>13 DEF HubInv

LEMMA HubStep == HubInv /\ [HubNext]_hub_vars => HubInv'
<1>. SUFFICES ASSUME HubInv, [HubNext]_hub_vars PROVE HubInv'
  OBVIOUS
<1>1. CASE RegisterSubscriberRoute
  BY <1>1, RegisterKeeps
<1>2. CASE DeleteRouteLook \/ DeleteRoute \/ UNCHANGED hub_vars
  BY <1>2, DeleteKeeps
<1>3. CASE Notify
  BY <1>3, NotifyKeeps
<1>4. CASE Deliver
  BY <1>4, DeliverKeeps
<1>5. CASE DeliverAsync
  BY <1>5, DeliverAsyncKeeps
<1>6. CASE \E n \in Numbers, g \in 1..MaxGraphs : AsyncReceive(<<n, g>>)
  BY <1>6, AsyncReceiveKeeps
<1>. QED
  BY <1>1, <1>2, <1>3, <1>4, <1>5, <1>6 DEF HubNext

-----------------------------------------------------------------------------
\* The inductive invariant of the subscribers holds in every state.
THEOREM HubInvariance == HubSpec => []HubInv
<1>1. HubInit => HubInv
  BY HubInitially
<1>. QED
  BY <1>1, HubStep, PTL DEF HubSpec

\* However clients come, go and take names over while a graph is broadcast,
\* for any number of graphs and subscribers: nobody hears of a graph twice,
\* synchronous subscribers hear of them in order, whoever is registered when a
\* broadcast ends and knew the graph before was told of this one, and
\* get_last_graph has it.
THEOREM EverySubscriberTold == HubSpec => []BroadcastKept
<1>1. HubInv => BroadcastKept
  <2>. SUFFICES ASSUME HubInv PROVE BroadcastKept
    OBVIOUS
  <2>1. targets = <<>> => \A n : ~In(n, targets)
    BY DEF In
  <2>2. EverybodyTold
    BY <2>1 DEF HubInv, OnceToldKeptTold, EverybodyTold
  <2>3. LastGraphIsLatest
    BY <2>1 DEF HubInv, MemoryKnows, LastGraphIsLatest
  <2>. QED
    BY <2>2, <2>3 DEF HubInv, BroadcastKept
<1>. QED
  BY <1>1, HubInvariance, PTL
-----------------------------------------------------------------------------
(* The rotated files. *)

\* There is room for the rows that writers inside have yet to write.
Pending == {v \in Inside : ~wrote[v]}
StorageTyped == StorageTypeOK /\ rows + Cardinality(Pending) <= MaxRows

\* Writers that do not overlap: the one inside is in the current file, which
\* has room for its row; the counts are of it alone.
Alone ==
    ~mixed =>
        /\ \A v, w \in Inside : v = w
        /\ \A w \in Inside : fd[w] = index /\ (~wrote[w] => Len(files[index]) < MaxSize)
        /\ \A i \in Files : accessing[i] = IF i = index /\ Inside # {} THEN 1 ELSE 0
        /\ \A i \in Files : Len(files[i]) <= MaxSize

\* Before which rows the files begin, from the oldest to the current: each holds the rows
\* from its beginning to that of the next, and only rows that a clear_all has
\* passed are missing from one that is not current.
Begins(start, k) ==
    LET file == files[FileOrder[k]]
    IN /\ start[k + 1] = start[k] + Len(file)
       /\ \A j \in 1..Len(file) : file[j] = start[k] + j
       /\ k = RotationCnt \/ Len(file) = MaxSize \/ start[k + 1] <= cleared
Chained ==
    ~mixed => \E start \in [1..RotationCnt + 1 -> 0..rows] :
        /\ start[RotationCnt + 1] = rows
        /\ \A k \in 1..RotationCnt : Begins(start, k)

StorageInv == StorageTyped /\ Alone /\ Chained

\* FlattenSeq of a sequence of n sequences is the last of the n beginnings
\* that its recursion makes, whichever function says what they are.
LEMMA FlattenLaw ==
    ASSUME NEW seqs, NEW n \in Nat \ {0}, Len(seqs) = n,
           NEW f, \A i \in 1..n : f[i] = IF i = 1 THEN seqs[i] ELSE f[i - 1] \o seqs[i]
    PROVE  FlattenSeq(seqs) = f[n]
<1>. DEFINE g == CHOOSE g : g = [i \in 1..n |-> IF i = 1 THEN seqs[i] ELSE g[i - 1] \o seqs[i]]
            Differs == {i \in 1..n : g[i] # f[i]}
<1>1. FlattenSeq(seqs) = g[n]
  BY DEF FlattenSeq
<1>2. g = [i \in 1..n |-> IF i = 1 THEN seqs[i] ELSE g[i - 1] \o seqs[i]]
  <2>. DEFINE h == [i \in 1..n |-> f[i]]
  <2>1. h = [i \in 1..n |-> IF i = 1 THEN seqs[i] ELSE h[i - 1] \o seqs[i]]
    <3>1. ASSUME NEW i \in 1..n PROVE h[i] = IF i = 1 THEN seqs[i] ELSE h[i - 1] \o seqs[i]
      <4>1. i = 1 \/ i - 1 \in 1..n
        OBVIOUS
      <4>2. f[i] = IF i = 1 THEN seqs[i] ELSE f[i - 1] \o seqs[i]
        OBVIOUS
      <4>. QED
        BY <4>1, <4>2
    <3>2. h = [i \in 1..n |-> h[i]]
      OBVIOUS
    <3>. HIDE DEF h
    <3>. QED
      BY <3>1, <3>2, Zenon
  <2>. HIDE DEF h
  <2>. QED
    BY <2>1, Zenon
<1>. HIDE DEF g
<1>3. \A i \in 1..n : /\ f[i] = IF i = 1 THEN seqs[i] ELSE f[i - 1] \o seqs[i]
                      /\ g[i] = IF i = 1 THEN seqs[i] ELSE g[i - 1] \o seqs[i]
  BY <1>2
<1>4. Differs = {}
  <2>. SUFFICES ASSUME Differs # {} PROVE FALSE
    OBVIOUS
  <2>1. PICK m \in Differs : \A i \in Differs : m <= i
    <3>1. Differs \in SUBSET Nat
      OBVIOUS
    <3>. HIDE DEF Differs
    <3>. QED
      BY <3>1, LeastNumber
  <2>2. m = 1 \/ (m - 1 \in 1..n /\ ~(m <= m - 1))
    OBVIOUS
  <2>3. g[m - 1] = f[m - 1] \/ m = 1
    BY <2>1, <2>2
  <2>. QED
    BY <1>3, <2>3
<1>5. n \in 1..n
  OBVIOUS
<1>6. g[n] = f[n]
  BY <1>4, <1>5
<1>. QED
  BY <1>1, <1>6

\* The order of the files: one turn around, which begins behind the current one.
LEMMA TurnsAround ==
    ASSUME NEW i \in Files, NEW k \in 1..RotationCnt
    PROVE  /\ (i + k) % RotationCnt = IF i + k < RotationCnt THEN i + k ELSE i + k - RotationCnt
           /\ (i + k) % RotationCnt \in Files
<1>. DEFINE R == RotationCnt
<1>1. R \in Nat \ {0} /\ i \in 0..R - 1
  BY StorageAssumption DEF Files
<1>2. CASE i + k < R
  <2>1. i + k \in 0..R - 1
    BY <1>2, <1>1
  <2>2. (i + k) % R = i + k
    BY <2>1, <1>1
  <2>. QED
    BY <1>2, <2>1, <2>2 DEF Files
<1>3. CASE ~(i + k < R)
  <2>. DEFINE a == i + k - R
  <2>1. a \in 0..R - 1 /\ i + k = a + R
    BY <1>3, <1>1
  <2>. HIDE DEF a
  <2>2. (a + R) % R = a
    BY <2>1, <1>1
  <2>. QED
    BY <1>3, <2>1, <2>2 DEF Files, a
<1>. QED
  BY <1>2, <1>3

LEMMA OrderFacts ==
    ASSUME index \in Files
    PROVE  /\ RotationCnt \in Nat \ {0} /\ MaxSize \in Nat \ {0} /\ index \in Int
           /\ \A k \in 1..RotationCnt :
                /\ FileOrder[k] \in Files
                /\ FileOrder[k] = IF index + k < RotationCnt THEN index + k ELSE index + k - RotationCnt
           /\ FileOrder[RotationCnt] = index
           /\ \A j, k \in 1..RotationCnt : FileOrder[j] = FileOrder[k] => j = k
           /\ \A i \in Files : \E k \in 1..RotationCnt : FileOrder[k] = i
<1>. DEFINE R == RotationCnt
<1>1. R \in Nat \ {0} /\ MaxSize \in Nat \ {0} /\ index \in 0..R - 1
  BY StorageAssumption DEF Files
<1>2. ASSUME NEW k \in 1..R
      PROVE  /\ FileOrder[k] = IF index + k < R THEN index + k ELSE index + k - R
             /\ FileOrder[k] \in Files
  BY TurnsAround DEF FileOrder
<1>3. FileOrder[R] = index
  BY <1>1, <1>2
<1>4. ASSUME NEW j \in 1..R, NEW k \in 1..R, FileOrder[j] = FileOrder[k] PROVE j = k
  BY <1>1, <1>2, <1>4
<1>5. ASSUME NEW i \in Files PROVE \E k \in 1..R : FileOrder[k] = i
  <2>1. i \in 0..R - 1
    BY DEF Files
  <2>2. CASE i > index
    <3>1. i - index \in 1..R /\ index + (i - index) < R /\ index + (i - index) = i
      BY <2>1, <2>2, <1>1
    <3>. QED
      BY <3>1, <1>2
  <2>3. CASE ~(i > index)
    <3>1. i - index + R \in 1..R /\ ~(index + (i - index + R) < R) /\ index + (i - index + R) - R = i
      BY <2>1, <2>3, <1>1
    <3>. QED
      BY <3>1, <1>2
  <2>. QED
    BY <2>2, <2>3
<1>. QED
  BY <1>1, <1>2, <1>3, <1>4, <1>5

\* Rows numbered one after the other, behind the first ones.
Run(first, n) == [j \in 1..n |-> first + j]

LEMMA RunIsSeq == ASSUME NEW first \in Nat, NEW n \in Nat
                  PROVE  Run(first, n) \in Seq(Nat) /\ Len(Run(first, n)) = n
                         /\ \A j \in 1..n : Run(first, n)[j] = first + j
BY DEF Run

LEMMA RunOfRows ==
    ASSUME NEW s \in Seq(Nat), NEW first \in Nat, \A j \in 1..Len(s) : s[j] = first + j
    PROVE  s = Run(first, Len(s))
BY DEF Run

LEMMA RunsMeet ==
    ASSUME NEW first \in Nat, NEW m \in Nat, NEW n \in Nat
    PROVE  Run(first, m) \o Run(first + m, n) = Run(first, m + n)
<1>. DEFINE a == Run(first, m)
            b == Run(first + m, n)
            c == a \o b
<1>1. a \in Seq(Nat) /\ Len(a) = m /\ \A j \in 1..m : a[j] = first + j
  BY RunIsSeq
<1>0. first + m \in Nat
  OBVIOUS
<1>2. b \in Seq(Nat) /\ Len(b) = n /\ \A j \in 1..n : b[j] = first + m + j
  BY <1>0, RunIsSeq
<1>. HIDE DEF a, b
<1>3. c \in Seq(Nat) /\ Len(c) = m + n /\ (\A j \in 1..m : c[j] = a[j]) /\ \A j \in 1..n : c[m + j] = b[j]
  <2>1. c \in Seq(Nat) /\ Len(c) = Len(a) + Len(b) /\ (\A j \in 1..Len(a) : c[j] = a[j])
        /\ \A j \in 1..Len(b) : c[Len(a) + j] = b[j]
    <3>1. a \in Seq(Nat) /\ b \in Seq(Nat)
      BY <1>1, <1>2
    <3>. QED
      BY <3>1, ConcatFacts
  <2>. QED
    BY <2>1, <1>1, <1>2
<1>. HIDE DEF c
<1>4. ASSUME NEW j \in 1..m + n PROVE c[j] = first + j
  <2>1. CASE j \in 1..m
    BY <2>1, <1>1, <1>3
  <2>2. CASE j \notin 1..m
    <3>1. j - m \in 1..n /\ m + (j - m) = j
      BY <2>2
    <3>2. c[m + (j - m)] = b[j - m] /\ b[j - m] = first + m + (j - m)
      BY <3>1, <1>2, <1>3
    <3>. QED
      BY <3>1, <3>2
  <2>. QED
    BY <2>1, <2>2
<1>5. c = Run(first, m + n)
  BY <1>3, <1>4, RunOfRows
<1>. QED
  BY <1>5 DEF a, b, c

\* The files begin one after the other.
LEMMA BeginsRise ==
    ASSUME StorageTypeOK, NEW start \in [1..RotationCnt + 1 -> 0..rows],
           \A k \in 1..RotationCnt : Begins(start, k)
    PROVE  /\ \A k \in 1..RotationCnt + 1 : start[1] <= start[k]
           /\ start[1] > cleared =>
                 \A k \in 1..RotationCnt : start[k] >= start[1] + (k - 1) * MaxSize
<1>. DEFINE R == RotationCnt
<1>1. R \in Nat \ {0} /\ MaxSize \in Nat /\ rows \in Nat /\ cleared \in Nat
  BY StorageAssumption DEF StorageTypeOK
<1>2. \A k \in 1..R + 1 : start[k] \in Nat
  BY <1>1
<1>3. ASSUME NEW k \in 1..R PROVE start[k] <= start[k + 1] /\ k + 1 \in 1..R + 1 /\ k \in 1..R + 1
  <2>1. FileOrder[k] \in Files
    BY <1>1, OrderFacts DEF StorageTypeOK
  <2>2. Len(files[FileOrder[k]]) \in Nat
    BY <2>1 DEF StorageTypeOK
  <2>3. start[k + 1] = start[k] + Len(files[FileOrder[k]])
    BY DEF Begins
  <2>4. k + 1 \in 1..R + 1 /\ k \in 1..R + 1
    BY <1>1
  <2>. QED
    BY <2>2, <2>3, <2>4, <1>2
<1>4. \A k \in 1..R + 1 : start[1] <= start[k]
  <2>. DEFINE Bad == {k \in 1..R + 1 : ~(start[1] <= start[k])}
  <2>. SUFFICES ASSUME Bad # {} PROVE FALSE
    OBVIOUS
  <2>1. PICK m \in Bad : \A i \in Bad : m <= i
    <3>1. Bad \in SUBSET Nat
      BY <1>1
    <3>. HIDE DEF Bad
    <3>. QED
      BY <3>1, LeastNumber
  <2>2. m = 1 \/ (m - 1 \in 1..R /\ m - 1 \in 1..R + 1 /\ ~(m <= m - 1) /\ (m - 1) + 1 = m)
    BY <1>1
  <2>3. 1 \in 1..R + 1
    BY <1>1
  <2>4. CASE m = 1
    BY <2>4, <2>3, <1>2
  <2>5. CASE m # 1
    <3>1. m - 1 \notin Bad
      BY <2>1, <2>2, <2>5
    <3>2. start[1] <= start[m - 1] /\ start[m - 1] <= start[m]
      BY <3>1, <2>2, <2>5, <1>3
    <3>. QED
      BY <3>2, <2>2, <2>3, <2>5, <1>2
  <2>. QED
    BY <2>4, <2>5
<1>5. ASSUME start[1] > cleared PROVE \A k \in 1..R : start[k] >= start[1] + (k - 1) * MaxSize
  <2>1. ASSUME NEW k \in 1..R - 1 PROVE start[k + 1] = start[k] + MaxSize
    <3>1. k \in 1..R /\ k # R /\ k + 1 \in 1..R + 1
      BY <1>1
    <3>2. start[k + 1] > cleared
      BY <3>1, <1>1, <1>2, <1>4, <1>5
    <3>3. Len(files[FileOrder[k]]) = MaxSize /\ start[k + 1] = start[k] + Len(files[FileOrder[k]])
      BY <3>1, <3>2, <1>1, <1>2 DEF Begins
    <3>. QED
      BY <3>3
  <2>. DEFINE Bad == {k \in 1..R : ~(start[k] >= start[1] + (k - 1) * MaxSize)}
  <2>. SUFFICES ASSUME Bad # {} PROVE FALSE
    OBVIOUS
  <2>2. PICK m \in Bad : \A i \in Bad : m <= i
    <3>1. Bad \in SUBSET Nat
      BY <1>1
    <3>. HIDE DEF Bad
    <3>. QED
      BY <3>1, LeastNumber
  <2>3. m \in 1..R /\ 1 \in 1..R + 1 /\ start[1] \in Nat
    BY <1>1, <1>2
  <2>4. CASE m = 1
    <3>1. (1 - 1) * MaxSize = 0
      BY <1>1
    <3>. QED
      BY <3>1, <2>3, <2>4
  <2>5. CASE m # 1
    <3>1. m - 1 \in 1..R - 1 /\ m - 1 \in 1..R /\ ~(m <= m - 1) /\ (m - 1) + 1 = m /\ m - 1 \in 1..R + 1
      BY <2>3, <2>5, <1>1
    <3>2. m - 1 \notin Bad
      BY <2>2, <3>1
    <3>3. start[m] = start[m - 1] + MaxSize /\ start[m - 1] >= start[1] + (m - 1 - 1) * MaxSize
      BY <2>1, <3>1, <3>2
    <3>4. (m - 1) * MaxSize = (m - 1 - 1) * MaxSize + MaxSize
      BY <2>3, <1>1
    <3>5. (m - 1 - 1) * MaxSize \in Int /\ start[m - 1] \in Nat
      BY <2>3, <3>1, <1>1, <1>2
    <3>. DEFINE p == (m - 1 - 1) * MaxSize
                q == (m - 1) * MaxSize
    <3>6. p \in Int /\ start[m] = start[m - 1] + MaxSize /\ start[m - 1] >= start[1] + p /\ q = p + MaxSize
      BY <3>3, <3>4, <3>5
    <3>. HIDE DEF p, q
    <3>7. start[m] >= start[1] + q
      <4>1. start[m - 1] \in Nat /\ start[1] \in Nat /\ MaxSize \in Nat
        BY <3>5, <2>3, <1>1
      <4>. HIDE DEF Bad
      <4>. QED
        BY <4>1, <3>6
    <3>. QED
      BY <3>7, <2>2 DEF q
  <2>. QED
    BY <2>4, <2>5
<1>. QED
  BY <1>4, <1>5

\* The stream is the rows from where the oldest file begins.
LEMMA StreamOfFiles ==
    ASSUME StorageTypeOK, NEW start \in [1..RotationCnt + 1 -> 0..rows],
           start[RotationCnt + 1] = rows, \A k \in 1..RotationCnt : Begins(start, k)
    PROVE  AllFilesAsStream = Run(start[1], rows - start[1])
<1>. DEFINE R == RotationCnt
            inOrder == [i \in 1..R |-> files[FileOrder[i]]]
            f == [i \in 1..R |-> Run(start[1], start[i + 1] - start[1])]
<1>1. R \in Nat \ {0} /\ rows \in Nat
  BY StorageAssumption DEF StorageTypeOK
<1>2. \A k \in 1..R + 1 : start[k] \in Nat /\ start[1] <= start[k] /\ start[k] - start[1] \in Nat
  <2>1. 1 \in 1..R + 1
    BY <1>1
  <2>2. \A k \in 1..R + 1 : start[k] \in Nat /\ start[1] <= start[k]
    BY <1>1, BeginsRise
  <2>. QED
    BY <2>1, <2>2
<1>3. ASSUME NEW i \in 1..R PROVE inOrder[i] = Run(start[i], start[i + 1] - start[i])
  <2>. DEFINE s == files[FileOrder[i]]
  <2>1. FileOrder[i] \in Files
    BY <1>1, OrderFacts DEF StorageTypeOK
  <2>2. s \in Seq(1..rows)
    BY <2>1 DEF StorageTypeOK
  <2>3. s \in Seq(Nat)
    BY <2>2, <1>1
  <2>4. start[i + 1] = start[i] + Len(s) /\ \A j \in 1..Len(s) : s[j] = start[i] + j
    BY DEF Begins
  <2>5. i \in 1..R + 1 /\ Len(s) \in Nat
    BY <1>1, <2>3
  <2>. HIDE DEF s
  <2>6. s = Run(start[i], Len(s))
    BY <1>2, <2>3, <2>4, <2>5, RunOfRows
  <2>7. start[i + 1] - start[i] = Len(s)
    BY <1>2, <2>4, <2>5
  <2>. QED
    BY <2>6, <2>7 DEF s
<1>4. ASSUME NEW i \in 1..R PROVE f[i] = IF i = 1 THEN inOrder[i] ELSE f[i - 1] \o inOrder[i]
  <2>1. CASE i = 1
    BY <2>1, <1>3
  <2>2. CASE i # 1
    <3>1. i - 1 \in 1..R /\ i \in 1..R + 1 /\ i + 1 \in 1..R + 1 /\ (i - 1) + 1 = i
      BY <2>2, <1>1
    <3>2. f[i - 1] = Run(start[1], start[i] - start[1])
      BY <3>1
    <3>. DEFINE m == start[i] - start[1]
                n == start[i + 1] - start[i]
    <3>3. m \in Nat /\ n \in Nat /\ start[1] \in Nat
      <4>1. FileOrder[i] \in Files
        BY <1>1, OrderFacts DEF StorageTypeOK
      <4>2. Len(files[FileOrder[i]]) \in Nat
        BY <4>1 DEF StorageTypeOK
      <4>3. start[i + 1] = start[i] + Len(files[FileOrder[i]])
        BY DEF Begins
      <4>4. 1 \in 1..R + 1
        BY <1>1
      <4>. QED
        BY <4>2, <4>3, <4>4, <3>1, <1>2
    <3>4. start[1] + m = start[i] /\ m + n = start[i + 1] - start[1]
      <4>1. 1 \in 1..R + 1
        BY <1>1
      <4>. QED
        BY <4>1, <3>1, <1>2
    <3>5. Run(start[1], m) \o Run(start[1] + m, n) = Run(start[1], m + n)
      BY <3>3, RunsMeet
    <3>6. f[i - 1] \o inOrder[i] = Run(start[1], start[i + 1] - start[1])
      BY <3>2, <3>4, <3>5, <1>3
    <3>. QED
      BY <3>6, <2>2
  <2>. QED
    BY <2>1, <2>2
<1>5. Len(inOrder) = R /\ R \in 1..R
  BY <1>1
<1>7. FlattenSeq(inOrder) = f[R]
  <2>. HIDE DEF inOrder, f, R
  <2>1. \A i \in 1..R : f[i] = IF i = 1 THEN inOrder[i] ELSE f[i - 1] \o inOrder[i]
    BY <1>4
  <2>. QED
    BY <1>1, <1>5, <2>1, FlattenLaw
<1>8. f[R] = Run(start[1], rows - start[1])
  BY <1>5
<1>. QED
  BY <1>7, <1>8 DEF AllFilesAsStream

-----------------------------------------------------------------------------
LEMMA StorageInitially == ASSUME StorageInit PROVE StorageInv
<1>. DEFINE R == RotationCnt
<1>1. /\ index = 0 /\ rows = 0 /\ cleared = 0 /\ mixed = FALSE
      /\ accessing = [i \in Files |-> 0] /\ files = [i \in Files |-> <<>>]
      /\ fd = [w \in Writers |-> -1] /\ wrote = [w \in Writers |-> FALSE]
  BY DEF StorageInit
<1>2. R \in Nat \ {0} /\ MaxRows \in Nat /\ 0 \in Files
  BY StorageAssumption DEF Files
<1>3. Inside = {} /\ Pending = {}
  BY <1>1 DEF Inside, Pending
<1>4. StorageTyped
  <2>1. Cardinality(Pending) = 0
    BY <1>3, FS_EmptySet
  <2>2. files \in [Files -> Seq(1..rows)]
    BY <1>1
  <2>3. StorageTypeOK
    BY <1>1, <1>2, <2>2 DEF StorageTypeOK
  <2>. QED
    BY <1>1, <1>2, <2>1, <2>3 DEF StorageTyped
<1>5. Alone
  BY <1>1, <1>3, StorageAssumption DEF Alone
<1>6. Chained
  <2>. DEFINE start == [k \in 1..R + 1 |-> 0]
  <2>1. start \in [1..R + 1 -> 0..rows] /\ start[R + 1] = rows
    BY <1>1, <1>2
  <2>2. ASSUME NEW k \in 1..R PROVE Begins(start, k)
    <3>1. files[FileOrder[k]] = <<>>
      BY <1>1, <1>2, OrderFacts
    <3>2. start[k] = 0 /\ start[k + 1] = 0
      BY <1>2
    <3>. QED
      BY <3>1, <3>2, <1>1 DEF Begins
  <2>. HIDE DEF start
  <2>. QED
    BY <2>1, <2>2 DEF Chained
<1>. QED
  BY <1>4, <1>5, <1>6 DEF StorageInv

\* Files keep their types when the current one is left for the next.
LEMMA RotationTyped ==
    ASSUME StorageTypeOK, NEW counts, CheckSizeAndRotate(counts), rows' = rows
    PROVE  index' \in Files /\ files' \in [Files -> Seq(1..rows')]
<1>1. index \in Files /\ files \in [Files -> Seq(1..rows)] /\ 1 \in 1..RotationCnt
  BY StorageAssumption DEF StorageTypeOK
<1>2. (index + 1) % RotationCnt \in Files
  BY <1>1, TurnsAround
<1>3. <<>> \in Seq(1..rows)
  OBVIOUS
<1>. DEFINE S == 1..rows
<1>. HIDE DEF S
<1>4. index' \in Files /\ files' \in [Files -> Seq(S)]
  BY <1>1, <1>2, <1>3 DEF CheckSizeAndRotate, S
<1>. QED
  BY <1>4 DEF S

\* Nobody inside: a full file is left for an emptied one, and the files still hold the last rows.
LEMMA RotationChained ==
    ASSUME StorageTypeOK, \A i \in Files : Len(files[i]) <= MaxSize, Chained, ~mixed,
           NEW counts, \A i \in Files : counts[i] = 0,
           CheckSizeAndRotate(counts), rows' = rows, cleared' = cleared
    PROVE  Chained' /\ Len(files'[index']) < MaxSize /\ \A i \in Files : Len(files'[i]) <= MaxSize
<1>. DEFINE R == RotationCnt
            next == (index + 1) % R
<1>1. R \in Nat \ {0} /\ MaxSize \in Nat \ {0} /\ index \in Files /\ rows \in Nat /\ cleared \in Nat
      /\ files \in [Files -> Seq(1..rows)] /\ 1 \in 1..R /\ R \in 1..R
  BY StorageAssumption DEF StorageTypeOK
<1>2. next \in Files /\ next = FileOrder[1]
  BY <1>1, TurnsAround DEF FileOrder
<1>3. PICK start \in [1..R + 1 -> 0..rows] : start[R + 1] = rows /\ \A k \in 1..R : Begins(start, k)
  BY DEF Chained
<1>4. CASE ~(Len(files[index]) >= MaxSize)
  <2>1. index' = index /\ files' = files
    BY <1>4 DEF CheckSizeAndRotate
  <2>2. Chained'
    <3>1. \A k \in 1..R : Begins(start, k)'
      BY <1>3, <2>1 DEF Begins, FileOrder
    <3>. QED
      BY <1>3, <3>1 DEF Chained
  <2>3. Len(files[index]) \in Nat
    BY <1>1
  <2>. QED
    BY <1>1, <1>4, <2>1, <2>2, <2>3
<1>5. CASE Len(files[index]) >= MaxSize
  <2>1. index' = next /\ files' = [files EXCEPT ![next] = <<>>]
    BY <1>2, <1>5 DEF CheckSizeAndRotate
  <2>2. files'[next] = <<>> /\ \A i \in Files : i # next => files'[i] = files[i]
    BY <1>1, <1>2, <2>1
  <2>3. \A i \in Files : Len(files'[i]) <= MaxSize
    <3>. HIDE DEF next
    <3>1. MaxSize \in Nat /\ Len(<<>>) = 0
      BY <1>1
    <3>. QED
      BY <2>2, <3>1
  <2>4. Len(files'[index']) < MaxSize
    BY <1>1, <2>1, <2>2
  <2>5. FileOrder'[R] = next /\ \A k \in 1..R - 1 : k \in 1..R /\ k + 1 \in 1..R /\ k + 1 # 1 /\ FileOrder'[k] = FileOrder[k + 1]
    <3>1. \A k \in 1..R : FileOrder'[k] = (next + k) % R
      BY <2>1 DEF FileOrder
    <3>2. \A k \in 1..R : FileOrder'[k] = IF next + k < R THEN next + k ELSE next + k - R
      BY <3>1, <1>2, TurnsAround
    <3>3. \A k \in 1..R : FileOrder[k] = IF index + k < R THEN index + k ELSE index + k - R
      BY <1>1, OrderFacts
    <3>4. next = IF index + 1 < R THEN index + 1 ELSE index + 1 - R
      BY <1>1, TurnsAround
    <3>5. next \in 0..R - 1 /\ index \in 0..R - 1
      BY <1>1, <1>2 DEF Files
    <3>. HIDE DEF next
    <3>6. FileOrder'[R] = next
      BY <3>2, <3>5, <1>1
    <3>7. ASSUME NEW k \in 1..R - 1
          PROVE  k \in 1..R /\ k + 1 \in 1..R /\ k + 1 # 1 /\ FileOrder'[k] = FileOrder[k + 1]
      <4>1. k \in 1..R /\ k + 1 \in 1..R /\ k + 1 # 1
        BY <1>1
      <4>2. (IF next + k < R THEN next + k ELSE next + k - R)
              = IF index + (k + 1) < R THEN index + (k + 1) ELSE index + (k + 1) - R
        BY <1>1, <3>4, <3>5
      <4>. QED
        BY <4>1, <4>2, <3>2, <3>3
    <3>. QED
      BY <3>6, <3>7
  <2>6. Chained'
    <3>0. PICK after : after = [k \in 1..R + 1 |-> IF k \in 1..R THEN start[k + 1] ELSE rows]
      OBVIOUS
    <3>1. \A k \in 1..R : k + 1 \in 1..R + 1 /\ k \in 1..R + 1
      BY <1>1
    <3>2. after \in [1..R + 1 -> 0..rows]
      BY <1>1, <3>0, <3>1
    <3>3. R + 1 \in 1..R + 1 /\ R + 1 \notin 1..R
      BY <1>1
    <3>4. after[R + 1] = rows /\ \A k \in 1..R : after[k] = start[k + 1]
      BY <3>0, <3>1, <3>3
    <3>5. ASSUME NEW k \in 1..R - 1 PROVE Begins(after, k)'
      <4>. DEFINE file == files[FileOrder[k + 1]]
      <4>1. k \in 1..R /\ k + 1 \in 1..R /\ k + 1 # 1 /\ FileOrder'[k] = FileOrder[k + 1]
        BY <2>5
      <4>2. FileOrder[k + 1] \in Files /\ FileOrder[k + 1] # next
        BY <4>1, <1>1, <1>2, OrderFacts
      <4>3. files'[FileOrder'[k]] = file
        BY <4>1, <4>2, <2>2
      <4>4. after[k] = start[k + 1] /\ after[k + 1] = start[k + 1 + 1]
        BY <4>1, <3>4
      <4>5. /\ start[k + 1 + 1] = start[k + 1] + Len(file)
            /\ \A j \in 1..Len(file) : file[j] = start[k + 1] + j
            /\ k + 1 = R \/ Len(file) = MaxSize \/ start[k + 1 + 1] <= cleared
        BY <4>1, <1>3 DEF Begins
      <4>6. k + 1 = R => Len(file) = MaxSize
        <5>1. FileOrder[R] = index /\ Len(files[index]) <= MaxSize /\ Len(files[index]) \in Nat
          BY <1>1, OrderFacts
        <5>. QED
          BY <5>1, <1>1, <1>5
      <4>. HIDE DEF file
      <4>. QED
        BY <4>3, <4>4, <4>5, <4>6 DEF Begins
    <3>6. Begins(after, R)'
      <4>1. files'[FileOrder'[R]] = <<>>
        BY <2>2, <2>5
      <4>2. after[R] = rows /\ after[R + 1] = rows
        BY <1>1, <1>3, <3>4
      <4>. QED
        BY <4>1, <4>2, <1>1 DEF Begins
    <3>7. \A k \in 1..R : k \in 1..R - 1 \/ k = R
      BY <1>1
    <3>8. \A k \in 1..R : Begins(after, k)'
      BY <3>5, <3>6, <3>7
    <3>. QED
      BY <3>2, <3>4, <3>8 DEF Chained
  <2>. QED
    BY <2>3, <2>4, <2>6
<1>. QED
  BY <1>4, <1>5

-----------------------------------------------------------------------------
LEMMA PendingFinite == IsFiniteSet(Pending) /\ Cardinality(Pending) \in Nat
<1>1. IsFiniteSet(Writers) /\ Pending \in SUBSET Writers
  BY StorageAssumption DEF Pending, Inside
<1>. QED
  BY <1>1, FS_Subset, FS_CardinalityType

LEMMA EnterKeeps == ASSUME StorageInv, NEW w \in Writers, Enter(w) PROVE StorageInv'
<1>1. /\ fd[w] = -1 /\ rows + Cardinality(Pending) < MaxRows
      /\ CheckSizeAndRotate(accessing)
      /\ accessing' = [accessing EXCEPT ![index'] = @ + 1]
      /\ fd' = [fd EXCEPT ![w] = index'] /\ wrote' = [wrote EXCEPT ![w] = FALSE]
      /\ mixed' = (mixed \/ Inside # {})
      /\ rows' = rows /\ cleared' = cleared
  BY DEF Enter, Pending
<1>2. StorageTypeOK /\ Alone /\ Chained
  BY DEF StorageInv, StorageTyped
<1>3. index' \in Files /\ files' \in [Files -> Seq(1..rows')]
  BY <1>1, <1>2, RotationTyped
<1>4. index' # -1
  BY <1>3, StorageAssumption DEF Files
<1>5. fd' \in [Writers -> Files \cup {-1}] /\ fd'[w] = index'
      /\ wrote' \in [Writers -> BOOLEAN] /\ ~wrote'[w]
      /\ \A v \in Writers : v # w => fd'[v] = fd[v] /\ wrote'[v] = wrote[v]
  BY <1>1, <1>2, <1>3 DEF StorageTypeOK
<1>6. Inside' = Inside \cup {w} /\ w \notin Inside /\ Pending' = Pending \cup {w} /\ w \notin Pending
  BY <1>1, <1>4, <1>5 DEF Inside, Pending
<1>7. StorageTyped'
  <2>1. Cardinality(Pending') = Cardinality(Pending) + 1
    BY <1>6, PendingFinite, FS_AddElement
  <2>2. accessing' \in [Files -> Int] /\ mixed' \in BOOLEAN
    BY <1>1, <1>2, <1>3 DEF StorageTypeOK
  <2>3. StorageTypeOK'
    BY <1>1, <1>2, <1>3, <1>5, <2>2 DEF StorageTypeOK, Files
  <2>4. rows \in Nat /\ Cardinality(Pending) \in Nat /\ MaxRows \in Nat
    BY <1>2, PendingFinite, StorageAssumption DEF StorageTypeOK
  <2>5. rows' + Cardinality(Pending') <= MaxRows
    BY <1>1, <2>1, <2>4
  <2>. QED
    BY <2>3, <2>5 DEF StorageTyped
<1>8. ASSUME ~mixed' PROVE Alone' /\ Chained'
  <2>1. ~mixed /\ Inside = {}
    BY <1>1, <1>2, <1>8 DEF StorageTypeOK
  <2>2. (\A i \in Files : accessing[i] = 0) /\ \A i \in Files : Len(files[i]) <= MaxSize
    BY <1>2, <2>1 DEF Alone
  <2>3. Chained' /\ Len(files'[index']) < MaxSize /\ \A i \in Files : Len(files'[i]) <= MaxSize
    BY <1>1, <1>2, <2>1, <2>2, RotationChained
  <2>4. \A i \in Files : accessing'[i] = IF i = index' THEN 1 ELSE 0
    BY <1>1, <1>2, <1>3, <2>2 DEF StorageTypeOK
  <2>5. Inside' = {w}
    BY <1>6, <2>1
  <2>6. Files' = Files
    BY DEF Files
  <2>7. Alone'
    BY <1>5, <2>3, <2>4, <2>5, <2>6 DEF Alone
  <2>. QED
    BY <2>3, <2>7
<1>9. mixed' => Alone' /\ Chained'
  BY DEF Alone, Chained
<1>. QED
  BY <1>7, <1>8, <1>9 DEF StorageInv

LEMMA ExitKeeps == ASSUME StorageInv, NEW w \in Writers, Exit(w) PROVE StorageInv'
<1>1. /\ fd[w] # -1 /\ wrote[w] /\ fd' = [fd EXCEPT ![w] = -1]
      /\ accessing' = [accessing EXCEPT ![index] = @ - 1]
      /\ CheckSizeAndRotate(accessing')
      /\ wrote' = wrote /\ rows' = rows /\ cleared' = cleared /\ mixed' = mixed
  BY DEF Exit
<1>2. StorageTypeOK /\ Alone /\ Chained
  BY DEF StorageInv, StorageTyped
<1>3. index' \in Files /\ files' \in [Files -> Seq(1..rows')]
  <2>1. PICK counts : counts = accessing'
    OBVIOUS
  <2>. QED
    BY <1>1, <1>2, <2>1, RotationTyped
<1>4. fd' \in [Writers -> Files \cup {-1}] /\ fd'[w] = -1
      /\ \A v \in Writers : v # w => fd'[v] = fd[v]
  BY <1>1, <1>2 DEF StorageTypeOK
<1>5. Inside' = Inside \ {w} /\ w \in Inside /\ Pending' = Pending
  BY <1>1, <1>4 DEF Inside, Pending
<1>6. StorageTyped'
  <2>1. accessing' \in [Files -> Int]
    BY <1>1, <1>2 DEF StorageTypeOK
  <2>2. StorageTypeOK'
    BY <1>1, <1>2, <1>3, <1>4, <2>1 DEF StorageTypeOK, Files
  <2>. QED
    BY <1>1, <1>5, <2>2 DEF StorageInv, StorageTyped
<1>7. ASSUME ~mixed' PROVE Alone' /\ Chained'
  <2>1. ~mixed /\ Inside = {w} /\ fd[w] = index
    BY <1>1, <1>2, <1>5, <1>7 DEF Alone
  <2>2. \A i \in Files : accessing'[i] = 0
    <3>1. \A i \in Files : accessing[i] = IF i = index THEN 1 ELSE 0
      BY <1>2, <2>1 DEF Alone
    <3>. QED
      BY <1>1, <1>2, <3>1 DEF StorageTypeOK
  <2>3. \A i \in Files : Len(files[i]) <= MaxSize
    BY <1>2, <2>1 DEF Alone
  <2>4. Chained' /\ \A i \in Files : Len(files'[i]) <= MaxSize
    <3>1. PICK counts : counts = accessing'
      OBVIOUS
    <3>. QED
      BY <1>1, <1>2, <2>1, <2>2, <2>3, <3>1, RotationChained
  <2>5. Inside' = {}
    BY <1>5, <2>1
  <2>6. Files' = Files
    BY DEF Files
  <2>7. Alone'
    BY <2>2, <2>4, <2>5, <2>6 DEF Alone
  <2>. QED
    BY <2>4, <2>7
<1>8. mixed' => Alone' /\ Chained'
  BY DEF Alone, Chained
<1>. QED
  BY <1>6, <1>7, <1>8 DEF StorageInv

LEMMA WriteRowKeeps == ASSUME StorageInv, NEW w \in Writers, WriteRow(w) PROVE StorageInv'
<1>. DEFINE R == RotationCnt
<1>1. /\ fd[w] # -1 /\ ~wrote[w] /\ wrote' = [wrote EXCEPT ![w] = TRUE]
      /\ rows' = rows + 1
      /\ files' = [files EXCEPT ![fd[w]] = Append(files[fd[w]], rows')]
      /\ index' = index /\ accessing' = accessing /\ fd' = fd /\ cleared' = cleared /\ mixed' = mixed
  BY DEF WriteRow
<1>2. StorageTypeOK /\ Alone /\ Chained /\ rows + Cardinality(Pending) <= MaxRows
  BY DEF StorageInv, StorageTyped
<1>3. R \in Nat \ {0} /\ MaxSize \in Nat \ {0} /\ MaxRows \in Nat
  BY StorageAssumption
<1>4. fd[w] \in Files /\ wrote' \in [Writers -> BOOLEAN] /\ wrote'[w]
      /\ (\A v \in Writers : v # w => wrote'[v] = wrote[v]) /\ rows \in Nat /\ cleared \in 0..rows
  BY <1>1, <1>2 DEF StorageTypeOK
<1>5. \A i \in Files : files[i] \in Seq(1..rows) /\ files[i] \in Seq(1..rows + 1)
  <2>. SUFFICES ASSUME NEW i \in Files PROVE files[i] \in Seq(1..rows) /\ files[i] \in Seq(1..rows + 1)
    OBVIOUS
  <2>1. files[i] \in Seq(1..rows) /\ 1..rows \subseteq 1..rows + 1
    BY <1>2, <1>4 DEF StorageTypeOK
  <2>. QED
    BY <2>1, Elements, Retyped
<1>. DEFINE T == 1..rows + 1
            old == files[fd[w]]
            new == Append(old, rows + 1)
<1>6. rows + 1 \in T /\ old \in Seq(T)
  BY <1>4, <1>5
<1>. HIDE DEF T
<1>7. new \in Seq(T) /\ Len(new) = Len(old) + 1 /\ Len(old) \in Nat
      /\ new[Len(old) + 1] = rows + 1 /\ \A j \in 1..Len(old) : new[j] = old[j]
  BY <1>6
<1>8. files' \in [Files -> Seq(T)] /\ files'[fd[w]] = new
      /\ \A i \in Files : i # fd[w] => files'[i] = files[i]
  <2>1. files' = [files EXCEPT ![fd[w]] = new] /\ files \in [Files -> Seq(T)]
    BY <1>1, <1>2, <1>5 DEF StorageTypeOK, T
  <2>. HIDE DEF new
  <2>. QED
    BY <2>1, <1>4, <1>7
<1>. HIDE DEF old, new
<1>9. Inside' = Inside /\ w \in Inside /\ Pending' = Pending \ {w} /\ w \in Pending
  BY <1>1, <1>4 DEF Inside, Pending
<1>10. StorageTyped'
  <2>1. Cardinality(Pending') = Cardinality(Pending) - 1 /\ Cardinality(Pending) \in Nat
    BY <1>9, PendingFinite, FS_RemoveElement
  <2>2. Cardinality(Pending) # 0
    BY <1>9, PendingFinite, FS_EmptySet
  <2>3. rows' + Cardinality(Pending') <= MaxRows /\ rows' \in 0..MaxRows /\ cleared \in 0..rows'
    BY <1>1, <1>2, <1>3, <1>4, <2>1, <2>2
  <2>4. StorageTypeOK'
    BY <1>1, <1>2, <1>4, <1>8, <2>3 DEF StorageTypeOK, Files, T
  <2>. QED
    BY <2>3, <2>4 DEF StorageTyped
<1>11. ASSUME ~mixed' PROVE Alone' /\ Chained'
  <2>1. ~mixed /\ fd[w] = index /\ Len(old) < MaxSize /\ (\A v \in Inside : v = w)
        /\ (\A i \in Files : Len(files[i]) <= MaxSize)
        /\ (\A i \in Files : accessing[i] = IF i = index /\ Inside # {} THEN 1 ELSE 0)
    BY <1>1, <1>2, <1>9, <1>11 DEF Alone, old
  <2>2. \A i \in Files : Len(files'[i]) <= MaxSize
    BY <1>3, <1>7, <1>8, <2>1
  <2>3. Files' = Files
    BY DEF Files
  <2>4. Alone'
    BY <1>1, <1>4, <1>9, <2>1, <2>2, <2>3 DEF Alone
  <2>5. PICK start \in [1..R + 1 -> 0..rows] : start[R + 1] = rows /\ \A k \in 1..R : Begins(start, k)
    BY <1>2, <2>1 DEF Chained
  <2>6. PICK after : after = [start EXCEPT ![R + 1] = rows + 1]
    OBVIOUS
  <2>7. R + 1 \in 1..R + 1 /\ R \in 1..R /\ \A k \in 1..R : k \in 1..R + 1 /\ k # R + 1
    BY <1>3
  <2>8. after \in [1..R + 1 -> 0..rows'] /\ after[R + 1] = rows'
        /\ \A k \in 1..R : after[k] = start[k]
    <3>1. 0..rows \subseteq 0..rows + 1 /\ rows + 1 \in 0..rows + 1
      BY <1>4
    <3>2. start \in [1..R + 1 -> 0..rows + 1]
      BY <3>1
    <3>. QED
      BY <1>1, <2>6, <2>7, <3>1, <3>2
  <2>9. \A k \in 1..R : FileOrder'[k] = FileOrder[k] /\ FileOrder[k] \in Files
    BY <1>1, <1>2, OrderFacts DEF FileOrder, StorageTypeOK
  <2>10. FileOrder[R] = index /\ \A k \in 1..R : FileOrder[k] = index => k = R
    BY <1>2, <2>7, OrderFacts DEF StorageTypeOK
  <2>11. ASSUME NEW k \in 1..R, k # R PROVE Begins(after, k)'
    <3>1. files'[FileOrder'[k]] = files[FileOrder[k]]
      BY <1>8, <2>1, <2>9, <2>10, <2>11
    <3>2. k + 1 \in 1..R
      BY <1>3, <2>11
    <3>3. after[k] = start[k] /\ after[k + 1] = start[k + 1]
      BY <2>8, <3>2
    <3>. QED
      BY <2>5, <3>1, <3>3, <1>1 DEF Begins
  <2>12. Begins(after, R)'
    <3>1. files'[FileOrder'[R]] = new /\ files[FileOrder[R]] = old
      BY <1>8, <2>1, <2>7, <2>9, <2>10 DEF old
    <3>2. rows = start[R] + Len(old) /\ \A j \in 1..Len(old) : old[j] = start[R] + j
      BY <2>5, <2>7, <3>1 DEF Begins
    <3>3. after[R] = start[R] /\ after[R + 1] = rows + 1 /\ start[R] \in Nat
      BY <1>1, <1>4, <2>7, <2>8
    <3>4. rows + 1 = start[R] + Len(new)
      <4>1. Len(new) = Len(old) + 1 /\ Len(old) \in Nat /\ start[R] \in Nat /\ rows = start[R] + Len(old)
        BY <1>7, <3>2, <3>3
      <4>2. ASSUME NEW a \in Nat, NEW b \in Nat PROVE a + b + 1 = a + (b + 1)
        OBVIOUS
      <4>. QED
        BY <4>1, <4>2
    <3>5. ASSUME NEW j \in 1..Len(new) PROVE new[j] = start[R] + j
      <4>1. j \in 1..Len(old) \/ j = Len(old) + 1
        BY <1>7
      <4>2. CASE j \in 1..Len(old)
        BY <4>2, <1>7, <3>2
      <4>3. CASE j = Len(old) + 1
        <5>1. new[j] = rows + 1 /\ rows + 1 = start[R] + Len(new) /\ Len(new) = Len(old) + 1
          BY <4>3, <1>7, <3>4
        <5>. QED
          BY <4>3, <5>1
      <4>. QED
        BY <4>1, <4>2, <4>3
    <3>. QED
      BY <3>1, <3>3, <3>4, <3>5 DEF Begins
  <2>13. \A k \in 1..R : Begins(after, k)'
    BY <2>11, <2>12
  <2>. QED
    BY <2>4, <2>8, <2>13 DEF Chained
<1>12. mixed' => Alone' /\ Chained'
  BY DEF Alone, Chained
<1>. QED
  BY <1>10, <1>11, <1>12 DEF StorageInv

LEMMA ClearAllKeeps == ASSUME StorageInv, ClearAll PROVE StorageInv'
<1>. DEFINE R == RotationCnt
<1>1. /\ files' = [i \in Files |-> IF accessing[i] = 0 THEN <<>> ELSE files[i]]
      /\ index' = 0 /\ cleared' = rows /\ mixed' = (mixed \/ Inside # {})
      /\ accessing' = accessing /\ fd' = fd /\ wrote' = wrote /\ rows' = rows
  BY DEF ClearAll
<1>2. StorageTypeOK /\ Alone /\ Chained /\ rows + Cardinality(Pending) <= MaxRows
  BY DEF StorageInv, StorageTyped
<1>3. R \in Nat \ {0} /\ MaxSize \in Nat \ {0} /\ 0 \in Files /\ rows \in Nat
  BY <1>2, StorageAssumption DEF StorageTypeOK, Files
<1>4. Inside' = Inside /\ Pending' = Pending
  BY <1>1 DEF Inside, Pending
<1>5. StorageTyped'
  <2>. DEFINE S == 1..rows
  <2>1. <<>> \in Seq(S) /\ files \in [Files -> Seq(S)]
    BY <1>2 DEF StorageTypeOK
  <2>. HIDE DEF S
  <2>2. files' \in [Files -> Seq(S)]
    BY <1>1, <2>1
  <2>3. cleared' \in 0..rows' /\ mixed' \in BOOLEAN
    BY <1>1, <1>2, <1>3 DEF StorageTypeOK
  <2>4. StorageTypeOK'
    BY <1>1, <1>2, <1>3, <2>2, <2>3 DEF StorageTypeOK, Files, S
  <2>. QED
    BY <1>1, <1>2, <1>4, <2>4 DEF StorageTyped
<1>6. ASSUME ~mixed' PROVE Alone' /\ Chained'
  <2>1. ~mixed /\ Inside = {} /\ \A i \in Files : accessing[i] = 0
    BY <1>1, <1>2, <1>6 DEF StorageTypeOK, Alone
  <2>2. \A i \in Files : files'[i] = <<>>
    BY <1>1, <2>1
  <2>3. Files' = Files
    BY DEF Files
  <2>4. Alone'
    BY <1>1, <1>3, <1>4, <2>1, <2>2, <2>3 DEF Alone
  <2>5. PICK start : start = [k \in 1..R + 1 |-> rows]
    OBVIOUS
  <2>6. start \in [1..R + 1 -> 0..rows'] /\ start[R + 1] = rows'
    BY <1>1, <1>3, <2>5
  <2>7. ASSUME NEW k \in 1..R PROVE Begins(start, k)'
    <3>1. FileOrder'[k] \in Files
      BY <1>1, <1>3, TurnsAround DEF FileOrder
    <3>2. start[k] = rows /\ start[k + 1] = rows
      BY <1>3, <2>5
    <3>. QED
      BY <1>1, <1>3, <2>2, <3>1, <3>2 DEF Begins
  <2>. QED
    BY <2>4, <2>6, <2>7 DEF Chained
<1>7. mixed' => Alone' /\ Chained'
  BY DEF Alone, Chained
<1>. QED
  BY <1>5, <1>6, <1>7 DEF StorageInv

LEMMA StorageStep == StorageInv /\ [StorageNext]_storage_vars => StorageInv'
<1>. SUFFICES ASSUME StorageInv, [StorageNext]_storage_vars PROVE StorageInv'
  OBVIOUS
<1>1. CASE ClearAll
  BY <1>1, ClearAllKeeps
<1>2. CASE \E w \in Writers : Enter(w) \/ WriteRow(w) \/ Exit(w)
  BY <1>2, EnterKeeps, WriteRowKeeps, ExitKeeps
<1>3. CASE UNCHANGED storage_vars
  <2>1. index' = index /\ accessing' = accessing /\ files' = files /\ fd' = fd /\ wrote' = wrote
        /\ rows' = rows /\ cleared' = cleared /\ mixed' = mixed
    BY <1>3 DEF storage_vars
  <2>2. Inside' = Inside /\ Pending' = Pending /\ Files' = Files /\ FileOrder' = FileOrder
    BY <2>1 DEF Inside, Pending, Files, FileOrder
  <2>3. StorageTyped' /\ Alone'
    BY <2>1, <2>2 DEF StorageInv, StorageTyped, StorageTypeOK, Alone
  <2>4. Chained'
    BY <2>1, <2>2 DEF StorageInv, Chained, Begins
  <2>. QED
    BY <2>3, <2>4 DEF StorageInv
<1>. QED
  BY <1>1, <1>2, <1>3 DEF StorageNext

-----------------------------------------------------------------------------
\* The inductive invariant of a monitor's files holds in every state.
THEOREM StorageInvariance == StorageSpec => []StorageInv
<1>1. StorageInit => StorageInv
  BY StorageInitially
<1>. QED
  BY <1>1, StorageStep, PTL DEF StorageSpec

\* As long as writers do not overlap, for any number of files, their size and
\* any number of rows: get_all_files_as_stream is the last rows written,
\* in order and without a gap, at least a turn of full files of them unless
\* they were cleared, and the counts say who is inside.
THEOREM StreamIsKept == StorageSpec => []StorageKept
<1>1. StorageInv => StorageKept
  <2>. SUFFICES ASSUME StorageInv, ~mixed PROVE StorageKept
    BY DEF StorageKept, StreamIsTheLastRows, FilesBounded
  <2>. DEFINE R == RotationCnt
  <2>1. StorageTypeOK /\ Alone /\ Chained
    BY DEF StorageInv, StorageTyped
  <2>2. R \in Nat \ {0} /\ MaxSize \in Nat \ {0} /\ rows \in Nat /\ cleared \in Nat
    BY <2>1, StorageAssumption DEF StorageTypeOK
  <2>3. PICK start \in [1..R + 1 -> 0..rows] : start[R + 1] = rows /\ \A k \in 1..R : Begins(start, k)
    BY <2>1 DEF Chained
  <2>4. AllFilesAsStream = Run(start[1], rows - start[1])
    BY <2>1, <2>3, StreamOfFiles
  <2>5. start[1] \in 0..rows /\ start[1] \in Nat /\ rows - start[1] \in Nat
    BY <2>2
  <2>6. Len(AllFilesAsStream) = rows - start[1] /\ AllFilesAsStream \in Seq(Nat)
        /\ \A i \in 1..rows - start[1] : AllFilesAsStream[i] = start[1] + i
    BY <2>4, <2>5, RunIsSeq
  <2>7. rows - Len(AllFilesAsStream) = start[1]
    BY <2>2, <2>5, <2>6
  <2>8. start[1] <= cleared \/ rows - start[1] >= (R - 1) * MaxSize
    <3>1. CASE start[1] > cleared
      <4>1. start[R] >= start[1] + (R - 1) * MaxSize
        BY <2>1, <2>2, <2>3, <3>1, BeginsRise
      <4>2. start[R] \in 0..rows
        BY <2>2
      <4>. DEFINE p == (R - 1) * MaxSize
      <4>3. p \in Int /\ start[R] >= start[1] + p
        BY <2>2, <4>1
      <4>. HIDE DEF p
      <4>4. rows - start[1] >= p
        BY <2>2, <2>5, <4>2, <4>3
      <4>. QED
        BY <4>4 DEF p
    <3>. QED
      BY <2>2, <2>5, <3>1
  <2>9. StreamIsTheLastRows
    <3>1. DOMAIN AllFilesAsStream = 1..rows - start[1]
      BY <2>6
    <3>. QED
      BY <2>6, <2>7, <2>8, <3>1 DEF StreamIsTheLastRows
  <2>10. ASSUME NEW i \in Files PROVE accessing[i] = Cardinality({w \in Writers : fd[w] = i})
    <3>. DEFINE users == {w \in Writers : fd[w] = i}
    <3>1. i # -1
      BY <2>2 DEF Files
    <3>2. accessing[i] = IF i = index /\ Inside # {} THEN 1 ELSE 0
      BY <2>1 DEF Alone
    <3>3. CASE i = index /\ Inside # {}
      <4>1. PICK w \in Inside : \A v \in Inside : v = w
        BY <2>1, <3>3 DEF Alone
      <4>2. fd[w] = index /\ w \in Writers
        BY <2>1, <4>1 DEF Alone, Inside
      <4>3. users = {w}
        BY <3>1, <3>3, <4>1, <4>2 DEF Inside
      <4>4. Cardinality(users) = 1
        BY <4>3, FS_Singleton
      <4>. QED
        BY <3>2, <3>3, <4>4
    <3>4. CASE ~(i = index /\ Inside # {})
      <4>1. users = {}
        BY <2>1, <3>1, <3>4 DEF Inside, Alone
      <4>2. Cardinality(users) = 0
        BY <4>1, FS_EmptySet
      <4>. QED
        BY <3>2, <3>4, <4>2
    <3>. QED
      BY <3>3, <3>4
  <2>11. FilesBounded
    BY <2>1, <2>10 DEF FilesBounded, Alone
  <2>. QED
    BY <2>9, <2>11 DEF StorageKept
<1>. QED
  BY <1>1, StorageInvariance, PTL
-----------------------------------------------------------------------------
(* The types of the registry: a registry is constructed by a thread that saw  *)
(* none, once.                                                               *)

Constructing == {t \in Threads : id_pc[t] = "construct"}
ConstructedOnce == managers + Cardinality(Constructing) <= Cardinality(Threads)

LEMMA ConstructingFinite ==
    /\ IsFiniteSet(Constructing) /\ Cardinality(Constructing) \in Nat
    /\ Cardinality(Constructing) <= Cardinality(Threads)
    /\ Cardinality(Threads) \in Nat
<1>1. Constructing \in SUBSET Threads
  BY DEF Constructing
<1>. QED
  BY <1>1, ThreadsAssumption, FS_Subset, FS_CardinalityType

LEMMA ConstructedInitially == RegistryInit => ConstructedOnce
<1>. SUFFICES ASSUME RegistryInit PROVE ConstructedOnce
  OBVIOUS
<1>1. managers = 0 /\ Constructing = {}
  BY DEF RegistryInit, Constructing
<1>. QED
  BY <1>1, FS_EmptySet, ConstructingFinite DEF ConstructedOnce

LEMMA ConstructedStep ==
    RegistryInv /\ ConstructedOnce /\ [RegistryNext]_id_vars => ConstructedOnce'
<1>. SUFFICES ASSUME Typed, ConstructedOnce, [RegistryNext]_id_vars PROVE ConstructedOnce'
  BY DEF RegistryInv
<1>1. ASSUME managers' = managers, Constructing' = Constructing PROVE ConstructedOnce'
  BY <1>1 DEF ConstructedOnce
<1>2. CASE UNCHANGED id_vars
  BY <1>1, <1>2 DEF id_vars, id_call, Constructing
<1>3. ASSUME NEW t \in Threads, GetManager(t) PROVE ConstructedOnce'
  <2>1. CASE managers = 0
    <3>1. managers' = 0
      BY <1>3, <2>1 DEF GetManager
    <3>2. Constructing' \in SUBSET Threads
      BY DEF Constructing
    <3>3. IsFiniteSet(Constructing') /\ Cardinality(Constructing') <= Cardinality(Threads)
      BY <3>2, ThreadsAssumption, FS_Subset
    <3>4. Cardinality(Constructing') \in Nat
      BY <3>3, FS_CardinalityType
    <3>. QED
      BY <3>1, <3>3, <3>4 DEF ConstructedOnce
  <2>2. CASE managers # 0
    <3>1. Constructing' = Constructing /\ managers' = managers
      BY <1>3, <2>2 DEF GetManager, IdGoto, Constructing, Typed
    <3>. QED
      BY <1>1, <3>1
  <2>. QED
    BY <2>1, <2>2
<1>4. ASSUME NEW t \in Threads, Construct(t) PROVE ConstructedOnce'
  <2>1. Constructing' = Constructing \ {t} /\ t \in Constructing /\ managers' = managers + 1
    BY <1>4 DEF Construct, IdGoto, Constructing, Typed
  <2>2. Cardinality(Constructing') = Cardinality(Constructing) - 1
    BY <2>1, ConstructingFinite, FS_RemoveElement
  <2>. QED
    BY <2>1, <2>2, ConstructingFinite DEF ConstructedOnce, Typed
<1>5. ASSUME NEW t \in Threads,
             \/ Create(t) \/ Created(t) \/ SetAttr(t) \/ Exists(t) \/ Release(t) \/ Rename(t)
      PROVE  ConstructedOnce'
  <2>1. managers' = managers
    BY <1>5 DEF Create, Created, SetAttr, Exists, Release, Rename
  <2>2. PICK from, to : IdGoto(t, from, to) /\ from # "construct" /\ to # "construct"
    BY <1>5 DEF Create, Created, SetAttr, Exists, Release, Rename
  <2>3. Constructing' = Constructing
    BY <2>2 DEF IdGoto, Constructing, Typed
  <2>. QED
    BY <1>1, <2>1, <2>3
<1>. QED
  BY <1>2, <1>3, <1>4, <1>5 DEF RegistryNext

LEMMA RegistryTypes == RegistryInv /\ ConstructedOnce => RegistryTypeOK
<1>. SUFFICES ASSUME Typed, ConstructedOnce PROVE RegistryTypeOK
  BY DEF RegistryInv
<1>1. managers \in 0..Cardinality(Threads)
  BY ConstructingFinite DEF Typed, ConstructedOnce
<1>. QED
  BY <1>1 DEF Typed, RegistryTypeOK

-----------------------------------------------------------------------------
(* The types of a run: it counts its subcollectors from the first.            *)

DataTyped ==
    /\ holder \in Procs \cup {0} /\ json \in Procs \cup {0} /\ text \in Procs \cup {0}
    /\ torn \in BOOLEAN
    /\ at \in [Procs -> 0..Subs + 1] /\ on \in [Procs -> SUBSET (1..Subs)]
    /\ set_on \in [Procs -> BOOLEAN] /\ refs \in [Procs -> 0..1]
    /\ loop \in [Procs -> {"none", "made", "on", "told"}]
    /\ handled \in [Procs -> BOOLEAN] /\ disturbed \in [Procs -> BOOLEAN]
    /\ signals \in [Procs -> 0..MaxSignals]
    /\ \A p \in Procs : main[p] = "start_subs" => at[p] # 0

LEMMA DataInitially == OfflineInit => DataTyped
<1>. SUFFICES ASSUME OfflineInit PROVE DataTyped
  OBVIOUS
<1>1. 0 \in 0..Subs + 1 /\ 0 \in 0..MaxSignals /\ 0 \in 0..1
  BY RunAssumption
<1>. QED
  BY <1>1 DEF OfflineInit, DataTyped

\* A stop, wherever it is called, and one collector less.
LEMMA StopTyped ==
    ASSUME DataTyped, NEW p \in Procs, StopCalled(p)
    PROVE  /\ at' \in [Procs -> 0..Subs + 1] /\ refs' \in [Procs -> 0..1]
           /\ loop' \in [Procs -> {"none", "made", "on", "told"}]
           /\ \A q \in Procs : at[q] # 0 => at'[q] # 0
<1>1. 1 \in 0..Subs + 1
  BY RunAssumption
<1>2. CASE refs[p] = 0
  BY <1>2 DEF StopCalled, DataTyped
<1>3. CASE refs[p] # 0
  BY <1>1, <1>3 DEF StopCalled, DataTyped
<1>. QED
  BY <1>2, <1>3

LEMMA LessTyped ==
    ASSUME DataTyped, NEW p \in Procs, OneSubLess(p)
    PROVE  /\ at' \in [Procs -> 0..Subs + 1] /\ on' \in [Procs -> SUBSET (1..Subs)]
           /\ set_on' \in [Procs -> BOOLEAN]
           /\ \A q \in Procs : at[q] # 0 => at'[q] # 0
<1>1. CASE at[p] <= Subs
  <2>1. at[p] + 1 \in 0..Subs + 1 /\ at[p] + 1 # 0
    BY <1>1, RunAssumption DEF DataTyped
  <2>2. at' = [at EXCEPT ![p] = at[p] + 1] /\ on' = [on EXCEPT ![p] = on[p] \ {at[p]}]
        /\ set_on' = set_on
    BY <1>1 DEF OneSubLess
  <2>. QED
    BY <2>1, <2>2 DEF DataTyped
<1>2. CASE ~(at[p] <= Subs)
  BY <1>2 DEF OneSubLess, DataTyped
<1>. QED
  BY <1>1, <1>2

\* What an end of a run leaves typed.
LEMMA EndTyped ==
    ASSUME MainTyped, DataTyped, NEW p \in Procs, NEW code \in Ended, End(p, code)
    PROVE  /\ holder' \in Procs \cup {0} /\ torn' \in BOOLEAN
           /\ \A q \in Procs : main'[q] = "start_subs" => main[q] = "start_subs"
BY DEF MainTyped, DataTyped, End, Goto, Ended

LEMMA MainStepTyped ==
    ASSUME MainTyped, DataTyped, NEW p \in Procs, Launch(p) \/ MainStep(p)
    PROVE  DataTyped'
<1>. USE DEF run_data, run_files, InMain, Goto
<1>1. ASSUME NEW place, place # "start_subs", main' = [main EXCEPT ![p] = place]
      PROVE  \A q \in Procs : main'[q] = "start_subs" => main[q] = "start_subs"
  BY <1>1 DEF MainTyped
<1>2. CASE Launch(p)
  BY <1>1, <1>2 DEF Launch, DataTyped
<1>3. CASE Acquire(p)
  <2>1. CASE holder = 0
    BY <1>1, <1>3, <2>1 DEF Acquire, DataTyped
  <2>2. CASE holder # 0
    BY <1>3, <2>2, EndTyped DEF Acquire, DataTyped, Ended
  <2>. QED
    BY <2>1, <2>2
<1>4. CASE BeginRun(p)
  <2>1. handled' \in [Procs -> BOOLEAN]
    BY <1>4 DEF BeginRun, DataTyped
  <2>. QED
    BY <1>1, <1>4, <2>1 DEF BeginRun, DataTyped
<1>5. CASE StartCore(p)
  <2>1. 1 \in 0..Subs + 1
    BY RunAssumption
  <2>2. at' \in [Procs -> 0..Subs + 1] /\ refs' \in [Procs -> 0..1]
        /\ loop' \in [Procs -> {"none", "made", "on", "told"}] /\ at'[p] = 1
    BY <1>5, <2>1 DEF StartCore, DataTyped
  <2>3. \A q \in Procs : main'[q] = "start_subs" => at'[q] # 0
    BY <1>5, <2>2 DEF StartCore, DataTyped, MainTyped
  <2>. QED
    BY <1>5, <2>2, <2>3 DEF StartCore, DataTyped
<1>6. CASE StartSub(p)
  <2>1. CASE at[p] <= Subs
    <3>0. at[p] \in 0..Subs + 1 /\ at[p] # 0
      BY <1>6 DEF StartSub, DataTyped
    <3>1. at[p] + 1 \in 0..Subs + 1 /\ at[p] + 1 # 0 /\ at[p] \in 1..Subs
      BY <2>1, <3>0, RunAssumption
    <3>2. at' = [at EXCEPT ![p] = at[p] + 1] /\ on' = [on EXCEPT ![p] = on[p] \cup {at[p]}]
          /\ main' = main
      BY <1>6, <2>1 DEF StartSub
    <3>3. at' \in [Procs -> 0..Subs + 1] /\ on' \in [Procs -> SUBSET (1..Subs)]
          /\ \A q \in Procs : at[q] # 0 => at'[q] # 0
      BY <3>1, <3>2 DEF DataTyped
    <3>. QED
      BY <1>6, <2>1, <3>2, <3>3 DEF StartSub, DataTyped
  <2>2. CASE ~(at[p] <= Subs)
    BY <1>1, <1>6, <2>2 DEF StartSub, DataTyped
  <2>. QED
    BY <2>1, <2>2
<1>7. CASE StartLoop(p)
  BY <1>1, <1>7 DEF StartLoop, DataTyped
<1>8. CASE StopCore(p)
  <2>1. \A q \in Procs : main'[q] = "start_subs" => main[q] = "start_subs"
    BY <1>1, <1>8 DEF StopCore, AfterStop
  <2>. QED
    BY <1>8, <2>1, StopTyped DEF StopCore, DataTyped
<1>9. CASE StopSub(p)
  <2>1. \A q \in Procs : main'[q] = "start_subs" => main[q] = "start_subs"
    BY <1>1, <1>9 DEF StopSub
  <2>. QED
    BY <1>9, <2>1, LessTyped DEF StopSub, DataTyped
<1>10. CASE JoinLoop(p)
  <2>1. CASE handled[p]
    BY <1>1, <1>10, <2>1 DEF JoinLoop, DataTyped
  <2>2. CASE ~handled[p]
    BY <1>10, <2>2, EndTyped DEF JoinLoop, DataTyped, Ended
  <2>. QED
    BY <2>1, <2>2
<1>11. CASE SubRaises(p)
  <2>1. disturbed' \in [Procs -> BOOLEAN]
    BY <1>11 DEF SubRaises, DataTyped
  <2>. QED
    BY <1>11, <2>1, EndTyped DEF SubRaises, DataTyped, Ended
<1>12. CASE CollectGraph(p)
  BY <1>1, <1>12 DEF CollectGraph, DataTyped
<1>13. CASE WriteJson(p)
  BY <1>1, <1>13 DEF WriteJson, DataTyped
<1>14. CASE WriteText(p)
  BY <1>1, <1>14 DEF WriteText, DataTyped
<1>. QED
  BY <1>2, <1>3, <1>4, <1>5, <1>6, <1>7, <1>8, <1>9, <1>10, <1>11, <1>12, <1>13, <1>14 DEF MainStep

LEMMA SignalsTyped ==
    ASSUME MainTyped, DataTyped, NEW p \in Procs, Handler(p) \/ Sigterm(p) \/ Interrupt(p)
    PROVE  DataTyped'
<1>. USE DEF run_data, run_files
<1>1. ASSUME signals[p] < MaxSignals, signals' = [signals EXCEPT ![p] = @ + 1]
      PROVE  signals' \in [Procs -> 0..MaxSignals]
  <2>1. signals[p] + 1 \in 0..MaxSignals
    BY <1>1, RunAssumption DEF DataTyped
  <2>. QED
    BY <1>1, <2>1 DEF DataTyped
<1>2. CASE Sigterm(p)
  <2>1. disturbed' \in [Procs -> BOOLEAN]
    BY <1>2 DEF Sigterm, DataTyped, Hit
  <2>. QED
    BY <1>1, <1>2, <2>1 DEF Sigterm, DataTyped
<1>3. CASE Interrupt(p)
  <2>1. disturbed' \in [Procs -> BOOLEAN]
    BY <1>3 DEF Interrupt, DataTyped, Hit
  <2>2. CASE main[p] = "sleep"
    BY <1>1, <1>3, <2>1, <2>2 DEF Interrupt, DataTyped
  <2>3. CASE main[p] # "sleep"
    BY <1>1, <1>3, <2>1, <2>3, EndTyped DEF Interrupt, DataTyped, Ended
  <2>. QED
    BY <2>2, <2>3
<1>4. CASE HandlerStops(p)
  BY <1>4, StopTyped DEF HandlerStops, DataTyped
<1>5. CASE HandlerStopsSub(p)
  BY <1>5, LessTyped DEF HandlerStopsSub, DataTyped
<1>6. CASE HandlerJoins(p)
  <2>1. CASE loop[p] = "made"
    BY <1>6, <2>1, EndTyped DEF HandlerJoins, DataTyped, Ended
  <2>2. CASE loop[p] # "made"
    BY <1>6, <2>2 DEF HandlerJoins, DataTyped
  <2>. QED
    BY <2>1, <2>2
<1>7. CASE HandlerExits(p)
  BY <1>7, EndTyped DEF HandlerExits, DataTyped, Ended
<1>. QED
  BY <1>2, <1>3, <1>4, <1>5, <1>6, <1>7 DEF Handler

LEMMA DataStep == LockInv /\ DataTyped /\ [OfflineNext]_run_vars => DataTyped'
<1>. SUFFICES ASSUME LockInv, DataTyped, [OfflineNext]_run_vars PROVE DataTyped'
  OBVIOUS
<1>1. MainTyped
  BY DEF LockInv
<1>2. CASE UNCHANGED run_vars
  BY <1>2 DEF run_vars, run_data, run_files, DataTyped
<1>3. CASE OfflineNext
  BY <1>1, <1>3, MainStepTyped, SignalsTyped DEF OfflineNext
<1>. QED
  BY <1>2, <1>3

LEMMA RunTypes == LockInv /\ DataTyped => RunTypeOK
BY DEF LockInv, MainTyped, Places, DataTyped, RunTypeOK

-----------------------------------------------------------------------------
(* Control routes: who waits, and the types. *)

\* The requests of clients that wait: where they are, 0 on the event loop.
Waits(h, i) == IF i = 0 THEN serving[h].from = Client
               ELSE i \in DOMAIN backlog[h] /\ backlog[h][i].from = Client
Waiting == {w \in Hosts \X Nat : Waits(w[1], w[2])}
RoutesTyped ==
    /\ slave \in [Hosts -> Hosts \cup {Nobody}]
    /\ count \in [Hosts -> Nat] /\ told \in [Hosts -> BOOLEAN]
    /\ backlog \in [Hosts -> Seq(Requests)] /\ serving \in [Hosts -> Requests]
    /\ post \in [Hosts -> {"none", "waiting", "ok", "error"}]
    /\ asked \in 0..MaxAsked /\ answered \in Nat
WaitsCounted == IsFiniteSet(Waiting) /\ answered + Cardinality(Waiting) <= asked
RoutesInv == RoutesTyped /\ WaitsCounted

LEMMA RoutesTypes == RoutesInv => RoutesTypeOK
<1>. SUFFICES ASSUME RoutesInv PROVE RoutesTypeOK
  OBVIOUS
<1>1. Cardinality(Waiting) \in Nat /\ answered \in Nat /\ asked \in Nat
      /\ answered + Cardinality(Waiting) <= asked
  BY FS_CardinalityType, RoutesAssumption DEF RoutesInv, RoutesTyped, WaitsCounted
<1>2. answered \in 0..asked
  BY <1>1
<1>. QED
  BY <1>2 DEF RoutesInv, RoutesTyped, RoutesTypeOK

LEMMA RoutesInitially == RoutesInit => RoutesInv
<1>. SUFFICES ASSUME RoutesInit PROVE RoutesInv
  OBVIOUS
<1>1. \A h \in Hosts : backlog[h] = <<>> /\ serving[h].from = Nobody
  BY DEF RoutesInit, NoRequest, Request
<1>2. Waiting = {}
  BY <1>1, RoutesAssumption DEF Waiting, Waits
<1>3. IsFiniteSet(Waiting) /\ Cardinality(Waiting) = 0
  BY <1>2, FS_EmptySet
<1>4. NoRequest \in Requests
  BY DEF NoRequest, Request, Requests, Kinds
<1>5. RoutesTyped
  BY <1>4, RoutesAssumption DEF RoutesInit, RoutesTyped
<1>. QED
  BY <1>3, <1>5, RoutesAssumption DEF RoutesInv, WaitsCounted, RoutesInit

\* A request that is answered waits no more.
LEMMA AnsweredLess ==
    ASSUME NEW W, IsFiniteSet(W), NEW w, NEW a \in Nat, NEW n \in Nat, a + Cardinality(W) <= n
    PROVE  /\ IsFiniteSet(W \ {w})
           /\ w \in W => a + 1 + Cardinality(W \ {w}) <= n
           /\ w \notin W => a + Cardinality(W \ {w}) <= n
<1>1. CASE w \in W
  <2>1. IsFiniteSet(W \ {w}) /\ Cardinality(W \ {w}) = Cardinality(W) - 1 /\ Cardinality(W) \in Nat
    BY <1>1, FS_RemoveElement, FS_CardinalityType
  <2>. QED
    BY <1>1, <2>1
<1>2. CASE w \notin W
  <2>1. W \ {w} = W
    BY <1>2
  <2>. QED
    BY <1>2, <2>1
<1>. QED
  BY <1>1, <1>2

LEMMA RequestsTyped ==
    ASSUME RoutesTyped, NEW h \in Hosts
    PROVE  /\ serving[h] \in Requests /\ backlog[h] \in Seq(Requests)
           /\ \A i \in DOMAIN backlog[h] : i \in Nat \ {0} /\ backlog[h][i] \in Requests
<1>1. serving[h] \in Requests /\ backlog[h] \in Seq(Requests)
  BY DEF RoutesTyped
<1>. QED
  BY <1>1, Elements

LEMMA OneAnswered ==
    ASSUME RoutesInv, NEW h \in Hosts, Waiting' = Waiting \ {<<h, 0>>}, asked' = asked,
           answered' = IF serving[h].from = Client THEN answered + 1 ELSE answered
    PROVE  WaitsCounted' /\ answered' \in Nat
<1>1. answered \in Nat /\ asked \in Nat /\ IsFiniteSet(Waiting) /\ answered + Cardinality(Waiting) <= asked
  BY RoutesAssumption DEF RoutesInv, RoutesTyped, WaitsCounted
<1>2. <<h, 0>> \in Waiting <=> serving[h].from = Client
  BY DEF Waiting, Waits
<1>3. /\ IsFiniteSet(Waiting \ {<<h, 0>>})
      /\ <<h, 0>> \in Waiting => answered + 1 + Cardinality(Waiting \ {<<h, 0>>}) <= asked
      /\ <<h, 0>> \notin Waiting => answered + Cardinality(Waiting \ {<<h, 0>>}) <= asked
  BY <1>1, AnsweredLess
<1>. QED
  BY <1>1, <1>2, <1>3 DEF WaitsCounted

\* Answer: to a client, or to the host that posted.
LEMMA AnswerKeeps ==
    ASSUME RoutesInv, NEW h \in Hosts, NEW outcome \in {"ok", "error"}, Answer(h, outcome),
           backlog' = backlog, asked' = asked
    PROVE  /\ WaitsCounted' /\ answered' \in Nat
           /\ serving' \in [Hosts -> Requests] /\ backlog' \in [Hosts -> Seq(Requests)]
           /\ post' \in [Hosts -> {"none", "waiting", "ok", "error"}]
<1>1. NoRequest \in Requests /\ NoRequest.from # Client
  BY RoutesAssumption DEF NoRequest, Request, Requests, Kinds
<1>2. serving \in [Hosts -> Requests] /\ backlog \in [Hosts -> Seq(Requests)]
      /\ post \in [Hosts -> {"none", "waiting", "ok", "error"}]
  BY DEF RoutesInv, RoutesTyped
<1>3. serving' = [serving EXCEPT ![h] = NoRequest]
      /\ answered' = (IF serving[h].from = Client THEN answered + 1 ELSE answered)
      /\ post' = [g \in Hosts |-> IF g = serving[h].from THEN outcome
                                  ELSE IF g = h THEN "none" ELSE post[g]]
  BY DEF Answer
<1>4. \A g \in Hosts, i \in Nat : Waits(g, i)' <=> Waits(g, i) /\ <<g, i>> # <<h, 0>>
  BY <1>1, <1>2, <1>3 DEF Waits
<1>5. Waiting' = Waiting \ {<<h, 0>>}
  BY <1>4 DEF Waiting
<1>6. serving' \in [Hosts -> Requests] /\ post' \in [Hosts -> {"none", "waiting", "ok", "error"}]
  BY <1>1, <1>2, <1>3
<1>. QED
  BY <1>2, <1>3, <1>5, <1>6, OneAnswered

\* Post: of one host to another, whom no client waits for.
LEMMA PostKeeps ==
    ASSUME RoutesInv, NEW h \in Hosts, NEW kind \in Kinds, slave[h] # Nobody,
           Post(h, kind), asked' = asked
    PROVE  /\ WaitsCounted' /\ answered' \in Nat
           /\ serving' \in [Hosts -> Requests] /\ backlog' \in [Hosts -> Seq(Requests)]
           /\ post' \in [Hosts -> {"none", "waiting", "ok", "error"}]
<1>. DEFINE s == slave[h]  r == Request(kind, h)
<1>1. s \in Hosts /\ h # Client /\ r \in Requests /\ r.from # Client
  BY RoutesAssumption DEF RoutesInv, RoutesTyped, Requests, Request
<1>2. serving \in [Hosts -> Requests] /\ backlog \in [Hosts -> Seq(Requests)]
      /\ post \in [Hosts -> {"none", "waiting", "ok", "error"}] /\ answered \in Nat
  BY DEF RoutesInv, RoutesTyped
<1>3. serving' = serving /\ answered' = answered
  BY DEF Post
<1>4. post' \in [Hosts -> {"none", "waiting", "ok", "error"}]
  BY <1>2 DEF Post
<1>5. CASE backlog' = backlog
  <2>1. Waiting' = Waiting
    BY <1>3, <1>5 DEF Waiting, Waits
  <2>. QED
    BY <1>2, <1>3, <1>4, <1>5, <2>1 DEF RoutesInv, WaitsCounted
<1>6. CASE backlog' = [backlog EXCEPT ![s] = Append(@, r)]
  <2>. HIDE DEF s, r
  <2>1. backlog[s] \in Seq(Requests)
    BY <1>1, <1>2
  <2>2. /\ Append(backlog[s], r) \in Seq(Requests)
        /\ \A i \in Nat \ {0} :
             (i \in DOMAIN Append(backlog[s], r) /\ Append(backlog[s], r)[i].from = Client)
             <=> (i \in DOMAIN backlog[s] /\ backlog[s][i].from = Client)
    BY <1>1, <2>1
  <2>3. \A g \in Hosts : backlog'[g] = IF g = s THEN Append(backlog[s], r) ELSE backlog[g]
    BY <1>2, <1>6
  <2>4. \A g \in Hosts, i \in Nat : Waits(g, i)' <=> Waits(g, i)
    BY <1>3, <2>2, <2>3 DEF Waits
  <2>5. Waiting' = Waiting
    BY <2>4 DEF Waiting
  <2>6. backlog' \in [Hosts -> Seq(Requests)]
    BY <1>1, <1>2, <1>6, <2>2
  <2>. QED
    BY <1>2, <1>3, <1>4, <2>5, <2>6 DEF RoutesInv, WaitsCounted
<1>. QED
  BY <1>5, <1>6 DEF Post

LEMMA CallKeeps ==
    ASSUME RoutesInv, NEW h \in Hosts, NEW kind \in Kinds, NEW after \in BOOLEAN,
           CallCollectors(h, kind, after), asked' = asked
    PROVE  /\ WaitsCounted' /\ answered' \in Nat /\ told' \in [Hosts -> BOOLEAN]
           /\ serving' \in [Hosts -> Requests] /\ backlog' \in [Hosts -> Seq(Requests)]
           /\ post' \in [Hosts -> {"none", "waiting", "ok", "error"}]
<1>0. told \in [Hosts -> BOOLEAN]
  BY DEF RoutesInv, RoutesTyped
<1>1. CASE slave[h] = Nobody
  <2>1. Answer(h, "ok") /\ backlog' = backlog /\ told' = [told EXCEPT ![h] = after]
    BY <1>1 DEF CallCollectors
  <2>. QED
    BY <1>0, <2>1, AnswerKeeps
<1>2. CASE slave[h] # Nobody
  <2>1. Post(h, kind) /\ told' = told
    BY <1>2 DEF CallCollectors
  <2>. QED
    BY <1>0, <1>2, <2>1, PostKeeps
<1>. QED
  BY <1>1, <1>2

LEMMA ForgetsFacts ==
    ASSUME NEW h \in Hosts, NEW r \in Requests
    PROVE  Forgets(h, r) \in Requests /\ (Forgets(h, r).from = Client <=> r.from = Client)
BY RoutesAssumption DEF Forgets, Requests

\* The time-out: others than the clients wait no more.
LEMMA TimeOutKeeps == ASSUME RoutesInv, NEW h \in Hosts, PostTimesOut(h) PROVE RoutesInv'
<1>1. serving \in [Hosts -> Requests] /\ backlog \in [Hosts -> Seq(Requests)] /\ RoutesTyped
  BY DEF RoutesInv, RoutesTyped
<1>2. NoRequest \in Requests /\ NoRequest.from # Client
  BY RoutesAssumption DEF NoRequest, Request, Requests, Kinds
<1>3. \A g \in Hosts : serving'[g] = IF g = h THEN NoRequest ELSE Forgets(h, serving[g])
  BY DEF PostTimesOut
<1>4. \A g \in Hosts : backlog'[g] = [i \in DOMAIN backlog[g] |-> Forgets(h, backlog[g][i])]
  BY DEF PostTimesOut
<1>5. ASSUME NEW g \in Hosts
      PROVE  /\ serving'[g] \in Requests /\ backlog'[g] \in Seq(Requests)
             /\ \A i \in Nat : Waits(g, i)' <=> Waits(g, i) /\ <<g, i>> # <<h, 0>>
  <2>. DEFINE q == backlog[g]
  <2>1. q \in Seq(Requests) /\ serving[g] \in Requests
        /\ \A i \in DOMAIN q : i \in Nat \ {0} /\ q[i] \in Requests
    BY <1>1, RequestsTyped
  <2>2. DOMAIN backlog'[g] = DOMAIN q
        /\ \A i \in DOMAIN q : backlog'[g][i] = Forgets(h, q[i])
    BY <1>4
  <2>3. \A i \in DOMAIN q : /\ Forgets(h, q[i]) \in Requests
                            /\ (Forgets(h, q[i]).from = Client <=> q[i].from = Client)
    BY <2>1, ForgetsFacts
  <2>4. DOMAIN q = 1..Len(q) /\ Len(q) \in Nat
    BY <2>1
  <2>5. backlog'[g] = [i \in 1..Len(q) |-> Forgets(h, q[i])]
    BY <1>4, <2>4
  <2>6. backlog'[g] \in Seq(Requests)
    <3>. HIDE DEF q
    <3>1. \A i \in 1..Len(q) : Forgets(h, q[i]) \in Requests
      BY <2>3, <2>4
    <3>2. [i \in 1..Len(q) |-> Forgets(h, q[i])] \in Seq(Requests)
      BY <2>4, <3>1
    <3>. QED
      BY <2>5, <3>2
  <2>7. serving'[g] \in Requests /\ (serving'[g].from = Client <=> g # h /\ serving[g].from = Client)
    <3>1. CASE g = h
      BY <1>2, <1>3, <3>1
    <3>2. CASE g # h
      <4>1. serving'[g] = Forgets(h, serving[g])
        BY <1>3, <3>2
      <4>. QED
        BY <2>1, <3>2, <4>1, ForgetsFacts
    <3>. QED
      BY <3>1, <3>2
  <2>8. ASSUME NEW i \in Nat PROVE Waits(g, i)' <=> Waits(g, i) /\ <<g, i>> # <<h, 0>>
    <3>1. CASE i = 0
      BY <2>7, <3>1 DEF Waits
    <3>2. CASE i # 0
      BY <2>2, <2>3, <3>2 DEF Waits
    <3>. QED
      BY <3>1, <3>2
  <2>. QED
    BY <2>6, <2>7, <2>8
<1>6. Waiting' = Waiting \ {<<h, 0>>}
  BY <1>5 DEF Waiting
<1>7. asked' = asked /\ answered' = IF serving[h].from = Client THEN answered + 1 ELSE answered
  BY DEF PostTimesOut, Routed
<1>8. WaitsCounted' /\ answered' \in Nat
  BY <1>6, <1>7, OneAnswered
<1>9. serving' \in [Hosts -> Requests] /\ backlog' \in [Hosts -> Seq(Requests)]
  <2>1. serving' = [g \in Hosts |-> serving'[g]] /\ backlog' = [g \in Hosts |-> backlog'[g]]
    BY DEF PostTimesOut
  <2>. QED
    BY <1>5, <2>1
<1>10. post' \in [Hosts -> {"none", "waiting", "ok", "error"}]
  BY <1>1 DEF PostTimesOut, RoutesTyped
<1>11. slave' = slave /\ count' = count /\ told' = told
  BY DEF PostTimesOut, Routed
<1>. QED
  BY <1>1, <1>7, <1>8, <1>9, <1>10, <1>11 DEF RoutesInv, RoutesTyped

\* A client asks: one more waits.
LEMMA ClientKeeps == ASSUME RoutesInv, ClientPosts PROVE RoutesInv'
<1>1. PICK h \in Hosts, kind \in Kinds :
        backlog' = [backlog EXCEPT ![h] = Append(@, Request(kind, Client))]
  BY DEF ClientPosts
<1>. DEFINE r == Request(kind, Client)  q == backlog[h]
<1>2. r \in Requests /\ r.from = Client
  BY DEF Request, Requests
<1>3. serving' = serving /\ answered' = answered /\ asked' = asked + 1 /\ asked < MaxAsked
      /\ slave' = slave /\ count' = count /\ told' = told /\ post' = post
  BY DEF ClientPosts
<1>4. backlog \in [Hosts -> Seq(Requests)] /\ q \in Seq(Requests) /\ Len(q) \in Nat
  BY DEF RoutesInv, RoutesTyped
<1>. HIDE DEF r
<1>5. /\ Append(q, r) \in Seq(Requests)
      /\ \A i \in Nat \ {0} :
           (i \in DOMAIN Append(q, r) /\ Append(q, r)[i].from = Client)
           <=> (i = Len(q) + 1 \/ (i \in DOMAIN q /\ q[i].from = Client))
  BY <1>2, <1>4
<1>6. \A g \in Hosts : backlog'[g] = IF g = h THEN Append(q, r) ELSE backlog[g]
  BY <1>1, <1>4 DEF r
<1>7. \A g \in Hosts, i \in Nat : Waits(g, i)' <=> (Waits(g, i) \/ (g = h /\ i = Len(q) + 1))
  <2>1. TAKE g \in Hosts, i \in Nat
  <2>2. CASE i = 0
    BY <1>3, <1>4, <2>2 DEF Waits
  <2>3. CASE i # 0 /\ g = h
    <3>1. backlog'[g] = Append(q, r)
      BY <1>6, <2>3
    <3>2. Waits(g, i)' <=> i \in DOMAIN Append(q, r) /\ Append(q, r)[i].from = Client
      BY <2>3, <3>1 DEF Waits
    <3>3. Waits(g, i) <=> i \in DOMAIN q /\ q[i].from = Client
      BY <2>3 DEF Waits
    <3>. HIDE DEF q
    <3>. QED
      BY <1>5, <2>3, <3>2, <3>3
  <2>4. CASE i # 0 /\ g # h
    BY <1>6, <2>4 DEF Waits
  <2>. QED
    BY <2>2, <2>3, <2>4
<1>8. Waiting' = Waiting \cup {<<h, Len(q) + 1>>} /\ <<h, Len(q) + 1>> \notin Waiting
  <2>1. Len(q) + 1 \in Nat /\ Len(q) + 1 # 0 /\ Len(q) + 1 \notin DOMAIN q
    BY <1>4
  <2>2. ~Waits(h, Len(q) + 1)
    BY <2>1 DEF Waits
  <2>. QED
    BY <1>7, <2>1, <2>2 DEF Waiting
<1>9. IsFiniteSet(Waiting) /\ answered + Cardinality(Waiting) <= asked /\ answered \in Nat
      /\ asked \in Nat /\ asked' \in 0..MaxAsked
  BY <1>3, RoutesAssumption DEF RoutesInv, RoutesTyped, WaitsCounted
<1>10. IsFiniteSet(Waiting') /\ Cardinality(Waiting') = Cardinality(Waiting) + 1
       /\ Cardinality(Waiting) \in Nat
  BY <1>8, <1>9, FS_AddElement, FS_CardinalityType
<1>11. WaitsCounted'
  BY <1>3, <1>9, <1>10 DEF WaitsCounted
<1>12. backlog' \in [Hosts -> Seq(Requests)]
  BY <1>1, <1>4, <1>5 DEF r
<1>. QED
  BY <1>3, <1>9, <1>11, <1>12 DEF RoutesInv, RoutesTyped

\* The next request is taken up: those of its host move one up.
LEMMA ServeKeeps == ASSUME RoutesInv, NEW h \in Hosts, Serve(h) PROVE RoutesInv'
<1>. DEFINE q == backlog[h]
<1>1. backlog \in [Hosts -> Seq(Requests)] /\ serving \in [Hosts -> Requests]
      /\ q \in Seq(Requests) /\ q # <<>> /\ Len(q) \in Nat \ {0}
  BY DEF RoutesInv, RoutesTyped, Serve
<1>2. serving' = [serving EXCEPT ![h] = Head(q)] /\ backlog' = [backlog EXCEPT ![h] = Tail(q)]
      /\ slave' = slave /\ count' = count /\ told' = told /\ post' = post
      /\ asked' = asked /\ answered' = answered
  BY DEF Serve
<1>3. /\ Head(q) = q[1] /\ Head(q) \in Requests /\ Tail(q) \in Seq(Requests)
      /\ \A i \in Nat : (i \in DOMAIN Tail(q) <=> i # 0 /\ i + 1 \in DOMAIN q)
                        /\ (i \in DOMAIN Tail(q) => Tail(q)[i] = q[i + 1])
  BY <1>1
<1>4. 1 \in DOMAIN q
  BY <1>1
<1>5. \A i \in Nat : Waits(h, i)' <=> Waits(h, i + 1)
  <2>1. TAKE i \in Nat
  <2>2. serving'[h] = q[1] /\ backlog'[h] = Tail(q)
    BY <1>1, <1>2, <1>3
  <2>3. i + 1 # 0
    OBVIOUS
  <2>4. Waits(h, i + 1) <=> i + 1 \in DOMAIN q /\ q[i + 1].from = Client
    BY <2>3 DEF Waits
  <2>5. CASE i = 0
    BY <1>4, <2>2, <2>4, <2>5 DEF Waits
  <2>6. CASE i # 0
    <3>1. Waits(h, i)' <=> i \in DOMAIN Tail(q) /\ Tail(q)[i].from = Client
      BY <2>2, <2>6 DEF Waits
    <3>. QED
      BY <1>3, <2>4, <2>6, <3>1
  <2>. QED
    BY <2>5, <2>6
<1>6. \A g \in Hosts \ {h}, i \in Nat : Waits(g, i)' <=> Waits(g, i)
  BY <1>1, <1>2 DEF Waits
<1>. DEFINE up == [w \in Waiting' |-> IF w[1] = h THEN <<h, w[2] + 1>> ELSE w]
<1>7. ASSUME NEW w \in Waiting' PROVE w[1] \in Hosts /\ w[2] \in Nat /\ w = <<w[1], w[2]>> /\ up[w] \in Waiting
  <2>1. w[1] \in Hosts /\ w[2] \in Nat /\ w = <<w[1], w[2]>> /\ Waits(w[1], w[2])'
    BY DEF Waiting
  <2>2. CASE w[1] = h
    <3>1. Waits(h, w[2] + 1) /\ w[2] + 1 \in Nat
      BY <1>5, <2>1, <2>2
    <3>2. <<h, w[2] + 1>> \in Waiting
      BY <3>1 DEF Waiting
    <3>. QED
      BY <2>1, <2>2, <3>2
  <2>3. CASE w[1] # h
    <3>1. w \in Waiting
      BY <1>6, <2>1, <2>3 DEF Waiting
    <3>. QED
      BY <2>1, <2>3, <3>1
  <2>. QED
    BY <2>2, <2>3
<1>8. \A v, w \in Waiting' : up[v] = up[w] => v = w
  <2>1. TAKE v, w \in Waiting'
  <2>2. /\ v[2] \in Nat /\ v = <<v[1], v[2]>> /\ w[2] \in Nat /\ w = <<w[1], w[2]>>
    BY <1>7
  <2>3. up[v] = (IF v[1] = h THEN <<h, v[2] + 1>> ELSE v)
        /\ up[w] = (IF w[1] = h THEN <<h, w[2] + 1>> ELSE w)
    OBVIOUS
  <2>. QED
    BY <2>2, <2>3
<1>9. up \in Injection(Waiting', Waiting)
  <2>1. up \in [Waiting' -> Waiting]
    BY <1>7
  <2>. QED
    BY <1>8, <2>1 DEF Injection, IsInjective
<1>10. IsFiniteSet(Waiting) /\ answered + Cardinality(Waiting) <= asked /\ answered \in Nat
       /\ asked \in Nat
  BY RoutesAssumption DEF RoutesInv, RoutesTyped, WaitsCounted
<1>11. IsFiniteSet(Waiting') /\ Cardinality(Waiting') <= Cardinality(Waiting)
  <2>. HIDE DEF up
  <2>. QED
    BY <1>9, <1>10, FS_Injection
<1>12. Cardinality(Waiting') \in Nat /\ Cardinality(Waiting) \in Nat
  BY <1>10, <1>11, FS_CardinalityType
<1>13. WaitsCounted'
  BY <1>2, <1>10, <1>11, <1>12 DEF WaitsCounted
<1>14. serving' \in [Hosts -> Requests] /\ backlog' \in [Hosts -> Seq(Requests)]
  BY <1>1, <1>2, <1>3
<1>. QED
  BY <1>2, <1>13, <1>14 DEF RoutesInv, RoutesTyped

LEMMA RoutesStep == RoutesInv /\ [RoutesNext]_routes_vars => RoutesInv'
<1>. SUFFICES ASSUME RoutesInv, [RoutesNext]_routes_vars PROVE RoutesInv'
  OBVIOUS
<1>0. RoutesTyped
  BY DEF RoutesInv
<1>1. CASE UNCHANGED routes_vars
  <2>1. Waiting' = Waiting
    BY <1>1 DEF routes_vars, Waiting, Waits
  <2>. QED
    BY <1>1, <2>1 DEF routes_vars, RoutesInv, RoutesTyped, WaitsCounted
<1>2. CASE ClientPosts
  BY <1>2, ClientKeeps
<1>3. ASSUME NEW h \in Hosts, ServerStep(h) PROVE RoutesInv'
  <2>1. CASE Serve(h)
    BY <2>1, ServeKeeps
  <2>2. CASE PostTimesOut(h)
    BY <2>2, TimeOutKeeps
  <2>3. ASSUME Routed, NEW outcome \in {"ok", "error"}, Answer(h, outcome), backlog' = backlog,
               count' \in [Hosts -> Nat], told' \in [Hosts -> BOOLEAN]
        PROVE  RoutesInv'
    <3>1. asked' = asked /\ slave' = slave
      BY <2>3 DEF Routed
    <3>. QED
      BY <1>0, <2>3, <3>1, AnswerKeeps DEF RoutesInv, RoutesTyped
  <2>4. ASSUME Routed, NEW kind \in Kinds, NEW after \in BOOLEAN, CallCollectors(h, kind, after),
               count' \in [Hosts -> Nat]
        PROVE  RoutesInv'
    <3>1. asked' = asked /\ slave' = slave
      BY <2>4 DEF Routed
    <3>. QED
      BY <1>0, <2>4, <3>1, CallKeeps DEF RoutesInv, RoutesTyped
  <2>5. count \in [Hosts -> Nat] /\ told \in [Hosts -> BOOLEAN] /\ count[h] \in Nat /\ told[h] \in BOOLEAN
        /\ "start" \in Kinds /\ "stop" \in Kinds /\ "clear" \in Kinds
    BY <1>0 DEF RoutesTyped, Kinds
  <2>6. CASE StartCollection(h)
    <3>1. Routed /\ count' \in [Hosts -> Nat]
      BY <2>5, <2>6 DEF StartCollection
    <3>2. CASE count[h] > 0 \/ told[h]
      <4>1. Answer(h, "ok") /\ told' = told /\ backlog' = backlog
        BY <2>6, <3>2 DEF StartCollection
      <4>. QED
        BY <2>3, <2>5, <3>1, <4>1
    <3>3. CASE ~(count[h] > 0 \/ told[h])
      <4>1. CallCollectors(h, "start", TRUE)
        BY <2>6, <3>3 DEF StartCollection
      <4>. QED
        BY <2>4, <2>5, <3>1, <4>1
    <3>. QED
      BY <3>2, <3>3
  <2>7. CASE StopCollection(h)
    <3>1. Routed /\ count' \in [Hosts -> Nat]
      BY <2>5, <2>7 DEF StopCollection
    <3>2. CASE count[h] = 1 /\ told[h]
      <4>1. CallCollectors(h, "stop", FALSE)
        BY <2>7, <3>2 DEF StopCollection
      <4>. QED
        BY <2>4, <2>5, <3>1, <4>1
    <3>3. CASE ~(count[h] = 1 /\ told[h])
      <4>1. Answer(h, IF count[h] = 1 THEN "error" ELSE "ok") /\ told' = told /\ backlog' = backlog
        BY <2>7, <3>3 DEF StopCollection
      <4>2. PICK outcome \in {"ok", "error"} : Answer(h, outcome)
        BY <4>1
      <4>. QED
        BY <2>3, <2>5, <3>1, <4>1, <4>2
    <3>. QED
      BY <3>2, <3>3
  <2>8. CASE TriggerCollection(h)
    BY <2>3, <2>5, <2>8 DEF TriggerCollection
  <2>9. CASE GetRoute(h)
    BY <2>3, <2>5, <2>9 DEF GetRoute
  <2>10. CASE ClearCollection(h)
    BY <2>4, <2>5, <2>10 DEF ClearCollection
  <2>11. CASE Posted(h)
    <3>1. Routed /\ Answer(h, post[h]) /\ count' = count /\ backlog' = backlog
          /\ post[h] \in {"ok", "error"} /\ told' \in [Hosts -> BOOLEAN]
      BY <2>5, <2>11 DEF Posted
    <3>2. PICK outcome \in {"ok", "error"} : Answer(h, outcome)
      BY <3>1
    <3>. QED
      BY <2>3, <2>5, <3>1, <3>2
  <2>. QED
    BY <1>3, <2>1, <2>2, <2>6, <2>7, <2>8, <2>9, <2>10, <2>11 DEF ServerStep
<1>. QED
  BY <1>1, <1>2, <1>3 DEF RoutesNext

-----------------------------------------------------------------------------
(* The parts side by side. *)

ServiceInv ==
    /\ RegistryInv /\ ConstructedOnce
    /\ StorageInv /\ HubInv
    /\ LockInv /\ DataTyped
    /\ RoutesInv /\ ExchangeInv

LEMMA ServiceInitially == ServiceInit => ServiceInv
BY InitEstablishes, ConstructedInitially, StorageInitially, HubInitially, LockInit, DataInitially,
   RoutesInitially, ExchangeInitially DEF ServiceInit, ServiceInv

\* A step of one part, and of no other.
LEMMA EachSteps ==
    ASSUME [ServiceNext]_service_vars
    PROVE  /\ [RegistryNext]_id_vars /\ [StorageNext]_storage_vars /\ [HubNext]_hub_vars
           /\ [OfflineNext]_run_vars /\ [RoutesNext]_routes_vars
           /\ [ExchangeNext]_exchange_vars
<1>1. CASE UNCHANGED service_vars
  BY <1>1 DEF service_vars
<1>2. CASE others("ids") /\ RegistryNext
  BY <1>2 DEF others
<1>3. CASE others("storage") /\ StorageNext
  BY <1>3 DEF others
<1>4. CASE others("hub") /\ HubNext
  BY <1>4 DEF others
<1>5. CASE others("run") /\ OfflineNext
  BY <1>5 DEF others
<1>6. CASE others("routes") /\ RoutesNext
  BY <1>6 DEF others
<1>7. CASE others("exchange") /\ ExchangeNext
  BY <1>7 DEF others
<1>. QED
  BY <1>1, <1>2, <1>3, <1>4, <1>5, <1>6, <1>7 DEF ServiceNext

LEMMA ServiceStep == ServiceInv /\ [ServiceNext]_service_vars => ServiceInv'
<1>. SUFFICES ASSUME ServiceInv, [ServiceNext]_service_vars PROVE ServiceInv'
  OBVIOUS
<1>1. RegistryInv' /\ ConstructedOnce'
  BY EachSteps, RegistryStep, ConstructedStep DEF ServiceInv
<1>2. StorageInv' /\ HubInv'
  BY EachSteps, StorageStep, HubStep DEF ServiceInv
<1>3. LockInv' /\ DataTyped' /\ RoutesInv'
  BY EachSteps, LockStep, DataStep, RoutesStep DEF ServiceInv
<1>4. ExchangeInv'
  BY EachSteps, ExchangeStep DEF ServiceInv
<1>. QED
  BY <1>1, <1>2, <1>3, <1>4 DEF ServiceInv

\* Every variable of the registry, the storage, the hub, the offline runs, the
\* routes and the exchange of graphs has its type: for any number of threads,
\* files, subscribers, processes and hosts, no more managers are made than there
\* are threads, no index leaves the files, and no client is answered that has
\* not asked.
THEOREM ServiceTypeCorrect == ServiceSpec => []ServiceTypeOK
<1>1. ServiceInv => ServiceTypeOK
  BY RegistryTypes, RunTypes, RoutesTypes, ExchangeTypes
     DEF ServiceInv, ServiceTypeOK, StorageInv, StorageTyped, HubInv, HubTyped
<1>. QED
  BY <1>1, ServiceInitially, ServiceStep, PTL DEF ServiceSpec

\* An entity stays the one it is, for any number of objects, ids, threads and
\* hosts: while the threads of a host set its attributes and ask for it by its
\* id, and on its way through the graphs of other hosts.
THEOREM EntitiesStayThemselves == ServiceSpec => []EntitiesKept
<1>1. ServiceInv => EntitiesKept
  BY RegistryIdentity, ExchangeOrigin DEF ServiceInv, EntitiesKept
<1>. QED
  BY <1>1, ServiceInitially, ServiceStep, PTL DEF ServiceSpec
====
