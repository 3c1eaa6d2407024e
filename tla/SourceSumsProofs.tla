--------------------------- MODULE SourceSumsProofs ---------------------------
(***************************************************************************)
(* What the sources of the graph add up, for any number of CPUs, keys and    *)
(* processes: the counts of the eBPF programs while their maps are swapped,  *)
(* the parents and ancestors of the processes of a round, and what is        *)
(* computed of any machine and process: ranges, placement, threads, nodes,   *)
(* dies and distances.                                                       *)
(***************************************************************************)
EXTENDS SwappedMaps, CommonParent, HccsBandwidth, NumaTopology, SumLaws, SequenceTheorems

(* The maps of statistics. *)

MapPlaces == {0, 1} \X Slots
MapElements == {e \in [key : MapKeys \cup {NoKey}, count : [Cpus -> Nat]] : e.key = NoKey => e = Free}
MapHandlers == [at : {"idle", "lookup", "again", "insert", "add"}, key : MapKeys \cup {NoKey},
                map : {0, 1}, slot : Slots \cup {0}, late : BOOLEAN]
MapReaders == [at : {"attached", "sleeping", "reading", "deleting", "clearing", "drops", "ended"},
               map : {0, 1}, slot : Slots \cup {0}, left : Nat]
TwoMaps == [{0, 1} -> [Slots -> MapElements]]
KeyCounts == [MapKeys -> Nat]

MapsShape ==
    /\ tool \in Programs /\ take \in {"batch", "passes", "each"} /\ active \in {0, 1}
    /\ elems \in TwoMaps /\ drops \in Nat
    /\ handler \in [Cpus -> MapHandlers] /\ reader \in MapReaders
    /\ seen \in SUBSET Slots /\ must \in SUBSET Slots
    /\ rows \in KeyCounts /\ hits \in KeyCounts /\ refused \in KeyCounts
    /\ straddled \in Nat /\ reported \in Nat

\* A key has one element in each map.
OneOfKey == \A m \in {0, 1}, r, s \in Slots :
    elems[m][r].key = elems[m][s].key /\ elems[m][r].key # NoKey => r = s

\* Where a handler is.  One whose map was not made the one to read works in the
\* active map, in which no element is deleted; and one that found no element has
\* added nothing to those made since.
HandlerSees(h, E, a, own, c) ==
    /\ h.at = "idle" => h = Idle
    /\ h.at # "idle" => h.key \in MapKeys
    /\ h.at = "add" => h.slot \in Slots
    /\ h.at = "insert" /\ own =>
         \A s \in Slots : E[h.map][s].key = h.key => E[h.map][s].count[c] = 0
    /\ h.at # "idle" /\ ~h.late =>
         /\ h.map = a
         /\ h.at = "again" => \E s \in Slots : E[a][s].key = h.key
         /\ h.at = "add" => E[a][h.slot].key = h.key
InsertsOwn == HandlerOf[tool].insert = "own"

HandlersKnow == \A c \in Cpus : HandlerSees(handler[c], elems, active, InsertsOwn, c)

\* Where the reader is: never in the active map.
ReaderKnows ==
    /\ reader.at \in {"reading", "deleting", "clearing"} => reader.map = 1 - active
    /\ reader.at = "deleting" => take = "each" /\ reader.slot \in seen
    /\ reader.at = "clearing" => take = "passes"

DropsKnown ==
    /\ reported <= SumFunction(refused)
    /\ reader.at # "drops" => reported + drops <= SumFunction(refused)

\* The elements whose counts will be emitted whatever happens, and those whose
\* counts may yet be.
SureOf(rd, sn, ms, tk) == {p \in MapPlaces : p[1] = rd.map =>
    /\ rd.at = "reading" => p[2] \notin sn /\ (tk = "passes" => p[2] \in ms)
    /\ rd.at = "deleting" => p[2] \notin sn
    /\ rd.at # "clearing"}
LikelyOf(rd, sn, ms, tk) == {p \in MapPlaces : p[1] = rd.map =>
    /\ rd.at = "reading" /\ tk = "passes" => p[2] \notin sn
    /\ rd.at = "deleting" => p[2] # rd.slot
    /\ rd.at = "clearing" => p[2] \notin sn \cap ms}

\* The hits of each key that are accounted for, if the counts of the elements in
\* the places T of the maps E are.
Weights(E, T, k) == [p \in MapPlaces |->
    IF p \in T /\ E[p[1]][p[2]].key = k THEN CountIn(E[p[1]][p[2]]) ELSE 0]
InPlaces(E, T, k) == SumFunction(Weights(E, T, k))
HandlersOf(H, k) == {c \in Cpus : H[c].at # "idle" /\ H[c].key = k}
Underway(H, k) == Cardinality(HandlersOf(H, k))
Account(E, T, H, R, F) ==
    [k \in MapKeys |-> R[k] + InPlaces(E, T, k) + Underway(H, k) + F[k]]

\* What is sure is not much less than what was hit, and what is likely not
\* much more, but for the misses of the handlers that were too late.
Bounded(S, L, h, misses) ==
    /\ misses \in Nat
    /\ S \in KeyCounts /\ L \in KeyCounts /\ h \in KeyCounts
    /\ \A k \in MapKeys : h[k] <= S[k] + misses /\ L[k] <= h[k] + misses
    /\ SumFunction(L) <= SumFunction(h) /\ SumFunction(h) <= SumFunction(S) + misses

LateOnes(H) == {c \in Cpus : H[c].late}
LateCount(H) == Cardinality(LateOnes(H))
Sure == Account(elems, SureOf(reader, seen, must, take), handler, rows, refused)
Likely == Account(elems, LikelyOf(reader, seen, must, take), handler, rows, refused)
CountsBounded == Bounded(Sure, Likely, hits, straddled - LateCount(handler))

MapsInv == MapsShape /\ OneOfKey /\ HandlersKnow /\ ReaderKnows /\ DropsKnown /\ CountsBounded
-----------------------------------------------------------------------------
LEMMA MapsFinite ==
    /\ IsFiniteSet(Slots) /\ IsFiniteSet(MapKeys) /\ IsFiniteSet(MapPlaces) /\ IsFiniteSet(Cpus)
<1>1. IsFiniteSet(Slots)
  BY FS_Interval, MapsAssumption DEF Slots
<1>2. IsFiniteSet({0, 1}) /\ IsFiniteSet({"any"})
  <2>1. IsFiniteSet({0}) /\ IsFiniteSet({1}) /\ IsFiniteSet({"any"})
    BY FS_Singleton
  <2>2. {0, 1} = {0} \cup {1}
    OBVIOUS
  <2>. QED
    BY <2>1, <2>2, FS_Union
<1>3. IsFiniteSet(Cpus \cup {"any"}) /\ IsFiniteSet(Cpus)
  BY <1>2, MapsAssumption, FS_Union
<1>4. IsFiniteSet(MapKeys)
  BY <1>3, MapsAssumption, FS_Product DEF MapKeys
<1>5. IsFiniteSet(MapPlaces)
  BY <1>1, <1>2, FS_Product DEF MapPlaces
<1>. QED
  BY <1>1, <1>3, <1>4, <1>5

LEMMA NoKeyIsNone == NoKey \notin MapKeys
BY DEF NoKey, MapKeys

\* Counts of elements.
LEMMA CountTyped == ASSUME NEW e \in MapElements PROVE CountIn(e) \in Nat
<1>1. e.count \in [Cpus -> Nat]
  BY DEF MapElements
<1>. QED
  BY <1>1, MapsFinite, SumTyped DEF CountIn

LEMMA CountWith ==
    ASSUME NEW e \in MapElements, NEW c \in Cpus, NEW n \in Nat, e.key # NoKey
    PROVE  /\ With(e, c, n) \in MapElements /\ With(e, c, n).key = e.key
           /\ With(e, c, n).count[c] = n
           /\ \A d \in Cpus \ {c} : With(e, c, n).count[d] = e.count[d]
           /\ e.count[c] \in Nat
           /\ CountIn(With(e, c, n)) + e.count[c] = CountIn(e) + n
<1>. DEFINE w == With(e, c, n)
<1>1. e.count \in [Cpus -> Nat] /\ e \in [key : MapKeys \cup {NoKey}, count : [Cpus -> Nat]]
  BY DEF MapElements
<1>2. w.key = e.key /\ w.count = [e.count EXCEPT ![c] = n]
  BY <1>1 DEF With
<1>3. w.count \in [Cpus -> Nat] /\ w.count[c] = n /\ \A d \in Cpus \ {c} : w.count[d] = e.count[d]
  BY <1>1, <1>2
<1>4. w \in [key : MapKeys \cup {NoKey}, count : [Cpus -> Nat]]
  BY <1>1 DEF With
<1>5. w \in MapElements
  BY <1>2, <1>4 DEF MapElements
<1>6. CountIn(w) + e.count[c] = CountIn(e) + w.count[c]
  <2>. HIDE DEF w
  <2>. QED
    BY <1>1, <1>3, MapsFinite, SumUpdate DEF CountIn
<1>. QED
  BY <1>1, <1>2, <1>3, <1>5, <1>6

LEMMA FreeCounts ==
    /\ Free \in MapElements /\ Free.key = NoKey /\ CountIn(Free) = 0
    /\ \A e \in MapElements : e.key = NoKey <=> e = Free
<1>1. Free.count \in [Cpus -> Nat] /\ Free.key = NoKey /\ \A c \in Cpus : Free.count[c] = 0
  BY DEF Free
<1>2. Free \in MapElements
  BY DEF MapElements, Free
<1>3. CountIn(Free) = 0
  BY <1>1, MapsFinite, SumOfNothing DEF CountIn
<1>. QED
  BY <1>1, <1>2, <1>3 DEF MapElements

NewElement(k, c, n) == [key |-> k, count |-> [Free.count EXCEPT ![c] = n]]

LEMMA NewCounts ==
    ASSUME NEW k \in MapKeys, NEW c \in Cpus, NEW n \in {0, 1}
    PROVE  /\ NewElement(k, c, n) \in MapElements /\ NewElement(k, c, n).key = k
           /\ CountIn(NewElement(k, c, n)) = n /\ \A d \in Cpus \ {c} : NewElement(k, c, n).count[d] = 0
<1>. DEFINE e == [key |-> k, count |-> [Free.count EXCEPT ![c] = n]]
<1>0. e = NewElement(k, c, n)
  BY DEF NewElement
<1>1. Free.count \in [Cpus -> Nat] /\ \A d \in Cpus : Free.count[d] = 0
  BY DEF Free
<1>2. e.count \in [Cpus -> Nat] /\ e.key = k /\ e.count[c] = n /\ \A d \in Cpus \ {c} : e.count[d] = 0
  BY <1>1
<1>3. e \in MapElements
  BY <1>1, NoKeyIsNone DEF MapElements
<1>4. CountIn(e) + Free.count[c] = SumFunction(Free.count) + e.count[c]
  <2>1. \A d \in Cpus \ {c} : Free.count[d] = e.count[d]
    BY <1>1, <1>2
  <2>. HIDE DEF e
  <2>. QED
    BY <1>1, <1>2, <2>1, MapsFinite, SumUpdate DEF CountIn
<1>5. SumFunction(Free.count) = 0
  BY FreeCounts DEF CountIn
<1>6. CountIn(e) = n
  <2>1. CountIn(e) \in Nat
    BY <1>3, CountTyped
  <2>. HIDE DEF e
  <2>. QED
    BY <1>1, <1>2, <1>4, <1>5, <2>1
<1>. QED
  BY <1>0, <1>2, <1>3, <1>6
-----------------------------------------------------------------------------
LEMMA WeightsTyped ==
    ASSUME NEW E \in TwoMaps, NEW T, NEW k
    PROVE  /\ Weights(E, T, k) \in [MapPlaces -> Nat]
           /\ \A p \in MapPlaces : E[p[1]][p[2]] \in MapElements
           /\ InPlaces(E, T, k) \in Nat
<1>1. \A p \in MapPlaces : E[p[1]][p[2]] \in MapElements
  <2>1. \A p \in MapPlaces : p[1] \in {0, 1} /\ p[2] \in Slots
    BY DEF MapPlaces
  <2>. QED
    BY <2>1 DEF TwoMaps
<1>2. \A p \in MapPlaces : CountIn(E[p[1]][p[2]]) \in Nat
  BY <1>1, CountTyped
<1>3. Weights(E, T, k) \in [MapPlaces -> Nat]
  BY <1>2 DEF Weights
<1>. QED
  BY <1>1, <1>3, MapsFinite, SumTyped DEF InPlaces

LEMMA PlacesGrow ==
    ASSUME NEW E \in TwoMaps, NEW T, NEW E2 \in TwoMaps, NEW T2, NEW k,
           \A p \in MapPlaces : Weights(E, T, k)[p] <= Weights(E2, T2, k)[p]
    PROVE  InPlaces(E, T, k) <= InPlaces(E2, T2, k)
BY WeightsTyped, MapsFinite, SumGrows DEF InPlaces

\* One place changes.
LEMMA PlaceChanges ==
    ASSUME NEW E \in TwoMaps, NEW T, NEW E2 \in TwoMaps, NEW T2, NEW k, NEW p \in MapPlaces,
           \A q \in MapPlaces \ {p} : Weights(E, T, k)[q] = Weights(E2, T2, k)[q]
    PROVE  InPlaces(E2, T2, k) + Weights(E, T, k)[p] = InPlaces(E, T, k) + Weights(E2, T2, k)[p]
BY WeightsTyped, MapsFinite, SumUpdate DEF InPlaces

\* Element p of the map has one count more, of key k, or none.
Raised(E, E2, p, k, n) ==
    /\ \A q \in MapPlaces \ {p} : E2[q[1]][q[2]] = E[q[1]][q[2]]
    /\ E2[p[1]][p[2]].key = k
    /\ \/ E[p[1]][p[2]].key = k /\ CountIn(E2[p[1]][p[2]]) = CountIn(E[p[1]][p[2]]) + n
       \/ E[p[1]][p[2]].key = NoKey /\ CountIn(E2[p[1]][p[2]]) = n

LEMMA RaisedPlaces ==
    ASSUME NEW E \in TwoMaps, NEW T, NEW E2 \in TwoMaps, NEW k \in MapKeys, NEW p \in MapPlaces, NEW n \in Nat,
           Raised(E, E2, p, k, n), NEW r \in MapKeys
    PROVE  InPlaces(E2, T, r) = InPlaces(E, T, r) + (IF r = k /\ p \in T THEN n ELSE 0)
<1>1. \A q \in MapPlaces \ {p} : Weights(E, T, r)[q] = Weights(E2, T, r)[q]
  BY DEF Weights, Raised
<1>2. InPlaces(E2, T, r) + Weights(E, T, r)[p] = InPlaces(E, T, r) + Weights(E2, T, r)[p]
  BY <1>1, PlaceChanges
<1>3. /\ Weights(E, T, r)[p] = IF p \in T /\ E[p[1]][p[2]].key = r THEN CountIn(E[p[1]][p[2]]) ELSE 0
      /\ Weights(E2, T, r)[p] = IF p \in T /\ E2[p[1]][p[2]].key = r THEN CountIn(E2[p[1]][p[2]]) ELSE 0
  BY DEF Weights
<1>4. CountIn(E[p[1]][p[2]]) \in Nat
  BY WeightsTyped, CountTyped
<1>5. Weights(E2, T, r)[p] = Weights(E, T, r)[p] + (IF r = k /\ p \in T THEN n ELSE 0)
  BY <1>3, <1>4, NoKeyIsNone DEF Raised
<1>6. InPlaces(E, T, r) \in Nat /\ InPlaces(E2, T, r) \in Nat /\ Weights(E, T, r)[p] \in Nat
  BY WeightsTyped
<1>. QED
  BY <1>2, <1>5, <1>6

\* The handlers with a hit of a key.
LEMMA HandlersCounted ==
    ASSUME NEW H, NEW k
    PROVE  Underway(H, k) \in Nat /\ IsFiniteSet(HandlersOf(H, k))
BY MapsFinite, FS_Subset, FS_CardinalityType DEF HandlersOf, Underway

LEMMA HandlerStays ==
    ASSUME NEW H, NEW G, NEW k,
           \A c \in Cpus : (H[c].at # "idle" /\ H[c].key = k) <=> (G[c].at # "idle" /\ G[c].key = k)
    PROVE  Underway(G, k) = Underway(H, k)
<1>1. HandlersOf(G, k) = HandlersOf(H, k)
  BY DEF HandlersOf
<1>. QED
  BY <1>1 DEF Underway

LEMMA HandlerEnds ==
    ASSUME NEW H, NEW G, NEW c \in Cpus, NEW r, \A d \in Cpus \ {c} : G[d] = H[d],
           H[c].at # "idle", G[c].at = "idle"
    PROVE  Underway(H, r) = Underway(G, r) + (IF r = H[c].key THEN 1 ELSE 0)
<1>1. CASE r = H[c].key
  <2>1. HandlersOf(G, r) = HandlersOf(H, r) \ {c} /\ c \in HandlersOf(H, r)
    BY <1>1 DEF HandlersOf, Underway
  <2>2. Underway(G, r) = Underway(H, r) - 1
    BY <2>1, HandlersCounted, FS_RemoveElement DEF Underway
  <2>. QED
    BY <1>1, <2>2, HandlersCounted
<1>2. CASE r # H[c].key
  <2>1. HandlersOf(G, r) = HandlersOf(H, r)
    BY <1>2 DEF HandlersOf, Underway
  <2>. QED
    BY <1>2, <2>1, HandlersCounted DEF Underway
<1>. QED
  BY <1>1, <1>2

LEMMA LateCounted ==
    ASSUME NEW H
    PROVE  LateCount(H) \in Nat /\ IsFiniteSet(LateOnes(H))
BY MapsFinite, FS_Subset, FS_CardinalityType DEF LateOnes, LateCount

LEMMA LateStays ==
    ASSUME NEW H, NEW G, \A c \in Cpus : H[c].late <=> G[c].late
    PROVE  LateCount(G) = LateCount(H)
<1>1. LateOnes(G) = LateOnes(H)
  BY DEF LateOnes
<1>. QED
  BY <1>1 DEF LateCount

LEMMA LateEnds ==
    ASSUME NEW H, NEW G, NEW c \in Cpus, \A d \in Cpus \ {c} : G[d] = H[d], H[c].late, ~G[c].late
    PROVE  LateCount(G) = LateCount(H) - 1
<1>1. LateOnes(G) = LateOnes(H) \ {c} /\ c \in LateOnes(H)
  BY DEF LateOnes, LateCount
<1>. QED
  BY <1>1, LateCounted, FS_RemoveElement DEF LateCount

LEMMA AccountTyped ==
    ASSUME NEW E \in TwoMaps, NEW T, NEW H, NEW R \in KeyCounts, NEW F \in KeyCounts
    PROVE  /\ Account(E, T, H, R, F) \in KeyCounts
           /\ \A k \in MapKeys : /\ Account(E, T, H, R, F)[k] =
                                      R[k] + InPlaces(E, T, k) + Underway(H, k) + F[k]
                                 /\ R[k] \in Nat /\ InPlaces(E, T, k) \in Nat /\ F[k] \in Nat
                                 /\ Underway(H, k) \in Nat
<1>1. \A k \in MapKeys : /\ R[k] \in Nat /\ InPlaces(E, T, k) \in Nat /\ F[k] \in Nat
                         /\ Underway(H, k) \in Nat
  BY WeightsTyped, HandlersCounted DEF KeyCounts
<1>2. \A k \in MapKeys : R[k] + InPlaces(E, T, k) + Underway(H, k) + F[k] \in Nat
  BY <1>1
<1>. QED
  BY <1>1, <1>2 DEF Account, KeyCounts
-----------------------------------------------------------------------------
(* What the steps do to the bounds. *)

LEMMA BoundsHold ==
    ASSUME NEW S, NEW L, NEW h, NEW u, Bounded(S, L, h, u), NEW S2 \in KeyCounts, NEW L2 \in KeyCounts,
           \A k \in MapKeys : S[k] <= S2[k] /\ L2[k] <= L[k]
    PROVE  Bounded(S2, L2, h, u)
<1>1. S \in [MapKeys -> Nat] /\ L \in [MapKeys -> Nat] /\ h \in [MapKeys -> Nat] /\ u \in Nat
  BY DEF Bounded, KeyCounts
<1>2. SumFunction(S) <= SumFunction(S2) /\ SumFunction(L2) <= SumFunction(L)
  BY <1>1, MapsFinite, SumGrows DEF KeyCounts
<1>3. /\ SumFunction(S) \in Nat /\ SumFunction(S2) \in Nat /\ SumFunction(L) \in Nat
      /\ SumFunction(L2) \in Nat /\ SumFunction(h) \in Nat
  BY <1>1, MapsFinite, SumTyped DEF KeyCounts
<1>4. \A k \in MapKeys : S[k] \in Nat /\ L[k] \in Nat /\ h[k] \in Nat /\ S2[k] \in Nat /\ L2[k] \in Nat
  BY <1>1 DEF KeyCounts
<1>5. \A k \in MapKeys : h[k] <= S2[k] + u /\ L2[k] <= h[k] + u
  BY <1>1, <1>4 DEF Bounded
<1>6. SumFunction(L2) <= SumFunction(h) /\ SumFunction(h) <= SumFunction(S2) + u
  BY <1>1, <1>2, <1>3 DEF Bounded
<1>. QED
  BY <1>1, <1>5, <1>6 DEF Bounded, KeyCounts

LEMMA BoundsOfHit ==
    ASSUME NEW S, NEW L, NEW h, NEW u, Bounded(S, L, h, u), NEW S2 \in KeyCounts, NEW L2 \in KeyCounts,
           NEW h2 \in KeyCounts, NEW k \in MapKeys, S2[k] = S[k] + 1, L2[k] = L[k] + 1, h2[k] = h[k] + 1,
           \A r \in MapKeys \ {k} : S[r] = S2[r] /\ L[r] = L2[r] /\ h[r] = h2[r]
    PROVE  Bounded(S2, L2, h2, u)
<1>1. S \in [MapKeys -> Nat] /\ L \in [MapKeys -> Nat] /\ h \in [MapKeys -> Nat] /\ u \in Nat
  BY DEF Bounded, KeyCounts
<1>2. /\ S2 \in [MapKeys -> Nat] /\ L2 \in [MapKeys -> Nat] /\ h2 \in [MapKeys -> Nat]
  BY DEF KeyCounts
<1>3. /\ SumFunction(S2) + S[k] = SumFunction(S) + S2[k]
      /\ SumFunction(L2) + L[k] = SumFunction(L) + L2[k]
      /\ SumFunction(h2) + h[k] = SumFunction(h) + h2[k]
  BY <1>1, <1>2, MapsFinite, SumUpdate
<1>4. /\ SumFunction(S) \in Nat /\ SumFunction(S2) \in Nat /\ SumFunction(L) \in Nat
      /\ SumFunction(L2) \in Nat /\ SumFunction(h) \in Nat /\ SumFunction(h2) \in Nat
  BY <1>1, <1>2, MapsFinite, SumTyped
<1>5. \A r \in MapKeys : S[r] \in Nat /\ L[r] \in Nat /\ h[r] \in Nat
  BY <1>1
<1>6. \A r \in MapKeys : h2[r] <= S2[r] + u /\ L2[r] <= h2[r] + u
  BY <1>1, <1>5 DEF Bounded
<1>7. SumFunction(L2) <= SumFunction(h2) /\ SumFunction(h2) <= SumFunction(S2) + u
  BY <1>1, <1>3, <1>4, <1>5 DEF Bounded
<1>. QED
  BY <1>1, <1>2, <1>6, <1>7 DEF Bounded, KeyCounts

\* One handler too late: its hit of k is lost, or counted as one of q.
LEMMA BoundsOfMiss ==
    ASSUME NEW S, NEW L, NEW h, NEW u, Bounded(S, L, h, u), NEW S2 \in KeyCounts, NEW L2 \in KeyCounts,
           NEW k \in MapKeys, S[k] >= 1, L[k] >= 1, NEW q \in MapKeys,
           \A r \in MapKeys : /\ S2[r] >= S[r] - (IF r = k THEN 1 ELSE 0)
                              /\ L2[r] <= L[r] - (IF r = k THEN 1 ELSE 0) + (IF r = q THEN 1 ELSE 0)
    PROVE  Bounded(S2, L2, h, u + 1)
<1>1. S \in [MapKeys -> Nat] /\ L \in [MapKeys -> Nat] /\ h \in [MapKeys -> Nat] /\ u \in Nat
  BY DEF Bounded, KeyCounts
<1>2. /\ S2 \in [MapKeys -> Nat] /\ L2 \in [MapKeys -> Nat]
  BY DEF KeyCounts
<1>3. SumFunction(S2) >= SumFunction(S) - 1
  BY <1>1, <1>2, MapsFinite, SumOfLoss
<1>4. SumFunction(L2) <= SumFunction(L)
  BY <1>1, <1>2, MapsFinite, SumOfMove
<1>5. /\ SumFunction(S) \in Nat /\ SumFunction(S2) \in Nat /\ SumFunction(L) \in Nat
      /\ SumFunction(L2) \in Nat /\ SumFunction(h) \in Nat
  BY <1>1, <1>2, MapsFinite, SumTyped
<1>6. \A r \in MapKeys : /\ S[r] \in Nat /\ L[r] \in Nat /\ h[r] \in Nat /\ S2[r] \in Nat /\ L2[r] \in Nat
                         /\ h[r] <= S[r] + u /\ L[r] <= h[r] + u
  BY <1>1, <1>2 DEF Bounded
<1>7. \A r \in MapKeys : h[r] <= S2[r] + (u + 1) /\ L2[r] <= h[r] + (u + 1)
  BY <1>1, <1>6
<1>8. SumFunction(L2) <= SumFunction(h) /\ SumFunction(h) <= SumFunction(S2) + (u + 1)
  BY <1>1, <1>3, <1>4, <1>5 DEF Bounded
<1>. QED
  BY <1>1, <1>2, <1>7, <1>8 DEF Bounded, KeyCounts
-----------------------------------------------------------------------------
LEMMA MapsInitEstablishes == ASSUME MapsInit PROVE MapsInv
<1>1. MapsShape
  <2>1. tool \in Programs /\ take \in {"batch", "passes", "each"}
    BY ProgramsAssumption DEF MapsInit, ReaderOf, SchedReader, CacheReader, PmuReader, SocketReader, UdsReader,
       PipeReader, PosixMqReader, SysvMsgReader, SysvSemReader
  <2>2. elems \in TwoMaps
    BY FreeCounts DEF MapsInit, TwoMaps
  <2>3. handler \in [Cpus -> MapHandlers]
    BY DEF MapsInit, MapHandlers, Idle
  <2>4. reader \in MapReaders
    BY MapsAssumption DEF MapsInit, MapReaders
  <2>5. rows \in KeyCounts /\ hits \in KeyCounts /\ refused \in KeyCounts
    BY DEF MapsInit, KeyCounts, Zero
  <2>. QED
    BY <2>1, <2>2, <2>3, <2>4, <2>5 DEF MapsInit, MapsShape
<1>2. OneOfKey
  BY FreeCounts DEF MapsInit, OneOfKey
<1>3. HandlersKnow
  BY DEF MapsInit, HandlersKnow, HandlerSees, Idle
<1>4. ReaderKnows
  BY DEF MapsInit, ReaderKnows
<1>5. SumFunction(Zero) = 0 /\ Zero \in KeyCounts /\ \A k \in MapKeys : Zero[k] = 0
  <2>1. Zero \in [MapKeys -> Nat] /\ \A k \in MapKeys : Zero[k] = 0
    BY DEF Zero
  <2>. QED
    BY <2>1, MapsFinite, SumOfNothing DEF KeyCounts
<1>6. DropsKnown
  BY <1>5 DEF MapsInit, DropsKnown
<1>7. CountsBounded
  <2>1. LateCount(handler) = 0
    <3>1. LateOnes(handler) = {}
      BY DEF MapsInit, LateOnes, Idle
    <3>. QED
      BY <3>1, FS_EmptySet DEF LateCount
  <2>2. ASSUME NEW T, NEW k \in MapKeys PROVE Account(elems, T, handler, rows, refused)[k] = 0
    <3>1. InPlaces(elems, T, k) = 0
      <4>1. \A p \in MapPlaces : Weights(elems, T, k)[p] = 0
        <5>1. \A p \in MapPlaces : p[1] \in {0, 1} /\ p[2] \in Slots
          BY DEF MapPlaces
        <5>2. \A p \in MapPlaces : elems[p[1]][p[2]] = Free
          BY <5>1 DEF MapsInit
        <5>. QED
          BY <5>2, FreeCounts DEF Weights
      <4>. QED
        BY <1>1, <4>1, MapsFinite, WeightsTyped, SumOfNothing DEF InPlaces, MapsShape
    <3>2. Underway(handler, k) = 0
      <4>1. HandlersOf(handler, k) = {}
        BY DEF MapsInit, HandlersOf, Idle
      <4>. QED
        BY <4>1, FS_EmptySet DEF Underway
    <3>. QED
      BY <1>1, <1>5, <3>1, <3>2, AccountTyped DEF MapsInit, MapsShape
  <2>3. Sure \in KeyCounts /\ Likely \in KeyCounts
    BY <1>1, AccountTyped DEF Sure, Likely, MapsShape
  <2>4. \A k \in MapKeys : Sure[k] = 0 /\ Likely[k] = 0
    BY <2>2 DEF Sure, Likely
  <2>. HIDE DEF Sure, Likely
  <2>5. SumFunction(Sure) = 0 /\ SumFunction(Likely) = 0
    BY <2>3, <2>4, MapsFinite, SumOfNothing DEF KeyCounts
  <2>. QED
    BY <1>5, <2>1, <2>3, <2>4, <2>5 DEF MapsInit, CountsBounded, Bounded
<1>. QED
  BY <1>1, <1>2, <1>3, <1>4, <1>6, <1>7 DEF MapsInv

\* A handler is done.
HandlerDone(H, G, c) ==
    /\ c \in Cpus /\ \A d \in Cpus \ {c} : G[d] = H[d]
    /\ H[c].at # "idle" /\ G[c].at = "idle" /\ H[c].key \in MapKeys

\* What was A is B: one less of k, but for what the places T have more.
Shifted(A, B, E, E2, T, k) ==
    /\ B \in KeyCounts /\ A[k] >= 1
    /\ \A r \in MapKeys :
         /\ A[r] \in Nat /\ B[r] \in Nat /\ InPlaces(E, T, r) \in Nat /\ InPlaces(E2, T, r) \in Nat
         /\ B[r] + InPlaces(E, T, r) + (IF r = k THEN 1 ELSE 0) = A[r] + InPlaces(E2, T, r)

LEMMA AccountOfEnd ==
    ASSUME NEW E \in TwoMaps, NEW E2 \in TwoMaps, NEW T, NEW H, NEW G, NEW R \in KeyCounts,
           NEW F \in KeyCounts, NEW c, HandlerDone(H, G, c)
    PROVE  Shifted(Account(E, T, H, R, F), Account(E2, T, G, R, F), E, E2, T, H[c].key)
<1>. DEFINE A == Account(E, T, H, R, F)  B == Account(E2, T, G, R, F)  k == H[c].key
<1>1. B \in KeyCounts /\ k \in MapKeys
  BY AccountTyped DEF HandlerDone
<1>2. ASSUME NEW r \in MapKeys
      PROVE  /\ A[r] \in Nat /\ B[r] \in Nat /\ InPlaces(E, T, r) \in Nat /\ InPlaces(E2, T, r) \in Nat
             /\ B[r] + InPlaces(E, T, r) + (IF r = k THEN 1 ELSE 0) = A[r] + InPlaces(E2, T, r)
             /\ r = k => A[r] >= 1
  <2>. DEFINE gone == IF r = k THEN 1 ELSE 0
  <2>1. Underway(H, r) = Underway(G, r) + gone
    BY HandlerEnds DEF HandlerDone
  <2>2. /\ A[r] = R[r] + InPlaces(E, T, r) + Underway(H, r) + F[r]
        /\ R[r] \in Nat /\ InPlaces(E, T, r) \in Nat /\ F[r] \in Nat /\ Underway(H, r) \in Nat
    BY AccountTyped
  <2>3. /\ B[r] = R[r] + InPlaces(E2, T, r) + Underway(G, r) + F[r]
        /\ InPlaces(E2, T, r) \in Nat /\ Underway(G, r) \in Nat
    BY AccountTyped
  <2>4. gone \in {0, 1} /\ (r = k => gone = 1)
    OBVIOUS
  <2>. HIDE DEF gone, A, B, k
  <2>5. /\ B[r] + InPlaces(E, T, r) + gone = A[r] + InPlaces(E2, T, r)
        /\ r = k => A[r] >= 1
        /\ A[r] \in Nat /\ B[r] \in Nat
    BY <2>1, <2>2, <2>3, <2>4
  <2>. QED
    BY <2>2, <2>3, <2>5 DEF gone
<1>3. A[k] >= 1
  BY <1>1, <1>2
<1>. HIDE DEF A, B, k
<1>4. Shifted(A, B, E, E2, T, k)
  BY <1>1, <1>2, <1>3 DEF Shifted
<1>. QED
  BY <1>4 DEF A, B, k

\* It has added its hit to an element of its key that will be emitted.
LEMMA BoundsOfEnd ==
    ASSUME NEW E \in TwoMaps, NEW E2 \in TwoMaps, NEW T, NEW U, NEW H, NEW G, NEW R \in KeyCounts,
           NEW F \in KeyCounts, NEW c, HandlerDone(H, G, c),
           NEW h, NEW u, Bounded(Account(E, T, H, R, F), Account(E, U, H, R, F), h, u),
           NEW p \in MapPlaces, p \in T, p \in U, Raised(E, E2, p, H[c].key, 1)
    PROVE  Bounded(Account(E2, T, G, R, F), Account(E2, U, G, R, F), h, u)
<1>. DEFINE k == H[c].key
<1>0. k \in MapKeys
  BY DEF HandlerDone
<1>1. ASSUME NEW V, p \in V
      PROVE  /\ Account(E2, V, G, R, F) \in KeyCounts
             /\ \A r \in MapKeys : Account(E2, V, G, R, F)[r] = Account(E, V, H, R, F)[r]
                                   /\ Account(E, V, H, R, F)[r] \in Nat
  <2>. DEFINE A == Account(E, V, H, R, F)  B == Account(E2, V, G, R, F)
  <2>1. \A r \in MapKeys : InPlaces(E2, V, r) = InPlaces(E, V, r) + (IF r = k THEN 1 ELSE 0)
    <3>1. \A r \in MapKeys : InPlaces(E2, V, r) = InPlaces(E, V, r) + (IF r = k /\ p \in V THEN 1 ELSE 0)
      BY <1>0, RaisedPlaces
    <3>. QED
      BY <1>1, <3>1
  <2>2. Shifted(A, B, E, E2, V, k)
    BY AccountOfEnd
  <2>. HIDE DEF A, B, k
  <2>3. \A r \in MapKeys : B[r] = A[r] /\ A[r] \in Nat
    <3>. SUFFICES ASSUME NEW r \in MapKeys PROVE B[r] = A[r] /\ A[r] \in Nat
      OBVIOUS
    <3>. DEFINE one == IF r = k THEN 1 ELSE 0
    <3>1. InPlaces(E2, V, r) = InPlaces(E, V, r) + one /\ one \in {0, 1}
      BY <2>1
    <3>2. /\ A[r] \in Nat /\ B[r] \in Nat /\ InPlaces(E, V, r) \in Nat
          /\ B[r] + InPlaces(E, V, r) + one = A[r] + InPlaces(E2, V, r)
      BY <2>2 DEF Shifted
    <3>. HIDE DEF one
    <3>. QED
      BY <3>1, <3>2
  <2>. QED
    BY <2>2, <2>3 DEF Shifted, A, B
<1>. DEFINE S == Account(E, T, H, R, F)  L == Account(E, U, H, R, F)
            S2 == Account(E2, T, G, R, F)  L2 == Account(E2, U, G, R, F)
<1>2. S2 \in KeyCounts /\ L2 \in KeyCounts
      /\ \A r \in MapKeys : /\ S2[r] = S[r] /\ S[r] \in Nat
                            /\ L2[r] = L[r] /\ L[r] \in Nat
  BY <1>1
<1>3. Bounded(S, L, h, u)
  OBVIOUS
<1>. HIDE DEF S, L, S2, L2
<1>4. \A r \in MapKeys : S[r] <= S2[r] /\ L2[r] <= L[r]
  BY <1>2
<1>5. Bounded(S2, L2, h, u)
  BY <1>2, <1>3, <1>4, BoundsHold
<1>. QED
  BY <1>5 DEF S2, L2

\* At most one more in the places, of key q.
MoreBy(E, E2, T, U, q) == \A r \in MapKeys :
    /\ InPlaces(E, T, r) <= InPlaces(E2, T, r)
    /\ InPlaces(E2, U, r) <= InPlaces(E, U, r) + (IF r = q THEN 1 ELSE 0)

LEMMA GrownByNone == ASSUME NEW E \in TwoMaps, NEW T, NEW U, NEW q PROVE MoreBy(E, E, T, U, q)
<1>1. \A r \in MapKeys : InPlaces(E, T, r) \in Nat /\ InPlaces(E, U, r) \in Nat
  BY WeightsTyped
<1>. QED
  BY <1>1 DEF MoreBy

LEMMA GrownByOne ==
    ASSUME NEW E \in TwoMaps, NEW E2 \in TwoMaps, NEW T, NEW U, NEW p \in MapPlaces, NEW q \in MapKeys,
           Raised(E, E2, p, q, 1)
    PROVE  MoreBy(E, E2, T, U, q)
<1>1. ASSUME NEW r \in MapKeys
      PROVE  /\ InPlaces(E2, T, r) = InPlaces(E, T, r) + (IF r = q /\ p \in T THEN 1 ELSE 0)
             /\ InPlaces(E2, U, r) = InPlaces(E, U, r) + (IF r = q /\ p \in U THEN 1 ELSE 0)
  <2>1. InPlaces(E2, T, r) = InPlaces(E, T, r) + (IF r = q /\ p \in T THEN 1 ELSE 0)
    BY RaisedPlaces
  <2>2. InPlaces(E2, U, r) = InPlaces(E, U, r) + (IF r = q /\ p \in U THEN 1 ELSE 0)
    BY RaisedPlaces
  <2>. QED
    BY <2>1, <2>2
<1>2. \A r \in MapKeys : InPlaces(E, T, r) \in Nat /\ InPlaces(E, U, r) \in Nat
  BY WeightsTyped
<1>. QED
  BY <1>1, <1>2 DEF MoreBy

\* It was too late.
LEMMA BoundsOfLate ==
    ASSUME NEW E \in TwoMaps, NEW E2 \in TwoMaps, NEW T, NEW U, NEW H, NEW G, NEW R \in KeyCounts,
           NEW F \in KeyCounts, NEW c, HandlerDone(H, G, c),
           NEW h, NEW u, Bounded(Account(E, T, H, R, F), Account(E, U, H, R, F), h, u),
           NEW q \in MapKeys, MoreBy(E, E2, T, U, q)
    PROVE  Bounded(Account(E2, T, G, R, F), Account(E2, U, G, R, F), h, u + 1)
<1>. DEFINE k == H[c].key
            S == Account(E, T, H, R, F)  L == Account(E, U, H, R, F)
            S2 == Account(E2, T, G, R, F)  L2 == Account(E2, U, G, R, F)
<1>1. Shifted(S, S2, E, E2, T, k)
  BY AccountOfEnd
<1>2. Shifted(L, L2, E, E2, U, k)
  BY AccountOfEnd
<1>3. k \in MapKeys /\ Bounded(S, L, h, u)
  BY DEF HandlerDone
<1>. HIDE DEF k, S, L, S2, L2
<1>4. ASSUME NEW r \in MapKeys
      PROVE  /\ S2[r] >= S[r] - (IF r = k THEN 1 ELSE 0)
             /\ L2[r] <= L[r] - (IF r = k THEN 1 ELSE 0) + (IF r = q THEN 1 ELSE 0)
  <2>. DEFINE gone == IF r = k THEN 1 ELSE 0  come == IF r = q THEN 1 ELSE 0
  <2>1. /\ S[r] \in Nat /\ S2[r] \in Nat /\ InPlaces(E, T, r) \in Nat /\ InPlaces(E2, T, r) \in Nat
        /\ S2[r] + InPlaces(E, T, r) + gone = S[r] + InPlaces(E2, T, r)
    BY <1>1 DEF Shifted
  <2>2. /\ L[r] \in Nat /\ L2[r] \in Nat /\ InPlaces(E, U, r) \in Nat /\ InPlaces(E2, U, r) \in Nat
        /\ L2[r] + InPlaces(E, U, r) + gone = L[r] + InPlaces(E2, U, r)
    BY <1>2 DEF Shifted
  <2>3. gone \in {0, 1} /\ come \in {0, 1}
    OBVIOUS
  <2>4. InPlaces(E, T, r) <= InPlaces(E2, T, r) /\ InPlaces(E2, U, r) <= InPlaces(E, U, r) + come
    BY DEF MoreBy
  <2>. HIDE DEF gone, come
  <2>5. S2[r] >= S[r] - gone /\ L2[r] <= L[r] - gone + come
    BY <2>1, <2>2, <2>3, <2>4
  <2>. QED
    BY <2>5 DEF gone, come
<1>5. S2 \in KeyCounts /\ L2 \in KeyCounts /\ S[k] >= 1 /\ L[k] >= 1
  BY <1>1, <1>2 DEF Shifted
<1>6. Bounded(S2, L2, h, u + 1)
  BY <1>3, <1>4, <1>5, BoundsOfMiss
<1>. QED
  BY <1>6 DEF S2, L2
-----------------------------------------------------------------------------
(* The steps of the handlers. *)

\* What no handler changes but the elements and what is counted of its own.
HandlersOwn == UNCHANGED <<tool, take, active, reader, seen, must, rows, straddled, reported>>

SurePlaces == SureOf(reader, seen, must, take)
LikelyPlaces == LikelyOf(reader, seen, must, take)

LEMMA BoundsOfHandlers ==
    ASSUME HandlersOwn
    PROVE  /\ SurePlaces' = SurePlaces /\ LikelyPlaces' = LikelyPlaces
           /\ Sure = Account(elems, SurePlaces, handler, rows, refused)
           /\ Likely = Account(elems, LikelyPlaces, handler, rows, refused)
           /\ Sure' = Account(elems', SurePlaces, handler', rows, refused')
           /\ Likely' = Account(elems', LikelyPlaces, handler', rows, refused')
BY DEF HandlersOwn, SurePlaces, LikelyPlaces, Sure, Likely

\* The places of the active map.
LEMMA ActiveIsSure ==
    ASSUME MapsInv, NEW s \in Slots
    PROVE  <<active, s>> \in MapPlaces /\ <<active, s>> \in SurePlaces /\ <<active, s>> \in LikelyPlaces
<1>1. active \in {0, 1} /\ <<active, s>> \in MapPlaces
  BY DEF MapsInv, MapsShape, MapPlaces
<1>2. reader.at \in {"reading", "deleting", "clearing"} => reader.map # active
  BY <1>1 DEF MapsInv, ReaderKnows
<1>. QED
  BY <1>1, <1>2 DEF SurePlaces, LikelyPlaces, SureOf, LikelyOf

\* A handler is done: it has added its hit to an element p of key q, or to none.
LEMMA EndKeepsBounds ==
    ASSUME MapsInv, HandlersOwn, UNCHANGED <<hits, refused>>, elems' \in TwoMaps, NEW c \in Cpus,
           handler[c].at # "idle", handler' = [handler EXCEPT ![c] = Idle],
           \/ handler[c].late /\ elems' = elems
           \/ \E p \in MapPlaces, q \in MapKeys :
                /\ Raised(elems, elems', p, q, 1)
                /\ handler[c].late \/ (p[1] = active /\ q = handler[c].key)
    PROVE  CountsBounded'
<1>. DEFINE key == handler[c].key  u == straddled - LateCount(handler)
            S == Account(elems, SurePlaces, handler, rows, refused)
            L == Account(elems, LikelyPlaces, handler, rows, refused)
            S2 == Account(elems', SurePlaces, handler', rows, refused)
            L2 == Account(elems', LikelyPlaces, handler', rows, refused)
<1>1. /\ elems \in TwoMaps /\ rows \in KeyCounts /\ refused \in KeyCounts /\ key \in MapKeys
      /\ handler \in [Cpus -> MapHandlers] /\ straddled \in Nat
  BY DEF MapsInv, MapsShape, HandlersKnow, HandlerSees
<1>2. /\ \A d \in Cpus \ {c} : handler'[d] = handler[d]
      /\ handler'[c].at = "idle" /\ handler'[c].late = FALSE
  BY <1>1 DEF Idle
<1>3. HandlerDone(handler, handler', c)
  BY <1>1, <1>2 DEF HandlerDone
<1>4. Bounded(S, L, hits, u)
  BY BoundsOfHandlers DEF MapsInv, CountsBounded
<1>5. CountsBounded' <=> Bounded(S2, L2, hits, straddled - LateCount(handler'))
  BY BoundsOfHandlers DEF CountsBounded, HandlersOwn
<1>6. CASE ~handler[c].late
  <2>1. PICK p \in MapPlaces : Raised(elems, elems', p, key, 1) /\ p[1] = active
    BY <1>6
  <2>2. p \in SurePlaces /\ p \in LikelyPlaces
    <3>1. p = <<active, p[2]>> /\ p[2] \in Slots
      BY <2>1 DEF MapPlaces
    <3>. QED
      BY <3>1, ActiveIsSure
  <2>3. LateCount(handler') = LateCount(handler)
    <3>1. \A d \in Cpus : handler[d].late <=> handler'[d].late
      BY <1>2, <1>6
    <3>. QED
      BY <3>1, LateStays
  <2>4. Bounded(S2, L2, hits, u)
    <3>. HIDE DEF u
    <3>. QED
      BY <1>1, <1>3, <1>4, <2>1, <2>2, BoundsOfEnd
  <2>. QED
    BY <1>5, <2>3, <2>4
<1>7. CASE handler[c].late
  <2>1. LateCount(handler') = LateCount(handler) - 1
    BY <1>2, <1>7, LateEnds
  <2>2. \E q \in MapKeys : MoreBy(elems, elems', SurePlaces, LikelyPlaces, q)
    <3>1. CASE elems' = elems
      BY <1>1, <3>1, GrownByNone
    <3>2. CASE \E p \in MapPlaces, q \in MapKeys : Raised(elems, elems', p, q, 1)
      BY <1>1, <3>2, GrownByOne
    <3>. QED
      BY <3>1, <3>2
  <2>3. Bounded(S2, L2, hits, u + 1)
    <3>1. PICK q \in MapKeys : MoreBy(elems, elems', SurePlaces, LikelyPlaces, q)
      BY <2>2
    <3>. HIDE DEF u
    <3>. QED
      BY <1>1, <1>3, <1>4, <3>1, BoundsOfLate
  <2>4. u + 1 = straddled - LateCount(handler')
    BY <1>1, <2>1, LateCounted
  <2>. QED
    BY <1>5, <2>3, <2>4
<1>. QED
  BY <1>6, <1>7

\* Nothing is counted.
SameWeights(E, E2) == \A T : \A k \in MapKeys : InPlaces(E2, T, k) = InPlaces(E, T, k)
AsBusy(H, G) == \A c \in Cpus : (H[c].at = "idle" <=> G[c].at = "idle") /\ H[c].key = G[c].key

LEMMA SameAccount ==
    ASSUME NEW E \in TwoMaps, NEW E2 \in TwoMaps, NEW T, NEW H, NEW G, NEW R \in KeyCounts, NEW F \in KeyCounts,
           SameWeights(E, E2), AsBusy(H, G)
    PROVE  Account(E2, T, G, R, F) = Account(E, T, H, R, F)
<1>1. \A k \in MapKeys : Underway(G, k) = Underway(H, k)
  <2>1. TAKE k \in MapKeys
  <2>2. \A c \in Cpus : (H[c].at # "idle" /\ H[c].key = k) <=> (G[c].at # "idle" /\ G[c].key = k)
    BY DEF AsBusy
  <2>. QED
    BY <2>2, HandlerStays
<1>2. ASSUME NEW k \in MapKeys
      PROVE  R[k] + InPlaces(E2, T, k) + Underway(G, k) + F[k] = R[k] + InPlaces(E, T, k) + Underway(H, k) + F[k]
  <2>1. InPlaces(E2, T, k) = InPlaces(E, T, k) /\ Underway(G, k) = Underway(H, k)
    BY <1>1 DEF SameWeights
  <2>. QED
    BY <2>1
<1>. QED
  BY <1>2 DEF Account

LEMMA StayKeepsBounds ==
    ASSUME MapsInv, HandlersOwn, UNCHANGED <<hits, refused>>, elems' \in TwoMaps,
           SameWeights(elems, elems'), AsBusy(handler, handler'),
           \A c \in Cpus : handler[c].late = handler'[c].late
    PROVE  CountsBounded'
<1>1. elems \in TwoMaps /\ rows \in KeyCounts /\ refused \in KeyCounts
  BY DEF MapsInv, MapsShape
<1>2. LateCount(handler') = LateCount(handler)
  BY LateStays
<1>3. Account(elems', SurePlaces, handler', rows, refused) = Account(elems, SurePlaces, handler, rows, refused)
  BY <1>1, SameAccount
<1>4. Account(elems', LikelyPlaces, handler', rows, refused) = Account(elems, LikelyPlaces, handler, rows, refused)
  BY <1>1, SameAccount
<1>5. Sure' = Sure /\ Likely' = Likely
  BY <1>3, <1>4, BoundsOfHandlers
<1>. QED
  BY <1>2, <1>5 DEF MapsInv, CountsBounded, HandlersOwn

\* The rest of the invariant, when a handler has gone on.
LEMMA HandlersOthers ==
    ASSUME MapsInv, HandlersOwn, elems' \in TwoMaps, hits' \in KeyCounts, refused' \in KeyCounts, drops' \in Nat,
           NEW c \in Cpus, NEW g \in MapHandlers, handler' = [handler EXCEPT ![c] = g]
    PROVE  MapsShape' /\ ReaderKnows' /\ handler'[c] = g /\ \A d \in Cpus \ {c} : handler'[d] = handler[d]
<1>1. handler \in [Cpus -> MapHandlers]
  BY DEF MapsInv, MapsShape
<1>2. handler' \in [Cpus -> MapHandlers] /\ handler'[c] = g /\ \A d \in Cpus \ {c} : handler'[d] = handler[d]
  BY <1>1
<1>3. MapsShape'
  BY <1>2 DEF MapsInv, MapsShape, HandlersOwn
<1>4. ReaderKnows'
  BY DEF MapsInv, ReaderKnows, HandlersOwn
<1>. QED
  BY <1>2, <1>3, <1>4

LEMMA IdleTyped == Idle \in MapHandlers /\ Idle.at = "idle" /\ Idle.late = FALSE
                   /\ \A E, a, own, c : HandlerSees(Idle, E, a, own, c)
BY DEF Idle, MapHandlers, HandlerSees

LEMMA KeyTyped == ASSUME NEW c \in Cpus, NEW t \in Counted PROVE KeyOf(c, t) \in MapKeys
BY DEF KeyOf, MapKeys

LEMMA HitKeeps == ASSUME MapsInv, NEW c \in Cpus, Hit(c) PROVE MapsInv'
<1>1. PICK t \in Counted :
         /\ handler' = [handler EXCEPT ![c] = [Idle EXCEPT !.at = "lookup", !.key = KeyOf(c, t), !.map = active]]
         /\ hits' = [hits EXCEPT ![KeyOf(c, t)] = @ + 1]
  BY DEF Hit
<1>. DEFINE k == KeyOf(c, t)  g == [Idle EXCEPT !.at = "lookup", !.key = k, !.map = active]
<1>2. /\ HandlersOwn /\ elems' = elems /\ refused' = refused /\ drops' = drops /\ k \in MapKeys
      /\ handler[c].at = "idle"
  BY KeyTyped DEF Hit, HandlersOwn, fixed, readers_own
<1>3. /\ elems \in TwoMaps /\ hits \in KeyCounts /\ refused \in KeyCounts /\ drops \in Nat /\ active \in {0, 1}
      /\ handler \in [Cpus -> MapHandlers] /\ rows \in KeyCounts
  BY DEF MapsInv, MapsShape
<1>. HIDE DEF k
<1>4. g.at = "lookup" /\ g.key = k /\ g.map = active /\ g.slot = 0 /\ g.late = FALSE
  BY DEF Idle
<1>5. g \in MapHandlers
  BY <1>2, <1>3, IdleTyped DEF MapHandlers
<1>6. hits' \in KeyCounts /\ hits'[k] = hits[k] + 1 /\ \A r \in MapKeys \ {k} : hits'[r] = hits[r]
  BY <1>1, <1>2, <1>3 DEF KeyCounts, k
<1>7. handler' = [handler EXCEPT ![c] = g]
  BY <1>1 DEF k
<1>. HIDE DEF g
<1>8. MapsShape' /\ ReaderKnows' /\ handler'[c] = g /\ \A d \in Cpus \ {c} : handler'[d] = handler[d]
  BY <1>2, <1>3, <1>5, <1>6, <1>7, HandlersOthers
<1>9. OneOfKey'
  BY <1>2 DEF MapsInv, OneOfKey
<1>10. HandlersKnow'
  <2>1. HandlerSees(g, elems, active, InsertsOwn, c)
    BY <1>2, <1>4 DEF HandlerSees
  <2>2. \A d \in Cpus : HandlerSees(handler'[d], elems, active, InsertsOwn, d)
    BY <1>8, <2>1 DEF MapsInv, HandlersKnow
  <2>. QED
    BY <1>2, <2>2 DEF HandlersKnow, HandlersOwn, InsertsOwn
<1>11. DropsKnown'
  BY <1>2 DEF MapsInv, DropsKnown, HandlersOwn
<1>12. CountsBounded'
  <2>1. LateCount(handler') = LateCount(handler)
    <3>1. handler[c] = Idle
      BY <1>2 DEF MapsInv, HandlersKnow, HandlerSees
    <3>2. handler[c].late = FALSE /\ g.late = FALSE
      BY <1>4, <3>1 DEF Idle
    <3>3. \A d \in Cpus : handler[d].late = handler'[d].late
      BY <1>8, <3>2
    <3>. QED
      BY <3>3, LateStays
  <2>2. HandlerDone(handler', handler, c) /\ handler'[c].key = k
    BY <1>2, <1>4, <1>8 DEF HandlerDone
  <2>3. ASSUME NEW T
        PROVE  LET A == Account(elems, T, handler, rows, refused)
                   B == Account(elems, T, handler', rows, refused)
               IN  B \in KeyCounts /\ \A r \in MapKeys : B[r] = A[r] + (IF r = k THEN 1 ELSE 0)
    <3>. DEFINE A == Account(elems, T, handler, rows, refused)
                B == Account(elems, T, handler', rows, refused)
    <3>1. Shifted(B, A, elems, elems, T, k)
      BY <1>3, <2>2, AccountOfEnd
    <3>2. B \in KeyCounts
      BY <1>3, AccountTyped
    <3>. HIDE DEF A, B
    <3>3. ASSUME NEW r \in MapKeys PROVE B[r] = A[r] + (IF r = k THEN 1 ELSE 0)
      <4>. DEFINE one == IF r = k THEN 1 ELSE 0
      <4>1. /\ A[r] \in Nat /\ B[r] \in Nat /\ InPlaces(elems, T, r) \in Nat
            /\ A[r] + InPlaces(elems, T, r) + one = B[r] + InPlaces(elems, T, r)
        BY <3>1 DEF Shifted
      <4>2. one \in {0, 1}
        OBVIOUS
      <4>. HIDE DEF one
      <4>3. B[r] = A[r] + one
        BY <4>1, <4>2
      <4>. QED
        BY <4>3 DEF one
    <3>. QED
      BY <3>2, <3>3 DEF A, B
  <2>. DEFINE S2 == Account(elems, SurePlaces, handler', rows, refused)
              L2 == Account(elems, LikelyPlaces, handler', rows, refused)
              u == straddled - LateCount(handler)
  <2>4. Sure' = S2 /\ Likely' = L2
    BY <1>2, BoundsOfHandlers
  <2>5. /\ S2 \in KeyCounts /\ L2 \in KeyCounts
        /\ \A r \in MapKeys : /\ S2[r] = Sure[r] + (IF r = k THEN 1 ELSE 0)
                              /\ L2[r] = Likely[r] + (IF r = k THEN 1 ELSE 0)
    BY <1>2, <2>3, BoundsOfHandlers
  <2>6. Bounded(Sure, Likely, hits, u)
    BY DEF MapsInv, CountsBounded
  <2>. HIDE DEF S2, L2, u, Sure, Likely
  <2>7. \A r \in MapKeys : Sure[r] \in Nat /\ Likely[r] \in Nat
    BY <2>6 DEF Bounded, KeyCounts
  <2>8. /\ S2[k] = Sure[k] + 1 /\ L2[k] = Likely[k] + 1
        /\ \A r \in MapKeys \ {k} : Sure[r] = S2[r] /\ Likely[r] = L2[r] /\ hits[r] = hits'[r]
    BY <1>2, <1>6, <2>5, <2>7
  <2>9. Bounded(S2, L2, hits', u)
    BY <1>2, <1>6, <2>5, <2>6, <2>8, BoundsOfHit
  <2>. QED
    BY <1>2, <2>1, <2>4, <2>9 DEF CountsBounded, HandlersOwn, u
<1>. QED
  BY <1>8, <1>9, <1>10, <1>11, <1>12 DEF MapsInv

LEMMA LookupKeeps == ASSUME MapsInv, NEW c \in Cpus, Lookup(c) PROVE MapsInv'
<1>. DEFINE h == handler[c]  hasKey == HasKey(h.map, h.key)
            g == IF hasKey # {} THEN [h EXCEPT !.at = "add", !.slot = CHOOSE s \in hasKey : TRUE]
                 ELSE IF h.at = "lookup" THEN [h EXCEPT !.at = "insert"] ELSE Idle
<1>1. handler' = [handler EXCEPT ![c] = g] /\ h.at \in {"lookup", "again"}
  BY DEF Lookup
<1>2. /\ HandlersOwn /\ elems' = elems /\ refused' = refused /\ drops' = drops /\ hits' = hits
  BY DEF Lookup, HandlersOwn, fixed, readers_own
<1>3. /\ elems \in TwoMaps /\ hits \in KeyCounts /\ refused \in KeyCounts /\ drops \in Nat /\ active \in {0, 1}
      /\ handler \in [Cpus -> MapHandlers] /\ rows \in KeyCounts /\ h \in MapHandlers
  BY DEF MapsInv, MapsShape
<1>4. HandlerSees(h, elems, active, InsertsOwn, c)
  BY DEF MapsInv, HandlersKnow
<1>5. hasKey = {s \in Slots : elems[h.map][s].key = h.key}
  BY DEF HasKey
<1>. HIDE DEF h, hasKey
<1>6. hasKey # {} => /\ g.at = "add" /\ g.slot \in hasKey /\ g.key = h.key /\ g.map = h.map /\ g.late = h.late
                    /\ g \in MapHandlers
  BY <1>3, <1>5 DEF MapHandlers
<1>7. hasKey = {} /\ h.at = "lookup" =>
        g.at = "insert" /\ g.key = h.key /\ g.map = h.map /\ g.late = h.late /\ g \in MapHandlers
  BY <1>3 DEF MapHandlers
<1>8. hasKey = {} /\ h.at # "lookup" => g = Idle /\ h.late /\ h.at = "again"
  <2>. SUFFICES ASSUME hasKey = {}, h.at # "lookup" PROVE h.late
    BY <1>1
  <2>1. h.at = "again"
    BY <1>1
  <2>2. ~h.late => h.map = active /\ \E s \in Slots : elems[active][s].key = h.key
    BY <1>4, <2>1 DEF HandlerSees
  <2>. QED
    BY <1>5, <2>2
<1>9. g \in MapHandlers
  BY <1>6, <1>7, <1>8, IdleTyped
<1>. HIDE DEF g
<1>10. MapsShape' /\ ReaderKnows' /\ handler'[c] = g /\ \A d \in Cpus \ {c} : handler'[d] = handler[d]
  BY <1>1, <1>2, <1>3, <1>9, HandlersOthers
<1>11. OneOfKey'
  BY <1>2 DEF MapsInv, OneOfKey
<1>12. HandlersKnow'
  <2>1. HandlerSees(g, elems, active, InsertsOwn, c)
    <3>1. CASE hasKey # {}
      BY <1>1, <1>4, <1>5, <1>6, <3>1 DEF HandlerSees
    <3>2. CASE hasKey = {} /\ h.at = "lookup"
      BY <1>4, <1>5, <1>7, <3>2 DEF HandlerSees
    <3>3. CASE hasKey = {} /\ h.at # "lookup"
      BY <1>8, <3>3, IdleTyped
    <3>. QED
      BY <3>1, <3>2, <3>3
  <2>2. \A d \in Cpus : HandlerSees(handler'[d], elems, active, InsertsOwn, d)
    BY <1>10, <2>1 DEF MapsInv, HandlersKnow
  <2>. QED
    BY <1>2, <2>2 DEF HandlersKnow, HandlersOwn, InsertsOwn
<1>13. DropsKnown'
  BY <1>2 DEF MapsInv, DropsKnown, HandlersOwn
<1>14. CountsBounded'
  <2>1. CASE hasKey # {} \/ h.at = "lookup"
    <3>1. /\ g.at # "idle" /\ h.at # "idle" /\ g.key = h.key /\ g.late = h.late
      BY <1>1, <1>6, <1>7, <2>1
    <3>2. AsBusy(handler, handler') /\ \A d \in Cpus : handler[d].late = handler'[d].late
      BY <1>10, <3>1 DEF AsBusy, h
    <3>3. SameWeights(elems, elems') /\ elems' \in TwoMaps
      BY <1>2, <1>3 DEF SameWeights
    <3>. QED
      BY <1>2, <3>2, <3>3, StayKeepsBounds
  <2>2. CASE hasKey = {} /\ h.at # "lookup"
    <3>1. handler' = [handler EXCEPT ![c] = Idle] /\ handler[c].late /\ handler[c].at # "idle"
      BY <1>1, <1>8, <2>2 DEF h
    <3>. QED
      BY <1>2, <1>3, <3>1, EndKeepsBounds
  <2>. QED
    BY <2>1, <2>2
<1>. QED
  BY <1>10, <1>11, <1>12, <1>13, <1>14 DEF MapsInv

LEMMA BoundsLoosen == ASSUME NEW S, NEW L, NEW h, NEW u, Bounded(S, L, h, u) PROVE Bounded(S, L, h, u + 1)
<1>1. u \in Nat /\ SumFunction(S) \in Nat /\ SumFunction(h) \in Nat
  BY MapsFinite, SumTyped DEF Bounded, KeyCounts
<1>2. \A k \in MapKeys : S[k] \in Nat /\ L[k] \in Nat /\ h[k] \in Nat
  BY DEF Bounded, KeyCounts
<1>. QED
  BY <1>1, <1>2 DEF Bounded

\* A handler is done whose hit is among those that found no room.
LEMMA RefusedAccount ==
    ASSUME NEW E \in TwoMaps, NEW T, NEW H, NEW G, NEW R \in KeyCounts, NEW F \in KeyCounts, NEW c, HandlerDone(H, G, c)
    PROVE  Account(E, T, G, R, [F EXCEPT ![H[c].key] = @ + 1]) = Account(E, T, H, R, F)
<1>. DEFINE k == H[c].key  F2 == [F EXCEPT ![k] = @ + 1]
<1>1. ASSUME NEW r \in MapKeys
      PROVE  R[r] + InPlaces(E, T, r) + Underway(G, r) + F2[r] = R[r] + InPlaces(E, T, r) + Underway(H, r) + F[r]
  <2>. DEFINE one == IF r = k THEN 1 ELSE 0
  <2>1. Underway(H, r) = Underway(G, r) + one /\ one \in {0, 1}
    BY HandlerEnds DEF HandlerDone
  <2>2. R[r] \in Nat /\ InPlaces(E, T, r) \in Nat /\ F[r] \in Nat /\ Underway(G, r) \in Nat
    BY WeightsTyped, HandlersCounted DEF KeyCounts
  <2>3. F2[r] = F[r] + one
    BY DEF KeyCounts, HandlerDone
  <2>. HIDE DEF one, F2
  <2>. QED
    BY <2>1, <2>2, <2>3
<1>2. Account(E, T, G, R, F2) = Account(E, T, H, R, F)
  <2>. HIDE DEF F2
  <2>. QED
    BY <1>1 DEF Account
<1>. QED
  BY <1>2

LEMMA RefuseKeeps == ASSUME MapsInv, NEW c \in Cpus, Refuse(c) PROVE MapsInv'
<1>. DEFINE h == handler[c]  k == h.key
<1>1. /\ handler' = [handler EXCEPT ![c] = Idle] /\ h.at = "insert" /\ refused' = [refused EXCEPT ![k] = @ + 1]
      /\ drops' = drops \/ drops' = drops + 1
  BY DEF Refuse
<1>2. /\ HandlersOwn /\ elems' = elems /\ hits' = hits
  BY DEF Refuse, HandlersOwn, fixed, readers_own
<1>3. /\ elems \in TwoMaps /\ hits \in KeyCounts /\ refused \in KeyCounts /\ drops \in Nat /\ reported \in Nat
      /\ handler \in [Cpus -> MapHandlers] /\ rows \in KeyCounts /\ straddled \in Nat
  BY DEF MapsInv, MapsShape
<1>4. k \in MapKeys
  BY <1>1 DEF MapsInv, HandlersKnow, HandlerSees
<1>. HIDE DEF k
<1>5. /\ refused' \in KeyCounts /\ refused'[k] = refused[k] + 1 /\ refused[k] \in Nat /\ drops' \in Nat
      /\ \A r \in MapKeys \ {k} : refused[r] = refused'[r]
  BY <1>1, <1>3, <1>4 DEF KeyCounts
<1>6. MapsShape' /\ ReaderKnows' /\ handler'[c] = Idle /\ \A d \in Cpus \ {c} : handler'[d] = handler[d]
  <2>1. Idle \in MapHandlers /\ hits' \in KeyCounts /\ elems' \in TwoMaps
    BY <1>2, <1>3, IdleTyped
  <2>2. refused' \in KeyCounts /\ drops' \in Nat
    BY <1>5
  <2>. QED
    BY <1>1, <1>2, <2>1, <2>2, HandlersOthers
<1>7. OneOfKey'
  BY <1>2 DEF MapsInv, OneOfKey
<1>8. HandlersKnow'
  <2>1. \A d \in Cpus : HandlerSees(handler'[d], elems, active, InsertsOwn, d)
    BY <1>6, IdleTyped DEF MapsInv, HandlersKnow
  <2>. QED
    BY <1>2, <2>1 DEF HandlersKnow, HandlersOwn, InsertsOwn
<1>9. DropsKnown'
  <2>1. SumFunction(refused') + refused[k] = SumFunction(refused) + refused'[k]
    BY <1>3, <1>4, <1>5, MapsFinite, SumUpdate DEF KeyCounts
  <2>2. SumFunction(refused) \in Nat /\ SumFunction(refused') \in Nat
    BY <1>3, <1>5, MapsFinite, SumTyped DEF KeyCounts
  <2>0. refused'[k] = refused[k] + 1 /\ refused[k] \in Nat
    BY <1>5
  <2>3. SumFunction(refused') = SumFunction(refused) + 1
    BY <2>0, <2>1, <2>2
  <2>. QED
    BY <1>1, <1>2, <1>3, <2>2, <2>3 DEF MapsInv, DropsKnown, HandlersOwn
<1>10. CountsBounded'
  <2>1. HandlerDone(handler, handler', c)
    BY <1>1, <1>4, <1>6, IdleTyped DEF HandlerDone, k
  <2>2. ASSUME NEW T
        PROVE  Account(elems, T, handler', rows, refused') = Account(elems, T, handler, rows, refused)
    <3>1. refused' = [refused EXCEPT ![handler[c].key] = @ + 1]
      BY <1>1 DEF k
    <3>2. Account(elems, T, handler', rows, [refused EXCEPT ![handler[c].key] = @ + 1])
            = Account(elems, T, handler, rows, refused)
      BY <1>3, <2>1, RefusedAccount
    <3>. QED
      BY <3>1, <3>2
  <2>3. Sure' = Sure /\ Likely' = Likely
    BY <1>2, <2>2, BoundsOfHandlers
  <2>. DEFINE u == straddled - LateCount(handler)
  <2>4. Bounded(Sure, Likely, hits, u) /\ Bounded(Sure, Likely, hits, u + 1)
    BY BoundsLoosen DEF MapsInv, CountsBounded
  <2>5. CASE ~h.late
    <3>1. LateCount(handler') = LateCount(handler)
      <4>1. \A d \in Cpus : handler[d].late <=> handler'[d].late
        BY <1>6, <2>5, IdleTyped
      <4>. QED
        BY <4>1, LateStays
    <3>. QED
      BY <1>2, <2>3, <2>4, <3>1 DEF CountsBounded, HandlersOwn
  <2>6. CASE h.late
    <3>1. LateCount(handler') = LateCount(handler) - 1
      <4>1. ~handler'[c].late
        BY <1>6, IdleTyped
      <4>. QED
        BY <1>6, <2>6, <4>1, LateEnds
    <3>2. u + 1 = straddled - LateCount(handler')
      BY <1>3, <3>1, LateCounted
    <3>. QED
      BY <1>2, <2>3, <2>4, <3>2 DEF CountsBounded, HandlersOwn
  <2>. QED
    BY <2>5, <2>6
<1>. QED
  BY <1>6, <1>7, <1>8, <1>9, <1>10 DEF MapsInv

\* What the others know is left by a handler that makes or changes an element.
OthersKept(E, E2, c) == \A m \in {0, 1}, s \in Slots :
    /\ E[m][s].key # NoKey => E2[m][s].key = E[m][s].key
    /\ \A d \in Cpus \ {c} : \/ E2[m][s].count[d] = 0
                             \/ E2[m][s].key = E[m][s].key /\ E2[m][s].count[d] = E[m][s].count[d]

LEMMA KnowledgeKept ==
    ASSUME NEW E, NEW E2, NEW c, OthersKept(E, E2, c), NEW d \in Cpus \ {c}, NEW h \in MapHandlers, NEW a \in {0, 1},
           NEW own, HandlerSees(h, E, a, own, d)
    PROVE  HandlerSees(h, E2, a, own, d)
<1>1. h.map \in {0, 1} /\ (h.at # "idle" => h.key \in MapKeys /\ h.key # NoKey)
  BY NoKeyIsNone DEF MapHandlers, HandlerSees
<1>2. ASSUME h.at = "insert", own, NEW s \in Slots, E2[h.map][s].key = h.key
      PROVE  E2[h.map][s].count[d] = 0
  BY <1>1, <1>2 DEF HandlerSees, OthersKept
<1>3. ASSUME h.at # "idle", ~h.late
      PROVE  /\ h.map = a
             /\ h.at = "again" => \E s \in Slots : E2[a][s].key = h.key
             /\ h.at = "add" => E2[a][h.slot].key = h.key
  <2>1. h.map = a
    BY <1>3 DEF HandlerSees
  <2>2. ASSUME h.at = "again" PROVE \E s \in Slots : E2[a][s].key = h.key
    <3>1. PICK s \in Slots : E[a][s].key = h.key
      BY <1>3, <2>2 DEF HandlerSees
    <3>2. E2[a][s].key = h.key
      BY <1>1, <1>3, <3>1 DEF OthersKept
    <3>. QED
      BY <3>2
  <2>3. ASSUME h.at = "add" PROVE E2[a][h.slot].key = h.key
    <3>1. h.slot \in Slots /\ E[a][h.slot].key = h.key
      BY <1>3, <2>3 DEF HandlerSees
    <3>. QED
      BY <1>1, <1>3, <3>1 DEF OthersKept
  <2>. QED
    BY <2>1, <2>2, <2>3
<1>4. /\ h.at = "idle" => h = Idle
      /\ h.at # "idle" => h.key \in MapKeys
      /\ h.at = "add" => h.slot \in Slots
  BY DEF HandlerSees
<1>. QED
  BY <1>2, <1>3, <1>4 DEF HandlerSees

LEMMA AddKeeps == ASSUME MapsInv, NEW c \in Cpus, Add(c) PROVE MapsInv'
<1>. DEFINE h == handler[c]  m == h.map  s == h.slot  e == elems[m][s]
<1>1. /\ handler' = [handler EXCEPT ![c] = Idle] /\ h.at = "add"
      /\ elems' = [elems EXCEPT ![m][s] = IF e = Free THEN Free ELSE With(e, c, e.count[c] + 1)]
  BY DEF Add
<1>2. /\ HandlersOwn /\ refused' = refused /\ hits' = hits /\ drops' = drops
  BY DEF Add, HandlersOwn, fixed, readers_own
<1>3. /\ elems \in TwoMaps /\ hits \in KeyCounts /\ refused \in KeyCounts /\ drops \in Nat /\ active \in {0, 1}
      /\ handler \in [Cpus -> MapHandlers] /\ rows \in KeyCounts /\ h \in MapHandlers
  BY DEF MapsInv, MapsShape
<1>4. HandlerSees(h, elems, active, InsertsOwn, c)
  BY DEF MapsInv, HandlersKnow
<1>5. m \in {0, 1} /\ s \in Slots /\ <<m, s>> \in MapPlaces /\ e \in MapElements
      /\ (~h.late => m = active /\ e.key = h.key) /\ h.key \in MapKeys
  <2>1. m \in {0, 1} /\ s \in Slots
    BY <1>1, <1>3, <1>4 DEF MapHandlers, HandlerSees
  <2>2. ~h.late => m = active /\ e.key = h.key
    BY <1>1, <1>4 DEF HandlerSees
  <2>3. h.key \in MapKeys
    BY <1>1, <1>4 DEF HandlerSees
  <2>. QED
    BY <1>3, <2>1, <2>2, <2>3 DEF MapPlaces, TwoMaps
<1>. DEFINE f == IF e = Free THEN Free ELSE With(e, c, e.count[c] + 1)
<1>6. f \in MapElements /\ f.key = e.key /\ (\A d \in Cpus \ {c} : f.count[d] = e.count[d])
      /\ (e # Free => CountIn(f) = CountIn(e) + 1 /\ e.key \in MapKeys)
  <2>1. CASE e = Free
    BY <1>5, <2>1, FreeCounts
  <2>2. CASE e # Free
    <3>1. e.key # NoKey /\ e.key \in MapKeys /\ e.count[c] \in Nat
      BY <1>5, <2>2, FreeCounts DEF MapElements
    <3>. DEFINE n == e.count[c] + 1
    <3>2. n \in Nat
      BY <3>1
    <3>. HIDE DEF n, e
    <3>3. /\ With(e, c, n) \in MapElements /\ With(e, c, n).key = e.key
          /\ \A d \in Cpus \ {c} : With(e, c, n).count[d] = e.count[d]
          /\ CountIn(With(e, c, n)) + e.count[c] = CountIn(e) + n
      BY <1>5, <3>1, <3>2, CountWith
    <3>4. f = With(e, c, n)
      BY <2>2 DEF n
    <3>5. CountIn(With(e, c, n)) = CountIn(e) + 1
      <4>1. CountIn(With(e, c, n)) \in Nat /\ CountIn(e) \in Nat
        BY <1>5, <3>3, CountTyped
      <4>. QED
        BY <3>1, <3>3, <4>1 DEF n
    <3>. HIDE DEF f
    <3>. QED
      BY <3>1, <3>3, <3>4, <3>5
  <2>. QED
    BY <2>1, <2>2
<1>. HIDE DEF h, m, s, e, f
<1>7. elems' = [elems EXCEPT ![m][s] = f]
  BY <1>1 DEF f
<1>8. /\ elems' \in TwoMaps /\ elems'[m][s] = f
      /\ \A n \in {0, 1}, r \in Slots : <<n, r>> # <<m, s>> => elems'[n][r] = elems[n][r]
  BY <1>3, <1>5, <1>6, <1>7 DEF TwoMaps
<1>9. \A n \in {0, 1}, r \in Slots : elems'[n][r].key = elems[n][r].key
  BY <1>6, <1>8 DEF e
<1>10. MapsShape' /\ ReaderKnows' /\ handler'[c] = Idle /\ \A d \in Cpus \ {c} : handler'[d] = handler[d]
  <2>1. Idle \in MapHandlers /\ hits' \in KeyCounts /\ refused' \in KeyCounts /\ drops' \in Nat
    BY <1>2, <1>3, IdleTyped
  <2>. QED
    BY <1>1, <1>2, <1>8, <2>1, HandlersOthers
<1>11. OneOfKey'
  BY <1>9 DEF MapsInv, OneOfKey
<1>12. HandlersKnow'
  <2>1. OthersKept(elems, elems', c)
    <3>. SUFFICES ASSUME NEW n \in {0, 1}, NEW r \in Slots
                  PROVE  \A d \in Cpus \ {c} : elems'[n][r].count[d] = elems[n][r].count[d]
      BY <1>9 DEF OthersKept
    <3>1. CASE <<n, r>> = <<m, s>>
      BY <1>6, <1>8, <3>1 DEF e
    <3>2. CASE <<n, r>> # <<m, s>>
      BY <1>8, <3>2
    <3>. QED
      BY <3>1, <3>2
  <2>2. ASSUME NEW d \in Cpus PROVE HandlerSees(handler'[d], elems', active, InsertsOwn, d)
    <3>1. CASE d = c
      BY <1>10, <3>1, IdleTyped
    <3>2. CASE d # c
      <4>1. HandlerSees(handler[d], elems, active, InsertsOwn, d) /\ handler[d] \in MapHandlers
        BY <1>3 DEF MapsInv, HandlersKnow
      <4>2. HandlerSees(handler[d], elems', active, InsertsOwn, d)
        BY <1>3, <2>1, <3>2, <4>1, KnowledgeKept
      <4>. QED
        BY <1>10, <3>2, <4>2
    <3>. QED
      BY <3>1, <3>2
  <2>. QED
    BY <1>2, <2>2 DEF HandlersKnow, HandlersOwn, InsertsOwn
<1>13. DropsKnown'
  BY <1>2 DEF MapsInv, DropsKnown, HandlersOwn
<1>14. CountsBounded'
  <2>0. handler[c].at # "idle"
    BY <1>1 DEF h
  <2>1. CASE e = Free
    <3>1. h.late
      BY <1>5, <2>1, FreeCounts, NoKeyIsNone
    <3>2. elems' = elems
      <4>1. f = e
        BY <2>1 DEF f
      <4>. QED
        BY <1>3, <1>5, <1>7, <4>1 DEF TwoMaps, e
    <3>. QED
      BY <1>1, <1>2, <1>8, <2>0, <3>1, <3>2, EndKeepsBounds DEF h
  <2>2. CASE e # Free
    <3>. DEFINE p == <<m, s>>
    <3>1. Raised(elems, elems', p, e.key, 1)
      <4>1. \A q \in MapPlaces \ {p} : elems'[q[1]][q[2]] = elems[q[1]][q[2]]
        <5>1. \A q \in MapPlaces : q = <<q[1], q[2]>> /\ q[1] \in {0, 1} /\ q[2] \in Slots
          BY DEF MapPlaces
        <5>. QED
          BY <1>8, <5>1
      <4>2. p[1] = m /\ p[2] = s /\ elems'[m][s] = f /\ elems[m][s] = e
        BY <1>8 DEF e
      <4>3. f.key = e.key /\ CountIn(f) = CountIn(e) + 1
        BY <1>6, <2>2
      <4>. HIDE DEF p
      <4>. QED
        BY <4>1, <4>2, <4>3 DEF Raised
    <3>2. p \in MapPlaces /\ e.key \in MapKeys /\ (h.late \/ (p[1] = active /\ e.key = h.key))
      BY <1>5, <1>6, <2>2
    <3>. HIDE DEF p
    <3>3. \E q \in MapPlaces, k \in MapKeys :
            /\ Raised(elems, elems', q, k, 1)
            /\ handler[c].late \/ (q[1] = active /\ k = handler[c].key)
      BY <3>1, <3>2 DEF h
    <3>. QED
      BY <1>1, <1>2, <1>8, <2>0, <3>3, EndKeepsBounds
  <2>. QED
    BY <2>1, <2>2
<1>. QED
  BY <1>10, <1>11, <1>12, <1>13, <1>14 DEF MapsInv

\* An element made or changed by a handler that goes on as g.
MadeAt(E, E2, c, m, s, f, k) ==
    /\ E2 \in TwoMaps /\ m \in {0, 1} /\ s \in Slots /\ E2[m][s] = f /\ f.key = k /\ k \in MapKeys
    /\ E[m][s].key \in {k, NoKey}
    /\ \A r \in Slots : E[m][r].key = k => r = s
    /\ \A n \in {0, 1}, r \in Slots : <<n, r>> # <<m, s>> => E2[n][r] = E[n][r]
    /\ \A d \in Cpus \ {c} : f.count[d] = 0 \/ (E[m][s].key = k /\ f.count[d] = E[m][s].count[d])

LEMMA MadeKeeps ==
    ASSUME MapsInv, HandlersOwn, UNCHANGED <<hits, refused, drops>>, NEW c \in Cpus, NEW g \in MapHandlers,
           handler' = [handler EXCEPT ![c] = g], NEW m, NEW s, NEW f, NEW k, MadeAt(elems, elems', c, m, s, f, k),
           HandlerSees(g, elems', active, InsertsOwn, c)
    PROVE  /\ MapsShape' /\ ReaderKnows' /\ OneOfKey' /\ HandlersKnow' /\ DropsKnown' /\ handler'[c] = g
           /\ \A d \in Cpus \ {c} : handler'[d] = handler[d]
<1>1. /\ elems \in TwoMaps /\ hits \in KeyCounts /\ refused \in KeyCounts /\ drops \in Nat /\ active \in {0, 1}
      /\ handler \in [Cpus -> MapHandlers]
  BY DEF MapsInv, MapsShape
<1>2. MapsShape' /\ ReaderKnows' /\ handler'[c] = g /\ \A d \in Cpus \ {c} : handler'[d] = handler[d]
  <2>1. hits' \in KeyCounts /\ refused' \in KeyCounts /\ drops' \in Nat /\ elems' \in TwoMaps
    BY <1>1 DEF MadeAt
  <2>. QED
    BY <2>1, HandlersOthers
<1>3. /\ m \in {0, 1} /\ s \in Slots /\ elems'[m][s].key = k /\ k \in MapKeys
      /\ elems[m][s].key \in {k, NoKey} /\ \A r \in Slots : elems[m][r].key = k => r = s
  BY DEF MadeAt
<1>4. \A n \in {0, 1}, r \in Slots : <<n, r>> # <<m, s>> => elems'[n][r] = elems[n][r]
  BY DEF MadeAt
<1>5. OneOfKey'
  <2>. SUFFICES ASSUME NEW n \in {0, 1}, NEW r \in Slots, NEW t \in Slots,
                       elems'[n][r].key = elems'[n][t].key, elems'[n][r].key # NoKey
                PROVE  r = t
    BY DEF OneOfKey
  <2>1. CASE n # m
    BY <1>4, <2>1 DEF MapsInv, OneOfKey
  <2>2. CASE n = m
    <3>1. r # s => elems'[m][r] = elems[m][r]
      BY <1>3, <1>4
    <3>2. t # s => elems'[m][t] = elems[m][t]
      BY <1>3, <1>4
    <3>3. CASE r # s /\ t # s
      BY <2>2, <3>1, <3>2, <3>3 DEF MapsInv, OneOfKey
    <3>4. CASE r = s \/ t = s
      BY <1>3, <2>2, <3>1, <3>2, <3>4
    <3>. QED
      BY <3>3, <3>4
  <2>. QED
    BY <2>1, <2>2
<1>6. OthersKept(elems, elems', c)
  <2>. SUFFICES ASSUME NEW n \in {0, 1}, NEW r \in Slots
                PROVE  /\ elems[n][r].key # NoKey => elems'[n][r].key = elems[n][r].key
                       /\ \A d \in Cpus \ {c} :
                            \/ elems'[n][r].count[d] = 0
                            \/ elems'[n][r].key = elems[n][r].key /\ elems'[n][r].count[d] = elems[n][r].count[d]
    BY DEF OthersKept
  <2>1. CASE <<n, r>> # <<m, s>>
    BY <1>4, <2>1
  <2>2. CASE <<n, r>> = <<m, s>>
    <3>1. n = m /\ r = s
      BY <2>2
    <3>2. \A d \in Cpus \ {c} : \/ elems'[m][s].count[d] = 0
                                \/ elems[m][s].key = k /\ elems'[m][s].count[d] = elems[m][s].count[d]
      BY DEF MadeAt
    <3>. QED
      BY <1>3, <3>1, <3>2
  <2>. QED
    BY <2>1, <2>2
<1>7. HandlersKnow'
  <2>1. ASSUME NEW d \in Cpus PROVE HandlerSees(handler'[d], elems', active, InsertsOwn, d)
    <3>1. CASE d = c
      BY <1>2, <3>1
    <3>2. CASE d # c
      <4>1. HandlerSees(handler[d], elems, active, InsertsOwn, d) /\ handler[d] \in MapHandlers
        BY <1>1 DEF MapsInv, HandlersKnow
      <4>2. HandlerSees(handler[d], elems', active, InsertsOwn, d)
        BY <1>1, <1>6, <3>2, <4>1, KnowledgeKept
      <4>. QED
        BY <1>2, <3>2, <4>2
    <3>. QED
      BY <3>1, <3>2
  <2>. QED
    BY <2>1 DEF HandlersKnow, HandlersOwn, InsertsOwn
<1>8. DropsKnown'
  BY DEF MapsInv, DropsKnown, HandlersOwn
<1>. QED
  BY <1>2, <1>5, <1>7, <1>8

\* A place of the maps whose element is given.
LEMMA RaisedIfMade ==
    ASSUME NEW E, NEW E2, NEW c, NEW m, NEW s, NEW f, NEW k, MadeAt(E, E2, c, m, s, f, k), NEW n,
           \/ E[m][s].key = k /\ CountIn(f) = CountIn(E[m][s]) + n
           \/ E[m][s].key = NoKey /\ CountIn(f) = n
    PROVE  <<m, s>> \in MapPlaces /\ Raised(E, E2, <<m, s>>, k, n)
<1>. DEFINE p == <<m, s>>
<1>1. p[1] = m /\ p[2] = s /\ p \in MapPlaces
  BY DEF MapPlaces, MadeAt
<1>2. \A q \in MapPlaces \ {p} : E2[q[1]][q[2]] = E[q[1]][q[2]]
  <2>1. \A q \in MapPlaces : q = <<q[1], q[2]>> /\ q[1] \in {0, 1} /\ q[2] \in Slots
    BY DEF MapPlaces
  <2>. QED
    BY <2>1 DEF MadeAt
<1>3. E2[m][s] = f /\ f.key = k
  BY DEF MadeAt
<1>. HIDE DEF p
<1>4. Raised(E, E2, p, k, n)
  BY <1>1, <1>2, <1>3 DEF Raised
<1>. QED
  BY <1>1, <1>4 DEF p

LEMMA InsertKeeps == ASSUME MapsInv, NEW c \in Cpus, Insert(c) PROVE MapsInv'
<1>. DEFINE h == handler[c]  m == h.map  k == h.key
            own == HandlerOf[tool].insert = "own"  zero == HandlerOf[tool].insert = "zero"
            hasKey == HasKey(m, k)  g == IF zero THEN [h EXCEPT !.at = "again"] ELSE Idle
<1>1. /\ h.at = "insert" /\ handler' = [handler EXCEPT ![c] = g]
      /\ \/ /\ own /\ hasKey # {}
            /\ elems' = [elems EXCEPT ![m] = [s \in Slots |-> IF s \in hasKey THEN With(elems[m][s], c, 1)
                                                              ELSE elems[m][s]]]
         \/ /\ hasKey = {}
            /\ \E s \in Room(m) : elems' = [elems EXCEPT ![m][s] =
                 [key |-> k, count |-> [Free.count EXCEPT ![c] = IF zero THEN 0 ELSE 1]]]
  BY DEF Insert
<1>2. HandlersOwn /\ UNCHANGED <<hits, refused, drops>>
  BY DEF Insert, HandlersOwn, fixed, readers_own
<1>3. /\ elems \in TwoMaps /\ active \in {0, 1} /\ handler \in [Cpus -> MapHandlers] /\ h \in MapHandlers
  BY DEF MapsInv, MapsShape
<1>4. HandlerSees(h, elems, active, own, c)
  BY DEF MapsInv, HandlersKnow, InsertsOwn
<1>5. /\ m \in {0, 1} /\ k \in MapKeys /\ (~h.late => m = active)
      /\ own => \A s \in Slots : elems[m][s].key = k => elems[m][s].count[c] = 0
  BY <1>1, <1>3, <1>4 DEF MapHandlers, HandlerSees
<1>6. hasKey = {s \in Slots : elems[m][s].key = k} /\ Room(m) = {s \in Slots : elems[m][s].key = NoKey}
  BY DEF HasKey, Room
<1>7. /\ g \in MapHandlers
      /\ zero => g.at = "again" /\ g.key = k /\ g.map = m /\ g.late = h.late
  BY <1>3, IdleTyped DEF MapHandlers
<1>8. own => ~zero
  OBVIOUS
<1>. HIDE DEF h, m, k, own, zero, hasKey, g
\* What is made, and by how much the count of its key grows.
<1>9. \E s \in Slots, f \in MapElements :
         /\ MadeAt(elems, elems', c, m, s, f, k)
         /\ LET n == IF zero THEN 0 ELSE 1
            IN  \/ elems[m][s].key = k /\ CountIn(f) = CountIn(elems[m][s]) + n
                \/ elems[m][s].key = NoKey /\ CountIn(f) = n
  <2>1. CASE hasKey = {}
    <3>1. PICK s \in Room(m) : elems' = [elems EXCEPT ![m][s] =
                 [key |-> k, count |-> [Free.count EXCEPT ![c] = IF zero THEN 0 ELSE 1]]]
      BY <1>1, <2>1
    <3>. DEFINE n == IF zero THEN 0 ELSE 1  f == NewElement(k, c, n)
    <3>2. n \in {0, 1}
      OBVIOUS
    <3>3. f \in MapElements /\ f.key = k /\ CountIn(f) = n /\ \A d \in Cpus \ {c} : f.count[d] = 0
      <4>. HIDE DEF n
      <4>. QED
        BY <1>5, <3>2, NewCounts
    <3>4. elems' = [elems EXCEPT ![m][s] = f]
      BY <3>1 DEF NewElement
    <3>. HIDE DEF f, n
    <3>5. s \in Slots /\ elems[m][s].key = NoKey
      BY <1>6, <3>1
    <3>6. /\ elems' \in TwoMaps /\ elems'[m][s] = f
          /\ \A q \in {0, 1}, r \in Slots : <<q, r>> # <<m, s>> => elems'[q][r] = elems[q][r]
      BY <1>3, <1>5, <3>3, <3>4, <3>5 DEF TwoMaps
    <3>7. \A r \in Slots : elems[m][r].key = k => r = s
      BY <1>6, <2>1
    <3>8. MadeAt(elems, elems', c, m, s, f, k)
      BY <1>5, <3>3, <3>5, <3>6, <3>7 DEF MadeAt
    <3>. QED
      BY <3>3, <3>5, <3>8 DEF n
  <2>2. CASE hasKey # {}
    <3>1. /\ own
          /\ elems' = [elems EXCEPT ![m] = [s \in Slots |-> IF s \in hasKey THEN With(elems[m][s], c, 1)
                                                            ELSE elems[m][s]]]
      BY <1>1, <2>2
    <3>2. PICK s \in Slots : elems[m][s].key = k
      BY <1>6, <2>2
    <3>3. \A r \in Slots : r \in hasKey <=> r = s
      <4>1. \A r \in Slots : elems[m][r].key = k => r = s
        BY <1>5, <3>2, NoKeyIsNone DEF MapsInv, OneOfKey
      <4>. QED
        BY <1>6, <3>2, <4>1
    <3>. DEFINE e == elems[m][s]  f == With(e, c, 1)
    <3>4. e \in MapElements /\ e.key # NoKey /\ e.count[c] = 0
      BY <1>3, <1>5, <3>1, <3>2, NoKeyIsNone DEF TwoMaps
    <3>5. /\ f \in MapElements /\ f.key = e.key /\ \A d \in Cpus \ {c} : f.count[d] = e.count[d]
      <4>. HIDE DEF e
      <4>. QED
        BY <3>4, CountWith
    <3>6. CountIn(f) = CountIn(e) + 1
      <4>1. CountIn(f) + e.count[c] = CountIn(e) + 1
        <5>. HIDE DEF e
        <5>. QED
          BY <3>4, CountWith
      <4>2. CountIn(f) \in Nat
        BY <3>5, CountTyped
      <4>. HIDE DEF f, e
      <4>. QED
        BY <3>4, <4>1, <4>2
    <3>7. elems'[m] = [r \in Slots |-> IF r = s THEN f ELSE elems[m][r]] /\ (\A q \in {0, 1} \ {m} : elems'[q] = elems[q])
          /\ DOMAIN elems' = {0, 1}
      BY <1>3, <1>5, <3>1, <3>3 DEF TwoMaps
    <3>. HIDE DEF f, e
    <3>8. /\ elems' \in TwoMaps /\ elems'[m][s] = f
          /\ \A q \in {0, 1}, r \in Slots : <<q, r>> # <<m, s>> => elems'[q][r] = elems[q][r]
      <4>1. elems'[m] \in [Slots -> MapElements] /\ elems'[m][s] = f
        BY <1>3, <1>5, <3>5, <3>7 DEF TwoMaps
      <4>2. \A q \in {0, 1} : elems'[q] \in [Slots -> MapElements]
        BY <1>3, <3>7, <4>1 DEF TwoMaps
      <4>3. elems' = [q \in {0, 1} |-> elems'[q]]
        BY <1>3, <1>5, <3>1 DEF TwoMaps
      <4>4. elems' \in TwoMaps
        BY <4>2, <4>3 DEF TwoMaps
      <4>5. \A q \in {0, 1}, r \in Slots : <<q, r>> # <<m, s>> => elems'[q][r] = elems[q][r]
        BY <1>5, <3>7
      <4>. QED
        BY <4>1, <4>4, <4>5
    <3>9. \A r \in Slots : elems[m][r].key = k => r = s
      BY <1>6, <3>3
    <3>10. f.key = k /\ e = elems[m][s]
      BY <3>2, <3>5 DEF e
    <3>11. MadeAt(elems, elems', c, m, s, f, k)
      BY <1>5, <3>2, <3>5, <3>8, <3>9, <3>10 DEF MadeAt
    <3>. QED
      BY <1>8, <3>1, <3>2, <3>5, <3>6, <3>10, <3>11
  <2>. QED
    BY <2>1, <2>2
<1>10. PICK s \in Slots, f \in MapElements :
         /\ MadeAt(elems, elems', c, m, s, f, k)
         /\ LET n == IF zero THEN 0 ELSE 1
            IN  \/ elems[m][s].key = k /\ CountIn(f) = CountIn(elems[m][s]) + n
                \/ elems[m][s].key = NoKey /\ CountIn(f) = n
  BY <1>9
<1>11. HandlerSees(g, elems', active, InsertsOwn, c)
  <2>1. CASE ~zero
    BY <2>1, IdleTyped DEF g
  <2>2. CASE zero
    <3>1. elems'[m][s].key = k
      BY <1>10 DEF MadeAt
    <3>. QED
      BY <1>5, <1>7, <2>2, <3>1 DEF HandlerSees
  <2>. QED
    BY <2>1, <2>2
<1>12. /\ MapsShape' /\ ReaderKnows' /\ OneOfKey' /\ HandlersKnow' /\ DropsKnown' /\ handler'[c] = g
       /\ \A d \in Cpus \ {c} : handler'[d] = handler[d]
  <2>1. handler' = [handler EXCEPT ![c] = g] /\ MadeAt(elems, elems', c, m, s, f, k)
    BY <1>1, <1>10
  <2>. QED
    BY <1>2, <1>7, <1>11, <2>1, MadeKeeps
<1>13. CountsBounded'
  <2>1. elems' \in TwoMaps
    BY <1>10 DEF MadeAt
  <2>2. handler[c].at # "idle"
    BY <1>1 DEF h
  <2>3. CASE ~zero
    <3>1. <<m, s>> \in MapPlaces /\ Raised(elems, elems', <<m, s>>, k, 1)
      BY <1>10, <2>3, RaisedIfMade
    <3>2. h.late \/ m = active
      BY <1>5
    <3>3. \E q \in MapPlaces, r \in MapKeys :
            /\ Raised(elems, elems', q, r, 1)
            /\ handler[c].late \/ (q[1] = active /\ r = handler[c].key)
      <4>1. <<m, s>>[1] = m
        OBVIOUS
      <4>. QED
        BY <1>5, <3>1, <3>2, <4>1 DEF h, k
    <3>4. handler' = [handler EXCEPT ![c] = Idle]
      BY <1>1, <2>3 DEF g
    <3>. QED
      BY <1>2, <2>1, <2>2, <3>3, <3>4, EndKeepsBounds
  <2>4. CASE zero
    <3>1. <<m, s>> \in MapPlaces /\ Raised(elems, elems', <<m, s>>, k, 0)
      BY <1>10, <2>4, RaisedIfMade
    <3>2. SameWeights(elems, elems')
      <4>. SUFFICES ASSUME NEW T, NEW r \in MapKeys PROVE InPlaces(elems', T, r) = InPlaces(elems, T, r)
        BY DEF SameWeights
      <4>1. InPlaces(elems', T, r) = InPlaces(elems, T, r) + (IF r = k /\ <<m, s>> \in T THEN 0 ELSE 0)
        BY <1>3, <1>5, <2>1, <3>1, RaisedPlaces
      <4>2. InPlaces(elems, T, r) \in Nat
        BY <1>3, WeightsTyped
      <4>. QED
        BY <4>1, <4>2
    <3>3. g.at # "idle" /\ g.key = h.key /\ g.late = h.late /\ h.at # "idle"
      BY <1>1, <1>7, <2>4 DEF k
    <3>4. AsBusy(handler, handler') /\ \A d \in Cpus : handler[d].late = handler'[d].late
      BY <1>12, <3>3 DEF AsBusy, h
    <3>. QED
      BY <1>2, <2>1, <3>2, <3>4, StayKeepsBounds
  <2>. QED
    BY <2>3, <2>4
<1>. QED
  BY <1>12, <1>13 DEF MapsInv
-----------------------------------------------------------------------------
(* The steps of the reader. *)

LEMMA AccountAt ==
    ASSUME NEW E \in TwoMaps, NEW T, NEW H, NEW R \in KeyCounts, NEW F \in KeyCounts, NEW k \in MapKeys
    PROVE  /\ Account(E, T, H, R, F)[k] = R[k] + InPlaces(E, T, k) + Underway(H, k) + F[k]
           /\ R[k] \in Nat /\ InPlaces(E, T, k) \in Nat /\ F[k] \in Nat /\ Underway(H, k) \in Nat
<1>1. Account(E, T, H, R, F)[k] = R[k] + InPlaces(E, T, k) + Underway(H, k) + F[k]
  BY DEF Account
<1>2. R[k] \in Nat /\ InPlaces(E, T, k) \in Nat /\ F[k] \in Nat /\ Underway(H, k) \in Nat
  BY WeightsTyped, HandlersCounted DEF KeyCounts
<1>. QED
  BY <1>1, <1>2

\* What a step of the reader adds to the rows it takes from the places.
LEMMA ReaderKeepsBounds ==
    ASSUME MapsInv, UNCHANGED <<handler, hits, refused, straddled>>, elems' \in TwoMaps, rows' \in KeyCounts,
           \A k \in MapKeys :
             /\ rows[k] + InPlaces(elems, SurePlaces, k) <= rows'[k] + InPlaces(elems', SurePlaces', k)
             /\ rows'[k] + InPlaces(elems', LikelyPlaces', k) <= rows[k] + InPlaces(elems, LikelyPlaces, k)
    PROVE  CountsBounded'
<1>. DEFINE S == Account(elems, SurePlaces, handler, rows, refused)
            L == Account(elems, LikelyPlaces, handler, rows, refused)
            S2 == Account(elems', SurePlaces', handler, rows', refused)
            L2 == Account(elems', LikelyPlaces', handler, rows', refused)
            u == straddled - LateCount(handler)
<1>1. elems \in TwoMaps /\ rows \in KeyCounts /\ refused \in KeyCounts
  BY DEF MapsInv, MapsShape
<1>2. Sure = S /\ Likely = L /\ Sure' = S2 /\ Likely' = L2
  BY DEF Sure, Likely, SurePlaces, LikelyPlaces
<1>3. S2 \in KeyCounts /\ L2 \in KeyCounts
  BY <1>1, AccountTyped
<1>4. ASSUME NEW k \in MapKeys PROVE S[k] <= S2[k] /\ L2[k] <= L[k]
  <2>0. ASSUME NEW T
        PROVE  /\ Account(elems, T, handler, rows, refused)[k] =
                    rows[k] + InPlaces(elems, T, k) + Underway(handler, k) + refused[k]
               /\ rows[k] \in Nat /\ InPlaces(elems, T, k) \in Nat /\ refused[k] \in Nat
               /\ Underway(handler, k) \in Nat
    <3>1. Account(elems, T, handler, rows, refused)[k] =
                    rows[k] + InPlaces(elems, T, k) + Underway(handler, k) + refused[k]
      BY DEF Account
    <3>2. rows[k] \in Nat /\ refused[k] \in Nat
      BY <1>1 DEF KeyCounts
    <3>3. InPlaces(elems, T, k) \in Nat /\ Underway(handler, k) \in Nat
      BY <1>1, WeightsTyped, HandlersCounted
    <3>. QED
      BY <3>1, <3>2, <3>3
  <2>1. /\ S[k] = rows[k] + InPlaces(elems, SurePlaces, k) + Underway(handler, k) + refused[k]
        /\ rows[k] \in Nat /\ InPlaces(elems, SurePlaces, k) \in Nat /\ refused[k] \in Nat
        /\ Underway(handler, k) \in Nat
    BY <2>0
  <2>2. /\ S2[k] = rows'[k] + InPlaces(elems', SurePlaces', k) + Underway(handler, k) + refused[k]
        /\ rows'[k] \in Nat /\ InPlaces(elems', SurePlaces', k) \in Nat
    BY <1>1, AccountAt
  <2>3. /\ L[k] = rows[k] + InPlaces(elems, LikelyPlaces, k) + Underway(handler, k) + refused[k]
        /\ InPlaces(elems, LikelyPlaces, k) \in Nat
    BY <1>1, AccountAt
  <2>4. /\ L2[k] = rows'[k] + InPlaces(elems', LikelyPlaces', k) + Underway(handler, k) + refused[k]
        /\ InPlaces(elems', LikelyPlaces', k) \in Nat
    BY <1>1, AccountAt
  <2>5. /\ rows[k] + InPlaces(elems, SurePlaces, k) <= rows'[k] + InPlaces(elems', SurePlaces', k)
        /\ rows'[k] + InPlaces(elems', LikelyPlaces', k) <= rows[k] + InPlaces(elems, LikelyPlaces, k)
    OBVIOUS
  <2>. HIDE DEF S, L, S2, L2
  <2>. QED
    BY <2>1, <2>2, <2>3, <2>4, <2>5
<1>5. Bounded(S, L, hits, u)
  BY <1>2 DEF MapsInv, CountsBounded
<1>6. CountsBounded' <=> Bounded(S2, L2, hits, u)
  BY <1>2 DEF CountsBounded
<1>7. Bounded(S2, L2, hits, u)
  <2>. HIDE DEF S, L, S2, L2, u
  <2>. QED
    BY <1>3, <1>4, <1>5, BoundsHold
<1>. QED
  BY <1>6, <1>7

\* The rows stay.
LEMMA PlacesKeepBounds ==
    ASSUME MapsInv, UNCHANGED <<handler, hits, refused, straddled, rows>>, elems' \in TwoMaps,
           \A k \in MapKeys, p \in MapPlaces :
             /\ Weights(elems, SurePlaces, k)[p] <= Weights(elems', SurePlaces', k)[p]
             /\ Weights(elems', LikelyPlaces', k)[p] <= Weights(elems, LikelyPlaces, k)[p]
    PROVE  CountsBounded'
<1>1. elems \in TwoMaps /\ rows \in KeyCounts
  BY DEF MapsInv, MapsShape
<1>2. ASSUME NEW k \in MapKeys
      PROVE  /\ rows[k] + InPlaces(elems, SurePlaces, k) <= rows'[k] + InPlaces(elems', SurePlaces', k)
             /\ rows'[k] + InPlaces(elems', LikelyPlaces', k) <= rows[k] + InPlaces(elems, LikelyPlaces, k)
  <2>1. InPlaces(elems, SurePlaces, k) <= InPlaces(elems', SurePlaces', k)
    BY <1>1, PlacesGrow
  <2>2. InPlaces(elems', LikelyPlaces', k) <= InPlaces(elems, LikelyPlaces, k)
    BY <1>1, PlacesGrow
  <2>3. /\ InPlaces(elems, SurePlaces, k) \in Nat /\ InPlaces(elems', SurePlaces', k) \in Nat
        /\ InPlaces(elems, LikelyPlaces, k) \in Nat /\ InPlaces(elems', LikelyPlaces', k) \in Nat
    BY <1>1, WeightsTyped
  <2>4. rows[k] \in Nat /\ rows'[k] = rows[k]
    BY <1>1 DEF KeyCounts
  <2>. QED
    BY <2>1, <2>2, <2>3, <2>4
<1>. QED
  BY <1>1, <1>2, ReaderKeepsBounds

\* Nothing is read: every place may yet be.
LEMMA AllPlaces ==
    ASSUME reader.at \notin {"reading", "deleting", "clearing"}
    PROVE  SurePlaces = MapPlaces /\ LikelyPlaces = MapPlaces
BY DEF SurePlaces, LikelyPlaces, SureOf, LikelyOf

LEMMA PlaceOfMap ==
    /\ \A p \in MapPlaces : p = <<p[1], p[2]>> /\ p[1] \in {0, 1} /\ p[2] \in Slots
    /\ \A m \in {0, 1}, s \in Slots : <<m, s>> \in MapPlaces
BY DEF MapPlaces

\* What the elements and handlers say is left by a step that changes none.
LEMMA SameElements ==
    ASSUME MapsInv, UNCHANGED <<elems, handler, active, tool>> PROVE OneOfKey' /\ HandlersKnow'
<1>1. OneOfKey'
  BY DEF MapsInv, OneOfKey
<1>2. HandlersKnow'
  BY DEF MapsInv, HandlersKnow, InsertsOwn
<1>. QED
  BY <1>1, <1>2

\* An element of the map that is not active is deleted.
LEMMA DeletionKeeps ==
    ASSUME MapsInv, UNCHANGED <<handler, active, tool>>, NEW m \in {0, 1}, m # active, NEW s \in Slots,
           elems' = [elems EXCEPT ![m][s] = Free]
    PROVE  /\ OneOfKey' /\ HandlersKnow' /\ elems' \in TwoMaps
           /\ elems'[m][s] = Free /\ <<m, s>> \in MapPlaces
           /\ \A p \in MapPlaces \ {<<m, s>>} : elems'[p[1]][p[2]] = elems[p[1]][p[2]]
<1>1. elems \in TwoMaps /\ active \in {0, 1}
  BY DEF MapsInv, MapsShape
<1>2. /\ elems' \in TwoMaps /\ elems'[m][s] = Free
      /\ \A n \in {0, 1}, r \in Slots : <<n, r>> # <<m, s>> => elems'[n][r] = elems[n][r]
  BY <1>1, FreeCounts DEF TwoMaps
<1>3. OneOfKey'
  BY <1>2, FreeCounts DEF MapsInv, OneOfKey
<1>4. HandlersKnow'
  <2>. SUFFICES ASSUME NEW c \in Cpus PROVE HandlerSees(handler[c], elems', active, InsertsOwn, c)
    BY DEF HandlersKnow, InsertsOwn
  <2>. DEFINE h == handler[c]  own == InsertsOwn
  <2>1. HandlerSees(h, elems, active, own, c) /\ h.map \in {0, 1} /\ h.slot \in Slots \cup {0}
    BY DEF MapsInv, MapsShape, HandlersKnow, MapHandlers
  <2>. HIDE DEF h, own
  <2>2. h.at # "idle" => h.key \in MapKeys /\ h.key # NoKey
    BY <2>1, NoKeyIsNone DEF HandlerSees
  <2>3. \A r \in Slots : elems'[active][r] = elems[active][r]
    BY <1>1, <1>2
  <2>4. ASSUME h.at = "insert", own, NEW r \in Slots, elems'[h.map][r].key = h.key
        PROVE  elems'[h.map][r].count[c] = 0
    <3>1. <<h.map, r>> # <<m, s>>
      BY <1>2, <2>2, <2>4, FreeCounts
    <3>2. elems'[h.map][r] = elems[h.map][r]
      BY <1>2, <2>1, <3>1
    <3>. QED
      BY <2>1, <2>4, <3>2 DEF HandlerSees
  <2>. QED
    BY <2>1, <2>3, <2>4 DEF HandlerSees, h, own
<1>5. <<m, s>> \in MapPlaces /\ \A p \in MapPlaces \ {<<m, s>>} : elems'[p[1]][p[2]] = elems[p[1]][p[2]]
  BY <1>2, PlaceOfMap
<1>. QED
  BY <1>2, <1>3, <1>4, <1>5

\* The reader is in the map that is not active, and has not read the drops.
LEMMA ReaderIsAside ==
    ASSUME MapsInv, reader.at \in {"reading", "deleting", "clearing"}
    PROVE  reader.map \in {0, 1} /\ reader.map # active /\ reader.map = 1 - active
<1>1. active \in {0, 1} /\ reader.map = 1 - active
  BY DEF MapsInv, MapsShape, ReaderKnows
<1>. QED
  BY <1>1

LEMMA DropsStay ==
    ASSUME MapsInv, UNCHANGED <<reported, drops, refused>>, reader.at # "drops" PROVE DropsKnown'
BY DEF MapsInv, DropsKnown

LEMMA RestKeeps ==
    ASSUME MapsInv, UNCHANGED <<tool, take, active, elems, drops, handler, seen, must, rows, hits, refused,
                                straddled, reported>>,
           reader' \in MapReaders, reader.at \notin {"reading", "deleting", "clearing", "drops"},
           reader'.at \in {"sleeping", "ended"}
    PROVE  MapsInv'
<1>1. MapsShape' /\ ReaderKnows'
  BY DEF MapsInv, MapsShape, ReaderKnows
<1>2. DropsKnown'
  BY DropsStay
<1>3. SurePlaces = MapPlaces /\ LikelyPlaces = MapPlaces /\ SurePlaces' = MapPlaces /\ LikelyPlaces' = MapPlaces
  BY AllPlaces DEF SurePlaces, LikelyPlaces, SureOf, LikelyOf
<1>4. Sure' = Sure /\ Likely' = Likely
  <2>1. /\ Sure = Account(elems, SurePlaces, handler, rows, refused)
        /\ Likely = Account(elems, LikelyPlaces, handler, rows, refused)
        /\ Sure' = Account(elems, SurePlaces', handler, rows, refused)
        /\ Likely' = Account(elems, LikelyPlaces', handler, rows, refused)
    BY DEF Sure, Likely, SurePlaces, LikelyPlaces
  <2>. QED
    BY <1>3, <2>1
<1>5. CountsBounded'
  BY <1>4 DEF MapsInv, CountsBounded
<1>. QED
  BY <1>1, <1>2, <1>5, SameElements DEF MapsInv

LEMMA ConfigureKeeps == ASSUME MapsInv, Configure \/ Exit PROVE MapsInv'
<1>1. reader \in MapReaders
  BY DEF MapsInv, MapsShape
<1>2. PICK at \in {"sleeping", "ended"} : reader' = [reader EXCEPT !.at = at]
  BY DEF Configure, Exit
<1>3. reader' \in MapReaders /\ reader'.at = at
  BY <1>1, <1>2 DEF MapReaders
<1>4. reader.at \in {"attached", "sleeping"}
  BY DEF Configure, Exit
<1>5. UNCHANGED <<tool, take, active, elems, drops, handler, seen, must, rows, hits, refused, straddled, reported>>
  BY DEF Configure, Exit, fixed, kernel
<1>. QED
  BY <1>3, <1>4, <1>5, RestKeeps

LEMMA MapSwapKeeps == ASSUME MapsInv, Swap PROVE MapsInv'
<1>. DEFINE late == Late(active)
<1>1. /\ active' = 1 - active /\ reader.at = "sleeping" /\ reader.left > 0
      /\ reader' = [reader EXCEPT !.at = "reading", !.map = active, !.left = @ - 1]
      /\ seen' = {} /\ must' = Used(active) /\ straddled' = straddled + Cardinality(late)
      /\ handler' = [c \in Cpus |-> [handler[c] EXCEPT !.late = @ \/ c \in late]]
      /\ UNCHANGED <<tool, take, elems, drops, hits, refused, rows, reported>>
  BY DEF Swap, BeginRead, fixed
<1>2. /\ reader \in MapReaders /\ handler \in [Cpus -> MapHandlers] /\ active \in {0, 1} /\ elems \in TwoMaps
      /\ straddled \in Nat
  BY DEF MapsInv, MapsShape
<1>3. /\ reader' \in MapReaders /\ reader'.at = "reading" /\ reader'.map = active
      /\ 1 - active \in {0, 1} /\ 1 - (1 - active) = active
  <2>1. reader.left \in Nat /\ reader.left - 1 \in Nat
    BY <1>1, <1>2 DEF MapReaders
  <2>2. 1 - active \in {0, 1} /\ 1 - (1 - active) = active
    BY <1>2
  <2>3. reader' \in MapReaders /\ reader'.at = "reading" /\ reader'.map = active
    BY <1>1, <1>2, <2>1 DEF MapReaders
  <2>. QED
    BY <2>2, <2>3
<1>4. late = {c \in Cpus : handler[c].at # "idle" /\ handler[c].map = active /\ ~handler[c].late}
  BY DEF Late
<1>5. late \subseteq Cpus /\ IsFiniteSet(late) /\ Cardinality(late) \in Nat
  BY <1>4, MapsFinite, FS_Subset, FS_CardinalityType
<1>. HIDE DEF late
<1>6. ASSUME NEW c \in Cpus
      PROVE  /\ handler'[c] \in MapHandlers /\ handler'[c].at = handler[c].at /\ handler'[c].key = handler[c].key
             /\ handler'[c].map = handler[c].map /\ handler'[c].slot = handler[c].slot
             /\ handler'[c].late <=> (handler[c].late \/ c \in late)
             /\ c \notin late => handler'[c] = handler[c]
  <2>1. handler[c] \in MapHandlers /\ handler'[c] = [handler[c] EXCEPT !.late = @ \/ c \in late]
    BY <1>1, <1>2
  <2>2. CASE c \in late
    <3>1. handler'[c] = [handler[c] EXCEPT !.late = TRUE]
      BY <2>1, <2>2 DEF MapHandlers
    <3>. QED
      BY <2>1, <2>2, <3>1 DEF MapHandlers
  <2>3. CASE c \notin late
    <3>1. handler'[c] = [handler[c] EXCEPT !.late = handler[c].late]
      BY <2>1, <2>3 DEF MapHandlers
    <3>. QED
      BY <2>1, <2>3, <3>1 DEF MapHandlers
  <2>. QED
    BY <2>2, <2>3
<1>7. MapsShape'
  <2>1. handler' \in [Cpus -> MapHandlers]
    BY <1>1, <1>6
  <2>2. must' \in SUBSET Slots /\ seen' \in SUBSET Slots
    BY <1>1 DEF Used
  <2>3. straddled' \in Nat
    BY <1>1, <1>2, <1>5
  <2>. QED
    BY <1>1, <1>3, <2>1, <2>2, <2>3 DEF MapsInv, MapsShape
<1>8. OneOfKey'
  BY <1>1 DEF MapsInv, OneOfKey
<1>9. HandlersKnow'
  <2>. SUFFICES ASSUME NEW c \in Cpus PROVE HandlerSees(handler'[c], elems, 1 - active, InsertsOwn, c)
    BY <1>1 DEF HandlersKnow, InsertsOwn
  <2>1. HandlerSees(handler[c], elems, active, InsertsOwn, c)
    BY DEF MapsInv, HandlersKnow
  <2>2. handler[c].at # "idle" => handler'[c].late
    BY <1>4, <1>6, <2>1 DEF HandlerSees
  <2>3. handler[c].at = "idle" => handler'[c] = handler[c]
    BY <1>4, <1>6
  <2>. HIDE DEF late
  <2>. QED
    BY <1>6, <2>1, <2>2, <2>3 DEF HandlerSees
<1>10. ReaderKnows'
  BY <1>1, <1>3 DEF MapsInv, ReaderKnows
<1>11. DropsKnown'
  BY <1>1, DropsStay
<1>12. CountsBounded'
  <2>1. LateCount(handler') = LateCount(handler) + Cardinality(late)
    <3>1. LateOnes(handler') = LateOnes(handler) \cup late
      BY <1>5, <1>6 DEF LateOnes
    <3>2. LateOnes(handler) \cap late = {}
      BY <1>4 DEF LateOnes
    <3>3. Cardinality(LateOnes(handler) \cup late) =
            Cardinality(LateOnes(handler)) + Cardinality(late) - Cardinality(LateOnes(handler) \cap late)
      BY <1>5, LateCounted, FS_Union
    <3>4. Cardinality(LateOnes(handler) \cap late) = 0
      BY <3>2, FS_EmptySet
    <3>5. Cardinality(LateOnes(handler)) \in Nat
      BY LateCounted DEF LateCount
    <3>. QED
      BY <1>5, <3>1, <3>3, <3>4, <3>5 DEF LateCount
  <2>2. straddled' - LateCount(handler') = straddled - LateCount(handler)
    BY <1>1, <1>2, <1>5, <2>1, LateCounted
  <2>3. ASSUME NEW k \in MapKeys, NEW p \in MapPlaces
        PROVE  /\ Weights(elems, SurePlaces', k)[p] = Weights(elems, SurePlaces, k)[p]
               /\ Weights(elems, LikelyPlaces', k)[p] = Weights(elems, LikelyPlaces, k)[p]
    <3>1. p \in SurePlaces /\ p \in LikelyPlaces
      BY <1>1, AllPlaces
    <3>2. p \in LikelyPlaces'
      BY <1>1, <1>3 DEF LikelyPlaces, LikelyOf
    <3>3. elems[p[1]][p[2]].key = k => p \in SurePlaces'
      <4>1. elems[p[1]][p[2]].key = k => p[2] \in Used(p[1])
        BY PlaceOfMap, NoKeyIsNone DEF Used, Room
      <4>. QED
        BY <1>1, <1>3, <4>1 DEF SurePlaces, SureOf
    <3>. QED
      BY <3>1, <3>2, <3>3 DEF Weights
  <2>4. ASSUME NEW k \in MapKeys
        PROVE  /\ InPlaces(elems, SurePlaces', k) = InPlaces(elems, SurePlaces, k)
               /\ InPlaces(elems, LikelyPlaces', k) = InPlaces(elems, LikelyPlaces, k)
    <3>1. /\ Weights(elems, SurePlaces', k) = Weights(elems, SurePlaces, k)
          /\ Weights(elems, LikelyPlaces', k) = Weights(elems, LikelyPlaces, k)
      <4>1. /\ Weights(elems, SurePlaces', k) \in [MapPlaces -> Nat]
            /\ Weights(elems, SurePlaces, k) \in [MapPlaces -> Nat]
            /\ Weights(elems, LikelyPlaces', k) \in [MapPlaces -> Nat]
            /\ Weights(elems, LikelyPlaces, k) \in [MapPlaces -> Nat]
        BY <1>2, WeightsTyped
      <4>. QED
        BY <2>3, <4>1
    <3>. QED
      BY <3>1 DEF InPlaces
  <2>5. \A c \in Cpus : (handler[c].at = "idle" <=> handler'[c].at = "idle") /\ handler[c].key = handler'[c].key
    BY <1>6
  <2>6. \A k \in MapKeys : Underway(handler', k) = Underway(handler, k)
    BY <2>5, HandlerStays
  <2>7. /\ Sure' = Account(elems, SurePlaces', handler', rows, refused)
        /\ Likely' = Account(elems, LikelyPlaces', handler', rows, refused)
        /\ Sure = Account(elems, SurePlaces, handler, rows, refused)
        /\ Likely = Account(elems, LikelyPlaces, handler, rows, refused)
    BY <1>1 DEF Sure, Likely, SurePlaces, LikelyPlaces
  <2>8. Sure' = Sure /\ Likely' = Likely
    BY <2>4, <2>6, <2>7 DEF Account
  <2>. QED
    BY <1>1, <2>2, <2>8 DEF MapsInv, CountsBounded
<1>. QED
  BY <1>7, <1>8, <1>9, <1>10, <1>11, <1>12 DEF MapsInv

LEMMA HaveReadKeeps == ASSUME MapsInv, HaveRead PROVE MapsInv'
<1>1. /\ reader.at = "reading" /\ must \subseteq seen
      /\ IF take = "passes"
         THEN reader' = [reader EXCEPT !.at = "clearing"] /\ must' = Used(reader.map)
         ELSE reader' = [reader EXCEPT !.at = "sleeping"] /\ must' = must
      /\ UNCHANGED <<tool, take, active, elems, drops, handler, hits, refused, seen, rows, straddled, reported>>
  BY DEF HaveRead, fixed, kernel
<1>2. reader \in MapReaders /\ elems \in TwoMaps
  BY DEF MapsInv, MapsShape
<1>3. /\ reader' \in MapReaders /\ reader'.map = reader.map
      /\ take = "passes" => reader'.at = "clearing"
      /\ take # "passes" => reader'.at = "sleeping"
  BY <1>1, <1>2 DEF MapReaders
<1>4. MapsShape'
  BY <1>1, <1>3 DEF MapsInv, MapsShape, Used
<1>5. ReaderKnows'
  BY <1>1, <1>3 DEF MapsInv, ReaderKnows
<1>6. DropsKnown'
  BY <1>1, DropsStay
<1>7. CountsBounded'
  <2>1. ASSUME NEW k \in MapKeys, NEW p \in MapPlaces
        PROVE  /\ Weights(elems, SurePlaces, k)[p] <= Weights(elems', SurePlaces', k)[p]
               /\ Weights(elems', LikelyPlaces', k)[p] <= Weights(elems, LikelyPlaces, k)[p]
    <3>1. p \in SurePlaces => p \in SurePlaces'
      BY <1>1, <1>3 DEF SurePlaces, SureOf
    <3>2. p \in LikelyPlaces' /\ elems[p[1]][p[2]].key = k => p \in LikelyPlaces
      <4>1. elems[p[1]][p[2]].key = k => p[2] \in Used(p[1])
        BY PlaceOfMap, NoKeyIsNone DEF Used, Room
      <4>. QED
        BY <1>1, <1>3, <4>1 DEF LikelyPlaces, LikelyOf
    <3>3. CountIn(elems[p[1]][p[2]]) \in Nat
      BY <1>2, WeightsTyped, CountTyped
    <3>. QED
      BY <1>1, <3>1, <3>2, <3>3 DEF Weights
  <2>2. elems' \in TwoMaps
    BY <1>1, <1>2
  <2>. QED
    BY <1>1, <2>1, <2>2, PlacesKeepBounds
<1>. QED
  BY <1>1, <1>4, <1>5, <1>6, <1>7, SameElements DEF MapsInv

LEMMA HaveClearedKeeps == ASSUME MapsInv, HaveCleared PROVE MapsInv'
<1>1. /\ reader.at = "clearing" /\ must = {}
      /\ reader' = [reader EXCEPT !.at = IF HandlerOf[tool].drops THEN "drops" ELSE "sleeping"]
      /\ reported' = IF HandlerOf[tool].drops THEN reported + drops ELSE reported
      /\ UNCHANGED <<tool, take, active, elems, drops, handler, hits, refused, seen, must, rows, straddled>>
  BY DEF HaveCleared, fixed, kernel
<1>2. reader \in MapReaders /\ elems \in TwoMaps /\ reported \in Nat /\ drops \in Nat
  BY DEF MapsInv, MapsShape
<1>3. /\ reader' \in MapReaders
      /\ \/ reader'.at = "drops" /\ reported' = reported + drops
         \/ reader'.at = "sleeping" /\ reported' = reported
  BY <1>1, <1>2 DEF MapReaders
<1>4. MapsShape'
  BY <1>1, <1>2, <1>3 DEF MapsInv, MapsShape
<1>5. ReaderKnows'
  BY <1>1, <1>3 DEF MapsInv, ReaderKnows
<1>6. DropsKnown'
  BY <1>1, <1>3 DEF MapsInv, DropsKnown
<1>7. CountsBounded'
  <2>1. ASSUME NEW k \in MapKeys, NEW p \in MapPlaces
        PROVE  /\ Weights(elems, SurePlaces, k)[p] <= Weights(elems', SurePlaces', k)[p]
               /\ Weights(elems', LikelyPlaces', k)[p] <= Weights(elems, LikelyPlaces, k)[p]
    <3>1. p \in SurePlaces'
      BY <1>3 DEF SurePlaces, SureOf
    <3>2. p \in LikelyPlaces
      BY <1>1 DEF LikelyPlaces, LikelyOf
    <3>3. CountIn(elems[p[1]][p[2]]) \in Nat
      BY <1>2, WeightsTyped, CountTyped
    <3>. QED
      BY <1>1, <3>1, <3>2, <3>3 DEF Weights
  <2>2. elems' \in TwoMaps
    BY <1>1, <1>2
  <2>. QED
    BY <1>1, <2>1, <2>2, PlacesKeepBounds
<1>. QED
  BY <1>1, <1>4, <1>5, <1>6, <1>7, SameElements DEF MapsInv

LEMMA ResetDropsKeeps == ASSUME MapsInv, ResetDrops PROVE MapsInv'
<1>1. /\ reader.at = "drops" /\ reader' = [reader EXCEPT !.at = "sleeping"] /\ drops' = 0
      /\ UNCHANGED <<tool, take, active, elems, handler, hits, refused, seen, must, rows, straddled, reported>>
  BY DEF ResetDrops, fixed
<1>2. reader \in MapReaders /\ elems \in TwoMaps /\ reported \in Nat
  BY DEF MapsInv, MapsShape
<1>3. reader' \in MapReaders /\ reader'.at = "sleeping"
  BY <1>1, <1>2 DEF MapReaders
<1>4. MapsShape' /\ ReaderKnows'
  BY <1>1, <1>3 DEF MapsInv, MapsShape, ReaderKnows
<1>5. DropsKnown'
  BY <1>1, <1>2 DEF MapsInv, DropsKnown
<1>6. CountsBounded'
  <2>1. ASSUME NEW k \in MapKeys, NEW p \in MapPlaces
        PROVE  /\ Weights(elems, SurePlaces, k)[p] <= Weights(elems', SurePlaces', k)[p]
               /\ Weights(elems', LikelyPlaces', k)[p] <= Weights(elems, LikelyPlaces, k)[p]
    <3>1. p \in SurePlaces' /\ p \in SurePlaces /\ p \in LikelyPlaces' /\ p \in LikelyPlaces
      BY <1>1, <1>3 DEF SurePlaces, SureOf, LikelyPlaces, LikelyOf
    <3>2. CountIn(elems[p[1]][p[2]]) \in Nat
      BY <1>2, WeightsTyped, CountTyped
    <3>. QED
      BY <1>1, <3>1, <3>2 DEF Weights
  <2>2. elems' \in TwoMaps
    BY <1>1, <1>2
  <2>. QED
    BY <1>1, <2>1, <2>2, PlacesKeepBounds
<1>. QED
  BY <1>1, <1>4, <1>5, <1>6, SameElements DEF MapsInv

\* The element in place o is deleted; the other places are as they were.
DeletedAt(E, E2, T, T2, o) ==
    /\ E \in TwoMaps /\ E2 \in TwoMaps /\ E2[o[1]][o[2]] = Free
    /\ \A p \in MapPlaces \ {o} : E2[p[1]][p[2]] = E[p[1]][p[2]] /\ (p \in T <=> p \in T2)

LEMMA DeletedWeights ==
    ASSUME NEW E, NEW E2, NEW T, NEW T2, NEW o, DeletedAt(E, E2, T, T2, o), NEW k \in MapKeys, NEW p \in MapPlaces
    PROVE  /\ p # o => Weights(E2, T2, k)[p] = Weights(E, T, k)[p]
           /\ p = o => Weights(E2, T2, k)[p] = 0
           /\ p = o /\ p \notin T => Weights(E, T, k)[p] = 0
           /\ Weights(E, T, k)[p] \in Nat
<1>1. Weights(E, T, k)[p] \in Nat
  BY WeightsTyped DEF DeletedAt
<1>. QED
  BY <1>1, FreeCounts, NoKeyIsNone DEF Weights, DeletedAt

LEMMA DeleteKeeps == ASSUME MapsInv, Delete PROVE MapsInv'
<1>. DEFINE m == reader.map  s == reader.slot
<1>1. /\ reader.at = "deleting" /\ elems' = [elems EXCEPT ![m][s] = Free]
      /\ reader' = [reader EXCEPT !.at = "reading"]
      /\ UNCHANGED <<tool, take, active, drops, handler, hits, refused, seen, must, rows, straddled, reported>>
  BY DEF Delete, fixed
<1>2. reader \in MapReaders /\ elems \in TwoMaps /\ take = "each" /\ s \in seen /\ seen \subseteq Slots
  BY <1>1 DEF MapsInv, MapsShape, ReaderKnows
<1>3. m \in {0, 1} /\ m # active /\ m = 1 - active /\ s \in Slots
  BY <1>1, <1>2, ReaderIsAside
<1>4. reader' \in MapReaders /\ reader'.at = "reading" /\ reader'.map = m
  BY <1>1, <1>2 DEF MapReaders
<1>. HIDE DEF m, s
<1>5. /\ OneOfKey' /\ HandlersKnow' /\ elems' \in TwoMaps /\ elems'[m][s] = Free /\ <<m, s>> \in MapPlaces
      /\ \A p \in MapPlaces \ {<<m, s>>} : elems'[p[1]][p[2]] = elems[p[1]][p[2]]
  BY <1>1, <1>3, DeletionKeeps
<1>6. MapsShape'
  BY <1>1, <1>4, <1>5 DEF MapsInv, MapsShape
<1>7. ReaderKnows' /\ DropsKnown'
  BY <1>1, <1>3, <1>4, DropsStay DEF ReaderKnows
<1>8. CountsBounded'
  <2>1. \A p \in MapPlaces \ {<<m, s>>} : (p \in SurePlaces <=> p \in SurePlaces') /\ (p \in LikelyPlaces <=> p \in LikelyPlaces')
    <3>. SUFFICES ASSUME NEW p \in MapPlaces, p # <<m, s>>
                  PROVE  (p \in SurePlaces <=> p \in SurePlaces') /\ (p \in LikelyPlaces <=> p \in LikelyPlaces')
      OBVIOUS
    <3>1. p[1] = m => p[2] # s
      BY PlaceOfMap
    <3>. QED
      BY <1>1, <1>2, <1>4, <3>1 DEF SurePlaces, SureOf, LikelyPlaces, LikelyOf, m, s
  <2>2. <<m, s>> \notin SurePlaces
    BY <1>1, <1>2 DEF SurePlaces, SureOf, m, s
  <2>3. ASSUME NEW k \in MapKeys, NEW p \in MapPlaces
        PROVE  /\ Weights(elems, SurePlaces, k)[p] <= Weights(elems', SurePlaces', k)[p]
               /\ Weights(elems', LikelyPlaces', k)[p] <= Weights(elems, LikelyPlaces, k)[p]
    <3>0. /\ DeletedAt(elems, elems', SurePlaces, SurePlaces', <<m, s>>)
          /\ DeletedAt(elems, elems', LikelyPlaces, LikelyPlaces', <<m, s>>)
      BY <1>2, <1>5, <2>1 DEF DeletedAt
    <3>1. /\ p # <<m, s>> => Weights(elems', SurePlaces', k)[p] = Weights(elems, SurePlaces, k)[p]
          /\ p = <<m, s>> => Weights(elems, SurePlaces, k)[p] = 0 /\ Weights(elems', SurePlaces', k)[p] = 0
          /\ Weights(elems, SurePlaces, k)[p] \in Nat
      BY <2>2, <3>0, DeletedWeights
    <3>2. /\ p # <<m, s>> => Weights(elems', LikelyPlaces', k)[p] = Weights(elems, LikelyPlaces, k)[p]
          /\ p = <<m, s>> => Weights(elems', LikelyPlaces', k)[p] = 0
          /\ Weights(elems, LikelyPlaces, k)[p] \in Nat
      BY <3>0, DeletedWeights
    <3>. QED
      BY <3>1, <3>2
  <2>. QED
    BY <1>1, <1>5, <2>3, PlacesKeepBounds
<1>. QED
  BY <1>5, <1>6, <1>7, <1>8 DEF MapsInv

LEMMA ClearKeeps == ASSUME MapsInv, NEW s \in Slots, Clear(s) PROVE MapsInv'
<1>. DEFINE m == reader.map
<1>1. /\ reader.at = "clearing" /\ elems' = [elems EXCEPT ![m][s] = Free] /\ must' = must \ {s}
      /\ UNCHANGED <<tool, take, active, drops, handler, reader, hits, refused, seen, rows, straddled, reported>>
  BY DEF Clear, fixed
<1>2. elems \in TwoMaps
  BY DEF MapsInv, MapsShape
<1>3. m \in {0, 1} /\ m # active
  BY <1>1, ReaderIsAside
<1>. HIDE DEF m
<1>4. /\ OneOfKey' /\ HandlersKnow' /\ elems' \in TwoMaps /\ elems'[m][s] = Free /\ <<m, s>> \in MapPlaces
      /\ \A p \in MapPlaces \ {<<m, s>>} : elems'[p[1]][p[2]] = elems[p[1]][p[2]]
  BY <1>1, <1>3, DeletionKeeps
<1>5. MapsShape'
  BY <1>1, <1>4 DEF MapsInv, MapsShape
<1>6. ReaderKnows' /\ DropsKnown'
  BY <1>1, DropsStay DEF MapsInv, ReaderKnows
<1>7. CountsBounded'
  <2>1. \A p \in MapPlaces \ {<<m, s>>} : (p \in SurePlaces <=> p \in SurePlaces') /\ (p \in LikelyPlaces <=> p \in LikelyPlaces')
    <3>. SUFFICES ASSUME NEW p \in MapPlaces, p # <<m, s>>
                  PROVE  (p \in SurePlaces <=> p \in SurePlaces') /\ (p \in LikelyPlaces <=> p \in LikelyPlaces')
      OBVIOUS
    <3>1. p[1] = m => p[2] # s
      BY PlaceOfMap
    <3>. QED
      BY <1>1, <3>1 DEF SurePlaces, SureOf, LikelyPlaces, LikelyOf, m
  <2>2. <<m, s>> \notin SurePlaces
    BY <1>1 DEF SurePlaces, SureOf, m
  <2>3. ASSUME NEW k \in MapKeys, NEW p \in MapPlaces
        PROVE  /\ Weights(elems, SurePlaces, k)[p] <= Weights(elems', SurePlaces', k)[p]
               /\ Weights(elems', LikelyPlaces', k)[p] <= Weights(elems, LikelyPlaces, k)[p]
    <3>0. /\ DeletedAt(elems, elems', SurePlaces, SurePlaces', <<m, s>>)
          /\ DeletedAt(elems, elems', LikelyPlaces, LikelyPlaces', <<m, s>>)
      BY <1>2, <1>4, <2>1 DEF DeletedAt
    <3>1. /\ p # <<m, s>> => Weights(elems', SurePlaces', k)[p] = Weights(elems, SurePlaces, k)[p]
          /\ p = <<m, s>> => Weights(elems, SurePlaces, k)[p] = 0 /\ Weights(elems', SurePlaces', k)[p] = 0
          /\ Weights(elems, SurePlaces, k)[p] \in Nat
      BY <2>2, <3>0, DeletedWeights
    <3>2. /\ p # <<m, s>> => Weights(elems', LikelyPlaces', k)[p] = Weights(elems, LikelyPlaces, k)[p]
          /\ p = <<m, s>> => Weights(elems', LikelyPlaces', k)[p] = 0
          /\ Weights(elems, LikelyPlaces, k)[p] \in Nat
      BY <3>0, DeletedWeights
    <3>. QED
      BY <3>1, <3>2
  <2>. QED
    BY <1>1, <1>4, <2>3, PlacesKeepBounds
<1>. QED
  BY <1>4, <1>5, <1>6, <1>7 DEF MapsInv

\* What is read of the element in place o: its count, of its key.
LEMMA TakenPlaces ==
    ASSUME NEW E \in TwoMaps, NEW T, NEW E2 \in TwoMaps, NEW T2, NEW o \in MapPlaces, NEW k \in MapKeys,
           \A p \in MapPlaces \ {o} : Weights(E, T, k)[p] = Weights(E2, T2, k)[p],
           Weights(E2, T2, k)[o] = 0
    PROVE  InPlaces(E, T, k) = InPlaces(E2, T2, k) + Weights(E, T, k)[o]
<1>1. InPlaces(E2, T2, k) + Weights(E, T, k)[o] = InPlaces(E, T, k) + Weights(E2, T2, k)[o]
  BY PlaceChanges
<1>2. InPlaces(E, T, k) \in Nat /\ InPlaces(E2, T2, k) \in Nat /\ Weights(E, T, k)[o] \in Nat
  BY WeightsTyped
<1>. QED
  BY <1>1, <1>2

LEMMA TakeKeeps == ASSUME MapsInv, NEW s \in Slots, Take(s) PROVE MapsInv'
<1>. DEFINE m == reader.map  e == elems[m][s]  n == CountIn(e)  q == e.key  o == <<m, s>>
<1>1. /\ reader.at = "reading" /\ s \in Used(m) /\ s \notin seen /\ seen' = seen \cup {s}
      /\ rows' = [rows EXCEPT ![q] = @ + n]
      /\ reader' = IF take = "each" THEN [reader EXCEPT !.at = "deleting", !.slot = s] ELSE reader
      /\ elems' = IF take = "batch" THEN [elems EXCEPT ![m][s] = Free] ELSE elems
      /\ UNCHANGED <<tool, take, active, drops, handler, hits, refused, must, straddled, reported>>
  BY DEF Take, fixed
<1>2. /\ elems \in TwoMaps /\ rows \in KeyCounts /\ reader \in MapReaders /\ take \in {"batch", "passes", "each"}
      /\ seen \subseteq Slots
  BY DEF MapsInv, MapsShape
<1>3. m \in {0, 1} /\ m # active /\ m = 1 - active /\ o \in MapPlaces
  <2>1. m \in {0, 1} /\ m # active /\ m = 1 - active
    BY <1>1, ReaderIsAside
  <2>. QED
    BY <2>1, PlaceOfMap
<1>4. e \in MapElements /\ n \in Nat /\ q \in MapKeys
  <2>1. e \in MapElements
    BY <1>2, <1>3 DEF TwoMaps
  <2>2. q # NoKey
    BY <1>1 DEF Used, Room
  <2>. QED
    BY <2>1, <2>2, CountTyped DEF MapElements
<1>. HIDE DEF m, e, n, q, o
<1>5. /\ reader' \in MapReaders /\ reader'.map = m
      /\ take = "each" => reader'.at = "deleting" /\ reader'.slot = s
      /\ take # "each" => reader'.at = "reading"
  <2>1. CASE take = "each"
    BY <1>1, <1>2, <2>1 DEF MapReaders, m
  <2>2. CASE take # "each"
    BY <1>1, <1>2, <2>2 DEF m
  <2>. QED
    BY <2>1, <2>2
<1>6. rows' \in KeyCounts /\ \A k \in MapKeys : rows'[k] = rows[k] + (IF k = q THEN n ELSE 0)
  BY <1>1, <1>2, <1>4 DEF KeyCounts
<1>7. /\ OneOfKey' /\ HandlersKnow' /\ elems' \in TwoMaps
      /\ take = "batch" => elems'[m][s] = Free
      /\ \A p \in MapPlaces \ {o} : elems'[p[1]][p[2]] = elems[p[1]][p[2]]
  <2>1. CASE take = "batch"
    <3>1. elems' = [elems EXCEPT ![m][s] = Free]
      BY <1>1, <2>1
    <3>. QED
      BY <1>1, <1>3, <3>1, DeletionKeeps DEF o
  <2>2. CASE take # "batch"
    <3>1. elems' = elems
      BY <1>1, <2>2
    <3>. QED
      BY <1>1, <1>2, <2>2, <3>1, SameElements
  <2>. QED
    BY <2>1, <2>2
<1>8. MapsShape'
  <2>1. seen' \subseteq Slots
    BY <1>1, <1>2
  <2>. QED
    BY <1>1, <1>5, <1>6, <1>7, <2>1 DEF MapsInv, MapsShape
<1>9. ReaderKnows'
  <2>1. reader'.map = 1 - active'
    BY <1>1, <1>3, <1>5
  <2>2. reader'.at \in {"deleting", "reading"} /\ (reader'.at = "deleting" => take = "each" /\ reader'.slot = s)
    BY <1>2, <1>5
  <2>. QED
    BY <1>1, <2>1, <2>2 DEF ReaderKnows
<1>10. DropsKnown'
  <2>1. reader.at # "drops" /\ UNCHANGED <<reported, drops, refused>>
    BY <1>1
  <2>. QED
    BY <2>1, DropsStay
<1>11. \A p \in MapPlaces \ {o} : (p \in SurePlaces <=> p \in SurePlaces') /\ (p \in LikelyPlaces <=> p \in LikelyPlaces')
  <2>. SUFFICES ASSUME NEW p \in MapPlaces, p # o
                PROVE  (p \in SurePlaces <=> p \in SurePlaces') /\ (p \in LikelyPlaces <=> p \in LikelyPlaces')
    OBVIOUS
  <2>1. p[1] = m => p[2] # s
    BY PlaceOfMap DEF o
  <2>2. take' = take /\ must' = must /\ (p[1] = m => (p[2] \in seen <=> p[2] \in seen'))
    BY <1>1, <2>1
  <2>3. reader.at = "reading" /\ reader.map = m
    BY <1>1 DEF m
  <2>. QED
    BY <1>2, <1>5, <2>1, <2>2, <2>3 DEF SurePlaces, SureOf, LikelyPlaces, LikelyOf
<1>12. o[1] = m /\ o[2] = s
  BY DEF o
<1>13. /\ o \notin SurePlaces' /\ o \in LikelyPlaces
       /\ take # "batch" => o \notin LikelyPlaces'
  <2>1. reader.at = "reading" /\ reader.map = m /\ take' = take /\ s \in seen' /\ s \notin seen
    BY <1>1 DEF m
  <2>. QED
    BY <1>2, <1>3, <1>5, <1>12, <2>1 DEF SurePlaces, SureOf, LikelyPlaces, LikelyOf
<1>14. ASSUME NEW k \in MapKeys
       PROVE  /\ rows[k] + InPlaces(elems, SurePlaces, k) <= rows'[k] + InPlaces(elems', SurePlaces', k)
              /\ rows'[k] + InPlaces(elems', LikelyPlaces', k) <= rows[k] + InPlaces(elems, LikelyPlaces, k)
  <2>. DEFINE more == IF k = q THEN n ELSE 0
  <2>1. elems[o[1]][o[2]] = e
    BY <1>12 DEF e
  <2>2. \A p \in MapPlaces \ {o} : /\ Weights(elems, SurePlaces, k)[p] = Weights(elems', SurePlaces', k)[p]
                                   /\ Weights(elems, LikelyPlaces, k)[p] = Weights(elems', LikelyPlaces', k)[p]
    BY <1>7, <1>11 DEF Weights
  <2>3. Weights(elems', SurePlaces', k)[o] = 0 /\ Weights(elems', LikelyPlaces', k)[o] = 0
    <3>1. elems'[o[1]][o[2]].key = k => o \notin LikelyPlaces'
      BY <1>7, <1>12, <1>13, FreeCounts, NoKeyIsNone
    <3>. QED
      BY <1>3, <1>13, <3>1 DEF Weights
  <2>4. /\ Weights(elems, LikelyPlaces, k)[o] = more /\ Weights(elems, SurePlaces, k)[o] \in {0, more}
    BY <1>3, <1>13, <2>1 DEF Weights, n, q
  <2>5. /\ InPlaces(elems, SurePlaces, k) = InPlaces(elems', SurePlaces', k) + Weights(elems, SurePlaces, k)[o]
        /\ InPlaces(elems, LikelyPlaces, k) = InPlaces(elems', LikelyPlaces', k) + Weights(elems, LikelyPlaces, k)[o]
    BY <1>2, <1>3, <1>7, <2>2, <2>3, TakenPlaces
  <2>6. /\ InPlaces(elems', SurePlaces', k) \in Nat /\ InPlaces(elems', LikelyPlaces', k) \in Nat
    BY <1>7, WeightsTyped
  <2>7. rows[k] \in Nat /\ rows'[k] = rows[k] + more /\ more \in Nat
    BY <1>2, <1>4, <1>6 DEF KeyCounts
  <2>. HIDE DEF more
  <2>. QED
    BY <2>4, <2>5, <2>6, <2>7
<1>15. CountsBounded'
  BY <1>1, <1>6, <1>7, <1>14, ReaderKeepsBounds
<1>. QED
  BY <1>7, <1>8, <1>9, <1>10, <1>15 DEF MapsInv

LEMMA MapsStutterKeeps == ASSUME MapsInv, UNCHANGED maps_vars PROVE MapsInv'
<1>1. MapsShape' /\ ReaderKnows' /\ DropsKnown'
  BY DEF MapsInv, MapsShape, ReaderKnows, DropsKnown, maps_vars
<1>2. CountsBounded'
  BY DEF MapsInv, CountsBounded, Sure, Likely, maps_vars
<1>. QED
  BY <1>1, <1>2, SameElements DEF MapsInv, maps_vars

LEMMA MapsStepKeeps == ASSUME MapsInv, [MapsNext]_maps_vars PROVE MapsInv'
<1>1. ASSUME NEW c \in Cpus, HandlerStep(c) PROVE MapsInv'
  BY <1>1, HitKeeps, LookupKeeps, InsertKeeps, RefuseKeeps, AddKeeps DEF HandlerStep
<1>2. ASSUME ReaderStep PROVE MapsInv'
  BY <1>2, ConfigureKeeps, MapSwapKeeps, DeleteKeeps, HaveReadKeeps, HaveClearedKeeps, ResetDropsKeeps DEF ReaderStep
<1>3. ASSUME NEW s \in Slots, Take(s) \/ Clear(s) PROVE MapsInv'
  BY <1>3, TakeKeeps, ClearKeeps
<1>. QED
  BY <1>1, <1>2, <1>3, MapsStutterKeeps DEF MapsNext

\* The count of what is in the maps is that of the places that hold the key.
LEMMA InMapsIsInPlaces ==
    ASSUME MapsInv, NEW k \in MapKeys
    PROVE  /\ InMaps(k) = InPlaces(elems, Holding(k), k)
           /\ \A p \in MapPlaces : p \in Holding(k) <=>
                elems[p[1]][p[2]].key = k /\ (reader.at \in {"reading", "deleting", "clearing"} /\ p[1] = reader.map
                                               => p[2] \notin seen)
<1>. DEFINE T == Holding(k)  w == Weights(elems, T, k)  f == [p \in T |-> CountIn(elems[p[1]][p[2]])]
<1>1. elems \in TwoMaps
  BY DEF MapsInv, MapsShape
<1>2. T \in SUBSET MapPlaces /\ \A p \in T : elems[p[1]][p[2]].key = k
  BY DEF Holding, HasKey, MapPlaces
<1>3. \A p \in MapPlaces : p \in T <=>
         elems[p[1]][p[2]].key = k /\ (reader.at \in {"reading", "deleting", "clearing"} /\ p[1] = reader.map
                                        => p[2] \notin seen)
  <2>. SUFFICES ASSUME NEW p \in MapPlaces
                PROVE  p \in T <=>
                         elems[p[1]][p[2]].key = k /\
                         (reader.at \in {"reading", "deleting", "clearing"} /\ p[1] = reader.map => p[2] \notin seen)
    OBVIOUS
  <2>1. p \in T <=> p[2] \in HasKey(p[1], k) /\ p[2] \in Unread(p[1])
    BY DEF Holding, MapPlaces
  <2>2. p[2] \in HasKey(p[1], k) <=> elems[p[1]][p[2]].key = k
    BY PlaceOfMap DEF HasKey
  <2>3. elems[p[1]][p[2]].key = k => p[2] \in Used(p[1])
    BY PlaceOfMap, NoKeyIsNone DEF Used, Room
  <2>4. p[2] \in Unread(p[1]) <=> p[2] \in Used(p[1]) /\
          (reader.at \in {"reading", "deleting", "clearing"} /\ p[1] = reader.map => p[2] \notin seen)
    BY DEF Unread
  <2>. QED
    BY <2>1, <2>2, <2>3, <2>4
<1>4. w \in [MapPlaces -> Nat] /\ \A p \in MapPlaces : elems[p[1]][p[2]] \in MapElements
  BY <1>1, WeightsTyped
<1>5. f \in [T -> Nat] /\ \A p \in T : f[p] = w[p]
  BY <1>2, <1>4, CountTyped DEF Weights
<1>6. \A p \in MapPlaces \ T : w[p] = 0
  BY DEF Weights
<1>7. SumFunction(f) = SumFunction(w)
  <2>1. T \in SUBSET MapPlaces /\ w \in [MapPlaces -> Nat] /\ f \in [T -> Nat] /\ \A p \in T : f[p] = w[p]
    BY <1>2, <1>4, <1>5
  <2>2. IsFiniteSet(MapPlaces)
    BY MapsFinite
  <2>. HIDE DEF f, w, T
  <2>. QED
    BY <1>6, <2>1, <2>2, SumOfPart
<1>. QED
  BY <1>3, <1>7 DEF InMaps, InPlaces

LEMMA AccountedBetween ==
    ASSUME MapsInv, NEW k \in MapKeys
    PROVE  Accounted(k) \in Nat /\ Sure[k] <= Accounted(k) /\ Accounted(k) <= Likely[k]
<1>. DEFINE T == Holding(k)
<1>1. elems \in TwoMaps /\ rows \in KeyCounts /\ refused \in KeyCounts
  BY DEF MapsInv, MapsShape
<1>2. InMaps(k) = InPlaces(elems, T, k)
  BY InMapsIsInPlaces
<1>3. UnderWay(k) = Underway(handler, k)
  BY DEF UnderWay, Underway, HandlersOf
<1>4. Sure[k] = rows[k] + InPlaces(elems, SurePlaces, k) + Underway(handler, k) + refused[k]
  BY DEF Sure, Account, SurePlaces
<1>5. Likely[k] = rows[k] + InPlaces(elems, LikelyPlaces, k) + Underway(handler, k) + refused[k]
  BY DEF Likely, Account, LikelyPlaces
<1>6. /\ InPlaces(elems, T, k) \in Nat /\ InPlaces(elems, SurePlaces, k) \in Nat
      /\ InPlaces(elems, LikelyPlaces, k) \in Nat
  BY <1>1, WeightsTyped
<1>7. rows[k] \in Nat /\ refused[k] \in Nat /\ Underway(handler, k) \in Nat
  BY <1>1, HandlersCounted DEF KeyCounts
<1>8. ASSUME NEW p \in MapPlaces
      PROVE  /\ Weights(elems, SurePlaces, k)[p] <= Weights(elems, T, k)[p]
             /\ Weights(elems, T, k)[p] <= Weights(elems, LikelyPlaces, k)[p]
  <2>1. p \in T <=> elems[p[1]][p[2]].key = k /\
          (reader.at \in {"reading", "deleting", "clearing"} /\ p[1] = reader.map => p[2] \notin seen)
    BY InMapsIsInPlaces
  <2>2. p \in SurePlaces /\ elems[p[1]][p[2]].key = k => p \in T
    BY <2>1 DEF SurePlaces, SureOf
  <2>3. p \in T => p \in LikelyPlaces
    <3>1. reader.at = "deleting" => reader.slot \in seen
      BY DEF MapsInv, ReaderKnows
    <3>. QED
      BY <2>1, <3>1 DEF LikelyPlaces, LikelyOf
  <2>4. CountIn(elems[p[1]][p[2]]) \in Nat
    BY <1>1, WeightsTyped, CountTyped
  <2>. HIDE DEF T
  <2>. QED
    BY <2>2, <2>3, <2>4 DEF Weights
<1>9. /\ InPlaces(elems, SurePlaces, k) <= InPlaces(elems, T, k)
      /\ InPlaces(elems, T, k) <= InPlaces(elems, LikelyPlaces, k)
  <2>. HIDE DEF T
  <2>1. InPlaces(elems, SurePlaces, k) <= InPlaces(elems, T, k)
    BY <1>1, <1>8, PlacesGrow
  <2>2. InPlaces(elems, T, k) <= InPlaces(elems, LikelyPlaces, k)
    BY <1>1, <1>8, PlacesGrow
  <2>. QED
    BY <2>1, <2>2
<1>10. Accounted(k) = rows[k] + InPlaces(elems, T, k) + Underway(handler, k) + refused[k]
  BY <1>2, <1>3 DEF Accounted
<1>. HIDE DEF T
<1>. QED
  BY <1>4, <1>5, <1>6, <1>7, <1>9, <1>10

LEMMA MapsInvGivesCounts == ASSUME MapsInv PROVE MapsTypeOK /\ CountsKept
<1>1. MapsTypeOK
  <2>1. \A m \in {0, 1}, s \in Slots : elems[m][s].key \in MapKeys \cup {NoKey}
    BY DEF MapsInv, MapsShape, TwoMaps, MapElements
  <2>. QED
    BY <2>1 DEF MapsInv, MapsShape, MapsTypeOK
<1>. DEFINE A == [k \in MapKeys |-> Accounted(k)]  u == straddled - LateCount(handler)
<1>2. Bounded(Sure, Likely, hits, u)
  BY DEF MapsInv, CountsBounded
<1>3. A \in KeyCounts /\ \A k \in MapKeys : Sure[k] <= A[k] /\ A[k] <= Likely[k] /\ A[k] = Accounted(k)
  BY AccountedBetween DEF KeyCounts
<1>4. straddled \in Nat /\ u \in Nat /\ u <= straddled
  <2>1. straddled \in Nat /\ u \in Nat
    BY <1>2 DEF MapsInv, MapsShape, Bounded
  <2>2. LateCount(handler) \in Nat
    BY LateCounted
  <2>. QED
    BY <2>1, <2>2
<1>. HIDE DEF A, u, Sure, Likely
<1>5. Sure \in KeyCounts /\ Likely \in KeyCounts /\ hits \in KeyCounts
  BY <1>2 DEF Bounded
<1>6. SumFunction(Sure) <= SumFunction(A) /\ SumFunction(A) <= SumFunction(Likely)
  <2>1. SumFunction(Sure) <= SumFunction(A)
    BY <1>3, <1>5, MapsFinite, SumGrows DEF KeyCounts
  <2>2. SumFunction(A) <= SumFunction(Likely)
    BY <1>3, <1>5, MapsFinite, SumGrows DEF KeyCounts
  <2>. QED
    BY <2>1, <2>2
<1>7. /\ SumFunction(Sure) \in Nat /\ SumFunction(A) \in Nat /\ SumFunction(Likely) \in Nat
      /\ SumFunction(hits) \in Nat
  BY <1>3, <1>5, MapsFinite, SumTyped DEF KeyCounts
<1>8. SumFunction(hits) - SumFunction(A) \in 0..straddled
  <2>1. SumFunction(Likely) <= SumFunction(hits) /\ SumFunction(hits) <= SumFunction(Sure) + u
    BY <1>2 DEF Bounded
  <2>. QED
    BY <1>4, <1>6, <1>7, <2>1
<1>9. ASSUME NEW k \in MapKeys PROVE Accounted(k) - hits[k] \in -straddled..straddled
  <2>1. /\ Sure[k] \in Nat /\ Likely[k] \in Nat /\ hits[k] \in Nat /\ Accounted(k) \in Nat
        /\ Sure[k] <= Accounted(k) /\ Accounted(k) <= Likely[k]
    BY <1>3, <1>5 DEF KeyCounts
  <2>2. hits[k] <= Sure[k] + u /\ Likely[k] <= hits[k] + u
    BY <1>2 DEF Bounded
  <2>. QED
    BY <1>4, <2>1, <2>2
<1>10. reported <= SumFunction(refused)
  BY DEF MapsInv, DropsKnown
<1>. QED
  BY <1>1, <1>8, <1>9, <1>10 DEF CountsKept, A

\* For all CPUs, keys, programs and ways to read, however handlers and the
\* reader take turns over the two maps: a hit is emitted once under its own key,
\* is still to be read, or found no room, but for those of handlers that were
\* running when their map was made the one to read; and in all no more is
\* emitted than was hit.
THEOREM CountsOfMaps == MapsSpec => [](MapsTypeOK /\ CountsKept)
<1>1. MapsInit => MapsInv
  BY MapsInitEstablishes
<1>2. MapsInv /\ [MapsNext]_maps_vars => MapsInv'
  BY MapsStepKeeps
<1>3. MapsInv => MapsTypeOK /\ CountsKept
  BY MapsInvGivesCounts
<1>. QED
  BY <1>1, <1>2, <1>3, PTL DEF MapsSpec
-----------------------------------------------------------------------------
(* The parents. *)

\* The tree that is looked up in.
Rooted == ppid \in [Pids -> Pids \cup {0}]

LEMMA AncestorsAre ==
    ASSUME Rooted
    PROVE  \A n \in 0..ParentDepth, p \in Pids \cup {0} :
             Ancestors[n][p] = IF n = 0 \/ p = 0 THEN {} ELSE ({ppid[p]} \ {0}) \cup Ancestors[n - 1][ppid[p]]
<1>. DEFINE D == ParentDepth  P == Pids \cup {0}  V == [P -> SUBSET Pids]
            Body(n, g) == [p \in P |-> IF n = 0 \/ p = 0 THEN {} ELSE ({ppid[p]} \ {0}) \cup g[ppid[p]]]
            G == [x \in (0..D) \X V |-> Body(x[1], x[2])]
            v == [p \in P |-> {}]
<1>1. D \in Nat /\ v \in V /\ \A p \in Pids : ppid[p] \in P
  BY ParentAssumption DEF Rooted
<1>2. \A n \in 0..D, g \in V : Body(n, g) \in V
  BY <1>1
<1>3. G \in [(0..D) \X V -> V]
  <2>. HIDE DEF Body
  <2>. QED
    BY <1>2
<1>4. \A n \in 0..D, g \in V : G[<<n, g>>] = Body(n, g)
  OBVIOUS
<1>5. PICK f \in [0..D -> V] : UsesBefore(f, D, v, G)
  <2>. HIDE DEF D, V, G, v
  <2>. QED
    BY <1>1, <1>3, RecursionOnNumbers
<1>6. ASSUME NEW n \in 0..D PROVE f[n] = Body(n, f[n - 1])
  <2>1. CASE n = 0
    <3>1. f[n] = Body(n, v)
      BY <1>1, <1>4, <1>5, <2>1 DEF UsesBefore
    <3>. QED
      BY <2>1, <3>1
  <2>2. CASE n # 0
    <3>1. n - 1 \in 0..D
      BY <1>1, <2>2
    <3>2. f[n - 1] \in V
      BY <3>1
    <3>. QED
      BY <1>4, <1>5, <2>2, <3>2 DEF UsesBefore
  <2>. QED
    BY <2>1, <2>2
<1>7. f = [n \in 0..D |-> Body(n, f[n - 1])]
  <2>. HIDE DEF Body
  <2>. QED
    BY <1>6
<1>8. Ancestors = [n \in 0..D |-> Body(n, Ancestors[n - 1])]
  BY <1>7 DEF Ancestors
<1>9. ASSUME NEW n \in 0..D, NEW p \in P PROVE Ancestors[n][p] = Body(n, Ancestors[n - 1])[p]
  <2>. HIDE DEF Body
  <2>. QED
    BY <1>8
<1>. QED
  BY <1>9

LEMMA AncestorsUp ==
    ASSUME Rooted, NEW k \in Nat, k + 1 <= ParentDepth, NEW p \in Pids \cup {0}
    PROVE  /\ k \in 0..ParentDepth /\ k + 1 \in 0..ParentDepth
           /\ Ancestors[k + 1][p] = IF p = 0 THEN {} ELSE ({ppid[p]} \ {0}) \cup Ancestors[k][ppid[p]]
<1>1. k \in 0..ParentDepth /\ k + 1 \in 0..ParentDepth /\ k + 1 # 0 /\ (k + 1) - 1 = k
  BY ParentAssumption
<1>2. Ancestors[k + 1][p] = IF p = 0 THEN {} ELSE ({ppid[p]} \ {0}) \cup Ancestors[k][ppid[p]]
  BY <1>1, AncestorsAre
<1>. QED
  BY <1>1, <1>2

LEMMA AncestorsTyped ==
    ASSUME Rooted PROVE \A n \in 0..ParentDepth, p \in Pids \cup {0} : Ancestors[n][p] \in SUBSET Pids
<1>. DEFINE T == {k \in Nat : k <= ParentDepth => \A p \in Pids \cup {0} : Ancestors[k][p] \in SUBSET Pids}
<1>1. ParentDepth \in Nat /\ 0 \notin Pids /\ \A p \in Pids : ppid[p] \in Pids \cup {0}
  BY ParentAssumption DEF Rooted
<1>2. 0 \in T
  <2>1. 0 \in 0..ParentDepth
    BY <1>1
  <2>2. \A p \in Pids \cup {0} : Ancestors[0][p] = {}
    BY <2>1, AncestorsAre
  <2>. QED
    BY <2>2
<1>3. ASSUME NEW k \in T PROVE k + 1 \in T
  <2>. SUFFICES ASSUME k + 1 <= ParentDepth, NEW p \in Pids \cup {0} PROVE Ancestors[k + 1][p] \in SUBSET Pids
    OBVIOUS
  <2>1. k + 1 \in 0..ParentDepth /\ k + 1 # 0 /\ (k + 1) - 1 = k /\ k <= ParentDepth
    BY <1>1
  <2>2. \A q \in Pids \cup {0} : Ancestors[k][q] \in SUBSET Pids
    BY <2>1
  <2>3. Ancestors[k + 1][p] = IF p = 0 THEN {} ELSE ({ppid[p]} \ {0}) \cup Ancestors[k][ppid[p]]
    BY <2>1, AncestorsAre
  <2>. QED
    BY <1>1, <2>2, <2>3
<1>4. T = Nat
  <2>. HIDE DEF T
  <2>1. T \subseteq Nat
    BY DEF T
  <2>. QED
    BY <1>2, <1>3, <2>1, AllNumbers
<1>5. ASSUME NEW n \in 0..ParentDepth PROVE n \in T /\ n <= ParentDepth
  BY <1>1, <1>4
<1>. QED
  BY <1>5

\* p is r, or one of its first n ancestors.
Near(r, p, n) == p = r \/ p \in Ancestors[n][r]

LEMMA NearGrows ==
    ASSUME Rooted, NEW n \in 0..ParentDepth, n + 1 <= ParentDepth, NEW r \in Pids, NEW p \in Pids, Near(r, p, n)
    PROVE  /\ Near(r, p, n + 1)
           /\ ppid[p] # 0 => ppid[p] \in Ancestors[n + 1][r]
<1>. DEFINE Goes(k) == \A q \in Pids, x \in Pids : Near(q, x, k) =>
                         Near(q, x, k + 1) /\ (ppid[x] # 0 => ppid[x] \in Ancestors[k + 1][q])
            T == {k \in Nat : k + 1 <= ParentDepth => Goes(k)}
<1>1. ParentDepth \in Nat /\ 0 \notin Pids /\ \A q \in Pids : ppid[q] \in Pids \cup {0}
  BY ParentAssumption DEF Rooted
<1>2. ASSUME NEW k \in Nat, k + 1 <= ParentDepth
      PROVE  /\ k \in 0..ParentDepth /\ k + 1 \in 0..ParentDepth
             /\ \A q \in Pids : Ancestors[k + 1][q] = ({ppid[q]} \ {0}) \cup Ancestors[k][ppid[q]]
             /\ Ancestors[k][0] = {}
  <2>1. k \in 0..ParentDepth /\ k + 1 \in 0..ParentDepth /\ k + 1 # 0 /\ (k + 1) - 1 = k /\ 0 \in 0..ParentDepth
    BY <1>1, <1>2
  <2>2. ASSUME NEW q \in Pids
        PROVE  Ancestors[k + 1][q] = ({ppid[q]} \ {0}) \cup Ancestors[k][ppid[q]]
    <3>1. q \in Pids \cup {0} /\ q # 0
      BY <1>1
    <3>2. Ancestors[k + 1][q] = IF q = 0 THEN {} ELSE ({ppid[q]} \ {0}) \cup Ancestors[k][ppid[q]]
      BY <1>2, <3>1, AncestorsUp
    <3>. QED
      BY <3>1, <3>2
  <2>3. Ancestors[k][0] = {}
    BY <2>1, AncestorsAre
  <2>. QED
    BY <2>1, <2>2, <2>3
<1>3. 0 \in T
  <2>. SUFFICES ASSUME 0 + 1 <= ParentDepth PROVE Goes(0)
    OBVIOUS
  <2>1. 0 \in 0..ParentDepth /\ 0 + 1 \in 0..ParentDepth /\ 0 + 1 # 0 /\ (0 + 1) - 1 = 0
    BY <1>1
  <2>2. \A q \in Pids : Ancestors[0][q] = {}
    BY <2>1, AncestorsAre
  <2>3. \A q \in Pids : Ancestors[0 + 1][q] = ({ppid[q]} \ {0}) \cup Ancestors[0][ppid[q]]
    BY <1>1, <1>2, <2>1
  <2>4. ASSUME NEW q \in Pids, NEW x \in Pids, Near(q, x, 0)
        PROVE  Near(q, x, 0 + 1) /\ (ppid[x] # 0 => ppid[x] \in Ancestors[0 + 1][q])
    <3>1. x = q
      BY <2>2, <2>4 DEF Near
    <3>. QED
      BY <2>3, <3>1 DEF Near
  <2>. QED
    BY <2>4
<1>4. ASSUME NEW k \in T PROVE k + 1 \in T
  <2>. SUFFICES ASSUME (k + 1) + 1 <= ParentDepth PROVE Goes(k + 1)
    OBVIOUS
  <2>1. k \in Nat /\ k + 1 \in Nat /\ k + 1 <= ParentDepth /\ k + 1 # 0 /\ (k + 1) - 1 = k
    BY <1>1
  <2>2. Goes(k)
    BY <2>1
  <2>3. \A q \in Pids : Ancestors[(k + 1) + 1][q] = ({ppid[q]} \ {0}) \cup Ancestors[k + 1][ppid[q]]
    BY <1>2, <2>1
  <2>4. \A q \in Pids : Ancestors[k + 1][q] = ({ppid[q]} \ {0}) \cup Ancestors[k][ppid[q]]
    BY <1>2, <2>1
  <2>5. Ancestors[k][0] = {}
    BY <1>2, <2>1
  <2>6. ASSUME NEW q \in Pids, NEW x \in Pids, Near(q, x, k + 1)
        PROVE  Near(q, x, (k + 1) + 1) /\ (ppid[x] # 0 => ppid[x] \in Ancestors[(k + 1) + 1][q])
    <3>. DEFINE y == ppid[q]
    <3>0. y \in Pids \cup {0}
      BY <1>1
    <3>1. CASE x = q
      BY <2>3, <3>1 DEF Near
    <3>2. CASE x # q
      <4>1. x \in ({y} \ {0}) \cup Ancestors[k][y]
        BY <2>4, <2>6, <3>2 DEF Near
      <4>2. y # 0
        BY <1>1, <2>5, <4>1
      <4>3. y \in Pids /\ Near(y, x, k)
        BY <3>0, <4>1, <4>2 DEF Near
      <4>4. Near(y, x, k + 1) /\ (ppid[x] # 0 => ppid[x] \in Ancestors[k + 1][y])
        BY <2>2, <4>3
      <4>. QED
        BY <2>3, <4>2, <4>4 DEF Near
    <3>. QED
      BY <3>1, <3>2
  <2>. QED
    BY <2>6
<1>5. T = Nat
  <2>. HIDE DEF T
  <2>1. T \subseteq Nat
    BY DEF T
  <2>. QED
    BY <1>3, <1>4, <2>1, AllNumbers
<1>6. n \in T
  BY <1>1, <1>5
<1>. QED
  BY <1>6

LEMMA NearStays ==
    ASSUME Rooted, NEW r \in Pids, NEW p \in Pids, NEW n \in 0..ParentDepth, Near(r, p, n)
    PROVE  \A k \in 0..ParentDepth : n <= k => Near(r, p, k)
<1>. DEFINE T == {i \in Nat : n + i <= ParentDepth => Near(r, p, n + i)}
<1>1. ParentDepth \in Nat
  BY ParentAssumption
<1>2. 0 \in T
  BY <1>1
<1>3. ASSUME NEW i \in T PROVE i + 1 \in T
  <2>. SUFFICES ASSUME n + (i + 1) <= ParentDepth PROVE Near(r, p, n + (i + 1))
    OBVIOUS
  <2>1. n + i \in 0..ParentDepth /\ (n + i) + 1 <= ParentDepth /\ n + (i + 1) = (n + i) + 1
    BY <1>1
  <2>2. Near(r, p, n + i)
    BY <2>1
  <2>. QED
    BY <2>1, <2>2, NearGrows
<1>4. T = Nat
  <2>. HIDE DEF T
  <2>1. T \subseteq Nat
    BY DEF T
  <2>. QED
    BY <1>2, <1>3, <2>1, AllNumbers
<1>5. ASSUME NEW k \in 0..ParentDepth, n <= k PROVE Near(r, p, k)
  <2>1. k - n \in Nat /\ n + (k - n) = k
    BY <1>1, <1>5
  <2>2. k - n \in T
    BY <1>4, <2>1
  <2>. QED
    BY <1>1, <2>1, <2>2
<1>. QED
  BY <1>5

\* A function that is what it is of a next argument, until there is none.
GoesOn(f, S, ends, stop, next) == \A l \in S : f[l] = IF l \in ends THEN stop[l] ELSE f[next[l]]

LEMMA RecursionThatEnds ==
    ASSUME NEW S, NEW ends \in SUBSET S, NEW stop \in [ends -> S], NEW next \in [S \ ends -> S],
           NEW m \in [S -> Nat], NEW K \in Nat, \A l \in S : m[l] <= K,
           \A l \in S \ ends : m[next[l]] < m[l]
    PROVE  \E f \in [S -> S] : GoesOn(f, S, ends, stop, next)
<1>. DEFINE Upto(f, n) == \A l \in S : m[l] < n => f[l] = IF l \in ends THEN stop[l] ELSE f[next[l]]
            T == {n \in Nat : \E f \in [S -> S] : Upto(f, n)}
<1>1. 0 \in T
  <2>1. [l \in S |-> l] \in [S -> S] /\ \A l \in S : ~(m[l] < 0)
    OBVIOUS
  <2>. QED
    BY <2>1
<1>2. ASSUME NEW n \in T PROVE n + 1 \in T
  <2>1. n \in Nat
    OBVIOUS
  <2>2. PICK f \in [S -> S] : Upto(f, n)
    BY <1>2
  <2>. DEFINE g == [l \in S |-> IF m[l] < n THEN f[l] ELSE IF l \in ends THEN stop[l] ELSE f[next[l]]]
  <2>3. \A l \in S :
          /\ m[l] \in Nat
          /\ l \in ends => stop[l] \in S
          /\ l \notin ends => next[l] \in S /\ m[next[l]] \in Nat /\ m[next[l]] < m[l] /\ f[next[l]] \in S
    OBVIOUS
  <2>4. g \in [S -> S]
    BY <2>3
  <2>5. \A l \in S : m[l] < n => g[l] = f[l]
    OBVIOUS
  <2>6. \A l \in S : ~(m[l] < n) => g[l] = IF l \in ends THEN stop[l] ELSE f[next[l]]
    OBVIOUS
  <2>. HIDE DEF g
  <2>7. ASSUME NEW l \in S, m[l] < n + 1
        PROVE  g[l] = IF l \in ends THEN stop[l] ELSE g[next[l]]
    <3>1. l \notin ends => next[l] \in S /\ m[next[l]] < n
      BY <2>1, <2>3, <2>7
    <3>2. l \notin ends => g[next[l]] = f[next[l]]
      BY <2>5, <3>1
    <3>3. g[l] = IF l \in ends THEN stop[l] ELSE f[next[l]]
      BY <2>2, <2>5, <2>6
    <3>. QED
      BY <3>2, <3>3
  <2>8. Upto(g, n + 1)
    BY <2>7
  <2>. QED
    BY <2>1, <2>4, <2>8
<1>3. T = Nat
  <2>. HIDE DEF T
  <2>1. T \subseteq Nat
    BY DEF T
  <2>. QED
    BY <1>1, <1>2, <2>1, AllNumbers
<1>4. K + 1 \in T
  <2>1. K + 1 \in Nat
    OBVIOUS
  <2>. HIDE DEF T
  <2>. QED
    BY <1>3, <2>1
<1>5. PICK f \in [S -> S] : Upto(f, K + 1)
  BY <1>4
<1>6. ASSUME NEW l \in S PROVE f[l] = IF l \in ends THEN stop[l] ELSE f[next[l]]
  <2>1. m[l] \in Nat /\ m[l] <= K
    OBVIOUS
  <2>2. m[l] < K + 1
    BY <2>1
  <2>. QED
    BY <1>5, <2>2
<1>. QED
  BY <1>6 DEF GoesOn

\* What holds of an argument and stays true of the next holds where it ends.
LEMMA WhereItEnds ==
    ASSUME NEW S, NEW ends \in SUBSET S, NEW stop, NEW next \in [S \ ends -> S],
           NEW m \in [S -> Nat], \A l \in S \ ends : m[next[l]] < m[l],
           NEW f, GoesOn(f, S, ends, stop, next),
           NEW Q \in SUBSET S, \A l \in Q \ ends : next[l] \in Q
    PROVE  \A l \in Q : \E e \in Q \cap ends : f[l] = stop[e]
<1>. DEFINE T == {n \in Nat : \A l \in Q : m[l] < n => \E e \in Q \cap ends : f[l] = stop[e]}
<1>1. 0 \in T
  <2>1. \A l \in Q : ~(m[l] < 0)
    OBVIOUS
  <2>. QED
    BY <2>1
<1>2. ASSUME NEW n \in T PROVE n + 1 \in T
  <2>1. n \in Nat
    OBVIOUS
  <2>2. ASSUME NEW l \in Q, m[l] < n + 1 PROVE \E e \in Q \cap ends : f[l] = stop[e]
    <3>1. CASE l \in ends
      BY <3>1 DEF GoesOn
    <3>2. CASE l \notin ends
      <4>1. next[l] \in Q /\ m[next[l]] \in Nat /\ m[l] \in Nat /\ m[next[l]] < m[l] /\ f[l] = f[next[l]]
        BY <3>2 DEF GoesOn
      <4>2. m[next[l]] < n
        BY <2>1, <2>2, <4>1
      <4>3. \E e \in Q \cap ends : f[next[l]] = stop[e]
        BY <1>2, <4>1, <4>2
      <4>. QED
        BY <4>1, <4>3
    <3>. QED
      BY <3>1, <3>2
  <2>. QED
    BY <2>1, <2>2
<1>3. T = Nat
  <2>. HIDE DEF T
  <2>1. T \subseteq Nat
    BY DEF T
  <2>. QED
    BY <1>1, <1>2, <2>1, AllNumbers
<1>4. ASSUME NEW l \in Q PROVE \E e \in Q \cap ends : f[l] = stop[e]
  <2>1. m[l] \in Nat /\ m[l] < m[l] + 1 /\ m[l] + 1 \in T
    BY <1>3
  <2>. QED
    BY <2>1
<1>. QED
  BY <1>4

\* One level of the lookup: where it ends, what it has found there, and what it
\* looks up next.
KnownAt(l) == [l EXCEPT !.left[l.pid] = l.levels]
JoinedAt(l) == [KnownAt(l) EXCEPT !.children[ppid[l.pid]] = @ \cup {l.pid}]
UpFrom(l, n) == [JoinedAt(l) EXCEPT !.pid = ppid[l.pid], !.levels = n, !.near = @ \cup {ppid[l.pid]}]
IsCommon(l) == Cardinality(JoinedAt(l).children[ppid[l.pid]]) >= 2

LookupEnds == {l \in Lookups : \/ l.levels <= l.left[l.pid]
                               \/ ppid[l.pid] = 0
                               \/ ~IsCommon(l) /\ ~(l.levels > 0)}
EndOf(l) == IF l.levels <= l.left[l.pid] THEN l
            ELSE IF ppid[l.pid] = 0 THEN KnownAt(l) ELSE JoinedAt(l)
NextOf(l) == UpFrom(l, IF IsCommon(l) THEN l.levels ELSE l.levels - 1)

\* The levels that could still be given to the processes.
Spare(lf) == SumFunction([p \in Pids |-> ParentDepth - lf[p]])

LEMMA LookupTyped ==
    ASSUME NEW l \in Lookups
    PROVE  /\ l.pid \in Pids /\ l.levels \in 0..ParentDepth /\ l.near \in SUBSET Pids
           /\ l.children \in [Pids -> SUBSET Pids] /\ l.left \in [Pids -> -1..ParentDepth]
BY DEF Lookups

LEMMA LookupEqual ==
    ASSUME NEW pid \in Pids, NEW levels \in 0..ParentDepth, NEW near \in SUBSET Pids,
           NEW ch \in [Pids -> SUBSET Pids], NEW lf \in [Pids -> -1..ParentDepth],
           NEW l, l = [pid |-> pid, levels |-> levels, near |-> near, children |-> ch, left |-> lf]
    PROVE  /\ l \in Lookups
           /\ l.pid = pid /\ l.levels = levels /\ l.near = near /\ l.children = ch /\ l.left = lf
BY DEF Lookups

LEMMA KnownFields ==
    ASSUME NEW l \in Lookups
    PROVE  KnownAt(l) = [pid |-> l.pid, levels |-> l.levels, near |-> l.near, children |-> l.children,
                         left |-> [l.left EXCEPT ![l.pid] = l.levels]]
BY DEF Lookups, KnownAt

LEMMA KnownTyped ==
    ASSUME NEW l \in Lookups
    PROVE  /\ KnownAt(l) \in Lookups
           /\ KnownAt(l).pid = l.pid /\ KnownAt(l).levels = l.levels /\ KnownAt(l).near = l.near
           /\ KnownAt(l).children = l.children /\ KnownAt(l).left = [l.left EXCEPT ![l.pid] = l.levels]
<1>. DEFINE lf == [l.left EXCEPT ![l.pid] = l.levels]
<1>1. l.pid \in Pids /\ l.levels \in 0..ParentDepth /\ l.near \in SUBSET Pids
      /\ l.children \in [Pids -> SUBSET Pids] /\ l.left \in [Pids -> -1..ParentDepth]
  BY LookupTyped
<1>2. lf \in [Pids -> -1..ParentDepth]
  <2>1. l.levels \in -1..ParentDepth
    BY <1>1, ParentAssumption
  <2>. QED
    BY <1>1, <2>1
<1>3. KnownAt(l) = [pid |-> l.pid, levels |-> l.levels, near |-> l.near, children |-> l.children, left |-> lf]
  BY KnownFields
<1>. HIDE DEF lf
<1>4. /\ KnownAt(l) \in Lookups
      /\ KnownAt(l).pid = l.pid /\ KnownAt(l).levels = l.levels /\ KnownAt(l).near = l.near
      /\ KnownAt(l).children = l.children /\ KnownAt(l).left = lf
  BY <1>1, <1>2, <1>3, LookupEqual
<1>. QED
  BY <1>4 DEF lf

LEMMA JoinedTyped ==
    ASSUME Rooted, NEW l \in Lookups, ppid[l.pid] # 0
    PROVE  /\ JoinedAt(l) \in Lookups /\ ppid[l.pid] \in Pids
           /\ JoinedAt(l).pid = l.pid /\ JoinedAt(l).levels = l.levels /\ JoinedAt(l).near = l.near
           /\ JoinedAt(l).children = [l.children EXCEPT ![ppid[l.pid]] = @ \cup {l.pid}]
           /\ JoinedAt(l).left = [l.left EXCEPT ![l.pid] = l.levels]
<1>. DEFINE k == KnownAt(l)  ch == [l.children EXCEPT ![ppid[l.pid]] = @ \cup {l.pid}]
<1>1. l.pid \in Pids /\ l.levels \in 0..ParentDepth /\ l.near \in SUBSET Pids
      /\ l.children \in [Pids -> SUBSET Pids] /\ ppid[l.pid] \in Pids
  BY LookupTyped DEF Rooted
<1>2. /\ k \in Lookups /\ k.pid = l.pid /\ k.levels = l.levels /\ k.near = l.near
      /\ k.children = l.children /\ k.left = [l.left EXCEPT ![l.pid] = l.levels]
  BY KnownTyped
<1>3. ch \in [Pids -> SUBSET Pids]
  BY <1>1
<1>4. k.left \in [Pids -> -1..ParentDepth]
  <2>. HIDE DEF k
  <2>. QED
    BY <1>2, LookupTyped
<1>5. JoinedAt(l) = [k EXCEPT !.children[ppid[l.pid]] = @ \cup {l.pid}]
  BY DEF JoinedAt
<1>. HIDE DEF k
<1>6. JoinedAt(l) = [pid |-> k.pid, levels |-> k.levels, near |-> k.near,
                     children |-> [k.children EXCEPT ![ppid[l.pid]] = @ \cup {l.pid}], left |-> k.left]
  BY <1>2, <1>5 DEF Lookups
<1>7. JoinedAt(l) = [pid |-> l.pid, levels |-> l.levels, near |-> l.near, children |-> ch, left |-> k.left]
  BY <1>2, <1>6
<1>. HIDE DEF ch
<1>8. /\ JoinedAt(l) \in Lookups
      /\ JoinedAt(l).pid = l.pid /\ JoinedAt(l).levels = l.levels /\ JoinedAt(l).near = l.near
      /\ JoinedAt(l).children = ch /\ JoinedAt(l).left = k.left
  BY <1>1, <1>3, <1>4, <1>7, LookupEqual
<1>. QED
  BY <1>1, <1>2, <1>8 DEF ch

LEMMA UpTyped ==
    ASSUME Rooted, NEW l \in Lookups, ppid[l.pid] # 0, NEW n \in 0..ParentDepth
    PROVE  /\ UpFrom(l, n) \in Lookups
           /\ UpFrom(l, n).pid = ppid[l.pid] /\ UpFrom(l, n).levels = n
           /\ UpFrom(l, n).near = l.near \cup {ppid[l.pid]}
           /\ UpFrom(l, n).children = [l.children EXCEPT ![ppid[l.pid]] = @ \cup {l.pid}]
           /\ UpFrom(l, n).left = [l.left EXCEPT ![l.pid] = l.levels]
<1>. DEFINE j == JoinedAt(l)
<1>1. /\ j \in Lookups /\ ppid[l.pid] \in Pids /\ j.near = l.near
      /\ j.children = [l.children EXCEPT ![ppid[l.pid]] = @ \cup {l.pid}]
      /\ j.left = [l.left EXCEPT ![l.pid] = l.levels]
  BY JoinedTyped
<1>2. UpFrom(l, n) = [j EXCEPT !.pid = ppid[l.pid], !.levels = n, !.near = @ \cup {ppid[l.pid]}]
  BY DEF UpFrom
<1>. HIDE DEF j
<1>3. UpFrom(l, n) = [pid |-> ppid[l.pid], levels |-> n, near |-> j.near \cup {ppid[l.pid]},
                      children |-> j.children, left |-> j.left]
  BY <1>1, <1>2 DEF Lookups
<1>4. j.near \cup {ppid[l.pid]} \in SUBSET Pids /\ j.children \in [Pids -> SUBSET Pids]
      /\ j.left \in [Pids -> -1..ParentDepth]
  BY <1>1, LookupTyped
<1>5. /\ UpFrom(l, n) \in Lookups
      /\ UpFrom(l, n).pid = ppid[l.pid] /\ UpFrom(l, n).levels = n
      /\ UpFrom(l, n).near = j.near \cup {ppid[l.pid]}
      /\ UpFrom(l, n).children = j.children /\ UpFrom(l, n).left = j.left
  <2>. DEFINE nr == j.near \cup {ppid[l.pid]}  ch == j.children  lf == j.left  q == ppid[l.pid]
  <2>1. /\ q \in Pids /\ nr \in SUBSET Pids /\ ch \in [Pids -> SUBSET Pids] /\ lf \in [Pids -> -1..ParentDepth]
        /\ UpFrom(l, n) = [pid |-> q, levels |-> n, near |-> nr, children |-> ch, left |-> lf]
    BY <1>1, <1>3, <1>4
  <2>. HIDE DEF nr, ch, lf, q
  <2>2. /\ UpFrom(l, n) \in Lookups
        /\ UpFrom(l, n).pid = q /\ UpFrom(l, n).levels = n /\ UpFrom(l, n).near = nr
        /\ UpFrom(l, n).children = ch /\ UpFrom(l, n).left = lf
    BY <2>1, LookupEqual
  <2>. QED
    BY <2>2 DEF nr, ch, lf, q
<1>. QED
  BY <1>1, <1>5

LEMMA SpareFacts ==
    ASSUME NEW lf \in [Pids -> -1..ParentDepth]
    PROVE  /\ Spare(lf) \in Nat
           /\ SumFunction([p \in Pids |-> ParentDepth + 1]) \in Nat
           /\ Spare(lf) <= SumFunction([p \in Pids |-> ParentDepth + 1])
           /\ \A p \in Pids, n \in 0..ParentDepth : n > lf[p] => Spare([lf EXCEPT ![p] = n]) < Spare(lf)
<1>. DEFINE s(x) == [p \in Pids |-> ParentDepth - x[p]]
            all == [p \in Pids |-> ParentDepth + 1]
<1>0. ParentDepth \in Nat /\ IsFiniteSet(Pids)
  BY ParentAssumption
<1>1. ASSUME NEW x \in [Pids -> -1..ParentDepth] PROVE s(x) \in [Pids -> Nat] /\ \A p \in Pids : s(x)[p] = ParentDepth - x[p]
  <2>1. \A p \in Pids : x[p] \in -1..ParentDepth
    OBVIOUS
  <2>2. \A p \in Pids : ParentDepth - x[p] \in Nat
    BY <1>0, <2>1
  <2>. QED
    BY <2>2
<1>2. all \in [Pids -> Nat] /\ \A p \in Pids : s(lf)[p] <= all[p]
  <2>1. \A p \in Pids : lf[p] \in -1..ParentDepth
    OBVIOUS
  <2>2. \A p \in Pids : ParentDepth - lf[p] <= ParentDepth + 1 /\ ParentDepth + 1 \in Nat
    BY <1>0, <2>1
  <2>. QED
    BY <1>1, <2>2
<1>3. ASSUME NEW p \in Pids, NEW n \in 0..ParentDepth, n > lf[p]
      PROVE  SumFunction(s([lf EXCEPT ![p] = n])) < SumFunction(s(lf))
  <2>. DEFINE y == [lf EXCEPT ![p] = n]
  <2>1. y \in [Pids -> -1..ParentDepth] /\ y[p] = n /\ \A q \in Pids \ {p} : y[q] = lf[q]
    <3>1. n \in -1..ParentDepth
      BY <1>0
    <3>. QED
      BY <3>1
  <2>. HIDE DEF y
  <2>2. s(y) \in [Pids -> Nat] /\ s(lf) \in [Pids -> Nat]
    BY <1>1, <2>1
  <2>3. \A q \in Pids \ {p} : s(lf)[q] = s(y)[q]
    BY <2>1
  <2>4. s(y)[p] = ParentDepth - n /\ s(lf)[p] = ParentDepth - lf[p] /\ lf[p] \in -1..ParentDepth
    BY <2>1
  <2>. HIDE DEF s
  <2>5. SumFunction(s(y)) + s(lf)[p] = SumFunction(s(lf)) + s(y)[p]
    BY <1>0, <2>2, <2>3, SumUpdate
  <2>6. SumFunction(s(y)) \in Nat /\ SumFunction(s(lf)) \in Nat
    BY <1>0, <2>2, SumTyped
  <2>7. SumFunction(s(y)) < SumFunction(s(lf))
    BY <1>0, <1>3, <2>4, <2>5, <2>6
  <2>. QED
    BY <2>7 DEF y
<1>4. SumFunction(s(lf)) \in Nat /\ SumFunction(all) \in Nat /\ SumFunction(s(lf)) <= SumFunction(all)
  <2>1. s(lf) \in [Pids -> Nat]
    BY <1>1
  <2>. HIDE DEF s, all
  <2>. QED
    BY <1>0, <1>2, <2>1, SumTyped, SumGrows
<1>. QED
  BY <1>3, <1>4 DEF Spare

LEMMA WhereLookupsEnd ==
    ASSUME NEW l \in Lookups
    PROVE  /\ ParentDepth \in Nat /\ l.levels \in 0..ParentDepth /\ l.left[l.pid] \in -1..ParentDepth
           /\ l \in LookupEnds <=>
                (l.levels <= l.left[l.pid] \/ ppid[l.pid] = 0 \/ (~IsCommon(l) /\ ~(l.levels > 0)))
<1>1. l.pid \in Pids /\ l.levels \in 0..ParentDepth /\ l.left \in [Pids -> -1..ParentDepth]
  BY LookupTyped
<1>2. ParentDepth \in Nat /\ l.left[l.pid] \in -1..ParentDepth
  BY <1>1, ParentAssumption
<1>. QED
  BY <1>1, <1>2 DEF LookupEnds

LEMMA LookupEndsAt ==
    ASSUME Rooted, NEW l \in LookupEnds
    PROVE  l \in Lookups /\ EndOf(l) \in Lookups
<1>1. l \in Lookups
  BY DEF LookupEnds
<1>2. KnownAt(l) \in Lookups
  BY <1>1, KnownTyped
<1>3. ppid[l.pid] # 0 => JoinedAt(l) \in Lookups
  BY <1>1, JoinedTyped
<1>. QED
  BY <1>1, <1>2, <1>3 DEF EndOf

LEMMA LookupGoesOn ==
    ASSUME Rooted, NEW l \in Lookups \ LookupEnds
    PROVE  /\ l.levels > l.left[l.pid] /\ ppid[l.pid] \in Pids /\ NextOf(l) \in Lookups
           /\ NextOf(l).pid = ppid[l.pid] /\ NextOf(l).near = l.near \cup {ppid[l.pid]}
           /\ NextOf(l).children = [l.children EXCEPT ![ppid[l.pid]] = @ \cup {l.pid}]
           /\ NextOf(l).left = [l.left EXCEPT ![l.pid] = l.levels]
           /\ NextOf(l).levels \in 0..ParentDepth
           /\ IsCommon(l) => NextOf(l).levels = l.levels
           /\ ~IsCommon(l) => l.levels > 0 /\ NextOf(l).levels = l.levels - 1
           /\ Spare(NextOf(l).left) < Spare(l.left)
<1>. DEFINE n == IF IsCommon(l) THEN l.levels ELSE l.levels - 1
<1>1. l.pid \in Pids /\ l.levels \in 0..ParentDepth /\ l.left \in [Pids -> -1..ParentDepth]
  BY LookupTyped
<1>2. ParentDepth \in Nat /\ l.left[l.pid] \in -1..ParentDepth
  BY <1>1, ParentAssumption
<1>3. ~(l.levels <= l.left[l.pid]) /\ ppid[l.pid] # 0 /\ (~IsCommon(l) => l.levels > 0)
  BY WhereLookupsEnd
<1>4. l.levels > l.left[l.pid]
  BY <1>1, <1>2, <1>3
<1>5. n \in 0..ParentDepth
  BY <1>1, <1>2, <1>3
<1>6. NextOf(l) = UpFrom(l, n)
  BY DEF NextOf
<1>7. (IsCommon(l) => n = l.levels) /\ (~IsCommon(l) => n = l.levels - 1)
  OBVIOUS
<1>8. ppid[l.pid] \in Pids
  BY <1>1, <1>3 DEF Rooted
<1>. HIDE DEF n
<1>9. /\ UpFrom(l, n) \in Lookups
      /\ UpFrom(l, n).pid = ppid[l.pid] /\ UpFrom(l, n).levels = n
      /\ UpFrom(l, n).near = l.near \cup {ppid[l.pid]}
      /\ UpFrom(l, n).children = [l.children EXCEPT ![ppid[l.pid]] = @ \cup {l.pid}]
      /\ UpFrom(l, n).left = [l.left EXCEPT ![l.pid] = l.levels]
  BY <1>3, <1>5, UpTyped
<1>10. Spare([l.left EXCEPT ![l.pid] = l.levels]) < Spare(l.left)
  BY <1>1, <1>4, SpareFacts
<1>. QED
  BY <1>3, <1>4, <1>5, <1>6, <1>7, <1>8, <1>9, <1>10

\* The lookup is what it is of the next level, until it ends.
LookupStops == [l \in LookupEnds |-> EndOf(l)]
LookupNexts == [l \in Lookups \ LookupEnds |-> NextOf(l)]
LookupSpare == [l \in Lookups |-> Spare(l.left)]

LEMMA LookupFunctions ==
    ASSUME Rooted
    PROVE  /\ LookupEnds \in SUBSET Lookups
           /\ LookupStops \in [LookupEnds -> Lookups] /\ LookupNexts \in [Lookups \ LookupEnds -> Lookups]
           /\ LookupSpare \in [Lookups -> Nat]
           /\ \A l \in Lookups \ LookupEnds : LookupSpare[LookupNexts[l]] < LookupSpare[l]
<1>1. LookupEnds \in SUBSET Lookups
  BY DEF LookupEnds
<1>2. LookupStops \in [LookupEnds -> Lookups]
  BY LookupEndsAt DEF LookupStops
<1>3. LookupNexts \in [Lookups \ LookupEnds -> Lookups]
  BY LookupGoesOn DEF LookupNexts
<1>4. LookupSpare \in [Lookups -> Nat]
  BY LookupTyped, SpareFacts DEF LookupSpare
<1>5. ASSUME NEW l \in Lookups \ LookupEnds PROVE LookupSpare[LookupNexts[l]] < LookupSpare[l]
  <2>1. NextOf(l) \in Lookups /\ Spare(NextOf(l).left) < Spare(l.left)
    BY LookupGoesOn
  <2>2. LookupNexts[l] = NextOf(l)
    BY DEF LookupNexts
  <2>3. LookupSpare[NextOf(l)] = Spare(NextOf(l).left) /\ LookupSpare[l] = Spare(l.left)
    BY <2>1 DEF LookupSpare
  <2>. QED
    BY <2>1, <2>2, <2>3
<1>. QED
  BY <1>1, <1>2, <1>3, <1>4, <1>5

LEMMA LookupIs ==
    ASSUME Rooted
    PROVE  GoesOn(LookupExtendParent, Lookups, LookupEnds, LookupStops, LookupNexts)
<1>. DEFINE
       Body(f, l) ==
         LET parent == ppid[l.pid]
             known == [l EXCEPT !.left[l.pid] = l.levels]
             joined == [known EXCEPT !.children[parent] = @ \cup {l.pid}]
             up(n) == f[[joined EXCEPT !.pid = parent, !.levels = n, !.near = @ \cup {parent}]]
         IN IF l.levels <= l.left[l.pid] THEN l
            ELSE IF parent = 0 THEN known
            ELSE IF Cardinality(joined.children[parent]) >= 2 THEN up(l.levels)
            ELSE IF l.levels > 0 THEN up(l.levels - 1) ELSE joined
       K == SumFunction([p \in Pids |-> ParentDepth + 1])
<1>1. ASSUME NEW f, NEW l \in Lookups
      PROVE  Body(f, l) = IF l.levels <= l.left[l.pid] THEN l
                          ELSE IF ppid[l.pid] = 0 THEN KnownAt(l)
                          ELSE IF IsCommon(l) THEN f[UpFrom(l, l.levels)]
                          ELSE IF l.levels > 0 THEN f[UpFrom(l, l.levels - 1)] ELSE JoinedAt(l)
  BY DEF KnownAt, JoinedAt, UpFrom, IsCommon
<1>. HIDE DEF Body
<1>2. ASSUME NEW f, NEW l \in Lookups
      PROVE  Body(f, l) = IF l \in LookupEnds THEN EndOf(l) ELSE f[NextOf(l)]
  <2>1. CASE l.levels <= l.left[l.pid]
    BY <1>1, WhereLookupsEnd, <2>1 DEF EndOf
  <2>2. CASE ~(l.levels <= l.left[l.pid]) /\ ppid[l.pid] = 0
    BY <1>1, WhereLookupsEnd, <2>2 DEF EndOf
  <2>3. CASE ~(l.levels <= l.left[l.pid]) /\ ppid[l.pid] # 0 /\ IsCommon(l)
    BY <1>1, WhereLookupsEnd, <2>3 DEF NextOf
  <2>4. CASE ~(l.levels <= l.left[l.pid]) /\ ppid[l.pid] # 0 /\ ~IsCommon(l) /\ l.levels > 0
    BY <1>1, WhereLookupsEnd, <2>4 DEF NextOf
  <2>5. CASE ~(l.levels <= l.left[l.pid]) /\ ppid[l.pid] # 0 /\ ~IsCommon(l) /\ ~(l.levels > 0)
    BY <1>1, WhereLookupsEnd, <2>5 DEF EndOf
  <2>. QED
    BY <2>1, <2>2, <2>3, <2>4, <2>5
<1>3. K \in Nat /\ \A l \in Lookups : LookupSpare[l] <= K
  <2>1. [p \in Pids |-> -1] \in [Pids -> -1..ParentDepth]
    BY ParentAssumption
  <2>. HIDE DEF K
  <2>2. K \in Nat
    BY <2>1, SpareFacts DEF K
  <2>3. \A l \in Lookups : Spare(l.left) <= K
    BY LookupTyped, SpareFacts DEF K
  <2>. QED
    BY <2>2, <2>3 DEF LookupSpare
<1>. HIDE DEF K
<1>4. PICK f \in [Lookups -> Lookups] : GoesOn(f, Lookups, LookupEnds, LookupStops, LookupNexts)
  BY <1>3, LookupFunctions, RecursionThatEnds
<1>5. ASSUME NEW l \in Lookups PROVE f[l] = Body(f, l)
  <2>1. l \in LookupEnds => LookupStops[l] = EndOf(l)
    BY DEF LookupStops
  <2>2. l \notin LookupEnds => LookupNexts[l] = NextOf(l)
    BY DEF LookupNexts
  <2>3. f[l] = IF l \in LookupEnds THEN LookupStops[l] ELSE f[LookupNexts[l]]
    BY <1>4 DEF GoesOn
  <2>. QED
    BY <1>2, <2>1, <2>2, <2>3
<1>6. f = [l \in Lookups |-> Body(f, l)]
  BY <1>5
<1>7. LookupExtendParent = CHOOSE g : g = [l \in Lookups |-> Body(g, l)]
  BY DEF LookupExtendParent, Body
<1>8. LookupExtendParent = [l \in Lookups |-> Body(LookupExtendParent, l)]
  BY <1>6, <1>7
<1>9. ASSUME NEW l \in Lookups
      PROVE  LookupExtendParent[l] = IF l \in LookupEnds THEN LookupStops[l] ELSE LookupExtendParent[LookupNexts[l]]
  <2>1. l \in LookupEnds => LookupStops[l] = EndOf(l)
    BY DEF LookupStops
  <2>2. l \notin LookupEnds => LookupNexts[l] = NextOf(l)
    BY DEF LookupNexts
  <2>3. LookupExtendParent[l] = Body(LookupExtendParent, l)
    BY <1>8
  <2>. QED
    BY <1>2, <2>1, <2>2, <2>3
<1>. QED
  BY <1>9 DEF GoesOn

\* What holds of a lookup and of each next one holds where the lookup ends.
LEMMA LookupEndsIn ==
    ASSUME Rooted, NEW Q \in SUBSET Lookups, \A l \in Q \ LookupEnds : NextOf(l) \in Q, NEW l \in Q
    PROVE  \E e \in Q \cap LookupEnds : LookupExtendParent[l] = EndOf(e)
<1>1. \A k \in Q \ LookupEnds : LookupNexts[k] \in Q
  BY DEF LookupNexts
<1>2. \E e \in Q \cap LookupEnds : LookupExtendParent[l] = LookupStops[e]
  <2>. DEFINE f == LookupExtendParent
  <2>1. GoesOn(f, Lookups, LookupEnds, LookupStops, LookupNexts)
    BY LookupIs
  <2>2. /\ LookupEnds \in SUBSET Lookups /\ LookupNexts \in [Lookups \ LookupEnds -> Lookups]
        /\ LookupSpare \in [Lookups -> Nat]
        /\ \A k \in Lookups \ LookupEnds : LookupSpare[LookupNexts[k]] < LookupSpare[k]
    BY LookupFunctions
  <2>. HIDE DEF f
  <2>3. \A k \in Q : \E e \in Q \cap LookupEnds : f[k] = LookupStops[e]
    BY <1>1, <2>1, <2>2, WhereItEnds
  <2>. QED
    BY <2>3 DEF f
<1>. QED
  BY <1>2 DEF LookupStops

(* What the fields and the members of an undisturbed round say of each other, *)
(* E having been found by the others: E, M, the children seen and the levels. *)

Origins(E, ch) == E \cup {p \in Pids : Cardinality(ch[p]) >= 2}
ReachedBy(E, ch, p, n) == \E r \in Origins(E, ch) : Near(r, p, ParentDepth - n)

\* The children seen are the processes looked up from.
ChildrenSeen(ch, lf) == \A q \in Pids : ch[q] = {c \in Pids : lf[c] >= 0 /\ ppid[c] = q}

MembersKnown(E, M, ch, lf) ==
    /\ E \subseteq M /\ M \subseteq Pids
    /\ \A c \in Pids : lf[c] >= 0 => c \in M
    /\ \A q \in Pids : Cardinality(ch[q]) >= 2 => q \in M
    /\ \A p \in M : p \in E \/ ch[p] # {}

\* Whoever is a member was reached from one that was found or has two children,
\* in no more levels than are used up.
Reached(E, M, ch, lf) ==
    /\ \A p \in M : ReachedBy(E, ch, p, 0)
    /\ \A p \in Pids : lf[p] >= 0 => ReachedBy(E, ch, p, lf[p])

\* A process with levels left has its parent looked up from, with one less at
\* least, but for the one that is being looked up from.
Climbed(M, lf, at, n) == \A c \in Pids : lf[c] > 0 /\ ppid[c] # 0 =>
    ppid[c] \in M /\ (lf[ppid[c]] >= lf[c] - 1 \/ (ppid[c] = at /\ n >= lf[c] - 1))

Sound(E, M, ch, lf) == ChildrenSeen(ch, lf) /\ MembersKnown(E, M, ch, lf) /\ Reached(E, M, ch, lf)

Levels == [Pids -> -1..ParentDepth]
Children == [Pids -> SUBSET Pids]

LEMMA ClimbedStep ==
    ASSUME Rooted, NEW M, NEW lf \in Levels, NEW p \in Pids, NEW n \in 0..ParentDepth, n > lf[p],
           Climbed(M, lf, p, n), NEW M2, M \subseteq M2,
           NEW a \in Pids \cup {0}, NEW m \in 0..ParentDepth,
           n > 0 /\ ppid[p] # 0 => ppid[p] \in M2 /\ a = ppid[p] /\ m >= n - 1
    PROVE  Climbed(M2, [lf EXCEPT ![p] = n], a, m)
<1>. DEFINE lf2 == [lf EXCEPT ![p] = n]
<1>1. ParentDepth \in Nat /\ \A q \in Pids : lf[q] \in -1..ParentDepth /\ ppid[q] \in Pids \cup {0}
  BY ParentAssumption DEF Levels, Rooted
<1>2. lf2[p] = n /\ \A q \in Pids \ {p} : lf2[q] = lf[q]
  BY DEF Levels
<1>. HIDE DEF lf2
<1>3. ASSUME NEW c \in Pids, lf2[c] > 0, ppid[c] # 0
      PROVE  ppid[c] \in M2 /\ (lf2[ppid[c]] >= lf2[c] - 1 \/ (ppid[c] = a /\ m >= lf2[c] - 1))
  <2>1. CASE c = p
    BY <1>2, <1>3, <2>1
  <2>2. CASE c # p
    <3>1. lf2[c] = lf[c] /\ lf[c] > 0 /\ ppid[c] \in Pids
      BY <1>1, <1>2, <1>3, <2>2
    <3>2. ppid[c] \in M /\ (lf[ppid[c]] >= lf[c] - 1 \/ (ppid[c] = p /\ n >= lf[c] - 1))
      BY <1>3, <3>1 DEF Climbed
    <3>3. CASE ppid[c] = p
      <4>1. lf2[ppid[c]] = n /\ n >= lf[c] - 1
        BY <1>1, <1>2, <3>1, <3>2, <3>3
      <4>. QED
        BY <3>1, <3>2, <4>1
    <3>4. CASE ppid[c] # p
      BY <1>2, <3>1, <3>2, <3>4
    <3>. QED
      BY <3>3, <3>4
  <2>. QED
    BY <2>1, <2>2
<1>4. Climbed(M2, lf2, a, m)
  BY <1>3 DEF Climbed
<1>. QED
  BY <1>4 DEF lf2

LEMMA ChildrenSeenStep ==
    ASSUME Rooted, NEW ch \in Children, NEW lf \in Levels, NEW p \in Pids, NEW n \in 0..ParentDepth,
           ChildrenSeen(ch, lf)
    PROVE  /\ ppid[p] = 0 => ChildrenSeen(ch, [lf EXCEPT ![p] = n])
           /\ ppid[p] # 0 => ChildrenSeen([ch EXCEPT ![ppid[p]] = @ \cup {p}], [lf EXCEPT ![p] = n])
<1>. DEFINE lf2 == [lf EXCEPT ![p] = n]  ch2 == [ch EXCEPT ![ppid[p]] = @ \cup {p}]
<1>1. ParentDepth \in Nat /\ 0 \notin Pids /\ n >= 0
  BY ParentAssumption
<1>2. lf2[p] = n /\ \A q \in Pids \ {p} : lf2[q] = lf[q]
  BY DEF Levels
<1>3. \A q \in Pids : ch2[q] = IF q = ppid[p] THEN ch[q] \cup {p} ELSE ch[q]
  BY DEF Children
<1>. HIDE DEF lf2, ch2
<1>4. ASSUME ppid[p] = 0 PROVE ChildrenSeen(ch, lf2)
  BY <1>1, <1>2, <1>4 DEF ChildrenSeen
<1>5. ASSUME ppid[p] # 0 PROVE ChildrenSeen(ch2, lf2)
  <2>1. ASSUME NEW q \in Pids PROVE ch2[q] = {c \in Pids : lf2[c] >= 0 /\ ppid[c] = q}
    <3>1. ch[q] = {c \in Pids : lf[c] >= 0 /\ ppid[c] = q}
      BY DEF ChildrenSeen
    <3>. QED
      BY <1>1, <1>2, <1>3, <3>1
  <2>. QED
    BY <2>1 DEF ChildrenSeen
<1>. QED
  BY <1>4, <1>5 DEF lf2, ch2

\* More children make more origins, and whoever was reached stays so.
LEMMA OriginsGrow ==
    ASSUME NEW E \in SUBSET Pids, NEW ch \in Children, NEW ch2 \in Children,
           \A q \in Pids : ch[q] \subseteq ch2[q]
    PROVE  /\ Origins(E, ch) \subseteq Origins(E, ch2) /\ Origins(E, ch2) \subseteq Pids
           /\ \A p, n : ReachedBy(E, ch, p, n) => ReachedBy(E, ch2, p, n)
<1>1. ASSUME NEW q \in Pids, Cardinality(ch[q]) >= 2 PROVE Cardinality(ch2[q]) >= 2
  <2>1. ch2[q] \in SUBSET Pids /\ ch[q] \in SUBSET Pids /\ ch[q] \subseteq ch2[q]
    BY DEF Children
  <2>2. IsFiniteSet(ch2[q])
    BY <2>1, ParentAssumption, FS_Subset
  <2>3. IsFiniteSet(ch[q]) /\ Cardinality(ch[q]) <= Cardinality(ch2[q])
    BY <2>1, <2>2, FS_Subset
  <2>4. Cardinality(ch[q]) \in Nat /\ Cardinality(ch2[q]) \in Nat
    BY <2>2, <2>3, FS_CardinalityType
  <2>. QED
    BY <1>1, <2>3, <2>4
<1>2. Origins(E, ch) \subseteq Origins(E, ch2) /\ Origins(E, ch2) \subseteq Pids
  BY <1>1 DEF Origins
<1>. QED
  BY <1>2 DEF ReachedBy

LEMMA MembersStep ==
    ASSUME NEW E, NEW M, NEW ch, NEW lf \in Levels, NEW p \in Pids, NEW n \in 0..ParentDepth,
           MembersKnown(E, M, ch, lf), p \in M,
           NEW M2 \in SUBSET Pids, M \subseteq M2, NEW ch2,
           \A q \in Pids : ch[q] \subseteq ch2[q], \A q \in M2 \ M : ch2[q] # {},
           \A q \in Pids : Cardinality(ch2[q]) >= 2 => q \in M2
    PROVE  MembersKnown(E, M2, ch2, [lf EXCEPT ![p] = n])
<1>1. \A q \in Pids : [lf EXCEPT ![p] = n][q] >= 0 => q \in M
  <2>1. \A q \in Pids \ {p} : [lf EXCEPT ![p] = n][q] = lf[q]
    BY DEF Levels
  <2>. QED
    BY <2>1 DEF MembersKnown
<1>2. \A q \in M2 : q \in E \/ ch2[q] # {}
  BY DEF MembersKnown
<1>. QED
  BY <1>1, <1>2 DEF MembersKnown

LEMMA ReachedStep ==
    ASSUME NEW E \in SUBSET Pids, NEW M, NEW ch \in Children, NEW ch2 \in Children,
           \A q \in Pids : ch[q] \subseteq ch2[q],
           NEW lf \in Levels, NEW p \in Pids, NEW n \in 0..ParentDepth,
           Reached(E, M, ch, lf), ReachedBy(E, ch, p, n),
           NEW M2, \A q \in M2 \ M : ReachedBy(E, ch2, q, 0)
    PROVE  Reached(E, M2, ch2, [lf EXCEPT ![p] = n])
<1>1. \A q, k : ReachedBy(E, ch, q, k) => ReachedBy(E, ch2, q, k)
  BY OriginsGrow
<1>2. [lf EXCEPT ![p] = n][p] = n /\ \A q \in Pids \ {p} : [lf EXCEPT ![p] = n][q] = lf[q]
  BY DEF Levels
<1>3. \A q \in Pids : [lf EXCEPT ![p] = n][q] >= 0 => ReachedBy(E, ch2, q, [lf EXCEPT ![p] = n][q])
  BY <1>1, <1>2 DEF Reached
<1>4. \A q \in M2 : ReachedBy(E, ch2, q, 0)
  BY <1>1 DEF Reached
<1>. QED
  BY <1>3, <1>4 DEF Reached

LEMMA ReachedUp ==
    ASSUME Rooted, NEW E \in SUBSET Pids, NEW ch \in Children, NEW p \in Pids, NEW n \in 0..ParentDepth
    PROVE  /\ p \in Origins(E, ch) => ReachedBy(E, ch, p, n)
           /\ ReachedBy(E, ch, p, n) => ReachedBy(E, ch, p, 0)
           /\ n > 0 /\ ppid[p] # 0 /\ ReachedBy(E, ch, p, n) => ReachedBy(E, ch, ppid[p], n - 1)
<1>1. ParentDepth \in Nat /\ ParentDepth - n \in 0..ParentDepth /\ ParentDepth \in 0..ParentDepth
      /\ ParentDepth - n <= ParentDepth /\ ParentDepth - 0 = ParentDepth
  BY ParentAssumption
<1>2. Origins(E, ch) \subseteq Pids
  BY OriginsGrow
<1>3. p \in Origins(E, ch) => ReachedBy(E, ch, p, n)
  BY DEF ReachedBy, Near
<1>4. ASSUME ReachedBy(E, ch, p, n) PROVE ReachedBy(E, ch, p, 0)
  <2>1. PICK r \in Origins(E, ch) : Near(r, p, ParentDepth - n)
    BY <1>4 DEF ReachedBy
  <2>2. r \in Pids
    BY <1>2
  <2>3. Near(r, p, ParentDepth)
    BY <1>1, <2>1, <2>2, NearStays
  <2>. QED
    BY <1>1, <2>3 DEF ReachedBy
<1>5. ASSUME n > 0, ppid[p] # 0, ReachedBy(E, ch, p, n) PROVE ReachedBy(E, ch, ppid[p], n - 1)
  <2>1. PICK r \in Origins(E, ch) : Near(r, p, ParentDepth - n)
    BY <1>5 DEF ReachedBy
  <2>2. r \in Pids
    BY <1>2
  <2>3. (ParentDepth - n) + 1 <= ParentDepth /\ ParentDepth - (n - 1) = (ParentDepth - n) + 1
    BY <1>1, <1>5
  <2>4. ppid[p] \in Ancestors[(ParentDepth - n) + 1][r]
    BY <1>1, <1>5, <2>1, <2>2, <2>3, NearGrows
  <2>5. Near(r, ppid[p], ParentDepth - (n - 1))
    BY <2>3, <2>4 DEF Near
  <2>. QED
    BY <2>5 DEF ReachedBy
<1>. QED
  BY <1>3, <1>4, <1>5

\* A lookup under way in a round whose members were M before it.
Going(E, M, l) ==
    /\ Sound(E, M \cup l.near, l.children, l.left)
    /\ Climbed(M \cup l.near, l.left, l.pid, l.levels)
    /\ l.pid \in M \cup l.near /\ ReachedBy(E, l.children, l.pid, l.levels)

LookedUp(E, M, l) ==
    /\ Sound(E, M \cup l.near, l.children, l.left)
    /\ Climbed(M \cup l.near, l.left, 0, 0)

\* Whoever has two children is in M.
CommonIn(ch, M) == \A x \in Pids : Cardinality(ch[x]) >= 2 => x \in M
MoreChildren(ch, ch2) == \A x \in Pids : ch[x] \subseteq ch2[x]

\* What is known of children that have one more.
LEMMA OneMoreChild ==
    ASSUME NEW ch \in Children, NEW q \in Pids, NEW p \in Pids, NEW M, CommonIn(ch, M),
           NEW ch2, ch2 = [ch EXCEPT ![q] = @ \cup {p}]
    PROVE  /\ ch2 \in Children /\ ch2[q] # {} /\ MoreChildren(ch, ch2) /\ CommonIn(ch2, M \cup {q})
           /\ ~(Cardinality(ch2[q]) >= 2) => CommonIn(ch2, M)
<1>1. ch2[q] = ch[q] \cup {p} /\ \A x \in Pids \ {q} : ch2[x] = ch[x]
  BY DEF Children
<1>2. ch2 \in Children
  BY DEF Children
<1>. QED
  BY <1>1, <1>2 DEF CommonIn, MoreChildren

LEMMA GoingOn ==
    ASSUME Rooted, NEW E \in SUBSET Pids, NEW M \in SUBSET Pids, NEW l \in Lookups \ LookupEnds, Going(E, M, l)
    PROVE  Going(E, M, NextOf(l))
<1>. DEFINE p == l.pid  q == ppid[l.pid]  n == l.levels  ch == l.children  lf == l.left
            k == NextOf(l)  N == M \cup l.near  N2 == N \cup {q}
<1>1. /\ n > lf[p] /\ q \in Pids /\ k \in Lookups /\ k.pid = q /\ k.near = l.near \cup {q}
      /\ k.children = [ch EXCEPT ![q] = @ \cup {p}] /\ k.left = [lf EXCEPT ![p] = n]
      /\ k.levels \in 0..ParentDepth
      /\ IsCommon(l) => k.levels = n
      /\ ~IsCommon(l) => n > 0 /\ k.levels = n - 1
  BY LookupGoesOn
<1>2. /\ p \in Pids /\ n \in 0..ParentDepth /\ l.near \in SUBSET Pids /\ ch \in Children /\ lf \in Levels
      /\ ParentDepth \in Nat
  BY LookupTyped, ParentAssumption DEF Children, Levels
<1>3. IsCommon(l) <=> Cardinality(k.children[q]) >= 2
  <2>1. q # 0
    BY <1>1, ParentAssumption
  <2>2. JoinedAt(l).children = [ch EXCEPT ![q] = @ \cup {p}]
    BY <2>1, JoinedTyped
  <2>. QED
    BY <1>1, <2>2 DEF IsCommon
<1>4. M \cup k.near = N2 /\ N \in SUBSET Pids /\ N2 \in SUBSET Pids /\ N \subseteq N2 /\ q \in N2 /\ q # 0
  BY <1>1, <1>2, ParentAssumption
<1>5. /\ ChildrenSeen(ch, lf) /\ MembersKnown(E, N, ch, lf) /\ Reached(E, N, ch, lf)
      /\ Climbed(N, lf, p, n) /\ p \in N /\ ReachedBy(E, ch, p, n)
  BY DEF Going, Sound
<1>. DEFINE ch2 == k.children  lf2 == k.left  m == k.levels
<1>. HIDE DEF p, q, n, ch, lf, k, N, N2, ch2, lf2, m
<1>6. ch2 = [ch EXCEPT ![q] = @ \cup {p}] /\ lf2 = [lf EXCEPT ![p] = n] /\ q = ppid[p]
  BY <1>1 DEF ch2, lf2, p, q
<1>7. m \in 0..ParentDepth /\ n \in Nat /\ m >= n - 1
      /\ (IsCommon(l) => m = n) /\ (~IsCommon(l) => n > 0 /\ m = n - 1)
  BY <1>1, <1>2 DEF m
<1>8. CommonIn(ch, N)
  BY <1>5 DEF MembersKnown, CommonIn
<1>9. /\ ch2 \in Children /\ ch2[q] # {} /\ \A x \in Pids : ch[x] \subseteq ch2[x]
      /\ \A x \in Pids : Cardinality(ch2[x]) >= 2 => x \in N2
  <2>1. q \in Pids
    BY <1>1 DEF q
  <2>2. ch2 \in Children /\ ch2[q] # {} /\ MoreChildren(ch, ch2) /\ CommonIn(ch2, N \cup {q})
    BY <1>2, <1>6, <1>8, <2>1, OneMoreChild
  <2>. QED
    BY <2>2 DEF N2, MoreChildren, CommonIn
<1>10. ChildrenSeen(ch2, lf2)
  BY <1>2, <1>4, <1>5, <1>6, ChildrenSeenStep
<1>11. MembersKnown(E, N2, ch2, lf2)
  <2>1. \A x \in N2 \ N : ch2[x] # {}
    BY <1>9 DEF N2
  <2>. QED
    BY <1>2, <1>4, <1>5, <1>6, <1>9, <2>1, MembersStep
<1>12. \A x, i : ReachedBy(E, ch, x, i) => ReachedBy(E, ch2, x, i)
  BY <1>2, <1>9, OriginsGrow
<1>13. ReachedBy(E, ch2, q, m)
  <2>1. CASE IsCommon(l)
    <3>1. q \in Origins(E, ch2)
      BY <1>1, <1>3, <2>1 DEF Origins, ch2
    <3>. QED
      BY <1>1, <1>7, <1>9, <3>1, ReachedUp
  <2>2. CASE ~IsCommon(l)
    <3>1. ReachedBy(E, ch2, p, n)
      BY <1>5, <1>12
    <3>2. ReachedBy(E, ch2, ppid[p], n - 1)
      BY <1>2, <1>4, <1>6, <1>7, <1>9, <2>2, <3>1, ReachedUp
    <3>. QED
      BY <1>6, <1>7, <2>2, <3>2
  <2>. QED
    BY <2>1, <2>2
<1>14. ReachedBy(E, ch2, q, 0)
  BY <1>1, <1>7, <1>9, <1>13, ReachedUp
<1>15. Reached(E, N2, ch2, lf2)
  <2>1. \A x \in N2 \ N : ReachedBy(E, ch2, x, 0)
    BY <1>14 DEF N2
  <2>. QED
    BY <1>2, <1>5, <1>6, <1>9, <2>1, ReachedStep
<1>16. Climbed(N2, lf2, q, m)
  <2>1. n > lf[p] /\ q \in Pids \cup {0}
    BY <1>1 DEF n, lf, p
  <2>2. ppid[p] \in N2 /\ q = ppid[p] /\ m >= n - 1
    BY <1>4, <1>6, <1>7
  <2>. QED
    BY <1>2, <1>4, <1>5, <1>6, <1>7, <2>1, <2>2, ClimbedStep
<1>17. k.pid = q /\ M \cup k.near = N2
  BY <1>1, <1>4
<1>18. Going(E, M, k)
  BY <1>4, <1>10, <1>11, <1>13, <1>15, <1>16, <1>17 DEF Going, Sound, ch2, lf2, m
<1>. QED
  BY <1>18 DEF k

LEMMA GoingEnds ==
    ASSUME Rooted, NEW E \in SUBSET Pids, NEW M \in SUBSET Pids, NEW l \in LookupEnds, Going(E, M, l)
    PROVE  LookedUp(E, M, EndOf(l))
<1>. DEFINE p == l.pid  q == ppid[l.pid]  n == l.levels  ch == l.children  lf == l.left
            N == M \cup l.near  lf2 == [lf EXCEPT ![p] = n]  ch2 == [ch EXCEPT ![q] = @ \cup {p}]
<1>1. l \in Lookups
  BY LookupEndsAt
<1>2. /\ p \in Pids /\ n \in 0..ParentDepth /\ l.near \in SUBSET Pids /\ ch \in Children /\ lf \in Levels
      /\ ParentDepth \in Nat /\ q \in Pids \cup {0} /\ lf[p] \in -1..ParentDepth
  BY <1>1, LookupTyped, ParentAssumption DEF Children, Levels, Rooted
<1>3. /\ ChildrenSeen(ch, lf) /\ MembersKnown(E, N, ch, lf) /\ Reached(E, N, ch, lf)
      /\ Climbed(N, lf, p, n) /\ p \in N /\ ReachedBy(E, ch, p, n)
  BY DEF Going, Sound
<1>4. n <= lf[p] \/ (n > lf[p] /\ q = 0) \/ (n > lf[p] /\ q # 0 /\ ~IsCommon(l) /\ n = 0)
  BY <1>1, <1>2, WhereLookupsEnd
<1>5. N \in SUBSET Pids
  BY <1>2
<1>6. CASE n <= lf[p]
  <2>1. EndOf(l) = l
    BY <1>6 DEF EndOf
  <2>2. Climbed(N, lf, 0, 0)
    <3>. HIDE DEF p, q, n, lf, N
    <3>1. \A c \in Pids : lf[c] \in -1..ParentDepth
      BY <1>2 DEF Levels
    <3>2. \A c \in Pids : lf[c] > 0 /\ ppid[c] = p /\ n >= lf[c] - 1 => lf[p] >= lf[c] - 1
      BY <1>2, <1>6, <3>1
    <3>. QED
      BY <1>3, <3>2 DEF Climbed
  <2>. QED
    BY <1>3, <2>1, <2>2 DEF LookedUp, Sound
<1>7. CASE n > lf[p] /\ q = 0
  <2>1. EndOf(l) = KnownAt(l)
    <3>1. ~(n <= lf[p])
      BY <1>2, <1>7
    <3>. QED
      BY <1>7, <3>1 DEF EndOf
  <2>2. EndOf(l).near = l.near /\ EndOf(l).children = ch /\ EndOf(l).left = lf2
    BY <1>1, <2>1, KnownTyped
  <2>3. ChildrenSeen(ch, lf2)
    BY <1>2, <1>3, <1>7, ChildrenSeenStep
  <2>4. \A x \in Pids : Cardinality(ch[x]) >= 2 => x \in N
    BY <1>3 DEF MembersKnown
  <2>5. MembersKnown(E, N, ch, lf2)
    <3>. HIDE DEF p, q, n, lf, N, ch
    <3>. QED
      BY <1>2, <1>3, <1>5, <2>4, MembersStep DEF lf2
  <2>6. Reached(E, N, ch, lf2)
    <3>. HIDE DEF p, q, n, lf, N, ch
    <3>. QED
      BY <1>2, <1>3, ReachedStep DEF lf2
  <2>7. Climbed(N, lf2, 0, 0)
    <3>1. ppid[p] = 0
      BY <1>7
    <3>2. 0 \in 0..ParentDepth
      BY <1>2
    <3>. HIDE DEF p, q, n, lf, N
    <3>. QED
      BY <1>2, <1>3, <1>7, <3>1, <3>2, ClimbedStep DEF lf2
  <2>. QED
    BY <2>2, <2>3, <2>5, <2>6, <2>7 DEF LookedUp, Sound
<1>8. CASE n > lf[p] /\ q # 0 /\ ~IsCommon(l) /\ n = 0
  <2>0. q \in Pids
    BY <1>2, <1>8
  <2>1. EndOf(l) = JoinedAt(l)
    <3>1. ~(n <= lf[p])
      BY <1>2, <1>8
    <3>. QED
      BY <1>8, <3>1 DEF EndOf
  <2>2. EndOf(l).near = l.near /\ EndOf(l).children = ch2 /\ EndOf(l).left = lf2 /\ JoinedAt(l).children = ch2
    BY <1>1, <1>8, <2>1, JoinedTyped
  <2>3. ChildrenSeen(ch2, lf2)
    BY <1>2, <1>3, <1>8, ChildrenSeenStep
  <2>4. \A x \in Pids : Cardinality(ch[x]) >= 2 => x \in N
    BY <1>3 DEF MembersKnown
  <2>5. ~(Cardinality(ch2[q]) >= 2)
    BY <1>8, <2>2 DEF IsCommon
  <2>6. /\ ch2 \in Children /\ \A x \in Pids : ch[x] \subseteq ch2[x]
        /\ \A x \in Pids : Cardinality(ch2[x]) >= 2 => x \in N
    <3>. DEFINE c == ch2
    <3>1. c = [ch EXCEPT ![q] = @ \cup {p}] /\ ~(Cardinality(c[q]) >= 2) /\ CommonIn(ch, N)
      BY <2>4, <2>5 DEF CommonIn
    <3>. HIDE DEF c, ch2, p, q, n, lf, N, ch
    <3>2. c \in Children /\ MoreChildren(ch, c) /\ CommonIn(c, N)
      BY <1>2, <2>0, <3>1, OneMoreChild
    <3>. QED
      BY <3>2 DEF c, MoreChildren, CommonIn
  <2>7. MembersKnown(E, N, ch2, lf2)
    <3>. HIDE DEF p, q, n, lf, N, ch, ch2
    <3>. QED
      BY <1>2, <1>3, <1>5, <2>6, MembersStep DEF lf2
  <2>8. Reached(E, N, ch2, lf2)
    <3>. HIDE DEF p, q, n, lf, N, ch, ch2
    <3>. QED
      BY <1>2, <1>3, <2>6, ReachedStep DEF lf2
  <2>9. Climbed(N, lf2, 0, 0)
    <3>1. 0 \in 0..ParentDepth /\ ~(n > 0)
      BY <1>2, <1>8
    <3>. HIDE DEF p, q, n, lf, N
    <3>. QED
      BY <1>2, <1>3, <1>8, <3>1, ClimbedStep DEF lf2
  <2>. QED
    BY <2>2, <2>3, <2>7, <2>8, <2>9 DEF LookedUp, Sound
<1>. QED
  BY <1>4, <1>6, <1>7, <1>8

\* A lookup that is later than l has seen what l had, and has looked up from
\* the process of l.
Later(l, k) ==
    /\ MoreChildren(l.children, k.children) /\ \A x \in Pids : l.left[x] <= k.left[x]
    /\ k.left[l.pid] >= l.levels

LEMMA LaterIs ==
    ASSUME NEW l \in Lookups, NEW k \in Lookups, MoreChildren(l.children, k.children),
           l.left[l.pid] <= l.levels, k.left = [l.left EXCEPT ![l.pid] = l.levels]
    PROVE  Later(l, k)
<1>1. /\ l.pid \in Pids /\ l.levels \in 0..ParentDepth /\ l.left \in [Pids -> -1..ParentDepth] /\ ParentDepth \in Nat
  BY LookupTyped, ParentAssumption
<1>2. k.left[l.pid] = l.levels /\ \A x \in Pids \ {l.pid} : k.left[x] = l.left[x]
  BY <1>1
<1>3. \A x \in Pids : l.left[x] \in Int /\ l.levels \in Int
  BY <1>1
<1>. QED
  BY <1>1, <1>2, <1>3 DEF Later

LEMMA NextIsLater ==
    ASSUME Rooted, NEW l \in Lookups \ LookupEnds PROVE Later(l, NextOf(l))
<1>1. /\ l.levels > l.left[l.pid] /\ ppid[l.pid] \in Pids /\ NextOf(l) \in Lookups
      /\ NextOf(l).children = [l.children EXCEPT ![ppid[l.pid]] = @ \cup {l.pid}]
      /\ NextOf(l).left = [l.left EXCEPT ![l.pid] = l.levels]
  BY LookupGoesOn
<1>2. l.children \in Children /\ l.pid \in Pids
  BY LookupTyped DEF Children
<1>3. MoreChildren(l.children, NextOf(l).children)
  BY <1>1, <1>2 DEF MoreChildren, Children
<1>4. l.left[l.pid] <= l.levels
  BY <1>1, WhereLookupsEnd
<1>. QED
  BY <1>1, <1>3, <1>4, LaterIs

LEMMA EndIsLater ==
    ASSUME Rooted, NEW l \in LookupEnds PROVE Later(l, EndOf(l))
<1>1. l \in Lookups /\ EndOf(l) \in Lookups
  BY LookupEndsAt
<1>2. l.pid \in Pids /\ l.levels \in 0..ParentDepth /\ l.children \in Children
      /\ l.left \in Levels /\ ParentDepth \in Nat
  BY <1>1, LookupTyped, ParentAssumption DEF Children, Levels
<1>3. CASE l.levels <= l.left[l.pid]
  <2>1. EndOf(l) = l
    BY <1>3 DEF EndOf
  <2>2. \A x \in Pids : l.left[x] <= l.left[x]
    BY <1>2 DEF Levels
  <2>3. l.left[l.pid] >= l.levels
    BY <1>2, <1>3 DEF Levels
  <2>. QED
    BY <2>1, <2>2, <2>3 DEF Later, MoreChildren
<1>4. CASE ~(l.levels <= l.left[l.pid])
  <2>1. l.left[l.pid] <= l.levels
    BY <1>2, <1>4 DEF Levels
  <2>2. CASE ppid[l.pid] = 0
    <3>1. EndOf(l) = KnownAt(l)
      BY <1>4, <2>2 DEF EndOf
    <3>2. EndOf(l).children = l.children /\ EndOf(l).left = [l.left EXCEPT ![l.pid] = l.levels]
      BY <1>1, <3>1, KnownTyped
    <3>3. MoreChildren(l.children, EndOf(l).children)
      BY <3>2 DEF MoreChildren
    <3>. QED
      BY <1>1, <2>1, <3>2, <3>3, LaterIs
  <2>3. CASE ppid[l.pid] # 0
    <3>1. EndOf(l) = JoinedAt(l)
      BY <1>4, <2>3 DEF EndOf
    <3>2. /\ ppid[l.pid] \in Pids
          /\ EndOf(l).children = [l.children EXCEPT ![ppid[l.pid]] = @ \cup {l.pid}]
          /\ EndOf(l).left = [l.left EXCEPT ![l.pid] = l.levels]
      BY <1>1, <2>3, <3>1, JoinedTyped
    <3>3. MoreChildren(l.children, EndOf(l).children)
      BY <1>2, <3>2 DEF MoreChildren, Children
    <3>. QED
      BY <1>1, <2>1, <3>2, <3>3, LaterIs
  <2>. QED
    BY <2>2, <2>3
<1>. QED
  BY <1>3, <1>4

LEMMA LaterStill ==
    ASSUME NEW l \in Lookups, NEW k \in Lookups, NEW j \in Lookups, Later(l, k), Later(k, j)
    PROVE  Later(l, j)
<1>1. /\ l.left \in Levels /\ k.left \in Levels /\ j.left \in Levels /\ l.pid \in Pids
      /\ l.levels \in 0..ParentDepth /\ ParentDepth \in Nat
  BY LookupTyped, ParentAssumption DEF Levels
<1>2. \A x \in Pids : l.left[x] \in Int /\ k.left[x] \in Int /\ j.left[x] \in Int
  BY <1>1 DEF Levels
<1>3. \A x \in Pids : l.left[x] <= j.left[x]
  BY <1>2 DEF Later
<1>4. j.left[l.pid] >= l.levels
  BY <1>1, <1>2 DEF Later
<1>5. MoreChildren(l.children, j.children)
  BY DEF Later, MoreChildren
<1>. QED
  BY <1>3, <1>4, <1>5 DEF Later

\* A whole lookup, of an undisturbed round and of any other.
LEMMA LookupFinds ==
    ASSUME Rooted, NEW E \in SUBSET Pids, NEW M \in SUBSET Pids, NEW l \in Lookups, Going(E, M, l)
    PROVE  /\ LookupExtendParent[l] \in Lookups
           /\ LookedUp(E, M, LookupExtendParent[l]) /\ Later(l, LookupExtendParent[l])
<1>. DEFINE Q == {k \in Lookups : Going(E, M, k) /\ (k = l \/ Later(l, k))}
<1>1. Q \in SUBSET Lookups /\ l \in Q
  OBVIOUS
<1>2. ASSUME NEW k \in Q \ LookupEnds PROVE NextOf(k) \in Q
  <2>1. k \in Lookups \ LookupEnds /\ Going(E, M, k) /\ (k = l \/ Later(l, k))
    OBVIOUS
  <2>2. NextOf(k) \in Lookups
    BY <2>1, LookupGoesOn
  <2>3. Going(E, M, NextOf(k))
    BY <2>1, GoingOn
  <2>4. Later(k, NextOf(k))
    BY <2>1, NextIsLater
  <2>5. Later(l, NextOf(k))
    BY <2>1, <2>2, <2>4, LaterStill
  <2>. QED
    BY <2>2, <2>3, <2>5
<1>3. PICK e \in Q \cap LookupEnds : LookupExtendParent[l] = EndOf(e)
  <2>. HIDE DEF Q
  <2>. QED
    BY <1>1, <1>2, LookupEndsIn
<1>4. e \in LookupEnds /\ e \in Lookups /\ Going(E, M, e) /\ (e = l \/ Later(l, e))
  OBVIOUS
<1>5. EndOf(e) \in Lookups /\ Later(e, EndOf(e)) /\ LookedUp(E, M, EndOf(e))
  BY <1>4, LookupEndsAt, EndIsLater, GoingEnds
<1>6. Later(l, EndOf(e))
  BY <1>4, <1>5, LaterStill
<1>. QED
  BY <1>3, <1>5, <1>6

LEMMA LookupAnswers ==
    ASSUME Rooted, NEW l \in Lookups PROVE LookupExtendParent[l] \in Lookups
<1>1. \A k \in Lookups \ LookupEnds : NextOf(k) \in Lookups
  BY LookupGoesOn
<1>2. \E e \in Lookups \cap LookupEnds : LookupExtendParent[l] = EndOf(e)
  BY <1>1, LookupEndsIn
<1>. QED
  BY <1>2, LookupEndsAt

LEMMA LevelsLeftAre ==
    ASSUME children \in Children
    PROVE  \A n \in 0..ParentDepth, p \in Pids :
             /\ LevelsLeft[n][p] \in 0..ParentDepth
             /\ LevelsLeft[n][p] = IF n > 0 /\ Cardinality(children[p]) = 1
                                   THEN LevelsLeft[n - 1][CHOOSE c \in children[p] : TRUE] ELSE n
<1>. DEFINE D == ParentDepth  V == [Pids -> 0..D]
            Body(n, g) == [p \in Pids |-> IF n > 0 /\ Cardinality(children[p]) = 1
                                          THEN g[CHOOSE c \in children[p] : TRUE] ELSE n]
            G == [x \in (0..D) \X V |-> Body(x[1], x[2])]
            v == [p \in Pids |-> 0]
<1>1. D \in Nat /\ v \in V
  BY ParentAssumption
<1>2. ASSUME NEW p \in Pids, Cardinality(children[p]) = 1 PROVE (CHOOSE c \in children[p] : TRUE) \in Pids
  <2>1. children[p] # {}
    BY <1>2, FS_EmptySet
  <2>. QED
    BY <2>1 DEF Children
<1>3. \A n \in 0..D, g \in V : Body(n, g) \in V
  BY <1>1, <1>2
<1>4. G \in [(0..D) \X V -> V] /\ \A n \in 0..D, g \in V : G[<<n, g>>] = Body(n, g)
  <2>. HIDE DEF Body
  <2>. QED
    BY <1>3
<1>5. PICK f \in [0..D -> V] : UsesBefore(f, D, v, G)
  <2>. HIDE DEF D, V, G, v
  <2>. QED
    BY <1>1, <1>4, RecursionOnNumbers
<1>6. ASSUME NEW n \in 0..D PROVE f[n] = Body(n, f[n - 1])
  <2>1. CASE n = 0
    <3>1. f[n] = Body(n, v)
      <4>1. 0 \in 0..D
        BY <1>1
      <4>. HIDE DEF Body, G, V, v
      <4>. QED
        BY <1>1, <1>4, <1>5, <2>1, <4>1 DEF UsesBefore
    <3>2. Body(n, v) = Body(n, f[n - 1])
      BY <2>1
    <3>. HIDE DEF Body
    <3>. QED
      BY <3>1, <3>2
  <2>2. CASE n # 0
    <3>1. n - 1 \in 0..D
      BY <1>1, <2>2
    <3>2. f[n - 1] \in V
      BY <3>1
    <3>. HIDE DEF Body, G, V
    <3>. QED
      BY <1>4, <1>5, <2>2, <3>2 DEF UsesBefore
  <2>. QED
    BY <2>1, <2>2
<1>7. f = [n \in 0..D |-> Body(n, f[n - 1])]
  <2>. HIDE DEF Body
  <2>. QED
    BY <1>6
<1>8. LevelsLeft = CHOOSE g : g = [n \in 0..D |-> Body(n, g[n - 1])]
  BY DEF LevelsLeft
<1>. HIDE DEF Body
<1>9. LevelsLeft = [n \in 0..D |-> Body(n, LevelsLeft[n - 1])]
  BY <1>7, <1>8
<1>10. \A n \in 0..D : LevelsLeft[n] = Body(n, LevelsLeft[n - 1])
  BY <1>9
<1>11. \A n \in 0..D, p \in Pids : LevelsLeft[n][p] =
          IF n > 0 /\ Cardinality(children[p]) = 1 THEN LevelsLeft[n - 1][CHOOSE c \in children[p] : TRUE] ELSE n
  BY <1>10 DEF Body
<1>. DEFINE T == {k \in Nat : k <= D => \A p \in Pids : LevelsLeft[k][p] \in 0..D}
<1>12. 0 \in T
  <2>1. 0 \in 0..D /\ ~(0 > 0)
    BY <1>1
  <2>2. \A p \in Pids : LevelsLeft[0][p] = 0
    BY <1>11, <2>1
  <2>. QED
    BY <2>1, <2>2
<1>13. ASSUME NEW k \in T PROVE k + 1 \in T
  <2>. SUFFICES ASSUME k + 1 <= D, NEW p \in Pids PROVE LevelsLeft[k + 1][p] \in 0..D
    OBVIOUS
  <2>1. k + 1 \in 0..D /\ k <= D /\ (k + 1) - 1 = k
    BY <1>1
  <2>2. \A q \in Pids : LevelsLeft[k][q] \in 0..D
    BY <2>1
  <2>3. LevelsLeft[k + 1][p] = IF k + 1 > 0 /\ Cardinality(children[p]) = 1
                               THEN LevelsLeft[k][CHOOSE c \in children[p] : TRUE] ELSE k + 1
    BY <1>11, <2>1
  <2>. QED
    BY <1>2, <2>1, <2>2, <2>3
<1>14. T = Nat
  <2>. HIDE DEF T
  <2>1. T \subseteq Nat
    BY DEF T
  <2>. QED
    BY <1>12, <1>13, <2>1, AllNumbers
<1>15. ASSUME NEW n \in 0..D, NEW p \in Pids PROVE LevelsLeft[n][p] \in 0..D
  <2>1. n \in T /\ n <= D
    <3>1. n \in Nat /\ n <= D
      BY <1>1
    <3>. HIDE DEF T
    <3>. QED
      BY <1>14, <3>1
  <2>. QED
    BY <2>1
<1>. QED
  BY <1>11, <1>15

\* The levels left of a member that is to be expanded were not used up from
\* where its only children were reached.
LEMMA LevelsLeftFound ==
    ASSUME Rooted, NEW E \in SUBSET Pids, NEW M \in SUBSET Pids, NEW lf \in Levels, children \in Children,
           Sound(E, M, children, lf), NEW p \in M
    PROVE  /\ LevelsLeft[ParentDepth][p] \in 0..ParentDepth
           /\ children[p] = {} => LevelsLeft[ParentDepth][p] = ParentDepth
           /\ ReachedBy(E, children, p, LevelsLeft[ParentDepth][p])
<1>. DEFINE D == ParentDepth
            From(n, x) == \E r \in Origins(E, children) : Near(r, x, n - LevelsLeft[n][x])
            Right(n, x) == /\ LevelsLeft[n][x] <= n
                           /\ children[x] = {} => LevelsLeft[n][x] = n
                           /\ LevelsLeft[n][x] > 0 => From(n, x)
            T == {n \in Nat : n <= D => \A x \in M : Right(n, x)}
<1>1. D \in Nat /\ \A n \in 0..D, x \in Pids : LevelsLeft[n][x] \in 0..D
  BY LevelsLeftAre, ParentAssumption
<1>2. ASSUME NEW n \in 0..D, NEW x \in Pids
      PROVE  LevelsLeft[n][x] = IF n > 0 /\ Cardinality(children[x]) = 1
                                THEN LevelsLeft[n - 1][CHOOSE c \in children[x] : TRUE] ELSE n
  BY LevelsLeftAre
<1>3. Origins(E, children) \subseteq Pids
  BY OriginsGrow
<1>4. ASSUME NEW x \in M, Cardinality(children[x]) # 1 PROVE x \in Origins(E, children)
  <2>1. IsFiniteSet(children[x]) /\ Cardinality(children[x]) \in Nat
    <3>1. children[x] \in SUBSET Pids
      BY DEF Children
    <3>. QED
      BY <3>1, ParentAssumption, FS_Subset, FS_CardinalityType
  <2>2. CASE children[x] = {}
    BY <2>2 DEF Sound, MembersKnown, Origins
  <2>3. CASE children[x] # {}
    <3>1. Cardinality(children[x]) # 0
      BY <2>1, <2>3, FS_EmptySet
    <3>2. Cardinality(children[x]) >= 2
      BY <1>4, <2>1, <3>1
    <3>. QED
      BY <3>2 DEF Origins
  <2>. QED
    BY <2>2, <2>3
<1>5. ASSUME NEW x \in M, Cardinality(children[x]) = 1, NEW c, c = CHOOSE y \in children[x] : TRUE
      PROVE  c \in M /\ ppid[c] = x /\ x # 0 /\ children[x] # {}
  <2>1. children[x] # {}
    BY <1>5, FS_EmptySet
  <2>2. c \in children[x]
    BY <1>5, <2>1
  <2>3. c \in Pids /\ lf[c] >= 0 /\ ppid[c] = x
    BY <2>2 DEF Sound, ChildrenSeen
  <2>4. c \in M
    BY <2>3 DEF Sound, MembersKnown
  <2>. QED
    BY <2>1, <2>3, <2>4, ParentAssumption
<1>6. ASSUME NEW n \in 0..D, NEW x \in M, LevelsLeft[n][x] = n, n > 0 => x \in Origins(E, children)
      PROVE  Right(n, x)
  <2>1. n - n = 0 /\ n <= n
    BY <1>1
  <2>2. n > 0 => From(n, x)
    BY <1>6, <2>1 DEF Near
  <2>. HIDE DEF From
  <2>. QED
    BY <1>6, <2>1, <2>2
<1>7. 0 \in T
  <2>1. 0 \in 0..D /\ ~(0 > 0)
    BY <1>1
  <2>2. \A x \in M : LevelsLeft[0][x] = 0
    BY <1>2, <2>1
  <2>3. \A x \in M : Right(0, x)
    <3>. HIDE DEF Right
    <3>. QED
      BY <1>6, <2>1, <2>2
  <2>. HIDE DEF Right
  <2>. QED
    BY <2>3
<1>8. ASSUME NEW n \in T PROVE n + 1 \in T
  <2>. SUFFICES ASSUME n + 1 <= D, NEW x \in M PROVE Right(n + 1, x)
    OBVIOUS
  <2>1. n \in 0..D /\ n + 1 \in 0..D /\ n + 1 > 0 /\ (n + 1) - 1 = n
    BY <1>1
  <2>2. CASE Cardinality(children[x]) # 1
    <3>1. LevelsLeft[n + 1][x] = n + 1
      BY <1>2, <2>1, <2>2
    <3>2. x \in Origins(E, children)
      BY <1>4, <2>2
    <3>. HIDE DEF Right
    <3>. QED
      BY <1>6, <2>1, <3>1, <3>2
  <2>3. CASE Cardinality(children[x]) = 1
    <3>. DEFINE c == CHOOSE y \in children[x] : TRUE  k == LevelsLeft[n][c]
    <3>1. c \in M /\ ppid[c] = x /\ x # 0 /\ children[x] # {}
      BY <1>5, <2>3
    <3>2. LevelsLeft[n + 1][x] = k
      BY <1>2, <2>1, <2>3
    <3>. HIDE DEF c
    <3>3. Right(n, c)
      BY <2>1, <3>1
    <3>4. k \in 0..D /\ k <= n
      BY <1>1, <2>1, <3>1, <3>3
    <3>5. ASSUME k > 0 PROVE From(n + 1, x)
      <4>1. PICK r \in Origins(E, children) : Near(r, c, n - k)
        BY <3>3, <3>5
      <4>2. r \in Pids /\ c \in Pids
        BY <1>3, <3>1
      <4>3. n - k \in 0..D /\ (n - k) + 1 <= D /\ (n - k) + 1 = (n + 1) - k
        BY <1>1, <2>1, <3>4, <3>5
      <4>4. ppid[c] # 0 => ppid[c] \in Ancestors[(n - k) + 1][r]
        <5>. HIDE DEF k
        <5>. QED
          BY <4>1, <4>2, <4>3, NearGrows
      <4>5. Near(r, x, (n + 1) - LevelsLeft[n + 1][x])
        BY <3>1, <3>2, <4>3, <4>4 DEF Near
      <4>. QED
        BY <4>5
    <3>6. LevelsLeft[n + 1][x] <= n + 1
      BY <2>1, <3>2, <3>4
    <3>. HIDE DEF From, k
    <3>. QED
      BY <3>1, <3>2, <3>5, <3>6
  <2>. QED
    BY <2>2, <2>3
<1>9. T = Nat
  <2>. HIDE DEF T
  <2>1. T \subseteq Nat
    BY DEF T
  <2>. QED
    BY <1>7, <1>8, <2>1, AllNumbers
<1>10. Right(D, p) /\ D \in 0..D
  <2>1. D \in T /\ D <= D
    <3>. HIDE DEF T
    <3>. QED
      BY <1>1, <1>9
  <2>. QED
    BY <1>1, <2>1
<1>11. p \in Pids /\ LevelsLeft[D][p] \in 0..D
  BY <1>1, <1>10
<1>12. ReachedBy(E, children, p, LevelsLeft[D][p])
  <2>1. CASE LevelsLeft[D][p] > 0
    BY <1>10, <2>1 DEF ReachedBy
  <2>2. CASE ~(LevelsLeft[D][p] > 0)
    <3>1. LevelsLeft[D][p] = 0
      BY <1>1, <1>11, <2>2
    <3>2. ReachedBy(E, children, p, 0)
      BY DEF Sound, Reached
    <3>. QED
      BY <3>1, <3>2
  <2>. QED
    BY <2>1, <2>2
<1>. QED
  BY <1>10, <1>11, <1>12

\* Processes that have been expanded: all the way, if no child of theirs is seen.
LookedFrom(s, ch, lf) == \A p \in s : lf[p] >= 0 /\ (ch[p] = {} => lf[p] = ParentDepth)

\* What AnswerParents looks up.
AnswerTo(p) == [pid |-> p, levels |-> LevelsLeft[ParentDepth][p], near |-> {},
                children |-> children, left |-> extendLeft]

LEMMA AnswerFinds ==
    ASSUME Rooted, NEW E \in SUBSET Pids, NEW M \in SUBSET Pids, NEW done \in SUBSET M,
           children \in Children, extendLeft \in Levels,
           Sound(E, M, children, extendLeft), Climbed(M, extendLeft, 0, 0),
           LookedFrom(done, children, extendLeft), NEW p \in M, NEW r, r = LookupExtendParent[AnswerTo(p)]
    PROVE  /\ r \in Lookups /\ Sound(E, M \cup r.near, r.children, r.left)
           /\ Climbed(M \cup r.near, r.left, 0, 0) /\ LookedFrom(done \cup {p}, r.children, r.left)
<1>. DEFINE l == AnswerTo(p)  n == LevelsLeft[ParentDepth][p]
<1>1. n \in 0..ParentDepth /\ (children[p] = {} => n = ParentDepth) /\ ReachedBy(E, children, p, n)
  BY LevelsLeftFound
<1>. HIDE DEF n
<1>2. p \in Pids /\ {} \in SUBSET Pids /\ ParentDepth \in Nat
  BY ParentAssumption
<1>3. /\ l \in Lookups /\ l.pid = p /\ l.levels = n /\ l.near = {} /\ l.children = children /\ l.left = extendLeft
  <2>. DEFINE none == {}
  <2>1. l = [pid |-> p, levels |-> n, near |-> none, children |-> children, left |-> extendLeft]
    BY DEF AnswerTo, n
  <2>2. none \in SUBSET Pids
    OBVIOUS
  <2>. HIDE DEF l, none
  <2>3. /\ l \in Lookups /\ l.pid = p /\ l.levels = n /\ l.near = none /\ l.children = children /\ l.left = extendLeft
    BY <1>1, <1>2, <2>1, <2>2, LookupEqual DEF Children, Levels
  <2>. QED
    BY <2>3 DEF none
<1>. HIDE DEF l
<1>4. Climbed(M, extendLeft, p, n)
  BY <1>2, ParentAssumption DEF Climbed
<1>5. M \cup l.near = M
  BY <1>3
<1>6. Going(E, M, l)
  BY <1>1, <1>3, <1>4, <1>5 DEF Going
<1>7. r = LookupExtendParent[l]
  BY DEF l
<1>8. r \in Lookups /\ LookedUp(E, M, r) /\ Later(l, r)
  BY <1>3, <1>6, <1>7, LookupFinds
<1>9. r.left \in Levels /\ r.children \in Children
  BY <1>8, LookupTyped DEF Levels, Children
<1>10. ASSUME NEW x \in done \cup {p} PROVE r.left[x] >= 0 /\ (r.children[x] = {} => r.left[x] = ParentDepth)
  <2>1. /\ x \in Pids /\ extendLeft[x] \in -1..ParentDepth /\ r.left[x] \in -1..ParentDepth
        /\ extendLeft[x] <= r.left[x] /\ children[x] \subseteq r.children[x]
    BY <1>2, <1>3, <1>8, <1>9 DEF Later, MoreChildren, Levels
  <2>2. CASE x = p
    <3>1. r.left[p] >= n
      BY <1>3, <1>8 DEF Later
    <3>. QED
      BY <1>1, <1>2, <2>1, <2>2, <3>1
  <2>3. CASE x \in done
    <3>1. extendLeft[x] >= 0 /\ (children[x] = {} => extendLeft[x] = ParentDepth)
      BY <2>3 DEF LookedFrom
    <3>. QED
      BY <1>2, <2>1, <3>1
  <2>. QED
    BY <2>2, <2>3
<1>11. LookedFrom(done \cup {p}, r.children, r.left)
  BY <1>10 DEF LookedFrom
<1>. QED
  BY <1>8, <1>11 DEF LookedUp

\* What is found of a round whose processes have all been expanded.
AllFound(E, M, ch) ==
    /\ \A p \in Pids : ch[p] = {c \in M : ppid[c] = p}
    /\ \A p \in Pids : Cardinality(ch[p]) >= 2 => p \in M
    /\ \A p \in E : ch[p] = {} => Ancestors[ParentDepth][p] \subseteq M
    /\ \A p \in M : \E r \in Origins(E, ch) : p = r \/ p \in Ancestors[ParentDepth][r]

LEMMA AllExpanded ==
    ASSUME Rooted, NEW E \in SUBSET Pids, NEW M \in SUBSET Pids, NEW ch \in Children, NEW lf \in Levels,
           Sound(E, M, ch, lf), Climbed(M, lf, 0, 0), LookedFrom(M, ch, lf)
    PROVE  AllFound(E, M, ch)
<1>1. ParentDepth \in Nat /\ 0 \notin Pids /\ E \subseteq M
  BY ParentAssumption DEF Sound, MembersKnown
<1>2. ASSUME NEW p \in Pids PROVE ch[p] = {c \in M : ppid[c] = p}
  <2>1. ch[p] = {c \in Pids : lf[c] >= 0 /\ ppid[c] = p}
    BY DEF Sound, ChildrenSeen
  <2>2. \A c \in Pids : lf[c] >= 0 <=> c \in M
    BY DEF Sound, MembersKnown, LookedFrom
  <2>. QED
    BY <2>1, <2>2
<1>3. \A p \in Pids : Cardinality(ch[p]) >= 2 => p \in M
  BY DEF Sound, MembersKnown
<1>. DEFINE T == {n \in Nat : n <= ParentDepth => \A p \in M : lf[p] >= n => Ancestors[n][p] \subseteq M}
<1>4. 0 \in T
  <2>1. 0 \in 0..ParentDepth
    BY <1>1
  <2>2. \A p \in Pids \cup {0} : Ancestors[0][p] = {}
    BY <2>1, AncestorsAre
  <2>. QED
    BY <2>2
<1>5. ASSUME NEW n \in T PROVE n + 1 \in T
  <2>. SUFFICES ASSUME n + 1 <= ParentDepth, NEW p \in M, lf[p] >= n + 1 PROVE Ancestors[n + 1][p] \subseteq M
    OBVIOUS
  <2>1. n \in Nat /\ n <= ParentDepth /\ p \in Pids /\ p # 0 /\ lf[p] \in -1..ParentDepth
    BY <1>1 DEF Levels
  <2>2. n \in 0..ParentDepth /\ Ancestors[n + 1][p] = ({ppid[p]} \ {0}) \cup Ancestors[n][ppid[p]]
    BY <2>1, AncestorsUp
  <2>3. CASE ppid[p] = 0
    <3>1. Ancestors[n][0] = {}
      BY <2>2, AncestorsAre
    <3>. QED
      BY <2>2, <2>3, <3>1
  <2>4. CASE ppid[p] # 0
    <3>1. lf[p] > 0 /\ ppid[p] \in Pids
      BY <2>1, <2>4 DEF Rooted
    <3>2. ppid[p] \in M /\ lf[ppid[p]] >= lf[p] - 1
      BY <1>1, <2>1, <2>4, <3>1 DEF Climbed
    <3>3. lf[ppid[p]] \in -1..ParentDepth
      BY <3>1 DEF Levels
    <3>4. lf[ppid[p]] >= n
      BY <1>1, <2>1, <3>2, <3>3
    <3>5. Ancestors[n][ppid[p]] \subseteq M
      BY <2>1, <3>2, <3>4
    <3>. QED
      BY <2>2, <3>2, <3>5
  <2>. QED
    BY <2>3, <2>4
<1>6. T = Nat
  <2>. HIDE DEF T
  <2>1. T \subseteq Nat
    BY DEF T
  <2>. QED
    BY <1>4, <1>5, <2>1, AllNumbers
<1>7. ASSUME NEW p \in E, ch[p] = {} PROVE Ancestors[ParentDepth][p] \subseteq M
  <2>1. p \in M /\ lf[p] = ParentDepth
    BY <1>1, <1>7 DEF LookedFrom
  <2>2. ParentDepth \in T /\ ParentDepth <= ParentDepth
    <3>. HIDE DEF T
    <3>. QED
      BY <1>1, <1>6
  <2>3. lf[p] >= ParentDepth
    BY <1>1, <2>1
  <2>. QED
    BY <2>1, <2>2, <2>3
<1>8. ASSUME NEW p \in M PROVE \E r \in Origins(E, ch) : p = r \/ p \in Ancestors[ParentDepth][r]
  <2>1. PICK r \in Origins(E, ch) : Near(r, p, ParentDepth - 0)
    BY DEF Sound, Reached, ReachedBy
  <2>2. ParentDepth - 0 = ParentDepth
    BY <1>1
  <2>. QED
    BY <2>1, <2>2 DEF Near
<1>. QED
  BY <1>2, <1>3, <1>7, <1>8 DEF AllFound

\* A round under way alone, and one that has ended without another.
RoundKnown(w) ==
    /\ \A v \in Walks \ {w} : queued[v] = {}
    /\ Sound(entered[w], met[w], children, extendLeft) /\ Climbed(met[w], extendLeft, 0, 0)
    /\ LookedFrom(met[w] \ queued[w], children, extendLeft)

RoundFound(w) ==
    /\ Common(w) \cup Above({p \in entered[w] : Offspring(w, p) = {}}) \subseteq met[w]
    /\ met[w] \subseteq entered[w] \cup Common(w) \cup Above(entered[w] \cup Common(w))

ParentTyped ==
    /\ ParentTypeOK
    /\ entered \in [Walks -> SUBSET Pids] /\ queued \in [Walks -> SUBSET Pids]
    /\ met \in [Walks -> SUBSET Pids] /\ overlapped \in [Walks -> BOOLEAN]

ParentInv ==
    /\ ParentTyped
    /\ \A w \in Walks : ~overlapped[w] =>
         /\ queued[w] # {} => RoundKnown(w)
         /\ met[w] # {} /\ queued[w] = {} => RoundFound(w)

\* The same of the processes a round began with and those it ended with.
ChildOf(M, p) == {c \in M : ppid[c] = p}
CommonTo(M) == {p \in Pids : Cardinality(ChildOf(M, p)) >= 2}
FoundOf(E, M) ==
    /\ CommonTo(M) \cup Above({p \in E : ChildOf(M, p) = {}}) \subseteq M
    /\ M \subseteq E \cup CommonTo(M) \cup Above(E \cup CommonTo(M))

LEMMA FoundAll ==
    ASSUME NEW E \in SUBSET Pids, NEW M \in SUBSET Pids, NEW ch \in Children, AllFound(E, M, ch)
    PROVE  FoundOf(E, M)
<1>1. /\ \A p \in Pids : ch[p] = {c \in M : ppid[c] = p}
      /\ \A p \in Pids : Cardinality(ch[p]) >= 2 => p \in M
      /\ \A p \in E : ch[p] = {} => Ancestors[ParentDepth][p] \subseteq M
      /\ \A p \in M : \E r \in Origins(E, ch) : p = r \/ p \in Ancestors[ParentDepth][r]
  BY DEF AllFound
<1>2. \A p \in Pids : ChildOf(M, p) = ch[p]
  BY <1>1 DEF ChildOf
<1>3. CommonTo(M) = {p \in Pids : Cardinality(ch[p]) >= 2}
  BY <1>2 DEF CommonTo
<1>4. Origins(E, ch) = E \cup CommonTo(M)
  BY <1>3 DEF Origins
<1>5. CommonTo(M) \subseteq M
  BY <1>1, <1>3
<1>6. Above({p \in E : ChildOf(M, p) = {}}) \subseteq M
  BY <1>1, <1>2 DEF Above
<1>7. M \subseteq E \cup CommonTo(M) \cup Above(E \cup CommonTo(M))
  BY <1>1, <1>4 DEF Above
<1>. QED
  BY <1>5, <1>6, <1>7 DEF FoundOf

LEMMA FoundIs ==
    ASSUME NEW w \in Walks, NEW E, NEW M, FoundOf(E, M), ppid' = ppid, entered'[w] = E, met'[w] = M
    PROVE  RoundFound(w)'
<1>1. Ancestors' = Ancestors
  BY DEF Ancestors
<1>2. \A p : Offspring(w, p)' = ChildOf(M, p)
  BY DEF Offspring, ChildOf
<1>3. Common(w)' = CommonTo(M)
  BY <1>2 DEF Common, CommonTo
<1>4. \A s : Above(s)' = Above(s)
  BY <1>1 DEF Above
<1>5. {p \in entered[w] : Offspring(w, p) = {}}' = {p \in E : ChildOf(M, p) = {}}
  BY <1>2
<1>. QED
  BY <1>3, <1>4, <1>5 DEF RoundFound, FoundOf

LEMMA ParentInitially == ParentInit => ParentInv
<1>. SUFFICES ASSUME ParentInit PROVE ParentInv
  OBVIOUS
<1>1. -1 \in -1..ParentDepth
  BY ParentAssumption
<1>2. ParentTyped
  BY <1>1, ParentAssumption DEF ParentInit, ParentTyped, ParentTypeOK
<1>3. \A w \in Walks : queued[w] = {} /\ met[w] = {}
  BY DEF ParentInit
<1>. QED
  BY <1>2, <1>3 DEF ParentInv

LEMMA NothingSeen ==
    ASSUME Rooted, NEW E \in SUBSET Pids, NEW ch, ch = [p \in Pids |-> {}], NEW lf, lf = [p \in Pids |-> -1]
    PROVE  ch \in Children /\ lf \in Levels /\ Sound(E, E, ch, lf) /\ Climbed(E, lf, 0, 0)
<1>1. ParentDepth \in Nat /\ -1 \in -1..ParentDepth /\ ~(-1 >= 0) /\ ~(-1 > 0)
  BY ParentAssumption
<1>2. ch \in Children /\ lf \in Levels /\ \A p \in Pids : ch[p] = {} /\ lf[p] = -1
  BY <1>1 DEF Children, Levels
<1>3. \A p \in Pids : ~(Cardinality(ch[p]) >= 2)
  BY <1>2, FS_EmptySet
<1>4. ChildrenSeen(ch, lf)
  BY <1>1, <1>2 DEF ChildrenSeen
<1>5. MembersKnown(E, E, ch, lf)
  BY <1>1, <1>2, <1>3 DEF MembersKnown
<1>6. Reached(E, E, ch, lf)
  BY <1>1, <1>2 DEF Reached, ReachedBy, Near, Origins
<1>7. Climbed(E, lf, 0, 0)
  BY <1>1, <1>2 DEF Climbed
<1>. QED
  BY <1>2, <1>4, <1>5, <1>6, <1>7 DEF Sound

\* The tree stays, and so does what is said with it.
LEMMA TreeStays ==
    ASSUME ppid' = ppid, NEW E, NEW M, NEW ch, NEW lf
    PROVE  /\ Sound(E, M, ch, lf)' <=> Sound(E, M, ch, lf)
           /\ Climbed(M, lf, 0, 0)' <=> Climbed(M, lf, 0, 0)
<1>1. Ancestors' = Ancestors
  BY DEF Ancestors
<1>2. ChildrenSeen(ch, lf)' <=> ChildrenSeen(ch, lf)
  BY DEF ChildrenSeen
<1>3. MembersKnown(E, M, ch, lf)' <=> MembersKnown(E, M, ch, lf)
  BY DEF MembersKnown
<1>4. Reached(E, M, ch, lf)' <=> Reached(E, M, ch, lf)
  BY <1>1 DEF Reached, ReachedBy, Near, Origins
<1>5. Sound(E, M, ch, lf)' <=> Sound(E, M, ch, lf)
  BY <1>2, <1>3, <1>4 DEF Sound
<1>6. Climbed(M, lf, 0, 0)' <=> Climbed(M, lf, 0, 0)
  BY DEF Climbed
<1>. QED
  BY <1>5, <1>6

LEMMA FoundStays ==
    ASSUME NEW w \in Walks, ppid' = ppid, entered' = entered, met'[w] = met[w], RoundFound(w)
    PROVE  RoundFound(w)'
<1>1. Ancestors' = Ancestors
  BY DEF Ancestors
<1>2. \A p : Offspring(w, p)' = Offspring(w, p)
  BY DEF Offspring
<1>3. Common(w)' = Common(w)
  BY <1>2 DEF Common
<1>4. \A s : Above(s)' = Above(s)
  BY <1>1 DEF Above
<1>5. {p \in entered[w] : Offspring(w, p) = {}}' = {p \in entered[w] : Offspring(w, p) = {}}
  BY <1>2
<1>. QED
  BY <1>3, <1>4, <1>5 DEF RoundFound

LEMMA SeedParentsKeeps ==
    ASSUME ParentInv, NEW w \in Walks, SeedParents(w) PROVE ParentInv'
<1>. DEFINE running == {v \in Walks : queued[v] # {}}
<1>1. /\ ParentTypeOK /\ entered \in [Walks -> SUBSET Pids] /\ queued \in [Walks -> SUBSET Pids]
      /\ met \in [Walks -> SUBSET Pids] /\ overlapped \in [Walks -> BOOLEAN]
  BY DEF ParentInv, ParentTyped
<1>2. /\ met[w] = {} /\ entered[w] # {}
      /\ children' = [p \in Pids |-> {}] /\ extendLeft' = [p \in Pids |-> -1]
      /\ queued' = [queued EXCEPT ![w] = entered[w]] /\ met' = [met EXCEPT ![w] = entered[w]]
      /\ overlapped' = [v \in Walks |-> \/ overlapped[v] \/ (v = w /\ running # {}) \/ v \in running]
      /\ ppid' = ppid /\ entered' = entered
  BY DEF SeedParents, NobodySeen
<1>3. /\ queued'[w] = entered[w] /\ met'[w] = entered[w] /\ entered[w] \in SUBSET Pids
      /\ \A v \in Walks \ {w} : queued'[v] = queued[v] /\ met'[v] = met[v]
  BY <1>1, <1>2
<1>4. Rooted /\ Rooted'
  BY <1>1, <1>2, ParentAssumption DEF Rooted, ParentTypeOK
<1>. DEFINE E == entered[w]
<1>5. /\ children' \in Children /\ extendLeft' \in Levels
      /\ Sound(E, E, children', extendLeft') /\ Climbed(E, extendLeft', 0, 0)
  <2>. DEFINE ch == children'  lf == extendLeft'
  <2>1. ch = [p \in Pids |-> {}] /\ lf = [p \in Pids |-> -1] /\ E \in SUBSET Pids
    BY <1>2, <1>3
  <2>. HIDE DEF ch, lf, E
  <2>2. ch \in Children /\ lf \in Levels /\ Sound(E, E, ch, lf) /\ Climbed(E, lf, 0, 0)
    BY <1>4, <2>1, NothingSeen
  <2>. QED
    BY <2>2 DEF ch, lf
<1>6. ParentTyped'
  <2>1. \A v \in Walks : queued'[v] \subseteq met'[v] /\ met'[v] \subseteq Pids
    BY <1>1, <1>3 DEF ParentTypeOK
  <2>2. children' \in [Pids -> SUBSET Pids] /\ extendLeft' \in [Pids -> -1..ParentDepth]
    BY <1>5 DEF Children, Levels
  <2>3. ParentTypeOK'
    BY <1>1, <1>2, <2>1, <2>2 DEF ParentTypeOK
  <2>4. queued' \in [Walks -> SUBSET Pids] /\ met' \in [Walks -> SUBSET Pids] /\ overlapped' \in [Walks -> BOOLEAN]
    BY <1>1, <1>2, <1>3
  <2>. QED
    BY <1>1, <1>2, <2>3, <2>4 DEF ParentTyped
<1>7. ASSUME NEW v \in Walks, ~overlapped'[v]
      PROVE  (queued'[v] # {} => RoundKnown(v)') /\ (met'[v] # {} /\ queued'[v] = {} => RoundFound(v)')
  <2>1. ~overlapped[v] /\ ~(v = w /\ running # {}) /\ v \notin running
    BY <1>2, <1>7
  <2>2. CASE v = w
    <3>1. \A u \in Walks \ {w} : queued'[u] = {}
      BY <1>3, <2>1, <2>2
    <3>2. met'[w] \ queued'[w] = {}
      BY <1>3
    <3>3. LookedFrom({}, children', extendLeft')
      BY DEF LookedFrom
    <3>4. entered'[w] = E /\ met'[w] = E
      BY <1>2, <1>3
    <3>5. Sound(entered[w], met[w], children, extendLeft)' /\ Climbed(met[w], extendLeft, 0, 0)'
      <4>. HIDE DEF E
      <4>. QED
        BY <1>2, <1>5, <3>4, TreeStays
    <3>6. (met[w] \ queued[w])' = {} /\ LookedFrom(met[w] \ queued[w], children, extendLeft)'
      BY <3>2 DEF LookedFrom
    <3>7. RoundKnown(w)'
      BY <3>1, <3>5, <3>6 DEF RoundKnown
    <3>8. met'[w] # {} => queued'[w] # {}
      BY <1>3
    <3>. QED
      BY <2>2, <3>7, <3>8
  <2>3. CASE v # w
    <3>1. queued'[v] = {} /\ queued[v] = {} /\ met'[v] = met[v]
      BY <1>3, <2>1, <2>3
    <3>2. met'[v] # {} => RoundFound(v)
      BY <2>1, <3>1 DEF ParentInv
    <3>3. RoundFound(v) => RoundFound(v)'
      BY <1>2, <3>1, FoundStays
    <3>. QED
      BY <3>1, <3>2, <3>3
  <2>. QED
    BY <2>2, <2>3
<1>. QED
  BY <1>6, <1>7 DEF ParentInv

LEMMA AnswerTyped ==
    ASSUME Rooted, children \in Children, extendLeft \in Levels, NEW p \in Pids
    PROVE  AnswerTo(p) \in Lookups /\ LookupExtendParent[AnswerTo(p)] \in Lookups
<1>. DEFINE n == LevelsLeft[ParentDepth][p]  none == {}  l == AnswerTo(p)
<1>1. n \in 0..ParentDepth /\ none \in SUBSET Pids
  BY LevelsLeftAre, ParentAssumption
<1>2. l = [pid |-> p, levels |-> n, near |-> none, children |-> children, left |-> extendLeft]
  BY DEF AnswerTo
<1>. HIDE DEF n, none, l
<1>3. l \in Lookups
  BY <1>1, <1>2, LookupEqual DEF Children, Levels
<1>4. LookupExtendParent[l] \in Lookups
  BY <1>3, LookupAnswers
<1>. QED
  BY <1>3, <1>4 DEF l

LEMMA AnswerParentsKeeps ==
    ASSUME ParentInv, NEW w \in Walks, NEW p \in queued[w], AnswerParents(w, p) PROVE ParentInv'
<1>. DEFINE r == LookupExtendParent[AnswerTo(p)]  E == entered[w]  M == met[w]  done == met[w] \ queued[w]
<1>1. /\ ParentTypeOK /\ entered \in [Walks -> SUBSET Pids] /\ queued \in [Walks -> SUBSET Pids]
      /\ met \in [Walks -> SUBSET Pids] /\ overlapped \in [Walks -> BOOLEAN]
  BY DEF ParentInv, ParentTyped
<1>2. /\ children' = r.children /\ extendLeft' = r.left
      /\ queued' = [queued EXCEPT ![w] = (@ \ {p}) \cup (r.near \ met[w])]
      /\ met' = [met EXCEPT ![w] = @ \cup r.near]
      /\ ppid' = ppid /\ entered' = entered /\ overlapped' = overlapped
  BY DEF AnswerParents, AnswerTo
<1>. HIDE DEF r
<1>3. Rooted /\ children \in Children /\ extendLeft \in Levels /\ E \in SUBSET Pids /\ M \in SUBSET Pids
      /\ queued[w] \subseteq M /\ p \in M /\ p \in Pids /\ done \in SUBSET M
  BY <1>1, ParentAssumption DEF Rooted, ParentTypeOK, Children, Levels
<1>4. r \in Lookups
  BY <1>3, AnswerTyped DEF r
<1>5. r.children \in Children /\ r.left \in Levels /\ r.near \in SUBSET Pids
  BY <1>4, LookupTyped DEF Children, Levels
<1>6. /\ queued'[w] = (queued[w] \ {p}) \cup (r.near \ M) /\ met'[w] = M \cup r.near
      /\ \A v \in Walks \ {w} : queued'[v] = queued[v] /\ met'[v] = met[v]
  BY <1>1, <1>2
<1>7. ParentTyped'
  <2>1. queued'[w] \subseteq met'[w] /\ met'[w] \subseteq Pids
    BY <1>3, <1>5, <1>6
  <2>2. \A v \in Walks : queued'[v] \subseteq met'[v] /\ met'[v] \subseteq Pids
    BY <1>1, <1>6, <2>1 DEF ParentTypeOK
  <2>3. children' \in [Pids -> SUBSET Pids] /\ extendLeft' \in [Pids -> -1..ParentDepth]
    BY <1>2, <1>5 DEF Children, Levels
  <2>4. ParentTypeOK'
    BY <1>1, <1>2, <2>2, <2>3 DEF ParentTypeOK
  <2>5. queued' \in [Walks -> SUBSET Pids] /\ met' \in [Walks -> SUBSET Pids]
    BY <1>1, <1>2, <1>3, <1>5
  <2>. QED
    BY <1>1, <1>2, <2>4, <2>5 DEF ParentTyped
<1>8. ASSUME NEW v \in Walks, ~overlapped'[v]
      PROVE  (queued'[v] # {} => RoundKnown(v)') /\ (met'[v] # {} /\ queued'[v] = {} => RoundFound(v)')
  <2>1. ~overlapped[v]
    BY <1>2, <1>8
  <2>2. CASE v = w
    <3>1. RoundKnown(w)
      BY <2>1, <2>2 DEF ParentInv
    <3>. DEFINE N == M \cup r.near  all == done \cup {p}
    <3>2. Sound(E, M, children, extendLeft) /\ Climbed(M, extendLeft, 0, 0) /\ LookedFrom(done, children, extendLeft)
      BY <3>1 DEF RoundKnown
    <3>3. /\ Sound(E, N, r.children, r.left) /\ Climbed(N, r.left, 0, 0) /\ LookedFrom(all, r.children, r.left)
      <4>1. r = LookupExtendParent[AnswerTo(p)]
        BY DEF r
      <4>. HIDE DEF E, M, done
      <4>. QED
        BY <1>3, <3>2, <4>1, AnswerFinds
    <3>4. N \in SUBSET Pids /\ met'[w] = N /\ met'[w] \ queued'[w] = all
      BY <1>3, <1>5, <1>6
    <3>5. \A u \in Walks \ {w} : queued'[u] = {}
      BY <1>6, <3>1 DEF RoundKnown
    <3>6. Sound(entered[w], met[w], children, extendLeft)' /\ Climbed(met[w], extendLeft, 0, 0)'
      <4>1. entered'[w] = E
        BY <1>2
      <4>2. Sound(entered'[w], met'[w], children', extendLeft') /\ Climbed(met'[w], extendLeft', 0, 0)
        <5>. HIDE DEF E, N
        <5>. QED
          BY <1>2, <3>3, <3>4, <4>1
      <4>. QED
        BY <1>2, <4>2, TreeStays
    <3>7. LookedFrom(met[w] \ queued[w], children, extendLeft)'
      <4>. HIDE DEF all
      <4>. QED
        BY <1>2, <3>3, <3>4 DEF LookedFrom
    <3>8. RoundKnown(w)'
      BY <3>5, <3>6, <3>7 DEF RoundKnown
    <3>9. ASSUME queued'[w] = {} PROVE RoundFound(w)'
      <4>1. all = N
        BY <3>4, <3>9
      <4>2. AllFound(E, N, r.children)
        <5>1. LookedFrom(N, r.children, r.left)
          BY <3>3, <4>1
        <5>. HIDE DEF E, N
        <5>. QED
          BY <1>3, <1>5, <3>3, <3>4, <5>1, AllExpanded
      <4>3. FoundOf(E, N)
        <5>. HIDE DEF E, N
        <5>. QED
          BY <1>3, <1>5, <3>4, <4>2, FoundAll
      <4>. QED
        BY <1>2, <3>4, <4>3, FoundIs
    <3>. QED
      BY <2>2, <3>8, <3>9
  <2>3. CASE v # w
    <3>1. queued'[v] = queued[v] /\ met'[v] = met[v]
      BY <1>6, <2>3
    <3>2. queued[v] = {}
      <4>1. queued[w] # {}
        OBVIOUS
      <4>. QED
        BY <2>1, <2>3, <4>1 DEF ParentInv, RoundKnown
    <3>3. met'[v] # {} => RoundFound(v)
      BY <2>1, <3>1, <3>2 DEF ParentInv
    <3>4. RoundFound(v) => RoundFound(v)'
      BY <1>2, <3>1, FoundStays
    <3>. QED
      BY <3>1, <3>2, <3>3, <3>4
  <2>. QED
    BY <2>2, <2>3
<1>. QED
  BY <1>7, <1>8 DEF ParentInv

LEMMA ParentStep == ParentInv /\ [ParentNext]_parent_vars => ParentInv'
<1>1. ASSUME ParentInv, UNCHANGED parent_vars PROVE ParentInv'
  <2>1. ppid' = ppid /\ entered' = entered /\ met' = met /\ queued' = queued /\ overlapped' = overlapped
        /\ children' = children /\ extendLeft' = extendLeft
    BY <1>1 DEF parent_vars
  <2>2. ParentTyped'
    BY <1>1, <2>1 DEF ParentInv, ParentTyped, ParentTypeOK
  <2>3. \A w \in Walks : RoundFound(w) => RoundFound(w)'
    BY <2>1, FoundStays
  <2>4. \A w \in Walks : RoundKnown(w) => RoundKnown(w)'
    BY <2>1, TreeStays DEF RoundKnown, LookedFrom
  <2>. QED
    BY <1>1, <2>1, <2>2, <2>3, <2>4 DEF ParentInv
<1>. QED
  BY <1>1, SeedParentsKeeps, AnswerParentsKeeps DEF ParentNext

LEMMA ParentConcludes == ParentInv => ParentTypeOK /\ ParentsFound
BY DEF ParentInv, ParentTyped, ParentsFound, RoundFound

\* For all trees of processes - those a race made a cycle of as well - any
\* processes found, any number of levels and any order of the answers: a round
\* of the common parent collector that no other disturbs ends with the common
\* parents and the first ancestors there are, and with nobody else.
THEOREM ParentsAreFound == ParentSpec => [](ParentTypeOK /\ ParentsFound)
BY ParentInitially, ParentStep, ParentConcludes, PTL DEF ParentSpec

-----------------------------------------------------------------------------
(* Greatest numbers, and sets of numbers in order (InOrder, ListToRanges). *)

\* A finite set of numbers has a greatest and a least.
LEMMA GreatestIs ==
    ASSUME NEW S \in SUBSET Int, IsFiniteSet(S), S # {}
    PROVE  Max(S) \in S /\ \A n \in S : n <= Max(S)
<1>. DEFINE Topped(s) == s # {} => \E m \in s : \A n \in s : m >= n
            T == {k \in Nat : \A s \in SUBSET S : Cardinality(s) = k => Topped(s)}
<1>1. 0 \in T
  <2>1. \A s \in SUBSET S : Cardinality(s) = 0 => s = {}
    BY FS_Subset, FS_EmptySet
  <2>. QED
    BY <2>1
<1>2. ASSUME NEW k \in T PROVE k + 1 \in T
  <2>. SUFFICES ASSUME NEW s \in SUBSET S, Cardinality(s) = k + 1, s # {} PROVE Topped(s)
    OBVIOUS
  <2>1. PICK p \in s : TRUE
    OBVIOUS
  <2>2. s \ {p} \in SUBSET S /\ Cardinality(s \ {p}) = k
    <3>1. k \in Nat
      OBVIOUS
    <3>2. s \ {p} \in SUBSET S /\ Cardinality(s \ {p}) = Cardinality(s) - 1
      BY <2>1, OneOut
    <3>. QED
      BY <3>1, <3>2
  <2>3. Topped(s \ {p})
    BY <2>2
  <2>4. \A n \in s : n \in Int
    OBVIOUS
  <2>5. CASE s \ {p} = {}
    BY <2>1, <2>4, <2>5
  <2>6. CASE s \ {p} # {}
    <3>1. PICK m \in s \ {p} : \A n \in s \ {p} : m >= n
      BY <2>3, <2>6
    <3>2. CASE m >= p
      BY <3>1, <3>2
    <3>3. CASE ~(m >= p)
      <4>1. \A n \in s : p >= n
        BY <2>1, <2>4, <3>1, <3>3
      <4>. QED
        BY <2>1, <4>1
    <3>. QED
      BY <3>2, <3>3
  <2>. QED
    BY <2>5, <2>6
<1>3. T = Nat
  <2>1. T \in SUBSET Nat
    OBVIOUS
  <2>. HIDE DEF T
  <2>. QED
    BY <1>1, <1>2, <2>1, AllNumbers
<1>4. Cardinality(S) \in T
  BY <1>3, FS_CardinalityType
<1>5. \E m \in S : \A n \in S : m >= n
  BY <1>4
<1>6. Max(S) \in S /\ \A n \in S : Max(S) >= n
  BY <1>5 DEF Max
<1>. QED
  BY <1>6

\* The numbers of a set before its greatest are less.
Topmost(S) == [s \in SUBSET S |-> Max(s)]

LEMMA GreatestTaken ==
    ASSUME NEW S \in SUBSET Int, IsFiniteSet(S)
    PROVE  /\ Picks(Topmost(S), S)
           /\ \A s \in SUBSET S : s # {} =>
                /\ Topmost(S)[s] = Max(s) /\ Max(s) \in s /\ Max(s) \in Int
                /\ \A n \in s \ {Max(s)} : n < Max(s)
<1>. SUFFICES ASSUME NEW s \in SUBSET S, s # {}
              PROVE  /\ Topmost(S)[s] = Max(s) /\ Max(s) \in s /\ Max(s) \in Int
                     /\ \A n \in s \ {Max(s)} : n < Max(s)
  BY DEF Picks
<1>1. IsFiniteSet(s) /\ s \in SUBSET Int
  BY FS_Subset
<1>2. Max(s) \in s /\ \A n \in s : n <= Max(s)
  BY <1>1, GreatestIs
<1>3. \A n \in s : n \in Int
  OBVIOUS
<1>4. Topmost(S)[s] = Max(s)
  BY DEF Topmost
<1>. DEFINE m == Max(s)
<1>5. m \in s /\ \A n \in s : n <= m
  BY <1>2
<1>. HIDE DEF m
<1>6. m \in Int /\ \A n \in s \ {m} : n < m
  BY <1>3, <1>5
<1>. QED
  BY <1>2, <1>4, <1>6 DEF m

\* x has the numbers of s, from the least to the greatest.
Ascends(s, x) ==
    /\ x \in Seq(Int) /\ Len(x) = Cardinality(s)
    /\ \A i \in 1..Len(x) : x[i] \in s
    /\ \A n \in s : \E i \in 1..Len(x) : x[i] = n
    /\ \A i, j \in 1..Len(x) : i < j => x[i] < x[j]

LEMMA AscendsBy ==
    ASSUME NEW s \in SUBSET Int, IsFiniteSet(s), NEW m \in s, \A n \in s \ {m} : n < m,
           NEW x, Ascends(s \ {m}, x)
    PROVE  Ascends(s, Append(x, m))
<1>. DEFINE y == Append(x, m)
<1>1. x \in Seq(Int) /\ Len(x) \in Nat /\ m \in Int
  BY DEF Ascends
<1>2. /\ y \in Seq(Int) /\ Len(y) = Len(x) + 1 /\ y[Len(x) + 1] = m
      /\ \A i \in 1..Len(x) : y[i] = x[i]
  BY <1>1
<1>. HIDE DEF y
<1>3. Cardinality(s) = Cardinality(s \ {m}) + 1
  BY OneOut
<1>4. Len(y) = Cardinality(s)
  BY <1>2, <1>3 DEF Ascends
<1>5. \A i \in 1..Len(y) : i \in 1..Len(x) \/ i = Len(x) + 1
  BY <1>1, <1>2
<1>6. \A i \in 1..Len(y) : y[i] \in s
  BY <1>2, <1>5 DEF Ascends
<1>7. ASSUME NEW n \in s PROVE \E i \in 1..Len(y) : y[i] = n
  <2>1. CASE n = m
    BY <1>1, <1>2, <2>1
  <2>2. CASE n # m
    <3>1. PICK i \in 1..Len(x) : x[i] = n
      BY <2>2 DEF Ascends
    <3>. QED
      BY <1>1, <1>2, <3>1
  <2>. QED
    BY <2>1, <2>2
<1>8. ASSUME NEW i \in 1..Len(y), NEW j \in 1..Len(y), i < j PROVE y[i] < y[j]
  <2>1. i \in 1..Len(x)
    BY <1>1, <1>2, <1>8
  <2>2. CASE j \in 1..Len(x)
    BY <1>2, <1>8, <2>1, <2>2 DEF Ascends
  <2>3. CASE j = Len(x) + 1
    BY <1>2, <2>1, <2>3 DEF Ascends
  <2>. QED
    BY <1>5, <2>2, <2>3
<1>. QED
  BY <1>2, <1>4, <1>6, <1>7, <1>8 DEF Ascends, y

LEMMA InOrderAscends ==
    ASSUME NEW numbers \in SUBSET Int, IsFiniteSet(numbers)
    PROVE  Ascends(numbers, InOrder(numbers))
<1>. DEFINE step(g) == [s \in SUBSET numbers |-> IF s = {} THEN <<>>
                                                 ELSE Append(g[s \ {Max(s)}], Max(s))]
            iter == CHOOSE g : g = step(g)
            c == Topmost(numbers)
            G == [p \in numbers \X Seq(Int) |-> Append(p[2], p[1])]
            P == {s \in SUBSET numbers : Ascends(s, iter[s])}
<1>1. InOrder(numbers) = iter[numbers]
  BY DEF InOrder, MapThenFoldSet
<1>2. /\ Picks(c, numbers)
      /\ \A s \in SUBSET numbers : s # {} =>
           c[s] = Max(s) /\ Max(s) \in s /\ \A n \in s \ {Max(s)} : n < Max(s)
  BY GreatestTaken
<1>. HIDE DEF c
<1>3. iter = step(iter)
  <2>1. G \in [numbers \X Seq(Int) -> Seq(Int)] /\ <<>> \in Seq(Int)
    <3>1. \A p \in numbers \X Seq(Int) : p[1] \in Int /\ p[2] \in Seq(Int)
      OBVIOUS
    <3>2. \A p \in numbers \X Seq(Int) : Append(p[2], p[1]) \in Seq(Int)
      BY <3>1
    <3>. QED
      BY <3>2
  <2>2. \A p \in numbers \X Seq(Int) : G[p] = Append(p[2], p[1])
    OBVIOUS
  <2>. HIDE DEF G
  <2>3. PICK g \in [SUBSET numbers -> Seq(Int)] : Folds(g, numbers, c, <<>>, G)
    BY <1>2, <2>1, FoldExists
  <2>4. g = step(g)
    <3>1. ASSUME NEW s \in SUBSET numbers PROVE g[s] = step(g)[s]
      <4>1. CASE s = {}
        BY <2>3, <4>1 DEF Folds
      <4>2. CASE s # {}
        <5>1. c[s] = Max(s) /\ <<c[s], g[s \ {c[s]}]>> \in numbers \X Seq(Int)
          BY <1>2, <4>2
        <5>2. g[s] = G[<<c[s], g[s \ {c[s]}]>>]
          BY <2>3, <4>2 DEF Folds
        <5>3. g[s] = Append(g[s \ {Max(s)}], Max(s))
          BY <2>2, <5>1, <5>2
        <5>. QED
          BY <4>2, <5>3
      <4>. QED
        BY <4>1, <4>2
    <3>2. step(g) = [s \in SUBSET numbers |-> step(g)[s]]
      OBVIOUS
    <3>3. g = [s \in SUBSET numbers |-> g[s]]
      OBVIOUS
    <3>. HIDE DEF step
    <3>. QED
      BY <3>1, <3>2, <3>3
  <2>. HIDE DEF step
  <2>. QED
    BY <2>4
<1>4. \A s \in SUBSET numbers : iter[s] = IF s = {} THEN <<>> ELSE Append(iter[s \ {Max(s)}], Max(s))
  <2>1. \A s \in SUBSET numbers : iter[s] = step(iter)[s]
    <3>. HIDE DEF iter, step
    <3>. QED
      BY <1>3
  <2>. HIDE DEF iter
  <2>. QED
    BY <2>1
<1>. HIDE DEF iter
<1>5. {} \in P
  <2>1. iter[{}] = <<>>
    BY <1>4
  <2>. QED
    <3>1. Cardinality({}) = 0 /\ {} \in SUBSET numbers
      BY FS_EmptySet
    <3>2. Ascends({}, <<>>)
      BY <3>1 DEF Ascends
    <3>. QED
      BY <2>1, <3>1, <3>2
<1>6. ASSUME NEW s \in SUBSET numbers, s # {}, s \ {c[s]} \in P PROVE s \in P
  <2>1. c[s] = Max(s) /\ Max(s) \in s /\ \A n \in s \ {Max(s)} : n < Max(s)
    BY <1>2, <1>6
  <2>2. Ascends(s \ {Max(s)}, iter[s \ {Max(s)}])
    BY <1>6, <2>1
  <2>3. IsFiniteSet(s) /\ s \in SUBSET Int
    BY FS_Subset
  <2>4. Ascends(s, Append(iter[s \ {Max(s)}], Max(s)))
    BY <2>1, <2>2, <2>3, AscendsBy
  <2>. QED
    BY <1>4, <1>6, <2>4
<1>7. numbers \in P
  <2>1. Grows(P, c, numbers)
    BY <1>6 DEF Grows
  <2>. HIDE DEF P
  <2>. QED
    BY <1>2, <1>5, <2>1, AllSubsets
<1>. QED
  BY <1>1, <1>7

Pairs == Int \X Int

\* x are ranges of the numbers of s, with a gap between any two.
Covers(s, x) ==
    /\ x \in Seq(Pairs)
    /\ \A i \in 1..Len(x) : x[i][1] <= x[i][2]
    /\ \A i \in 1..Len(x) : x[i][2] \in s /\ (x[i][1])..(x[i][2]) \subseteq s
    /\ \A n \in s : \E i \in 1..Len(x) : n \in (x[i][1])..(x[i][2])
    /\ \A n \in s : x # <<>> /\ n <= Last(x)[2]
    /\ \A i \in 1..Len(x) - 1 : x[i][2] + 1 < x[i + 1][1]

Joined(n, ranges) ==
    IF ranges # <<>> /\ n <= Last(ranges)[2] + 1
    THEN Append(Front(ranges), <<Last(ranges)[1], n>>)
    ELSE Append(ranges, <<n, n>>)

LEMMA RangesTyped == ASSUME NEW n \in Int, NEW x \in Seq(Pairs) PROVE Joined(n, x) \in Seq(Pairs)
<1>1. x # <<>> => Last(x) \in Pairs /\ Front(x) \in Seq(Pairs)
  BY DEF Last, Front, Pairs
<1>2. x # <<>> => <<Last(x)[1], n>> \in Pairs
  BY <1>1 DEF Pairs
<1>3. <<n, n>> \in Pairs
  BY DEF Pairs
<1>. QED
  BY <1>1, <1>2, <1>3 DEF Joined

LEMMA CoversBy ==
    ASSUME NEW s \in SUBSET Int, NEW m \in s, \A n \in s \ {m} : n < m,
           NEW x, Covers(s \ {m}, x)
    PROVE  Covers(s, Joined(m, x))
<1>. DEFINE y == Joined(m, x)
            k == Len(x)
<1>1. x \in Seq(Pairs) /\ k \in Nat /\ m \in Int /\ \A i \in 1..k : x[i] = <<x[i][1], x[i][2]>> /\ x[i][1] \in Int /\ x[i][2] \in Int
  BY DEF Covers, Pairs
<1>2. \A i \in 1..k : x[i][2] < m
  BY DEF Covers
<1>3. CASE x # <<>> /\ m <= Last(x)[2] + 1
  <2>1. k # 0 /\ Last(x) = x[k] /\ k \in 1..k
    BY <1>1, <1>3 DEF Last
  <2>2. m = x[k][2] + 1
    BY <1>1, <1>2, <1>3, <2>1
  <2>3. y = Append(Front(x), <<x[k][1], m>>)
    BY <1>3, <2>1 DEF Joined
  <2>4. /\ y \in Seq(Pairs) /\ Len(y) = k /\ y[k] = <<x[k][1], m>>
        /\ \A i \in 1..k - 1 : y[i] = x[i]
    <3>1. Front(x) \in Seq(Pairs) /\ Len(Front(x)) = k - 1 /\ \A i \in 1..k - 1 : Front(x)[i] = x[i]
      <4>1. Front(x) = SubSeq(x, 1, k - 1) /\ k - 1 \in 0..Len(x) /\ 1 \in 1..Len(x) + 1
        BY <1>1, <2>1 DEF Front
      <4>2. \A i \in 1..k - 1 : x[i] \in Pairs
        BY <1>1
      <4>3. /\ SubSeq(x, 1, k - 1) \in Seq(Pairs)
            /\ Len(SubSeq(x, 1, k - 1)) = IF 1 <= k - 1 THEN (k - 1) - 1 + 1 ELSE 0
            /\ \A i \in 1..(k - 1) - 1 + 1 : SubSeq(x, 1, k - 1)[i] = x[1 + i - 1]
        BY <1>1, <4>2, SubSeqProperties
      <4>4. (k - 1) - 1 + 1 = k - 1 /\ \A i \in 1..k - 1 : 1 + i - 1 = i
        BY <1>1
      <4>. QED
        BY <1>1, <2>1, <4>1, <4>3, <4>4
    <3>2. <<x[k][1], m>> \in Pairs
      BY <1>1, <2>1 DEF Pairs
    <3>. QED
      BY <1>1, <2>1, <2>3, <3>1, <3>2
  <2>. HIDE DEF y
  <2>5. \A i \in 1..Len(y) : i \in 1..k - 1 \/ i = k
    BY <1>1, <2>4
  <2>6. \A i \in 1..Len(y) : y[i][2] \in s /\ (y[i][1])..(y[i][2]) \subseteq s
    <3>1. \A i \in 1..k - 1 : y[i][2] \in s /\ (y[i][1])..(y[i][2]) \subseteq s
      <4>1. \A i \in 1..k - 1 : i \in 1..k
        BY <1>1
      <4>. QED
        BY <2>4, <4>1 DEF Covers
    <3>2. y[k][1] = x[k][1] /\ y[k][2] = m
      BY <2>4
    <3>3. (x[k][1])..m \subseteq s
      <4>1. (x[k][1])..(x[k][2]) \subseteq s
        BY <2>1 DEF Covers
      <4>2. \A n \in (x[k][1])..m : n \in (x[k][1])..(x[k][2]) \/ n = m
        BY <1>1, <2>1, <2>2
      <4>. QED
        BY <4>1, <4>2
    <3>. QED
      BY <2>5, <3>1, <3>2, <3>3
  <2>7. ASSUME NEW n \in s PROVE \E i \in 1..Len(y) : n \in (y[i][1])..(y[i][2])
    <3>1. CASE n = m
      <4>1. y[k][1] = x[k][1] /\ y[k][2] = m /\ k \in 1..Len(y)
        BY <2>1, <2>4
      <4>2. x[k][1] <= x[k][2] /\ x[k][2] < m /\ x[k][1] \in Int /\ x[k][2] \in Int
        BY <1>1, <1>2, <2>1 DEF Covers
      <4>3. m \in (y[k][1])..(y[k][2])
        BY <1>1, <4>1, <4>2
      <4>. QED
        BY <3>1, <4>1, <4>3
    <3>2. CASE n # m
      <4>1. PICK i \in 1..k : n \in (x[i][1])..(x[i][2])
        BY <3>2 DEF Covers
      <4>2. CASE i = k
        <5>1. n \in (x[k][1])..(x[k][2]) /\ x[k][1] \in Int /\ x[k][2] \in Int
          BY <1>1, <2>1, <4>1, <4>2
        <5>2. n \in (x[k][1])..m
          BY <1>1, <2>2, <5>1
        <5>3. y[k][1] = x[k][1] /\ y[k][2] = m /\ k \in 1..Len(y)
          BY <2>1, <2>4
        <5>. QED
          BY <5>2, <5>3
      <4>3. CASE i # k
        <5>1. i \in 1..k - 1
          BY <1>1, <4>1, <4>3
        <5>. QED
          BY <1>1, <2>4, <4>1, <5>1
      <4>. QED
        BY <4>2, <4>3
    <3>. QED
      BY <3>1, <3>2
  <2>8. \A n \in s : y # <<>> /\ n <= Last(y)[2]
    <3>1. Last(y)[2] = m /\ y # <<>>
      BY <2>1, <2>4 DEF Last
    <3>2. \A n \in s : n <= m
      BY <1>1
    <3>. QED
      BY <3>1, <3>2
  <2>9. ASSUME NEW i \in 1..Len(y) - 1 PROVE y[i][2] + 1 < y[i + 1][1]
    <3>1. i \in 1..k - 1 /\ i + 1 \in 1..k
      BY <1>1, <2>4
    <3>2. x[i][2] + 1 < x[i + 1][1] /\ y[i] = x[i]
      BY <2>4, <3>1 DEF Covers
    <3>3. y[i + 1][1] = x[i + 1][1]
      <4>1. CASE i + 1 = k
        BY <2>4, <4>1
      <4>2. CASE i + 1 # k
        <5>1. i + 1 \in 1..k - 1
          BY <1>1, <3>1, <4>2
        <5>. QED
          BY <2>4, <5>1
      <4>. QED
        BY <4>1, <4>2
    <3>. QED
      BY <3>2, <3>3
  <2>10. \A i \in 1..Len(y) : y[i][1] <= y[i][2]
    <3>1. \A i \in 1..k - 1 : y[i][1] <= y[i][2]
      <4>1. \A i \in 1..k - 1 : i \in 1..k
        BY <1>1
      <4>. QED
        BY <2>4, <4>1 DEF Covers
    <3>2. y[k][1] <= y[k][2]
      BY <1>1, <2>1, <2>2, <2>4 DEF Covers
    <3>. QED
      BY <2>5, <3>1, <3>2
  <2>. QED
    BY <2>4, <2>6, <2>7, <2>8, <2>9, <2>10 DEF Covers, y
<1>4. CASE ~(x # <<>> /\ m <= Last(x)[2] + 1)
  <2>1. y = Append(x, <<m, m>>)
    BY <1>4 DEF Joined
  <2>2. /\ y \in Seq(Pairs) /\ Len(y) = k + 1 /\ y[k + 1] = <<m, m>>
        /\ \A i \in 1..k : y[i] = x[i]
    <3>1. <<m, m>> \in Pairs
      BY <1>1 DEF Pairs
    <3>. QED
      BY <1>1, <2>1, <3>1
  <2>. HIDE DEF y
  <2>3. \A i \in 1..Len(y) : i \in 1..k \/ i = k + 1
    BY <1>1, <2>2
  <2>4. \A i \in 1..Len(y) : y[i][2] \in s /\ (y[i][1])..(y[i][2]) \subseteq s
    <3>1. y[k + 1][2] = m /\ (y[k + 1][1])..(y[k + 1][2]) = {m}
      BY <1>1, <2>2
    <3>2. \A i \in 1..k : y[i][2] \in s /\ (y[i][1])..(y[i][2]) \subseteq s
      BY <2>2 DEF Covers
    <3>. QED
      BY <2>3, <3>1, <3>2
  <2>5. ASSUME NEW n \in s PROVE \E i \in 1..Len(y) : n \in (y[i][1])..(y[i][2])
    <3>1. CASE n = m
      BY <1>1, <2>2, <3>1
    <3>2. CASE n # m
      <4>1. PICK i \in 1..k : n \in (x[i][1])..(x[i][2])
        BY <3>2 DEF Covers
      <4>. QED
        BY <1>1, <2>2, <4>1
    <3>. QED
      BY <3>1, <3>2
  <2>6. \A n \in s : y # <<>> /\ n <= Last(y)[2]
    <3>1. Last(y)[2] = m /\ y # <<>>
      BY <1>1, <2>2 DEF Last
    <3>2. \A n \in s : n <= m
      BY <1>1
    <3>. QED
      BY <3>1, <3>2
  <2>7. ASSUME NEW i \in 1..Len(y) - 1 PROVE y[i][2] + 1 < y[i + 1][1]
    <3>1. i \in 1..k
      BY <1>1, <2>2
    <3>2. CASE i = k
      <4>1. x # <<>> /\ Last(x) = x[k] /\ k \in 1..k
        BY <1>1, <3>1, <3>2 DEF Last
      <4>. QED
        BY <1>1, <1>4, <2>2, <3>2, <4>1
    <3>3. CASE i # k
      <4>1. i \in 1..k - 1 /\ i + 1 \in 1..k
        BY <1>1, <3>1, <3>3
      <4>. QED
        BY <2>2, <4>1 DEF Covers
    <3>. QED
      BY <3>2, <3>3
  <2>8. \A i \in 1..Len(y) : y[i][1] <= y[i][2]
    <3>1. y[k + 1][1] <= y[k + 1][2]
      BY <1>1, <2>2
    <3>2. \A i \in 1..k : y[i][1] <= y[i][2]
      BY <2>2 DEF Covers
    <3>. QED
      BY <2>3, <3>1, <3>2
  <2>. QED
    BY <2>2, <2>4, <2>5, <2>6, <2>7, <2>8 DEF Covers, y
<1>. QED
  BY <1>3, <1>4

LEMMA RangesCover ==
    ASSUME NEW numbers \in SUBSET Int, IsFiniteSet(numbers)
    PROVE  Covers(numbers, ListToRanges(numbers))
<1>. DEFINE step(g) == [s \in SUBSET numbers |-> IF s = {} THEN <<>>
                                                 ELSE Joined(Max(s), g[s \ {Max(s)}])]
            iter == CHOOSE g : g = step(g)
            c == Topmost(numbers)
            G == [p \in numbers \X Seq(Pairs) |-> Joined(p[1], p[2])]
            P == {s \in SUBSET numbers : Covers(s, iter[s])}
<1>1. ListToRanges(numbers) = iter[numbers]
  BY DEF ListToRanges, MapThenFoldSet, Joined
<1>2. /\ Picks(c, numbers)
      /\ \A s \in SUBSET numbers : s # {} =>
           c[s] = Max(s) /\ Max(s) \in s /\ \A n \in s \ {Max(s)} : n < Max(s)
  BY GreatestTaken
<1>. HIDE DEF c
<1>3. iter = step(iter)
  <2>1. G \in [numbers \X Seq(Pairs) -> Seq(Pairs)] /\ <<>> \in Seq(Pairs)
    <3>1. \A p \in numbers \X Seq(Pairs) : p[1] \in Int /\ p[2] \in Seq(Pairs)
      OBVIOUS
    <3>2. \A p \in numbers \X Seq(Pairs) : Joined(p[1], p[2]) \in Seq(Pairs)
      BY <3>1, RangesTyped
    <3>. QED
      BY <3>2
  <2>2. \A p \in numbers \X Seq(Pairs) : G[p] = Joined(p[1], p[2])
    OBVIOUS
  <2>. HIDE DEF G
  <2>3. PICK g \in [SUBSET numbers -> Seq(Pairs)] : Folds(g, numbers, c, <<>>, G)
    BY <1>2, <2>1, FoldExists
  <2>4. g = step(g)
    <3>1. ASSUME NEW s \in SUBSET numbers PROVE g[s] = step(g)[s]
      <4>1. CASE s = {}
        BY <2>3, <4>1 DEF Folds
      <4>2. CASE s # {}
        <5>1. c[s] = Max(s) /\ <<c[s], g[s \ {c[s]}]>> \in numbers \X Seq(Pairs)
          BY <1>2, <4>2
        <5>2. g[s] = G[<<c[s], g[s \ {c[s]}]>>]
          BY <2>3, <4>2 DEF Folds
        <5>3. g[s] = Joined(Max(s), g[s \ {Max(s)}])
          BY <2>2, <5>1, <5>2
        <5>. QED
          BY <4>2, <5>3
      <4>. QED
        BY <4>1, <4>2
    <3>2. step(g) = [s \in SUBSET numbers |-> step(g)[s]]
      OBVIOUS
    <3>3. g = [s \in SUBSET numbers |-> g[s]]
      OBVIOUS
    <3>. HIDE DEF step
    <3>. QED
      BY <3>1, <3>2, <3>3
  <2>. HIDE DEF step
  <2>. QED
    BY <2>4
<1>4. \A s \in SUBSET numbers : iter[s] = IF s = {} THEN <<>> ELSE Joined(Max(s), iter[s \ {Max(s)}])
  <2>1. \A s \in SUBSET numbers : iter[s] = step(iter)[s]
    <3>. HIDE DEF iter, step
    <3>. QED
      BY <1>3
  <2>. HIDE DEF iter
  <2>. QED
    BY <2>1
<1>. HIDE DEF iter
<1>5. {} \in P
  <2>1. iter[{}] = <<>>
    BY <1>4
  <2>2. Covers({}, <<>>)
    BY DEF Covers
  <2>. QED
    BY <2>1, <2>2
<1>6. ASSUME NEW s \in SUBSET numbers, s # {}, s \ {c[s]} \in P PROVE s \in P
  <2>1. c[s] = Max(s) /\ Max(s) \in s /\ \A n \in s \ {Max(s)} : n < Max(s)
    BY <1>2, <1>6
  <2>2. Covers(s \ {Max(s)}, iter[s \ {Max(s)}])
    BY <1>6, <2>1
  <2>3. Covers(s, Joined(Max(s), iter[s \ {Max(s)}]))
    BY <2>1, <2>2, CoversBy
  <2>. QED
    BY <1>4, <1>6, <2>3
<1>7. numbers \in P
  <2>1. Grows(P, c, numbers)
    BY <1>6 DEF Grows
  <2>. HIDE DEF P
  <2>. QED
    BY <1>2, <1>5, <2>1, AllSubsets
<1>. QED
  BY <1>1, <1>7

\* For any finite set of numbers, negative ones too: as ranges nothing is lost,
\* and no two ranges meet (ListToRanges, RangesToList).
THEOREM RangesAreExact ==
    ASSUME NEW numbers \in SUBSET Int, IsFiniteSet(numbers)
    PROVE  RangesRoundTrip(numbers)
<1>. DEFINE x == ListToRanges(numbers)
<1>1. Covers(numbers, x)
  BY RangesCover
<1>. HIDE DEF x
<1>2. x \in Seq(Pairs) /\ DOMAIN x = 1..Len(x)
  BY <1>1 DEF Covers
<1>3. \A r : r \in Range(x) <=> \E i \in 1..Len(x) : r = x[i]
  BY <1>2 DEF Range
<1>4. \A n : n \in RangesToList(x) <=> \E i \in 1..Len(x) : n \in (x[i][1])..(x[i][2])
  BY <1>3 DEF RangesToList
<1>5. RangesToList(x) = numbers
  BY <1>1, <1>4 DEF Covers
<1>. QED
  BY <1>1, <1>5 DEF RangesRoundTrip, Covers, x

-----------------------------------------------------------------------------
(* Pages, times and threads of a process (NumaTopology). *)

\* What is read of a process: a line of numa_maps says how many of its pages
\* are anonymous, dirty and on each node.
LinesRead(lines) ==
    /\ \E k \in Nat : DOMAIN lines = 1..k
    /\ \A i \in DOMAIN lines :
         /\ lines[i].file \in BOOLEAN /\ lines[i].anon \in Nat /\ lines[i].dirty \in Nat
         /\ \A n \in DOMAIN lines[i].pages : lines[i].pages[n] \in Nat

TimeRead(cpuTime) == \A n \in DOMAIN cpuTime : cpuTime[n] \in Nat

LEMMA LinesFinite == ASSUME NEW lines, LinesRead(lines) PROVE IsFiniteSet(DOMAIN lines)
<1>1. PICK k \in Nat : DOMAIN lines = 1..k
  BY DEF LinesRead
<1>. QED
  BY <1>1, FS_Interval

LEMMA DirtyIsNat == ASSUME NEW lines, LinesRead(lines), NEW n PROVE DirtyAnonPages(lines, n) \in Nat
<1>. DEFINE f == [i \in DOMAIN lines |-> IF DirtyAnon(lines[i]) /\ n \in DOMAIN lines[i].pages
                            THEN lines[i].pages[n] ELSE 0]
<1>1. DirtyAnonPages(lines, n) = SumFunction(f)
  BY DEF DirtyAnonPages, PagesOn, Sum
<1>2. f \in [DOMAIN lines -> Nat]
  BY DEF LinesRead
<1>. HIDE DEF f
<1>. QED
  BY <1>1, <1>2, LinesFinite, SumTyped

LEMMA PagesOnce ==
    ASSUME NEW lines, LinesRead(lines), NEW n
    PROVE  ReadOnlyPages(lines, n) + DirtyAnonPages(lines, n) <= TotalPages(lines, n)
<1>. DEFINE f == [i \in DOMAIN lines |-> IF ReadOnly(lines[i]) /\ n \in DOMAIN lines[i].pages
                            THEN lines[i].pages[n] ELSE 0]
            h == [i \in DOMAIN lines |-> IF DirtyAnon(lines[i]) /\ n \in DOMAIN lines[i].pages
                            THEN lines[i].pages[n] ELSE 0]
            k == [i \in DOMAIN lines |-> IF TRUE /\ n \in DOMAIN lines[i].pages
                            THEN lines[i].pages[n] ELSE 0]
            s == [i \in DOMAIN lines |-> f[i] + h[i]]
<1>1. /\ ReadOnlyPages(lines, n) = SumFunction(f) /\ DirtyAnonPages(lines, n) = SumFunction(h)
      /\ TotalPages(lines, n) = SumFunction(k)
  BY DEF ReadOnlyPages, DirtyAnonPages, TotalPages, PagesOn, Sum
<1>2. /\ f \in [DOMAIN lines -> Nat] /\ h \in [DOMAIN lines -> Nat] /\ k \in [DOMAIN lines -> Nat]
      /\ \A i \in DOMAIN lines : f[i] + h[i] <= k[i]
  <2>1. ASSUME NEW i \in DOMAIN lines
        PROVE  f[i] \in Nat /\ h[i] \in Nat /\ k[i] \in Nat /\ f[i] + h[i] <= k[i]
    <3>1. /\ lines[i].anon \in Nat
          /\ \A m \in DOMAIN lines[i].pages : lines[i].pages[m] \in Nat
      BY DEF LinesRead
    <3>2. ~(ReadOnly(lines[i]) /\ DirtyAnon(lines[i]))
      BY <3>1 DEF ReadOnly, DirtyAnon
    <3>. QED
      BY <3>1, <3>2
  <2>. QED
    BY <2>1
<1>3. s \in [DOMAIN lines -> Nat] /\ \A i \in DOMAIN lines : s[i] = f[i] + h[i] /\ s[i] <= k[i]
  <2>. HIDE DEF f, h, k
  <2>. QED
    BY <1>2
<1>. HIDE DEF f, h, k, s
<1>4. SumFunction(s) = SumFunction(f) + SumFunction(h)
  BY <1>2, <1>3, LinesFinite, SumAdds
<1>5. SumFunction(s) <= SumFunction(k)
  BY <1>2, <1>3, LinesFinite, SumGrows
<1>. QED
  BY <1>1, <1>4, <1>5

LEMMA TimesNothing == ASSUME NEW a \in Nat, NEW b \in Nat, a > 0, 0 >= a * b PROVE b = 0
  OBVIOUS

\* The sum of products is the product of sums when and only when all that
\* counts is in one place.
LEMMA AllInOnePlace ==
    ASSUME NEW S, IsFiniteSet(S), NEW f \in [S -> Nat], NEW h \in [S -> Nat], NEW k \in [S -> Nat],
           \A p \in S : k[p] = f[p] * h[p], SumFunction(f) # 0, SumFunction(h) # 0
    PROVE  /\ SumFunction(k) <= SumFunction(f) * SumFunction(h)
           /\ SumFunction(k) = SumFunction(f) * SumFunction(h) <=>
                \E p \in S : f[p] > 0 /\ h[p] > 0 /\ \A q \in S \ {p} : f[q] = 0 /\ h[q] = 0
<1>. DEFINE A == SumFunction(f)
            B == SumFunction(h)
            K == SumFunction(k)
            Place(p) == f[p] > 0 /\ h[p] > 0 /\ \A q \in S \ {p} : f[q] = 0 /\ h[q] = 0
<1>1. A \in Nat /\ B \in Nat /\ K \in Nat /\ A * B \in Nat
  BY SumTyped
<1>2. /\ K <= A * B
      /\ \A p \in S : \E F, H \in Nat :
           /\ A = f[p] + F /\ B = h[p] + H
           /\ (\A q \in S \ {p} : f[q] <= F /\ h[q] <= H)
           /\ A * B - K >= f[p] * H
           /\ A * B - K >= h[p] * F
           /\ ((\A q \in S \ {p} : f[q] = 0 /\ h[q] = 0) => F = 0 /\ H = 0 /\ K = k[p])
  BY SumOfProducts
<1>3. \E p \in S : f[p] > 0
  <2>1. (\A p \in S : f[p] = 0) => A = 0
    BY SumOfNothing
  <2>. QED
    BY <2>1
<1>0. A # 0 /\ B # 0
  OBVIOUS
<1>. HIDE DEF A, B, K
<1>4. ASSUME K = A * B PROVE \E p \in S : Place(p)
  <2>1. PICK p \in S : f[p] > 0
    BY <1>3
  <2>2. PICK F \in Nat, H \in Nat :
           /\ A = f[p] + F /\ B = h[p] + H
           /\ (\A q \in S \ {p} : f[q] <= F /\ h[q] <= H)
           /\ A * B - K >= f[p] * H
           /\ A * B - K >= h[p] * F
    BY <1>2, <2>1
  <2>3. A * B - K = 0
    BY <1>1, <1>4
  <2>4. 0 >= f[p] * H /\ 0 >= h[p] * F
    BY <2>2, <2>3
  <2>5. f[p] \in Nat /\ h[p] \in Nat
    BY <2>1
  <2>6. H = 0
    BY <2>1, <2>4, <2>5, TimesNothing
  <2>7. h[p] > 0
    BY <1>0, <1>1, <2>2, <2>5, <2>6
  <2>8. F = 0
    BY <2>7, <2>4, <2>5, TimesNothing
  <2>9. \A q \in S \ {p} : f[q] = 0 /\ h[q] = 0
    BY <2>2, <2>6, <2>8
  <2>. QED
    BY <2>1, <2>7, <2>9
<1>5. ASSUME NEW p \in S, Place(p) PROVE K = A * B
  <2>2. PICK F \in Nat, H \in Nat :
           /\ A = f[p] + F /\ B = h[p] + H
           /\ ((\A q \in S \ {p} : f[q] = 0 /\ h[q] = 0) => F = 0 /\ H = 0 /\ K = k[p])
    BY <1>2
  <2>3. F = 0 /\ H = 0 /\ K = k[p]
    BY <1>5, <2>2
  <2>4. A = f[p] /\ B = h[p]
    BY <2>2, <2>3
  <2>. QED
    BY <2>3, <2>4
<1>. QED
  BY <1>2, <1>4, <1>5 DEF A, B, K

\* The lists of a process over the nodes, in their order.
Listed(nodes, cpuTime, lines) ==
    LET order == InOrder(nodes)
        a == Affinity(nodes, cpuTime, lines)
    IN /\ Ascends(nodes, order) /\ DOMAIN order = 1..Len(order) /\ Len(order) \in Nat
       /\ DOMAIN a.time = DOMAIN order /\ DOMAIN a.pages = DOMAIN order
       /\ a.time \in [DOMAIN order -> Nat] /\ a.pages \in [DOMAIN order -> Nat]
       /\ \A i \in DOMAIN order :
            /\ a.time[i] = IF order[i] \in DOMAIN cpuTime THEN cpuTime[order[i]] ELSE 0
            /\ a.pages[i] = DirtyAnonPages(lines, order[i])
       /\ a.score = IF Sum(a.pages) = 0 \/ Sum(a.time) = 0 THEN <<0, 1>>
                    ELSE <<Sum([i \in DOMAIN order |-> a.time[i] * a.pages[i]]), Sum(a.time) * Sum(a.pages)>>

LEMMA AffinityIs ==
    ASSUME NEW nodes \in SUBSET Int, IsFiniteSet(nodes), NEW cpuTime, TimeRead(cpuTime),
           NEW lines, LinesRead(lines)
    PROVE  Listed(nodes, cpuTime, lines)
<1>. DEFINE order == InOrder(nodes)
            a == Affinity(nodes, cpuTime, lines)
<1>1. Ascends(nodes, order)
  BY InOrderAscends
<1>2. DOMAIN order = 1..Len(order) /\ Len(order) \in Nat
  BY <1>1 DEF Ascends
<1>3. /\ a.time = [i \in DOMAIN order |-> IF order[i] \in DOMAIN cpuTime THEN cpuTime[order[i]] ELSE 0]
      /\ a.pages = [i \in DOMAIN order |-> DirtyAnonPages(lines, order[i])]
      /\ a.score = IF Sum(a.pages) = 0 \/ Sum(a.time) = 0 THEN <<0, 1>>
                   ELSE <<Sum([i \in DOMAIN order |-> a.time[i] * a.pages[i]]), Sum(a.time) * Sum(a.pages)>>
  BY DEF Affinity
<1>. HIDE DEF order, a
<1>4. /\ \A i \in DOMAIN order : (IF order[i] \in DOMAIN cpuTime THEN cpuTime[order[i]] ELSE 0) \in Nat
      /\ \A i \in DOMAIN order : DirtyAnonPages(lines, order[i]) \in Nat
  BY DirtyIsNat DEF TimeRead
<1>. QED
  BY <1>1, <1>2, <1>3, <1>4 DEF Listed, order, a

\* The placement of a process on any machine (Affinity, PagesOn).
THEOREM PlacementIsMeasured ==
    ASSUME NEW nodes \in SUBSET Int, IsFiniteSet(nodes), NEW p, TimeRead(p.cpuTime), LinesRead(p.lines)
    PROVE  PlacementMeasured(nodes, p)
<1>. DEFINE a == Affinity(nodes, p.cpuTime, p.lines)
            S == DOMAIN InOrder(nodes)
            f == a.time
            h == a.pages
            k == [i \in S |-> a.time[i] * a.pages[i]]
<1>1. /\ f \in [S -> Nat] /\ h \in [S -> Nat] /\ DOMAIN f = S
      /\ a.score = IF Sum(h) = 0 \/ Sum(f) = 0 THEN <<0, 1>> ELSE <<Sum(k), Sum(f) * Sum(h)>>
  BY AffinityIs DEF Listed
<1>2. IsFiniteSet(S)
  <2>1. S = 1..Len(InOrder(nodes)) /\ Len(InOrder(nodes)) \in Nat
    BY AffinityIs DEF Listed
  <2>. QED
    BY <2>1, FS_Interval
<1>3. k \in [S -> Nat] /\ \A i \in S : k[i] = f[i] * h[i]
  <2>1. \A i \in S : f[i] \in Nat /\ h[i] \in Nat
    BY <1>1
  <2>. HIDE DEF f, h
  <2>2. k = [i \in S |-> f[i] * h[i]]
    BY DEF f, h
  <2>3. \A i \in S : f[i] * h[i] \in Nat
    BY <2>1
  <2>. HIDE DEF k
  <2>. QED
    BY <2>2, <2>3
<1>. DEFINE Place(j) == f[j] > 0 /\ h[j] > 0 /\ \A q \in S \ {j} : f[q] = 0 /\ h[q] = 0
<1>4. a.score[1] <= a.score[2] /\ (a.score[1] = a.score[2] <=> \E j \in S : Place(j))
  <2>. HIDE DEF f, h, k, a, S
  <2>1. CASE Sum(h) = 0 \/ Sum(f) = 0
    <3>1. a.score[1] = 0 /\ a.score[2] = 1
      BY <1>1, <2>1
    <3>2. \A j \in S : f[j] <= Sum(f) /\ h[j] <= Sum(h) /\ f[j] \in Nat /\ h[j] \in Nat
      BY <1>1, <1>2, SumAbove DEF Sum
    <3>3. \A j \in S : ~Place(j)
      BY <2>1, <3>2
    <3>. QED
      BY <3>1, <3>3
  <2>2. CASE ~(Sum(h) = 0 \/ Sum(f) = 0)
    <3>1. a.score[1] = Sum(k) /\ a.score[2] = Sum(f) * Sum(h)
      BY <1>1, <2>2
    <3>2. SumFunction(f) # 0 /\ SumFunction(h) # 0
      BY <2>2 DEF Sum
    <3>3. /\ SumFunction(k) <= SumFunction(f) * SumFunction(h)
          /\ SumFunction(k) = SumFunction(f) * SumFunction(h) <=> \E j \in S : Place(j)
      BY <1>1, <1>2, <1>3, <3>2, AllInOnePlace
    <3>. QED
      BY <3>1, <3>3 DEF Sum
  <2>. QED
    BY <2>1, <2>2
<1>5. \A n \in nodes : ReadOnlyPages(p.lines, n) + DirtyAnonPages(p.lines, n) <= TotalPages(p.lines, n)
  BY PagesOnce
<1>6. DOMAIN a.time = S
  BY <1>1
<1>. HIDE DEF a, S
<1>. QED
  BY <1>4, <1>5, <1>6 DEF PlacementMeasured, a

\* What is read of threads: two counts, or twice -1 of those that have ended
\* (ReadCpuStatus); and the time they had.
ThreadsRead(threads) ==
    /\ IsFiniteSet(DOMAIN threads)
    /\ \A t \in DOMAIN threads :
         /\ threads[t].time \in Nat
         /\ \/ threads[t].voluntary \in Nat /\ threads[t].involuntary \in Nat
            \/ threads[t].voluntary = -1 /\ threads[t].involuntary = -1

Shares == Nat \X Nat

LEMMA TimesMore == ASSUME NEW c \in Nat, NEW m \in Int, NEW n \in Int, m <= n PROVE c * m <= c * n /\ c * m \in Int /\ c * n \in Int
<1>. DEFINE d == n - m
<1>1. d \in Nat /\ n = m + d
  OBVIOUS
<1>. HIDE DEF d
<1>2. c * (m + d) = c * m + c * d
  BY <1>1
<1>3. c * m \in Int /\ c * d \in Nat
  BY <1>1
<1>. DEFINE cm == c * m
            cd == c * d
            cn == c * n
<1>4. cm \in Int /\ cd \in Nat /\ cn = cm + cd
  BY <1>1, <1>2, <1>3
<1>. HIDE DEF cm, cd, cn
<1>5. cm <= cn /\ cm \in Int /\ cn \in Int
  BY <1>4
<1>. QED
  BY <1>5 DEF cm, cn

\* Who has most has its share, when that is at most an even one.
LEMMA TimesTwice ==
    ASSUME NEW a \in Nat, NEW b \in Nat, NEW n \in Nat, NEW m \in Nat, NEW w \in Int,
           a * n <= b, w <= n * m
    PROVE  b * m >= a * w
<1>1. a * w <= a * (n * m) /\ a * w \in Int
  <2>1. n * m \in Nat
    OBVIOUS
  <2>. DEFINE nm == n * m
  <2>2. nm \in Nat /\ w <= nm
    BY <2>1
  <2>. HIDE DEF nm
  <2>3. a * w <= a * nm /\ a * w \in Int
    BY <2>2, TimesMore
  <2>. QED
    BY <2>3 DEF nm
<1>2. m * (a * n) <= m * b /\ m * (a * n) \in Int /\ m * b \in Int
  <2>1. a * n \in Nat
    OBVIOUS
  <2>. QED
    BY <2>1, TimesMore
<1>3. m * (a * n) = a * (n * m) /\ m * b = b * m
  OBVIOUS
<1>. DEFINE aw == a * w
            anm == a * (n * m)
            bm == b * m
<1>4. aw <= anm /\ anm <= bm /\ aw \in Int /\ anm \in Int /\ bm \in Int
  BY <1>1, <1>2, <1>3
<1>. HIDE DEF aw, anm, bm
<1>5. bm >= aw
  BY <1>4
<1>. QED
  BY <1>5 DEF aw, bm

\* Who has -k, and somebody has more, has not.
LEMMA TimesLeast ==
    ASSUME NEW a \in Nat, a > 0, NEW b \in Nat, NEW n \in Nat, NEW k \in Nat, NEW w \in Int,
           a * n <= b, n * (-k) < w
    PROVE  ~(b * (-k) >= a * w)
<1>. DEFINE nk == n * k
            over == w + nk
<1>1. nk \in Nat /\ n * (-k) = -nk
  OBVIOUS
<1>. HIDE DEF nk
<1>2. over \in Int /\ 1 <= over /\ w = over - nk
  BY <1>1
<1>. HIDE DEF over
<1>3. a * 1 <= a * over /\ a * over \in Int /\ a * 1 = a
  <2>1. a * 1 <= a * over /\ a * over \in Int
    BY <1>2, TimesMore
  <2>. QED
    BY <2>1
<1>4. a * (over - nk) = a * over - a * nk /\ a * nk \in Int
  BY <1>1, <1>2
<1>5. k * (a * n) <= k * b /\ k * (a * n) \in Int /\ k * b \in Int
  <2>1. a * n \in Nat
    OBVIOUS
  <2>. QED
    BY <2>1, TimesMore
<1>6. k * (a * n) = a * nk /\ b * (-k) = -(k * b)
  BY DEF nk
<1>. DEFINE aw == a * w
            ao == a * over
            ank == a * nk
            kb == k * b
            bk == b * (-k)
<1>7. aw = ao - ank /\ ao >= 1 /\ ank <= kb /\ bk = -kb /\ ao \in Int /\ ank \in Int /\ kb \in Int
  BY <1>2, <1>3, <1>4, <1>5, <1>6
<1>. HIDE DEF aw, ao, ank, kb, bk
<1>8. ~(bk >= aw)
  BY <1>7
<1>. QED
  BY <1>8 DEF aw, bk

LEMMA SomeGreatest ==
    ASSUME NEW S, IsFiniteSet(S), S # {}, NEW f \in [S -> Int]
    PROVE  \E p \in S : \A q \in S : f[q] <= f[p]
<1>. DEFINE T == {f[p] : p \in S}
<1>1. IsFiniteSet(T)
  <2>1. f \in Surjection(S, T)
    BY DEF Surjection
  <2>. QED
    BY <2>1, FS_Surjection
<1>2. T \in SUBSET Int /\ T # {}
  OBVIOUS
<1>3. Max(T) \in T /\ \A n \in T : n <= Max(T)
  BY <1>1, <1>2, GreatestIs
<1>. QED
  BY <1>3

\* Counts from -k up: who has most, and who has -k while somebody has more.
CountsFrom(f, S, k) == IsFiniteSet(S) /\ k \in Nat /\ f \in [S -> Int] /\ \A p \in S : -k <= f[p]

LEMMA SumOfCounts ==
    ASSUME NEW S, NEW f, NEW k, CountsFrom(f, S, k)
    PROVE  /\ SumFunction(f) \in Int
           /\ \A p \in S : (\A r \in S : f[r] <= f[p]) => SumFunction(f) <= Cardinality(S) * f[p]
           /\ (\E q \in S : -k < f[q]) => Cardinality(S) * (-k) < SumFunction(f)
<1>. DEFINE W == SumFunction(f)
            n == Cardinality(S)
<1>1. /\ IsFiniteSet(S) /\ n \in Nat /\ k \in Nat /\ -k \in Int /\ f \in [S -> Int]
      /\ \A p \in S : -k <= f[p]
  BY FS_CardinalityType DEF CountsFrom
<1>2. ASSUME NEW p \in S, \A r \in S : f[r] <= f[p]
      PROVE  W \in Int /\ W <= n * f[p] /\ ((\E r \in S : -k < f[r]) => n * (-k) < W)
  <2>1. f[p] \in Int /\ \A r \in S : -k <= f[r] /\ f[r] <= f[p]
    BY <1>1, <1>2
  <2>. DEFINE l == -k
              m == f[p]
  <2>2. l \in Int /\ m \in Int /\ \A r \in S : l <= f[r] /\ f[r] <= m
    BY <1>1, <2>1
  <2>. HIDE DEF l, m
  <2>3. W \in Int /\ W <= n * m /\ ((\E r \in S : l < f[r]) => n * l < W)
    BY <1>1, <2>2, SumBetween
  <2>. QED
    BY <2>3 DEF l, m
<1>3. CASE S = {}
  <2>1. \A p \in S : 0 <= f[p] /\ f[p] <= 0
    BY <1>3
  <2>2. 0 \in Int
    OBVIOUS
  <2>3. W \in Int
    BY <1>1, <2>1, <2>2, SumBetween
  <2>. QED
    BY <1>3, <2>3
<1>4. CASE S # {}
  <2>1. PICK p \in S : \A r \in S : f[r] <= f[p]
    BY <1>1, <1>4, SomeGreatest
  <2>2. W \in Int /\ ((\E r \in S : -k < f[r]) => n * (-k) < W)
    BY <1>2, <2>1
  <2>. HIDE DEF W, n
  <2>3. \A p1 \in S : (\A r \in S : f[r] <= f[p1]) => W <= n * f[p1]
    BY <1>2
  <2>. QED
    BY <2>2, <2>3 DEF W, n
<1>. QED
  BY <1>3, <1>4

LEMMA MostIsShare ==
    ASSUME NEW S, NEW f, NEW k, CountsFrom(f, S, k), NEW a \in Nat, NEW b \in Nat, a * Cardinality(S) <= b,
           NEW p \in S, f[p] >= 0, \A r \in S : f[r] <= f[p]
    PROVE  b * f[p] >= a * SumFunction(f)
<1>1. Cardinality(S) \in Nat /\ f[p] \in Nat
  BY FS_CardinalityType DEF CountsFrom
<1>2. SumFunction(f) \in Int /\ SumFunction(f) <= Cardinality(S) * f[p]
  BY SumOfCounts
<1>. QED
  BY <1>1, <1>2, TimesTwice

LEMMA LeastIsNoShare ==
    ASSUME NEW S, NEW f, NEW k, CountsFrom(f, S, k), NEW a \in Nat, NEW b \in Nat, a * Cardinality(S) <= b, a > 0,
           NEW p \in S, f[p] = -k, NEW q \in S, -k < f[q]
    PROVE  ~(b * f[p] >= a * SumFunction(f))
<1>1. Cardinality(S) \in Nat /\ k \in Nat
  BY FS_CardinalityType DEF CountsFrom
<1>2. SumFunction(f) \in Int /\ Cardinality(S) * (-k) < SumFunction(f)
  BY SumOfCounts
<1>3. ~(b * (-k) >= a * SumFunction(f))
  BY <1>1, <1>2, TimesLeast
<1>. QED
  BY <1>3

\* Of any threads, those that end while they are looked at too, and any
\* thresholds: of those read the busiest stays, those ended stay for their time
\* alone, and nobody goes before one with less of everything (FilterThreads).
THEOREM TheBusiestStay ==
    ASSUME NEW threads, ThreadsRead(threads), NEW switchShare \in Shares, NEW timeShare \in Shares
    PROVE  BusiestThreadsStay(threads, switchShare, timeShare)
<1>. DEFINE S == DOMAIN threads
            f == [t \in S |-> threads[t].voluntary + threads[t].involuntary]
            g == [t \in S |-> threads[t].involuntary]
            a == switchShare[1]
            b == switchShare[2]
            d == timeShare[2]
            W == SumFunction(f)
            I == SumFunction(g)
            E == timeShare[1] * SumFunction([t \in S |-> threads[t].time])
            kept == FilterThreads(threads, switchShare, timeShare)
            read == {t \in S : threads[t].voluntary >= 0 /\ threads[t].involuntary >= 0}
<1>1. /\ IsFiniteSet(S) /\ a \in Nat /\ b \in Nat /\ d \in Nat
      /\ \A t \in S : /\ threads[t].voluntary \in Int /\ threads[t].involuntary \in Int /\ threads[t].time \in Nat
                      /\ t \in read \/ (threads[t].voluntary = -1 /\ threads[t].involuntary = -1)
  <2>1. IsFiniteSet(S) /\ a \in Nat /\ b \in Nat /\ d \in Nat
    BY DEF ThreadsRead, Shares
  <2>2. ASSUME NEW t \in S
        PROVE  /\ threads[t].voluntary \in Int /\ threads[t].involuntary \in Int /\ threads[t].time \in Nat
               /\ t \in read \/ (threads[t].voluntary = -1 /\ threads[t].involuntary = -1)
    <3>1. /\ threads[t].time \in Nat
          /\ \/ threads[t].voluntary \in Nat /\ threads[t].involuntary \in Nat
             \/ threads[t].voluntary = -1 /\ threads[t].involuntary = -1
      BY <2>2 DEF ThreadsRead
    <3>2. threads[t].voluntary \in Int /\ threads[t].involuntary \in Int
      <4>. DEFINE v == threads[t].voluntary
                  i == threads[t].involuntary
      <4>1. (v \in Nat /\ i \in Nat) \/ (v = -1 /\ i = -1)
        BY <3>1
      <4>. HIDE DEF v, i
      <4>2. v \in Int /\ i \in Int
        BY <4>1
      <4>. QED
        BY <4>2 DEF v, i
    <3>3. threads[t].voluntary \in Nat /\ threads[t].involuntary \in Nat => t \in read
      BY <2>2
    <3>. QED
      BY <3>1, <3>2, <3>3
  <2>. QED
    BY <2>1, <2>2
<1>2. /\ f \in [S -> Int] /\ g \in [S -> Int]
      /\ \A t \in S : /\ -2 <= f[t] /\ -1 <= g[t]
                      /\ t \in read => f[t] >= 0 /\ g[t] >= 0
                      /\ t \notin read => f[t] = -2 /\ g[t] = -1
  BY <1>1
<1>3. W \in Int /\ I \in Int /\ CountsFrom(f, S, 2) /\ CountsFrom(g, S, 1)
  <2>. HIDE DEF f, g
  <2>1. CountsFrom(f, S, 2) /\ CountsFrom(g, S, 1)
    BY <1>1, <1>2 DEF CountsFrom
  <2>2. W \in Int
    BY <2>1, SumOfCounts
  <2>3. I \in Int
    BY <2>1, SumOfCounts
  <2>. QED
    BY <2>1, <2>2, <2>3
<1>4. a * W \in Int /\ a * I \in Int /\ E \in Nat
  <2>1. [t \in S |-> threads[t].time] \in [S -> Nat]
    BY <1>1
  <2>2. SumFunction([t \in S |-> threads[t].time]) \in Nat
    BY <1>1, <2>1, SumTyped
  <2>3. timeShare[1] \in Nat
    BY DEF Shares
  <2>. HIDE DEF W, I
  <2>. QED
    BY <1>1, <1>3, <2>2, <2>3
<1>5. /\ \A t \in S : OverTime(t, threads, timeShare) <=> d * threads[t].time > E
      /\ \A t : t \in kept <=>
           /\ t \in S
           /\ \/ b * f[t] >= a * W
              \/ b * g[t] >= a * I
              \/ OverTime(t, threads, timeShare)
  BY DEF FilterThreads, OverTime, Sum
<1>. HIDE DEF kept, W, I, E
<1>6. ASSUME read # {}, a * Cardinality(S) <= b PROVE read \cap kept # {}
  <2>1. PICK t \in S : \A u \in S : f[u] <= f[t]
    <3>. HIDE DEF f
    <3>. QED
      BY <1>1, <1>2, <1>6, SomeGreatest
  <2>2. t \in read /\ f[t] >= 0
    <3>. HIDE DEF f, g
    <3>1. PICK u \in S : u \in read
      BY <1>6
    <3>2. f[t] \in Int /\ f[t] >= 0
      BY <1>2, <2>1, <3>1
    <3>. QED
      BY <1>2, <3>2
  <2>3. b * f[t] >= a * W
    <3>. HIDE DEF f, g
    <3>. QED
      BY <1>1, <1>3, <1>6, <2>1, <2>2, MostIsShare DEF W
  <2>. QED
    BY <1>5, <2>2, <2>3
<1>7. ASSUME read # {}, a * Cardinality(S) <= b, a > 0, NEW t \in kept \ read PROVE OverTime(t, threads, timeShare)
  <2>1. t \in S /\ t \notin read
    BY <1>5
  <2>2. PICK u \in S : u \in read
    BY <1>7
  <2>3. f[t] = -2 /\ -2 < f[u] /\ g[t] = -1 /\ -1 < g[u]
    <3>. HIDE DEF f, g
    <3>. QED
      BY <1>2, <2>1, <2>2
  <2>. HIDE DEF f, g
  <2>4. ~(b * f[t] >= a * W)
    BY <1>1, <1>3, <1>7, <2>1, <2>2, <2>3, LeastIsNoShare DEF W
  <2>5. ~(b * g[t] >= a * I)
    BY <1>1, <1>3, <1>7, <2>1, <2>2, <2>3, LeastIsNoShare DEF I
  <2>. QED
    BY <1>5, <2>4, <2>5
<1>8. ASSUME NEW t \in kept, NEW u \in S, threads[u].voluntary >= threads[t].voluntary,
             threads[u].involuntary >= threads[t].involuntary, threads[u].time >= threads[t].time
      PROVE  u \in kept
  <2>1. t \in S
    BY <1>5
  <2>2. /\ f[t] \in Int /\ f[u] \in Int /\ f[t] <= f[u]
        /\ g[t] \in Int /\ g[u] \in Int /\ g[t] <= g[u]
        /\ threads[t].time \in Int /\ threads[u].time \in Int /\ threads[t].time <= threads[u].time
    BY <1>1, <1>8, <2>1
  <2>. HIDE DEF f, g
  <2>3. b * f[t] <= b * f[u] /\ b * f[t] \in Int /\ b * f[u] \in Int
    BY <1>1, <2>2, TimesMore
  <2>4. b * g[t] <= b * g[u] /\ b * g[t] \in Int /\ b * g[u] \in Int
    BY <1>1, <2>2, TimesMore
  <2>5. /\ d * threads[t].time <= d * threads[u].time
        /\ d * threads[t].time \in Int /\ d * threads[u].time \in Int
    BY <1>1, <2>2, TimesMore
  <2>. DEFINE ft == b * f[t]
              fu == b * f[u]
              it == b * g[t]
              iu == b * g[u]
              tt == d * threads[t].time
              tu == d * threads[u].time
              aW == a * W
              aI == a * I
  <2>6. /\ ft <= fu /\ it <= iu /\ tt <= tu
        /\ ft \in Int /\ fu \in Int /\ it \in Int /\ iu \in Int /\ tt \in Int /\ tu \in Int
        /\ aW \in Int /\ aI \in Int
    BY <1>4, <2>3, <2>4, <2>5
  <2>7. ft >= aW \/ it >= aI \/ tt > E
    BY <1>5, <2>1
  <2>. HIDE DEF ft, fu, it, iu, tt, tu, aW, aI
  <2>8. fu >= aW \/ iu >= aI \/ tu > E
    BY <1>4, <2>6, <2>7
  <2>. QED
    BY <1>5, <2>8 DEF fu, iu, tu, aW, aI
<1>. HIDE DEF f, g
<1>9. BusiestThreadsStay(threads, switchShare, timeShare) <=>
        /\ read # {} /\ a * Cardinality(S) <= b =>
             /\ read \cap kept # {}
             /\ a > 0 => \A t \in kept \ read : OverTime(t, threads, timeShare)
        /\ \A t \in kept, u \in S :
             threads[u].voluntary >= threads[t].voluntary /\ threads[u].involuntary >= threads[t].involuntary
             /\ threads[u].time >= threads[t].time => u \in kept
  BY DEF BusiestThreadsStay, kept
<1>. QED
  BY <1>6, <1>7, <1>8, <1>9

\* The numbers from 0, in order.
LEMMA InOrderFromZero ==
    ASSUME NEW C \in Nat, NEW x, Ascends(0..C - 1, x), Len(x) = C
    PROVE  \A i \in 1..C : x[i] = i - 1
<1>1. /\ x \in Seq(Int) /\ DOMAIN x = 1..C
      /\ \A i \in 1..C : x[i] \in 0..C - 1
      /\ \A i, j \in 1..C : i < j => x[i] < x[j]
  BY DEF Ascends
<1>. DEFINE T == {n \in Nat : n \in 1..C => x[n] >= n - 1}
            U == {n \in Nat : C - n \in 1..C => x[C - n] <= C - n - 1}
<1>2. T = Nat
  <2>1. 0 \in T /\ T \in SUBSET Nat
    OBVIOUS
  <2>2. ASSUME NEW n \in T PROVE n + 1 \in T
    <3>1. SUFFICES ASSUME n + 1 \in 1..C PROVE x[n + 1] >= n
      OBVIOUS
    <3>2. CASE n = 0
      BY <1>1, <3>1, <3>2
    <3>3. CASE n # 0
      <4>1. n \in 1..C /\ n < n + 1
        BY <3>1, <3>3
      <4>2. x[n] < x[n + 1] /\ x[n] >= n - 1 /\ x[n] \in Int /\ x[n + 1] \in Int
        BY <1>1, <3>1, <4>1
      <4>. QED
        BY <4>2
    <3>. QED
      BY <3>2, <3>3
  <2>. HIDE DEF T
  <2>. QED
    BY <2>1, <2>2, AllNumbers
<1>3. U = Nat
  <2>1. 0 \in U /\ U \in SUBSET Nat
    BY <1>1
  <2>2. ASSUME NEW n \in U PROVE n + 1 \in U
    <3>1. SUFFICES ASSUME C - (n + 1) \in 1..C PROVE x[C - (n + 1)] <= C - (n + 1) - 1
      OBVIOUS
    <3>2. C - n \in 1..C /\ C - (n + 1) < C - n
      BY <3>1
    <3>3. x[C - (n + 1)] < x[C - n] /\ x[C - n] <= C - n - 1 /\ x[C - n] \in Int /\ x[C - (n + 1)] \in Int
      BY <1>1, <3>1, <3>2
    <3>. QED
      BY <3>3
  <2>. HIDE DEF U
  <2>. QED
    BY <2>1, <2>2, AllNumbers
<1>4. ASSUME NEW i \in 1..C PROVE x[i] = i - 1
  <2>1. i \in T
    BY <1>2
  <2>2. C - i \in U
    <3>1. C - i \in Nat
      OBVIOUS
    <3>. HIDE DEF U
    <3>. QED
      BY <1>3, <3>1
  <2>3. C - (C - i) = i
    OBVIOUS
  <2>4. x[i] <= i - 1
    BY <2>2, <2>3
  <2>. QED
    BY <1>1, <2>1, <2>4
<1>. QED
  BY <1>4

\* The nodes a process leads to, on any machine with its nodes in a row
\* (ProcessNeighbors, SetNeighbors).
THEOREM NodesAreReached ==
    ASSUME NEW cpus, IsFiniteSet(DOMAIN cpus), DOMAIN cpus \in SUBSET Int,
           NEW p, TimeRead(p.cpuTime), LinesRead(p.lines)
    PROVE  ProcessReachesNodes(cpus, p)
<1>. DEFINE nodes == DOMAIN cpus
            C == Cardinality(nodes)
            a == Affinity(nodes, p.cpuTime, p.lines)
            order == InOrder(nodes)
            X == AccessedNumaNodes(a)
            links == ProcessNeighbors(cpus, p, FALSE, <<1, 1>>, <<1, 1>>)
            reached == UNION {SetNeighbors(cpus, l.to) : l \in links}
            onNode(n) == \/ n \in DOMAIN p.cpuTime /\ p.cpuTime[n] > 0
                         \/ DirtyAnonPages(p.lines, n) > 0
<1>. SUFFICES ASSUME nodes = 0..C - 1, p.readable
              PROVE  {l.to : l \in reached} = {Node(n) : n \in {m \in nodes : onNode(m)}}
  BY DEF ProcessReachesNodes
<1>1. /\ Ascends(nodes, order) /\ DOMAIN order = 1..Len(order) /\ Len(order) \in Nat
      /\ DOMAIN a.time = DOMAIN order /\ DOMAIN a.pages = DOMAIN order
      /\ \A i \in DOMAIN order :
           /\ a.time[i] = IF order[i] \in DOMAIN p.cpuTime THEN p.cpuTime[order[i]] ELSE 0
           /\ a.pages[i] = DirtyAnonPages(p.lines, order[i])
  <2>1. nodes \in SUBSET Int /\ IsFiniteSet(nodes)
    OBVIOUS
  <2>. HIDE DEF nodes
  <2>2. Listed(nodes, p.cpuTime, p.lines)
    BY <2>1, AffinityIs
  <2>. QED
    BY <2>2 DEF Listed
<1>2. Len(order) = C /\ C \in Nat
  BY <1>1 DEF Ascends
<1>3. \A i \in 1..C : order[i] = i - 1
  <2>. HIDE DEF order
  <2>1. Ascends(0..C - 1, order)
    BY <1>1
  <2>. HIDE DEF C
  <2>. QED
    BY <1>2, <2>1, InOrderFromZero
<1>4. \A m : m \in X <=> \E i \in 1..C : m = i - 1 /\ (a.time[i] > 0 \/ a.pages[i] > 0)
  <2>. HIDE DEF a
  <2>. QED
    BY <1>1, <1>2 DEF AccessedNumaNodes
<1>5. X = {m \in nodes : onNode(m)}
  <2>1. ASSUME NEW i \in 1..C PROVE (a.time[i] > 0 \/ a.pages[i] > 0) <=> onNode(i - 1)
    <3>1. i \in DOMAIN order /\ order[i] = i - 1
      BY <1>1, <1>2, <1>3
    <3>2. /\ a.time[i] = IF i - 1 \in DOMAIN p.cpuTime THEN p.cpuTime[i - 1] ELSE 0
          /\ a.pages[i] = DirtyAnonPages(p.lines, i - 1)
      <4>. HIDE DEF a, order
      <4>. QED
        BY <1>1, <3>1
    <3>. HIDE DEF a
    <3>. QED
      BY <3>2
  <2>2. \A m : m \in nodes <=> \E i \in 1..C : m = i - 1
    <3>1. \A m \in 0..C - 1 : m + 1 \in 1..C /\ m = (m + 1) - 1
      BY <1>2
    <3>2. \A i \in 1..C : i - 1 \in 0..C - 1
      BY <1>2
    <3>. HIDE DEF C
    <3>. QED
      BY <3>1, <3>2
  <2>. HIDE DEF X, a, nodes, C, onNode
  <2>. QED
    BY <1>4, <2>1, <2>2
<1>6. RangesToList(ListToRanges(X)) = X
  <2>1. X \in SUBSET Int /\ IsFiniteSet(X)
    <3>1. X \in SUBSET nodes
      <4>. HIDE DEF X, onNode
      <4>. QED
        BY <1>5
    <3>. HIDE DEF X
    <3>. QED
      BY <3>1, FS_Subset
  <2>. HIDE DEF X
  <2>2. RangesRoundTrip(X)
    BY <2>1, RangesAreExact
  <2>. QED
    BY <2>2 DEF RangesRoundTrip
<1>7. links = {Link("access", "process", NumaSet(X))}
  BY DEF ProcessNeighbors
<1>8. NumaSet(X)[2] = X /\ Link("access", "process", NumaSet(X)).to = NumaSet(X)
  <2>. HIDE DEF X
  <2>. QED
    BY DEF NumaSet, Link
<1>9. reached = SetNeighbors(cpus, NumaSet(X))
  <2>. HIDE DEF X, links
  <2>. QED
    BY <1>7, <1>8
<1>10. reached = {Link("contain", NumaSet(X), Node(n)) : n \in X}
  <2>1. X \cap DOMAIN cpus = X
    <3>. HIDE DEF X, onNode
    <3>. QED
      BY <1>5
  <2>. HIDE DEF X, reached
  <2>. QED
    BY <1>6, <1>8, <1>9, <2>1 DEF SetNeighbors
<1>11. {l.to : l \in reached} = {Node(n) : n \in X}
  <2>. HIDE DEF X, reached
  <2>1. \A n : Link("contain", NumaSet(X), Node(n)).to = Node(n)
    BY DEF Link
  <2>. QED
    BY <1>10, <2>1
<1>. HIDE DEF X, reached, nodes, onNode
<1>. QED
  BY <1>5, <1>11

-----------------------------------------------------------------------------
(* The dies of a machine (HccsBandwidth). *)

\* One node more.
Visited(nodes, distance, n, x) ==
    IF n \in UNION Range(x) THEN x
    ELSE Append(x, {n} \cup {m \in nodes \ UNION Range(x) : CloseTo(distance, n, m)})

\* The dies after the nodes of s, which are the smallest.
Dies(nodes, s, x) ==
    /\ x \in Seq(SUBSET nodes)
    /\ \A n \in s : \E i \in 1..Len(x) : n \in x[i]
    /\ \A i \in 1..Len(x) : \E n \in s : n \in x[i] /\ n = Min(x[i])
    /\ \A i, j \in 1..Len(x) : i < j => x[i] \cap x[j] = {} /\ Min(x[i]) < Min(x[j])

Smallest(nodes, s) == \A n \in s, m \in nodes : m < n => m \in s

LEMMA UnionOfRange ==
    ASSUME NEW V, NEW x \in Seq(SUBSET V)
    PROVE  \A n : n \in UNION Range(x) <=> \E i \in 1..Len(x) : n \in x[i]
<1>1. DOMAIN x = 1..Len(x)
  OBVIOUS
<1>. QED
  BY <1>1 DEF Range

LEMMA LeastIs ==
    ASSUME NEW S \in SUBSET Int, NEW n \in S, \A m \in S : n <= m
    PROVE  Min(S) = n
<1>1. Min(S) \in S /\ \A m \in S : Min(S) <= m
  BY DEF Min
<1>. DEFINE m == Min(S)
<1>2. m \in S /\ m <= n /\ n <= m
  BY <1>1
<1>. HIDE DEF m
<1>3. m = n
  <2>1. m \in Int /\ n \in Int
    BY <1>2
  <2>. QED
    BY <1>2, <2>1
<1>. QED
  BY <1>3 DEF m

LEMMA VisitedTyped ==
    ASSUME NEW nodes, NEW distance, NEW n \in nodes, NEW x \in Seq(SUBSET nodes)
    PROVE  Visited(nodes, distance, n, x) \in Seq(SUBSET nodes)
BY DEF Visited

LEMMA DiesBy ==
    ASSUME NEW nodes \in SUBSET Int, NEW distance, NEW s \in SUBSET nodes, NEW n \in s,
           \A m \in s \ {n} : m < n, Smallest(nodes, s), NEW x, Dies(nodes, s \ {n}, x)
    PROVE  Dies(nodes, s, Visited(nodes, distance, n, x))
<1>. DEFINE y == Visited(nodes, distance, n, x)
            k == Len(x)
            U == UNION Range(x)
            die == {n} \cup {m \in nodes \ U : CloseTo(distance, n, m)}
<1>1. x \in Seq(SUBSET nodes) /\ k \in Nat /\ \A m : m \in U <=> \E i \in 1..k : m \in x[i]
  <2>1. x \in Seq(SUBSET nodes)
    BY DEF Dies
  <2>2. \A m : m \in U <=> \E i \in 1..k : m \in x[i]
    BY <2>1, UnionOfRange
  <2>3. k \in Nat
    BY <2>1
  <2>. HIDE DEF U, k
  <2>. QED
    BY <2>1, <2>2, <2>3
<1>2. CASE n \in U
  <2>1. y = x
    BY <1>2 DEF Visited
  <2>2. \A m \in s : \E i \in 1..Len(x) : m \in x[i]
    <3>. HIDE DEF U
    <3>. QED
      BY <1>1, <1>2 DEF Dies
  <2>3. \A i \in 1..Len(x) : \E m \in s : m \in x[i] /\ m = Min(x[i])
    BY DEF Dies
  <2>. HIDE DEF y
  <2>. QED
    BY <1>1, <2>1, <2>2, <2>3 DEF Dies, y
<1>3. CASE n \notin U
  <2>1. y = Append(x, die)
    BY <1>3 DEF Visited
  <2>2. die \in SUBSET nodes /\ n \in die /\ \A m \in die : m \notin U /\ (m = n \/ m \in nodes)
    BY <1>3
  <2>3. /\ y \in Seq(SUBSET nodes) /\ Len(y) = k + 1 /\ y[k + 1] = die
        /\ \A i \in 1..k : y[i] = x[i]
    <3>. HIDE DEF die
    <3>. QED
      BY <1>1, <2>1, <2>2
  <2>. HIDE DEF y, die
  <2>4. \A i \in 1..Len(y) : i \in 1..k \/ i = k + 1
    BY <1>1, <2>3
  <2>5. \A m \in die : n <= m
    <3>. SUFFICES ASSUME NEW m \in die, ~(n <= m) PROVE FALSE
      OBVIOUS
    <3>1. m \in nodes /\ m < n /\ m \in Int /\ n \in Int
      BY <2>2
    <3>2. m \in s \ {n}
      BY <3>1 DEF Smallest
    <3>3. m \in U
      <4>1. \E i \in 1..k : m \in x[i]
        BY <3>2 DEF Dies
      <4>. HIDE DEF U
      <4>. QED
        BY <1>1, <4>1
    <3>. QED
      BY <2>2, <3>3
  <2>6. Min(die) = n
    BY <2>2, <2>5, LeastIs
  <2>7. \A m \in s : \E i \in 1..Len(y) : m \in y[i]
    <3>1. \A m \in s \ {n} : \E i \in 1..k : m \in x[i]
      BY DEF Dies
    <3>2. \A i \in 1..k : i \in 1..Len(y)
      BY <1>1, <2>3
    <3>3. \A m \in s \ {n} : \E i \in 1..Len(y) : m \in y[i]
      BY <2>3, <3>1, <3>2
    <3>4. k + 1 \in 1..Len(y) /\ n \in y[k + 1]
      BY <1>1, <2>2, <2>3
    <3>. QED
      BY <3>3, <3>4
  <2>8. \A i \in 1..Len(y) : \E m \in s : m \in y[i] /\ m = Min(y[i])
    <3>1. \A i \in 1..k : \E m \in s : m \in y[i] /\ m = Min(y[i])
      BY <2>3 DEF Dies
    <3>2. n \in y[k + 1] /\ n = Min(y[k + 1])
      BY <2>2, <2>3, <2>6
    <3>. QED
      BY <2>4, <3>1, <3>2
  <2>9. ASSUME NEW i \in 1..Len(y), NEW j \in 1..Len(y), i < j
        PROVE  y[i] \cap y[j] = {} /\ Min(y[i]) < Min(y[j])
    <3>1. i \in 1..k
      BY <1>1, <2>3, <2>9
    <3>2. CASE j \in 1..k
      BY <2>3, <2>9, <3>1, <3>2 DEF Dies
    <3>3. CASE j = k + 1
      <4>1. y[i] = x[i] /\ y[j] = die
        BY <2>3, <3>1, <3>3
      <4>2. x[i] \cap die = {}
        <5>1. \A m \in x[i] : m \in U
          <6>. HIDE DEF U
          <6>. QED
            BY <1>1, <3>1
        <5>. HIDE DEF U
        <5>. QED
          BY <2>2, <5>1
      <4>3. PICK m \in s \ {n} : m = Min(x[i])
        BY <3>1 DEF Dies
      <4>4. m < n
        BY <4>3
      <4>. QED
        BY <2>6, <4>1, <4>2, <4>3, <4>4
    <3>. QED
      BY <2>4, <3>2, <3>3
  <2>. QED
    BY <2>3, <2>7, <2>8, <2>9 DEF Dies, y
<1>. QED
  BY <1>2, <1>3

LEMMA DiesFound ==
    ASSUME NEW nodes \in SUBSET Int, IsFiniteSet(nodes), NEW distance, ~(Cardinality(nodes) <= 1)
    PROVE  Dies(nodes, nodes, ScclToNumas(nodes, distance))
<1>. DEFINE V == Seq(SUBSET nodes)
            step(g) == [s \in SUBSET nodes |-> IF s = {} THEN <<>>
                                               ELSE Visited(nodes, distance, Max(s), g[s \ {Max(s)}])]
            iter == CHOOSE g : g = step(g)
            c == Topmost(nodes)
            G == [p \in nodes \X V |-> Visited(nodes, distance, p[1], p[2])]
            P == {s \in SUBSET nodes : Smallest(nodes, s) => Dies(nodes, s, iter[s])}
<1>1. ScclToNumas(nodes, distance) = iter[nodes]
  BY DEF ScclToNumas, MapThenFoldSet, Visited
<1>2. /\ Picks(c, nodes)
      /\ \A s \in SUBSET nodes : s # {} =>
           /\ c[s] = Max(s) /\ Max(s) \in s /\ Max(s) \in Int
           /\ \A n \in s \ {Max(s)} : n < Max(s)
  BY GreatestTaken
<1>. HIDE DEF c
<1>3. iter = step(iter)
  <2>1. G \in [nodes \X V -> V] /\ <<>> \in V
    <3>1. \A p \in nodes \X V : p[1] \in nodes /\ p[2] \in V
      OBVIOUS
    <3>2. \A p \in nodes \X V : Visited(nodes, distance, p[1], p[2]) \in V
      BY <3>1, VisitedTyped
    <3>. QED
      BY <3>2
  <2>2. \A p \in nodes \X V : G[p] = Visited(nodes, distance, p[1], p[2])
    OBVIOUS
  <2>. HIDE DEF G
  <2>3. PICK g \in [SUBSET nodes -> V] : Folds(g, nodes, c, <<>>, G)
    BY <1>2, <2>1, FoldExists
  <2>4. g = step(g)
    <3>1. ASSUME NEW s \in SUBSET nodes PROVE g[s] = step(g)[s]
      <4>1. CASE s = {}
        BY <2>3, <4>1 DEF Folds
      <4>2. CASE s # {}
        <5>1. c[s] = Max(s) /\ <<c[s], g[s \ {c[s]}]>> \in nodes \X V
          BY <1>2, <4>2
        <5>2. g[s] = G[<<c[s], g[s \ {c[s]}]>>]
          BY <2>3, <4>2 DEF Folds
        <5>3. g[s] = Visited(nodes, distance, Max(s), g[s \ {Max(s)}])
          BY <2>2, <5>1, <5>2
        <5>. QED
          BY <4>2, <5>3
      <4>. QED
        BY <4>1, <4>2
    <3>2. step(g) = [s \in SUBSET nodes |-> step(g)[s]]
      OBVIOUS
    <3>3. g = [s \in SUBSET nodes |-> g[s]]
      OBVIOUS
    <3>. HIDE DEF step
    <3>. QED
      BY <3>1, <3>2, <3>3
  <2>. HIDE DEF step
  <2>. QED
    BY <2>4
<1>4. \A s \in SUBSET nodes : iter[s] = IF s = {} THEN <<>> ELSE Visited(nodes, distance, Max(s), iter[s \ {Max(s)}])
  <2>1. \A s \in SUBSET nodes : iter[s] = step(iter)[s]
    <3>. HIDE DEF iter, step
    <3>. QED
      BY <1>3
  <2>. HIDE DEF iter
  <2>. QED
    BY <2>1
<1>. HIDE DEF iter
<1>5. {} \in P
  <2>1. iter[{}] = <<>>
    BY <1>4
  <2>2. Dies(nodes, {}, <<>>)
    BY DEF Dies
  <2>. QED
    BY <2>1, <2>2
<1>6. ASSUME NEW s \in SUBSET nodes, s # {}, s \ {c[s]} \in P PROVE s \in P
  <2>. SUFFICES ASSUME Smallest(nodes, s) PROVE Dies(nodes, s, iter[s])
    OBVIOUS
  <2>1. /\ c[s] = Max(s) /\ Max(s) \in s /\ Max(s) \in Int
        /\ \A n \in s \ {Max(s)} : n < Max(s)
    BY <1>2, <1>6
  <2>. DEFINE top == Max(s)
  <2>2. Smallest(nodes, s \ {top})
    <3>. HIDE DEF top
    <3>1. top \in Int /\ \A n \in s \ {top} : n < top /\ n \in Int
      BY <2>1 DEF top
    <3>2. \A n \in s \ {top}, m \in nodes : m < n => m # top
      BY <3>1
    <3>. QED
      BY <3>2 DEF Smallest
  <2>3. Dies(nodes, s \ {top}, iter[s \ {top}])
    BY <1>6, <2>1, <2>2
  <2>4. Dies(nodes, s, Visited(nodes, distance, top, iter[s \ {top}]))
    <3>1. top \in s /\ \A m \in s \ {top} : m < top
      BY <2>1
    <3>. HIDE DEF top
    <3>. QED
      BY <2>3, <3>1, DiesBy
  <2>. QED
    BY <1>4, <1>6, <2>4
<1>7. nodes \in P
  <2>1. Grows(P, c, nodes)
    BY <1>6 DEF Grows
  <2>. HIDE DEF P
  <2>. QED
    BY <1>2, <1>5, <2>1, AllSubsets
<1>8. Smallest(nodes, nodes)
  BY DEF Smallest
<1>. QED
  BY <1>1, <1>7, <1>8

\* The dies of any machine, whatever its distances (ScclToNumas).
THEOREM DiesArePartition ==
    ASSUME NEW nodes \in SUBSET Int, IsFiniteSet(nodes), NEW distance
    PROVE  DiesPartitionNodes(nodes, distance)
<1>. DEFINE x == ScclToNumas(nodes, distance)
<1>1. CASE Cardinality(nodes) <= 1
  <2>1. x = <<nodes>>
    BY <1>1 DEF ScclToNumas
  <2>. HIDE DEF x
  <2>2. Range(x) = {nodes} /\ DOMAIN x = 1..1
    BY <2>1 DEF Range
  <2>3. UNION Range(x) = nodes /\ (nodes # {} => {} \notin Range(x))
    BY <2>2
  <2>4. \A i, j \in DOMAIN x : ~(i < j)
    BY <2>2
  <2>. QED
    BY <2>3, <2>4 DEF DiesPartitionNodes, x
<1>2. CASE ~(Cardinality(nodes) <= 1)
  <2>1. Dies(nodes, nodes, x)
    BY <1>2, DiesFound
  <2>. HIDE DEF x
  <2>2. x \in Seq(SUBSET nodes) /\ DOMAIN x = 1..Len(x)
    BY <2>1 DEF Dies
  <2>3. UNION Range(x) = nodes
    <3>1. \A n : n \in UNION Range(x) <=> \E i \in 1..Len(x) : n \in x[i]
      BY <2>2, UnionOfRange
    <3>2. \A i \in 1..Len(x) : x[i] \in SUBSET nodes
      BY <2>2
    <3>. QED
      BY <2>1, <3>1, <3>2 DEF Dies
  <2>4. {} \notin Range(x)
    <3>1. \A i \in 1..Len(x) : x[i] # {}
      BY <2>1 DEF Dies
    <3>. QED
      BY <2>2, <3>1 DEF Range
  <2>. QED
    BY <2>1, <2>2, <2>3, <2>4 DEF DiesPartitionNodes, Dies, x
<1>. QED
  BY <1>1, <1>2

-----------------------------------------------------------------------------
(* The distances that are printed (NumaTopology). *)

\* One sequence of all the elements of the sequences of a sequence.
LEMMA FlattenTyped ==
    ASSUME NEW E, NEW seqs \in Seq(Seq(E))
    PROVE  FlattenSeq(seqs) \in Seq(E)
<1>. DEFINE N == Len(seqs)
            Body(i, w) == IF i = 1 THEN seqs[i] ELSE w \o seqs[i]
            g == CHOOSE g : g = [i \in 1..N |-> Body(i, g[i - 1])]
            V == Seq(E)
            G == [q \in (0..N) \X V |-> IF q[1] = 0 THEN <<>> ELSE q[2] \o seqs[q[1]]]
            T == {k \in Nat : k \in 1..N => g[k] \in V}
<1>1. N \in Nat /\ DOMAIN seqs = 1..N /\ \A i \in 1..N : seqs[i] \in V
  OBVIOUS
<1>2. CASE N = 0
  <2>1. seqs = <<>>
    BY <1>2
  <2>. QED
    BY <1>2, <2>1 DEF FlattenSeq
<1>3. CASE N # 0
  <2>1. FlattenSeq(seqs) = g[N]
    BY <1>3 DEF FlattenSeq
  <2>2. G \in [(0..N) \X V -> V] /\ <<>> \in V
    <3>1. \A q \in (0..N) \X V : q[1] \in 0..N /\ q[2] \in V
      OBVIOUS
    <3>2. \A q \in (0..N) \X V : (IF q[1] = 0 THEN <<>> ELSE q[2] \o seqs[q[1]]) \in V
      BY <1>1, <3>1
    <3>. QED
      BY <3>2
  <2>3. \A i \in 0..N : \A w \in V : G[<<i, w>>] = IF i = 0 THEN <<>> ELSE w \o seqs[i]
    OBVIOUS
  <2>. HIDE DEF N, V, G
  <2>4. PICK f \in [0..N -> V] : UsesBefore(f, N, <<>>, G)
    BY <1>1, <2>2, RecursionOnNumbers
  <2>. DEFINE h == [i \in 1..N |-> f[i]]
  <2>5. ASSUME NEW i \in 1..N PROVE h[i] = Body(i, h[i - 1])
    <3>1. i \in 0..N /\ i - 1 \in 0..N /\ i # 0
      BY <1>1
    <3>2. f[i - 1] \in V /\ f[i] = G[<<i, f[i - 1]>>]
      BY <2>4, <3>1 DEF UsesBefore
    <3>3. f[i] = f[i - 1] \o seqs[i]
      BY <2>3, <3>1, <3>2
    <3>4. CASE i = 1
      <4>1. f[0] = <<>>
        <5>1. 0 \in 0..N /\ f[0] = G[<<0, <<>>>>]
          BY <1>1, <2>4 DEF UsesBefore
        <5>. QED
          BY <2>2, <2>3, <5>1
      <4>2. seqs[1] \in Seq(E)
        BY <1>1, <1>3 DEF V
      <4>3. i - 1 = 0
        BY <3>4
      <4>4. f[i - 1] = <<>> /\ seqs[i] = seqs[1]
        BY <3>4, <4>1, <4>3
      <4>5. f[i] = seqs[i]
        BY <3>3, <4>2, <4>4
      <4>. QED
        BY <3>4, <4>5
    <3>5. CASE i # 1
      <4>1. i - 1 \in 1..N
        BY <1>1, <3>5
      <4>. QED
        BY <3>3, <3>5, <4>1
    <3>. QED
      BY <3>4, <3>5
  <2>6. h = [i \in 1..N |-> Body(i, h[i - 1])]
    <3>. HIDE DEF Body
    <3>1. h = [i \in 1..N |-> h[i]]
      OBVIOUS
    <3>. HIDE DEF h
    <3>. QED
      BY <2>5, <3>1
  <2>7. g = [i \in 1..N |-> Body(i, g[i - 1])]
    <3>. HIDE DEF Body, h
    <3>. QED
      BY <2>6
  <2>8. \A i \in 1..N : g[i] = Body(i, g[i - 1])
    <3>. HIDE DEF Body, g
    <3>. QED
      BY <2>7
  <2>. HIDE DEF g
  <2>9. T = Nat
    <3>1. 0 \in T /\ T \in SUBSET Nat
      BY <1>1
    <3>2. ASSUME NEW k \in T PROVE k + 1 \in T
      <4>. SUFFICES ASSUME k + 1 \in 1..N PROVE g[k + 1] \in V
        OBVIOUS
      <4>1. k \in Nat /\ (k \in 1..N => g[k] \in V) /\ (k + 1) - 1 = k
        OBVIOUS
      <4>2. g[k + 1] = Body(k + 1, g[k]) /\ seqs[k + 1] \in V
        BY <1>1, <2>8, <4>1
      <4>3. CASE k = 0
        BY <4>2, <4>3
      <4>4. CASE k # 0
        <5>1. k \in 1..N /\ k + 1 # 1
          BY <1>1, <4>1, <4>4
        <5>2. g[k] \in V /\ g[k + 1] = g[k] \o seqs[k + 1]
          BY <4>1, <4>2, <5>1
        <5>. QED
          BY <4>2, <5>2 DEF V
      <4>. QED
        BY <4>3, <4>4
    <3>. HIDE DEF T
    <3>. QED
      BY <3>1, <3>2, AllNumbers
  <2>10. N \in 1..N /\ N \in T
    BY <1>1, <1>3, <2>9
  <2>. QED
    BY <2>1, <2>10 DEF V
<1>. QED
  BY <1>2, <1>3

\* The matrix that numactl prints.
MatrixRead(matrix) == matrix \in Seq([id : Int, distances : Seq(Int)])

Both(d) == \A pair \in DOMAIN d : <<pair[2], pair[1]>> \in DOMAIN d /\ d[pair] = d[<<pair[2], pair[1]>>]
Dictionaries == {d \in UNION {[D -> Int] : D \in SUBSET (Int \X Int)} : Both(d)}
Entries3 == Int \X Int \X Int

Ways(e) == {<<e[1], e[2]>>, <<e[2], e[1]>>}
Entered(d, e) == [pair \in DOMAIN d \cup Ways(e) |-> IF pair \in Ways(e) THEN e[3] ELSE d[pair]]

LEMMA EnteredBoth ==
    ASSUME NEW d \in Dictionaries, NEW e \in Entries3
    PROVE  Entered(d, e) \in Dictionaries
<1>. DEFINE k == Entered(d, e)
<1>1. /\ DOMAIN d \in SUBSET (Int \X Int) /\ \A pair \in DOMAIN d : d[pair] \in Int
      /\ \A pair \in DOMAIN d : <<pair[2], pair[1]>> \in DOMAIN d /\ d[pair] = d[<<pair[2], pair[1]>>]
  BY DEF Dictionaries, Both
<1>2. e[1] \in Int /\ e[2] \in Int /\ e[3] \in Int
  BY DEF Entries3
<1>3. Ways(e) \in SUBSET (Int \X Int)
  BY <1>2 DEF Ways
<1>4. \A pair \in Int \X Int : pair \in Ways(e) <=> <<pair[2], pair[1]>> \in Ways(e)
  BY <1>2 DEF Ways
<1>5. /\ DOMAIN k = DOMAIN d \cup Ways(e)
      /\ k = [pair \in DOMAIN k |-> k[pair]]
      /\ \A pair \in DOMAIN k : k[pair] = IF pair \in Ways(e) THEN e[3] ELSE d[pair]
  BY DEF Entered
<1>. HIDE DEF k
<1>6. DOMAIN k \in SUBSET (Int \X Int) /\ \A pair \in DOMAIN k : k[pair] \in Int
  BY <1>1, <1>2, <1>3, <1>5
<1>7. k \in UNION {[D -> Int] : D \in SUBSET (Int \X Int)}
  <2>1. k \in [DOMAIN k -> Int]
    BY <1>5, <1>6
  <2>. QED
    BY <1>6, <2>1
<1>8. ASSUME NEW pair \in DOMAIN k
      PROVE  <<pair[2], pair[1]>> \in DOMAIN k /\ k[pair] = k[<<pair[2], pair[1]>>]
  <2>1. pair \in Int \X Int
    BY <1>6
  <2>2. CASE pair \in Ways(e)
    BY <1>4, <1>5, <2>1, <2>2
  <2>3. CASE pair \notin Ways(e)
    BY <1>1, <1>4, <1>5, <2>1, <2>3
  <2>. QED
    BY <2>2, <2>3
<1>. QED
  BY <1>7, <1>8 DEF Dictionaries, Both, k

LEMMA NothingBoth == <<>> \in Dictionaries
<1>1. <<>> \in [{} -> Int] /\ DOMAIN <<>> = {}
  OBVIOUS
<1>2. {} \in SUBSET (Int \X Int)
  OBVIOUS
<1>. QED
  BY <1>1, <1>2 DEF Dictionaries, Both

LEMMA AllEnteredBoth ==
    ASSUME NEW seq \in Seq(Entries3)
    PROVE  FoldLeft(Entered, <<>>, seq) \in Dictionaries
<1>. DEFINE S == DOMAIN seq
            step(g) == [s \in SUBSET S |-> IF s = {} THEN <<>> ELSE Entered(g[s \ {Max(s)}], seq[Max(s)])]
            iter == CHOOSE g : g = step(g)
            c == Topmost(S)
            V == Dictionaries
            G == [p \in S \X V |-> Entered(p[2], seq[p[1]])]
<1>1. FoldLeft(Entered, <<>>, seq) = iter[S]
  BY DEF FoldLeft, MapThenFoldSet
<1>2. S \in SUBSET Int /\ IsFiniteSet(S) /\ \A i \in S : seq[i] \in Entries3
  <2>1. S = 1..Len(seq) /\ Len(seq) \in Nat
    OBVIOUS
  <2>. QED
    BY <2>1, FS_Interval
<1>3. /\ Picks(c, S)
      /\ \A s \in SUBSET S : s # {} => c[s] = Max(s) /\ Max(s) \in s
  <2>. HIDE DEF S
  <2>. QED
    BY <1>2, GreatestTaken
<1>. HIDE DEF c, S, V
<1>4. iter = step(iter)
  <2>1. G \in [S \X V -> V] /\ <<>> \in V
    <3>1. \A p \in S \X V : p[1] \in S /\ p[2] \in V
      OBVIOUS
    <3>2. \A p \in S \X V : Entered(p[2], seq[p[1]]) \in V
      BY <1>2, <3>1, EnteredBoth DEF V
    <3>. QED
      BY <3>2, NothingBoth DEF V
  <2>2. \A p \in S \X V : G[p] = Entered(p[2], seq[p[1]])
    OBVIOUS
  <2>. HIDE DEF G
  <2>3. PICK g \in [SUBSET S -> V] : Folds(g, S, c, <<>>, G)
    BY <1>2, <1>3, <2>1, FoldExists
  <2>4. g = step(g)
    <3>1. ASSUME NEW s \in SUBSET S PROVE g[s] = step(g)[s]
      <4>1. CASE s = {}
        BY <2>3, <4>1 DEF Folds
      <4>2. CASE s # {}
        <5>1. c[s] = Max(s) /\ <<c[s], g[s \ {c[s]}]>> \in S \X V
          BY <1>3, <4>2
        <5>2. g[s] = G[<<c[s], g[s \ {c[s]}]>>]
          BY <2>3, <4>2 DEF Folds
        <5>3. g[s] = Entered(g[s \ {Max(s)}], seq[Max(s)])
          BY <2>2, <5>1, <5>2
        <5>. QED
          BY <4>2, <5>3
      <4>. QED
        BY <4>1, <4>2
    <3>2. step(g) = [s \in SUBSET S |-> step(g)[s]]
      OBVIOUS
    <3>3. g = [s \in SUBSET S |-> g[s]]
      OBVIOUS
    <3>. HIDE DEF step
    <3>. QED
      BY <3>1, <3>2, <3>3
  <2>. HIDE DEF step
  <2>. QED
    BY <2>4
<1>5. \A s \in SUBSET S : iter[s] = IF s = {} THEN <<>> ELSE Entered(iter[s \ {Max(s)}], seq[Max(s)])
  <2>1. \A s \in SUBSET S : iter[s] = step(iter)[s]
    <3>. HIDE DEF iter, step
    <3>. QED
      BY <1>4
  <2>. HIDE DEF iter
  <2>. QED
    BY <2>1
<1>. HIDE DEF iter
<1>. DEFINE P == {s \in SUBSET S : iter[s] \in V}
<1>6. {} \in P
  BY <1>5, NothingBoth DEF V
<1>7. ASSUME NEW s \in SUBSET S, s # {}, s \ {c[s]} \in P PROVE s \in P
  <2>1. c[s] = Max(s) /\ Max(s) \in s
    BY <1>3, <1>7
  <2>2. iter[s \ {Max(s)}] \in V
    BY <1>7, <2>1
  <2>3. Entered(iter[s \ {Max(s)}], seq[Max(s)]) \in V
    BY <1>2, <2>1, <2>2, EnteredBoth DEF V
  <2>. QED
    BY <1>5, <1>7, <2>3
<1>8. S \in P
  <2>1. Grows(P, c, S)
    BY <1>7 DEF Grows
  <2>. HIDE DEF P
  <2>. QED
    BY <1>2, <1>3, <1>6, <2>1, AllSubsets
<1>. QED
  BY <1>1, <1>8 DEF V

\* Whatever matrix is printed, square or not (ParseDistances).
THEOREM DistancesAreSymmetric ==
    ASSUME NEW matrix, MatrixRead(matrix)
    PROVE  DistancesSymmetric(matrix)
<1>. DEFINE entries(row) == [i \in DOMAIN row.distances |-> <<row.id, i - 1, row.distances[i]>>]
            seqs == [r \in DOMAIN matrix |-> entries(matrix[r])]
            seq == FlattenSeq(seqs)
<1>1. ParseDistances(matrix) = FoldLeft(Entered, <<>>, seq)
  BY DEF ParseDistances, Entered, Ways
<1>2. seqs \in Seq(Seq(Entries3))
  <2>1. /\ DOMAIN matrix = 1..Len(matrix) /\ Len(matrix) \in Nat
        /\ \A r \in DOMAIN matrix : matrix[r] \in [id : Int, distances : Seq(Int)]
    <3>. DEFINE R == [id : Int, distances : Seq(Int)]
    <3>1. matrix \in Seq(R)
      BY DEF MatrixRead
    <3>. HIDE DEF R
    <3>2. DOMAIN matrix = 1..Len(matrix) /\ Len(matrix) \in Nat /\ \A r \in DOMAIN matrix : matrix[r] \in R
      BY <3>1
    <3>. QED
      BY <3>2 DEF R
  <2>2. ASSUME NEW r \in DOMAIN matrix PROVE entries(matrix[r]) \in Seq(Entries3)
    <3>1. /\ matrix[r].id \in Int /\ matrix[r].distances \in Seq(Int)
      BY <2>1
    <3>. DEFINE x == matrix[r].distances
    <3>2. DOMAIN x = 1..Len(x) /\ Len(x) \in Nat /\ \A i \in DOMAIN x : x[i] \in Int
      BY <3>1
    <3>3. \A i \in 1..Len(x) : <<matrix[r].id, i - 1, x[i]>> \in Entries3
      BY <3>1, <3>2 DEF Entries3
    <3>. HIDE DEF x
    <3>4. [i \in DOMAIN x |-> <<matrix[r].id, i - 1, x[i]>>] \in Seq(Entries3)
      BY <3>2, <3>3
    <3>. QED
      BY <3>4 DEF x
  <2>. HIDE DEF entries
  <2>. QED
    BY <2>1, <2>2
<1>. HIDE DEF seqs
<1>3. seq \in Seq(Entries3)
  BY <1>2, FlattenTyped
<1>. HIDE DEF seq
<1>4. ParseDistances(matrix) \in Dictionaries
  BY <1>1, <1>3, AllEnteredBoth
<1>. QED
  BY <1>4 DEF DistancesSymmetric, Dictionaries, Both
=============================================================================
