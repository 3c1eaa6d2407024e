------------------------- MODULE GraphCollectionProofs -------------------------
(***************************************************************************)
(* For every set of subcollectors, whatever they answer and whatever the    *)
(* call: an entity is expanded at most once, only if it is reachable, and   *)
(* unless the collection is cut short or fails, all that is reachable is;    *)
(* and every report about an edge is merged into it once.                   *)
(***************************************************************************)
EXTENDS GraphCollection, SumLaws, TLAPS

LEMMA NoElements == Elements(<<>>) = {}
BY DEF Elements

LEMMA OneElement == ASSUME NEW x PROVE Elements(<<x>>) = {x}
BY DEF Elements

LEMMA ElementsOfAppend == ASSUME NEW S, NEW s \in Seq(S), NEW x \in S
                          PROVE  Elements(Append(s, x)) = Elements(s) \cup {x}
<1>1. Len(Append(s, x)) = Len(s) + 1 /\ Len(s) \in Nat
  OBVIOUS
<1>2. \A i \in 1 .. Len(s) : Append(s, x)[i] = s[i]
  OBVIOUS
<1>3. Append(s, x)[Len(s) + 1] = x
  OBVIOUS
<1>. QED  BY <1>1, <1>2, <1>3 DEF Elements

LEMMA ElementsOfTail == ASSUME NEW S, NEW s \in Seq(S), s # <<>>
                        PROVE  /\ Head(s) \in S
                               /\ Tail(s) \in Seq(S)
                               /\ Elements(s) = {Head(s)} \cup Elements(Tail(s))
<1>1. Len(s) \in Nat /\ Len(s) > 0 /\ Len(Tail(s)) = Len(s) - 1 /\ Head(s) = s[1]
  OBVIOUS
<1>2. \A i \in 1 .. Len(Tail(s)) : Tail(s)[i] = s[i + 1]
  OBVIOUS
<1>3. \A i \in 2 .. Len(s) : i - 1 \in 1 .. Len(Tail(s)) /\ s[i] = Tail(s)[i - 1]
  BY <1>1, <1>2
<1>4. Elements(s) \subseteq {Head(s)} \cup Elements(Tail(s))
  BY <1>1, <1>3 DEF Elements
<1>5. {Head(s)} \cup Elements(Tail(s)) \subseteq Elements(s)
  BY <1>1, <1>2 DEF Elements
<1>. QED  BY <1>1, <1>4, <1>5

LEMMA ElementsOfConcat == ASSUME NEW S, NEW s \in Seq(S), NEW t \in Seq(S)
                          PROVE  Elements(s \o t) = Elements(s) \cup Elements(t)
<1>1. Len(s \o t) = Len(s) + Len(t) /\ Len(s) \in Nat /\ Len(t) \in Nat
  OBVIOUS
<1>2. \A i \in 1 .. Len(s) : (s \o t)[i] = s[i]
  OBVIOUS
<1>3. \A i \in 1 .. Len(t) : (s \o t)[i + Len(s)] = t[i]
  OBVIOUS
<1>4. Elements(s \o t) \subseteq Elements(s) \cup Elements(t)
  <2>. SUFFICES ASSUME NEW i \in 1 .. Len(s \o t)
                PROVE  (s \o t)[i] \in Elements(s) \cup Elements(t)
    BY DEF Elements
  <2>1. CASE i <= Len(s)
    BY <2>1, <1>1, <1>2 DEF Elements
  <2>2. CASE i > Len(s)
    <3>1. i - Len(s) \in 1 .. Len(t) /\ i = (i - Len(s)) + Len(s)
      BY <2>2, <1>1
    <3>. QED  BY <3>1, <1>3 DEF Elements
  <2>. QED  BY <2>1, <2>2, <1>1
<1>5. Elements(s) \subseteq Elements(s \o t)
  BY <1>1, <1>2 DEF Elements
<1>6. Elements(t) \subseteq Elements(s \o t)
  <2>. SUFFICES ASSUME NEW i \in 1 .. Len(t)
                PROVE  t[i] \in Elements(s \o t)
    BY DEF Elements
  <2>1. i + Len(s) \in 1 .. Len(s \o t)
    BY <1>1
  <2>. QED  BY <1>3, <2>1 DEF Elements
<1>. QED  BY <1>4, <1>5, <1>6

-----------------------------------------------------------------------------
\* All that the collection knows to be there: the seed graph and the answers.
Known == Elements(call.nodes) \cup UNION {Near(m) : m \in Elements(visited)}

\* The ignore set is what the caller gave and what has been expanded.
IgnoreIsVisited == ignore_entity_ids = call.ignore_entities \cup Elements(visited)

\* The entity being expanded has been visited, and its neighbours are gone
\* through before the next one is taken.
Expanding == /\ phase = "ask" => current \in Elements(visited)
             /\ phase \in {"next", "done"} => neighbors = <<>>

\* Nobody has answered about what is not visited or not yet asked about.
Unanswered == \A n \in Entities, c \in Collectors :
                 \/ n \notin Elements(visited)
                 \/ phase = "ask" /\ n = current /\ c \in to_ask
                 => replies[n][c] = Nothing

\* What is known is expanded, ignored or waiting, and only the known waits.
Frontier == Known \subseteq ignore_entity_ids \cup Elements(queue) \cup Elements(neighbors)
Justified == Elements(queue) \cup Elements(neighbors) \subseteq Known

\* A finished collection has emptied its queue or spent its iterations.
Stopped == phase = "done" => queue = <<>> \/ Len(visited) >= call.max_iterations

Books == TypeOK /\ IgnoreIsVisited /\ Expanding /\ Unanswered
Waiting == Frontier /\ Justified /\ Stopped
IInv == Books /\ Waiting /\ VisitedOnce /\ Reached

-----------------------------------------------------------------------------
(* Every step keeps the inductive invariant: one lemma per action.          *)

LEMMA CallIsTyped == ASSUME call \in Calls
                     PROVE  /\ call.nodes \in Seq(Entities)
                            /\ call.ignore_entities \subseteq Entities
                            /\ call.max_iterations \in Nat
BY CollectionAssumption

LEMMA NothingIsReply == Nothing \in Replies /\ Elements(Nothing.near) = {}
BY NoElements DEF Nothing, Replies, NoLinks

\* An entity nobody has answered about has no neighbours yet.
LEMMA NothingNear == ASSUME NEW n, \A c \in Collectors : replies[n][c] = Nothing
                     PROVE  Near(n) = {}
BY NothingIsReply DEF Near

LEMMA InitEstablishes == ASSUME Init PROVE IInv
<1>1. TypeOK
  BY CallIsTyped, CollectionAssumption, NothingIsReply
     DEF Begun, Init, TypeOK, Phases, NoLinks
<1>2. Elements(visited) = {} /\ Elements(neighbors) = {} /\ Known = Elements(call.nodes)
  BY NoElements DEF Begun, Init, Known
<1>3. Books
  BY <1>1, <1>2 DEF Books, IgnoreIsVisited, Expanding, Unanswered, Begun, Init
<1>4. Waiting
  BY <1>2 DEF Waiting, Frontier, Justified, Stopped, Begun, Init
<1>5. VisitedOnce /\ Reached
  BY DEF Begun, Init, VisitedOnce, Reached
<1>. QED  BY <1>3, <1>4, <1>5 DEF IInv

LEMMA SkipKeeps == ASSUME IInv, Skip PROVE IInv'
<1>1. Head(queue) \in Entities /\ queue' \in Seq(Entities)
      /\ Elements(queue) = {Head(queue)} \cup Elements(queue')
  BY ElementsOfTail DEF Skip, CanGoOn, IInv, Books, TypeOK
<1>2. Known' = Known /\ \A n : Near(n)' = Near(n)
  BY DEF Skip, Known, Near, Elements
<1>3. Books'
  BY <1>1 DEF Skip, CanGoOn, IInv, Books, TypeOK, IgnoreIsVisited, Expanding, Unanswered,
              Elements
<1>4. Waiting'
  BY <1>1, <1>2 DEF Skip, CanGoOn, IInv, Waiting, Frontier, Justified, Stopped, Elements
<1>5. VisitedOnce' /\ Reached'
  BY <1>2 DEF Skip, IInv, VisitedOnce, Reached, Elements
<1>. QED  BY <1>3, <1>4, <1>5 DEF IInv

LEMMA VisitKeeps == ASSUME IInv, Visit PROVE IInv'
<1>. DEFINE x == Head(queue)
<1>1. x \in Entities /\ queue' \in Seq(Entities)
      /\ Elements(queue) = {x} \cup Elements(queue')
  BY ElementsOfTail DEF Visit, VisitQueued, CanGoOn, IInv, Books, TypeOK
<1>2. x \notin ignore_entity_ids /\ x \notin Elements(visited)
  BY DEF Visit, IInv, Books, IgnoreIsVisited
<1>3. Elements(visited') = Elements(visited) \cup {x}
  BY <1>1, ElementsOfAppend DEF Visit, VisitQueued, IInv, Books, TypeOK
<1>4. /\ visited \in Seq(Entities) /\ Len(visited) \in Nat
      /\ Len(visited') = Len(visited) + 1 /\ visited'[Len(visited')] = x
      /\ \A i \in 1 .. Len(visited) : visited'[i] = visited[i]
  BY <1>1 DEF Visit, VisitQueued, IInv, Books, TypeOK
<1>5. \A n : Near(n)' = Near(n)
  BY DEF Visit, VisitQueued, Near, Elements
<1>6. Near(x) = {}
  BY <1>1, <1>2, NothingNear DEF IInv, Books, Unanswered
<1>7. Known' = Known
  BY <1>3, <1>5, <1>6 DEF Known, Visit, VisitQueued, Elements
<1>8. neighbors = <<>> /\ neighbors' = <<>>
  BY DEF Visit, VisitQueued, CanGoOn, IInv, Books, Expanding
<1>9. Books'
  <2>1. TypeOK'
    <3>1. to_ask' \subseteq Collectors
      BY DEF Visit, VisitQueued, AskedFor
    <3>2. visited' \in Seq(Entities)
      BY <1>1 DEF Visit, VisitQueued, IInv, Books, TypeOK
    <3>. QED  BY <1>1, <3>1, <3>2 DEF Visit, VisitQueued, IInv, Books, TypeOK, Phases
  <2>2. IgnoreIsVisited'
    BY <1>3 DEF Visit, VisitQueued, IInv, Books, IgnoreIsVisited
  <2>3. Expanding'
    BY <1>3 DEF Visit, VisitQueued, Expanding
  <2>4. Unanswered'
    BY <1>2, <1>3 DEF Visit, VisitQueued, IInv, Books, Unanswered
  <2>. QED  BY <2>1, <2>2, <2>3, <2>4 DEF Books
<1>10. Waiting'
  BY <1>1, <1>7, <1>8 DEF Visit, VisitQueued, IInv, Waiting, Frontier, Justified, Stopped
<1>11. VisitedOnce'
  BY <1>2, <1>4 DEF IInv, VisitedOnce, Elements
<1>12. Reached'
  <2>. SUFFICES ASSUME NEW i \in 1 .. Len(visited')
                PROVE  \/ visited'[i] \in Elements(call.nodes)
                       \/ \E j \in 1 .. (i - 1) : visited'[i] \in Near(visited'[j])
    BY <1>5 DEF Reached, Visit, VisitQueued, Elements
  <2>1. CASE i <= Len(visited)
    BY <2>1, <1>4 DEF IInv, Reached
  <2>2. CASE i = Len(visited) + 1
    <3>1. x \in Known
      BY <1>1 DEF IInv, Waiting, Justified
    <3>. QED  BY <2>2, <3>1, <1>4 DEF Known, Elements
  <2>. QED  BY <2>1, <2>2, <1>4
<1>. QED  BY <1>9, <1>10, <1>11, <1>12 DEF IInv

LEMMA AskKeeps == ASSUME IInv, Ask PROVE IInv'
<1>1. PICK c \in to_ask : /\ to_ask' = to_ask \ {c}
                          /\ \E reply \in Answers[c][current] \cup {Nothing} :
                               /\ neighbors' = neighbors \o reply.near
                               /\ new_edges' = [e \in Edges |-> new_edges[e] + reply.links[e]]
                               /\ replies' = [replies EXCEPT ![current][c] = reply]
  BY DEF Ask
<1>2. PICK reply \in Answers[c][current] \cup {Nothing} :
                               /\ neighbors' = neighbors \o reply.near
                               /\ new_edges' = [e \in Edges |-> new_edges[e] + reply.links[e]]
                               /\ replies' = [replies EXCEPT ![current][c] = reply]
  BY <1>1
<1>3. c \in Collectors /\ current \in Entities /\ current \in Elements(visited)
  BY DEF Ask, IInv, Books, TypeOK, Expanding
<1>4. reply \in Replies
  BY <1>2, <1>3, CollectionAssumption, NothingIsReply
<1>5. reply.near \in Seq(Entities) /\ reply.links \in [Edges -> Nat]
  BY <1>4 DEF Replies
<1>6. replies[current][c] = Nothing
  BY <1>1, <1>3 DEF Ask, IInv, Books, Unanswered
<1>7. Elements(neighbors') = Elements(neighbors) \cup Elements(reply.near)
  BY <1>2, <1>5, ElementsOfConcat DEF IInv, Books, TypeOK
<1>8. /\ \A n \in Entities \ {current} : replies'[n] = replies[n]
      /\ \A d \in Collectors \ {c} : replies'[current][d] = replies[current][d]
      /\ replies'[current][c] = reply
      /\ replies' \in [Entities -> [Collectors -> Replies]]
  BY <1>2, <1>3, <1>4 DEF IInv, Books, TypeOK
<1>. DEFINE After(n) == UNION {Elements(replies'[n][d].near) : d \in Collectors}
<1>9. After(current) = Near(current) \cup Elements(reply.near)
  <2>1. Elements(replies[current][c].near) = {}
    BY <1>6, NothingIsReply
  <2>2. \A d \in Collectors \ {c} : Elements(replies'[current][d].near)
                                    = Elements(replies[current][d].near)
    BY <1>8
  <2>3. Elements(replies'[current][c].near) = Elements(reply.near)
    BY <1>8
  <2>. QED  BY <1>3, <2>1, <2>2, <2>3 DEF Near
<1>10. \A n \in Entities \ {current} : After(n) = Near(n)
  BY <1>8 DEF Near
<1>11. Elements(visited) \subseteq Entities
  BY DEF Elements, IInv, Books, TypeOK
<1>12. Known' = Known \cup Elements(reply.near)
  <2>1. Known' = Elements(call.nodes) \cup UNION {After(n) : n \in Elements(visited)}
    BY DEF Known, Near, Ask, Elements
  <2>. HIDE DEF After
  <2>. QED  BY <2>1, <1>3, <1>9, <1>10, <1>11 DEF Known
<1>13. Books'
  <2>1. TypeOK'
    <3>1. neighbors' \in Seq(Entities)
      BY <1>2, <1>5 DEF IInv, Books, TypeOK
    <3>2. new_edges' \in [Edges -> Nat]
      BY <1>2, <1>5 DEF IInv, Books, TypeOK
    <3>. QED  BY <1>1, <1>8, <3>1, <3>2 DEF Ask, IInv, Books, TypeOK
  <2>2. IgnoreIsVisited' /\ Expanding'
    BY DEF Ask, IInv, Books, IgnoreIsVisited, Expanding, Elements
  <2>3. Unanswered'
    BY <1>1, <1>3, <1>8 DEF Ask, IInv, Books, Unanswered, Elements
  <2>. QED  BY <2>1, <2>2, <2>3 DEF Books
<1>14. Waiting'
  BY <1>7, <1>12 DEF Ask, IInv, Waiting, Frontier, Justified, Stopped
<1>15. VisitedOnce'
  BY DEF Ask, IInv, VisitedOnce
<1>16. Reached'
  <2>1. \A n \in Entities : Near(n) \subseteq After(n)
    <3>. HIDE DEF After
    <3>. QED  BY <1>9, <1>10
  <2>2. \A i \in 1 .. Len(visited) : visited[i] \in Entities
    BY DEF IInv, Books, TypeOK
  <2>3. visited' = visited /\ call' = call /\ Len(visited) \in Nat
    BY DEF Ask, IInv, Books, TypeOK
  <2>. SUFFICES ASSUME NEW i \in 1 .. Len(visited)
                PROVE  \/ visited[i] \in Elements(call.nodes)
                       \/ \E j \in 1 .. (i - 1) : visited[i] \in After(visited[j])
    BY <2>3 DEF Reached, Elements, Near
  <2>. HIDE DEF After
  <2>. QED  BY <2>1, <2>2, <2>3 DEF IInv, Reached
<1>. QED  BY <1>13, <1>14, <1>15, <1>16 DEF IInv

LEMMA AskRaisesKeeps == ASSUME IInv, AskRaises PROVE IInv'
<1>1. Known' = Known /\ \A n : Near(n)' = Near(n)
  BY DEF AskRaises, Known, Near, Elements
<1>2. Books'
  BY DEF AskRaises, IInv, Books, TypeOK, Phases, IgnoreIsVisited, Expanding, Unanswered,
         Elements
<1>3. Waiting'
  BY <1>1 DEF AskRaises, IInv, Waiting, Frontier, Justified, Stopped, Elements
<1>4. VisitedOnce' /\ Reached'
  BY <1>1 DEF AskRaises, IInv, VisitedOnce, Reached, Elements
<1>. QED  BY <1>2, <1>3, <1>4 DEF IInv

LEMMA EnqueueKeeps == ASSUME IInv, Enqueue PROVE IInv'
<1>. DEFINE x == Head(neighbors)
<1>1. x \in Entities /\ neighbors' \in Seq(Entities)
      /\ Elements(neighbors) = {x} \cup Elements(neighbors')
  BY ElementsOfTail DEF Enqueue, Looked, IInv, Books, TypeOK
<1>2. /\ Unseen(neighbors) \in Seq(Entities)
      /\ Elements(Unseen(neighbors)) = {x} \ ignore_entity_ids
  BY <1>1, NoElements, OneElement DEF Unseen
<1>3. /\ queue' \in Seq(Entities)
      /\ Elements(queue') = Elements(queue) \cup ({x} \ ignore_entity_ids)
  BY <1>2, ElementsOfConcat DEF Enqueue, IInv, Books, TypeOK
<1>4. Known' = Known /\ \A n : Near(n)' = Near(n)
  BY DEF Enqueue, Looked, Known, Near, Elements
<1>5. Books'
  BY <1>1, <1>3 DEF Enqueue, Looked, Answered, IInv, Books, TypeOK, IgnoreIsVisited,
                    Expanding, Unanswered, Elements
<1>6. Waiting'
  BY <1>1, <1>3, <1>4 DEF Enqueue, Looked, Answered, IInv, Waiting, Frontier, Justified,
                          Stopped
<1>7. VisitedOnce' /\ Reached'
  BY <1>4 DEF Enqueue, Looked, IInv, VisitedOnce, Reached, Elements
<1>. QED  BY <1>5, <1>6, <1>7 DEF IInv

LEMMA MergeEdgesKeeps == ASSUME IInv, MergeEdges PROVE IInv'
<1>1. Known' = Known /\ \A n : Near(n)' = Near(n)
  BY DEF MergeEdges, Merging, Known, Near, Elements
<1>2. weight' \in [Edges -> Nat] /\ new_edges' \in [Edges -> Nat]
  BY DEF MergeEdges, Merging, NoLinks, IInv, Books, TypeOK
<1>3. Books'
  BY <1>2 DEF MergeEdges, Merging, Answered, IInv, Books, TypeOK, Phases, IgnoreIsVisited,
              Expanding, Unanswered, Elements
<1>4. Waiting'
  BY <1>1 DEF MergeEdges, Merging, IInv, Waiting, Frontier, Justified, Stopped, Elements
<1>5. VisitedOnce' /\ Reached'
  BY <1>1 DEF MergeEdges, Merging, IInv, VisitedOnce, Reached, Elements
<1>. QED  BY <1>3, <1>4, <1>5 DEF IInv

LEMMA FinishKeeps == ASSUME IInv, Finish PROVE IInv'
<1>1. Known' = Known /\ \A n : Near(n)' = Near(n)
  BY DEF Finish, Known, Near, Elements
<1>2. queue = <<>> \/ Len(visited) >= call.max_iterations
  BY CallIsTyped DEF Finish, CanGoOn, IInv, Books, TypeOK
<1>3. Books'
  BY DEF Finish, IInv, Books, TypeOK, Phases, IgnoreIsVisited, Expanding, Unanswered,
         Elements
<1>4. Waiting'
  BY <1>1, <1>2 DEF Finish, IInv, Waiting, Frontier, Justified, Stopped, Elements
<1>5. VisitedOnce' /\ Reached'
  BY <1>1 DEF Finish, IInv, VisitedOnce, Reached, Elements
<1>. QED  BY <1>3, <1>4, <1>5 DEF IInv

LEMMA StutterKeeps == ASSUME IInv, UNCHANGED vars PROVE IInv'
<1>1. Known' = Known /\ \A n : Near(n)' = Near(n)
  BY DEF vars, Known, Near, Elements
<1>2. Books'
  BY DEF vars, IInv, Books, TypeOK, IgnoreIsVisited, Expanding, Unanswered, Elements
<1>3. Waiting'
  BY <1>1 DEF vars, IInv, Waiting, Frontier, Justified, Stopped, Elements
<1>4. VisitedOnce' /\ Reached'
  BY <1>1 DEF vars, IInv, VisitedOnce, Reached, Elements
<1>. QED  BY <1>2, <1>3, <1>4 DEF IInv

LEMMA InductiveStep == IInv /\ [Next]_vars => IInv'
BY SkipKeeps, VisitKeeps, AskKeeps, AskRaisesKeeps, EnqueueKeeps, MergeEdgesKeeps,
   FinishKeeps, StutterKeeps DEF Next

-----------------------------------------------------------------------------
(* The reports about an edge, of replies r about the entities V. *)

ReportsOf(r, V, e) == MapThenSumSet(LAMBDA p : r[p[1]][p[2]].links[e], V \X Collectors)
AllReplies == [Entities -> [Collectors -> Replies]]
LinksTo(r, V, e) == [p \in V \X Collectors |-> r[p[1]][p[2]].links[e]]

\* g is how the reports are summed.
IsReports(g, r, V, e) ==
    /\ SumOf(g, LinksTo(r, V, e), V \X Collectors)
    /\ ReportsOf(r, V, e) = g[V \X Collectors]

LEMMA ReportsAreSums ==
    ASSUME NEW r \in AllReplies, NEW V \in SUBSET Entities, IsFiniteSet(V), NEW e \in Edges
    PROVE  \E g : IsReports(g, r, V, e)
<1>. DEFINE S == V \X Collectors  f == LinksTo(r, V, e)
<1>1. IsFiniteSet(Collectors)
  BY FS_Interval, CollectionAssumption DEF Collectors
<1>2. IsFiniteSet(S)
  BY <1>1, FS_Product
<1>3. ASSUME NEW p \in S PROVE f[p] \in Nat /\ f[p] = r[p[1]][p[2]].links[e]
  <2>1. p[1] \in Entities /\ p[2] \in Collectors
    OBVIOUS
  <2>2. r[p[1]][p[2]] \in Replies
    BY <2>1 DEF AllReplies
  <2>. QED
    BY <2>2 DEF LinksTo, Replies
<1>4. f \in [S -> Nat]
  BY <1>3 DEF LinksTo
<1>. DEFINE step(g) == [s \in SUBSET S |-> IF s = {} THEN 0
               ELSE r[(CHOOSE p \in s : TRUE)[1]][(CHOOSE p \in s : TRUE)[2]].links[e]
                    + g[s \ {CHOOSE p \in s : TRUE}]]
            sum == CHOOSE g : g = step(g)
<1>5. ReportsOf(r, V, e) = sum[S]
  BY DEF ReportsOf, MapThenSumSet, MapThenFoldSet
<1>6. \A s \in SUBSET S : s # {} => /\ Some(s) \in s /\ Some(s) = CHOOSE p \in s : TRUE
                                    /\ f[Some(s)] = r[Some(s)[1]][Some(s)[2]].links[e]
  <2>1. TAKE s \in SUBSET S
  <2>2. s # {} => Some(s) \in s
    BY DEF Some
  <2>. HIDE DEF f, S
  <2>. QED
    BY <1>3, <2>2 DEF Some
<1>7. PICK h \in [SUBSET S -> Nat] : Sums(h, f, S)
  <2>. HIDE DEF S, f
  <2>. QED
    BY <1>2, <1>4, SumExists
<1>8. h = step(h)
  <2>. HIDE DEF f, S
  <2>. QED
    BY <1>6, <1>7 DEF Sums
<1>9. sum = step(sum)
  <2>. HIDE DEF step, S
  <2>. QED
    BY <1>8
<1>10. \A s \in SUBSET S : sum[s] = IF s = {} THEN 0 ELSE f[Some(s)] + sum[s \ {Some(s)}]
  <2>1. TAKE s \in SUBSET S
  <2>2. sum[s] = step(sum)[s]
    <3>. HIDE DEF step, sum
    <3>. QED
      BY <1>9
  <2>. HIDE DEF f, S, sum
  <2>. QED
    BY <1>6, <2>2
<1>11. Sums(sum, f, S)
  <2>. HIDE DEF f, S, sum
  <2>. QED
    BY <1>10 DEF Sums
<1>12. h[S] = sum[S]
  <2>. HIDE DEF f, S, sum
  <2>1. SumOf(h, f, S)
    BY <1>2, <1>4, <1>7 DEF SumOf
  <2>. QED
    BY <1>11, <2>1, SumsAgree
<1>13. ReportsOf(r, V, e) = h[S]
  BY <1>5, <1>12
<1>14. IsReports(h, r, V, e)
  <2>1. S = V \X Collectors /\ f = LinksTo(r, V, e)
    OBVIOUS
  <2>. HIDE DEF f, S, sum
  <2>. QED
    BY <1>2, <1>4, <1>7, <1>13, <2>1 DEF IsReports, SumOf
<1>. QED
  BY <1>14

\* One more entity, of which nothing has been answered.
LEMMA ReportsOfNothing ==
    ASSUME NEW r \in AllReplies, NEW V \in SUBSET Entities, IsFiniteSet(V), NEW e \in Edges,
           NEW n \in Entities, \A c \in Collectors : r[n][c] = Nothing
    PROVE  ReportsOf(r, V \cup {n}, e) = ReportsOf(r, V, e)
<1>. DEFINE W == V \cup {n}  S == V \X Collectors  R == W \X Collectors
            f == LinksTo(r, V, e)  k == LinksTo(r, W, e)
<1>1. W \in SUBSET Entities /\ IsFiniteSet(W)
  BY FS_Singleton, FS_Union
<1>2. PICK g : IsReports(g, r, V, e)
  BY ReportsAreSums
<1>3. PICK h : IsReports(h, r, W, e)
  <2>. HIDE DEF W
  <2>. QED
    BY <1>1, ReportsAreSums
<1>4. SumOf(g, f, S) /\ Sums(g, f, S) /\ ReportsOf(r, V, e) = g[S] /\ g \in [SUBSET S -> Nat]
  BY <1>2 DEF IsReports, SumOf
<1>5. SumOf(h, k, R) /\ Sums(h, k, R) /\ ReportsOf(r, W, e) = h[R]
  BY <1>3 DEF IsReports, SumOf
<1>6. S \subseteq R /\ S \in SUBSET S /\ S \in SUBSET R /\ \A p \in S : f[p] = k[p]
  BY DEF LinksTo
<1>7. \A p \in R \ S : k[p] = 0
  <2>1. TAKE p \in R \ S
  <2>2. p[1] = n /\ p[2] \in Collectors
    OBVIOUS
  <2>3. k[p] = Nothing.links[e]
    BY <2>2 DEF LinksTo
  <2>. QED
    BY <2>3 DEF Nothing, NoLinks
<1>. HIDE DEF f, k, S, R
<1>8. g[S] = h[S]
  BY <1>4, <1>5, <1>6, SumsAgree
<1>9. h[R] = h[S]
  BY <1>5, <1>6, <1>7, SumOfZeroes
<1>. QED
  BY <1>4, <1>5, <1>8, <1>9

\* One more answer.
LEMMA ReportsOfAnswer ==
    ASSUME NEW r \in AllReplies, NEW V \in SUBSET Entities, IsFiniteSet(V), NEW e \in Edges,
           NEW n \in V, NEW c \in Collectors, NEW reply \in Replies, r[n][c] = Nothing
    PROVE  ReportsOf([r EXCEPT ![n][c] = reply], V, e) = ReportsOf(r, V, e) + reply.links[e]
<1>. DEFINE new == [r EXCEPT ![n][c] = reply]  S == V \X Collectors  p == <<n, c>>
            f == LinksTo(r, V, e)  k == LinksTo(new, V, e)  rest == S \ {p}
<1>1. new \in AllReplies
  BY DEF AllReplies
<1>2. PICK g : IsReports(g, r, V, e)
  BY ReportsAreSums
<1>3. PICK h : IsReports(h, new, V, e)
  <2>. HIDE DEF new
  <2>. QED
    BY <1>1, ReportsAreSums
<1>4. SumOf(g, f, S) /\ Sums(g, f, S) /\ ReportsOf(r, V, e) = g[S] /\ g \in [SUBSET S -> Nat]
  BY <1>2 DEF IsReports, SumOf
<1>5. SumOf(h, k, S) /\ Sums(h, k, S) /\ ReportsOf(new, V, e) = h[S]
  BY <1>3 DEF IsReports, SumOf
<1>6. p \in S /\ rest \in SUBSET S
  OBVIOUS
<1>7. \A q \in rest : f[q] = k[q]
  <2>1. TAKE q \in rest
  <2>2. q[1] \in Entities /\ q[2] \in Collectors /\ q = <<q[1], q[2]>> /\ q # <<n, c>>
    OBVIOUS
  <2>3. new[q[1]][q[2]] = r[q[1]][q[2]]
    BY <2>2 DEF AllReplies
  <2>. HIDE DEF new
  <2>. QED
    BY <2>3 DEF LinksTo
<1>8. f[p] = 0
  BY <1>6 DEF LinksTo, Nothing, NoLinks
<1>9. k[p] = reply.links[e] /\ reply.links[e] \in Nat
  <2>1. new[n][c] = reply
    BY DEF AllReplies
  <2>. HIDE DEF new
  <2>. QED
    BY <1>6, <2>1 DEF LinksTo, Replies
<1>. HIDE DEF f, k, S, p, rest, new
<1>10. g[rest] = h[rest]
  BY <1>4, <1>5, <1>6, <1>7, SumsAgree
<1>11. g[S] = f[p] + g[rest] /\ h[S] = k[p] + h[rest]
  <2>1. Lawful(g, f, S) /\ Lawful(h, k, S)
    BY <1>4, <1>5, SumLaw
  <2>2. S \in SUBSET S
    OBVIOUS
  <2>. QED
    BY <1>6, <2>1, <2>2 DEF Lawful, rest
<1>12. g[rest] \in Nat
  BY <1>4, <1>6
<1>13. ReportsOf(new, V, e) = ReportsOf(r, V, e) + reply.links[e]
  BY <1>4, <1>5, <1>8, <1>9, <1>10, <1>11, <1>12
<1>. QED
  BY <1>13 DEF new

LEMMA ReportsOfNobody == ASSUME NEW r \in AllReplies, NEW e \in Edges PROVE ReportsOf(r, {}, e) = 0
<1>1. IsFiniteSet({}) /\ {} \in SUBSET Entities
  BY FS_EmptySet
<1>2. PICK g : IsReports(g, r, {}, e)
  BY <1>1, ReportsAreSums
<1>3. {} \X Collectors = {}
  OBVIOUS
<1>. QED
  BY <1>2, <1>3 DEF IsReports, SumOf, Sums

-----------------------------------------------------------------------------
(* What is merged: of the reports so far, those not in the graph are in      *)
(* new_edges, but for the edges to be ignored.                              *)

Reported(e) == ReportsOf(replies, Elements(visited), e)
Account(e) ==
    IF e \in call.edges THEN weight[e] # 0 /\ weight[e] + new_edges[e] = 1 + Reported(e)
    ELSE IF e \in call.ignore_edges THEN weight[e] = 0
    ELSE weight[e] + new_edges[e] = Reported(e)
Accounts == /\ phase \in {"next", "done"} => new_edges = NoLinks
            /\ \A e \in Edges : Account(e)

LEMMA VisitedFinite == ASSUME TypeOK PROVE Elements(visited) \in SUBSET Entities /\ IsFiniteSet(Elements(visited))
<1>1. visited \in Seq(Entities) /\ Len(visited) \in Nat
  BY DEF TypeOK
<1>2. IsFiniteSet(1 .. Len(visited))
  BY <1>1, FS_Interval
<1>. DEFINE at == [i \in 1 .. Len(visited) |-> visited[i]]
<1>3. at \in Surjection(1 .. Len(visited), Elements(visited))
  BY DEF Elements, Surjection
<1>4. IsFiniteSet(Elements(visited))
  <2>. HIDE DEF at
  <2>. QED
    BY <1>2, <1>3, FS_Surjection
<1>. QED
  BY <1>1, <1>4 DEF Elements

LEMMA WeightsTyped ==
    ASSUME TypeOK, NEW e \in Edges
    PROVE  weight[e] \in Nat /\ new_edges[e] \in Nat /\ replies \in AllReplies
BY DEF TypeOK, AllReplies

LEMMA AccountsInit == ASSUME Init PROVE Accounts
<1>1. TypeOK
  BY InitEstablishes DEF IInv, Books
<1>2. new_edges = NoLinks /\ Elements(visited) = {}
      /\ weight = [e \in Edges |-> IF e \in call.edges THEN 1 ELSE 0]
  BY NoElements DEF Init, Begun
<1>3. ASSUME NEW e \in Edges PROVE Account(e)
  <2>1. Reported(e) = 0
    BY <1>1, <1>2, WeightsTyped, ReportsOfNobody DEF Reported
  <2>2. new_edges[e] = 0 /\ weight[e] = IF e \in call.edges THEN 1 ELSE 0
    BY <1>2 DEF NoLinks
  <2>. QED
    BY <2>1, <2>2 DEF Account
<1>. QED
  BY <1>2, <1>3 DEF Accounts

\* Steps that leave replies and weights alone.
LEMMA AccountsRest ==
    ASSUME Accounts, UNCHANGED <<call, visited, new_edges, weight, replies>>,
           phase' \in {"next", "done"} => phase \in {"next", "done"}
    PROVE  Accounts'
<1>1. \A e : Reported(e)' = Reported(e)
  BY DEF Reported, Elements
<1>2. \A e \in Edges : Account(e)' = Account(e)
  BY <1>1 DEF Account
<1>. QED
  BY <1>2 DEF Accounts

LEMMA VisitAccounts == ASSUME IInv, Accounts, Visit PROVE Accounts'
<1>1. TypeOK /\ TypeOK'
  BY VisitKeeps DEF IInv, Books
<1>. DEFINE x == Head(queue)
<1>2. x \in Entities /\ x \notin Elements(visited)
  BY ElementsOfTail DEF Visit, VisitQueued, CanGoOn, IInv, Books, TypeOK, IgnoreIsVisited
<1>3. Elements(visited') = Elements(visited) \cup {x}
  BY <1>2, ElementsOfAppend DEF Visit, VisitQueued, IInv, Books, TypeOK
<1>4. \A c \in Collectors : replies[x][c] = Nothing
  BY <1>2 DEF IInv, Books, Unanswered
<1>5. call' = call /\ new_edges' = new_edges /\ weight' = weight /\ replies' = replies
      /\ phase' = "ask"
  BY DEF Visit, VisitQueued
<1>6. ASSUME NEW e \in Edges PROVE Reported(e)' = Reported(e)
  <2>1. replies \in AllReplies /\ Elements(visited) \in SUBSET Entities /\ IsFiniteSet(Elements(visited))
    BY <1>1, WeightsTyped, VisitedFinite
  <2>2. ReportsOf(replies, Elements(visited) \cup {x}, e) = ReportsOf(replies, Elements(visited), e)
    <3>. HIDE DEF x
    <3>. QED
      BY <1>2, <1>4, <2>1, ReportsOfNothing
  <2>3. Reported(e)' = ReportsOf(replies', Elements(visited'), e)
    BY DEF Reported, Elements
  <2>. QED
    BY <1>3, <1>5, <2>2, <2>3 DEF Reported
<1>7. \A e \in Edges : Account(e)' = Account(e)
  BY <1>5, <1>6 DEF Account
<1>. QED
  BY <1>5, <1>7 DEF Accounts

LEMMA AskAccounts == ASSUME IInv, Accounts, Ask PROVE Accounts'
<1>1. TypeOK
  BY DEF IInv, Books
<1>0. PICK c \in to_ask : \E reply \in Answers[c][current] \cup {Nothing} :
           /\ new_edges' = [e \in Edges |-> new_edges[e] + reply.links[e]]
           /\ replies' = [replies EXCEPT ![current][c] = reply]
  BY DEF Ask
<1>2. PICK reply \in Answers[c][current] \cup {Nothing} :
           /\ new_edges' = [e \in Edges |-> new_edges[e] + reply.links[e]]
           /\ replies' = [replies EXCEPT ![current][c] = reply]
  BY <1>0
<1>3. c \in Collectors /\ current \in Entities /\ current \in Elements(visited)
  BY DEF Ask, IInv, Books, TypeOK, Expanding
<1>4. reply \in Replies
  BY <1>2, <1>3, CollectionAssumption, NothingIsReply
<1>5. replies[current][c] = Nothing
  BY <1>2, <1>3 DEF Ask, IInv, Books, Unanswered
<1>6. call' = call /\ weight' = weight /\ visited' = visited /\ phase' = phase /\ phase = "ask"
  BY DEF Ask
<1>7. ASSUME NEW e \in Edges PROVE Account(e)'
  <2>1. /\ replies \in AllReplies /\ Elements(visited) \in SUBSET Entities
        /\ IsFiniteSet(Elements(visited)) /\ weight[e] \in Nat /\ new_edges[e] \in Nat
    BY <1>1, WeightsTyped, VisitedFinite
  <2>2. ReportsOf([replies EXCEPT ![current][c] = reply], Elements(visited), e)
          = ReportsOf(replies, Elements(visited), e) + reply.links[e]
    BY <1>3, <1>4, <1>5, <2>1, ReportsOfAnswer
  <2>3. Reported(e)' = ReportsOf(replies', Elements(visited'), e)
    BY DEF Reported, Elements
  <2>4. Reported(e)' = Reported(e) + reply.links[e]
    BY <1>2, <1>6, <2>2, <2>3 DEF Reported
  <2>5. PICK g : IsReports(g, replies, Elements(visited), e)
    BY <2>1, ReportsAreSums
  <2>6. Reported(e) \in Nat
    BY <2>5 DEF IsReports, SumOf, Reported
  <2>7. new_edges'[e] = new_edges[e] + reply.links[e] /\ reply.links[e] \in Nat
    BY <1>2, <1>4 DEF Replies
  <2>8. Account(e)
    BY DEF Accounts
  <2>. QED
    BY <1>6, <2>1, <2>4, <2>6, <2>7, <2>8 DEF Account
<1>. QED
  BY <1>6, <1>7 DEF Accounts

LEMMA MergeAccounts == ASSUME IInv, Accounts, MergeEdges PROVE Accounts'
<1>1. TypeOK
  BY DEF IInv, Books
<1>2. /\ weight' = [e \in Edges |-> IF Ignored(e) THEN 0 ELSE weight[e] + new_edges[e]]
      /\ new_edges' = NoLinks /\ call' = call /\ visited' = visited /\ replies' = replies
  BY DEF MergeEdges, Merging
<1>3. ASSUME NEW e \in Edges PROVE Account(e)'
  <2>1. weight[e] \in Nat /\ new_edges[e] \in Nat
    BY <1>1, WeightsTyped
  <2>2. Reported(e)' = Reported(e)
    BY <1>2 DEF Reported, Elements
  <2>3. new_edges'[e] = 0
    BY <1>2 DEF NoLinks
  <2>4. weight'[e] = IF e \in call.ignore_edges /\ weight[e] = 0 THEN 0 ELSE weight[e] + new_edges[e]
    BY <1>2 DEF Ignored
  <2>5. Account(e)
    BY DEF Accounts
  <2>. QED
    BY <1>2, <2>1, <2>2, <2>3, <2>4, <2>5 DEF Account
<1>. QED
  BY <1>2, <1>3 DEF Accounts

LEMMA AccountsStep == IInv /\ Accounts /\ [Next]_vars => Accounts'
<1>. SUFFICES ASSUME IInv, Accounts, [Next]_vars PROVE Accounts'
  OBVIOUS
<1>1. CASE Skip
  BY <1>1, AccountsRest DEF Skip
<1>2. CASE AskRaises
  BY <1>2, AccountsRest DEF AskRaises
<1>3. CASE Enqueue
  BY <1>3, AccountsRest DEF Enqueue, Looked
<1>4. CASE Finish
  BY <1>4, AccountsRest DEF Finish
<1>5. CASE UNCHANGED vars
  BY <1>5, AccountsRest DEF vars
<1>. QED
  BY <1>1, <1>2, <1>3, <1>4, <1>5, VisitAccounts, AskAccounts, MergeAccounts DEF Next

-----------------------------------------------------------------------------
(* Theorems *)

\* The inductive invariant holds of every collection.
THEOREM Invariance == Spec => []IInv
BY InitEstablishes, InductiveStep, PTL DEF Spec

\* Every variable keeps its type, the queue and the answers included.
THEOREM TypeCorrect == Spec => []TypeOK
<1>1. IInv => TypeOK
  BY DEF IInv, Books
<1>. QED  BY <1>1, Invariance, PTL

\* No entity is expanded twice, however often it is queued (lines 156 to 159).
THEOREM ExpandedOnce == Spec => []VisitedOnce
<1>1. IInv => VisitedOnce
  BY DEF IInv
<1>. QED  BY <1>1, Invariance, PTL

\* Nothing is expanded that does not follow from the seed graph.
THEOREM OnlyReachable == Spec => []Reached
<1>1. IInv => Reached
  BY DEF IInv
<1>. QED  BY <1>1, Invariance, PTL

\* What a finished collection that was not cut short leaves unexpanded, it was
\* told to ignore.
THEOREM AllReachable == Spec => []Complete
<1>1. IInv => Complete
  <2>. SUFFICES ASSUME IInv, phase = "done", Len(visited) < call.max_iterations
                PROVE  Known \subseteq Elements(visited) \cup call.ignore_entities
    BY DEF Complete, Known
  <2>1. queue = <<>> /\ neighbors = <<>>
    BY CallIsTyped DEF IInv, Books, TypeOK, Expanding, Waiting, Stopped
  <2>. QED  BY <2>1, NoElements DEF IInv, Books, IgnoreIsVisited, Waiting, Frontier
<1>. QED  BY <1>1, Invariance, PTL

\* Every edge of the graph has had each report about it merged into it, once,
\* from whichever end and by whichever subcollector it was reported, and the
\* graph has no edge the call ignores (lines 177 to 183).
THEOREM EdgesMergedOnce == Spec => []MergedOnce
<1>1. IInv /\ Accounts => MergedOnce
  <2>. SUFFICES ASSUME IInv, Accounts, phase \in {"next", "done"}, NEW e \in Edges
                PROVE  weight[e] = IF e \in call.edges THEN 1 + Reports(e)
                                   ELSE IF e \in call.ignore_edges THEN 0
                                   ELSE Reports(e)
    BY DEF MergedOnce
  <2>1. Account(e) /\ new_edges[e] = 0
    BY DEF Accounts, NoLinks
  <2>2. Reported(e) = Reports(e)
    BY DEF Reported, Reports, ReportsOf
  <2>3. weight[e] \in Nat
    BY WeightsTyped DEF IInv, Books
  <2>. QED
    BY <2>1, <2>2, <2>3 DEF Account
<1>2. Init => IInv /\ Accounts
  BY InitEstablishes, AccountsInit
<1>3. (IInv /\ Accounts) /\ [Next]_vars => (IInv /\ Accounts)'
  BY AccountsStep, InductiveStep
<1>. QED
  BY <1>1, <1>2, <1>3, PTL DEF Spec
=============================================================================
