---------------------------- MODULE SourceProofs ----------------------------
(***************************************************************************)
(* For any number of threads, arguments, sessions and tables: the calls that *)
(* the eBPF programs count are those that were made, on the objects they     *)
(* were made on; no program of the IPC collector outlives its session, and   *)
(* all it printed and a stop did not throw away comes to the events once; a  *)
(* round of the RDMA collector finds the connections and the queue pairs of  *)
(* what it expands; what the RDMA monitor calls traffic is what a counter    *)
(* has grown; what a die is shown to do is made of its own counters; the    *)
(* sniffers count no row twice and lose none that is recent; and what is     *)
(* computed of any of the inputs is right.                                   *)
(***************************************************************************)
EXTENDS MCSources, SourceSumsProofs, SequenceTheorems

(* The probes. *)

Calling == [at : {"none", "called", "found", "using", "done"}, dir : Directions \cup {Nothing},
            obj : CallObjects \cup {Nothing}, slot : ArgSlots \cup {0},
            kept : BOOLEAN, did : BOOLEAN]

CallsTyped ==
    /\ args \in [ArgSlots -> [thread : CallThreads \cup {NoThread}, obj : CallObjects \cup {Nothing}]]
    /\ call \in [CallThreads -> Calling]
    /\ counted \in [CallKeys -> Nat] /\ made \in [CallKeys -> Nat]
    /\ recycled \in BOOLEAN

\* A thread has one element for its arguments.
OneElement == \A r, s \in ArgSlots :
    args[r].thread = args[s].thread /\ args[r].thread # NoThread => r = s

\* What is known of a call at each point of its life.
CallPlaces == \A t \in CallThreads :
    /\ call[t].at # "none" => call[t].dir \in Directions /\ call[t].obj \in CallObjects
    /\ call[t].at = "found" => call[t].slot \in Own(t)
    /\ call[t].at = "using" => call[t].slot \in ArgSlots

\* The programs whose arguments are always those of the call under way.
Asks == Probes.looks # "enter" \/ enabled = Directions

\* The arguments found are the call's, until the element is given to another.
ArgsAreTheCalls == Asks => \A t \in CallThreads :
    /\ call[t].at = "called" => /\ call[t].kept <=> Own(t) # {}
                                /\ \A s \in Own(t) : args[s].obj = call[t].obj
    /\ call[t].at \in {"found", "using"} => call[t].kept
    /\ call[t].at = "found" \/ (call[t].at = "using" /\ ~recycled) =>
         args[call[t].slot].obj = call[t].obj
    /\ call[t].at = "done" => ~(call[t].did /\ call[t].kept)

\* A thread has arguments only in a call they are kept for, but for those that
\* a call that did nothing may leave behind.
Left == ~Probes.keeps => \A t \in CallThreads :
    Own(t) # {} => call[t].at \in {"called", "found"}

ProbesInv == CallsTyped /\ OneElement /\ CallPlaces /\ ArgsAreTheCalls /\ Left /\ CallsAttributed

LEMMA ProbesInitEstablishes == ASSUME ProbesInit PROVE ProbesInv
<1>. USE DEF ProbesInit
<1>1. CallsTyped
  BY DEF CallsTyped, Calling, NotCalling, CallKeys
<1>2. OneElement /\ CallPlaces /\ CallsAttributed
  BY DEF OneElement, CallPlaces, NotCalling, CallsAttributed
<1>3. \A t \in CallThreads : Own(t) = {}
  BY ProbesAssumption DEF Own
<1>4. ArgsAreTheCalls /\ Left
  BY <1>3 DEF ArgsAreTheCalls, Left, NotCalling
<1>. QED  BY <1>1, <1>2, <1>4 DEF ProbesInv

\* A call places its arguments over those of its thread or in a free element.
LEMMA EnterKeeps == ASSUME ProbesInv, NEW t \in CallThreads, Enter(t) PROVE ProbesInv'
<1>. USE DEF ProbesInv
<1>. DEFINE asked(dir) == Probes.looks # "enter" \/ dir \in enabled
            entering(dir, obj) == [NotCalling EXCEPT !.at = "called", !.dir = dir,
                                    !.obj = obj, !.kept = asked(dir) /\ Own(t) \cup FreeArgs # {}]
<1>1. PICK dir \in Directions, obj \in CallObjects :
        /\ call' = [call EXCEPT ![t] = entering(dir, obj)]
        /\ IF asked(dir) /\ Places(t) # {}
           THEN \E s \in Places(t) :
                  /\ args' = [args EXCEPT ![s] = [thread |-> t, obj |-> obj]]
                  /\ recycled' = (recycled \/ \E u \in CallThreads : call[u].slot = s)
           ELSE UNCHANGED <<args, recycled>>
  BY DEF Enter
<1>2. call[t].at = "none" /\ UNCHANGED <<kind, enabled, counted, made>>
  BY DEF Enter
<1>3. /\ call'[t].at = "called" /\ call'[t].dir = dir /\ call'[t].obj = obj
      /\ call'[t].kept <=> (asked(dir) /\ Own(t) \cup FreeArgs # {})
      /\ call'[t] \in Calling
      /\ \A u \in CallThreads \ {t} : call'[u] = call[u]
  BY <1>1 DEF CallsTyped, NotCalling, Calling
<1>4. Asks' = Asks /\ (Asks => asked(dir)) /\ Probes' = Probes
  BY <1>2 DEF Asks, Probes
<1>5. Places(t) = {} <=> Own(t) \cup FreeArgs = {}
  BY DEF Places
<1>6. CallsAttributed'
  BY <1>1, <1>2, <1>4 DEF CallsAttributed, Probes, CallsTyped
<1>7. CASE asked(dir) /\ Places(t) # {}
  <2>1. PICK s \in Places(t) :
          /\ args' = [args EXCEPT ![s] = [thread |-> t, obj |-> obj]]
          /\ recycled' = (recycled \/ \E u \in CallThreads : call[u].slot = s)
    BY <1>1, <1>7
  <2>2. s \in ArgSlots /\ (args[s].thread = t \/ (args[s].thread = NoThread /\ Own(t) = {}))
    BY DEF Places, Own, FreeArgs
  <2>3. /\ args'[s] = [thread |-> t, obj |-> obj]
        /\ \A r \in ArgSlots \ {s} : args'[r] = args[r] /\ args[r].thread # t
    BY <2>1, <2>2, ProbesAssumption DEF CallsTyped, OneElement, Own
  <2>4. Own(t)' = {s} /\ \A u \in CallThreads \ {t} : Own(u)' = Own(u)
    BY <2>2, <2>3, ProbesAssumption DEF Own
  <2>5. CallsTyped'
    <3>1. args' \in [ArgSlots -> [thread : CallThreads \cup {NoThread},
                                  obj : CallObjects \cup {Nothing}]]
      BY <2>1, <2>2 DEF CallsTyped
    <3>2. call' \in [CallThreads -> Calling] /\ recycled' \in BOOLEAN
      BY <1>1, <1>3, <2>1 DEF CallsTyped
    <3>. QED  BY <1>2, <3>1, <3>2 DEF CallsTyped
  <2>6. OneElement'
    BY <2>2, <2>3 DEF OneElement
  <2>7. CallPlaces'
    BY <1>3, <2>4 DEF CallPlaces
  <2>8. ArgsAreTheCalls'
    <3>. SUFFICES ASSUME Asks, NEW u \in CallThreads
                  PROVE  /\ call'[u].at = "called" =>
                              /\ call'[u].kept <=> Own(u)' # {}
                              /\ \A r \in Own(u)' : args'[r].obj = call'[u].obj
                         /\ call'[u].at \in {"found", "using"} => call'[u].kept
                         /\ call'[u].at = "found" \/ (call'[u].at = "using" /\ ~recycled') =>
                              args'[call'[u].slot].obj = call'[u].obj
                         /\ call'[u].at = "done" => ~(call'[u].did /\ call'[u].kept)
      BY <1>4 DEF ArgsAreTheCalls
    <3>1. CASE u = t
      <4>1. call'[t].kept /\ Own(t)' # {}
        BY <1>3, <1>5, <1>7, <2>4
      <4>2. \A r \in Own(t)' : args'[r].obj = obj
        BY <2>3, <2>4
      <4>. QED  BY <1>3, <3>1, <4>1, <4>2
    <3>2. CASE u # t
      <4>1. \A r \in Own(u) : args'[r] = args[r]
        BY <2>3, <2>4, <3>2, <2>2, ProbesAssumption DEF Own
      <4>2. call[u].at = "using" /\ ~recycled' => ~recycled /\ args'[call[u].slot] = args[call[u].slot]
        BY <2>1, <2>3 DEF CallPlaces
      <4>. QED  BY <1>3, <2>4, <3>2, <4>1, <4>2 DEF ArgsAreTheCalls, CallPlaces
    <3>. QED  BY <3>1, <3>2
  <2>9. Left'
    BY <1>3, <1>4, <2>4 DEF Left
  <2>. QED  BY <1>6, <2>5, <2>6, <2>7, <2>8, <2>9
<1>8. CASE ~(asked(dir) /\ Places(t) # {})
  <2>1. UNCHANGED <<args, recycled>> /\ \A u : Own(u)' = Own(u)
    BY <1>1, <1>8 DEF Own
  <2>2. CallsTyped' /\ OneElement'
    BY <1>1, <1>2, <1>3, <2>1 DEF CallsTyped, OneElement
  <2>3. CallPlaces'
    BY <1>3, <2>1 DEF CallPlaces
  <2>4. Asks => Own(t) = {} /\ ~call'[t].kept
    BY <1>3, <1>4, <1>5, <1>8
  <2>5. ArgsAreTheCalls'
    BY <1>3, <1>4, <2>1, <2>4 DEF ArgsAreTheCalls
  <2>6. Left'
    BY <1>3, <1>4, <2>1 DEF Left
  <2>. QED  BY <1>6, <2>2, <2>3, <2>5, <2>6
<1>. QED  BY <1>7, <1>8

\* What a call's arguments say about it, when it is counted.
LEMMA CountKeeps ==
    ASSUME CallsTyped, NEW t \in CallThreads, Count(t), Done(t), call[t].dir \in Directions,
           Asks => call[t].kept, Asks /\ ~recycled => args[call[t].slot].obj = call[t].obj
    PROVE  /\ counted' \in [CallKeys -> Nat] /\ made' \in [CallKeys -> Nat]
           /\ Asks /\ ~recycled /\ counted = made => counted' = made'
<1>1. /\ counted' = counted \/ \E k : counted' = [counted EXCEPT ![k] = @ + 1]
      /\ made' = made \/ \E k : made' = [made EXCEPT ![k] = @ + 1]
  BY DEF Count, Done
<1>2. counted' \in [CallKeys -> Nat] /\ made' \in [CallKeys -> Nat]
  BY <1>1 DEF CallsTyped
<1>3. ASSUME Asks PROVE Probes.looks = "enter" \/ Counts(call[t].dir) <=> Counts(call[t].dir)
  BY <1>3 DEF Asks, Counts
<1>4. ASSUME Asks, ~recycled, counted = made PROVE counted' = made'
  BY <1>3, <1>4 DEF Count, Done
<1>. QED  BY <1>2, <1>4

\* What holds of the threads other than the one that steps, as long as their
\* arguments stay theirs.
LEMMA OthersKeep ==
    ASSUME ProbesInv, NEW t \in CallThreads, UNCHANGED <<kind, enabled, recycled>>,
           NEW u \in CallThreads \ {t}, call'[u] = call[u], Own(u)' = Own(u),
           \A r \in ArgSlots : args'[r].obj = args[r].obj
    PROVE  /\ call'[u].at # "none" => call'[u].dir \in Directions /\ call'[u].obj \in CallObjects
           /\ call'[u].at = "found" => call'[u].slot \in Own(u)'
           /\ call'[u].at = "using" => call'[u].slot \in ArgSlots
           /\ Asks => /\ call'[u].at = "called" => /\ call'[u].kept <=> Own(u)' # {}
                                                   /\ \A s \in Own(u)' : args'[s].obj = call'[u].obj
                      /\ call'[u].at \in {"found", "using"} => call'[u].kept
                      /\ call'[u].at = "found" \/ (call'[u].at = "using" /\ ~recycled') =>
                           args'[call'[u].slot].obj = call'[u].obj
                      /\ call'[u].at = "done" => ~(call'[u].did /\ call'[u].kept)
           /\ ~Probes.keeps => (Own(u)' # {} => call'[u].at \in {"called", "found"})
BY DEF ProbesInv, CallPlaces, ArgsAreTheCalls, Left, Own

LEMMA ReturnKeeps == ASSUME ProbesInv, NEW t \in CallThreads, Return(t) PROVE ProbesInv'
<1>. USE DEF ProbesInv
<1>1. /\ call[t].at = "called" /\ UNCHANGED <<kind, enabled, args, counted, made, recycled>>
      /\ \A u : Own(u)' = Own(u)
      /\ Asks' = Asks /\ Probes' = Probes
  BY DEF Return, Own, Asks, Probes
<1>2. PICK did \in BOOLEAN : LET ignored == ~did /\ Probes.keeps IN
        call' = [call EXCEPT ![t] =
          IF ignored \/ Own(t) = {} THEN [@ EXCEPT !.at = "done", !.did = did]
          ELSE [@ EXCEPT !.at = "found", !.did = did, !.slot = CHOOSE s \in Own(t) : TRUE]]
  BY DEF Return
<1>3. /\ call[t] \in Calling /\ call[t].dir \in Directions /\ call[t].obj \in CallObjects
      /\ \A u \in CallThreads \ {t} : call'[u] = call[u]
  BY <1>1, <1>2 DEF CallsTyped, CallPlaces
<1>4. CASE ~((~did /\ Probes.keeps) \/ Own(t) = {})
  <2>. DEFINE s == CHOOSE r \in Own(t) : TRUE
  <2>1. s \in Own(t) /\ s \in ArgSlots
    BY <1>4 DEF Own
  <2>2. call'[t] = [call[t] EXCEPT !.at = "found", !.did = did, !.slot = s]
    BY <1>2, <1>4 DEF CallsTyped
  <2>3. /\ call'[t] \in Calling /\ call'[t].at = "found" /\ call'[t].slot = s
        /\ call'[t].dir = call[t].dir /\ call'[t].obj = call[t].obj /\ call'[t].kept = call[t].kept
    BY <1>3, <2>1, <2>2 DEF Calling
  <2>4. CallsTyped' /\ OneElement' /\ CallsAttributed'
    <3>1. call' \in [CallThreads -> Calling]
      BY <1>2, <1>3, <2>3 DEF CallsTyped
    <3>. QED  BY <1>1, <3>1 DEF CallsTyped, OneElement, CallsAttributed
  <2>5. CallPlaces'
    BY <1>1, <1>3, <2>1, <2>3 DEF CallPlaces
  <2>6. ArgsAreTheCalls'
    <3>1. Asks => call[t].kept /\ args[s].obj = call[t].obj
      BY <1>1, <2>1 DEF ArgsAreTheCalls
    <3>. QED  BY <1>1, <1>3, <2>1, <2>3, <3>1 DEF ArgsAreTheCalls
  <2>7. Left'
    BY <1>1, <1>3, <2>3 DEF Left
  <2>. QED  BY <2>4, <2>5, <2>6, <2>7
<1>5. CASE (~did /\ Probes.keeps) \/ Own(t) = {}
  <2>1. call'[t] = [call[t] EXCEPT !.at = "done", !.did = did]
    BY <1>2, <1>5 DEF CallsTyped
  <2>2. /\ call'[t] \in Calling /\ call'[t].at = "done" /\ (call'[t].did <=> did)
        /\ call'[t].dir = call[t].dir /\ call'[t].obj = call[t].obj /\ call'[t].kept = call[t].kept
    BY <1>3, <2>1 DEF Calling
  <2>3. CallsTyped' /\ OneElement' /\ CallsAttributed'
    <3>1. call' \in [CallThreads -> Calling]
      BY <1>2, <1>3, <2>2 DEF CallsTyped
    <3>. QED  BY <1>1, <3>1 DEF CallsTyped, OneElement, CallsAttributed
  <2>4. CallPlaces'
    BY <1>1, <1>3, <2>2 DEF CallPlaces
  <2>5. ArgsAreTheCalls'
    <3>1. Asks => ~(did /\ call[t].kept)
      BY <1>1, <1>5 DEF ArgsAreTheCalls
    <3>. QED  BY <1>1, <1>3, <2>2, <3>1 DEF ArgsAreTheCalls
  <2>6. Left'
    BY <1>1, <1>3, <1>5, <2>2 DEF Left
  <2>. QED  BY <2>3, <2>4, <2>5, <2>6
<1>. QED  BY <1>4, <1>5

\* An element that is deleted was the one its thread had.
LEMMA DeletedIsOwn ==
    ASSUME CallsTyped, OneElement, NEW t \in CallThreads, NEW s \in Own(t), Deleted(s)
    PROVE  /\ args' \in [ArgSlots -> [thread : CallThreads \cup {NoThread},
                                      obj : CallObjects \cup {Nothing}]]
           /\ OneElement'
           /\ \A r \in ArgSlots : args'[r].obj = args[r].obj
           /\ Own(t)' = {} /\ \A u \in CallThreads \ {t} : Own(u)' = Own(u)
<1>1. s \in ArgSlots /\ args[s].thread = t
  BY DEF Own
<1>2. args' = [args EXCEPT ![s] = [@ EXCEPT !.thread = NoThread]]
  BY DEF Deleted
<1>3. args'[s].thread = NoThread /\ args'[s].obj = args[s].obj
      /\ args'[s] \in [thread : CallThreads \cup {NoThread}, obj : CallObjects \cup {Nothing}]
  BY <1>1, <1>2 DEF CallsTyped
<1>4. \A r \in ArgSlots \ {s} : args'[r] = args[r]
  BY <1>2 DEF CallsTyped
<1>5. args' \in [ArgSlots -> [thread : CallThreads \cup {NoThread},
                              obj : CallObjects \cup {Nothing}]]
  BY <1>2, <1>3, <1>4 DEF CallsTyped
<1>6. OneElement'
  BY <1>3, <1>4 DEF OneElement
<1>7. Own(t)' = {} /\ \A u \in CallThreads \ {t} : Own(u)' = Own(u)
  BY <1>1, <1>3, <1>4, ProbesAssumption DEF Own, OneElement
<1>. QED  BY <1>3, <1>4, <1>5, <1>6, <1>7

LEMMA DeleteFirstKeeps == ASSUME ProbesInv, NEW t \in CallThreads, DeleteFirst(t) PROVE ProbesInv'
<1>. USE DEF ProbesInv
<1>1. /\ call[t].at = "found" /\ call[t].slot \in Own(t) /\ Deleted(call[t].slot)
      /\ call' = [call EXCEPT ![t].at = "using"]
      /\ UNCHANGED <<kind, enabled, counted, made, recycled>>
      /\ Asks' = Asks /\ Probes' = Probes
  BY DEF DeleteFirst, CallPlaces, Asks, Probes
<1>2. call[t] \in Calling /\ call[t].slot \in ArgSlots
  BY <1>1 DEF CallsTyped, Own
<1>3. /\ call'[t] \in Calling /\ call'[t].at = "using" /\ call'[t].slot = call[t].slot
      /\ call'[t].dir = call[t].dir /\ call'[t].obj = call[t].obj /\ call'[t].kept = call[t].kept
      /\ \A u \in CallThreads \ {t} : call'[u] = call[u]
  BY <1>1, <1>2 DEF CallsTyped, Calling
<1>4. CallsTyped' /\ OneElement' /\ CallsAttributed'
  <2>1. call' \in [CallThreads -> Calling]
    BY <1>1, <1>3 DEF CallsTyped
  <2>. QED  BY <1>1, <2>1, DeletedIsOwn DEF CallsTyped, CallsAttributed
<1>5. \A u \in CallThreads \ {t} : Own(u)' = Own(u)
  BY <1>1, DeletedIsOwn
<1>6. Own(t)' = {} /\ \A r \in ArgSlots : args'[r].obj = args[r].obj
  BY <1>1, DeletedIsOwn
<1>7. CallPlaces'
  BY <1>1, <1>2, <1>3, <1>5 DEF CallPlaces
<1>8. ArgsAreTheCalls'
  <2>1. Asks => call[t].kept /\ args[call[t].slot].obj = call[t].obj
    BY <1>1 DEF ArgsAreTheCalls
  <2>. SUFFICES ASSUME Asks, NEW u \in CallThreads
                PROVE  /\ call'[u].at = "called" =>
                            /\ call'[u].kept <=> Own(u)' # {}
                            /\ \A r \in Own(u)' : args'[r].obj = call'[u].obj
                       /\ call'[u].at \in {"found", "using"} => call'[u].kept
                       /\ call'[u].at = "found" \/ (call'[u].at = "using" /\ ~recycled') =>
                            args'[call'[u].slot].obj = call'[u].obj
                       /\ call'[u].at = "done" => ~(call'[u].did /\ call'[u].kept)
    BY <1>1 DEF ArgsAreTheCalls
  <2>2. CASE u = t
    BY <1>2, <1>3, <1>6, <2>1, <2>2
  <2>3. CASE u # t
    BY <1>1, <1>3, <1>5, <1>6, <2>3, OthersKeep
  <2>. QED  BY <2>2, <2>3
<1>9. Left'
  BY <1>1, <1>3, <1>5, <1>6 DEF Left
<1>. QED  BY <1>4, <1>7, <1>8, <1>9

\* A thread whose call is done with, and that has no arguments left or is of a
\* program that may leave some.
LEMMA DoneKeeps ==
    ASSUME ProbesInv, NEW t \in CallThreads, Done(t), UNCHANGED <<kind, enabled, recycled>>,
           args' \in [ArgSlots -> [thread : CallThreads \cup {NoThread},
                                   obj : CallObjects \cup {Nothing}]],
           \A r \in ArgSlots : args'[r].obj = args[r].obj,
           \A u \in CallThreads \ {t} : Own(u)' = Own(u),
           Probes.keeps \/ Own(t)' = {}, OneElement',
           counted' \in [CallKeys -> Nat], made' \in [CallKeys -> Nat], CallsAttributed'
    PROVE  ProbesInv'
<1>1. Asks' = Asks /\ Probes' = Probes
  BY DEF Asks, Probes
<1>2. /\ call'[t] = NotCalling /\ NotCalling \in Calling /\ NotCalling.at = "none"
      /\ \A u \in CallThreads \ {t} : call'[u] = call[u]
      /\ call' \in [CallThreads -> Calling]
  BY DEF Done, ProbesInv, CallsTyped, Calling, NotCalling
<1>3. CallsTyped'
  BY <1>2 DEF ProbesInv, CallsTyped
<1>4. CallPlaces'
  BY <1>2, OthersKeep DEF CallPlaces
<1>5. ArgsAreTheCalls'
  <2>. SUFFICES ASSUME Asks, NEW u \in CallThreads
                PROVE  /\ call'[u].at = "called" =>
                            /\ call'[u].kept <=> Own(u)' # {}
                            /\ \A r \in Own(u)' : args'[r].obj = call'[u].obj
                       /\ call'[u].at \in {"found", "using"} => call'[u].kept
                       /\ call'[u].at = "found" \/ (call'[u].at = "using" /\ ~recycled') =>
                            args'[call'[u].slot].obj = call'[u].obj
                       /\ call'[u].at = "done" => ~(call'[u].did /\ call'[u].kept)
    BY <1>1 DEF ArgsAreTheCalls
  <2>1. CASE u = t
    BY <1>2, <2>1
  <2>2. CASE u # t
    BY <1>2, <2>2, OthersKeep
  <2>. QED  BY <2>1, <2>2
<1>6. Left'
  BY <1>1, <1>2, OthersKeep DEF Left
<1>. QED  BY <1>3, <1>4, <1>5, <1>6 DEF ProbesInv

LEMMA UseKeeps == ASSUME ProbesInv, NEW t \in CallThreads, Use(t) PROVE ProbesInv'
<1>1. /\ call[t].at = "using" /\ Count(t) /\ Done(t)
      /\ UNCHANGED <<kind, enabled, args, recycled>> /\ \A u : Own(u)' = Own(u)
      /\ Asks' = Asks /\ Probes' = Probes
  BY DEF Use, Own, Asks, Probes
<1>2. /\ counted' \in [CallKeys -> Nat] /\ made' \in [CallKeys -> Nat]
      /\ Asks /\ ~recycled /\ counted = made => counted' = made'
  BY <1>1, CountKeeps DEF ProbesInv, CallPlaces, ArgsAreTheCalls
<1>3. CallsAttributed'
  BY <1>1, <1>2 DEF ProbesInv, CallsAttributed, Asks
<1>4. Probes.keeps \/ Own(t)' = {}
  BY <1>1 DEF ProbesInv, Left
<1>5. OneElement'
  BY <1>1 DEF ProbesInv, OneElement
<1>. QED  BY <1>1, <1>2, <1>3, <1>4, <1>5, DoneKeeps DEF ProbesInv, CallsTyped

LEMMA UseAndDeleteKeeps ==
    ASSUME ProbesInv, NEW t \in CallThreads, UseAndDelete(t) PROVE ProbesInv'
<1>1. /\ call[t].at = "found" /\ call[t].slot \in Own(t)
      /\ Count(t) /\ Deleted(call[t].slot) /\ Done(t) /\ UNCHANGED <<kind, enabled, recycled>>
      /\ Asks' = Asks /\ Probes' = Probes
  BY DEF UseAndDelete, ProbesInv, CallPlaces, Asks, Probes
<1>2. /\ counted' \in [CallKeys -> Nat] /\ made' \in [CallKeys -> Nat]
      /\ Asks /\ ~recycled /\ counted = made => counted' = made'
  BY <1>1, CountKeeps DEF ProbesInv, CallPlaces, ArgsAreTheCalls
<1>3. CallsAttributed'
  BY <1>1, <1>2 DEF ProbesInv, CallsAttributed, Asks
<1>. QED  BY <1>1, <1>2, <1>3, DeletedIsOwn, DoneKeeps DEF ProbesInv

\* A call that did nothing, or that nothing was kept for, adds to neither count.
LEMMA NotCountedKeeps == ASSUME ProbesInv, NEW t \in CallThreads, NotCounted(t) PROVE ProbesInv'
<1>1. /\ call[t].at = "done" /\ Done(t) /\ UNCHANGED <<kind, enabled, args, counted, recycled>>
      /\ \A u : Own(u)' = Own(u) /\ Asks' = Asks /\ Probes' = Probes
  BY DEF NotCounted, Own, Asks, Probes
<1>2. made' \in [CallKeys -> Nat] /\ (Asks => made' = made)
  <2>1. made \in [CallKeys -> Nat] /\ (Asks => ~(call[t].did /\ call[t].kept))
    BY <1>1 DEF ProbesInv, CallsTyped, ArgsAreTheCalls
  <2>2. \/ made' = made
        \/ \E k : made' = [made EXCEPT ![k] = @ + 1] /\ call[t].did /\ call[t].kept
    BY <1>1 DEF Done
  <2>. QED  BY <2>1, <2>2
<1>3. CallsAttributed'
  BY <1>1, <1>2 DEF ProbesInv, CallsAttributed, Asks
<1>4. Probes.keeps \/ Own(t)' = {}
  BY <1>1 DEF ProbesInv, Left
<1>5. OneElement'
  BY <1>1 DEF ProbesInv, OneElement
<1>. QED  BY <1>1, <1>2, <1>3, <1>4, <1>5, DoneKeeps DEF ProbesInv, CallsTyped

LEMMA ProbesStutterKeeps == ASSUME ProbesInv, UNCHANGED probes_vars PROVE ProbesInv'
BY DEF ProbesInv, CallsTyped, OneElement, CallPlaces, ArgsAreTheCalls, Left, CallsAttributed, Asks,
       Own, Probes, probes_vars
-----------------------------------------------------------------------------
(* The sniffers of the IPC collector: the programs that run are those of the  *)
(* session, and a stop has still to come to each of them.                     *)

ProgramsTyped ==
    /\ program \in [Sniffer -> {"none", "running", "ended"}]
    /\ owner \in [call : {"idle", "start", "stop"}, left : Seq(STRING)]

StopComes == owner.call = "stop" =>
    ipcStarted /\ \A s \in Sniffer : program[s] = "running" => s[1] \in Range(owner.left)

IpcInv == ProgramsTyped /\ StopComes /\ NoProgramLeft

LEMMA RangeOfTail == ASSUME NEW S, NEW s \in Seq(S), s # <<>>
                     PROVE  /\ Tail(s) \in Seq(S)
                            /\ Range(s) \subseteq {Head(s)} \cup Range(Tail(s))
<1>1. Len(s) \in Nat \ {0} /\ DOMAIN s = 1..Len(s) /\ Head(s) = s[1]
      /\ Tail(s) \in Seq(S) /\ Len(Tail(s)) = Len(s) - 1 /\ DOMAIN Tail(s) = 1..Len(Tail(s))
  OBVIOUS
<1>2. \A i \in 1..Len(Tail(s)) : Tail(s)[i] = s[i + 1]
  OBVIOUS
<1>3. ASSUME NEW i \in 2..Len(s) PROVE s[i] \in Range(Tail(s))
  <2>1. i - 1 \in 1..Len(Tail(s)) /\ (i - 1) + 1 = i
    BY <1>1
  <2>2. s[i] = Tail(s)[i - 1]
    BY <1>2, <2>1
  <2>. QED  BY <1>1, <2>1, <2>2 DEF Range
<1>4. \A i \in 1..Len(s) : i = 1 \/ i \in 2..Len(s)
  BY <1>1
<1>. QED  BY <1>1, <1>3, <1>4 DEF Range

LEMMA IpcInitEstablishes == ASSUME IpcInit PROVE IpcInv
<1>1. owner = [call |-> "idle", left |-> <<>>] /\ \A s \in Sniffer : program[s] = "none"
  BY DEF IpcInit, NoCall, Streams
<1>. QED  BY <1>1 DEF IpcInit, IpcInv, ProgramsTyped, StopComes, NoProgramLeft, Streams

LEMMA StartKeeps ==
    ASSUME IpcInv, IpcStart \/ StartSniffer \/ IpcStarted PROVE IpcInv'
<1>. USE DEF IpcInv, ProgramsTyped, StopComes, NoProgramLeft
<1>1. CASE IpcStart
  <2>1. \A s \in Sniffer : program[s] # "running"
    BY <1>1 DEF IpcStart, NoCall
  <2>2. owner' = [call |-> "start", left |-> Kinds] /\ UNCHANGED program
    BY <1>1 DEF IpcStart
  <2>. QED  BY <2>1, <2>2, IpcAssumption
<1>2. CASE StartSniffer
  <2>. DEFINE s == <<Head(owner.left), session>>
  <2>1. /\ owner.call = "start" /\ owner.left # <<>> /\ held' = held \cup {s[1]}
        /\ owner' = [owner EXCEPT !.left = Tail(@)]
        /\ program' \in {program, [program EXCEPT ![s] = "running"]}
        /\ UNCHANGED <<ipcStarted, session>>
    BY <1>2 DEF StartSniffer
  <2>2. /\ owner' \in [call : {"idle", "start", "stop"}, left : Seq(STRING)]
        /\ owner'.call = "start"
    BY <2>1, RangeOfTail
  <2>3. program' \in [Sniffer -> {"none", "running", "ended"}]
    BY <2>1
  <2>4. \A r \in Sniffer : program'[r] = "running" => program[r] = "running" \/ r = s
    BY <2>1
  <2>. QED  BY <2>1, <2>2, <2>3, <2>4
<1>3. CASE IpcStarted
  BY <1>3 DEF IpcStarted, NoCall
<1>. QED  BY <1>1, <1>2, <1>3

LEMMA StopKeeps ==
    ASSUME IpcInv, IpcStop \/ StopSniffer \/ IpcStopped PROVE IpcInv'
<1>. USE DEF IpcInv, ProgramsTyped, StopComes, NoProgramLeft
<1>1. CASE IpcStop
  <2>1. /\ owner' = [call |-> "stop", left |-> Kinds] /\ owner.call = "idle" /\ ipcStarted
        /\ UNCHANGED <<ipcStarted, session, held, program>>
    BY <1>1 DEF IpcStop, NoCall
  <2>2. \A s \in Sniffer : s[1] \in Range(Kinds)
    BY DEF Sniffer
  <2>. QED  BY <2>1, <2>2, IpcAssumption
<1>2. CASE StopSniffer
  <2>. DEFINE s == <<Head(owner.left), session>>
  <2>1. /\ owner.call = "stop" /\ owner.left # <<>> /\ ipcStarted
        /\ owner' = [owner EXCEPT !.left = Tail(@)]
        /\ program' = [program EXCEPT ![s] = "none"]
        /\ UNCHANGED <<ipcStarted, session, held>>
    BY <1>2 DEF StopSniffer
  <2>2. /\ owner' \in [call : {"idle", "start", "stop"}, left : Seq(STRING)]
        /\ owner'.call = "stop" /\ owner'.left = Tail(owner.left)
        /\ Range(owner.left) \subseteq {Head(owner.left)} \cup Range(owner'.left)
    BY <2>1, RangeOfTail
  <2>3. program' \in [Sniffer -> {"none", "running", "ended"}]
    BY <2>1
  <2>4. \A r \in Sniffer : program'[r] = "running" => program[r] = "running" /\ r # s
    BY <2>1
  <2>5. \A r \in Sniffer : r = <<r[1], r[2]>>
    BY DEF Sniffer
  <2>. QED  BY <2>1, <2>2, <2>3, <2>4, <2>5
<1>3. CASE IpcStopped
  <2>1. \A s \in Sniffer : program[s] # "running"
    BY <1>3 DEF IpcStopped, Range
  <2>. QED  BY <1>3, <2>1 DEF IpcStopped, NoCall
<1>. QED  BY <1>1, <1>2, <1>3

LEMMA IpcOthersKeep ==
    ASSUME IpcInv, CollectingStep \/ (\E s \in Sniffer : Prints(s) \/ Die(s)) \/ UNCHANGED ipc_vars
    PROVE  IpcInv'
<1>1. /\ UNCHANGED <<ipcStarted, owner, session, held>>
      /\ \/ UNCHANGED program
         \/ \E s \in Sniffer : program' = [program EXCEPT ![s] = "ended"]
  BY DEF CollectingStep, CollectEvents, Look, Read, AnswerEvents, Prints, Die, ipc_vars
<1>2. /\ program' \in [Sniffer -> {"none", "running", "ended"}]
      /\ \A r \in Sniffer : program'[r] = "running" => program[r] = "running"
  BY <1>1 DEF IpcInv, ProgramsTyped
<1>. QED  BY <1>1, <1>2 DEF IpcInv, ProgramsTyped, StopComes, NoProgramLeft
-----------------------------------------------------------------------------
(* The text of the sniffers: what a program printed is in what was parsed, the *)
(* buffer, the text stream and the pipe, in this order.                       *)

\* What a sniffer may print: a line has no columns yet, too few, or all.
Text == {Piece(pid, columns) : pid \in Processes,
             columns \in {0, 1} \cup {Len(SnifferOf[k].columns) : k \in Range(Kinds)}}

StreamsTyped ==
    /\ pipe \in [Sniffer -> Seq(Text)] /\ text \in [Sniffer -> Seq(Text)]
    /\ buffer \in [Sniffer -> Seq(Text)]
    /\ printed \in [Sniffer -> Seq(Text)] /\ parsed \in [Sniffer -> Seq(Text)]

\* The last end of a line is at one of the pieces.
LEMMA GreatestNumber ==
    ASSUME NEW n \in Nat, NEW T \in SUBSET (1..n), T # {}
    PROVE  \E x \in T : \A y \in T : x >= y
<1>. DEFINE R == OpToRel(<, Nat)
            D == {n - y : y \in T}
<1>1. IsWellFoundedOn(R, Nat)
  BY NatLessThanWellFounded
<1>2. \A a, b \in Nat : <<a, b>> \in R <=> a < b
  BY DEF OpToRel
<1>3. \A y \in T : y \in 1..n
  OBVIOUS
<1>3a. \A y \in T : y \in Nat /\ n - y \in Nat
  BY <1>3
<1>3b. D \in SUBSET Nat /\ D # {} /\ \A y \in T : n - y \in D
  BY <1>3a
<1>. HIDE DEF R
<1>4. PICK d \in D : \A e \in D : ~(<<e, d>> \in R)
  BY <1>1, <1>3b, WFMin
<1>5. PICK x \in T : d = n - x
  BY <1>4
<1>6. \A y \in T : ~(n - y < n - x)
  BY <1>2, <1>3a, <1>3b, <1>4, <1>5
<1>7. \A y \in T : x >= y
  BY <1>3a, <1>6
<1>. QED  BY <1>7

LEMMA LinesAndRest ==
    ASSUME NEW c \in Seq(Text)
    PROVE  Lines(c) \in Seq(Text) /\ Rest(c) \in Seq(Text) /\ Lines(c) \o Rest(c) = c
<1>. DEFINE ends == {i \in DOMAIN c : c[i].last}
            n == IF ends = {} THEN 0 ELSE Max(ends)
<1>1. Len(c) \in Nat /\ DOMAIN c = 1..Len(c) /\ \A i \in 1..Len(c) : c[i] \in Text
  OBVIOUS
<1>2. n \in 0..Len(c)
  <2>1. CASE ends = {}
    BY <1>1, <2>1
  <2>2. CASE ends # {}
    <3>1. \E x \in ends : \A y \in ends : x >= y
      BY <1>1, <2>2, GreatestNumber
    <3>2. Max(ends) \in ends
      BY <3>1 DEF Max
    <3>. QED  BY <1>1, <2>2, <3>2
  <2>. QED  BY <2>1, <2>2
<1>3. Lines(c) = SubSeq(c, 1, n)
  BY DEF Lines
<1>. HIDE DEF n, ends
<1>4. Lines(c) \in Seq(Text) /\ Len(Lines(c)) = n
  BY <1>1, <1>2, <1>3
<1>5. Rest(c) = SubSeq(c, n + 1, Len(c))
  BY <1>4 DEF Rest
<1>6. Rest(c) \in Seq(Text)
  BY <1>1, <1>2, <1>5
<1>7. SubSeq(c, 1, n) \o SubSeq(c, n + 1, Len(c)) = SubSeq(c, 1, Len(c))
  <2>1. 1 \in 1..Len(c) + 1 /\ n \in 1 - 1..Len(c) /\ Len(c) \in n..Len(c)
    BY <1>1, <1>2
  <2>. QED  BY <2>1, ConcatAdjacentSubSeq
<1>8. SubSeq(c, 1, Len(c)) = c
  BY SubSeqFull
<1>. QED  BY <1>3, <1>4, <1>5, <1>6, <1>7, <1>8

\* A text cut after its first pieces.
LEMMA CutText ==
    ASSUME NEW c \in Seq(Text), NEW n \in 0..Len(c)
    PROVE  /\ SubSeq(c, 1, n) \in Seq(Text) /\ SubSeq(c, n + 1, Len(c)) \in Seq(Text)
           /\ SubSeq(c, 1, n) \o SubSeq(c, n + 1, Len(c)) = c
<1>1. Len(c) \in Nat /\ DOMAIN c = 1..Len(c) /\ \A i \in 1..Len(c) : c[i] \in Text
  OBVIOUS
<1>2. SubSeq(c, 1, n) \o SubSeq(c, n + 1, Len(c)) = SubSeq(c, 1, Len(c))
  <2>1. 1 \in 1..Len(c) + 1 /\ n \in 1 - 1..Len(c) /\ Len(c) \in n..Len(c)
    BY <1>1
  <2>. QED  BY <2>1, ConcatAdjacentSubSeq
<1>3. SubSeq(c, 1, Len(c)) = c
  BY SubSeqFull
<1>4. SubSeq(c, 1, n) \in Seq(Text) /\ SubSeq(c, n + 1, Len(c)) \in Seq(Text)
  BY <1>1
<1>. QED  BY <1>2, <1>3, <1>4

\* One text after the other, and the laws of it, for the lemma that follows.
Then(u, v) == u \o v
Texts == Seq(Text)

LEMMA ThenLaws ==
    /\ \A u, v \in Texts : Then(u, v) \in Texts
    /\ \A u, v, w \in Texts : Then(Then(u, v), w) = Then(u, Then(v, w))
    /\ \A u \in Texts : Then(u, <<>>) = u
<1>1. ASSUME NEW u \in Texts, NEW v \in Texts PROVE Then(u, v) \in Texts
  BY DEF Texts, Then
<1>2. ASSUME NEW u \in Texts, NEW v \in Texts, NEW w \in Texts
      PROVE  Then(Then(u, v), w) = Then(u, Then(v, w))
  BY ConcatAssociative DEF Texts, Then
<1>3. ASSUME NEW u \in Texts PROVE Then(u, <<>>) = u
  BY ConcatEmptySeq DEF Texts, Then
<1>. QED  BY <1>1, <1>2, <1>3

\* What a read makes of the parts of a text, and what a piece printed does.
Regrouped(p, b, t, i, l, r, a, z) ==
    Then(Then(Then(Then(p, l), r), z), <<>>) = Then(Then(Then(p, b), t), i)
Extended(p, b, t, i, x) ==
    Then(Then(Then(Then(p, b), t), i), x) = Then(Then(Then(p, b), t), Then(i, x))

LEMMA RegroupText ==
    ASSUME NEW p \in Texts, NEW b \in Texts, NEW t \in Texts, NEW i \in Texts,
           NEW l \in Texts, NEW r \in Texts, NEW a \in Texts, NEW z \in Texts,
           Then(l, r) = Then(b, a), Then(a, z) = Then(t, i)
    PROVE  Regrouped(p, b, t, i, l, r, a, z)
<1>1. ASSUME NEW x \in Texts, NEW y \in Texts, NEW w \in Texts
      PROVE  Then(Then(Then(p, x), y), w) = Then(p, Then(Then(x, y), w))
  BY ThenLaws
<1>2. Then(Then(l, r), z) = Then(b, Then(t, i))
  BY ThenLaws
<1>3. Then(Then(b, t), i) = Then(b, Then(t, i))
  BY ThenLaws
<1>4. Then(Then(Then(p, l), r), z) = Then(Then(Then(p, b), t), i)
  BY <1>1, <1>2, <1>3
<1>. QED  BY <1>4, ThenLaws DEF Regrouped

LEMMA OneMore ==
    ASSUME NEW p \in Texts, NEW b \in Texts, NEW t \in Texts, NEW i \in Texts, NEW x \in Texts
    PROVE  Extended(p, b, t, i, x)
<1>1. Then(Then(p, b), t) \in Texts
  <2>1. Then(p, b) \in Texts
    BY ThenLaws
  <2>. QED  BY <2>1, ThenLaws
<1>. QED  BY <1>1, ThenLaws DEF Extended

LEMMA LeastOfTwo == ASSUME NEW m \in Nat, NEW n \in Nat PROVE Min({m, n}) \in 0..n
<1>1. \E x \in {m, n} : \A y \in {m, n} : x <= y
  <2>1. m <= n \/ n <= m
    OBVIOUS
  <2>. QED  BY <2>1
<1>2. Min({m, n}) \in {m, n} /\ \A y \in {m, n} : Min({m, n}) <= y
  BY <1>1 DEF Min
<1>. QED  BY <1>2

\* What the calls have still to do, what is read, and what the streams hold.
CallsOfIpcTyped ==
    /\ session \in 0..IpcSessions /\ held \subseteq Range(Kinds)
    /\ session = 0 => held = {} /\ owner.call # "start"
    /\ owner \in [call : {"idle", "start", "stop"}, left : Seq(Range(Kinds))]
    /\ asking \in [call : {"idle", "seed"} \cup Processes, left : Seq(Range(Kinds))]
    /\ reading \in Sniffer \cup {<<>>} /\ (reading # <<>> => asking.left # <<>>)
    /\ events \subseteq Processes /\ graphPids \subseteq Processes

StreamsInv == CallsOfIpcTyped /\ StreamsTyped /\ LinesKept

LEMMA KindsTyped == Kinds \in Seq(Range(Kinds))
BY IpcAssumption DEF Range

LEMMA StreamsInit == ASSUME IpcInit PROVE StreamsInv
<1>1. CallsOfIpcTyped
  <2>1. <<>> \in Seq(Range(Kinds))
    OBVIOUS
  <2>2. session = 0 /\ held = {} /\ owner = [call |-> "idle", left |-> <<>>] /\ asking = owner
        /\ reading = <<>> /\ events = {} /\ graphPids = {}
    BY DEF IpcInit, NoCall
  <2>. QED  BY <2>1, <2>2, IpcAssumption DEF CallsOfIpcTyped
<1>2. StreamsTyped /\ LinesKept
  <2>1. /\ pipe = [s \in Sniffer |-> <<>>] /\ text = [s \in Sniffer |-> <<>>]
        /\ buffer = [s \in Sniffer |-> <<>>] /\ printed = [s \in Sniffer |-> <<>>]
        /\ parsed = [s \in Sniffer |-> <<>>]
    BY DEF IpcInit, Streams
  <2>2. <<>> \in Seq(Text) /\ <<>> \o <<>> = <<>>
    OBVIOUS
  <2>. QED  BY <2>1, <2>2 DEF StreamsTyped, LinesKept
<1>. QED  BY <1>1, <1>2 DEF StreamsInv

LEMMA StreamsOfOwner ==
    ASSUME StreamsInv, OwnerStep \/ IpcStart \/ IpcStop PROVE StreamsInv'
<1>1. UNCHANGED <<streams, thread>>
  BY DEF OwnerStep, StartSniffer, IpcStarted, StopSniffer, IpcStopped, IpcStart, IpcStop, streams, thread
<1>2. StreamsTyped' /\ LinesKept'
  BY <1>1 DEF StreamsInv, StreamsTyped, LinesKept, streams
<1>3. CallsOfIpcTyped'
  <2>. USE DEF StreamsInv, CallsOfIpcTyped
  <2>1. UNCHANGED <<asking, reading, events, graphPids>>
    BY <1>1 DEF thread
  <2>2. CASE IpcStart
    <3>1. owner' = [call |-> "start", left |-> Kinds] /\ session' = session + 1 /\ held' = held
          /\ session < IpcSessions
      BY <2>2 DEF IpcStart
    <3>2. session' \in 0..IpcSessions /\ session' # 0
      BY <3>1, IpcAssumption
    <3>. QED  BY <2>1, <3>1, <3>2, KindsTyped
  <2>3. CASE IpcStop
    <3>1. owner' = [call |-> "stop", left |-> Kinds] /\ UNCHANGED <<session, held>>
      BY <2>3 DEF IpcStop
    <3>. QED  BY <2>1, <3>1, KindsTyped
  <2>4. CASE StartSniffer \/ StopSniffer
    <3>1. /\ owner.left # <<>> /\ owner' = [owner EXCEPT !.left = Tail(@)] /\ session' = session
          /\ held' \in {held, held \cup {Head(owner.left)}}
          /\ owner.call = "stop" => held' = held
      BY <2>4 DEF StartSniffer, StopSniffer
    <3>2. Head(owner.left) \in Range(Kinds) /\ Tail(owner.left) \in Seq(Range(Kinds))
      BY <3>1
    <3>3. owner.call = "stop" \/ owner.call = "start"
      BY <2>4 DEF StartSniffer, StopSniffer
    <3>. QED  BY <2>1, <3>1, <3>2, <3>3
  <2>5. CASE IpcStarted \/ IpcStopped
    <3>1. owner' = [call |-> "idle", left |-> <<>>] /\ session' = session /\ held' \in {held, {}}
      BY <2>5 DEF IpcStarted, IpcStopped, NoCall
    <3>2. <<>> \in Seq(Range(Kinds))
      OBVIOUS
    <3>. QED  BY <2>1, <3>1, <3>2
  <2>. QED  BY <2>2, <2>3, <2>4, <2>5 DEF OwnerStep
<1>. QED  BY <1>2, <1>3 DEF StreamsInv

LEMMA StreamsOfPrograms ==
    ASSUME StreamsInv, NEW s \in Sniffer, Prints(s) \/ Die(s) PROVE StreamsInv'
<1>1. /\ UNCHANGED <<session, held, owner, asking, reading, events, graphPids>>
      /\ UNCHANGED <<text, buffer, parsed>>
  BY DEF Prints, Die, streams, thread
<1>2. CallsOfIpcTyped'
  BY <1>1 DEF StreamsInv, CallsOfIpcTyped
<1>3. CASE Die(s)
  BY <1>1, <1>2, <1>3 DEF Die, streams, StreamsInv, StreamsTyped, LinesKept
<1>4. CASE Prints(s)
  <2>1. PICK pid \in Processes : \E columns \in {0, 1, Len(SnifferOf[s[1]].columns)} :
            /\ pipe' = [pipe EXCEPT ![s] = Append(@, Piece(pid, columns))]
            /\ printed' = [printed EXCEPT ![s] = Append(@, Piece(pid, columns))]
    BY <1>4 DEF Prints
  <2>2. PICK columns \in {0, 1, Len(SnifferOf[s[1]].columns)} :
            /\ pipe' = [pipe EXCEPT ![s] = Append(@, Piece(pid, columns))]
            /\ printed' = [printed EXCEPT ![s] = Append(@, Piece(pid, columns))]
    BY <2>1
  <2>. DEFINE p == Piece(pid, columns)
  <2>3. p \in Text
    BY DEF Sniffer, Text
  <2>. HIDE DEF p
  <2>4. /\ pipe' = [pipe EXCEPT ![s] = Append(@, p)]
        /\ printed' = [printed EXCEPT ![s] = Append(@, p)]
    BY <2>2 DEF p
  <2>5. /\ pipe[s] \in Texts /\ printed[s] \in Texts /\ parsed[s] \in Texts
        /\ text[s] \in Texts /\ buffer[s] \in Texts /\ <<p>> \in Texts
    BY <2>3 DEF StreamsInv, StreamsTyped, Texts
  <2>6. ASSUME NEW u \in Texts PROVE Append(u, p) = Then(u, <<p>>)
    BY <2>3, AppendIsConcat DEF Texts, Then
  <2>7. pipe'[s] = Then(pipe[s], <<p>>) /\ printed'[s] = Then(printed[s], <<p>>)
    BY <2>4, <2>5, <2>6 DEF StreamsInv, StreamsTyped
  <2>8. printed[s] = Then(Then(Then(parsed[s], buffer[s]), text[s]), pipe[s])
    BY DEF StreamsInv, LinesKept, Then
  <2>9. printed'[s] = Then(Then(Then(parsed[s], buffer[s]), text[s]), pipe'[s])
    <3>1. Extended(parsed[s], buffer[s], text[s], pipe[s], <<p>>)
      BY <2>5, OneMore
    <3>. QED  BY <2>7, <2>8, <3>1 DEF Extended
  <2>10. StreamsTyped'
    <3>1. pipe'[s] \in Seq(Text) /\ printed'[s] \in Seq(Text)
      <4>1. Then(pipe[s], <<p>>) \in Texts /\ Then(printed[s], <<p>>) \in Texts
        BY <2>5, ThenLaws
      <4>. QED  BY <2>7, <4>1 DEF Texts
    <3>. QED  BY <1>1, <2>4, <3>1 DEF StreamsInv, StreamsTyped
  <2>11. LinesKept'
    <3>1. printed'[s] = parsed'[s] \o buffer'[s] \o text'[s] \o pipe'[s]
      BY <1>1, <2>9 DEF Then
    <3>2. \A r \in Sniffer \ {s} : printed'[r] = printed[r] /\ pipe'[r] = pipe[r]
      BY <2>4 DEF StreamsInv, StreamsTyped
    <3>. QED  BY <1>1, <3>1, <3>2 DEF StreamsInv, LinesKept
  <2>. QED  BY <1>2, <2>10, <2>11 DEF StreamsInv
<1>. QED  BY <1>3, <1>4

LEMMA StreamsOfCollection ==
    ASSUME StreamsInv, CollectEvents \/ Look \/ AnswerEvents PROVE StreamsInv'
<1>1. UNCHANGED <<session, held, owner>> /\ UNCHANGED streams
  BY DEF CollectEvents, Look, AnswerEvents
<1>2. StreamsTyped' /\ LinesKept'
  BY <1>1 DEF StreamsInv, StreamsTyped, LinesKept, streams
<1>3. CallsOfIpcTyped'
  <2>. USE DEF StreamsInv, CallsOfIpcTyped
  <2>1. CASE CollectEvents
    <3>1. PICK about \in {"seed"} \cup Processes : asking' = [call |-> about, left |-> Kinds]
      BY <2>1 DEF CollectEvents
    <3>2. events' = {} /\ UNCHANGED <<reading, graphPids>> /\ reading = <<>>
      BY <2>1 DEF CollectEvents, NoCall
    <3>. QED  BY <1>1, <3>1, <3>2, KindsTyped
  <2>2. CASE Look
    <3>1. /\ asking.left # <<>> /\ reading = <<>> /\ UNCHANGED <<events, graphPids>>
          /\ \/ asking' = asking /\ reading' = <<Head(asking.left), session>>
                /\ Found(Head(asking.left)) # "none"
             \/ asking' = [asking EXCEPT !.left = Tail(@)] /\ reading' = reading
      BY <2>2 DEF Look, NextKind
    <3>2. Head(asking.left) \in Range(Kinds) /\ Tail(asking.left) \in Seq(Range(Kinds))
      BY <3>1
    <3>3. Found(Head(asking.left)) # "none" => session \in 1..IpcSessions
      BY IpcAssumption DEF Found
    <3>4. CASE asking' = asking
      <4>1. reading' \in Sniffer \cup {<<>>}
        BY <3>1, <3>2, <3>3, <3>4 DEF Sniffer
      <4>. QED  BY <1>1, <3>1, <3>4, <4>1
    <3>5. CASE asking' = [asking EXCEPT !.left = Tail(@)] /\ reading' = reading
      BY <1>1, <3>1, <3>2, <3>5
    <3>. QED  BY <3>1, <3>4, <3>5
  <2>3. CASE AnswerEvents
    <3>1. /\ asking' = [call |-> "idle", left |-> <<>>] /\ events' = {} /\ reading' = reading
          /\ reading = <<>>
          /\ graphPids' \subseteq graphPids \cup events
      BY <2>3 DEF AnswerEvents, NoCall
    <3>2. <<>> \in Seq(Range(Kinds))
      OBVIOUS
    <3>. QED  BY <1>1, <3>1, <3>2
  <2>. QED  BY <2>1, <2>2, <2>3
<1>. QED  BY <1>2, <1>3 DEF StreamsInv

LEMMA StreamsOfRead == ASSUME StreamsInv, Read PROVE StreamsInv'
<1>. DEFINE s == reading
            available == text[s] \o pipe[s]
            n == Min({Chunk, Len(available)})
            a == SubSeq(available, 1, n)
            z == SubSeq(available, n + 1, Len(available))
            c == buffer[s] \o a
<1>1. /\ reading' = <<>> /\ s \in Sniffer
      /\ buffer' = [buffer EXCEPT ![s] = Rest(c)]
      /\ parsed' = [parsed EXCEPT ![s] = @ \o Lines(c)]
      /\ events' = events \cup {p.pid : p \in {q \in Range(Lines(c)) : ParseLine(s, q)}}
      /\ text' = [text EXCEPT ![s] = z]
      /\ pipe' = [pipe EXCEPT ![s] = <<>>]
      /\ asking' = [asking EXCEPT !.left = Tail(@)]
      /\ UNCHANGED <<session, held, owner, printed, graphPids>>
  BY DEF Read, TakeLines, NextKind, StreamsInv, CallsOfIpcTyped
<1>2. text[s] \in Seq(Text) /\ pipe[s] \in Seq(Text) /\ buffer[s] \in Seq(Text)
      /\ parsed[s] \in Seq(Text)
  BY <1>1 DEF StreamsInv, StreamsTyped
<1>3. available \in Seq(Text)
  BY <1>2
<1>4. n \in 0..Len(available)
  <2>1. Len(available) \in Nat
    BY <1>3, LenProperties
  <2>. QED  BY <2>1, IpcAssumption, LeastOfTwo
<1>. HIDE DEF n, available
<1>5. a \in Seq(Text) /\ z \in Seq(Text) /\ a \o z = available
  BY <1>3, <1>4, CutText
<1>. HIDE DEF a, z
<1>6. c \in Seq(Text)
  BY <1>2, <1>5
<1>. HIDE DEF c
<1>7. Lines(c) \in Seq(Text) /\ Rest(c) \in Seq(Text) /\ Lines(c) \o Rest(c) = c
  BY <1>6, LinesAndRest
<1>8. (((parsed[s] \o Lines(c)) \o Rest(c)) \o z) \o <<>>
          = ((parsed[s] \o buffer[s]) \o text[s]) \o pipe[s]
  <2>1. /\ parsed[s] \in Texts /\ buffer[s] \in Texts /\ text[s] \in Texts /\ pipe[s] \in Texts
        /\ Lines(c) \in Texts /\ Rest(c) \in Texts /\ a \in Texts /\ z \in Texts
    BY <1>2, <1>5, <1>7 DEF Texts
  <2>2. Then(Lines(c), Rest(c)) = Then(buffer[s], a) /\ Then(a, z) = Then(text[s], pipe[s])
    BY <1>5, <1>7 DEF Then, c, available
  <2>3. Regrouped(parsed[s], buffer[s], text[s], pipe[s], Lines(c), Rest(c), a, z)
    BY <2>1, <2>2, RegroupText
  <2>. QED  BY <2>3 DEF Regrouped, Then
<1>9. parsed[s] \o Lines(c) \in Seq(Text) /\ <<>> \in Seq(Text)
  BY <1>2, <1>7
<1>10. StreamsTyped'
  BY <1>1, <1>5, <1>7, <1>9 DEF StreamsInv, StreamsTyped
<1>11. LinesKept'
  <2>1. /\ parsed'[s] = parsed[s] \o Lines(c) /\ buffer'[s] = Rest(c) /\ text'[s] = z
        /\ pipe'[s] = <<>>
    BY <1>1 DEF StreamsInv, StreamsTyped
  <2>2. printed'[s] = parsed'[s] \o buffer'[s] \o text'[s] \o pipe'[s]
    BY <1>1, <1>8, <2>1 DEF StreamsInv, LinesKept
  <2>3. \A r \in Sniffer \ {s} : /\ parsed'[r] = parsed[r] /\ buffer'[r] = buffer[r]
                               /\ text'[r] = text[r] /\ pipe'[r] = pipe[r]
    BY <1>1 DEF StreamsInv, StreamsTyped
  <2>. QED  BY <1>1, <2>2, <2>3 DEF StreamsInv, LinesKept
<1>12. CallsOfIpcTyped'
  <2>. USE DEF StreamsInv, CallsOfIpcTyped
  <2>1. events' \subseteq Processes
    <3>1. \A p \in Text : p.pid \in Processes
      BY DEF Text, Piece
    <3>2. Range(Lines(c)) \subseteq Text
      BY <1>7 DEF Range
    <3>. QED  BY <1>1, <3>1, <3>2
  <2>2. asking' \in [call : {"idle", "seed"} \cup Processes, left : Seq(Range(Kinds))]
    <3>1. asking.left # <<>> /\ asking.left \in Seq(Range(Kinds))
      BY DEF Read
    <3>2. Tail(asking.left) \in Seq(Range(Kinds))
      BY <3>1
    <3>. QED  BY <1>1, <3>2
  <2>. QED  BY <1>1, <2>1, <2>2
<1>. QED  BY <1>10, <1>11, <1>12 DEF StreamsInv

LEMMA StreamsStutter == ASSUME StreamsInv, UNCHANGED ipc_vars PROVE StreamsInv'
<1>1. UNCHANGED <<session, held, owner, asking, reading, events, graphPids>>
      /\ UNCHANGED <<pipe, text, buffer, printed, parsed>>
  BY DEF ipc_vars
<1>. QED  BY <1>1 DEF StreamsInv, CallsOfIpcTyped, StreamsTyped, LinesKept
-----------------------------------------------------------------------------
(* The rounds of the RDMA collector: what an undisturbed one has expanded, it  *)
(* has found what it leads to in the tables, and the tables stay as they are.  *)

\* Every set of numbers has a least one: induction, for the first row of a key.
LEMMA LeastNumber == ASSUME NEW T \in SUBSET Nat, T # {}
                PROVE \E x \in T : \A y \in T : x <= y
<1>1. IsWellFoundedOn(OpToRel(<, Nat), Nat)
  BY NatLessThanWellFounded
<1>. DEFINE R == OpToRel(<, Nat)
<1>2. \A a, b \in Nat : <<a, b>> \in R <=> a < b
  BY DEF OpToRel
<1>. HIDE DEF R
<1>3. IsWellFoundedOn(R, Nat)
  BY <1>1 DEF R
<1>4. \E x \in T : \A y \in T : ~(<<y, x>> \in R)
  BY <1>3, WFMin
<1>5. PICK x \in T : \A y \in T : ~(<<y, x>> \in R)
  BY <1>4
<1>6. \A y \in T : x <= y
  <2>1. TAKE y \in T
  <2>2. x \in Nat /\ y \in Nat OBVIOUS
  <2>3. ~(y < x) BY <1>2, <1>5, <2>2
  <2>. QED BY <2>2, <2>3
<1>. QED BY <1>6

\* What is registered stays as it is, and what is new is made of a row.
Extends(registry, entries, outcome) ==
    /\ DOMAIN outcome = DOMAIN registry \cup {entries[i].key : i \in DOMAIN entries}
    /\ \A k \in DOMAIN registry : outcome[k] = registry[k]
    /\ \A k \in DOMAIN outcome \ DOMAIN registry :
         \E i \in DOMAIN entries : entries[i].key = k /\ outcome[k] = entries[i].value

LEMMA FirstOfExtends ==
    ASSUME NEW registry, NEW entries, DOMAIN entries \in SUBSET Nat
    PROVE  Extends(registry, entries, FirstOf(registry, entries))
<1>. DEFINE rowsOf(k) == {i \in DOMAIN entries : entries[i].key = k}
            keys == DOMAIN registry \cup {entries[i].key : i \in DOMAIN entries}
            outcome == [k \in keys |-> IF k \in DOMAIN registry THEN registry[k]
                                      ELSE entries[Min(rowsOf(k))].value]
<1>1. outcome = FirstOf(registry, entries)
  BY DEF FirstOf
<1>2. ASSUME NEW k \in keys \ DOMAIN registry
      PROVE  \E i \in DOMAIN entries : entries[i].key = k /\ outcome[k] = entries[i].value
  <2>1. rowsOf(k) # {} /\ rowsOf(k) \in SUBSET Nat
    OBVIOUS
  <2>2. \E x \in rowsOf(k) : \A y \in rowsOf(k) : x <= y
    BY <2>1, LeastNumber
  <2>3. Min(rowsOf(k)) \in rowsOf(k)
    BY <2>2 DEF Min
  <2>. QED  BY <2>3
<1>3. \A k \in DOMAIN registry : outcome[k] = registry[k]
  OBVIOUS
<1>4. DOMAIN outcome = keys
  OBVIOUS
<1>5. Extends(registry, entries, outcome)
  BY <1>2, <1>3, <1>4 DEF Extends
<1>. QED  BY <1>1, <1>5

\* A round that has begun and that nobody has disturbed.
Live(r) == todo[r] # {Unset} /\ ~disturbed[r]
Explored(r) == found[r] \ todo[r]

\* The queue pair that a number stands for has been found from this one.
Looked(r, e) ==
    LET n == qpEntities[e]
    IN n \in DOMAIN qpn2qp /\ (qpn2qp[n] = e \/ Edge("connect", e, qpn2qp[n]) \in edges[r])

TablesTyped ==
    /\ pds \in PdRecords /\ qps \in QpRecords /\ mrs \in MrRecords
    /\ \A n \in DOMAIN qpn2qp : qpn2qp[n] \in DOMAIN qpEntities /\ qpn2qp[n].id[2] = n
    /\ \A e \in DOMAIN qpEntities : e.kind = "qp"
GraphsTyped == \A r \in Rounds :
    /\ (todo[r] = {Unset} /\ edges[r] = {}) \/ todo[r] \subseteq found[r]
    /\ \A e \in found[r] : e.kind # "none" /\ (e.kind = "qp" => e \in DOMAIN qpEntities)
                           /\ (e.kind = "pd" => e \in DOMAIN pdEntities)
    /\ \A e \in edges[r] : {e.from, e.to} \subseteq found[r]

\* The processes of the cached tables are found, and so is what those expanded
\* lead to.
ProcessesFound(r) == \A i \in DOMAIN pds : Valid(pds[i]) => Process(pds[i].pid) \in found[r]
DomainsFound(r) == \A i \in DOMAIN pds :
    Process(pds[i].pid) \in Explored(r) => Domain(pds[i]) \in found[r]
QueuePairsFound(r) == \A e \in Explored(r) : e.kind = "pd" =>
    \A i \in QpsByPdn(e) : QueuePair(qps[i]) \in found[r]

\* Every queue pair found has its number known, and of two expanded that name
\* each other one has been looked up from the other.
NumbersKnown(r) == \A e \in found[r] : e.kind = "qp" => e.id[2] \in DOMAIN qpn2qp
PairsLooked(r) == \A a, b \in Explored(r) :
    /\ a.kind = "qp" /\ b.kind = "qp"
    /\ qpEntities[a] = b.id[2] /\ qpEntities[b] = a.id[2]
    => Looked(r, a) \/ Looked(r, b)

RoundInv(r) == Live(r) =>
    ProcessesFound(r) /\ DomainsFound(r) /\ QueuePairsFound(r) /\ NumbersKnown(r) /\ PairsLooked(r)

RoundsTyped == /\ DOMAIN todo = Rounds /\ DOMAIN found = Rounds /\ DOMAIN edges = Rounds
               /\ todo = [r \in Rounds |-> todo[r]] /\ found = [r \in Rounds |-> found[r]]
               /\ edges = [r \in Rounds |-> edges[r]] /\ disturbed = [r \in Rounds |-> disturbed[r]]

TopologyInv == RoundsTyped /\ TablesTyped /\ GraphsTyped /\ \A r \in Rounds : RoundInv(r)

LEMMA TopologyInitEstablishes == ASSUME TopologyInit PROVE TopologyInv
<1>1. DOMAIN qpn2qp = {} /\ DOMAIN qpEntities = {}
  BY DEF TopologyInit
<1>2. TablesTyped
  BY <1>1 DEF TopologyInit, TablesTyped
<1>3. RoundsTyped /\ GraphsTyped /\ \A r \in Rounds : RoundInv(r)
  BY DEF TopologyInit, RoundsTyped, GraphsTyped, RoundInv, Live
<1>. QED  BY <1>2, <1>3 DEF TopologyInv

LEMMA SeedKeeps == ASSUME TopologyInv, NEW r \in Rounds, Seed(r) PROVE TopologyInv'
<1>. DEFINE processes == {Process(p.pid) : p \in {q \in Range(pds) : Valid(q)}}
<1>1. /\ qpn2qp' = <<>> /\ todo[r] = {Unset}
      /\ todo' = [todo EXCEPT ![r] = processes] /\ found' = [found EXCEPT ![r] = processes]
      /\ disturbed' = [s \in Rounds |-> disturbed[s] \/ (s # r /\ todo[s] # {Unset})]
      /\ UNCHANGED <<pds, qps, mrs, pdEntities, qpEntities, edges, updates>>
  BY DEF Seed
<1>2. \A e \in processes : e.kind = "process"
  BY DEF Process
<1>3. \A i \in DOMAIN pds : Valid(pds[i]) => Process(pds[i].pid) \in processes
  BY DEF Range
<1>. HIDE DEF processes
<1>4. /\ todo'[r] = processes /\ found'[r] = processes
      /\ \A s \in Rounds \ {r} : todo'[s] = todo[s] /\ found'[s] = found[s]
      /\ \A s \in Rounds : edges'[s] = edges[s]
      /\ \A s \in Rounds \ {r} : todo[s] # {Unset} => disturbed'[s]
  BY <1>1 DEF TopologyInv, RoundsTyped
<1>5. edges[r] = {}
  <2>1. Unset.kind = "none"
    BY DEF Unset
  <2>. QED  BY <1>1, <2>1 DEF TopologyInv, GraphsTyped
<1>6. RoundsTyped'
  BY <1>1 DEF TopologyInv, RoundsTyped
<1>7. TablesTyped'
  <2>1. DOMAIN qpn2qp' = {}
    BY <1>1
  <2>. QED  BY <1>1, <2>1 DEF TopologyInv, TablesTyped
<1>8. GraphsTyped'
  BY <1>1, <1>2, <1>4, <1>5 DEF TopologyInv, GraphsTyped
<1>9. ASSUME NEW s \in Rounds, Live(s)' PROVE RoundInv(s)'
  <2>1. s = r
    BY <1>4, <1>9 DEF Live
  <2>2. Explored(r)' = {}
    BY <1>4 DEF Explored
  <2>. QED
    BY <1>1, <1>2, <1>3, <1>4, <2>1, <2>2 DEF RoundInv, ProcessesFound, DomainsFound,
       QueuePairsFound, NumbersKnown, PairsLooked
<1>. QED  BY <1>6, <1>7, <1>8, <1>9 DEF TopologyInv, RoundInv

LEMMA UpdateCacheKeeps == ASSUME TopologyInv, UpdateCache PROVE TopologyInv'
<1>1. /\ pds' \in PdRecords /\ qps' \in QpRecords /\ mrs' \in MrRecords
      /\ todo' = [r \in Rounds |-> IF todo[r] = {} THEN {Unset} ELSE todo[r]]
      /\ found' = [r \in Rounds |-> IF todo[r] = {} THEN {} ELSE found[r]]
      /\ edges' = [r \in Rounds |-> IF todo[r] = {} THEN {} ELSE edges[r]]
      /\ disturbed' = [r \in Rounds |-> todo[r] \notin {{}, {Unset}}]
      /\ UNCHANGED <<pdEntities, qpEntities, qpn2qp>>
  BY DEF UpdateCache
<1>2. RoundsTyped'
  BY <1>1 DEF RoundsTyped
<1>3. TablesTyped'
  BY <1>1 DEF TopologyInv, TablesTyped
<1>4. GraphsTyped'
  BY <1>1 DEF TopologyInv, GraphsTyped
<1>5. \A r \in Rounds : ~Live(r)'
  BY <1>1 DEF Live
<1>. QED  BY <1>2, <1>3, <1>4, <1>5 DEF TopologyInv, RoundInv

\* What every expansion leaves as it was, and what it owes to the entity.
Grown ==
    /\ DOMAIN pdEntities \subseteq DOMAIN pdEntities'
    /\ DOMAIN qpEntities \subseteq DOMAIN qpEntities'
    /\ DOMAIN qpn2qp \subseteq DOMAIN qpn2qp'
    /\ \A k \in DOMAIN pdEntities : pdEntities'[k] = pdEntities[k]
    /\ \A k \in DOMAIN qpEntities : qpEntities'[k] = qpEntities[k]
    /\ \A k \in DOMAIN qpn2qp : qpn2qp'[k] = qpn2qp[k]

Owed(e, neighbors, new_edges) ==
    /\ \A x \in neighbors :
         /\ x.kind # "none" /\ (x.kind = "pd" => x \in DOMAIN pdEntities')
         /\ x.kind = "qp" => x \in DOMAIN qpEntities' /\ x.id[2] \in DOMAIN qpn2qp'
    /\ \A x \in new_edges : {x.from, x.to} \subseteq neighbors \cup {e}
    /\ \A i \in DOMAIN pds : Process(pds[i].pid) = e => Domain(pds[i]) \in neighbors
    /\ e.kind = "pd" => \A i \in QpsByPdn(e) : QueuePair(qps[i]) \in neighbors
    /\ e.kind = "qp" /\ qpEntities[e] \in DOMAIN qpn2qp =>
          qpn2qp[qpEntities[e]] = e \/ Edge("connect", e, qpn2qp[qpEntities[e]]) \in new_edges

LEMMA ExpansionKeeps ==
    ASSUME TopologyInv, NEW r \in Rounds, NEW e \in todo[r], e.kind # "none",
           NEW neighbors, NEW new_edges, Expanded(r, e, neighbors, new_edges),
           Grown, Owed(e, neighbors, new_edges), TablesTyped'
    PROVE  TopologyInv'
<1>1. /\ todo' = [todo EXCEPT ![r] = (@ \ {e}) \cup (neighbors \ found[r])]
      /\ found' = [found EXCEPT ![r] = @ \cup neighbors]
      /\ edges' = [edges EXCEPT ![r] = @ \cup new_edges]
      /\ UNCHANGED <<pds, qps, mrs, updates, disturbed>>
  BY DEF Expanded
<1>2. /\ todo'[r] = (todo[r] \ {e}) \cup (neighbors \ found[r])
      /\ found'[r] = found[r] \cup neighbors
      /\ edges'[r] = edges[r] \cup new_edges
      /\ \A s \in Rounds \ {r} : todo'[s] = todo[s] /\ found'[s] = found[s] /\ edges'[s] = edges[s]
  BY <1>1 DEF TopologyInv, RoundsTyped
<1>3. RoundsTyped'
  BY <1>1 DEF TopologyInv, RoundsTyped
<1>4. todo[r] \subseteq found[r] /\ todo[r] # {Unset} /\ e \in found[r]
  BY DEF TopologyInv, GraphsTyped, Unset
<1>5. GraphsTyped'
  <2>1. ASSUME NEW s \in Rounds PROVE
          \A x \in found'[s] : x.kind # "none" /\ (x.kind = "qp" => x \in DOMAIN qpEntities')
                                 /\ (x.kind = "pd" => x \in DOMAIN pdEntities')
    BY <1>2 DEF TopologyInv, GraphsTyped, Grown, Owed
  <2>2. ASSUME NEW s \in Rounds PROVE
          /\ (todo'[s] = {Unset} /\ edges'[s] = {}) \/ todo'[s] \subseteq found'[s]
          /\ \A x \in edges'[s] : {x.from, x.to} \subseteq found'[s]
    <3>1. CASE s = r
      <4>1. \A x \in edges[r] : {x.from, x.to} \subseteq found[r]
        BY DEF TopologyInv, GraphsTyped
      <4>2. \A x \in new_edges : {x.from, x.to} \subseteq neighbors \cup {e}
        BY DEF Owed
      <4>. QED  BY <1>2, <1>4, <3>1, <4>1, <4>2
    <3>2. CASE s # r
      BY <1>2, <3>2 DEF TopologyInv, GraphsTyped
    <3>. QED  BY <3>1, <3>2
  <2>. QED  BY <2>1, <2>2 DEF GraphsTyped
<1>6. ASSUME NEW s \in Rounds, NEW x \in found[s], x.kind = "qp", Looked(s, x) PROVE Looked(s, x)'
  <2>. DEFINE n == qpEntities[x]
  <2>1. qpEntities'[x] = n
    BY <1>6 DEF TopologyInv, GraphsTyped, Grown
  <2>2. n \in DOMAIN qpn2qp /\ (qpn2qp[n] = x \/ Edge("connect", x, qpn2qp[n]) \in edges[s])
    BY <1>6 DEF Looked
  <2>3. n \in DOMAIN qpn2qp' /\ qpn2qp'[n] = qpn2qp[n]
    BY <2>2 DEF Grown
  <2>4. edges[s] \subseteq edges'[s]
    BY <1>2
  <2>. HIDE DEF n
  <2>. QED  BY <2>1, <2>2, <2>3, <2>4 DEF Looked, Edge
<1>7. ASSUME NEW s \in Rounds, Live(s)' PROVE RoundInv(s)'
  <2>1. Live(s)
    BY <1>1, <1>2, <1>4, <1>7 DEF Live
  <2>2. ProcessesFound(s) /\ DomainsFound(s) /\ QueuePairsFound(s) /\ NumbersKnown(s) /\ PairsLooked(s)
    BY <2>1 DEF TopologyInv, RoundInv
  <2>3. found[s] \subseteq found'[s] /\ Explored(s)' \subseteq Explored(s) \cup {x \in {e} : s = r}
        /\ (\A x \in found'[s] : x \in found[s] \/ (s = r /\ x \in neighbors))
    BY <1>2, <1>4 DEF Explored
  <2>4. ProcessesFound(s)'
    BY <1>1, <2>2, <2>3 DEF ProcessesFound
  <2>5. DomainsFound(s)'
    <3>1. ASSUME NEW i \in DOMAIN pds, Process(pds[i].pid) \in Explored(s)'
          PROVE  Domain(pds[i]) \in found'[s]
      <4>1. CASE Process(pds[i].pid) \in Explored(s)
        BY <2>2, <2>3, <4>1 DEF DomainsFound
      <4>2. CASE Process(pds[i].pid) = e /\ s = r
        BY <1>2, <4>2 DEF Owed
      <4>. QED  BY <2>3, <3>1, <4>1, <4>2
    <3>. QED  BY <1>1, <3>1 DEF DomainsFound
  <2>6. QueuePairsFound(s)'
    <3>1. ASSUME NEW x \in Explored(s)', x.kind = "pd", NEW i \in QpsByPdn(x)'
          PROVE  QueuePair(qps[i]) \in found'[s]
      <4>1. x \in found[s]
        BY <1>4, <2>3 DEF Explored
      <4>2. pdEntities'[x] = pdEntities[x]
        BY <3>1, <4>1 DEF TopologyInv, GraphsTyped, Grown
      <4>3. i \in QpsByPdn(x)
        BY <1>1, <4>2 DEF QpsByPdn, OnDomain
      <4>4. CASE x \in Explored(s)
        BY <2>2, <2>3, <3>1, <4>3, <4>4 DEF QueuePairsFound
      <4>5. CASE x = e /\ s = r
        BY <1>2, <3>1, <4>3, <4>5 DEF Owed
      <4>. QED  BY <2>3, <4>4, <4>5
    <3>. QED  BY <1>1, <3>1 DEF QueuePairsFound
  <2>7. NumbersKnown(s)'
    BY <2>2, <2>3 DEF NumbersKnown, Grown, Owed
  <2>8. PairsLooked(s)'
    <3>1. ASSUME NEW a \in Explored(s)', NEW b \in Explored(s)', a.kind = "qp", b.kind = "qp",
                 qpEntities'[a] = b.id[2], qpEntities'[b] = a.id[2]
          PROVE  Looked(s, a)' \/ Looked(s, b)'
      <4>1. a \in found[s] /\ b \in found[s]
        BY <1>4, <2>3 DEF Explored
      <4>2. qpEntities'[a] = qpEntities[a] /\ qpEntities'[b] = qpEntities[b]
        BY <3>1, <4>1 DEF TopologyInv, GraphsTyped, Grown
      <4>3. a.id[2] \in DOMAIN qpn2qp /\ b.id[2] \in DOMAIN qpn2qp
        BY <2>2, <3>1, <4>1 DEF NumbersKnown
      <4>4. CASE a \in Explored(s) /\ b \in Explored(s)
        BY <1>6, <2>2, <3>1, <4>1, <4>2, <4>4 DEF PairsLooked
      <4>5. ASSUME s = r, NEW x \in {a, b}, x = e PROVE Looked(s, x)'
        <5>. DEFINE n == qpEntities[x]
        <5>1. x.kind = "qp" /\ n \in DOMAIN qpn2qp /\ qpEntities'[x] = n
          BY <3>1, <4>2, <4>3
        <5>2. qpn2qp[n] = x \/ Edge("connect", x, qpn2qp[n]) \in new_edges
          BY <4>5, <5>1 DEF Owed
        <5>3. n \in DOMAIN qpn2qp' /\ qpn2qp'[n] = qpn2qp[n]
          BY <5>1 DEF Grown
        <5>. HIDE DEF n
        <5>. QED  BY <1>2, <4>5, <5>1, <5>2, <5>3 DEF Looked, Edge
      <4>. QED  BY <2>3, <4>4, <4>5
    <3>. QED  BY <3>1 DEF PairsLooked
  <2>. QED  BY <2>4, <2>5, <2>6, <2>7, <2>8 DEF RoundInv
<1>. QED  BY <1>3, <1>5, <1>7 DEF TopologyInv, RoundInv

\* What is registered of rows adds to a registry.
LEMMA RegisteredGrows ==
    ASSUME NEW registry, NEW entries, NEW outcome, Extends(registry, entries, outcome)
    PROVE  /\ DOMAIN registry \subseteq DOMAIN outcome
           /\ \A k \in DOMAIN registry : outcome[k] = registry[k]
           /\ \A i \in DOMAIN entries : entries[i].key \in DOMAIN outcome
BY DEF Extends

LEMMA RowsAreNumbered ==
    ASSUME TopologyInv
    PROVE  /\ DOMAIN pds \in SUBSET Nat /\ DOMAIN qps \in SUBSET Nat
           /\ \A pid : PdsByPid(pid) \in SUBSET Nat
           /\ \A e : QpsByPdn(e) \in SUBSET Nat
<1>1. pds \in Seq(Range(pds)) /\ qps \in Seq(Range(qps))
  BY TablesAssumption DEF TopologyInv, TablesTyped
<1>2. DOMAIN pds \in SUBSET Nat /\ DOMAIN qps \in SUBSET Nat
  BY <1>1
<1>. QED  BY <1>2 DEF PdsByPid, QpsByPdn

LEMMA ExpandProcessKeeps ==
    ASSUME TopologyInv, NEW r \in Rounds, NEW e \in todo[r], ExpandProcess(r, e)
    PROVE  TopologyInv'
<1>. DEFINE own == PdsByPid(e.id[1])
            domains == {Domain(pds[i]) : i \in own}
            owned == {Edge("own", e, d) : d \in domains}
            entries == [i \in own |-> [key |-> Domain(pds[i]), value |-> pds[i].dev]]
<1>1. /\ e.kind = "process" /\ pdEntities' = FirstOf(pdEntities, entries)
      /\ Expanded(r, e, domains, owned) /\ UNCHANGED <<qpEntities, qpn2qp>>
  BY DEF ExpandProcess
<1>2. Extends(pdEntities, entries, pdEntities')
  BY <1>1, FirstOfExtends, RowsAreNumbered
<1>3. \A i \in own : entries[i].key = Domain(pds[i]) /\ i \in DOMAIN entries
  OBVIOUS
<1>4. \A d \in domains : d \in DOMAIN pdEntities' /\ d.kind = "pd"
  <2>1. TAKE d \in domains
  <2>2. PICK i \in own : d = Domain(pds[i])
    OBVIOUS
  <2>. QED  BY <1>2, <1>3, <2>2, RegisteredGrows DEF Domain
<1>5. Grown
  BY <1>1, <1>2, RegisteredGrows DEF Grown
<1>6. \A i \in DOMAIN pds : Process(pds[i].pid) = e => Domain(pds[i]) \in domains
  <2>1. ASSUME NEW i \in DOMAIN pds, Process(pds[i].pid) = e PROVE i \in own
    BY <2>1 DEF Process, PdsByPid
  <2>. QED  BY <2>1
<1>7. \A x \in owned : {x.from, x.to} \subseteq domains \cup {e}
  BY DEF Edge
<1>8. TablesTyped'
  BY <1>1 DEF TopologyInv, TablesTyped, Expanded
<1>. HIDE DEF domains, owned, entries
<1>9. Owed(e, domains, owned)
  BY <1>1, <1>4, <1>6, <1>7 DEF Owed
<1>. QED  BY <1>1, <1>5, <1>8, <1>9, ExpansionKeeps

LEMMA ExpandDomainKeeps ==
    ASSUME TopologyInv, NEW r \in Rounds, NEW e \in todo[r], ExpandDomain(r, e)
    PROVE  TopologyInv'
<1>. DEFINE device == Device(pdEntities[e])
            pairs == QpsByPdn(e)
            queues == {QueuePair(qps[i]) : i \in pairs}
            owned == queues \cup {Region(mrs[i]) : i \in MrsByPdn(e)}
            new_edges == {Edge("own", e, o) : o \in owned} \cup {Edge("access", e, device)}
            entries == [i \in pairs |-> [key |-> QueuePair(qps[i]), value |-> qps[i].rqpn]]
            numbered == [i \in pairs |-> [key |-> qps[i].lqpn, value |-> QueuePair(qps[i])]]
<1>1. /\ e.kind = "pd" /\ UNCHANGED pdEntities
      /\ qpEntities' = FirstOf(qpEntities, entries) /\ qpn2qp' = FirstOf(qpn2qp, numbered)
      /\ Expanded(r, e, owned \cup {device}, new_edges)
  BY DEF ExpandDomain
<1>2. Extends(qpEntities, entries, qpEntities') /\ Extends(qpn2qp, numbered, qpn2qp')
  BY <1>1, FirstOfExtends, RowsAreNumbered
<1>3. /\ \A i \in pairs : entries[i].key = QueuePair(qps[i]) /\ i \in DOMAIN entries
      /\ \A i \in pairs : /\ numbered[i].key = qps[i].lqpn /\ numbered[i].value = QueuePair(qps[i])
                          /\ i \in DOMAIN numbered
      /\ DOMAIN entries = pairs /\ DOMAIN numbered = pairs
  OBVIOUS
<1>4. \A q : QueuePair(q).kind = "qp" /\ QueuePair(q).id[2] = q.lqpn
  BY DEF QueuePair
<1>5. Grown
  <2>1. DOMAIN qpEntities \subseteq DOMAIN qpEntities'
        /\ \A k \in DOMAIN qpEntities : qpEntities'[k] = qpEntities[k]
    BY <1>2, RegisteredGrows
  <2>2. DOMAIN qpn2qp \subseteq DOMAIN qpn2qp' /\ \A k \in DOMAIN qpn2qp : qpn2qp'[k] = qpn2qp[k]
    BY <1>2, RegisteredGrows
  <2>. QED  BY <1>1, <2>1, <2>2 DEF Grown
<1>6. \A x \in queues : x.kind = "qp" /\ x \in DOMAIN qpEntities' /\ x.id[2] \in DOMAIN qpn2qp'
  <2>1. TAKE x \in queues
  <2>2. PICK i \in pairs : x = QueuePair(qps[i])
    OBVIOUS
  <2>. QED  BY <1>2, <1>3, <1>4, <2>2, RegisteredGrows
<1>7. \A x \in {Region(mrs[i]) : i \in MrsByPdn(e)} \cup {device} : x.kind \in {"mr", "device"}
  BY DEF Region, Device
<1>8. TablesTyped'
  <2>1. ASSUME NEW n \in DOMAIN qpn2qp' PROVE qpn2qp'[n] \in DOMAIN qpEntities' /\ qpn2qp'[n].id[2] = n
    <3>1. CASE n \in DOMAIN qpn2qp
      BY <1>5, <3>1 DEF Grown, TopologyInv, TablesTyped
    <3>2. CASE n \notin DOMAIN qpn2qp
      <4>1. PICK i \in pairs : numbered[i].key = n /\ qpn2qp'[n] = numbered[i].value
        BY <1>2, <1>3, <3>2 DEF Extends
      <4>2. qpn2qp'[n] = QueuePair(qps[i]) /\ qps[i].lqpn = n
        BY <1>3, <4>1
      <4>. QED  BY <1>4, <1>6, <4>2
    <3>. QED  BY <3>1, <3>2
  <2>2. ASSUME NEW x \in DOMAIN qpEntities' PROVE x.kind = "qp"
    <3>1. x \in DOMAIN qpEntities \/ \E i \in pairs : entries[i].key = x
      BY <1>2, <1>3 DEF Extends
    <3>. QED  BY <1>3, <1>4, <3>1 DEF TopologyInv, TablesTyped
  <2>3. UNCHANGED <<pds, qps, mrs>>
    BY <1>1 DEF Expanded
  <2>. QED  BY <2>1, <2>2, <2>3 DEF TopologyInv, TablesTyped
<1>9. \A x \in new_edges : {x.from, x.to} \subseteq owned \cup {device} \cup {e}
  BY DEF Edge
<1>10. \A i \in QpsByPdn(e) : QueuePair(qps[i]) \in owned \cup {device}
  OBVIOUS
<1>11. \A i \in DOMAIN pds : Process(pds[i].pid) # e
  BY <1>1 DEF Process
<1>12. \A x \in owned \cup {device} :
         x \in queues \/ x \in {Region(mrs[i]) : i \in MrsByPdn(e)} \cup {device}
  OBVIOUS
<1>. HIDE DEF device, queues, owned, new_edges, entries, numbered
<1>13. Owed(e, owned \cup {device}, new_edges)
  BY <1>1, <1>6, <1>7, <1>9, <1>10, <1>11, <1>12 DEF Owed
<1>. QED  BY <1>1, <1>5, <1>8, <1>13, ExpansionKeeps

LEMMA ExpandQueuePairKeeps ==
    ASSUME TopologyInv, NEW r \in Rounds, NEW e \in todo[r], ExpandQueuePair(r, e)
    PROVE  TopologyInv'
<1>. DEFINE rest == {qpn2qp[n] : n \in DOMAIN qpn2qp \cap {qpEntities[e]}} \ {e}
            new_edges == {Edge("connect", e, o) : o \in rest}
<1>1. /\ e.kind = "qp" /\ Expanded(r, e, rest, new_edges)
      /\ UNCHANGED <<pdEntities, qpEntities, qpn2qp>>
  BY DEF ExpandQueuePair
<1>2. Grown
  BY <1>1 DEF Grown
<1>3. TablesTyped'
  BY <1>1 DEF TopologyInv, TablesTyped, Expanded
<1>4. \A x \in rest : x.kind = "qp" /\ x \in DOMAIN qpEntities' /\ x.id[2] \in DOMAIN qpn2qp'
  BY <1>1 DEF TopologyInv, TablesTyped
<1>5. \A x \in new_edges : {x.from, x.to} \subseteq rest \cup {e}
  BY DEF Edge
<1>6. \A i \in DOMAIN pds : Process(pds[i].pid) # e
  BY <1>1 DEF Process
<1>7. qpEntities[e] \in DOMAIN qpn2qp =>
          qpn2qp[qpEntities[e]] = e \/ Edge("connect", e, qpn2qp[qpEntities[e]]) \in new_edges
  OBVIOUS
<1>. HIDE DEF rest, new_edges
<1>8. Owed(e, rest, new_edges)
  BY <1>1, <1>4, <1>5, <1>6, <1>7 DEF Owed
<1>. QED  BY <1>1, <1>2, <1>3, <1>8, ExpansionKeeps

LEMMA ExpandRestKeeps ==
    ASSUME TopologyInv, NEW r \in Rounds, NEW e \in todo[r], ExpandDevice(r, e) \/ ExpandOther(r, e)
    PROVE  TopologyInv'
<1>1. UNCHANGED <<pdEntities, qpEntities, qpn2qp>> /\ e.kind \in {"device", "mr", "stat"}
  BY DEF ExpandDevice, ExpandOther
<1>2. \A i \in DOMAIN pds : Process(pds[i].pid) # e
  BY <1>1 DEF Process
<1>3. Grown
  BY <1>1 DEF Grown
<1>4. CASE ExpandOther(r, e)
  <2>1. Expanded(r, e, {}, {})
    BY <1>4 DEF ExpandOther
  <2>2. Owed(e, {}, {})
    BY <1>1, <1>2 DEF Owed
  <2>3. TablesTyped'
    BY <1>1, <2>1 DEF TopologyInv, TablesTyped, Expanded
  <2>. QED  BY <1>1, <1>3, <2>1, <2>2, <2>3, ExpansionKeeps
<1>5. CASE ExpandDevice(r, e)
  <2>. DEFINE own == {i \in DOMAIN Ports : Ports[i][1] = e.id[1]}
              stats == IF own = {} THEN {} ELSE {Statistic(Ports[Min(own)])}
              new_edges == {Edge("has", e, s) : s \in stats}
  <2>1. Expanded(r, e, stats, new_edges)
    BY <1>5 DEF ExpandDevice
  <2>2. \A x \in stats : x.kind = "stat"
    BY DEF Statistic
  <2>3. \A x \in new_edges : {x.from, x.to} \subseteq stats \cup {e}
    BY DEF Edge
  <2>. HIDE DEF stats, new_edges
  <2>4. Owed(e, stats, new_edges)
    BY <1>1, <1>2, <2>2, <2>3 DEF Owed
  <2>5. TablesTyped'
    BY <1>1, <2>1 DEF TopologyInv, TablesTyped, Expanded
  <2>. QED  BY <1>1, <1>3, <2>1, <2>4, <2>5, ExpansionKeeps
<1>. QED  BY <1>4, <1>5

LEMMA TopologyStutter == ASSUME TopologyInv, UNCHANGED topology_vars PROVE TopologyInv'
BY DEF topology_vars, TopologyInv, RoundsTyped, TablesTyped, GraphsTyped, RoundInv, Live, Explored,
       Looked, ProcessesFound, DomainsFound, QueuePairsFound, QpsByPdn, OnDomain, NumbersKnown,
       PairsLooked

\* What the invariant says of a round that has ended.
LEMMA InvFindsConnections == TopologyInv => ConnectionsFound
<1>. SUFFICES ASSUME TopologyInv, NEW r \in Rounds, Finished(r), ~disturbed[r],
                     NEW a \in found[r] \cap DOMAIN qpEntities,
                     NEW b \in found[r] \cap DOMAIN qpEntities,
                     a # b, qpEntities[a] = b.id[2], qpEntities[b] = a.id[2],
                     \A q \in DOMAIN qpEntities \ {a, b} : q.id[2] \notin {a.id[2], b.id[2]}
              PROVE  {Edge("connect", a, b), Edge("connect", b, a)} \cap edges[r] # {}
  BY DEF ConnectionsFound
<1>1. Live(r) /\ a \in Explored(r) /\ b \in Explored(r) /\ a.kind = "qp" /\ b.kind = "qp"
  BY DEF Finished, Live, Explored, TopologyInv, TablesTyped
<1>2. PairsLooked(r)
  BY <1>1 DEF TopologyInv, RoundInv
<1>3. \A n \in DOMAIN qpn2qp : n \in {a.id[2], b.id[2]} => qpn2qp[n] \in {a, b} /\ qpn2qp[n].id[2] = n
  BY DEF TopologyInv, TablesTyped
<1>4. CASE a.id[2] = b.id[2]
  <2>1. Looked(r, a) /\ Looked(r, b)
    BY <1>1, <1>2, <1>4 DEF PairsLooked
  <2>. QED  BY <1>3, <1>4, <2>1 DEF Looked
<1>5. CASE a.id[2] # b.id[2]
  <2>1. Looked(r, a) \/ Looked(r, b)
    BY <1>1, <1>2 DEF PairsLooked
  <2>. QED  BY <1>3, <1>5, <2>1 DEF Looked
<1>. QED  BY <1>4, <1>5

LEMMA InvFindsPairs == TopologyInv => PairsFound
<1>. SUFFICES ASSUME TopologyInv, NEW r \in Rounds, Finished(r), ~disturbed[r],
                     NEW q \in Range(qps), NEW p \in Range(pds), Valid(p),
                     Domain(p) = Domain(q), pdEntities[Domain(q)] = q.dev
              PROVE  QueuePair(q) \in found[r]
  BY DEF PairsFound
<1>1. PICK i \in DOMAIN pds : p = pds[i]
  BY DEF Range
<1>2. PICK j \in DOMAIN qps : q = qps[j]
  BY DEF Range
<1>3. Live(r) /\ Explored(r) = found[r]
  BY DEF Finished, Live, Explored
<1>4. ProcessesFound(r) /\ DomainsFound(r) /\ QueuePairsFound(r)
  BY <1>3 DEF TopologyInv, RoundInv
<1>5. Domain(p) \in found[r]
  BY <1>1, <1>3, <1>4 DEF ProcessesFound, DomainsFound
<1>6. Domain(q).kind = "pd" /\ Domain(q).id[2] = q.pdn
  BY DEF Domain
<1>7. j \in QpsByPdn(Domain(q))
  BY <1>2, <1>6 DEF QpsByPdn, OnDomain
<1>. QED  BY <1>2, <1>3, <1>4, <1>5, <1>6, <1>7 DEF QueuePairsFound
-----------------------------------------------------------------------------
(* The theorems. *)

\* The invariant of the probes holds in every state: what is known of the
\* arguments of each call at each point of it.
THEOREM ProbesInvariance == ProbesSpec => []ProbesInv
<1>1. ProbesInv /\ [ProbesNext]_probes_vars => ProbesInv'
  BY EnterKeeps, ReturnKeeps, DeleteFirstKeeps, UseKeeps, UseAndDeleteKeeps, NotCountedKeeps,
     ProbesStutterKeeps DEF ProbesNext
<1>. QED  BY ProbesInitEstablishes, <1>1, PTL DEF ProbesSpec

\* The eBPF programs count a call on the object it was made on, for as many
\* threads, objects and elements as there may be, unless an element is given to
\* another call while in use or a program asks at the entry about one direction.
THEOREM CallsCounted == ProbesSpec => []CallsAttributed
BY ProbesInvariance, PTL DEF ProbesInv

\* Only the programs that ignore a call that did nothing leave arguments behind.
THEOREM ArgumentsFreed == ProbesSpec => []ArgsFreed
<1>1. ProbesInv => ArgsFreed
  BY ProbesAssumption DEF ProbesInv, CallsTyped, Left, Own, ArgsFreed
<1>. QED  BY ProbesInvariance, <1>1, PTL

LEMMA ProbesTyped == ASSUME ProbesInv, kind \in ProbeKinds, enabled \subseteq Directions,
                            calls \in 0..MaxCalls
                     PROVE  ProbesTypeOK
<1>1. \A s \in ArgSlots : args[s].thread \in CallThreads \cup {NoThread}
  BY DEF ProbesInv, CallsTyped
<1>2. ASSUME NEW u \in CallThreads PROVE Cardinality(Own(u)) <= 1
  <2>1. \A r, s \in Own(u) : r = s
    BY ProbesAssumption DEF ProbesInv, OneElement, Own
  <2>2. CASE Own(u) = {}
    BY <2>2, FS_EmptySet
  <2>3. CASE Own(u) # {}
    <3>1. PICK s \in Own(u) : TRUE
      BY <2>3
    <3>2. Own(u) = {s}
      BY <2>1, <3>1
    <3>3. Cardinality(Own(u)) = 1
      BY <3>2, FS_Singleton
    <3>. QED  BY <3>3
  <2>. QED  BY <2>2, <2>3
<1>. QED  BY <1>1, <1>2 DEF ProbesTypeOK

\* No thread has two elements for its arguments.
THEOREM ProbesTypeCorrect == ProbesSpec => []ProbesTypeOK
<1>. DEFINE Small == kind \in ProbeKinds /\ enabled \subseteq Directions /\ calls \in 0..MaxCalls
<1>1. ProbesInit => Small
  BY ProbesAssumption DEF ProbesInit
<1>2. Small /\ [ProbesNext]_probes_vars => Small'
  <2>1. SUFFICES ASSUME Small, [ProbesNext]_probes_vars PROVE Small'
    OBVIOUS
  <2>2. kind' = kind /\ enabled' = enabled
    BY <2>1 DEF ProbesNext, probes_vars, Enter, Return, DeleteFirst, Use, UseAndDelete, NotCounted
  <2>3. calls' = calls \/ (calls < MaxCalls /\ calls' = calls + 1)
    BY <2>1 DEF ProbesNext, probes_vars, Enter, Return, DeleteFirst, Use, UseAndDelete, NotCounted
  <2>. QED  BY <2>1, <2>2, <2>3, ProbesAssumption
<1>3. Small /\ ProbesInv => ProbesTypeOK
  BY ProbesTyped
<1>. QED  BY <1>1, <1>2, <1>3, ProbesInvariance, PTL DEF ProbesSpec

\* The programs that run are those of the session, and a stop comes to each.
THEOREM IpcInvariance == IpcSpec => []IpcInv
<1>1. IpcInv /\ [IpcNext]_ipc_vars => IpcInv'
  BY StartKeeps, StopKeeps, IpcOthersKeep DEF IpcNext, OwnerStep
<1>. QED  BY IpcInitEstablishes, <1>1, PTL DEF IpcSpec

\* No program of an IPC sniffer outlives the session it was started in, for as
\* many kinds and sessions as there may be.
THEOREM ProgramsStop == IpcSpec => []NoProgramLeft
BY IpcInvariance, PTL DEF IpcInv

\* Who collects reads what the programs printed: the streams and the buffer
\* hold it, and the calls of the collector are what they are thought to be.
THEOREM StreamsInvariance == IpcSpec => []StreamsInv
<1>1. StreamsInv /\ [IpcNext]_ipc_vars => StreamsInv'
  BY StreamsOfOwner, StreamsOfPrograms, StreamsOfCollection, StreamsOfRead, StreamsStutter
     DEF IpcNext, CollectingStep
<1>. QED  BY StreamsInit, <1>1, PTL DEF IpcSpec

\* Every line of a sniffer is parsed once, in order and whole, however much of
\* it each read finds and whatever starts and stops come in between.
THEOREM LinesReachEvents == IpcSpec => []LinesKept
BY StreamsInvariance, PTL DEF StreamsInv

\* The types of the IPC collector's state.
THEOREM IpcTypeCorrect == IpcSpec => []IpcTypeOK
<1>1. IpcInv /\ StreamsInv => IpcTypeOK
  BY DEF IpcInv, ProgramsTyped, StreamsInv, CallsOfIpcTyped, IpcTypeOK
<1>2. IpcSpec => []IpcInv
  BY IpcInvariance
<1>. QED  BY StreamsInvariance, <1>1, <1>2, PTL

\* What a round that nobody disturbed has expanded, it has found all of: in
\* whatever order entities are expanded and caches and rounds come in between.
THEOREM TopologyInvariance == TopologySpec => []TopologyInv
<1>1. TopologyInv /\ [TopologyNext]_topology_vars => TopologyInv'
  BY SeedKeeps, UpdateCacheKeeps, ExpandProcessKeeps, ExpandDomainKeeps, ExpandQueuePairKeeps,
     ExpandRestKeeps, TopologyStutter DEF TopologyNext
<1>. QED  BY TopologyInitEstablishes, <1>1, PTL DEF TopologySpec

\* Two queue pairs that name each other are connected in the graph of a round
\* that nobody disturbed, for any tables: the one that is expanded last finds
\* the other.
THEOREM RdmaFindsConnections == TopologySpec => []ConnectionsFound
BY TopologyInvariance, InvFindsConnections, PTL

\* A queue pair of a valid domain is in the graph of such a round, for any tables.
THEOREM RdmaFindsPairs == TopologySpec => []PairsFound
BY TopologyInvariance, InvFindsPairs, PTL

\* Numbers stand for queue pairs that are registered, and edges join entities
\* of the graph.
THEOREM TopologyTypeCorrect == TopologySpec => []TopologyTypeOK
<1>1. TopologyInv => TopologyTypeOK
  BY DEF TopologyInv, TablesTyped, GraphsTyped, TopologyTypeOK
<1>. QED  BY TopologyInvariance, <1>1, PTL

-----------------------------------------------------------------------------
(* The sniffers' frames. *)

FrameRows == [task : Tasks, rows : SUBSET Nat, end : 1..LastTime]
Frames == Seq(FrameRows)

\* The rows of a finite set, each in one place of a sequence.
LEMMA Listing ==
    ASSUME NEW S, IsFiniteSet(S)
    PROVE  /\ SetToSeq(S) \in [1..Cardinality(S) -> S] /\ Cardinality(S) \in Nat
           /\ \A i, j \in 1..Cardinality(S) : SetToSeq(S)[i] = SetToSeq(S)[j] => i = j
           /\ \A x \in S : \E i \in 1..Cardinality(S) : SetToSeq(S)[i] = x
<1>. DEFINE n == Cardinality(S)
<1>1. n \in Nat /\ ExistsBijection(1..n, S)
  BY FS_CardinalityType
<1>2. \E f \in [1..n -> S] : IsInjective(f)
  BY <1>1 DEF ExistsBijection, Bijection, Injection
<1>3. SetToSeq(S) \in [1..n -> S] /\ IsInjective(SetToSeq(S))
  BY <1>2 DEF SetToSeq
<1>. DEFINE f == SetToSeq(S)
<1>4. f \in Injection(1..n, S)
  BY <1>3 DEF Injection
<1>. HIDE DEF f
<1>5. IsFiniteSet(1..n) /\ Cardinality(1..n) = n
  BY <1>1, FS_Interval
<1>6. f \in Surjection(1..n, S)
  BY <1>1, <1>4, <1>5, FS_Injection
<1>7. \A x \in S : \E i \in 1..n : f[i] = x
  BY <1>6 DEF Surjection
<1>8. \A i, j \in 1..n : f[i] = f[j] => i = j
  BY <1>3 DEF f, IsInjective
<1>. QED  BY <1>1, <1>3, <1>7, <1>8 DEF f

LEMMA Largest ==
    ASSUME NEW limit \in Nat, NEW T \in SUBSET (1..limit), T # {}
    PROVE  Max(T) \in T /\ \A y \in T : Max(T) >= y
<1>. DEFINE R == OpToRel(<, Nat)
            D == {limit - y : y \in T}
<1>1. IsWellFoundedOn(R, Nat)
  BY NatLessThanWellFounded
<1>2. \A a, b \in Nat : <<a, b>> \in R <=> a < b
  BY DEF OpToRel
<1>3. \A y \in T : y \in Nat /\ limit - y \in Nat
  OBVIOUS
<1>4. D \in SUBSET Nat /\ D # {} /\ \A y \in T : limit - y \in D
  BY <1>3
<1>. HIDE DEF R
<1>5. PICK d \in D : \A e \in D : ~(<<e, d>> \in R)
  BY <1>1, <1>4, WFMin
<1>6. PICK x \in T : d = limit - x
  BY <1>5
<1>7. \A y \in T : ~(limit - y < limit - x)
  BY <1>2, <1>3, <1>4, <1>5, <1>6
<1>8. \A y \in T : x >= y
  BY <1>3, <1>7
<1>. QED  BY <1>8 DEF Max

LEMMA Greatest ==
    ASSUME NEW T \in SUBSET (1..LastTime), T # {}
    PROVE  Max(T) \in T /\ \A y \in T : Max(T) >= y
BY Largest, SnifferAssumption

\* What is known of a frame and of one made of it.
LEMMA EndsTyped == ASSUME NEW f \in Frames PROVE Ends(f) \in SUBSET (1..LastTime)
<1>1. ASSUME NEW i \in DOMAIN f PROVE f[i].end \in 1..LastTime
  <2>1. f[i] \in FrameRows
    BY DEF Frames
  <2>. QED  BY <2>1 DEF FrameRows
<1>. QED  BY <1>1 DEF Ends

LEMMA FramesFinite ==
    ASSUME NEW f \in Frames
    PROVE  IsFiniteSet(DOMAIN f) /\ \A P \in SUBSET DOMAIN f : IsFiniteSet(P)
<1>1. DOMAIN f = 1..Len(f) /\ Len(f) \in Nat
  BY DEF Frames
<1>2. IsFiniteSet(DOMAIN f)
  BY <1>1, FS_Interval
<1>. QED  BY <1>2, FS_Subset

\* Later(f, g): the rows of g are among those of f, none twice if none was, and
\* none ends later than the entry it is in.
Made(f, g) ==
    /\ g \in Frames
    /\ Disjoint(f) => Disjoint(g)
    /\ Rows(g) \subseteq Rows(f)

LEMMA KeptMade ==
    ASSUME NEW f \in Frames, NEW P \in SUBSET DOMAIN f
    PROVE  /\ Made(f, Kept(f, P))
           /\ \A j \in DOMAIN Kept(f, P) : \E i \in P : Kept(f, P)[j] = f[i]
           /\ \A i \in P : \E j \in DOMAIN Kept(f, P) : Kept(f, P)[j] = f[i]
<1>. DEFINE n == Cardinality(P)
            o == SetToSeq(P)
            g == [i \in 1..n |-> f[o[i]]]
<1>1. IsFiniteSet(P)
  BY FramesFinite
<1>2. /\ o \in [1..n -> P] /\ n \in Nat
      /\ \A i, j \in 1..n : o[i] = o[j] => i = j
      /\ \A x \in P : \E i \in 1..n : o[i] = x
  BY <1>1, Listing
<1>3. Kept(f, P) = g
  BY <1>2 DEF Kept
<1>. HIDE DEF n, o
<1>4. \A i \in DOMAIN f : f[i] \in FrameRows
  BY DEF Frames
<1>5. g \in Frames /\ DOMAIN g = 1..n
  BY <1>2, <1>4 DEF Frames
<1>6. \A j \in 1..n : o[j] \in P /\ g[j] = f[o[j]]
  BY <1>2
<1>7. Disjoint(f) => Disjoint(g)
  BY <1>2, <1>5, <1>6 DEF Disjoint
<1>8. Rows(g) \subseteq Rows(f)
  BY <1>5, <1>6 DEF Rows
<1>9. \A i \in P : \E j \in DOMAIN g : g[j] = f[i]
  BY <1>2, <1>5, <1>6
<1>. QED  BY <1>3, <1>5, <1>6, <1>7, <1>8, <1>9 DEF Made

\* No row ends later than the entry it is in.
InTime(f, rec) == \A i \in DOMAIN f : \A n \in f[i].rows : n \in DOMAIN rec /\ rec[n].end <= f[i].end

LEMMA AggregateMade ==
    ASSUME NEW f \in Frames, NEW rec \in Frames, InTime(f, rec)
    PROVE  Made(f, Aggregate(f)) /\ Rows(f) \subseteq Rows(Aggregate(f)) /\ InTime(Aggregate(f), rec)
<1>. DEFINE T == {f[i].task : i \in DOMAIN f}
            n == Cardinality(T)
            o == SetToSeq(T)
            of(t) == {i \in DOMAIN f : f[i].task = t}
            g == [i \in 1..n |-> Entry(o[i], UNION {f[k].rows : k \in of(o[i])},
                                       Max({f[k].end : k \in of(o[i])}))]
<1>1. IsFiniteSet(T)
  <2>. DEFINE h == [i \in DOMAIN f |-> f[i].task]
  <2>1. h \in Surjection(DOMAIN f, T)
    BY DEF Surjection
  <2>. HIDE DEF h
  <2>. QED  BY <2>1, FramesFinite, FS_Surjection
<1>2. /\ o \in [1..n -> T] /\ n \in Nat
      /\ \A i, j \in 1..n : o[i] = o[j] => i = j
      /\ \A x \in T : \E i \in 1..n : o[i] = x
  BY <1>1, Listing
<1>3. Aggregate(f) = g
  BY <1>2 DEF Aggregate
<1>4. \A i \in DOMAIN f : f[i] \in FrameRows
  BY DEF Frames
<1>5. T \in SUBSET Tasks
  BY <1>4 DEF FrameRows
<1>. HIDE DEF n, o, T
<1>6. ASSUME NEW j \in 1..n
      PROVE  /\ g[j] \in FrameRows /\ g[j].rows = UNION {f[k].rows : k \in of(o[j])}
             /\ \A k \in of(o[j]) : f[k].end <= g[j].end
  <2>. DEFINE E == {f[k].end : k \in of(o[j])}
  <2>1. o[j] \in T /\ of(o[j]) # {}
    BY <1>2 DEF T
  <2>2. E # {} /\ E \in SUBSET (1..LastTime)
    BY <1>4, <2>1 DEF FrameRows
  <2>. HIDE DEF E
  <2>3. Max(E) \in E /\ \A y \in E : Max(E) >= y
    BY <2>2, Greatest
  <2>4. Max(E) \in 1..LastTime
    BY <2>2, <2>3
  <2>5. g[j] = Entry(o[j], UNION {f[k].rows : k \in of(o[j])}, Max(E))
    BY DEF E
  <2>6. UNION {f[k].rows : k \in of(o[j])} \in SUBSET Nat
    BY <1>4 DEF FrameRows
  <2>7. g[j] \in FrameRows /\ g[j].rows = UNION {f[k].rows : k \in of(o[j])} /\ g[j].end = Max(E)
    BY <1>5, <2>1, <2>4, <2>5, <2>6 DEF Entry, FrameRows
  <2>8. \A k \in of(o[j]) : f[k].end \in E /\ f[k].end \in Int
    BY <1>4 DEF E, FrameRows
  <2>. QED  BY <2>2, <2>3, <2>4, <2>7, <2>8
<1>. HIDE DEF g
<1>7. g \in Frames /\ DOMAIN g = 1..n
  <2>1. DOMAIN g = 1..n /\ g = [i \in 1..n |-> g[i]]
    BY DEF g
  <2>2. \A i \in 1..n : g[i] \in FrameRows
    BY <1>6
  <2>3. g \in [1..n -> FrameRows]
    BY <2>1, <2>2
  <2>. QED  BY <1>2, <2>1, <2>3 DEF Frames
<1>8. Rows(g) \subseteq Rows(f)
  BY <1>6, <1>7 DEF Rows
<1>9. Rows(f) \subseteq Rows(g)
  <2>1. ASSUME NEW x, NEW i \in DOMAIN f, x \in f[i].rows PROVE x \in Rows(g)
    <3>1. f[i].task \in T
      BY DEF T
    <3>2. PICK j \in 1..n : o[j] = f[i].task
      BY <1>2, <3>1
    <3>3. i \in of(o[j])
      BY <3>2
    <3>4. x \in g[j].rows
      BY <1>6, <2>1, <3>3
    <3>. QED  BY <1>7, <3>4 DEF Rows
  <2>. QED  BY <2>1 DEF Rows
<1>10. Disjoint(f) => Disjoint(g)
  <2>. SUFFICES ASSUME Disjoint(f), NEW i \in 1..n, NEW j \in 1..n, i # j,
                       NEW x, x \in g[i].rows, x \in g[j].rows
                PROVE  FALSE
    BY <1>7 DEF Disjoint
  <2>1. PICK k \in of(o[i]) : x \in f[k].rows
    BY <1>6
  <2>2. PICK l \in of(o[j]) : x \in f[l].rows
    BY <1>6
  <2>3. k # l
    BY <1>2
  <2>. QED  BY <2>1, <2>2, <2>3 DEF Disjoint
<1>11. InTime(g, rec)
  <2>. SUFFICES ASSUME NEW j \in 1..n, NEW x \in g[j].rows
                PROVE  x \in DOMAIN rec /\ rec[x].end <= g[j].end
    BY <1>7 DEF InTime
  <2>1. PICK k \in of(o[j]) : x \in f[k].rows
    BY <1>6
  <2>2. x \in DOMAIN rec /\ rec[x].end <= f[k].end
    BY <2>1 DEF InTime
  <2>3. f[k].end <= g[j].end /\ g[j].end \in Int /\ f[k].end \in Int /\ rec[x].end \in Int
    <3>1. rec[x] \in FrameRows /\ f[k] \in FrameRows /\ g[j] \in FrameRows
      BY <1>4, <1>6, <2>2 DEF Frames
    <3>. QED  BY <1>6, <3>1 DEF FrameRows
  <2>. QED  BY <2>2, <2>3
<1>. QED  BY <1>3, <1>7, <1>8, <1>9, <1>10, <1>11 DEF Made

LEMMA ConcatMade ==
    ASSUME NEW f \in Frames, NEW g \in Frames
    PROVE  /\ f \o g \in Frames /\ Rows(f \o g) = Rows(f) \cup Rows(g)
           /\ Ends(f \o g) = Ends(f) \cup Ends(g)
           /\ Disjoint(f) /\ Disjoint(g) /\ Rows(f) \cap Rows(g) = {} => Disjoint(f \o g)
           /\ \A rec : InTime(f, rec) /\ InTime(g, rec) => InTime(f \o g, rec)
<1>. DEFINE h == f \o g
<1>1. h \in Frames
  BY DEF Frames
<1>2. /\ Len(f) \in Nat /\ Len(g) \in Nat /\ DOMAIN f = 1..Len(f) /\ DOMAIN g = 1..Len(g)
      /\ DOMAIN h = 1..Len(f) + Len(g)
      /\ \A i \in 1..Len(f) : h[i] = f[i]
      /\ \A i \in 1..Len(f) + Len(g) : i > Len(f) => h[i] = g[i - Len(f)]
  BY DEF Frames
<1>. HIDE DEF h
<1>3. \A i \in DOMAIN f : i \in DOMAIN h /\ h[i] = f[i]
  BY <1>2
<1>4. \A j \in DOMAIN g : Len(f) + j \in DOMAIN h /\ h[Len(f) + j] = g[j]
  <2>1. TAKE j \in DOMAIN g
  <2>2. Len(f) + j \in 1..Len(f) + Len(g) /\ Len(f) + j > Len(f) /\ (Len(f) + j) - Len(f) = j
    BY <1>2
  <2>. QED  BY <1>2, <2>2
<1>5. \A i \in DOMAIN h : i \in DOMAIN f \/ (i - Len(f) \in DOMAIN g /\ h[i] = g[i - Len(f)])
  <2>1. TAKE i \in DOMAIN h
  <2>2. CASE i > Len(f)
    <3>1. i - Len(f) \in 1..Len(g)
      BY <1>2, <2>2
    <3>. QED  BY <1>2, <2>2, <3>1
  <2>3. CASE ~(i > Len(f))
    BY <1>2, <2>3
  <2>. QED  BY <2>2, <2>3
<1>6. Rows(h) = Rows(f) \cup Rows(g)
  <2>1. Rows(h) \subseteq Rows(f) \cup Rows(g)
    BY <1>3, <1>5 DEF Rows
  <2>2. Rows(f) \subseteq Rows(h)
    BY <1>3 DEF Rows
  <2>3. Rows(g) \subseteq Rows(h)
    BY <1>4 DEF Rows
  <2>. QED  BY <2>1, <2>2, <2>3
<1>7. Ends(h) = Ends(f) \cup Ends(g)
  <2>1. Ends(h) \subseteq Ends(f) \cup Ends(g)
    BY <1>3, <1>5 DEF Ends
  <2>2. Ends(f) \subseteq Ends(h)
    BY <1>3 DEF Ends
  <2>3. Ends(g) \subseteq Ends(h)
    BY <1>4 DEF Ends
  <2>. QED  BY <2>1, <2>2, <2>3
<1>8. ASSUME Disjoint(f), Disjoint(g), Rows(f) \cap Rows(g) = {} PROVE Disjoint(h)
  <2>. SUFFICES ASSUME NEW i \in DOMAIN h, NEW j \in DOMAIN h, i # j
                PROVE  h[i].rows \cap h[j].rows = {}
    BY DEF Disjoint
  <2>1. \A k \in DOMAIN f : f[k].rows \subseteq Rows(f)
    BY DEF Rows
  <2>2. \A k \in DOMAIN g : g[k].rows \subseteq Rows(g)
    BY DEF Rows
  <2>3. CASE i \in DOMAIN f /\ j \in DOMAIN f
    BY <1>3, <1>8, <2>3 DEF Disjoint
  <2>4. CASE i \in DOMAIN f /\ j \notin DOMAIN f
    BY <1>3, <1>5, <1>8, <2>1, <2>2, <2>4
  <2>5. CASE i \notin DOMAIN f /\ j \in DOMAIN f
    BY <1>3, <1>5, <1>8, <2>1, <2>2, <2>5
  <2>6. CASE i \notin DOMAIN f /\ j \notin DOMAIN f
    <3>1. /\ i - Len(f) \in DOMAIN g /\ h[i] = g[i - Len(f)]
          /\ j - Len(f) \in DOMAIN g /\ h[j] = g[j - Len(f)]
      BY <1>5, <2>6
    <3>2. i - Len(f) # j - Len(f)
      BY <1>2
    <3>. QED  BY <1>8, <3>1, <3>2 DEF Disjoint
  <2>. QED  BY <2>3, <2>4, <2>5, <2>6
<1>9. ASSUME NEW rec, InTime(f, rec), InTime(g, rec) PROVE InTime(h, rec)
  BY <1>3, <1>5, <1>9 DEF InTime
<1>. QED  BY <1>1, <1>6, <1>7, <1>8, <1>9 DEF h

\* Frames of nothing, and the rows of one given by their places.
LEMMA NothingMade ==
    /\ <<>> \in Frames /\ Rows(<<>>) = {} /\ Ends(<<>>) = {} /\ Disjoint(<<>>)
    /\ \A rec : InTime(<<>>, rec)
<1>1. <<>> \in Frames /\ DOMAIN <<>> = {}
  BY DEF Frames
<1>. QED  BY <1>1 DEF Rows, Ends, Disjoint, InTime

LEMMA KeptInTime ==
    ASSUME NEW f \in Frames, NEW P \in SUBSET DOMAIN f, NEW rec, InTime(f, rec)
    PROVE  InTime(Kept(f, P), rec)
BY KeptMade DEF InTime

-----------------------------------------------------------------------------
SnifferTyped ==
    /\ sniffer \in {"socket", "cache", "sched"}
    /\ records \in Frames /\ frame \in Frames /\ recorded \in Frames
    /\ taken \in [Updaters -> Frames] /\ result \in [Updaters -> Frames]
    /\ step \in [Updaters -> 0..Len(Operations)] /\ computed \in [Updaters -> BOOLEAN]
    /\ since \in 0..Len(recorded) /\ raced \in BOOLEAN
    /\ \A u \in Updaters : /\ computed[u] => step[u] # 0
                           /\ ~computed[u] => result[u] = <<>>
                           /\ step[u] # 0 => taken[u] # <<>>

\* Every entry is made of rows recorded, and ends with the last of them.
Timely ==
    /\ InTime(frame, recorded) /\ InTime(records, recorded)
    /\ Ends(records) \subseteq Ends(recorded)
    /\ \A u \in Updaters : /\ InTime(taken[u], recorded) /\ InTime(result[u], recorded)
                           /\ Ends(taken[u]) \subseteq Ends(recorded)

\* Nobody has a row twice, and the rows an updater has taken but not added yet
\* are nowhere else.
Taken(u) == step[u] = 1 =>
    /\ Rows(taken[u]) \cap Rows(frame) = {} /\ Rows(taken[u]) \cap Rows(records) = {}
    /\ \A v \in Updaters \ {u} : /\ Rows(taken[u]) \cap Rows(result[v]) = {}
                                 /\ step[v] = 1 => Rows(taken[u]) \cap Rows(taken[v]) = {}
OnceEach ==
    /\ Disjoint(frame) /\ Disjoint(records) /\ Rows(frame) \cap Rows(records) = {}
    /\ \A u \in Updaters : /\ Disjoint(taken[u]) /\ Disjoint(result[u]) /\ Taken(u)
                           /\ Rows(result[u]) \cap Rows(records) = {}

\* While no two updates overlap, the recent rows are in the frame, the buffer or
\* what is being added; and in what is to be the frame or in the buffer.
Due(n) == n \in since + 1..Len(recorded) /\ Recent(recorded[n])
NoneLost ==
    /\ \A u, v \in Updaters : step[u] # 0 /\ step[v] # 0 => u = v
    /\ \A n \in DOMAIN recorded : Due(n) =>
         \/ n \in Rows(frame) \cup Rows(records)
         \/ \E u \in Updaters : step[u] = 1 /\ n \in Rows(taken[u])
    /\ \A u \in Updaters : computed[u] =>
         \A n \in DOMAIN recorded : Due(n) => n \in Rows(result[u]) \cup Rows(records)

SnifferInv == SnifferTyped /\ Timely /\ OnceEach /\ (~raced => NoneLost)

LEMMA OperationsFacts ==
    ASSUME sniffer \in {"socket", "cache", "sched"}
    PROVE  /\ Len(Operations) \in {2, 3} /\ Operations[1] = "concat"
           /\ \A k \in 1..Len(Operations) :
                /\ Operations[k] \in {"concat", "prune", "aggregate"}
                /\ Operations[k] = "concat" => k = 1
                /\ Operations[k] = "prune" => sniffer # "sched"
BY DEF Operations

LEMMA SnifferInitEstablishes == ASSUME SnifferInit PROVE SnifferInv
<1>1. /\ sniffer \in {"socket", "cache", "sched"} /\ records = <<>> /\ frame = <<>> /\ recorded = <<>>
      /\ since = 0 /\ raced = FALSE
      /\ step = [u \in Updaters |-> 0] /\ computed = [u \in Updaters |-> FALSE]
      /\ taken = [u \in Updaters |-> <<>>] /\ result = [u \in Updaters |-> <<>>]
  BY DEF SnifferInit
<1>2. Len(Operations) \in {2, 3} /\ Len(<<>>) = 0 /\ DOMAIN <<>> = {}
  BY <1>1, OperationsFacts
<1>3. SnifferTyped
  <2>1. 0 \in 0..Len(Operations) /\ 0 \in 0..Len(recorded)
    BY <1>1, <1>2
  <2>2. <<>> \in Frames
    BY NothingMade
  <2>. HIDE DEF Operations
  <2>. QED  BY <1>1, <2>1, <2>2 DEF SnifferTyped
<1>4. Timely /\ OnceEach /\ NoneLost
  BY <1>1, <1>2, NothingMade DEF Timely, OnceEach, Taken, NoneLost
<1>. QED  BY <1>3, <1>4 DEF SnifferInv

LEMMA SwapKeeps == ASSUME SnifferInv, NEW u \in Updaters, SwapRecords(u) PROVE SnifferInv'
<1>. USE DEF SnifferInv
<1>1. /\ step[u] = 0 /\ records # <<>>
      /\ taken' = [taken EXCEPT ![u] = records] /\ records' = <<>>
      /\ step' = [step EXCEPT ![u] = 1] /\ raced' = (raced \/ Updating)
      /\ UNCHANGED <<sniffer, frame, result, computed, recorded, since>>
  BY DEF SwapRecords
<1>2. /\ taken'[u] = records /\ step'[u] = 1 /\ result[u] = <<>> /\ ~computed[u]
      /\ \A v \in Updaters \ {u} : taken'[v] = taken[v] /\ step'[v] = step[v]
  BY <1>1 DEF SnifferTyped
<1>3. Rows(records') = {} /\ Ends(records') = {} /\ Disjoint(records') /\ records' \in Frames
      /\ InTime(records', recorded) /\ Rows(result[u]) = {}
  BY <1>1, <1>2, NothingMade
<1>4. SnifferTyped'
  <2>1. 1 \in 0..Len(Operations)
    BY OperationsFacts DEF SnifferTyped
  <2>2. Operations' = Operations
    BY <1>1 DEF Operations
  <2>3. step' \in [Updaters -> 0..Len(Operations)]
    BY <1>1, <2>1 DEF SnifferTyped
  <2>4. taken' \in [Updaters -> Frames]
    BY <1>1 DEF SnifferTyped
  <2>5. \A v \in Updaters : /\ computed'[v] => step'[v] # 0
                            /\ ~computed'[v] => result'[v] = <<>>
                            /\ step'[v] # 0 => taken'[v] # <<>>
    BY <1>1, <1>2 DEF SnifferTyped
  <2>6. raced' \in BOOLEAN
    BY <1>1 DEF SnifferTyped, Updating
  <2>. QED  BY <1>1, <1>3, <2>2, <2>3, <2>4, <2>5, <2>6 DEF SnifferTyped
<1>5. Timely'
  BY <1>1, <1>2, <1>3 DEF Timely
<1>6. ASSUME NEW v \in Updaters PROVE Taken(v)'
  BY <1>1, <1>2, <1>3 DEF OnceEach, Taken
<1>7. OnceEach'
  <2>1. Disjoint(frame') /\ Disjoint(records') /\ Rows(frame') \cap Rows(records') = {}
    BY <1>1, <1>3 DEF OnceEach
  <2>2. ASSUME NEW v \in Updaters
        PROVE  /\ Disjoint(taken'[v]) /\ Disjoint(result'[v])
               /\ Rows(result'[v]) \cap Rows(records') = {}
    BY <1>1, <1>2, <1>3 DEF OnceEach
  <2>. QED  BY <1>6, <2>1, <2>2 DEF OnceEach
<1>8. ASSUME ~raced' PROVE NoneLost'
  <2>1. ~raced /\ \A v \in Updaters : step[v] = 0
    BY <1>1, <1>8 DEF Updating, SnifferTyped
  <2>2. \A n \in DOMAIN recorded : Due(n)' => Due(n)
    BY <1>1 DEF Due, Recent
  <2>3. \A v \in Updaters : ~computed[v]
    BY <2>1 DEF SnifferTyped
  <2>. QED  BY <1>1, <1>2, <1>3, <2>1, <2>2, <2>3 DEF NoneLost
<1>. QED  BY <1>4, <1>5, <1>7, <1>8

LEMMA SnifferStartKeeps == ASSUME SnifferInv, Start \/ DropPrevious PROVE SnifferInv'
<1>. USE DEF SnifferInv
<1>1. /\ \/ records' = <<>> /\ frame' = frame
         \/ frame' = <<>> /\ records' = records
      /\ since' = Len(recorded) /\ raced' = (raced \/ Updating)
      /\ UNCHANGED <<sniffer, step, taken, result, computed, recorded>>
  BY DEF Start, DropPrevious
<1>2. /\ records' \in Frames /\ frame' \in Frames
      /\ Rows(records') \subseteq Rows(records) /\ Rows(frame') \subseteq Rows(frame)
      /\ Ends(records') \subseteq Ends(records)
      /\ InTime(frame', recorded) /\ InTime(records', recorded)
      /\ Disjoint(frame') /\ Disjoint(records')
  BY <1>1, NothingMade DEF SnifferTyped, Timely, OnceEach
<1>3. Len(recorded) \in Nat /\ DOMAIN recorded = 1..Len(recorded)
  BY DEF SnifferTyped, Frames
<1>4. SnifferTyped'
  <2>1. Operations' = Operations
    BY <1>1 DEF Operations
  <2>. QED  BY <1>1, <1>2, <1>3, <2>1 DEF SnifferTyped
<1>5. Timely'
  BY <1>1, <1>2 DEF Timely
<1>6. ASSUME NEW v \in Updaters PROVE Taken(v)'
  BY <1>1, <1>2 DEF OnceEach, Taken
<1>7. OnceEach'
  BY <1>1, <1>2, <1>6 DEF OnceEach
<1>8. ASSUME ~raced' PROVE NoneLost'
  <2>1. ~raced
    BY <1>1, <1>8
  <2>2. \A n \in DOMAIN recorded : ~Due(n)'
    BY <1>1, <1>3 DEF Due
  <2>. QED  BY <1>1, <2>1, <2>2 DEF NoneLost
<1>. QED  BY <1>4, <1>5, <1>7, <1>8

\* A row more makes fewer rows recent.
LEMMA RecentShrinks ==
    ASSUME recorded \in Frames, NEW row \in FrameRows, recorded' = Append(recorded, row),
           sniffer' = sniffer, NEW n \in DOMAIN recorded, Recent(recorded[n])'
    PROVE  recorded'[n] = recorded[n] /\ Recent(recorded[n])
<1>1. /\ recorded' \in Frames /\ recorded'[n] = recorded[n]
      /\ \A i \in DOMAIN recorded : i \in DOMAIN recorded' /\ recorded'[i] = recorded[i]
  BY DEF Frames
<1>. DEFINE E == Ends(recorded)
            E1 == Ends(recorded')
<1>2. E \subseteq E1 /\ E # {} /\ E \in SUBSET (1..LastTime) /\ E1 \in SUBSET (1..LastTime)
  <2>1. E \subseteq E1
    BY <1>1 DEF Ends
  <2>2. recorded[n].end \in E
    BY DEF Ends
  <2>. QED  BY <1>1, <2>1, <2>2, EndsTyped
<1>3. CASE sniffer = "sched"
  BY <1>1, <1>3 DEF Recent
<1>4. CASE sniffer # "sched"
  <2>1. recorded[n].end > Max(E1) - Window
    <3>1. recorded'[n].end > Max(Ends(recorded)') - Window
      BY <1>4 DEF Recent
    <3>. QED  BY <1>1, <3>1 DEF Ends
  <2>. HIDE DEF E, E1
  <2>2. Max(E) \in E /\ Max(E1) \in E1 /\ \A y \in E1 : Max(E1) >= y
    BY <1>2, Greatest
  <2>3. Max(E1) >= Max(E) /\ Max(E1) \in Int /\ Max(E) \in Int
    <3>1. Max(E) \in E1
      BY <1>2, <2>2
    <3>2. \A y \in E1 : y \in Int
      BY <1>2
    <3>. QED  BY <2>2, <3>1, <3>2
  <2>4. recorded[n].end \in Int /\ Window \in Int
    <3>1. recorded[n] \in FrameRows
      BY DEF Frames
    <3>. QED  BY <3>1, SnifferAssumption DEF FrameRows
  <2>5. recorded[n].end > Max(E) - Window
    BY <2>1, <2>3, <2>4
  <2>. QED  BY <1>1, <2>5 DEF Recent, E
<1>. QED  BY <1>3, <1>4

LEMMA RecordKeeps == ASSUME SnifferInv, RecordDf PROVE SnifferInv'
<1>. USE DEF SnifferInv
<1>. DEFINE m == Len(recorded) + 1
<1>1. PICK task \in Tasks : \E end \in 1..LastTime :
          LET row == Entry(task, {m}, end)
          IN records' = Append(records, row) /\ recorded' = Append(recorded, row)
  BY DEF RecordDf
<1>2. PICK end \in 1..LastTime :
          LET row == Entry(task, {m}, end)
          IN records' = Append(records, row) /\ recorded' = Append(recorded, row)
  BY <1>1
<1>. DEFINE row == Entry(task, {m}, end)
            one == <<row>>
<1>3. /\ records' = Append(records, row) /\ recorded' = Append(recorded, row)
      /\ UNCHANGED <<sniffer, frame, step, taken, result, computed, since, raced>>
  BY <1>2 DEF RecordDf
<1>4. m \in Nat /\ Len(recorded) \in Nat /\ DOMAIN recorded = 1..Len(recorded)
  BY DEF SnifferTyped, Frames
<1>5. row \in FrameRows /\ row.rows = {m} /\ row.end = end
  BY <1>4 DEF Entry, FrameRows
<1>. HIDE DEF row
<1>6. one \in Frames /\ DOMAIN one = {1} /\ one[1] = row
  BY <1>5 DEF Frames
<1>7. /\ recorded' \in Frames /\ Len(recorded') = m /\ DOMAIN recorded' = DOMAIN recorded \cup {m}
      /\ recorded'[m] = row /\ \A i \in DOMAIN recorded : recorded'[i] = recorded[i]
  BY <1>3, <1>4, <1>5 DEF SnifferTyped, Frames
<1>8. \A f \in Frames : InTime(f, recorded) => InTime(f, recorded') /\ m \notin Rows(f)
  <2>1. ASSUME NEW f \in Frames, InTime(f, recorded) PROVE InTime(f, recorded')
    BY <1>7, <2>1 DEF InTime
  <2>2. ASSUME NEW f \in Frames, InTime(f, recorded), m \in Rows(f) PROVE FALSE
    <3>1. m \in DOMAIN recorded
      BY <2>2 DEF InTime, Rows
    <3>. QED  BY <1>4, <3>1
  <2>. QED  BY <2>1, <2>2
<1>9. Rows(one) = {m} /\ Ends(one) = {end} /\ Disjoint(one) /\ InTime(one, recorded')
  <2>1. Rows(one) = {m}
    BY <1>5, <1>6 DEF Rows
  <2>2. Ends(one) = {end}
    BY <1>5, <1>6 DEF Ends
  <2>3. Disjoint(one)
    BY <1>6 DEF Disjoint
  <2>4. InTime(one, recorded')
    BY <1>5, <1>6, <1>7 DEF InTime
  <2>. QED  BY <2>1, <2>2, <2>3, <2>4
<1>10. records' = records \o one
  BY <1>3, <1>5 DEF SnifferTyped, Frames
<1>11. /\ InTime(frame, recorded') /\ InTime(records, recorded') /\ m \notin Rows(frame)
       /\ m \notin Rows(records)
       /\ \A u \in Updaters : /\ InTime(taken[u], recorded') /\ InTime(result[u], recorded')
                              /\ m \notin Rows(taken[u]) /\ m \notin Rows(result[u])
  BY <1>8 DEF SnifferTyped, Timely
<1>. HIDE DEF one, m
<1>12. /\ records' \in Frames /\ Rows(records') = Rows(records) \cup {m}
       /\ Ends(records') = Ends(records) \cup {end} /\ Disjoint(records')
       /\ InTime(records', recorded')
  <2>1. records \in Frames /\ Disjoint(records) /\ Rows(records) \cap Rows(one) = {}
    BY <1>9, <1>11 DEF SnifferTyped, OnceEach
  <2>. QED  BY <1>6, <1>9, <1>10, <1>11, <2>1, ConcatMade
<1>13. Ends(recorded') = Ends(recorded) \cup {end}
  <2>1. \A i \in DOMAIN recorded' : recorded'[i].end = IF i = m THEN end ELSE recorded[i].end
    BY <1>4, <1>5, <1>7
  <2>2. \A i \in DOMAIN recorded : i # m
    BY <1>4 DEF m
  <2>. QED  BY <1>7, <2>1, <2>2 DEF Ends
<1>14. SnifferTyped'
  <2>1. Operations' = Operations
    BY <1>3 DEF Operations
  <2>2. since \in 0..Len(recorded')
    BY <1>4, <1>7 DEF SnifferTyped, m
  <2>. QED  BY <1>3, <1>7, <1>12, <2>1, <2>2 DEF SnifferTyped
<1>15. Timely'
  BY <1>3, <1>11, <1>12, <1>13 DEF Timely
<1>16. ASSUME NEW v \in Updaters PROVE Taken(v)'
  BY <1>3, <1>11, <1>12 DEF OnceEach, Taken
<1>17. OnceEach'
  BY <1>3, <1>11, <1>12, <1>16 DEF OnceEach
<1>18. ASSUME ~raced' PROVE NoneLost'
  <2>1. ~raced /\ NoneLost
    BY <1>3, <1>18
  <2>2. ASSUME NEW n \in DOMAIN recorded', Due(n)' PROVE (Due(n) /\ n \in DOMAIN recorded) \/ n = m
    <3>1. CASE n = m
      BY <3>1
    <3>2. CASE n # m
      <4>1. n \in DOMAIN recorded
        BY <1>7, <3>2
      <4>2. Recent(recorded[n])'
        BY <2>2 DEF Due
      <4>3. recorded \in Frames
        BY DEF SnifferTyped
      <4>4. Recent(recorded[n])
        BY <1>3, <1>5, <4>1, <4>2, <4>3, RecentShrinks
      <4>5. n \in since + 1..Len(recorded)
        <5>1. n \in 1..Len(recorded) /\ n \in since + 1..Len(recorded')
          BY <1>3, <1>4, <2>2, <4>1 DEF Due
        <5>2. since \in Int
          BY DEF SnifferTyped
        <5>. QED  BY <1>4, <5>1, <5>2
      <4>. QED  BY <4>1, <4>4, <4>5 DEF Due
    <3>. QED  BY <3>1, <3>2
  <2>3. m \in Rows(records')
    BY <1>12
  <2>. QED  BY <1>3, <1>7, <1>12, <2>1, <2>2, <2>3 DEF NoneLost
<1>. QED  BY <1>14, <1>15, <1>17, <1>18

\* What an operation makes of the frame.
LEMMA ComputeMakes ==
    ASSUME SnifferInv, NEW u \in Updaters, Compute(u)
    PROVE  LET R == result'[u] IN
           /\ R \in Frames /\ Disjoint(R) /\ InTime(R, recorded)
           /\ \A n \in Rows(R) : n \in Rows(frame) \/ (step[u] = 1 /\ n \in Rows(taken[u]))
           /\ ~raced => \A n \in DOMAIN recorded : Due(n) => n \in Rows(R) \cup Rows(records)
<1>. USE DEF SnifferInv
<1>. DEFINE op == Operations[step[u]]
            R == result'[u]
<1>1. /\ step[u] \in 1..Len(Operations) /\ frame \in Frames /\ taken[u] \in Frames
      /\ taken[u] # <<>> /\ sniffer \in {"socket", "cache", "sched"} /\ recorded \in Frames
  BY OperationsFacts DEF SnifferTyped, Compute
<1>2. op \in {"concat", "prune", "aggregate"} /\ (op = "concat" <=> step[u] = 1)
      /\ (op = "prune" => sniffer # "sched")
  BY <1>1, OperationsFacts
<1>3. R = CASE op = "concat" -> frame \o taken[u]
            [] op = "prune" -> Prune(frame, taken[u])
            [] op = "aggregate" -> Aggregate(frame)
  BY DEF Compute, SnifferTyped
<1>4. /\ Disjoint(frame) /\ Disjoint(taken[u]) /\ InTime(frame, recorded) /\ InTime(taken[u], recorded)
      /\ step[u] = 1 => Rows(taken[u]) \cap Rows(frame) = {}
  BY DEF OnceEach, Taken, Timely
<1>5. ASSUME ~raced, NEW n \in DOMAIN recorded, Due(n)
      PROVE  n \in Rows(frame) \cup Rows(records) \/ (step[u] = 1 /\ n \in Rows(taken[u]))
  BY <1>1, <1>5 DEF NoneLost
<1>6. CASE op = "concat"
  <2>1. R = frame \o taken[u] /\ step[u] = 1
    BY <1>2, <1>3, <1>6
  <2>2. /\ R \in Frames /\ Rows(R) = Rows(frame) \cup Rows(taken[u]) /\ Disjoint(R)
        /\ InTime(R, recorded)
    <3>1. Rows(frame) \cap Rows(taken[u]) = {}
      BY <1>4, <2>1
    <3>. QED  BY <1>1, <1>4, <2>1, <3>1, ConcatMade
  <2>. QED  BY <1>5, <2>1, <2>2
<1>7. CASE op = "aggregate"
  <2>1. R = Aggregate(frame) /\ step[u] # 1
    BY <1>2, <1>3, <1>7
  <2>2. Made(frame, R) /\ Rows(frame) \subseteq Rows(R) /\ InTime(R, recorded)
    BY <1>1, <1>4, <2>1, AggregateMade
  <2>. QED  BY <1>4, <1>5, <2>1, <2>2 DEF Made
<1>8. CASE op = "prune"
  <2>. DEFINE limit == Max(Ends(taken[u])) - Window
              P == {i \in DOMAIN frame : frame[i].end > limit}
  <2>1. R = Kept(frame, P) /\ step[u] # 1 /\ sniffer # "sched"
    BY <1>2, <1>3, <1>8 DEF Prune
  <2>2. Made(frame, R) /\ InTime(R, recorded) /\ \A i \in P : \E j \in DOMAIN R : R[j] = frame[i]
    <3>1. P \in SUBSET DOMAIN frame
      OBVIOUS
    <3>. HIDE DEF P
    <3>. QED  BY <1>1, <1>4, <2>1, <3>1, KeptMade, KeptInTime
  <2>3. ASSUME ~raced, NEW n \in DOMAIN recorded, Due(n) PROVE n \in Rows(R) \cup Rows(records)
    <3>1. CASE n \in Rows(records)
      BY <3>1
    <3>2. CASE n \in Rows(frame)
      <4>1. PICK i \in DOMAIN frame : n \in frame[i].rows
        BY <3>2 DEF Rows
      <4>2. recorded[n].end <= frame[i].end
        BY <1>4, <4>1 DEF InTime
      <4>3. recorded[n].end > Max(Ends(recorded)) - Window
        BY <2>1, <2>3 DEF Due, Recent
      <4>4. /\ Ends(taken[u]) \subseteq Ends(recorded) /\ Ends(taken[u]) # {}
            /\ Ends(recorded) \in SUBSET (1..LastTime)
        <5>1. Ends(taken[u]) # {}
          <6>1. 1 \in DOMAIN taken[u]
            BY <1>1 DEF Frames
          <6>. QED  BY <6>1 DEF Ends
        <5>. QED  BY <1>1, <5>1, EndsTyped DEF Timely
      <4>. DEFINE T == Ends(taken[u])
                  A == Ends(recorded)
      <4>5. Max(T) \in T /\ Max(A) \in A /\ \A y \in A : Max(A) >= y
        <5>1. T \in SUBSET (1..LastTime) /\ A \in SUBSET (1..LastTime) /\ T # {} /\ A # {}
          BY <4>4
        <5>. HIDE DEF T, A
        <5>. QED  BY <5>1, Greatest
      <4>6. Max(A) >= Max(T) /\ Max(A) \in Int /\ Max(T) \in Int
        BY <4>4, <4>5
      <4>7. frame[i].end \in Int /\ recorded[n].end \in Int /\ Window \in Int
        <5>1. frame[i] \in FrameRows /\ recorded[n] \in FrameRows
          BY <1>1 DEF Frames
        <5>. QED  BY <5>1, SnifferAssumption DEF FrameRows
      <4>8. frame[i].end > limit
        <5>. HIDE DEF A, T
        <5>1. frame[i].end > Max(T) - Window
          <6>1. recorded[n].end > Max(A) - Window
            BY <4>3 DEF A
          <6>. QED  BY <4>2, <4>6, <4>7, <6>1
        <5>. QED  BY <5>1 DEF T
      <4>9. i \in P
        BY <4>8
      <4>10. PICK j \in DOMAIN R : R[j] = frame[i]
        BY <2>2, <4>9
      <4>. QED  BY <4>1, <4>10 DEF Rows
    <3>. QED  BY <1>5, <2>1, <2>3, <3>1, <3>2
  <2>. QED  BY <1>4, <2>1, <2>2, <2>3 DEF Made
<1>. QED  BY <1>2, <1>6, <1>7, <1>8

LEMMA ComputeKeeps == ASSUME SnifferInv, NEW u \in Updaters, Compute(u) PROVE SnifferInv'
<1>. USE DEF SnifferInv
<1>. DEFINE R == result'[u]
<1>1. /\ computed' = [computed EXCEPT ![u] = TRUE] /\ step[u] # 0 /\ ~computed[u]
      /\ UNCHANGED <<sniffer, records, frame, step, taken, recorded, since, raced>>
      /\ result' = [result EXCEPT ![u] = R]
  <2>1. /\ computed' = [computed EXCEPT ![u] = TRUE] /\ step[u] # 0 /\ ~computed[u]
        /\ UNCHANGED <<sniffer, records, frame, step, taken, recorded, since, raced>>
    BY DEF Compute
  <2>2. \E answer : result' = [result EXCEPT ![u] = answer]
    BY DEF Compute
  <2>3. PICK answer : result' = [result EXCEPT ![u] = answer]
    BY <2>2
  <2>4. R = answer
    BY <2>3 DEF SnifferTyped
  <2>. QED  BY <2>1, <2>3, <2>4
<1>2. /\ R \in Frames /\ Disjoint(R) /\ InTime(R, recorded)
      /\ \A n \in Rows(R) : n \in Rows(frame) \/ (step[u] = 1 /\ n \in Rows(taken[u]))
      /\ ~raced => \A n \in DOMAIN recorded : Due(n) => n \in Rows(R) \cup Rows(records)
  BY ComputeMakes
<1>. HIDE DEF R
<1>3. /\ result'[u] = R /\ computed'[u]
      /\ \A v \in Updaters \ {u} : result'[v] = result[v] /\ computed'[v] = computed[v]
  BY <1>1 DEF SnifferTyped
<1>4. SnifferTyped'
  <2>1. Operations' = Operations
    BY <1>1 DEF Operations
  <2>2. computed' \in [Updaters -> BOOLEAN] /\ result' \in [Updaters -> Frames]
    BY <1>1, <1>2 DEF SnifferTyped
  <2>. QED  BY <1>1, <1>3, <2>1, <2>2 DEF SnifferTyped
<1>5. Timely'
  BY <1>1, <1>2, <1>3 DEF Timely
<1>6. Rows(R) \cap Rows(records) = {}
  BY <1>2 DEF OnceEach, Taken
<1>7. ASSUME NEW v \in Updaters, step[v] = 1, v # u PROVE Rows(taken[v]) \cap Rows(R) = {}
  <2>1. Rows(taken[v]) \cap Rows(frame) = {} /\ (step[u] = 1 => Rows(taken[v]) \cap Rows(taken[u]) = {})
    BY <1>7 DEF OnceEach, Taken
  <2>. QED  BY <1>2, <2>1
<1>8. ASSUME NEW v \in Updaters PROVE Taken(v)'
  <2>1. Taken(v)
    BY DEF OnceEach
  <2>. QED  BY <1>1, <1>3, <1>7, <2>1 DEF Taken
<1>9. OnceEach'
  BY <1>1, <1>2, <1>3, <1>6, <1>8 DEF OnceEach
<1>10. ASSUME ~raced' PROVE NoneLost'
  <2>1. \A n \in DOMAIN recorded : Due(n)' => Due(n)
    BY <1>1 DEF Due, Recent
  <2>. QED  BY <1>1, <1>2, <1>3, <1>10, <2>1 DEF NoneLost
<1>. QED  BY <1>4, <1>5, <1>9, <1>10

LEMMA StoreKeeps == ASSUME SnifferInv, NEW u \in Updaters, Store(u) PROVE SnifferInv'
<1>. USE DEF SnifferInv
<1>1. /\ computed[u] /\ computed' = [computed EXCEPT ![u] = FALSE]
      /\ frame' = result[u] /\ result' = [result EXCEPT ![u] = <<>>]
      /\ step' = [step EXCEPT ![u] = IF @ = Len(Operations) THEN 0 ELSE @ + 1]
      /\ taken' = [taken EXCEPT ![u] = IF step[u] = Len(Operations) THEN <<>> ELSE @]
      /\ UNCHANGED <<sniffer, records, recorded, since, raced>>
  BY DEF Store
<1>2. Len(Operations) \in Nat /\ Len(Operations) >= 2 /\ step[u] \in 0..Len(Operations) /\ step[u] # 0
  <2>1. sniffer \in {"socket", "cache", "sched"} /\ step[u] \in 0..Len(Operations) /\ step[u] # 0
    BY <1>1 DEF SnifferTyped
  <2>2. Len(Operations) \in {2, 3}
    BY <2>1, OperationsFacts
  <2>3. \A k \in {2, 3} : k \in Nat /\ k >= 2
    OBVIOUS
  <2>4. Len(Operations) \in Nat /\ Len(Operations) >= 2
    BY <2>2, <2>3
  <2>. QED  BY <2>1, <2>4
<1>. HIDE DEF Operations
<1>3. /\ result'[u] = <<>> /\ ~computed'[u] /\ step'[u] \in 0..Len(Operations) /\ step'[u] # 1
      /\ taken'[u] \in {<<>>, taken[u]} /\ (step'[u] # 0 => taken'[u] = taken[u])
      /\ \A v \in Updaters \ {u} : /\ result'[v] = result[v] /\ computed'[v] = computed[v]
                                   /\ step'[v] = step[v] /\ taken'[v] = taken[v]
  BY <1>1, <1>2 DEF SnifferTyped
<1>4. /\ <<>> \in Frames /\ Rows(<<>>) = {} /\ Ends(<<>>) = {} /\ Disjoint(<<>>)
      /\ InTime(<<>>, recorded)
  BY NothingMade
<1>5. SnifferTyped'
  <2>1. Operations' = Operations
    BY <1>1 DEF Operations
  <2>2. /\ computed' \in [Updaters -> BOOLEAN] /\ result' \in [Updaters -> Frames]
        /\ frame' \in Frames
    BY <1>1, <1>4 DEF SnifferTyped
  <2>3. taken' \in [Updaters -> Frames]
    BY <1>1, <1>4 DEF SnifferTyped
  <2>4. step' \in [Updaters -> 0..Len(Operations)]
    BY <1>1, <1>2 DEF SnifferTyped
  <2>5. \A v \in Updaters : /\ computed'[v] => step'[v] # 0
                            /\ ~computed'[v] => result'[v] = <<>>
                            /\ step'[v] # 0 => taken'[v] # <<>>
    BY <1>2, <1>3 DEF SnifferTyped
  <2>. QED  BY <1>1, <2>1, <2>2, <2>3, <2>4, <2>5 DEF SnifferTyped
<1>6. Timely'
  <2>1. InTime(frame', recorded) /\ InTime(records, recorded) /\ Ends(records) \subseteq Ends(recorded)
    BY <1>1 DEF Timely
  <2>2. ASSUME NEW v \in Updaters
        PROVE  /\ InTime(taken'[v], recorded) /\ InTime(result'[v], recorded)
               /\ Ends(taken'[v]) \subseteq Ends(recorded)
    BY <1>3, <1>4 DEF Timely
  <2>. QED  BY <1>1, <2>1, <2>2 DEF Timely
<1>7. ASSUME NEW v \in Updaters PROVE Taken(v)'
  <2>1. Taken(v)
    BY DEF OnceEach
  <2>2. CASE v = u
    BY <1>3, <2>2 DEF Taken
  <2>3. CASE v # u
    <3>1. step[v] = 1 => Rows(taken[v]) \cap Rows(frame') = {}
      BY <1>1, <2>1, <2>3 DEF Taken
    <3>2. \A w \in Updaters \ {v} : step[v] = 1 =>
             /\ Rows(taken[v]) \cap Rows(result'[w]) = {}
             /\ step'[w] = 1 => Rows(taken[v]) \cap Rows(taken'[w]) = {}
      BY <1>3, <1>4, <2>1 DEF Taken
    <3>. QED  BY <1>1, <1>3, <2>1, <2>3, <3>1, <3>2 DEF Taken
  <2>. QED  BY <2>2, <2>3
<1>8. OnceEach'
  <2>1. Disjoint(frame') /\ Disjoint(records) /\ Rows(frame') \cap Rows(records) = {}
    BY <1>1 DEF OnceEach
  <2>2. \A v \in Updaters : /\ Disjoint(taken'[v]) /\ Disjoint(result'[v])
                            /\ Rows(result'[v]) \cap Rows(records) = {}
    BY <1>3, <1>4 DEF OnceEach
  <2>. QED  BY <1>1, <1>7, <2>1, <2>2 DEF OnceEach
<1>9. ASSUME ~raced' PROVE NoneLost'
  <2>1. NoneLost
    BY <1>1, <1>9
  <2>2. \A n \in DOMAIN recorded : Due(n)' => Due(n)
    BY <1>1 DEF Due, Recent
  <2>3. \A v \in Updaters : step'[v] # 0 => step[v] # 0
    BY <1>2, <1>3
  <2>4. \A n \in DOMAIN recorded : Due(n) => n \in Rows(frame') \cup Rows(records)
    BY <1>1, <2>1 DEF NoneLost
  <2>5. \A v \in Updaters : ~computed'[v]
    BY <1>1, <1>2, <1>3, <2>1 DEF NoneLost, SnifferTyped
  <2>. QED  BY <1>1, <2>1, <2>2, <2>3, <2>4, <2>5 DEF NoneLost
<1>. QED  BY <1>5, <1>6, <1>8, <1>9

LEMMA SnifferStutter == ASSUME SnifferInv, UNCHANGED sniffer_vars PROVE SnifferInv'
BY DEF sniffer_vars, SnifferInv, SnifferTyped, Timely, OnceEach, Taken, NoneLost, Due, Recent, Operations

\* The inductive invariant of the sniffers: where the rows recorded are, and what
\* each update still has to add.
THEOREM SnifferInvariance == SnifferSpec => []SnifferInv
<1>1. SnifferInv /\ [SnifferNext]_sniffer_vars => SnifferInv'
  BY SwapKeeps, SnifferStartKeeps, RecordKeeps, ComputeKeeps, StoreKeeps, SnifferStutter DEF SnifferNext
<1>. QED  BY SnifferInitEstablishes, <1>1, PTL DEF SnifferSpec

\* However updates race on the frame, no row recorded is counted twice in the
\* frame, in the buffer or in what an update is about to store.
THEOREM RowsCountedOnce == SnifferSpec => []CountedOnce
<1>1. SnifferInv => CountedOnce
  BY ConcatMade DEF SnifferInv, SnifferTyped, OnceEach, CountedOnce
<1>. QED  BY SnifferInvariance, <1>1, PTL

\* Unless updates have raced, a row in the window since the last clear is in the
\* frame, in the buffer or being added, whatever the sniffer and the window.
THEOREM RecentRowsStay == SnifferSpec => []RecentRowsKept
<1>1. SnifferInv => RecentRowsKept
  <2>. SUFFICES ASSUME SnifferInv, ~raced, NEW n \in since + 1..Len(recorded), Recent(recorded[n])
                PROVE  \/ n \in Rows(frame \o records)
                       \/ \E u \in Updaters : step[u] = 1 /\ n \in Rows(taken[u])
    BY DEF RecentRowsKept
  <2>1. n \in DOMAIN recorded /\ Due(n)
    BY DEF SnifferInv, SnifferTyped, Frames, Due
  <2>2. Rows(frame \o records) = Rows(frame) \cup Rows(records)
    BY ConcatMade DEF SnifferInv, SnifferTyped
  <2>. QED  BY <2>1, <2>2 DEF SnifferInv, NoneLost
<1>. QED  BY SnifferInvariance, <1>1, PTL

\* The types of the sniffers' state.
THEOREM SnifferTypeCorrect == SnifferSpec => []SnifferTypeOK
<1>1. SnifferInv => SnifferTypeOK
  <2>. SUFFICES ASSUME SnifferTyped PROVE SnifferTypeOK
    BY DEF SnifferInv
  <2>1. \A f \in {frame, records, recorded} \cup Range(taken) \cup Range(result) : f \in Frames
    BY DEF SnifferTyped, Range
  <2>2. \A f \in Frames : \A i \in DOMAIN f : f[i].task \in Tasks /\ f[i].end \in 1..LastTime
    <3>1. \A f \in Frames : \A i \in DOMAIN f : f[i] \in FrameRows
      BY DEF Frames
    <3>2. \A e \in FrameRows : e.task \in Tasks /\ e.end \in 1..LastTime
      BY DEF FrameRows
    <3>. QED  BY <3>1, <3>2
  <2>3. step \in [Updaters -> 0..3]
    <3>1. Len(Operations) \in {2, 3}
      BY OperationsFacts DEF SnifferTyped
    <3>2. 0..Len(Operations) \subseteq 0..3
      <4>1. \A k \in {2, 3} : 0..k \subseteq 0..3
        OBVIOUS
      <4>. QED  BY <3>1, <4>1
    <3>3. step \in [Updaters -> 0..Len(Operations)]
      BY DEF SnifferTyped
    <3>. QED  BY <3>2, <3>3
  <2>. QED  BY <2>1, <2>2, <2>3 DEF SnifferTyped, SnifferTypeOK
<1>. QED  BY SnifferInvariance, <1>1, PTL
-----------------------------------------------------------------------------
(* The counters of the RDMA monitor: a snapshot says of a field nothing, or    *)
(* what the counters had under one name, the same for the same output.       *)

\* The item an output has about a port, and its first name for a field.
About(answer, p) ==
    {i \in DOMAIN answer : answer[i].named /\ answer[i].number = "port" /\ answer[i].port = p}
ItemOf(answer, p) == answer[Max(About(answer, p))]
NamesIn(item, f) == item.shows \cap Aliases[f]
FirstName(o, item, f) == CHOOSE n \in NamesIn(item, f) : \A m \in NamesIn(item, f) : o[n] <= o[m]
Silent(o, k, p, f) ==
    IF k.from = "sysfs" THEN f \notin DOMAIN SysfsName
    ELSE LET item == ItemOf(k.answer, p)
         IN NamesIn(item, f) = {} \/ FirstName(o, item, f) \in item.unreadable
NameOf(o, k, p, f) == IF k.from = "sysfs" THEN SysfsName[f] ELSE FirstName(o, ItemOf(k.answer, p), f)
Says(o, k, p, f) == IF Silent(o, k, p, f) THEN 0 ELSE k.counters[p][NameOf(o, k, p, f)]

PortCounters == [StatPorts -> [Names -> 0..MaxCount]]

\* The snapshot s is what k knows of it, but for what it lacks.
ShotOf(o, k, s) ==
    /\ k.counters \in PortCounters /\ k.ports = DOMAIN s /\ DOMAIN s \subseteq StatPorts
    /\ k.from # "sysfs" => /\ k.answer \in Outputs
                           /\ \A p \in DOMAIN s : About(k.answer, p) # {}
    /\ \A p \in DOMAIN s, f \in Fields : s[p][f] # None => s[p][f] = Says(o, k, p, f)

StatInv ==
    /\ order \in [Names -> Nat] /\ counters \in PortCounters
    /\ ShotOf(order, known, last)
    /\ before # <<>> => Lacking(last) = {}
    /\ rates # None => \E old : /\ ShotOf(order, before, old) /\ ~DiffRaises(last, old)
                                /\ rates = Diff(last, old)

\* Of an item, and what it is about.
LEMMA ItemFound ==
    ASSUME NEW answer \in Outputs, NEW p, About(answer, p) # {}
    PROVE  ItemOf(answer, p) \in ToSet(answer) /\ ItemOf(answer, p).port = p
<1>1. answer \in Seq(Items)
  BY StatisticsAssumption
<1>2. About(answer, p) \in SUBSET (1..Len(answer)) /\ Len(answer) \in Nat
  BY <1>1 DEF About
<1>3. Max(About(answer, p)) \in About(answer, p)
  BY <1>2, Largest
<1>. QED  BY <1>3 DEF About, ItemOf, ToSet

\* A name that is shown of a field is one of the field's.
LEMMA FirstNamed ==
    ASSUME NEW o \in [Names -> Nat], NEW item, NEW f \in Fields, NamesIn(item, f) # {}
    PROVE  FirstName(o, item, f) \in NamesIn(item, f)
<1>. DEFINE T == {o[n] : n \in NamesIn(item, f)}
<1>1. NamesIn(item, f) \subseteq Names
  BY DEF NamesIn, Names
<1>2. T \in SUBSET Nat /\ T # {}
  BY <1>1
<1>3. PICK x \in T : \A y \in T : x <= y
  BY <1>2, LeastNumber
<1>4. \E n \in NamesIn(item, f) : \A m \in NamesIn(item, f) : o[n] <= o[m]
  BY <1>3
<1>. QED  BY <1>4 DEF FirstName

LEMMA NameFound ==
    ASSUME NEW o \in [Names -> Nat], NEW k, NEW s, ShotOf(o, k, s), NEW p \in DOMAIN s,
           NEW f \in Fields, ~Silent(o, k, p, f)
    PROVE  NameOf(o, k, p, f) \in Aliases[f] /\ NameOf(o, k, p, f) \in Names
<1>1. CASE k.from = "sysfs"
  BY <1>1, StatisticsAssumption DEF Silent, NameOf, Names
<1>2. CASE k.from # "sysfs"
  <2>1. FirstName(o, ItemOf(k.answer, p), f) \in NamesIn(ItemOf(k.answer, p), f)
    BY <1>2, FirstNamed DEF Silent
  <2>. QED  BY <1>2, <2>1 DEF NameOf, NamesIn, Names
<1>. QED  BY <1>1, <1>2

LEMMA SaysNumber ==
    ASSUME NEW o \in [Names -> Nat], NEW k, NEW s, ShotOf(o, k, s), NEW p \in DOMAIN s, NEW f \in Fields
    PROVE  Says(o, k, p, f) \in Int
<1>1. CASE Silent(o, k, p, f)
  BY <1>1 DEF Says
<1>2. CASE ~Silent(o, k, p, f)
  <2>1. NameOf(o, k, p, f) \in Names /\ p \in StatPorts /\ k.counters \in PortCounters
    BY <1>2, NameFound DEF ShotOf
  <2>2. k.counters[p][NameOf(o, k, p, f)] \in 0..MaxCount
    BY <2>1 DEF PortCounters
  <2>. QED  BY <1>2, <2>2, StatisticsAssumption DEF Says
<1>. QED  BY <1>1, <1>2

\* Whatever is collected is a snapshot of what is known of it.
LEMMA ValueSays ==
    ASSUME NEW answer \in Outputs, NEW p, NEW f, About(answer, p) # {}, NEW k,
           k.from # "sysfs", k.answer = answer, k.counters = counters
    PROVE  Value(ItemOf(answer, p), f) = Says(order, k, p, f)
<1>1. ItemOf(answer, p).port = p
  BY ItemFound
<1>. QED  BY <1>1 DEF Value, Says, Silent, NameOf, FirstName, NamesIn

LEMMA CollectedShot ==
    ASSUME counters \in PortCounters, NEW r \in Collected
    PROVE  ShotOf(order, Knows(r), r.stats)
<1>. DEFINE k == Knows(r)
<1>0. /\ k.counters = counters /\ k.from = r.from /\ k.answer = r.answer
      /\ k.ports = DOMAIN r.stats
  BY DEF Knows
<1>. HIDE DEF k
<1>1. \/ r.from \in {"json", "text"} /\ r.answer \in Outputs /\ r.stats = FromRdma(r.answer)
      \/ /\ r.from = "sysfs"
         /\ \E ports, words \in SUBSET StatPorts : r.stats = FromSysfs(ports, words)
  BY DEF Collected
<1>2. CASE r.from \in {"json", "text"} /\ r.answer \in Outputs /\ r.stats = FromRdma(r.answer)
  <2>1. /\ DOMAIN r.stats = {p \in StatPorts : About(r.answer, p) # {}}
        /\ \A p \in DOMAIN r.stats, f \in Fields : r.stats[p][f] = Value(ItemOf(r.answer, p), f)
    BY <1>2 DEF FromRdma, About, ItemOf
  <2>2. ASSUME NEW p \in DOMAIN r.stats, NEW f \in Fields
        PROVE  r.stats[p][f] = Says(order, k, p, f)
    <3>1. About(r.answer, p) # {} /\ k.from # "sysfs"
      BY <1>0, <1>2, <2>1
    <3>2. Value(ItemOf(r.answer, p), f) = Says(order, k, p, f)
      BY <1>0, <1>2, <3>1, ValueSays
    <3>. QED  BY <2>1, <3>2
  <2>3. ShotOf(order, k, r.stats)
    BY <1>0, <1>2, <2>1, <2>2 DEF ShotOf
  <2>. QED  BY <2>3 DEF k
<1>3. CASE /\ r.from = "sysfs"
           /\ \E ports, words \in SUBSET StatPorts : r.stats = FromSysfs(ports, words)
  <2>1. PICK ports \in SUBSET StatPorts, words \in SUBSET StatPorts : r.stats = FromSysfs(ports, words)
    BY <1>3
  <2>2. ASSUME NEW p \in DOMAIN r.stats, NEW f \in Fields, r.stats[p][f] # None
        PROVE  r.stats[p][f] = Says(order, k, p, f)
    BY <1>0, <1>3, <2>1, <2>2 DEF FromSysfs, Says, Silent, NameOf
  <2>3. DOMAIN r.stats = ports
    BY <2>1 DEF FromSysfs
  <2>4. ShotOf(order, k, r.stats)
    BY <1>0, <1>3, <2>2, <2>3 DEF ShotOf
  <2>. QED  BY <2>4 DEF k
<1>. QED  BY <1>1, <1>2, <1>3

LEMMA StatInitHolds == ASSUME StatInit PROVE StatInv
<1>1. counters \in PortCounters
  BY StatisticsAssumption DEF StatInit, PortCounters
<1>2. order \in [Names -> Nat]
  <2>1. Cardinality(Names) \in Nat
    BY FS_CardinalityType, StatisticsAssumption
  <2>2. order \in [Names -> 1..Cardinality(Names)]
    BY DEF StatInit
  <2>. QED  BY <2>1, <2>2
<1>3. PICK r \in Collected : last = r.stats /\ known = Knows(r)
  BY DEF StatInit
<1>4. ShotOf(order, known, last)
  BY <1>1, <1>3, CollectedShot
<1>5. rates = None /\ before = <<>>
  BY DEF StatInit
<1>. QED  BY <1>1, <1>2, <1>4, <1>5 DEF StatInv

\* A snapshot that could be compared lacks nothing, and is known.
LEMMA SnapshotTaken ==
    ASSUME StatInv, NEW r \in Collected, ~DiffRaises(r.stats, last), DiffTaken(r)
    PROVE  /\ ShotOf(order, known', last') /\ Lacking(last') = {} /\ ShotOf(order, before', last)
           /\ ~DiffRaises(last', last) /\ last' = r.stats
<1>1. ShotOf(order, Knows(r), r.stats)
  BY CollectedShot DEF StatInv
<1>2. last' = r.stats /\ known' = Knows(r) /\ before' = known
  BY DEF DiffTaken
<1>3. ShotOf(order, known, last)
  BY DEF StatInv
<1>. QED  BY <1>1, <1>2, <1>3 DEF DiffRaises, Lacking

LEMMA StatStep == ASSUME StatInv, [StatNext]_stat_vars PROVE StatInv'
<1>1. CASE UpdateStatistics
  <2>1. PICK r \in Collected : ~DiffRaises(r.stats, last) /\ DiffTaken(r) /\ rates' = Diff(r.stats, last)
    BY <1>1 DEF UpdateStatistics, TakeSnapshot
  <2>2. /\ ShotOf(order, known', last') /\ Lacking(last') = {} /\ ShotOf(order, before', last)
        /\ ~DiffRaises(last', last) /\ last' = r.stats
    BY <2>1, SnapshotTaken
  <2>3. order' = order /\ counters' = counters
    BY <1>1 DEF UpdateStatistics
  <2>4. \E old : /\ ShotOf(order, before', old) /\ ~DiffRaises(last', old) /\ rates' = Diff(last', old)
    BY <2>1, <2>2
  <2>. QED  BY <2>2, <2>3, <2>4 DEF StatInv
<1>2. CASE ClearStatistics
  <2>1. PICK r \in Collected : ~DiffRaises(r.stats, last) /\ DiffTaken(r)
    BY <1>2 DEF ClearStatistics
  <2>2. ShotOf(order, known', last') /\ Lacking(last') = {}
    BY <2>1, SnapshotTaken
  <2>. QED  BY <1>2, <2>2 DEF StatInv, ClearStatistics
<1>3. CASE PortCounts
  <2>1. PICK p \in StatPorts : counters' \in
          {[counters EXCEPT ![p][n] = @ + 1] : n \in {m \in Names : counters[p][m] < MaxCount}}
          \cup {[counters EXCEPT ![p] = [n \in Names |-> 0]]}
    BY <1>3 DEF PortCounts
  <2>2. counters' \in PortCounters
    <3>1. counters \in [StatPorts -> [Names -> 0..MaxCount]] /\ MaxCount \in Nat
      BY StatisticsAssumption DEF StatInv, PortCounters
    <3>2. ASSUME NEW n \in Names, counters[p][n] < MaxCount,
                 counters' = [counters EXCEPT ![p][n] = counters[p][n] + 1]
          PROVE  counters' \in PortCounters
      <4>1. counters[p][n] + 1 \in 0..MaxCount
        BY <3>1, <3>2
      <4>2. [counters[p] EXCEPT ![n] = counters[p][n] + 1] \in [Names -> 0..MaxCount]
        BY <3>1, <4>1
      <4>3. counters' = [counters EXCEPT ![p] = [counters[p] EXCEPT ![n] = counters[p][n] + 1]]
        BY <3>1, <3>2
      <4>. QED  BY <3>1, <4>2, <4>3 DEF PortCounters
    <3>3. CASE counters' = [counters EXCEPT ![p] = [n \in Names |-> 0]]
      <4>1. [n \in Names |-> 0] \in [Names -> 0..MaxCount]
        BY <3>1
      <4>. QED  BY <3>1, <3>3, <4>1 DEF PortCounters
    <3>. QED  BY <2>1, <3>2, <3>3
  <2>. QED  BY <1>3, <2>2 DEF StatInv, PortCounts
<1>4. CASE UNCHANGED stat_vars
  BY <1>4 DEF StatInv, stat_vars
<1>. QED  BY <1>1, <1>2, <1>3, <1>4 DEF StatNext

\* The inductive invariant of the counters, for any names of them, any outputs
\* of the command and any order in which a process goes over the names.
THEOREM StatInvariance == StatSpec => []StatInv
<1>1. StatInit => StatInv
  BY StatInitHolds
<1>2. StatInv /\ [StatNext]_stat_vars => StatInv'
  BY StatStep
<1>. QED  BY <1>1, <1>2, PTL DEF StatSpec

\* A rate is the difference of what both snapshots say, and that of one name.
LEMMA RatesFollow == ASSUME StatInv PROVE RatesAreTraffic
<1>. DEFINE grew(p, n) == known.counters[p][n] - before.counters[p][n]
            rate(p, f) == IF p \in DOMAIN rates THEN rates[p][f] ELSE 0
            clear(p, f) == IF known.from = "sysfs" THEN f \in DOMAIN SysfsName
                           ELSE \A item \in ToSet(known.answer) :
                                    item.port = p => /\ item.shows \cap Aliases[f] # {}
                                                     /\ item.unreadable = {}
<1>1. SUFFICES ASSUME rates # None, known.from = before.from, known.answer = before.answer,
                      NEW p \in known.ports \cap before.ports, NEW f \in Fields
               PROVE  /\ rate(p, f) = 0 \/ \E n \in Aliases[f] : rate(p, f) = grew(p, n)
                      /\ clear(p, f) /\ (\A n \in Aliases[f] : grew(p, n) > 0) => rate(p, f) > 0
  BY DEF RatesAreTraffic
<1>2. PICK old : ShotOf(order, before, old) /\ ~DiffRaises(last, old) /\ rates = Diff(last, old)
  BY <1>1 DEF StatInv
<1>3. order \in [Names -> Nat] /\ ShotOf(order, known, last)
  BY DEF StatInv
<1>4. p \in DOMAIN last /\ p \in DOMAIN old
  BY <1>2, <1>3 DEF ShotOf
<1>5. last[p][f] # None /\ old[p][f] # None
  BY <1>2, <1>4 DEF DiffRaises, Lacks
<1>6. last[p][f] = Says(order, known, p, f) /\ old[p][f] = Says(order, before, p, f)
  BY <1>2, <1>3, <1>4, <1>5 DEF ShotOf
<1>7. last[p][f] \in Int /\ old[p][f] \in Int
  BY <1>2, <1>3, <1>4, <1>6, SaysNumber
<1>8. rate(p, f) = last[p][f] - old[p][f]
  <2>. DEFINE changed == [q \in DOMAIN last |-> IF q \in DOMAIN old THEN Minus(last[q], old[q]) ELSE last[q]]
  <2>1. rates = [q \in {r \in DOMAIN last : ~Quiet(changed[r])} |-> changed[q]]
    BY <1>2 DEF Diff
  <2>2. changed[p] = Minus(last[p], old[p])
    BY <1>4
  <2>3. changed[p][f] = last[p][f] - old[p][f]
    BY <2>2 DEF Minus
  <2>. HIDE DEF changed
  <2>4. CASE Quiet(changed[p])
    BY <2>1, <2>3, <2>4 DEF Quiet
  <2>5. CASE ~Quiet(changed[p])
    BY <1>4, <2>1, <2>3, <2>5
  <2>. QED  BY <2>4, <2>5
<1>9. /\ Silent(order, known, p, f) <=> Silent(order, before, p, f)
      /\ NameOf(order, known, p, f) = NameOf(order, before, p, f)
  BY <1>1 DEF Silent, NameOf
<1>10. CASE Silent(order, known, p, f)
  <2>1. rate(p, f) = 0
    BY <1>6, <1>8, <1>9, <1>10 DEF Says
  <2>2. ~clear(p, f)
    <3>1. CASE known.from = "sysfs"
      BY <1>10, <3>1 DEF Silent
    <3>2. CASE known.from # "sysfs"
      <4>. DEFINE item == ItemOf(known.answer, p)
      <4>1. item \in ToSet(known.answer) /\ item.port = p
        BY <1>3, <1>4, <3>2, ItemFound DEF ShotOf
      <4>2. NamesIn(item, f) = {} \/ FirstName(order, item, f) \in item.unreadable
        BY <1>10, <3>2 DEF Silent
      <4>. QED  BY <3>2, <4>1, <4>2 DEF NamesIn
    <3>. QED  BY <3>1, <3>2
  <2>. QED  BY <2>1, <2>2
<1>11. CASE ~Silent(order, known, p, f)
  <2>. DEFINE n == NameOf(order, known, p, f)
  <2>1. n \in Aliases[f]
    BY <1>3, <1>4, <1>11, NameFound
  <2>2. rate(p, f) = grew(p, n)
    BY <1>6, <1>8, <1>9, <1>11 DEF Says
  <2>. HIDE DEF n, rate, grew, clear
  <2>. QED  BY <2>1, <2>2
<1>. QED  BY <1>10, <1>11

\* What the RDMA monitor calls traffic is what one of the counters for the
\* field has grown, whatever the outputs name, the order of names and the
\* counts are (RDMACounterStat.diff, _build_stat).
THEOREM RatesOfCounters == StatSpec => []RatesAreTraffic
<1>1. StatInv => RatesAreTraffic
  BY RatesFollow
<1>. QED  BY <1>1, StatInvariance, PTL

\* Only the snapshot of the construction lacks a number, and the counters keep
\* their types: what an update cannot compare it does not keep.
THEOREM OnlyStartLacks == StatSpec => [](LacksOnlyAtStart /\ StatTypeOK)
<1>1. ASSUME StatInv PROVE LacksOnlyAtStart /\ StatTypeOK
  <2>1. ASSUME rates # None PROVE DOMAIN rates \subseteq DOMAIN last
    BY <1>1, <2>1 DEF StatInv, Diff
  <2>. QED  BY <1>1, <2>1 DEF StatInv, ShotOf, PortCounters, LacksOnlyAtStart, StatTypeOK
<1>2. StatInv => LacksOnlyAtStart /\ StatTypeOK
  BY <1>1
<1>. QED  BY <1>2, StatInvariance, PTL
-----------------------------------------------------------------------------
(* The bandwidths of the HCCS sniffer: a die's are made of its own counters.   *)

\* The counters of the die that node n is on.
OwnCounters(clusters, report, n) ==
    {k \in DOMAIN report : Known(clusters, n) /\ k[1] = NumaToSccl(clusters)[n]}

\* Rates are natural numbers.
LEMMA RateTyped ==
    ASSUME NEW report, NEW die, NEW event,
           \A k \in DOMAIN report : report[k].count \in Nat /\ report[k].interval \in Nat \ {0}
    PROVE  Rate(report, die, event) \in Nat
<1>. DEFINE c == Counter(report, die, event)
<1>1. c.count \in Nat /\ c.interval \in Nat \ {0}
  BY DEF Counter
<1>. HIDE DEF c
<1>2. Scale \div c.interval \in Nat
  BY <1>1, BandwidthAssumption
<1>3. c.count * (Scale \div c.interval) \in Nat
  BY <1>1, <1>2
<1>. QED  BY <1>3 DEF Rate, c

\* What two reports say alike of a die, they make the same of it.
LEMMA SameBandwidths ==
    ASSUME NEW c, NEW d, NEW die, \A e : Counter(c, die, e) = Counter(d, die, e)
    PROVE  /\ DdrBandwidth(c, die) = DdrBandwidth(d, die)
           /\ HhaBandwidth(c, die) = HhaBandwidth(d, die)
           /\ L3cBandwidth(c, die) = L3cBandwidth(d, die)
           /\ PaBandwidth(c, die) = PaBandwidth(d, die)
<1>1. \A e : Rate(c, die, e) = Rate(d, die, e)
  BY DEF Rate
<1>2. DdrBandwidth(c, die) = DdrBandwidth(d, die)
  BY <1>1 DEF DdrBandwidth
<1>3. HhaBandwidth(c, die) = HhaBandwidth(d, die)
  BY <1>1 DEF HhaBandwidth
<1>4. L3cBandwidth(c, die) = L3cBandwidth(d, die)
  BY <1>1 DEF L3cBandwidth
<1>5. PaBandwidth(c, die) = PaBandwidth(d, die)
  BY <1>1 DEF PaBandwidth
<1>. QED  BY <1>2, <1>3, <1>4, <1>5

LEMMA OwnCountersSay ==
    ASSUME NEW clusters, NEW report, NEW n, Known(clusters, n), NEW e
    PROVE  LET die == NumaToSccl(clusters)[n]
           IN Counter(Restrict(report, OwnCounters(clusters, report, n)), die, e)
                = Counter(report, die, e)
<1>. DEFINE die == NumaToSccl(clusters)[n]
            own == OwnCounters(clusters, report, n)
<1>1. <<die, e>> \in own <=> <<die, e>> \in DOMAIN report
  BY DEF OwnCounters
<1>2. DOMAIN Restrict(report, own) = own
      /\ \A k \in own : Restrict(report, own)[k] = report[k]
  BY DEF Restrict
<1>. HIDE DEF die, own
<1>3. Counter(Restrict(report, own), die, e) = Counter(report, die, e)
  BY <1>1, <1>2 DEF Counter
<1>. QED  BY <1>3 DEF die, own

\* For any clusters, any report of counters, whatever is watched and any node:
\* what a node is shown to do is of its own die, cross-socket traffic is part
\* of the home agents', and none of theirs is missing from its split
\* (query_bandwidth and HCCSCollector.get_neighbors_with_edges).
THEOREM TrafficIsOwn ==
    ASSUME NEW clusters, NEW report, NEW watched, NEW n,
           \A k \in DOMAIN report : report[k].count \in Nat /\ report[k].interval \in Nat \ {0}
    PROVE  OwnTraffic(clusters, report, watched, n)
<1>. DEFINE own == OwnCounters(clusters, report, n)
            drawn == NumaEdges(clusters, report, watched, n)
            die == NumaToSccl(clusters)[n]
            s == Snapshot(clusters, report, watched, n)
<1>1. drawn = NumaEdges(clusters, Restrict(report, own), watched, n)
  <2>1. CASE ~Known(clusters, n)
    BY <2>1 DEF NumaEdges
  <2>2. CASE Known(clusters, n)
    <3>1. \A e : Counter(Restrict(report, own), die, e) = Counter(report, die, e)
      BY <2>2, OwnCountersSay
    <3>. HIDE DEF own
    <3>2. Snapshot(clusters, Restrict(report, own), watched, n) = Snapshot(clusters, report, watched, n)
      BY <3>1, SameBandwidths DEF Snapshot
    <3>. QED  BY <2>2, <3>2 DEF NumaEdges
  <2>. QED  BY <2>1, <2>2
<1>2. ASSUME NEW e \in drawn, e.kind = "hccs"
      PROVE  \E h \in drawn : h.kind = "hha" /\ Restrict(h.info, DOMAIN e.info) = e.info
  <2>1. /\ Known(clusters, n) /\ s.hha.total > 0
        /\ e.info = Restrict(s.hha, HhaKinds \ {"read", "write"})
    BY <1>2 DEF NumaEdges
  <2>. DEFINE h == [kind |-> "hha", node |-> n, info |-> s.hha]
  <2>2. h \in drawn
    BY <2>1 DEF NumaEdges
  <2>3. Restrict(h.info, DOMAIN e.info) = e.info
    BY <2>1 DEF Restrict
  <2>. QED  BY <2>2, <2>3
<1>3. ASSUME NEW e \in drawn, e.kind = "hha"
      PROVE  e.info.cross_socket + e.info.cross_die + e.info.inner_die >= e.info.total
  <2>1. e.info = s.hha /\ s.hha.total > 0
    BY <1>3 DEF NumaEdges
  <2>2. s.hha = HhaBandwidth(report, die) \/ s.hha = Zeros(HhaKinds)
    BY DEF Snapshot
  <2>3. ~(s.hha = Zeros(HhaKinds))
    BY <2>1 DEF Zeros, HhaKinds
  <2>. DEFINE total == Rate(report, die, "total")
              outer == Rate(report, die, "outer")
              sccl == Rate(report, die, "sccl")
              left == total - outer - sccl
  <2>4. total \in Nat /\ outer \in Nat /\ sccl \in Nat
    BY RateTyped
  <2>5. /\ e.info.total = total /\ e.info.cross_socket = outer /\ e.info.cross_die = sccl
        /\ e.info.inner_die = Max({0, left})
    <3>1. s.hha = HhaBandwidth(report, die) /\ Counter(report, die, "total").count # 0
      BY <2>2, <2>3 DEF HhaBandwidth
    <3>2. /\ s.hha.total = total /\ s.hha.cross_socket = outer /\ s.hha.cross_die = sccl
          /\ s.hha.inner_die = Max({0, left})
      BY <3>1 DEF HhaBandwidth
    <3>. QED  BY <2>1, <3>2
  <2>. HIDE DEF total, outer, sccl
  <2>6. Max({0, left}) \in {0, left} /\ Max({0, left}) >= left
    <3>1. \E x \in {0, left} : \A y \in {0, left} : x >= y
      <4>1. CASE left >= 0
        BY <2>4, <4>1
      <4>2. CASE ~(left >= 0)
        BY <2>4, <4>2
      <4>. QED  BY <4>1, <4>2
    <3>. QED  BY <3>1 DEF Max
  <2>. QED  BY <2>4, <2>5, <2>6
<1>4. own = {k \in DOMAIN report : Known(clusters, n) /\ k[1] = NumaToSccl(clusters)[n]}
  BY DEF OwnCounters
<1>. QED  BY <1>1, <1>2, <1>3, <1>4 DEF OwnTraffic
-----------------------------------------------------------------------------
(* The tables of resources (RdmaStatistics). *)

\* A table of the command: no key of an item has None for its value.
ItemsRead(items) ==
    /\ \E n \in Nat : DOMAIN items = 1..n
    /\ \A i \in DOMAIN items : \A k \in DOMAIN items[i] : items[i][k] # None

Keeping(kept, r) == IF Numbered(r) THEN Append(kept, r) ELSE kept
NumberedOf(resources, s) == {i \in s : Numbered(resources[i])}

LEMMA NumberedCounted ==
    ASSUME NEW n \in Nat, NEW resources, DOMAIN resources = 1..n
    PROVE  Len(Those(Numbered, resources)) = Cardinality(NumberedOf(resources, DOMAIN resources))
<1>. DEFINE S == DOMAIN resources
            V == Seq({resources[i] : i \in S})
            again(g) == [s \in SUBSET S |-> IF s = {} THEN <<>> ELSE Keeping(g[s \ {Max(s)}], resources[Max(s)])]
            iter == CHOOSE g : g = again(g)
            c == Topmost(S)
            G == [p \in S \X V |-> Keeping(p[2], resources[p[1]])]
<1>1. Those(Numbered, resources) = iter[S]
  BY DEF Those, FoldLeft, MapThenFoldSet, Keeping
<1>2. S \in SUBSET Int /\ IsFiniteSet(S)
  BY FS_Interval
<1>3. /\ Picks(c, S)
      /\ \A s \in SUBSET S : s # {} => c[s] = Max(s) /\ Max(s) \in s
  <2>. HIDE DEF S
  <2>. QED
    BY <1>2, GreatestTaken
<1>0. \A i \in S : \A x \in V : Keeping(x, resources[i]) \in V
  BY DEF Keeping
<1>. HIDE DEF c
<1>4. iter = again(iter)
  <2>1. G \in [S \X V -> V] /\ <<>> \in V
    <3>1. \A p \in S \X V : p[1] \in S /\ p[2] \in V
      OBVIOUS
    <3>2. \A p \in S \X V : Keeping(p[2], resources[p[1]]) \in V
      BY <1>0, <3>1
    <3>. QED
      BY <3>2
  <2>2. \A p \in S \X V : G[p] = Keeping(p[2], resources[p[1]])
    OBVIOUS
  <2>. HIDE DEF G, S, V
  <2>3. PICK g \in [SUBSET S -> V] : Folds(g, S, c, <<>>, G)
    BY <1>2, <1>3, <2>1, FoldExists
  <2>4. g = again(g)
    <3>1. ASSUME NEW s \in SUBSET S PROVE g[s] = again(g)[s]
      <4>1. CASE s = {}
        BY <2>3, <4>1 DEF Folds
      <4>2. CASE s # {}
        <5>1. c[s] = Max(s) /\ <<c[s], g[s \ {c[s]}]>> \in S \X V
          BY <1>3, <4>2
        <5>2. g[s] = G[<<c[s], g[s \ {c[s]}]>>]
          BY <2>3, <4>2 DEF Folds
        <5>3. g[s] = Keeping(g[s \ {Max(s)}], resources[Max(s)])
          BY <2>2, <5>1, <5>2
        <5>. QED
          BY <4>2, <5>3
      <4>. QED
        BY <4>1, <4>2
    <3>2. again(g) = [s \in SUBSET S |-> again(g)[s]]
      OBVIOUS
    <3>3. g = [s \in SUBSET S |-> g[s]]
      OBVIOUS
    <3>. HIDE DEF again
    <3>. QED
      BY <3>1, <3>2, <3>3
  <2>. HIDE DEF again
  <2>. QED
    BY <2>4
<1>5. \A s \in SUBSET S : iter[s] = IF s = {} THEN <<>> ELSE Keeping(iter[s \ {Max(s)}], resources[Max(s)])
  <2>1. \A s \in SUBSET S : iter[s] = again(iter)[s]
    <3>. HIDE DEF iter, again
    <3>. QED
      BY <1>4
  <2>. HIDE DEF iter
  <2>. QED
    BY <2>1
<1>. HIDE DEF iter
<1>. DEFINE AsMany(s) == Len(iter[s]) = Cardinality(NumberedOf(resources, s))
            P == {s \in SUBSET S : iter[s] \in V /\ AsMany(s)}
<1>6. {} \in P
  <2>1. NumberedOf(resources, {}) = {} /\ Cardinality({}) = 0 /\ iter[{}] = <<>> /\ {} \in SUBSET S
    BY <1>5, FS_EmptySet DEF NumberedOf
  <2>2. <<>> \in V /\ Len(<<>>) = 0
    OBVIOUS
  <2>. HIDE DEF V
  <2>. QED
    BY <2>1, <2>2
<1>7. ASSUME NEW s \in SUBSET S, s # {}, s \ {c[s]} \in P PROVE s \in P
  <2>. DEFINE m == Max(s)
              r == s \ {m}
              N(t) == NumberedOf(resources, t)
  <2>1. c[s] = m /\ m \in s /\ m \in S
    BY <1>3, <1>7
  <2>2. iter[r] \in V /\ Len(iter[r]) = Cardinality(N(r))
    BY <1>7, <2>1
  <2>3. iter[s] = Keeping(iter[r], resources[m])
    BY <1>5, <1>7
  <2>4. IsFiniteSet(N(r)) /\ Cardinality(N(r)) \in Nat
    <3>1. N(r) \in SUBSET S
      BY DEF NumberedOf
    <3>. QED
      BY <1>2, <3>1, FS_Subset, FS_CardinalityType
  <2>5. iter[s] \in V
    BY <1>0, <2>1, <2>2, <2>3
  <2>6. CASE Numbered(resources[m])
    <3>1. N(s) = N(r) \cup {m} /\ m \notin N(r)
      BY <2>1, <2>6 DEF NumberedOf
    <3>2. Cardinality(N(s)) = Cardinality(N(r)) + 1
      BY <2>4, <3>1, FS_AddElement
    <3>3. iter[s] = Append(iter[r], resources[m])
      BY <2>3, <2>6 DEF Keeping
    <3>4. Len(iter[s]) = Len(iter[r]) + 1
      BY <2>2, <3>3
    <3>. QED
      BY <2>2, <2>5, <3>2, <3>4
  <2>7. CASE ~Numbered(resources[m])
    <3>1. N(s) = N(r)
      BY <2>1, <2>7 DEF NumberedOf
    <3>2. iter[s] = iter[r]
      BY <2>3, <2>7 DEF Keeping
    <3>. QED
      BY <2>2, <2>5, <3>1, <3>2
  <2>. QED
    BY <2>6, <2>7
<1>8. S \in P
  <2>1. Grows(P, c, S)
    BY <1>7 DEF Grows
  <2>. HIDE DEF P, S
  <2>. QED
    BY <1>2, <1>3, <1>6, <2>1, AllSubsets
<1>. QED
  BY <1>1, <1>8

\* The value of the first of the keys that is there and counts, if there is one.
SaidBy(item, k, json) == k \in DOMAIN item /\ (json => item[k] \notin Empty)

LEMMA GetOne ==
    ASSUME NEW item, \A k \in DOMAIN item : item[k] # None, NEW n \in Nat, NEW keys, DOMAIN keys = 1..n,
           NEW json \in BOOLEAN, NEW i \in 1..n, SaidBy(item, keys[i], json)
    PROVE  \E j \in 1..n : SaidBy(item, keys[j], json) /\ Get(item, keys, json) = item[keys[j]]
<1>. DEFINE value(k) == IF k \in DOMAIN item THEN item[k] ELSE None
            good == {j \in DOMAIN keys : value(keys[j]) \notin {None} \cup (IF json THEN Empty ELSE {})}
<1>1. \A j \in 1..n : j \in good <=> SaidBy(item, keys[j], json)
  BY DEF SaidBy
<1>2. Get(item, keys, json) = value(keys[IF good = {} THEN Len(keys) ELSE Min(good)])
  BY DEF Get
<1>3. good # {} /\ good \in SUBSET 1..n
  BY <1>1
<1>. HIDE DEF good
<1>4. Min(good) \in good
  <2>1. \E m \in good : \A j \in good : m <= j
    <3>1. \A j \in good : j \in Nat
      BY <1>3
    <3>. DEFINE T == {k \in Nat : \A j \in good : j <= k => \E m \in good : \A q \in good : m <= q}
    <3>2. 0 \in T
      BY <1>3
    <3>3. ASSUME NEW k \in T PROVE k + 1 \in T
      <4>. SUFFICES ASSUME NEW j \in good, j <= k + 1 PROVE \E m \in good : \A q \in good : m <= q
        OBVIOUS
      <4>1. CASE j <= k
        BY <4>1
      <4>2. CASE ~(j <= k)
        <5>1. CASE \A q \in good : j <= q
          BY <5>1
        <5>2. CASE \E q \in good : ~(j <= q)
          <6>1. PICK q \in good : ~(j <= q)
            BY <5>2
          <6>2. q <= k
            BY <3>1, <4>2, <6>1
          <6>. QED
            BY <6>2
        <5>. QED
          BY <5>1, <5>2
      <4>. QED
        BY <4>1, <4>2
    <3>4. T = Nat
      <4>1. T \in SUBSET Nat
        OBVIOUS
      <4>. HIDE DEF T
      <4>. QED
        BY <3>2, <3>3, <4>1, AllNumbers
    <3>5. PICK j \in good : TRUE
      BY <1>3
    <3>6. j \in T /\ j <= j
      BY <3>1, <3>4
    <3>. QED
      BY <3>6
  <2>. QED
    BY <2>1 DEF Min
<1>. DEFINE j == Min(good)
<1>5. j \in good /\ j \in 1..n
  BY <1>3, <1>4
<1>. HIDE DEF j
<1>6. SaidBy(item, keys[j], json)
  BY <1>1, <1>5
<1>7. Get(item, keys, json) = item[keys[j]]
  BY <1>2, <1>3, <1>6 DEF SaidBy, j
<1>. QED
  BY <1>5, <1>6, <1>7

HasOne(item, keys) == \E k \in Range(keys) : k \in DOMAIN item /\ item[k] \notin Empty
Devices == <<"dev", "device", "ifname">>
WellNamed(item, keys) ==
    /\ HasOne(item, Devices) /\ HasOne(item, keys)
    /\ \A k \in Range(keys) : k \in DOMAIN item => item[k] \notin {0, Word, Blank}

LEMMA SoundNumbered ==
    ASSUME NEW item, \A k \in DOMAIN item : item[k] # None, NEW n \in Nat, NEW keys, DOMAIN keys = 1..n,
           NEW json \in BOOLEAN, WellNamed(item, keys)
    PROVE  Numbered(Record(item, json, keys))
<1>1. Get(item, Devices, json) # None
  <2>1. DOMAIN Devices = 1..3
    BY DEF Devices
  <2>2. PICK k \in Range(Devices) : k \in DOMAIN item /\ item[k] \notin Empty
    BY DEF WellNamed, HasOne
  <2>3. PICK i \in 1..3 : k = Devices[i]
    BY <2>1 DEF Range
  <2>4. SaidBy(item, Devices[i], json)
    BY <2>2, <2>3 DEF SaidBy
  <2>5. PICK j \in 1..3 : SaidBy(item, Devices[j], json) /\ Get(item, Devices, json) = item[Devices[j]]
    <3>. DEFINE three == 3
    <3>1. three \in Nat /\ DOMAIN Devices = 1..three /\ i \in 1..three
      BY <2>1
    <3>. HIDE DEF Devices, three
    <3>2. \E j \in 1..three : SaidBy(item, Devices[j], json) /\ Get(item, Devices, json) = item[Devices[j]]
      BY <2>4, <3>1, GetOne
    <3>. QED
      BY <3>2 DEF three
  <2>. QED
    BY <2>5 DEF SaidBy
<1>2. Get(item, keys, json) \notin {None, Word, Blank, 0}
  <2>2. PICK k \in Range(keys) : k \in DOMAIN item /\ item[k] \notin Empty
    BY DEF WellNamed, HasOne
  <2>3. PICK i \in 1..n : k = keys[i]
    BY DEF Range
  <2>4. SaidBy(item, keys[i], json)
    BY <2>2, <2>3 DEF SaidBy
  <2>5. PICK j \in 1..n : SaidBy(item, keys[j], json) /\ Get(item, keys, json) = item[keys[j]]
    BY <2>4, GetOne
  <2>6. keys[j] \in Range(keys)
    BY DEF Range
  <2>. QED
    BY <2>5, <2>6 DEF SaidBy, WellNamed
<1>3. /\ Record(item, json, keys).device = Get(item, Devices, json)
      /\ Record(item, json, keys).number = SafeInt(Get(item, keys, json))
  BY DEF Record, Devices
<1>. QED
  BY <1>1, <1>2, <1>3 DEF Numbered, HasDevice, SafeInt

\* A table names the same in JSON and in a text if nothing of it is empty.
Filled(items) == \A i \in DOMAIN items : \A k \in DOMAIN items[i] : items[i][k] \notin Empty

LEMMA GetSame ==
    ASSUME NEW item, \A k \in DOMAIN item : item[k] \notin Empty, NEW keys
    PROVE  Get(item, keys, TRUE) = Get(item, keys, FALSE)
<1>. DEFINE value(k) == IF k \in DOMAIN item THEN item[k] ELSE None
            inJson == {i \in DOMAIN keys : value(keys[i]) \notin {None} \cup (IF TRUE THEN Empty ELSE {})}
            inText == {i \in DOMAIN keys : value(keys[i]) \notin {None} \cup (IF FALSE THEN Empty ELSE {})}
            first == keys[IF inJson = {} THEN Len(keys) ELSE Min(inJson)]
            got == value(first)
<1>1. inJson = inText
  OBVIOUS
<1>2. Get(item, keys, TRUE) = got
  BY DEF Get
<1>3. Get(item, keys, FALSE) = value(keys[IF inText = {} THEN Len(keys) ELSE Min(inText)])
  BY DEF Get
<1>4. keys[IF inText = {} THEN Len(keys) ELSE Min(inText)] = first
  <2>. HIDE DEF inJson, inText
  <2>. QED
    BY <1>1
<1>5. Get(item, keys, FALSE) = got
  <2>. HIDE DEF inJson, first
  <2>. QED
    BY <1>3, <1>4
<1>. HIDE DEF got
<1>. QED
  BY <1>2, <1>5

LEMMA RecordSame ==
    ASSUME NEW items, Filled(items), NEW number, NEW i \in DOMAIN items
    PROVE  Record(items[i], TRUE, number) = Record(items[i], FALSE, number)
<1>1. \A keys : Get(items[i], keys, TRUE) = Get(items[i], keys, FALSE)
  BY GetSame DEF Filled
<1>. QED
  BY <1>1 DEF Record

Recorded(items, json, keys) == [i \in DOMAIN items |-> Record(items[i], json, keys)]

LEMMA EnoughRecords ==
    ASSUME NEW items, ItemsRead(items), NEW json \in BOOLEAN, NEW n \in Nat, NEW keys, DOMAIN keys = 1..n
    PROVE  Len(Those(Numbered, Recorded(items, json, keys))) >= Cardinality({i \in DOMAIN items : WellNamed(items[i], keys)})
<1>. DEFINE resources == Recorded(items, json, keys)
            S == DOMAIN items
            sound == {i \in S : WellNamed(items[i], keys)}
            numbered == NumberedOf(resources, S)
<1>1. PICK k \in Nat : S = 1..k
  BY DEF ItemsRead
<1>2. DOMAIN resources = S /\ \A i \in S : resources[i] = Record(items[i], json, keys)
  BY DEF Recorded
<1>3. sound \subseteq numbered
  <2>1. ASSUME NEW i \in sound PROVE i \in numbered
    <3>1. \A q \in DOMAIN items[i] : items[i][q] # None
      BY DEF ItemsRead
    <3>2. Numbered(Record(items[i], json, keys))
      BY <3>1, SoundNumbered
    <3>. QED
      BY <1>2, <3>2 DEF NumberedOf
  <2>. QED
    BY <2>1
<1>4. Len(Those(Numbered, resources)) = Cardinality(numbered)
  BY <1>1, <1>2, NumberedCounted
<1>5. IsFiniteSet(numbered)
  <2>1. IsFiniteSet(S) /\ numbered \in SUBSET S
    BY <1>1, FS_Interval DEF NumberedOf
  <2>. QED
    BY <2>1, FS_Subset
<1>6. Cardinality(sound) <= Cardinality(numbered) /\ Cardinality(sound) \in Nat /\ Cardinality(numbered) \in Nat
  BY <1>3, <1>5, FS_Subset, FS_CardinalityType
<1>. QED
  BY <1>4, <1>6

\* Whatever table is printed (GetQpRecords, GetMrRecords, GetPdRecords).
THEOREM RecordsAreKept ==
    ASSUME NEW items, ItemsRead(items)
    PROVE  RecordsKept(items)
<1>1. /\ \A json : GetQpRecords(items, json) = Those(Numbered, Recorded(items, json, <<"lqpn", "qpn">>))
      /\ \A json : GetMrRecords(items, json) = Those(Numbered, Recorded(items, json, <<"mrn", "mr">>))
      /\ \A json : GetPdRecords(items, json) = Those(HasDevice, Recorded(items, json, <<"pdn">>))
  BY DEF GetQpRecords, GetMrRecords, GetPdRecords, Recorded
<1>2. \A json \in BOOLEAN :
        /\ Len(GetQpRecords(items, json)) >= Cardinality({i \in DOMAIN items : WellNamed(items[i], <<"lqpn", "qpn">>)})
        /\ Len(GetMrRecords(items, json)) >= Cardinality({i \in DOMAIN items : WellNamed(items[i], <<"mrn", "mr">>)})
  <2>. DEFINE two == 2
              a == <<"lqpn", "qpn">>
              b == <<"mrn", "mr">>
  <2>1. two \in Nat /\ DOMAIN a = 1..two /\ DOMAIN b = 1..two
    OBVIOUS
  <2>. HIDE DEF a, b, two
  <2>2. \A json \in BOOLEAN :
          /\ Len(Those(Numbered, Recorded(items, json, a))) >= Cardinality({i \in DOMAIN items : WellNamed(items[i], a)})
          /\ Len(Those(Numbered, Recorded(items, json, b))) >= Cardinality({i \in DOMAIN items : WellNamed(items[i], b)})
    BY <2>1, EnoughRecords
  <2>. QED
    BY <1>1, <2>2 DEF a, b
<1>3. ASSUME Filled(items)
      PROVE  /\ GetQpRecords(items, TRUE) = GetQpRecords(items, FALSE)
             /\ GetMrRecords(items, TRUE) = GetMrRecords(items, FALSE)
             /\ GetPdRecords(items, TRUE) = GetPdRecords(items, FALSE)
  <2>1. \A keys : Recorded(items, TRUE, keys) = Recorded(items, FALSE, keys)
    BY <1>3, RecordSame DEF Recorded
  <2>. QED
    BY <1>1, <2>1
<1>. QED
  BY <1>2, <1>3 DEF RecordsKept, WellNamed, HasOne, Devices, Filled, ToSet, Range

-----------------------------------------------------------------------------
(* The sources together: a step of one leaves the others alone, so each       *)
(* behaves as it does by itself.                                            *)

LEMMA SourcesStart ==
    ASSUME SourcesInit
    PROVE  SnifferInit /\ TopologyInit /\ ParentInit /\ MapsInit /\ IpcInit /\ ProbesInit /\ StatInit
BY DEF SourcesInit

LEMMA SourcesStep ==
    ASSUME [SourcesNext]_sources_vars
    PROVE  /\ [SnifferNext]_sniffer_vars /\ [TopologyNext]_topology_vars /\ [ParentNext]_parent_vars
           /\ [MapsNext]_maps_vars /\ [IpcNext]_ipc_vars
           /\ [ProbesNext]_probes_vars /\ [StatNext]_stat_vars
<1>1. CASE UNCHANGED sources_vars
  BY <1>1 DEF sources_vars
<1>2. CASE others("sniffers") /\ SnifferNext
  BY <1>2 DEF others
<1>3. CASE others("rdma") /\ TopologyNext
  BY <1>3 DEF others
<1>4. CASE others("parents") /\ ParentNext
  BY <1>4 DEF others
<1>5. CASE others("ipc") /\ IpcNext
  BY <1>5 DEF others
<1>6. CASE others("maps") /\ MapsNext
  BY <1>6 DEF others
<1>7. CASE others("probes") /\ ProbesNext
  BY <1>7 DEF others
<1>8. CASE others("statistics") /\ StatNext
  BY <1>8 DEF others
<1>. QED  BY <1>1, <1>2, <1>3, <1>4, <1>5, <1>6, <1>7, <1>8 DEF SourcesNext

\* Events, rows, counts, lines and connections reach the graph as themselves,
\* and processes with the parents and ancestors they have, for any threads,
\* tasks, sessions, tables, trees and outputs, however their sources run.
THEOREM SourcesReachGraph == SourcesSpec => []SourcesKept
<1>1. SourcesInit => SnifferInit /\ TopologyInit /\ ParentInit /\ MapsInit /\ IpcInit /\ ProbesInit /\ StatInit
  BY SourcesStart
<1>2. [SourcesNext]_sources_vars =>
          /\ [SnifferNext]_sniffer_vars /\ [TopologyNext]_topology_vars /\ [ParentNext]_parent_vars
          /\ [MapsNext]_maps_vars /\ [IpcNext]_ipc_vars
          /\ [ProbesNext]_probes_vars /\ [StatNext]_stat_vars
  BY SourcesStep
<1>3. SourcesSpec => SnifferSpec /\ TopologySpec /\ ParentSpec /\ MapsSpec /\ IpcSpec /\ ProbesSpec /\ StatSpec
  BY <1>1, <1>2, PTL DEF SourcesSpec, SnifferSpec, TopologySpec, ParentSpec, MapsSpec,
                        IpcSpec, ProbesSpec, StatSpec
<1>4. /\ SnifferTypeOK /\ CountedOnce /\ RecentRowsKept
      /\ TopologyTypeOK /\ ConnectionsFound /\ PairsFound
      /\ ParentTypeOK /\ ParentsFound
      /\ MapsTypeOK /\ CountsKept
      /\ IpcTypeOK /\ LinesKept /\ NoProgramLeft
      /\ ProbesTypeOK /\ CallsAttributed /\ ArgsFreed
      /\ StatTypeOK /\ RatesAreTraffic /\ LacksOnlyAtStart
      => SourcesKept
  BY DEF SourcesKept
<1>. QED
  BY <1>3, <1>4, SnifferTypeCorrect, RowsCountedOnce, RecentRowsStay, TopologyTypeCorrect,
     RdmaFindsConnections, RdmaFindsPairs, ParentsAreFound, CountsOfMaps, IpcTypeCorrect,
     LinesReachEvents, ProgramsStop, ProbesTypeCorrect, CallsCounted, ArgumentsFreed, OnlyStartLacks, RatesOfCounters, PTL
-----------------------------------------------------------------------------
(* What is computed of any input. *)

Inputs == HccsInputs \cup NumaInputs \cup Tables \cup {<<>>}

LEMMA InputsStay == SourcesSpec => [](input \in Inputs)
<1>1. SourcesInit => input \in Inputs
  BY DEF SourcesInit, Inputs
<1>2. input \in Inputs /\ [SourcesNext]_sources_vars => (input \in Inputs)'
  <2>. HAVE input \in Inputs /\ [SourcesNext]_sources_vars
  <2>1. UNCHANGED input
    BY DEF SourcesNext, others, sources_vars
  <2>. QED
    BY <2>1 DEF Inputs, HccsInputs, NumaInputs
<1>. QED
  BY <1>1, <1>2, PTL DEF SourcesSpec

LEMMA FiniteUpTo == ASSUME NEW n \in Nat, NEW s \in SUBSET (0..n) PROVE s \in SUBSET Int /\ IsFiniteSet(s)
<1>1. IsFiniteSet(0..n)
  BY FS_Interval
<1>2. IsFiniteSet(s)
  BY <1>1, FS_Subset
<1>3. 0..n \in SUBSET Int
  OBVIOUS
<1>. QED
  BY <1>2, <1>3

LEMMA MachineComputed ==
    ASSUME NEW i \in Machines
    PROVE  i.of = "dies" /\ DiesPartitionNodes(i.nodes, i.distance)
<1>1. i.of = "dies" /\ i.nodes \in SUBSET (0..2)
  <2>1. \E nodes \in SUBSET (0..2) : \E d : i = [of |-> "dies", nodes |-> nodes, distance |-> d]
    BY DEF Machines
  <2>. QED
    BY <2>1
<1>2. i.nodes \in SUBSET Int /\ IsFiniteSet(i.nodes)
  BY <1>1, FiniteUpTo
<1>. QED
  BY <1>1, <1>2, DiesArePartition

LEMMA TrafficComputed ==
    ASSUME NEW i \in Traffic
    PROVE  i.of = "traffic" /\ \A n \in 0..2 : OwnTraffic(i.clusters, i.counters, i.enabled, n)
<1>1. PICK c \in Counts0, d \in Second : i.of = "traffic" /\ i.counters = Report(c, d)
  BY DEF Traffic
<1>2. \A w \in Watched : c[w] \in Nat
  BY InputsAssumption DEF Counts0
<1>3. \A k \in DOMAIN d : d[k].count \in Nat /\ d[k].interval \in Nat \ {0}
  BY DEF Second
<1>4. \A k \in DOMAIN Report(c, d) :
        Report(c, d)[k].count \in Nat /\ Report(c, d)[k].interval \in Nat \ {0}
  <2>. SUFFICES ASSUME NEW k \in ({0} \X Watched) \cup Always \cup DOMAIN d
                PROVE  /\ Report(c, d)[k].count \in Nat /\ Report(c, d)[k].interval \in Nat \ {0}
    BY DEF Report
  <2>1. CASE k \in DOMAIN d
    BY <1>3, <2>1 DEF Report
  <2>2. CASE k \notin DOMAIN d /\ k \in Always
    BY <2>2 DEF Report
  <2>3. CASE k \notin DOMAIN d /\ k \notin Always
    <3>1. k[2] \in Watched
      BY <2>3
    <3>. QED
      BY <1>2, <2>3, <3>1 DEF Report
  <2>. QED
    BY <2>1, <2>2, <2>3
<1>. QED
  BY <1>1, <1>4, TrafficIsOwn

LEMMA NumbersComputed ==
    ASSUME NEW i \in Numbers
    PROVE  i.of = "numbers" /\ RangesRoundTrip(i.numbers)
<1>1. i.of = "numbers" /\ i.numbers \in SUBSET (0..MaxNumber)
  <2>1. \E s \in SUBSET (0..MaxNumber) : i = [of |-> "numbers", numbers |-> s]
    BY DEF Numbers
  <2>. QED
    BY <2>1
<1>2. i.numbers \in SUBSET Int /\ IsFiniteSet(i.numbers)
  BY <1>1, InputsAssumption, FiniteUpTo
<1>. QED
  BY <1>1, <1>2, RangesAreExact

LEMMA MatrixComputed ==
    ASSUME NEW i \in Matrices
    PROVE  i.of = "matrix" /\ DistancesSymmetric(i.rows)
<1>1. PICK q \in 0..1, a \in {<<10, 20>>, <<21, 10>>, <<10>>, <<>>}, b \in {<<10, 20>>, <<21, 10>>, <<10>>, <<>>} :
        i.of = "matrix" /\ i.rows = <<[id |-> 0, distances |-> a], [id |-> q, distances |-> b]>>
  <2>. DEFINE Printings == {<<10, 20>>, <<21, 10>>, <<10>>, <<>>}
  <2>1. \E q \in 0..1 : \E a, b \in Printings :
          i = [of |-> "matrix", rows |-> <<[id |-> 0, distances |-> a], [id |-> q, distances |-> b]>>]
    BY DEF Matrices
  <2>. HIDE DEF Printings
  <2>2. PICK q \in 0..1, a \in Printings, b \in Printings :
          i = [of |-> "matrix", rows |-> <<[id |-> 0, distances |-> a], [id |-> q, distances |-> b]>>]
    BY <2>1
  <2>3. i.of = "matrix" /\ i.rows = <<[id |-> 0, distances |-> a], [id |-> q, distances |-> b]>>
    BY <2>2
  <2>. QED
    BY <2>3 DEF Printings
<1>2. a \in Seq(Int) /\ b \in Seq(Int)
  <2>1. /\ <<10, 20>> \in Seq(Int) /\ <<21, 10>> \in Seq(Int)
        /\ <<10>> \in Seq(Int) /\ <<>> \in Seq(Int)
    OBVIOUS
  <2>. QED
    BY <2>1
<1>3. [id |-> 0, distances |-> a] \in [id : Int, distances : Seq(Int)]
      /\ [id |-> q, distances |-> b] \in [id : Int, distances : Seq(Int)]
  BY <1>2
<1>. DEFINE R == [id : Int, distances : Seq(Int)]
            ra == [id |-> 0, distances |-> a]
            rb == [id |-> q, distances |-> b]
<1>4. ra \in R /\ rb \in R
  BY <1>3
<1>. HIDE DEF R, ra, rb
<1>5. <<ra, rb>> \in Seq(R)
  BY <1>4
<1>6. MatrixRead(i.rows)
  BY <1>1, <1>5 DEF MatrixRead, R, ra, rb
<1>. QED
  BY <1>1, <1>6, DistancesAreSymmetric

LEMMA ProcessComputed ==
    ASSUME NEW i \in Placements
    PROVE  /\ i.of = "process" /\ PlacementMeasured(DOMAIN MCCpus, i.p)
           /\ ProcessReachesNodes(MCCpus, i.p)
<1>1. DOMAIN MCCpus = {0, 1}
  BY DEF MCCpus
<1>2. DOMAIN MCCpus \in SUBSET Int /\ IsFiniteSet(DOMAIN MCCpus)
  <2>1. {0, 1} \in SUBSET (0..1)
    OBVIOUS
  <2>. QED
    BY <1>1, <2>1, FiniteUpTo
<1>. DEFINE other == [file |-> TRUE, anon |-> 1, dirty |-> 1, pages |-> [n \in {1} |-> 2]]
<1>3. /\ i.of = "process" /\ i.p.cpuTime \in Placed
      /\ \E a \in MapLine : i.p.lines = <<a>> \/ i.p.lines = <<a, other>>
  <2>. DEFINE Pages == {<<a>> : a \in MapLine} \cup {<<a, other>> : a \in MapLine}
              process(r, t, ls) == [readable |-> r, cpuTime |-> t, lines |-> ls, threads |-> NoThreads]
  <2>1. \E r \in BOOLEAN : \E t \in Placed : \E ls \in Pages : i = [of |-> "process", p |-> process(r, t, ls)]
    BY DEF Placements
  <2>. HIDE DEF Pages, other
  <2>2. PICK r \in BOOLEAN, t \in Placed, ls \in Pages : i = [of |-> "process", p |-> process(r, t, ls)]
    BY <2>1
  <2>3. i.of = "process" /\ i.p.cpuTime = t /\ i.p.lines = ls
    BY <2>2
  <2>4. \E a \in MapLine : ls = <<a>> \/ ls = <<a, other>>
    BY DEF Pages
  <2>. QED
    BY <2>3, <2>4
<1>4. TimeRead(i.p.cpuTime)
  BY <1>3, InputsAssumption DEF TimeRead, Placed
<1>. DEFINE LineOK(line) == /\ line.file \in BOOLEAN /\ line.anon \in Nat /\ line.dirty \in Nat
                            /\ \A n \in DOMAIN line.pages : line.pages[n] \in Nat
<1>5. \A a \in MapLine : LineOK(a)
  BY DEF MapLine
<1>6. LineOK(other)
  OBVIOUS
<1>. HIDE DEF other, LineOK
<1>7. LinesRead(i.p.lines)
  <2>1. PICK a \in MapLine : i.p.lines = <<a>> \/ i.p.lines = <<a, other>>
    BY <1>3
  <2>2. \A q \in DOMAIN i.p.lines : LineOK(i.p.lines[q])
    BY <1>5, <1>6, <2>1
  <2>3. \E k \in Nat : DOMAIN i.p.lines = 1..k
    <3>1. CASE i.p.lines = <<a>>
      <4>1. DOMAIN <<a>> = 1..1
        OBVIOUS
      <4>. QED
        BY <3>1, <4>1
    <3>2. CASE i.p.lines = <<a, other>>
      <4>1. DOMAIN <<a, other>> = 1..2
        OBVIOUS
      <4>. QED
        BY <3>2, <4>1
    <3>. QED
      BY <2>1, <3>1, <3>2
  <2>. QED
    BY <2>2, <2>3 DEF LinesRead, LineOK
<1>. QED
  BY <1>2, <1>3, <1>4, <1>7, PlacementIsMeasured, NodesAreReached

LEMMA TableComputed ==
    ASSUME NEW i \in Tables
    PROVE  i.of = "records" /\ RecordsKept(i.items)
<1>. DEFINE one == [dev |-> mlx0]
            two == [dev |-> Blank, ifname |-> mlx1]
<1>1. PICK a \in Keyed({"lqpn", "qpn", "pid"}), b \in Keyed({"mrn", "mr"}) :
        i.of = "records" /\ i.items = <<Printed(a, one), Printed(b, two)>>
  BY DEF Tables
<1>2. /\ \A k \in DOMAIN a : a[k] \in {0, 1, Word, Blank}
      /\ \A k \in DOMAIN b : b[k] \in {0, 1, Word, Blank}
  <2>. DEFINE Values == {0, 1, Word, Blank}
  <2>1. \E there : a \in [there -> Values]
    BY DEF Keyed
  <2>2. \E there : b \in [there -> Values]
    BY DEF Keyed
  <2>. HIDE DEF Values
  <2>3. (\A k \in DOMAIN a : a[k] \in Values) /\ (\A k \in DOMAIN b : b[k] \in Values)
    BY <2>1, <2>2
  <2>. QED
    BY <2>3 DEF Values
<1>3. /\ \A k \in DOMAIN one : one[k] \in {mlx0}
      /\ \A k \in DOMAIN two : two[k] \in {Blank, mlx1}
  OBVIOUS
<1>. HIDE DEF one, two
<1>4. /\ \A k \in DOMAIN Printed(a, one) : Printed(a, one)[k] # None
      /\ \A k \in DOMAIN Printed(b, two) : Printed(b, two)[k] # None
  BY <1>2, <1>3, InputsAssumption DEF Printed
<1>5. DOMAIN i.items = 1..2 /\ i.items[1] = Printed(a, one) /\ i.items[2] = Printed(b, two)
  BY <1>1
<1>6. ItemsRead(i.items)
  <2>1. \A q \in 1..2 : q = 1 \/ q = 2
    OBVIOUS
  <2>. QED
    BY <1>4, <1>5, <2>1 DEF ItemsRead
<1>. QED
  BY <1>1, <1>6, RecordsAreKept

LEMMA ThreadsComputed ==
    ASSUME NEW i \in ThreadSets
    PROVE  i.of = "threads" /\ BusiestThreadsStay(i.threads, i.share, i.share)
<1>1. PICK a \in MCThread, b \in MCThread, s \in {<<1, 2>>, <<1, 3>>, <<3, 4>>} :
        i.of = "threads" /\ i.threads = [t |-> a, u |-> b] /\ i.share = s
  BY DEF ThreadSets
<1>2. ASSUME NEW c \in MCThread
      PROVE  /\ c.time \in Nat
             /\ \/ c.voluntary \in Nat /\ c.involuntary \in Nat
                \/ c.voluntary = -1 /\ c.involuntary = -1
  <2>1. PICK there \in BOOLEAN, q \in MCStatus, time \in 0..MaxTime : c = ReadCpuStatus(there, q, time)
    BY DEF MCThread
  <2>2. q.voluntary \in Nat /\ q.involuntary \in Nat /\ time \in Nat
    BY InputsAssumption DEF MCStatus
  <2>. QED
    BY <2>1, <2>2 DEF ReadCpuStatus
<1>3. DOMAIN i.threads = {"t", "u"} /\ \A k \in DOMAIN i.threads : i.threads[k] \in MCThread
  BY <1>1
<1>4. IsFiniteSet({"t", "u"})
  <2>1. IsFiniteSet({"t"}) /\ {"t"} \cup {"u"} = {"t", "u"}
    BY FS_Singleton
  <2>2. IsFiniteSet({"t"} \cup {"u"})
    BY <2>1, FS_AddElement
  <2>. QED
    BY <2>1, <2>2
<1>5. ThreadsRead(i.threads)
  BY <1>2, <1>3, <1>4 DEF ThreadsRead
<1>6. i.share \in Shares
  BY <1>1 DEF Shares
<1>. QED
  BY <1>1, <1>5, <1>6, TheBusiestStay

\* What is computed of an input of any size up to the bounds is right; the
\* theorems that this one rests on say it of every input.
THEOREM FunctionsAreCorrect == SourcesSpec => []FunctionsCorrect
<1>1. ASSUME input \in Inputs PROVE FunctionsCorrect
  <2>1. CASE input \in Machines
    BY <2>1, MachineComputed DEF FunctionsCorrect
  <2>2. CASE input \in Traffic
    BY <2>2, TrafficComputed DEF FunctionsCorrect
  <2>3. CASE input \in Numbers
    BY <2>3, NumbersComputed DEF FunctionsCorrect
  <2>4. CASE input \in Matrices
    BY <2>4, MatrixComputed DEF FunctionsCorrect
  <2>5. CASE input \in Placements
    BY <2>5, ProcessComputed DEF FunctionsCorrect
  <2>6. CASE input \in Tables
    BY <2>6, TableComputed DEF FunctionsCorrect
  <2>7. CASE input \in ThreadSets
    BY <2>7, ThreadsComputed DEF FunctionsCorrect
  <2>8. CASE input = <<>>
    BY <2>8 DEF FunctionsCorrect
  <2>. QED
    BY <1>1, <2>1, <2>2, <2>3, <2>4, <2>5, <2>6, <2>7, <2>8 DEF Inputs, HccsInputs, NumaInputs
<1>2. input \in Inputs => FunctionsCorrect
  BY <1>1
<1>. QED
  BY <1>2, InputsStay, PTL
=============================================================================
