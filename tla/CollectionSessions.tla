-------------------------- MODULE CollectionSessions --------------------------
(***************************************************************************)
(* What the profiler core promises about its background collection: a      *)
(* start opens a session, the last stop signals it, a session is never      *)
(* reopened, no two sessions are open at once, and a signalled session      *)
(* publishes at most one more graph, the one it was already working on.     *)
(***************************************************************************)
EXTENDS Naturals

CONSTANT Sessions

VARIABLES phase,   \* phase[s] of each session
          shown    \* the graph readers are given (a stamp; 0 is none yet)

vars == <<phase, shown>>

Phases == {"unused", "open", "closing", "closed"}

TypeOK == /\ phase \in [Sessions -> Phases]
          /\ shown \in Nat

Init == /\ phase = [s \in Sessions |-> "unused"]
        /\ shown = 0

IsOpen(s) == phase[s] = "open"

Move(s, from, to) == /\ phase[s] = from
                     /\ phase' = [phase EXCEPT ![s] = to]

Open(s) == /\ \A t \in Sessions : ~IsOpen(t)
           /\ Move(s, "unused", "open")
           /\ UNCHANGED shown

\* An open session publishes as often as it likes.
Publish(s) == /\ IsOpen(s)
              /\ shown' \in Nat
              /\ UNCHANGED phase

\* The last stop: a session caught in the middle of a collection is closing,
\* one that is waiting is closed at once; an open session may also crash.
Signal(s) == /\ \/ Move(s, "open", "closing")
                \/ Move(s, "open", "closed")
             /\ UNCHANGED shown

\* The end of the collection a stop found in progress, with its publication,
\* or with none when it fails.
Close(s) == /\ Move(s, "closing", "closed")
            /\ shown' \in Nat

\* A publication on demand, by a caller and not by a session.
OnDemand == /\ shown' \in Nat
            /\ UNCHANGED phase

Next == \/ OnDemand
        \/ \E s \in Sessions : Open(s) \/ Publish(s) \/ Signal(s) \/ Close(s)

Spec == Init /\ [][Next]_vars

\* No collection a stop found in progress lasts for ever.
Closes(s) == phase[s] = "closing" ~> phase[s] = "closed"

FairSpec == Spec /\ \A s \in Sessions : Closes(s)
=============================================================================
