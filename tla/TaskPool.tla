------------------------------ MODULE TaskPool ------------------------------
(***************************************************************************)
(* What the background sub-agent pool promises its user, one task at a     *)
(* time and with every operation atomic: a task is spawned only while a    *)
(* slot is free, runs, is done, and is then handed over once; or it is     *)
(* cancelled first and its result is never handed over.  BackgroundPool    *)
(* is shown to implement this specification.                               *)
(***************************************************************************)
EXTENDS Naturals, FiniteSets

CONSTANTS Tasks,          \* task identifiers
          MaxBackground   \* number of slots

VARIABLE phase            \* phase[t]: where task t is in its life

Phases == {"idle", "running", "done", "fetched", "cancelled"}

Occupied == {t \in Tasks : phase[t] \in {"running", "done"}}

TypeOK == phase \in [Tasks -> Phases]

Init == phase = [t \in Tasks |-> "idle"]

Move(t, from, to) ==
    /\ phase[t] \in from
    /\ phase' = [phase EXCEPT ![t] = to]

Spawn(t)  == Cardinality(Occupied) < MaxBackground /\ Move(t, {"idle"}, "running")
Finish(t) == Move(t, {"running"}, "done")
Fetch(t)  == Move(t, {"done"}, "fetched")
Cancel(t) == Move(t, {"running", "done"}, "cancelled")

Next == \E t \in Tasks : Spawn(t) \/ Finish(t) \/ Fetch(t) \/ Cancel(t)

Spec == Init /\ [][Next]_phase
=============================================================================
