----------------------------- MODULE WorkflowRun -----------------------------
(***************************************************************************)
(* A workflow of the workflows directory: WorkflowRunner.run               *)
(* (core/execution/workflow_runner.py), called by several callers at once  *)
(* (CLI, REPL, API), each with its own session.  A workflow is a graph of  *)
(* states walked from the first one.                                       *)
(*                                                                         *)
(* A container that it declares is never there: app_factory.py gives the   *)
(* runner a SkillRunner, which knows the skills with a SKILL.md only, and  *)
(* container_spawn is a tool without one.  Its ValueError is a warning,    *)
(* states._spawn stays unresolved, and the finally has nothing to destroy. *)
(*                                                                         *)
(* Abstracted: a state's skill returns one of two statuses or raises; its  *)
(* templates are the states they name.  MaxStates is the 100 of the loop.  *)
(***************************************************************************)
EXTENDS Naturals, Sequences, FiniteSets, SequencesExt

CONSTANTS Callers,   \* runs in progress at the same time
          Workflows, \* parsed YAML: first, states (terminal, refs, next), container (declared or not)
          MaxStates  \* states a run may visit

LimitAssumption == MaxStates \in Nat

VARIABLES workflow,  \* workflow[c]: what c runs
          stage,     \* where run() is
          current,   \* current_state
          turns,     \* iterations of the loop
          outputs,   \* outputs: state and status of every skill that returned
          verdict,   \* how the walk ended: none, a status, or "raised"
          records    \* memory rows workflow.<id>.<state>

vars == <<workflow, stage, current, turns, outputs, verdict, records>>

Init ==
    /\ workflow \in [Callers -> Workflows]
    /\ stage = [c \in Callers |-> "load"]
    /\ current = [c \in Callers |-> workflow[c].first]
    /\ turns = [c \in Callers |-> 0] /\ outputs = [c \in Callers |-> <<>>]
    /\ verdict = [c \in Callers |-> "none"] /\ records = [c \in Callers |-> {}]

States(c) == DOMAIN workflow[c].states
Here(c) == workflow[c].states[current[c]]

Go(c, to) == stage' = [stage EXCEPT ![c] = to]

\* A run ends without raising, or an exception leaves run().
Ends(c, how) == Go(c, "over") /\ verdict' = [verdict EXCEPT ![c] = how]

\* The YAML is read and its first state found; a missing or empty one raises.
Load(c) ==
    /\ stage[c] = "load"
    /\ IF States(c) = {}
       THEN Ends(c, "raised")
       ELSE Go(c, IF workflow[c].container THEN "spawn" ELSE "walk") /\ UNCHANGED verdict
    /\ UNCHANGED <<workflow, current, turns, outputs, records>>

\* _spawn_container: the unknown skill is a warning, and there is no result. A SKILL.md that is not
\* YAML, met on the way through the directories, is no ValueError and raises.
Spawn(c) ==
    /\ stage[c] = "spawn"
    /\ \/ Go(c, "walk") /\ UNCHANGED verdict
       \/ Ends(c, "raised")
    /\ UNCHANGED <<workflow, current, turns, outputs, records>>

Resolved(c) == Here(c).refs \subseteq {outputs[c][i].state : i \in DOMAIN outputs[c]}

\* One iteration up to the call of the skill.  A terminal state ends the walk before its
\* skill; an unknown state or an unresolved template raises.
Visit(c) ==
    /\ stage[c] = "walk"
    /\ turns' = [turns EXCEPT ![c] = IF turns[c] < MaxStates THEN @ + 1 ELSE @]
    /\ IF turns[c] = MaxStates \/ current[c] \notin States(c)
       THEN Ends(c, "raised")
       ELSE \/ Here(c).terminal /\ Ends(c, "completed")
            \/ ~Here(c).terminal /\ Resolved(c) /\ Go(c, "skill") /\ UNCHANGED verdict
            \/ ~Here(c).terminal /\ ~Resolved(c) /\ Ends(c, "raised")
    /\ UNCHANGED <<workflow, current, outputs, records>>

\* The skill returns: its output is kept for the templates and written to memory, where a
\* failed write raises; a failed status ends nothing, only a missing next does.
SkillReturns(c) ==
    /\ stage[c] = "skill"
    /\ \E status \in {"success", "failed"} :
          /\ outputs' = [outputs EXCEPT ![c] = Append(@, [state |-> current[c], status |-> status])]
          /\ \/ /\ records' = [records EXCEPT ![c] = @ \cup {current[c]}]
                /\ IF Here(c).next = "none"
                   THEN Ends(c, status) /\ UNCHANGED current
                   ELSE current' = [current EXCEPT ![c] = Here(c).next] /\ Go(c, "walk") /\ UNCHANGED verdict
             \/ Ends(c, "raised") /\ UNCHANGED <<records, current>>
    /\ UNCHANGED <<workflow, turns>>

SkillRaises(c) ==
    /\ stage[c] = "skill" /\ Ends(c, "raised")
    /\ UNCHANGED <<workflow, current, turns, outputs, records>>

Walk(c) == Load(c) \/ Spawn(c) \/ Visit(c) \/ SkillReturns(c) \/ SkillRaises(c)
Next == \E c \in Callers : Walk(c)

\* A skill returns or raises: the runner waits for it without a limit.
Spec == Init /\ [][Next]_vars /\ \A c \in Callers : WF_vars(Walk(c))
-----------------------------------------------------------------------------
Over(c) == stage[c] = "over"
TypeOK ==
    \A c \in Callers :
       /\ stage[c] \in {"load", "spawn", "walk", "skill", "over"}
       /\ verdict[c] \in {"none", "success", "failed", "completed", "raised"}
       /\ turns[c] \in 0..MaxStates /\ Len(outputs[c]) <= turns[c]
       /\ records[c] \subseteq States(c)

\* What a run reports is what it did: each skill saw the outputs its templates name (a state that
\* names the container of the workflow never runs), each output of a run that did not raise is
\* recorded, and the status is that of a last state.
ReportIsTrue ==
    \A c \in Callers :
        LET ran == outputs[c] IN
        /\ \A i \in DOMAIN ran :
              /\ workflow[c].states[ran[i].state].refs \subseteq {ran[j].state : j \in 1..(i - 1)}
              /\ i > 1 => workflow[c].states[ran[i - 1].state].next = ran[i].state
        /\ Len(ran) <= MaxStates
        /\ verdict[c] # "raised" => \A i \in DOMAIN ran : ran[i].state \in records[c]
        /\ verdict[c] \in {"success", "failed"} =>
              Last(ran).status = verdict[c] /\ workflow[c].states[Last(ran).state].next = "none"

\* Every workflow ends, also one whose states form a circle.
WorkflowEnds == \A c \in Callers : <>Over(c)
=============================================================================
