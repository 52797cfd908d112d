----------------------------- MODULE Delegation -----------------------------
(***************************************************************************)
(* Delegated tasks: _handle_delegate_task of v2                            *)
(* (v2/handlers/delegate_task_handler.py) with the spawner and the memory  *)
(* writer it is wired to (v2/wiring.py), and the delegate_task skill       *)
(* (system_skills/delegate_task/skill.py) that writes the same memory.     *)
(* Calls run at the same time in the threads of the background pool.       *)
(*                                                                         *)
(* A request says through which door the task comes, the memory row its    *)
(* result goes to (delegate_task:<task id>, or the memory_key, by default  *)
(* <persona>_result), whether it is tracked (a corpus key and a database), *)
(* whether its arguments are there, and the status of the goal it came     *)
(* from.  Prompts, personas and outputs are abstracted to the outcome of   *)
(* the sub-agent's run.                                                    *)
(***************************************************************************)
EXTENDS Naturals, Sequences, FiniteSets

CONSTANTS Tasks,   \* calls in progress at the same time
          Requests \* what a call may ask for

VARIABLES request,   \* request[t]: the arguments
          stage,     \* where the call is
          raw,       \* status of DelegatedTaskResult, or "none"
          lifecycle, \* context-map events: started and completed tasks, in order
          dropped,   \* tasks of which an event could not be appended
          memory,    \* memory[row]: who wrote it and the label written
          announced, \* DelegateTaskCompleted events, in order
          answer     \* what the caller got: a label, "raised", or "none"

vars == <<request, stage, raw, lifecycle, dropped, memory, announced, answer>>

Rows == {r.row : r \in Requests}
Nobody == [by |-> "nobody", label |-> "none"]
Labels == {"completed", "failed", "blocked"}
GoalStatuses == {"none", "completed", "failed", "blocked", "timeout"}

\* What a prover or a reader may rely on.
RequestsAreRecords ==
    Requests \subseteq [door : {"handler", "skill"}, row : STRING, tracked : BOOLEAN, valid : BOOLEAN, goal : GoalStatuses]

Init ==
    /\ request \in [Tasks -> Requests]
    /\ stage = [t \in Tasks |-> "begin"] /\ raw = [t \in Tasks |-> "none"]
    /\ lifecycle = <<>> /\ dropped = {} /\ announced = <<>>
    /\ memory = [row \in Rows |-> Nobody] /\ answer = [t \in Tasks |-> "none"]

Go(t, to) == stage' = [stage EXCEPT ![t] = to]
Answer(t, what) == answer' = [answer EXCEPT ![t] = what] /\ Go(t, "over")

\* append_context_map_event under suppress(Exception).
BestEffort(t, event) ==
    IF request[t].tracked
    THEN \/ lifecycle' = Append(lifecycle, event) /\ UNCHANGED dropped
         \/ dropped' = dropped \cup {t} /\ UNCHANGED lifecycle
    ELSE UNCHANGED <<lifecycle, dropped>>

Reject(t) ==
    /\ stage[t] = "begin" /\ ~request[t].valid
    /\ Answer(t, "raised")
    /\ UNCHANGED <<request, raw, lifecycle, dropped, memory, announced>>

-----------------------------------------------------------------------------
(* The v2 handler *)

Announce(t) ==
    /\ stage[t] = "begin" /\ request[t].valid /\ request[t].door = "handler"
    /\ BestEffort(t, [type |-> "SubAgentTaskStarted", task |-> t])
    /\ Go(t, "spawn")
    /\ UNCHANGED <<request, raw, memory, announced, answer>>

\* _HarnessSpawner.spawn: an unreadable persona, a used-up budget and any exception of the
\* run are a result with the status failed.
Spawn(t) ==
    /\ stage[t] = "spawn"
    /\ \E status \in {"success", "failed"} : raw' = [raw EXCEPT ![t] = status]
    /\ Go(t, "complete")
    /\ UNCHANGED <<request, lifecycle, dropped, memory, announced, answer>>

\* Mutant: the started task is not closed.
SpawnRaisesSilently(t) ==
    /\ stage[t] = "spawn"
    /\ Answer(t, "raised")
    /\ UNCHANGED <<request, raw, lifecycle, dropped, memory, announced>>

\* A spawner of the protocol may raise: the failure is noted and raised to the caller.
SpawnRaises(t) ==
    /\ stage[t] = "spawn"
    /\ BestEffort(t, [type |-> "SubAgentTaskCompleted", task |-> t, status |-> "failed"])
    /\ Answer(t, "raised")
    /\ UNCHANGED <<request, raw, memory, announced>>

\* map_delegated_to_external: a failure takes the label of the goal it came from, if any.
Label(t) ==
    LET goal == request[t].goal IN
    CASE raw[t] = "success" -> "completed"
      [] raw[t] = "failed" /\ goal \in {"completed", "blocked"} -> goal
      [] OTHER -> "failed"

Complete(t) ==
    /\ stage[t] = "complete"
    /\ BestEffort(t, [type |-> "SubAgentTaskCompleted", task |-> t, status |-> raw[t]])
    /\ Go(t, "write")
    /\ UNCHANGED <<request, raw, memory, announced, answer>>

\* _HarnessBlackboard.write: a failing write raises, after the task was noted as completed.
Write(t) ==
    /\ stage[t] = "write"
    /\ \/ /\ memory' = [memory EXCEPT ![request[t].row] = [by |-> t, label |-> Label(t)]]
          /\ Go(t, "publish") /\ UNCHANGED answer
       \/ Answer(t, "raised") /\ UNCHANGED memory
    /\ UNCHANGED <<request, raw, lifecycle, dropped, announced>>

Publish(t) ==
    /\ stage[t] = "publish"
    /\ announced' = Append(announced, [task |-> t, label |-> Label(t)])
    /\ Answer(t, Label(t))
    /\ UNCHANGED <<request, raw, lifecycle, dropped, memory>>

-----------------------------------------------------------------------------
(* The delegate_task skill: no events, and whatever its sub-agent raises is raised *)

RunSubagent(t) ==
    /\ stage[t] = "begin" /\ request[t].valid /\ request[t].door = "skill"
    /\ \/ /\ \E status \in {"success", "failed"} : raw' = [raw EXCEPT ![t] = status]
          /\ Go(t, "keep") /\ UNCHANGED answer
       \/ Answer(t, "raised") /\ UNCHANGED raw
    /\ UNCHANGED <<request, lifecycle, dropped, memory, announced>>

Keep(t) ==
    /\ stage[t] = "keep"
    /\ \/ /\ memory' = [memory EXCEPT ![request[t].row] = [by |-> t, label |-> Label(t)]]
          /\ Answer(t, Label(t))
       \/ Answer(t, "raised") /\ UNCHANGED memory
    /\ UNCHANGED <<request, raw, lifecycle, dropped, announced>>

Call(t) == \/ Reject(t) \/ Announce(t) \/ Spawn(t) \/ SpawnRaises(t) \/ Complete(t)
           \/ Write(t) \/ Publish(t) \/ RunSubagent(t) \/ Keep(t)
Next == \E t \in Tasks : Call(t)

\* A sub-agent's run ends: its requests and tokens are limited.
Spec == Init /\ [][Next]_vars /\ \A t \in Tasks : WF_vars(Call(t))

-----------------------------------------------------------------------------
Over(t) == stage[t] = "over"
TypeOK ==
    /\ \A t \in Tasks : /\ request[t] \in Requests /\ request[t].goal \in GoalStatuses
                        /\ raw[t] \in {"none", "success", "failed"}
                        /\ answer[t] \in Labels \cup {"raised", "none"}
                        /\ (answer[t] = "none") # Over(t)
    /\ \A row \in Rows : memory[row] = Nobody \/ (memory[row].by \in Tasks /\ memory[row].label \in Labels)

Ends(t) == {i \in DOMAIN lifecycle : lifecycle[i].type = "SubAgentTaskCompleted" /\ lifecycle[i].task = t}
Starts(t) == {i \in DOMAIN lifecycle : lifecycle[i].type = "SubAgentTaskStarted" /\ lifecycle[i].task = t}

\* Every tracked task that began has ended in the context map when its call is over, once and
\* after its start, unless the store refused one of the two events.
LifecyclesClosed ==
    \A t \in Tasks :
        /\ Cardinality(Ends(t)) <= 1
        /\ \A i \in Starts(t) : \A j \in Ends(t) : i < j
        /\ (Over(t) /\ Starts(t) # {} /\ t \notin dropped) => Ends(t) # {}

\* What a task left behind agrees: the announcement, the memory row (unless another call of
\* that row wrote later), the lifecycle and the caller's answer tell one story, and the label
\* "completed" means success, except for a task of a goal that was itself completed.
OneStory ==
    \A i \in DOMAIN announced :
        LET t == announced[i].task  label == announced[i].label IN
        /\ answer[t] = label
        /\ LET row == memory[request[t].row] IN
           row # Nobody /\ (row.by = t => row.label = label) /\ (row.by # t => request[row.by].row = request[t].row)
        /\ \A j \in Ends(t) : lifecycle[j].status = "success" => label = "completed"
        /\ label = "completed" => raw[t] = "success" \/ request[t].goal = "completed"

\* Every call returns or raises.
CallsEnd == \A t \in Tasks : <>Over(t)
=============================================================================
