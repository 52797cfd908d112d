----------------------------- MODULE Orchestrate -----------------------------
(***************************************************************************)
(* The orchestrate skill (system_skills/orchestrate/skill.py): an          *)
(* objective is decomposed by the model, or by keywords when the model     *)
(* fails, the subtasks run as sub-agents in a pool of threads or one after *)
(* the other, and their results are joined in the order of arrival.        *)
(*                                                                         *)
(* Abstracted: a subtask is the id the model gave it (ids may repeat), a   *)
(* result its status and whether its content is minimal; which contents    *)
(* contradict each other is left to the text.                              *)
(***************************************************************************)
EXTENDS Integers, Sequences, FiniteSets

CONSTANTS Plans,       \* decompositions: sequences of subtask ids
          MaxParallels \* values of max_parallel

\* What a prover or a reader may rely on.
PlansAreSequences == Plans \subseteq Seq(STRING) /\ MaxParallels \subseteq Int

VARIABLES plan,     \* the subtasks
          limit,    \* max_parallel
          stage,    \* where execute() is
          worker,   \* worker[i]: how far subtask i is
          gathered, \* subtask_results, in order: index, status and size
          tree,     \* memory row orchestration_tree, or <<>>
          outcome   \* the SkillResult: status and count, or "raised", or "none"

vars == <<plan, limit, stage, worker, gathered, tree, outcome>>

Init ==
    /\ plan = <<>> /\ limit \in MaxParallels /\ stage = "decompose"
    /\ worker = <<>> /\ gathered = <<>> /\ tree = <<>> /\ outcome = [status |-> "none"]

Subtasks == DOMAIN plan
Parallel == limit > 1 /\ Len(plan) > 1
Width == IF limit < Len(plan) THEN limit ELSE Len(plan)
Active == {i \in Subtasks : worker[i] = "running"}

\* Without an objective nothing runs.
Refuse ==
    /\ stage = "decompose" /\ stage' = "over" /\ outcome' = [status |-> "failed", count |-> 0]
    /\ UNCHANGED <<plan, limit, worker, gathered, tree>>

\* _llm_decompose, or _decompose after any exception: both give at least one subtask.
Decompose ==
    /\ stage = "decompose" /\ stage' = "work"
    /\ plan' \in Plans /\ worker' = [i \in DOMAIN plan' |-> "waiting"]
    /\ UNCHANGED <<limit, gathered, tree, outcome>>

\* The pool starts subtasks in the order of submission; without a pool the next one starts when
\* the last one has been gathered.
Begin(i) ==
    /\ stage = "work" /\ worker[i] = "waiting"
    /\ \A j \in 1..(i - 1) : worker[j] # "waiting"
    /\ IF Parallel THEN Cardinality(Active) < Width
                   ELSE Active = {} /\ Len(gathered) = i - 1
    /\ worker' = [worker EXCEPT ![i] = "running"]
    /\ UNCHANGED <<plan, limit, stage, gathered, tree, outcome>>

\* _run_one: a missing persona and unusable tools are made up for, the run itself may raise.
End(i) ==
    /\ stage = "work" /\ worker[i] = "running"
    /\ \E how \in {"completed", "failed", "blocked", "exception"} : worker' = [worker EXCEPT ![i] = how]
    /\ UNCHANGED <<plan, limit, stage, gathered, tree, outcome>>

Ended(i) == worker[i] \notin {"waiting", "running"}
Result(i, minimal) ==
    [index |-> i, minimal |-> minimal,
     status |-> IF worker[i] = "exception" THEN "failed" ELSE worker[i]]

\* as_completed: the exception of a thread is the failure of its subtask, the exception of a
\* subtask run in line is the exception of the skill.
Gather(i) ==
    /\ stage = "work" /\ Ended(i) /\ \A j \in DOMAIN gathered : gathered[j].index # i
    /\ IF worker[i] = "exception" /\ ~Parallel
       THEN stage' = "over" /\ outcome' = [status |-> "raised"] /\ UNCHANGED gathered
       ELSE /\ \E minimal \in BOOLEAN : gathered' = Append(gathered, Result(i, minimal))
            /\ UNCHANGED <<stage, outcome>>
    /\ UNCHANGED <<plan, limit, worker, tree>>

\* synthesize and the memory row, whose failure is swallowed; the status is always success.
Synthesize ==
    /\ stage = "work" /\ Len(gathered) = Len(plan)
    /\ stage' = "over"
    /\ tree' \in {<<>>, [k \in DOMAIN gathered |-> [id |-> plan[gathered[k].index], status |-> gathered[k].status]]}
    /\ outcome' = [status |-> "success", count |-> Len(gathered),
                   gaps |-> {plan[gathered[k].index] : k \in {k \in DOMAIN gathered : gathered[k].minimal}}]
    /\ UNCHANGED <<plan, limit, worker, gathered>>

Next == Refuse \/ Decompose \/ Synthesize \/ \E i \in Subtasks : Begin(i) \/ End(i) \/ Gather(i)

\* Sub-agents end: their runs are limited.
Spec == Init /\ [][Next]_vars /\ WF_vars(Next)

-----------------------------------------------------------------------------
Over == stage = "over"
TypeOK ==
    /\ (plan = <<>> \/ plan \in Plans) /\ DOMAIN worker = Subtasks
    /\ \A i \in Subtasks : worker[i] \in {"waiting", "running", "completed", "failed", "blocked", "exception"}
    /\ outcome.status \in {"none", "failed", "raised", "success"}

\* A fan-out that returns accounts for each subtask once, the failed ones as failed, also when
\* two subtasks have the same id; one with a pool always returns, and never runs more
\* sub-agents than it was allowed.
AllAccountedFor ==
    /\ Cardinality(Active) <= (IF limit > 1 THEN limit ELSE 1)
    /\ \A j, k \in DOMAIN gathered : gathered[j].index = gathered[k].index => j = k
    /\ outcome.status = "success" =>
          /\ \A i \in Subtasks : \E k \in DOMAIN gathered :
                /\ gathered[k].index = i
                /\ gathered[k].status = "completed" <=> worker[i] = "completed"
          /\ outcome.count = Len(plan)
          /\ tree # <<>> => \A i \in Subtasks : \E k \in DOMAIN tree :
                tree[k].id = plan[i] /\ (worker[i] = "completed" <=> tree[k].status = "completed")
    /\ outcome.status = "raised" => ~Parallel

FanOutEnds == <>Over
=============================================================================
