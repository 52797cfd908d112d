------------------------------ MODULE GoalRun -------------------------------
(***************************************************************************)
(* One autonomous goal: GoalRunner.run_async (core/runtime/goal_runner.py).*)
(* A loop asks the model for the next action, refuses an action it has     *)
(* taken too often, runs the skill in a thread and publishes what happened *)
(* on the event bus, from which the next prompt is built.  Time, tokens    *)
(* and iterations are limited.  With refine the loop runs a second time    *)
(* on a critique of the first result, and the better result is returned.   *)
(*                                                                         *)
(* Abstracted: an action's arguments are its semantic key, an event costs  *)
(* one context token and so does the system prompt, and a critique is its  *)
(* score.                                                                  *)
(***************************************************************************)
EXTENDS Naturals, Sequences, FiniteSets

CONSTANTS Actions,        \* skill calls the model may choose, as it phrases them
          Keys, KeyOf,    \* KeyOf[a]: what is left of a without case and spacing
          MaxIterations,
          MaxTokens,
          TimeLimited,    \* whether max_seconds is set
          StuckThreshold,
          KeyWindow,      \* actions remembered (5)
          ContextWindow,  \* events shown to the model (20)
          Responses, MaxResponse, \* sizes of an answer, in tokens, and a bound of them
          Refine, RefineThreshold, Scores,
          GenerationGoal, \* the goal says generate, write, draft, create or produce
          NoAnswer        \* model value

ASSUME KeysOfActions == KeyOf \in [Actions -> Keys]
ASSUME LimitsAreNat == /\ {MaxIterations, MaxTokens, StuckThreshold} \subseteq Nat
                       /\ {KeyWindow, ContextWindow} \subseteq Nat \ {0}
                       /\ MaxResponse \in Nat /\ Responses \subseteq 0..MaxResponse
ASSUME ScoresAreNat == Scores \subseteq Nat /\ RefineThreshold \in Nat
ASSUME FlagsAreBoolean == {TimeLimited, Refine, GenerationGoal} \subseteq BOOLEAN

VARIABLES stage,     \* where run_async is
          refine,    \* the runner's field
          keys,      \* the runner's _action_keys
          loc,       \* the local variables of this round of run_async
          recent,    \* the last events of the session, oldest first
          action,    \* what the model has chosen
          result,    \* the result being returned
          first,     \* result and score of the first round, while the second runs
          executed,  \* history: keys of the actions run in this round
          unanswered, \* history: SkillCalled events without SkillCompleted
          judged,    \* history: <<round, score>> as the judge gave them
          achieved   \* history: rounds in which the model declared the goal complete

vars == <<stage, refine, keys, loc, recent, action, result, first, executed, unanswered, judged, achieved>>
history == <<executed, unanswered, judged, achieved>>

-----------------------------------------------------------------------------
Say == "_llm_text"
\* evaluate_goal with is_complete: a final answer; or none, with reasoning that only talks
\* about the run, with other reasoning, with none.
Complete == {"final answer", "meta reasoning", "reasoning", "bare"}
Kinds == {"called", "success", "success empty", "failed", "blocked", "error", "text", "goal"}
Statuses == {"completed", "budget_exhausted"}
Contents == {"final answer", "generated", "reasoning", "skill output", "Goal completed.", "budget"}

Fresh(round) == [round |-> round, iteration |-> 0, tokens |-> 0, context |-> 0,
                 late |-> FALSE, gathered |-> FALSE, fired |-> 0]

NoResult == [round |-> 0, status |-> "none", content |-> "none", iterations |-> 0, tokens |-> 0]
Result(status, content, iterations) ==
    [round |-> loc.round, status |-> status, content |-> content,
     iterations |-> iterations, tokens |-> loc.tokens]

Chosen == Actions \cup {Say, "not complete", NoAnswer} \cup Complete
Stages == {"begin", "loop", "act", "executing", "after", "judge first", "judge second", "done", "raised"}

Locals == [round : {1, 2}, iteration : 0..MaxIterations, tokens : Nat, context : Nat,
           late : BOOLEAN, gathered : BOOLEAN, fired : Nat]
Results == [round : {0, 1, 2}, status : Statuses \cup {"none"}, content : Contents \cup {"none"},
            iterations : 0..MaxIterations, tokens : Nat]

\* Every variable holds a value the runner can hold.
TypeOK ==
    /\ stage \in Stages /\ refine \in BOOLEAN /\ action \in Chosen
    /\ keys \in Seq(Keys) /\ Len(keys) <= KeyWindow
    /\ loc \in Locals
    /\ recent \in Seq(Kinds) /\ Len(recent) <= ContextWindow
    /\ result \in Results /\ first \in [result : Results, score : Nat]
    /\ executed \in Seq(Keys) /\ unanswered \in {0, 1}
    /\ judged \subseteq {1, 2} \X Scores /\ achieved \subseteq {1, 2}

\* Events of an earlier goal of the session are still shown.
Init ==
    /\ stage = "begin" /\ refine = Refine /\ keys = <<>> /\ loc = Fresh(1)
    /\ recent \in {<<>>, <<"success">>}
    /\ action = NoAnswer /\ result = NoResult
    /\ first = [result |-> NoResult, score |-> 0]
    /\ executed = <<>> /\ unanswered = 0 /\ judged = {} /\ achieved = {}

LastOf(seq, n) == SubSeq(seq, 1 + (IF Len(seq) > n THEN Len(seq) - n ELSE 0), Len(seq))

Publish(kind) == recent' = LastOf(Append(recent, kind), ContextWindow)

\* The classifier thread is started if the round has gathered a result.
Fired == IF loc.gathered THEN loc.fired + 1 ELSE loc.fired

-----------------------------------------------------------------------------
(* The head of the loop: limits, prompt, decision *)

Begin ==
    /\ stage = "begin" /\ stage' = "loop"
    /\ keys' = <<>> /\ loc' = Fresh(loc.round) /\ executed' = <<>>
    /\ UNCHANGED <<refine, recent, action, result, first, unanswered, judged, achieved>>

TimePasses ==
    /\ TimeLimited /\ ~loc.late /\ stage \notin {"begin", "done", "raised"}
    /\ loc' = [loc EXCEPT !.late = TRUE]
    /\ UNCHANGED <<stage, refine, keys, recent, action, result, first, history>>

ContextTokens == 1 + Len(recent)
Delta == IF ContextTokens > loc.context THEN ContextTokens - loc.context ELSE 0

OutOfTime == TimeLimited /\ loc.late
OutOfTokens == loc.tokens + Delta >= MaxTokens

\* The round returns from inside the loop; a first round is not refined then.
LimitReached ==
    /\ stage = "loop" /\ loc.iteration < MaxIterations
    /\ OutOfTime \/ OutOfTokens
    /\ loc' = [loc EXCEPT !.fired = Fired]
    /\ result' = Result("budget_exhausted", "budget", loc.iteration)
    /\ stage' = IF loc.round = 1 THEN "done" ELSE "judge second"
    /\ UNCHANGED <<refine, keys, recent, action, first, history>>

IterationsReached ==
    /\ stage = "loop" /\ loc.iteration = MaxIterations /\ stage' = "after"
    /\ UNCHANGED <<refine, keys, loc, recent, action, result, first, history>>

\* The model returns a structured action.
Decide ==
    /\ stage = "loop" /\ loc.iteration < MaxIterations /\ ~OutOfTime /\ ~OutOfTokens
    /\ \E a \in Chosen \ {NoAnswer}, r \in Responses :
          /\ action' = a
          /\ loc' = [loc EXCEPT !.iteration = @ + 1, !.context = ContextTokens,
                                !.tokens = @ + Delta + r]
    /\ stage' = "act"
    /\ UNCHANGED <<refine, keys, recent, result, first, history>>

-----------------------------------------------------------------------------
(* What the chosen action does *)

Continue == stage' = "loop" /\ action' = NoAnswer

EmitText ==
    /\ stage = "act" /\ action = Say
    /\ Continue /\ Publish("text")
    /\ UNCHANGED <<refine, keys, loc, result, first, history>>

Stuck(key) == /\ Len(keys) >= StuckThreshold
              /\ Cardinality({i \in DOMAIN keys : keys[i] = key}) >= StuckThreshold

\* A refused action is not remembered.
Block ==
    /\ stage = "act" /\ action \in Actions /\ Stuck(KeyOf[action])
    /\ Continue /\ Publish("blocked")
    /\ UNCHANGED <<refine, keys, loc, result, first, history>>

NotComplete ==
    /\ stage = "act" /\ action = "not complete"
    /\ Continue /\ Publish("goal")
    /\ UNCHANGED <<refine, keys, loc, result, first, history>>

\* What the user would be shown.
Generated == \E i \in DOMAIN recent : recent[i] \in {"success", "success empty"}
CompletionContent(answer) ==
    CASE answer = "meta reasoning" /\ Generated -> "generated"
      [] answer = "bare" /\ Generated /\ GenerationGoal -> "generated"
      [] answer = "bare" /\ ~(Generated /\ GenerationGoal) ->
            IF \E i \in DOMAIN recent : recent[i] = "success" THEN "skill output" ELSE "Goal completed."
      [] answer = "meta reasoning" /\ ~Generated -> "reasoning"
      [] OTHER -> answer

\* The result is built, and the loop is left by break.
GoalComplete ==
    /\ stage = "act" /\ action \in Complete
    /\ Publish("goal")
    /\ loc' = [loc EXCEPT !.fired = Fired]
    /\ result' = Result("completed", CompletionContent(action), loc.iteration)
    /\ achieved' = achieved \cup {loc.round}
    /\ stage' = "after" /\ action' = NoAnswer
    /\ UNCHANGED <<refine, keys, first, executed, unanswered, judged>>

CallSkill ==
    /\ stage = "act" /\ action \in Actions /\ ~Stuck(KeyOf[action])
    /\ stage' = "executing" /\ Publish("called")
    /\ executed' = Append(executed, KeyOf[action]) /\ unanswered' = unanswered + 1
    /\ UNCHANGED <<refine, keys, loc, action, result, first, judged, achieved>>

Remember == keys' = LastOf(Append(keys, KeyOf[action]), KeyWindow)

SkillReturns ==
    /\ stage = "executing"
    /\ \E status \in {"success", "success empty", "failed"} :
          /\ Publish(status)
          /\ loc' = [loc EXCEPT !.gathered = @ \/ status = "success"]
    /\ Remember /\ Continue /\ unanswered' = unanswered - 1
    /\ UNCHANGED <<refine, result, first, executed, judged, achieved>>

\* Mutant: a failed attempt is not remembered.
SkillFailsForgotten ==
    /\ stage = "executing"
    /\ Publish("error") /\ Continue /\ unanswered' = unanswered - 1
    /\ UNCHANGED <<refine, keys, loc, result, first, executed, judged, achieved>>

\* Mutant: the failure is not published.
SkillFailsSilently ==
    /\ stage = "executing"
    /\ Remember /\ Continue
    /\ UNCHANGED <<refine, loc, recent, result, first, history>>

\* OSError, RuntimeError, TypeError or ValueError, of the skill or of the publication of its result.
SkillFails ==
    /\ stage = "executing"
    /\ Publish("error") /\ Remember /\ Continue /\ unanswered' = unanswered - 1
    /\ UNCHANGED <<refine, loc, result, first, executed, judged, achieved>>

\* Any other exception, of the model or of a skill, leaves run_async; the finally of
\* _run_core_loop puts the refine flag back.
Raise ==
    /\ \/ stage = "loop" /\ loc.iteration < MaxIterations /\ ~OutOfTime /\ ~OutOfTokens
       \/ stage = "executing"
    /\ stage' = "raised"
    /\ refine' = Refine
    /\ UNCHANGED <<keys, loc, recent, action, result, first, history>>

-----------------------------------------------------------------------------
(* After the loop: also where the break of a completed goal leads *)

IsRefineEligible(r) == r.status # "error" /\ r.content \notin {"none", "Goal completed."}

Exhausted ==
    /\ stage = "after"
    /\ loc' = [loc EXCEPT !.fired = Fired]
    /\ LET r == Result("budget_exhausted", "budget", MaxIterations)
       IN  /\ result' = r
           /\ stage' = IF loc.round = 2 THEN "judge second"
                       ELSE IF refine /\ IsRefineEligible(r) THEN "judge first" ELSE "done"
    /\ UNCHANGED <<refine, keys, recent, action, first, history>>

\* The critique of the first result decides whether there is a second round.
JudgeFirst ==
    /\ stage = "judge first"
    /\ \/ stage' = "done" /\ UNCHANGED <<refine, keys, loc, first, judged>>   \* no critique
       \/ \E score \in Scores :
             /\ judged' = judged \cup {<<1, score>>}
             /\ IF score >= RefineThreshold
                THEN stage' = "done" /\ UNCHANGED <<refine, keys, loc, first>>
                ELSE /\ first' = [result |-> result, score |-> score]
                     /\ refine' = FALSE /\ keys' = <<>>
                     /\ loc' = [loc EXCEPT !.round = 2]
                     /\ stage' = "begin"
    /\ UNCHANGED <<recent, action, result, executed, unanswered, achieved>>

\* The second result is kept only if its score is higher; without a score it counts as 0.
JudgeSecond ==
    /\ stage = "judge second"
    /\ \/ result' = first.result /\ UNCHANGED judged
       \/ \E score \in Scores :
             /\ judged' = judged \cup {<<2, score>>}
             /\ result' = IF score > first.score THEN result ELSE first.result
    /\ stage' = "done" /\ refine' = Refine
    /\ UNCHANGED <<keys, loc, recent, action, first, executed, unanswered, achieved>>

Step == \/ Begin \/ LimitReached \/ IterationsReached \/ Decide \/ EmitText \/ Block \/ NotComplete
        \/ GoalComplete \/ CallSkill \/ SkillReturns \/ SkillFails \/ Raise
        \/ Exhausted \/ JudgeFirst \/ JudgeSecond

Next == Step \/ TimePasses

\* Skills and models answer or raise: the code sets no limit of its own on a step.
Spec == Init /\ [][Next]_vars /\ WF_vars(Step)

-----------------------------------------------------------------------------
\* The earlier places at which the key of place i stands in the KeyWindow places before i.
Earlier(q, i) == {j \in 1..Len(q) : j < i /\ i <= j + KeyWindow /\ q[j] = q[i]}

\* Nothing is done too often, however it ends: among KeyWindow actions run one after the other
\* in a round, none is repeated once it has been run StuckThreshold times.
NoFixation == \A i \in 1..Len(executed) : Cardinality(Earlier(executed, i)) < StuckThreshold

\* The log the next prompt is built from tells the end of every skill that was started.
CallsAnswered == unanswered = 0 \/ stage \in {"executing", "raised"}

\* A round pays for the largest prompt it has sent, and stays below its limit plus one answer.
SpendBounded ==
    /\ loc.tokens >= loc.context
    /\ loc.tokens < MaxTokens + MaxResponse \/ loc.tokens = 0

\* Refining never returns a result that was judged worse than the other one.
BestIsReturned ==
    stage = "done" => \A j, k \in judged : j[1] = result.round /\ k[1] # j[1] => j[2] >= k[2]

\* No action is repeated without end, and spending stays below the limits.
GoalStaysInBounds == TypeOK /\ NoFixation /\ SpendBounded

\* The log tells of every skill call, and the result is the better one.
GoalIsHonest == CallsAnswered /\ BestIsReturned

\* A goal is pursued to an end: a result or an exception.
RunEnds == <>(stage \in {"done", "raised"})

\* A goal that the model has declared complete is reported as completed.
CompletedIsReported == stage = "done" /\ result.round \in achieved => result.status = "completed"
=============================================================================
