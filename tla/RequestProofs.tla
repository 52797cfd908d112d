---------------------------- MODULE RequestProofs ----------------------------
(***************************************************************************)
(* That a goal stays within its limits and reports honestly, that a        *)
(* pipeline or a workflow runs as its file says, that an interview loses   *)
(* no answer, and that delegated and fanned-out work is accounted for:     *)
(* for every set of actions, nodes, states, callers, tasks and plans.      *)
(*                                                                         *)
(* Goals: counting repetitions needs that the window of remembered keys is *)
(* the end of what was executed (Windowed): then the keys that Stuck       *)
(* counts are at least the earlier places of the history with the same     *)
(* key. That the better result is returned needs what the judge has said   *)
(* at each point (Judging).                                                *)
(*                                                                         *)
(* Pipelines: the waves that build_waves ends with are disjoint and each   *)
(* node's dependencies lie in earlier ones (Waving); what they leave over  *)
(* is a circle. Then a node that was reached finds the result of           *)
(* everything it depends on, and later failures cannot concern it.         *)
(* Workflows, delegations, fan-outs and interviews: what one run, call,    *)
(* subtask or state has left behind at each of its stages.                 *)
(***************************************************************************)
EXTENDS Requests, SequenceFoldProofs, FiniteSetTheorems, TLAPS

-----------------------------------------------------------------------------
(* Windows of sequences *)

LEMMA LastOfIs ==
  ASSUME NEW S, NEW q \in Seq(S), NEW n \in Nat
  PROVE  /\ LastOf(q, n) \in Seq(S) /\ Len(q) \in Nat /\ Len(LastOf(q, n)) \in Nat
         /\ Len(LastOf(q, n)) = IF Len(q) > n THEN n ELSE Len(q)
         /\ Len(LastOf(q, n)) <= n
         /\ \A i \in 1..Len(LastOf(q, n)) : LastOf(q, n)[i] = q[Len(q) - Len(LastOf(q, n)) + i]
<1>1. Len(q) \in Nat
  OBVIOUS
<1>2. CASE Len(q) > n
  <2> DEFINE a == 1 + (Len(q) - n)
             w == SubSeq(q, a, Len(q))
  <2>1. LastOf(q, n) = w
    BY <1>2 DEF LastOf
  <2>2. a \in Nat /\ 1 <= a /\ a <= Len(q) + 1 /\ Len(q) - a + 1 = n
    BY <1>1, <1>2
  <2>3. w \in Seq(S) /\ Len(w) = n
    BY <1>1, <2>2
  <2>4. \A i \in 1..n : w[i] = q[a + i - 1]
    BY <1>1, <2>2, <2>3
  <2>5. \A i \in 1..n : a + i - 1 = Len(q) - n + i
    BY <1>1, <2>2
  <2> HIDE DEF w, a
  <2> QED BY <1>1, <1>2, <2>1, <2>3, <2>4, <2>5
<1>3. CASE ~(Len(q) > n)
  <2>1. LastOf(q, n) = q
    BY <1>3 DEF LastOf
  <2> QED BY <1>1, <1>3, <2>1
<1> QED BY <1>2, <1>3

-----------------------------------------------------------------------------
(* Types *)

LEMMA InitTypeOK == Init => TypeOK
<1> SUFFICES ASSUME Init PROVE TypeOK
  OBVIOUS
<1>1. stage \in Stages /\ refine \in BOOLEAN /\ action \in Chosen
  BY FlagsAreBoolean DEF Init, Stages, Chosen
<1>2. keys \in Seq(Keys) /\ executed \in Seq(Keys) /\ Len(keys) <= KeyWindow
  BY LimitsAreNat DEF Init
<1>3. loc \in Locals
  BY LimitsAreNat DEF Init, Locals, Fresh
<1>4. recent \in Seq(Kinds) /\ Len(recent) <= ContextWindow
  <2>1. CASE recent = <<>>
    BY <2>1, LimitsAreNat
  <2>2. CASE recent = <<"success">>
    BY <2>2, LimitsAreNat DEF Kinds
  <2> QED BY <2>1, <2>2 DEF Init
<1>5. result \in Results /\ first \in [result : Results, score : Nat]
  BY LimitsAreNat DEF Init, Results, NoResult
<1>6. unanswered \in {0, 1} /\ judged = {} /\ achieved = {}
  BY DEF Init
<1> QED BY <1>1, <1>2, <1>3, <1>4, <1>5, <1>6 DEF TypeOK

LEMMA PublishType ==
  ASSUME TypeOK, NEW kind \in Kinds, Publish(kind)
  PROVE  recent' \in Seq(Kinds) /\ Len(recent') <= ContextWindow
<1>1. Append(recent, kind) \in Seq(Kinds) /\ ContextWindow \in Nat
  BY LimitsAreNat DEF TypeOK
<1>2. /\ LastOf(Append(recent, kind), ContextWindow) \in Seq(Kinds)
      /\ Len(LastOf(Append(recent, kind), ContextWindow)) <= ContextWindow
  BY <1>1, LastOfIs
<1> QED BY <1>2 DEF Publish

LEMMA RememberType ==
  ASSUME TypeOK, action \in Actions, Remember
  PROVE  keys' \in Seq(Keys) /\ Len(keys') <= KeyWindow
<1>1. Append(keys, KeyOf[action]) \in Seq(Keys) /\ KeyWindow \in Nat
  BY LimitsAreNat, KeysOfActions DEF TypeOK
<1>2. /\ LastOf(Append(keys, KeyOf[action]), KeyWindow) \in Seq(Keys)
      /\ Len(LastOf(Append(keys, KeyOf[action]), KeyWindow)) <= KeyWindow
  BY <1>1, LastOfIs
<1> QED BY <1>2 DEF Remember

LEMMA FiredType == ASSUME TypeOK PROVE [loc EXCEPT !.fired = Fired] \in Locals
<1>1. Fired \in Nat
  BY DEF TypeOK, Locals, Fired
<1> QED BY <1>1 DEF TypeOK, Locals

LEMMA ResultType ==
  ASSUME TypeOK, NEW st \in Statuses, NEW content \in Contents, NEW n \in 0..MaxIterations
  PROVE  Result(st, content, n) \in Results
  BY DEF TypeOK, Locals, Result, Results

LEMMA TokensType == ASSUME TypeOK PROVE ContextTokens \in Nat /\ Delta \in Nat
  BY DEF TypeOK, ContextTokens, Delta, Locals

\* A skill call under way is the only one without an answer.
Answered == stage # "raised" => unanswered = IF stage = "executing" THEN 1 ELSE 0

LEMMA AnsweredStep == ASSUME TypeOK, Answered, [Next]_vars PROVE Answered'
<1> USE DEF Answered
<1>1. CASE Begin \/ LimitReached \/ IterationsReached \/ Decide
  BY <1>1 DEF Begin, LimitReached, IterationsReached, Decide, history
<1>2. CASE EmitText \/ Block \/ NotComplete \/ GoalComplete
  BY <1>2 DEF EmitText, Block, NotComplete, GoalComplete, Continue, history
<1>3. CASE CallSkill
  BY <1>3 DEF CallSkill
<1>4. CASE SkillReturns \/ SkillFails
  <2>1. stage = "executing" /\ stage' = "loop" /\ unanswered' = unanswered - 1
    BY <1>4 DEF SkillReturns, SkillFails, Continue
  <2> QED BY <2>1
<1>5. CASE Raise \/ TimePasses
  BY <1>5 DEF Raise, TimePasses, history
<1>6. CASE Exhausted \/ JudgeFirst \/ JudgeSecond
  BY <1>6 DEF Exhausted, JudgeFirst, JudgeSecond, history
<1>7. CASE UNCHANGED vars
  BY <1>7 DEF vars
<1> QED BY <1>1, <1>2, <1>3, <1>4, <1>5, <1>6, <1>7 DEF Next, Step

\* The skill that runs is the one chosen.
Called == stage = "executing" => action \in Actions

LEMMA TypeStep == ASSUME TypeOK, Answered, Called, [Next]_vars PROVE TypeOK'
<1> USE KeysOfActions, LimitsAreNat, ScoresAreNat, FlagsAreBoolean
<1>1. CASE Begin
  BY <1>1 DEF Begin, TypeOK, Stages, Fresh, Locals
<1>2. CASE LimitReached
  <2>1. Result("budget_exhausted", "budget", loc.iteration) \in Results
    BY ResultType DEF Statuses, Contents, TypeOK, Locals
  <2> QED BY <1>2, <2>1, FiredType DEF LimitReached, TypeOK, Stages, history
<1>3. CASE IterationsReached
  BY <1>3 DEF IterationsReached, TypeOK, Stages, history
<1>4. CASE Decide
  <2>1. PICK a \in Chosen \ {NoAnswer}, r \in Responses :
          /\ action' = a
          /\ loc' = [loc EXCEPT !.iteration = @ + 1, !.context = ContextTokens, !.tokens = @ + Delta + r]
    BY <1>4 DEF Decide
  <2>2. loc.iteration < MaxIterations
    BY <1>4 DEF Decide
  <2>3. loc.iteration + 1 \in 0..MaxIterations /\ loc.tokens + Delta + r \in Nat
    <3>1. r \in Nat /\ loc.iteration \in 0..MaxIterations /\ loc.tokens \in Nat /\ MaxIterations \in Nat
      BY DEF TypeOK, Locals
    <3> QED BY <2>2, <3>1, TokensType
  <2>4. loc' \in Locals
    BY <2>1, <2>3, TokensType DEF TypeOK, Locals
  <2> QED BY <1>4, <2>1, <2>4 DEF Decide, TypeOK, Stages, history
<1>5. CASE EmitText
  BY <1>5, PublishType DEF EmitText, Continue, TypeOK, Stages, Kinds, Chosen, history
<1>6. CASE Block
  BY <1>6, PublishType DEF Block, Continue, TypeOK, Stages, Kinds, Chosen, history
<1>7. CASE NotComplete
  BY <1>7, PublishType DEF NotComplete, Continue, TypeOK, Stages, Kinds, Chosen, history
<1>8. CASE GoalComplete
  <2>1. Result("completed", CompletionContent(action), loc.iteration) \in Results
    <3>1. CompletionContent(action) \in Contents
      BY <1>8 DEF GoalComplete, CompletionContent, Contents, Complete
    <3> QED BY <3>1, ResultType DEF Statuses, TypeOK, Locals
  <2>2. recent' \in Seq(Kinds) /\ Len(recent') <= ContextWindow
    BY <1>8, PublishType DEF GoalComplete, Kinds
  <2>3. achieved' \subseteq {1, 2}
    BY <1>8 DEF GoalComplete, TypeOK, Locals
  <2> QED BY <1>8, <2>1, <2>2, <2>3, FiredType DEF GoalComplete, TypeOK, Stages, Chosen
<1>9. CASE CallSkill
  <2>1. recent' \in Seq(Kinds) /\ Len(recent') <= ContextWindow
    BY <1>9, PublishType DEF CallSkill, Kinds
  <2>2. executed' \in Seq(Keys)
    BY <1>9 DEF CallSkill, TypeOK
  <2>3. unanswered' \in {0, 1}
    BY <1>9 DEF CallSkill, Answered
  <2> QED BY <1>9, <2>1, <2>2, <2>3 DEF CallSkill, TypeOK, Stages
<1>10. CASE SkillReturns
  <2>1. PICK status \in {"success", "success empty", "failed"} :
          Publish(status) /\ loc' = [loc EXCEPT !.gathered = @ \/ status = "success"]
    BY <1>10 DEF SkillReturns
  <2>2. recent' \in Seq(Kinds) /\ Len(recent') <= ContextWindow
    BY <2>1, PublishType DEF Kinds
  <2>3. loc' \in Locals
    BY <2>1 DEF TypeOK, Locals
  <2>4. unanswered' \in {0, 1}
    <3>1. Answered' /\ stage' = "loop"
      BY <1>10, AnsweredStep DEF SkillReturns, Continue
    <3> QED BY <3>1 DEF Answered
  <2>5. keys' \in Seq(Keys) /\ Len(keys') <= KeyWindow
    BY <1>10, RememberType DEF SkillReturns, Called
  <2> QED BY <1>10, <2>2, <2>3, <2>4, <2>5 DEF SkillReturns, Continue, TypeOK, Stages, Chosen
<1>11. CASE SkillFails
  <2>1. recent' \in Seq(Kinds) /\ Len(recent') <= ContextWindow
    BY <1>11, PublishType DEF SkillFails, Kinds
  <2>2. unanswered' \in {0, 1}
    BY <1>11 DEF SkillFails, Answered
  <2>3. keys' \in Seq(Keys) /\ Len(keys') <= KeyWindow
    BY <1>11, RememberType DEF SkillFails, Called
  <2> QED BY <1>11, <2>1, <2>2, <2>3 DEF SkillFails, Continue, TypeOK, Stages, Chosen
<1>12. CASE Raise
  BY <1>12 DEF Raise, TypeOK, Stages, history
<1>13. CASE Exhausted
  <2>1. Result("budget_exhausted", "budget", MaxIterations) \in Results
    <3>1. MaxIterations \in 0..MaxIterations
      OBVIOUS
    <3> QED BY <3>1, ResultType DEF Statuses, Contents
  <2> QED BY <1>13, <2>1, FiredType DEF Exhausted, TypeOK, Stages, history
<1>14. CASE JudgeFirst
  <2>1. CASE stage' = "done" /\ UNCHANGED <<refine, keys, loc, first, judged>>
    BY <1>14, <2>1 DEF JudgeFirst, TypeOK, Stages
  <2>2. ASSUME NEW score \in Scores, judged' = judged \cup {<<1, score>>},
               \/ stage' = "done" /\ UNCHANGED <<refine, keys, loc, first>>
               \/ /\ first' = [result |-> result, score |-> score] /\ refine' = FALSE /\ keys' = <<>>
                  /\ loc' = [loc EXCEPT !.round = 2] /\ stage' = "begin"
        PROVE  TypeOK'
    <3>1. judged' \subseteq {1, 2} \X Scores
      BY <2>2 DEF TypeOK
    <3>2. first' \in [result : Results, score : Nat]
      BY <2>2 DEF TypeOK
    <3>3. loc' \in Locals
      BY <2>2 DEF TypeOK, Locals
    <3>4. keys' \in Seq(Keys) /\ Len(keys') <= KeyWindow /\ stage' \in Stages /\ refine' \in BOOLEAN
      <4>1. <<>> \in Seq(Keys) /\ Len(<<>>) <= KeyWindow
        OBVIOUS
      <4> QED BY <2>2, <4>1 DEF TypeOK, Stages
    <3> QED BY <1>14, <3>1, <3>2, <3>3, <3>4 DEF JudgeFirst, TypeOK
  <2> QED BY <1>14, <2>1, <2>2 DEF JudgeFirst
<1>15. CASE JudgeSecond
  <2>1. first.result \in Results
    BY DEF TypeOK
  <2>2. judged' \subseteq {1, 2} \X Scores /\ result' \in Results
    <3>1. \/ result' = first.result /\ UNCHANGED judged
          \/ \E score \in Scores : /\ judged' = judged \cup {<<2, score>>}
                                   /\ result' = result \/ result' = first.result
      BY <1>15 DEF JudgeSecond
    <3> QED BY <2>1, <3>1 DEF TypeOK
  <2> QED BY <1>15, <2>2 DEF JudgeSecond, TypeOK, Stages
<1>16. CASE TimePasses
  BY <1>16 DEF TimePasses, TypeOK, Locals, history
<1>17. CASE UNCHANGED vars
  BY <1>17 DEF TypeOK, vars
<1> QED BY <1>1, <1>2, <1>3, <1>4, <1>5, <1>6, <1>7, <1>8, <1>9, <1>10, <1>11, <1>12, <1>13, <1>14,
           <1>15, <1>16, <1>17 DEF Next, Step

-----------------------------------------------------------------------------
(* Spending *)

LEMMA SpentStep == ASSUME TypeOK, SpendBounded, [Next]_vars PROVE SpendBounded'
<1> USE LimitsAreNat DEF SpendBounded
<1>1. CASE Begin
  BY <1>1 DEF Begin, Fresh
<1>2. CASE Decide
  <2>1. PICK a \in Chosen \ {NoAnswer}, r \in Responses :
          loc' = [loc EXCEPT !.iteration = @ + 1, !.context = ContextTokens, !.tokens = @ + Delta + r]
    BY <1>2 DEF Decide
  <2>2. loc'.tokens = loc.tokens + Delta + r /\ loc'.context = ContextTokens
    BY <2>1 DEF TypeOK, Locals
  <2>3. ~(loc.tokens + Delta >= MaxTokens)
    BY <1>2 DEF Decide, OutOfTokens
  <2>4. /\ loc.tokens \in Nat /\ loc.context \in Nat /\ MaxTokens \in Nat /\ r \in 0..MaxResponse
        /\ MaxResponse \in Nat /\ ContextTokens \in Nat /\ Delta \in Nat
    BY TokensType DEF TypeOK, Locals
  <2>5. Delta = IF ContextTokens > loc.context THEN ContextTokens - loc.context ELSE 0
    BY DEF Delta
  <2> QED BY <2>2, <2>3, <2>4, <2>5
<1>3. CASE LimitReached \/ GoalComplete \/ Exhausted \/ JudgeFirst \/ SkillReturns \/ TimePasses
  <2>1. loc'.tokens = loc.tokens /\ loc'.context = loc.context
    BY <1>3 DEF TypeOK, Locals, LimitReached, GoalComplete, Exhausted, JudgeFirst, SkillReturns, TimePasses
  <2> QED BY <2>1
<1>4. CASE UNCHANGED loc
  BY <1>4
<1> QED BY <1>1, <1>2, <1>3, <1>4 DEF Next, Step, vars, history, IterationsReached, EmitText, Block, NotComplete,
                                  CallSkill, SkillFails, Raise, JudgeSecond

-----------------------------------------------------------------------------
(* The judge *)

\* What the judge has said of which round, while the run goes on.
Judging ==
    /\ stage \notin {"done", "raised"} =>
          \/ loc.round = 1 /\ judged = {}
          \/ loc.round = 2 /\ judged = {<<1, first.score>>} /\ first.result.round = 1
    /\ stage = "judge first" => loc.round = 1 /\ result.round = 1
    /\ stage = "judge second" => loc.round = 2 /\ result.round = 2

LEMMA RoundKept ==
  ASSUME TypeOK, LimitReached \/ GoalComplete \/ Exhausted \/ SkillReturns \/ TimePasses \/ Decide \/ Begin
  PROVE  loc'.round = loc.round
<1>1. CASE LimitReached \/ GoalComplete \/ Exhausted
  BY <1>1 DEF TypeOK, Locals, LimitReached, GoalComplete, Exhausted
<1>2. CASE SkillReturns \/ TimePasses
  BY <1>2 DEF TypeOK, Locals, SkillReturns, TimePasses
<1>3. CASE Decide
  BY <1>3 DEF TypeOK, Locals, Decide
<1>4. CASE Begin
  BY <1>4 DEF Begin, Fresh
<1> QED BY <1>1, <1>2, <1>3, <1>4

LEMMA TwoScores ==
  ASSUME NEW f, NEW s, NEW j \in {<<1, f>>, <<2, s>>}
  PROVE  j[1] \in {1, 2} /\ (j[1] = 1 => j[2] = f) /\ (j[1] = 2 => j[2] = s)
<1>1. CASE j = <<1, f>>
  BY <1>1
<1>2. CASE j = <<2, s>>
  BY <1>2
<1> QED BY <1>1, <1>2

LEMMA JudgingStep ==
  ASSUME TypeOK, Judging, BestIsReturned, [Next]_vars
  PROVE  Judging' /\ BestIsReturned'
<1>1. CASE LimitReached
  BY <1>1, RoundKept DEF Judging, BestIsReturned, LimitReached, Result, history
<1>2. CASE Exhausted
  BY <1>2, RoundKept DEF Judging, BestIsReturned, Exhausted, Result, history
<1>3. CASE Begin \/ Decide \/ SkillReturns \/ GoalComplete \/ TimePasses
  BY <1>3, RoundKept DEF Judging, BestIsReturned, Begin, Decide, SkillReturns, Continue, GoalComplete, TimePasses, history
<1>4. CASE IterationsReached \/ EmitText \/ Block \/ NotComplete \/ CallSkill \/ SkillFails
  BY <1>4 DEF Judging, BestIsReturned, IterationsReached, EmitText, Block, NotComplete, CallSkill, SkillFails, Continue, history
<1>5. CASE Raise
  BY <1>5 DEF Judging, BestIsReturned, Raise, history
<1>6. CASE JudgeFirst
  <2>1. stage = "judge first" /\ loc.round = 1 /\ judged = {} /\ UNCHANGED result
    <3>1. stage = "judge first" /\ UNCHANGED result
      BY <1>6 DEF JudgeFirst
    <3>2. loc.round = 1
      BY <3>1 DEF Judging
    <3>3. loc.round # 2
      BY <3>2
    <3>4. judged = {}
      BY <3>1, <3>3 DEF Judging
    <3> QED BY <3>1, <3>2, <3>4
  <2>2. CASE stage' = "done" /\ UNCHANGED judged
    BY <2>1, <2>2 DEF Judging, BestIsReturned
  <2>3. ASSUME NEW score \in Scores, judged' = judged \cup {<<1, score>>},
               \/ stage' = "done"
               \/ /\ first' = [result |-> result, score |-> score]
                  /\ loc' = [loc EXCEPT !.round = 2] /\ stage' = "begin"
        PROVE  Judging' /\ BestIsReturned'
    <3>1. judged' = {<<1, score>>}
      BY <2>1, <2>3
    <3>2. \A j, k \in judged' : k[1] = j[1]
      BY <3>1
    <3>3. BestIsReturned'
      BY <3>2 DEF BestIsReturned
    <3>4. CASE stage' = "done"
      BY <3>3, <3>4 DEF Judging
    <3>5. CASE stage' = "begin" /\ first' = [result |-> result, score |-> score] /\ loc' = [loc EXCEPT !.round = 2]
      <4>1. loc'.round = 2 /\ first'.score = score /\ first'.result.round = 1
        BY <2>1, <3>5 DEF TypeOK, Locals, Judging
      <4> QED BY <3>1, <3>3, <3>5, <4>1 DEF Judging
    <3> QED BY <2>3, <3>4, <3>5
  <2> QED BY <1>6, <2>2, <2>3 DEF JudgeFirst
<1>7. CASE JudgeSecond
  <2>1. stage = "judge second" /\ stage' = "done"
    BY <1>7 DEF JudgeSecond
  <2>2. /\ result.round = 2 /\ first.result.round = 1
        /\ judged = {<<1, first.score>>} /\ first.score \in Nat
    <3>1. loc.round = 2 /\ result.round = 2
      BY <2>1 DEF Judging
    <3>2. loc.round # 1
      BY <3>1
    <3>3. judged = {<<1, first.score>>} /\ first.result.round = 1
      BY <2>1, <3>2 DEF Judging
    <3> QED BY <3>1, <3>3 DEF TypeOK
  <2>3. CASE UNCHANGED judged
    BY <2>1, <2>2, <2>3 DEF Judging, BestIsReturned
  <2>4. ASSUME NEW score \in Scores, judged' = judged \cup {<<2, score>>},
               result' = IF score > first.score THEN result ELSE first.result
        PROVE  BestIsReturned'
    <3>1. score \in Nat /\ judged' = {<<1, first.score>>, <<2, score>>}
      BY <2>2, <2>4, ScoresAreNat
    <3>2. SUFFICES ASSUME NEW j \in judged', NEW k \in judged', j[1] = result'.round, k[1] # j[1]
                   PROVE  j[2] >= k[2]
      BY DEF BestIsReturned
    <3>3. CASE score > first.score
      <4>1. j[1] = 2 /\ k[1] # 2
        BY <2>2, <2>4, <3>2, <3>3
      <4>2. j[2] = score /\ k[2] = first.score
        BY <3>1, <4>1, TwoScores
      <4> QED BY <2>2, <3>1, <3>3, <4>2
    <3>4. CASE ~(score > first.score)
      <4>1. j[1] = 1 /\ k[1] # 1
        BY <2>2, <2>4, <3>2, <3>4
      <4>2. j[2] = first.score /\ k[2] = score
        BY <3>1, <4>1, TwoScores
      <4> QED BY <2>2, <3>1, <3>4, <4>2
    <3> QED BY <3>3, <3>4
  <2>5. BestIsReturned' => Judging' /\ BestIsReturned'
    BY <2>1 DEF Judging
  <2> QED BY <1>7, <2>3, <2>4, <2>5 DEF JudgeSecond
<1>8. CASE UNCHANGED vars
  BY <1>8 DEF Judging, BestIsReturned, vars
<1> QED BY <1>1, <1>2, <1>3, <1>4, <1>5, <1>6, <1>7, <1>8 DEF Next, Step

-----------------------------------------------------------------------------
(* Repetition *)

\* How many skills of this round have ended, and been remembered: keys are their last KeyWindow.
Ran == IF stage = "executing" THEN Len(executed) - 1 ELSE Len(executed)

Windowed ==
    /\ stage = "executing" => executed # <<>> /\ executed[Len(executed)] = KeyOf[action]
    /\ stage \in {"loop", "act", "executing"} =>
          /\ Len(keys) = IF Ran > KeyWindow THEN KeyWindow ELSE Ran
          /\ \A i \in 1..Len(keys) : keys[i] = executed[Ran - Len(keys) + i]

\* A skill that ends pushes its key into the window.
LEMMA Remembered ==
  ASSUME TypeOK, Windowed, stage = "executing", Remember, executed' = executed, stage' = "loop"
  PROVE  Windowed'
<1> DEFINE n == Len(executed) - 1
           l == Len(keys)
           a == Append(keys, KeyOf[action])
           v == keys'
           m == Len(v)
<1>1. /\ executed \in Seq(Keys) /\ keys \in Seq(Keys) /\ n \in Nat /\ n + 1 = Len(executed)
      /\ KeyWindow \in Nat \ {0} /\ executed[n + 1] = KeyOf[action] /\ KeyOf[action] \in Keys
  BY LimitsAreNat DEF TypeOK, Windowed
<1>2. /\ l = IF n > KeyWindow THEN KeyWindow ELSE n
      /\ \A i \in 1..l : keys[i] = executed[n - l + i]
  BY DEF Windowed, Ran
<1>3. /\ a \in Seq(Keys) /\ l \in Nat /\ Len(a) = l + 1 /\ a[l + 1] = KeyOf[action]
      /\ \A i \in 1..l : a[i] = keys[i]
  BY <1>1
<1>4. v = LastOf(a, KeyWindow)
  BY DEF Remember
<1>5. Ran' = n + 1
  BY <1>1 DEF Ran
<1> HIDE DEF n, a, v
<1>6. /\ m \in Nat /\ m = IF Len(a) > KeyWindow THEN KeyWindow ELSE Len(a)
      /\ \A i \in 1..m : v[i] = a[Len(a) - m + i]
  <2>1. KeyWindow \in Nat
    BY <1>1
  <2>2. LET s == LastOf(a, KeyWindow)
        IN  /\ Len(s) \in Nat /\ Len(s) = IF Len(a) > KeyWindow THEN KeyWindow ELSE Len(a)
            /\ \A i \in 1..Len(s) : s[i] = a[Len(a) - Len(s) + i]
    BY <1>3, <2>1, LastOfIs
  <2> QED BY <1>4, <2>2
<1> HIDE DEF l, m
<1>7. m = IF n + 1 > KeyWindow THEN KeyWindow ELSE n + 1
  BY <1>1, <1>2, <1>3, <1>6
<1>8. ASSUME NEW i \in 1..m PROVE v[i] = executed[n + 1 - m + i]
  <2>1. CASE i = m
    <3>1. Len(a) - m + i = l + 1 /\ n + 1 - m + i = n + 1
      BY <1>1, <1>3, <1>6, <2>1
    <3>2. v[i] = a[Len(a) - m + i]
      BY <1>6
    <3> QED BY <1>1, <1>3, <3>1, <3>2
  <2>2. CASE i < m
    <3> DEFINE x == Len(a) - m + i
    <3>1. x \in 1..l /\ n - l + x = n + 1 - m + i
      BY <1>1, <1>2, <1>3, <1>6, <2>2
    <3>2. v[i] = a[x]
      BY <1>6
    <3> HIDE DEF x
    <3>3. a[x] = keys[x] /\ keys[x] = executed[n - l + x]
      BY <1>2, <1>3, <3>1
    <3>4. executed[n - l + x] = executed[n + 1 - m + i]
      BY <3>1
    <3> QED BY <3>2, <3>3, <3>4
  <2>3. i = m \/ i < m
    BY <1>6
  <2> QED BY <2>1, <2>2, <2>3
<1> QED BY <1>1, <1>5, <1>7, <1>8 DEF Windowed, v, m

LEMMA WindowedStep == ASSUME TypeOK, Called, Windowed, [Next]_vars PROVE Windowed'
<1>1. CASE Begin
  <2>1. keys' = <<>> /\ executed' = <<>> /\ stage' = "loop"
    BY <1>1 DEF Begin
  <2>2. Len(keys') = 0 /\ Ran' = 0 /\ ~(0 > KeyWindow)
    BY <2>1, LimitsAreNat DEF Ran
  <2> QED BY <2>1, <2>2 DEF Windowed
<1>2. CASE stage' \notin {"loop", "act", "executing"}
  BY <1>2 DEF Windowed
<1>3. CASE UNCHANGED <<keys, executed>> /\ stage \in {"loop", "act"} /\ stage' \in {"loop", "act"}
  BY <1>3 DEF Windowed, Ran
<1>4. CASE CallSkill
  <2>1. /\ executed' = Append(executed, KeyOf[action]) /\ KeyOf[action] \in Keys /\ executed \in Seq(Keys)
        /\ stage' = "executing" /\ stage = "act" /\ UNCHANGED <<keys, action>>
    BY <1>4, KeysOfActions DEF CallSkill, TypeOK
  <2>2. /\ Len(executed') = Len(executed) + 1 /\ executed' # <<>> /\ executed'[Len(executed')] = KeyOf[action]
        /\ \A i \in 1..Len(executed) : executed'[i] = executed[i]
    BY <2>1
  <2>3. Ran' = Ran /\ Ran = Len(executed) /\ Len(executed) \in Nat /\ Len(keys) \in Nat
    BY <2>1, <2>2 DEF Ran, TypeOK
  <2>4. Len(keys) = IF Ran > KeyWindow THEN KeyWindow ELSE Ran
    BY <2>1 DEF Windowed
  <2>5. \A i \in 1..Len(keys) : Ran - Len(keys) + i \in 1..Len(executed)
    BY <2>3, <2>4, LimitsAreNat
  <2>6. \A i \in 1..Len(keys) : keys[i] = executed[Ran - Len(keys) + i]
    BY <2>1 DEF Windowed
  <2> QED BY <2>1, <2>2, <2>3, <2>4, <2>5, <2>6 DEF Windowed
<1>5. CASE SkillReturns \/ SkillFails
  BY <1>5, Remembered DEF SkillReturns, SkillFails, Continue
<1>6. CASE TimePasses
  BY <1>6 DEF TimePasses, Windowed, Ran, history
<1>7. CASE UNCHANGED vars
  BY <1>7 DEF vars, Windowed, Ran
<1>8. CASE Decide \/ EmitText \/ Block \/ NotComplete
  BY <1>3, <1>8 DEF Decide, EmitText, Block, NotComplete, Continue, history
<1>9. CASE LimitReached \/ IterationsReached \/ GoalComplete \/ Raise \/ Exhausted \/ JudgeSecond
  BY <1>2, <1>9 DEF LimitReached, IterationsReached, GoalComplete, Raise, Exhausted, JudgeSecond
<1>10. CASE JudgeFirst
  BY <1>2, <1>10 DEF JudgeFirst
<1> QED BY <1>1, <1>4, <1>5, <1>6, <1>7, <1>8, <1>9, <1>10 DEF Next, Step

\* An action that is not stuck has been run less than StuckThreshold times in the window.
LEMMA NotStuck ==
  ASSUME TypeOK, Windowed, stage = "act", NEW key \in Keys, ~Stuck(key)
  PROVE  LET q == Append(executed, key) IN Cardinality(Earlier(q, Len(executed) + 1)) < StuckThreshold
<1> DEFINE n == Len(executed)
           l == Len(keys)
           q == Append(executed, key)
           same == {m \in 1..l : keys[m] = key}
           early == Earlier(q, n + 1)
           shift == [j \in early |-> j - (n - l)]
<1>1. /\ n \in Nat /\ l \in Nat /\ KeyWindow \in Nat /\ StuckThreshold \in Nat
      /\ Len(q) = n + 1 /\ q[n + 1] = key /\ \A j \in 1..n : q[j] = executed[j]
  BY LimitsAreNat DEF TypeOK
<1>2. l = IF n > KeyWindow THEN KeyWindow ELSE n
  BY DEF Windowed, Ran
<1>3. \A i \in 1..l : keys[i] = executed[n - l + i]
  BY DEF Windowed, Ran
<1>4. early = {j \in 1..n : n + 1 <= j + KeyWindow /\ executed[j] = key}
  BY <1>1 DEF Earlier
<1> HIDE DEF n, l, q, early
<1>5. ASSUME NEW j \in early PROVE j - (n - l) \in same
  <2> DEFINE x == j - (n - l)
  <2>1. j \in 1..n /\ n + 1 <= j + KeyWindow /\ executed[j] = key
    BY <1>4
  <2>2. x \in 1..l /\ n - l + x = j
    BY <1>1, <1>2, <2>1
  <2> HIDE DEF x
  <2>3. keys[x] = executed[n - l + x]
    BY <1>3, <2>2
  <2>4. x \in same
    BY <2>1, <2>2, <2>3
  <2> QED BY <2>4 DEF x
<1>6. shift \in Injection(early, same)
  <2>1. \A j \in early : j \in Nat
    BY <1>1, <1>4
  <2> QED BY <1>1, <1>5, <2>1 DEF Injection, IsInjective
<1>7. IsFiniteSet(1..l) /\ Cardinality(1..l) = l
  <2>1. 1 \in Int /\ l \in Int /\ (l = 0 \/ l >= 1)
    BY <1>1
  <2>2. IsFiniteSet(1..l) /\ Cardinality(1..l) = IF 1 > l THEN 0 ELSE l - 1 + 1
    BY <2>1, FS_Interval
  <2> QED BY <2>1, <2>2
<1>8. IsFiniteSet(same) /\ Cardinality(same) <= l /\ Cardinality(same) \in Nat
  BY <1>7, FS_Subset, FS_CardinalityType
<1>9. Cardinality(early) <= Cardinality(same) /\ Cardinality(early) \in Nat
  BY <1>6, <1>8, FS_Injection, FS_CardinalityType
<1>10. Cardinality(same) < StuckThreshold
  <2>1. 1..l = DOMAIN keys
    BY DEF l, TypeOK
  <2>2. {i \in DOMAIN keys : keys[i] = key} = same
    BY <2>1
  <2>3. ~(l >= StuckThreshold /\ Cardinality(same) >= StuckThreshold)
    BY <2>2 DEF Stuck, l
  <2> HIDE DEF same
  <2> QED BY <1>1, <1>8, <2>3
<1>11. Cardinality(early) < StuckThreshold
  BY <1>1, <1>8, <1>9, <1>10
<1> QED BY <1>11 DEF early, q, n

LEMMA FixationStep ==
  ASSUME TypeOK, Windowed, NoFixation, [Next]_vars, TypeOK' PROVE NoFixation'
<1>1. CASE CallSkill
  <2> DEFINE key == KeyOf[action]
             q == Append(executed, key)
  <2>1. /\ stage = "act" /\ key \in Keys /\ ~Stuck(key) /\ executed' = q /\ executed \in Seq(Keys)
    BY <1>1, KeysOfActions DEF CallSkill, TypeOK
  <2> HIDE DEF key
  <2>2. Len(executed) \in Nat /\ Len(q) = Len(executed) + 1 /\ \A j \in 1..Len(executed) : q[j] = executed[j]
    BY <2>1
  <2> HIDE DEF q
  <2>3. \A i \in 1..Len(executed) : Earlier(q, i) = Earlier(executed, i)
    BY <2>2 DEF Earlier
  <2>4. \A i \in 1..Len(executed) : Cardinality(Earlier(executed, i)) < StuckThreshold
    BY <2>1 DEF NoFixation
  <2>5. Cardinality(Earlier(q, Len(executed) + 1)) < StuckThreshold
    BY <2>1, NotStuck DEF q
  <2>6. \A i \in 1..Len(q) : i \in 1..Len(executed) \/ i = Len(executed) + 1
    BY <2>2
  <2>7. \A i \in 1..Len(q) : Cardinality(Earlier(q, i)) < StuckThreshold
    BY <2>3, <2>4, <2>5, <2>6
  <2>8. NoFixation' <=> \A i \in 1..Len(executed') : Cardinality(Earlier(executed', i)) < StuckThreshold
    BY DEF NoFixation
  <2> QED BY <2>1, <2>7, <2>8
<1>2. CASE Begin
  BY <1>2 DEF Begin, NoFixation
<1>3. CASE UNCHANGED executed
  BY <1>3 DEF NoFixation
<1> QED BY <1>1, <1>2, <1>3 DEF Next, Step, vars, history, LimitReached, IterationsReached, Decide, EmitText, Block,
          NotComplete, GoalComplete, SkillReturns, SkillFails, Raise, Exhausted, JudgeFirst, JudgeSecond, TimePasses

-----------------------------------------------------------------------------
(* The invariant *)

LEMMA CalledStep == ASSUME TypeOK, Called, [Next]_vars PROVE Called'
<1>1. CASE CallSkill
  BY <1>1 DEF Called, CallSkill
<1>2. CASE UNCHANGED <<stage, action>>
  BY <1>2 DEF Called
<1>3. CASE stage' # "executing"
  BY <1>3 DEF Called
<1>4. CASE LimitReached \/ IterationsReached \/ Decide \/ EmitText \/ Block \/ NotComplete \/ GoalComplete
  BY <1>3, <1>4 DEF LimitReached, IterationsReached, Decide, EmitText, Block, NotComplete, GoalComplete, Continue
<1>5. CASE Begin \/ SkillReturns \/ SkillFails \/ Raise \/ Exhausted \/ JudgeFirst \/ JudgeSecond
  BY <1>3, <1>5 DEF Begin, SkillReturns, SkillFails, Continue, Raise, Exhausted, JudgeFirst, JudgeSecond
<1> QED BY <1>1, <1>2, <1>4, <1>5 DEF Next, Step, TimePasses, vars

\* What is inductive: each part is preserved by a lemma above.
IInv == /\ TypeOK /\ Answered /\ Called /\ SpendBounded
        /\ Judging /\ BestIsReturned
        /\ Windowed /\ NoFixation

LEMMA InitIInv == Init => IInv
<1> SUFFICES ASSUME Init PROVE IInv
  OBVIOUS
<1>1. TypeOK
  BY InitTypeOK
<1>2. Answered /\ Called
  BY DEF Init, Answered, Called
<1>3. SpendBounded
  BY DEF Init, Fresh, SpendBounded
<1>4. Judging /\ BestIsReturned
  BY DEF Init, Fresh, Judging, BestIsReturned
<1>5. Windowed /\ NoFixation
  BY DEF Init, Windowed, NoFixation
<1> QED BY <1>1, <1>2, <1>3, <1>4, <1>5 DEF IInv

\* The invariant holds in every state of every run of every goal.
THEOREM Inductive == Spec => []IInv
<1>1. IInv /\ [Next]_vars => IInv'
  <2> SUFFICES ASSUME IInv, [Next]_vars PROVE IInv'
    OBVIOUS
  <2>1. TypeOK'
    BY TypeStep DEF IInv
  <2>2. Answered' /\ Called' /\ SpendBounded'
    BY AnsweredStep, CalledStep, SpentStep DEF IInv
  <2>3. Judging' /\ BestIsReturned'
    BY JudgingStep DEF IInv
  <2>4. Windowed' /\ NoFixation'
    BY <2>1, WindowedStep, FixationStep DEF IInv
  <2> QED BY <2>1, <2>2, <2>3, <2>4 DEF IInv
<1> QED BY <1>1, InitIInv, PTL DEF Spec

\* Whatever the limits are, and whatever model, skills and clock do, no action is run more often
\* in a window than the threshold says, and spending passes the limit by less than one answer
\* (goal_runner.py:569, 642).
THEOREM GoalsStayInBounds == Spec => []GoalStaysInBounds
<1>1. IInv => GoalStaysInBounds
  BY DEF IInv, GoalStaysInBounds
<1> QED BY <1>1, Inductive, PTL

\* Between two decisions every skill call has its answer in the log, and with refine the result
\* returned is never the one judged worse (goal_runner.py:742, 1061).
THEOREM GoalsAreHonest == Spec => []GoalIsHonest
<1>1. IInv => GoalIsHonest
  BY DEF IInv, GoalIsHonest, CallsAnswered, Answered
<1> QED BY <1>1, Inductive, PTL

-----------------------------------------------------------------------------
(* Finite sets, as the instances name them *)

LEMMA CallsCount == \A S : Calls!Cardinality(S) = Cardinality(S)
  BY DEF Calls!Cardinality, Cardinality
LEMMA FanCount == \A S : Fan!Cardinality(S) = Cardinality(S)
  BY DEF Fan!Cardinality, Cardinality
LEMMA DagCount == \A S : (Dag!IsFiniteSet(S) <=> IsFiniteSet(S)) /\ Dag!Cardinality(S) = Cardinality(S)
  BY DEF Dag!IsFiniteSet, IsFiniteSet, Dag!Cardinality, Cardinality

-----------------------------------------------------------------------------
(* DagRun: the waves *)

LEMMA DagFold == \A f, a, s : Dag!Fold(f, a, s) = Fold(f, a, s)
  BY DEF Dag!Fold, Fold
LEMMA PipelineIs ==
  ASSUME pipeline \in Pipelines
  PROVE  /\ IsFiniteSet(Nodes) /\ Dag!Defined \subseteq Nodes
         /\ pipeline.unknownType \subseteq Dag!Defined
  BY PipelinesAssumption, DagCount DEF Dag!PipelinesOverNodes, Dag!Defined

\* Waves have different members, and what a member depends on is in an earlier wave.
Waving(W) ==
  /\ W \in Seq(SUBSET Nodes)
  /\ \A i \in 1..Len(W) : W[i] # {} /\ W[i] \subseteq Dag!Defined
  /\ \A i, j \in 1..Len(W) : \A n \in W[i] : n \in W[j] => i = j
  /\ \A i \in 1..Len(W) : \A n \in W[i] : \A d \in Dag!Deps(n) \cap Dag!Defined : \E j \in 1..(i - 1) : d \in W[j]

LEMMA LeftIs ==
  ASSUME NEW W, Waving(W), NEW n \in Dag!Defined
  PROVE  n \in Dag!Left(W) <=> \A i \in 1..Len(W) : n \notin W[i]
  BY DEF Waving, Dag!Left

LEMMA TurnWaves ==
  ASSUME pipeline \in Pipelines, NEW W, Waving(W), NEW k \in Nat
  PROVE  /\ Waving(Dag!Turn[k][W])
         /\ IF Dag!Ready(Dag!Left(W)) = {} THEN Dag!Turn[k][W] = W ELSE Len(Dag!Turn[k][W]) = Len(W) + 1
<1> DEFINE R == Dag!Ready(Dag!Left(W))
<1>1. Dag!Turn[k][W] = IF R = {} THEN W ELSE Append(W, R)
  BY DEF Dag!Turn, Waving
<1>2. R \subseteq Dag!Left(W) /\ Dag!Left(W) \subseteq Dag!Defined /\ \A n \in R : Dag!Deps(n) \cap Dag!Left(W) = {}
  BY DEF Dag!Ready, Dag!Left
<1>3. R \in SUBSET Nodes
  BY <1>2, PipelineIs
<1> HIDE DEF R
<1>4. CASE R # {}
  <2> DEFINE A == Append(W, R)
  <2>1. /\ A \in Seq(SUBSET Nodes) /\ Len(W) \in Nat /\ Len(A) = Len(W) + 1 /\ A[Len(W) + 1] = R
        /\ \A i \in 1..Len(W) : A[i] = W[i]
    BY <1>3 DEF Waving
  <2> HIDE DEF A
  <2>2. \A i \in 1..Len(A) : A[i] # {} /\ A[i] \subseteq Dag!Defined
    BY <1>2, <1>4, <2>1 DEF Waving
  <2>3. \A i \in 1..Len(W) : \A n \in R : n \notin W[i]
    BY <1>2, LeftIs
  <2>4. \A i, j \in 1..Len(A) : \A n \in A[i] : n \in A[j] => i = j
    BY <2>1, <2>3 DEF Waving
  <2>5. ASSUME NEW i \in 1..Len(A), NEW n \in A[i], NEW d \in Dag!Deps(n) \cap Dag!Defined
        PROVE  \E j \in 1..(i - 1) : d \in A[j]
    <3>1. CASE i \in 1..Len(W)
      <4>1. PICK j \in 1..(i - 1) : d \in W[j]
        BY <2>1, <2>5, <3>1 DEF Waving
      <4> QED BY <2>1, <3>1, <4>1
    <3>2. CASE i = Len(W) + 1
      <4>1. n \in R
        BY <2>1, <2>5, <3>2
      <4>2. PICK j \in 1..Len(W) : d \in W[j]
        BY <1>2, <4>1, LeftIs
      <4> QED BY <2>1, <3>2, <4>2
    <3> QED BY <2>1, <3>1, <3>2
  <2>6. Waving(A)
    BY <2>1, <2>2, <2>4, <2>5 DEF Waving
  <2> QED BY <1>1, <1>4, <2>1, <2>6 DEF A, R
<1> QED BY <1>1, <1>4 DEF R

\* As many waves as there are nodes: every node is in one.
LEMMA WavesAreFew ==
  ASSUME pipeline \in Pipelines, NEW W, Waving(W), Len(W) = Cardinality(Nodes)
  PROVE  Dag!Left(W) = {}
<1> DEFINE S == 1..Len(W)
           f == [i \in S |-> CHOOSE n : n \in W[i]]
<1>1. \A i \in S : f[i] \in W[i] /\ W[i] \subseteq Nodes
  BY PipelineIs DEF Waving
<1>2. f \in [S -> Nodes] /\ \A i, j \in S : f[i] = f[j] => i = j
  BY <1>1 DEF Waving
<1>3. f \in Injection(S, Nodes)
  BY <1>2 DEF Injection, IsInjective
<1>4. IsFiniteSet(Nodes) /\ Len(W) \in Nat
  BY PipelineIs DEF Waving
<1>5. Cardinality(S) = Len(W)
  <2>1. 1 \in Int /\ Len(W) \in Int
    BY <1>4
  <2>2. Cardinality(1..Len(W)) = IF 1 > Len(W) THEN 0 ELSE Len(W) - 1 + 1
    BY <2>1, FS_Interval
  <2> QED BY <1>4, <2>2
<1>6. f \in Surjection(S, Nodes)
  <2> HIDE DEF f, S
  <2> QED BY <1>3, <1>4, <1>5, FS_Injection
<1>7. ASSUME NEW n \in Dag!Defined PROVE n \notin Dag!Left(W)
  <2>1. PICK i \in S : f[i] = n
    BY <1>6, PipelineIs DEF Surjection
  <2> QED BY <1>1, <2>1, LeftIs
<1> QED BY <1>7 DEF Dag!Left

\* The waves that build_waves ends with: what is left of a circle, if anything.
LEMMA WavesAre ==
  ASSUME pipeline \in Pipelines
  PROVE  Waving(Dag!Waves) /\ Dag!Ready(Dag!Left(Dag!Waves)) = {}
<1> DEFINE N == Cardinality(Nodes)
           s == [i \in 1..N |-> i]
<1>1. N \in Nat /\ s \in Seq(Nat) /\ Len(s) = N
  BY PipelineIs, FS_CardinalityType
<1>2. Dag!Waves = Fold(Dag!Turn, <<>>, s)
  BY DagFold, DagCount DEF Dag!Waves
<1>3. \A i \in 1..N : s[i] = i
  OBVIOUS
<1> HIDE DEF s, N
<1>4. PICK f : IsFold(f, Dag!Turn, <<>>, s, N) /\ Fold(Dag!Turn, <<>>, s) = f[N]
  BY <1>1, FoldOfValues
<1>5. f[0] = <<>> /\ \A i \in 1..N : f[i] = Dag!Turn[i][f[i - 1]]
  BY <1>1, <1>3, <1>4, FoldValues
<1> DEFINE S == {k \in Nat : k <= N => Waving(f[k]) /\ (Dag!Ready(Dag!Left(f[k])) = {} \/ Len(f[k]) = k)}
<1>6. 0 \in S
  <2>1. Waving(<<>>) /\ Len(<<>>) = 0
    BY DEF Waving
  <2> QED BY <1>5, <2>1
<1>7. ASSUME NEW k \in Nat, k \in S PROVE k + 1 \in S
  <2> SUFFICES ASSUME k + 1 <= N
               PROVE  Waving(f[k + 1]) /\ (Dag!Ready(Dag!Left(f[k + 1])) = {} \/ Len(f[k + 1]) = k + 1)
    OBVIOUS
  <2>1. /\ f[k + 1] = Dag!Turn[k + 1][f[k]] /\ k + 1 \in Nat
        /\ Waving(f[k]) /\ (Dag!Ready(Dag!Left(f[k])) = {} \/ Len(f[k]) = k)
    <3>1. k + 1 \in 1..N /\ k + 1 - 1 = k /\ k <= N
      BY <1>1
    <3> QED BY <1>5, <1>7, <3>1
  <2> HIDE DEF S
  <2> QED BY <2>1, TurnWaves
<1> HIDE DEF S
<1>8. N \in S
  <2>1. \A k \in Nat : k \in S
    BY <1>6, <1>7, Induction
  <2> QED BY <1>1, <2>1
<1>9. Waving(f[N]) /\ (Dag!Ready(Dag!Left(f[N])) = {} \/ Len(f[N]) = N)
  BY <1>1, <1>8 DEF S
<1>10. CASE Len(f[N]) = N
  <2>1. Dag!Left(f[N]) = {}
    BY <1>9, <1>10, WavesAreFew DEF N
  <2>2. Dag!Ready({}) = {}
    BY DEF Dag!Ready
  <2> QED BY <1>2, <1>4, <1>9, <2>1, <2>2
<1> QED BY <1>2, <1>4, <1>9, <1>10

LEMMA CirclesAre ==
  ASSUME pipeline \in Pipelines
  PROVE  Dag!Circular <=> Dag!Circles # {}
<1> DEFINE W == Dag!Waves
           L == Dag!Left(W)
<1>1. Waving(W) /\ Dag!Ready(L) = {}
  BY WavesAre
<1>2. Dag!Circular <=> L # {}
  BY DEF Dag!Circular
<1>3. L \subseteq Dag!Defined
  BY DEF Dag!Left
<1> HIDE DEF W
<1>4. ASSUME L # {} PROVE L \in Dag!Circles
  <2>1. \A n \in L : Dag!Deps(n) \cap L # {}
    BY <1>1 DEF Dag!Ready
  <2> HIDE DEF L
  <2> QED BY <1>3, <1>4, <2>1 DEF Dag!Circles
<1>5. ASSUME L = {}, NEW C \in Dag!Circles PROVE FALSE
  <2>1. C \subseteq Dag!Defined /\ C # {} /\ \A n \in C : Dag!Deps(n) \cap C # {}
    BY <1>5 DEF Dag!Circles
  <2> DEFINE T == {i \in 1..Len(W) : W[i] \cap C # {}}
  <2>2. T \subseteq Nat /\ Len(W) \in Nat
    BY <1>1 DEF Waving
  <2>3. T # {}
    <3>1. PICK n \in C : n \in Dag!Defined
      BY <2>1
    <3>2. PICK i \in 1..Len(W) : n \in W[i]
      BY <1>1, <1>5, <3>1, LeftIs
    <3> QED BY <3>1, <3>2
  <2>4. PICK i \in T : \A j \in T : i <= j
    BY <2>2, <2>3, LeastMember
  <2>5. PICK n \in W[i] \cap C : TRUE
    BY <2>4
  <2>6. PICK d \in Dag!Deps(n) \cap C : d \in Dag!Defined
    BY <2>1, <2>5
  <2>7. PICK j \in 1..(i - 1) : d \in W[j]
    BY <1>1, <2>4, <2>5, <2>6 DEF Waving
  <2>8. j \in T
    BY <2>2, <2>4, <2>6, <2>7
  <2> QED BY <2>2, <2>4, <2>7, <2>8
<1> QED BY <1>2, <1>4, <1>5

-----------------------------------------------------------------------------
(* DagRun: the run *)

Events == [type : {"PipelineStarted"}] \cup [type : {"NodeStarted"}, node : Nodes]
          \cup [type : {"NodeCompleted"}, node : Nodes, status : {"completed", "failed"}]
          \cup [type : {"PipelineCompleted"}, status : {"completed", "failed"}]
Began == {"rendered", "completed", "failed"}

Reached(n) == \E i \in 1..wave : n \in Dag!Waves[i]

NodeInv(n) ==
  /\ thread[n] \in {"none", "started", "rendered", "completed", "failed", "exception"}
  /\ results[n] \in {"none", "completed", "failed", "skipped"}
  /\ results[n] = "skipped" => thread[n] = "none"
  /\ results[n] \in {"completed", "failed"} => thread[n] = results[n]
  /\ n \in failed <=> results[n] = "failed"
  /\ thread[n] # "none" \/ results[n] # "none" => Reached(n)
  /\ Reached(n) => (results[n] = "skipped" <=> Dag!Deps(n) \cap failed # {})
  /\ Reached(n) => thread[n] # "none" \/ results[n] = "skipped"
  /\ \A i \in 1..Len(Dag!Waves) :
        n \in Dag!Waves[i] /\ (i < wave \/ (i = wave /\ phase \in {"waves", "done"})) => results[n] # "none"

PhaseInv ==
  /\ phase \in {"load", "waves", "pool", "broken", "done", "raised"} /\ wave \in 0..Len(Dag!Waves)
  /\ phase = "load" => log = <<>> /\ wave = 0
  /\ phase \in {"waves", "pool", "broken", "done"} => log # <<>>
  /\ log # <<>> => ~Dag!UnknownDependency /\ ~Dag!Circular
  /\ phase = "raised" /\ log = <<>> => Dag!UnknownDependency \/ Dag!Circular
  /\ phase = "done" => /\ wave = Len(Dag!Waves)
                       /\ log[Len(log)].status = IF failed = {} THEN "completed" ELSE "failed"

LogInv ==
  /\ log \in Seq(Events)
  /\ \A i \in 1..Len(log) : log[i].type = "NodeStarted" => log[i].node \in Dag!Defined /\ thread[log[i].node] \in Began
  /\ \A i, j \in 1..Len(log) :
        log[i].type = "NodeStarted" /\ log[j].type = "NodeStarted" /\ log[i].node = log[j].node => i = j
  /\ \A i \in 1..Len(log) : log[i].type = "NodeCompleted" =>
        /\ log[i].node \in Dag!Defined /\ thread[log[i].node] = log[i].status /\ log[i].status \in {"completed", "failed"}
        /\ log[i].status = "completed" => Dag!Available(log[i].node)
  /\ \A n \in Dag!Defined : thread[n] \in {"completed", "failed"} =>
        \E i \in 1..Len(log) : log[i] = [type |-> "NodeCompleted", node |-> n, status |-> thread[n]]

DagInv ==
  /\ pipeline \in Pipelines /\ failed \subseteq Dag!Defined
  /\ thread = [n \in Dag!Defined |-> thread[n]] /\ results = [n \in Dag!Defined |-> results[n]]
  /\ PhaseInv /\ LogInv /\ \A n \in Dag!Defined : NodeInv(n)

LEMMA SamePipeline ==
  ASSUME pipeline' = pipeline
  PROVE  /\ Dag!Defined' = Dag!Defined /\ Dag!Waves' = Dag!Waves
         /\ (Dag!Circular' <=> Dag!Circular) /\ (Dag!UnknownDependency' <=> Dag!UnknownDependency)
         /\ \A n : Dag!Deps(n)' = Dag!Deps(n) /\ Dag!Refs(n)' = Dag!Refs(n)
<1>1. Dag!Turn' = Dag!Turn
  BY DEF Dag!Turn, Dag!Left, Dag!Ready, Dag!Deps, Dag!Defined
<1>2. Dag!Waves' = Dag!Waves
  BY <1>1 DEF Dag!Waves
<1> QED BY <1>2 DEF Dag!Defined, Dag!Circular, Dag!Left, Dag!UnknownDependency, Dag!Deps, Dag!Refs

LEMMA DagInit == Dag!Init => DagInv
<1> SUFFICES ASSUME Dag!Init PROVE DagInv
  OBVIOUS
<1>1. /\ pipeline \in Pipelines /\ phase = "load" /\ wave = 0 /\ failed = {} /\ log = <<>>
      /\ thread = [n \in Dag!Defined |-> "none"] /\ results = [n \in Dag!Defined |-> "none"]
  BY DEF Dag!Init
<1>2. Len(Dag!Waves) \in Nat
  BY <1>1, WavesAre DEF Waving
<1>3. PhaseInv
  BY <1>1, <1>2 DEF PhaseInv
<1>4. LogInv
  <2>1. log \in Seq(Events) /\ Len(log) = 0
    BY <1>1
  <2> QED BY <1>1, <2>1 DEF LogInv
<1>5. \A n \in Dag!Defined : NodeInv(n)
  BY <1>1, <1>2 DEF NodeInv, Reached
<1> QED BY <1>1, <1>3, <1>4, <1>5 DEF DagInv

\* What a node that was reached depends on has its result.
LEMMA DepsAreDone ==
  ASSUME DagInv, NEW n \in Dag!Defined, Reached(n), NEW d \in Dag!Deps(n) \cap Dag!Defined
  PROVE  results[d] # "none"
<1>1. Waving(Dag!Waves) /\ wave \in 0..Len(Dag!Waves) /\ Len(Dag!Waves) \in Nat
  BY WavesAre DEF DagInv, PhaseInv, Waving
<1>2. PICK i \in 1..wave : n \in Dag!Waves[i]
  BY DEF Reached
<1>3. i \in 1..Len(Dag!Waves)
  BY <1>1
<1>4. PICK j \in 1..(i - 1) : d \in Dag!Waves[j]
  BY <1>1, <1>2, <1>3 DEF Waving
<1>5. j \in 1..Len(Dag!Waves) /\ j < wave
  BY <1>1, <1>4
<1>6. NodeInv(d)
  BY DEF DagInv
<1> QED BY <1>4, <1>5, <1>6 DEF NodeInv

\* A step that does not touch a node.
LEMMA NodeQuiet ==
  ASSUME NEW n, NodeInv(n), pipeline' = pipeline, wave' = wave, failed' = failed,
         thread'[n] = thread[n], results'[n] = results[n],
         wave \in Nat, phase' \in {"waves", "done"} => phase \in {"waves", "done"} \/ wave = 0
  PROVE  NodeInv(n)'
<1>1. Dag!Waves' = Dag!Waves /\ Dag!Deps(n)' = Dag!Deps(n)
  BY SamePipeline
<1>2. Reached(n)' <=> Reached(n)
  BY <1>1 DEF Reached
<1> QED BY <1>1, <1>2 DEF NodeInv

\* A step that notes neither the beginning nor the end of a node.
LEMMA LogQuiet ==
  ASSUME LogInv, pipeline' = pipeline,
         \/ log' = log
         \/ \E e \in Events : e.type \notin {"NodeStarted", "NodeCompleted"} /\ log' = Append(log, e),
         \A n \in Dag!Defined : /\ thread[n] \in Began => thread'[n] = thread[n]
                                /\ thread'[n] \in {"completed", "failed"} => thread'[n] = thread[n]
                                /\ results[n] # "none" => results'[n] # "none"
  PROVE  LogInv'
<1>1. Dag!Defined' = Dag!Defined /\ \A n : Dag!Refs(n)' = Dag!Refs(n)
  BY SamePipeline
<1>2. \A n : Dag!Available(n) => Dag!Available(n)'
  BY <1>1 DEF Dag!Available
<1>3. /\ log' \in Seq(Events) /\ Len(log) \in Nat /\ 1..Len(log) \subseteq 1..Len(log')
      /\ \A i \in 1..Len(log) : log'[i] = log[i]
      /\ \A i \in 1..Len(log') : i \in 1..Len(log) \/ log'[i].type \notin {"NodeStarted", "NodeCompleted"}
  <2>1. CASE log' = log
    BY <2>1 DEF LogInv
  <2>2. ASSUME NEW e \in Events, e.type \notin {"NodeStarted", "NodeCompleted"}, log' = Append(log, e)
        PROVE  <1>3!:
    <3>1. /\ log' \in Seq(Events) /\ Len(log) \in Nat /\ Len(log') = Len(log) + 1 /\ log'[Len(log) + 1] = e
          /\ \A i \in 1..Len(log) : log'[i] = log[i]
      BY <2>2 DEF LogInv
    <3> QED BY <2>2, <3>1
  <2> QED BY <2>1, <2>2
<1>4. \A i \in 1..Len(log') : log'[i].type = "NodeStarted" => log'[i].node \in Dag!Defined /\ thread'[log'[i].node] \in Began
  BY <1>3 DEF LogInv
<1>5. \A i, j \in 1..Len(log') :
        log'[i].type = "NodeStarted" /\ log'[j].type = "NodeStarted" /\ log'[i].node = log'[j].node => i = j
  BY <1>3 DEF LogInv
<1>6. \A i \in 1..Len(log') : log'[i].type = "NodeCompleted" =>
        /\ log'[i].node \in Dag!Defined /\ thread'[log'[i].node] = log'[i].status /\ log'[i].status \in {"completed", "failed"}
        /\ log'[i].status = "completed" => Dag!Available(log[i].node)'
  <2>1. ASSUME NEW i \in 1..Len(log'), log'[i].type = "NodeCompleted"
        PROVE  /\ log'[i].node \in Dag!Defined /\ thread'[log'[i].node] = log'[i].status
               /\ log'[i].status \in {"completed", "failed"} /\ (log'[i].status = "completed" => Dag!Available(log[i].node)')
    <3>1. PICK n, u : n = log'[i].node /\ u = log'[i].status /\ i \in 1..Len(log) /\ log[i] = log'[i]
      BY <1>3, <2>1
    <3>2. n \in Dag!Defined /\ thread[n] = u /\ u \in {"completed", "failed"} /\ (u = "completed" => Dag!Available(n))
      BY <2>1, <3>1 DEF LogInv
    <3>3. thread'[n] = u
      BY <3>2 DEF Began
    <3>4. u = "completed" => Dag!Available(n)'
      BY <1>2, <3>2
    <3>5. u = "completed" => Dag!Available(log[i].node)'
      BY <3>1, <3>4 DEF Dag!Available
    <3> QED BY <3>1, <3>2, <3>3, <3>5
  <2> QED BY <2>1
<1>7. \A n \in Dag!Defined : thread'[n] \in {"completed", "failed"} =>
        \E i \in 1..Len(log') : log'[i] = [type |-> "NodeCompleted", node |-> n, status |-> thread'[n]]
  BY <1>3 DEF LogInv
<1> QED BY <1>1, <1>3, <1>4, <1>5, <1>6, <1>7 DEF LogInv

\* A worker notes the beginning of its node and, later, its end.
LEMMA LogGrows ==
  ASSUME LogInv, pipeline' = pipeline, results' = results, NEW n \in Dag!Defined, NEW e \in Events, e.node = n,
         NEW u, thread = [m \in Dag!Defined |-> thread[m]], thread' = [thread EXCEPT ![n] = u], log' = Append(log, e),
         \/ e.type = "NodeStarted" /\ thread[n] = "started" /\ u = "rendered"
         \/ /\ e = [type |-> "NodeCompleted", node |-> n, status |-> u] /\ thread[n] = "rendered"
            /\ u \in {"completed", "failed"} /\ (u = "completed" => Dag!Available(n))
  PROVE  LogInv'
<1>1. Dag!Defined' = Dag!Defined /\ \A m : Dag!Refs(m)' = Dag!Refs(m)
  BY SamePipeline
<1>2. \A m : Dag!Available(m) => Dag!Available(m)'
  BY <1>1 DEF Dag!Available
<1>3. /\ log' \in Seq(Events) /\ Len(log) \in Nat /\ Len(log') = Len(log) + 1 /\ log'[Len(log) + 1] = e
      /\ \A i \in 1..Len(log) : log'[i] = log[i]
  BY DEF LogInv
<1>4. thread'[n] = u /\ u \in Began /\ \A m \in Dag!Defined : m # n => thread'[m] = thread[m]
  BY DEF Began
<1>5. \A i \in 1..Len(log) : log[i].type = "NodeStarted" /\ log[i].node = n => e.type # "NodeStarted"
  BY DEF LogInv, Began
<1>6. \A i \in 1..Len(log) : log[i].type = "NodeCompleted" => log[i].node # n
  BY DEF LogInv
<1>7. ASSUME NEW i \in 1..Len(log'), log'[i].type = "NodeStarted"
      PROVE  log'[i].node \in Dag!Defined /\ thread'[log'[i].node] \in Began
  <2>1. CASE i \in 1..Len(log)
    BY <1>3, <1>4, <1>7, <2>1 DEF LogInv
  <2>2. CASE i = Len(log) + 1
    BY <1>3, <1>4, <2>2
  <2> QED BY <1>3, <2>1, <2>2
<1>8. ASSUME NEW i \in 1..Len(log'), NEW j \in 1..Len(log'),
             log'[i].type = "NodeStarted", log'[j].type = "NodeStarted", log'[i].node = log'[j].node
      PROVE  i = j
  <2>1. (i \in 1..Len(log) \/ i = Len(log) + 1) /\ (j \in 1..Len(log) \/ j = Len(log) + 1)
    BY <1>3
  <2>2. i \in 1..Len(log) /\ j \in 1..Len(log) => log[i] = log'[i] /\ log[j] = log'[j]
    BY <1>3
  <2> QED BY <1>3, <1>5, <1>8, <2>1, <2>2 DEF LogInv
<1>9. ASSUME NEW i \in 1..Len(log'), log'[i].type = "NodeCompleted"
      PROVE  /\ log'[i].node \in Dag!Defined /\ thread'[log'[i].node] = log'[i].status
             /\ log'[i].status \in {"completed", "failed"} /\ (log'[i].status = "completed" => Dag!Available(log[i].node)')
  <2>1. CASE i \in 1..Len(log)
    <3>1. PICK m, s : m = log'[i].node /\ s = log'[i].status /\ log[i] = log'[i] /\ m # n
      BY <1>3, <1>6, <1>9, <2>1
    <3>2. m \in Dag!Defined /\ thread[m] = s /\ s \in {"completed", "failed"} /\ (s = "completed" => Dag!Available(m))
      BY <1>9, <2>1, <3>1 DEF LogInv
    <3>3. thread'[m] = s
      BY <1>4, <3>1, <3>2
    <3>4. s = "completed" => Dag!Available(m)'
      BY <1>2, <3>2
    <3>5. s = "completed" => Dag!Available(log[i].node)'
      BY <3>1, <3>4 DEF Dag!Available
    <3> QED BY <3>1, <3>2, <3>3, <3>5
  <2>2. CASE i = Len(log) + 1
    <3>1. /\ log'[i] = e /\ e = [type |-> "NodeCompleted", node |-> n, status |-> u] /\ u \in {"completed", "failed"}
          /\ u = "completed" => Dag!Available(n)
      BY <1>3, <1>9, <2>2
    <3>2. u = "completed" => Dag!Available(n)'
      BY <1>2, <3>1
    <3>3. u = "completed" => Dag!Available(log[i].node)'
      BY <3>1, <3>2 DEF Dag!Available
    <3> QED BY <1>4, <3>1, <3>3
  <2> QED BY <1>3, <2>1, <2>2
<1>10. ASSUME NEW m \in Dag!Defined, thread'[m] \in {"completed", "failed"}
       PROVE  \E i \in 1..Len(log') : log'[i] = [type |-> "NodeCompleted", node |-> m, status |-> thread'[m]]
  <2>1. CASE m = n
    <3>1. log'[Len(log) + 1] = [type |-> "NodeCompleted", node |-> m, status |-> thread'[m]]
      BY <1>3, <1>4, <1>10, <2>1
    <3> QED BY <1>3, <3>1
  <2>2. CASE m # n
    <3>1. PICK i \in 1..Len(log) : log[i] = [type |-> "NodeCompleted", node |-> m, status |-> thread[m]]
      BY <1>4, <1>10, <2>2 DEF LogInv
    <3> QED BY <1>3, <1>4, <2>2, <3>1
  <2> QED BY <2>1, <2>2
<1>11. \A i, j \in 1..Len(log') :
          log'[i].type = "NodeStarted" /\ log'[j].type = "NodeStarted" /\ log'[i].node = log'[j].node => i = j
  BY <1>8
<1>12. \A i \in 1..Len(log') : log'[i].type = "NodeStarted" => log'[i].node \in Dag!Defined /\ thread'[log'[i].node] \in Began
  BY <1>7
<1>13. \A i \in 1..Len(log') : log'[i].type = "NodeCompleted" =>
          /\ log'[i].node \in Dag!Defined' /\ thread'[log'[i].node] = log'[i].status
          /\ log'[i].status \in {"completed", "failed"} /\ (log'[i].status = "completed" => Dag!Available(log[i].node)')
  BY <1>1, <1>9
<1>14. \A m \in Dag!Defined' : thread'[m] \in {"completed", "failed"} =>
          \E i \in 1..Len(log') : log'[i] = [type |-> "NodeCompleted", node |-> m, status |-> thread'[m]]
  BY <1>1, <1>10
<1>15. \A i \in 1..Len(log') : log'[i].type = "NodeStarted" => log'[i].node \in Dag!Defined' /\ thread'[log'[i].node] \in Began
  BY <1>1, <1>12
<1>16. log' \in Seq(Events)
  BY <1>3
<1> QED BY <1>11, <1>13, <1>14, <1>15, <1>16 DEF LogInv, Began, Events

LEMMA DagKept == DagInv /\ Dag!Next => DagInv'
<1> SUFFICES ASSUME DagInv, Dag!Next PROVE DagInv'
  OBVIOUS
<1> DEFINE W == Dag!Waves
<1>0. /\ Waving(W) /\ W \in Seq(SUBSET Nodes) /\ Len(W) \in Nat /\ wave \in 0..Len(W) /\ wave \in Nat
      /\ PhaseInv /\ LogInv /\ log \in Seq(Events) /\ failed \subseteq Dag!Defined /\ pipeline \in Pipelines
      /\ thread = [n \in Dag!Defined |-> thread[n]] /\ results = [n \in Dag!Defined |-> results[n]]
  BY WavesAre DEF DagInv, PhaseInv, LogInv, Waving
<1>00. \A n \in Dag!Defined : NodeInv(n)
  BY DEF DagInv
<1>000. pipeline' = pipeline
  BY DEF Dag!Next, Dag!Refuse, Dag!Start, Dag!NextWave, Dag!WaveOver, Dag!RaiseOut, Dag!Finish, Dag!Worker, Dag!BeginNode,
     Dag!RunNode, Dag!Collect
<1>s. /\ Dag!Defined' = Dag!Defined /\ Dag!Waves' = W
      /\ (Dag!Circular' <=> Dag!Circular) /\ (Dag!UnknownDependency' <=> Dag!UnknownDependency)
      /\ \A n : Dag!Deps(n)' = Dag!Deps(n)
  BY <1>000, SamePipeline
<1> HIDE DEF W
<1>1. CASE Dag!Refuse
  <2>1. /\ phase = "load" /\ (Dag!UnknownDependency \/ Dag!Circular) /\ phase' = "raised"
        /\ UNCHANGED <<wave, thread, results, failed, log>>
    BY <1>1 DEF Dag!Refuse
  <2>2. \A n \in Dag!Defined : NodeInv(n)'
    BY <1>0, <1>00, <1>000, <2>1, NodeQuiet
  <2>3. PhaseInv'
    BY <1>0, <1>s, <2>1 DEF PhaseInv, W
  <2>4. LogInv'
    BY <1>0, <1>000, <2>1, LogQuiet
  <2> QED BY <1>0, <1>000, <1>s, <2>1, <2>2, <2>3, <2>4 DEF DagInv
<1>2. CASE Dag!Start
  <2>1. /\ phase = "load" /\ ~Dag!UnknownDependency /\ ~Dag!Circular /\ phase' = "waves" /\ wave = 0
        /\ log' = Append(log, [type |-> "PipelineStarted"]) /\ UNCHANGED <<wave, thread, results, failed>>
    BY <1>0, <1>2 DEF Dag!Start, Dag!Publish, PhaseInv
  <2>2. \A n \in Dag!Defined : NodeInv(n)'
    BY <1>0, <1>00, <1>000, <2>1, NodeQuiet
  <2>3. [type |-> "PipelineStarted"] \in Events
    BY DEF Events
  <2>4. LogInv'
    BY <1>0, <1>000, <2>1, <2>3, LogQuiet
  <2>5. log' # <<>>
    BY <1>0, <2>1, <2>3
  <2>6. PhaseInv'
    BY <1>0, <1>s, <2>1, <2>5 DEF PhaseInv, W
  <2> QED BY <1>0, <1>000, <1>s, <2>1, <2>2, <2>4, <2>6 DEF DagInv
<1>3. CASE Dag!RaiseOut
  <2>1. /\ phase = "broken" /\ phase' = "raised" /\ UNCHANGED <<wave, thread, results, failed, log>>
    BY <1>3 DEF Dag!RaiseOut
  <2>2. \A n \in Dag!Defined : NodeInv(n)'
    BY <1>0, <1>00, <1>000, <2>1, NodeQuiet
  <2>3. PhaseInv'
    BY <1>0, <1>s, <2>1 DEF PhaseInv, W
  <2>4. LogInv'
    BY <1>0, <1>000, <2>1, LogQuiet
  <2> QED BY <1>0, <1>000, <1>s, <2>1, <2>2, <2>3, <2>4 DEF DagInv
<1>4. CASE Dag!Finish
  <2>1. PICK e \in Events : /\ log' = Append(log, e) /\ e.type = "PipelineCompleted"
                            /\ e.status = IF failed = {} THEN "completed" ELSE "failed"
    <3>1. PICK u \in {"completed", "failed"} : u = IF failed = {} THEN "completed" ELSE "failed"
      OBVIOUS
    <3>2. [type |-> "PipelineCompleted", status |-> u] \in Events
      BY DEF Events
    <3> QED BY <1>4, <3>1, <3>2 DEF Dag!Finish, Dag!Publish
  <2>2. /\ phase = "waves" /\ wave = Len(W) /\ phase' = "done" /\ UNCHANGED <<wave, thread, results, failed>>
    BY <1>4 DEF Dag!Finish, W
  <2>3. \A n \in Dag!Defined : NodeInv(n)'
    BY <1>0, <1>00, <1>000, <2>2, NodeQuiet
  <2>4. LogInv'
    BY <1>0, <1>000, <2>1, <2>2, LogQuiet
  <2>5. log' # <<>> /\ log'[Len(log')] = e
    BY <1>0, <2>1
  <2>6. PhaseInv'
    BY <1>0, <1>s, <2>1, <2>2, <2>5 DEF PhaseInv, W
  <2> QED BY <1>0, <1>000, <1>s, <2>2, <2>3, <2>4, <2>6 DEF DagInv
<1>5. CASE Dag!WaveOver
  <2>1. /\ phase = "pool" /\ phase' = "waves" /\ UNCHANGED <<wave, thread, results, failed, log>>
        /\ \A n \in Dag!Runnable : results[n] # "none"
    BY <1>5 DEF Dag!WaveOver
  <2>2. PhaseInv'
    BY <1>0, <1>s, <2>1 DEF PhaseInv, W
  <2>3. LogInv'
    BY <1>0, <1>000, <2>1, LogQuiet
  <2>4. ASSUME NEW n \in Dag!Defined PROVE NodeInv(n)'
    <3>1. NodeInv(n) /\ (Reached(n)' <=> Reached(n))
      BY <1>00, <1>s, <2>1 DEF Reached, W
    <3>2. ASSUME NEW i \in 1..Len(W), n \in W[i], i = wave PROVE results[n] # "none"
      <4>1. Reached(n) /\ n \in Dag!Waves[wave]
        BY <1>0, <3>2 DEF Reached, W
      <4>2. CASE Dag!Blocked(n)
        BY <3>1, <4>1, <4>2 DEF NodeInv, Dag!Blocked
      <4>3. CASE ~Dag!Blocked(n)
        BY <2>1, <4>1, <4>3 DEF Dag!Runnable
      <4> QED BY <4>2, <4>3
    <3> QED BY <1>s, <2>1, <3>1, <3>2 DEF NodeInv, W
  <2> QED BY <1>0, <1>000, <1>s, <2>1, <2>2, <2>3, <2>4 DEF DagInv
<1>6. CASE Dag!NextWave
  <2> DEFINE skipped == {n \in W[wave + 1] : Dag!Blocked(n)}
             ready == W[wave + 1] \ skipped
  <2>1. /\ phase = "waves" /\ wave < Len(W) /\ wave' = wave + 1 /\ UNCHANGED <<failed, log>>
        /\ results' = [n \in Dag!Defined |-> IF n \in skipped THEN "skipped" ELSE results[n]]
        /\ thread' = [n \in Dag!Defined |-> IF n \in ready THEN "started" ELSE thread[n]]
        /\ phase' = IF ready = {} THEN "waves" ELSE "pool"
    BY <1>6 DEF Dag!NextWave, W
  <2>2. wave + 1 \in 1..Len(W) /\ \A i \in 1..Len(W) : \A n \in W[i] : n \in W[wave + 1] => i = wave + 1
    BY <1>0, <2>1 DEF Waving
  <2>3. ASSUME NEW n \in W[wave + 1] PROVE n \in Dag!Defined /\ ~Reached(n)
    <3>1. n \in Dag!Defined
      BY <1>0, <2>2 DEF Waving
    <3>2. \A i \in 1..wave : i \in 1..Len(W) /\ i # wave + 1
      BY <1>0, <2>1
    <3>3. \A i \in 1..wave : n \notin W[i]
      BY <2>2, <3>2
    <3> QED BY <3>1, <3>3 DEF Reached, W
  <2>4. \A n \in W[wave + 1] : thread[n] = "none" /\ results[n] = "none"
    BY <1>00, <2>3 DEF NodeInv
  <2>5. \A n \in skipped : n \in W[wave + 1] /\ n \notin ready /\ Dag!Deps(n) \cap failed # {}
    BY DEF Dag!Blocked
  <2>6. \A n \in ready : n \in W[wave + 1] /\ n \notin skipped /\ Dag!Deps(n) \cap failed = {}
    BY DEF Dag!Blocked
  <2>7. \A n \in W[wave + 1] : n \in skipped \/ n \in ready
    OBVIOUS
  <2> HIDE DEF skipped, ready
  <2>8. ASSUME NEW n \in Dag!Defined PROVE NodeInv(n)'
    <3>1. NodeInv(n)
      BY <1>00
    <3>2. Reached(n)' <=> Reached(n) \/ n \in W[wave + 1]
      BY <1>0, <1>s, <2>1, <2>2 DEF Reached, W
    <3>3. results'[n] = (IF n \in skipped THEN "skipped" ELSE results[n]) /\ thread'[n] = (IF n \in ready THEN "started" ELSE thread[n])
      BY <2>1
    <3>4. \A i \in 1..Len(W) :
             n \in W[i] /\ (i < wave + 1 \/ (i = wave + 1 /\ phase' \in {"waves", "done"})) => results'[n] # "none"
      <4>1. ASSUME NEW i \in 1..Len(W), n \in W[i], i < wave + 1 PROVE results'[n] # "none"
        <5>1. i < wave \/ (i = wave /\ phase \in {"waves", "done"})
          BY <1>0, <2>1, <4>1
        <5>2. results[n] # "none"
          BY <3>1, <4>1, <5>1 DEF NodeInv, W
        <5> QED BY <3>3, <5>2
      <4>2. ASSUME n \in W[wave + 1], phase' \in {"waves", "done"} PROVE results'[n] # "none"
        <5>1. n \in skipped
          BY <2>1, <2>7, <4>2
        <5> QED BY <3>3, <5>1
      <4> QED BY <4>1, <4>2
    <3>5. CASE n \in skipped
      BY <1>s, <2>1, <2>4, <2>5, <3>1, <3>2, <3>3, <3>4, <3>5 DEF NodeInv, W
    <3>6. CASE n \in ready
      BY <1>s, <2>1, <2>4, <2>6, <3>1, <3>2, <3>3, <3>4, <3>6 DEF NodeInv, W
    <3>7. CASE n \notin W[wave + 1]
      BY <1>s, <2>1, <2>5, <2>6, <3>1, <3>2, <3>3, <3>4, <3>7 DEF NodeInv, W
    <3> QED BY <2>7, <3>5, <3>6, <3>7
  <2>9. LogInv'
    <3>1. \A n \in Dag!Defined : /\ thread[n] \in Began => thread'[n] = thread[n]
                                 /\ thread'[n] \in {"completed", "failed"} => thread'[n] = thread[n]
                                 /\ results[n] # "none" => results'[n] # "none"
      BY <2>1, <2>4, <2>6 DEF Began
    <3> QED BY <1>0, <1>000, <2>1, <3>1, LogQuiet
  <2>10. PhaseInv'
    BY <1>0, <1>s, <2>1 DEF PhaseInv, W
  <2> QED BY <1>0, <1>000, <1>s, <2>1, <2>8, <2>9, <2>10 DEF DagInv
<1>7. ASSUME NEW n \in Dag!Defined, n \in Nodes, Dag!BeginNode(n) PROVE DagInv'
  <2>1. /\ phase \in {"pool", "broken"} /\ thread[n] = "started" /\ UNCHANGED <<phase, wave, results, failed>>
    BY <1>7 DEF Dag!BeginNode
  <2>2. PICK u \in {"exception", "rendered"} :
          /\ thread' = [thread EXCEPT ![n] = u]
          /\ \/ u = "exception" /\ log' = log
             \/ u = "rendered" /\ log' = Append(log, [type |-> "NodeStarted", node |-> n])
    BY <1>7 DEF Dag!BeginNode, Dag!Publish
  <2>3. thread'[n] = u /\ \A m \in Dag!Defined : m # n => thread'[m] = thread[m]
    BY <1>0, <2>2
  <2>4. LogInv'
    <3>1. CASE u = "exception"
      <4>1. \A m \in Dag!Defined : /\ thread[m] \in Began => thread'[m] = thread[m]
                                   /\ thread'[m] \in {"completed", "failed"} => thread'[m] = thread[m]
                                   /\ results[m] # "none" => results'[m] # "none"
        BY <2>1, <2>3, <3>1 DEF Began
      <4> QED BY <1>0, <1>000, <2>2, <3>1, <4>1, LogQuiet
    <3>2. CASE u = "rendered"
      <4>1. PICK e \in Events : e = [type |-> "NodeStarted", node |-> n]
        BY <1>7 DEF Events
      <4>2. e.node = n /\ e.type = "NodeStarted" /\ log' = Append(log, e)
        BY <2>2, <3>2, <4>1
      <4> QED BY <1>0, <1>000, <2>1, <2>2, <3>2, <4>2, LogGrows
    <3> QED BY <3>1, <3>2
  <2>5. \A m \in Dag!Defined : NodeInv(m)'
    <3>1. ASSUME NEW m \in Dag!Defined, m # n PROVE NodeInv(m)'
      BY <1>0, <1>00, <1>000, <2>1, <2>3, <3>1, NodeQuiet
    <3>2. NodeInv(n)'
      <4>1. NodeInv(n) /\ (Reached(n)' <=> Reached(n))
        BY <1>00, <1>s, <2>1 DEF Reached, W
      <4> QED BY <1>s, <2>1, <2>3, <4>1 DEF NodeInv, W
    <3> QED BY <3>1, <3>2
  <2>6. PhaseInv'
    <3>1. log' # <<>>
      BY <1>0, <2>1, <2>2 DEF PhaseInv
    <3> QED BY <1>0, <1>s, <2>1, <3>1 DEF PhaseInv, W
  <2>7. thread' = [m \in Dag!Defined |-> thread'[m]]
    BY <1>0, <2>2
  <2> QED BY <1>0, <1>000, <1>s, <2>1, <2>4, <2>5, <2>6, <2>7 DEF DagInv
<1>8. ASSUME NEW n \in Dag!Defined, n \in Nodes, Dag!RunNode(n) PROVE DagInv'
  <2>1. /\ phase \in {"pool", "broken"} /\ thread[n] = "rendered" /\ UNCHANGED <<phase, wave, results, failed>>
    BY <1>8 DEF Dag!RunNode
  <2>2. PICK u \in {"completed", "failed"} :
          /\ u = "completed" => Dag!Available(n)
          /\ thread' = [thread EXCEPT ![n] = u]
          /\ log' = Append(log, [type |-> "NodeCompleted", node |-> n, status |-> u])
    BY <1>8 DEF Dag!RunNode, Dag!Publish
  <2>3. thread'[n] = u /\ \A m \in Dag!Defined : m # n => thread'[m] = thread[m]
    BY <1>0, <2>2
  <2>4. PICK e \in Events : e = [type |-> "NodeCompleted", node |-> n, status |-> u]
    BY <1>8 DEF Events
  <2>5. LogInv'
    <3>1. e.node = n /\ log' = Append(log, e)
      BY <2>2, <2>4
    <3> QED BY <1>0, <1>000, <2>1, <2>2, <2>4, <3>1, LogGrows
  <2>6. \A m \in Dag!Defined : NodeInv(m)'
    <3>1. ASSUME NEW m \in Dag!Defined, m # n PROVE NodeInv(m)'
      BY <1>0, <1>00, <1>000, <2>1, <2>3, <3>1, NodeQuiet
    <3>2. NodeInv(n)'
      <4>1. NodeInv(n) /\ (Reached(n)' <=> Reached(n))
        BY <1>00, <1>s, <2>1 DEF Reached, W
      <4> QED BY <1>s, <2>1, <2>3, <4>1 DEF NodeInv, W
    <3> QED BY <3>1, <3>2
  <2>7. PhaseInv'
    <3>1. log' # <<>>
      BY <1>0, <2>2, <2>4
    <3> QED BY <1>0, <1>s, <2>1, <3>1 DEF PhaseInv, W
  <2>8. thread' = [m \in Dag!Defined |-> thread'[m]]
    BY <1>0, <2>2
  <2> QED BY <1>0, <1>000, <1>s, <2>1, <2>5, <2>6, <2>7, <2>8 DEF DagInv
<1>9. ASSUME NEW n \in Dag!Defined, Dag!Collect(n) PROVE DagInv'
  <2>1. /\ phase = "pool" /\ results[n] = "none" /\ thread[n] \in {"completed", "failed", "exception"}
        /\ UNCHANGED <<wave, thread, log>>
    BY <1>9 DEF Dag!Collect
  <2>2. CASE thread[n] = "exception"
    <3>1. phase' = "broken" /\ UNCHANGED <<results, failed>>
      BY <1>9, <2>2 DEF Dag!Collect
    <3>2. \A m \in Dag!Defined : NodeInv(m)'
      BY <1>0, <1>00, <1>000, <2>1, <3>1, NodeQuiet
    <3>3. PhaseInv'
      BY <1>0, <1>s, <2>1, <3>1 DEF PhaseInv, W
    <3>4. LogInv'
      BY <1>0, <1>000, <2>1, <3>1, LogQuiet
    <3> QED BY <1>0, <1>000, <1>s, <2>1, <3>1, <3>2, <3>3, <3>4 DEF DagInv
  <2>3. CASE thread[n] # "exception"
    <3>1. /\ results' = [results EXCEPT ![n] = thread[n]] /\ phase' = phase
          /\ failed' = IF thread[n] = "failed" THEN failed \cup {n} ELSE failed
      BY <1>9, <2>3 DEF Dag!Collect
    <3>2. /\ results'[n] = thread[n] /\ \A m \in Dag!Defined : m # n => results'[m] = results[m]
          /\ results' = [m \in Dag!Defined |-> results'[m]]
      BY <1>0, <3>1
    <3>3. LogInv'
      <4>1. \A m \in Dag!Defined : /\ thread[m] \in Began => thread'[m] = thread[m]
                                   /\ thread'[m] \in {"completed", "failed"} => thread'[m] = thread[m]
                                   /\ results[m] # "none" => results'[m] # "none"
        BY <2>1, <3>2
      <4> QED BY <1>0, <1>000, <2>1, <4>1, LogQuiet
    <3>4. PhaseInv'
      BY <1>0, <1>s, <2>1, <3>1 DEF PhaseInv, W
    <3>5. ASSUME NEW m \in Dag!Defined PROVE NodeInv(m)'
      <4>1. NodeInv(m) /\ (Reached(m)' <=> Reached(m))
        BY <1>00, <1>s, <2>1 DEF Reached, W
      <4>2. Reached(m) => n \notin Dag!Deps(m)
        BY <2>1, DepsAreDone
      <4>3. Reached(m) => (Dag!Deps(m) \cap failed' # {} <=> Dag!Deps(m) \cap failed # {})
        BY <3>1, <4>2
      <4>4. m \in failed' <=> results'[m] = "failed"
        BY <2>1, <2>3, <3>1, <3>2, <4>1 DEF NodeInv
      <4>5. CASE m = n
        <5>1. results'[m] \in {"completed", "failed"} /\ results'[m] = thread[m] /\ results[m] = "none"
          BY <2>1, <2>3, <3>2, <4>5
        <5>2. Reached(m) => (results'[m] = "skipped" <=> Dag!Deps(m) \cap failed' # {})
          BY <4>1, <4>3, <5>1 DEF NodeInv
        <5> QED BY <1>s, <2>1, <3>1, <4>1, <4>4, <5>1, <5>2 DEF NodeInv, W
      <4>6. CASE m # n
        <5>1. results'[m] = results[m]
          BY <3>2, <4>6
        <5> QED BY <1>s, <2>1, <3>1, <4>1, <4>3, <4>4, <5>1 DEF NodeInv, W
      <4> QED BY <4>5, <4>6
    <3>6. failed' \subseteq Dag!Defined
      BY <1>0, <3>1
    <3> QED BY <1>0, <1>000, <1>s, <2>1, <3>2, <3>3, <3>4, <3>5, <3>6 DEF DagInv
  <2> QED BY <2>2, <2>3
<1> QED BY <1>1, <1>2, <1>3, <1>4, <1>5, <1>6, <1>7, <1>8, <1>9 DEF Dag!Next, Dag!Worker

LEMMA DagSays == DagInv => Dag!TypeOK /\ Dag!StartsAfterDependencies /\ Dag!ReportIsComplete
<1> SUFFICES ASSUME DagInv PROVE Dag!TypeOK /\ Dag!StartsAfterDependencies /\ Dag!ReportIsComplete
  OBVIOUS
<1>0. /\ Waving(Dag!Waves) /\ Len(Dag!Waves) \in Nat /\ wave \in 0..Len(Dag!Waves) /\ pipeline \in Pipelines
      /\ PhaseInv /\ LogInv /\ \A n \in Dag!Defined : NodeInv(n)
      /\ DOMAIN log = 1..Len(log) /\ DOMAIN thread = Dag!Defined /\ DOMAIN results = Dag!Defined
  BY WavesAre DEF DagInv, PhaseInv, LogInv, Waving
<1>1. Dag!TypeOK
  BY <1>0 DEF Dag!TypeOK, DagInv, PhaseInv, NodeInv
<1>2. \A i \in Dag!Logged("NodeStarted") :
          /\ i \in 1..Len(log) /\ log[i].type = "NodeStarted" /\ log[i].node \in Dag!Defined
          /\ thread[log[i].node] \in Began
  BY <1>0 DEF Dag!Logged, LogInv
<1>3. log # <<>> => ~Dag!UnknownDependency /\ Dag!Circles = {}
  BY <1>0, CirclesAre DEF PhaseInv
<1>4. phase = "raised" /\ log = <<>> => Dag!UnknownDependency \/ Dag!Circles # {}
  BY <1>0, CirclesAre DEF PhaseInv
<1>5. ASSUME NEW i \in Dag!Logged("NodeStarted")
      PROVE  /\ \A d \in Dag!Deps(log[i].node) : results[d] \in {"completed", "skipped"}
             /\ \A j \in Dag!Logged("NodeStarted") : log[j].node = log[i].node => i = j
  <2>1. PICK n \in Dag!Defined : n = log[i].node /\ thread[n] \in Began
    BY <1>2
  <2>2. NodeInv(n) /\ Reached(n) /\ Dag!Deps(n) \cap failed = {}
    BY <1>0, <2>1 DEF NodeInv, Began
  <2>3. log # <<>>
    BY <1>2
  <2>4. ASSUME NEW d \in Dag!Deps(n) PROVE results[d] \in {"completed", "skipped"}
    <3>1. d \in Dag!Defined
      BY <1>3, <2>3 DEF Dag!UnknownDependency
    <3>2. results[d] # "none" /\ d \notin failed /\ NodeInv(d)
      BY <1>0, <2>2, <3>1, DepsAreDone
    <3> QED BY <3>2 DEF NodeInv
  <2>5. \A j \in Dag!Logged("NodeStarted") : log[j].node = log[i].node => i = j
    BY <1>0, <1>2 DEF LogInv
  <2> QED BY <2>1, <2>4, <2>5
<1>6. \A i \in Dag!Logged("NodeCompleted") :
          log[i].status = "completed" => \A ref \in Dag!Refs(log[i].node) : ref \in Dag!Defined /\ results[ref] # "none"
  BY <1>0 DEF Dag!Logged, LogInv, Dag!Available
<1>7. Dag!StartsAfterDependencies
  BY <1>3, <1>4, <1>5, <1>6 DEF Dag!StartsAfterDependencies
<1>8. ASSUME phase = "done"
      PROVE  /\ \A n \in Dag!Defined :
                  /\ results[n] # "none"
                  /\ results[n] = "skipped" <=> \E d \in Dag!Deps(n) : results[d] = "failed"
                  /\ results[n] # "skipped" <=> [type |-> "NodeCompleted", node |-> n, status |-> results[n]]
                                                  \in {log[i] : i \in Dag!Logged("NodeCompleted")}
             /\ log[Len(log)].status = "failed" <=> \E n \in Dag!Defined : results[n] = "failed"
  <2>1. wave = Len(Dag!Waves) /\ ~Dag!UnknownDependency /\ Dag!Left(Dag!Waves) = {}
        /\ log[Len(log)].status = IF failed = {} THEN "completed" ELSE "failed"
    BY <1>0, <1>8 DEF PhaseInv, Dag!Circular
  <2>2. ASSUME NEW n \in Dag!Defined
        PROVE  /\ results[n] # "none"
               /\ results[n] = "skipped" <=> \E d \in Dag!Deps(n) : results[d] = "failed"
               /\ results[n] # "skipped" <=> [type |-> "NodeCompleted", node |-> n, status |-> results[n]]
                                               \in {log[i] : i \in Dag!Logged("NodeCompleted")}
    <3>1. PICK i \in 1..Len(Dag!Waves) : n \in Dag!Waves[i]
      BY <1>0, <2>1, LeftIs
    <3>2. Reached(n) /\ NodeInv(n) /\ results[n] # "none"
      <4>1. Reached(n) /\ NodeInv(n)
        BY <1>0, <2>1, <3>1 DEF Reached
      <4>2. i < wave \/ i = wave
        BY <1>0, <2>1, <3>1
      <4> QED BY <1>8, <3>1, <4>1, <4>2 DEF NodeInv
    <3>3. \A d \in Dag!Deps(n) : d \in failed <=> results[d] = "failed"
      BY <1>0, <2>1 DEF Dag!UnknownDependency, NodeInv
    <3>4. results[n] = "skipped" <=> \E d \in Dag!Deps(n) : results[d] = "failed"
      BY <3>2, <3>3 DEF NodeInv
    <3>5. ASSUME results[n] # "skipped"
          PROVE  [type |-> "NodeCompleted", node |-> n, status |-> results[n]] \in {log[j] : j \in Dag!Logged("NodeCompleted")}
      <4>1. thread[n] = results[n] /\ thread[n] \in {"completed", "failed"}
        BY <3>2, <3>5 DEF NodeInv
      <4>2. PICK j \in 1..Len(log) : log[j] = [type |-> "NodeCompleted", node |-> n, status |-> thread[n]]
        BY <1>0, <4>1 DEF LogInv
      <4>3. j \in Dag!Logged("NodeCompleted")
        BY <1>0, <4>2 DEF Dag!Logged
      <4> QED BY <4>1, <4>2, <4>3
    <3>6. ASSUME NEW j \in Dag!Logged("NodeCompleted"),
                 log[j] = [type |-> "NodeCompleted", node |-> n, status |-> results[n]]
          PROVE  results[n] # "skipped"
      <4>1. log[j].status \in {"completed", "failed"} /\ log[j].status = results[n]
        BY <1>0, <3>6 DEF Dag!Logged, LogInv
      <4> QED BY <4>1
    <3> QED BY <3>2, <3>4, <3>5, <3>6
  <2>3. log[Len(log)].status = "failed" <=> \E n \in Dag!Defined : results[n] = "failed"
    BY <1>0, <2>1 DEF NodeInv, DagInv
  <2> QED BY <2>2, <2>3
<1>9. Dag!ReportIsComplete
  BY <1>8 DEF Dag!ReportIsComplete
<1> QED BY <1>1, <1>7, <1>9

-----------------------------------------------------------------------------
(* WorkflowRun *)

Reports == [state : UNION {DOMAIN w.states : w \in Workflows}, status : {"success", "failed"}]

\* The outputs o are those of a walk along w.
Before(o, i) == {o[j].state : j \in 1..(i - 1)}
Walked(w, o, r, v) ==
  \A i \in 1..Len(o) :
      /\ o[i].state \in DOMAIN w.states /\ w.states[o[i].state].refs \subseteq Before(o, i)
      /\ i > 1 => w.states[o[i - 1].state].next = o[i].state
      /\ v # "raised" => o[i].state \in r

\* One run: its workflow, phase, current state, turns, outputs, verdict and records.
RunIs(w, p, k, n, o, v, r) ==
  /\ w \in Workflows /\ n \in 0..MaxStates /\ o \in Seq(Reports) /\ r \subseteq DOMAIN w.states
  /\ p \in {"load", "spawn", "walk", "skill", "over"}
  /\ v \in {"none", "success", "failed", "completed", "raised"}
  /\ p # "over" => v = "none"
  /\ p \in {"load", "spawn"} => o = <<>>
  /\ Len(o) <= n
  /\ p = "skill" => k \in DOMAIN w.states /\ w.states[k].refs \subseteq Before(o, Len(o) + 1) /\ Len(o) < n
  /\ Walked(w, o, r, v)
  /\ p \in {"walk", "skill"} /\ o # <<>> => w.states[o[Len(o)].state].next = k
  /\ v \in {"success", "failed"} =>
        o # <<>> /\ o[Len(o)].status = v /\ w.states[o[Len(o)].state].next = "none"

RunOf(c) == RunIs(workflow[c], phase[c], current[c], turns[c], outputs[c], verdict[c], records[c])

OverCallers(f) == f = [c \in Callers |-> f[c]]
FlowInv ==
  /\ OverCallers(workflow) /\ OverCallers(phase) /\ OverCallers(current) /\ OverCallers(turns)
  /\ OverCallers(outputs) /\ OverCallers(verdict) /\ OverCallers(records)
  /\ \A c \in Callers : RunOf(c)

LEMMA FlowInit == Flow!Init => FlowInv
<1> SUFFICES ASSUME Flow!Init PROVE FlowInv
  OBVIOUS
<1>1. /\ OverCallers(workflow) /\ OverCallers(phase) /\ OverCallers(current) /\ OverCallers(turns)
      /\ OverCallers(outputs) /\ OverCallers(verdict) /\ OverCallers(records)
  BY DEF Flow!Init, OverCallers
<1>2. ASSUME NEW c \in Callers PROVE RunOf(c)
  <2>1. /\ workflow[c] \in Workflows /\ phase[c] = "load" /\ turns[c] = 0
        /\ outputs[c] = <<>> /\ verdict[c] = "none" /\ records[c] = {}
    BY DEF Flow!Init
  <2>2. <<>> \in Seq(Reports) /\ Len(<<>>) = 0 /\ MaxStates \in Nat
    BY WorkflowsAssumption DEF Flow!LimitAssumption
  <2>3. Walked(workflow[c], <<>>, {}, "none")
    BY <2>2 DEF Walked
  <2>4. RunIs(workflow[c], "load", current[c], 0, <<>>, "none", {})
    BY <2>1, <2>2, <2>3 DEF RunIs
  <2> QED BY <2>1, <2>4 DEF RunOf
<1> QED BY <1>1, <1>2 DEF FlowInv

\* A step of c leaves the runs of the others as they are.
Stepped(c, w, p, k, n, o, v, r) ==
  /\ w = workflow[c] /\ workflow' = workflow
  /\ phase' = [phase EXCEPT ![c] = p] /\ current' = [current EXCEPT ![c] = k]
  /\ turns' = [turns EXCEPT ![c] = n] /\ outputs' = [outputs EXCEPT ![c] = o] /\ verdict' = [verdict EXCEPT ![c] = v]
  /\ records' = [records EXCEPT ![c] = r]

LEMMA FlowStep ==
  ASSUME FlowInv, NEW c \in Callers, NEW w, NEW p, NEW k, NEW n, NEW o, NEW v, NEW r,
         Stepped(c, w, p, k, n, o, v, r), RunIs(w, p, k, n, o, v, r)
  PROVE  FlowInv'
<1>1. /\ OverCallers(workflow)' /\ OverCallers(phase)' /\ OverCallers(current)' /\ OverCallers(turns)'
      /\ OverCallers(outputs)' /\ OverCallers(verdict)' /\ OverCallers(records)'
  BY DEF FlowInv, OverCallers, Stepped
<1>2. ASSUME NEW d \in Callers PROVE RunOf(d)'
  <2>1. CASE d = c
    <3>1. /\ phase'[d] = p /\ current'[d] = k /\ turns'[d] = n /\ outputs'[d] = o
          /\ verdict'[d] = v /\ records'[d] = r /\ workflow'[d] = w
      BY <2>1 DEF FlowInv, OverCallers, Stepped
    <3> QED BY <2>1, <3>1 DEF RunOf
  <2>2. CASE d # c
    <3>1. /\ phase'[d] = phase[d] /\ current'[d] = current[d] /\ turns'[d] = turns[d] /\ outputs'[d] = outputs[d]
          /\ verdict'[d] = verdict[d] /\ records'[d] = records[d] /\ workflow'[d] = workflow[d]
      BY <2>2 DEF FlowInv, OverCallers, Stepped
    <3>2. RunOf(d)
      BY DEF FlowInv
    <3> QED BY <3>1, <3>2 DEF RunOf
  <2> QED BY <2>1, <2>2
<1> QED BY <1>1, <1>2 DEF FlowInv

\* A skill that returns adds its output to the walk.
LEMMA ReportIs ==
  ASSUME NEW w, NEW k, NEW n, NEW o, NEW v, NEW r, RunIs(w, "skill", k, n, o, v, r), NEW status \in {"success", "failed"}
  PROVE  [state |-> k, status |-> status] \in Reports
<1>1. w \in Workflows /\ k \in DOMAIN w.states
  BY DEF RunIs
<1> QED BY <1>1 DEF Reports

Goes(w, k, r, v, status, p, l, u, y) ==
  \/ p = "over" /\ u = status /\ y = r \cup {k} /\ w.states[k].next = "none"
  \/ p = "walk" /\ u = v /\ y = r \cup {k} /\ l = w.states[k].next
  \/ p = "over" /\ u = "raised" /\ y = r
LEMMA RunGoesOn ==
  ASSUME NEW w, NEW k, NEW n, NEW o, NEW v, NEW r, RunIs(w, "skill", k, n, o, v, r),
         NEW status \in {"success", "failed"}, NEW p, NEW l, NEW u, NEW y,
         Goes(w, k, r, v, status, p, l, u, y)
  PROVE  RunIs(w, p, l, n, Append(o, [state |-> k, status |-> status]), u, y)
<1>1. PICK e \in Reports : e = [state |-> k, status |-> status]
  BY ReportIs
<1> DEFINE q == Append(o, e)
<1>2. /\ w \in Workflows /\ n \in 0..MaxStates /\ o \in Seq(Reports) /\ r \subseteq DOMAIN w.states /\ k \in DOMAIN w.states
      /\ v = "none" /\ Len(o) < n
      /\ w.states[k].refs \subseteq Before(o, Len(o) + 1) /\ Walked(w, o, r, v)
      /\ o # <<>> => w.states[o[Len(o)].state].next = k
  BY DEF RunIs
<1>3. /\ q \in Seq(Reports) /\ Len(o) \in Nat /\ Len(q) = Len(o) + 1 /\ q[Len(o) + 1] = e /\ q # <<>>
      /\ \A i \in 1..Len(o) : q[i] = o[i]
  BY <1>1, <1>2
<1>4. e.state = k /\ e.status = status
  BY <1>1
<1> HIDE DEF q
<1> USE DEF Goes
<1>5. Walked(w, q, y, u)
  <2>1. ASSUME NEW i \in 1..Len(q)
        PROVE  /\ q[i].state \in DOMAIN w.states /\ w.states[q[i].state].refs \subseteq Before(q, i)
               /\ i > 1 => w.states[q[i - 1].state].next = q[i].state
               /\ u # "raised" => q[i].state \in y
    <3>1. Before(q, i) = Before(o, i)
      BY <1>3, <1>4, <2>1 DEF Before
    <3>2. CASE i \in 1..Len(o)
      <4>1. q[i] = o[i] /\ (i > 1 => q[i - 1] = o[i - 1])
        BY <1>3, <1>4, <3>2
      <4>2. /\ o[i].state \in DOMAIN w.states /\ w.states[o[i].state].refs \subseteq Before(o, i)
            /\ i > 1 => w.states[o[i - 1].state].next = o[i].state
            /\ o[i].state \in r
        BY <1>2, <3>2 DEF Walked
      <4> QED BY <3>1, <4>1, <4>2
    <3>3. CASE i = Len(o) + 1
      <4>1. q[i] = e /\ (i > 1 => q[i - 1] = o[Len(o)] /\ o # <<>>)
        BY <1>2, <1>3, <1>4, <3>3
      <4> QED BY <1>2, <1>4, <3>1, <3>3, <4>1
    <3> QED BY <1>3, <1>4, <2>1, <3>2, <3>3
  <2> QED BY <2>1 DEF Walked
<1>6. y \subseteq DOMAIN w.states /\ u \in {"none", "success", "failed", "raised"} /\ p \in {"walk", "over"}
      /\ (p = "walk" => u = "none")
  BY <1>2
<1>7. RunIs(w, p, l, n, q, u, y)
  BY <1>2, <1>3, <1>4, <1>5, <1>6 DEF RunIs
<1> QED BY <1>1, <1>7 DEF q

LEMMA FlowKept == FlowInv /\ Flow!Next => FlowInv'
<1> SUFFICES ASSUME FlowInv, NEW c \in Callers, Flow!Walk(c) PROVE FlowInv'
  BY DEF Flow!Next
<1> DEFINE w == workflow[c]
           k == current[c]
           n == turns[c]
           o == outputs[c]
           v == verdict[c]
           r == records[c]
<1>0. /\ RunIs(w, phase[c], k, n, o, v, r)
      /\ OverCallers(workflow) /\ OverCallers(phase) /\ OverCallers(current) /\ OverCallers(turns)
      /\ OverCallers(outputs) /\ OverCallers(verdict) /\ OverCallers(records)
  BY DEF FlowInv, RunOf
<1>1. CASE Flow!Load(c) \/ Flow!Spawn(c)
  <2>1. PICK p, u : /\ phase' = [phase EXCEPT ![c] = p] /\ verdict' = [verdict EXCEPT ![c] = u]
                    /\ (p = "over" /\ u = "raised") \/ (p \in {"walk", "spawn"} /\ u = v)
    <3>1. CASE Flow!Ends(c, "raised")
      BY <3>1 DEF Flow!Ends, Flow!Go
    <3>2. CASE ~Flow!Ends(c, "raised")
      <4>1. UNCHANGED verdict /\ \E p \in {"walk", "spawn"} : Flow!Go(c, p)
        BY <1>1, <3>2 DEF Flow!Load, Flow!Spawn
      <4>2. verdict' = [verdict EXCEPT ![c] = v]
        BY <1>0, <4>1 DEF OverCallers
      <4> QED BY <4>1, <4>2 DEF Flow!Go
    <3> QED BY <3>1, <3>2
  <2>2. phase[c] \in {"load", "spawn"} /\ UNCHANGED <<workflow, current, turns, outputs, records>>
    BY <1>1 DEF Flow!Load, Flow!Spawn
  <2>3. /\ current' = [current EXCEPT ![c] = k] /\ turns' = [turns EXCEPT ![c] = n] /\ outputs' = [outputs EXCEPT ![c] = o]
        /\ records' = [records EXCEPT ![c] = r]
    BY <1>0, <2>2 DEF OverCallers
  <2>4. Stepped(c, w, p, k, n, o, u, r)
    BY <2>1, <2>2, <2>3 DEF Stepped
  <2> HIDE DEF w, k, n, o, v, r
  <2>5. Walked(w, o, r, u)
    BY <1>0, <2>1, <2>2 DEF RunIs, Walked
  <2>6. RunIs(w, p, k, n, o, u, r)
    BY <1>0, <2>1, <2>2, <2>5 DEF RunIs
  <2> QED BY <2>4, <2>6, FlowStep
<1>2. CASE Flow!Visit(c)
  <2>1. /\ phase[c] = "walk" /\ UNCHANGED <<workflow, current, outputs, records>>
    BY <1>2 DEF Flow!Visit
  <2>2. /\ current' = [current EXCEPT ![c] = k] /\ outputs' = [outputs EXCEPT ![c] = o]
        /\ records' = [records EXCEPT ![c] = r]
    BY <1>0, <2>1 DEF OverCallers
  <2>3. PICK m : turns' = [turns EXCEPT ![c] = m] /\ m = IF n < MaxStates THEN n + 1 ELSE n
    BY <1>0, <1>2 DEF Flow!Visit, OverCallers
  <2>4. PICK p, u : /\ phase' = [phase EXCEPT ![c] = p] /\ verdict' = [verdict EXCEPT ![c] = u]
                    /\ \/ p = "over" /\ u \in {"raised", "completed"}
                       \/ p = "skill" /\ u = v /\ n # MaxStates /\ k \in DOMAIN w.states /\ Flow!Resolved(c)
    <3>1. CASE \E how \in {"raised", "completed"} : Flow!Ends(c, how)
      BY <3>1 DEF Flow!Ends, Flow!Go
    <3>2. CASE /\ n # MaxStates /\ k \in Flow!States(c) /\ Flow!Resolved(c)
               /\ Flow!Go(c, "skill") /\ UNCHANGED verdict
      <4>1. verdict' = [verdict EXCEPT ![c] = v] /\ k \in DOMAIN w.states
        BY <1>0, <3>2 DEF OverCallers, Flow!States
      <4> QED BY <3>2, <4>1 DEF Flow!Go
    <3> QED BY <1>2, <3>1, <3>2 DEF Flow!Visit
  <2>5. Flow!Resolved(c) => w.states[k].refs \subseteq Before(o, Len(o) + 1)
    <3>1. DOMAIN o = 1..Len(o) /\ Len(o) + 1 - 1 = Len(o)
      BY <1>0 DEF RunIs
    <3> QED BY <3>1 DEF Flow!Resolved, Flow!Here, Before
  <2>6. m \in 0..MaxStates /\ n <= m /\ (n # MaxStates => m = n + 1) /\ Len(o) \in Nat
    BY <1>0, <2>3, WorkflowsAssumption DEF RunIs, Flow!LimitAssumption
  <2>7. Walked(w, o, r, u)
    BY <1>0, <2>1, <2>4 DEF Walked, RunIs
  <2>8. Stepped(c, w, p, k, m, o, u, r)
    BY <2>1, <2>2, <2>3, <2>4 DEF Stepped
  <2> HIDE DEF w, k, n, o, v, r
  <2>9. RunIs(w, p, k, m, o, u, r)
    BY <1>0, <2>1, <2>4, <2>5, <2>6, <2>7 DEF RunIs
  <2> QED BY <2>8, <2>9, FlowStep
<1>3. CASE Flow!SkillRaises(c)
  <2>1. /\ phase[c] = "skill" /\ UNCHANGED <<workflow, current, turns, outputs, records>>
        /\ phase' = [phase EXCEPT ![c] = "over"] /\ verdict' = [verdict EXCEPT ![c] = "raised"]
    BY <1>3 DEF Flow!SkillRaises, Flow!Ends, Flow!Go
  <2>2. /\ current' = [current EXCEPT ![c] = k] /\ turns' = [turns EXCEPT ![c] = n] /\ outputs' = [outputs EXCEPT ![c] = o]
        /\ records' = [records EXCEPT ![c] = r]
    BY <1>0, <2>1 DEF OverCallers
  <2>3. RunIs(w, "over", k, n, o, "raised", r)
    BY <1>0, <2>1 DEF RunIs, Walked
  <2>4. Stepped(c, w, "over", k, n, o, "raised", r)
    BY <2>1, <2>2 DEF Stepped
  <2> HIDE DEF w, k, n, o, v, r
  <2> QED BY <2>3, <2>4, FlowStep
<1>4. CASE Flow!SkillReturns(c)
  <2>1. PICK status \in {"success", "failed"} :
          /\ outputs' = [outputs EXCEPT ![c] = Append(o, [state |-> k, status |-> status])]
          /\ \/ /\ records' = [records EXCEPT ![c] = r \cup {k}]
                /\ IF w.states[k].next = "none"
                   THEN Flow!Ends(c, status) /\ UNCHANGED current
                   ELSE /\ current' = [current EXCEPT ![c] = w.states[k].next] /\ Flow!Go(c, "walk")
                        /\ UNCHANGED verdict
             \/ Flow!Ends(c, "raised") /\ UNCHANGED <<records, current>>
    BY <1>0, <1>4 DEF Flow!SkillReturns, Flow!Here, OverCallers
  <2>2. phase[c] = "skill" /\ UNCHANGED <<workflow, turns>>
    BY <1>4 DEF Flow!SkillReturns
  <2>3. turns' = [turns EXCEPT ![c] = n]
    BY <1>0, <2>2 DEF OverCallers
  <2> DEFINE q == Append(o, [state |-> k, status |-> status])
  <2>4. PICK p, l, u, y :
          /\ phase' = [phase EXCEPT ![c] = p] /\ current' = [current EXCEPT ![c] = l]
          /\ verdict' = [verdict EXCEPT ![c] = u] /\ records' = [records EXCEPT ![c] = y]
          /\ Goes(w, k, r, v, status, p, l, u, y)
    <3> USE DEF Goes
    <3>1. CASE records' = [records EXCEPT ![c] = r \cup {k}] /\ w.states[k].next = "none"
               /\ Flow!Ends(c, status) /\ UNCHANGED current
      <4>1. current' = [current EXCEPT ![c] = k]
        BY <1>0, <3>1 DEF OverCallers
      <4> QED BY <3>1, <4>1 DEF Flow!Go, Flow!Ends
    <3>2. CASE records' = [records EXCEPT ![c] = r \cup {k}] /\ current' = [current EXCEPT ![c] = w.states[k].next]
               /\ Flow!Go(c, "walk") /\ UNCHANGED verdict
      <4>1. verdict' = [verdict EXCEPT ![c] = v]
        BY <1>0, <3>2 DEF OverCallers
      <4> QED BY <3>2, <4>1 DEF Flow!Go
    <3>3. CASE Flow!Ends(c, "raised") /\ UNCHANGED <<records, current>>
      <4>1. current' = [current EXCEPT ![c] = k] /\ records' = [records EXCEPT ![c] = r]
        BY <1>0, <3>3 DEF OverCallers
      <4> QED BY <3>3, <4>1 DEF Flow!Go, Flow!Ends
    <3> QED BY <2>1, <3>1, <3>2, <3>3
  <2>5. RunIs(w, p, l, n, q, u, y)
    <3>1. RunIs(w, "skill", k, n, o, v, r) /\ Goes(w, k, r, v, status, p, l, u, y)
      BY <1>0, <2>2, <2>4
    <3> HIDE DEF w, k, n, o, v, r
    <3> QED BY <3>1, RunGoesOn
  <2>6. Stepped(c, w, p, l, n, q, u, y)
    BY <2>1, <2>2, <2>3, <2>4 DEF Stepped
  <2> HIDE DEF w, k, n, o, v, r, q
  <2> QED BY <2>5, <2>6, FlowStep
<1> QED BY <1>1, <1>2, <1>3, <1>4 DEF Flow!Walk

TrueReport(w, o, v, r) ==
  /\ \A i \in DOMAIN o :
        /\ w.states[o[i].state].refs \subseteq {o[j].state : j \in 1..(i - 1)}
        /\ i > 1 => w.states[o[i - 1].state].next = o[i].state
  /\ Len(o) <= MaxStates
  /\ v # "raised" => \A i \in DOMAIN o : o[i].state \in r
  /\ v \in {"success", "failed"} =>
        Flow!Last(o).status = v /\ w.states[Flow!Last(o).state].next = "none"
LEMMA RunSays ==
  ASSUME NEW w, NEW p, NEW k, NEW n, NEW o, NEW v, NEW r, RunIs(w, p, k, n, o, v, r)
  PROVE  /\ n \in 0..MaxStates /\ Len(o) <= n /\ r \subseteq DOMAIN w.states
         /\ TrueReport(w, o, v, r)
<1>1. /\ o \in Seq(Reports) /\ Len(o) \in Nat /\ DOMAIN o = 1..Len(o) /\ Walked(w, o, r, v) /\ n \in 0..MaxStates
      /\ r \subseteq DOMAIN w.states /\ Len(o) <= n
      /\ v \in {"success", "failed"} =>
            o # <<>> /\ o[Len(o)].status = v /\ w.states[o[Len(o)].state].next = "none"
  BY DEF RunIs
<1>2. Len(o) <= MaxStates
  BY <1>1, WorkflowsAssumption DEF Flow!LimitAssumption
<1>3. TrueReport(w, o, v, r)
  BY <1>1, <1>2 DEF TrueReport, Walked, Before, Flow!Last
<1> QED BY <1>1, <1>3

LEMMA FlowSays == FlowInv => Flow!TypeOK /\ Flow!ReportIsTrue
<1> SUFFICES ASSUME FlowInv PROVE Flow!TypeOK /\ Flow!ReportIsTrue
  OBVIOUS
<1>1. ASSUME NEW c \in Callers
      PROVE  /\ phase[c] \in {"load", "spawn", "walk", "skill", "over"}
             /\ verdict[c] \in {"none", "success", "failed", "completed", "raised"}
             /\ turns[c] \in 0..MaxStates /\ Len(outputs[c]) <= turns[c] /\ records[c] \subseteq DOMAIN workflow[c].states
             /\ TrueReport(workflow[c], outputs[c], verdict[c], records[c])
  <2>1. RunIs(workflow[c], phase[c], current[c], turns[c], outputs[c], verdict[c], records[c])
    BY DEF FlowInv, RunOf
  <2>2. /\ phase[c] \in {"load", "spawn", "walk", "skill", "over"}
        /\ verdict[c] \in {"none", "success", "failed", "completed", "raised"}
    BY <2>1 DEF RunIs
  <2> QED BY <2>1, <2>2, RunSays
<1> QED BY <1>1 DEF Flow!TypeOK, Flow!States, TrueReport, Flow!ReportIsTrue

-----------------------------------------------------------------------------
(* SpecGather: what the state of an interview holds at each question *)

Papers == [answered : SUBSET Gather!Phases, components : Seq(BOOLEAN)]
Interviews == [phase : Gather!Phases, answered : SUBSET Gather!Phases, names : Seq(STRING),
               details : SUBSET STRING, at : Nat, xml : Seq(Papers)]

\* What has been answered by the question that is open; the components before the one in turn have
\* their details.
Answers(s) ==
  CASE s.phase = "overview" -> {} [] s.phase = "feature" -> {"overview"}
    [] s.phase \in {"list", "detail", "constraints"} -> {"overview", "feature"}
    [] OTHER -> {"overview", "feature", "constraints"}
Kept(s) ==
  /\ s \in Interviews /\ s.answered = Answers(s)
  /\ s.phase = "detail" => /\ s.at \in Nat \ {0} /\ (s.names # <<>> => s.at <= Len(s.names))
                           /\ \A i \in 1..(s.at - 1) : s.names[i] \in s.details
  /\ s.phase \in {"constraints", "complete"} => \A i \in 1..Len(s.names) : s.names[i] \in s.details
Written(s) == Kept(s) /\ (s.phase = "complete" => s.xml = <<Gather!Document(s)>>)

LEMMA PhaseNames == Gather!Phases = {"overview", "feature", "list", "detail", "constraints", "complete"}
  BY DEF Gather!Phases

LEMMA FreshIsWritten == Written(Gather!Fresh) /\ Gather!Place(Gather!Fresh) = 0 /\ Gather!Fresh # Gather!NoRow
<1> DEFINE f == Gather!Fresh
<1>1. f = [phase |-> "overview", answered |-> {}, names |-> <<>>, details |-> {}, at |-> 1, xml |-> <<>>]
  BY DEF Gather!Fresh, Gather!NoXml
<1>2. f \in Interviews
  BY <1>1 DEF Interviews, Gather!Phases
<1>3. f.phase # Gather!NoRow.phase
  BY <1>1 DEF Gather!NoRow
<1> QED BY <1>1, <1>2, <1>3 DEF Written, Kept, Answers, Gather!Place

\* An answer goes to the question that is open, and opens the next one.
LEMMA AnswerAdvances ==
  ASSUME NEW s, Kept(s), ~Gather!Unaskable(s), NEW o \in Gather!Advanced(s)
  PROVE  Kept(o) /\ Gather!Place(o) = Gather!Place(s) + (IF o = s THEN 0 ELSE 1)
<1>0. /\ s \in Interviews /\ s.phase \in Gather!Phases /\ s.names \in Seq(STRING) /\ s.at \in Nat
      /\ s.details \in SUBSET STRING /\ s.answered = Answers(s) /\ s.xml \in Seq(Papers) /\ Len(s.names) \in Nat
  BY DEF Kept, Interviews
<1>1. CASE s.phase = "overview"
  <2>1. o = [s EXCEPT !.answered = @ \cup {"overview"}, !.phase = "feature"]
    BY <1>1 DEF Gather!Advanced, Gather!Answered
  <2>2. o \in Interviews /\ o.phase = "feature" /\ o.answered = {"overview"}
    BY <1>0, <1>1, <2>1 DEF Interviews, Gather!Phases, Answers
  <2>3. Gather!Place(o) = 1 /\ Gather!Place(s) = 0 /\ o # s
    BY <1>1, <2>2 DEF Gather!Place
  <2> QED BY <2>2, <2>3 DEF Kept, Answers
<1>2. CASE s.phase = "feature"
  <2>1. o = [s EXCEPT !.answered = @ \cup {"feature"}, !.phase = "list"]
    BY <1>2 DEF Gather!Advanced, Gather!Answered
  <2>2. o \in Interviews /\ o.phase = "list" /\ o.answered = {"overview", "feature"}
    BY <1>0, <1>2, <2>1 DEF Interviews, Gather!Phases, Answers
  <2>3. Gather!Place(o) = 2 /\ Gather!Place(s) = 1 /\ o # s
    BY <1>2, <2>2 DEF Gather!Place
  <2> QED BY <2>2, <2>3 DEF Kept, Answers
<1>3. CASE s.phase = "list"
  <2>1. PICK l \in Lists : o = [s EXCEPT !.names = l, !.at = 1, !.phase = "detail"]
    BY <1>3 DEF Gather!Advanced
  <2>2. o \in Interviews /\ o.phase = "detail" /\ o.answered = {"overview", "feature"} /\ o.at = 1 /\ o.names = l
        /\ l \in Seq(STRING)
    BY <1>0, <1>3, <2>1, ListsAssumption DEF Interviews, Gather!Phases, Answers, Gather!ListsAreNames
  <2>3. Gather!Place(o) = 3 /\ Gather!Place(s) = 2 /\ o # s
    BY <1>3, <2>2 DEF Gather!Place
  <2>4. l # <<>> => 1 <= Len(l)
    BY <2>2
  <2> QED BY <2>2, <2>3, <2>4 DEF Kept, Answers
<1>4. CASE s.phase = "detail"
  <2>1. o = Gather!Described(s)
    BY <1>4 DEF Gather!Advanced
  <2>2. s.names # <<>> /\ s.at \in 1..Len(s.names) /\ s.names[s.at] \in STRING
        /\ \A i \in 1..(s.at - 1) : s.names[i] \in s.details
    BY <1>0, <1>4 DEF Gather!Unaskable, Kept
  <2>3. CASE s.at < Len(s.names)
    <3>1. /\ o \in Interviews /\ o.phase = "detail" /\ o.at = s.at + 1 /\ o.names = s.names
          /\ o.details = s.details \cup {s.names[s.at]} /\ o.answered = s.answered
      <4>1. o = [s EXCEPT !.details = @ \cup {s.names[s.at]}, !.at = s.at + 1, !.phase = s.phase]
        BY <2>1, <2>3 DEF Gather!Described
      <4>2. s.at + 1 \in Nat /\ s.details \cup {s.names[s.at]} \in SUBSET STRING
        BY <1>0, <2>2
      <4> QED BY <1>0, <1>4, <4>1, <4>2 DEF Interviews
    <3>2. \A i \in 1..(o.at - 1) : o.names[i] \in o.details
      BY <1>0, <2>2, <3>1
    <3>3. Gather!Place(o) = 2 + (s.at + 1) /\ Gather!Place(s) = 2 + s.at /\ o # s
      BY <1>0, <1>4, <3>1 DEF Gather!Place
    <3> QED BY <1>0, <1>4, <2>3, <3>1, <3>2, <3>3 DEF Kept, Answers
  <2>4. CASE ~(s.at < Len(s.names))
    <3>1. /\ o \in Interviews /\ o.phase = "constraints" /\ o.names = s.names
          /\ o.details = s.details \cup {s.names[s.at]} /\ o.answered = s.answered
      BY <1>0, <1>4, <2>1, <2>2, <2>4 DEF Gather!Described, Interviews, Gather!Phases
    <3>2. \A i \in 1..Len(o.names) : o.names[i] \in o.details
      BY <1>0, <2>2, <2>4, <3>1
    <3>3. Gather!Place(o) = 3 + Len(s.names) /\ Gather!Place(s) = 2 + s.at /\ o # s
      BY <1>0, <1>4, <3>1 DEF Gather!Place
    <3> QED BY <1>0, <1>4, <2>2, <2>4, <3>1, <3>2, <3>3 DEF Kept, Answers
  <2> QED BY <2>3, <2>4
<1>5. CASE s.phase = "constraints"
  <2>1. o = [s EXCEPT !.answered = @ \cup {"constraints"}, !.phase = "complete"]
    BY <1>5 DEF Gather!Advanced, Gather!Answered
  <2>2. o \in Interviews /\ o.phase = "complete" /\ o.answered = {"overview", "feature", "constraints"}
        /\ o.names = s.names /\ o.details = s.details
    BY <1>0, <1>5, <2>1 DEF Interviews, Gather!Phases, Answers
  <2>3. Gather!Place(o) = 4 + Len(s.names) /\ Gather!Place(s) = 3 + Len(s.names) /\ o # s
    BY <1>5, <2>2 DEF Gather!Place
  <2> QED BY <1>0, <1>5, <2>2, <2>3 DEF Kept, Answers
<1>6. CASE s.phase = "complete"
  <2>1. o = s
    BY <1>6 DEF Gather!Advanced
  <2>2. Gather!Place(s) \in Nat
    BY <1>0, <1>6 DEF Gather!Place
  <2> QED BY <2>1, <2>2
<1> QED BY <1>0, <1>1, <1>2, <1>3, <1>4, <1>5, <1>6, PhaseNames

\* The document of a complete interview leaves out nothing.
LEMMA SealingIsWhole ==
  ASSUME NEW s, Kept(s)
  PROVE  /\ Written(Gather!Sealed(s)) /\ Gather!Place(Gather!Sealed(s)) = Gather!Place(s)
         /\ Gather!Sealed(s).phase = s.phase
<1>0. /\ s \in Interviews /\ s.names \in Seq(STRING) /\ s.answered \in SUBSET Gather!Phases
  BY DEF Kept, Interviews
<1>1. CASE s.phase = "complete"
  <2> DEFINE d == Gather!Document(s)
             o == Gather!Sealed(s)
  <2>0. DOMAIN s.names = 1..Len(s.names)
    BY <1>0
  <2>1. d = [answered |-> s.answered, components |-> [i \in 1..Len(s.names) |-> s.names[i] \in s.details]]
    BY <2>0 DEF Gather!Document
  <2>2. [i \in 1..Len(s.names) |-> s.names[i] \in s.details] \in Seq(BOOLEAN)
    BY <1>0
  <2>3. d \in Papers
    BY <1>0, <2>1, <2>2 DEF Papers
  <2>4. <<d>> \in Seq(Papers)
    BY <2>3
  <2>5. o = [s EXCEPT !.xml = <<d>>]
    BY <1>1 DEF Gather!Sealed
  <2>6. /\ o \in Interviews /\ o.xml = <<d>> /\ o.phase = s.phase /\ o.answered = s.answered /\ o.names = s.names
        /\ o.details = s.details /\ o.at = s.at
    BY <1>0, <2>4, <2>5 DEF Interviews
  <2>7. Gather!Document(o) = d
    BY <2>6 DEF Gather!Document
  <2> QED BY <1>1, <2>6, <2>7 DEF Written, Kept, Answers, Gather!Place
<1>2. CASE s.phase # "complete"
  <2>1. Gather!Sealed(s) = s
    BY <1>2 DEF Gather!Sealed
  <2> QED BY <1>2, <2>1 DEF Written
<1> QED BY <1>1, <1>2

LEMMA WrittenIsWhole ==
  ASSUME NEW s, Written(s)
  PROVE  /\ s # Gather!NoRow /\ s.phase # "none" /\ s.phase \in Gather!Phases /\ Gather!Place(s) \in Nat
         /\ s.phase = "complete" => /\ s.xml # Gather!NoXml /\ s.xml[1] = Gather!Document(s)
                                    /\ Gather!Whole(s.xml[1])
<1>0. /\ s \in Interviews /\ s.names \in Seq(STRING) /\ s.phase \in Gather!Phases /\ s.at \in Nat
      /\ s.answered = Answers(s) /\ Len(s.names) \in Nat /\ DOMAIN s.names = 1..Len(s.names)
  BY DEF Written, Kept, Interviews
<1>1. s.phase # "none" /\ s.phase # Gather!NoRow.phase
  BY <1>0 DEF Gather!Phases, Gather!NoRow
<1>2. Gather!Place(s) \in Nat
  BY <1>0, PhaseNames DEF Gather!Place
<1>3. ASSUME s.phase = "complete"
      PROVE  s.xml # Gather!NoXml /\ s.xml[1] = Gather!Document(s) /\ Gather!Whole(s.xml[1])
  <2>1. s.xml = <<Gather!Document(s)>> /\ \A i \in 1..Len(s.names) : s.names[i] \in s.details
    BY <1>3 DEF Written, Kept
  <2>2. Gather!Whole(Gather!Document(s))
    BY <1>0, <1>3, <2>1 DEF Gather!Whole, Gather!Document, Answers
  <2> QED BY <2>1, <2>2 DEF Gather!NoXml
<1> QED BY <1>0, <1>1, <1>2, <1>3

\* The calls under way hold written copies; while they come one after the other, the answers given are
\* those in the row, or in the copy that is about to be written.
Busy(c) == step[c] \in {"save", "write"}
GatherInv ==
  /\ row = Gather!NoRow \/ Written(row)
  /\ step \in [Writers -> {"idle", "save", "write", "draft"}]
  /\ copy = [c \in Writers |-> copy[c]] /\ context = [c \in Writers |-> context[c]]
  /\ \A c \in Writers : Busy(c) => Written(copy[c]) /\ (step[c] = "write" => copy[c].phase = "complete")
  /\ \A d \in documents : Gather!Whole(d)
  /\ \A c \in Writers : context[c] # Gather!NoXml => Gather!Whole(context[c][1])
  /\ given \in Nat /\ raced \in BOOLEAN
  /\ ~raced => /\ \A c, d \in Writers : Busy(c) /\ Busy(d) => c = d
               /\ \A c \in Writers : step[c] = "save" => Gather!Place(copy[c]) = given
               /\ (\A c \in Writers : step[c] # "save") => Gather!Place(row) = given

LEMMA GatherInit == Gather!Init => GatherInv
<1> SUFFICES ASSUME Gather!Init PROVE GatherInv
  OBVIOUS
<1>1. Gather!Place(row) = 0
  BY DEF Gather!Init, Gather!Place, Gather!NoRow
<1> QED BY <1>1 DEF Gather!Init, GatherInv, Busy, Gather!NoRow, Gather!NoXml

LEMMA GatherBegins == ASSUME GatherInv, NEW c \in Writers, Gather!Begin(c) PROVE GatherInv'
<1> DEFINE l == Gather!Loaded
<1>1. Written(l) /\ l # Gather!NoRow /\ Gather!Place(l) = Gather!Place(row)
  <2>1. Gather!NoRow.phase = "none" /\ (row = Gather!NoRow => Gather!Place(row) = 0)
    BY DEF Gather!NoRow, Gather!Place
  <2> QED BY <2>1, FreshIsWritten, WrittenIsWhole DEF GatherInv, Gather!Loaded
<1>2. Kept(l)
  BY <1>1 DEF Written
<1>3. /\ step[c] = "idle" /\ raced' = (raced \/ Gather!Interviewing)
      /\ UNCHANGED <<row, documents, context>>
  BY DEF Gather!Begin
<1>4. ~raced' => ~raced /\ \A d \in Writers : ~Busy(d)
  BY <1>3 DEF GatherInv, Gather!Interviewing, Busy
<1>5. ASSUME NEW o, Kept(o), copy' = [copy EXCEPT ![c] = Gather!Sealed(o)], step' = [step EXCEPT ![c] = "save"],
             given' \in Nat, given = Gather!Place(l) => given' = Gather!Place(o)
      PROVE  GatherInv'
  <2>1. Written(Gather!Sealed(o)) /\ Gather!Place(Gather!Sealed(o)) = Gather!Place(o)
    BY <1>5, SealingIsWhole
  <2>2. /\ \A d \in Writers : step'[d] = IF d = c THEN "save" ELSE step[d]
        /\ \A d \in Writers : copy'[d] = IF d = c THEN Gather!Sealed(o) ELSE copy[d]
        /\ step' \in [Writers -> {"idle", "save", "write", "draft"}] /\ copy' = [d \in Writers |-> copy'[d]]
    BY <1>5 DEF GatherInv
  <2>3. \A d \in Writers : (step'[d] \in {"save", "write"}) =>
            Written(copy'[d]) /\ (step'[d] = "write" => copy'[d].phase = "complete")
    BY <2>1, <2>2 DEF GatherInv, Busy
  <2>4. ASSUME ~raced'
        PROVE  /\ \A d, e \in Writers : step'[d] \in {"save", "write"} /\ step'[e] \in {"save", "write"} => d = e
               /\ \A d \in Writers : step'[d] = "save" => Gather!Place(copy'[d]) = given'
               /\ ~ \A d \in Writers : step'[d] # "save"
    <3>1. given' = Gather!Place(o)
      <4>1. \A d \in Writers : step[d] # "save"
        BY <1>4, <2>4 DEF Busy
      <4> QED BY <1>1, <1>4, <1>5, <2>4, <4>1 DEF GatherInv
    <3> QED BY <1>4, <2>1, <2>2, <2>4, <3>1 DEF Busy
  <2>5. raced' \in BOOLEAN
    BY <1>3 DEF GatherInv
  <2> QED BY <1>3, <1>5, <2>2, <2>3, <2>4, <2>5 DEF GatherInv, Busy
<1>6. CASE copy' = [copy EXCEPT ![c] = Gather!Sealed(l)] /\ Gather!Go(c, "save") /\ UNCHANGED given
  BY <1>2, <1>5, <1>6 DEF Gather!Go, GatherInv
<1>7. CASE /\ ~Gather!Unaskable(l)
           /\ \E s \in Gather!Advanced(l) :
                 /\ copy' = [copy EXCEPT ![c] = Gather!Sealed(s)]
                 /\ given' = given + (IF s = l THEN 0 ELSE 1)
           /\ Gather!Go(c, "save")
  <2>1. PICK s \in Gather!Advanced(l) :
                 /\ copy' = [copy EXCEPT ![c] = Gather!Sealed(s)]
                 /\ given' = given + (IF s = l THEN 0 ELSE 1)
    BY <1>7
  <2>2. Kept(s) /\ Gather!Place(s) = Gather!Place(l) + (IF s = l THEN 0 ELSE 1)
    BY <1>2, <1>7, AnswerAdvances
  <2>3. given' \in Nat
    BY <2>1 DEF GatherInv
  <2> QED BY <1>5, <1>7, <2>1, <2>2, <2>3 DEF Gather!Go
<1>8. CASE UNCHANGED <<step, copy, given>>
  BY <1>3, <1>4, <1>8 DEF GatherInv, Busy
<1> QED BY <1>6, <1>7, <1>8 DEF Gather!Begin

LEMMA GatherKept == GatherInv /\ Gather!Next => GatherInv'
<1> SUFFICES ASSUME GatherInv, NEW c \in Writers, Gather!Call(c) PROVE GatherInv'
  BY DEF Gather!Next
<1>1. CASE Gather!Begin(c)
  BY <1>1, GatherBegins
<1>2. CASE Gather!Save(c)
  <2>1. /\ step[c] = "save" /\ row' = copy[c] /\ UNCHANGED <<documents, copy, context, given, raced>>
        /\ step' = [step EXCEPT ![c] = IF copy[c].phase = "complete" THEN "write" ELSE "idle"]
    BY <1>2 DEF Gather!Save, Gather!Go
  <2>2. /\ \A d \in Writers : step'[d] = IF d = c THEN (IF copy[c].phase = "complete" THEN "write" ELSE "idle") ELSE step[d]
        /\ step' \in [Writers -> {"idle", "save", "write", "draft"}] /\ Written(copy[c])
    BY <2>1 DEF GatherInv, Busy
  <2> QED BY <2>1, <2>2 DEF GatherInv, Busy
<1>3. CASE Gather!WriteFile(c)
  <2>1. /\ step[c] = "write" /\ documents' = documents \cup {copy[c].xml[1]}
        /\ UNCHANGED <<row, copy, context, given, raced>> /\ step' = [step EXCEPT ![c] = "idle"]
    BY <1>3 DEF Gather!WriteFile, Gather!Go
  <2>2. /\ \A d \in Writers : step'[d] = IF d = c THEN "idle" ELSE step[d]
        /\ step' \in [Writers -> {"idle", "save", "write", "draft"}]
        /\ Written(copy[c]) /\ copy[c].phase = "complete"
    BY <2>1 DEF GatherInv, Busy
  <2>3. Gather!Whole(copy[c].xml[1])
    BY <2>2, WrittenIsWhole
  <2> QED BY <2>1, <2>2, <2>3 DEF GatherInv, Busy
<1>4. CASE Gather!Killed(c)
  <2>1. raced' = TRUE /\ step' = [step EXCEPT ![c] = "idle"] /\ UNCHANGED <<row, documents, copy, context, given>>
    BY <1>4 DEF Gather!Killed, Gather!Go
  <2>2. /\ \A d \in Writers : step'[d] = IF d = c THEN "idle" ELSE step[d]
        /\ step' \in [Writers -> {"idle", "save", "write", "draft"}]
    BY <2>1 DEF GatherInv
  <2> QED BY <2>1, <2>2 DEF GatherInv, Busy
<1>5. CASE Gather!Draft(c)
  <2>1. /\ step[c] = "idle" /\ step' = [step EXCEPT ![c] = "draft"]
        /\ context' = [context EXCEPT ![c] = IF row.phase = "complete" THEN row.xml ELSE Gather!NoXml]
        /\ UNCHANGED <<row, documents, copy, given, raced>>
    BY <1>5 DEF Gather!Draft, Gather!Go
  <2>2. /\ \A d \in Writers : step'[d] = IF d = c THEN "draft" ELSE step[d]
        /\ step' \in [Writers -> {"idle", "save", "write", "draft"}]
    BY <2>1 DEF GatherInv
  <2>3. row.phase = "complete" => Gather!Whole(row.xml[1])
    BY WrittenIsWhole DEF GatherInv, Gather!NoRow
  <2>4. /\ \A d \in Writers : context'[d] # Gather!NoXml => Gather!Whole(context'[d][1])
        /\ context' = [d \in Writers |-> context'[d]]
    BY <2>1, <2>3 DEF GatherInv
  <2> QED BY <2>1, <2>2, <2>4 DEF GatherInv, Busy
<1>6. CASE Gather!SaveDraft(c)
  <2>1. /\ step[c] = "draft" /\ step' = [step EXCEPT ![c] = "idle"]
        /\ context' = [context EXCEPT ![c] = Gather!NoXml]
        /\ UNCHANGED <<row, documents, copy, given, raced>>
    BY <1>6 DEF Gather!SaveDraft, Gather!Go
  <2>2. /\ \A d \in Writers : step'[d] = IF d = c THEN "idle" ELSE step[d]
        /\ step' \in [Writers -> {"idle", "save", "write", "draft"}]
    BY <2>1 DEF GatherInv
  <2>3. /\ \A d \in Writers : context'[d] # Gather!NoXml => Gather!Whole(context'[d][1])
        /\ context' = [d \in Writers |-> context'[d]]
    BY <2>1 DEF GatherInv
  <2> QED BY <2>1, <2>2, <2>3 DEF GatherInv, Busy
<1> QED BY <1>1, <1>2, <1>3, <1>4, <1>5, <1>6 DEF Gather!Call, Gather!RefineDraft

LEMMA GatherSays == GatherInv => Gather!ContextIsWhole /\ Gather!AnswersAreRecorded
<1> SUFFICES ASSUME GatherInv PROVE Gather!ContextIsWhole /\ Gather!AnswersAreRecorded
  OBVIOUS
<1>1. row.phase = "complete" => row.xml # Gather!NoXml /\ Gather!Whole(row.xml[1])
  BY WrittenIsWhole DEF GatherInv, Gather!NoRow
<1>2. Gather!ContextIsWhole
  BY <1>1 DEF GatherInv, Gather!ContextIsWhole
<1>3. Gather!AnswersAreRecorded
  BY DEF GatherInv, Gather!AnswersAreRecorded, Gather!Interviewing, Busy
<1> QED BY <1>2, <1>3

-----------------------------------------------------------------------------
(* Delegation: what a call has left behind at each stage *)

StartNotes == [type : {"SubAgentTaskStarted"}, task : Tasks]
EndNotes == [type : {"SubAgentTaskCompleted"}, task : Tasks, status : {"success", "failed"}]
Notes == StartNotes \cup EndNotes

CallInv(t) ==
  /\ phase[t] \in {"begin", "spawn", "complete", "write", "publish", "keep", "over"}
  /\ raw[t] \in {"none", "success", "failed"} /\ answer[t] \in Calls!Labels \cup {"raised", "none"}
  /\ answer[t] = "none" <=> phase[t] # "over"
  /\ phase[t] \in {"complete", "write", "publish", "keep"} => raw[t] # "none"
  /\ phase[t] \in {"begin", "keep"} => Calls!Starts(t) = {}
  /\ phase[t] \in {"begin", "spawn", "complete"} => Calls!Ends(t) = {}
  /\ phase[t] \in {"write", "publish"} => \A j \in Calls!Ends(t) : lifecycle[j].status = raw[t]
  /\ phase[t] = "publish" => memory[request[t].row] # Calls!Nobody
  /\ \A i, j \in Calls!Ends(t) : i = j
  /\ \A i \in Calls!Starts(t), j \in Calls!Ends(t) : i < j
  /\ Calls!Starts(t) # {} => request[t].tracked
  /\ phase[t] \in {"write", "publish", "over"} /\ Calls!Starts(t) # {} /\ t \notin dropped => Calls!Ends(t) # {}

\* What is said of a call that was announced, and of a row that was written.
Told(a) ==
  /\ a.task \in Tasks /\ phase[a.task] = "over" /\ raw[a.task] # "none"
  /\ a.label = Calls!Label(a.task) /\ answer[a.task] = a.label
  /\ memory[request[a.task].row] # Calls!Nobody
  /\ \A j \in Calls!Ends(a.task) : lifecycle[j].status = raw[a.task]
RowIs(r) ==
  \/ memory[r] = Calls!Nobody
  \/ /\ memory[r].by \in Tasks /\ request[memory[r].by].row = r /\ memory[r].label = Calls!Label(memory[r].by)
     /\ phase[memory[r].by] \in {"publish", "over"}

CallsInv ==
  /\ request \in [Tasks -> Delegations]
  /\ phase = [t \in Tasks |-> phase[t]] /\ raw = [t \in Tasks |-> raw[t]] /\ answer = [t \in Tasks |-> answer[t]]
  /\ lifecycle \in Seq(Notes) /\ announced \in Seq([task : Tasks, label : Calls!Labels])
  /\ memory = [r \in Calls!Rows |-> memory[r]] /\ \A r \in Calls!Rows : RowIs(r)
  /\ \A t \in Tasks : CallInv(t)
  /\ \A i \in 1..Len(announced) : Told(announced[i])

LEMMA LabelsAre ==
  ASSUME NEW t
  PROVE  /\ Calls!Label(t) \in Calls!Labels /\ Calls!Label(t) \notin {"none", "raised"}
         /\ raw[t] = "success" => Calls!Label(t) = "completed"
         /\ Calls!Label(t) = "completed" => raw[t] = "success" \/ request[t].goal = "completed"
  BY DEF Calls!Label, Calls!Labels

LEMMA CallsInit == Calls!Init => CallsInv
<1> SUFFICES ASSUME Calls!Init PROVE CallsInv
  OBVIOUS
<1>1. lifecycle = <<>> /\ announced = <<>>
  BY DEF Calls!Init
<1>2. \A t : Calls!Starts(t) = {} /\ Calls!Ends(t) = {}
  BY <1>1 DEF Calls!Starts, Calls!Ends
<1>3. \A t \in Tasks : CallInv(t)
  BY <1>2 DEF CallInv, Calls!Init
<1>4. /\ request \in [Tasks -> Delegations]
      /\ phase = [t \in Tasks |-> phase[t]] /\ raw = [t \in Tasks |-> raw[t]] /\ answer = [t \in Tasks |-> answer[t]]
      /\ memory = [r \in Calls!Rows |-> memory[r]] /\ \A r \in Calls!Rows : memory[r] = Calls!Nobody
  BY DEF Calls!Init
<1>5. lifecycle \in Seq(Notes) /\ announced \in Seq([task : Tasks, label : Calls!Labels]) /\ Len(announced) = 0
  BY <1>1
<1> QED BY <1>3, <1>4, <1>5 DEF CallsInv, RowIs

\* A note of t leaves the lifecycles of the others as they are.
Noted(t, N) == \/ lifecycle' = lifecycle
               \/ \E e \in N : e.task = t /\ lifecycle' = Append(lifecycle, e)
LEMMA NotesOfOthers ==
  ASSUME lifecycle \in Seq(Notes), NEW t \in Tasks, Noted(t, Notes)
  PROVE  /\ lifecycle' \in Seq(Notes)
         /\ \A j \in 1..Len(lifecycle) : lifecycle'[j] = lifecycle[j]
         /\ \A u \in Tasks : u # t => Calls!Ends(u)' = Calls!Ends(u) /\ Calls!Starts(u)' = Calls!Starts(u)
         /\ \A u \in Tasks : Calls!Ends(u) \subseteq 1..Len(lifecycle)
<1>1. CASE lifecycle' = lifecycle
  BY <1>1 DEF Calls!Ends, Calls!Starts
<1>2. ASSUME NEW e \in Notes, e.task = t, lifecycle' = Append(lifecycle, e)
      PROVE  /\ lifecycle' \in Seq(Notes)
             /\ \A j \in 1..Len(lifecycle) : lifecycle'[j] = lifecycle[j]
             /\ \A u \in Tasks : u # t => Calls!Ends(u)' = Calls!Ends(u) /\ Calls!Starts(u)' = Calls!Starts(u)
  <2>1. /\ lifecycle' \in Seq(Notes) /\ DOMAIN lifecycle = 1..Len(lifecycle)
        /\ DOMAIN lifecycle' = 1..(Len(lifecycle) + 1) /\ Len(lifecycle) \in Nat
        /\ lifecycle'[Len(lifecycle) + 1] = e /\ \A j \in 1..Len(lifecycle) : lifecycle'[j] = lifecycle[j]
    BY <1>2
  <2>2. ASSUME NEW u \in Tasks, u # t
        PROVE  Calls!Ends(u)' = Calls!Ends(u) /\ Calls!Starts(u)' = Calls!Starts(u)
    <3>1. \A j \in DOMAIN lifecycle' : lifecycle'[j].task = u => j \in 1..Len(lifecycle)
      BY <1>2, <2>1, <2>2
    <3>2. \A j : j \in Calls!Ends(u)' <=> j \in Calls!Ends(u)
      BY <2>1, <3>1 DEF Calls!Ends
    <3>3. \A j : j \in Calls!Starts(u)' <=> j \in Calls!Starts(u)
      BY <2>1, <3>1 DEF Calls!Starts
    <3> QED BY <3>2, <3>3
  <2> QED BY <2>1, <2>2
<1>3. \A u \in Tasks : Calls!Ends(u) \subseteq 1..Len(lifecycle)
  BY DEF Calls!Ends
<1> QED BY <1>1, <1>2, <1>3 DEF Noted

LEMMA NoteStarts ==
  ASSUME lifecycle \in Seq(Notes), NEW t \in Tasks, lifecycle' = Append(lifecycle, [type |-> "SubAgentTaskStarted", task |-> t])
  PROVE  Calls!Ends(t)' = Calls!Ends(t)
<1>1. /\ DOMAIN lifecycle = 1..Len(lifecycle) /\ DOMAIN lifecycle' = 1..(Len(lifecycle) + 1) /\ Len(lifecycle) \in Nat
      /\ lifecycle'[Len(lifecycle) + 1].type = "SubAgentTaskStarted"
      /\ \A j \in 1..Len(lifecycle) : lifecycle'[j] = lifecycle[j]
  OBVIOUS
<1>2. \A j : j \in Calls!Ends(t)' <=> j \in Calls!Ends(t)
  BY <1>1 DEF Calls!Ends
<1> QED BY <1>2

LEMMA NoteEnds ==
  ASSUME lifecycle \in Seq(Notes), NEW t \in Tasks, NEW status,
         lifecycle' = Append(lifecycle, [type |-> "SubAgentTaskCompleted", task |-> t, status |-> status])
  PROVE  /\ Calls!Starts(t)' = Calls!Starts(t) /\ Calls!Ends(t)' = Calls!Ends(t) \cup {Len(lifecycle) + 1}
         /\ lifecycle'[Len(lifecycle) + 1].status = status /\ \A i \in Calls!Starts(t) : i < Len(lifecycle) + 1
<1>1. /\ DOMAIN lifecycle = 1..Len(lifecycle) /\ DOMAIN lifecycle' = 1..(Len(lifecycle) + 1) /\ Len(lifecycle) \in Nat
      /\ lifecycle'[Len(lifecycle) + 1].type = "SubAgentTaskCompleted" /\ lifecycle'[Len(lifecycle) + 1].task = t
      /\ lifecycle'[Len(lifecycle) + 1].status = status
      /\ \A j \in 1..Len(lifecycle) : lifecycle'[j] = lifecycle[j]
  OBVIOUS
<1>2. \A j : j \in Calls!Ends(t)' <=> j \in Calls!Ends(t) \cup {Len(lifecycle) + 1}
  BY <1>1 DEF Calls!Ends
<1>3. \A j : j \in Calls!Starts(t)' <=> j \in Calls!Starts(t)
  BY <1>1 DEF Calls!Starts
<1>4. \A i \in Calls!Starts(t) : i < Len(lifecycle) + 1
  BY <1>1 DEF Calls!Starts
<1> QED BY <1>1, <1>2, <1>3, <1>4

\* A step of t keeps everything if it keeps what is said of t.
LEMMA StepOf ==
  ASSUME CallsInv, NEW t \in Tasks, phase[t] # "over", UNCHANGED request, Noted(t, Notes),
         NEW p, NEW r, NEW a, phase' = [phase EXCEPT ![t] = p], raw' = [raw EXCEPT ![t] = r],
         answer' = [answer EXCEPT ![t] = a],
         dropped' = dropped \/ dropped' = dropped \cup {t},
         \/ memory' = memory
         \/ /\ memory' = [memory EXCEPT ![request[t].row] = [by |-> t, label |-> Calls!Label(t)]]
            /\ p \in {"publish", "over"} /\ r = raw[t],
         phase[t] = "publish" => p = "over" /\ r = raw[t],
         NEW l \in Calls!Labels,
         announced' = announced \/ (announced' = Append(announced, [task |-> t, label |-> l]) /\ Told([task |-> t, label |-> l])'),
         CallInv(t)'
  PROVE  CallsInv'
<1>1. /\ \A u \in Tasks : phase'[u] = IF u = t THEN p ELSE phase[u]
      /\ \A u \in Tasks : raw'[u] = IF u = t THEN r ELSE raw[u]
      /\ \A u \in Tasks : answer'[u] = IF u = t THEN a ELSE answer[u]
      /\ phase' = [u \in Tasks |-> phase'[u]] /\ raw' = [u \in Tasks |-> raw'[u]] /\ answer' = [u \in Tasks |-> answer'[u]]
  BY DEF CallsInv
<1>2. /\ lifecycle' \in Seq(Notes)
      /\ \A j \in 1..Len(lifecycle) : lifecycle'[j] = lifecycle[j]
      /\ \A u \in Tasks : u # t => Calls!Ends(u)' = Calls!Ends(u) /\ Calls!Starts(u)' = Calls!Starts(u)
      /\ \A u \in Tasks : Calls!Ends(u) \subseteq 1..Len(lifecycle)
  BY NotesOfOthers DEF CallsInv
<1>3. request \in [Tasks -> Delegations] /\ \A u \in Tasks : request[u].row \in Calls!Rows
  BY DEF CallsInv, Calls!Rows
<1>4. \A u \in Tasks : raw'[u] = raw[u] => Calls!Label(u)' = Calls!Label(u)
  BY DEF Calls!Label
<1>5. /\ memory' = [x \in Calls!Rows |-> memory'[x]]
      /\ \A x \in Calls!Rows : memory[x] # Calls!Nobody => memory'[x] # Calls!Nobody
      /\ \A x \in Calls!Rows : RowIs(x)'
  <2>1. CASE memory' = memory
    <3>1. ASSUME NEW x \in Calls!Rows, memory[x] # Calls!Nobody PROVE RowIs(x)'
      <4>1. PICK u \in Tasks : /\ u = memory[x].by /\ request[u].row = x /\ memory[x].label = Calls!Label(u)
                               /\ phase[u] \in {"publish", "over"}
        BY <3>1 DEF CallsInv, RowIs
      <4>2. raw'[u] = raw[u] /\ phase'[u] \in {"publish", "over"}
        BY <1>1, <4>1
      <4>3. Calls!Label(u)' = Calls!Label(u)
        BY <1>4, <4>1, <4>2
      <4> QED BY <2>1, <4>1, <4>2, <4>3 DEF RowIs
    <3> QED BY <2>1, <3>1 DEF CallsInv, RowIs
  <2>2. CASE /\ memory' = [memory EXCEPT ![request[t].row] = [by |-> t, label |-> Calls!Label(t)]]
             /\ p \in {"publish", "over"} /\ r = raw[t]
    <3>1. \A u \in Tasks : raw'[u] = raw[u] /\ Calls!Label(u)' = Calls!Label(u)
      BY <1>1, <1>4, <2>2
    <3>2. memory' = [x \in Calls!Rows |-> IF x = request[t].row THEN [by |-> t, label |-> Calls!Label(t)] ELSE memory[x]]
      BY <2>2 DEF CallsInv
    <3>3. [by |-> t, label |-> Calls!Label(t)].label # Calls!Nobody.label
      BY LabelsAre DEF Calls!Nobody
    <3>4. ASSUME NEW x \in Calls!Rows PROVE RowIs(x)' /\ (memory[x] # Calls!Nobody => memory'[x] # Calls!Nobody)
      <4>1. CASE x = request[t].row
        BY <1>1, <2>2, <3>1, <3>2, <3>3, <4>1 DEF RowIs
      <4>2. CASE x # request[t].row
        <5>1. memory'[x] = memory[x]
          BY <3>2, <4>2
        <5>2. CASE memory[x] = Calls!Nobody
          BY <5>1, <5>2 DEF RowIs
        <5>3. CASE memory[x] # Calls!Nobody
          <6>1. PICK u \in Tasks : /\ u = memory[x].by /\ request[u].row = x /\ memory[x].label = Calls!Label(u)
                                   /\ phase[u] \in {"publish", "over"}
            BY <5>3 DEF CallsInv, RowIs
          <6>2. phase'[u] \in {"publish", "over"}
            BY <1>1, <2>2, <6>1
          <6>3. Calls!Label(u)' = Calls!Label(u)
            BY <3>1
          <6> QED BY <1>1, <5>1, <5>3, <6>1, <6>2, <6>3 DEF RowIs
        <5> QED BY <5>2, <5>3
      <4> QED BY <4>1, <4>2
    <3> QED BY <3>2, <3>4
  <2> QED BY <2>1, <2>2
<1>6. ASSUME NEW u \in Tasks, u # t PROVE CallInv(u)'
  <2>1. /\ phase'[u] = phase[u] /\ raw'[u] = raw[u] /\ answer'[u] = answer[u] /\ request'[u] = request[u]
        /\ u \notin dropped' => u \notin dropped
    BY <1>1, <1>6
  <2>2. Calls!Ends(u)' = Calls!Ends(u) /\ Calls!Starts(u)' = Calls!Starts(u)
        /\ \A j \in Calls!Ends(u) : lifecycle'[j] = lifecycle[j]
    BY <1>2, <1>6
  <2>3. memory[request[u].row] # Calls!Nobody => memory'[request[u].row] # Calls!Nobody
    BY <1>3, <1>5
  <2>4. CallInv(u)
    BY DEF CallsInv
  <2> QED BY <2>1, <2>2, <2>3, <2>4 DEF CallInv
<1>7. ASSUME NEW b, Told(b) PROVE Told(b)'
  <2>1. PICK u \in Tasks : u = b.task /\ u # t
    BY <1>7 DEF Told
  <2>2. phase'[u] = phase[u] /\ raw'[u] = raw[u] /\ answer'[u] = answer[u] /\ Calls!Label(u)' = Calls!Label(u)
    BY <1>1, <1>4, <2>1
  <2>3. Calls!Ends(u)' = Calls!Ends(u) /\ \A j \in Calls!Ends(u) : lifecycle'[j] = lifecycle[j]
    BY <1>2, <2>1
  <2>4. memory[request[u].row] # Calls!Nobody => memory'[request[u].row] # Calls!Nobody
    BY <1>3, <1>5, <2>1
  <2> QED BY <1>7, <2>1, <2>2, <2>3, <2>4 DEF Told
<1>8. /\ announced' \in Seq([task : Tasks, label : Calls!Labels])
      /\ \A b : (\E i \in 1..Len(announced') : b = announced'[i]) => Told(b)'
  <2>1. CASE announced' = announced
    <3>1. ASSUME NEW i \in 1..Len(announced), NEW b, b = announced[i] PROVE Told(b)
      BY <3>1 DEF CallsInv
    <3> QED BY <1>7, <2>1, <3>1 DEF CallsInv
  <2>2. CASE announced' = Append(announced, [task |-> t, label |-> l]) /\ Told([task |-> t, label |-> l])'
    <3>1. [task |-> t, label |-> l] \in [task : Tasks, label : Calls!Labels]
      OBVIOUS
    <3>2. /\ announced' \in Seq([task : Tasks, label : Calls!Labels]) /\ Len(announced) \in Nat
          /\ Len(announced') = Len(announced) + 1
          /\ announced'[Len(announced) + 1] = [task |-> t, label |-> l]
          /\ \A i \in 1..Len(announced) : announced'[i] = announced[i]
      BY <2>2, <3>1 DEF CallsInv
    <3>3. ASSUME NEW i \in 1..Len(announced'), NEW b, b = announced'[i] PROVE Told(b)'
      <4>1. CASE i \in 1..Len(announced)
        <5>1. Told(b)
          BY <3>2, <3>3, <4>1 DEF CallsInv
        <5> QED BY <1>7, <5>1
      <4>2. CASE i = Len(announced) + 1
        BY <2>2, <3>2, <3>3, <4>2
      <4> QED BY <3>2, <4>1, <4>2
    <3> QED BY <3>2, <3>3
  <2> QED BY <2>1, <2>2
<1>9. \A u \in Tasks : CallInv(u)'
  BY <1>6
<1>10. \A i \in 1..Len(announced') : Told(announced[i])'
  <2>1. ASSUME NEW i \in 1..Len(announced') PROVE Told(announced[i])'
    <3>1. PICK b : b = announced'[i]
      OBVIOUS
    <3>2. Told(b)'
      BY <1>8, <3>1
    <3> QED BY <3>1, <3>2 DEF Told
  <2> QED BY <2>1
<1> QED BY <1>1, <1>2, <1>3, <1>5, <1>8, <1>9, <1>10 DEF CallsInv

LEMMA BestEffortNotes ==
  ASSUME NEW t \in Tasks, NEW e \in Notes, e.task = t, Calls!BestEffort(t, e)
  PROVE  /\ Noted(t, Notes) /\ (dropped' = dropped \/ dropped' = dropped \cup {t})
         /\ \/ request[t].tracked /\ lifecycle' = Append(lifecycle, e) /\ dropped' = dropped
            \/ lifecycle' = lifecycle /\ (request[t].tracked => t \in dropped')
  BY DEF Calls!BestEffort, Noted

\* A last note of t closes its lifecycle, or is lost.
LEMMA LastNote ==
  ASSUME CallsInv, NEW t \in Tasks, Calls!Ends(t) = {}, NEW status \in {"success", "failed"},
         Calls!BestEffort(t, [type |-> "SubAgentTaskCompleted", task |-> t, status |-> status])
  PROVE  /\ Noted(t, Notes) /\ (dropped' = dropped \/ dropped' = dropped \cup {t})
         /\ Calls!Starts(t)' = Calls!Starts(t)
         /\ \A j \in Calls!Ends(t)' : lifecycle'[j].status = status
         /\ \A i, j \in Calls!Ends(t)' : i = j
         /\ \A i \in Calls!Starts(t)', j \in Calls!Ends(t)' : i < j
         /\ Calls!Starts(t)' # {} /\ t \notin dropped' => Calls!Ends(t)' # {}
<1> DEFINE e == [type |-> "SubAgentTaskCompleted", task |-> t, status |-> status]
<1>1. e \in Notes /\ e.task = t /\ lifecycle \in Seq(Notes)
  BY DEF Notes, EndNotes, CallsInv
<1>2. /\ Noted(t, Notes) /\ (dropped' = dropped \/ dropped' = dropped \cup {t})
      /\ \/ request[t].tracked /\ lifecycle' = Append(lifecycle, e) /\ dropped' = dropped
         \/ lifecycle' = lifecycle /\ (request[t].tracked => t \in dropped')
  BY <1>1, BestEffortNotes
<1>3. Calls!Starts(t) # {} => request[t].tracked
  BY DEF CallsInv, CallInv
<1>4. CASE lifecycle' = Append(lifecycle, e)
  <2>1. /\ Calls!Starts(t)' = Calls!Starts(t) /\ Calls!Ends(t)' = {Len(lifecycle) + 1}
        /\ lifecycle'[Len(lifecycle) + 1].status = status /\ \A i \in Calls!Starts(t) : i < Len(lifecycle) + 1
    BY <1>1, <1>4, NoteEnds
  <2> QED BY <1>2, <2>1
<1>5. CASE lifecycle' = lifecycle /\ (request[t].tracked => t \in dropped')
  <2>1. Calls!Starts(t)' = Calls!Starts(t) /\ Calls!Ends(t)' = {}
    BY <1>5 DEF Calls!Starts, Calls!Ends
  <2> QED BY <1>2, <1>3, <1>5, <2>1
<1> QED BY <1>2, <1>4, <1>5

\* A step that notes nothing.
LEMMA QuietStep ==
  ASSUME CallsInv, NEW t \in Tasks, UNCHANGED <<lifecycle, dropped>>
  PROVE  /\ Noted(t, Notes) /\ Calls!Starts(t)' = Calls!Starts(t) /\ Calls!Ends(t)' = Calls!Ends(t)
  BY DEF Noted, Calls!Starts, Calls!Ends

LEMMA CallsKept == CallsInv /\ Calls!Next => CallsInv'
<1> SUFFICES ASSUME CallsInv, NEW t \in Tasks, Calls!Call(t) PROVE CallsInv'
  BY DEF Calls!Next
<1>0. /\ CallInv(t) /\ Calls!Label(t) \in Calls!Labels /\ Calls!Label(t) \notin {"none", "raised"}
      /\ request[t] \in Delegations /\ request[t].row \in Calls!Rows
      /\ phase = [u \in Tasks |-> phase[u]] /\ raw = [u \in Tasks |-> raw[u]] /\ answer = [u \in Tasks |-> answer[u]]
      /\ memory = [r \in Calls!Rows |-> memory[r]]
  BY LabelsAre DEF CallsInv, Calls!Rows
<1>1. CASE Calls!Reject(t)
  <2>1. /\ phase[t] = "begin" /\ phase' = [phase EXCEPT ![t] = "over"] /\ raw' = [raw EXCEPT ![t] = raw[t]]
        /\ answer' = [answer EXCEPT ![t] = "raised"] /\ UNCHANGED <<request, lifecycle, dropped, memory, announced>>
    BY <1>0, <1>1 DEF Calls!Reject, Calls!Answer, Calls!Go
  <2>2. Noted(t, Notes) /\ Calls!Starts(t)' = Calls!Starts(t) /\ Calls!Ends(t)' = Calls!Ends(t)
    BY <2>1, QuietStep
  <2>3. CallInv(t)'
    BY <1>0, <2>1, <2>2 DEF CallInv
  <2> QED BY <1>0, <2>1, <2>2, <2>3, StepOf
<1>2. CASE Calls!Announce(t)
  <2> DEFINE e == [type |-> "SubAgentTaskStarted", task |-> t]
  <2>1. /\ phase[t] = "begin" /\ phase' = [phase EXCEPT ![t] = "spawn"] /\ raw' = [raw EXCEPT ![t] = raw[t]]
        /\ answer' = [answer EXCEPT ![t] = answer[t]] /\ Calls!BestEffort(t, e) /\ UNCHANGED <<request, memory, announced>>
    BY <1>0, <1>2 DEF Calls!Announce, Calls!Go
  <2>2. e \in Notes /\ e.task = t
    BY DEF Notes, StartNotes
  <2>3. /\ Noted(t, Notes) /\ (dropped' = dropped \/ dropped' = dropped \cup {t})
        /\ \/ request[t].tracked /\ lifecycle' = Append(lifecycle, e) /\ dropped' = dropped
           \/ lifecycle' = lifecycle /\ (request[t].tracked => t \in dropped')
    BY <2>1, <2>2, BestEffortNotes
  <2>4. Calls!Ends(t)' = {} /\ (Calls!Starts(t)' # {} => request[t].tracked)
    <3>1. CASE lifecycle' = lifecycle
      BY <1>0, <2>1, <3>1 DEF CallInv, Calls!Ends, Calls!Starts
    <3>2. CASE lifecycle' = Append(lifecycle, e) /\ request[t].tracked
      <4>1. Calls!Ends(t)' = Calls!Ends(t)
        BY <3>2, NoteStarts DEF CallsInv
      <4> QED BY <1>0, <2>1, <3>2, <4>1 DEF CallInv
    <3> QED BY <2>3, <3>1, <3>2
  <2>5. CallInv(t)'
    BY <1>0, <2>1, <2>4 DEF CallInv
  <2> QED BY <1>0, <2>1, <2>3, <2>5, StepOf
<1>3. CASE Calls!Spawn(t)
  <2>1. PICK status \in {"success", "failed"} : raw' = [raw EXCEPT ![t] = status]
    BY <1>3 DEF Calls!Spawn
  <2>2. /\ phase[t] = "spawn" /\ phase' = [phase EXCEPT ![t] = "complete"]
        /\ answer' = [answer EXCEPT ![t] = answer[t]] /\ UNCHANGED <<request, lifecycle, dropped, memory, announced>>
    BY <1>0, <1>3 DEF Calls!Spawn, Calls!Go
  <2>3. Noted(t, Notes) /\ Calls!Starts(t)' = Calls!Starts(t) /\ Calls!Ends(t)' = Calls!Ends(t)
    BY <2>2, QuietStep
  <2>4. CallInv(t)'
    BY <1>0, <2>1, <2>2, <2>3 DEF CallInv
  <2> QED BY <1>0, <2>1, <2>2, <2>3, <2>4, StepOf
<1>4. CASE Calls!SpawnRaises(t)
  <2>1. /\ phase[t] = "spawn" /\ phase' = [phase EXCEPT ![t] = "over"] /\ raw' = [raw EXCEPT ![t] = raw[t]]
        /\ answer' = [answer EXCEPT ![t] = "raised"] /\ UNCHANGED <<request, memory, announced>>
        /\ Calls!BestEffort(t, [type |-> "SubAgentTaskCompleted", task |-> t, status |-> "failed"])
    BY <1>0, <1>4 DEF Calls!SpawnRaises, Calls!Answer, Calls!Go
  <2>2. /\ Noted(t, Notes) /\ (dropped' = dropped \/ dropped' = dropped \cup {t})
        /\ Calls!Starts(t)' = Calls!Starts(t)
        /\ \A i, j \in Calls!Ends(t)' : i = j
        /\ \A i \in Calls!Starts(t)', j \in Calls!Ends(t)' : i < j
        /\ Calls!Starts(t)' # {} /\ t \notin dropped' => Calls!Ends(t)' # {}
    BY <1>0, <2>1, LastNote DEF CallInv
  <2>3. CallInv(t)'
    BY <1>0, <2>1, <2>2 DEF CallInv
  <2> QED BY <1>0, <2>1, <2>2, <2>3, StepOf
<1>5. CASE Calls!Complete(t)
  <2>1. /\ phase[t] = "complete" /\ phase' = [phase EXCEPT ![t] = "write"] /\ raw' = [raw EXCEPT ![t] = raw[t]]
        /\ answer' = [answer EXCEPT ![t] = answer[t]] /\ UNCHANGED <<request, memory, announced>>
        /\ Calls!BestEffort(t, [type |-> "SubAgentTaskCompleted", task |-> t, status |-> raw[t]])
        /\ raw[t] \in {"success", "failed"}
    BY <1>0, <1>5 DEF Calls!Complete, Calls!Go, CallInv
  <2>2. /\ Noted(t, Notes) /\ (dropped' = dropped \/ dropped' = dropped \cup {t})
        /\ Calls!Starts(t)' = Calls!Starts(t)
        /\ \A j \in Calls!Ends(t)' : lifecycle'[j].status = raw[t]
        /\ \A i, j \in Calls!Ends(t)' : i = j
        /\ \A i \in Calls!Starts(t)', j \in Calls!Ends(t)' : i < j
        /\ Calls!Starts(t)' # {} /\ t \notin dropped' => Calls!Ends(t)' # {}
    BY <1>0, <2>1, LastNote DEF CallInv
  <2>3. CallInv(t)'
    BY <1>0, <2>1, <2>2 DEF CallInv
  <2> QED BY <1>0, <2>1, <2>2, <2>3, StepOf
<1>6. CASE Calls!Write(t)
  <2>1. phase[t] = "write" /\ raw' = [raw EXCEPT ![t] = raw[t]] /\ UNCHANGED <<request, lifecycle, dropped, announced>>
    BY <1>0, <1>6 DEF Calls!Write
  <2>2. Noted(t, Notes) /\ Calls!Starts(t)' = Calls!Starts(t) /\ Calls!Ends(t)' = Calls!Ends(t)
    BY <2>1, QuietStep
  <2>3. CASE /\ memory' = [memory EXCEPT ![request[t].row] = [by |-> t, label |-> Calls!Label(t)]]
             /\ Calls!Go(t, "publish") /\ UNCHANGED answer
    <3>1. phase' = [phase EXCEPT ![t] = "publish"] /\ answer' = [answer EXCEPT ![t] = answer[t]]
      BY <1>0, <2>3 DEF Calls!Go
    <3>2. memory'[request[t].row] # Calls!Nobody
      <4>1. memory'[request[t].row].label # Calls!Nobody.label
        BY <1>0, <2>3 DEF Calls!Nobody
      <4> QED BY <4>1
    <3>3. CallInv(t)'
      BY <1>0, <2>1, <2>2, <3>1, <3>2 DEF CallInv
    <3> QED BY <1>0, <2>1, <2>2, <2>3, <3>1, <3>3, StepOf
  <2>4. CASE Calls!Answer(t, "raised") /\ UNCHANGED memory
    <3>1. phase' = [phase EXCEPT ![t] = "over"] /\ answer' = [answer EXCEPT ![t] = "raised"]
      BY <2>4 DEF Calls!Go, Calls!Answer
    <3>2. CallInv(t)'
      BY <1>0, <2>1, <2>2, <2>4, <3>1 DEF CallInv
    <3> QED BY <1>0, <2>1, <2>2, <2>4, <3>1, <3>2, StepOf
  <2> QED BY <1>6, <2>3, <2>4 DEF Calls!Write
<1>7. CASE Calls!Publish(t)
  <2>1. /\ phase[t] = "publish" /\ phase' = [phase EXCEPT ![t] = "over"] /\ raw' = [raw EXCEPT ![t] = raw[t]]
        /\ answer' = [answer EXCEPT ![t] = Calls!Label(t)] /\ UNCHANGED <<request, lifecycle, dropped, memory>>
        /\ announced' = Append(announced, [task |-> t, label |-> Calls!Label(t)])
    BY <1>0, <1>7 DEF Calls!Publish, Calls!Answer, Calls!Go
  <2>2. Noted(t, Notes) /\ Calls!Starts(t)' = Calls!Starts(t) /\ Calls!Ends(t)' = Calls!Ends(t)
    BY <2>1, QuietStep
  <2>3. PICK l \in Calls!Labels : l = Calls!Label(t)
    BY <1>0
  <2>4. CallInv(t)'
    BY <1>0, <2>1, <2>2 DEF CallInv
  <2>5. Calls!Label(t)' = l
    BY <1>0, <2>1, <2>3 DEF Calls!Label
  <2>6. Told([task |-> t, label |-> l])'
    BY <1>0, <2>1, <2>2, <2>3, <2>5 DEF Told, CallInv
  <2> QED BY <1>0, <2>1, <2>2, <2>3, <2>4, <2>6, StepOf
<1>8. CASE Calls!RunSubagent(t)
  <2>1. phase[t] = "begin" /\ UNCHANGED <<request, lifecycle, dropped, memory, announced>>
    BY <1>8 DEF Calls!RunSubagent
  <2>2. Noted(t, Notes) /\ Calls!Starts(t)' = Calls!Starts(t) /\ Calls!Ends(t)' = Calls!Ends(t)
    BY <2>1, QuietStep
  <2>3. CASE /\ \E status \in {"success", "failed"} : raw' = [raw EXCEPT ![t] = status]
             /\ Calls!Go(t, "keep") /\ UNCHANGED answer
    <3>1. PICK status \in {"success", "failed"} : raw' = [raw EXCEPT ![t] = status]
      BY <2>3
    <3>2. phase' = [phase EXCEPT ![t] = "keep"] /\ answer' = [answer EXCEPT ![t] = answer[t]]
      BY <1>0, <2>3 DEF Calls!Go
    <3>3. CallInv(t)'
      BY <1>0, <2>1, <2>2, <3>1, <3>2 DEF CallInv
    <3> QED BY <1>0, <2>1, <2>2, <3>1, <3>2, <3>3, StepOf
  <2>4. CASE Calls!Answer(t, "raised") /\ UNCHANGED raw
    <3>1. /\ phase' = [phase EXCEPT ![t] = "over"] /\ answer' = [answer EXCEPT ![t] = "raised"]
          /\ raw' = [raw EXCEPT ![t] = raw[t]]
      BY <1>0, <2>4 DEF Calls!Go, Calls!Answer
    <3>2. CallInv(t)'
      BY <1>0, <2>1, <2>2, <3>1 DEF CallInv
    <3> QED BY <1>0, <2>1, <2>2, <3>1, <3>2, StepOf
  <2> QED BY <1>8, <2>3, <2>4 DEF Calls!RunSubagent
<1>9. CASE Calls!Keep(t)
  <2>1. phase[t] = "keep" /\ raw' = [raw EXCEPT ![t] = raw[t]] /\ UNCHANGED <<request, lifecycle, dropped, announced>>
    BY <1>0, <1>9 DEF Calls!Keep
  <2>2. Noted(t, Notes) /\ Calls!Starts(t)' = Calls!Starts(t) /\ Calls!Ends(t)' = Calls!Ends(t)
    BY <2>1, QuietStep
  <2>3. ASSUME NEW a \in Calls!Labels \cup {"raised"}, Calls!Answer(t, a),
               \/ memory' = memory
               \/ memory' = [memory EXCEPT ![request[t].row] = [by |-> t, label |-> Calls!Label(t)]]
        PROVE  CallsInv'
    <3>1. phase' = [phase EXCEPT ![t] = "over"] /\ answer' = [answer EXCEPT ![t] = a] /\ a # "none"
      BY <2>3 DEF Calls!Go, Calls!Answer, Calls!Labels
    <3>2. CallInv(t)'
      BY <1>0, <2>1, <2>2, <2>3, <3>1 DEF CallInv
    <3> QED BY <1>0, <2>1, <2>2, <2>3, <3>1, <3>2, StepOf
  <2> QED BY <1>0, <1>9, <2>3 DEF Calls!Keep
<1> QED BY <1>1, <1>2, <1>3, <1>4, <1>5, <1>6, <1>7, <1>8, <1>9 DEF Calls!Call

LEMMA OneAtMost == ASSUME NEW S, \A i, j \in S : i = j PROVE Cardinality(S) <= 1
<1>1. CASE S = {}
  BY <1>1, FS_EmptySet
<1>2. CASE S # {}
  <2>1. PICK x \in S : S = {x}
    BY <1>2
  <2> QED BY <2>1, FS_Singleton
<1> QED BY <1>1, <1>2

LEMMA CallsSay == CallsInv => Calls!TypeOK /\ Calls!LifecyclesClosed /\ Calls!OneStory
<1> SUFFICES ASSUME CallsInv PROVE Calls!TypeOK /\ Calls!LifecyclesClosed /\ Calls!OneStory
  OBVIOUS
<1>1. Calls!TypeOK
  <2>1. \A t \in Tasks : request[t] \in Delegations /\ request[t].goal \in Calls!GoalStatuses
    BY DelegationsAssumption DEF CallsInv, Calls!RequestsAreRecords
  <2>2. \A t \in Tasks : /\ raw[t] \in {"none", "success", "failed"} /\ answer[t] \in Calls!Labels \cup {"raised", "none"}
                         /\ (answer[t] = "none") # Calls!Over(t)
    BY DEF CallsInv, CallInv, Calls!Over
  <2>3. \A r \in Calls!Rows : memory[r] = Calls!Nobody \/ (memory[r].by \in Tasks /\ memory[r].label \in Calls!Labels)
    <3>1. ASSUME NEW r \in Calls!Rows, memory[r] # Calls!Nobody
          PROVE  memory[r].by \in Tasks /\ memory[r].label \in Calls!Labels
      <4>1. PICK t \in Tasks : t = memory[r].by /\ memory[r].label = Calls!Label(t)
        BY <3>1 DEF CallsInv, RowIs
      <4> QED BY <4>1, LabelsAre
    <3> QED BY <3>1
  <2> QED BY <2>1, <2>2, <2>3 DEF Calls!TypeOK
<1>2. Calls!LifecyclesClosed
  <2>1. \A t \in Tasks : CallInv(t)
    BY DEF CallsInv
  <2>2. ASSUME NEW t \in Tasks PROVE Cardinality(Calls!Ends(t)) <= 1
    <3>1. \A i, j \in Calls!Ends(t) : i = j
      BY <2>1 DEF CallInv
    <3> QED BY <3>1, OneAtMost
  <2>3. ASSUME NEW t \in Tasks
        PROVE  /\ \A i \in Calls!Starts(t) : \A j \in Calls!Ends(t) : i < j
               /\ (Calls!Over(t) /\ Calls!Starts(t) # {} /\ t \notin dropped) => Calls!Ends(t) # {}
    BY <2>1 DEF CallInv, Calls!Over
  <2> QED BY <2>2, <2>3, CallsCount DEF Calls!LifecyclesClosed
<1>3. Calls!OneStory
  <2> SUFFICES ASSUME NEW i \in DOMAIN announced, NEW t, t = announced[i].task, NEW label, label = announced[i].label
               PROVE  /\ answer[t] = label
                      /\ LET r == memory[request[t].row] IN
                         r # Calls!Nobody /\ (r.by = t => r.label = label) /\ (r.by # t => request[r.by].row = request[t].row)
                      /\ \A j \in Calls!Ends(t) : lifecycle[j].status = "success" => label = "completed"
                      /\ label = "completed" => raw[t] = "success" \/ request[t].goal = "completed"
    BY DEF Calls!OneStory
  <2>1. Told(announced[i]) /\ t \in Tasks /\ label = Calls!Label(t)
    <3>1. i \in 1..Len(announced)
      BY DEF CallsInv
    <3>2. Told(announced[i])
      BY <3>1 DEF CallsInv
    <3> QED BY <3>2 DEF Told
  <2>2. request[t].row \in Calls!Rows
    BY <2>1 DEF CallsInv, Calls!Rows
  <2>3. RowIs(request[t].row)
    BY <2>2 DEF CallsInv
  <2> QED BY <2>1, <2>3, LabelsAre DEF Told, RowIs
<1> QED BY <1>1, <1>2, <1>3

-----------------------------------------------------------------------------
(* Orchestrate *)

Hows == {"completed", "failed", "blocked", "exception"}
Gathered == [index : Nat, minimal : BOOLEAN, status : {"completed", "failed", "blocked"}]
Allowed == IF limit > 1 THEN limit ELSE 1

\* A result that was gathered is the one of a subtask that has ended.
GatheredIs(g) ==
  /\ g.index \in 1..Len(plan) /\ worker[g.index] \in Hows
  /\ g.status = IF worker[g.index] = "exception" THEN "failed" ELSE worker[g.index]

Synthesized ==
  /\ Len(gathered) = Len(plan) /\ outcome.count = Len(gathered)
  /\ \/ tree = <<>>
     \/ tree = [k \in 1..Len(gathered) |-> [id |-> plan[gathered[k].index], status |-> gathered[k].status]]

FanInv ==
  /\ limit \in Int /\ plan \in Seq(STRING) /\ (plan = <<>> \/ plan \in Plans)
  /\ phase \in {"decompose", "work", "over"}
  /\ worker = [i \in 1..Len(plan) |-> worker[i]]
  /\ \A i \in 1..Len(plan) : worker[i] \in Hows \cup {"waiting", "running"}
  /\ Fan!Active \subseteq 1..Len(plan) /\ IsFiniteSet(Fan!Active) /\ Cardinality(Fan!Active) <= Allowed
  /\ gathered \in Seq(Gathered) /\ \A k \in 1..Len(gathered) : GatheredIs(gathered[k])
  /\ \A j, k \in 1..Len(gathered) : gathered[j].index = gathered[k].index => j = k
  /\ phase = "decompose" => plan = <<>> /\ gathered = <<>>
  /\ outcome.status \in {"none", "failed", "raised", "success"}
  /\ outcome.status # "none" => phase = "over"
  /\ outcome.status = "raised" => ~Fan!Parallel
  /\ outcome.status = "success" => Synthesized

LEMMA FanInit == Fan!Init => FanInv
<1> SUFFICES ASSUME Fan!Init PROVE FanInv
  OBVIOUS
<1>1. /\ limit \in Int /\ plan = <<>> /\ worker = <<>> /\ gathered = <<>> /\ phase = "decompose"
      /\ outcome.status = "none"
  BY PlansAssumption DEF Fan!Init, Fan!PlansAreSequences
<1>2. Fan!Active = {}
  BY <1>1 DEF Fan!Active, Fan!Subtasks
<1>3. IsFiniteSet(Fan!Active) /\ Cardinality(Fan!Active) = 0 /\ 0 <= Allowed
  BY <1>1, <1>2, FS_EmptySet DEF Allowed
<1>4. Len(plan) = 0 /\ Len(gathered) = 0 /\ plan \in Seq(STRING) /\ gathered \in Seq(Gathered)
      /\ worker = [i \in 1..Len(plan) |-> worker[i]]
  BY <1>1
<1> QED BY <1>1, <1>2, <1>3, <1>4 DEF FanInv

LEMMA FanKept == FanInv /\ Fan!Next => FanInv'
<1> SUFFICES ASSUME FanInv, Fan!Next PROVE FanInv'
  OBVIOUS
<1>0. Fan!Subtasks = 1..Len(plan) /\ Len(plan) \in Nat /\ Len(gathered) \in Nat /\ DOMAIN gathered = 1..Len(gathered)
  BY DEF FanInv, Fan!Subtasks
<1>1. CASE Fan!Refuse
  <2>1. UNCHANGED <<plan, limit, worker, gathered, tree>> /\ phase' = "over" /\ outcome'.status = "failed" /\ phase = "decompose"
    BY <1>1 DEF Fan!Refuse
  <2>2. Fan!Active' = Fan!Active /\ Allowed' = Allowed
    BY <2>1 DEF Fan!Active, Fan!Subtasks, Allowed
  <2> QED BY <2>1, <2>2 DEF FanInv, GatheredIs
<1>2. CASE Fan!Decompose
  <2>1. /\ plan' \in Plans /\ plan' \in Seq(STRING) /\ worker' = [i \in 1..Len(plan') |-> "waiting"]
        /\ phase' = "work" /\ phase = "decompose" /\ UNCHANGED <<limit, gathered, tree, outcome>>
    BY <1>2, PlansAssumption DEF Fan!Decompose, Fan!PlansAreSequences
  <2>2. Fan!Active' = {}
    BY <2>1 DEF Fan!Active, Fan!Subtasks
  <2>3. IsFiniteSet(Fan!Active') /\ Cardinality(Fan!Active') = 0 /\ 0 <= Allowed'
    BY <2>1, <2>2, FS_EmptySet DEF Allowed, FanInv
  <2>4. gathered' = <<>> /\ gathered' \in Seq(Gathered) /\ Len(gathered') = 0 /\ outcome'.status = "none"
    BY <2>1 DEF FanInv
  <2>5. worker' = [i \in 1..Len(plan') |-> worker'[i]] /\ \A i \in 1..Len(plan') : worker'[i] = "waiting"
    BY <2>1
  <2> QED BY <2>1, <2>2, <2>3, <2>4, <2>5 DEF FanInv
<1>3. CASE Fan!Synthesize
  <2>1. /\ UNCHANGED <<plan, limit, worker, gathered>> /\ phase' = "over" /\ outcome'.status = "success"
        /\ phase = "work" /\ Len(gathered) = Len(plan) /\ outcome'.count = Len(gathered)
        /\ \/ tree' = <<>>
           \/ tree' = [k \in 1..Len(gathered) |-> [id |-> plan[gathered[k].index], status |-> gathered[k].status]]
    BY <1>0, <1>3 DEF Fan!Synthesize
  <2>2. Fan!Active' = Fan!Active /\ Allowed' = Allowed
    BY <2>1 DEF Fan!Active, Fan!Subtasks, Allowed
  <2>3. Synthesized'
    BY <2>1 DEF Synthesized
  <2> QED BY <2>1, <2>2, <2>3 DEF FanInv, GatheredIs
<1>4. ASSUME NEW i \in 1..Len(plan), Fan!Begin(i) PROVE FanInv'
  <2>1. /\ worker' = [worker EXCEPT ![i] = "running"] /\ worker[i] = "waiting" /\ phase = "work"
        /\ UNCHANGED <<plan, limit, phase, gathered, tree, outcome>>
    BY <1>4 DEF Fan!Begin
  <2>2. worker' = [j \in 1..Len(plan) |-> IF j = i THEN "running" ELSE worker[j]]
    BY <2>1 DEF FanInv
  <2>3. Fan!Active' = Fan!Active \cup {i}
    BY <1>0, <2>1, <2>2 DEF Fan!Active, Fan!Subtasks
  <2>4. i \notin Fan!Active /\ IsFiniteSet(Fan!Active') /\ Cardinality(Fan!Active') = Cardinality(Fan!Active) + 1
    <3>1. i \notin Fan!Active /\ IsFiniteSet(Fan!Active)
      BY <2>1 DEF FanInv, Fan!Active
    <3> QED BY <2>3, <3>1, FS_AddElement
  <2>5. Cardinality(Fan!Active) + 1 <= Allowed
    <3>1. Cardinality(Fan!Active) \in Nat
      BY FS_CardinalityType DEF FanInv
    <3>2. CASE Fan!Parallel
      <4>1. Cardinality(Fan!Active) < Fan!Width /\ limit > 1
        BY <1>4, <3>2, FanCount DEF Fan!Begin, Fan!Parallel
      <4>2. Fan!Width \in Int /\ Fan!Width <= limit
        BY <1>0 DEF FanInv, Fan!Width
      <4> QED BY <3>1, <4>1, <4>2 DEF Allowed, FanInv
    <3>3. CASE ~Fan!Parallel
      <4>1. Cardinality(Fan!Active) = 0
        BY <1>4, <3>3, FS_EmptySet DEF Fan!Begin
      <4> QED BY <4>1 DEF Allowed, FanInv
    <3> QED BY <3>2, <3>3
  <2>6. \A k \in 1..Len(gathered) : GatheredIs(gathered[k])'
    <3>1. ASSUME NEW k \in 1..Len(gathered) PROVE GatheredIs(gathered[k])'
      <4>1. GatheredIs(gathered[k]) /\ gathered[k].index # i
        BY <2>1 DEF FanInv, GatheredIs, Hows
      <4> QED BY <2>1, <2>2, <4>1 DEF GatheredIs
    <3> QED BY <3>1
  <2>7. Allowed' = Allowed /\ (Fan!Parallel' <=> Fan!Parallel) /\ outcome.status = "none"
    BY <2>1 DEF Allowed, Fan!Parallel, FanInv
  <2>8. worker' = [j \in 1..Len(plan) |-> worker'[j]]
        /\ \A j \in 1..Len(plan) : worker'[j] \in Hows \cup {"waiting", "running"}
    BY <2>2 DEF FanInv
  <2> QED BY <2>1, <2>3, <2>4, <2>5, <2>6, <2>7, <2>8 DEF FanInv
<1>5. ASSUME NEW i \in 1..Len(plan), Fan!End(i) PROVE FanInv'
  <2>1. PICK how \in Hows : worker' = [worker EXCEPT ![i] = how]
    BY <1>5 DEF Fan!End, Hows
  <2>2. /\ worker[i] = "running" /\ phase = "work"
        /\ UNCHANGED <<plan, limit, phase, gathered, tree, outcome>>
    BY <1>5 DEF Fan!End
  <2>3. worker' = [j \in 1..Len(plan) |-> IF j = i THEN how ELSE worker[j]] /\ how # "running"
    BY <2>1 DEF FanInv, Hows
  <2>4. Fan!Active' \subseteq Fan!Active
    BY <1>0, <2>2, <2>3 DEF Fan!Active, Fan!Subtasks
  <2>5. IsFiniteSet(Fan!Active') /\ Cardinality(Fan!Active') <= Allowed
    <3>1. IsFiniteSet(Fan!Active) /\ Cardinality(Fan!Active) <= Allowed /\ Allowed \in Int
      BY DEF FanInv, Allowed
    <3>2. IsFiniteSet(Fan!Active') /\ Cardinality(Fan!Active') <= Cardinality(Fan!Active)
      BY <2>4, <3>1, FS_Subset
    <3> QED BY <3>1, <3>2, FS_CardinalityType
  <2>6. \A k \in 1..Len(gathered) : GatheredIs(gathered[k])'
    <3>1. ASSUME NEW k \in 1..Len(gathered) PROVE GatheredIs(gathered[k])'
      <4>1. GatheredIs(gathered[k]) /\ gathered[k].index # i
        BY <2>2 DEF FanInv, GatheredIs, Hows
      <4> QED BY <2>2, <2>3, <4>1 DEF GatheredIs
    <3> QED BY <3>1
  <2>7. Allowed' = Allowed /\ (Fan!Parallel' <=> Fan!Parallel) /\ outcome.status = "none"
    BY <2>2 DEF Allowed, Fan!Parallel, FanInv
  <2>8. worker' = [j \in 1..Len(plan) |-> worker'[j]]
        /\ \A j \in 1..Len(plan) : worker'[j] \in Hows \cup {"waiting", "running"}
    BY <2>3 DEF FanInv
  <2> QED BY <2>2, <2>4, <2>5, <2>6, <2>7, <2>8 DEF FanInv
<1>6. ASSUME NEW i \in 1..Len(plan), Fan!Gather(i) PROVE FanInv'
  <2>1. /\ UNCHANGED <<plan, limit, worker, tree>> /\ phase = "work" /\ worker[i] \in Hows
        /\ \A j \in 1..Len(gathered) : gathered[j].index # i
    BY <1>0, <1>6 DEF Fan!Gather, Fan!Ended, FanInv
  <2>2. Fan!Active' = Fan!Active /\ Allowed' = Allowed /\ (Fan!Parallel' <=> Fan!Parallel) /\ outcome.status = "none"
    BY <2>1 DEF Fan!Active, Fan!Subtasks, Allowed, Fan!Parallel, FanInv
  <2>3. CASE worker[i] = "exception" /\ ~Fan!Parallel
    <3>1. phase' = "over" /\ outcome'.status = "raised" /\ gathered' = gathered
      BY <1>6, <2>3 DEF Fan!Gather
    <3> QED BY <2>1, <2>2, <2>3, <3>1 DEF FanInv, GatheredIs
  <2>4. CASE ~(worker[i] = "exception" /\ ~Fan!Parallel)
    <3>1. PICK minimal \in BOOLEAN : gathered' = Append(gathered, Fan!Result(i, minimal))
      BY <1>6, <2>4 DEF Fan!Gather
    <3>2. UNCHANGED <<phase, outcome>>
      BY <1>6, <2>4 DEF Fan!Gather
    <3>3. PICK g \in Gathered : g = Fan!Result(i, minimal)
      <4>1. PICK status \in {"completed", "failed", "blocked"} :
                status = IF worker[i] = "exception" THEN "failed" ELSE worker[i]
        BY <2>1 DEF Hows
      <4>2. Fan!Result(i, minimal) = [index |-> i, minimal |-> minimal, status |-> status]
        BY <4>1 DEF Fan!Result
      <4>3. i \in Nat
        OBVIOUS
      <4> QED BY <4>2, <4>3 DEF Gathered
    <3>4. GatheredIs(g) /\ g.index = i
      BY <2>1, <3>3 DEF Fan!Result, GatheredIs
    <3>5. /\ gathered' \in Seq(Gathered) /\ Len(gathered') = Len(gathered) + 1
          /\ gathered'[Len(gathered) + 1] = g /\ \A k \in 1..Len(gathered) : gathered'[k] = gathered[k]
      BY <3>1, <3>3 DEF FanInv
    <3>6. \A k \in 1..Len(gathered') : GatheredIs(gathered[k])'
      <4>1. ASSUME NEW k \in 1..Len(gathered') PROVE GatheredIs(gathered[k])'
        <5>1. PICK h : h = gathered'[k] /\ GatheredIs(h)
          BY <1>0, <3>4, <3>5 DEF FanInv
        <5> QED BY <2>1, <5>1 DEF GatheredIs
      <4> QED BY <4>1
    <3>7. ASSUME NEW j \in 1..Len(gathered'), NEW k \in 1..Len(gathered'), gathered'[j].index = gathered'[k].index
          PROVE  j = k
      <4>1. Len(gathered) \in Nat /\ \A m \in 1..Len(gathered') : m \in 1..Len(gathered) \/ m = Len(gathered) + 1
        BY <1>0, <3>5 DEF FanInv
      <4>2. CASE j \in 1..Len(gathered) /\ k \in 1..Len(gathered)
        BY <3>5, <3>7, <4>2 DEF FanInv
      <4>3. j \in 1..Len(gathered) => k # Len(gathered) + 1
        BY <2>1, <3>4, <3>5, <3>7
      <4>4. k \in 1..Len(gathered) => j # Len(gathered) + 1
        BY <2>1, <3>4, <3>5, <3>7
      <4> QED BY <4>1, <4>2, <4>3, <4>4
    <3> QED BY <2>1, <2>2, <3>2, <3>5, <3>6, <3>7 DEF FanInv
  <2> QED BY <2>3, <2>4
<1> QED BY <1>0, <1>1, <1>2, <1>3, <1>4, <1>5, <1>6 DEF Fan!Next

\* As many different subtasks as there are: every one of them.
LEMMA AllGathered ==
  ASSUME FanInv, Len(gathered) = Len(plan), NEW i \in 1..Len(plan)
  PROVE  \E k \in 1..Len(gathered) : gathered[k].index = i
<1> DEFINE S == 1..Len(plan)
           f == [k \in S |-> gathered[k].index]
<1>1. f \in [S -> S] /\ \A j, k \in S : f[j] = f[k] => j = k
  BY DEF FanInv, GatheredIs
<1>2. f \in Injection(S, S)
  BY <1>1 DEF Injection, IsInjective
<1>3. IsFiniteSet(S)
  <2>1. Len(plan) \in Int /\ 1 \in Int
    BY DEF FanInv
  <2> QED BY <2>1, FS_Interval
<1>4. f \in Surjection(S, S)
  <2> HIDE DEF f, S
  <2> QED BY <1>2, <1>3, FS_Injection
<1>5. PICK k \in S : f[k] = i
  BY <1>4 DEF Surjection
<1> QED BY <1>5

LEMMA FanSays == FanInv => Fan!TypeOK /\ Fan!AllAccountedFor
<1> SUFFICES ASSUME FanInv PROVE Fan!TypeOK /\ Fan!AllAccountedFor
  OBVIOUS
<1>0. Fan!Subtasks = 1..Len(plan) /\ DOMAIN gathered = 1..Len(gathered) /\ DOMAIN worker = 1..Len(plan)
  BY DEF FanInv, Fan!Subtasks
<1>1. Fan!TypeOK
  BY <1>0 DEF Fan!TypeOK, FanInv, Hows
<1>2. Fan!Cardinality(Fan!Active) <= (IF limit > 1 THEN limit ELSE 1)
  BY FanCount DEF FanInv, Allowed
<1>3. \A j, k \in DOMAIN gathered : gathered[j].index = gathered[k].index => j = k
  BY <1>0 DEF FanInv
<1>4. outcome.status = "raised" => ~Fan!Parallel
  BY DEF FanInv
<1>5. ASSUME outcome.status = "success"
      PROVE  /\ \A i \in 1..Len(plan) : \E k \in DOMAIN gathered :
                   /\ gathered[k].index = i
                   /\ gathered[k].status = "completed" <=> worker[i] = "completed"
             /\ outcome.count = Len(plan)
             /\ tree # <<>> => \A i \in 1..Len(plan) : \E k \in DOMAIN tree :
                   tree[k].id = plan[i] /\ (worker[i] = "completed" <=> tree[k].status = "completed")
  <2>1. Synthesized
    BY <1>5 DEF FanInv
  <2>2. ASSUME NEW i \in 1..Len(plan)
        PROVE  /\ \E k \in DOMAIN gathered :
                     /\ gathered[k].index = i
                     /\ gathered[k].status = "completed" <=> worker[i] = "completed"
               /\ tree # <<>> => \E k \in DOMAIN tree :
                     tree[k].id = plan[i] /\ (worker[i] = "completed" <=> tree[k].status = "completed")
    <3>1. PICK k \in 1..Len(gathered) : gathered[k].index = i
      BY <2>1, AllGathered DEF Synthesized
    <3>2. gathered[k].status = "completed" <=> worker[i] = "completed"
      BY <3>1 DEF FanInv, GatheredIs
    <3>3. tree # <<>> => k \in DOMAIN tree /\ tree[k].id = plan[i] /\ tree[k].status = gathered[k].status
      BY <2>1, <3>1 DEF Synthesized
    <3> QED BY <1>0, <3>1, <3>2, <3>3
  <2> QED BY <2>1, <2>2 DEF Synthesized
<1> QED BY <1>0, <1>1, <1>2, <1>3, <1>4, <1>5 DEF Fan!AllAccountedFor

-----------------------------------------------------------------------------
(* One request: a step of one subject is idle for the others *)

LEMMA DagIdle == DagInv /\ UNCHANGED <<phase, dag>> => DagInv'
<1> SUFFICES ASSUME DagInv, UNCHANGED <<phase, dag>> PROVE DagInv'
  OBVIOUS
<1>1. UNCHANGED <<phase, pipeline, wave, thread, results, failed, log>>
  BY DEF dag
<1>2. /\ Dag!Defined' = Dag!Defined /\ Dag!Waves' = Dag!Waves
      /\ (Dag!Circular' <=> Dag!Circular) /\ (Dag!UnknownDependency' <=> Dag!UnknownDependency)
  BY <1>1, SamePipeline
<1>3. LogInv'
  BY <1>1, LogQuiet DEF DagInv
<1>4. \A n \in Dag!Defined : NodeInv(n)'
  <2>1. wave \in Nat
    BY WavesAre DEF DagInv, PhaseInv, Waving
  <2> QED BY <1>1, <2>1, NodeQuiet DEF DagInv
<1>5. PhaseInv'
  BY <1>1, <1>2 DEF DagInv, PhaseInv
<1> QED BY <1>1, <1>2, <1>3, <1>4, <1>5 DEF DagInv

LEMMA FlowIdle == FlowInv /\ UNCHANGED <<phase, flow>> => FlowInv'
<1> SUFFICES ASSUME FlowInv, UNCHANGED <<phase, flow>> PROVE FlowInv'
  OBVIOUS
<1>1. UNCHANGED <<phase, workflow, current, turns, outputs, verdict, records>>
  BY DEF flow
<1>2. \A c \in Callers : RunOf(c)'
  BY <1>1 DEF FlowInv, RunOf
<1> QED BY <1>1, <1>2 DEF FlowInv, OverCallers

LEMMA CallsIdle == CallsInv /\ UNCHANGED <<phase, calls>> => CallsInv'
<1> SUFFICES ASSUME CallsInv, UNCHANGED <<phase, calls>> PROVE CallsInv'
  OBVIOUS
<1>1. UNCHANGED <<phase, request, raw, lifecycle, dropped, memory, announced, answer>>
  BY DEF calls
<1>2. \A t : Calls!Starts(t)' = Calls!Starts(t) /\ Calls!Ends(t)' = Calls!Ends(t) /\ Calls!Label(t)' = Calls!Label(t)
  BY <1>1 DEF Calls!Starts, Calls!Ends, Calls!Label
<1>3. ASSUME NEW t \in Tasks PROVE CallInv(t)'
  <2>1. CallInv(t)
    BY DEF CallsInv
  <2>2. Calls!Starts(t)' = Calls!Starts(t) /\ Calls!Ends(t)' = Calls!Ends(t)
    BY <1>2
  <2>3. phase' = phase /\ request' = request /\ raw' = raw /\ answer' = answer
        /\ lifecycle' = lifecycle /\ dropped' = dropped /\ memory' = memory
    BY <1>1
  <2> QED BY <2>1, <2>2, <2>3 DEF CallInv
<1>4. \A r \in Calls!Rows : RowIs(r)'
  BY <1>1, <1>2 DEF CallsInv, RowIs
<1>5. \A i \in 1..Len(announced) : Told(announced[i])'
  BY <1>1, <1>2 DEF CallsInv, Told
<1> QED BY <1>1, <1>3, <1>4, <1>5 DEF CallsInv

LEMMA FanIdle == FanInv /\ UNCHANGED <<phase, fan>> => FanInv'
<1> SUFFICES ASSUME FanInv, UNCHANGED <<phase, fan>> PROVE FanInv'
  OBVIOUS
<1>1. UNCHANGED <<phase, plan, limit, worker, gathered, tree, outcome>>
  BY DEF fan
<1>2. /\ Fan!Active' = Fan!Active /\ Allowed' = Allowed /\ (Fan!Parallel' <=> Fan!Parallel)
      /\ (Synthesized' <=> Synthesized)
  BY <1>1 DEF Fan!Active, Fan!Subtasks, Allowed, Fan!Parallel, Synthesized
<1>3. \A k \in 1..Len(gathered) : GatheredIs(gathered[k])'
  BY <1>1 DEF FanInv, GatheredIs
<1> QED BY <1>1, <1>2, <1>3 DEF FanInv

LEMMA GatherIdle == GatherInv /\ UNCHANGED interview => GatherInv'
  BY DEF interview, GatherInv, Busy

LEMMA StepOfSubject ==
  [RequestNext]_all =>
    /\ subject' = subject
    /\ subject = "pipeline" => Dag!Next \/ UNCHANGED <<phase, dag>>
    /\ subject = "workflow" => Flow!Next \/ UNCHANGED <<phase, flow>>
    /\ subject = "delegation" => Calls!Next \/ UNCHANGED <<phase, calls>>
    /\ subject = "orchestrate" => Fan!Next \/ UNCHANGED <<phase, fan>>
    /\ subject = "gather" => Gather!Next \/ UNCHANGED interview
<1> SUFFICES ASSUME [RequestNext]_all
             PROVE  /\ subject' = subject
                    /\ subject = "pipeline" => Dag!Next \/ UNCHANGED <<phase, dag>>
                    /\ subject = "workflow" => Flow!Next \/ UNCHANGED <<phase, flow>>
                    /\ subject = "delegation" => Calls!Next \/ UNCHANGED <<phase, calls>>
                    /\ subject = "orchestrate" => Fan!Next \/ UNCHANGED <<phase, fan>>
                    /\ subject = "gather" => Gather!Next \/ UNCHANGED interview
  OBVIOUS
<1>1. CASE GoalStep(Next)
  BY <1>1 DEF GoalStep
<1>2. CASE PipelineStep
  BY <1>2 DEF PipelineStep
<1>3. CASE \E c \in Callers : WorkflowStep(c)
  BY <1>3 DEF WorkflowStep, Flow!Next
<1>4. CASE \E t \in Tasks : DelegationStep(t)
  BY <1>4 DEF DelegationStep, Calls!Next
<1>5. CASE FanOutStep
  BY <1>5 DEF FanOutStep
<1>6. CASE GatherStep
  BY <1>6 DEF GatherStep
<1>7. CASE UNCHANGED all
  BY <1>7 DEF all
<1> QED BY <1>1, <1>2, <1>3, <1>4, <1>5, <1>6, <1>7 DEF RequestNext

-----------------------------------------------------------------------------
(* What holds of every request *)

\* A pipeline starts each node once, after all it depends on has a result that is not a failure, refuses
\* exactly what cannot be sorted, and ends with an outcome for every node; a workflow's report is what
\* happened: PipelineRunner.run and
\* WorkflowRunner.run, for any nodes, states, number of callers and limit of states.
THEOREM FilesStayRun == RequestSpec => []FilesAreRun
<1> DEFINE Inv == (subject = "pipeline" => DagInv) /\ (subject = "workflow" => FlowInv)
<1>1. RequestInit => Inv
  BY DagInit, FlowInit DEF RequestInit
<1>2. Inv /\ [RequestNext]_all => Inv'
  <2> SUFFICES ASSUME Inv, [RequestNext]_all PROVE Inv'
    OBVIOUS
  <2>1. /\ subject' = subject
        /\ subject = "pipeline" => Dag!Next \/ UNCHANGED <<phase, dag>>
        /\ subject = "workflow" => Flow!Next \/ UNCHANGED <<phase, flow>>
    BY StepOfSubject
  <2> QED BY <2>1, DagKept, DagIdle, FlowKept, FlowIdle
<1>3. Inv => FilesAreRun
  BY DagSays, FlowSays DEF FilesAreRun
<1> QED BY <1>1, <1>2, <1>3, PTL DEF RequestSpec

\* No document of an interview leaves out what was asked for, and between callers that do not overlap
\* no answer is lost: the spec_writer skill with the state row it keeps, for any lists and callers.
THEOREM InterviewsStayWhole == RequestSpec => []InterviewsAreWhole
<1> DEFINE Inv == subject = "gather" => GatherInv
<1>1. RequestInit => Inv
  BY GatherInit DEF RequestInit
<1>2. Inv /\ [RequestNext]_all => Inv'
  <2> SUFFICES ASSUME Inv, [RequestNext]_all PROVE Inv'
    OBVIOUS
  <2>1. subject' = subject /\ (subject = "gather" => Gather!Next \/ UNCHANGED interview)
    BY StepOfSubject
  <2> QED BY <2>1, GatherKept, GatherIdle
<1>3. Inv => InterviewsAreWhole
  BY GatherSays DEF InterviewsAreWhole
<1> QED BY <1>1, <1>2, <1>3, PTL DEF RequestSpec

\* Lifecycles are closed, announcement, memory and answer tell one story, and a fan-out accounts for
\* each of its subtasks once: _handle_delegate_task, the delegate_task skill and the orchestrate skill, for any
\* number of calls at the same time, any plan and any width.
THEOREM SubAgentsStayAccountedFor == RequestSpec => []SubAgentsAreAccountedFor
<1> DEFINE Inv == (subject = "delegation" => CallsInv) /\ (subject = "orchestrate" => FanInv)
<1>1. RequestInit => Inv
  BY CallsInit, FanInit DEF RequestInit
<1>2. Inv /\ [RequestNext]_all => Inv'
  <2> SUFFICES ASSUME Inv, [RequestNext]_all PROVE Inv'
    OBVIOUS
  <2>1. /\ subject' = subject
        /\ subject = "delegation" => Calls!Next \/ UNCHANGED <<phase, calls>>
        /\ subject = "orchestrate" => Fan!Next \/ UNCHANGED <<phase, fan>>
    BY StepOfSubject
  <2> QED BY <2>1, CallsKept, CallsIdle, FanKept, FanIdle
<1>3. Inv => SubAgentsAreAccountedFor
  BY CallsSay, FanSays DEF SubAgentsAreAccountedFor
<1> QED BY <1>1, <1>2, <1>3, PTL DEF RequestSpec
=============================================================================
