------------------------------ MODULE ToolProofs ------------------------------
(***************************************************************************)
(* What holds of the tools of the system for any number of calls, callers, *)
(* containers and sessions, and any limits: the calls of an agent's turn   *)
(* (ToolCall) and the calls that share the container engine (Containers),  *)
(* as Tools puts them side by side.                                        *)
(*                                                                         *)
(* A turn: CallInv says what a call has at its stage, CountsHold that no   *)
(* count is above the number of calls that have passed the budget, and     *)
(* WindowInv that the history is the end of the order of all keys and      *)
(* remembers those that have not left it.                                  *)
(* The engine: EngineInv follows every container that a cleanup has seen,  *)
(* or a spawn has returned, to where it is now or to who took it away; a   *)
(* step of one call is one of four changes to the engine, and each of them *)
(* keeps what the other calls know.                                        *)
(***************************************************************************)
EXTENDS Tools, Integers, SequenceFoldProofs, FiniteSetTheorems

-----------------------------------------------------------------------------
(* The calls of a turn: what a call has at its stage.                                           *)
Stages == {"start", "budget", "log", "check", "record", "guarded", "register", "run", "close", "over"}
Keys == {turn[c].key : turn \in Turns, c \in Calls}
Ends == Turn!Outcomes \cup {"cancelled"}
Answers == Ends \cup {"none", "blocked"}

CallTypes ==
    /\ call \in Turns
    /\ stage \in [Calls -> Stages] /\ errors \in [Calls -> BOOLEAN]
    /\ tokens \in [Calls -> {"none", "live", "cancelled"}] /\ work \in [Calls -> {"idle", "running"} \cup Turn!Outcomes]
    /\ answer \in [Calls -> Answers] /\ log \in [Calls -> Seq(Answers \cup {"called"})]
    /\ held \in [Calls -> Nat] /\ spent \in Nat

\* What a call has at its stage.
Unopened == {"start", "budget", "log"}
Opened == {"check", "record", "guarded", "register", "run", "close"}
Waiting == {"check", "record", "guarded", "register"}
Opens(entries) == Len(entries) = 1 /\ entries[1] = "called"
Closes(entries, status) == Len(entries) = 2 /\ entries[1] = "called" /\ entries[2] = status
Shape(c) ==
    /\ stage[c] # "over" => Turn!Asked(c)
    /\ stage[c] \in {"budget", "log"} => Turn!Limited(c)
    /\ stage[c] \in {"check", "record", "guarded"} => Turn!Builtin(c)
    /\ errors[c] => stage[c] \in {"record", "guarded", "close", "over"} /\ work[c] = "idle" /\ answer[c] \in {"none", "error"}
    /\ Turn!Builtin(c) /\ Turn!Objects(c) /\ stage[c] \notin {"start", "check"} => errors[c]
    /\ stage[c] \in Unopened => log[c] = <<>> /\ c \notin lost
    /\ stage[c] \in Opened => Opens(log[c]) \/ c \in lost
    /\ stage[c] \in Unopened \cup Waiting => answer[c] = "none" /\ tokens[c] = "none" /\ work[c] = "idle"
    /\ stage[c] = "run" => answer[c] = "none"
    /\ stage[c] = "close" => answer[c] \in Ends /\ tokens[c] = "none"
    /\ stage[c] = "over" /\ Turn!Asked(c) =>
          /\ tokens[c] = "none"
          /\ \/ answer[c] = "blocked" /\ log[c] = <<>>
             \/ answer[c] \in Ends /\ (Closes(log[c], Turn!Status(c)) \/ c \in lost)
Shapes == \A c \in Calls : Shape(c)

CallInv == CallTypes /\ Shapes

LEMMA CallInit == ASSUME Turn!TurnsAssumption, Turn!Init PROVE CallInv
<1>1. /\ call \in Turns /\ stage = [c \in Calls |-> IF Turn!Asked(c) THEN "start" ELSE "over"]
      /\ errors = [c \in Calls |-> FALSE] /\ held = [c \in Calls |-> 0] /\ spent = 0
      /\ tokens = [c \in Calls |-> "none"] /\ work = [c \in Calls |-> "idle"]
      /\ answer = [c \in Calls |-> "none"] /\ log = [c \in Calls |-> <<>>] /\ lost = {}
  BY DEF Turn!Init
<1>2. CallTypes
  BY <1>1 DEF CallTypes, Stages, Answers
<1>3. Shapes
  <2> SUFFICES ASSUME NEW c \in Calls PROVE Shape(c)
    BY DEF Shapes
  <2>1. stage[c] = (IF Turn!Asked(c) THEN "start" ELSE "over") /\ ~errors[c] /\ log[c] = <<>> /\ c \notin lost
        /\ answer[c] = "none" /\ tokens[c] = "none" /\ work[c] = "idle"
    BY <1>1
  <2>2. Turn!Builtin(c) => Turn!Asked(c)
    BY DEF Turn!Builtin, Turn!Asked
  <2> QED BY <2>1, <2>2 DEF Shape, Unopened, Opened, Waiting
<1> QED BY <1>2, <1>3 DEF CallInv

\* A step of one call leaves the others their shape.
LEMMA OneCall ==
  ASSUME CallInv, NEW c \in Calls, UNCHANGED call, CallTypes', Shape(c)',
         \A d \in Calls : d # c =>
            /\ stage'[d] = stage[d] /\ errors'[d] = errors[d] /\ work'[d] = work[d] /\ tokens'[d] = tokens[d]
            /\ answer'[d] = answer[d] /\ log'[d] = log[d] /\ (d \in lost' <=> d \in lost)
  PROVE  CallInv'
<1>1. ASSUME NEW d \in Calls, d # c PROVE Shape(d)'
  <2>1. Shape(d)
    BY DEF CallInv, Shapes
  <2>2. /\ stage'[d] = stage[d] /\ errors'[d] = errors[d] /\ work'[d] = work[d] /\ tokens'[d] = tokens[d]
        /\ answer'[d] = answer[d] /\ log'[d] = log[d] /\ (d \in lost' <=> d \in lost)
    BY <1>1
  <2>3. /\ Turn!Asked(d)' = Turn!Asked(d) /\ Turn!Limited(d)' = Turn!Limited(d) /\ Turn!Builtin(d)' = Turn!Builtin(d)
        /\ Turn!Objects(d)' = Turn!Objects(d) /\ Turn!Status(d)' = Turn!Status(d)
    BY <2>2 DEF Turn!Asked, Turn!Limited, Turn!Builtin, Turn!Objects, Turn!Status
  <2> QED BY <2>1, <2>2, <2>3 DEF Shape
<1> QED BY <1>1 DEF CallInv, Shapes


LEMMA CallFacts ==
  ASSUME CallInv, NEW c \in Calls
  PROVE  /\ Shape(c) /\ stage[c] \in Stages /\ errors[c] \in BOOLEAN /\ tokens[c] \in {"none", "live", "cancelled"}
         /\ work[c] \in {"idle", "running"} \cup Turn!Outcomes /\ answer[c] \in Answers
         /\ log[c] \in Seq(Answers \cup {"called"}) /\ held[c] \in Nat
BY DEF CallInv, CallTypes, Shapes

LEMMA ReadBudgetKeeps == ASSUME CallInv, NEW c \in Calls, Turn!ReadBudget(c) PROVE CallInv'
<1>1. /\ stage[c] = "start" /\ Turn!Limited(c) /\ stage' = [stage EXCEPT ![c] = "budget"] /\ held' = [held EXCEPT ![c] = spent]
      /\ UNCHANGED <<call, spent, errors, tokens, work, answer, log, lost>>
  BY DEF Turn!ReadBudget, Turn!Go, Turn!guards, Turn!running
<1>2. CallTypes' /\ stage'[c] = "budget" /\ \A d \in Calls : d # c => stage'[d] = stage[d]
  BY <1>1 DEF CallInv, CallTypes, Stages
<1>3. Shape(c)'
  BY <1>1, <1>2, CallFacts DEF Shape, Unopened, Opened, Waiting, Turn!Asked, Turn!Limited, Turn!Builtin
<1> QED BY <1>1, <1>2, <1>3, OneCall

LEMMA TakeBudgetKeeps == ASSUME CallInv, NEW c \in Calls, Turn!TakeBudget(c) PROVE CallInv'
<1>1. /\ stage[c] = "budget" /\ Turn!Limited(c)
      /\ UNCHANGED <<call, held, errors, tokens, work, log, lost>>
      /\ \/ stage' = [stage EXCEPT ![c] = "over"] /\ answer' = [answer EXCEPT ![c] = "blocked"] /\ UNCHANGED spent
         \/ stage' = [stage EXCEPT ![c] = "log"] /\ spent' = held[c] + 1 /\ UNCHANGED answer
  BY DEF Turn!TakeBudget, Turn!Go, Turn!guards, Turn!running
<1>2. CallTypes' /\ \A d \in Calls : d # c => stage'[d] = stage[d] /\ answer'[d] = answer[d]
  <2>1. spent' \in Nat
    BY <1>1 DEF CallInv, CallTypes
  <2>2. /\ stage' \in [Calls -> Stages] /\ answer' \in [Calls -> Answers]
        /\ \A d \in Calls : d # c => stage'[d] = stage[d] /\ answer'[d] = answer[d]
    BY <1>1 DEF CallInv, CallTypes, Stages, Answers
  <2> QED BY <1>1, <2>1, <2>2 DEF CallInv, CallTypes
<1>3. Shape(c) /\ errors[c] \in BOOLEAN /\ stage \in [Calls -> Stages] /\ answer \in [Calls -> Answers]
  BY CallFacts DEF CallInv, CallTypes
<1>4. Shape(c)'
  <2>1. \/ stage'[c] = "over" /\ answer'[c] = "blocked"
        \/ stage'[c] = "log" /\ answer'[c] = answer[c]
    BY <1>1, <1>3
  <2> QED BY <1>1, <1>3, <2>1 DEF Shape, Unopened, Opened, Waiting, Turn!Asked, Turn!Limited, Turn!Builtin
<1> QED BY <1>1, <1>2, <1>4, OneCall

LEMMA AppendFacts ==
  ASSUME NEW M, NEW s \in Seq(M), NEW x \in M
  PROVE  /\ Append(s, x) \in Seq(M) /\ Len(Append(s, x)) = Len(s) + 1 /\ Len(s) \in Nat
         /\ Append(s, x)[Len(s) + 1] = x /\ \A i \in 1..Len(s) : Append(s, x)[i] = s[i]
OBVIOUS

LEMMA PersistWrites ==
  ASSUME CallTypes, NEW c \in Calls, NEW what \in Answers \cup {"called"}, Turn!Persist(c, what)
  PROVE  /\ log' \in [Calls -> Seq(Answers \cup {"called"})]
         /\ \A d \in Calls : d # c => log'[d] = log[d] /\ (d \in lost' <=> d \in lost)
         /\ \/ log'[c] = Append(log[c], what) /\ UNCHANGED lost
            \/ log'[c] = log[c] /\ c \in lost'
<1>1. log \in [Calls -> Seq(Answers \cup {"called"})] /\ log[c] \in Seq(Answers \cup {"called"})
  BY DEF CallTypes
<1>2. CASE log' = [log EXCEPT ![c] = Append(@, what)] /\ UNCHANGED lost
  <2>1. PICK longer \in Seq(Answers \cup {"called"}) : longer = Append(log[c], what)
    BY <1>1, AppendFacts
  <2>2. log' = [log EXCEPT ![c] = longer]
    BY <1>2, <2>1
  <2> QED BY <1>1, <1>2, <2>1, <2>2
<1>3. CASE lost' = lost \cup {c} /\ UNCHANGED log
  BY <1>1, <1>3
<1> QED BY <1>2, <1>3 DEF Turn!Persist

LEMMA LogStartedKeeps == ASSUME CallInv, NEW c \in Calls, Turn!LogStarted(c) PROVE CallInv'
<1>1. /\ \/ stage[c] = "start" /\ ~Turn!Limited(c)
         \/ stage[c] = "log"
      /\ stage' = [stage EXCEPT ![c] = IF Turn!Builtin(c) THEN "check" ELSE "register"]
      /\ Turn!Persist(c, "called")
      /\ UNCHANGED <<call, held, spent, errors, tokens, work, answer>>
  BY DEF Turn!LogStarted, Turn!guards, Turn!running, Turn!budget
<1>2. /\ log' \in [Calls -> Seq(Answers \cup {"called"})]
      /\ \A d \in Calls : d # c => log'[d] = log[d] /\ (d \in lost' <=> d \in lost)
      /\ \/ log'[c] = Append(log[c], "called") /\ UNCHANGED lost
         \/ log'[c] = log[c] /\ c \in lost'
  BY <1>1, PersistWrites DEF CallInv
<1>3. CallTypes' /\ stage'[c] = (IF Turn!Builtin(c) THEN "check" ELSE "register")
      /\ \A d \in Calls : d # c => stage'[d] = stage[d]
  BY <1>1, <1>2 DEF CallInv, CallTypes, Stages
<1>4. Shape(c) /\ errors[c] \in BOOLEAN /\ log[c] = <<>> /\ ~errors[c] /\ Turn!Asked(c)
  BY <1>1, CallFacts DEF Shape, Unopened
<1>5. Opens(log'[c]) \/ c \in lost'
  <2>1. CASE log'[c] = Append(log[c], "called")
    <3>1. /\ log[c] \in Seq(Answers \cup {"called"}) /\ "called" \in Answers \cup {"called"} /\ Len(log[c]) = 0
      BY <1>4, CallFacts
    <3>2. Len(Append(log[c], "called")) = 1 /\ Append(log[c], "called")[1] = "called"
      BY <3>1
    <3> QED BY <2>1, <3>2 DEF Opens
  <2> QED BY <1>2, <2>1
<1>6. Shape(c)'
  <2>1. answer'[c] = "none" /\ tokens'[c] = "none" /\ work'[c] = "idle" /\ ~errors'[c]
    BY <1>1, <1>4 DEF Shape, Unopened
  <2>2. Turn!Builtin(c)' = Turn!Builtin(c) /\ Turn!Asked(c)' = Turn!Asked(c)
    BY <1>1 DEF Turn!Builtin, Turn!Asked
  <2> QED BY <1>3, <1>4, <1>5, <2>1, <2>2 DEF Shape, Unopened, Opened, Waiting
<1> QED BY <1>1, <1>2, <1>3, <1>6, OneCall

LEMMA CheckKeeps == ASSUME CallInv, NEW c \in Calls, Turn!Check(c) PROVE CallInv'
<1> DEFINE refused == Turn!Objects(c) \/ call[c].key \in seen
<1>1. /\ stage[c] = "check" /\ errors' = [errors EXCEPT ![c] = refused]
      /\ \/ stage' = [stage EXCEPT ![c] = "guarded"]
         \/ stage' = [stage EXCEPT ![c] = "record"]
      /\ UNCHANGED <<call, held, spent, tokens, work, answer, log, lost>>
  BY DEF Turn!Check, Turn!running, Turn!budget
<1>2. refused \in BOOLEAN /\ (Turn!Objects(c) => refused)
  BY DEF Turn!Objects, Turn!Objections, Turn!PathGuard, Turn!SizeGuard, Turn!TypeGuard, Turn!ContentGuard, Turn!QueryGuard
<1> HIDE DEF refused
<1>3. CallTypes' /\ stage'[c] \in {"guarded", "record"} /\ errors'[c] = refused
      /\ \A d \in Calls : d # c => stage'[d] = stage[d] /\ errors'[d] = errors[d]
  BY <1>1, <1>2 DEF CallInv, CallTypes, Stages
<1>4. Turn!Builtin(c)' = Turn!Builtin(c) /\ Turn!Asked(c)' = Turn!Asked(c) /\ Turn!Objects(c)' = Turn!Objects(c)
  BY <1>1 DEF Turn!Builtin, Turn!Asked, Turn!Objects
<1>5. Shape(c)'
  BY <1>1, <1>2, <1>3, <1>4, CallFacts DEF Shape, Unopened, Opened, Waiting
<1> QED BY <1>1, <1>3, <1>5, OneCall

LEMMA RecordKeeps == ASSUME CallInv, NEW c \in Calls, Turn!Record(c) PROVE CallInv'
<1>1. /\ stage[c] = "record" /\ stage' = [stage EXCEPT ![c] = "guarded"]
      /\ UNCHANGED <<call, errors, held, spent, tokens, work, answer, log, lost>>
  BY DEF Turn!Record, Turn!Go, Turn!running, Turn!budget
<1>2. CallTypes' /\ stage'[c] = "guarded" /\ \A d \in Calls : d # c => stage'[d] = stage[d]
  BY <1>1 DEF CallInv, CallTypes, Stages
<1>3. Turn!Builtin(c)' = Turn!Builtin(c) /\ Turn!Asked(c)' = Turn!Asked(c) /\ Turn!Objects(c)' = Turn!Objects(c)
  BY <1>1 DEF Turn!Builtin, Turn!Asked, Turn!Objects
<1>4. Shape(c)'
  BY <1>1, <1>2, <1>3, CallFacts DEF Shape, Unopened, Opened, Waiting
<1> QED BY <1>1, <1>2, <1>4, OneCall

LEMMA RefuseKeeps == ASSUME CallInv, NEW c \in Calls, Turn!Refuse(c) PROVE CallInv'
<1>1. /\ stage[c] = "guarded" /\ errors[c] /\ stage' = [stage EXCEPT ![c] = "close"] /\ answer' = [answer EXCEPT ![c] = "error"]
      /\ UNCHANGED <<call, errors, held, spent, tokens, work, log, lost>>
  BY DEF Turn!Refuse, Turn!Go, Turn!guards, Turn!running, Turn!budget
<1>2. CallTypes' /\ stage'[c] = "close" /\ answer'[c] = "error"
      /\ \A d \in Calls : d # c => stage'[d] = stage[d] /\ answer'[d] = answer[d]
  BY <1>1 DEF CallInv, CallTypes, Stages, Answers, Ends, Turn!Outcomes
<1>3. Turn!Builtin(c)' = Turn!Builtin(c) /\ Turn!Asked(c)' = Turn!Asked(c) /\ Turn!Objects(c)' = Turn!Objects(c)
  BY <1>1 DEF Turn!Builtin, Turn!Asked, Turn!Objects
<1>4. Shape(c)'
  BY <1>1, <1>2, <1>3, CallFacts DEF Shape, Unopened, Opened, Waiting, Ends, Turn!Outcomes
<1> QED BY <1>1, <1>2, <1>4, OneCall

LEMMA BeginKeeps == ASSUME CallInv, NEW c \in Calls, Turn!Begin(c) PROVE CallInv'
<1>1. /\ \/ stage[c] = "guarded" /\ ~errors[c]
         \/ stage[c] = "register"
      /\ stage' = [stage EXCEPT ![c] = "run"] /\ tokens' = [tokens EXCEPT ![c] = "live"] /\ work' = [work EXCEPT ![c] = "running"]
      /\ UNCHANGED <<call, errors, held, spent, answer, log, lost>>
  BY DEF Turn!Begin, Turn!guards, Turn!budget
<1>2. CallTypes' /\ stage'[c] = "run" /\ tokens'[c] = "live" /\ work'[c] = "running"
      /\ \A d \in Calls : d # c => stage'[d] = stage[d] /\ tokens'[d] = tokens[d] /\ work'[d] = work[d]
  BY <1>1 DEF CallInv, CallTypes, Stages
<1>3. Turn!Builtin(c)' = Turn!Builtin(c) /\ Turn!Asked(c)' = Turn!Asked(c) /\ Turn!Objects(c)' = Turn!Objects(c)
  BY <1>1 DEF Turn!Builtin, Turn!Asked, Turn!Objects
<1>4. Shape(c)'
  BY <1>1, <1>2, <1>3, CallFacts DEF Shape, Unopened, Opened, Waiting
<1> QED BY <1>1, <1>2, <1>4, OneCall

LEMMA CancelKeeps == ASSUME CallInv, NEW c \in Calls, Turn!Cancel(c) PROVE CallInv'
<1>1. /\ tokens[c] = "live" /\ tokens' = [tokens EXCEPT ![c] = "cancelled"]
      /\ UNCHANGED <<call, stage, errors, held, spent, work, answer, log, lost>>
  BY DEF Turn!Cancel, Turn!guards, Turn!budget
<1>2. CallTypes' /\ \A d \in Calls : d # c => tokens'[d] = tokens[d]
  BY <1>1 DEF CallInv, CallTypes
<1>3. /\ Turn!Builtin(c)' = Turn!Builtin(c) /\ Turn!Asked(c)' = Turn!Asked(c) /\ Turn!Objects(c)' = Turn!Objects(c)
      /\ Turn!Limited(c)' = Turn!Limited(c)
  BY <1>1 DEF Turn!Builtin, Turn!Asked, Turn!Objects, Turn!Limited
<1>4. Shape(c)'
  BY <1>1, <1>3, CallFacts DEF Shape, Unopened, Opened, Waiting, Stages
<1> QED BY <1>1, <1>2, <1>4, OneCall

LEMMA FinishKeeps == ASSUME Turn!TurnsAssumption, CallInv, NEW c \in Calls, Turn!Finish(c) PROVE CallInv'
<1>1. PICK o \in call[c].ends : work[c] = "running" /\ work' = [work EXCEPT ![c] = o]
                                /\ UNCHANGED <<call, stage, errors, held, spent, tokens, answer, log, lost>>
  BY DEF Turn!Finish, Turn!guards, Turn!budget
<1>2. o \in Turn!Outcomes
  BY DEF Turn!TurnsAssumption, CallInv, CallTypes
<1>3. CallTypes' /\ work'[c] = o /\ \A d \in Calls : d # c => work'[d] = work[d]
  BY <1>1, <1>2 DEF CallInv, CallTypes
<1>4. /\ Turn!Builtin(c)' = Turn!Builtin(c) /\ Turn!Asked(c)' = Turn!Asked(c) /\ Turn!Objects(c)' = Turn!Objects(c)
      /\ Turn!Limited(c)' = Turn!Limited(c) /\ Turn!Status(c)' = Turn!Status(c)
  BY <1>1 DEF Turn!Builtin, Turn!Asked, Turn!Objects, Turn!Limited, Turn!Status
<1>5. Shape(c)'
  BY <1>1, <1>4, CallFacts DEF Shape, Unopened, Opened, Waiting, Stages
<1> QED BY <1>1, <1>3, <1>5, OneCall

LEMMA ReturnKeeps == ASSUME CallInv, NEW c \in Calls, Turn!Return(c) PROVE CallInv'
<1>1. PICK a \in Ends : /\ stage[c] = "run" /\ answer' = [answer EXCEPT ![c] = a]
                        /\ stage' = [stage EXCEPT ![c] = "close"] /\ tokens' = [tokens EXCEPT ![c] = "none"]
                        /\ UNCHANGED <<call, errors, held, spent, work, log, lost>>
  BY DEF Turn!Return, Turn!Go, Turn!guards, Turn!budget, Ends
<1>2. CallTypes' /\ stage'[c] = "close" /\ answer'[c] = a /\ tokens'[c] = "none"
      /\ \A d \in Calls : d # c => stage'[d] = stage[d] /\ answer'[d] = answer[d] /\ tokens'[d] = tokens[d]
  BY <1>1 DEF CallInv, CallTypes, Stages, Answers
<1>3. Turn!Builtin(c)' = Turn!Builtin(c) /\ Turn!Asked(c)' = Turn!Asked(c) /\ Turn!Objects(c)' = Turn!Objects(c)
  BY <1>1 DEF Turn!Builtin, Turn!Asked, Turn!Objects
<1>4. Shape(c)'
  BY <1>1, <1>2, <1>3, CallFacts DEF Shape, Unopened, Opened, Waiting
<1> QED BY <1>1, <1>2, <1>4, OneCall

LEMMA LogCompletedKeeps == ASSUME CallInv, NEW c \in Calls, Turn!LogCompleted(c) PROVE CallInv'
<1>1. /\ stage[c] = "close" /\ stage' = [stage EXCEPT ![c] = "over"] /\ Turn!Persist(c, Turn!Status(c))
      /\ UNCHANGED <<call, errors, held, spent, tokens, work, answer>>
  BY DEF Turn!LogCompleted, Turn!Go, Turn!guards, Turn!running, Turn!budget
<1>2. Shape(c) /\ answer[c] \in Ends /\ tokens[c] = "none" /\ (Opens(log[c]) \/ c \in lost) /\ Turn!Asked(c)
  BY <1>1, CallFacts DEF Shape, Opened
<1>3. Turn!Status(c) \in Answers \cup {"called"}
  BY <1>2 DEF Turn!Status, Answers, Ends, Turn!Outcomes
<1>4. /\ log' \in [Calls -> Seq(Answers \cup {"called"})]
      /\ \A d \in Calls : d # c => log'[d] = log[d] /\ (d \in lost' <=> d \in lost)
      /\ \/ log'[c] = Append(log[c], Turn!Status(c)) /\ UNCHANGED lost
         \/ log'[c] = log[c] /\ c \in lost'
  BY <1>1, <1>3, PersistWrites DEF CallInv
<1>5. CallTypes' /\ stage'[c] = "over" /\ \A d \in Calls : d # c => stage'[d] = stage[d]
  BY <1>1, <1>4 DEF CallInv, CallTypes, Stages
<1>6. Closes(log'[c], Turn!Status(c)) \/ c \in lost'
  <2>1. CASE log'[c] = Append(log[c], Turn!Status(c)) /\ Opens(log[c])
    <3>1. PICK what \in Answers \cup {"called"} : what = Turn!Status(c)
      BY <1>3
    <3>2. log[c] \in Seq(Answers \cup {"called"}) /\ Len(log[c]) = 1 /\ log[c][1] = "called"
      BY <2>1, CallFacts DEF Opens
    <3>3. PICK longer : longer = Append(log[c], what)
      OBVIOUS
    <3>4. Len(longer) = 2 /\ longer[1] = "called" /\ longer[2] = what
      <4>1. /\ Len(Append(log[c], what)) = Len(log[c]) + 1 /\ Append(log[c], what)[Len(log[c]) + 1] = what
            /\ \A i \in 1..Len(log[c]) : Append(log[c], what)[i] = log[c][i]
        <5>1. PICK M : M = Answers \cup {"called"}
          OBVIOUS
        <5>2. log[c] \in Seq(M) /\ what \in M
          BY <3>2, <5>1
        <5> QED BY <5>2, AppendFacts
      <4> QED BY <3>2, <3>3, <4>1
    <3> QED BY <2>1, <3>1, <3>3, <3>4 DEF Closes
  <2> QED BY <1>2, <1>4, <2>1
<1>7. /\ Turn!Builtin(c)' = Turn!Builtin(c) /\ Turn!Asked(c)' = Turn!Asked(c) /\ Turn!Objects(c)' = Turn!Objects(c)
      /\ Turn!Status(c)' = Turn!Status(c)
  BY <1>1 DEF Turn!Builtin, Turn!Asked, Turn!Objects, Turn!Status
<1>8. Shape(c)'
  BY <1>1, <1>2, <1>5, <1>6, <1>7 DEF Shape, Unopened, Opened, Waiting
<1> QED BY <1>1, <1>4, <1>5, <1>8, OneCall

LEMMA CallKept == ASSUME Turn!TurnsAssumption, CallInv, [Turn!Next]_(Turn!vars) PROVE CallInv'
<1>1. CASE UNCHANGED Turn!vars
  <2>1. UNCHANGED <<call, stage, errors, held, spent, tokens, work, answer, log, lost>>
    BY <1>1 DEF Turn!vars
  <2> QED BY <2>1 DEF CallInv, CallTypes, Shapes, Shape, Turn!Builtin, Turn!Asked, Turn!Limited, Turn!Objects, Turn!Status
<1> QED BY <1>1, ReadBudgetKeeps, TakeBudgetKeeps, LogStartedKeeps, CheckKeeps, RecordKeeps, RefuseKeeps, BeginKeeps,
           CancelKeeps, FinishKeeps, ReturnKeeps, LogCompletedKeeps DEF Turn!Next, Turn!Step


LEMMA CallInvAnswers == ASSUME CallInv PROVE Turn!AnswersAreLogged
<1> SUFFICES ASSUME NEW c \in Calls, Turn!Asked(c), Turn!Over(c)
             PROVE  /\ answer[c] # "none" /\ tokens[c] = "none"
                    /\ IF answer[c] = "blocked" THEN log[c] = <<>>
                       ELSE c \notin lost => Len(log[c]) = 2 /\ log[c][1] = "called" /\ Turn!Says(c, log[c][2])
  BY DEF Turn!AnswersAreLogged
<1>1. /\ tokens[c] = "none"
      /\ \/ answer[c] = "blocked" /\ log[c] = <<>>
         \/ answer[c] \in Ends /\ (Closes(log[c], Turn!Status(c)) \/ c \in lost)
  BY CallFacts DEF Shape, Turn!Over
<1>2. CASE answer[c] = "blocked" /\ log[c] = <<>>
  BY <1>1, <1>2
<1>3. CASE answer[c] \in Ends /\ (Closes(log[c], Turn!Status(c)) \/ c \in lost)
  <2>1. Turn!Says(c, Turn!Status(c))
    BY DEF Turn!Says, Turn!Status
  <2>2. answer[c] \notin {"none", "blocked"}
    BY <1>3 DEF Ends, Turn!Outcomes
  <2> QED BY <1>1, <1>3, <2>1, <2>2 DEF Closes
<1> QED BY <1>1, <1>2, <1>3


LEMMA CallInvTypes == ASSUME Turn!TurnsAssumption, CallInv PROVE Turn!HandlersGetTheirTypes
<1> SUFFICES ASSUME NEW c \in Calls, Turn!Builtin(c), work[c] # "idle", NEW p \in DOMAIN call[c].schema.types
             PROVE  LET value == call[c].args.given[p] IN
                    \/ value = "absent" /\ p \notin call[c].schema.required
                    \/ value = "null" \/ Turn!Fits(value, call[c].schema.types[p])
                    \/ call[c].schema.types[p] \in {"integer", "number"} /\ value = "bool"
                    \/ call[c].schema.types[p] = "number" /\ value = "int"
  BY DEF Turn!HandlersGetTheirTypes
<1> DEFINE value == call[c].args.given[p]
           type == call[c].schema.types[p]
<1>1. ~Turn!Objects(c)
  BY CallFacts DEF Shape, Unopened, Waiting
<1>2. /\ p \in call[c].schema.required => value # "absent"
      /\ value \in {"absent", "null"} \/ Turn!Instance(value, type)
  BY <1>1 DEF Turn!Objects, Turn!Objections, Turn!TypeGuard
<1>3. type \in {"string", "untyped", "integer", "number", "boolean", "array", "object"}
  BY DEF Turn!TurnsAssumption, CallInv, CallTypes
<1> HIDE DEF value, type
<1>4. Turn!Instance(value, type) =>
        Turn!Fits(value, type) \/ (type \in {"integer", "number"} /\ value = "bool") \/ (type = "number" /\ value = "int")
  BY <1>3 DEF Turn!Instance, Turn!Fits
<1>5. \/ value = "absent" /\ p \notin call[c].schema.required
      \/ value = "null" \/ Turn!Fits(value, type)
      \/ type \in {"integer", "number"} /\ value = "bool"
      \/ type = "number" /\ value = "int"
  BY <1>2, <1>4
<1> QED BY <1>5 DEF value, type


-----------------------------------------------------------------------------
(* The budget: a call passes with a count below it, so more of them share a count.               *)
CountsHold ==
    /\ \A c \in Calls : held[c] <= Cardinality(Turn!Passed) /\ (c \in Turn!Passed => held[c] < Budget)
    /\ spent <= Cardinality(Turn!Passed)

\* A step that takes a call past the budget's stages, or from one later stage to another.
LEMMA NobodyPasses ==
  ASSUME CallInv, NEW c \in Calls, UNCHANGED <<call, spent, held>>,
         NEW s \in Stages \ {"start", "budget"}, stage' = [stage EXCEPT ![c] = s],
         Turn!Limited(c) => stage[c] \notin {"start", "budget"},
         NEW a, a = answer[c] \/ (a # "blocked" /\ answer[c] # "blocked"), answer' = [answer EXCEPT ![c] = a]
  PROVE  Turn!Passed' = Turn!Passed /\ UNCHANGED <<spent, held>>
<1>1. stage \in [Calls -> Stages] /\ answer \in [Calls -> Answers]
  BY DEF CallInv, CallTypes
<1>2. \A d \in Calls : Turn!Limited(d)' = Turn!Limited(d)
  BY DEF Turn!Limited
<1>3. ASSUME NEW d \in Calls
      PROVE  /\ stage'[d] \in {"start", "budget"} /\ Turn!Limited(d) <=> stage[d] \in {"start", "budget"} /\ Turn!Limited(d)
             /\ answer'[d] = "blocked" <=> answer[d] = "blocked"
  BY <1>1
<1> QED BY <1>2, <1>3 DEF Turn!Passed

Quiet == Turn!Passed' = Turn!Passed /\ UNCHANGED <<spent, held>>

LEMMA PassedChanges ==
  ASSUME CallInv, [Turn!Next]_(Turn!vars)
  PROVE  \/ Quiet
         \/ /\ Turn!Passed' = Turn!Passed /\ UNCHANGED spent
            /\ \E c \in Calls \ Turn!Passed : held' = [held EXCEPT ![c] = spent]
         \/ \E c \in Calls \ Turn!Passed :
               Turn!Passed' = Turn!Passed \cup {c} /\ held[c] < Budget /\ spent' = held[c] + 1 /\ UNCHANGED held
<1>1. stage \in [Calls -> Stages] /\ answer \in [Calls -> Answers]
  BY DEF CallInv, CallTypes
<1>2. CASE UNCHANGED Turn!vars
  BY <1>2 DEF Turn!vars, Quiet, Turn!Passed, Turn!Limited
<1>3. ASSUME NEW c \in Calls, Turn!ReadBudget(c)
      PROVE  Turn!Passed' = Turn!Passed /\ UNCHANGED spent /\ c \notin Turn!Passed /\ held' = [held EXCEPT ![c] = spent]
  <2>1. /\ stage[c] = "start" /\ stage' = [stage EXCEPT ![c] = "budget"] /\ held' = [held EXCEPT ![c] = spent]
        /\ UNCHANGED <<call, spent, answer>>
    BY <1>3 DEF Turn!ReadBudget, Turn!Go
  <2>2. \A d \in Calls : stage'[d] \in {"start", "budget"} <=> stage[d] \in {"start", "budget"}
    BY <1>1, <2>1
  <2> QED BY <2>1, <2>2 DEF Turn!Passed, Turn!Limited
<1>4. ASSUME NEW c \in Calls, Turn!TakeBudget(c)
      PROVE  \/ Quiet
             \/ /\ c \notin Turn!Passed /\ Turn!Passed' = Turn!Passed \cup {c}
                /\ held[c] < Budget /\ spent' = held[c] + 1 /\ UNCHANGED held
  <2>1. stage[c] = "budget" /\ Turn!Limited(c) /\ UNCHANGED <<call, held>> /\ c \notin Turn!Passed
    BY <1>4 DEF Turn!TakeBudget, Turn!Passed
  <2>2. CASE held[c] >= Budget /\ Turn!Go(c, "budget", "over") /\ answer' = [answer EXCEPT ![c] = "blocked"] /\ UNCHANGED spent
    <3>1. /\ \A d \in Calls : d # c => stage'[d] = stage[d] /\ answer'[d] = answer[d]
          /\ answer'[c] = "blocked"
      BY <1>1, <2>2 DEF Turn!Go
    <3> QED BY <2>1, <2>2, <3>1 DEF Quiet, Turn!Passed, Turn!Limited
  <2>3. CASE held[c] < Budget /\ Turn!Go(c, "budget", "log") /\ spent' = held[c] + 1 /\ UNCHANGED answer
    <3>1. /\ \A d \in Calls : d # c => stage'[d] = stage[d]
          /\ stage'[c] = "log" /\ answer[c] # "blocked"
      BY <1>1, <2>1, <2>3, CallFacts DEF Turn!Go, Shape, Unopened
    <3> QED BY <2>1, <2>3, <3>1 DEF Turn!Passed, Turn!Limited
  <2> QED BY <1>4, <2>2, <2>3 DEF Turn!TakeBudget
<1>5. ASSUME NEW c \in Calls, Turn!LogStarted(c) \/ Turn!Check(c) \/ Turn!Begin(c) PROVE Quiet
  <2>1. PICK s \in Stages \ {"start", "budget"} :
           stage' = [stage EXCEPT ![c] = s] /\ UNCHANGED <<call, spent, held, answer>>
    BY <1>5 DEF Turn!LogStarted, Turn!Check, Turn!Begin, Turn!budget, Stages
  <2>2. Turn!Limited(c) => stage[c] \notin {"start", "budget"}
    BY <1>5 DEF Turn!LogStarted, Turn!Check, Turn!Begin
  <2>3. PICK a : a = answer[c]
    OBVIOUS
  <2>4. answer' = [answer EXCEPT ![c] = a]
    BY <1>1, <2>1, <2>3
  <2> QED BY <2>1, <2>2, <2>3, <2>4, NobodyPasses DEF Quiet
<1>6. ASSUME NEW c \in Calls, Turn!Record(c) \/ Turn!LogCompleted(c) PROVE Quiet
  <2>1. PICK s \in Stages \ {"start", "budget"} :
           stage' = [stage EXCEPT ![c] = s] /\ UNCHANGED <<call, spent, held, answer>>
    BY <1>6 DEF Turn!Record, Turn!LogCompleted, Turn!Go, Turn!budget, Stages
  <2>2. Turn!Limited(c) => stage[c] \notin {"start", "budget"}
    BY <1>6 DEF Turn!Record, Turn!LogCompleted, Turn!Go
  <2>3. PICK a : a = answer[c]
    OBVIOUS
  <2>4. answer' = [answer EXCEPT ![c] = a]
    BY <1>1, <2>1, <2>3
  <2> QED BY <2>1, <2>2, <2>3, <2>4, NobodyPasses DEF Quiet
<1>7. ASSUME NEW c \in Calls, Turn!Refuse(c) \/ Turn!Return(c) PROVE Quiet
  <2>1. stage[c] \in {"guarded", "run"} /\ stage' = [stage EXCEPT ![c] = "close"] /\ UNCHANGED <<call, spent, held>>
    BY <1>7 DEF Turn!Refuse, Turn!Return, Turn!Go, Turn!budget
  <2>2. answer[c] = "none"
    BY <2>1, CallFacts DEF Shape, Unopened, Waiting
  <2>3. PICK a \in Ends : answer' = [answer EXCEPT ![c] = a]
    BY <1>7 DEF Turn!Refuse, Turn!Return, Ends, Turn!Outcomes
  <2>4. a # "blocked"
    BY DEF Ends, Turn!Outcomes
  <2> QED BY <2>1, <2>2, <2>3, <2>4, NobodyPasses DEF Quiet, Stages
<1>8. ASSUME NEW c \in Calls, Turn!Cancel(c) \/ Turn!Finish(c) PROVE Quiet
  BY <1>8 DEF Turn!Cancel, Turn!Finish, Turn!budget, Quiet, Turn!Passed, Turn!Limited
<1> QED BY <1>2, <1>3, <1>4, <1>5, <1>6, <1>7, <1>8 DEF Turn!Next, Turn!Step

\* The operators of FiniteSets that the instance brings along are those of the library's theorems.
LEMMA SameCounting ==
  ASSUME NEW S
  PROVE  (Turn!IsFiniteSet(S) <=> IsFiniteSet(S)) /\ Turn!Cardinality(S) = Cardinality(S)
<1>1. Turn!IsFiniteSet(S) <=> IsFiniteSet(S)
  BY DEF IsFiniteSet, Turn!IsFiniteSet
<1>2. Turn!Cardinality(S) = Cardinality(S)
  BY DEF Cardinality, Turn!Cardinality
<1> QED BY <1>1, <1>2

LEMMA CountsInit == ASSUME Turn!TurnsAssumption, Turn!Init PROVE CountsHold
<1>1. \A c \in Calls : held[c] = 0 /\ c \notin Turn!Passed
  BY DEF Turn!Init, Turn!Passed, Turn!Asked, Turn!Limited
<1>2. Turn!Passed = {} /\ spent = 0
  BY <1>1 DEF Turn!Passed, Turn!Init
<1>3. Cardinality(Turn!Passed) = 0
  BY <1>2, FS_EmptySet
<1> QED BY <1>1, <1>2, <1>3 DEF CountsHold

LEMMA CountsKept ==
  ASSUME Turn!TurnsAssumption, CallInv, CountsHold, [Turn!Next]_(Turn!vars)
  PROVE  CountsHold'
<1> DEFINE passed == Turn!Passed
<1>1. IsFiniteSet(passed) /\ Cardinality(passed) \in Nat
  <2>1. passed \in SUBSET Calls
    BY DEF Turn!Passed
  <2>2. IsFiniteSet(Calls)
    BY SameCounting DEF Turn!TurnsAssumption
  <2> HIDE DEF passed
  <2>3. IsFiniteSet(passed)
    BY <2>1, <2>2, FS_Subset
  <2> QED BY <2>3, FS_CardinalityType
<1>2. held \in [Calls -> Nat] /\ spent \in Nat /\ Budget \in Nat
  BY DEF CallInv, CallTypes, Turn!TurnsAssumption
<1>3. \A c \in Calls : held[c] <= Cardinality(passed) /\ (c \in passed => held[c] < Budget)
  BY DEF CountsHold
<1>4. spent <= Cardinality(passed)
  BY DEF CountsHold
<1>5. CASE Quiet
  BY <1>5 DEF Quiet, CountsHold
<1>6. ASSUME passed' = passed, UNCHANGED spent, NEW c \in Calls \ passed, held' = [held EXCEPT ![c] = spent] PROVE CountsHold'
  <2> HIDE DEF passed
  <2>1. \A d \in Calls : held'[d] <= Cardinality(passed') /\ (d \in passed' => held'[d] < Budget)
    BY <1>2, <1>3, <1>4, <1>6
  <2>2. spent' <= Cardinality(passed')
    BY <1>4, <1>6
  <2> QED BY <2>1, <2>2 DEF CountsHold, passed
<1>7. ASSUME NEW c \in Calls \ passed, passed' = passed \cup {c}, held[c] < Budget, spent' = held[c] + 1, UNCHANGED held
      PROVE  CountsHold'
  <2> HIDE DEF passed
  <2>1. Cardinality(passed') = Cardinality(passed) + 1
    BY <1>1, <1>7, FS_AddElement
  <2>2. \A d \in Calls : held'[d] <= Cardinality(passed') /\ (d \in passed' => held'[d] < Budget)
    BY <1>1, <1>2, <1>3, <1>7, <2>1
  <2>3. spent' <= Cardinality(passed')
    BY <1>1, <1>2, <1>3, <1>7, <2>1
  <2> QED BY <2>2, <2>3 DEF CountsHold, passed
<1> QED BY <1>5, <1>6, <1>7, PassedChanges

LEMMA CountsBound ==
  ASSUME Turn!TurnsAssumption, CallInv, CountsHold
  PROVE  /\ spent \in 0..Cardinality(Calls)
         /\ Cardinality(Turn!Passed) > Budget => \E c, d \in Turn!Passed : c # d /\ held[c] = held[d]
<1> DEFINE passed == Turn!Passed
<1>1. passed \in SUBSET Calls
  BY DEF Turn!Passed
<1>2. IsFiniteSet(passed) /\ Cardinality(passed) <= Cardinality(Calls) /\ Cardinality(passed) \in Nat /\ Cardinality(Calls) \in Nat
  <2>1. IsFiniteSet(Calls)
    BY SameCounting DEF Turn!TurnsAssumption
  <2> HIDE DEF passed
  <2>2. IsFiniteSet(passed) /\ Cardinality(passed) <= Cardinality(Calls)
    BY <1>1, <2>1, FS_Subset
  <2> QED BY <2>1, <2>2, FS_CardinalityType
<1>3. /\ held \in [Calls -> Nat] /\ spent \in Nat /\ Budget \in Nat
      /\ spent <= Cardinality(passed) /\ \A c \in passed : held[c] < Budget
  BY <1>1 DEF CallInv, CallTypes, Turn!TurnsAssumption, CountsHold
<1> HIDE DEF passed
<1>4. ASSUME Cardinality(passed) > Budget PROVE \E c, d \in passed : c # d /\ held[c] = held[d]
  <2> DEFINE count == [c \in passed |-> held[c]]
             below == 0..(Budget - 1)
  <2>1. count \in [passed -> below]
    BY <1>1, <1>3
  <2>2. IsFiniteSet(below) /\ Cardinality(below) = Budget
    BY <1>3, FS_Interval
  <2>3. Cardinality(below) < Cardinality(passed)
    BY <1>2, <1>3, <1>4, <2>2
  <2> HIDE DEF count, below
  <2>4. \E c, d \in passed : c # d /\ count[c] = count[d]
    BY <1>2, <2>1, <2>2, <2>3, FS_PigeonHole
  <2> QED BY <2>4 DEF count
<1>5. spent \in 0..Cardinality(Calls)
  BY <1>2, <1>3
<1> QED BY <1>4, <1>5 DEF passed


-----------------------------------------------------------------------------
(* The window of repeats: the history is the end of the order in which keys were recorded, and a *)
(* key is remembered as long as none of its records has left it.                                 *)
Recent(j) == Len(order) < j + MaxHistory
WindowTypes ==
    /\ order \in Seq(Keys) /\ history \in Seq(Keys) /\ seen \subseteq Keys /\ checked \in [Calls -> Nat]
    /\ \A c \in Calls : checked[c] <= Len(order)
Window ==
    /\ Len(history) <= Len(order) /\ Len(history) <= MaxHistory
    /\ Len(history) < MaxHistory => Len(history) = Len(order)
    /\ \A i \in 1..Len(history) : history[i] = order[(Len(order) - Len(history)) + i]
Remembered ==
    /\ \A k \in seen : \E i \in 1..Len(history) : history[i] = k
    /\ \A i \in 1..Len(order) : (\A j \in 1..Len(order) : order[j] = order[i] => Recent(j)) => order[i] \in seen
LookedUp(c) ==
    (Turn!Builtin(c) /\ stage[c] \notin {"start", "check"} /\ ~Turn!Objects(c)) =>
        /\ errors[c] => \E i \in 1..checked[c] : order[i] = call[c].key
        /\ ((\E i \in 1..checked[c] : order[i] = call[c].key)
             /\ \A i \in 1..checked[c] : order[i] = call[c].key => checked[c] < i + MaxHistory) => errors[c]

WindowInv == WindowTypes /\ Window /\ Remembered /\ \A c \in Calls : LookedUp(c)

LEMMA WindowInit == ASSUME Turn!TurnsAssumption, Turn!Init PROVE WindowInv
<1>1. /\ order = <<>> /\ history = <<>> /\ seen = {} /\ checked = [c \in Calls |-> 0]
      /\ stage = [c \in Calls |-> IF Turn!Asked(c) THEN "start" ELSE "over"]
  BY DEF Turn!Init
<1>2. MaxHistory \in Nat
  BY DEF Turn!TurnsAssumption
<1>3. WindowTypes /\ Window /\ Remembered
  BY <1>1, <1>2 DEF WindowTypes, Window, Remembered
<1>4. \A c \in Calls : LookedUp(c)
  BY <1>1 DEF LookedUp, Turn!Builtin, Turn!Asked
<1> QED BY <1>3, <1>4 DEF WindowInv

LEMMA TailFacts ==
  ASSUME NEW M, NEW s \in Seq(M), Len(s) > 0
  PROVE  /\ Tail(s) \in Seq(M) /\ Len(Tail(s)) = Len(s) - 1 /\ Head(s) = s[1]
         /\ \A i \in 1..(Len(s) - 1) : Tail(s)[i] = s[i + 1]
OBVIOUS

LEMMA RecordWindow ==
  ASSUME Turn!TurnsAssumption, CallInv, WindowInv, NEW c \in Calls, Turn!Record(c)
  PROVE  (WindowTypes /\ Window /\ Remembered)'
<1> DEFINE longer == Append(history, call[c].key)
<1>1. PICK k \in Keys : k = call[c].key
  BY DEF CallInv, CallTypes, Keys
<1>2. PICK L : L = Append(history, k)
  OBVIOUS
<1>3. PICK O : O = Append(order, k)
  OBVIOUS
<1>4. /\ order' = O /\ UNCHANGED checked
      /\ IF Len(L) > MaxHistory
         THEN history' = Tail(L) /\ seen' = (seen \cup {k}) \ {Head(L)}
         ELSE history' = L /\ seen' = seen \cup {k}
  BY <1>1, <1>2, <1>3 DEF Turn!Record
<1>5. /\ MaxHistory \in Nat /\ Len(order) \in Nat /\ Len(history) \in Nat /\ order \in Seq(Keys) /\ history \in Seq(Keys)
      /\ seen \subseteq Keys /\ Len(history) <= Len(order) /\ Len(history) <= MaxHistory
      /\ Len(history) < MaxHistory => Len(history) = Len(order)
      /\ \A i \in 1..Len(history) : history[i] = order[(Len(order) - Len(history)) + i]
  <2>1. order \in Seq(Keys) /\ history \in Seq(Keys) /\ seen \subseteq Keys
    BY DEF WindowInv, WindowTypes
  <2>2. Len(order) \in Nat /\ Len(history) \in Nat
    BY <2>1
  <2> QED BY <2>1, <2>2 DEF WindowInv, Window, Turn!TurnsAssumption
<1>6. /\ L \in Seq(Keys) /\ Len(L) = Len(history) + 1 /\ L[Len(history) + 1] = k
      /\ \A i \in 1..Len(history) : L[i] = history[i]
  BY <1>1, <1>2, <1>5, AppendFacts
<1>7. /\ O \in Seq(Keys) /\ Len(O) = Len(order) + 1 /\ O[Len(order) + 1] = k
      /\ \A i \in 1..Len(order) : O[i] = order[i]
  BY <1>1, <1>3, <1>5, AppendFacts
<1>8. \A i \in 1..Len(L) : L[i] = O[(Len(O) - Len(L)) + i]
  <2> SUFFICES ASSUME NEW i \in 1..Len(L) PROVE L[i] = O[(Len(O) - Len(L)) + i]
    OBVIOUS
  <2>1. CASE i = Len(history) + 1
    BY <1>5, <1>6, <1>7, <2>1
  <2>2. CASE i \in 1..Len(history)
    <3>1. (Len(order) - Len(history)) + i \in 1..Len(order) /\ Len(O) - Len(L) = Len(order) - Len(history)
      BY <1>5, <1>6, <1>7, <2>2
    <3> QED BY <1>5, <1>6, <1>7, <2>2, <3>1
  <2> QED BY <1>5, <1>6, <2>1, <2>2
<1>9. WindowTypes'
  <2>1. history' \in Seq(Keys) /\ seen' \subseteq Keys
    <3>1. Tail(L) \in Seq(Keys)
      <4>1. PICK M : M = Keys
        OBVIOUS
      <4>2. L \in Seq(M) /\ Len(L) > 0
        BY <1>5, <1>6, <4>1
      <4> QED BY <4>1, <4>2, TailFacts
    <3>2. history' \in Seq(Keys)
      BY <1>4, <1>6, <3>1
    <3>3. seen' \subseteq seen \cup {k}
      BY <1>4
    <3> QED BY <1>1, <1>5, <3>2, <3>3
  <2>2. checked' \in [Calls -> Nat] /\ \A d \in Calls : checked'[d] <= Len(order')
    <3>1. checked \in [Calls -> Nat] /\ \A d \in Calls : checked[d] <= Len(order)
      BY DEF WindowInv, WindowTypes
    <3> QED BY <1>4, <1>5, <1>7, <3>1
  <2> QED BY <1>4, <1>7, <2>1, <2>2 DEF WindowTypes
<1>10. CASE Len(L) > MaxHistory
  <2>1. Len(history) = MaxHistory /\ history' = Tail(L) /\ seen' = (seen \cup {k}) \ {Head(L)}
    BY <1>4, <1>5, <1>6, <1>10
  <2>2. PICK T : T = Tail(L)
    OBVIOUS
  <2>3. Len(T) = Len(L) - 1 /\ Head(L) = L[1] /\ \A i \in 1..Len(T) : T[i] = L[i + 1]
    BY <1>5, <1>6, <2>2, TailFacts
  <2>4. Window'
    <3>1. \A i \in 1..Len(T) : T[i] = O[(Len(O) - Len(T)) + i]
      <4> SUFFICES ASSUME NEW i \in 1..Len(T) PROVE T[i] = O[(Len(O) - Len(T)) + i]
        OBVIOUS
      <4>1. i + 1 \in 1..Len(L) /\ (Len(O) - Len(L)) + (i + 1) = (Len(O) - Len(T)) + i
        BY <1>5, <1>6, <1>7, <2>3
      <4> QED BY <1>8, <2>3, <4>1
    <3>2. history' = T /\ order' = O /\ Len(T) = MaxHistory /\ Len(T) <= Len(O)
      BY <1>4, <1>5, <1>6, <1>7, <2>1, <2>2, <2>3
    <3> QED BY <1>5, <3>1, <3>2 DEF Window
  <2>5. PICK first : first = Len(O) - Len(L) + 1
    OBVIOUS
  <2>6. first \in 1..Len(O) /\ Head(L) = O[first] /\ ~(Len(O) < first + MaxHistory)
    <3>1. 1 \in 1..Len(L) /\ first = (Len(O) - Len(L)) + 1
      BY <1>5, <1>6, <1>7, <2>5
    <3>2. first \in 1..Len(O) /\ ~(Len(O) < first + MaxHistory)
      BY <1>5, <1>6, <1>7, <2>1, <2>5
    <3> QED BY <1>8, <2>3, <3>1, <3>2
  <2>7. ASSUME NEW x \in seen' PROVE \E i \in 1..Len(T) : T[i] = x
    <3>1. \E i \in 1..Len(L) : L[i] = x
      <4>1. CASE x = k
        BY <1>5, <1>6, <4>1
      <4>2. CASE x \in seen
        <5>1. PICK i \in 1..Len(history) : history[i] = x
          BY <4>2 DEF WindowInv, Remembered
        <5> QED BY <1>5, <1>6, <5>1
      <4> QED BY <2>1, <2>7, <4>1, <4>2
    <3>2. PICK i \in 1..Len(L) : L[i] = x
      BY <3>1
    <3>3. i # 1
      BY <2>1, <2>3, <2>7, <3>2
    <3>4. i - 1 \in 1..Len(T) /\ (i - 1) + 1 = i
      BY <1>5, <1>6, <2>3, <3>2, <3>3
    <3> QED BY <2>3, <3>2, <3>4
  <2>8. ASSUME NEW i \in 1..Len(O), \A j \in 1..Len(O) : O[j] = O[i] => Len(O) < j + MaxHistory PROVE O[i] \in seen'
    <3>1. O[i] # Head(L)
      BY <2>6, <2>8
    <3>2. O[i] \in seen \cup {k}
      <4>1. CASE i \in 1..Len(order)
        <5>1. \A j \in 1..Len(order) : order[j] = order[i] => Len(order) < j + MaxHistory
          BY <1>5, <1>7, <2>8, <4>1
        <5>2. order[i] \in seen
          BY <4>1, <5>1 DEF WindowInv, Remembered, Recent
        <5> QED BY <1>7, <4>1, <5>2
      <4>2. CASE i = Len(order) + 1
        BY <1>7, <4>2
      <4> QED BY <1>5, <1>7, <4>1, <4>2
    <3> QED BY <2>1, <3>1, <3>2
  <2>9. Remembered'
    <3>1. history' = T /\ order' = O
      BY <1>4, <2>1, <2>2
    <3>2. \A x \in seen' : \E i \in 1..Len(history') : history'[i] = x
      BY <2>7, <3>1
    <3>3. \A i \in 1..Len(order') : (\A j \in 1..Len(order') : order'[j] = order'[i] => Recent(j)') => order'[i] \in seen'
      BY <2>8, <3>1 DEF Recent
    <3> QED BY <3>2, <3>3 DEF Remembered
  <2> QED BY <1>9, <2>4, <2>9
<1>11. CASE ~(Len(L) > MaxHistory)
  <2>1. history' = L /\ seen' = seen \cup {k} /\ order' = O
    BY <1>4, <1>11
  <2>2. Window'
    BY <1>5, <1>6, <1>7, <1>8, <1>11, <2>1 DEF Window
  <2>3. ASSUME NEW x \in seen' PROVE \E i \in 1..Len(L) : L[i] = x
    <3>1. CASE x = k
      BY <1>5, <1>6, <3>1
    <3>2. CASE x \in seen
      <4>1. PICK i \in 1..Len(history) : history[i] = x
        BY <3>2 DEF WindowInv, Remembered
      <4> QED BY <1>5, <1>6, <4>1
    <3> QED BY <2>1, <2>3, <3>1, <3>2
  <2>4. ASSUME NEW i \in 1..Len(O), \A j \in 1..Len(O) : O[j] = O[i] => Len(O) < j + MaxHistory PROVE O[i] \in seen'
    <3>1. CASE i \in 1..Len(order)
      <4>1. \A j \in 1..Len(order) : order[j] = order[i] => Len(order) < j + MaxHistory
        BY <1>5, <1>7, <2>4, <3>1
      <4>2. order[i] \in seen
        BY <3>1, <4>1 DEF WindowInv, Remembered, Recent
      <4> QED BY <1>7, <2>1, <3>1, <4>2
    <3>2. CASE i = Len(order) + 1
      BY <1>7, <2>1, <3>2
    <3> QED BY <1>5, <1>7, <3>1, <3>2
  <2>5. Remembered'
    <3>1. \A x \in seen' : \E i \in 1..Len(history') : history'[i] = x
      BY <2>1, <2>3
    <3>2. \A i \in 1..Len(order') : (\A j \in 1..Len(order') : order'[j] = order'[i] => Recent(j)') => order'[i] \in seen'
      BY <2>1, <2>4 DEF Recent
    <3> QED BY <3>1, <3>2 DEF Remembered
  <2> QED BY <1>9, <2>2, <2>5
<1> QED BY <1>10, <1>11


LEMMA StillLookedUp ==
  ASSUME WindowInv, NEW c \in Calls, UNCHANGED call, checked'[c] = checked[c], errors'[c] = errors[c],
         \A i \in 1..Len(order) : order'[i] = order[i],
         stage[c] \in {"start", "check"} => stage'[c] \in {"start", "check"} \/ ~Turn!Builtin(c)
  PROVE  LookedUp(c)'
<1>1. LookedUp(c) /\ checked[c] \in Nat /\ checked[c] <= Len(order) /\ Len(order) \in Nat
  BY DEF WindowInv, WindowTypes
<1>2. \A i \in 1..checked[c] : order'[i] = order[i]
  BY <1>1
<1>3. Turn!Builtin(c)' = Turn!Builtin(c) /\ Turn!Objects(c)' = Turn!Objects(c)
  BY DEF Turn!Builtin, Turn!Objects
<1> QED BY <1>1, <1>2, <1>3 DEF LookedUp

LEMMA CheckLooksUp ==
  ASSUME Turn!TurnsAssumption, CallInv, WindowInv, NEW c \in Calls, Turn!Check(c)
  PROVE  LookedUp(c)' /\ UNCHANGED <<call, seen, history, order>> /\ checked' = [checked EXCEPT ![c] = Len(order)]
         /\ \A d \in Calls : d # c => stage'[d] = stage[d] /\ errors'[d] = errors[d]
<1> DEFINE key == call[c].key
<1>1. /\ stage[c] = "check" /\ checked' = [checked EXCEPT ![c] = Len(order)] /\ UNCHANGED <<call, seen, history, order>>
      /\ errors' = [errors EXCEPT ![c] = Turn!Objects(c) \/ key \in seen]
      /\ \/ stage' = [stage EXCEPT ![c] = "guarded"]
         \/ stage' = [stage EXCEPT ![c] = "record"]
  BY DEF Turn!Check
<1>2. stage \in [Calls -> Stages] /\ errors \in [Calls -> BOOLEAN] /\ checked \in [Calls -> Nat]
  BY DEF CallInv, CallTypes, WindowInv, WindowTypes
<1>3. \A d \in Calls : d # c => stage'[d] = stage[d] /\ errors'[d] = errors[d]
  BY <1>1, <1>2
<1>4. checked'[c] = Len(order) /\ (errors'[c] <=> Turn!Objects(c) \/ key \in seen)
  BY <1>1, <1>2
<1>5. key \in seen => \E i \in 1..Len(order) : order[i] = key
  <2> SUFFICES ASSUME key \in seen PROVE \E i \in 1..Len(order) : order[i] = key
    OBVIOUS
  <2>1. PICK i \in 1..Len(history) : history[i] = key
    BY DEF WindowInv, Remembered
  <2>2. Len(order) \in Nat /\ Len(history) \in Nat /\ Len(history) <= Len(order)
    BY DEF WindowInv, WindowTypes, Window
  <2>3. (Len(order) - Len(history)) + i \in 1..Len(order)
    BY <2>2
  <2>4. order[(Len(order) - Len(history)) + i] = key
    BY <2>1 DEF WindowInv, Window
  <2> QED BY <2>3, <2>4
<1>6. ASSUME NEW i \in 1..Len(order), order[i] = key, \A j \in 1..Len(order) : order[j] = key => Len(order) < j + MaxHistory
      PROVE  key \in seen
  BY <1>6 DEF WindowInv, Remembered, Recent
<1> HIDE DEF key
<1>7. Turn!Builtin(c)' = Turn!Builtin(c) /\ Turn!Objects(c)' = Turn!Objects(c) /\ call'[c].key = key
  BY <1>1 DEF Turn!Builtin, Turn!Objects, key
<1>8. LookedUp(c)'
  <2> SUFFICES ASSUME ~Turn!Objects(c)
               PROVE  /\ errors'[c] => \E i \in 1..Len(order) : order[i] = key
                      /\ ((\E i \in 1..Len(order) : order[i] = key)
                           /\ \A i \in 1..Len(order) : order[i] = key => Len(order) < i + MaxHistory) => errors'[c]
    BY <1>1, <1>4, <1>7 DEF LookedUp
  <2> QED BY <1>4, <1>5, <1>6
<1> QED BY <1>1, <1>3, <1>8

\* What a step that neither looks a key up nor records one may do.
Apart ==
    /\ UNCHANGED <<call, errors, seen, history, order, checked>>
    /\ \A c \in Calls : stage[c] \in {"start", "check"} => stage'[c] \in {"start", "check"} \/ ~Turn!Builtin(c)

LEMMA OthersStayApart ==
  ASSUME CallInv, NEW c \in Calls, Turn!Step(c) \/ Turn!Cancel(c) \/ Turn!Finish(c)
  PROVE  Turn!Check(c) \/ Turn!Record(c) \/ Apart
<1>1. stage \in [Calls -> Stages]
  BY DEF CallInv, CallTypes
<1>2. CASE Turn!ReadBudget(c) \/ Turn!TakeBudget(c)
  <2>1. Turn!Limited(c) /\ UNCHANGED <<call, errors, seen, history, order, checked>> /\ \A d \in Calls : d # c => stage'[d] = stage[d]
    BY <1>1, <1>2 DEF Turn!ReadBudget, Turn!TakeBudget, Turn!Go, Turn!guards
  <2>2. ~Turn!Builtin(c)
    BY <2>1 DEF Turn!Limited, Turn!Builtin
  <2> QED BY <2>1, <2>2 DEF Apart
<1>3. CASE Turn!LogStarted(c)
  <2>1. /\ UNCHANGED <<call, errors, seen, history, order, checked>> /\ \A d \in Calls : d # c => stage'[d] = stage[d]
        /\ stage'[c] = IF Turn!Builtin(c) THEN "check" ELSE "register"
    BY <1>1, <1>3 DEF Turn!LogStarted, Turn!guards
  <2> QED BY <2>1 DEF Apart
<1>4. CASE Turn!Refuse(c) \/ Turn!Begin(c) \/ Turn!Return(c) \/ Turn!LogCompleted(c)
  <2>1. /\ UNCHANGED <<call, errors, seen, history, order, checked>> /\ stage[c] \notin {"start", "check"}
        /\ \A d \in Calls : d # c => stage'[d] = stage[d]
    BY <1>1, <1>4 DEF Turn!Refuse, Turn!Begin, Turn!Return, Turn!LogCompleted, Turn!Go, Turn!guards
  <2> QED BY <2>1 DEF Apart
<1>5. CASE Turn!Cancel(c) \/ Turn!Finish(c)
  BY <1>5 DEF Turn!Cancel, Turn!Finish, Turn!guards, Apart
<1> QED BY <1>2, <1>3, <1>4, <1>5 DEF Turn!Step

LEMMA WindowKept ==
  ASSUME Turn!TurnsAssumption, CallInv, WindowInv, [Turn!Next]_(Turn!vars)
  PROVE  WindowInv'
<1>1. /\ checked \in [Calls -> Nat] /\ order \in Seq(Keys) /\ Len(order) \in Nat
      /\ \A c \in Calls : checked[c] <= Len(order)
  BY DEF WindowInv, WindowTypes
<1>2. ASSUME Apart PROVE WindowInv'
  <2>1. (WindowTypes /\ Window /\ Remembered)'
    <3>1. WindowTypes' /\ Window'
      BY <1>2 DEF Apart, WindowInv, WindowTypes, Window
    <3>2. Remembered'
      BY <1>2 DEF Apart, WindowInv, Remembered, Recent
    <3> QED BY <3>1, <3>2
  <2>2. \A d \in Calls : LookedUp(d)'
    BY <1>2, StillLookedUp DEF Apart
  <2> QED BY <2>1, <2>2 DEF WindowInv
<1>3. ASSUME NEW c \in Calls, Turn!Check(c) PROVE WindowInv'
  <2>1. /\ LookedUp(c)' /\ UNCHANGED <<call, seen, history, order>> /\ checked' = [checked EXCEPT ![c] = Len(order)]
        /\ \A d \in Calls : d # c => stage'[d] = stage[d] /\ errors'[d] = errors[d]
    BY <1>3, CheckLooksUp
  <2>2. checked' \in [Calls -> Nat] /\ \A d \in Calls : checked'[d] <= Len(order) /\ (d # c => checked'[d] = checked[d])
    BY <1>1, <2>1
  <2>3. (WindowTypes /\ Window /\ Remembered)'
    BY <2>1, <2>2 DEF WindowInv, WindowTypes, Window, Remembered, Recent
  <2>4. ASSUME NEW d \in Calls, d # c PROVE LookedUp(d)'
    BY <2>1, <2>2, <2>4, StillLookedUp
  <2> QED BY <2>1, <2>3, <2>4 DEF WindowInv
<1>4. ASSUME NEW c \in Calls, Turn!Record(c) PROVE WindowInv'
  <2>1. (WindowTypes /\ Window /\ Remembered)'
    BY <1>4, RecordWindow
  <2>2. /\ order' = Append(order, call[c].key) /\ UNCHANGED <<call, errors, checked>>
        /\ stage[c] = "record" /\ stage' = [stage EXCEPT ![c] = "guarded"]
    BY <1>4 DEF Turn!Record, Turn!Go
  <2>3. \A d \in Calls : d # c => stage'[d] = stage[d]
    BY <2>2 DEF CallInv, CallTypes
  <2>4. \A i \in 1..Len(order) : order'[i] = order[i]
    <3>1. call[c].key \in Keys
      BY DEF CallInv, CallTypes, Keys
    <3>2. PICK k \in Keys : k = call[c].key
      BY <3>1
    <3> QED BY <1>1, <2>2, <3>2, AppendFacts
  <2>5. ASSUME NEW d \in Calls PROVE LookedUp(d)'
    BY <2>2, <2>3, <2>4, StillLookedUp
  <2> QED BY <2>1, <2>5 DEF WindowInv
<1>5. CASE UNCHANGED Turn!vars
  BY <1>2, <1>5 DEF Turn!vars, Apart
<1> QED BY <1>2, <1>3, <1>4, <1>5, OthersStayApart DEF Turn!Next

-----------------------------------------------------------------------------
TurnInv == CallInv /\ CountsHold /\ WindowInv

LEMMA TurnInvGuards == ASSUME Turn!TurnsAssumption, TurnInv PROVE Turn!TypeOK /\ Turn!LimitsHold
<1>1. CallInv /\ CountsHold /\ WindowInv
  BY DEF TurnInv
<1>2. /\ order \in Seq(Keys) /\ DOMAIN order = 1..Len(order) /\ DOMAIN history = 1..Len(history) /\ Len(order) \in Nat
      /\ \A c \in Calls : checked[c] \in Nat /\ checked[c] <= Len(order)
  BY <1>1 DEF WindowInv, WindowTypes
<1>3. Turn!TypeOK
  <2>1. /\ Len(history) <= MaxHistory
        /\ seen \subseteq {history[i] : i \in DOMAIN history}
    BY <1>1, <1>2 DEF WindowInv, Window, Remembered
  <2>2. spent \in 0..Turn!Cardinality(Calls)
    BY <1>1, CountsBound, SameCounting
  <2>3. \A c \in Calls : stage[c] \in Stages /\ tokens[c] \in {"none", "live", "cancelled"}
                         /\ work[c] \in {"idle", "running"} \cup Turn!Outcomes
    BY <1>1, CallFacts
  <2> QED BY <2>1, <2>2, <2>3 DEF Turn!TypeOK, Stages
<1>4. ASSUME NEW c \in Calls, Turn!Builtin(c), stage[c] \notin {"start", "check"}, ~Turn!Objects(c)
      PROVE  /\ errors[c] => Turn!Earlier(c) # {}
             /\ (Turn!Earlier(c) # {} /\ \A i \in Turn!Earlier(c) : checked[c] < i + MaxHistory) => errors[c]
  <2>1. LookedUp(c)
    BY <1>1 DEF WindowInv
  <2>2. \A i : i \in Turn!Earlier(c) <=> i \in 1..checked[c] /\ order[i] = call[c].key
    BY <1>2 DEF Turn!Earlier
  <2>3. Turn!Earlier(c) # {} <=> \E i \in 1..checked[c] : order[i] = call[c].key
    BY <2>2
  <2> QED BY <1>4, <2>1, <2>2, <2>3 DEF LookedUp
<1>5. Turn!Cardinality(Turn!Passed) > Budget => \E c, d \in Turn!Passed : c # d /\ held[c] = held[d]
  BY <1>1, CountsBound, SameCounting
<1>6. \A c \in Calls : errors[c] => work[c] = "idle" /\ answer[c] \in {"none", "error"}
  BY <1>1, CallFacts DEF Shape
<1> QED BY <1>3, <1>4, <1>5, <1>6 DEF Turn!LimitsHold

LEMMA TurnInvAlways == ASSUME Turn!TurnsAssumption PROVE Turn!Spec => []TurnInv
<1>1. Turn!Init => TurnInv
  BY CallInit, CountsInit, WindowInit DEF TurnInv
<1>2. TurnInv /\ [Turn!Next]_(Turn!vars) => TurnInv'
  BY CallKept, CountsKept, WindowKept DEF TurnInv
<1> QED BY <1>1, <1>2, PTL DEF Turn!Spec

\* The window of repeats and the budget hold, for any calls: a call is refused as a repeat exactly
\* when an equal one was recorded before it was looked up and is still in the window, and the
\* limited skill runs more often than its budget only when two calls read the same count
\* (IdempotencyGuard; the counter of the skill adapter); a refused call never reaches its handler,
\* and a handler gets arguments of the types that its schema declares.
THEOREM CallsStayGuarded ==
  ASSUME Turn!TurnsAssumption PROVE Turn!Spec => [](Turn!LimitsHold /\ Turn!HandlersGetTheirTypes) /\ []CallsAreGuarded
<1>1. TurnInv => (Turn!LimitsHold /\ Turn!HandlersGetTheirTypes) /\ CallsAreGuarded
  BY TurnInvGuards, CallInvTypes DEF TurnInv, CallsAreGuarded
<1> QED BY <1>1, TurnInvAlways, PTL

\* The log of a session closes every call that it opens, once and with the status the model got, and
\* leaves no token of a closed call behind (the event logging and the tokens of the two adapters).
THEOREM AnswersStayLogged ==
  ASSUME Turn!TurnsAssumption PROVE Turn!Spec => [](Turn!TypeOK /\ Turn!AnswersAreLogged) /\ []AnswersAreLogged
<1>1. TurnInv => (Turn!TypeOK /\ Turn!AnswersAreLogged) /\ AnswersAreLogged
  BY TurnInvGuards, CallInvAnswers DEF TurnInv, AnswersAreLogged
<1> QED BY <1>1, TurnInvAlways, PTL

-----------------------------------------------------------------------------
(* The container engine: what a call knows of it.                                              *)
Boxes == [id : Nat, old : BOOLEAN, up : BOOLEAN]
Commands == {"list", "inspect", "clean", "image", "create", "await", "spawned", "exec", "command", "stop", "rm", "over"}
Spawning == {"list", "inspect", "clean", "image", "create", "await"}
Results == {"none", "success", "failed", "missing", "cancelled", "raised"}
Views == [name : Names, id : Nat, old : BOOLEAN]

EngineTypes ==
    /\ \A c \in Callers : Engine!Name(c) \in Names /\ Engine!Session(c) \in Sessions
    /\ stage \in [Callers -> Commands] /\ engine \in [Names -> Boxes] /\ created \in Nat
    /\ picture \in [Callers -> SUBSET Views] /\ doomed \in [Callers -> SUBSET Names]
    /\ using \in [Callers -> Nat] /\ scratch \in [Sessions -> BOOLEAN] /\ answer \in [Callers -> Results]
    /\ took \in [Callers -> [id : Nat, up : BOOLEAN, own : BOOLEAN]]

\* Every container has an id of its own, and 0 is that of none.
Ids ==
    /\ \A n \in Names : engine[n].id <= created /\ (engine[n].id = 0 => engine[n] = Engine!Gone)
    /\ \A m, n \in Names : (m # n /\ engine[m].id # 0) => engine[m].id # engine[n].id

\* What has become of the containers in a picture.
Stale(c, x) == x.old \/ Engine!Cardinality(Engine!Younger(picture[c], x)) >= MaxContainers
Lost(c, x) == \E h \in gone : h[1] = x.id /\ (h[2] # c \/ x.name \notin doomed[c])
Traced(c, x) ==
    /\ 0 < x.id /\ x.id <= created
    /\ \A n \in Names : engine[n].id = x.id => n = x.name
    /\ engine[x.name].id = x.id \/ Lost(c, x)
    /\ engine[x.name].id = 0 \/ x.id <= engine[x.name].id
Pictured(c) ==
    /\ \A x \in picture[c] : Traced(c, x)
    /\ \A x, y \in picture[c] : x.name = y.name => x = y
    /\ stage[c] = "clean" => \A n \in doomed[c] : \E x \in picture[c] : x.name = n /\ Stale(c, x)
    /\ stage[c] \in {"list", "inspect", "stop", "rm"} => picture[c] = {}

\* What a cleanup has removed.
Spares(g) ==
    /\ picture[g[2]] # {}
    /\ \A x \in picture[g[2]] : x.id = g[1] => Stale(g[2], x)
    /\ (\A x \in picture[g[2]] : x.id # g[1]) => \E x \in picture[g[2]] : x.id < g[1] /\ \E h \in gone : h[1] = x.id /\ h[2] # g[2]
Removals == \A g \in gone : g[3] = "stale" => g[2] \in Callers /\ stage[g[2]] \notin {"list", "inspect"} /\ Spares(g)

\* What a call knows of the container that its spawn has returned.
Emptied(c) == \E d \in Callers : Engine!Op(d) = "container_destroy" /\ Engine!Session(d) = Engine!Session(c) /\ stage[d] = "over"
Tracked(c) ==
    /\ stage[c] # "over" => answer[c] = "none"
    /\ stage[c] \in Spawning => Engine!Spawns(c)
    /\ stage[c] \in {"stop", "rm"} => Engine!Op(c) = "container_destroy"
    /\ stage[c] = "exec" => Engine!Op(c) = "container_exec"
    /\ stage[c] = "spawned" => took[c].id # 0 /\ Engine!Spawns(c)
    /\ stage[c] = "spawned" =>
          \/ engine[Engine!Name(c)].id = took[c].id /\ engine[Engine!Name(c)].up = took[c].up
          \/ Engine!ByOther(took[c].id, c)
    /\ took[c].own => took[c].up
    /\ (Engine!Op(c) = "execute_python" /\ answer[c] = "missing") =>
          Engine!ByOther(took[c].id, c) \/ (~took[c].up /\ ~took[c].own)
    /\ stage[c] = "await" \/ took[c].own => scratch[Engine!Session(c)] \/ Emptied(c)

EngineInv == EngineTypes /\ Ids /\ (\A c \in Callers : Pictured(c) /\ Tracked(c)) /\ Removals

-----------------------------------------------------------------------------
\* A finite set of naturals has a greatest member, unless it is empty.
LEMMA GreatestMember ==
  ASSUME NEW S, IsFiniteSet(S), S \subseteq Nat, S # {}
  PROVE  \E x \in S : \A y \in S : x >= y
<1> DEFINE Topless == {n \in Nat : \E U \in SUBSET S : /\ IsFiniteSet(U) /\ U # {} /\ Cardinality(U) = n
                                                       /\ ~ \E x \in U : \A y \in U : x >= y}
<1>1. SUFFICES Topless = {}
  BY FS_CardinalityType
<1>2. SUFFICES ASSUME Topless # {} PROVE FALSE
  OBVIOUS
<1>3. PICK n \in Topless : \A m \in Topless : n <= m
  BY <1>2, LeastMember
<1>4. PICK U \in SUBSET S : IsFiniteSet(U) /\ U # {} /\ Cardinality(U) = n /\ ~ \E x \in U : \A y \in U : x >= y
  BY <1>3
<1>5. PICK z \in U : TRUE
  BY <1>4
<1>6. PICK V : V = U \ {z}
  OBVIOUS
<1>7. IsFiniteSet(V) /\ Cardinality(V) = n - 1 /\ n \in Nat /\ Cardinality(V) \in Nat
  BY <1>3, <1>4, <1>5, <1>6, FS_RemoveElement, FS_CardinalityType
<1>8. V \in SUBSET S
  BY <1>6
<1>9. CASE V = {}
  <2>1. U = {z}
    BY <1>5, <1>6, <1>9
  <2> QED BY <1>4, <2>1
<1>10. CASE V # {}
  <2>1. n - 1 \notin Topless
    BY <1>3, <1>7
  <2>2. PICK x \in V : \A y \in V : x >= y
    BY <1>7, <1>8, <1>10, <2>1
  <2>3. x \in Nat /\ z \in Nat /\ U = V \cup {z} /\ V \subseteq Nat
    BY <1>5, <1>6, <1>8
  <2>4. CASE x >= z
    BY <1>4, <2>2, <2>3, <2>4
  <2>5. CASE z >= x
    BY <1>4, <2>2, <2>3, <2>5
  <2> QED BY <2>3, <2>4, <2>5
<1> QED BY <1>9, <1>10


LEMMA EngineInit == ASSUME Engine!ScenesAssumption, Engine!Init PROVE EngineInv
<1>1. PICK scene \in Scenes : call = scene.call /\ engine = scene.engine
  BY DEF Engine!Init
<1>2. /\ engine \in [Names -> Boxes]
      /\ \A n \in Names : engine[n].id = 0 => engine[n] = Engine!Gone
      /\ \A m, n \in Names : (m # n /\ engine[m].id # 0) => engine[m].id # engine[n].id
      /\ \A c \in Callers : call[c].session \in Sessions /\ call[c].name \in Names
  BY <1>1 DEF Engine!ScenesAssumption, Boxes
<1>3. created \in Nat /\ \A n \in Names : engine[n].id <= created
  <2>1. PICK S : S = {engine[n].id : n \in Names}
    OBVIOUS
  <2>2. IsFiniteSet(Names) /\ Names # {}
    BY DEF Engine!ScenesAssumption, Engine!IsFiniteSet, IsFiniteSet
  <2>3. IsFiniteSet(S) /\ S # {} /\ S \subseteq Nat
    <3>1. S \subseteq Nat /\ S # {}
      BY <1>2, <2>1, <2>2 DEF Boxes
    <3>2. IsFiniteSet({engine[n].id : n \in Names})
      <4> DEFINE f == [n \in Names |-> engine[n].id]
      <4>1. f \in Surjection(Names, S)
        BY <2>1 DEF Surjection
      <4> QED BY <2>1, <2>2, <4>1, FS_Surjection
    <3> QED BY <2>1, <3>1, <3>2
  <2>4. PICK top \in S : \A y \in S : top >= y
    BY <2>3, GreatestMember
  <2>5. created = Engine!Max(S)
    BY <2>1 DEF Engine!Init
  <2>6. created \in S /\ \A y \in S : created >= y
    BY <2>4, <2>5 DEF Engine!Max
  <2> QED BY <1>2, <2>1, <2>3, <2>6 DEF Boxes
<1>4. /\ picture = [c \in Callers |-> {}] /\ doomed = [c \in Callers |-> {}] /\ using = [c \in Callers |-> 0]
      /\ answer = [c \in Callers |-> "none"] /\ gone = {}
      /\ took = [c \in Callers |-> [id |-> 0, up |-> FALSE, own |-> FALSE]]
      /\ scratch = [s \in Sessions |-> \E n \in Names : Engine!There(n)]
      /\ stage = [c \in Callers |-> CASE Engine!Spawns(c) -> "list" [] Engine!Op(c) = "container_exec" -> "exec"
                                      [] Engine!Op(c) = "container_destroy" -> "stop" [] OTHER -> "over"]
  BY DEF Engine!Init
<1>5. ASSUME NEW c \in Callers
      PROVE  \/ stage[c] = "list" /\ Engine!Spawns(c)
             \/ stage[c] = "exec" /\ Engine!Op(c) = "container_exec"
             \/ stage[c] = "stop" /\ Engine!Op(c) = "container_destroy"
             \/ stage[c] = "over"
  <2>1. stage[c] = CASE Engine!Spawns(c) -> "list" [] Engine!Op(c) = "container_exec" -> "exec"
                     [] Engine!Op(c) = "container_destroy" -> "stop" [] OTHER -> "over"
    BY <1>4
  <2> QED BY <2>1 DEF Engine!Spawns
<1>6. EngineTypes
  <2>1. stage \in [Callers -> Commands]
    BY <1>4, <1>5 DEF Commands
  <2> QED BY <1>2, <1>3, <1>4, <2>1 DEF EngineTypes, Engine!Name, Engine!Session, Results
<1>7. Ids
  BY <1>2, <1>3 DEF Ids
<1>8. \A c \in Callers : Pictured(c)
  BY <1>4, <1>5 DEF Pictured
<1>9. \A c \in Callers : Tracked(c)
  BY <1>4, <1>5 DEF Tracked, Spawning
<1>10. Removals
  BY <1>4 DEF Removals
<1> QED BY <1>6, <1>7, <1>8, <1>9, <1>10 DEF EngineInv

-----------------------------------------------------------------------------
(* What a step does with the engine. *)
Stays == UNCHANGED <<engine, created, gone>>
Taken(c, n, why) ==
    /\ n \in Names /\ engine[n].id # 0 /\ engine' = [engine EXCEPT ![n] = Engine!Gone] /\ UNCHANGED created
    /\ gone' = gone \cup {<<engine[n].id, c, why>>}
Stopped(c, n) ==
    /\ n \in Names /\ engine[n].id # 0 /\ engine' = [engine EXCEPT ![n].up = FALSE] /\ UNCHANGED created
    /\ gone' = gone \cup {<<engine[n].id, c, "destroy">>}
Made(n) ==
    /\ n \in Names /\ engine[n].id = 0 /\ created' = created + 1 /\ UNCHANGED gone
    /\ \E up \in BOOLEAN : engine' = [engine EXCEPT ![n] = [id |-> created + 1, old |-> FALSE, up |-> up]]

LEMMA ThereHasId ==
  ASSUME EngineInv, NEW n \in Names
  PROVE  Engine!There(n) <=> engine[n].id # 0
BY DEF EngineInv, Ids, Engine!There, Engine!Gone

\* What the other entries of the engine, and the ids, are after each.
LEMMA AfterTaken ==
  ASSUME EngineInv, NEW c \in Callers, NEW n, NEW why, Taken(c, n, why)
  PROVE  /\ engine' \in [Names -> Boxes] /\ created' \in Nat /\ Ids'
         /\ engine'[n].id = 0 /\ ~engine'[n].up /\ \A m \in Names : m # n => engine'[m] = engine[m]
<1>1. engine \in [Names -> Boxes] /\ created \in Nat /\ Ids
  BY DEF EngineInv, EngineTypes
<1>2. Engine!Gone \in Boxes /\ Engine!Gone.id = 0 /\ Engine!Gone.up = FALSE
  BY DEF Engine!Gone, Boxes
<1>3. engine' \in [Names -> Boxes] /\ engine'[n] = Engine!Gone /\ \A m \in Names : m # n => engine'[m] = engine[m]
  BY <1>1, <1>2 DEF Taken
<1>4. Ids'
  BY <1>1, <1>2, <1>3 DEF Ids, Taken, Boxes
<1> QED BY <1>1, <1>2, <1>3, <1>4 DEF Taken

LEMMA AfterStopped ==
  ASSUME EngineInv, NEW c \in Callers, NEW n, Stopped(c, n)
  PROVE  /\ engine' \in [Names -> Boxes] /\ created' \in Nat /\ Ids'
         /\ engine'[n].id = engine[n].id /\ ~engine'[n].up /\ \A m \in Names : m # n => engine'[m] = engine[m]
<1>1. engine \in [Names -> Boxes] /\ created \in Nat /\ Ids
  BY DEF EngineInv, EngineTypes
<1>2. PICK box \in Boxes : box = [engine[n] EXCEPT !.up = FALSE]
  BY <1>1 DEF Stopped, Boxes
<1>3. box.id = engine[n].id /\ box.up = FALSE
  BY <1>1, <1>2 DEF Stopped, Boxes
<1>4. engine' = [engine EXCEPT ![n] = box]
  BY <1>2 DEF Stopped
<1>5. engine' \in [Names -> Boxes] /\ engine'[n] = box /\ \A m \in Names : m # n => engine'[m] = engine[m]
  BY <1>1, <1>4 DEF Stopped
<1>6. Ids'
  BY <1>1, <1>3, <1>5 DEF Ids, Stopped, Boxes
<1> QED BY <1>1, <1>3, <1>5, <1>6 DEF Stopped

LEMMA AfterMade ==
  ASSUME EngineInv, NEW n, Made(n)
  PROVE  /\ engine' \in [Names -> Boxes] /\ created' = created + 1 /\ created \in Nat /\ Ids'
         /\ engine'[n].id = created + 1 /\ \A m \in Names : m # n => engine'[m] = engine[m]
<1>1. engine \in [Names -> Boxes] /\ created \in Nat /\ Ids
  BY DEF EngineInv, EngineTypes
<1>2. PICK box \in Boxes : box.id = created + 1 /\ engine' = [engine EXCEPT ![n] = box]
  <2>1. PICK up \in BOOLEAN : engine' = [engine EXCEPT ![n] = [id |-> created + 1, old |-> FALSE, up |-> up]]
    BY DEF Made
  <2>2. PICK box : box = [id |-> created + 1, old |-> FALSE, up |-> up]
    OBVIOUS
  <2>3. box \in Boxes /\ box.id = created + 1
    BY <1>1, <2>2 DEF Boxes
  <2>4. engine' = [engine EXCEPT ![n] = box]
    BY <2>1, <2>2
  <2> QED BY <2>3, <2>4
<1>3. engine' \in [Names -> Boxes] /\ engine'[n] = box /\ \A m \in Names : m # n => engine'[m] = engine[m]
  BY <1>1, <1>2 DEF Made
<1>4. Ids'
  BY <1>1, <1>2, <1>3 DEF Ids, Made, Boxes
<1> QED BY <1>1, <1>2, <1>3, <1>4 DEF Made


-----------------------------------------------------------------------------
(* A step leaves what the other calls know as it is. *)
Changes(c) == Stays \/ (\E n, why : Taken(c, n, why)) \/ (\E n : Stopped(c, n)) \/ (\E n : Made(n))

LEMMA AfterChange ==
  ASSUME EngineInv, NEW c \in Callers, Changes(c)
  PROVE  /\ engine' \in [Names -> Boxes] /\ created' \in Nat /\ created <= created' /\ Ids'
         /\ gone \subseteq gone' /\ \A h \in gone' : h \in gone \/ h[2] = c
<1>1. engine \in [Names -> Boxes] /\ created \in Nat /\ Ids
  BY DEF EngineInv, EngineTypes
<1>2. CASE Stays
  BY <1>1, <1>2 DEF Stays, Ids
<1>3. ASSUME NEW n, NEW why, Taken(c, n, why)
      PROVE  /\ engine' \in [Names -> Boxes] /\ created' \in Nat /\ created <= created' /\ Ids'
             /\ gone \subseteq gone' /\ \A h \in gone' : h \in gone \/ h[2] = c
  <2>1. gone \subseteq gone' /\ \A h \in gone' : h \in gone \/ h[2] = c
    BY <1>3 DEF Taken
  <2>2. engine' \in [Names -> Boxes] /\ created' \in Nat /\ Ids'
    BY <1>1, <1>3, AfterTaken
  <2>3. created <= created'
    BY <1>1, <1>3 DEF Taken
  <2> QED BY <2>1, <2>2, <2>3
<1>4. ASSUME NEW n, Stopped(c, n)
      PROVE  /\ engine' \in [Names -> Boxes] /\ created' \in Nat /\ created <= created' /\ Ids'
             /\ gone \subseteq gone' /\ \A h \in gone' : h \in gone \/ h[2] = c
  <2>1. gone \subseteq gone' /\ \A h \in gone' : h \in gone \/ h[2] = c
    BY <1>4 DEF Stopped
  <2>2. engine' \in [Names -> Boxes] /\ created' \in Nat /\ Ids'
    BY <1>1, <1>4, AfterStopped
  <2>3. created <= created'
    BY <1>1, <1>4 DEF Stopped
  <2> QED BY <2>1, <2>2, <2>3
<1>5. ASSUME NEW n, Made(n)
      PROVE  /\ engine' \in [Names -> Boxes] /\ created' \in Nat /\ created <= created' /\ Ids'
             /\ gone \subseteq gone' /\ \A h \in gone' : h \in gone \/ h[2] = c
  <2>1. gone \subseteq gone' /\ \A h \in gone' : h \in gone \/ h[2] = c
    BY <1>5 DEF Made
  <2>2. engine' \in [Names -> Boxes] /\ created' \in Nat /\ Ids'
    BY <1>1, <1>5, AfterMade
  <2>3. created <= created'
    BY <1>1, <1>5 DEF Made
  <2> QED BY <2>1, <2>2, <2>3
<1> QED BY <1>2, <1>3, <1>4, <1>5 DEF Changes

\* A picture of another call, or of one that takes nothing away, stays traced.
LEMMA StillTraced ==
  ASSUME EngineInv, NEW c \in Callers, Changes(c), NEW d \in Callers,
         d # c \/ Stays \/ (\E n : Made(n)),
         UNCHANGED picture[d], doomed'[d] \subseteq doomed[d], NEW x \in picture[d]
  PROVE  Traced(d, x)'
<1>1. /\ engine \in [Names -> Boxes] /\ created \in Nat /\ Ids /\ Traced(d, x) /\ x.name \in Names /\ x.id \in Nat
  BY DEF EngineInv, EngineTypes, Pictured, Views
<1>2. gone \subseteq gone' /\ created <= created' /\ engine' \in [Names -> Boxes] /\ created' \in Nat
  BY AfterChange
<1>3. Lost(d, x) => Lost(d, x)'
  BY <1>2 DEF Lost
<1>4. CASE Stays
  BY <1>1, <1>2, <1>3, <1>4 DEF Stays, Traced
<1>5. ASSUME NEW n, NEW why, Taken(c, n, why), d # c PROVE Traced(d, x)'
  <2>1. n \in Names /\ engine'[n].id = 0 /\ \A m \in Names : m # n => engine'[m] = engine[m]
    BY <1>5, AfterTaken DEF Taken
  <2>2. <<engine[n].id, c, why>> \in gone'
    BY <1>5 DEF Taken
  <2>3. engine[n].id = x.id => Lost(d, x)'
    BY <1>5, <2>2 DEF Lost
  <2>4. engine'[x.name].id = x.id \/ Lost(d, x)'
    BY <1>1, <1>3, <2>1, <2>3 DEF Traced
  <2>5. \A m \in Names : engine'[m].id = x.id => m = x.name
    BY <1>1, <2>1 DEF Traced
  <2>6. engine'[x.name].id = 0 \/ x.id <= engine'[x.name].id
    BY <1>1, <2>1 DEF Traced
  <2>7. 0 < x.id /\ x.id <= created'
    BY <1>1, <1>2 DEF Traced
  <2> QED BY <2>4, <2>5, <2>6, <2>7 DEF Traced
<1>6. ASSUME NEW n, Stopped(c, n) PROVE Traced(d, x)'
  <2>1. \A m \in Names : engine'[m].id = engine[m].id
    BY <1>6, AfterStopped DEF Stopped
  <2> QED BY <1>1, <1>2, <1>3, <2>1 DEF Traced
<1>7. ASSUME NEW n, Made(n) PROVE Traced(d, x)'
  <2>1. /\ n \in Names /\ engine[n].id = 0 /\ engine'[n].id = created + 1 /\ \A m \in Names : m # n => engine'[m] = engine[m]
    BY <1>7, AfterMade DEF Made
  <2> QED BY <1>1, <1>2, <1>3, <2>1 DEF Traced
<1> QED BY <1>4, <1>5, <1>6, <1>7 DEF Changes, Stopped, Stays, Taken

LEMMA StillPictured ==
  ASSUME EngineInv, NEW c \in Callers, Changes(c), NEW d \in Callers,
         d # c \/ Stays \/ (\E n : Made(n)),
         UNCHANGED <<picture[d], doomed[d]>>, stage'[d] \in {"list", "inspect", "clean", "stop", "rm"} => stage'[d] = stage[d]
  PROVE  Pictured(d)'
<1>1. Pictured(d)
  BY DEF EngineInv
<1>2. \A x \in picture'[d] : Traced(d, x)'
  BY StillTraced
<1>3. \A x \in picture[d] : Stale(d, x)' <=> Stale(d, x)
  BY DEF Stale
<1> QED BY <1>1, <1>2, <1>3 DEF Pictured


LEMMA StillTracked ==
  ASSUME EngineInv, NEW c \in Callers, Changes(c), UNCHANGED call, NEW d \in Callers, d # c,
         UNCHANGED <<stage[d], took[d], answer[d]>>, Emptied(d) => Emptied(d)',
         scratch[Engine!Session(d)] => scratch'[Engine!Session(d)] \/ Emptied(d)'
  PROVE  Tracked(d)'
<1>1. /\ engine \in [Names -> Boxes] /\ created \in Nat /\ Ids /\ Tracked(d) /\ Engine!Name(d) \in Names
  BY DEF EngineInv, EngineTypes
<1>2. gone \subseteq gone'
  BY AfterChange
<1>3. /\ Engine!Name(d)' = Engine!Name(d) /\ Engine!Session(d)' = Engine!Session(d) /\ Engine!Op(d)' = Engine!Op(d)
      /\ Engine!Spawns(d)' = Engine!Spawns(d)
  BY DEF Engine!Name, Engine!Session, Engine!Op, Engine!Spawns
<1>4. Engine!ByOther(took[d].id, d) => Engine!ByOther(took[d].id, d)'
  BY <1>2 DEF Engine!ByOther
<1>5. ASSUME stage[d] = "spawned"
      PROVE  \/ engine'[Engine!Name(d)].id = took[d].id /\ engine'[Engine!Name(d)].up = took[d].up
             \/ Engine!ByOther(took[d].id, d)'
  <2>1. CASE Engine!ByOther(took[d].id, d)
    BY <1>4, <2>1
  <2>2. CASE engine[Engine!Name(d)].id = took[d].id /\ engine[Engine!Name(d)].up = took[d].up
    <3>1. took[d].id # 0
      BY <1>1, <1>5 DEF Tracked
    <3>2. ASSUME NEW n, NEW why, Taken(c, n, why)
          PROVE  engine'[Engine!Name(d)] = engine[Engine!Name(d)] \/ Engine!ByOther(took[d].id, d)'
      <4>1. \A m \in Names : m # n => engine'[m] = engine[m]
        BY <3>2, AfterTaken
      <4>2. <<engine[n].id, c, why>> \in gone'
        BY <3>2 DEF Taken
      <4> QED BY <1>1, <2>2, <4>1, <4>2 DEF Engine!ByOther
    <3>3. ASSUME NEW n, Stopped(c, n)
          PROVE  engine'[Engine!Name(d)] = engine[Engine!Name(d)] \/ Engine!ByOther(took[d].id, d)'
      <4>1. \A m \in Names : m # n => engine'[m] = engine[m]
        BY <3>3, AfterStopped
      <4>2. <<engine[n].id, c, "destroy">> \in gone'
        BY <3>3 DEF Stopped
      <4> QED BY <1>1, <2>2, <4>1, <4>2 DEF Engine!ByOther
    <3>4. ASSUME NEW n, Made(n) PROVE engine'[Engine!Name(d)] = engine[Engine!Name(d)]
      <4>1. engine[n].id = 0 /\ \A m \in Names : m # n => engine'[m] = engine[m]
        BY <3>4, AfterMade DEF Made
      <4> QED BY <1>1, <2>2, <3>1, <4>1
    <3>5. Stays => engine'[Engine!Name(d)] = engine[Engine!Name(d)]
      BY DEF Stays
    <3> QED BY <2>2, <3>2, <3>3, <3>4, <3>5 DEF Changes
  <2> QED BY <1>1, <1>5, <2>1, <2>2 DEF Tracked
<1> DEFINE name == Engine!Name(d)
           session == Engine!Session(d)
<1>6. /\ stage'[d] = stage[d] /\ took'[d] = took[d] /\ answer'[d] = answer[d]
      /\ engine'[Engine!Name(d)'] = engine'[name] /\ scratch'[Engine!Session(d)'] = scratch'[session]
  BY <1>3
<1>7. stage[d] = "await" \/ took[d].own => scratch'[session] \/ Emptied(d)'
  BY <1>1 DEF Tracked
<1>8. (Engine!Op(d) = "execute_python" /\ answer[d] = "missing") =>
        Engine!ByOther(took[d].id, d)' \/ (~took[d].up /\ ~took[d].own)
  BY <1>1, <1>4 DEF Tracked
<1> QED BY <1>1, <1>3, <1>5, <1>6, <1>7, <1>8 DEF Tracked


LEMMA ActorTracked ==
  ASSUME EngineInv, NEW c \in Callers, Changes(c), UNCHANGED <<call, took[c]>>,
         stage'[c] \in Spawning => stage[c] \in Spawning, stage'[c] \notin {"exec", "spawned"},
         stage'[c] \in {"stop", "rm"} => stage[c] \in {"stop", "rm"},
         stage[c] # "over", stage'[c] = "over" \/ answer'[c] = answer[c],
         answer'[c] = answer[c] \/ answer'[c] # "missing", Emptied(c) => Emptied(c)',
         stage'[c] = "await" => scratch'[Engine!Session(c)],
         scratch[Engine!Session(c)] => scratch'[Engine!Session(c)] \/ Emptied(c)'
  PROVE  Tracked(c)'
<1>1. Tracked(c) /\ gone \subseteq gone'
  BY AfterChange DEF EngineInv
<1>2. /\ Engine!Name(c)' = Engine!Name(c) /\ Engine!Session(c)' = Engine!Session(c) /\ Engine!Op(c)' = Engine!Op(c)
      /\ Engine!Spawns(c)' = Engine!Spawns(c)
  BY DEF Engine!Name, Engine!Session, Engine!Op, Engine!Spawns
<1>3. Engine!ByOther(took[c].id, c) => Engine!ByOther(took[c].id, c)'
  BY <1>1 DEF Engine!ByOther
<1> DEFINE session == Engine!Session(c)
<1>4. took'[c] = took[c] /\ scratch'[Engine!Session(c)'] = scratch'[session]
  BY <1>2
<1>5. took[c].own => scratch'[session] \/ Emptied(c)'
  BY <1>1 DEF Tracked
<1>6. (Engine!Op(c) = "execute_python" /\ answer'[c] = "missing") =>
        Engine!ByOther(took[c].id, c)' \/ (~took[c].up /\ ~took[c].own)
  BY <1>1, <1>3 DEF Tracked
<1> QED BY <1>1, <1>2, <1>4, <1>5, <1>6 DEF Tracked

LEMMA RemovalsKept ==
  ASSUME EngineInv, NEW c \in Callers, Changes(c),
         \A d \in Callers : stage[d] \notin {"list", "inspect"} =>
                               stage'[d] \notin {"list", "inspect"} /\ picture'[d] = picture[d],
         \A g \in gone' : g \notin gone /\ g[3] = "stale" =>
                             g[2] \in Callers /\ stage'[g[2]] \notin {"list", "inspect"} /\ Spares(g)'
  PROVE  Removals'
<1>1. gone \subseteq gone'
  BY AfterChange
<1>2. ASSUME NEW g \in gone, g[3] = "stale"
      PROVE  g[2] \in Callers /\ stage'[g[2]] \notin {"list", "inspect"} /\ Spares(g)'
  <2>1. g[2] \in Callers /\ stage[g[2]] \notin {"list", "inspect"} /\ Spares(g)
    BY <1>2 DEF EngineInv, Removals
  <2>2. stage'[g[2]] \notin {"list", "inspect"} /\ picture'[g[2]] = picture[g[2]]
    BY <2>1
  <2>3. Spares(g)'
    <3>1. \A x : Stale(g[2], x)' <=> Stale(g[2], x)
      BY <2>2 DEF Stale
    <3> QED BY <1>1, <2>1, <2>2, <3>1 DEF Spares
  <2> QED BY <2>1, <2>2, <2>3
<1> QED BY <1>2 DEF Removals

LEMMA EmptiedStays ==
  ASSUME NEW c \in Callers, UNCHANGED call, stage[c] # "over", \A d \in Callers : d # c => UNCHANGED stage[d], NEW d \in Callers
  PROVE  Emptied(d) => Emptied(d)'
<1>1. \A e \in Callers : stage[e] = "over" => stage'[e] = "over"
  OBVIOUS
<1> QED BY <1>1 DEF Emptied, Engine!Op, Engine!Session

\* What is left to show of the step of a call.
LEMMA StepKept ==
  ASSUME EngineInv, NEW c \in Callers, Changes(c), UNCHANGED call, EngineTypes', stage[c] # "over",
         \A d \in Callers : d # c => UNCHANGED <<stage[d], picture[d], doomed[d], took[d], answer[d]>>,
         stage[c] \notin {"list", "inspect"} => stage'[c] \notin {"list", "inspect"} /\ picture'[c] = picture[c],
         \A d \in Callers : scratch[Engine!Session(d)] => scratch'[Engine!Session(d)] \/ Emptied(d)',
         \A g \in gone' : g \notin gone /\ g[3] = "stale" =>
                             g[2] \in Callers /\ stage'[g[2]] \notin {"list", "inspect"} /\ Spares(g)',
         Pictured(c)', Tracked(c)'
  PROVE  EngineInv'
<1>1. Ids'
  BY AfterChange
<1>2. Removals'
  BY RemovalsKept
<1>3. ASSUME NEW d \in Callers, d # c PROVE Pictured(d)' /\ Tracked(d)'
  <2>1. Pictured(d)'
    BY <1>3, StillPictured
  <2>2. Emptied(d) => Emptied(d)'
    <3>1. \A e \in Callers : e # c => UNCHANGED stage[e]
      OBVIOUS
    <3> QED BY <3>1, EmptiedStays
  <2>3. Tracked(d)'
    BY <1>3, <2>2, StillTracked
  <2> QED BY <2>1, <2>3
<1> QED BY <1>1, <1>2, <1>3 DEF EngineInv


-----------------------------------------------------------------------------
(* The steps of a call. *)
LEMMA CallerFacts ==
  ASSUME EngineInv, NEW c \in Callers
  PROVE  /\ EngineTypes /\ Ids /\ Pictured(c) /\ Tracked(c) /\ Engine!Name(c) \in Names /\ Engine!Session(c) \in Sessions
         /\ stage[c] \in Commands /\ answer[c] \in Results /\ picture[c] \in SUBSET Views /\ doomed[c] \in SUBSET Names
         /\ engine[Engine!Name(c)] \in Boxes /\ created \in Nat /\ took[c] \in [id : Nat, up : BOOLEAN, own : BOOLEAN]
BY DEF EngineInv, EngineTypes

\* A step that ends a call, or starts its command, and touches nothing else.
LEMMA PlainKeeps ==
  ASSUME EngineInv, NEW c \in Callers, UNCHANGED <<call, engine, created, gone, picture, doomed, took, scratch>>,
         stage[c] # "over", NEW s \in {"over", "command"}, stage' = [stage EXCEPT ![c] = s],
         NEW a \in Results, answer' = [answer EXCEPT ![c] = a], using' \in [Callers -> Nat],
         s = "over" \/ a = answer[c], a # "missing" \/ a = answer[c] \/ Tracked(c)'
  PROVE  EngineInv'
<1>1. EngineTypes' /\ stage'[c] = s /\ answer'[c] = a /\ \A d \in Callers : d # c => UNCHANGED <<stage[d], answer[d]>>
  BY CallerFacts DEF EngineTypes, Commands, Engine!Name, Engine!Session
<1>2. Changes(c) /\ Stays
  BY DEF Changes, Stays
<1>3. Pictured(c)'
  BY <1>1, <1>2, StillPictured
<1>4. Emptied(c) => Emptied(c)'
  BY <1>1, EmptiedStays
<1>5. Tracked(c)'
  <2>1. CASE a # "missing" \/ a = answer[c]
    BY <1>1, <1>2, <1>4, <2>1, ActorTracked DEF Spawning
  <2> QED BY <2>1
<1> QED BY <1>1, <1>2, <1>3, <1>5, StepKept

LEMMA CannotSpawnKeeps == ASSUME EngineInv, NEW c \in Callers, Engine!CannotSpawn(c) PROVE EngineInv'
<1>1. /\ stage[c] # "over" /\ stage' = [stage EXCEPT ![c] = "over"] /\ answer' = [answer EXCEPT ![c] = "failed"]
      /\ UNCHANGED <<call, engine, created, gone, picture, doomed, took, scratch, using>>
  BY DEF Engine!CannotSpawn, Engine!End, Engine!Go, Engine!world, Engine!view
<1> QED BY <1>1, PlainKeeps, CallerFacts DEF Results, EngineTypes

LEMMA CancelledKeeps == ASSUME EngineInv, NEW c \in Callers, Engine!Cancelled(c) PROVE EngineInv'
<1>1. /\ stage[c] # "over" /\ stage' = [stage EXCEPT ![c] = "over"] /\ answer' = [answer EXCEPT ![c] = "cancelled"]
      /\ using' = [using EXCEPT ![c] = 0]
      /\ UNCHANGED <<call, engine, created, gone, picture, doomed, took, scratch>>
  BY DEF Engine!Cancelled, Engine!End, Engine!Go, Engine!world, Engine!view
<1>2. using' \in [Callers -> Nat]
  BY <1>1, CallerFacts DEF EngineTypes
<1> QED BY <1>1, <1>2, PlainKeeps DEF Results

LEMMA CommandKeeps == ASSUME EngineInv, NEW c \in Callers, Engine!Command(c) PROVE EngineInv'
<1>1. PICK a \in {"failed", "success"} :
         /\ stage[c] # "over" /\ stage' = [stage EXCEPT ![c] = "over"] /\ answer' = [answer EXCEPT ![c] = a]
         /\ using' = [using EXCEPT ![c] = 0]
         /\ UNCHANGED <<call, engine, created, gone, picture, doomed, took, scratch>>
  BY DEF Engine!Command, Engine!End, Engine!Go, Engine!world, Engine!view
<1>2. using' \in [Callers -> Nat]
  BY <1>1, CallerFacts DEF EngineTypes
<1> QED BY <1>1, <1>2, PlainKeeps DEF Results

LEMMA ExecKeeps == ASSUME EngineInv, NEW c \in Callers, Engine!Exec(c) PROVE EngineInv'
<1>1. stage[c] \in {"spawned", "exec"} /\ UNCHANGED <<call, engine, created, gone, picture, doomed, took, scratch>>
  BY DEF Engine!Exec, Engine!world, Engine!view
<1>2. CASE engine[Engine!Name(c)].up /\ Engine!Go(c, stage[c], "command")
           /\ using' = [using EXCEPT ![c] = engine[Engine!Name(c)].id] /\ UNCHANGED answer
  <2>1. using' \in [Callers -> Nat]
    BY <1>2, CallerFacts DEF EngineTypes, Boxes
  <2>2. PICK a : a = answer[c]
    OBVIOUS
  <2>3. answer' = [answer EXCEPT ![c] = a] /\ a \in Results
    BY <1>2, <2>2, CallerFacts DEF EngineTypes
  <2>4. stage' = [stage EXCEPT ![c] = "command"]
    BY <1>2 DEF Engine!Go
  <2> QED BY <1>1, <2>1, <2>2, <2>3, <2>4, PlainKeeps
<1>3. CASE ~engine[Engine!Name(c)].up /\ Engine!End(c, stage[c], "missing") /\ UNCHANGED using
  <2>1. stage' = [stage EXCEPT ![c] = "over"] /\ answer' = [answer EXCEPT ![c] = "missing"] /\ using' \in [Callers -> Nat]
    BY <1>3, CallerFacts DEF Engine!End, Engine!Go, EngineTypes
  <2>2. stage'[c] = "over" /\ \A d \in Callers : d # c => UNCHANGED stage[d]
    BY <2>1, CallerFacts DEF EngineTypes
  <2>3. Engine!Op(c) = "execute_python" => Engine!ByOther(took[c].id, c) \/ (~took[c].up /\ ~took[c].own)
    <3> SUFFICES ASSUME Engine!Op(c) = "execute_python", ~Engine!ByOther(took[c].id, c) PROVE ~took[c].up /\ ~took[c].own
      OBVIOUS
    <3>1. Tracked(c)
      BY CallerFacts
    <3>2. stage[c] = "spawned"
      BY <1>1, <3>1 DEF Tracked
    <3>3. took[c].up = engine[Engine!Name(c)].up
      BY <3>1, <3>2 DEF Tracked
    <3> QED BY <1>3, <3>1, <3>3 DEF Tracked
  <2>4. Tracked(c)'
    <3>1. Tracked(c) /\ (Emptied(c) => Emptied(c)')
      BY <1>1, <2>2, EmptiedStays, CallerFacts
    <3>2. /\ Engine!Session(c)' = Engine!Session(c) /\ Engine!Op(c)' = Engine!Op(c)
          /\ Engine!ByOther(took[c].id, c)' = Engine!ByOther(took[c].id, c)
      BY <1>1 DEF Engine!Session, Engine!Op, Engine!ByOther
    <3> QED BY <1>1, <2>2, <2>3, <3>1, <3>2 DEF Tracked, Spawning
  <2> QED BY <1>1, <2>1, <2>4, PlainKeeps DEF Results
<1> QED BY <1>2, <1>3 DEF Engine!Exec


LEMMA ListKeeps == ASSUME EngineInv, NEW c \in Callers, Engine!List(c) PROVE EngineInv'
<1>1. PICK names \in SUBSET Names :
         /\ stage[c] = "list" /\ stage' = [stage EXCEPT ![c] = "inspect"] /\ doomed' = [doomed EXCEPT ![c] = names]
         /\ UNCHANGED <<call, engine, created, gone, picture, took, scratch, answer, using>>
  BY DEF Engine!List, Engine!Go, Engine!world
<1>2. /\ EngineTypes' /\ stage'[c] = "inspect"
      /\ \A d \in Callers : d # c => UNCHANGED <<stage[d], doomed[d]>>
  BY <1>1, CallerFacts DEF EngineTypes, Commands, Engine!Name, Engine!Session
<1>3. Changes(c)
  BY <1>1 DEF Changes, Stays
<1>4. picture'[c] = {}
  BY <1>1, CallerFacts DEF Pictured
<1>5. Pictured(c)'
  BY <1>2, <1>4 DEF Pictured
<1>6. Tracked(c)'
  <2>1. Emptied(c) => Emptied(c)'
    BY <1>1, <1>2, EmptiedStays
  <2> QED BY <1>1, <1>2, <1>3, <2>1, ActorTracked DEF Spawning
<1> QED BY <1>1, <1>2, <1>3, <1>5, <1>6, StepKept

LEMMA InspectKeeps == ASSUME EngineInv, NEW c \in Callers, Engine!Inspect(c) PROVE EngineInv'
<1> DEFINE snapshot == {[name |-> n, id |-> engine[n].id, old |-> engine[n].old] : n \in {n \in doomed[c] : Engine!There(n)}}
<1>1. PICK shot : shot = snapshot
  OBVIOUS
<1>2. /\ stage[c] = "inspect" /\ stage' = [stage EXCEPT ![c] = "clean"]
      /\ picture' = [picture EXCEPT ![c] = shot] /\ doomed' = [doomed EXCEPT ![c] = Engine!Doomed(shot)]
      /\ UNCHANGED <<call, engine, created, gone, took, scratch, answer, using>>
  BY <1>1 DEF Engine!Inspect, Engine!Go, Engine!world
<1>3. \A x \in shot : /\ x \in Views /\ x.name \in doomed[c] /\ x.id = engine[x.name].id /\ x.id # 0
  <2>1. ASSUME NEW n \in doomed[c], Engine!There(n), NEW x, x = [name |-> n, id |-> engine[n].id, old |-> engine[n].old]
        PROVE  x \in Views /\ x.name \in doomed[c] /\ x.id = engine[x.name].id /\ x.id # 0
    <3>1. n \in Names /\ engine[n] \in Boxes
      BY <2>1, CallerFacts DEF EngineTypes
    <3> QED BY <2>1, <3>1, ThereHasId DEF Views, Boxes
  <2> QED BY <1>1, <2>1
<1>4. \A x, y \in shot : x.name = y.name => x = y
  BY <1>1
<1>5. Engine!Doomed(shot) \in SUBSET Names
  BY <1>3 DEF Engine!Doomed, Views
<1>6. EngineTypes' /\ stage'[c] = "clean" /\ picture'[c] = shot /\ doomed'[c] = Engine!Doomed(shot)
      /\ \A d \in Callers : d # c => UNCHANGED <<stage[d], doomed[d], picture[d]>>
  <2>1. shot \in SUBSET Views
    BY <1>3
  <2>2. picture' \in [Callers -> SUBSET Views] /\ doomed' \in [Callers -> SUBSET Names] /\ stage' \in [Callers -> Commands]
    BY <1>2, <1>5, <2>1, CallerFacts DEF EngineTypes, Commands
  <2> QED BY <1>2, <2>2, CallerFacts DEF EngineTypes, Engine!Name, Engine!Session
<1>7. Changes(c)
  BY <1>2 DEF Changes, Stays
<1>8. Pictured(c)'
  <2>1. ASSUME NEW x \in shot PROVE Traced(c, x)'
    <3>1. x.name \in Names /\ x.id \in Nat /\ x.id = engine[x.name].id /\ x.id # 0
      BY <1>3 DEF Views
    <3>2. Ids
      BY CallerFacts
    <3>3. 0 < x.id /\ x.id <= created
      BY <3>1, <3>2 DEF Ids
    <3>4. \A n \in Names : engine[n].id = x.id => n = x.name
      BY <3>1, <3>2 DEF Ids
    <3> QED BY <1>2, <3>1, <3>3, <3>4 DEF Traced
  <2>2. ASSUME NEW n \in Engine!Doomed(shot) PROVE \E x \in shot : x.name = n /\ Stale(c, x)'
    <3>1. PICK x \in shot : x.name = n /\ (x.old \/ Engine!Cardinality(Engine!Younger(shot, x)) >= MaxContainers)
      BY DEF Engine!Doomed
    <3> QED BY <1>6, <3>1 DEF Stale
  <2> QED BY <1>4, <1>6, <2>1, <2>2 DEF Pictured
<1>9. Tracked(c)'
  <2>1. Emptied(c) => Emptied(c)'
    BY <1>2, <1>6, EmptiedStays
  <2> QED BY <1>2, <1>6, <1>7, <2>1, ActorTracked DEF Spawning
<1> QED BY <1>2, <1>6, <1>7, <1>8, <1>9, StepKept

LEMMA CleanKeeps == ASSUME EngineInv, NEW c \in Callers, Engine!Clean(c) PROVE EngineInv'
<1>1. stage[c] = "clean" /\ UNCHANGED <<call, created, scratch, picture, using, answer, took>>
  BY DEF Engine!Clean
<1>2. CASE doomed[c] = {} /\ Engine!Go(c, "clean", "image") /\ UNCHANGED <<engine, doomed, gone>>
  <2>1. EngineTypes' /\ stage'[c] = "image" /\ \A d \in Callers : d # c => UNCHANGED <<stage[d]>>
    BY <1>1, <1>2, CallerFacts DEF EngineTypes, Commands, Engine!Name, Engine!Session, Engine!Go
  <2>2. Changes(c) /\ Stays
    BY <1>1, <1>2 DEF Changes, Stays
  <2>3. Pictured(c)'
    BY <1>1, <1>2, <2>1, <2>2, StillPictured
  <2>4. Tracked(c)'
    <3>1. Emptied(c) => Emptied(c)'
      BY <1>1, <2>1, EmptiedStays
    <3> QED BY <1>1, <2>1, <2>2, <3>1, ActorTracked DEF Spawning
  <2> QED BY <1>1, <1>2, <2>1, <2>2, <2>3, <2>4, StepKept
<1>3. ASSUME NEW n \in doomed[c], doomed' = [doomed EXCEPT ![c] = @ \ {n}], UNCHANGED stage,
             \/ Taken(c, n, "stale")
             \/ UNCHANGED <<engine, gone>>
      PROVE  EngineInv'
  <2>1. PICK fewer \in SUBSET Names : fewer = doomed[c] \ {n}
    BY CallerFacts
  <2>2. doomed' = [doomed EXCEPT ![c] = fewer]
    BY <1>3, <2>1
  <2>3. Changes(c)
    BY <1>1, <1>3 DEF Changes, Stays
  <2>4. doomed' \in [Callers -> SUBSET Names] /\ doomed'[c] = fewer /\ \A d \in Callers : d # c => UNCHANGED doomed[d]
    BY <2>1, <2>2, CallerFacts DEF EngineTypes
  <2>5. EngineTypes'
    BY <1>1, <1>3, <2>3, <2>4, AfterChange, CallerFacts DEF EngineTypes, Engine!Name, Engine!Session
  <2>6. PICK old \in picture[c] : old.name = n /\ Stale(c, old) /\ Traced(c, old)
    BY <1>1, <1>3, CallerFacts DEF Pictured
  <2>7. ASSUME NEW x \in picture[c] PROVE Traced(c, x)'
    <3>1. CASE UNCHANGED <<engine, gone>>
      <4>1. Stays /\ UNCHANGED picture[c] /\ doomed'[c] \subseteq doomed[c]
        BY <1>1, <2>1, <2>4, <3>1 DEF Stays
      <4> QED BY <2>3, <2>7, <4>1, StillTraced
    <3>2. CASE Taken(c, n, "stale")
      <4>1. /\ n \in Names /\ engine'[n].id = 0 /\ \A m \in Names : m # n => engine'[m] = engine[m]
        BY <3>2, AfterTaken DEF Taken
      <4>2. <<engine[n].id, c, "stale">> \in gone' /\ gone \subseteq gone'
        BY <3>2 DEF Taken
      <4>3. Traced(c, x) /\ x.name \in Names /\ x.id \in Nat
        BY CallerFacts DEF Pictured, Views
      <4>4. engine'[x.name].id = x.id \/ Lost(c, x)'
        <5>1. CASE x.name = n /\ engine[n].id = x.id
          BY <2>1, <2>4, <4>2, <5>1 DEF Lost
        <5>2. Lost(c, x) => Lost(c, x)'
          BY <2>1, <2>4, <4>2 DEF Lost
        <5>3. CASE x.name # n /\ engine[x.name].id = x.id
          BY <4>1, <4>3, <5>3
        <5> QED BY <4>3, <5>1, <5>2, <5>3 DEF Traced
      <4>5. \A m \in Names : engine'[m].id = x.id => m = x.name
        BY <4>1, <4>3 DEF Traced
      <4>6. engine'[x.name].id = 0 \/ x.id <= engine'[x.name].id
        BY <4>1, <4>3 DEF Traced
      <4> QED BY <1>1, <4>3, <4>4, <4>5, <4>6 DEF Traced
    <3> QED BY <1>3, <3>1, <3>2
  <2>8. Pictured(c)'
    <3>1. \A x : Stale(c, x)' <=> Stale(c, x)
      BY <1>1 DEF Stale
    <3>2. Pictured(c)
      BY CallerFacts
    <3> QED BY <1>1, <1>3, <2>1, <2>4, <2>7, <3>1, <3>2 DEF Pictured
  <2>9. Tracked(c)'
    <3>1. Emptied(c) => Emptied(c)'
      BY <1>1, <1>3, EmptiedStays
    <3> QED BY <1>1, <1>3, <2>3, <3>1, ActorTracked DEF Spawning
  <2>10. ASSUME NEW g \in gone', g \notin gone
         PROVE  g[2] \in Callers /\ stage'[g[2]] \notin {"list", "inspect"} /\ Spares(g)'
    <3>1. g = <<engine[n].id, c, "stale">> /\ Taken(c, n, "stale")
      BY <1>3, <2>10 DEF Taken
    <3>2. g[1] = engine[n].id /\ g[2] = c /\ n \in Names /\ engine[n].id # 0 /\ engine[n] \in Boxes
      BY <3>1, CallerFacts DEF Taken, EngineTypes
    <3>3. gone \subseteq gone'
      BY <3>1 DEF Taken
    <3>4. \A x \in picture[c] : x.id = engine[n].id => Stale(c, x)
      <4>1. \A x \in picture[c] : Traced(c, x) /\ (x.name = old.name => x = old)
        BY <2>6, CallerFacts DEF Pictured
      <4> QED BY <2>6, <3>2, <4>1 DEF Traced
    <3>5. ASSUME \A x \in picture[c] : x.id # engine[n].id
          PROVE  \E x \in picture[c] : x.id < engine[n].id /\ \E h \in gone' : h[1] = x.id /\ h[2] # c
      <4>1. old.id # engine[n].id /\ old.id \in Nat /\ engine[n].id \in Nat
        BY <2>6, <3>2, <3>5, CallerFacts DEF Views, Boxes
      <4>2. old.id < engine[n].id
        BY <2>6, <3>2, <4>1 DEF Traced
      <4>3. Lost(c, old)
        BY <2>6, <4>1 DEF Traced
      <4>4. \E h \in gone : h[1] = old.id /\ h[2] # c
        BY <1>3, <2>6, <4>3 DEF Lost
      <4> QED BY <3>3, <4>2, <4>4
    <3>6. \A x : Stale(c, x)' <=> Stale(c, x)
      BY <1>1 DEF Stale
    <3>7. Spares(g)'
      BY <1>1, <2>6, <3>2, <3>4, <3>5, <3>6 DEF Spares
    <3> QED BY <1>1, <1>3, <3>2, <3>7
  <2> QED BY <1>1, <1>3, <2>3, <2>4, <2>5, <2>8, <2>9, <2>10, StepKept
<1>4. ASSUME NEW n \in doomed[c], doomed' = [doomed EXCEPT ![c] = @ \ {n}], UNCHANGED stage,
             \/ Engine!There(n) /\ engine' = [engine EXCEPT ![n] = Engine!Gone] /\ gone' = gone \cup {<<engine[n].id, c, "stale">>}
             \/ UNCHANGED <<engine, gone>>
      PROVE  EngineInv'
  <2>1. n \in Names
    BY CallerFacts
  <2>2. Taken(c, n, "stale") \/ UNCHANGED <<engine, gone>>
    BY <1>1, <1>4, <2>1, ThereHasId DEF Taken
  <2> QED BY <1>3, <1>4, <2>2
<1> QED BY <1>2, <1>4 DEF Engine!Clean


\* A call gets a container, as it is in the engine at that moment.
LEMMA SpawnedKeeps ==
  ASSUME EngineInv, NEW c \in Callers, NEW from \in {"image", "await"}, stage[c] = from,
         UNCHANGED <<call, engine, created, scratch, gone, picture, doomed, using>>,
         engine[Engine!Name(c)].id # 0, from = "await" => engine[Engine!Name(c)].up,
         Engine!Spawned(c, from, Engine!Name(c))
  PROVE  EngineInv'
<1> DEFINE name == Engine!Name(c)
<1>1. Engine!Spawns(c) /\ Changes(c) /\ Stays /\ answer[c] = "none"
  BY CallerFacts DEF Tracked, Spawning, Changes, Stays
<1>2. PICK found \in [id : Nat, up : BOOLEAN, own : BOOLEAN] :
         /\ found.id = engine[name].id /\ found.up = engine[name].up /\ found.own = (from = "await")
         /\ took' = [took EXCEPT ![c] = found]
  <2>1. PICK found : found = [id |-> engine[name].id, up |-> engine[name].up, own |-> from = "await"]
    OBVIOUS
  <2>2. found \in [id : Nat, up : BOOLEAN, own : BOOLEAN]
    BY <2>1, CallerFacts DEF Boxes
  <2>3. took' = [took EXCEPT ![c] = found]
    BY <2>1 DEF Engine!Spawned
  <2>4. found.id = engine[name].id /\ found.up = engine[name].up /\ found.own = (from = "await")
    BY <2>1
  <2> QED BY <2>2, <2>3, <2>4
<1>3. \/ /\ stage' = [stage EXCEPT ![c] = "over"] /\ answer' = [answer EXCEPT ![c] = "success"]
      \/ /\ stage' = [stage EXCEPT ![c] = "spawned"] /\ UNCHANGED answer
  BY DEF Engine!Spawned, Engine!End, Engine!Go
<1>4. stage' \in [Callers -> Commands] /\ answer' \in [Callers -> Results] /\ took' \in [Callers -> [id : Nat, up : BOOLEAN, own : BOOLEAN]]
  BY <1>2, <1>3, CallerFacts DEF EngineTypes, Commands, Results
<1>5. EngineTypes'
  BY <1>4, CallerFacts DEF EngineTypes, Engine!Name, Engine!Session
<1>6. /\ \/ stage'[c] = "over" /\ answer'[c] = "success"
         \/ stage'[c] = "spawned" /\ answer'[c] = "none"
      /\ took'[c] = found
      /\ \A d \in Callers : d # c => UNCHANGED <<stage[d], answer[d], took[d]>>
  BY <1>1, <1>2, <1>3, CallerFacts DEF EngineTypes
<1>7. Pictured(c)'
  BY <1>1, <1>6, StillPictured
<1>8. Tracked(c)'
  <2>1. /\ Engine!Session(c)' = Engine!Session(c) /\ Engine!Op(c)' = Engine!Op(c) /\ Engine!Spawns(c)' = Engine!Spawns(c)
        /\ Engine!Name(c)' = name /\ engine'[Engine!Name(c)'] = engine[name]
        /\ scratch'[Engine!Session(c)'] = scratch[Engine!Session(c)]
    BY DEF Engine!Session, Engine!Op, Engine!Spawns, Engine!Name
  <2>2. found.own => found.up
    BY <1>2
  <2>3. found.own => scratch[Engine!Session(c)] \/ Emptied(c)'
    <3>1. Emptied(c) => Emptied(c)'
      BY <1>6, EmptiedStays
    <3> QED BY <1>2, <3>1, CallerFacts DEF Tracked
  <2> QED BY <1>1, <1>2, <1>6, <2>1, <2>2, <2>3 DEF Tracked, Spawning
<1> QED BY <1>1, <1>5, <1>6, <1>7, <1>8, StepKept

LEMMA LookKeeps == ASSUME EngineInv, NEW c \in Callers, Engine!Look(c) PROVE EngineInv'
<1>1. stage[c] = "image" /\ UNCHANGED <<call, engine, created, scratch, gone, picture, doomed, using>>
  BY DEF Engine!Look, Engine!view
<1>2. CASE Engine!There(Engine!Name(c)) /\ Engine!Spawned(c, "image", Engine!Name(c))
  BY <1>1, <1>2, ThereHasId, CallerFacts, SpawnedKeeps
<1>3. CASE Engine!Go(c, "image", "create") /\ UNCHANGED <<memory, answer, took>>
  <2>1. EngineTypes' /\ stage'[c] = "create" /\ \A d \in Callers : d # c => UNCHANGED stage[d]
    BY <1>1, <1>3, CallerFacts DEF EngineTypes, Commands, Engine!Name, Engine!Session, Engine!Go
  <2>2. Changes(c) /\ Stays
    BY <1>1 DEF Changes, Stays
  <2>3. Pictured(c)'
    BY <1>1, <2>1, <2>2, StillPictured
  <2>4. Tracked(c)'
    <3>1. Emptied(c) => Emptied(c)'
      BY <1>1, <2>1, EmptiedStays
    <3> QED BY <1>1, <1>3, <2>1, <2>2, <3>1, ActorTracked DEF Spawning
  <2> QED BY <1>1, <1>3, <2>1, <2>2, <2>3, <2>4, StepKept
<1> QED BY <1>2, <1>3 DEF Engine!Look

LEMMA AwaitKeeps == ASSUME EngineInv, NEW c \in Callers, Engine!Await(c) PROVE EngineInv'
<1>1. stage[c] = "await" /\ UNCHANGED <<call, engine, created, scratch, gone, picture, doomed, using>>
  BY DEF Engine!Await, Engine!view
<1>2. CASE engine[Engine!Name(c)].up /\ Engine!Spawned(c, "await", Engine!Name(c))
  <2>1. engine[Engine!Name(c)].id # 0
    BY <1>2, CallerFacts DEF Ids, Engine!Gone
  <2> QED BY <1>1, <1>2, <2>1, SpawnedKeeps
<1>3. CASE Engine!End(c, "await", "failed") /\ UNCHANGED <<memory, took>>
  BY <1>1, <1>3, PlainKeeps, CallerFacts DEF Engine!End, Engine!Go, Results, EngineTypes
<1> QED BY <1>2, <1>3 DEF Engine!Await

\* A run of the engine makes a container or fails, and may do both.
LEMMA CreateKeeps == ASSUME EngineInv, NEW c \in Callers, Engine!Create(c) PROVE EngineInv'
<1>1. /\ stage[c] = "create" /\ scratch' = [scratch EXCEPT ![Engine!Session(c)] = TRUE]
      /\ UNCHANGED <<call, gone, picture, doomed, using, took>>
  BY DEF Engine!Create, Engine!view
<1>2. Stays \/ Made(Engine!Name(c))
  BY <1>1, ThereHasId, CallerFacts DEF Engine!Create, Stays, Made
<1>3. Changes(c) /\ (Stays \/ \E n : Made(n))
  BY <1>2 DEF Changes
<1>4. \/ stage' = [stage EXCEPT ![c] = "await"] /\ UNCHANGED answer
      \/ stage' = [stage EXCEPT ![c] = "over"] /\ answer' = [answer EXCEPT ![c] = "failed"]
  BY DEF Engine!Create, Engine!Go, Engine!End
<1>5. /\ stage' \in [Callers -> Commands] /\ answer' \in [Callers -> Results] /\ scratch' \in [Sessions -> BOOLEAN]
      /\ scratch'[Engine!Session(c)] /\ \A s \in Sessions : scratch[s] => scratch'[s]
  BY <1>1, <1>4, CallerFacts DEF EngineTypes, Commands, Results
<1>6. /\ \/ stage'[c] = "await" /\ answer'[c] = answer[c]
         \/ stage'[c] = "over" /\ answer'[c] = "failed"
      /\ \A d \in Callers : d # c => UNCHANGED <<stage[d], answer[d]>>
  BY <1>4, CallerFacts DEF EngineTypes
<1>7. EngineTypes'
  BY <1>1, <1>3, <1>5, AfterChange, CallerFacts DEF EngineTypes, Engine!Name, Engine!Session
<1>8. Pictured(c)'
  BY <1>1, <1>3, <1>6, StillPictured
<1>9. Tracked(c)'
  <2>1. Emptied(c) => Emptied(c)'
    BY <1>1, <1>6, EmptiedStays
  <2> QED BY <1>1, <1>3, <1>5, <1>6, <2>1, ActorTracked DEF Spawning
<1>10. \A d \in Callers : Engine!Session(d) \in Sessions
  BY CallerFacts
<1> QED BY <1>1, <1>3, <1>5, <1>6, <1>7, <1>8, <1>9, <1>10, StepKept

\* What container_destroy does.
LEMMA DestroyKeeps ==
  ASSUME EngineInv, NEW c \in Callers, stage[c] \in {"stop", "rm"}, UNCHANGED <<call, picture, doomed, using, took>>,
         NEW s \in {"rm", "over"}, stage' = [stage EXCEPT ![c] = s],
         NEW a \in Results \ {"missing"}, answer' = [answer EXCEPT ![c] = a], s = "over" \/ a = answer[c],
         UNCHANGED scratch \/ (scratch' = [scratch EXCEPT ![Engine!Session(c)] = FALSE] /\ s = "over"),
         Stays \/ Stopped(c, Engine!Name(c)) \/ Taken(c, Engine!Name(c), "destroy")
  PROVE  EngineInv'
<1>1. /\ stage' \in [Callers -> Commands] /\ answer' \in [Callers -> Results] /\ scratch' \in [Sessions -> BOOLEAN]
      /\ stage'[c] = s /\ answer'[c] = a /\ \A d \in Callers : d # c => UNCHANGED <<stage[d], answer[d]>>
  <2>1. stage \in [Callers -> Commands] /\ answer \in [Callers -> Results] /\ scratch \in [Sessions -> BOOLEAN]
        /\ s \in Commands
    BY CallerFacts DEF EngineTypes, Commands
  <2>2. scratch' \in [Sessions -> BOOLEAN]
    BY <2>1
  <2>3. /\ stage' \in [Callers -> Commands] /\ answer' \in [Callers -> Results]
        /\ stage'[c] = s /\ answer'[c] = a /\ \A d \in Callers : d # c => UNCHANGED <<stage[d], answer[d]>>
    BY <2>1
  <2> QED BY <2>2, <2>3
<1>2. Changes(c)
  BY DEF Changes
<1>3. EngineTypes'
  BY <1>1, <1>2, AfterChange, CallerFacts DEF EngineTypes, Engine!Name, Engine!Session
<1>4. picture'[c] = {} /\ picture[c] = {}
  BY CallerFacts DEF Pictured
<1>5. Pictured(c)'
  BY <1>1, <1>4 DEF Pictured
<1>6. ASSUME NEW d \in Callers, scratch[Engine!Session(d)] PROVE scratch'[Engine!Session(d)] \/ Emptied(d)'
  <2>1. CASE scratch' = [scratch EXCEPT ![Engine!Session(c)] = FALSE] /\ s = "over"
    <3>1. Engine!Session(d) # Engine!Session(c) => scratch'[Engine!Session(d)] = scratch[Engine!Session(d)]
      BY <2>1, CallerFacts DEF EngineTypes
    <3>2. Engine!Session(d) = Engine!Session(c) => Emptied(d)'
      <4>1. Engine!Op(c) = "container_destroy"
        BY CallerFacts DEF Tracked
      <4> QED BY <1>1, <2>1, <4>1 DEF Emptied, Engine!Op, Engine!Session
    <3> QED BY <1>6, <3>1, <3>2
  <2> QED BY <1>6, <2>1
<1>7. Tracked(c)'
  <2>1. Emptied(c) => Emptied(c)'
    BY <1>1, EmptiedStays
  <2> QED BY <1>1, <1>2, <1>6, <2>1, ActorTracked DEF Spawning
<1>8. \A g \in gone' : g \in gone \/ g[3] # "stale"
  BY DEF Stays, Stopped, Taken
<1> QED BY <1>1, <1>2, <1>3, <1>4, <1>5, <1>6, <1>7, <1>8, StepKept

LEMMA StopKeeps == ASSUME EngineInv, NEW c \in Callers, Engine!Stop(c) PROVE EngineInv'
<1>1. stage[c] = "stop" /\ UNCHANGED <<call, created, scratch, picture, doomed, using, took>> /\ answer[c] = "none"
  BY CallerFacts DEF Engine!Stop, Engine!view, Tracked
<1>2. Stays \/ Stopped(c, Engine!Name(c))
  BY <1>1, ThereHasId, CallerFacts DEF Engine!Stop, Stays, Stopped
<1>3. CASE Engine!Go(c, "stop", "rm") /\ UNCHANGED answer
  <2>1. answer' = [answer EXCEPT ![c] = "none"] /\ stage' = [stage EXCEPT ![c] = "rm"]
    BY <1>1, <1>3, CallerFacts DEF EngineTypes, Engine!Go
  <2> QED BY <1>1, <1>2, <2>1, DestroyKeeps DEF Results
<1>4. CASE Engine!End(c, "stop", "raised")
  <2>1. answer' = [answer EXCEPT ![c] = "raised"] /\ stage' = [stage EXCEPT ![c] = "over"]
    BY <1>4 DEF Engine!End, Engine!Go
  <2> QED BY <1>1, <1>2, <2>1, DestroyKeeps DEF Results
<1> QED BY <1>3, <1>4 DEF Engine!Stop

LEMMA RmKeeps == ASSUME EngineInv, NEW c \in Callers, Engine!Rm(c) PROVE EngineInv'
<1>1. stage[c] = "rm" /\ UNCHANGED <<call, created, picture, doomed, using, took>>
  BY DEF Engine!Rm, Engine!view
<1>2. Stays \/ Taken(c, Engine!Name(c), "destroy")
  BY <1>1, ThereHasId, CallerFacts DEF Engine!Rm, Stays, Taken
<1>3. PICK a \in {"success", "failed"} : stage' = [stage EXCEPT ![c] = "over"] /\ answer' = [answer EXCEPT ![c] = a]
  BY DEF Engine!Rm, Engine!End, Engine!Go
<1>4. UNCHANGED scratch \/ scratch' = [scratch EXCEPT ![Engine!Session(c)] = FALSE]
  BY DEF Engine!Rm
<1>5. a \in Results \ {"missing"}
  BY DEF Results
<1> QED BY <1>1, <1>2, <1>3, <1>4, <1>5, DestroyKeeps

-----------------------------------------------------------------------------
LEMMA EngineKept == ASSUME EngineInv, [Engine!Next]_(Engine!vars) PROVE EngineInv'
<1>1. CASE UNCHANGED Engine!vars
  BY <1>1 DEF Engine!vars, EngineInv, EngineTypes, Ids, Pictured, Tracked, Removals, Traced, Stale, Lost, Spares, Emptied,
              Engine!Name, Engine!Session, Engine!Op, Engine!Spawns, Engine!ByOther
<1> QED BY <1>1, CannotSpawnKeeps, ListKeeps, InspectKeeps, CleanKeeps, LookKeeps, CreateKeeps, AwaitKeeps, CancelledKeeps,
           ExecKeeps, CommandKeeps, StopKeeps, RmKeeps DEF Engine!Next, Engine!Call

LEMMA EngineInvKept ==
  ASSUME EngineInv
  PROVE  Engine!TypeOK /\ Engine!CleanupSparesTheYoung /\ Engine!UseIsExplained
<1>1. EngineTypes /\ Ids /\ Removals /\ \A c \in Callers : Tracked(c)
  BY DEF EngineInv
<1>2. Engine!TypeOK
  <2>1. \A c \in Callers : stage[c] \in Commands
    BY <1>1 DEF EngineTypes
  <2>2. \A n \in Names : engine[n].id \in 0..created
    BY <1>1 DEF EngineTypes, Ids, Boxes
  <2>3. \A m, n \in Names : (m # n /\ Engine!There(m)) => engine[m].id # engine[n].id
    BY <1>1, ThereHasId DEF Ids
  <2> QED BY <2>1, <2>2, <2>3 DEF Engine!TypeOK, Commands
<1>3. Engine!CleanupSparesTheYoung
  BY <1>1 DEF Removals, Spares, Stale, Engine!CleanupSparesTheYoung
<1>4. Engine!UseIsExplained
  BY <1>1 DEF Tracked, Emptied, Engine!UseIsExplained
<1> QED BY <1>2, <1>3, <1>4

\* Concurrent calls on one container engine, for any number of callers, names and sessions: a cleanup
\* removes a container that it saw only if it was past its TTL or had max_harness_containers younger
\* ones, and one that it did not see only in place of one that somebody else removed meanwhile;
\* execute_python misses the container that its spawn returned only if another call took it, and
\* never for one that it created itself; a scratch directory goes only with a destroy of its own
\* session (container_spawn, _cleanup_stale_containers, execute_python, container_destroy).
THEOREM ContainersStayKept ==
  ASSUME Engine!ScenesAssumption
  PROVE  Engine!Spec => /\ [](Engine!TypeOK /\ Engine!CleanupSparesTheYoung /\ Engine!UseIsExplained)
                         /\ []ContainersAreKept
<1>1. Engine!Init => EngineInv
  BY EngineInit
<1>2. EngineInv /\ [Engine!Next]_(Engine!vars) => EngineInv'
  BY EngineKept
<1>3. EngineInv => (Engine!TypeOK /\ Engine!CleanupSparesTheYoung /\ Engine!UseIsExplained) /\ ContainersAreKept
  BY EngineInvKept DEF ContainersAreKept
<1> QED BY <1>1, <1>2, <1>3, PTL DEF Engine!Spec
=============================================================================
