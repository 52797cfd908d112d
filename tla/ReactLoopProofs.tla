--------------------------- MODULE ReactLoopProofs ---------------------------
(***************************************************************************)
(* The safety of the event-sourced goal loop, for any limits, statuses and *)
(* token counts, and any number of turns and faults.  IInv says, of every  *)
(* state between a write and its dispatch too, where each event is, who is *)
(* still to publish what, and what is owed to the log.                     *)
(***************************************************************************)
EXTENDS ReactLoop, SequenceFoldProofs, FiniteSetTheorems

-----------------------------------------------------------------------------
(* The inductive invariant *)

Bit(b) == IF b THEN 1 ELSE 0

Breaches == {"budget_exhausted", "consecutive_failures"}

\* The event p publishes next, before and after its row is committed.
Holding(p, type) == outbox[p].todo # <<>> /\ Head(outbox[p].todo).type = type
Unwritten(p, type) == Holding(p, type) /\ ~outbox[p].persisted
Written(p, type) == Holding(p, type) /\ outbox[p].persisted

\* A process holds events exactly while it publishes, and only its own.
OutboxFits(p) ==
    /\ at[p] \in {"publishing", "closing"} <=> outbox[p].todo # <<>>
    /\ outbox[p].persisted => outbox[p].todo # <<>>
    /\ p = "breaker" /\ at[p] = "publishing" => \E r \in Breaches : outbox[p].todo = <<Paused(r)>>
    /\ p = "llm" /\ at[p] = "publishing" =>
          \/ \E n \in TurnTokens, reply \in Replies : outbox[p].todo = <<Action(n)>> \o reply
          \/ outbox[p].todo \in {<<Request>>, <<Text>>}
    /\ p = "skill" /\ at[p] = "publishing" =>
          \/ outbox[p].todo = <<SkillCancelled, Completed("cancelled")>> /\ "cancelled" \in SkillStatuses
          \/ \E st \in SkillStatuses : outbox[p].todo = <<Completed(st)>>
    /\ p = "driver" /\ at[p] = "publishing" => outbox[p].todo = <<Input>>
    /\ p = "driver" /\ at[p] = "closing" => outbox[p].todo = <<Paused("completed")>>

OutboxesFit == \A p \in Processes : OutboxFits(p)

\* A queue holds what its worker reacts to, and nothing once the worker ended.
QueueFits(w) ==
    /\ Ended(w) => queue[w] = <<>>
    /\ \A i \in DOMAIN queue[w] : queue[w][i].type \in Reacts[w]

QueuesFit == \A w \in Workers : QueueFits(w)

Prefix(s, n) == SubSeq(s, 1, n)

\* What the breaker will count of the events in its queue are the counts of
\* prefixes of the log: a breach it sees is one the log had.
FailuresWere(n) == \E j \in 0..Len(log) : n = Failures(0, Prefix(log, j))

BreakerFollows ==
    ~Ended("breaker") /\ at["breaker"] # "publishing" =>
        \A k \in 0..Len(queue["breaker"]) : FailuresWere(Failures(tally.failures, Prefix(queue["breaker"], k)))

BreakerKeepsUp == BreakerCounts /\ BreakerFollows

\* A pause the breaker is about to write is called for, and it writes no second.
BreachLogged == {i \in DOMAIN log : log[i] \in {Paused(r) : r \in Breaches}}

PauseIsDue ==
    /\ BreachLogged # {} => Ended("breaker") \/ Written("breaker", "StreamPaused")
    /\ at["breaker"] = "publishing" /\ ~outbox["breaker"].persisted =>
          /\ outbox["breaker"].todo = <<Paused("budget_exhausted")>> => Tokens(log) > MaxTokens
          /\ outbox["breaker"].todo = <<Paused("consecutive_failures")>> =>
                \E j \in 1..Len(log) : Failures(0, Prefix(log, j)) > MaxRetries

\* The work under way: where the one thread is, between the objective, a turn of
\* the model, a request, the skill, its result and the next turn.
Starters(s) == Count(s, "AgentInputAdded") + Count(s, "SkillCompleted")

Starting == at["driver"] = "publishing"
Deriving == at["llm"] = "deriving"
Running == at["llm"] = "running"
UsageDue == Unwritten("llm", "LLMActionEmitted")
TurnGoes == Running \/ (at["llm"] = "publishing" /\ ~Written("llm", "LLMTextEmitted"))
RequestOut == Written("llm", "SkillRequested")
SkillGoes == at["skill"] \in {"running", "publishing"}
ResultDue == at["skill"] = "running" \/ (at["skill"] = "publishing" /\ ~Written("skill", "SkillCompleted"))
ResultOut == Written("skill", "SkillCompleted")
Started == Starters(queue["llm"])
Asked == Count(queue["skill"], "SkillRequested")

Thread == Bit(Starting) + Started + Bit(Deriving \/ TurnGoes) + Asked + Bit(SkillGoes)
ResultsOwed == Bit(RequestOut) + Asked + Bit(ResultDue)
TurnsOwed == Bit(Starting) + Started + Bit(ResultOut) + Bit(Deriving \/ Running \/ UsageDue)
LateTurns == Bit(Running \/ UsageDue)
LateResults == Bit(TurnGoes) + Asked + Bit(ResultDue)

\* The thread is in one place at most, and a text ends it.
OneThread == Thread + Count(log, "LLMTextEmitted") <= 1

\* Results not yet written have their request in the log, and turns not yet
\* reported their input or result.
WorkIsOwed ==
    /\ Count(log, "SkillCompleted") + ResultsOwed <= Count(log, "SkillRequested")
    /\ Count(log, "LLMActionEmitted") + TurnsOwed <= 1 + Count(log, "SkillCompleted")

\* After a pause, what was written late and what may still be is one of each:
\* a task that derives the state later finds the pause in the log.
LateWorkLeft ==
    HasPause(log) =>
      /\ Count(LateLog, "LLMActionEmitted") + LateTurns <= 1
      /\ Count(LateLog, "SkillCompleted") + LateResults <= 1

Work == OneThread /\ WorkIsOwed /\ LateWorkLeft

\* on_text has run for every committed text but the one in flight.
OutputFollows == output + Bit(Written("llm", "LLMTextEmitted")) = Count(log, "LLMTextEmitted")

\* The driver gathers after its own pause, and returns after the tasks.
DriverCloses ==
    /\ at["driver"] \in {"gathering", "returned"} \/ Written("driver", "StreamPaused") => HasPause(log)
    /\ at["driver"] = "returned" => \A w \in Workers : Ended(w)

\* While a tool is called, its turn has not been reported: the log has neither
\* its action nor a text, and no action after a pause.
TurnOpen ==
    /\ Count(log, "LLMActionEmitted") <= Count(log, "SkillCompleted")
    /\ Count(log, "LLMTextEmitted") = 0
    /\ Count(LateLog, "LLMActionEmitted") = 0

CallsFit ==
    /\ calls > 0 => at["llm"] \in {"running", "crashed"} /\ TurnOpen
    /\ Count(log, "ToolCompleted") + calls <= Count(log, "SkillCalled") + faults

LateTools == \A n \in DOMAIN LateLog : IsTool(LateLog[n]) => Count(SubSeq(LateLog, 1, n), "LLMActionEmitted") = 0

IInv == /\ TypeOK /\ OutboxesFit /\ QueuesFit
        /\ BreakerKeepsUp /\ PauseIsDue /\ PauseJustified
        /\ SnapshotIsReplay
        /\ Work /\ OneThreadOfWork
        /\ CallsFit /\ LateTools
        /\ OutputFollows /\ DriverCloses

-----------------------------------------------------------------------------
(* Events, and what is counted of them *)

Types == {"AgentInputAdded", "LLMActionEmitted", "LLMTextEmitted", "SkillRequested",
          "SkillCancelled", "SkillCompleted", "StreamPaused", "SkillCalled", "ToolCompleted"}

LEMMA TypeOfEvent ==
  /\ Input.type = "AgentInputAdded"
  /\ \A n : Action(n).type = "LLMActionEmitted"
  /\ Text.type = "LLMTextEmitted"
  /\ Request.type = "SkillRequested"
  /\ SkillCancelled.type = "SkillCancelled"
  /\ \A st : Completed(st).type = "SkillCompleted"
  /\ \A r : Paused(r).type = "StreamPaused" /\ Paused(r).tag = r
  /\ ToolCalled.type = "SkillCalled"
  /\ \A st : ToolCompleted(st).type = "ToolCompleted"
BY DEF Event, Input, Action, Text, Request, SkillCancelled, Completed, Paused, ToolCalled, ToolCompleted

LEMMA EventOfKind ==
  /\ Input \in Events /\ Text \in Events /\ Request \in Events /\ SkillCancelled \in Events
  /\ \A n \in TurnTokens : Action(n) \in Events
  /\ \A st \in SkillStatuses : Completed(st) \in Events
  /\ \A r \in Reasons : Paused(r) \in Events
  /\ Completed("failed") \in Events
  /\ ToolCalled \in Events
  /\ \A st \in ToolStatuses : ToolCompleted(st) \in Events
BY FailuresAreStatuses DEF Events

LEMMA TokensOfEvent ==
  ASSUME NEW e \in Events
  PROVE  e.type \in Types /\ e.tokens \in Nat /\ (e.type # "LLMActionEmitted" => e.tokens = 0)
<1>1. ASSUME e \in {Input, Text, Request, SkillCancelled, ToolCalled} PROVE e.type \in Types /\ e.tokens = 0
  <2>1. CASE e = Input
    BY <2>1 DEF Event, Input, Types
  <2>2. CASE e = Text
    BY <2>2 DEF Event, Text, Types
  <2>3. CASE e = Request
    BY <2>3 DEF Event, Request, Types
  <2>4. CASE e = SkillCancelled
    BY <2>4 DEF Event, SkillCancelled, Types
  <2>5. CASE e = ToolCalled
    BY <2>5 DEF Event, ToolCalled, Types
  <2> QED BY <1>1, <2>1, <2>2, <2>3, <2>4, <2>5
<1>2. ASSUME NEW n \in TurnTokens, e = Action(n)
      PROVE  e.type \in Types /\ e.tokens \in Nat /\ e.type = "LLMActionEmitted"
  BY <1>2, TurnTokensAreNaturals DEF Event, Action, Types
<1>3. ASSUME NEW st, e = Completed(st) PROVE e.type \in Types /\ e.tokens = 0
  BY <1>3 DEF Event, Completed, Types
<1>4. ASSUME NEW r, e = Paused(r) PROVE e.type \in Types /\ e.tokens = 0
  BY <1>4 DEF Event, Paused, Types
<1>5. ASSUME NEW st, e = ToolCompleted(st) PROVE e.type \in Types /\ e.tokens = 0
  BY <1>5 DEF Event, ToolCompleted, Types
<1> QED BY <1>1, <1>2, <1>3, <1>4, <1>5 DEF Events

TokenWeight == [e \in Events |-> e.tokens]
TypeWeight(type) == [e \in Events |-> IF e.type = type THEN 1 ELSE 0]

LEMMA Weights ==
  /\ TokenWeight \in [Events -> Nat]
  /\ \A type : TypeWeight(type) \in [Events -> Nat]
  /\ \A e \in Events : TokenWeight[e] = e.tokens
  /\ \A e \in Events : \A type : TypeWeight(type)[e] = Bit(e.type = type)
BY TokensOfEvent DEF TokenWeight, TypeWeight, Bit

LEMMA CountIsSum ==
  /\ \A s : Tokens(s) = Sum(TokenWeight, s)
  /\ \A s, type : Count(s, type) = Sum(TypeWeight(type), s)
BY DEF Tokens, Count, TokenWeight, TypeWeight

LEMMA CountType == ASSUME NEW s \in Seq(Events), NEW type PROVE Count(s, type) \in Nat
BY CountIsSum, Weights, SumType

LEMMA CountEmpty == ASSUME NEW type PROVE Count(<<>>, type) = 0
BY CountIsSum, SumEmpty

LEMMA CountAppend ==
  ASSUME NEW s \in Seq(Events), NEW e \in Events, NEW type
  PROVE  Count(Append(s, e), type) = Count(s, type) + Bit(e.type = type)
BY CountIsSum, Weights, SumAppend

LEMMA CountTail ==
  ASSUME NEW s \in Seq(Events), s # <<>>, NEW type
  PROVE  Count(s, type) = Bit(Head(s).type = type) + Count(Tail(s), type)
<1>1. Head(s) \in Events
  OBVIOUS
<1> QED BY <1>1, CountIsSum, Weights, SumTail

LEMMA TokensType == ASSUME NEW s \in Seq(Events) PROVE Tokens(s) \in Nat
BY CountIsSum, Weights, SumType

LEMMA TokensEmpty == Tokens(<<>>) = 0
BY CountIsSum, SumEmpty

LEMMA TokensAppend ==
  ASSUME NEW s \in Seq(Events), NEW e \in Events
  PROVE  Tokens(Append(s, e)) = Tokens(s) + e.tokens
BY CountIsSum, Weights, SumAppend

LEMMA TokensTail ==
  ASSUME NEW s \in Seq(Events), s # <<>>
  PROVE  Tokens(s) = Head(s).tokens + Tokens(Tail(s))
<1>1. Head(s) \in Events
  OBVIOUS
<1> QED BY <1>1, CountIsSum, Weights, SumTail

LEMMA TokensConcat ==
  ASSUME NEW s \in Seq(Events), NEW t \in Seq(Events)
  PROVE  Tokens(s \o t) = Tokens(s) + Tokens(t)
BY CountIsSum, Weights, SumConcat

LEMMA CountFailureType ==
  /\ \A types : CountFailure(types) \in [Events -> [Nat -> Nat]]
  /\ \A e \in Events, n \in Nat : CountFailure({"SkillCompleted"})[e][n] = BreakerCount(n, e)
  /\ \A e \in Events, n \in Nat : BreakerCount(n, e) \in Nat
  /\ \A e \in Events, n \in Nat : e.type # "SkillCompleted" => BreakerCount(n, e) = n
BY DEF CountFailure, BreakerCount

LEMMA FailuresType == ASSUME NEW n \in Nat, NEW s \in Seq(Events) PROVE Failures(n, s) \in Nat
BY CountFailureType, FoldType DEF Failures

LEMMA AllFailuresType == ASSUME NEW n \in Nat, NEW s \in Seq(Events) PROVE AllFailures(n, s) \in Nat
BY CountFailureType, FoldType DEF AllFailures

LEMMA AllFailuresEmpty == ASSUME NEW n PROVE AllFailures(n, <<>>) = n
BY FoldEmpty DEF AllFailures

LEMMA AllFailuresConcat ==
  ASSUME NEW n \in Nat, NEW s \in Seq(Events), NEW t \in Seq(Events)
  PROVE  AllFailures(n, s \o t) = AllFailures(AllFailures(n, s), t)
BY CountFailureType, FoldConcat DEF AllFailures

LEMMA FailuresEmpty == ASSUME NEW n PROVE Failures(n, <<>>) = n
BY FoldEmpty DEF Failures

LEMMA FailuresAppend ==
  ASSUME NEW n \in Nat, NEW s \in Seq(Events), NEW e \in Events
  PROVE  Failures(n, Append(s, e)) = BreakerCount(Failures(n, s), e)
<1>1. Failures(n, Append(s, e)) = CountFailure({"SkillCompleted"})[e][Failures(n, s)]
  BY FoldAppend DEF Failures
<1> QED BY <1>1, CountFailureType, FailuresType

LEMMA FailuresTail ==
  ASSUME NEW n \in Nat, NEW s \in Seq(Events), s # <<>>
  PROVE  Failures(n, s) = Failures(BreakerCount(n, Head(s)), Tail(s))
<1>1. Head(s) \in Events
  OBVIOUS
<1>2. Failures(n, s) = Failures(CountFailure({"SkillCompleted"})[Head(s)][n], Tail(s))
  BY FoldTail DEF Failures
<1>3. \A e \in Events : CountFailure({"SkillCompleted"})[e][n] = BreakerCount(n, e)
  BY CountFailureType
<1> QED BY <1>1, <1>2, <1>3

LEMMA FailuresConcat ==
  ASSUME NEW n \in Nat, NEW s \in Seq(Events), NEW t \in Seq(Events)
  PROVE  Failures(n, s \o t) = Failures(Failures(n, s), t)
BY FoldConcat DEF Failures

-----------------------------------------------------------------------------
(* What a process is about to publish *)

LEMMA Constants == 
  /\ \A w \in Workers : w \in Processes
  /\ \A p \in Processes : p \in Workers \/ p = "driver"
  /\ "driver" \in Processes /\ "driver" \notin Workers
  /\ Breaches \subseteq Reasons
BY DEF Workers, Processes, Breaches, Reasons

\* The places of a process, one by one.
LEMMA PlacesOf ==
  /\ Places["breaker"] = {"waiting", "publishing", "done", "crashed"}
  /\ Places["llm"] = {"waiting", "deriving", "running", "publishing", "done", "crashed"}
  /\ Places["skill"] = {"waiting", "running", "publishing", "done", "crashed"}
  /\ Places["driver"] = {"publishing", "waiting", "closing", "gathering", "returned", "raised"}
BY DEF Places

LEMMA OutboxType ==
  ASSUME TypeOK, NEW p \in Processes
  PROVE  outbox[p].todo \in Seq(Events) /\ outbox[p].persisted \in BOOLEAN
BY DEF TypeOK

LEMMA Singleton == \A x : Head(<<x>>) = x /\ Tail(<<x>>) = <<>>
OBVIOUS

LEMMA BreakerPublishes ==
  ASSUME TypeOK, OutboxesFit, outbox["breaker"].todo # <<>>
  PROVE  /\ at["breaker"] = "publishing"
         /\ Tail(outbox["breaker"].todo) = <<>>
         /\ \E r \in Breaches : Head(outbox["breaker"].todo) = Paused(r)
<1>1. at["breaker"] = "publishing" /\ OutboxFits("breaker")
  <2>1. OutboxFits("breaker") /\ at["breaker"] \in Places["breaker"]
    BY Constants DEF TypeOK, OutboxesFit, Workers
  <2> QED BY <2>1, PlacesOf DEF OutboxFits
<1>2. PICK r \in Breaches : outbox["breaker"].todo = <<Paused(r)>>
  BY <1>1 DEF OutboxFits
<1> QED BY <1>1, <1>2

LEMMA LlmPublishes ==
  ASSUME TypeOK, OutboxesFit, outbox["llm"].todo # <<>>
  PROVE  /\ at["llm"] = "publishing"
         /\ \/ /\ \E n \in TurnTokens : Head(outbox["llm"].todo) = Action(n)
               /\ Tail(outbox["llm"].todo) \in {<<>>, <<Request>>, <<Text>>}
            \/ Head(outbox["llm"].todo) \in {Request, Text} /\ Tail(outbox["llm"].todo) = <<>>
<1>1. at["llm"] = "publishing" /\ OutboxFits("llm")
  <2>1. OutboxFits("llm") /\ at["llm"] \in Places["llm"]
    BY Constants DEF TypeOK, OutboxesFit, Workers
  <2> QED BY <2>1, PlacesOf DEF OutboxFits
<1>2. CASE \E n \in TurnTokens, reply \in Replies : outbox["llm"].todo = <<Action(n)>> \o reply
  <2>1. PICK n \in TurnTokens, reply \in Replies : outbox["llm"].todo = <<Action(n)>> \o reply
    BY <1>2
  <2>2. reply \in Seq(Events) /\ Action(n) \in Events
    <3>1. <<Request>> \in Seq(Events) /\ <<Text>> \in Seq(Events) /\ <<>> \in Seq(Events)
      BY EventOfKind
    <3> QED BY <3>1, EventOfKind DEF Replies
  <2>3. Head(<<Action(n)>> \o reply) = Action(n) /\ Tail(<<Action(n)>> \o reply) = reply
    BY <2>2
  <2> QED BY <1>1, <2>1, <2>3 DEF Replies
<1>3. CASE outbox["llm"].todo \in {<<Request>>, <<Text>>}
  BY <1>1, <1>3, Singleton
<1> QED BY <1>1, <1>2, <1>3 DEF OutboxFits

LEMMA SkillPublishes ==
  ASSUME TypeOK, OutboxesFit, outbox["skill"].todo # <<>>
  PROVE  /\ at["skill"] = "publishing"
         /\ \/ /\ Head(outbox["skill"].todo) = SkillCancelled
               /\ Tail(outbox["skill"].todo) = <<Completed("cancelled")>> /\ "cancelled" \in SkillStatuses
            \/ /\ \E st \in SkillStatuses : Head(outbox["skill"].todo) = Completed(st)
               /\ Tail(outbox["skill"].todo) = <<>>
<1>1. at["skill"] = "publishing" /\ OutboxFits("skill")
  <2>1. OutboxFits("skill") /\ at["skill"] \in Places["skill"]
    BY Constants DEF TypeOK, OutboxesFit, Workers
  <2> QED BY <2>1, PlacesOf DEF OutboxFits
<1>2. CASE outbox["skill"].todo = <<SkillCancelled, Completed("cancelled")>> /\ "cancelled" \in SkillStatuses
  BY <1>1, <1>2
<1>3. CASE \E st \in SkillStatuses : outbox["skill"].todo = <<Completed(st)>>
  BY <1>1, <1>3
<1> QED BY <1>1, <1>2, <1>3 DEF OutboxFits

LEMMA DriverPublishes ==
  ASSUME TypeOK, OutboxesFit, outbox["driver"].todo # <<>>
  PROVE  /\ Tail(outbox["driver"].todo) = <<>>
         /\ \/ at["driver"] = "publishing" /\ Head(outbox["driver"].todo) = Input
            \/ at["driver"] = "closing" /\ Head(outbox["driver"].todo) = Paused("completed")
<1>1. at["driver"] \in {"publishing", "closing"} /\ OutboxFits("driver")
  BY DEF TypeOK, OutboxesFit, OutboxFits, Processes, Workers, Places
<1>2. CASE at["driver"] = "publishing"
  <2>1. outbox["driver"].todo = <<Input>>
    BY <1>1, <1>2 DEF OutboxFits
  <2> QED BY <1>2, <2>1, Singleton
<1>3. CASE at["driver"] = "closing"
  <2>1. outbox["driver"].todo = <<Paused("completed")>>
    BY <1>1, <1>3 DEF OutboxFits
  <2> QED BY <1>3, <2>1, Singleton
<1> QED BY <1>1, <1>2, <1>3

LEMMA HeadAndTail ==
  ASSUME TypeOK, NEW p \in Processes, outbox[p].todo # <<>>
  PROVE  Head(outbox[p].todo) \in Events /\ Tail(outbox[p].todo) \in Seq(Events)
BY OutboxType

-----------------------------------------------------------------------------
(* What a step leaves where *)

LEMMA AtAfterMove ==
  ASSUME TypeOK, NEW p \in Processes, NEW place, at' = [at EXCEPT ![p] = place]
  PROVE  DOMAIN at' = Processes /\ at'[p] = place /\ \A q \in Processes : q # p => at'[q] = at[q]
BY DEF TypeOK

LEMMA OutboxAfterPublishes ==
  ASSUME TypeOK, NEW p \in Processes, NEW es \in Seq(Events), Publishes(p, es)
  PROVE  /\ outbox' \in [Processes -> [todo : Seq(Events), persisted : BOOLEAN]]
         /\ outbox'[p].todo = es /\ outbox'[p].persisted = outbox[p].persisted
         /\ \A q \in Processes : q # p => outbox'[q] = outbox[q]
BY DEF TypeOK, Publishes

LEMMA QueueAfterTake ==
  ASSUME TypeOK, NEW w \in Workers, NEW e, Take(w, e)
  PROVE  /\ at[w] = "waiting" /\ queue[w] # <<>> /\ e = Head(queue[w]) /\ e \in Events
         /\ queue' \in [Workers -> Seq(Events)]
         /\ queue'[w] = IF IsPause(e) THEN <<>> ELSE Tail(queue[w])
         /\ \A v \in Workers : v # w => queue'[v] = queue[v]
<1>1. queue[w] \in Seq(Events) /\ queue[w] # <<>> /\ e = Head(queue[w]) /\ at[w] = "waiting"
  BY DEF TypeOK, Take
<1>2. e \in Events /\ Tail(queue[w]) \in Seq(Events)
  BY <1>1
<1>3. queue' = [queue EXCEPT ![w] = IF IsPause(e) THEN <<>> ELSE Tail(queue[w])]
  BY DEF Take
<1> QED BY <1>1, <1>2, <1>3 DEF TypeOK

LEMMA AfterPersist ==
  ASSUME TypeOK, NEW p \in Processes, Persist(p)
  PROVE  /\ outbox[p].todo # <<>> /\ ~outbox[p].persisted /\ Head(outbox[p].todo) \in Events
         /\ log' = Append(log, Head(outbox[p].todo)) /\ log' \in Seq(Events)
         /\ outbox' \in [Processes -> [todo : Seq(Events), persisted : BOOLEAN]]
         /\ outbox'[p].persisted /\ \A q \in Processes : outbox'[q].todo = outbox[q].todo
         /\ \A q \in Processes : q # p => outbox'[q] = outbox[q]
<1>1. outbox[p].todo # <<>> /\ Head(outbox[p].todo) \in Events
  BY HeadAndTail DEF Persist
<1>2. log' = Append(log, Head(outbox[p].todo)) /\ ~outbox[p].persisted
  BY DEF Persist
<1>3. log' \in Seq(Events)
  BY <1>1, <1>2 DEF TypeOK
<1>4. outbox' = [outbox EXCEPT ![p].persisted = TRUE]
  BY DEF Persist
<1>5. outbox' \in [Processes -> [todo : Seq(Events), persisted : BOOLEAN]]
  BY <1>4 DEF TypeOK
<1>6. outbox'[p].persisted /\ outbox'[p].todo = outbox[p].todo
  BY <1>4 DEF TypeOK
<1>7. \A q \in Processes : q # p => outbox'[q] = outbox[q]
  BY <1>4 DEF TypeOK
<1> QED BY <1>1, <1>2, <1>3, <1>5, <1>6, <1>7

\* AfterPublishing, where each process can be when it publishes.
LEMMA PlaceAfterPublishing ==
  /\ AfterPublishing("breaker") = "done"
  /\ AfterPublishing("llm") = "waiting"
  /\ AfterPublishing("skill") = "waiting"
  /\ at["driver"] = "publishing" => AfterPublishing("driver") = "waiting"
  /\ at["driver"] = "closing" => AfterPublishing("driver") = "gathering"
BY DEF AfterPublishing

LEMMA AfterDispatch ==
  ASSUME TypeOK, OutboxesFit, NEW p \in Processes, Dispatch(p)
  PROVE  LET e == Head(outbox[p].todo)
             rest == Tail(outbox[p].todo)
         IN  /\ outbox[p].todo # <<>> /\ outbox[p].persisted /\ e \in Events /\ rest \in Seq(Events)
             /\ queue' \in [Workers -> Seq(Events)]
             /\ \A w \in Workers : queue'[w] = IF Ended(w) \/ (w = p /\ p = "breaker") THEN <<>> ELSE Deliver(w, e)
             /\ outbox' \in [Processes -> [todo : Seq(Events), persisted : BOOLEAN]]
             /\ outbox'[p] = [todo |-> rest, persisted |-> FALSE]
             /\ \A q \in Processes : q # p => outbox'[q] = outbox[q] /\ at'[q] = at[q]
             /\ DOMAIN at' = Processes
             /\ at'[p] = IF rest = <<>> THEN AfterPublishing(p) ELSE at[p]
             /\ Handle(e)
<1> DEFINE e == Head(outbox[p].todo)
           rest == Tail(outbox[p].todo)
<1>1. outbox[p].todo # <<>> /\ outbox[p].persisted
  BY DEF Dispatch, OutboxesFit, OutboxFits
<1>2. e \in Events /\ rest \in Seq(Events)
  BY <1>1, HeadAndTail
<1>3. /\ queue' = [w \in Workers |-> IF Ended(w) \/ (w = p /\ p = "breaker") THEN <<>> ELSE Deliver(w, e)]
      /\ outbox' = [outbox EXCEPT ![p] = [todo |-> rest, persisted |-> FALSE]]
      /\ at' = IF rest = <<>> THEN [at EXCEPT ![p] = AfterPublishing(p)] ELSE at
      /\ Handle(e)
  BY DEF Dispatch
<1> HIDE DEF e, rest
<1>4. \A w \in Workers : Deliver(w, e) \in Seq(Events)
  BY <1>2 DEF TypeOK, Deliver
<1>5. queue' \in [Workers -> Seq(Events)]
  <2>1. \A w \in Workers : queue'[w] \in Seq(Events)
    BY <1>3, <1>4
  <2> QED BY <1>3, <2>1
<1>6. outbox' \in [Processes -> [todo : Seq(Events), persisted : BOOLEAN]]
  BY <1>2, <1>3 DEF TypeOK
<1>7. DOMAIN at' = Processes /\ at'[p] = IF rest = <<>> THEN AfterPublishing(p) ELSE at[p]
  BY <1>3 DEF TypeOK
<1>8. \A q \in Processes : q # p => outbox'[q] = outbox[q] /\ at'[q] = at[q]
  BY <1>3 DEF TypeOK
<1>9. \A w \in Workers : queue'[w] = IF Ended(w) \/ (w = p /\ p = "breaker") THEN <<>> ELSE Deliver(w, e)
  BY <1>3
<1>10. outbox'[p] = [todo |-> rest, persisted |-> FALSE]
  BY <1>3 DEF TypeOK
<1> QED BY <1>1, <1>2, <1>3, <1>5, <1>6, <1>7, <1>8, <1>9, <1>10 DEF e, rest

\* The failed write of a task that dies of it.
LEMMA AfterLethalFault ==
  ASSUME TypeOK, OutboxesFit, NEW p \in Processes, PersistFails(p),
         ~(p = "skill" /\ Head(outbox[p].todo) = SkillCancelled)
  PROVE  /\ outbox[p].todo # <<>> /\ ~outbox[p].persisted
         /\ Publishes(p, IF at[p] = "publishing" /\ p = "driver" THEN <<Paused("completed")>> ELSE <<>>)
         /\ DOMAIN at' = Processes /\ \A q \in Processes : q # p => at'[q] = at[q]
         /\ p # "driver" => at'[p] = "crashed"
         /\ p = "driver" => \/ at[p] = "publishing" /\ at'[p] = "closing"
                            \/ at[p] = "closing" /\ at'[p] = "raised"
         /\ queue' \in [Workers -> Seq(Events)]
         /\ \A w \in Workers : queue'[w] = IF w = p THEN <<>> ELSE queue[w]
<1>1. outbox[p].todo # <<>> /\ ~outbox[p].persisted
  BY DEF PersistFails
<1>2. /\ Publishes(p, IF at[p] = "publishing" /\ p = "driver" THEN <<Paused("completed")>> ELSE <<>>)
      /\ at' = [at EXCEPT ![p] = CASE p # "driver" -> "crashed"
                                   [] p = "driver" /\ @ = "publishing" -> "closing"
                                   [] p = "driver" /\ @ = "closing" -> "raised"]
      /\ queue' = [w \in Workers |-> IF w = p THEN <<>> ELSE queue[w]]
  BY DEF PersistFails
<1>3. p = "driver" => at[p] \in {"publishing", "closing"}
  BY <1>1, DriverPublishes
<1>4. queue' \in [Workers -> Seq(Events)]
  BY <1>2 DEF TypeOK
<1> QED BY <1>1, <1>2, <1>3, <1>4 DEF TypeOK

\* A failed write of SkillCancelled is reported as a failed skill.
LEMMA AfterReportedFault ==
  ASSUME TypeOK, OutboxesFit, PersistFails("skill"), Head(outbox["skill"].todo) = SkillCancelled
  PROVE  /\ outbox["skill"].todo # <<>> /\ ~outbox["skill"].persisted /\ at["skill"] = "publishing"
         /\ Publishes("skill", <<Completed("failed")>>) /\ UNCHANGED <<at, queue>>
BY SkillPublishes DEF PersistFails

-----------------------------------------------------------------------------
(* Types *)

AtType == DOMAIN at = Processes /\ \A p \in Processes : at[p] \in Places[p]
OutboxTypeOK == outbox \in [Processes -> [todo : Seq(Events), persisted : BOOLEAN]]

LEMMA MoveType ==
  ASSUME TypeOK, NEW p \in Processes, NEW place \in Places[p], Move(p, place) PROVE AtType'
BY AtAfterMove DEF Move, AtType, TypeOK

LEMMA InitTypeOK == Init => TypeOK
<1> SUFFICES ASSUME Init PROVE TypeOK
  OBVIOUS
<1>1. <<Input>> \in Seq(Events)
  BY EventOfKind
<1>2. \A p \in Processes : at[p] \in Places[p]
  BY PlacesOf DEF Init, Processes, Workers
<1>3. outbox \in [Processes -> [todo : Seq(Events), persisted : BOOLEAN]]
  <2> DEFINE start == [Idle EXCEPT !.todo = <<Input>>]
  <2>1. Idle \in [todo : Seq(Events), persisted : BOOLEAN]
    BY DEF Idle
  <2>2. start \in [todo : Seq(Events), persisted : BOOLEAN]
    BY <1>1, <2>1
  <2> HIDE DEF start
  <2>3. outbox = [p \in Processes |-> IF p = "driver" THEN start ELSE Idle]
    BY DEF Init, start
  <2> QED BY <2>1, <2>2, <2>3
<1>4. log = <<>> /\ Len(log) = 0
  BY DEF Init
<1>5. snapshot \in [offset : 0..Len(log), tokens : Nat, failures : Nat, paused : BOOLEAN]
  BY <1>4 DEF Init
<1>6. queue \in [Workers -> Seq(Events)] /\ DOMAIN at = Processes
  BY DEF Init
<1>7. faults \in 0..MaxFaults /\ tally \in [tokens : Nat, failures : Nat] /\ status \in Reasons /\ log \in Seq(Events)
  BY LimitsAreNaturals DEF Init, Reasons
<1>8. output \in Nat /\ terminal \in BOOLEAN /\ limited \in BOOLEAN /\ timedOut \in BOOLEAN /\ calls \in Nat
  BY DEF Init
<1> QED BY <1>2, <1>3, <1>5, <1>6, <1>7, <1>8 DEF TypeOK

LEMMA PersistType == ASSUME TypeOK, NEW p \in Processes, Persist(p) PROVE TypeOK'
<1>1. snapshot \in [offset : 0..Len(log'), tokens : Nat, failures : Nat, paused : BOOLEAN]
  <2>1. Len(log') = Len(log) + 1 /\ Len(log) \in Nat
    BY AfterPersist DEF TypeOK
  <2> QED BY <2>1 DEF TypeOK
<1> QED BY <1>1, AfterPersist DEF TypeOK, Persist

LEMMA DispatchType == ASSUME TypeOK, OutboxesFit, NEW p \in Processes, Dispatch(p) PROVE TypeOK'
<1> DEFINE e == Head(outbox[p].todo)
           rest == Tail(outbox[p].todo)
<1>1. AtType'
  <2>1. at'[p] \in Places[p]
    <3>1. CASE p = "driver"
      BY <3>1, AfterDispatch, DriverPublishes, PlaceAfterPublishing, PlacesOf
    <3>2. at'[p] = AfterPublishing(p) \/ at'[p] = at[p]
      BY AfterDispatch
    <3>3. at[p] \in Places[p]
      BY DEF TypeOK
    <3>4. CASE p \in Workers
      BY <3>2, <3>3, <3>4, PlaceAfterPublishing, PlacesOf DEF Workers
    <3> QED BY <3>1, <3>4, Constants
  <2>2. DOMAIN at' = Processes /\ \A q \in Processes : q # p => at'[q] = at[q]
    BY AfterDispatch
  <2> QED BY <2>1, <2>2 DEF AtType, TypeOK
<1>2. output' \in Nat /\ terminal' \in BOOLEAN /\ status' \in Reasons
  <2>1. e \in Events /\ Handle(e)
    BY AfterDispatch
  <2>2. IsPause(e) => e.tag \in Reasons
    <3>1. CASE p = "breaker"
      <4>1. outbox["breaker"].todo # <<>>
        BY <3>1, AfterDispatch
      <4>2. PICK r \in Breaches : e = Paused(r)
        BY <3>1, <4>1, BreakerPublishes
      <4> QED BY <4>2, TypeOfEvent, Constants
    <3>2. CASE p = "llm"
      BY <3>2, AfterDispatch, LlmPublishes, TypeOfEvent DEF IsPause
    <3>3. CASE p = "skill"
      BY <3>3, AfterDispatch, SkillPublishes, TypeOfEvent DEF IsPause
    <3>4. CASE p = "driver"
      <4>1. outbox["driver"].todo # <<>>
        BY <3>4, AfterDispatch
      <4>2. e = Input \/ e = Paused("completed")
        BY <3>4, <4>1, DriverPublishes
      <4> QED BY <4>2, TypeOfEvent DEF IsPause, Reasons
    <3> QED BY <3>1, <3>2, <3>3, <3>4 DEF Processes, Workers
  <2> QED BY <2>1, <2>2 DEF Handle, TypeOK
<1>3. UNCHANGED <<log, calls, tally, snapshot, limited, timedOut, faults>>
  BY DEF Dispatch
<1> QED BY <1>1, <1>2, <1>3, AfterDispatch DEF TypeOK, AtType

LEMMA PersistFailsType == ASSUME TypeOK, OutboxesFit, NEW p \in Processes, PersistFails(p) PROVE TypeOK'
<1>1. faults' \in 0..MaxFaults /\ UNCHANGED <<log, calls, tally, snapshot, output, terminal, status, limited, timedOut>>
  <2>1. faults < MaxFaults /\ faults' = faults + 1 /\ faults \in 0..MaxFaults
    BY DEF TypeOK, PersistFails
  <2>2. UNCHANGED <<log, calls, tally, snapshot, output, terminal, status, limited, timedOut>>
    BY DEF PersistFails
  <2> QED BY <2>1, <2>2, LimitsAreNaturals
<1>2. <<Completed("failed")>> \in Seq(Events) /\ <<Paused("completed")>> \in Seq(Events) /\ <<>> \in Seq(Events)
  BY EventOfKind DEF Reasons
<1>3. CASE p = "skill" /\ Head(outbox[p].todo) = SkillCancelled
  <2>1. OutboxTypeOK' /\ UNCHANGED <<at, queue>>
    BY <1>2, <1>3, AfterReportedFault, OutboxAfterPublishes DEF OutboxTypeOK
  <2> QED BY <1>1, <2>1 DEF TypeOK, OutboxTypeOK
<1>4. CASE ~(p = "skill" /\ Head(outbox[p].todo) = SkillCancelled)
  <2>1. OutboxTypeOK'
    BY <1>2, <1>4, AfterLethalFault, OutboxAfterPublishes DEF OutboxTypeOK
  <2>2. at'[p] \in Places[p]
    BY <1>4, AfterLethalFault, PlacesOf DEF Processes, Workers
  <2>3. AtType'
    BY <1>4, <2>2, AfterLethalFault DEF AtType, TypeOK
  <2>4. queue' \in [Workers -> Seq(Events)]
    BY <1>4, AfterLethalFault
  <2> QED BY <1>1, <2>1, <2>3, <2>4 DEF TypeOK, AtType, OutboxTypeOK
<1> QED BY <1>3, <1>4

LEMMA BreakerStepType == ASSUME TypeOK, NEW e, BreakerStep(e) PROVE TypeOK'
<1>1. e \in Events /\ queue' \in [Workers -> Seq(Events)] /\ "breaker" \in Processes
  BY Constants, QueueAfterTake DEF BreakerStep, Workers
<1>2. UNCHANGED <<log, calls, snapshot, output, terminal, status, limited, timedOut, faults>>
  BY DEF BreakerStep
<1> DEFINE failures == BreakerCount(tally.failures, e)
           tokens == tally.tokens + e.tokens
           reason == BreachOf(e, tokens, failures)
<1>3. CASE IsPause(e)
  <2>1. Move("breaker", "done") /\ UNCHANGED <<tally, outbox>>
    BY <1>3 DEF BreakerStep
  <2>2. AtType'
    BY <1>1, <2>1, MoveType, PlacesOf
  <2> QED BY <1>1, <1>2, <2>1, <2>2 DEF TypeOK, AtType
<1>4. CASE ~IsPause(e)
  <2>1. /\ tally' = [tokens |-> tokens, failures |-> failures]
        /\ IF reason = "none"
           THEN UNCHANGED <<at, outbox>>
           ELSE Move("breaker", "publishing") /\ Publishes("breaker", <<Paused(reason)>>)
    BY <1>4 DEF BreakerStep
  <2>2. tokens \in Nat /\ failures \in Nat
    <3>1. tally.tokens \in Nat /\ tally.failures \in Nat
      BY DEF TypeOK
    <3>2. e.tokens \in Nat
      BY <1>1, TokensOfEvent
    <3>3. failures \in Nat
      BY <1>1, <3>1, CountFailureType
    <3> QED BY <3>1, <3>2, <3>3
  <2>3. tally' \in [tokens : Nat, failures : Nat]
    BY <2>1, <2>2
  <2>4. reason \in Breaches \cup {"none"}
    BY DEF BreachOf, Breaches
  <2> HIDE DEF reason, tokens, failures
  <2>5. CASE reason = "none"
    BY <1>1, <1>2, <2>1, <2>3, <2>5 DEF TypeOK
  <2>6. CASE reason # "none"
    <3>1. <<Paused(reason)>> \in Seq(Events)
      BY <2>4, <2>6, EventOfKind, Constants
    <3>2. OutboxTypeOK'
      BY <1>1, <2>1, <2>6, <3>1, OutboxAfterPublishes DEF OutboxTypeOK
    <3>3. AtType'
      BY <1>1, <2>1, <2>6, MoveType, PlacesOf
    <3> QED BY <1>1, <1>2, <2>3, <3>2, <3>3 DEF TypeOK, AtType, OutboxTypeOK
  <2> QED BY <2>5, <2>6
<1> QED BY <1>3, <1>4

LEMMA LlmTakeType == ASSUME TypeOK, NEW e, LlmTake(e) PROVE TypeOK'
<1>1. queue' \in [Workers -> Seq(Events)] /\ "llm" \in Processes
  BY Constants, QueueAfterTake DEF LlmTake, Workers
<1>2. AtType'
  BY <1>1, MoveType, PlacesOf DEF LlmTake
<1> QED BY <1>1, <1>2 DEF TypeOK, AtType, LlmTake

LEMMA SkillTakeType == ASSUME TypeOK, NEW e, SkillTake(e) PROVE TypeOK'
<1>1. queue' \in [Workers -> Seq(Events)] /\ "skill" \in Processes
  BY Constants, QueueAfterTake DEF SkillTake, Workers
<1>2. AtType'
  BY <1>1, MoveType, PlacesOf DEF SkillTake
<1> QED BY <1>1, <1>2 DEF TypeOK, AtType, SkillTake

LEMMA DeriveType ==
  ASSUME TypeOK
  PROVE  /\ Derive \in [offset : 0..Len(log), tokens : Nat, failures : Nat, paused : BOOLEAN]
         /\ SubSeq(log, snapshot.offset + 1, Len(log)) \in Seq(Events)
<1>1. /\ log \in Seq(Events) /\ snapshot.offset \in 0..Len(log) /\ snapshot.tokens \in Nat
      /\ snapshot.failures \in Nat /\ snapshot.paused \in BOOLEAN
  BY DEF TypeOK
<1> DEFINE new == SubSeq(log, snapshot.offset + 1, Len(log))
<1>2. new \in Seq(Events)
  BY <1>1
<1> HIDE DEF new
<1>3. Tokens(new) \in Nat /\ AllFailures(snapshot.failures, new) \in Nat
  BY <1>1, <1>2, TokensType, AllFailuresType
<1>4. Derive = [offset |-> Len(log), tokens |-> snapshot.tokens + Tokens(new),
                failures |-> AllFailures(snapshot.failures, new), paused |-> snapshot.paused \/ HasPause(new)]
  BY DEF Derive, new
<1>5. (snapshot.paused \/ HasPause(new)) \in BOOLEAN
  BY <1>1
<1> QED BY <1>1, <1>2, <1>3, <1>4, <1>5 DEF new

LEMMA LlmDeriveType == ASSUME TypeOK, LlmDerive PROVE TypeOK'
<1>1. snapshot' \in [offset : 0..Len(log), tokens : Nat, failures : Nat, paused : BOOLEAN]
  BY DeriveType DEF LlmDerive
<1>2. AtType'
  BY Constants, MoveType, PlacesOf DEF LlmDerive, Workers
<1>3. queue' \in [Workers -> Seq(Events)]
  <2>1. queue' = queue \/ queue' = [queue EXCEPT !["llm"] = <<>>]
    BY DEF LlmDerive
  <2>2. queue \in [Workers -> Seq(Events)] /\ <<>> \in Seq(Events)
    BY DEF TypeOK
  <2> QED BY <2>1, <2>2
<1> QED BY <1>1, <1>2, <1>3 DEF TypeOK, AtType, LlmDerive

LEMMA RepliesType ==
  /\ Replies \subseteq Seq(Events)
  /\ \A reply \in Replies, n \in TurnTokens : <<Action(n)>> \o reply \in Seq(Events)
<1>1. <<Request>> \in Seq(Events) /\ <<Text>> \in Seq(Events) /\ <<>> \in Seq(Events)
  BY EventOfKind
<1>2. \A n \in TurnTokens : <<Action(n)>> \in Seq(Events)
  BY EventOfKind
<1>3. Replies \subseteq Seq(Events)
  BY <1>1 DEF Replies
<1> QED BY <1>2, <1>3

LEMMA LlmReturnsType ==
  ASSUME TypeOK, NEW n \in TurnTokens, NEW reply \in Replies, LlmReturns(n, reply) PROVE TypeOK'
<1>1. "llm" \in Processes /\ <<Action(n)>> \o reply \in Seq(Events)
  BY Constants, RepliesType DEF Workers
<1>2. OutboxTypeOK'
  BY <1>1, OutboxAfterPublishes DEF LlmReturns, OutboxTypeOK
<1>3. AtType'
  BY <1>1, MoveType, PlacesOf DEF LlmReturns
<1> QED BY <1>2, <1>3 DEF TypeOK, AtType, OutboxTypeOK, LlmReturns

LEMMA LlmRaisesType == ASSUME TypeOK, LlmRaises PROVE TypeOK'
<1>1. AtType'
  BY Constants, MoveType, PlacesOf DEF LlmRaises, Workers
<1>2. queue' \in [Workers -> Seq(Events)] /\ faults' \in 0..MaxFaults
  <2>1. faults' \in 0..MaxFaults
    BY LimitsAreNaturals DEF LlmRaises, TypeOK
  <2>2. queue' = [queue EXCEPT !["llm"] = <<>>] /\ queue \in [Workers -> Seq(Events)] /\ <<>> \in Seq(Events)
    BY DEF LlmRaises, TypeOK
  <2> QED BY <2>1, <2>2
<1> QED BY <1>1, <1>2 DEF TypeOK, AtType, LlmRaises

LEMMA SkillReturnsType == ASSUME TypeOK, NEW st \in SkillStatuses, SkillReturns(st) PROVE TypeOK'
<1> DEFINE es == IF st = "cancelled" THEN <<SkillCancelled, Completed(st)>> ELSE <<Completed(st)>>
<1>1. "skill" \in Processes /\ es \in Seq(Events)
  BY Constants, EventOfKind DEF Workers
<1> HIDE DEF es
<1>2. OutboxTypeOK'
  BY <1>1, OutboxAfterPublishes DEF SkillReturns, OutboxTypeOK, es
<1>3. AtType'
  BY <1>1, MoveType, PlacesOf DEF SkillReturns
<1> QED BY <1>2, <1>3 DEF TypeOK, AtType, OutboxTypeOK, SkillReturns

LEMMA CloseType == ASSUME TypeOK, NEW late \in BOOLEAN, Close(late) PROVE TypeOK'
<1>1. "driver" \in Processes /\ <<Paused("completed")>> \in Seq(Events)
  BY Constants, EventOfKind DEF Reasons
<1>2. OutboxTypeOK'
  BY <1>1, OutboxAfterPublishes DEF Close, OutboxTypeOK
<1>3. AtType'
  BY <1>1, MoveType, PlacesOf DEF Close
<1>4. status' \in Reasons /\ timedOut' \in BOOLEAN
  BY DEF Close, TypeOK, Reasons
<1> QED BY <1>2, <1>3, <1>4 DEF TypeOK, AtType, OutboxTypeOK, Close

LEMMA GatherType == ASSUME TypeOK, GatherReturns PROVE TypeOK'
<1>1. AtType'
  BY Constants, MoveType, PlacesOf DEF GatherReturns
<1> QED BY <1>1 DEF TypeOK, AtType, GatherReturns

-----------------------------------------------------------------------------
(* Outboxes *)

LEMMA OthersFit ==
  ASSUME OutboxesFit, NEW p \in Processes, OutboxFits(p)',
         \A q \in Processes : q # p => outbox'[q] = outbox[q] /\ at'[q] = at[q]
  PROVE  OutboxesFit'
<1> SUFFICES ASSUME NEW q \in Processes, q # p PROVE OutboxFits(q)'
  BY DEF OutboxesFit
<1>1. OutboxFits(q) /\ outbox'[q] = outbox[q] /\ at'[q] = at[q]
  BY DEF OutboxesFit
<1> QED BY <1>1 DEF OutboxFits

\* A process that does not publish goes somewhere else, and still does not.
LEMMA IdleFits ==
  ASSUME TypeOK, OutboxesFit, NEW p \in Processes, NEW place, Move(p, place), UNCHANGED outbox,
         at[p] \notin {"publishing", "closing"}, place \notin {"publishing", "closing"}
  PROVE  OutboxesFit'
<1>1. at'[p] = place /\ \A q \in Processes : q # p => at'[q] = at[q]
  BY AtAfterMove DEF Move
<1>2. OutboxFits(p)'
  BY <1>1 DEF OutboxesFit, OutboxFits
<1> QED BY <1>1, <1>2, OthersFit

\* A process starts to publish: nothing of it is written.
LEMMA StartFits ==
  ASSUME TypeOK, OutboxesFit, NEW p \in Processes, NEW place, Move(p, place),
         NEW es \in Seq(Events), Publishes(p, es), es # <<>>,
         at[p] \notin {"publishing", "closing"},
         \/ p = "breaker" /\ place = "publishing" /\ \E r \in Breaches : es = <<Paused(r)>>
         \/ p = "llm" /\ place = "publishing" /\ \E n \in TurnTokens, reply \in Replies : es = <<Action(n)>> \o reply
         \/ /\ p = "skill" /\ place = "publishing" /\ "cancelled" \in SkillStatuses
            /\ es = <<SkillCancelled, Completed("cancelled")>>
         \/ p = "skill" /\ place = "publishing" /\ \E st \in SkillStatuses : es = <<Completed(st)>>
         \/ p = "driver" /\ place = "closing" /\ es = <<Paused("completed")>>
  PROVE  OutboxesFit' /\ ~outbox'[p].persisted
<1>1. at'[p] = place /\ \A q \in Processes : q # p => at'[q] = at[q]
  BY AtAfterMove DEF Move
<1>2. /\ outbox'[p].todo = es /\ outbox'[p].persisted = outbox[p].persisted
      /\ \A q \in Processes : q # p => outbox'[q] = outbox[q]
  BY OutboxAfterPublishes
<1>3. ~outbox[p].persisted
  BY DEF OutboxesFit, OutboxFits
<1>4. OutboxFits(p)'
  BY <1>1, <1>2, <1>3 DEF OutboxFits
<1> QED BY <1>1, <1>2, <1>3, <1>4, OthersFit

LEMMA InitFits == Init => OutboxesFit /\ QueuesFit
<1> SUFFICES ASSUME Init PROVE OutboxesFit /\ QueuesFit
  OBVIOUS
<1>1. ASSUME NEW p \in Processes PROVE OutboxFits(p)
  <2>1. CASE p = "driver"
    <3>1. at[p] = "publishing" /\ outbox[p] = [Idle EXCEPT !.todo = <<Input>>]
      BY <2>1 DEF Init
    <3>2. outbox[p].todo = <<Input>> /\ outbox[p].persisted = FALSE
      BY <3>1 DEF Idle
    <3>3. <<Input>> # <<>>
      OBVIOUS
    <3> QED BY <2>1, <3>1, <3>2, <3>3 DEF OutboxFits
  <2>2. CASE p # "driver"
    <3>1. at[p] = "waiting" /\ outbox[p] = Idle
      BY <2>2 DEF Init
    <3> QED BY <2>2, <3>1 DEF OutboxFits, Idle
  <2> QED BY <2>1, <2>2
<1>2. ASSUME NEW w \in Workers PROVE QueueFits(w)
  BY DEF Init, QueueFits, Ended
<1> QED BY <1>1, <1>2 DEF OutboxesFit, QueuesFit

LEMMA PersistFits == ASSUME TypeOK, OutboxesFit, NEW p \in Processes, Persist(p) PROVE OutboxesFit'
<1>1. /\ outbox'[p].todo = outbox[p].todo /\ outbox[p].todo # <<>> /\ UNCHANGED at
      /\ \A q \in Processes : q # p => outbox'[q] = outbox[q]
  BY AfterPersist DEF Persist
<1>2. OutboxFits(p)'
  BY <1>1 DEF OutboxesFit, OutboxFits
<1> QED BY <1>1, <1>2, OthersFit

LEMMA DispatchFits == ASSUME TypeOK, OutboxesFit, NEW p \in Processes, Dispatch(p) PROVE OutboxesFit'
<1> DEFINE rest == Tail(outbox[p].todo)
<1>1. /\ outbox[p].todo # <<>> /\ outbox'[p].todo = rest /\ outbox'[p].persisted = FALSE
      /\ at'[p] = IF rest = <<>> THEN AfterPublishing(p) ELSE at[p]
      /\ \A q \in Processes : q # p => outbox'[q] = outbox[q] /\ at'[q] = at[q]
  <2>1. outbox'[p] = [todo |-> rest, persisted |-> FALSE]
    BY AfterDispatch
  <2>2. \A q \in Processes : q # p => outbox'[q] = outbox[q] /\ at'[q] = at[q]
    BY AfterDispatch
  <2>3. outbox[p].todo # <<>> /\ at'[p] = IF rest = <<>> THEN AfterPublishing(p) ELSE at[p]
    BY AfterDispatch
  <2> QED BY <2>1, <2>2, <2>3
<1> HIDE DEF rest
<1>2. OutboxFits(p)'
  <2>1. CASE p = "breaker"
    BY <1>1, <2>1, BreakerPublishes, PlaceAfterPublishing DEF OutboxFits, rest
  <2>2. CASE p = "llm"
    <3>1. at[p] = "publishing" /\ rest \in {<<>>, <<Request>>, <<Text>>}
      BY <1>1, <2>2, LlmPublishes DEF rest
    <3>2. CASE rest = <<>>
      BY <1>1, <2>2, <3>2, PlaceAfterPublishing DEF OutboxFits
    <3>3. CASE rest \in {<<Request>>, <<Text>>}
      <4>1. rest # <<>>
        BY <3>3
      <4> QED BY <1>1, <2>2, <3>1, <3>3, <4>1 DEF OutboxFits
    <3> QED BY <3>1, <3>2, <3>3
  <2>3. CASE p = "skill"
    <3>1. at[p] = "publishing" /\ rest \in {<<>>, <<Completed("cancelled")>>}
      BY <1>1, <2>3, SkillPublishes DEF rest
    <3>2. CASE rest = <<>>
      BY <1>1, <2>3, <3>2, PlaceAfterPublishing DEF OutboxFits
    <3>3. CASE rest = <<Completed("cancelled")>>
      <4>1. rest # <<>>
        BY <3>3
      <4>2. "cancelled" \in SkillStatuses
        BY <1>1, <2>3, <3>3, <4>1, SkillPublishes DEF rest
      <4> QED BY <1>1, <2>3, <3>1, <3>3, <4>1, <4>2 DEF OutboxFits
    <3> QED BY <3>1, <3>2, <3>3
  <2>4. CASE p = "driver"
    <3>1. rest = <<>> /\ at'[p] \in {"waiting", "gathering"}
      BY <1>1, <2>4, DriverPublishes, PlaceAfterPublishing DEF rest
    <3> QED BY <1>1, <2>4, <3>1 DEF OutboxFits
  <2> QED BY <2>1, <2>2, <2>3, <2>4 DEF Processes, Workers
<1> QED BY <1>1, <1>2, OthersFit

LEMMA PersistFailsFits == ASSUME TypeOK, OutboxesFit, NEW p \in Processes, PersistFails(p) PROVE OutboxesFit'
<1>1. <<Completed("failed")>> \in Seq(Events) /\ <<Paused("completed")>> \in Seq(Events) /\ <<>> \in Seq(Events)
  BY EventOfKind DEF Reasons
<1>2. CASE p = "skill" /\ Head(outbox[p].todo) = SkillCancelled
  <2>1. /\ at["skill"] = "publishing" /\ UNCHANGED at /\ outbox'["skill"].todo = <<Completed("failed")>>
        /\ outbox'["skill"].persisted = outbox["skill"].persisted /\ ~outbox["skill"].persisted
        /\ \A q \in Processes : q # "skill" => outbox'[q] = outbox[q]
    BY <1>1, <1>2, AfterReportedFault, OutboxAfterPublishes
  <2>2. <<Completed("failed")>> # <<>>
    OBVIOUS
  <2>3. OutboxFits("skill")'
    BY <2>1, <2>2, FailuresAreStatuses DEF OutboxFits
  <2> QED BY <1>2, <2>1, <2>3, OthersFit
<1>3. CASE ~(p = "skill" /\ Head(outbox[p].todo) = SkillCancelled)
  <2> DEFINE es == IF at[p] = "publishing" /\ p = "driver" THEN <<Paused("completed")>> ELSE <<>>
  <2>1. Publishes(p, es) /\ es \in Seq(Events)
    BY <1>1, <1>3, AfterLethalFault
  <2>2. /\ outbox'[p].todo = es /\ outbox'[p].persisted = outbox[p].persisted
        /\ \A q \in Processes : q # p => outbox'[q] = outbox[q]
    BY <2>1, OutboxAfterPublishes
  <2>3. /\ ~outbox[p].persisted /\ \A q \in Processes : q # p => at'[q] = at[q]
        /\ p # "driver" => at'[p] = "crashed"
        /\ p = "driver" => \/ at[p] = "publishing" /\ at'[p] = "closing"
                           \/ at[p] = "closing" /\ at'[p] = "raised"
    BY <1>3, AfterLethalFault
  <2>4. <<Paused("completed")>> # <<>>
    OBVIOUS
  <2>5. OutboxFits(p)'
    BY <2>2, <2>3, <2>4 DEF OutboxFits
  <2> QED BY <2>2, <2>3, <2>5, OthersFit
<1> QED BY <1>2, <1>3

LEMMA BreakerStepFits == ASSUME TypeOK, OutboxesFit, NEW e, BreakerStep(e) PROVE OutboxesFit'
<1> DEFINE failures == BreakerCount(tally.failures, e)
           tokens == tally.tokens + e.tokens
           reason == BreachOf(e, tokens, failures)
<1>1. "breaker" \in Processes /\ at["breaker"] = "waiting"
  BY Constants, QueueAfterTake DEF BreakerStep, Workers
<1>2. CASE IsPause(e)
  BY <1>1, <1>2, IdleFits DEF BreakerStep
<1>3. CASE ~IsPause(e) /\ reason = "none"
  <2>1. UNCHANGED <<at, outbox>>
    BY <1>3 DEF BreakerStep
  <2> QED BY <2>1 DEF OutboxesFit, OutboxFits
<1>4. CASE ~IsPause(e) /\ reason # "none"
  <2>1. Move("breaker", "publishing") /\ Publishes("breaker", <<Paused(reason)>>)
    BY <1>4 DEF BreakerStep
  <2>2. reason \in Breaches
    BY <1>4 DEF BreachOf, Breaches
  <2> HIDE DEF reason
  <2>3. <<Paused(reason)>> \in Seq(Events) /\ <<Paused(reason)>> # <<>>
    BY <2>2, EventOfKind, Constants
  <2> QED BY <1>1, <2>1, <2>2, <2>3, StartFits
<1> QED BY <1>2, <1>3, <1>4

LEMMA LlmStepsFit ==
  ASSUME TypeOK, OutboxesFit,
         \/ \E e : LlmTake(e)
         \/ LlmDerive \/ LlmRaises
         \/ \E n \in TurnTokens, reply \in Replies : LlmReturns(n, reply)
  PROVE  OutboxesFit'
<1>0. "llm" \in Processes /\ "llm" \in Workers
  BY Constants DEF Workers
<1>1. ASSUME NEW e, LlmTake(e) PROVE OutboxesFit'
  <2>1. at["llm"] = "waiting" /\ UNCHANGED outbox /\ Move("llm", IF IsPause(e) THEN "done" ELSE "deriving")
    BY <1>1 DEF LlmTake, Take
  <2> QED BY <1>0, <2>1, IdleFits
<1>2. CASE LlmDerive
  BY <1>0, <1>2, IdleFits DEF LlmDerive
<1>3. CASE LlmRaises
  BY <1>0, <1>3, IdleFits DEF LlmRaises
<1>4. ASSUME NEW n \in TurnTokens, NEW reply \in Replies, LlmReturns(n, reply) PROVE OutboxesFit'
  <2> DEFINE es == <<Action(n)>> \o reply
  <2>1. es \in Seq(Events) /\ es # <<>>
    <3>1. es \in Seq(Events)
      BY RepliesType
    <3>2. reply \in Seq(Events)
      BY RepliesType
    <3>3. Len(es) # 0
      BY <3>1, <3>2
    <3> QED BY <3>1, <3>3
  <2> HIDE DEF es
  <2>2. at["llm"] = "running" /\ Move("llm", "publishing") /\ Publishes("llm", es)
    BY <1>4 DEF LlmReturns, es
  <2>3. \E m \in TurnTokens, r \in Replies : es = <<Action(m)>> \o r
    BY DEF es
  <2> QED BY <1>0, <2>1, <2>2, <2>3, StartFits
<1> QED BY <1>1, <1>2, <1>3, <1>4

LEMMA SkillStepsFit ==
  ASSUME TypeOK, OutboxesFit, (\E e : SkillTake(e)) \/ \E st \in SkillStatuses : SkillReturns(st)
  PROVE  OutboxesFit'
<1>0. "skill" \in Processes /\ "skill" \in Workers
  BY Constants DEF Workers
<1>1. ASSUME NEW e, SkillTake(e) PROVE OutboxesFit'
  <2>1. at["skill"] = "waiting" /\ UNCHANGED outbox /\ Move("skill", IF IsPause(e) THEN "done" ELSE "running")
    BY <1>1 DEF SkillTake, Take
  <2> QED BY <1>0, <2>1, IdleFits
<1>2. ASSUME NEW st \in SkillStatuses, SkillReturns(st) PROVE OutboxesFit'
  <2> DEFINE es == IF st = "cancelled" THEN <<SkillCancelled, Completed(st)>> ELSE <<Completed(st)>>
  <2>1. es \in Seq(Events) /\ es # <<>>
    BY EventOfKind
  <2>2. \/ st = "cancelled" /\ es = <<SkillCancelled, Completed("cancelled")>>
        \/ es = <<Completed(st)>>
    OBVIOUS
  <2> HIDE DEF es
  <2>3. at["skill"] = "running" /\ Move("skill", "publishing") /\ Publishes("skill", es)
    BY <1>2 DEF SkillReturns, es
  <2>4. CASE st = "cancelled" /\ es = <<SkillCancelled, Completed("cancelled")>>
    BY <1>0, <2>1, <2>3, <2>4, StartFits
  <2>5. CASE es = <<Completed(st)>>
    <3>1. \E t \in SkillStatuses : es = <<Completed(t)>>
      BY <2>5
    <3> QED BY <1>0, <2>1, <2>3, <3>1, StartFits
  <2> QED BY <2>2, <2>4, <2>5
<1> QED BY <1>1, <1>2

LEMMA DriverStepsFit ==
  ASSUME TypeOK, OutboxesFit, (\E late \in BOOLEAN : Close(late)) \/ GatherReturns
  PROVE  OutboxesFit'
<1>1. ASSUME NEW late \in BOOLEAN, Close(late) PROVE OutboxesFit'
  <2> DEFINE es == <<Paused("completed")>>
  <2>1. es \in Seq(Events) /\ es # <<>>
    BY EventOfKind DEF Reasons
  <2>2. at["driver"] = "waiting" /\ Move("driver", "closing") /\ Publishes("driver", es)
    BY <1>1 DEF Close
  <2> QED BY <2>1, <2>2, Constants, StartFits
<1>2. CASE GatherReturns
  BY <1>2, Constants, IdleFits DEF GatherReturns
<1> QED BY <1>1, <1>2

-----------------------------------------------------------------------------
(* Queues *)

LEMMA QueueStillFits ==
  ASSUME TypeOK, QueuesFit, NEW w \in Workers,
         \/ queue'[w] = <<>>
         \/ queue'[w] = queue[w] /\ (Ended(w)' => Ended(w))
         \/ queue[w] # <<>> /\ queue'[w] = Tail(queue[w]) /\ ~Ended(w)'
         \/ /\ \E e \in Events : e.type \in Reacts[w] /\ queue'[w] = Append(queue[w], e)
            /\ ~Ended(w)'
  PROVE  QueueFits(w)'
<1>1. queue[w] \in Seq(Events) /\ (\A i \in DOMAIN queue[w] : queue[w][i].type \in Reacts[w])
      /\ (Ended(w) => queue[w] = <<>>)
  BY DEF TypeOK, QueuesFit, QueueFits
<1>2. CASE queue'[w] = <<>>
  BY <1>2 DEF QueueFits
<1>3. CASE queue'[w] = queue[w] /\ (Ended(w)' => Ended(w))
  BY <1>1, <1>3 DEF QueueFits
<1>4. CASE queue[w] # <<>> /\ queue'[w] = Tail(queue[w]) /\ ~Ended(w)'
  <2>1. ASSUME NEW i \in DOMAIN Tail(queue[w])
        PROVE  i + 1 \in DOMAIN queue[w] /\ Tail(queue[w])[i] = queue[w][i + 1]
    BY <1>1, <1>4
  <2> QED BY <1>1, <1>4, <2>1 DEF QueueFits
<1>5. ASSUME NEW e \in Events, e.type \in Reacts[w], queue'[w] = Append(queue[w], e), ~Ended(w)'
      PROVE  QueueFits(w)'
  <2>1. ASSUME NEW i \in DOMAIN Append(queue[w], e)
        PROVE  Append(queue[w], e)[i] = e \/ (i \in DOMAIN queue[w] /\ Append(queue[w], e)[i] = queue[w][i])
    BY <1>1
  <2> QED BY <1>1, <1>5, <2>1 DEF QueueFits
<1> QED BY <1>2, <1>3, <1>4, <1>5

\* Ended is about one place only.
LEMMA EndedOf ==
  ASSUME NEW w
  PROVE  /\ at'[w] = at[w] => (Ended(w)' <=> Ended(w))
         /\ Ended(w)' <=> at'[w] \in {"done", "crashed"}
         /\ Ended(w) <=> at[w] \in {"done", "crashed"}
BY DEF Ended

LEMMA PersistQueues == ASSUME TypeOK, QueuesFit, NEW p \in Processes, Persist(p) PROVE QueuesFit'
BY EndedOf, QueueStillFits DEF Persist, QueuesFit

LEMMA DispatchQueues ==
  ASSUME TypeOK, OutboxesFit, QueuesFit, NEW p \in Processes, Dispatch(p) PROVE QueuesFit'
<1> DEFINE e == Head(outbox[p].todo)
           rest == Tail(outbox[p].todo)
<1> SUFFICES ASSUME NEW w \in Workers PROVE QueueFits(w)'
  BY DEF QueuesFit
<1>1. e \in Events /\ queue'[w] = IF Ended(w) \/ (w = p /\ p = "breaker") THEN <<>> ELSE Deliver(w, e)
  BY AfterDispatch
<1>2. CASE Ended(w) \/ (w = p /\ p = "breaker")
  BY <1>1, <1>2, QueueStillFits
<1>3. CASE ~(Ended(w) \/ (w = p /\ p = "breaker"))
  <2>1. ~Ended(w)'
    <3>1. w # p => at'[w] = at[w]
      BY AfterDispatch, Constants
    <3>2. w = p => at'[w] = AfterPublishing(p) \/ at'[w] = at[w]
      BY AfterDispatch
    <3>3. w = p => AfterPublishing(p) = "waiting"
      BY <1>3, PlaceAfterPublishing DEF Workers
    <3> QED BY <1>3, <3>1, <3>2, <3>3, EndedOf
  <2>2. queue'[w] = IF e.type \in Reacts[w] THEN Append(queue[w], e) ELSE queue[w]
    BY <1>1, <1>3 DEF Deliver
  <2> HIDE DEF e
  <2> QED BY <1>1, <2>1, <2>2, QueueStillFits
<1> QED BY <1>2, <1>3

LEMMA PersistFailsQueues ==
  ASSUME TypeOK, OutboxesFit, QueuesFit, NEW p \in Processes, PersistFails(p) PROVE QueuesFit'
<1>1. CASE p = "skill" /\ Head(outbox[p].todo) = SkillCancelled
  BY <1>1, AfterReportedFault, EndedOf, QueueStillFits DEF QueuesFit
<1>2. CASE ~(p = "skill" /\ Head(outbox[p].todo) = SkillCancelled)
  BY <1>2, AfterLethalFault, Constants, EndedOf, QueueStillFits DEF QueuesFit
<1> QED BY <1>1, <1>2

\* A worker moves, with or without taking an event; the others stay.
LEMMA WorkerQueues ==
  ASSUME TypeOK, QueuesFit, NEW w \in Workers,
         \A v \in Workers : v # w => at'[v] = at[v] /\ queue'[v] = queue[v],
         QueueFits(w)'
  PROVE  QueuesFit'
BY EndedOf, QueueStillFits DEF QueuesFit

LEMMA TakeQueues ==
  ASSUME TypeOK, QueuesFit, NEW w \in Workers, NEW e, Take(w, e),
         \A v \in Workers : v # w => at'[v] = at[v],
         IsPause(e) \/ ~Ended(w)'
  PROVE  QueuesFit'
<1>1. QueueFits(w)'
  BY QueueAfterTake, QueueStillFits
<1> QED BY <1>1, QueueAfterTake, WorkerQueues

LEMMA MoveQueues ==
  ASSUME TypeOK, QueuesFit, NEW p \in Processes, NEW place, Move(p, place), UNCHANGED queue,
         place \notin {"done", "crashed"}
  PROVE  QueuesFit'
BY AtAfterMove, Constants, EndedOf, QueueStillFits DEF Move, QueuesFit

LEMMA BreakerStepQueues == ASSUME TypeOK, QueuesFit, NEW e, BreakerStep(e) PROVE QueuesFit'
<1>1. Take("breaker", e) /\ "breaker" \in Workers /\ "breaker" \in Processes
  BY Constants DEF BreakerStep, Workers
<1>2. \/ Move("breaker", "done") /\ IsPause(e)
      \/ Move("breaker", "publishing")
      \/ UNCHANGED at
  BY DEF BreakerStep
<1>3. at["breaker"] = "waiting"
  BY <1>1 DEF Take
<1>4. \A v \in Workers : v # "breaker" => at'[v] = at[v]
  BY <1>1, <1>2, AtAfterMove, Constants DEF Move
<1>5. IsPause(e) \/ ~Ended("breaker")'
  BY <1>1, <1>2, <1>3, AtAfterMove, EndedOf DEF Move
<1> QED BY <1>1, <1>4, <1>5, TakeQueues

LEMMA LlmStepsQueues ==
  ASSUME TypeOK, QueuesFit,
         \/ \E e : LlmTake(e)
         \/ LlmDerive \/ LlmRaises
         \/ \E n \in TurnTokens, reply \in Replies : LlmReturns(n, reply)
  PROVE  QueuesFit'
<1>0. "llm" \in Processes /\ "llm" \in Workers
  BY Constants DEF Workers
<1>1. ASSUME NEW e, LlmTake(e) PROVE QueuesFit'
  <2>1. Take("llm", e) /\ Move("llm", IF IsPause(e) THEN "done" ELSE "deriving")
    BY <1>1 DEF LlmTake
  <2>2. \A v \in Workers : v # "llm" => at'[v] = at[v]
    BY <1>0, <2>1, AtAfterMove, Constants DEF Move
  <2>3. IsPause(e) \/ ~Ended("llm")'
    BY <1>0, <2>1, AtAfterMove, EndedOf DEF Move
  <2> QED BY <1>0, <2>1, <2>2, <2>3, TakeQueues
<1>2. ASSUME NEW place, Move("llm", place), queue' = [queue EXCEPT !["llm"] = <<>>] PROVE QueuesFit'
  <2>1. \A v \in Workers : v # "llm" => at'[v] = at[v] /\ queue'[v] = queue[v]
    BY <1>0, <1>2, AtAfterMove, Constants DEF Move, TypeOK
  <2>2. queue'["llm"] = <<>>
    BY <1>0, <1>2 DEF TypeOK
  <2> QED BY <1>0, <2>1, <2>2, QueueStillFits, WorkerQueues
<1>3. CASE LlmDerive
  BY <1>0, <1>2, <1>3, MoveQueues DEF LlmDerive
<1>4. CASE LlmRaises
  BY <1>2, <1>4 DEF LlmRaises
<1>5. ASSUME NEW n \in TurnTokens, NEW reply \in Replies, LlmReturns(n, reply) PROVE QueuesFit'
  BY <1>0, <1>5, MoveQueues DEF LlmReturns
<1> QED BY <1>1, <1>3, <1>4, <1>5

LEMMA SkillStepsQueues ==
  ASSUME TypeOK, QueuesFit, (\E e : SkillTake(e)) \/ \E st \in SkillStatuses : SkillReturns(st)
  PROVE  QueuesFit'
<1>0. "skill" \in Processes /\ "skill" \in Workers
  BY Constants DEF Workers
<1>1. ASSUME NEW e, SkillTake(e) PROVE QueuesFit'
  <2>1. Take("skill", e) /\ Move("skill", IF IsPause(e) THEN "done" ELSE "running")
    BY <1>1 DEF SkillTake
  <2>2. \A v \in Workers : v # "skill" => at'[v] = at[v]
    BY <1>0, <2>1, AtAfterMove, Constants DEF Move
  <2>3. IsPause(e) \/ ~Ended("skill")'
    BY <1>0, <2>1, AtAfterMove, EndedOf DEF Move
  <2> QED BY <1>0, <2>1, <2>2, <2>3, TakeQueues
<1>2. ASSUME NEW st \in SkillStatuses, SkillReturns(st) PROVE QueuesFit'
  BY <1>0, <1>2, MoveQueues DEF SkillReturns
<1> QED BY <1>1, <1>2

LEMMA DriverStepsQueues ==
  ASSUME TypeOK, QueuesFit, (\E late \in BOOLEAN : Close(late)) \/ GatherReturns
  PROVE  QueuesFit'
BY Constants, MoveQueues DEF Close, GatherReturns

-----------------------------------------------------------------------------
(* The breaker's arithmetic *)

LEMMA PrefixType ==
  ASSUME NEW s \in Seq(Events), NEW k \in 0..Len(s)
  PROVE  Prefix(s, k) \in Seq(Events) /\ Len(Prefix(s, k)) = k
BY DEF Prefix

LEMMA PrefixAll == ASSUME NEW s \in Seq(Events) PROVE Prefix(s, Len(s)) = s
BY DEF Prefix

LEMMA PrefixAppend ==
  ASSUME NEW s \in Seq(Events), NEW e \in Events, NEW k \in 0..Len(s)
  PROVE  Prefix(Append(s, e), k) = Prefix(s, k)
BY DEF Prefix

LEMMA PrefixTail ==
  ASSUME NEW s \in Seq(Events), s # <<>>, NEW k \in 0..Len(Tail(s))
  PROVE  /\ k + 1 \in 0..Len(s) /\ Prefix(s, k + 1) # <<>>
         /\ Head(Prefix(s, k + 1)) = Head(s)
         /\ Tail(Prefix(s, k + 1)) = Prefix(Tail(s), k)
<1>1. Len(Tail(s)) = Len(s) - 1 /\ Len(s) \in Nat /\ Len(s) >= 1 /\ k + 1 \in 1..Len(s)
  OBVIOUS
<1> DEFINE t == Prefix(s, k + 1)
<1>2. t \in Seq(Events) /\ Len(t) = k + 1 /\ \A i \in 1..(k + 1) : t[i] = s[i]
  BY <1>1 DEF Prefix
<1>3. /\ Prefix(Tail(s), k) \in Seq(Events) /\ Len(Prefix(Tail(s), k)) = k
      /\ \A i \in 1..k : Prefix(Tail(s), k)[i] = s[i + 1]
  BY <1>1 DEF Prefix
<1> HIDE DEF t
<1>4. t # <<>> /\ Head(t) = Head(s)
  BY <1>1, <1>2
<1>5. Tail(t) \in Seq(Events) /\ Len(Tail(t)) = k /\ \A i \in 1..k : Tail(t)[i] = s[i + 1]
  BY <1>1, <1>2, <1>4
<1>6. Tail(t) = Prefix(Tail(s), k)
  BY <1>3, <1>5
<1> QED BY <1>1, <1>4, <1>6 DEF t

LEMMA BreakerWaiting ==
  ASSUME TypeOK PROVE (~Ended("breaker") /\ at["breaker"] # "publishing") <=> at["breaker"] = "waiting"
BY PlacesOf, Constants DEF TypeOK, Ended, Workers

\* The invariant is about the breaker while it waits.
LEMMA WaitingBreaker ==
  ASSUME TypeOK
  PROVE  BreakerKeepsUp <=>
           (at["breaker"] = "waiting" =>
              /\ tally.tokens + Tokens(queue["breaker"] \o InFlight("llm")) = Tokens(log)
              /\ Failures(tally.failures, queue["breaker"] \o InFlight("skill")) = Failures(0, log)
              /\ \A k \in 0..Len(queue["breaker"]) :
                    FailuresWere(Failures(tally.failures, Prefix(queue["breaker"], k))))
BY BreakerWaiting DEF BreakerKeepsUp, BreakerCounts, BreakerFollows

LEMMA WaitingBreakerNext ==
  ASSUME TypeOK',
         at'["breaker"] = "waiting" =>
              /\ tally'.tokens + Tokens(queue'["breaker"] \o InFlight("llm")') = Tokens(log')
              /\ Failures(tally'.failures, queue'["breaker"] \o InFlight("skill")') = Failures(0, log')
              /\ \A k \in 0..Len(queue'["breaker"]) :
                    FailuresWere(Failures(tally.failures, Prefix(queue["breaker"], k)))'
  PROVE  BreakerKeepsUp'
<1>1. (~Ended("breaker") /\ at["breaker"] # "publishing")' <=> at'["breaker"] = "waiting"
  BY PlacesOf, Constants DEF TypeOK, Ended, Workers
<1> QED BY <1>1 DEF BreakerKeepsUp, BreakerCounts, BreakerFollows

LEMMA InFlightOf ==
  ASSUME TypeOK, OutboxesFit, NEW p \in Processes
  PROVE  /\ InFlight(p) \in Seq(Events)
         /\ outbox[p].persisted => InFlight(p) = <<Head(outbox[p].todo)>> /\ Head(outbox[p].todo) \in Events
         /\ ~outbox[p].persisted => InFlight(p) = <<>>
BY HeadAndTail DEF InFlight, OutboxesFit, OutboxFits

\* What the breaker's queue and the events in flight add up to.
LEMMA BreakerSums ==
  ASSUME NEW q \in Seq(Events), NEW n \in Nat, NEW e \in Events
  PROVE  /\ Tokens(q \o <<>>) = Tokens(q) /\ Tokens(q \o <<e>>) = Tokens(q) + e.tokens
         /\ Failures(n, q \o <<>>) = Failures(n, q)
         /\ Failures(n, q \o <<e>>) = BreakerCount(Failures(n, q), e)
<1>1. q \o <<>> = q /\ q \o <<e>> = Append(q, e)
  OBVIOUS
<1> QED BY <1>1, TokensAppend, FailuresAppend

LEMMA InitBreaker == Init => BreakerKeepsUp
<1> SUFFICES ASSUME Init PROVE BreakerKeepsUp
  OBVIOUS
<1>1. TypeOK /\ queue["breaker"] = <<>> /\ log = <<>> /\ tally.tokens = 0 /\ tally.failures = 0
  BY InitTypeOK DEF Init, Workers
<1>2. InFlight("llm") = <<>> /\ InFlight("skill") = <<>>
  BY DEF Init, Idle, InFlight, Processes, Workers
<1>3. <<>> \in Seq(Events) /\ <<>> \o <<>> = <<>> /\ Len(<<>>) = 0
  OBVIOUS
<1>4. Tokens(<<>>) = 0 /\ Failures(0, <<>>) = 0
  BY TokensEmpty, FailuresEmpty
<1>5. \A k \in 0..Len(queue["breaker"]) : FailuresWere(Failures(tally.failures, Prefix(queue["breaker"], k)))
  BY <1>1, <1>3, PrefixAll DEF FailuresWere
<1> QED BY <1>1, <1>2, <1>3, <1>4, <1>5, WaitingBreaker

LEMMA BreakerFrame ==
  ASSUME TypeOK, TypeOK', BreakerKeepsUp, UNCHANGED <<log, tally>>,
         \/ /\ at'["breaker"] = at["breaker"] /\ queue'["breaker"] = queue["breaker"]
            /\ InFlight("llm")' = InFlight("llm") /\ InFlight("skill")' = InFlight("skill")
         \/ at'["breaker"] # "waiting"
  PROVE  BreakerKeepsUp'
<1>1. CASE at'["breaker"] # "waiting"
  BY <1>1 DEF BreakerKeepsUp, BreakerCounts, BreakerFollows, Ended, TypeOK, Processes, Workers, Places
<1>2. CASE /\ at'["breaker"] = at["breaker"] /\ queue'["breaker"] = queue["breaker"]
           /\ InFlight("llm")' = InFlight("llm") /\ InFlight("skill")' = InFlight("skill")
  BY <1>2 DEF BreakerKeepsUp, BreakerCounts, BreakerFollows, Ended, FailuresWere
<1> QED BY <1>1, <1>2

\* The breaker's queue, its counters and the log, as sequences and numbers.
LEMMA BreakerTypes ==
  ASSUME TypeOK
  PROVE  /\ queue["breaker"] \in Seq(Events) /\ log \in Seq(Events)
         /\ tally.tokens \in Nat /\ tally.failures \in Nat
BY DEF TypeOK, Workers

\* Only the model worker publishes tokens, only the skill worker results.
LEMMA WhoPublishes ==
  ASSUME TypeOK, OutboxesFit, NEW p \in Processes, outbox[p].todo # <<>>
  PROVE  /\ p # "llm" => Head(outbox[p].todo).tokens = 0
         /\ p # "skill" => Head(outbox[p].todo).type # "SkillCompleted"
         /\ p # "llm" => Head(outbox[p].todo).type \notin {"LLMActionEmitted", "LLMTextEmitted", "SkillRequested"}
         /\ Head(outbox[p].todo).type = "AgentInputAdded" => p = "driver" /\ at[p] = "publishing"
         /\ ~IsTool(Head(outbox[p].todo))
<1> USE DEF IsTool
<1>1. Head(outbox[p].todo) \in Events
  BY HeadAndTail
<1> DEFINE e == Head(outbox[p].todo)
<1>2. CASE p = "breaker"
  <2>1. e.type = "StreamPaused"
    BY <1>2, BreakerPublishes, TypeOfEvent
  <2> QED BY <1>1, <1>2, <2>1, TokensOfEvent
<1>3. CASE p = "llm"
  <2>1. e.type \in {"LLMActionEmitted", "SkillRequested", "LLMTextEmitted"}
    BY <1>3, LlmPublishes, TypeOfEvent
  <2> QED BY <1>3, <2>1
<1>4. CASE p = "skill"
  <2>1. e.type \in {"SkillCancelled", "SkillCompleted"}
    BY <1>4, SkillPublishes, TypeOfEvent
  <2> QED BY <1>1, <1>4, <2>1, TokensOfEvent
<1>5. CASE p = "driver"
  <2>1. \/ at[p] = "publishing" /\ e.type = "AgentInputAdded"
        \/ e.type = "StreamPaused"
    BY <1>5, DriverPublishes, TypeOfEvent
  <2> QED BY <1>1, <1>5, <2>1, TokensOfEvent
<1> QED BY <1>2, <1>3, <1>4, <1>5 DEF Processes, Workers

LEMMA FailuresWereKept ==
  ASSUME log \in Seq(Events), NEW e \in Events, log' = Append(log, e), NEW n, FailuresWere(n)
  PROVE  FailuresWere(n)'
<1>1. PICK j \in 0..Len(log) : n = Failures(0, Prefix(log, j))
  BY DEF FailuresWere
<1>2. j \in 0..Len(log') /\ Prefix(log', j) = Prefix(log, j)
  BY PrefixAppend
<1> QED BY <1>1, <1>2 DEF FailuresWere

LEMMA PersistBreaker ==
  ASSUME TypeOK, OutboxesFit, BreakerKeepsUp, NEW p \in Processes, Persist(p) PROVE BreakerKeepsUp'
<1> DEFINE e == Head(outbox[p].todo)
           q == queue["breaker"]
<1>0. TypeOK' /\ OutboxesFit'
  BY PersistType, PersistFits
<1> SUFFICES ASSUME at["breaker"] = "waiting"
             PROVE  /\ tally.tokens + Tokens(q \o InFlight("llm")') = Tokens(log')
                    /\ Failures(tally.failures, q \o InFlight("skill")') = Failures(0, log')
                    /\ \A k \in 0..Len(q) : FailuresWere(Failures(tally.failures, Prefix(q, k)))'
  <2>1. UNCHANGED <<at, queue, tally>>
    BY DEF Persist
  <2> QED BY <1>0, <2>1, WaitingBreakerNext
<1>1. /\ outbox[p].todo # <<>> /\ ~outbox[p].persisted /\ e \in Events /\ log' = Append(log, e)
      /\ outbox'[p].persisted /\ outbox'[p].todo = outbox[p].todo
  BY AfterPersist
<1>2. q \in Seq(Events) /\ log \in Seq(Events) /\ tally.tokens \in Nat /\ tally.failures \in Nat
  BY BreakerTypes
<1>3. /\ tally.tokens + Tokens(q \o InFlight("llm")) = Tokens(log)
      /\ Failures(tally.failures, q \o InFlight("skill")) = Failures(0, log)
      /\ \A k \in 0..Len(q) : FailuresWere(Failures(tally.failures, Prefix(q, k)))
  BY WaitingBreaker
<1>4. InFlight(p) = <<>> /\ InFlight(p)' = <<e>>
  BY <1>1 DEF InFlight
<1>5. \A r \in Processes : r # p => InFlight(r)' = InFlight(r)
  BY AfterPersist DEF InFlight
<1>6. "llm" \in Processes /\ "skill" \in Processes
  BY Constants DEF Workers
<1>7. (p # "llm" => e.tokens = 0) /\ (p # "skill" => e.type # "SkillCompleted")
  BY <1>1, WhoPublishes
<1>a. Tokens(log') = Tokens(log) + e.tokens /\ Tokens(log) \in Nat /\ e.tokens \in Nat
  BY <1>1, <1>2, TokensAppend, TokensType, TokensOfEvent
<1>b. Failures(0, log') = BreakerCount(Failures(0, log), e) /\ Failures(0, log) \in Nat
  BY <1>1, <1>2, FailuresAppend, FailuresType
<1>8. /\ Tokens(log') = Tokens(log) + e.tokens /\ Tokens(log) \in Nat /\ e.tokens \in Nat
      /\ Failures(0, log') = BreakerCount(Failures(0, log), e) /\ Failures(0, log) \in Nat
  BY <1>a, <1>b
<1> HIDE DEF e, q
<1>9. tally.tokens + Tokens(q \o InFlight("llm")') = Tokens(log')
  <2>1. CASE p = "llm"
    <3>1. Tokens(q \o <<>>) = Tokens(q) /\ Tokens(q \o <<e>>) = Tokens(q) + e.tokens /\ Tokens(q) \in Nat
      BY <1>1, <1>2, BreakerSums, TokensType
    <3>2. InFlight("llm")' = <<e>> /\ InFlight("llm") = <<>>
      BY <1>4, <2>1
    <3>3. tally.tokens + Tokens(q) = Tokens(log)
      BY <1>3, <3>1, <3>2
    <3> QED BY <1>2, <1>8, <3>1, <3>2, <3>3
  <2>2. CASE p # "llm"
    BY <1>3, <1>5, <1>6, <1>7, <1>8, <2>2
  <2> QED BY <2>1, <2>2
<1>10. Failures(tally.failures, q \o InFlight("skill")') = Failures(0, log')
  <2>1. CASE p = "skill"
    <3>1. /\ Failures(tally.failures, q \o <<>>) = Failures(tally.failures, q)
          /\ Failures(tally.failures, q \o <<e>>) = BreakerCount(Failures(tally.failures, q), e)
      BY <1>1, <1>2, BreakerSums
    <3> QED BY <1>3, <1>4, <1>8, <2>1, <3>1
  <2>2. CASE p # "skill"
    <3>1. BreakerCount(Failures(0, log), e) = Failures(0, log)
      BY <1>1, <1>7, <1>8, <2>2, CountFailureType
    <3> QED BY <1>3, <1>5, <1>6, <1>8, <2>2, <3>1
  <2> QED BY <2>1, <2>2
<1>11. \A k \in 0..Len(q) : FailuresWere(Failures(tally.failures, Prefix(q, k)))'
  <2> SUFFICES ASSUME NEW k \in 0..Len(q) PROVE FailuresWere(Failures(tally.failures, Prefix(q, k)))'
    OBVIOUS
  <2> DEFINE n == Failures(tally.failures, Prefix(q, k))
  <2>1. FailuresWere(n)
    BY <1>3
  <2>2. UNCHANGED n
    BY DEF Persist, q
  <2> HIDE DEF n
  <2>3. FailuresWere(n)'
    BY <1>1, <1>2, <2>1, <2>2, FailuresWereKept
  <2> QED BY <2>3 DEF n
<1> QED BY <1>9, <1>10, <1>11

\* Dispatching moves an event from the publisher's hands into the queue.
LEMMA DispatchBreaker ==
  ASSUME TypeOK, OutboxesFit, BreakerKeepsUp, NEW p \in Processes, Dispatch(p) PROVE BreakerKeepsUp'
<1> DEFINE e == Head(outbox[p].todo)
           q == queue["breaker"]
           n == tally.tokens
           f == tally.failures
<1>0. TypeOK' /\ UNCHANGED <<log, tally>>
  BY DispatchType DEF Dispatch
<1>a. "breaker" \in Processes /\ "breaker" \in Workers
  BY Constants DEF Workers
<1>b. /\ outbox[p].todo # <<>> /\ outbox[p].persisted /\ e \in Events
      /\ outbox'[p] = [todo |-> Tail(outbox[p].todo), persisted |-> FALSE]
      /\ queue'["breaker"] = IF Ended("breaker") \/ ("breaker" = p /\ p = "breaker") THEN <<>> ELSE Deliver("breaker", e)
      /\ \A r \in Processes : r # p => outbox'[r] = outbox[r] /\ at'[r] = at[r]
  BY <1>a, AfterDispatch
<1>1. /\ outbox[p].todo # <<>> /\ outbox[p].persisted /\ e \in Events /\ outbox'[p].persisted = FALSE
      /\ queue'["breaker"] = IF Ended("breaker") \/ p = "breaker" THEN <<>> ELSE Deliver("breaker", e)
      /\ \A r \in Processes : r # p => InFlight(r)' = InFlight(r)
      /\ p # "breaker" => at'["breaker"] = at["breaker"]
  BY <1>a, <1>b DEF InFlight
<1>2. q \in Seq(Events) /\ log \in Seq(Events) /\ n \in Nat /\ f \in Nat
  BY BreakerTypes
<1>3. "llm" \in Processes /\ "skill" \in Processes
  BY Constants DEF Workers
<1>4. InFlight("llm") \in Seq(Events) /\ InFlight("skill") \in Seq(Events) /\ InFlight(p) = <<e>> /\ InFlight(p)' = <<>>
  BY <1>1, <1>3, InFlightOf DEF InFlight
<1>5. (p # "llm" => e.tokens = 0) /\ (p # "skill" => e.type # "SkillCompleted")
  BY <1>1, WhoPublishes
<1>6. CASE p = "breaker"
  <2>1. at'["breaker"] = "done"
    BY <1>1, <1>6, AfterDispatch, BreakerPublishes, PlaceAfterPublishing
  <2> QED BY <1>0, <2>1, BreakerFrame
<1>7. CASE at["breaker"] # "waiting" /\ p # "breaker"
  BY <1>0, <1>1, <1>7, BreakerFrame
<1>8. CASE at["breaker"] = "waiting" /\ p # "breaker"
  <2>1. queue'["breaker"] = IF e.type \in Reacts["breaker"] THEN Append(q, e) ELSE q
    BY <1>1, <1>8 DEF Ended, Deliver
  <2>2. /\ n + Tokens(q \o InFlight("llm")) = Tokens(log)
        /\ Failures(f, q \o InFlight("skill")) = Failures(0, log)
        /\ \A k \in 0..Len(q) : FailuresWere(Failures(f, Prefix(q, k)))
    BY <1>8, WaitingBreaker
  <2> DEFINE r == queue'["breaker"]
  <2>3. r \in Seq(Events) /\ Tokens(r) = Tokens(q) + e.tokens /\ Failures(f, r) = BreakerCount(Failures(f, q), e)
    <3>1. CASE e.type \in Reacts["breaker"]
      <4>1. r = Append(q, e) /\ e \in Events
        BY <1>1, <2>1, <3>1
      <4> HIDE DEF e, q, r, f
      <4> QED BY <1>2, <4>1, TokensAppend, FailuresAppend
    <3>2. CASE e.type \notin Reacts["breaker"]
      <4>1. e.tokens = 0 /\ e.type # "SkillCompleted" /\ r = q
        BY <1>1, <2>1, <3>2, TokensOfEvent DEF Reacts
      <4>2. Tokens(q) \in Nat /\ Failures(f, q) \in Nat
        BY <1>2, TokensType, FailuresType
      <4>3. BreakerCount(Failures(f, q), e) = Failures(f, q)
        BY <1>1, <4>1, <4>2, CountFailureType
      <4> HIDE DEF e, q, r, f
      <4> QED BY <1>2, <4>1, <4>2, <4>3
    <3> QED BY <3>1, <3>2
  <2>4. /\ Tokens(q) \in Nat /\ e.tokens \in Nat /\ Failures(f, q) \in Nat
        /\ p # "skill" => BreakerCount(Failures(f, q), e) = Failures(f, q)
    BY <1>1, <1>2, <1>5, TokensType, TokensOfEvent, FailuresType, CountFailureType
  <2>5. /\ \A s \in Seq(Events) : s \o <<>> = s /\ s \o <<e>> = Append(s, e)
        /\ Tokens(q \o <<e>>) = Tokens(q) + e.tokens
        /\ Failures(f, q \o <<e>>) = BreakerCount(Failures(f, q), e)
    <3>1. \A s \in Seq(Events) : s \o <<>> = s /\ s \o <<e>> = Append(s, e)
      BY <1>1
    <3> QED BY <1>1, <1>2, <3>1, BreakerSums
  <2> HIDE DEF e, q, n, f, r
  <2>6. n + Tokens(r \o InFlight("llm")') = Tokens(log)
    <3>1. CASE p = "llm"
      BY <1>4, <2>2, <2>3, <2>5, <3>1
    <3>2. CASE p # "llm"
      <4>1. InFlight("llm")' = InFlight("llm") /\ Tokens(r) = Tokens(q)
        BY <1>1, <1>3, <1>5, <2>3, <2>4, <3>2
      <4>2. Tokens(r \o InFlight("llm")) = Tokens(q \o InFlight("llm"))
        BY <1>2, <1>4, <2>3, <4>1, TokensConcat
      <4> QED BY <2>2, <4>1, <4>2
    <3> QED BY <3>1, <3>2
  <2>7. Failures(f, r \o InFlight("skill")') = Failures(0, log)
    <3>1. CASE p = "skill"
      BY <1>4, <2>2, <2>3, <2>5, <3>1
    <3>2. CASE p # "skill"
      <4>1. InFlight("skill")' = InFlight("skill") /\ Failures(f, r) = Failures(f, q)
        BY <1>1, <1>3, <2>3, <2>4, <3>2
      <4>2. Failures(f, r \o InFlight("skill")) = Failures(f, q \o InFlight("skill"))
        BY <1>2, <1>4, <2>3, <4>1, FailuresConcat
      <4> QED BY <2>2, <4>1, <4>2
    <3> QED BY <3>1, <3>2
  <2>8. ASSUME NEW k \in 0..Len(r) PROVE FailuresWere(Failures(f, Prefix(r, k)))
    <3>1. CASE k \in 0..Len(q)
      BY <1>1, <1>2, <2>1, <2>2, <3>1, PrefixAppend DEF r, q
    <3>2. CASE k \notin 0..Len(q)
      <4>1. k = Len(r)
        BY <1>2, <2>1, <3>2 DEF r, q
      <4>2. Failures(f, Prefix(r, k)) = BreakerCount(Failures(f, q), e)
        BY <2>3, <4>1, PrefixAll
      <4>3. CASE p = "skill"
        <5>1. Failures(f, Prefix(r, k)) = Failures(0, log)
          BY <1>4, <2>2, <2>5, <4>2, <4>3
        <5>2. Len(log) \in 0..Len(log) /\ Prefix(log, Len(log)) = log
          BY <1>2, PrefixAll
        <5> QED BY <5>1, <5>2 DEF FailuresWere
      <4>4. CASE p # "skill"
        <5>1. Failures(f, Prefix(r, k)) = Failures(f, Prefix(q, Len(q)))
          BY <1>2, <2>4, <4>2, <4>4, PrefixAll
        <5>2. Len(q) \in 0..Len(q)
          BY <1>2
        <5> QED BY <2>2, <5>1, <5>2
      <4> QED BY <4>3, <4>4
    <3> QED BY <3>1, <3>2
  <2>9. \A k \in 0..Len(r) : FailuresWere(Failures(tally.failures, Prefix(queue["breaker"], k)))'
    BY <1>0, <2>8 DEF FailuresWere, r, f
  <2> QED BY <1>0, <2>6, <2>7, <2>9, WaitingBreakerNext DEF n, f, r
<1> QED BY <1>6, <1>7, <1>8

\* What the breaker finds when it takes an event: its counters cover the log.
LEMMA BreakerStepBreaker ==
  ASSUME TypeOK, TypeOK', OutboxesFit, BreakerKeepsUp, NEW e, BreakerStep(e) PROVE BreakerKeepsUp'
<1> DEFINE q == queue["breaker"]
           n == tally.tokens
           f == tally.failures
<1>1. /\ Take("breaker", e) /\ UNCHANGED log /\ "breaker" \in Workers /\ "breaker" \in Processes
      /\ "llm" \in Processes /\ "skill" \in Processes
  BY Constants DEF BreakerStep, Workers
<1>2. /\ q \in Seq(Events) /\ q # <<>> /\ e = Head(q) /\ e \in Events /\ at["breaker"] = "waiting"
      /\ queue'["breaker"] = IF IsPause(e) THEN <<>> ELSE Tail(q)
  BY <1>1, QueueAfterTake, BreakerTypes
<1>3. CASE at'["breaker"] # "waiting"
  BY <1>3, WaitingBreakerNext
<1>4. CASE at'["breaker"] = "waiting"
  <2>1. ~IsPause(e) /\ tally' = [tokens |-> n + e.tokens, failures |-> BreakerCount(f, e)] /\ UNCHANGED outbox
    <3>1. ~Move("breaker", "done") /\ ~Move("breaker", "publishing")
      BY <1>1, <1>4, AtAfterMove DEF Move
    <3> QED BY <3>1 DEF BreakerStep
  <2>2. InFlight("llm")' = InFlight("llm") /\ InFlight("skill")' = InFlight("skill")
    BY <2>1 DEF InFlight
  <2>3. /\ n + Tokens(q \o InFlight("llm")) = Tokens(log)
        /\ Failures(f, q \o InFlight("skill")) = Failures(0, log)
        /\ \A k \in 0..Len(q) : FailuresWere(Failures(f, Prefix(q, k)))
    BY <1>2, WaitingBreaker
  <2>4. InFlight("llm") \in Seq(Events) /\ InFlight("skill") \in Seq(Events) /\ n \in Nat /\ f \in Nat
    BY <1>1, InFlightOf, BreakerTypes
  <2>5. queue'["breaker"] = Tail(q) /\ tally'.tokens = n + e.tokens /\ tally'.failures = BreakerCount(f, e)
    BY <1>2, <2>1
  <2>6. e.tokens \in Nat /\ BreakerCount(f, e) \in Nat /\ Tail(q) \in Seq(Events)
    <3>1. Tail(q) \in Seq(Events)
      BY <1>2
    <3> QED BY <1>2, <2>4, <3>1, TokensOfEvent, CountFailureType
  <2> HIDE DEF q, n, f
  <2>7. ASSUME NEW x \in Seq(Events)
        PROVE  /\ Tokens(q \o x) = e.tokens + Tokens(Tail(q) \o x) /\ Tokens(Tail(q) \o x) \in Nat
               /\ Failures(f, q \o x) = Failures(BreakerCount(f, e), Tail(q) \o x)
    <3>1. Tokens(q) = e.tokens + Tokens(Tail(q)) /\ Failures(f, q) = Failures(BreakerCount(f, e), Tail(q))
      BY <1>2, <2>4, TokensTail, FailuresTail
    <3>2. Tokens(q \o x) = Tokens(q) + Tokens(x) /\ Tokens(Tail(q) \o x) = Tokens(Tail(q)) + Tokens(x)
      BY <1>2, <2>6, TokensConcat
    <3>3. /\ Failures(f, q \o x) = Failures(Failures(f, q), x)
          /\ Failures(BreakerCount(f, e), Tail(q) \o x) = Failures(Failures(BreakerCount(f, e), Tail(q)), x)
      BY <1>2, <2>4, <2>6, FailuresConcat
    <3>4. Tokens(x) \in Nat /\ Tokens(Tail(q)) \in Nat
      BY <2>6, TokensType
    <3> QED BY <2>6, <3>1, <3>2, <3>3, <3>4
  <2>8. tally'.tokens + Tokens(queue'["breaker"] \o InFlight("llm")') = Tokens(log')
    <3>1. Tokens(q \o InFlight("llm")) = e.tokens + Tokens(Tail(q) \o InFlight("llm")) /\ Tokens(Tail(q) \o InFlight("llm")) \in Nat
      BY <2>4, <2>7
    <3>2. n + e.tokens + Tokens(Tail(q) \o InFlight("llm")) = Tokens(log)
      BY <2>3, <2>4, <2>6, <3>1
    <3> QED BY <1>1, <2>2, <2>5, <3>2
  <2>9. Failures(tally'.failures, queue'["breaker"] \o InFlight("skill")') = Failures(0, log')
    BY <1>1, <2>2, <2>3, <2>4, <2>5, <2>7
  <2>10. ASSUME NEW k \in 0..Len(Tail(q)) PROVE FailuresWere(Failures(BreakerCount(f, e), Prefix(Tail(q), k)))
    <3>1. /\ k + 1 \in 0..Len(q) /\ Prefix(q, k + 1) # <<>> /\ Head(Prefix(q, k + 1)) = e
          /\ Tail(Prefix(q, k + 1)) = Prefix(Tail(q), k)
      BY <1>2, PrefixTail
    <3>2. Prefix(q, k + 1) \in Seq(Events)
      BY <1>2, <3>1, PrefixType
    <3>3. Failures(f, Prefix(q, k + 1)) = Failures(BreakerCount(f, e), Prefix(Tail(q), k))
      BY <2>4, <3>1, <3>2, FailuresTail
    <3>4. FailuresWere(Failures(f, Prefix(q, k + 1)))
      BY <2>3, <3>1
    <3> QED BY <3>3, <3>4
  <2>11. \A k \in 0..Len(queue'["breaker"]) : FailuresWere(Failures(tally.failures, Prefix(queue["breaker"], k)))'
    BY <1>1, <2>5, <2>10 DEF FailuresWere
  <2> QED BY <2>8, <2>9, <2>11, WaitingBreakerNext
<1> QED BY <1>3, <1>4

\* The other steps: nothing the breaker has to count changes hands.
LEMMA OtherStepsBreaker ==
  ASSUME TypeOK, TypeOK', OutboxesFit, OutboxesFit', BreakerKeepsUp,
         \/ \E e : LlmTake(e)
         \/ LlmDerive \/ LlmRaises
         \/ \E n \in TurnTokens, reply \in Replies : LlmReturns(n, reply)
         \/ \E e : SkillTake(e)
         \/ \E st \in SkillStatuses : SkillReturns(st)
         \/ \E late \in BOOLEAN : Close(late)
         \/ GatherReturns
  PROVE  BreakerKeepsUp'
<1>0. "breaker" \in Workers /\ "llm" \in Workers /\ "skill" \in Workers /\ \A w \in Workers : w \in Processes
  BY Constants DEF Workers
<1>1. ASSUME NEW w \in Workers, w # "breaker", NEW e, Take(w, e), NEW place, Move(w, place), UNCHANGED <<log, outbox, tally>>
      PROVE  BreakerKeepsUp'
  <2>1. at'["breaker"] = at["breaker"] /\ queue'["breaker"] = queue["breaker"]
    BY <1>0, <1>1, AtAfterMove, QueueAfterTake DEF Move
  <2> QED BY <1>1, <2>1, BreakerFrame DEF InFlight
<1>2. ASSUME NEW p \in Processes, p # "breaker", NEW place, Move(p, place), queue'["breaker"] = queue["breaker"],
             UNCHANGED <<log, tally>>,
             outbox' = outbox \/ (at[p] \notin {"publishing", "closing"} /\ \E es : Publishes(p, es))
      PROVE  BreakerKeepsUp'
  <2>1. at'["breaker"] = at["breaker"]
    BY <1>0, <1>2, AtAfterMove DEF Move
  <2>2. InFlight("llm")' = InFlight("llm") /\ InFlight("skill")' = InFlight("skill")
    <3>1. CASE outbox' = outbox
      BY <3>1 DEF InFlight
    <3>2. CASE at[p] \notin {"publishing", "closing"} /\ \E es : Publishes(p, es)
      <4>1. ~outbox[p].persisted /\ ~outbox'[p].persisted
        BY <3>2 DEF OutboxesFit, OutboxFits, Publishes, TypeOK
      <4>2. \A r \in Processes : r # p => outbox'[r] = outbox[r]
        BY <3>2 DEF Publishes, TypeOK
      <4>3. \A r \in Processes : InFlight(r)' = InFlight(r)
        BY <4>1, <4>2 DEF InFlight
      <4> QED BY <1>0, <4>3
    <3> QED BY <1>2, <3>1, <3>2
  <2> QED BY <1>2, <2>1, <2>2, BreakerFrame
<1>3. ASSUME NEW e, LlmTake(e) PROVE BreakerKeepsUp'
  BY <1>0, <1>1, <1>3 DEF LlmTake
<1>4. CASE LlmDerive
  BY <1>0, <1>2, <1>4 DEF LlmDerive, TypeOK
<1>5. CASE LlmRaises
  BY <1>0, <1>2, <1>5 DEF LlmRaises, TypeOK
<1>6. ASSUME NEW n \in TurnTokens, NEW reply \in Replies, LlmReturns(n, reply) PROVE BreakerKeepsUp'
  BY <1>0, <1>2, <1>6 DEF LlmReturns
<1>7. ASSUME NEW e, SkillTake(e) PROVE BreakerKeepsUp'
  BY <1>0, <1>1, <1>7 DEF SkillTake
<1>8. ASSUME NEW st \in SkillStatuses, SkillReturns(st) PROVE BreakerKeepsUp'
  BY <1>0, <1>2, <1>8 DEF SkillReturns
<1>9. ASSUME NEW late \in BOOLEAN, Close(late) PROVE BreakerKeepsUp'
  BY <1>2, <1>9, Constants DEF Close, Workers
<1>10. CASE GatherReturns
  BY <1>2, <1>10, Constants DEF GatherReturns, Workers
<1> QED BY <1>3, <1>4, <1>5, <1>6, <1>7, <1>8, <1>9, <1>10

LEMMA PersistFailsBreaker ==
  ASSUME TypeOK, TypeOK', OutboxesFit, OutboxesFit', BreakerKeepsUp, NEW p \in Processes, PersistFails(p)
  PROVE  BreakerKeepsUp'
<1>0. "breaker" \in Workers /\ "llm" \in Processes /\ "skill" \in Processes /\ "breaker" \in Processes
  BY Constants DEF Workers
<1>1. UNCHANGED <<log, tally>> /\ ~outbox[p].persisted
  BY DEF PersistFails
<1>2. \E es : Publishes(p, es)
  BY DEF PersistFails
<1>3. \A r \in Processes : InFlight(r)' = InFlight(r)
  <2>1. ~outbox'[p].persisted /\ \A r \in Processes : r # p => outbox'[r] = outbox[r]
    BY <1>1, <1>2 DEF Publishes, TypeOK
  <2> QED BY <1>1, <2>1 DEF InFlight
<1>4. CASE p = "skill" /\ Head(outbox[p].todo) = SkillCancelled
  BY <1>0, <1>1, <1>3, <1>4, AfterReportedFault, BreakerFrame
<1>5. CASE ~(p = "skill" /\ Head(outbox[p].todo) = SkillCancelled)
  <2>1. CASE p = "breaker"
    BY <1>1, <1>5, <2>1, AfterLethalFault, BreakerFrame
  <2>2. CASE p # "breaker"
    <3>1. at'["breaker"] = at["breaker"] /\ queue'["breaker"] = queue["breaker"]
      BY <1>0, <1>5, <2>2, AfterLethalFault
    <3> QED BY <1>0, <1>1, <1>3, <3>1, BreakerFrame
  <2> QED BY <2>1, <2>2
<1> QED BY <1>4, <1>5

-----------------------------------------------------------------------------
(* The steps a process takes on its own, between two events it publishes *)

OwnStep(p) ==
    \/ p = "breaker" /\ \E e : BreakerStep(e)
    \/ p = "llm" /\ \/ \E e : LlmTake(e)
                    \/ LlmDerive \/ LlmRaises
                    \/ \E n \in TurnTokens, reply \in Replies : LlmReturns(n, reply)
    \/ p = "skill" /\ ((\E e : SkillTake(e)) \/ \E st \in SkillStatuses : SkillReturns(st))
    \/ p = "driver" /\ ((\E late \in BOOLEAN : Close(late)) \/ GatherReturns)

\* Every action, by who takes it.
StepOf(p) == OwnStep(p) \/ Persist(p) \/ Dispatch(p) \/ PersistFails(p)

\* The one action that writes to the log past the bus.
ToolStep == \E lost \in BOOLEAN : ToolStarts(lost) \/ \E st \in ToolStatuses : ToolEnds(st, lost)

LEMMA NextIsStep == ASSUME Next PROVE ToolStep \/ \E p \in Processes : StepOf(p)
<1>1. CASE Fault
  BY <1>1 DEF StepOf, ToolStep, ToolCalls, Fault, OwnStep, Processes, Workers
<1>2. CASE \E p \in Processes : Step(p)
  <2>1. PICK p \in Processes : Step(p)
    BY <1>2
  <2>2. CASE Publish(p)
    BY <2>2 DEF StepOf, Publish
  <2>3. CASE p = "breaker" /\ Breaker
    BY <2>3 DEF StepOf, OwnStep, Breaker
  <2>4. CASE p = "llm" /\ Llm
    BY <2>4 DEF StepOf, OwnStep, Llm, ToolCalls, ToolStep
  <2>5. CASE p = "skill" /\ Skill
    BY <2>5 DEF StepOf, OwnStep, Skill
  <2>6. CASE p = "driver" /\ Driver
    BY <2>6 DEF StepOf, OwnStep, Driver
  <2> QED BY <2>1, <2>2, <2>3, <2>4, <2>5, <2>6 DEF Step
<1> QED BY <1>1, <1>2 DEF Next

\* Such a step writes nothing, and leaves the others where they are.
LEMMA OwnStepAlone ==
  ASSUME TypeOK, NEW p \in Processes, OwnStep(p)
  PROVE  /\ log' = log /\ output' = output
         /\ at[p] \notin {"publishing", "closing"}
         /\ \A q \in Processes : q # p => at'[q] = at[q] /\ outbox'[q] = outbox[q]
         /\ \A w \in Workers : w # p => queue'[w] = queue[w]
<1>1. ASSUME NEW w \in Workers, w = p, NEW e, Take(w, e), NEW place, Move(w, place), UNCHANGED <<log, outbox, output>>
      PROVE  /\ log' = log /\ output' = output /\ at[p] \notin {"publishing", "closing"}
             /\ \A q \in Processes : q # p => at'[q] = at[q] /\ outbox'[q] = outbox[q]
             /\ \A v \in Workers : v # p => queue'[v] = queue[v]
  BY <1>1, AtAfterMove, QueueAfterTake DEF Move
<1>2. ASSUME NEW place, Move(p, place), UNCHANGED <<log, output>>, at[p] \notin {"publishing", "closing"},
             outbox' = outbox \/ \E es : Publishes(p, es),
             queue' = queue \/ queue' = [queue EXCEPT ![p] = <<>>]
      PROVE  /\ log' = log /\ output' = output /\ at[p] \notin {"publishing", "closing"}
             /\ \A q \in Processes : q # p => at'[q] = at[q] /\ outbox'[q] = outbox[q]
             /\ \A v \in Workers : v # p => queue'[v] = queue[v]
  <2>1. \A q \in Processes : q # p => outbox'[q] = outbox[q]
    BY <1>2 DEF Publishes, TypeOK
  <2>2. \A v \in Workers : v # p => queue'[v] = queue[v]
    BY <1>2 DEF TypeOK
  <2>3. \A q \in Processes : q # p => at'[q] = at[q]
    BY <1>2, AtAfterMove DEF Move
  <2> QED BY <1>2, <2>1, <2>2, <2>3
<1>3. ASSUME p = "breaker", NEW e, BreakerStep(e)
      PROVE  /\ log' = log /\ output' = output /\ at[p] \notin {"publishing", "closing"}
             /\ \A q \in Processes : q # p => at'[q] = at[q] /\ outbox'[q] = outbox[q]
             /\ \A v \in Workers : v # p => queue'[v] = queue[v]
  <2>1. Take("breaker", e) /\ UNCHANGED <<log, output>> /\ "breaker" \in Workers
    BY <1>3 DEF BreakerStep, Workers
  <2>2. at["breaker"] = "waiting" /\ \A v \in Workers : v # p => queue'[v] = queue[v]
    BY <1>3, <2>1, QueueAfterTake
  <2>3. at' = at \/ \E place : Move("breaker", place)
    BY <1>3 DEF BreakerStep
  <2>4. outbox' = outbox \/ \E es : Publishes("breaker", es)
    BY <1>3 DEF BreakerStep
  <2>5. \A q \in Processes : q # p => at'[q] = at[q]
    BY <1>3, <2>3, AtAfterMove DEF Move
  <2>6. \A q \in Processes : q # p => outbox'[q] = outbox[q]
    BY <1>3, <2>4 DEF Publishes, TypeOK
  <2> QED BY <1>3, <2>1, <2>2, <2>5, <2>6
<1>4. ASSUME p = "llm", NEW e, LlmTake(e) PROVE Take("llm", e) /\ (\E place : Move("llm", place)) /\ UNCHANGED <<log, outbox, output>>
  BY <1>4 DEF LlmTake
<1>5. ASSUME p = "skill", NEW e, SkillTake(e) PROVE Take("skill", e) /\ (\E place : Move("skill", place)) /\ UNCHANGED <<log, outbox, output>>
  BY <1>5 DEF SkillTake
<1>6. CASE p = "breaker" /\ \E e : BreakerStep(e)
  BY <1>3, <1>6
<1>7. CASE p = "llm" /\ \E e : LlmTake(e)
  BY <1>1, <1>4, <1>7 DEF Workers
<1>8. CASE p = "skill" /\ \E e : SkillTake(e)
  BY <1>1, <1>5, <1>8 DEF Workers
<1>9. CASE \/ p = "llm" /\ \/ LlmDerive \/ LlmRaises
                           \/ \E n \in TurnTokens, reply \in Replies : LlmReturns(n, reply)
           \/ p = "skill" /\ \E st \in SkillStatuses : SkillReturns(st)
           \/ p = "driver" /\ ((\E late \in BOOLEAN : Close(late)) \/ GatherReturns)
  <2>1. /\ \E place : Move(p, place)
        /\ UNCHANGED <<log, output>> /\ at[p] \notin {"publishing", "closing"}
        /\ outbox' = outbox \/ \E es : Publishes(p, es)
        /\ queue' = queue \/ queue' = [queue EXCEPT ![p] = <<>>]
    BY <1>9 DEF LlmDerive, LlmRaises, LlmReturns, SkillReturns, Close, GatherReturns
  <2> QED BY <1>2, <2>1
<1> QED BY <1>6, <1>7, <1>8, <1>9 DEF OwnStep

\* What a process that does not publish has to say: nothing.
LEMMA NothingWritten ==
  ASSUME TypeOK, OutboxesFit, NEW p \in Processes, at[p] \notin {"publishing", "closing"}
  PROVE  outbox[p].todo = <<>> /\ ~outbox[p].persisted /\ \A type : ~Written(p, type) /\ ~Unwritten(p, type)
BY DEF OutboxesFit, OutboxFits, Written, Unwritten, Holding

-----------------------------------------------------------------------------
(* The breaker's pause *)



\* The log l holds no breach pause that the log before it does not call for.
Called(l) ==
    \A i \in DOMAIN l : LET before == SubSeq(l, 1, i - 1) IN
       /\ l[i] = Paused("budget_exhausted") => Tokens(before) > MaxTokens
       /\ l[i] = Paused("consecutive_failures") => \E j \in 1..(i - 1) : Failures(0, SubSeq(l, 1, j)) > MaxRetries

LEMMA PauseJustifiedIs ==
  /\ PauseJustified <=> Called(log) /\ Cardinality(BreachLogged) <= 1
  /\ PauseJustified' <=> Called(log') /\ Cardinality(BreachLogged') <= 1
<1>1. {Paused(r) : r \in Breaches} = {Paused("budget_exhausted"), Paused("consecutive_failures")}
  BY DEF Breaches
<1> QED BY <1>1 DEF PauseJustified, Called, BreachLogged

LEMMA CalledAppend ==
  ASSUME NEW l \in Seq(Events), NEW e \in Events, Called(l),
         e = Paused("budget_exhausted") => Tokens(l) > MaxTokens,
         e = Paused("consecutive_failures") => \E j \in 1..Len(l) : Failures(0, Prefix(l, j)) > MaxRetries
  PROVE  Called(Append(l, e))
<1> DEFINE m == Append(l, e)
<1>1. m \in Seq(Events) /\ Len(m) = Len(l) + 1 /\ Len(l) \in Nat
  OBVIOUS
<1>2. \A k \in 0..Len(l) : SubSeq(m, 1, k) = SubSeq(l, 1, k)
  BY PrefixAppend DEF Prefix
<1>3. (\A i \in 1..Len(l) : m[i] = l[i]) /\ m[Len(l) + 1] = e
  OBVIOUS
<1> HIDE DEF m
<1> SUFFICES ASSUME NEW i \in DOMAIN m
             PROVE  /\ m[i] = Paused("budget_exhausted") => Tokens(SubSeq(m, 1, i - 1)) > MaxTokens
                    /\ m[i] = Paused("consecutive_failures") => \E j \in 1..(i - 1) : Failures(0, SubSeq(m, 1, j)) > MaxRetries
  BY DEF Called, m
<1>4. i \in 1..(Len(l) + 1) /\ i - 1 \in 0..Len(l) /\ \A j \in 1..(i - 1) : j \in 0..Len(l)
  BY <1>1
<1>5. SubSeq(m, 1, i - 1) = SubSeq(l, 1, i - 1) /\ \A j \in 1..(i - 1) : SubSeq(m, 1, j) = SubSeq(l, 1, j)
  BY <1>2, <1>4
<1>6. CASE i \in 1..Len(l)
  <2>1. m[i] = l[i] /\ i \in DOMAIN l
    BY <1>3, <1>6
  <2>2. /\ l[i] = Paused("budget_exhausted") => Tokens(SubSeq(l, 1, i - 1)) > MaxTokens
        /\ l[i] = Paused("consecutive_failures") => \E j \in 1..(i - 1) : Failures(0, SubSeq(l, 1, j)) > MaxRetries
    BY <2>1 DEF Called
  <2> QED BY <1>5, <2>1, <2>2
<1>7. CASE i = Len(l) + 1
  <2>1. m[i] = e /\ i - 1 = Len(l) /\ SubSeq(l, 1, i - 1) = l
    BY <1>1, <1>3, <1>7, PrefixAll DEF Prefix
  <2> QED BY <1>5, <2>1 DEF Prefix
<1> QED BY <1>4, <1>6, <1>7

\* Of the processes only the breaker pauses for a breach.
LEMMA OnlyBreakerBreaches ==
  ASSUME TypeOK, OutboxesFit, NEW p \in Processes, outbox[p].todo # <<>>, p # "breaker"
  PROVE  Head(outbox[p].todo) \notin {Paused(r) : r \in Breaches}
<1>1. CASE p = "driver"
  BY <1>1, DriverPublishes, TypeOfEvent DEF Breaches
<1>2. CASE p = "llm"
  BY <1>2, LlmPublishes, TypeOfEvent
<1>3. CASE p = "skill"
  BY <1>3, SkillPublishes, TypeOfEvent
<1> QED BY <1>1, <1>2, <1>3 DEF Processes, Workers

LEMMA BreachLoggedAppend ==
  ASSUME log \in Seq(Events), NEW e \in Events, log' = Append(log, e)
  PROVE  /\ e \notin {Paused(r) : r \in Breaches} => BreachLogged' = BreachLogged
         /\ BreachLogged' \subseteq BreachLogged \cup {Len(log) + 1}
<1>1. /\ Len(log') = Len(log) + 1 /\ DOMAIN log' = 1..(Len(log) + 1) /\ DOMAIN log = 1..Len(log) /\ Len(log) \in Nat
      /\ \A i \in 1..Len(log) : log'[i] = log[i]
      /\ log'[Len(log) + 1] = e
  OBVIOUS
<1> QED BY <1>1 DEF BreachLogged

\* A row that is no breach keeps every pause called for.
LEMMA PauseAppend ==
  ASSUME TypeOK, PauseIsDue, PauseJustified, NEW e \in Events, log' = Append(log, e), e \notin {Paused(r) : r \in Breaches},
         outbox'["breaker"] = outbox["breaker"], at'["breaker"] = at["breaker"]
  PROVE  (PauseIsDue /\ PauseJustified)'
<1>1. log \in Seq(Events)
  BY DEF TypeOK
<1>2. BreachLogged' = BreachLogged
  BY <1>1, BreachLoggedAppend
<1>3. Called(log) /\ Cardinality(BreachLogged) <= 1
  BY PauseJustifiedIs
<1>4. Called(log')
  BY <1>1, <1>3, CalledAppend DEF Breaches
<1>5. Tokens(log') >= Tokens(log)
  <2>1. Tokens(log') = Tokens(log) + e.tokens
    BY <1>1, TokensAppend
  <2> QED BY <1>1, <2>1, TokensType, TokensOfEvent
<1>6. \A j \in 1..Len(log) : j \in 1..Len(log') /\ Prefix(log', j) = Prefix(log, j)
  BY <1>1, PrefixAppend
<1>7. PauseIsDue'
  <2>1. BreachLogged' # {} => (Ended("breaker") \/ Written("breaker", "StreamPaused"))'
    BY <1>2 DEF PauseIsDue, Ended, Written, Holding
  <2>2. ASSUME at'["breaker"] = "publishing", ~outbox'["breaker"].persisted
        PROVE  /\ outbox'["breaker"].todo = <<Paused("budget_exhausted")>> => Tokens(log') > MaxTokens
               /\ outbox'["breaker"].todo = <<Paused("consecutive_failures")>> =>
                     \E j \in 1..Len(log') : Failures(0, Prefix(log', j)) > MaxRetries
    <3>1. /\ outbox["breaker"].todo = <<Paused("budget_exhausted")>> => Tokens(log) > MaxTokens
          /\ outbox["breaker"].todo = <<Paused("consecutive_failures")>> =>
                \E j \in 1..Len(log) : Failures(0, Prefix(log, j)) > MaxRetries
      BY <2>2 DEF PauseIsDue
    <3>2. Tokens(log) > MaxTokens => Tokens(log') > MaxTokens
      <4>1. log' \in Seq(Events)
        BY <1>1
      <4>2. Tokens(log) \in Nat /\ Tokens(log') \in Nat
        BY <1>1, <4>1, TokensType
      <4> HIDE DEF Tokens
      <4>3. \A x, y, m \in Nat : x > m /\ y >= x => y > m
        OBVIOUS
      <4> QED BY <1>5, <4>2, <4>3, LimitsAreNaturals
    <3> QED BY <1>6, <3>1, <3>2
  <2> QED BY <2>1, <2>2 DEF PauseIsDue
<1> QED BY <1>2, <1>3, <1>4, <1>7, PauseJustifiedIs

LEMMA PersistPause ==
  ASSUME TypeOK, OutboxesFit, PauseIsDue, PauseJustified, NEW p \in Processes, Persist(p)
  PROVE  (PauseIsDue /\ PauseJustified)'
<1> DEFINE e == Head(outbox[p].todo)
<1>1. /\ outbox[p].todo # <<>> /\ ~outbox[p].persisted /\ e \in Events /\ log' = Append(log, e)
      /\ outbox'[p].persisted /\ outbox'[p].todo = outbox[p].todo
      /\ \A q \in Processes : q # p => outbox'[q] = outbox[q]
  BY AfterPersist
<1>2. log \in Seq(Events) /\ at' = at /\ "breaker" \in Processes
  BY Constants DEF TypeOK, Persist, Workers
<1>3. Called(log) /\ Cardinality(BreachLogged) <= 1
  BY PauseJustifiedIs
<1>4. CASE p = "breaker"
  <2>1. /\ at["breaker"] = "publishing" /\ BreachLogged = {}
        /\ e = Paused("budget_exhausted") => Tokens(log) > MaxTokens
        /\ e = Paused("consecutive_failures") => \E j \in 1..Len(log) : Failures(0, Prefix(log, j)) > MaxRetries
        /\ e.type = "StreamPaused"
    <3>1. at["breaker"] = "publishing" /\ OutboxFits("breaker")
      BY <1>1, <1>2, <1>4, BreakerPublishes DEF OutboxesFit
    <3>2. PICK r \in Breaches : outbox["breaker"].todo = <<Paused(r)>>
      BY <3>1 DEF OutboxFits
    <3>3. e = Paused(r) /\ e.type = "StreamPaused"
      BY <1>4, <3>2, TypeOfEvent
    <3>4. ~Written("breaker", "StreamPaused") /\ ~Ended("breaker")
      BY <1>1, <1>4, <3>1 DEF Written, Ended
    <3> QED BY <1>1, <1>4, <3>1, <3>2, <3>3, <3>4 DEF PauseIsDue
  <2>2. Called(log')
    BY <1>1, <1>2, <1>3, <2>1, CalledAppend
  <2>3. Cardinality(BreachLogged') <= 1
    <3>1. BreachLogged' \subseteq {Len(log) + 1}
      BY <1>1, <1>2, <2>1, BreachLoggedAppend
    <3>2. BreachLogged' = {} \/ BreachLogged' = {Len(log) + 1}
      BY <3>1
    <3>3. Cardinality({}) = 0 /\ Cardinality({Len(log) + 1}) = 1
      BY FS_EmptySet, FS_Singleton
    <3> HIDE DEF BreachLogged
    <3>4. CASE BreachLogged' = {}
      BY <3>3, <3>4
    <3>5. CASE BreachLogged' = {Len(log) + 1}
      BY <3>3, <3>5
    <3> QED BY <3>2, <3>4, <3>5
  <2>4. Written("breaker", "StreamPaused")' /\ outbox'["breaker"].persisted
    BY <1>1, <1>4, <2>1 DEF Written, Holding
  <2>5. PauseIsDue'
    BY <2>4 DEF PauseIsDue
  <2> QED BY <2>2, <2>3, <2>5, PauseJustifiedIs
<1>5. CASE p # "breaker"
  <2>1. e \notin {Paused(r) : r \in Breaches}
    BY <1>1, <1>5, OnlyBreakerBreaches
  <2>2. outbox'["breaker"] = outbox["breaker"] /\ at'["breaker"] = at["breaker"]
    BY <1>1, <1>2, <1>5
  <2> QED BY <1>1, <2>1, <2>2, PauseAppend
<1> QED BY <1>4, <1>5

\* Where nothing is written, the logged pauses stay justified.
LEMMA SameLogJustified == ASSUME PauseJustified, log' = log PROVE PauseJustified'
BY PauseJustifiedIs DEF BreachLogged

LEMMA PauseFrame ==
  ASSUME TypeOK, PauseIsDue, PauseJustified, log' = log,
         \/ at'["breaker"] = at["breaker"] /\ outbox'["breaker"] = outbox["breaker"]
         \/ at'["breaker"] \in {"done", "crashed"}
  PROVE  (PauseIsDue /\ PauseJustified)'
<1>1. PauseJustified'
  BY SameLogJustified
<1>2. ASSUME at'["breaker"] = at["breaker"], outbox'["breaker"] = outbox["breaker"] PROVE PauseIsDue'
  BY <1>2 DEF PauseIsDue, BreachLogged, Ended, Written, Holding
<1>3. ASSUME at'["breaker"] \in {"done", "crashed"} PROVE PauseIsDue'
  BY <1>3 DEF PauseIsDue, Ended
<1> QED BY <1>1, <1>2, <1>3

\* What the breaker decides, the log calls for.
LEMMA BreachIsCalled ==
  ASSUME TypeOK, OutboxesFit, BreakerKeepsUp, PauseIsDue, NEW e, BreakerStep(e), ~IsPause(e), NEW reason,
         reason = BreachOf(e, tally.tokens + e.tokens, BreakerCount(tally.failures, e))
  PROVE  /\ reason = "budget_exhausted" => Tokens(log) > MaxTokens
         /\ reason = "consecutive_failures" => \E j \in 1..Len(log) : Failures(0, Prefix(log, j)) > MaxRetries
         /\ BreachLogged = {}
<1> DEFINE q == queue["breaker"]
           n == tally.tokens
           f == tally.failures
<1>1. /\ Take("breaker", e) /\ "breaker" \in Workers /\ "breaker" \in Processes /\ "llm" \in Processes
  BY Constants DEF BreakerStep, Workers
<1>2. q \in Seq(Events) /\ q # <<>> /\ e = Head(q) /\ e \in Events /\ at["breaker"] = "waiting"
  BY <1>1, QueueAfterTake, BreakerTypes
<1>3. n \in Nat /\ f \in Nat /\ log \in Seq(Events) /\ MaxTokens \in Nat /\ MaxRetries \in Nat
  BY BreakerTypes, LimitsAreNaturals
<1>4. /\ n + Tokens(q \o InFlight("llm")) = Tokens(log)
      /\ \A k \in 0..Len(q) : FailuresWere(Failures(f, Prefix(q, k)))
  BY <1>2, WaitingBreaker
<1>5. BreachLogged = {}
  BY <1>1, <1>2, NothingWritten DEF PauseIsDue, Ended
<1>6. reason = "budget_exhausted" => Tokens(log) > MaxTokens
  <2>1. reason = "budget_exhausted" => n + e.tokens > MaxTokens
    BY DEF BreachOf
  <2>2. InFlight("llm") \in Seq(Events) /\ Tail(q) \in Seq(Events)
    BY <1>1, <1>2, InFlightOf
  <2> HIDE DEF q, n
  <2>3. Tokens(q) = e.tokens + Tokens(Tail(q)) /\ Tokens(q \o InFlight("llm")) = Tokens(q) + Tokens(InFlight("llm"))
    BY <1>2, <2>2, TokensTail, TokensConcat
  <2>4. Tokens(Tail(q)) \in Nat /\ Tokens(InFlight("llm")) \in Nat /\ e.tokens \in Nat
    BY <1>2, <2>2, TokensType, TokensOfEvent
  <2> QED BY <1>3, <1>4, <2>1, <2>3, <2>4
<1>7. reason = "consecutive_failures" => \E j \in 1..Len(log) : Failures(0, Prefix(log, j)) > MaxRetries
  <2> SUFFICES ASSUME reason = "consecutive_failures" PROVE \E j \in 1..Len(log) : Failures(0, Prefix(log, j)) > MaxRetries
    OBVIOUS
  <2>1. BreakerCount(f, e) > MaxRetries
    BY DEF BreachOf
  <2> HIDE DEF q, f
  <2>2. 0 \in 0..Len(Tail(q))
    BY <1>2
  <2>3. /\ 1 \in 0..Len(q) /\ Prefix(q, 1) # <<>> /\ Head(Prefix(q, 1)) = e /\ Tail(Prefix(q, 1)) = Prefix(Tail(q), 0)
    BY <1>2, <2>2, PrefixTail
  <2>4. Prefix(q, 1) \in Seq(Events) /\ Prefix(Tail(q), 0) = <<>>
    BY <1>2, <2>3, PrefixType DEF Prefix
  <2>5. Failures(f, Prefix(q, 1)) = BreakerCount(f, e)
    BY <1>3, <2>3, <2>4, FailuresTail, FailuresEmpty
  <2>6. PICK j \in 0..Len(log) : BreakerCount(f, e) = Failures(0, Prefix(log, j))
    BY <1>4, <2>3, <2>5 DEF FailuresWere
  <2>7. j # 0
    <3>1. Prefix(log, 0) = <<>>
      BY <1>3 DEF Prefix
    <3> QED BY <1>3, <2>1, <2>6, <3>1, FailuresEmpty
  <2>8. Len(log) \in Nat
    BY <1>3
  <2>9. j \in 1..Len(log)
    BY <2>6, <2>7, <2>8
  <2> QED BY <2>1, <2>6, <2>9
<1> QED BY <1>5, <1>6, <1>7

LEMMA BreakerStepPause ==
  ASSUME TypeOK, TypeOK', OutboxesFit, OutboxesFit', BreakerKeepsUp, PauseIsDue, PauseJustified, NEW e, BreakerStep(e)
  PROVE  (PauseIsDue /\ PauseJustified)'
<1> DEFINE reason == BreachOf(e, tally.tokens + e.tokens, BreakerCount(tally.failures, e))
<1>1. log' = log /\ "breaker" \in Processes
  BY Constants DEF BreakerStep, Workers
<1>2. CASE IsPause(e)
  BY <1>1, <1>2, AtAfterMove, PauseFrame DEF BreakerStep, Move
<1>3. CASE ~IsPause(e) /\ reason = "none"
  BY <1>1, <1>3, PauseFrame DEF BreakerStep
<1>4. CASE ~IsPause(e) /\ reason # "none"
  <2>1. Publishes("breaker", <<Paused(reason)>>)
    BY <1>4 DEF BreakerStep
  <2>2. outbox'["breaker"].todo = <<Paused(reason)>>
    BY <1>1, <2>1 DEF Publishes, TypeOK
  <2>3. /\ reason = "budget_exhausted" => Tokens(log) > MaxTokens
        /\ reason = "consecutive_failures" => \E j \in 1..Len(log) : Failures(0, Prefix(log, j)) > MaxRetries
        /\ BreachLogged = {}
    BY <1>4, BreachIsCalled
  <2>4. \A r : <<Paused(reason)>> = <<Paused(r)>> => reason = r
    BY TypeOfEvent
  <2>5. PauseIsDue'
    <3> HIDE DEF reason
    <3>1. BreachLogged' = {}
      BY <1>1, <2>3 DEF BreachLogged
    <3> QED BY <1>1, <2>2, <2>3, <2>4, <3>1 DEF PauseIsDue
  <2> QED BY <1>1, <2>5, SameLogJustified
<1> QED BY <1>2, <1>3, <1>4

LEMMA PauseStep ==
  ASSUME TypeOK, TypeOK', OutboxesFit, OutboxesFit', BreakerKeepsUp, PauseIsDue, PauseJustified, NEW p \in Processes,
         StepOf(p)
  PROVE  (PauseIsDue /\ PauseJustified)'
<1>0. "breaker" \in Processes
  BY Constants DEF Workers
<1>1. CASE OwnStep(p)
  <2>1. CASE p = "breaker"
    BY <1>1, <2>1, BreakerStepPause DEF OwnStep
  <2>2. CASE p # "breaker"
    BY <1>0, <1>1, <2>2, OwnStepAlone, PauseFrame
  <2> QED BY <2>1, <2>2
<1>2. CASE Persist(p)
  BY <1>2, PersistPause
<1>3. CASE Dispatch(p)
  <2>1. log' = log
    BY <1>3 DEF Dispatch
  <2>2. CASE p = "breaker"
    BY <1>3, <2>1, <2>2, AfterDispatch, BreakerPublishes, PlaceAfterPublishing, PauseFrame
  <2>3. CASE p # "breaker"
    <3>1. at'["breaker"] = at["breaker"] /\ outbox'["breaker"] = outbox["breaker"]
      <4>1. \A q \in Processes : q # p => outbox'[q] = outbox[q] /\ at'[q] = at[q]
        BY <1>3, AfterDispatch
      <4> QED BY <1>0, <2>3, <4>1
    <3> QED BY <2>1, <3>1, PauseFrame
  <2> QED BY <2>2, <2>3
<1>4. CASE PersistFails(p)
  <2>1. log' = log /\ \E es : Publishes(p, es)
    BY <1>4 DEF PersistFails
  <2>2. \A r \in Processes : r # p => outbox'[r] = outbox[r]
    BY <2>1 DEF Publishes, TypeOK
  <2>3. p # "breaker" => at'["breaker"] = at["breaker"]
    BY <1>0, <1>4, AfterReportedFault, AfterLethalFault
  <2>4. p = "breaker" => at'["breaker"] = "crashed"
    BY <1>4, AfterLethalFault
  <2> QED BY <1>0, <2>1, <2>2, <2>3, <2>4, PauseFrame
<1> QED BY <1>1, <1>2, <1>3, <1>4 DEF StepOf

-----------------------------------------------------------------------------
(* The snapshot *)

LEMMA HasPauseAppend ==
  ASSUME NEW l \in Seq(Events), NEW e \in Events
  PROVE  HasPause(Append(l, e)) <=> HasPause(l) \/ IsPause(e)
<1>1. /\ DOMAIN Append(l, e) = 1..(Len(l) + 1) /\ DOMAIN l = 1..Len(l) /\ Len(l) \in Nat
      /\ \A i \in 1..Len(l) : Append(l, e)[i] = l[i]
      /\ Append(l, e)[Len(l) + 1] = e
  OBVIOUS
<1> QED BY <1>1 DEF HasPause

LEMMA HasPauseSplit ==
  ASSUME NEW l \in Seq(Events), NEW k \in 0..Len(l)
  PROVE  HasPause(l) <=> HasPause(SubSeq(l, 1, k)) \/ HasPause(SubSeq(l, k + 1, Len(l)))
<1>1. Len(l) \in Nat /\ DOMAIN l = 1..Len(l) /\ k \in Nat /\ k <= Len(l)
  OBVIOUS
<1>2. DOMAIN SubSeq(l, 1, k) = 1..k /\ \A i \in 1..k : SubSeq(l, 1, k)[i] = l[i]
  BY <1>1
<1>3. /\ DOMAIN SubSeq(l, k + 1, Len(l)) = 1..(Len(l) - k)
      /\ \A i \in 1..(Len(l) - k) : SubSeq(l, k + 1, Len(l))[i] = l[k + i]
  BY <1>1
<1>4. ASSUME HasPause(l) PROVE HasPause(SubSeq(l, 1, k)) \/ HasPause(SubSeq(l, k + 1, Len(l)))
  <2>1. PICK i \in 1..Len(l) : IsPause(l[i])
    BY <1>1, <1>4 DEF HasPause
  <2>2. CASE i <= k
    <3>1. i \in 1..k
      BY <1>1, <2>1, <2>2
    <3>2. i \in DOMAIN SubSeq(l, 1, k) /\ IsPause(SubSeq(l, 1, k)[i])
      BY <1>2, <2>1, <3>1
    <3> QED BY <3>2 DEF HasPause
  <2>3. CASE i > k
    <3>1. i - k \in 1..(Len(l) - k) /\ k + (i - k) = i
      BY <1>1, <2>1, <2>3
    <3> QED BY <1>3, <2>1, <3>1 DEF HasPause
  <2> QED BY <1>1, <2>1, <2>2, <2>3
<1>5. ASSUME HasPause(SubSeq(l, 1, k)) \/ HasPause(SubSeq(l, k + 1, Len(l))) PROVE HasPause(l)
  <2>1. CASE HasPause(SubSeq(l, 1, k))
    <3>1. PICK i \in 1..k : IsPause(l[i])
      BY <1>2, <2>1 DEF HasPause
    <3>2. i \in 1..Len(l)
      BY <1>1
    <3> QED BY <1>1, <3>1, <3>2 DEF HasPause
  <2>2. CASE HasPause(SubSeq(l, k + 1, Len(l)))
    <3>1. PICK i \in 1..(Len(l) - k) : IsPause(l[k + i])
      BY <1>3, <2>2 DEF HasPause
    <3>2. k + i \in 1..Len(l)
      BY <1>1
    <3> QED BY <1>1, <3>1, <3>2 DEF HasPause
  <2> QED BY <1>5, <2>1, <2>2
<1> QED BY <1>4, <1>5

LEMMA Joined ==
  ASSUME NEW l \in Seq(Events), NEW a \in Seq(Events), NEW b \in Seq(Events), Len(l) = Len(a) + Len(b),
         \A i \in 1..Len(a) : a[i] = l[i], \A i \in 1..Len(b) : b[i] = l[Len(a) + i]
  PROVE  a \o b = l
<1>1. Len(a) \in Nat /\ Len(b) \in Nat /\ Len(l) \in Nat
  OBVIOUS
<1>2. a \o b \in Seq(Events) /\ Len(a \o b) = Len(l)
  OBVIOUS
<1>3. ASSUME NEW i \in 1..Len(l) PROVE (a \o b)[i] = l[i]
  <2>1. CASE i <= Len(a)
    BY <1>1, <2>1
  <2>2. CASE i > Len(a)
    <3>1. i - Len(a) \in 1..Len(b) /\ Len(a) + (i - Len(a)) = i
      BY <1>1, <2>2
    <3>2. (a \o b)[i] = b[i - Len(a)]
      BY <1>1, <2>2
    <3>3. b[i - Len(a)] = l[Len(a) + (i - Len(a))]
      BY <3>1
    <3> QED BY <3>1, <3>2, <3>3
  <2> QED BY <1>1, <2>1, <2>2
<1> DEFINE c == a \o b
<1>4. c \in Seq(Events) /\ Len(c) = Len(l) /\ \A i \in 1..Len(l) : c[i] = l[i]
  BY <1>2, <1>3
<1> HIDE DEF c
<1>5. c = l
  BY <1>4
<1> QED BY <1>5 DEF c

LEMMA PrefixAndRest ==
  ASSUME NEW l \in Seq(Events), NEW k \in 0..Len(l)
  PROVE  /\ SubSeq(l, 1, k) \in Seq(Events) /\ SubSeq(l, k + 1, Len(l)) \in Seq(Events)
         /\ SubSeq(l, 1, k) \o SubSeq(l, k + 1, Len(l)) = l
<1> DEFINE old == SubSeq(l, 1, k)
           new == SubSeq(l, k + 1, Len(l))
<1>1. Len(l) \in Nat /\ k \in Nat /\ k <= Len(l)
  OBVIOUS
<1>2. old \in Seq(Events) /\ Len(old) = k /\ \A i \in 1..k : old[i] = l[i]
  BY <1>1
<1>3. new \in Seq(Events) /\ Len(new) = Len(l) - k /\ \A i \in 1..(Len(l) - k) : new[i] = l[k + i]
  BY <1>1
<1> HIDE DEF old, new
<1>4. Len(l) = Len(old) + Len(new)
  BY <1>1, <1>2, <1>3
<1>5. (\A i \in 1..Len(old) : old[i] = l[i]) /\ \A i \in 1..Len(new) : new[i] = l[Len(old) + i]
  BY <1>2, <1>3
<1>6. old \o new = l
  BY <1>2, <1>3, <1>4, <1>5, Joined
<1> QED BY <1>2, <1>3, <1>6 DEF old, new

\* Folding the new rows into the snapshot gives what a replay of the whole log gives.
LEMMA DeriveIsReplay ==
  ASSUME TypeOK, SnapshotIsReplay
  PROVE  Derive = [offset |-> Len(log), tokens |-> Tokens(log), failures |-> AllFailures(0, log), paused |-> HasPause(log)]
<1> DEFINE k == snapshot.offset
           old == SubSeq(log, 1, k)
           new == SubSeq(log, k + 1, Len(log))
<1>1. log \in Seq(Events) /\ k \in 0..Len(log)
  BY DEF TypeOK
<1>2. old \in Seq(Events) /\ new \in Seq(Events) /\ old \o new = log
  BY <1>1, PrefixAndRest
<1>3. snapshot.tokens = Tokens(old) /\ snapshot.failures = AllFailures(0, old) /\ snapshot.paused = HasPause(old)
  BY DEF SnapshotIsReplay
<1>4. HasPause(log) <=> HasPause(old) \/ HasPause(new)
  BY <1>1, HasPauseSplit
<1>5. HasPause(log) \in BOOLEAN /\ HasPause(new) \in BOOLEAN
  BY DEF HasPause
<1> HIDE DEF k, old, new
<1>6. Tokens(log) = Tokens(old) + Tokens(new) /\ AllFailures(0, log) = AllFailures(AllFailures(0, old), new)
  BY <1>2, TokensConcat, AllFailuresConcat
<1>7. HasPause(log) = (HasPause(old) \/ HasPause(new))
  BY <1>4, <1>5
<1> QED BY <1>3, <1>6, <1>7 DEF Derive, k, new

LEMMA SnapshotFrame ==
  ASSUME TypeOK, SnapshotIsReplay, snapshot' = snapshot,
         log' = log \/ \E e \in Events : log' = Append(log, e)
  PROVE  SnapshotIsReplay'
<1>1. snapshot.offset \in 0..Len(log) /\ log \in Seq(Events)
  BY DEF TypeOK
<1>2. SubSeq(log', 1, snapshot'.offset) = SubSeq(log, 1, snapshot.offset)
  BY <1>1, PrefixAppend DEF Prefix
<1> QED BY <1>2 DEF SnapshotIsReplay

LEMMA LlmDeriveSnapshot == ASSUME TypeOK, SnapshotIsReplay, LlmDerive PROVE SnapshotIsReplay' /\ (snapshot'.paused <=> HasPause(log))
<1>1. snapshot' = [offset |-> Len(log), tokens |-> Tokens(log), failures |-> AllFailures(0, log), paused |-> HasPause(log)] /\ log' = log
  BY DeriveIsReplay DEF LlmDerive
<1>2. SubSeq(log', 1, snapshot'.offset) = log
  BY <1>1, PrefixAll DEF Prefix, TypeOK
<1> QED BY <1>1, <1>2 DEF SnapshotIsReplay

-----------------------------------------------------------------------------
(* One thread of work *)

\* The part of the log after its first pause grows with the log.
LEMMA FirstPause ==
  ASSUME NEW l \in Seq(Events), HasPause(l)
  PROVE  /\ SelectInSeq(l, IsPause) \in 1..Len(l)
         /\ IsPause(l[SelectInSeq(l, IsPause)])
         /\ \A i \in 1..Len(l) : IsPause(l[i]) => SelectInSeq(l, IsPause) <= i
<1> DEFINE I == {i \in 1..Len(l) : IsPause(l[i])}
<1>1. I # {} /\ I \subseteq Nat
  BY DEF HasPause
<1>2. \E x \in I : \A y \in I : x <= y
  BY <1>1, LeastMember
<1>3. SelectInSeq(l, IsPause) = Min(I)
  BY <1>1 DEF SelectInSeq
<1>4. Min(I) \in I /\ \A y \in I : Min(I) <= y
  BY <1>2 DEF Min
<1> QED BY <1>3, <1>4

LEMMA FirstPauseAppend ==
  ASSUME NEW l \in Seq(Events), NEW e \in Events
  PROVE  /\ HasPause(l) => SelectInSeq(Append(l, e), IsPause) = SelectInSeq(l, IsPause)
         /\ ~HasPause(l) /\ IsPause(e) => SelectInSeq(Append(l, e), IsPause) = Len(l) + 1
<1> DEFINE m == Append(l, e)
<1>1. /\ m \in Seq(Events) /\ Len(m) = Len(l) + 1 /\ Len(l) \in Nat
      /\ \A i \in 1..Len(l) : m[i] = l[i]
      /\ m[Len(l) + 1] = e
  OBVIOUS
<1>2. HasPause(m) <=> HasPause(l) \/ IsPause(e)
  BY HasPauseAppend
<1>3. HasPause(m) => /\ SelectInSeq(m, IsPause) \in 1..Len(m)
                     /\ IsPause(m[SelectInSeq(m, IsPause)])
                     /\ \A i \in 1..Len(m) : IsPause(m[i]) => SelectInSeq(m, IsPause) <= i
  BY <1>1, FirstPause
<1> HIDE DEF m
<1> DEFINE x == SelectInSeq(m, IsPause)
           y == SelectInSeq(l, IsPause)
<1>4. CASE HasPause(l)
  <2>1. y \in 1..Len(l) /\ IsPause(l[y]) /\ \A i \in 1..Len(l) : IsPause(l[i]) => y <= i
    BY <1>4, FirstPause
  <2>2. x \in 1..Len(m) /\ IsPause(m[x]) /\ \A i \in 1..Len(m) : IsPause(m[i]) => x <= i
    BY <1>2, <1>3, <1>4
  <2> HIDE DEF x, y
  <2>3. x <= y
    BY <1>1, <2>1, <2>2
  <2>4. y <= x
    BY <1>1, <2>1, <2>2, <2>3
  <2>5. x = y
    BY <1>1, <2>1, <2>2, <2>3, <2>4
  <2> QED BY <1>4, <2>5 DEF x, y, m
<1>5. CASE ~HasPause(l) /\ IsPause(e)
  <2>1. x \in 1..Len(m) /\ IsPause(m[x])
    BY <1>2, <1>3, <1>5
  <2>2. \A i \in 1..Len(l) : ~IsPause(l[i])
    BY <1>5 DEF HasPause
  <2> HIDE DEF x
  <2>3. x = Len(l) + 1
    BY <1>1, <2>1, <2>2
  <2> QED BY <1>5, <2>3 DEF x, m
<1> QED BY <1>4, <1>5 DEF m

LEMMA LateLogType == ASSUME TypeOK PROVE LateLog \in Seq(Events)
<1>1. log \in Seq(Events)
  BY DEF TypeOK
<1>2. CASE HasPause(log)
  <2>1. SelectInSeq(log, IsPause) \in 1..Len(log)
    BY <1>1, <1>2, FirstPause
  <2> QED BY <1>1, <1>2, <2>1 DEF LateLog, AfterPause
<1>3. CASE ~HasPause(log)
  BY <1>3 DEF LateLog
<1> QED BY <1>2, <1>3

LEMMA AppendedAt ==
  ASSUME NEW s \in Seq(Events), NEW e \in Events
  PROVE  /\ Append(s, e) \in Seq(Events) /\ Len(Append(s, e)) = Len(s) + 1
         /\ (\A i \in 1..Len(s) : Append(s, e)[i] = s[i]) /\ Append(s, e)[Len(s) + 1] = e
OBVIOUS

LEMMA SuffixAppend ==
  ASSUME NEW l \in Seq(Events), NEW e \in Events, NEW k \in 1..Len(l)
  PROVE  SubSeq(Append(l, e), k + 1, Len(l) + 1) = Append(SubSeq(l, k + 1, Len(l)), e)
<1>1. Len(l) \in Nat /\ k \in Nat /\ k <= Len(l)
  OBVIOUS
<1> DEFINE m == Append(l, e)
           a == SubSeq(m, k + 1, Len(l) + 1)
           b == SubSeq(l, k + 1, Len(l))
           c == Append(b, e)
<1>2. m \in Seq(Events) /\ Len(m) = Len(l) + 1 /\ (\A i \in 1..Len(l) : m[i] = l[i]) /\ m[Len(l) + 1] = e
  OBVIOUS
<1> HIDE DEF m
<1>3. a \in Seq(Events) /\ Len(a) = Len(l) + 1 - k /\ \A i \in 1..(Len(l) + 1 - k) : a[i] = m[k + i]
  BY <1>1, <1>2
<1>4. b \in Seq(Events) /\ Len(b) = Len(l) - k /\ \A i \in 1..(Len(l) - k) : b[i] = l[k + i]
  BY <1>1
<1> HIDE DEF a, b
<1>8. /\ c \in Seq(Events) /\ Len(c) = Len(b) + 1 /\ (\A i \in 1..Len(b) : c[i] = b[i]) /\ c[Len(b) + 1] = e
  <2>1. b \in Seq(Events)
    BY <1>4
  <2> QED BY <2>1, AppendedAt
<1> HIDE DEF c
<1>5. /\ c \in Seq(Events) /\ Len(c) = Len(l) + 1 - k /\ (\A i \in 1..(Len(l) - k) : c[i] = b[i])
      /\ c[Len(l) + 1 - k] = e
  BY <1>1, <1>4, <1>8
<1>6. ASSUME NEW i \in 1..(Len(l) + 1 - k) PROVE a[i] = c[i]
  <2>1. CASE i <= Len(l) - k
    <3>1. i \in 1..(Len(l) - k) /\ k + i \in 1..Len(l)
      BY <1>1, <2>1
    <3> QED BY <1>2, <1>3, <1>4, <1>5, <3>1
  <2>2. CASE i = Len(l) + 1 - k
    <3>1. k + i = Len(l) + 1
      BY <1>1, <2>2
    <3> QED BY <1>2, <1>3, <1>5, <2>2, <3>1
  <2> QED BY <1>1, <2>1, <2>2
<1>9. Len(a) = Len(c) /\ \A i \in 1..Len(a) : a[i] = c[i]
  BY <1>3, <1>5, <1>6
<1>7. a = c
  BY <1>3, <1>5, <1>9
<1> QED BY <1>7 DEF a, b, c, m

LEMMA LateLogAppend ==
  ASSUME TypeOK, NEW e \in Events, log' = Append(log, e)
  PROVE  /\ HasPause(log') <=> HasPause(log) \/ IsPause(e)
         /\ HasPause(log) => LateLog' = Append(LateLog, e)
         /\ ~HasPause(log) => LateLog' = <<>>
<1>1. log \in Seq(Events) /\ log' \in Seq(Events) /\ Len(log') = Len(log) + 1 /\ Len(log) \in Nat
  BY DEF TypeOK
<1>2. HasPause(log') <=> HasPause(log) \/ IsPause(e)
  BY <1>1, HasPauseAppend
<1>3. ASSUME HasPause(log) PROVE LateLog' = Append(LateLog, e)
  <2> DEFINE k == SelectInSeq(log, IsPause)
  <2>1. k \in 1..Len(log) /\ SelectInSeq(log', IsPause) = k
    BY <1>1, <1>3, FirstPause, FirstPauseAppend
  <2>2. LateLog' = SubSeq(log', k + 1, Len(log')) /\ LateLog = SubSeq(log, k + 1, Len(log))
    BY <1>2, <1>3, <2>1 DEF LateLog, AfterPause
  <2> HIDE DEF k
  <2>3. SubSeq(Append(log, e), k + 1, Len(log) + 1) = Append(SubSeq(log, k + 1, Len(log)), e)
    BY <1>1, <2>1, SuffixAppend
  <2> QED BY <1>1, <2>2, <2>3
<1>4. ASSUME ~HasPause(log) PROVE LateLog' = <<>>
  <2>1. CASE IsPause(e)
    <3>1. SelectInSeq(log', IsPause) = Len(log')
      BY <1>1, <1>4, <2>1, FirstPauseAppend
    <3>2. LateLog' = SubSeq(log', Len(log') + 1, Len(log'))
      BY <1>2, <2>1, <3>1 DEF LateLog, AfterPause
    <3> QED BY <1>1, <3>2
  <2>2. CASE ~IsPause(e)
    BY <1>2, <1>4, <2>2 DEF LateLog
  <2> QED BY <2>1, <2>2
<1> QED BY <1>2, <1>3, <1>4

Bits == {0, 1}

LEMMA BitType == \A b : Bit(b) \in Bits /\ Bit(b) \in Nat /\ (b => Bit(b) = 1) /\ (~b => Bit(b) = 0)
BY DEF Bit, Bits

\* The numbers the work is counted with.
LEMMA WorkTypes ==
  ASSUME TypeOK
  PROVE  /\ Started \in Nat /\ Asked \in Nat
         /\ Thread \in Nat /\ ResultsOwed \in Nat /\ TurnsOwed \in Nat /\ LateTurns \in Bits /\ LateResults \in Nat
         /\ LateResults <= Thread
<1>1. queue["llm"] \in Seq(Events) /\ queue["skill"] \in Seq(Events)
  BY DEF TypeOK, Workers
<1>2. Started \in Nat /\ Asked \in Nat
  BY <1>1, CountType DEF Started, Starters, Asked
<1>3. Thread \in Nat /\ ResultsOwed \in Nat /\ TurnsOwed \in Nat /\ LateTurns \in Bits /\ LateResults \in Nat
  BY <1>2, BitType DEF Thread, ResultsOwed, TurnsOwed, LateTurns, LateResults
<1>4. Bit(TurnGoes) <= Bit(Deriving \/ TurnGoes) /\ Bit(ResultDue) <= Bit(SkillGoes)
  BY DEF Bit, ResultDue, SkillGoes
<1>5. LateResults <= Thread
  BY <1>2, <1>4, BitType DEF Thread, LateResults
<1> QED BY <1>2, <1>3, <1>5

LEMMA WorkTypesNext ==
  ASSUME TypeOK'
  PROVE  /\ Started' \in Nat /\ Asked' \in Nat
         /\ Thread' \in Nat /\ ResultsOwed' \in Nat /\ TurnsOwed' \in Nat /\ LateTurns' \in Bits /\ LateResults' \in Nat
         /\ LateResults' <= Thread'
<1>1. queue'["llm"] \in Seq(Events) /\ queue'["skill"] \in Seq(Events)
  BY DEF TypeOK, Workers
<1>2. Started' \in Nat /\ Asked' \in Nat
  BY <1>1, CountType DEF Started, Starters, Asked
<1>3. Thread' \in Nat /\ ResultsOwed' \in Nat /\ TurnsOwed' \in Nat /\ LateTurns' \in Bits /\ LateResults' \in Nat
  BY <1>2, BitType DEF Thread, ResultsOwed, TurnsOwed, LateTurns, LateResults
<1>4. Bit(TurnGoes)' <= Bit(Deriving \/ TurnGoes)' /\ Bit(ResultDue)' <= Bit(SkillGoes)'
  BY DEF Bit, ResultDue, SkillGoes
<1>5. LateResults' <= Thread'
  BY <1>2, <1>4, BitType DEF Thread, LateResults
<1> QED BY <1>2, <1>3, <1>5

LEMMA LogCounts ==
  ASSUME TypeOK PROVE \A type : Count(log, type) \in Nat /\ Count(LateLog, type) \in Nat
BY LateLogType, CountType DEF TypeOK

\* A step that writes nothing and takes up no more work than it ends.
LEMMA WorkFrame ==
  ASSUME TypeOK, TypeOK', Work, log' = log,
         Thread' <= Thread, ResultsOwed' <= ResultsOwed, TurnsOwed' <= TurnsOwed,
         HasPause(log) => LateTurns' <= LateTurns /\ LateResults' <= LateResults
  PROVE  Work'
<1>0. LateLog' = LateLog
  BY DEF LateLog, AfterPause
<1> DEFINE text == Count(log, "LLMTextEmitted")
           done == Count(log, "SkillCompleted")
           asked == Count(log, "SkillRequested")
           acted == Count(log, "LLMActionEmitted")
           lateDone == Count(LateLog, "SkillCompleted")
           lateActed == Count(LateLog, "LLMActionEmitted")
<1>1. /\ text \in Nat /\ done \in Nat /\ asked \in Nat /\ acted \in Nat /\ lateDone \in Nat /\ lateActed \in Nat
      /\ UNCHANGED <<text, done, asked, acted, lateDone, lateActed>>
  BY <1>0, LogCounts
<1>2. /\ Thread + text <= 1 /\ done + ResultsOwed <= asked /\ acted + TurnsOwed <= 1 + done
      /\ HasPause(log) => lateActed + LateTurns <= 1 /\ lateDone + LateResults <= 1
  BY DEF Work, OneThread, WorkIsOwed, LateWorkLeft
<1> HIDE DEF text, done, asked, acted, lateDone, lateActed
<1>3. Thread' + text <= 1 /\ done + ResultsOwed' <= asked /\ acted + TurnsOwed' <= 1 + done
  BY <1>1, <1>2, WorkTypes, WorkTypesNext
<1>4. HasPause(log) => lateActed + LateTurns' <= 1 /\ lateDone + LateResults' <= 1
  BY <1>1, <1>2, WorkTypes, WorkTypesNext DEF Bits
<1> QED BY <1>1, <1>3, <1>4 DEF Work, OneThread, WorkIsOwed, LateWorkLeft, text, done, asked, acted, lateDone, lateActed

\* What is gained on one side is paid on the other.
LEMMA Paid ==
  /\ \A a, x, y, k, d \in Nat : x + a <= k /\ y + d <= x => y + (a + d) <= k
  /\ \A a, x, y, k, c, d \in Nat : a + x <= k + c /\ y + d <= x => (a + d) + y <= k + c
  /\ \A a, x, y, k, c, d \in Nat : a + x <= k /\ y + d <= x + c => (a + d) + y <= k + c
  /\ \A a, x, y, k, c, d \in Nat : a + x <= 1 + k /\ y + d <= x + c => (a + d) + y <= 1 + (k + c)
  /\ \A a, x, y, d \in Nat : a + x <= 1 /\ y + d <= x => (a + d) + y <= 1
OBVIOUS

\* A step that writes an event pays for it with the work it was owed.
LEMMA WorkWritten ==
  ASSUME TypeOK, TypeOK', Work, NEW e \in Events, log' = Append(log, e),
         Thread' + Bit(e.type = "LLMTextEmitted") <= Thread,
         ResultsOwed' + Bit(e.type = "SkillCompleted") <= ResultsOwed + Bit(e.type = "SkillRequested"),
         TurnsOwed' + Bit(e.type = "LLMActionEmitted") <= TurnsOwed + Bit(e.type = "SkillCompleted"),
         LateTurns' + Bit(e.type = "LLMActionEmitted") <= LateTurns,
         LateResults' + Bit(e.type = "SkillCompleted") <= LateResults
  PROVE  Work'
<1>0. log \in Seq(Events) /\ LateLog \in Seq(Events)
  BY LateLogType DEF TypeOK
<1>1. \A type : Count(log', type) = Count(log, type) + Bit(e.type = type)
  BY <1>0, CountAppend
<1>2. HasPause(log) => \A type : Count(LateLog', type) = Count(LateLog, type) + Bit(e.type = type)
  <2>1. HasPause(log) => LateLog' = Append(LateLog, e)
    BY LateLogAppend
  <2>2. \A type : Count(Append(LateLog, e), type) = Count(LateLog, type) + Bit(e.type = type)
    BY <1>0, CountAppend
  <2> QED BY <2>1, <2>2
<1>3. ~HasPause(log) => \A type : Count(LateLog', type) = 0
  BY LateLogAppend, CountEmpty
<1> DEFINE text == Count(log, "LLMTextEmitted")
           done == Count(log, "SkillCompleted")
           asked == Count(log, "SkillRequested")
           acted == Count(log, "LLMActionEmitted")
           lateDone == Count(LateLog, "SkillCompleted")
           lateActed == Count(LateLog, "LLMActionEmitted")
           isText == Bit(e.type = "LLMTextEmitted")
           isDone == Bit(e.type = "SkillCompleted")
           isAsked == Bit(e.type = "SkillRequested")
           isActed == Bit(e.type = "LLMActionEmitted")
<1>4. /\ text \in Nat /\ done \in Nat /\ asked \in Nat /\ acted \in Nat /\ lateDone \in Nat /\ lateActed \in Nat
      /\ isText \in Nat /\ isDone \in Nat /\ isAsked \in Nat /\ isActed \in Nat
  BY LogCounts, BitType
<1>5. text' = text + isText /\ done' = done + isDone /\ asked' = asked + isAsked /\ acted' = acted + isActed
  BY <1>1
<1>6. /\ HasPause(log) => lateDone' = lateDone + isDone /\ lateActed' = lateActed + isActed
      /\ ~HasPause(log) => lateDone' = 0 /\ lateActed' = 0
  BY <1>2, <1>3
<1>7. /\ Thread + text <= 1 /\ done + ResultsOwed <= asked /\ acted + TurnsOwed <= 1 + done
      /\ HasPause(log) => lateActed + LateTurns <= 1 /\ lateDone + LateResults <= 1
  BY DEF Work, OneThread, WorkIsOwed, LateWorkLeft
<1>8. /\ Thread' + isText <= Thread /\ ResultsOwed' + isDone <= ResultsOwed + isAsked
      /\ TurnsOwed' + isActed <= TurnsOwed + isDone
      /\ LateTurns' + isActed <= LateTurns /\ LateResults' + isDone <= LateResults
  OBVIOUS
<1> HIDE DEF text, done, asked, acted, lateDone, lateActed, isText, isDone, isAsked, isActed
<1>9. Thread' + text' <= 1
  BY <1>4, <1>5, <1>7, <1>8, WorkTypes, WorkTypesNext, Paid
<1>10. done' + ResultsOwed' <= asked'
  BY <1>4, <1>5, <1>7, <1>8, WorkTypes, WorkTypesNext, Paid
<1>11. acted' + TurnsOwed' <= 1 + done'
  BY <1>4, <1>5, <1>7, <1>8, WorkTypes, WorkTypesNext, Paid
<1>12. lateActed' + LateTurns' <= 1
  <2>1. LateTurns \in Nat /\ LateTurns' \in Nat /\ LateTurns' <= 1
    BY WorkTypes, WorkTypesNext DEF Bits
  <2>2. CASE HasPause(log)
    BY <1>4, <1>6, <1>7, <1>8, <2>1, <2>2, Paid
  <2>3. CASE ~HasPause(log)
    <3>1. lateActed' = 0
      BY <1>6, <2>3
    <3>2. \A x \in Nat : x <= 1 => 0 + x <= 1
      OBVIOUS
    <3> QED BY <2>1, <3>1, <3>2
  <2> QED BY <2>2, <2>3
<1>13. lateDone' + LateResults' <= 1
  <2>1. LateResults \in Nat /\ LateResults' \in Nat /\ LateResults' <= Thread' /\ Thread' \in Nat /\ text' \in Nat
    BY <1>4, <1>5, WorkTypes, WorkTypesNext
  <2>2. CASE HasPause(log)
    BY <1>4, <1>6, <1>7, <1>8, <2>1, <2>2, Paid
  <2>3. CASE ~HasPause(log)
    <3>1. lateDone' = 0
      BY <1>6, <2>3
    <3>2. \A x, y, z \in Nat : x <= y /\ y + z <= 1 => 0 + x <= 1
      OBVIOUS
    <3> QED BY <1>9, <2>1, <3>1, <3>2
  <2> QED BY <2>2, <2>3
<1> QED BY <1>9, <1>10, <1>11, <1>12, <1>13
        DEF Work, OneThread, WorkIsOwed, LateWorkLeft, text, done, asked, acted, lateDone, lateActed

LEMMA BitLess == \A a, b : (a => b) => Bit(a) <= Bit(b)
BY DEF Bit

\* No process takes up anything.
Quiet ==
    /\ Starting' => Starting
    /\ Deriving' => Deriving
    /\ Running' => Running
    /\ UsageDue' => UsageDue
    /\ TurnGoes' => TurnGoes
    /\ RequestOut' => RequestOut
    /\ SkillGoes' => SkillGoes
    /\ ResultDue' => ResultDue
    /\ ResultOut' => ResultOut
    /\ Started' <= Started
    /\ Asked' <= Asked

NoMore ==
    /\ Thread' <= Thread
    /\ ResultsOwed' <= ResultsOwed
    /\ TurnsOwed' <= TurnsOwed
    /\ LateTurns' <= LateTurns
    /\ LateResults' <= LateResults

LEMMA Less ==
  /\ \A a, b, c, d, e, v, w, x, y, z \in Nat :
        a <= v /\ b <= w /\ c <= x /\ d <= y /\ e <= z => a + b + c + d + e <= v + w + x + y + z
  /\ \A a, b, c, d, v, w, x, y \in Nat : a <= v /\ b <= w /\ c <= x /\ d <= y => a + b + c + d <= v + w + x + y
  /\ \A a, b, c, v, w, x \in Nat : a <= v /\ b <= w /\ c <= x => a + b + c <= v + w + x
OBVIOUS

LEMMA QuietNoMore == ASSUME TypeOK, TypeOK', Quiet PROVE NoMore
<1>1. Started \in Nat /\ Asked \in Nat /\ Started' \in Nat /\ Asked' \in Nat
  BY WorkTypes, WorkTypesNext
<1>2. Thread' <= Thread
  <2>1. /\ Bit(Starting)' <= Bit(Starting) /\ Bit(Deriving \/ TurnGoes)' <= Bit(Deriving \/ TurnGoes)
        /\ Bit(SkillGoes)' <= Bit(SkillGoes)
    BY BitLess DEF Quiet
  <2> QED BY <1>1, <2>1, BitType, Less DEF Quiet, Thread
<1>3. ResultsOwed' <= ResultsOwed
  <2>1. Bit(RequestOut)' <= Bit(RequestOut) /\ Bit(ResultDue)' <= Bit(ResultDue)
    BY BitLess DEF Quiet
  <2> QED BY <1>1, <2>1, BitType, Less DEF Quiet, ResultsOwed
<1>4. TurnsOwed' <= TurnsOwed
  <2>1. /\ Bit(Starting)' <= Bit(Starting) /\ Bit(ResultOut)' <= Bit(ResultOut)
        /\ Bit(Deriving \/ Running \/ UsageDue)' <= Bit(Deriving \/ Running \/ UsageDue)
    BY BitLess DEF Quiet
  <2> QED BY <1>1, <2>1, BitType, Less DEF Quiet, TurnsOwed
<1>5. LateTurns' <= LateTurns
  BY BitLess DEF Quiet, LateTurns
<1>6. LateResults' <= LateResults
  <2>1. Bit(TurnGoes)' <= Bit(TurnGoes) /\ Bit(ResultDue)' <= Bit(ResultDue)
    BY BitLess DEF Quiet
  <2> QED BY <1>1, <2>1, BitType, Less DEF Quiet, LateResults
<1> QED BY <1>2, <1>3, <1>4, <1>5, <1>6 DEF NoMore

\* What a step leaves a process with, in the words of the counts.
LEMMA WrittenByPersist ==
  ASSUME TypeOK, NEW p \in Processes, Persist(p)
  PROVE  /\ \A type : /\ Unwritten(p, type) <=> Head(outbox[p].todo).type = type
                      /\ Unwritten(p, type)' <=> FALSE
                      /\ Written(p, type) <=> FALSE
                      /\ Written(p, type)' <=> Head(outbox[p].todo).type = type
         /\ \A q \in Processes : q # p => \A type : /\ Unwritten(q, type)' <=> Unwritten(q, type)
                                                    /\ Written(q, type)' <=> Written(q, type)
BY AfterPersist DEF Unwritten, Written, Holding

LEMMA WrittenByDispatch ==
  ASSUME TypeOK, OutboxesFit, NEW p \in Processes, Dispatch(p)
  PROVE  LET rest == Tail(outbox[p].todo)
         IN  /\ \A type : /\ Unwritten(p, type) <=> FALSE
                          /\ Unwritten(p, type)' <=> rest # <<>> /\ Head(rest).type = type
                          /\ Written(p, type) <=> Head(outbox[p].todo).type = type
                          /\ Written(p, type)' <=> FALSE
             /\ \A q \in Processes : q # p => \A type : /\ Unwritten(q, type)' <=> Unwritten(q, type)
                                                        /\ Written(q, type)' <=> Written(q, type)
<1> DEFINE rest == Tail(outbox[p].todo)
<1>1. /\ outbox[p].todo # <<>> /\ outbox[p].persisted
      /\ outbox'[p] = [todo |-> rest, persisted |-> FALSE]
      /\ \A q \in Processes : q # p => outbox'[q] = outbox[q]
  BY AfterDispatch
<1> HIDE DEF rest
<1> QED BY <1>1 DEF Unwritten, Written, Holding, rest

\* What a dispatch puts into the queues of the two that work.
LEMMA QueuedByDispatch ==
  ASSUME TypeOK, OutboxesFit, QueuesFit, NEW p \in Processes, Dispatch(p)
  PROVE  LET e == Head(outbox[p].todo)
         IN  /\ Started' <= Started + Bit(e.type \in {"AgentInputAdded", "SkillCompleted"})
             /\ Asked' <= Asked + Bit(e.type = "SkillRequested")
<1> DEFINE e == Head(outbox[p].todo)
<1>1. e \in Events /\ \A w \in Workers : queue'[w] = IF Ended(w) \/ (w = p /\ p = "breaker") THEN <<>> ELSE Deliver(w, e)
  BY AfterDispatch
<1>2. queue["llm"] \in Seq(Events) /\ queue["skill"] \in Seq(Events) /\ "llm" \in Workers /\ "skill" \in Workers
  BY DEF TypeOK, Workers
<1> HIDE DEF e
<1>3. \A s \in Seq(Events) : \A type : Count(s, type) \in Nat /\ Count(<<>>, type) = 0
  BY CountType, CountEmpty
<1>4. \A s \in Seq(Events) : \A type : Count(Append(s, e), type) = Count(s, type) + Bit(e.type = type)
  BY <1>1, CountAppend
<1>5. \A w \in {"llm", "skill"} : queue'[w] = <<>> \/ queue'[w] = Append(queue[w], e) \/ queue'[w] = queue[w]
  BY <1>1, <1>2 DEF Deliver
<1>6. ASSUME NEW w \in {"llm", "skill"}, NEW type PROVE Count(queue'[w], type) <= Count(queue[w], type) + Bit(e.type = type)
  <2>1. queue[w] \in Seq(Events) /\ Count(queue[w], type) \in Nat /\ Bit(e.type = type) \in Nat
    BY <1>2, <1>3, BitType
  <2>2. CASE queue'[w] = <<>>
    <3>1. Count(queue'[w], type) = 0
      BY <2>2, CountEmpty
    <3> QED BY <2>1, <3>1
  <2>3. CASE queue'[w] = Append(queue[w], e)
    <3>1. Count(queue'[w], type) = Count(queue[w], type) + Bit(e.type = type)
      BY <1>4, <2>1, <2>3
    <3> QED BY <2>1, <3>1
  <2>4. CASE queue'[w] = queue[w]
    <3>1. Count(queue'[w], type) = Count(queue[w], type)
      BY <2>4
    <3> QED BY <2>1, <3>1
  <2> QED BY <1>5, <2>2, <2>3, <2>4
<1>7. Asked' <= Asked + Bit(e.type = "SkillRequested")
  BY <1>6 DEF Asked
<1>8. Started' <= Started + Bit(e.type \in {"AgentInputAdded", "SkillCompleted"})
  <2> DEFINE input(q) == Count(q["llm"], "AgentInputAdded")
             result(q) == Count(q["llm"], "SkillCompleted")
  <2>1. /\ input(queue') <= input(queue) + Bit(e.type = "AgentInputAdded")
        /\ result(queue') <= result(queue) + Bit(e.type = "SkillCompleted")
    BY <1>6
  <2>2. input(queue') \in Nat /\ input(queue) \in Nat /\ result(queue') \in Nat /\ result(queue) \in Nat
    <3>1. queue'["llm"] \in Seq(Events)
      BY <1>2, AfterDispatch
    <3> QED BY <1>2, <1>3, <3>1
  <2>3. Bit(e.type \in {"AgentInputAdded", "SkillCompleted"}) = Bit(e.type = "AgentInputAdded") + Bit(e.type = "SkillCompleted")
    BY DEF Bit
  <2>4. Started = input(queue) + result(queue) /\ Started' = input(queue') + result(queue')
    BY DEF Started, Starters
  <2> HIDE DEF input, result
  <2> QED BY <2>1, <2>2, <2>3, <2>4, BitType
<1> QED BY <1>7, <1>8 DEF e

\* What a worker takes from its queue is not waited for any more.
LEMMA CountTaken ==
  ASSUME TypeOK, NEW w \in Workers, NEW e, Take(w, e), NEW type, type # "StreamPaused"
  PROVE  /\ Count(queue'[w], type) + Bit(e.type = type) <= Count(queue[w], type)
         /\ Count(queue'[w], type) \in Nat /\ Count(queue[w], type) \in Nat
<1>1. /\ queue[w] \in Seq(Events) /\ queue[w] # <<>> /\ e = Head(queue[w]) /\ queue'[w] \in Seq(Events)
      /\ queue'[w] = IF IsPause(e) THEN <<>> ELSE Tail(queue[w])
  BY QueueAfterTake DEF TypeOK
<1>2. Count(queue[w], type) = Bit(e.type = type) + Count(Tail(queue[w]), type)
  BY <1>1, CountTail
<1>3. /\ Count(queue[w], type) \in Nat /\ Count(queue'[w], type) \in Nat /\ Count(Tail(queue[w]), type) \in Nat
      /\ Bit(e.type = type) \in Nat
  <2>1. Tail(queue[w]) \in Seq(Events)
    BY <1>1
  <2> QED BY <1>1, <2>1, CountType, BitType
<1>4. CASE IsPause(e)
  <2>1. Count(queue'[w], type) = 0 /\ Bit(e.type = type) = 0
    BY <1>1, <1>4, CountEmpty DEF IsPause, Bit
  <2> QED BY <1>3, <2>1
<1>5. CASE ~IsPause(e)
  <2>1. Count(queue'[w], type) = Count(Tail(queue[w]), type)
    BY <1>1, <1>5
  <2> QED BY <1>2, <1>3, <2>1
<1> QED BY <1>4, <1>5

LEMMA StartedTaken ==
  ASSUME TypeOK, NEW e, Take("llm", e)
  PROVE  Started' + Bit(e.type \in {"AgentInputAdded", "SkillCompleted"}) <= Started /\ Asked' = Asked
<1>1. "llm" \in Workers /\ "skill" \in Workers
  BY DEF Workers
<1> DEFINE input(q) == Count(q["llm"], "AgentInputAdded")
           result(q) == Count(q["llm"], "SkillCompleted")
<1>2. /\ input(queue') + Bit(e.type = "AgentInputAdded") <= input(queue) /\ input(queue') \in Nat /\ input(queue) \in Nat
      /\ result(queue') + Bit(e.type = "SkillCompleted") <= result(queue) /\ result(queue') \in Nat /\ result(queue) \in Nat
  BY <1>1, CountTaken
<1>3. Bit(e.type \in {"AgentInputAdded", "SkillCompleted"}) = Bit(e.type = "AgentInputAdded") + Bit(e.type = "SkillCompleted")
  BY DEF Bit
<1>4. Started = input(queue) + result(queue) /\ Started' = input(queue') + result(queue')
  BY DEF Started, Starters
<1>5. Asked' = Asked
  BY <1>1, QueueAfterTake DEF Asked
<1> HIDE DEF input, result
<1> QED BY <1>2, <1>3, <1>4, <1>5, BitType

LEMMA AskedTaken ==
  ASSUME TypeOK, NEW e, Take("skill", e)
  PROVE  Asked' + Bit(e.type = "SkillRequested") <= Asked /\ Started' = Started
BY CountTaken, QueueAfterTake DEF Asked, Started, Starters, Workers

\* A queue that is emptied holds no work.
LEMMA QueuedLess ==
  ASSUME TypeOK, TypeOK', \A w \in {"llm", "skill"} : queue'[w] = queue[w] \/ queue'[w] = <<>>
  PROVE  Started' <= Started /\ Asked' <= Asked
<1>1. queue["llm"] \in Seq(Events) /\ queue["skill"] \in Seq(Events)
  BY DEF TypeOK, Workers
<1>2. ASSUME NEW w \in {"llm", "skill"}, NEW type
      PROVE  /\ Count(queue'[w], type) <= Count(queue[w], type)
             /\ Count(queue'[w], type) \in Nat /\ Count(queue[w], type) \in Nat
  <2>1. Count(queue[w], type) \in Nat /\ Count(<<>>, type) = 0
    BY <1>1, CountType, CountEmpty
  <2>2. CASE queue'[w] = <<>>
    BY <2>1, <2>2
  <2>3. CASE queue'[w] = queue[w]
    BY <2>1, <2>3
  <2> QED BY <2>2, <2>3
<1>3. Asked' <= Asked
  BY <1>2 DEF Asked
<1>4. Started' <= Started
  BY <1>2 DEF Started, Starters
<1> QED BY <1>3, <1>4

\* The sums of a step, from what it does to each of their terms.
LEMMA Sums ==
  ASSUME TypeOK, TypeOK', NEW i \in Int, NEW a \in Int, NEW d \in Int, NEW g \in Int, NEW r \in Int, NEW u \in Int,
         NEW x \in Int, NEW y \in Int, NEW z \in Int, NEW t \in Int,
         Bit(Starting)' <= Bit(Starting) + i, Started' <= Started + a,
         Bit(Deriving \/ TurnGoes)' <= Bit(Deriving \/ TurnGoes) + d, Asked' <= Asked + g,
         Bit(SkillGoes)' <= Bit(SkillGoes) + r, Bit(ResultDue)' <= Bit(ResultDue) + u,
         Bit(RequestOut)' <= Bit(RequestOut) + x, Bit(ResultOut)' <= Bit(ResultOut) + y,
         Bit(Deriving \/ Running \/ UsageDue)' <= Bit(Deriving \/ Running \/ UsageDue) + z,
         Bit(TurnGoes)' <= Bit(TurnGoes) + t
  PROVE  /\ Thread' <= Thread + (i + a + d + g + r)
         /\ ResultsOwed' <= ResultsOwed + (x + g + u)
         /\ TurnsOwed' <= TurnsOwed + (i + a + y + z)
         /\ LateResults' <= LateResults + (t + g + u)
<1>1. Started \in Nat /\ Asked \in Nat /\ Started' \in Nat /\ Asked' \in Nat
  BY WorkTypes, WorkTypesNext
<1>2. \A p1, p2, p3, p4, p5, q1, q2, q3, q4, q5 \in Nat : \A c1, c2, c3, c4, c5 \in Int :
         p1 <= q1 + c1 /\ p2 <= q2 + c2 /\ p3 <= q3 + c3 /\ p4 <= q4 + c4 /\ p5 <= q5 + c5 =>
           p1 + p2 + p3 + p4 + p5 <= q1 + q2 + q3 + q4 + q5 + (c1 + c2 + c3 + c4 + c5)
  OBVIOUS
<1>3. \A p1, p2, p3, p4, q1, q2, q3, q4 \in Nat : \A c1, c2, c3, c4 \in Int :
         p1 <= q1 + c1 /\ p2 <= q2 + c2 /\ p3 <= q3 + c3 /\ p4 <= q4 + c4 =>
           p1 + p2 + p3 + p4 <= q1 + q2 + q3 + q4 + (c1 + c2 + c3 + c4)
  OBVIOUS
<1>4. \A p1, p2, p3, q1, q2, q3 \in Nat : \A c1, c2, c3 \in Int :
         p1 <= q1 + c1 /\ p2 <= q2 + c2 /\ p3 <= q3 + c3 => p1 + p2 + p3 <= q1 + q2 + q3 + (c1 + c2 + c3)
  OBVIOUS
<1>5. Thread' <= Thread + (i + a + d + g + r)
  BY <1>1, <1>2, BitType DEF Thread
<1>6. ResultsOwed' <= ResultsOwed + (x + g + u)
  BY <1>1, <1>4, BitType DEF ResultsOwed
<1>7. TurnsOwed' <= TurnsOwed + (i + a + y + z)
  BY <1>1, <1>3, BitType DEF TurnsOwed
<1>8. LateResults' <= LateResults + (t + g + u)
  BY <1>1, <1>4, BitType DEF LateResults
<1> QED BY <1>5, <1>6, <1>7, <1>8

LEMMA BitMoves ==
  /\ \A a, b : (a => b) => Bit(a) <= Bit(b) + 0
  /\ \A a, b : ~a /\ b => Bit(a) <= Bit(b) + (-1)
  /\ \A a, b : Bit(a) <= Bit(b) + 1
BY DEF Bit

\* Writing an event that is no work changes nothing.
LEMMA PersistOther ==
  ASSUME TypeOK, TypeOK', Work, NEW p \in Processes, Persist(p),
         Head(outbox[p].todo).type \in {"AgentInputAdded", "SkillCancelled", "StreamPaused"}
  PROVE  Work'
<1> DEFINE e == Head(outbox[p].todo)
<1>1. e \in Events /\ log' = Append(log, e) /\ UNCHANGED <<at, queue>>
  BY AfterPersist DEF Persist
<1>2. \A q \in Processes : \A type : type \notin {"AgentInputAdded", "SkillCancelled", "StreamPaused"} =>
         (Unwritten(q, type)' <=> Unwritten(q, type)) /\ (Written(q, type)' <=> Written(q, type))
  BY WrittenByPersist
<1>3. Quiet
  <2>1. /\ UsageDue' <=> UsageDue
        /\ Written("llm", "LLMTextEmitted")' <=> Written("llm", "LLMTextEmitted")
        /\ RequestOut' <=> RequestOut
        /\ ResultOut' <=> ResultOut
    BY <1>2 DEF UsageDue, RequestOut, ResultOut, Processes, Workers
  <2>2. Starting' = Starting /\ Deriving' = Deriving /\ Running' = Running /\ SkillGoes' = SkillGoes
    BY <1>1 DEF Starting, Deriving, Running, SkillGoes
  <2>3. Started' <= Started /\ Asked' <= Asked
    BY <1>1, WorkTypes DEF Started, Asked
  <2>4. (TurnGoes' => TurnGoes) /\ (ResultDue' => ResultDue)
    BY <1>1, <2>1, <2>2 DEF TurnGoes, ResultDue, ResultOut
  <2> QED BY <2>1, <2>2, <2>3, <2>4 DEF Quiet
<1>4. NoMore
  BY <1>3, QuietNoMore
<1>5. /\ Bit(e.type = "LLMTextEmitted") = 0 /\ Bit(e.type = "SkillCompleted") = 0
      /\ Bit(e.type = "SkillRequested") = 0 /\ Bit(e.type = "LLMActionEmitted") = 0
  BY DEF Bit
<1> HIDE DEF e
<1>6. /\ Thread' + 0 <= Thread /\ ResultsOwed' + 0 <= ResultsOwed + 0 /\ TurnsOwed' + 0 <= TurnsOwed + 0
      /\ LateTurns' + 0 <= LateTurns /\ LateResults' + 0 <= LateResults
  BY <1>4, WorkTypes, WorkTypesNext DEF NoMore, Bits
<1> QED BY <1>1, <1>5, <1>6, WorkWritten

\* Writing the model's events: the usage, then the request or the text.
LEMMA PersistLlm == ASSUME TypeOK, TypeOK', OutboxesFit, Work, Persist("llm") PROVE Work'
<1> DEFINE e == Head(outbox["llm"].todo)
<1>0. "llm" \in Processes /\ "skill" \in Processes
  BY DEF Processes, Workers
<1>1. e \in Events /\ log' = Append(log, e) /\ UNCHANGED <<at, queue>> /\ outbox["llm"].todo # <<>>
  BY <1>0, AfterPersist DEF Persist
<1>2. at["llm"] = "publishing" /\ e.type \in {"LLMActionEmitted", "SkillRequested", "LLMTextEmitted"}
  BY <1>1, LlmPublishes, TypeOfEvent
<1>3. /\ UsageDue <=> e.type = "LLMActionEmitted"
      /\ ~UsageDue'
      /\ ~RequestOut
      /\ RequestOut' <=> e.type = "SkillRequested"
      /\ ~Written("llm", "LLMTextEmitted")
      /\ Written("llm", "LLMTextEmitted")' <=> e.type = "LLMTextEmitted"
      /\ ResultOut' <=> ResultOut
  BY <1>0, WrittenByPersist DEF UsageDue, RequestOut, ResultOut
<1> HIDE DEF e
<1>4. /\ Starting' = Starting /\ Deriving' = FALSE /\ Deriving = FALSE /\ Running = FALSE /\ Running' = FALSE
      /\ SkillGoes' = SkillGoes /\ (ResultDue' <=> ResultDue) /\ Started' = Started /\ Asked' = Asked
      /\ TurnGoes /\ (TurnGoes' <=> e.type # "LLMTextEmitted")
  BY <1>1, <1>2, <1>3 DEF Starting, Deriving, Running, SkillGoes, ResultDue, ResultOut, Started, Asked, TurnGoes
<1>5. Started' <= Started + 0 /\ Asked' <= Asked + 0
  BY <1>4, WorkTypes
<1>6. /\ Bit(Starting)' <= Bit(Starting) + 0 /\ Bit(SkillGoes)' <= Bit(SkillGoes) + 0
      /\ Bit(ResultDue)' <= Bit(ResultDue) + 0 /\ Bit(ResultOut)' <= Bit(ResultOut) + 0
  BY <1>3, <1>4, BitMoves
<1> DEFINE Payment == /\ Thread' + Bit(e.type = "LLMTextEmitted") <= Thread
                      /\ ResultsOwed' + Bit(e.type = "SkillCompleted") <= ResultsOwed + Bit(e.type = "SkillRequested")
                      /\ TurnsOwed' + Bit(e.type = "LLMActionEmitted") <= TurnsOwed + Bit(e.type = "SkillCompleted")
                      /\ LateTurns' + Bit(e.type = "LLMActionEmitted") <= LateTurns
                      /\ LateResults' + Bit(e.type = "SkillCompleted") <= LateResults
<1>7. CASE e.type = "LLMActionEmitted"
  <2>1. /\ Bit(Deriving \/ TurnGoes)' <= Bit(Deriving \/ TurnGoes) + 0
        /\ Bit(RequestOut)' <= Bit(RequestOut) + 0
        /\ Bit(Deriving \/ Running \/ UsageDue)' <= Bit(Deriving \/ Running \/ UsageDue) + (-1)
        /\ Bit(TurnGoes)' <= Bit(TurnGoes) + 0
    BY <1>3, <1>4, <1>7, BitMoves
  <2>2. /\ Thread' <= Thread + (0 + 0 + 0 + 0 + 0) /\ ResultsOwed' <= ResultsOwed + (0 + 0 + 0)
        /\ TurnsOwed' <= TurnsOwed + (0 + 0 + 0 + (-1)) /\ LateResults' <= LateResults + (0 + 0 + 0)
    BY <1>5, <1>6, <2>1, Sums
  <2>3. LateTurns = 1 /\ LateTurns' = 0
    BY <1>3, <1>4, <1>7 DEF LateTurns, Bit
  <2>4. /\ Bit(e.type = "LLMTextEmitted") = 0 /\ Bit(e.type = "SkillCompleted") = 0
        /\ Bit(e.type = "SkillRequested") = 0 /\ Bit(e.type = "LLMActionEmitted") = 1
    BY <1>7 DEF Bit
  <2>5. Payment
    BY <2>2, <2>3, <2>4, WorkTypes, WorkTypesNext
  <2> QED BY <1>1, <2>5, WorkWritten
<1>8. CASE e.type = "SkillRequested"
  <2>1. /\ Bit(Deriving \/ TurnGoes)' <= Bit(Deriving \/ TurnGoes) + 0
        /\ Bit(RequestOut)' <= Bit(RequestOut) + 1
        /\ Bit(Deriving \/ Running \/ UsageDue)' <= Bit(Deriving \/ Running \/ UsageDue) + 0
        /\ Bit(TurnGoes)' <= Bit(TurnGoes) + 0
    BY <1>3, <1>4, <1>8, BitMoves
  <2>2. /\ Thread' <= Thread + (0 + 0 + 0 + 0 + 0) /\ ResultsOwed' <= ResultsOwed + (1 + 0 + 0)
        /\ TurnsOwed' <= TurnsOwed + (0 + 0 + 0 + 0) /\ LateResults' <= LateResults + (0 + 0 + 0)
    BY <1>5, <1>6, <2>1, Sums
  <2>3. LateTurns = 0 /\ LateTurns' = 0
    BY <1>3, <1>4, <1>8 DEF LateTurns, Bit
  <2>4. /\ Bit(e.type = "LLMTextEmitted") = 0 /\ Bit(e.type = "SkillCompleted") = 0
        /\ Bit(e.type = "SkillRequested") = 1 /\ Bit(e.type = "LLMActionEmitted") = 0
    BY <1>8 DEF Bit
  <2>5. Payment
    BY <2>2, <2>3, <2>4, WorkTypes, WorkTypesNext
  <2> QED BY <1>1, <2>5, WorkWritten
<1>9. CASE e.type = "LLMTextEmitted"
  <2>1. /\ Bit(Deriving \/ TurnGoes)' <= Bit(Deriving \/ TurnGoes) + (-1)
        /\ Bit(RequestOut)' <= Bit(RequestOut) + 0
        /\ Bit(Deriving \/ Running \/ UsageDue)' <= Bit(Deriving \/ Running \/ UsageDue) + 0
        /\ Bit(TurnGoes)' <= Bit(TurnGoes) + (-1)
    BY <1>3, <1>4, <1>9, BitMoves
  <2>2. /\ Thread' <= Thread + (0 + 0 + (-1) + 0 + 0) /\ ResultsOwed' <= ResultsOwed + (0 + 0 + 0)
        /\ TurnsOwed' <= TurnsOwed + (0 + 0 + 0 + 0) /\ LateResults' <= LateResults + ((-1) + 0 + 0)
    BY <1>5, <1>6, <2>1, Sums
  <2>3. LateTurns = 0 /\ LateTurns' = 0
    BY <1>3, <1>4, <1>9 DEF LateTurns, Bit
  <2>4. /\ Bit(e.type = "LLMTextEmitted") = 1 /\ Bit(e.type = "SkillCompleted") = 0
        /\ Bit(e.type = "SkillRequested") = 0 /\ Bit(e.type = "LLMActionEmitted") = 0
    BY <1>9 DEF Bit
  <2>5. Payment
    BY <2>2, <2>3, <2>4, WorkTypes, WorkTypesNext
  <2> QED BY <1>1, <2>5, WorkWritten
<1> QED BY <1>2, <1>7, <1>8, <1>9 DEF e

\* Writing the skill's result: the work it was is paid.
LEMMA PersistSkill ==
  ASSUME TypeOK, TypeOK', OutboxesFit, Work, Persist("skill"), Head(outbox["skill"].todo).type = "SkillCompleted"
  PROVE  Work'
<1> DEFINE e == Head(outbox["skill"].todo)
<1>0. "llm" \in Processes /\ "skill" \in Processes
  BY DEF Processes, Workers
<1>1. e \in Events /\ log' = Append(log, e) /\ UNCHANGED <<at, queue>> /\ outbox["skill"].todo # <<>>
  BY <1>0, AfterPersist DEF Persist
<1>2. at["skill"] = "publishing"
  BY <1>1, SkillPublishes
<1>3. /\ UsageDue' <=> UsageDue
      /\ RequestOut' <=> RequestOut
      /\ Written("llm", "LLMTextEmitted")' <=> Written("llm", "LLMTextEmitted")
      /\ ~ResultOut
      /\ ResultOut'
  BY <1>0, WrittenByPersist DEF UsageDue, RequestOut, ResultOut
<1> HIDE DEF e
<1>4. /\ Starting' = Starting /\ Deriving' = Deriving /\ Running' = Running
      /\ SkillGoes' = SkillGoes /\ ResultDue /\ ~ResultDue' /\ Started' = Started /\ Asked' = Asked
      /\ (TurnGoes' <=> TurnGoes)
  BY <1>1, <1>2, <1>3 DEF Starting, Deriving, Running, SkillGoes, ResultDue, ResultOut, Started, Asked, TurnGoes
<1>5. Started' <= Started + 0 /\ Asked' <= Asked + 0
  BY <1>4, WorkTypes
<1>6. /\ Bit(Starting)' <= Bit(Starting) + 0 /\ Bit(SkillGoes)' <= Bit(SkillGoes) + 0
      /\ Bit(ResultDue)' <= Bit(ResultDue) + (-1) /\ Bit(ResultOut)' <= Bit(ResultOut) + 1
      /\ Bit(Deriving \/ TurnGoes)' <= Bit(Deriving \/ TurnGoes) + 0
      /\ Bit(RequestOut)' <= Bit(RequestOut) + 0
      /\ Bit(Deriving \/ Running \/ UsageDue)' <= Bit(Deriving \/ Running \/ UsageDue) + 0
      /\ Bit(TurnGoes)' <= Bit(TurnGoes) + 0
  BY <1>3, <1>4, BitMoves
<1>7. /\ Thread' <= Thread + (0 + 0 + 0 + 0 + 0) /\ ResultsOwed' <= ResultsOwed + (0 + 0 + (-1))
      /\ TurnsOwed' <= TurnsOwed + (0 + 0 + 1 + 0) /\ LateResults' <= LateResults + (0 + 0 + (-1))
  BY <1>5, <1>6, Sums
<1>8. LateTurns' = LateTurns
  BY <1>3, <1>4 DEF LateTurns, Bit
<1>9. /\ Bit(e.type = "LLMTextEmitted") = 0 /\ Bit(e.type = "SkillCompleted") = 1
      /\ Bit(e.type = "SkillRequested") = 0 /\ Bit(e.type = "LLMActionEmitted") = 0
  BY DEF Bit, e
<1>10. /\ Thread' + Bit(e.type = "LLMTextEmitted") <= Thread
       /\ ResultsOwed' + Bit(e.type = "SkillCompleted") <= ResultsOwed + Bit(e.type = "SkillRequested")
       /\ TurnsOwed' + Bit(e.type = "LLMActionEmitted") <= TurnsOwed + Bit(e.type = "SkillCompleted")
       /\ LateTurns' + Bit(e.type = "LLMActionEmitted") <= LateTurns
       /\ LateResults' + Bit(e.type = "SkillCompleted") <= LateResults
  <2>1. LateTurns \in Nat
    BY WorkTypes DEF Bits
  <2> QED BY <1>7, <1>8, <1>9, <2>1, WorkTypes, WorkTypesNext
<1> QED BY <1>1, <1>10, WorkWritten

LEMMA PersistWork ==
  ASSUME TypeOK, TypeOK', OutboxesFit, Work, NEW p \in Processes, Persist(p) PROVE Work'
<1>0. outbox[p].todo # <<>>
  BY AfterPersist
<1>1. CASE p = "llm"
  BY <1>1, PersistLlm
<1>2. CASE p = "skill"
  <2>1. Head(outbox["skill"].todo).type \in {"SkillCancelled", "SkillCompleted"}
    BY <1>0, <1>2, SkillPublishes, TypeOfEvent
  <2> QED BY <1>2, <2>1, PersistSkill, PersistOther
<1>3. CASE p = "breaker"
  BY <1>0, <1>3, BreakerPublishes, TypeOfEvent, PersistOther
<1>4. CASE p = "driver"
  BY <1>0, <1>4, DriverPublishes, TypeOfEvent, PersistOther
<1> QED BY <1>1, <1>2, <1>3, <1>4 DEF Processes, Workers

\* Dispatching an event that starts no work, or the model's usage.
LEMMA DispatchQuiet ==
  ASSUME TypeOK, TypeOK', OutboxesFit, QueuesFit, Work, NEW p \in Processes, Dispatch(p),
         Head(outbox[p].todo).type \in {"SkillCancelled", "StreamPaused", "LLMActionEmitted", "LLMTextEmitted"}
  PROVE  Work'
<1> DEFINE e == Head(outbox[p].todo)
           rest == Tail(outbox[p].todo)
<1>0. "llm" \in Processes /\ "skill" \in Processes /\ "driver" \in Processes
  BY DEF Processes, Workers
<1>1. /\ log' = log /\ outbox[p].todo # <<>>
      /\ \A q \in Processes : q # p => at'[q] = at[q]
      /\ at'[p] = IF rest = <<>> THEN AfterPublishing(p) ELSE at[p]
  BY AfterDispatch DEF Dispatch
<1>2. Started' <= Started /\ Asked' <= Asked
  <2>1. Bit(e.type \in {"AgentInputAdded", "SkillCompleted"}) = 0 /\ Bit(e.type = "SkillRequested") = 0
    BY DEF Bit
  <2> HIDE DEF e
  <2>2. Started' <= Started + 0 /\ Asked' <= Asked + 0
    BY <2>1, QueuedByDispatch DEF e
  <2> QED BY <2>2, WorkTypes, WorkTypesNext
<1>3. \A q \in Processes : q # p => /\ \A type : Unwritten(q, type)' <=> Unwritten(q, type)
                                    /\ \A type : Written(q, type)' <=> Written(q, type)
  BY WrittenByDispatch
<1>4. /\ \A type : Unwritten(p, type)' <=> rest # <<>> /\ Head(rest).type = type
      /\ \A type : Written(p, type) <=> e.type = type
      /\ \A type : ~Written(p, type)'
  BY WrittenByDispatch
<1>5. CASE p \in {"breaker", "driver"}
  <2>1. Starting' => Starting
    <3>1. CASE p = "driver"
      BY <1>1, <3>1, DriverPublishes, PlaceAfterPublishing, TypeOfEvent DEF Starting
    <3>2. CASE p = "breaker"
      BY <1>0, <1>1, <3>2 DEF Starting
    <3> QED BY <1>5, <3>1, <3>2
  <2>2. /\ UsageDue' <=> UsageDue
        /\ Written("llm", "LLMTextEmitted")' <=> Written("llm", "LLMTextEmitted")
        /\ RequestOut' <=> RequestOut
        /\ ResultOut' <=> ResultOut
        /\ at'["llm"] = at["llm"] /\ at'["skill"] = at["skill"]
    BY <1>0, <1>1, <1>3, <1>5 DEF UsageDue, RequestOut, ResultOut
  <2>3. /\ (Deriving' => Deriving) /\ (Running' => Running) /\ (SkillGoes' => SkillGoes)
        /\ (TurnGoes' => TurnGoes) /\ (ResultDue' => ResultDue)
    BY <2>2 DEF Deriving, Running, SkillGoes, TurnGoes, ResultDue, ResultOut
  <2>5. (UsageDue' => UsageDue) /\ (RequestOut' => RequestOut) /\ (ResultOut' => ResultOut)
    BY <2>2
  <2> HIDE DEF e, rest
  <2>4. Quiet
    BY <1>2, <2>1, <2>3, <2>5 DEF Quiet
  <2> QED BY <1>1, <2>4, QuietNoMore, WorkFrame DEF NoMore
<1>6. CASE p = "llm"
  <2>1. /\ at["llm"] = "publishing"
        /\ \/ e.type = "LLMActionEmitted" /\ rest \in {<<>>, <<Request>>, <<Text>>}
           \/ e.type = "LLMTextEmitted" /\ rest = <<>>
    BY <1>1, <1>6, LlmPublishes, TypeOfEvent
  <2>2. at'["llm"] \in {"publishing", "waiting"} /\ (at'["llm"] = "publishing" => rest # <<>>)
    BY <1>1, <1>6, <2>1, PlaceAfterPublishing
  <2>3. rest # <<>> => Head(rest).type # "LLMActionEmitted"
    <3> HIDE DEF rest
    <3>1. Head(<<Request>>).type = "SkillRequested" /\ Head(<<Text>>).type = "LLMTextEmitted"
      BY Singleton, TypeOfEvent
    <3> QED BY <2>1, <3>1
  <2>4. ~UsageDue' /\ ~RequestOut' /\ (ResultOut' <=> ResultOut) /\ ~Deriving' /\ ~Running'
    BY <1>0, <1>3, <1>4, <1>6, <2>2, <2>3 DEF UsageDue, RequestOut, ResultOut, Deriving, Running
  <2>5. TurnGoes' => TurnGoes
    <3>1. TurnGoes' => at'["llm"] = "publishing"
      BY <2>4 DEF TurnGoes
    <3>2. rest # <<>> => ~Written("llm", "LLMTextEmitted")
      BY <1>4, <1>6, <2>1
    <3> QED BY <2>1, <2>2, <3>1, <3>2 DEF TurnGoes
  <2>6. (Starting' => Starting) /\ (SkillGoes' => SkillGoes) /\ (ResultDue' => ResultDue)
    BY <1>0, <1>1, <1>6, <2>4 DEF Starting, SkillGoes, ResultDue, ResultOut
  <2>7. Quiet
    BY <1>2, <2>4, <2>5, <2>6, <1>0, <1>1, <1>6 DEF Quiet, Starting, SkillGoes, ResultDue, ResultOut
  <2> QED BY <1>1, <2>7, QuietNoMore, WorkFrame DEF NoMore
<1>7. CASE p = "skill"
  <2>1. at["skill"] = "publishing" /\ e.type = "SkillCancelled"
    BY <1>1, <1>7, SkillPublishes, TypeOfEvent
  <2>2. ~ResultOut /\ ~ResultOut'
    BY <1>4, <1>7, <2>1 DEF ResultOut
  <2>3. SkillGoes /\ ResultDue
    BY <2>1, <2>2 DEF SkillGoes, ResultDue, ResultOut
  <2>4. /\ UsageDue' <=> UsageDue
        /\ Written("llm", "LLMTextEmitted")' <=> Written("llm", "LLMTextEmitted")
        /\ RequestOut' <=> RequestOut
        /\ at'["llm"] = at["llm"] /\ at'["driver"] = at["driver"]
    BY <1>0, <1>1, <1>3, <1>7 DEF UsageDue, RequestOut
  <2>5. Quiet
    BY <1>2, <2>2, <2>3, <2>4 DEF Quiet, Starting, Deriving, Running, TurnGoes
  <2> QED BY <1>1, <2>5, QuietNoMore, WorkFrame DEF NoMore
<1> QED BY <1>5, <1>6, <1>7 DEF Processes, Workers

\* The objective becomes the input of the first turn.
LEMMA DispatchInput ==
  ASSUME TypeOK, TypeOK', OutboxesFit, QueuesFit, Work, NEW p \in Processes, Dispatch(p),
         Head(outbox[p].todo).type = "AgentInputAdded"
  PROVE  Work'
<1> DEFINE e == Head(outbox[p].todo)
           rest == Tail(outbox[p].todo)
<1>0. "llm" \in Processes /\ "skill" \in Processes /\ "driver" \in Processes
  BY DEF Processes, Workers
<1>1. /\ log' = log /\ outbox[p].todo # <<>>
      /\ \A q \in Processes : q # p => at'[q] = at[q]
      /\ at'[p] = IF rest = <<>> THEN AfterPublishing(p) ELSE at[p]
  BY AfterDispatch DEF Dispatch
<1>2. p = "driver" /\ at["driver"] = "publishing"
  BY <1>1, WhoPublishes
<1>3. at'["driver"] = "waiting"
  BY <1>1, <1>2, DriverPublishes, PlaceAfterPublishing
<1>4. Started' <= Started + 1 /\ Asked' <= Asked + 0
  <2>1. Bit(e.type \in {"AgentInputAdded", "SkillCompleted"}) = 1 /\ Bit(e.type = "SkillRequested") = 0
    BY DEF Bit
  <2> HIDE DEF e
  <2> QED BY <2>1, QueuedByDispatch DEF e
<1>5. /\ UsageDue' <=> UsageDue
      /\ Written("llm", "LLMTextEmitted")' <=> Written("llm", "LLMTextEmitted")
      /\ RequestOut' <=> RequestOut
      /\ ResultOut' <=> ResultOut
      /\ at'["llm"] = at["llm"] /\ at'["skill"] = at["skill"]
  BY <1>0, <1>1, <1>2, WrittenByDispatch DEF UsageDue, RequestOut, ResultOut
<1>6. /\ Starting /\ ~Starting' /\ Deriving' = Deriving /\ Running' = Running /\ SkillGoes' = SkillGoes
      /\ (TurnGoes' <=> TurnGoes) /\ (ResultDue' <=> ResultDue)
  BY <1>2, <1>3, <1>5 DEF Starting, Deriving, Running, SkillGoes, TurnGoes, ResultDue, ResultOut
<1>7. /\ Bit(Starting)' <= Bit(Starting) + (-1) /\ Bit(SkillGoes)' <= Bit(SkillGoes) + 0
      /\ Bit(ResultDue)' <= Bit(ResultDue) + 0 /\ Bit(ResultOut)' <= Bit(ResultOut) + 0
      /\ Bit(Deriving \/ TurnGoes)' <= Bit(Deriving \/ TurnGoes) + 0
      /\ Bit(RequestOut)' <= Bit(RequestOut) + 0
      /\ Bit(Deriving \/ Running \/ UsageDue)' <= Bit(Deriving \/ Running \/ UsageDue) + 0
      /\ Bit(TurnGoes)' <= Bit(TurnGoes) + 0
  BY <1>5, <1>6, BitMoves
<1>8. /\ Thread' <= Thread + ((-1) + 1 + 0 + 0 + 0) /\ ResultsOwed' <= ResultsOwed + (0 + 0 + 0)
      /\ TurnsOwed' <= TurnsOwed + ((-1) + 1 + 0 + 0) /\ LateResults' <= LateResults + (0 + 0 + 0)
  BY <1>4, <1>7, Sums
<1>9. LateTurns' = LateTurns
  BY <1>5, <1>6 DEF LateTurns, Bit
<1>10. NoMore
  <2>1. LateTurns' <= LateTurns
    BY <1>9, WorkTypes DEF Bits
  <2> QED BY <1>8, <2>1, WorkTypes, WorkTypesNext DEF NoMore
<1> QED BY <1>1, <1>10, WorkFrame DEF NoMore

\* The request passes from the model's turn to the skill worker's queue.
LEMMA DispatchRequest ==
  ASSUME TypeOK, TypeOK', OutboxesFit, QueuesFit, Work, NEW p \in Processes, Dispatch(p),
         Head(outbox[p].todo).type = "SkillRequested"
  PROVE  Work'
<1> DEFINE e == Head(outbox[p].todo)
           rest == Tail(outbox[p].todo)
<1>0. "llm" \in Processes /\ "skill" \in Processes /\ "driver" \in Processes
  BY DEF Processes, Workers
<1>1. /\ log' = log /\ outbox[p].todo # <<>>
      /\ \A q \in Processes : q # p => at'[q] = at[q]
      /\ at'[p] = IF rest = <<>> THEN AfterPublishing(p) ELSE at[p]
  BY AfterDispatch DEF Dispatch
<1>2. p = "llm"
  BY <1>1, WhoPublishes
<1>3. at["llm"] = "publishing" /\ at'["llm"] = "waiting" /\ rest = <<>>
  BY <1>1, <1>2, LlmPublishes, PlaceAfterPublishing, TypeOfEvent
<1>4. Started' <= Started + 0 /\ Asked' <= Asked + 1
  <2>1. Bit(e.type \in {"AgentInputAdded", "SkillCompleted"}) = 0 /\ Bit(e.type = "SkillRequested") = 1
    BY DEF Bit
  <2> HIDE DEF e
  <2> QED BY <2>1, QueuedByDispatch DEF e
<1>5. /\ ~UsageDue' /\ ~Written("llm", "LLMTextEmitted") /\ RequestOut /\ ~RequestOut'
      /\ ResultOut' <=> ResultOut
      /\ at'["driver"] = at["driver"] /\ at'["skill"] = at["skill"]
  BY <1>0, <1>1, <1>2, <1>3, WrittenByDispatch DEF UsageDue, RequestOut, ResultOut
<1>6. /\ Starting' = Starting /\ ~Deriving' /\ ~Running' /\ SkillGoes' = SkillGoes
      /\ TurnGoes /\ ~TurnGoes' /\ (ResultDue' <=> ResultDue)
  BY <1>3, <1>5 DEF Starting, Deriving, Running, SkillGoes, TurnGoes, ResultDue, ResultOut
<1>7. /\ Bit(Starting)' <= Bit(Starting) + 0 /\ Bit(SkillGoes)' <= Bit(SkillGoes) + 0
      /\ Bit(ResultDue)' <= Bit(ResultDue) + 0 /\ Bit(ResultOut)' <= Bit(ResultOut) + 0
      /\ Bit(Deriving \/ TurnGoes)' <= Bit(Deriving \/ TurnGoes) + (-1)
      /\ Bit(RequestOut)' <= Bit(RequestOut) + (-1)
      /\ Bit(Deriving \/ Running \/ UsageDue)' <= Bit(Deriving \/ Running \/ UsageDue) + 0
      /\ Bit(TurnGoes)' <= Bit(TurnGoes) + (-1)
  BY <1>5, <1>6, BitMoves
<1>8. /\ Thread' <= Thread + (0 + 0 + (-1) + 1 + 0) /\ ResultsOwed' <= ResultsOwed + ((-1) + 1 + 0)
      /\ TurnsOwed' <= TurnsOwed + (0 + 0 + 0 + 0) /\ LateResults' <= LateResults + ((-1) + 1 + 0)
  BY <1>4, <1>7, Sums
<1>9. LateTurns' = 0
  BY <1>5, <1>6 DEF LateTurns, Bit
<1>10. NoMore
  <2>1. LateTurns' <= LateTurns
    BY <1>9, WorkTypes DEF Bits
  <2> QED BY <1>8, <2>1, WorkTypes, WorkTypesNext DEF NoMore
<1> QED BY <1>1, <1>10, WorkFrame DEF NoMore

\* The result passes from the skill worker to the model's queue.
LEMMA DispatchResult ==
  ASSUME TypeOK, TypeOK', OutboxesFit, QueuesFit, Work, NEW p \in Processes, Dispatch(p),
         Head(outbox[p].todo).type = "SkillCompleted"
  PROVE  Work'
<1> DEFINE e == Head(outbox[p].todo)
           rest == Tail(outbox[p].todo)
<1>0. "llm" \in Processes /\ "skill" \in Processes /\ "driver" \in Processes
  BY DEF Processes, Workers
<1>1. /\ log' = log /\ outbox[p].todo # <<>>
      /\ \A q \in Processes : q # p => at'[q] = at[q]
      /\ at'[p] = IF rest = <<>> THEN AfterPublishing(p) ELSE at[p]
  BY AfterDispatch DEF Dispatch
<1>2. p = "skill"
  BY <1>1, WhoPublishes
<1>3. at["skill"] = "publishing" /\ at'["skill"] = "waiting"
  BY <1>1, <1>2, SkillPublishes, PlaceAfterPublishing, TypeOfEvent
<1>4. Started' <= Started + 1 /\ Asked' <= Asked + 0
  <2>1. Bit(e.type \in {"AgentInputAdded", "SkillCompleted"}) = 1 /\ Bit(e.type = "SkillRequested") = 0
    BY DEF Bit
  <2> HIDE DEF e
  <2> QED BY <2>1, QueuedByDispatch DEF e
<1>5. /\ UsageDue' <=> UsageDue
      /\ Written("llm", "LLMTextEmitted")' <=> Written("llm", "LLMTextEmitted")
      /\ RequestOut' <=> RequestOut
      /\ ResultOut /\ ~ResultOut'
      /\ at'["driver"] = at["driver"] /\ at'["llm"] = at["llm"]
  BY <1>0, <1>1, <1>2, WrittenByDispatch DEF UsageDue, RequestOut, ResultOut
<1>6. /\ Starting' = Starting /\ Deriving' = Deriving /\ Running' = Running /\ SkillGoes /\ ~SkillGoes'
      /\ (TurnGoes' <=> TurnGoes) /\ ~ResultDue'
  BY <1>3, <1>5 DEF Starting, Deriving, Running, SkillGoes, TurnGoes, ResultDue, ResultOut
<1>7. /\ Bit(Starting)' <= Bit(Starting) + 0 /\ Bit(SkillGoes)' <= Bit(SkillGoes) + (-1)
      /\ Bit(ResultDue)' <= Bit(ResultDue) + 0 /\ Bit(ResultOut)' <= Bit(ResultOut) + (-1)
      /\ Bit(Deriving \/ TurnGoes)' <= Bit(Deriving \/ TurnGoes) + 0
      /\ Bit(RequestOut)' <= Bit(RequestOut) + 0
      /\ Bit(Deriving \/ Running \/ UsageDue)' <= Bit(Deriving \/ Running \/ UsageDue) + 0
      /\ Bit(TurnGoes)' <= Bit(TurnGoes) + 0
  BY <1>5, <1>6, BitMoves
<1>8. /\ Thread' <= Thread + (0 + 1 + 0 + 0 + (-1)) /\ ResultsOwed' <= ResultsOwed + (0 + 0 + 0)
      /\ TurnsOwed' <= TurnsOwed + (0 + 1 + (-1) + 0) /\ LateResults' <= LateResults + (0 + 0 + 0)
  BY <1>4, <1>7, Sums
<1>9. LateTurns' = LateTurns
  BY <1>5, <1>6 DEF LateTurns, Bit
<1>10. NoMore
  <2>1. LateTurns' <= LateTurns
    BY <1>9, WorkTypes DEF Bits
  <2> QED BY <1>8, <2>1, WorkTypes, WorkTypesNext DEF NoMore
<1> QED BY <1>1, <1>10, WorkFrame DEF NoMore

LEMMA DispatchWork ==
  ASSUME TypeOK, TypeOK', OutboxesFit, QueuesFit, Work, NEW p \in Processes, Dispatch(p) PROVE Work'
<1>1. Head(outbox[p].todo).type \in Types /\ ~IsTool(Head(outbox[p].todo))
  BY AfterDispatch, TokensOfEvent, WhoPublishes
<1> QED BY <1>1, DispatchQuiet, DispatchInput, DispatchRequest, DispatchResult DEF Types, IsTool

\* A process that dies, or reports a failure, takes up nothing.
LEMMA PersistFailsWork ==
  ASSUME TypeOK, TypeOK', OutboxesFit, QueuesFit, Work, NEW p \in Processes, PersistFails(p) PROVE Work'
<1>0. /\ "llm" \in Processes /\ "skill" \in Processes /\ "driver" \in Processes
      /\ log' = log /\ outbox[p].todo # <<>> /\ ~outbox[p].persisted /\ \E es : Publishes(p, es)
  BY DEF PersistFails, Processes, Workers
<1>1. ~outbox'[p].persisted /\ \A q \in Processes : q # p => outbox'[q] = outbox[q]
  BY <1>0 DEF Publishes, TypeOK
<1>2. /\ \A type : ~Written(p, type) /\ ~Written(p, type)'
      /\ \A q \in Processes : q # p => \A type : /\ Written(q, type)' <=> Written(q, type)
                                                 /\ Unwritten(q, type)' <=> Unwritten(q, type)
  BY <1>0, <1>1 DEF Written, Unwritten, Holding
<1>3. \A q \in Processes : \A type : Written(q, type)' => Written(q, type)
  BY <1>2
<1>4. (RequestOut' => RequestOut) /\ (ResultOut' => ResultOut)
  BY <1>0, <1>3 DEF RequestOut, ResultOut
<1>5. CASE p = "skill" /\ Head(outbox[p].todo) = SkillCancelled
  <2>1. UNCHANGED <<at, queue>>
    BY <1>5, AfterReportedFault
  <2>2. Started' <= Started /\ Asked' <= Asked
    BY <2>1, QueuedLess
  <2>3. (UsageDue' => UsageDue) /\ (Written("llm", "LLMTextEmitted")' <=> Written("llm", "LLMTextEmitted"))
    BY <1>0, <1>2, <1>5 DEF UsageDue
  <2>4. ~ResultOut /\ ~ResultOut'
    BY <1>2, <1>5 DEF ResultOut
  <2>5. /\ (Starting' => Starting) /\ (Deriving' => Deriving) /\ (Running' => Running) /\ (SkillGoes' => SkillGoes)
        /\ (TurnGoes' => TurnGoes) /\ (ResultDue' => ResultDue)
    BY <2>1, <2>3, <2>4 DEF Starting, Deriving, Running, SkillGoes, TurnGoes, ResultDue, ResultOut
  <2>6. Quiet
    BY <1>4, <2>2, <2>3, <2>5 DEF Quiet
  <2> QED BY <1>0, <2>6, QuietNoMore, WorkFrame DEF NoMore
<1>6. CASE ~(p = "skill" /\ Head(outbox[p].todo) = SkillCancelled)
  <2>1. /\ \A q \in Processes : q # p => at'[q] = at[q]
        /\ p # "driver" => at'[p] = "crashed"
        /\ p = "driver" => at'[p] # "publishing"
        /\ \A w \in Workers : queue'[w] = IF w = p THEN <<>> ELSE queue[w]
    BY <1>6, AfterLethalFault
  <2>2. Started' <= Started /\ Asked' <= Asked
    <3>1. \A w \in {"llm", "skill"} : queue'[w] = queue[w] \/ queue'[w] = <<>>
      BY <2>1 DEF Workers
    <3> QED BY <3>1, QueuedLess
  <2>3. Starting' => Starting
    BY <1>0, <2>1 DEF Starting
  <2>4. /\ (Deriving' => Deriving) /\ (Running' => Running) /\ (UsageDue' => UsageDue) /\ (TurnGoes' => TurnGoes)
    <3>1. CASE p = "llm"
      <4>1. at'["llm"] = "crashed"
        BY <2>1, <3>1
      <4>2. ~UsageDue'
        <5>1. OutboxFits("llm")'
          BY <1>0, PersistFailsFits DEF OutboxesFit
        <5>2. outbox'["llm"].todo = <<>>
          BY <4>1, <5>1 DEF OutboxFits
        <5> QED BY <5>2 DEF UsageDue, Unwritten, Holding
      <4> QED BY <4>1, <4>2 DEF Deriving, Running, TurnGoes
    <3>2. CASE p # "llm"
      <4>1. /\ at'["llm"] = at["llm"] /\ (Unwritten("llm", "LLMActionEmitted")' <=> Unwritten("llm", "LLMActionEmitted"))
            /\ (Written("llm", "LLMTextEmitted")' <=> Written("llm", "LLMTextEmitted"))
        BY <1>0, <1>2, <2>1, <3>2
      <4> QED BY <4>1 DEF Deriving, Running, UsageDue, TurnGoes
    <3> QED BY <3>1, <3>2
  <2>5. (SkillGoes' => SkillGoes) /\ (ResultDue' => ResultDue)
    <3>1. CASE p = "skill"
      <4>1. at'["skill"] = "crashed"
        BY <2>1, <3>1
      <4> QED BY <4>1 DEF SkillGoes, ResultDue
    <3>2. CASE p # "skill"
      <4>1. at'["skill"] = at["skill"] /\ (Written("skill", "SkillCompleted")' <=> Written("skill", "SkillCompleted"))
        BY <1>0, <1>2, <2>1, <3>2
      <4> QED BY <4>1 DEF SkillGoes, ResultDue
    <3> QED BY <3>1, <3>2
  <2>6. Quiet
    BY <1>4, <2>2, <2>3, <2>4, <2>5 DEF Quiet
  <2> QED BY <1>0, <2>6, QuietNoMore, WorkFrame DEF NoMore
<1> QED BY <1>5, <1>6

\* The breaker and the driver do no work themselves.
LEMMA OutsidersWork ==
  ASSUME TypeOK, TypeOK', OutboxesFit, QueuesFit, Work, NEW p \in {"breaker", "driver"}, OwnStep(p) PROVE Work'
<1>0. p \in Processes /\ "llm" \in Processes /\ "skill" \in Processes /\ "driver" \in Processes
      /\ "llm" \in Workers /\ "skill" \in Workers
  BY DEF Processes, Workers
<1>1. /\ log' = log /\ \A q \in Processes : q # p => at'[q] = at[q] /\ outbox'[q] = outbox[q]
      /\ queue'["llm"] = queue["llm"] /\ queue'["skill"] = queue["skill"]
  BY <1>0, OwnStepAlone
<1>2. Started' <= Started /\ Asked' <= Asked
  BY <1>1, QueuedLess
<1>3. Starting' => Starting
  <2>1. CASE p = "breaker"
    BY <1>0, <1>1, <2>1 DEF Starting
  <2>2. CASE p = "driver"
    <3>1. at'["driver"] \in {"closing", "gathering", "returned"}
      BY <1>0, <2>2, AtAfterMove DEF OwnStep, Close, GatherReturns, Move
    <3> QED BY <3>1 DEF Starting
  <2> QED BY <2>1, <2>2
<1>4. at'["llm"] = at["llm"] /\ outbox'["llm"] = outbox["llm"] /\ at'["skill"] = at["skill"] /\ outbox'["skill"] = outbox["skill"]
  BY <1>0, <1>1
<1>5. /\ (Deriving' => Deriving) /\ (Running' => Running) /\ (UsageDue' => UsageDue) /\ (TurnGoes' => TurnGoes)
      /\ (RequestOut' => RequestOut) /\ (SkillGoes' => SkillGoes) /\ (ResultDue' => ResultDue) /\ (ResultOut' => ResultOut)
  BY <1>4 DEF Deriving, Running, UsageDue, TurnGoes, RequestOut, SkillGoes, ResultDue, ResultOut, Unwritten, Written, Holding
<1>6. Quiet
  BY <1>2, <1>3, <1>5 DEF Quiet
<1> QED BY <1>1, <1>6, QuietNoMore, WorkFrame DEF NoMore

\* The other worker and the driver, while one of the two works.
LEMMA OthersWork ==
  ASSUME TypeOK, NEW p \in {"llm", "skill"}, OwnStep(p)
  PROVE  /\ Starting' = Starting /\ log' = log
         /\ p = "skill" => /\ Deriving' = Deriving /\ Running' = Running /\ UsageDue' = UsageDue
                           /\ TurnGoes' = TurnGoes /\ RequestOut' = RequestOut
         /\ p = "llm" => SkillGoes' = SkillGoes /\ ResultDue' = ResultDue /\ ResultOut' = ResultOut
<1>1. p \in Processes /\ "llm" \in Processes /\ "skill" \in Processes /\ "driver" \in Processes
  BY DEF Processes, Workers
<1>2. log' = log /\ \A q \in Processes : q # p => at'[q] = at[q] /\ outbox'[q] = outbox[q]
  BY <1>1, OwnStepAlone
<1>3. p = "skill" => at'["llm"] = at["llm"] /\ outbox'["llm"] = outbox["llm"]
  BY <1>1, <1>2
<1>4. p = "llm" => at'["skill"] = at["skill"] /\ outbox'["skill"] = outbox["skill"]
  BY <1>1, <1>2
<1>5. Starting' = Starting
  BY <1>1, <1>2 DEF Starting
<1>6. p = "skill" => /\ Deriving' = Deriving /\ Running' = Running /\ UsageDue' = UsageDue
                     /\ TurnGoes' = TurnGoes /\ RequestOut' = RequestOut
  BY <1>3 DEF Deriving, Running, UsageDue, TurnGoes, RequestOut, Unwritten, Written, Holding
<1>7. p = "llm" => SkillGoes' = SkillGoes /\ ResultDue' = ResultDue /\ ResultOut' = ResultOut
  BY <1>4 DEF SkillGoes, ResultDue, ResultOut, Written, Holding
<1> QED BY <1>2, <1>5, <1>6, <1>7

\* The model worker takes an input, derives the state, and starts a turn.
LEMMA LlmTakeWork == ASSUME TypeOK, TypeOK', OutboxesFit, OutboxesFit', QueuesFit, Work, NEW e, LlmTake(e) PROVE Work'
<1>0. "llm" \in Processes /\ "llm" \in Workers /\ Take("llm", e) /\ OwnStep("llm")
  BY DEF LlmTake, OwnStep, Processes, Workers
<1>1. /\ at["llm"] = "waiting" /\ e \in Events /\ queue["llm"] # <<>> /\ e = Head(queue["llm"])
      /\ at'["llm"] = IF IsPause(e) THEN "done" ELSE "deriving"
  BY <1>0, QueueAfterTake, AtAfterMove DEF LlmTake, Move
<1>2. \A type : ~Written("llm", type) /\ ~Written("llm", type)' /\ ~Unwritten("llm", type) /\ ~Unwritten("llm", type)'
  <2>1. UNCHANGED outbox
    BY DEF LlmTake
  <2>2. \A type : ~Written("llm", type) /\ ~Unwritten("llm", type)
    BY <1>0, <1>1, NothingWritten
  <2> QED BY <2>1, <2>2 DEF Written, Unwritten, Holding
<1>3. /\ ~UsageDue /\ ~UsageDue' /\ ~RequestOut /\ ~RequestOut' /\ ~Deriving /\ ~Running /\ ~Running'
      /\ ~TurnGoes /\ ~TurnGoes' /\ (Deriving' <=> ~IsPause(e))
  BY <1>1, <1>2 DEF UsageDue, RequestOut, Deriving, Running, TurnGoes
<1>4. Started' + Bit(e.type \in {"AgentInputAdded", "SkillCompleted"}) <= Started /\ Asked' = Asked
  BY <1>0, StartedTaken
<1>5. /\ Starting' = Starting /\ log' = log /\ SkillGoes' = SkillGoes /\ ResultDue' = ResultDue /\ ResultOut' = ResultOut
  BY <1>0, OthersWork
<1>6. Bit(~IsPause(e)) <= Bit(e.type \in {"AgentInputAdded", "SkillCompleted"})
  <2>1. e.type \in Reacts["llm"]
    <3>1. 1 \in DOMAIN queue["llm"] /\ e = queue["llm"][1]
      <4>1. queue["llm"] \in Seq(Events)
        BY <1>0 DEF TypeOK
      <4> QED BY <1>1, <4>1
    <3> QED BY <1>0, <3>1 DEF QueuesFit, QueueFits
  <2> QED BY <2>1 DEF Reacts, IsPause, Bit
<1>7. CASE IsPause(e)
  <2>1. ~Deriving' /\ Started' <= Started /\ Asked' <= Asked
    BY <1>3, <1>4, <1>7, BitType, WorkTypes, WorkTypesNext
  <2>2. Quiet
    BY <1>3, <1>5, <2>1 DEF Quiet
  <2> QED BY <1>5, <2>2, QuietNoMore, WorkFrame DEF NoMore
<1>8. CASE ~IsPause(e)
  <2>1. Started' <= Started + (-1) /\ Asked' <= Asked + 0
    <3>1. Bit(~IsPause(e)) = 1
      BY <1>8, BitType
    <3> QED BY <1>4, <1>6, <3>1, BitType, WorkTypes, WorkTypesNext
  <2>2. /\ Bit(Starting)' <= Bit(Starting) + 0 /\ Bit(SkillGoes)' <= Bit(SkillGoes) + 0
        /\ Bit(ResultDue)' <= Bit(ResultDue) + 0 /\ Bit(ResultOut)' <= Bit(ResultOut) + 0
        /\ Bit(Deriving \/ TurnGoes)' <= Bit(Deriving \/ TurnGoes) + 1
        /\ Bit(RequestOut)' <= Bit(RequestOut) + 0
        /\ Bit(Deriving \/ Running \/ UsageDue)' <= Bit(Deriving \/ Running \/ UsageDue) + 1
        /\ Bit(TurnGoes)' <= Bit(TurnGoes) + 0
    BY <1>3, <1>5, BitMoves
  <2>3. /\ Thread' <= Thread + (0 + (-1) + 1 + 0 + 0) /\ ResultsOwed' <= ResultsOwed + (0 + 0 + 0)
        /\ TurnsOwed' <= TurnsOwed + (0 + (-1) + 0 + 1) /\ LateResults' <= LateResults + (0 + 0 + 0)
    BY <2>1, <2>2, Sums
  <2>4. LateTurns' = 0
    BY <1>3 DEF LateTurns, Bit
  <2>5. NoMore
    <3>1. LateTurns' <= LateTurns
      BY <2>4, WorkTypes DEF Bits
    <3> QED BY <2>3, <3>1, WorkTypes, WorkTypesNext DEF NoMore
  <2> QED BY <1>5, <2>5, WorkFrame DEF NoMore
<1> QED BY <1>7, <1>8

\* The turn ends unsaid.
LEMMA LlmStopsWork ==
  ASSUME TypeOK, TypeOK', OutboxesFit, QueuesFit, Work, OwnStep("llm"),
         at'["llm"] \in {"done", "crashed"}, UNCHANGED outbox, queue' = [queue EXCEPT !["llm"] = <<>>]
  PROVE  Work'
<1>0. "llm" \in Processes /\ "llm" \in Workers
  BY DEF Processes, Workers
<1>1. Started' <= Started /\ Asked' <= Asked
  BY QueuedLess DEF TypeOK, Workers
<1>2. \A type : ~Written("llm", type)' /\ ~Unwritten("llm", type)'
  <2>1. \A type : ~Written("llm", type) /\ ~Unwritten("llm", type)
    BY <1>0, OwnStepAlone, NothingWritten
  <2> QED BY <2>1 DEF Written, Unwritten, Holding
<1>3. ~UsageDue' /\ ~RequestOut' /\ ~Deriving' /\ ~Running' /\ ~TurnGoes'
  BY <1>2 DEF UsageDue, RequestOut, Deriving, Running, TurnGoes
<1>4. Starting' = Starting /\ log' = log /\ SkillGoes' = SkillGoes /\ ResultDue' = ResultDue /\ ResultOut' = ResultOut
  BY OthersWork
<1>5. Quiet
  BY <1>1, <1>3, <1>4 DEF Quiet
<1> QED BY <1>4, <1>5, QuietNoMore, WorkFrame DEF NoMore

LEMMA LlmDeriveWork ==
  ASSUME TypeOK, TypeOK', OutboxesFit, QueuesFit, SnapshotIsReplay, Work, LlmDerive PROVE Work'
<1>0. "llm" \in Processes /\ "llm" \in Workers /\ OwnStep("llm") /\ at["llm"] = "deriving"
  BY DEF LlmDerive, OwnStep, Processes, Workers
<1>1. snapshot'.paused <=> HasPause(log)
  BY LlmDeriveSnapshot
<1>2. CASE snapshot'.paused
  <2>1. Move("llm", "done") /\ queue' = [queue EXCEPT !["llm"] = <<>>] /\ UNCHANGED outbox
    BY <1>2 DEF LlmDerive
  <2>2. at'["llm"] = "done"
    BY <1>0, <2>1, AtAfterMove DEF Move
  <2> QED BY <1>0, <2>1, <2>2, LlmStopsWork
<1>3. CASE ~snapshot'.paused
  <2>1. Move("llm", "running") /\ UNCHANGED <<queue, outbox>>
    BY <1>3 DEF LlmDerive
  <2>2. at'["llm"] = "running"
    BY <1>0, <2>1, AtAfterMove DEF Move
  <2>3. \A type : ~Written("llm", type) /\ ~Unwritten("llm", type)
    BY <1>0, NothingWritten
  <2>4. \A type : ~Written("llm", type)' /\ ~Unwritten("llm", type)'
    BY <2>1, <2>3 DEF Written, Unwritten, Holding
  <2>5. Deriving /\ ~Deriving' /\ Running' /\ TurnGoes' /\ ~RequestOut'
    BY <1>0, <2>2, <2>4 DEF Deriving, Running, TurnGoes, RequestOut
  <2>6. Starting' = Starting /\ log' = log /\ SkillGoes' = SkillGoes /\ ResultDue' = ResultDue /\ ResultOut' = ResultOut
    BY <1>0, OthersWork
  <2>7. Started' <= Started + 0 /\ Asked' <= Asked + 0
    <3>1. Started' = Started /\ Asked' = Asked
      BY <2>1 DEF Started, Asked
    <3> QED BY <3>1, WorkTypes
  <2>8. /\ Bit(Starting)' <= Bit(Starting) + 0 /\ Bit(SkillGoes)' <= Bit(SkillGoes) + 0
        /\ Bit(ResultDue)' <= Bit(ResultDue) + 0 /\ Bit(ResultOut)' <= Bit(ResultOut) + 0
        /\ Bit(Deriving \/ TurnGoes)' <= Bit(Deriving \/ TurnGoes) + 0
        /\ Bit(RequestOut)' <= Bit(RequestOut) + 0
        /\ Bit(Deriving \/ Running \/ UsageDue)' <= Bit(Deriving \/ Running \/ UsageDue) + 0
        /\ Bit(TurnGoes)' <= Bit(TurnGoes) + 1
    BY <2>5, <2>6, BitMoves
  <2>9. /\ Thread' <= Thread + (0 + 0 + 0 + 0 + 0) /\ ResultsOwed' <= ResultsOwed + (0 + 0 + 0)
        /\ TurnsOwed' <= TurnsOwed + (0 + 0 + 0 + 0)
    BY <2>7, <2>8, Sums
  <2>10. Thread' <= Thread /\ ResultsOwed' <= ResultsOwed /\ TurnsOwed' <= TurnsOwed
    BY <2>9, WorkTypes, WorkTypesNext
  <2> QED BY <1>1, <1>3, <2>6, <2>10, WorkFrame
<1> QED BY <1>2, <1>3

LEMMA LlmReturnsWork ==
  ASSUME TypeOK, TypeOK', OutboxesFit, QueuesFit, Work,
         NEW n \in TurnTokens, NEW reply \in Replies, LlmReturns(n, reply)
  PROVE  Work'
<1>0. "llm" \in Processes /\ OwnStep("llm") /\ at["llm"] = "running" /\ UNCHANGED queue
  BY DEF LlmReturns, OwnStep, Processes, Workers
<1>1. at'["llm"] = "publishing"
  BY <1>0, AtAfterMove DEF LlmReturns, Move
<1>2. <<Action(n)>> \o reply \in Seq(Events) /\ Publishes("llm", <<Action(n)>> \o reply)
  BY RepliesType DEF LlmReturns
<1>3. ~outbox'["llm"].persisted
  BY <1>0, <1>2, NothingWritten, OutboxAfterPublishes
<1>4. \A type : ~Written("llm", type)'
  BY <1>3 DEF Written
<1>5. Running /\ TurnGoes /\ ~RequestOut' /\ ~Deriving' /\ ~Running'
  BY <1>0, <1>1, <1>4 DEF Running, TurnGoes, RequestOut, Deriving
<1>6. Starting' = Starting /\ log' = log /\ SkillGoes' = SkillGoes /\ ResultDue' = ResultDue /\ ResultOut' = ResultOut
  BY <1>0, OthersWork
<1>7. Started' <= Started + 0 /\ Asked' <= Asked + 0
  <2>1. Started' = Started /\ Asked' = Asked
    BY <1>0 DEF Started, Asked
  <2> QED BY <2>1, WorkTypes
<1>8. /\ Bit(Starting)' <= Bit(Starting) + 0 /\ Bit(SkillGoes)' <= Bit(SkillGoes) + 0
      /\ Bit(ResultDue)' <= Bit(ResultDue) + 0 /\ Bit(ResultOut)' <= Bit(ResultOut) + 0
      /\ Bit(Deriving \/ TurnGoes)' <= Bit(Deriving \/ TurnGoes) + 0
      /\ Bit(RequestOut)' <= Bit(RequestOut) + 0
      /\ Bit(Deriving \/ Running \/ UsageDue)' <= Bit(Deriving \/ Running \/ UsageDue) + 0
      /\ Bit(TurnGoes)' <= Bit(TurnGoes) + 0
  BY <1>5, <1>6, BitMoves
<1>9. /\ Thread' <= Thread + (0 + 0 + 0 + 0 + 0) /\ ResultsOwed' <= ResultsOwed + (0 + 0 + 0)
      /\ TurnsOwed' <= TurnsOwed + (0 + 0 + 0 + 0) /\ LateResults' <= LateResults + (0 + 0 + 0)
  BY <1>7, <1>8, Sums
<1>10. LateTurns = 1
  BY <1>5 DEF LateTurns, Bit
<1>11. NoMore
  <2>1. LateTurns' <= LateTurns
    BY <1>10, WorkTypesNext DEF Bits
  <2> QED BY <1>9, <2>1, WorkTypes, WorkTypesNext DEF NoMore
<1> QED BY <1>6, <1>11, WorkFrame DEF NoMore

LEMMA SkillTakeWork == ASSUME TypeOK, TypeOK', OutboxesFit, QueuesFit, Work, NEW e, SkillTake(e) PROVE Work'
<1>0. "skill" \in Processes /\ "skill" \in Workers /\ Take("skill", e) /\ OwnStep("skill")
  BY DEF SkillTake, OwnStep, Processes, Workers
<1>1. /\ at["skill"] = "waiting" /\ e \in Events /\ queue["skill"] # <<>> /\ e = Head(queue["skill"])
      /\ at'["skill"] = IF IsPause(e) THEN "done" ELSE "running"
  BY <1>0, QueueAfterTake, AtAfterMove DEF SkillTake, Move
<1>2. ~Written("skill", "SkillCompleted") /\ ~Written("skill", "SkillCompleted")'
  <2>1. UNCHANGED outbox
    BY DEF SkillTake
  <2>2. \A type : ~Written("skill", type)
    BY <1>0, <1>1, NothingWritten
  <2> QED BY <2>1, <2>2 DEF Written, Holding
<1>3. ~ResultOut' /\ ~ResultDue /\ ~SkillGoes /\ (ResultDue' <=> ~IsPause(e)) /\ (SkillGoes' <=> ~IsPause(e))
  BY <1>1, <1>2 DEF ResultOut, ResultDue, SkillGoes
<1>4. Asked' + Bit(e.type = "SkillRequested") <= Asked /\ Started' = Started
  BY <1>0, AskedTaken
<1>5. /\ Starting' = Starting /\ log' = log
      /\ Deriving' = Deriving /\ Running' = Running /\ UsageDue' = UsageDue
      /\ TurnGoes' = TurnGoes /\ RequestOut' = RequestOut
  BY <1>0, OthersWork
<1>6. Bit(~IsPause(e)) <= Bit(e.type = "SkillRequested")
  <2>1. e.type \in Reacts["skill"]
    <3>1. 1 \in DOMAIN queue["skill"] /\ e = queue["skill"][1]
      <4>1. queue["skill"] \in Seq(Events)
        BY <1>0 DEF TypeOK
      <4> QED BY <1>1, <4>1
    <3> QED BY <1>0, <3>1 DEF QueuesFit, QueueFits
  <2> QED BY <2>1 DEF Reacts, IsPause, Bit
<1>7. CASE IsPause(e)
  <2>1. ~ResultDue' /\ ~SkillGoes' /\ Started' <= Started /\ Asked' <= Asked
    BY <1>3, <1>4, <1>7, BitType, WorkTypes, WorkTypesNext
  <2>2. Quiet
    BY <1>3, <1>5, <2>1 DEF Quiet
  <2> QED BY <1>5, <2>2, QuietNoMore, WorkFrame DEF NoMore
<1>8. CASE ~IsPause(e)
  <2>1. Asked' <= Asked + (-1) /\ Started' <= Started + 0
    <3>1. Bit(~IsPause(e)) = 1
      BY <1>8, BitType
    <3> QED BY <1>4, <1>6, <3>1, BitType, WorkTypes, WorkTypesNext
  <2>2. /\ Bit(Starting)' <= Bit(Starting) + 0 /\ Bit(SkillGoes)' <= Bit(SkillGoes) + 1
        /\ Bit(ResultDue)' <= Bit(ResultDue) + 1 /\ Bit(ResultOut)' <= Bit(ResultOut) + 0
        /\ Bit(Deriving \/ TurnGoes)' <= Bit(Deriving \/ TurnGoes) + 0
        /\ Bit(RequestOut)' <= Bit(RequestOut) + 0
        /\ Bit(Deriving \/ Running \/ UsageDue)' <= Bit(Deriving \/ Running \/ UsageDue) + 0
        /\ Bit(TurnGoes)' <= Bit(TurnGoes) + 0
    BY <1>3, <1>5, BitMoves
  <2>3. /\ Thread' <= Thread + (0 + 0 + 0 + (-1) + 1) /\ ResultsOwed' <= ResultsOwed + (0 + (-1) + 1)
        /\ TurnsOwed' <= TurnsOwed + (0 + 0 + 0 + 0) /\ LateResults' <= LateResults + (0 + (-1) + 1)
    BY <2>1, <2>2, Sums
  <2>4. LateTurns' = LateTurns
    BY <1>5 DEF LateTurns
  <2>5. NoMore
    <3>1. LateTurns' <= LateTurns
      BY <2>4, WorkTypes DEF Bits
    <3> QED BY <2>3, <3>1, WorkTypes, WorkTypesNext DEF NoMore
  <2> QED BY <1>5, <2>5, WorkFrame DEF NoMore
<1> QED BY <1>7, <1>8

LEMMA SkillReturnsWork ==
  ASSUME TypeOK, TypeOK', OutboxesFit, QueuesFit, Work, NEW st \in SkillStatuses, SkillReturns(st) PROVE Work'
<1>0. "skill" \in Processes /\ OwnStep("skill") /\ at["skill"] = "running" /\ UNCHANGED queue
  BY DEF SkillReturns, OwnStep, Processes, Workers
<1>1. at'["skill"] = "publishing"
  BY <1>0, AtAfterMove DEF SkillReturns, Move
<1>2. ~outbox'["skill"].persisted
  <2>1. ~outbox["skill"].persisted
    BY <1>0, NothingWritten
  <2>2. \E es : Publishes("skill", es)
    BY DEF SkillReturns
  <2> QED BY <1>0, <2>1, <2>2 DEF Publishes, TypeOK
<1>3. ~ResultOut' /\ SkillGoes /\ ResultDue
  BY <1>0, <1>2 DEF ResultOut, Written, SkillGoes, ResultDue
<1>4. /\ Starting' = Starting /\ log' = log
      /\ Deriving' = Deriving /\ Running' = Running /\ UsageDue' = UsageDue
      /\ TurnGoes' = TurnGoes /\ RequestOut' = RequestOut
  BY <1>0, OthersWork
<1>5. Started' <= Started /\ Asked' <= Asked
  BY <1>0, QueuedLess
<1>6. Quiet
  BY <1>3, <1>4, <1>5 DEF Quiet
<1> QED BY <1>4, <1>6, QuietNoMore, WorkFrame DEF NoMore

LEMMA WorkStep ==
  ASSUME TypeOK, TypeOK', OutboxesFit, OutboxesFit', QueuesFit, SnapshotIsReplay, Work, NEW p \in Processes,
         StepOf(p)
  PROVE  Work'
<1>1. CASE OwnStep(p)
  <2>1. CASE p \in {"breaker", "driver"}
    BY <1>1, <2>1, OutsidersWork
  <2>2. CASE p = "llm"
    <3>1. ASSUME LlmRaises PROVE Work'
      <4>1. at'["llm"] = "crashed" /\ UNCHANGED outbox /\ queue' = [queue EXCEPT !["llm"] = <<>>]
        BY <2>2, <3>1, AtAfterMove DEF LlmRaises, Move
      <4> QED BY <1>1, <2>2, <4>1, LlmStopsWork
    <3> QED BY <1>1, <2>2, <3>1, LlmTakeWork, LlmDeriveWork, LlmReturnsWork DEF OwnStep
  <2>3. CASE p = "skill"
    BY <1>1, <2>3, SkillTakeWork, SkillReturnsWork DEF OwnStep
  <2> QED BY <2>1, <2>2, <2>3 DEF Processes, Workers
<1>2. CASE Persist(p)
  BY <1>2, PersistWork
<1>3. CASE Dispatch(p)
  BY <1>3, DispatchWork
<1>4. CASE PersistFails(p)
  BY <1>4, PersistFailsWork
<1> QED BY <1>1, <1>2, <1>3, <1>4 DEF StepOf

-----------------------------------------------------------------------------
(* Shape, and the snapshot, whatever the step *)

LEMMA LogStep ==
  ASSUME TypeOK, NEW p \in Processes, StepOf(p)
  PROVE  log' = log \/ \E e \in Events : log' = Append(log, e)
<1>1. CASE OwnStep(p)
  BY <1>1, OwnStepAlone
<1>2. CASE Persist(p)
  BY <1>2, AfterPersist
<1>3. CASE Dispatch(p)
  BY <1>3 DEF Dispatch
<1>4. CASE PersistFails(p)
  BY <1>4 DEF PersistFails
<1> QED BY <1>1, <1>2, <1>3, <1>4 DEF StepOf

LEMMA TypeStep == ASSUME TypeOK, OutboxesFit, NEW p \in Processes, StepOf(p) PROVE TypeOK'
<1>1. CASE OwnStep(p)
  BY <1>1, BreakerStepType, LlmTakeType, LlmDeriveType, LlmRaisesType, LlmReturnsType, SkillTakeType,
     SkillReturnsType, CloseType, GatherType DEF OwnStep
<1>2. CASE Persist(p)
  BY <1>2, PersistType
<1>3. CASE Dispatch(p)
  BY <1>3, DispatchType
<1>4. CASE PersistFails(p)
  BY <1>4, PersistFailsType
<1> QED BY <1>1, <1>2, <1>3, <1>4 DEF StepOf

LEMMA FitsStep ==
  ASSUME TypeOK, OutboxesFit, QueuesFit, NEW p \in Processes, StepOf(p) PROVE OutboxesFit' /\ QueuesFit'
<1>1. CASE OwnStep(p)
  BY <1>1, BreakerStepFits, LlmStepsFit, SkillStepsFit, DriverStepsFit,
     BreakerStepQueues, LlmStepsQueues, SkillStepsQueues, DriverStepsQueues DEF OwnStep
<1>2. CASE Persist(p)
  BY <1>2, PersistFits, PersistQueues
<1>3. CASE Dispatch(p)
  BY <1>3, DispatchFits, DispatchQueues
<1>4. CASE PersistFails(p)
  BY <1>4, PersistFailsFits, PersistFailsQueues
<1> QED BY <1>1, <1>2, <1>3, <1>4 DEF StepOf

LEMMA BreakerKeepsUpStep ==
  ASSUME TypeOK, TypeOK', OutboxesFit, OutboxesFit', BreakerKeepsUp, NEW p \in Processes, StepOf(p)
  PROVE  BreakerKeepsUp'
<1>1. CASE OwnStep(p)
  BY <1>1, BreakerStepBreaker, OtherStepsBreaker DEF OwnStep
<1>2. CASE Persist(p)
  BY <1>2, PersistBreaker
<1>3. CASE Dispatch(p)
  BY <1>3, DispatchBreaker
<1>4. CASE PersistFails(p)
  BY <1>4, PersistFailsBreaker
<1> QED BY <1>1, <1>2, <1>3, <1>4 DEF StepOf

LEMMA SnapshotStep ==
  ASSUME TypeOK, SnapshotIsReplay, NEW p \in Processes, StepOf(p) PROVE SnapshotIsReplay'
<1>1. CASE LlmDerive
  BY <1>1, LlmDeriveSnapshot
<1>2. CASE ~LlmDerive
  <2>1. snapshot' = snapshot
    BY <1>2 DEF StepOf, OwnStep, BreakerStep, LlmTake, LlmRaises, LlmReturns, SkillTake, SkillReturns, Close,
                GatherReturns, Persist, Dispatch, PersistFails
  <2> QED BY <2>1, LogStep, SnapshotFrame
<1> QED BY <1>1, <1>2

-----------------------------------------------------------------------------
(* One thread of work, in every prefix of the log *)

\* The log grows by one row at most, a tool's only while its turn is open.
Grows == log' = log \/ \E e \in Events : log' = Append(log, e) /\ (IsTool(e) => TurnOpen')

LEMMA ThreadStep ==
  ASSUME TypeOK, TypeOK', OneThreadOfWork, Work', CallsFit', faults <= faults', Grows
  PROVE  OneThreadOfWork'
<1> DEFINE Sound(s) == /\ Count(s, "SkillCompleted") <= Count(s, "SkillRequested")
                       /\ Count(s, "LLMActionEmitted") <= 1 + Count(s, "SkillCompleted")
           Open(s) == Count(s, "LLMActionEmitted") <= Count(s, "SkillCompleted") /\ Count(s, "LLMTextEmitted") = 0
           Begun(s, n) == Count(s, "ToolCompleted") <= Count(s, "SkillCalled") + n
<1>1. log \in Seq(Events) /\ log' \in Seq(Events) /\ faults \in Nat /\ faults' \in Nat /\ calls' \in Nat
  BY LimitsAreNaturals DEF TypeOK
<1>2. Count(log', "LLMTextEmitted") <= 1
  <2>1. Thread' \in Nat /\ Count(log', "LLMTextEmitted") \in Nat
    BY <1>1, WorkTypesNext, CountType
  <2> QED BY <2>1 DEF Work, OneThread
<1>3. Sound(log')
  <2>1. ResultsOwed' \in Nat /\ TurnsOwed' \in Nat
    BY WorkTypesNext
  <2>2. /\ Count(log', "SkillCompleted") \in Nat /\ Count(log', "SkillRequested") \in Nat
        /\ Count(log', "LLMActionEmitted") \in Nat
    BY <1>1, CountType
  <2> QED BY <2>1, <2>2 DEF Work, WorkIsOwed
<1>4. Begun(log', faults')
  <2>1. Count(log', "ToolCompleted") \in Nat /\ Count(log', "SkillCalled") \in Nat
    BY <1>1, CountType
  <2> QED BY <1>1, <2>1 DEF CallsFit
<1>5. ASSUME NEW n \in DOMAIN log'
      PROVE  Sound(SubSeq(log', 1, n)) /\ (IsTool(log'[n]) => Open(SubSeq(log', 1, n))) /\ Begun(SubSeq(log', 1, n), faults')
  <2>1. CASE n \in DOMAIN log
    <3>1. /\ n \in 0..Len(log) /\ Sound(SubSeq(log, 1, n))
          /\ IsTool(log[n]) => Open(SubSeq(log, 1, n))
          /\ Begun(SubSeq(log, 1, n), faults)
      BY <1>1, <2>1 DEF OneThreadOfWork
    <3>2. SubSeq(log', 1, n) = SubSeq(log, 1, n) /\ log'[n] = log[n]
      <4>1. n \in 0..Len(log) /\ n \in 1..Len(log)
        BY <1>1, <2>1, <3>1
      <4>2. \A e \in Events : SubSeq(Append(log, e), 1, n) = SubSeq(log, 1, n) /\ Append(log, e)[n] = log[n]
        BY <1>1, <4>1, PrefixAppend, AppendedAt DEF Prefix
      <4>3. CASE log' = log
        BY <4>3
      <4>4. ASSUME NEW e \in Events, log' = Append(log, e) PROVE SubSeq(log', 1, n) = SubSeq(log, 1, n) /\ log'[n] = log[n]
        BY <4>2, <4>4
      <4> QED BY <4>3, <4>4 DEF Grows
    <3>3. Begun(SubSeq(log, 1, n), faults')
      <4>1. SubSeq(log, 1, n) \in Seq(Events)
        <5>1. n \in 0..Len(log)
          BY <3>1
        <5> QED BY <1>1, <5>1, PrefixType DEF Prefix
      <4>2. Count(SubSeq(log, 1, n), "ToolCompleted") \in Nat /\ Count(SubSeq(log, 1, n), "SkillCalled") \in Nat
        BY <4>1, CountType
      <4> QED BY <1>1, <3>1, <4>2
    <3>4. SubSeq(log', 1, n) = SubSeq(log, 1, n)
      BY <3>2
    <3>5. Sound(SubSeq(log', 1, n))
      BY <3>1, <3>4
    <3>6. Begun(SubSeq(log', 1, n), faults')
      BY <3>3, <3>4
    <3>7. IsTool(log'[n]) => Open(SubSeq(log', 1, n))
      BY <3>1, <3>2, <3>4
    <3> QED BY <3>5, <3>6, <3>7
  <2>2. CASE n \notin DOMAIN log
    <3>1. n = Len(log') /\ (IsTool(log'[n]) => TurnOpen')
      BY <1>1, <1>5, <2>2 DEF Grows
    <3>2. TurnOpen' => Open(log')
      BY DEF TurnOpen
    <3>3. SubSeq(log', 1, n) = log'
      BY <1>1, <3>1, PrefixAll DEF Prefix
    <3> HIDE DEF Sound, Open, Begun
    <3> QED BY <1>3, <1>4, <3>1, <3>2, <3>3
  <2> QED BY <2>1, <2>2
<1> QED BY <1>2, <1>5 DEF OneThreadOfWork

LEMMA LateToolsStep ==
  ASSUME TypeOK, TypeOK', LateTools, Grows
  PROVE  LateTools'
<1>1. LateLog \in Seq(Events)
  BY LateLogType
<1>2. CASE log' = log
  <2>1. LateLog' = LateLog
    BY <1>2 DEF LateLog, AfterPause
  <2> QED BY <2>1 DEF LateTools
<1>3. ASSUME NEW e \in Events, log' = Append(log, e), IsTool(e) => TurnOpen'
      PROVE  LateTools'
  <2>1. CASE ~HasPause(log)
    <3>1. LateLog' = <<>>
      BY <1>3, <2>1, LateLogAppend
    <3> QED BY <3>1 DEF LateTools
  <2>2. CASE HasPause(log)
    <3>1. LateLog' = Append(LateLog, e)
      BY <1>3, <2>2, LateLogAppend
    <3>2. /\ LateLog' \in Seq(Events) /\ Len(LateLog') = Len(LateLog) + 1 /\ Len(LateLog) \in Nat
          /\ \A i \in 1..Len(LateLog) : LateLog'[i] = LateLog[i]
          /\ LateLog'[Len(LateLog) + 1] = e
      BY <1>1, <3>1, AppendedAt
    <3>3. ASSUME NEW n \in DOMAIN LateLog', IsTool(LateLog'[n])
          PROVE  Count(SubSeq(LateLog', 1, n), "LLMActionEmitted") = 0
      <4>1. CASE n \in 1..Len(LateLog)
        <5>1. n \in DOMAIN LateLog /\ n \in 0..Len(LateLog) /\ IsTool(LateLog[n])
          BY <1>1, <3>2, <3>3, <4>1
        <5>2. SubSeq(LateLog', 1, n) = SubSeq(LateLog, 1, n)
          BY <1>1, <3>1, <5>1, PrefixAppend DEF Prefix
        <5> QED BY <5>1, <5>2 DEF LateTools
      <4>2. CASE n = Len(LateLog) + 1
        <5>1. SubSeq(LateLog', 1, n) = LateLog'
          BY <3>2, <4>2, PrefixAll DEF Prefix
        <5>2. Count(LateLog', "LLMActionEmitted") = 0
          BY <1>3, <3>2, <3>3, <4>2 DEF TurnOpen
        <5> QED BY <5>1, <5>2
      <4> QED BY <3>2, <4>1, <4>2
    <3> QED BY <3>3 DEF LateTools
  <2> QED BY <2>1, <2>2
<1> QED BY <1>2, <1>3 DEF Grows

-----------------------------------------------------------------------------
(* The output, and the driver's way out *)

LEMMA OutputStep ==
  ASSUME TypeOK, TypeOK', OutboxesFit, OutboxesFit', OutputFollows, NEW p \in Processes, StepOf(p)
  PROVE  OutputFollows'
<1>0. "llm" \in Processes /\ log \in Seq(Events) /\ output \in Nat
  BY DEF Processes, Workers, TypeOK
<1>1. CASE OwnStep(p)
  <2>1. log' = log /\ output' = output
    BY <1>1, OwnStepAlone
  <2>2. Written("llm", "LLMTextEmitted")' <=> Written("llm", "LLMTextEmitted")
    <3>1. CASE p = "llm"
      <4>1. ~outbox["llm"].persisted
        BY <1>1, <3>1, OwnStepAlone, NothingWritten
      <4>2. outbox' = outbox \/ \E es : Publishes("llm", es)
        BY <1>1, <3>1 DEF OwnStep, LlmTake, LlmDerive, LlmRaises, LlmReturns
      <4>3. outbox'["llm"].persisted = outbox["llm"].persisted
        <5>1. ASSUME NEW es, Publishes("llm", es) PROVE outbox'["llm"].persisted = outbox["llm"].persisted
          BY <1>0, <5>1 DEF Publishes, TypeOK
        <5> QED BY <4>2, <5>1
      <4> QED BY <4>1, <4>3 DEF Written
    <3>2. CASE p # "llm"
      BY <1>0, <1>1, <3>2, OwnStepAlone DEF Written, Holding
    <3> QED BY <3>1, <3>2
  <2> QED BY <2>1, <2>2 DEF OutputFollows, Bit
<1>2. CASE Persist(p)
  <2> DEFINE e == Head(outbox[p].todo)
  <2>1. log' = Append(log, e) /\ e \in Events /\ output' = output
    BY <1>2, AfterPersist DEF Persist
  <2>2. Count(log', "LLMTextEmitted") = Count(log, "LLMTextEmitted") + Bit(e.type = "LLMTextEmitted")
    BY <1>0, <2>1, CountAppend
  <2>3. Bit(Written("llm", "LLMTextEmitted"))' = Bit(Written("llm", "LLMTextEmitted")) + Bit(e.type = "LLMTextEmitted")
    <3>1. CASE p = "llm"
      BY <1>2, <3>1, WrittenByPersist DEF Bit
    <3>2. CASE p # "llm"
      <4>1. e.type # "LLMTextEmitted"
        BY <1>2, <3>2, AfterPersist, WhoPublishes
      <4>2. Written("llm", "LLMTextEmitted")' <=> Written("llm", "LLMTextEmitted")
        BY <1>0, <1>2, <3>2, WrittenByPersist
      <4> QED BY <4>1, <4>2 DEF Bit
    <3> QED BY <3>1, <3>2
  <2>4. Count(log, "LLMTextEmitted") \in Nat /\ Bit(Written("llm", "LLMTextEmitted")) \in Nat /\ Bit(e.type = "LLMTextEmitted") \in Nat
    BY <1>0, CountType, BitType
  <2> QED BY <1>0, <2>1, <2>2, <2>3, <2>4 DEF OutputFollows
<1>3. CASE Dispatch(p)
  <2> DEFINE e == Head(outbox[p].todo)
  <2>1. log' = log /\ output' = output + Bit(e.type = "LLMTextEmitted")
    BY <1>0, <1>3 DEF Dispatch, Handle, IsText, Bit
  <2>2. Bit(Written("llm", "LLMTextEmitted")) = Bit(Written("llm", "LLMTextEmitted"))' + Bit(e.type = "LLMTextEmitted")
    <3>1. CASE p = "llm"
      BY <1>3, <3>1, WrittenByDispatch DEF Bit
    <3>2. CASE p # "llm"
      <4>1. e.type # "LLMTextEmitted"
        BY <1>3, <3>2, AfterDispatch, WhoPublishes
      <4>2. Written("llm", "LLMTextEmitted")' <=> Written("llm", "LLMTextEmitted")
        BY <1>0, <1>3, <3>2, WrittenByDispatch
      <4> QED BY <4>1, <4>2 DEF Bit
    <3> QED BY <3>1, <3>2
  <2>3. Bit(Written("llm", "LLMTextEmitted"))' \in Nat /\ Bit(e.type = "LLMTextEmitted") \in Nat
    BY BitType
  <2> QED BY <1>0, <2>1, <2>2, <2>3 DEF OutputFollows
<1>4. CASE PersistFails(p)
  <2>1. log' = log /\ output' = output /\ ~outbox[p].persisted /\ \E es : Publishes(p, es)
    BY <1>4 DEF PersistFails
  <2>2. Written("llm", "LLMTextEmitted")' <=> Written("llm", "LLMTextEmitted")
    <3>1. p = "llm" => ~outbox["llm"].persisted /\ ~outbox'["llm"].persisted
      BY <2>1 DEF Publishes, TypeOK
    <3>2. p # "llm" => outbox'["llm"] = outbox["llm"]
      BY <1>0, <2>1 DEF Publishes, TypeOK
    <3> QED BY <3>1, <3>2 DEF Written, Holding
  <2> QED BY <2>1, <2>2 DEF OutputFollows, Bit
<1> QED BY <1>1, <1>2, <1>3, <1>4 DEF StepOf

\* A task that has ended stays ended.
LEMMA EndedStays ==
  ASSUME TypeOK, OutboxesFit, QueuesFit, NEW p \in Processes, StepOf(p), NEW w \in Workers, Ended(w)
  PROVE  Ended(w)'
<1>0. w \in Processes /\ queue[w] = <<>> /\ outbox[w].todo = <<>> /\ at[w] \in {"done", "crashed"}
  <2>1. w \in Processes /\ OutboxFits(w) /\ QueueFits(w)
    BY Constants DEF OutboxesFit, QueuesFit
  <2> QED BY <2>1 DEF OutboxFits, QueueFits, Ended
<1>1. p # w
  BY <1>0 DEF StepOf, OwnStep, BreakerStep, LlmTake, LlmDerive, LlmRaises, LlmReturns, SkillTake, SkillReturns,
              Take, Persist, PersistFails, Dispatch, OutboxesFit, OutboxFits, Workers
<1>2. at'[w] = at[w]
  <2>1. CASE OwnStep(p)
    BY <1>0, <1>1, <2>1, OwnStepAlone
  <2>2. CASE Persist(p)
    BY <2>2 DEF Persist
  <2>3. CASE Dispatch(p)
    BY <1>0, <1>1, <2>3, AfterDispatch
  <2>4. CASE PersistFails(p)
    BY <1>0, <1>1, <2>4, AfterLethalFault, AfterReportedFault
  <2> QED BY <2>1, <2>2, <2>3, <2>4 DEF StepOf
<1> QED BY <1>2 DEF Ended

LEMMA HasPauseStays ==
  ASSUME log \in Seq(Events), log' = log \/ \E e \in Events : log' = Append(log, e), HasPause(log)
  PROVE  HasPause(log')
BY HasPauseAppend

LEMMA DriverStep ==
  ASSUME TypeOK, TypeOK', OutboxesFit, OutboxesFit', QueuesFit, DriverCloses, NEW p \in Processes, StepOf(p)
  PROVE  DriverCloses'
<1>0. "driver" \in Processes /\ log \in Seq(Events) /\ at["driver"] \in Places["driver"]
  BY Constants DEF TypeOK
<1>1. HasPause(log) => HasPause(log')
  BY <1>0, LogStep, HasPauseStays
<1>2. \A w \in Workers : Ended(w) => Ended(w)'
  BY EndedStays
<1>3. CASE p # "driver"
  <2>1. at'["driver"] = at["driver"]
    <3>1. PersistFails(p) => at'["driver"] = at["driver"]
      BY <1>0, <1>3, AfterLethalFault, AfterReportedFault
    <3>2. Persist(p) => at' = at
      BY DEF Persist
    <3>3. OwnStep(p) => at'["driver"] = at["driver"]
      BY <1>0, <1>3, OwnStepAlone
    <3>4. Dispatch(p) => at'["driver"] = at["driver"]
      BY <1>0, <1>3, AfterDispatch
    <3> QED BY <3>1, <3>2, <3>3, <3>4 DEF StepOf
  <2>2. outbox'["driver"] = outbox["driver"]
    <3>1. PersistFails(p) => \E es : Publishes(p, es)
      BY DEF PersistFails
    <3>2. (\E es : Publishes(p, es)) => outbox'["driver"] = outbox["driver"]
      BY <1>0, <1>3 DEF Publishes, TypeOK
    <3> QED BY <1>0, <1>3, <3>1, <3>2, OwnStepAlone, AfterDispatch, AfterPersist DEF StepOf
  <2> QED BY <1>1, <1>2, <2>1, <2>2 DEF DriverCloses, Written, Holding
<1>4. CASE p = "driver" /\ OwnStep("driver")
  <2>1. ~Written("driver", "StreamPaused")'
    <3>1. ~outbox["driver"].persisted
      BY <1>0, <1>4, OwnStepAlone, NothingWritten
    <3>2. outbox'["driver"].persisted = outbox["driver"].persisted
      BY <1>0, <1>4 DEF OwnStep, Close, GatherReturns, Publishes, TypeOK
    <3> QED BY <3>1, <3>2 DEF Written
  <2>2. CASE \E late \in BOOLEAN : Close(late)
    <3>1. at'["driver"] = "closing"
      BY <1>0, <2>2, AtAfterMove DEF Close, Move
    <3> QED BY <2>1, <3>1 DEF DriverCloses
  <2>3. CASE GatherReturns
    <3>1. at["driver"] = "gathering" /\ \A w \in Workers : Ended(w)
      BY <2>3 DEF GatherReturns
    <3> QED BY <1>1, <1>2, <3>1, <2>1 DEF DriverCloses
  <2> QED BY <1>4, <2>2, <2>3 DEF OwnStep
<1>5. CASE p = "driver" /\ Persist("driver")
  <2>1. outbox["driver"].todo # <<>> /\ log' = Append(log, Head(outbox["driver"].todo))
    BY <1>0, <1>5, AfterPersist
  <2>2. at' = at /\ at["driver"] \in {"publishing", "closing"}
    BY <1>0, <1>5, <2>1 DEF Persist, OutboxesFit, OutboxFits
  <2>3. ASSUME Written("driver", "StreamPaused")' PROVE HasPause(log')
    <3>1. Head(outbox["driver"].todo).type = "StreamPaused" /\ Head(outbox["driver"].todo) \in Events
      BY <1>0, <1>5, <2>1, <2>3, WrittenByPersist, AfterPersist
    <3> QED BY <1>0, <2>1, <3>1, HasPauseAppend DEF IsPause
  <2> QED BY <2>2, <2>3 DEF DriverCloses
<1>6. CASE p = "driver" /\ Dispatch("driver")
  <2>1. outbox["driver"].todo # <<>> /\ Tail(outbox["driver"].todo) = <<>>
    BY <1>0, <1>6, AfterDispatch, DriverPublishes
  <2>2. at'["driver"] = AfterPublishing("driver") /\ ~Written("driver", "StreamPaused")'
    BY <1>0, <1>6, <2>1, AfterDispatch, WrittenByDispatch
  <2>3. CASE at["driver"] = "publishing"
    BY <2>2, <2>3, PlaceAfterPublishing DEF DriverCloses
  <2>4. CASE at["driver"] = "closing" /\ Head(outbox["driver"].todo) = Paused("completed")
    <3>1. Written("driver", "StreamPaused")
      BY <1>0, <1>6, <2>4, WrittenByDispatch, TypeOfEvent
    <3>2. HasPause(log')
      BY <1>1, <3>1 DEF DriverCloses
    <3> QED BY <2>2, <2>4, <3>2, PlaceAfterPublishing DEF DriverCloses
  <2> QED BY <2>1, <2>3, <2>4, DriverPublishes
<1>7. CASE p = "driver" /\ PersistFails("driver")
  <2>1. at'["driver"] \in {"closing", "raised"}
    BY <1>0, <1>7, AfterLethalFault
  <2>2. ~outbox["driver"].persisted /\ \E es : Publishes("driver", es)
    BY <1>7 DEF PersistFails
  <2>3. ~outbox'["driver"].persisted
    BY <1>0, <2>2 DEF Publishes, TypeOK
  <2> QED BY <2>1, <2>3 DEF DriverCloses, Written
<1> QED BY <1>3, <1>4, <1>5, <1>6, <1>7 DEF StepOf

-----------------------------------------------------------------------------
(* The calls of tools *)

\* The turn that runs is on record neither by its action nor by a text.
LEMMA RunningOpen == ASSUME TypeOK, Work, Running PROVE TurnOpen
<1>1. Bit(Running \/ UsageDue) = 1 /\ Bit(Deriving \/ TurnGoes) = 1 /\ Bit(Deriving \/ Running \/ UsageDue) = 1
  BY BitType DEF TurnGoes
<1>2. Thread >= 1 /\ TurnsOwed >= 1 /\ LateTurns = 1
  BY <1>1, WorkTypes, BitType DEF Thread, TurnsOwed, LateTurns
<1>3. /\ Thread + Count(log, "LLMTextEmitted") <= 1
      /\ Count(log, "LLMActionEmitted") + TurnsOwed <= 1 + Count(log, "SkillCompleted")
      /\ HasPause(log) => Count(LateLog, "LLMActionEmitted") + LateTurns <= 1
  BY DEF Work, OneThread, WorkIsOwed, LateWorkLeft
<1>4. \A type : Count(log, type) \in Nat /\ Count(LateLog, type) \in Nat
  BY LogCounts
<1>5. \A a, x \in Nat : a + x <= 1 /\ a >= 1 => x = 0
  OBVIOUS
<1>6. \A a, x, y \in Nat : x + a <= 1 + y /\ a >= 1 => x <= y
  OBVIOUS
<1>7. Count(log, "LLMTextEmitted") = 0 /\ Count(log, "LLMActionEmitted") <= Count(log, "SkillCompleted")
  BY <1>2, <1>3, <1>4, <1>5, <1>6, WorkTypes
<1>8. Count(LateLog, "LLMActionEmitted") = 0
  <2>1. CASE HasPause(log)
    BY <1>2, <1>3, <1>4, <2>1
  <2>2. CASE ~HasPause(log)
    BY <2>2, CountEmpty DEF LateLog
  <2> QED BY <2>1, <2>2
<1> QED BY <1>7, <1>8 DEF TurnOpen

LEMMA OpenAppend ==
  ASSUME TypeOK, TurnOpen, NEW e \in Events, log' = Append(log, e), e.type \notin {"LLMActionEmitted", "LLMTextEmitted"}
  PROVE  TurnOpen'
<1>1. log \in Seq(Events) /\ LateLog \in Seq(Events)
  BY LateLogType DEF TypeOK
<1>2. \A type : Count(log', type) = Count(log, type) + Bit(e.type = type) /\ Count(log, type) \in Nat
  BY <1>1, CountAppend, CountType
<1>3. Count(LateLog', "LLMActionEmitted") = 0
  <2>1. CASE HasPause(log)
    <3>1. LateLog' = Append(LateLog, e)
      BY <2>1, LateLogAppend
    <3>2. Count(Append(LateLog, e), "LLMActionEmitted") = Count(LateLog, "LLMActionEmitted") + Bit(e.type = "LLMActionEmitted")
      BY <1>1, CountAppend
    <3>3. Bit(e.type = "LLMActionEmitted") = 0 /\ Count(LateLog, "LLMActionEmitted") = 0
      BY BitType DEF TurnOpen
    <3> QED BY <3>1, <3>2, <3>3
  <2>2. CASE ~HasPause(log)
    BY <2>2, LateLogAppend, CountEmpty
  <2> QED BY <2>1, <2>2
<1>4. Bit(e.type = "LLMActionEmitted") = 0 /\ Bit(e.type = "LLMTextEmitted") = 0 /\ Bit(e.type = "SkillCompleted") \in Nat
  BY BitType
<1>5. Count(log', "LLMActionEmitted") = Count(log, "LLMActionEmitted") /\ Count(log', "LLMTextEmitted") = Count(log, "LLMTextEmitted")
  BY <1>2, <1>4
<1>6. Count(log', "SkillCompleted") >= Count(log, "SkillCompleted")
  BY <1>2, <1>4
<1>7. Count(log', "LLMActionEmitted") <= Count(log', "SkillCompleted")
  <2>1. \A x, y, z \in Nat : x <= y /\ z >= y => x <= z
    OBVIOUS
  <2>2. \A type : Count(log', type) \in Nat
    <3>1. log' \in Seq(Events)
      BY <1>1, AppendedAt
    <3> QED BY <3>1, CountType
  <2> QED BY <1>2, <1>5, <1>6, <2>1, <2>2 DEF TurnOpen
<1> QED BY <1>3, <1>5, <1>7 DEF TurnOpen

LEMMA OpenFrame == ASSUME TurnOpen, log' = log PROVE TurnOpen'
BY DEF TurnOpen, LateLog, AfterPause

\* What the processes publish is no row of a tool, and a call stays open beside it.
LEMMA StepGrows ==
  ASSUME TypeOK, OutboxesFit, NEW p \in Processes, StepOf(p)
  PROVE  /\ calls' = calls /\ faults <= faults'
         /\ log' = log \/ \E e \in Events : /\ log' = Append(log, e) /\ ~IsTool(e)
                                            /\ p # "llm" => e.type \notin {"LLMActionEmitted", "LLMTextEmitted"}
<1>1. faults \in Nat
  BY LimitsAreNaturals DEF TypeOK
<1>2. CASE OwnStep(p)
  <2>1. log' = log
    BY <1>2, OwnStepAlone
  <2>2. calls' = calls /\ (faults' = faults \/ faults' = faults + 1)
    BY <1>2 DEF OwnStep, BreakerStep, LlmTake, LlmDerive, LlmRaises, LlmReturns, SkillTake, SkillReturns, Close, GatherReturns
  <2> QED BY <1>1, <2>1, <2>2
<1>3. CASE Persist(p)
  <2>1. calls' = calls /\ faults' = faults
    BY <1>3 DEF Persist
  <2> QED BY <1>1, <1>3, <2>1, AfterPersist, WhoPublishes
<1>4. CASE Dispatch(p)
  BY <1>1, <1>4 DEF Dispatch
<1>5. CASE PersistFails(p)
  BY <1>1, <1>5 DEF PersistFails
<1> QED BY <1>2, <1>3, <1>4, <1>5 DEF StepOf

LEMMA CallsStep ==
  ASSUME TypeOK, TypeOK', OutboxesFit, QueuesFit, CallsFit, NEW p \in Processes, StepOf(p)
  PROVE  CallsFit'
<1>0. log \in Seq(Events) /\ calls \in Nat /\ faults \in Nat /\ faults' \in Nat /\ "llm" \in Processes
  BY LimitsAreNaturals, Constants DEF TypeOK, Workers
<1>1. Count(log', "ToolCompleted") = Count(log, "ToolCompleted") /\ Count(log', "SkillCalled") = Count(log, "SkillCalled")
  <2>1. CASE log' = log
    BY <2>1
  <2>2. ASSUME NEW e \in Events, log' = Append(log, e), ~IsTool(e)
        PROVE  Count(log', "ToolCompleted") = Count(log, "ToolCompleted") /\ Count(log', "SkillCalled") = Count(log, "SkillCalled")
    <3>1. Bit(e.type = "ToolCompleted") = 0 /\ Bit(e.type = "SkillCalled") = 0
      BY <2>2, BitType DEF IsTool
    <3>2. \A type : Count(log', type) = Count(log, type) + Bit(e.type = type) /\ Count(log, type) \in Nat
      BY <1>0, <2>2, CountAppend, CountType
    <3> QED BY <3>1, <3>2
  <2> QED BY <2>1, <2>2, StepGrows
<1>2. Count(log', "ToolCompleted") + calls' <= Count(log', "SkillCalled") + faults'
  <2>1. Count(log, "ToolCompleted") \in Nat /\ Count(log, "SkillCalled") \in Nat
    BY <1>0, CountType
  <2>2. Count(log, "ToolCompleted") + calls <= Count(log, "SkillCalled") + faults /\ calls' = calls /\ faults <= faults'
    BY StepGrows DEF CallsFit
  <2> QED BY <1>0, <1>1, <2>1, <2>2
<1>3. ASSUME calls > 0 PROVE at'["llm"] \in {"running", "crashed"} /\ TurnOpen'
  <2>1. at["llm"] \in {"running", "crashed"} /\ TurnOpen
    BY <1>3 DEF CallsFit
  <2>2. outbox["llm"].todo = <<>>
    BY <1>0, <2>1, NothingWritten
  <2>3. CASE p = "llm"
    <3>1. LlmRaises
      <4>1. ~Dispatch(p) /\ ~Persist(p) /\ ~PersistFails(p)
        BY <1>0, <2>2, <2>3, AfterDispatch DEF Persist, PersistFails
      <4>2. ~LlmDerive /\ (\A e : ~LlmTake(e)) /\ \A n, reply : ~LlmReturns(n, reply)
        BY <1>0, <1>3, <2>1 DEF LlmTake, Take, LlmDerive, LlmReturns
      <4> QED BY <2>3, <4>1, <4>2 DEF StepOf, OwnStep
    <3>2. at'["llm"] = "crashed" /\ log' = log
      BY <1>0, <3>1, AtAfterMove DEF LlmRaises, Move
    <3> QED BY <2>1, <3>2, OpenFrame
  <2>4. CASE p # "llm"
    <3>1. at'["llm"] = at["llm"]
      <4>1. PersistFails(p) => at'["llm"] = at["llm"]
        BY <1>0, <2>4, AfterLethalFault, AfterReportedFault
      <4>2. Persist(p) => at' = at
        BY DEF Persist
      <4>3. OwnStep(p) => at'["llm"] = at["llm"]
        BY <1>0, <2>4, OwnStepAlone
      <4>4. Dispatch(p) => at'["llm"] = at["llm"]
        BY <1>0, <2>4, AfterDispatch
      <4> QED BY <4>1, <4>2, <4>3, <4>4 DEF StepOf
    <3> QED BY <2>1, <2>4, <3>1, StepGrows, OpenFrame, OpenAppend
  <2> QED BY <2>3, <2>4
<1> QED BY <1>2, <1>3, StepGrows DEF CallsFit

\* A call writes a row of its own, or loses it, and touches nothing else.
LEMMA AfterTool ==
  ASSUME TypeOK, Work, CallsFit, ToolStep
  PROVE  /\ UNCHANGED <<queue, at, outbox, tally, snapshot, output, terminal, status, limited, timedOut>>
         /\ log' = log \/ \E e \in Events : log' = Append(log, e) /\ IsTool(e)
         /\ calls' \in Nat /\ faults' \in 0..MaxFaults /\ faults <= faults'
         /\ TurnOpen
<1>1. calls \in Nat /\ faults \in 0..MaxFaults /\ ToolCalled \in Events /\ IsTool(ToolCalled)
  BY EventOfKind, TypeOfEvent DEF TypeOK, IsTool
<1>2. \A st \in ToolStatuses : ToolCompleted(st) \in Events /\ IsTool(ToolCompleted(st))
  BY EventOfKind, TypeOfEvent DEF IsTool
<1>3. ASSUME NEW row \in Events, IsTool(row), NEW lost, Records(row, lost)
      PROVE  /\ UNCHANGED <<queue, at, outbox, tally, snapshot, output, terminal, status, limited, timedOut>>
             /\ log' = log \/ \E e \in Events : log' = Append(log, e) /\ IsTool(e)
             /\ faults' \in 0..MaxFaults /\ faults <= faults'
  BY <1>1, <1>3, LimitsAreNaturals DEF Records
<1>4. ASSUME NEW lost \in BOOLEAN, ToolStarts(lost)
      PROVE  Records(ToolCalled, lost) /\ calls' \in Nat /\ TurnOpen
  BY <1>1, <1>4, RunningOpen DEF ToolStarts, Running
<1>5. ASSUME NEW lost \in BOOLEAN, NEW st \in ToolStatuses, ToolEnds(st, lost)
      PROVE  Records(ToolCompleted(st), lost) /\ calls' \in Nat /\ TurnOpen
  BY <1>1, <1>5 DEF ToolEnds, CallsFit
<1> QED BY <1>1, <1>2, <1>3, <1>4, <1>5 DEF ToolStep

LEMMA ToolType == ASSUME TypeOK, Work, CallsFit, ToolStep PROVE TypeOK'
<1>1. log' \in Seq(Events) /\ Len(log) \in Nat /\ Len(log) <= Len(log')
  <2>1. log \in Seq(Events) /\ Len(log) \in Nat
    BY DEF TypeOK
  <2>2. ASSUME NEW e \in Events, log' = Append(log, e) PROVE log' \in Seq(Events) /\ Len(log') = Len(log) + 1
    BY <2>1, <2>2, AppendedAt
  <2> QED BY <2>1, <2>2, AfterTool
<1>2. snapshot' \in [offset : 0..Len(log'), tokens : Nat, failures : Nat, paused : BOOLEAN]
  <2>1. 0..Len(log) \subseteq 0..Len(log')
    BY <1>1
  <2>2. snapshot' = snapshot /\ snapshot \in [offset : 0..Len(log), tokens : Nat, failures : Nat, paused : BOOLEAN]
    BY AfterTool DEF TypeOK
  <2> QED BY <2>1, <2>2
<1> QED BY <1>1, <1>2, AfterTool DEF TypeOK

LEMMA ToolCallsFit ==
  ASSUME TypeOK, Work, CallsFit, ToolStep
  PROVE  CallsFit' /\ TurnOpen'
<1>0. log \in Seq(Events) /\ calls \in Nat /\ faults \in Nat
  BY LimitsAreNaturals DEF TypeOK
<1>1. TurnOpen'
  <2>1. CASE log' = log
    BY <2>1, AfterTool, OpenFrame
  <2>2. CASE \E e \in Events : log' = Append(log, e) /\ IsTool(e)
    BY <2>2, AfterTool, OpenAppend DEF IsTool
  <2> QED BY <2>1, <2>2, AfterTool
<1>2. at' = at /\ at["llm"] \in {"running", "crashed"}
  BY AfterTool DEF ToolStep, ToolStarts, ToolEnds
<1>3. /\ Count(log, "ToolCompleted") \in Nat /\ Count(log, "SkillCalled") \in Nat
      /\ Count(log, "ToolCompleted") + calls <= Count(log, "SkillCalled") + faults
  BY <1>0, CountType DEF CallsFit
<1>4. ASSUME NEW e \in Events, log' = Append(log, e)
      PROVE  /\ Count(log', "ToolCompleted") = Count(log, "ToolCompleted") + Bit(e.type = "ToolCompleted")
             /\ Count(log', "SkillCalled") = Count(log, "SkillCalled") + Bit(e.type = "SkillCalled")
  BY <1>0, <1>4, CountAppend
<1>5. ASSUME NEW lost \in BOOLEAN, ToolStarts(lost)
      PROVE  Count(log', "ToolCompleted") + calls' <= Count(log', "SkillCalled") + faults'
  <2>1. calls' = calls + 1 /\ Records(ToolCalled, lost)
    BY <1>5 DEF ToolStarts
  <2>2. CASE lost
    BY <1>0, <1>3, <2>1, <2>2 DEF Records
  <2>3. CASE ~lost
    <3>1. log' = Append(log, ToolCalled) /\ faults' = faults
      BY <2>1, <2>3 DEF Records
    <3>2. ToolCalled \in Events /\ Bit(ToolCalled.type = "ToolCompleted") = 0 /\ Bit(ToolCalled.type = "SkillCalled") = 1
      BY EventOfKind, TypeOfEvent, BitType
    <3>3. Count(log', "ToolCompleted") = Count(log, "ToolCompleted") + 0 /\ Count(log', "SkillCalled") = Count(log, "SkillCalled") + 1
      BY <1>4, <3>1, <3>2
    <3> QED BY <1>0, <1>3, <2>1, <3>1, <3>3
  <2> QED BY <1>5, <2>2, <2>3
<1>6. ASSUME NEW lost \in BOOLEAN, NEW st \in ToolStatuses, ToolEnds(st, lost)
      PROVE  Count(log', "ToolCompleted") + calls' <= Count(log', "SkillCalled") + faults'
  <2>1. calls > 0 /\ calls' = calls - 1 /\ Records(ToolCompleted(st), lost)
    BY <1>6 DEF ToolEnds
  <2>2. CASE lost
    BY <1>0, <1>3, <2>1, <2>2 DEF Records
  <2>3. CASE ~lost
    <3>1. log' = Append(log, ToolCompleted(st)) /\ faults' = faults
      BY <2>1, <2>3 DEF Records
    <3>2. /\ ToolCompleted(st) \in Events /\ Bit(ToolCompleted(st).type = "ToolCompleted") = 1
          /\ Bit(ToolCompleted(st).type = "SkillCalled") = 0
      BY EventOfKind, TypeOfEvent, BitType
    <3>3. Count(log', "ToolCompleted") = Count(log, "ToolCompleted") + 1 /\ Count(log', "SkillCalled") = Count(log, "SkillCalled") + 0
      BY <1>4, <3>1, <3>2
    <3> QED BY <1>0, <1>3, <2>1, <3>1, <3>3
  <2> QED BY <1>6, <2>2, <2>3
<1> QED BY <1>1, <1>2, <1>5, <1>6 DEF CallsFit, ToolStep

\* The breaker counts published results alone, and no tokens of a tool.
LEMMA ToolBreaker ==
  ASSUME TypeOK, TypeOK', BreakerKeepsUp, NEW e \in Events, IsTool(e), log' = Append(log, e),
         UNCHANGED <<queue, at, outbox, tally>>
  PROVE  BreakerKeepsUp'
<1> DEFINE q == queue["breaker"]
<1>1. log \in Seq(Events) /\ tally.failures \in Nat
  BY BreakerTypes
<1>2. InFlight("llm")' = InFlight("llm") /\ InFlight("skill")' = InFlight("skill")
  BY DEF InFlight
<1>3. Tokens(log') = Tokens(log)
  <2>1. Tokens(log') = Tokens(log) + e.tokens /\ e.tokens = 0 /\ Tokens(log) \in Nat
    BY <1>1, TokensAppend, TokensOfEvent, TokensType DEF IsTool
  <2> QED BY <2>1
<1>4. Failures(0, log') = Failures(0, log)
  <2>1. Failures(0, log') = BreakerCount(Failures(0, log), e) /\ Failures(0, log) \in Nat
    BY <1>1, FailuresAppend, FailuresType
  <2>2. e.type # "SkillCompleted"
    BY DEF IsTool
  <2> QED BY <2>1, <2>2, CountFailureType
<1>5. ASSUME at["breaker"] = "waiting", NEW k \in 0..Len(q)
      PROVE  FailuresWere(Failures(tally.failures, Prefix(q, k)))'
  <2> DEFINE n == Failures(tally.failures, Prefix(q, k))
  <2>1. FailuresWere(n)
    BY <1>5, WaitingBreaker
  <2>2. UNCHANGED n
    OBVIOUS
  <2> HIDE DEF n
  <2>3. FailuresWere(n)'
    BY <1>1, <2>1, <2>2, FailuresWereKept
  <2> QED BY <2>3 DEF n
<1>6. at["breaker"] = "waiting" =>
        /\ tally.tokens + Tokens(q \o InFlight("llm")) = Tokens(log)
        /\ Failures(tally.failures, q \o InFlight("skill")) = Failures(0, log)
  BY WaitingBreaker
<1> QED BY <1>2, <1>3, <1>4, <1>5, <1>6, WaitingBreakerNext

\* Every other part of the invariant is about what a call leaves alone.
LEMMA ToolKeeps ==
  ASSUME IInv, ToolStep
  PROVE  /\ (OutboxesFit /\ QueuesFit /\ BreakerKeepsUp)'
         /\ (PauseIsDue /\ PauseJustified /\ SnapshotIsReplay)'
         /\ (Work /\ OutputFollows /\ DriverCloses)'
<1>0. /\ TypeOK /\ OutboxesFit /\ QueuesFit /\ BreakerKeepsUp /\ PauseIsDue /\ PauseJustified
      /\ SnapshotIsReplay /\ Work /\ CallsFit /\ OutputFollows /\ DriverCloses
  BY DEF IInv
<1>1. /\ UNCHANGED <<queue, at, outbox, tally, snapshot, output>> /\ TypeOK'
      /\ log' = log \/ \E e \in Events : log' = Append(log, e) /\ IsTool(e)
  BY <1>0, AfterTool, ToolType
<1>2. OutboxesFit' /\ QueuesFit'
  BY <1>0, <1>1 DEF OutboxesFit, OutboxFits, QueuesFit, QueueFits, Ended
<1>3. SnapshotIsReplay'
  BY <1>0, <1>1, SnapshotFrame
<1>4. NoMore
  <2>1. Quiet
    <3>1. Started' = Started /\ Asked' = Asked /\ Started \in Nat /\ Asked \in Nat
      BY <1>0, <1>1, WorkTypes DEF Started, Starters, Asked
    <3> QED BY <1>1, <3>1 DEF Quiet, Starting, Deriving, Running, TurnGoes, SkillGoes, ResultDue, UsageDue, RequestOut,
                              ResultOut, Unwritten, Written, Holding
  <2> QED BY <1>0, <1>1, <2>1, QuietNoMore
<1>5. CASE log' = log
  <2>1. BreakerKeepsUp'
    <3>1. InFlight("llm")' = InFlight("llm") /\ InFlight("skill")' = InFlight("skill")
      BY <1>1 DEF InFlight
    <3> QED BY <1>0, <1>1, <1>5, <3>1, BreakerFrame
  <2>2. (PauseIsDue /\ PauseJustified)'
    BY <1>0, <1>1, <1>5, PauseFrame
  <2>3. Work'
    BY <1>0, <1>1, <1>4, <1>5, WorkFrame DEF NoMore
  <2>4. OutputFollows' /\ DriverCloses'
    BY <1>0, <1>1, <1>5 DEF OutputFollows, DriverCloses, Written, Holding, Bit, Ended
  <2> QED BY <1>2, <1>3, <2>1, <2>2, <2>3, <2>4
<1>6. ASSUME NEW e \in Events, log' = Append(log, e), IsTool(e)
      PROVE  (BreakerKeepsUp /\ PauseIsDue /\ PauseJustified /\ Work /\ OutputFollows /\ DriverCloses)'
  <2>1. BreakerKeepsUp'
    BY <1>0, <1>1, <1>6, ToolBreaker
  <2>2. (PauseIsDue /\ PauseJustified)'
    <3>1. e \notin {Paused(r) : r \in Breaches}
      BY <1>6, TypeOfEvent DEF IsTool
    <3> QED BY <1>0, <1>1, <1>6, <3>1, PauseAppend
  <2>3. /\ Bit(e.type = "LLMTextEmitted") = 0 /\ Bit(e.type = "SkillCompleted") = 0 /\ Bit(e.type = "SkillRequested") = 0
        /\ Bit(e.type = "LLMActionEmitted") = 0
    BY <1>6, BitType DEF IsTool
  <2>4. Work'
    <3>1. /\ Thread \in Nat /\ ResultsOwed \in Nat /\ TurnsOwed \in Nat /\ LateTurns \in Nat /\ LateResults \in Nat
          /\ Thread' \in Nat /\ ResultsOwed' \in Nat /\ TurnsOwed' \in Nat /\ LateTurns' \in Nat /\ LateResults' \in Nat
      BY <1>0, <1>1, WorkTypes, WorkTypesNext DEF Bits
    <3>2. /\ Thread' + Bit(e.type = "LLMTextEmitted") <= Thread
          /\ ResultsOwed' + Bit(e.type = "SkillCompleted") <= ResultsOwed + Bit(e.type = "SkillRequested")
          /\ TurnsOwed' + Bit(e.type = "LLMActionEmitted") <= TurnsOwed + Bit(e.type = "SkillCompleted")
          /\ LateTurns' + Bit(e.type = "LLMActionEmitted") <= LateTurns
          /\ LateResults' + Bit(e.type = "SkillCompleted") <= LateResults
      BY <1>4, <2>3, <3>1 DEF NoMore
    <3> QED BY <1>0, <1>1, <1>6, <3>2, WorkWritten
  <2>5. OutputFollows'
    <3>1. Count(log', "LLMTextEmitted") = Count(log, "LLMTextEmitted") + Bit(e.type = "LLMTextEmitted")
      BY <1>0, <1>6, CountAppend DEF TypeOK
    <3>2. Count(log', "LLMTextEmitted") = Count(log, "LLMTextEmitted")
      BY <1>0, <2>3, <3>1, LogCounts
    <3> QED BY <1>0, <1>1, <3>2 DEF OutputFollows, Written, Holding, Bit
  <2>6. DriverCloses'
    <3>1. HasPause(log) => HasPause(log')
      BY <1>0, <1>6, HasPauseAppend DEF TypeOK
    <3> QED BY <1>0, <1>1, <3>1 DEF DriverCloses, Written, Holding, Ended
  <2> QED BY <2>1, <2>2, <2>4, <2>5, <2>6
<1> QED BY <1>1, <1>2, <1>3, <1>5, <1>6

-----------------------------------------------------------------------------
(* The invariant *)

LEMMA InitWork == Init => Work /\ OneThreadOfWork /\ OutputFollows /\ DriverCloses
<1> SUFFICES ASSUME Init PROVE Work /\ OneThreadOfWork /\ OutputFollows /\ DriverCloses
  OBVIOUS
<1>1. /\ log = <<>> /\ queue["llm"] = <<>> /\ queue["skill"] = <<>> /\ output = 0
      /\ at["driver"] = "publishing" /\ at["llm"] = "waiting" /\ at["skill"] = "waiting"
      /\ outbox["llm"].todo = <<>> /\ outbox["skill"].todo = <<>>
      /\ \A q \in Processes : ~outbox[q].persisted
  BY DEF Init, Idle, Processes, Workers
<1>2. \A type : Count(<<>>, type) = 0
  BY CountEmpty
<1>3. ~HasPause(log)
  BY <1>1 DEF HasPause
<1>4. /\ Starting /\ ~Deriving /\ ~Running /\ ~TurnGoes /\ ~SkillGoes /\ ~ResultDue
      /\ ~UsageDue /\ ~RequestOut /\ ~ResultOut
  BY <1>1 DEF Starting, Deriving, Running, TurnGoes, SkillGoes, ResultDue, UsageDue, RequestOut, ResultOut,
              Unwritten, Written, Holding
<1>5. Started = 0 /\ Asked = 0
  BY <1>1, <1>2 DEF Started, Starters, Asked
<1>6. Thread = 1 /\ ResultsOwed = 0 /\ TurnsOwed = 1
  BY <1>4, <1>5 DEF Thread, ResultsOwed, TurnsOwed, Bit
<1>7. Work
  BY <1>1, <1>2, <1>3, <1>6 DEF Work, OneThread, WorkIsOwed, LateWorkLeft
<1>8. OneThreadOfWork
  BY <1>1, <1>2 DEF OneThreadOfWork
<1>9. OutputFollows
  BY <1>1, <1>2 DEF OutputFollows, Written, Holding, Bit
<1>10. DriverCloses
  BY <1>1 DEF DriverCloses, Written, Processes, Workers
<1> QED BY <1>7, <1>8, <1>9, <1>10

LEMMA InitPause == Init => PauseIsDue /\ PauseJustified /\ SnapshotIsReplay
<1> SUFFICES ASSUME Init PROVE PauseIsDue /\ PauseJustified /\ SnapshotIsReplay
  OBVIOUS
<1>1. log = <<>> /\ at["breaker"] = "waiting" /\ DOMAIN log = {}
  BY DEF Init, Processes, Workers
<1>2. BreachLogged = {}
  BY <1>1 DEF BreachLogged
<1>3. PauseIsDue
  BY <1>1, <1>2 DEF PauseIsDue
<1>4. PauseJustified
  <2>1. Called(log)
    BY <1>1 DEF Called
  <2> QED BY <1>2, <2>1, FS_EmptySet, PauseJustifiedIs
<1>5. SnapshotIsReplay
  <2>1. snapshot = [offset |-> 0, tokens |-> 0, failures |-> 0, paused |-> FALSE] /\ SubSeq(log, 1, snapshot.offset) = <<>>
    BY <1>1 DEF Init
  <2>2. HasPause(<<>>) = FALSE
    BY DEF HasPause
  <2>3. snapshot.tokens = 0 /\ snapshot.failures = 0 /\ snapshot.paused = FALSE
    BY <2>1
  <2>4. Tokens(<<>>) = 0 /\ AllFailures(0, <<>>) = 0
    BY TokensEmpty, AllFailuresEmpty
  <2> HIDE DEF HasPause, Tokens, AllFailures
  <2>5. ASSUME NEW covered, covered = <<>>
        PROVE  /\ snapshot.tokens = Tokens(covered) /\ snapshot.failures = AllFailures(0, covered)
               /\ snapshot.paused = HasPause(covered)
    BY <2>2, <2>3, <2>4, <2>5
  <2> QED BY <2>1, <2>5 DEF SnapshotIsReplay
<1> QED BY <1>3, <1>4, <1>5

LEMMA InitTools == Init => CallsFit /\ LateTools
<1> SUFFICES ASSUME Init PROVE CallsFit /\ LateTools
  OBVIOUS
<1>1. log = <<>> /\ calls = 0 /\ faults = 0 /\ ~HasPause(log)
  BY DEF Init, HasPause
<1>2. LateTools
  BY <1>1 DEF LateTools, LateLog
<1> QED BY <1>1, <1>2, CountEmpty DEF CallsFit

LEMMA InitIInv == Init => IInv
BY InitTypeOK, InitFits, InitBreaker, InitPause, InitWork, InitTools DEF IInv

LEMMA StutterIInv == ASSUME IInv, UNCHANGED vars PROVE IInv'
<1>1. TypeOK' /\ OutboxesFit' /\ QueuesFit'
  <2>1. TypeOK'
    BY DEF IInv, vars, TypeOK
  <2>2. OutboxesFit'
    BY DEF IInv, vars, OutboxesFit, OutboxFits
  <2>3. QueuesFit'
    BY DEF IInv, vars, QueuesFit, QueueFits, Ended
  <2> QED BY <2>1, <2>2, <2>3
<1>2. BreakerKeepsUp'
  BY DEF IInv, vars, BreakerKeepsUp, BreakerCounts, BreakerFollows, FailuresWere, InFlight, Ended
<1>3. (PauseIsDue /\ PauseJustified /\ SnapshotIsReplay)'
  BY DEF IInv, vars, PauseIsDue, PauseJustified, SnapshotIsReplay, BreachLogged, Ended, Written, Holding
<1>4. (Work /\ OneThreadOfWork /\ OutputFollows /\ DriverCloses)'
  <2>1. Quiet
    <3>1. Started' = Started /\ Asked' = Asked /\ Started \in Nat /\ Asked \in Nat
      BY WorkTypes DEF IInv, vars, Started, Starters, Asked
    <3>2. at' = at /\ outbox' = outbox
      BY DEF vars
    <3> QED BY <3>1, <3>2 DEF Quiet, Starting, Deriving, Running, TurnGoes, SkillGoes, ResultDue, UsageDue, RequestOut,
                              ResultOut, Unwritten, Written, Holding
  <2>2. Work'
    BY <1>1, <2>1, QuietNoMore, WorkFrame DEF IInv, vars, NoMore
  <2>3. (OneThreadOfWork /\ OutputFollows /\ DriverCloses)'
    BY DEF IInv, vars, OneThreadOfWork, OutputFollows, DriverCloses, Written, Holding, Bit, Ended
  <2> QED BY <2>2, <2>3
<1>5. (CallsFit /\ LateTools)'
  BY DEF IInv, vars, CallsFit, TurnOpen, LateTools, LateLog, AfterPause
<1> QED BY <1>1, <1>2, <1>3, <1>4, <1>5 DEF IInv

LEMMA StepIInv == ASSUME IInv, [Next]_vars PROVE IInv'
<1>1. ASSUME NEW p \in Processes, StepOf(p) PROVE IInv'
  <2>2. TypeOK' /\ OutboxesFit' /\ QueuesFit'
    BY <1>1, TypeStep, FitsStep DEF IInv
  <2>3. BreakerKeepsUp'
    BY <1>1, <2>2, BreakerKeepsUpStep DEF IInv
  <2>4. (PauseIsDue /\ PauseJustified)'
    BY <1>1, <2>2, PauseStep DEF IInv
  <2>5. SnapshotIsReplay'
    BY <1>1, SnapshotStep DEF IInv
  <2>6. Work'
    BY <1>1, <2>2, WorkStep DEF IInv
  <2>7. CallsFit'
    BY <1>1, <2>2, CallsStep DEF IInv
  <2>8. Grows /\ faults <= faults'
    BY <1>1, StepGrows DEF IInv, Grows
  <2>9. OneThreadOfWork' /\ LateTools'
    BY <2>2, <2>6, <2>7, <2>8, ThreadStep, LateToolsStep DEF IInv
  <2>10. OutputFollows' /\ DriverCloses'
    BY <1>1, <2>2, OutputStep, DriverStep DEF IInv
  <2> QED BY <2>2, <2>3, <2>4, <2>5, <2>6, <2>7, <2>9, <2>10 DEF IInv
<1>2. CASE ToolStep
  <2>1. TypeOK' /\ CallsFit' /\ TurnOpen'
    BY <1>2, ToolType, ToolCallsFit DEF IInv
  <2>2. Grows /\ faults <= faults'
    BY <1>2, <2>1, AfterTool DEF IInv, Grows
  <2>3. /\ (OutboxesFit /\ QueuesFit /\ BreakerKeepsUp)'
        /\ (PauseIsDue /\ PauseJustified /\ SnapshotIsReplay)'
        /\ (Work /\ OutputFollows /\ DriverCloses)'
    BY <1>2, ToolKeeps
  <2>4. OneThreadOfWork' /\ LateTools'
    BY <2>1, <2>2, <2>3, ThreadStep, LateToolsStep DEF IInv
  <2> QED BY <2>1, <2>3, <2>4 DEF IInv
<1>3. CASE UNCHANGED vars
  BY <1>3, StutterIInv
<1> QED BY <1>1, <1>2, <1>3, NextIsStep

\* Every state the goal loop reaches satisfies the inductive invariant.
THEOREM Invariant == Spec => []IInv
BY InitIInv, StepIInv, PTL DEF Spec

-----------------------------------------------------------------------------
(* What the invariant says of the goal loop *)

LEMMA LateWorkIs == ASSUME IInv PROVE LateWorkBounded
<1>1. TypeOK /\ LateWorkLeft /\ LateTools
  BY DEF IInv, Work
<1>2. CASE HasPause(log)
  <2>1. LateTurns \in Nat /\ LateResults \in Nat
    BY <1>1, WorkTypes DEF Bits
  <2> QED BY <1>1, <1>2, <2>1, LogCounts DEF LateWorkLeft, LateWorkBounded, LateTools
<1>3. CASE ~HasPause(log)
  <2>1. LateLog = <<>>
    BY <1>3 DEF LateLog
  <2> QED BY <2>1, CountEmpty DEF LateWorkBounded
<1> QED BY <1>2, <1>3

LEMMA FinalReturn == ASSUME IInv PROVE ReturnIsFinal
<1> SUFFICES ASSUME at["driver"] = "returned"
             PROVE  /\ \A p \in Processes : outbox[p] = Idle
                    /\ output = Count(log, "LLMTextEmitted") /\ HasPause(log)
  BY DEF ReturnIsFinal
<1>1. TypeOK /\ OutboxesFit /\ OutputFollows /\ DriverCloses
  BY DEF IInv
<1>2. ASSUME NEW p \in Processes PROVE outbox[p] = Idle
  <2>1. at[p] \notin {"publishing", "closing"}
    BY <1>1, Constants DEF DriverCloses, Ended
  <2>2. outbox[p].todo = <<>> /\ ~outbox[p].persisted
    BY <1>1, <2>1, NothingWritten
  <2>3. outbox[p] \in [todo : Seq(Events), persisted : BOOLEAN]
    BY <1>1 DEF TypeOK
  <2> QED BY <2>2, <2>3 DEF Idle
<1>3. ~Written("llm", "LLMTextEmitted")
  BY <1>2 DEF Written, Idle, Processes, Workers
<1>4. output = Count(log, "LLMTextEmitted")
  BY <1>1, <1>3 DEF OutputFollows, Bit, TypeOK
<1> QED BY <1>1, <1>2, <1>4 DEF DriverCloses

\* run_circuit_breaker counts what the other two tasks have published, whatever
\* order their writes and dispatches come in: its totals, its queue and the
\* events in flight add up to the log, and it writes one StreamPaused at most,
\* after the log has called for it.
THEOREM BreakerCountsTheLog == Spec => []BreakerIsExact
<1>1. IInv => BreakerIsExact
  BY DEF IInv, BreakerKeepsUp, BreakerIsExact
<1> QED BY <1>1, Invariant, PTL

\* Once a StreamPaused is committed, run_llm_worker starts no further turn and
\* at most one turn and one skill result are still written.
THEOREM PauseStopsTheWork == Spec => []LateWorkBounded
<1> QED BY LateWorkIs, Invariant, PTL

\* The rows of state_events are the ones of a single thread of work, and the
\* snapshot that derive_session_state() keeps is what a replay of the rows it
\* covers computes.
THEOREM LogStaysSound == Spec => []LogIsSound
<1>1. IInv => LogIsSound
  BY DEF IInv, LogIsSound
<1> QED BY <1>1, Invariant, PTL

\* When _run_event_sourced_goal returns, no task has a write or a dispatch left,
\* every committed text is in output_parts, and a StreamPaused is committed.
THEOREM ReturnedIsFinal == Spec => []ReturnIsFinal
<1> QED BY FinalReturn, Invariant, PTL
=============================================================================
