------------------------------ MODULE ReactLoop ------------------------------
(***************************************************************************)
(* The event-sourced goal loop behind `harness-poc goal`:                  *)
(* _run_event_sourced_goal of cli.py (the driver) and its three asyncio    *)
(* tasks run_circuit_breaker, run_llm_worker and run_skill_worker of       *)
(* core/processors/, which talk only through the EventBus and the          *)
(* state_events table (the log).                                           *)
(*                                                                         *)
(* Every publish_async() writes the event in a worker thread and dispatches *)
(* it later, in the event loop: between the two any other task may run.    *)
(* The tools that the model calls within its turn (pydantic_runtime.py)    *)
(* write to the same log from their threads, and never reach the bus.      *)
(***************************************************************************)
EXTENDS Naturals, Sequences, SequencesExt, FiniteSets, SequenceFold

CONSTANTS MaxRetries,    \* runtime.max_retries
          MaxTokens,     \* --max-tokens
          TurnTokens,    \* the token counts a model turn may report
          SkillStatuses, \* the statuses of a SkillResult; a raised exception is "failed"
          ToolStatuses,  \* the statuses of the model's own tool calls: a SkillResult's, or "error"
          MaxUses,       \* bound: skills the model asks for and tools it calls, in all
          MaxFaults      \* bound: failed writes and failed model calls

ASSUME LimitsAreNaturals == MaxRetries \in Nat /\ MaxTokens \in Nat /\ MaxUses \in Nat /\ MaxFaults \in Nat
ASSUME TurnTokensAreNaturals == TurnTokens \subseteq Nat
ASSUME FailuresAreStatuses == "failed" \in SkillStatuses

VARIABLES log,        \* committed rows of state_events, in id order
          queue,      \* queue[w]: the asyncio.Queue of worker w
          at,         \* at[p]: where process p is
          outbox,     \* outbox[p]: what p is publishing
          calls,      \* tool calls of the model that have begun and not ended
          tally,      \* the circuit breaker's two counters
          snapshot,   \* the session_snapshots row
          output,     \* output_parts, as a count of texts
          terminal,   \* terminal_event is set
          status,     \* the driver's status variable
          limited,    \* --max-seconds was given
          timedOut,   \* history: wait_for() raised TimeoutError
          faults      \* failures so far

vars == <<log, queue, at, outbox, calls, tally, snapshot, output, terminal, status, limited, timedOut, faults>>

-----------------------------------------------------------------------------
(* Events *)

Event(type, tag, tokens) == [type |-> type, tag |-> tag, tokens |-> tokens]

Input            == Event("AgentInputAdded", "", 0)
Action(n)        == Event("LLMActionEmitted", "", n)
Text             == Event("LLMTextEmitted", "", 0)
Request          == Event("SkillRequested", "", 0)
SkillCancelled   == Event("SkillCancelled", "", 0)
Completed(st)    == Event("SkillCompleted", st, 0)
Paused(reason)   == Event("StreamPaused", reason, 0)

\* The rows of a tool call. The second is a SkillCompleted row, too; its type here says that it was
\* not published.
ToolCalled        == Event("SkillCalled", "", 0)
ToolCompleted(st) == Event("ToolCompleted", st, 0)

Reasons == {"consecutive_failures", "budget_exhausted", "completed"}

Events == {Input, Text, Request, SkillCancelled, ToolCalled} \cup {Action(n) : n \in TurnTokens}
          \cup {Completed(st) : st \in SkillStatuses} \cup {Paused(r) : r \in Reasons}
          \cup {ToolCompleted(st) : st \in ToolStatuses}

IsPause(e) == e.type = "StreamPaused"
IsText(e) == e.type = "LLMTextEmitted"
IsTool(e) == e.type \in {"SkillCalled", "ToolCompleted"}

Tokens(s) == Sum([e \in Events |-> e.tokens], s)
Count(s, type) == Sum([e \in Events |-> IF e.type = type THEN 1 ELSE 0], s)

\* _apply_skill_statuses, over the results of the given types
CountFailure(types) ==
    [e \in Events |-> [n \in Nat |-> CASE e.type \in types /\ e.tag = "failed" -> n + 1
                                       [] e.type \in types /\ e.tag = "success" -> 0
                                       [] OTHER -> n]]

\* The failures in a row among the published results, and among all on record.
Failures(n, s) == Fold(CountFailure({"SkillCompleted"}), n, s)
AllFailures(n, s) == Fold(CountFailure({"SkillCompleted", "ToolCompleted"}), n, s)

HasPause(s) == \E i \in DOMAIN s : IsPause(s[i])

-----------------------------------------------------------------------------
Workers == {"breaker", "llm", "skill"}
Processes == Workers \cup {"driver"}

Places == [breaker |-> {"waiting", "publishing", "done", "crashed"},
           llm     |-> {"waiting", "deriving", "running", "publishing", "done", "crashed"},
           skill   |-> {"waiting", "running", "publishing", "done", "crashed"},
           driver  |-> {"publishing", "waiting", "closing", "gathering", "returned", "raised"}]

Ended(w) == at[w] \in {"done", "crashed"}
Idle == [todo |-> <<>>, persisted |-> FALSE]

\* Every process is at a place of its own and holds events it can produce.
TypeOK ==
    /\ log \in Seq(Events)
    /\ queue \in [Workers -> Seq(Events)]
    /\ DOMAIN at = Processes /\ \A p \in Processes : at[p] \in Places[p]
    /\ outbox \in [Processes -> [todo : Seq(Events), persisted : BOOLEAN]]
    /\ calls \in Nat
    /\ tally \in [tokens : Nat, failures : Nat]
    /\ snapshot \in [offset : 0..Len(log), tokens : Nat, failures : Nat, paused : BOOLEAN]
    /\ output \in Nat /\ terminal \in BOOLEAN /\ limited \in BOOLEAN /\ timedOut \in BOOLEAN
    /\ status \in Reasons /\ faults \in 0..MaxFaults

\* The three tasks are waiting on their queues (the sleep(0)), and the driver
\* is about to publish the objective.
Init ==
    /\ log = <<>>
    /\ queue = [w \in Workers |-> <<>>]
    /\ at = [p \in Processes |-> IF p = "driver" THEN "publishing" ELSE "waiting"]
    /\ outbox = [p \in Processes |-> IF p = "driver" THEN [Idle EXCEPT !.todo = <<Input>>] ELSE Idle]
    /\ calls = 0
    /\ tally = [tokens |-> 0, failures |-> 0]
    /\ snapshot = [offset |-> 0, tokens |-> 0, failures |-> 0, paused |-> FALSE]
    /\ output = 0 /\ terminal = FALSE /\ status = "completed"
    /\ limited \in BOOLEAN /\ timedOut = FALSE
    /\ faults = 0

-----------------------------------------------------------------------------
(* EventBus.publish_async(), the same for every process *)

Publishes(p, es) == outbox' = [outbox EXCEPT ![p].todo = es]

\* EventStore.persist() commits one row.
Persist(p) ==
    /\ outbox[p].todo # <<>> /\ ~outbox[p].persisted
    /\ log' = Append(log, Head(outbox[p].todo))
    /\ outbox' = [outbox EXCEPT ![p].persisted = TRUE]
    /\ UNCHANGED <<queue, at, calls, tally, snapshot, output, terminal, status, limited, timedOut, faults>>

\* Where a process goes once all its events are out.
AfterPublishing(p) ==
    CASE p = "breaker" -> "done"
      [] p \in {"llm", "skill"} -> "waiting"
      [] p = "driver" /\ at[p] = "publishing" -> "waiting"
      [] p = "driver" /\ at[p] = "closing" -> "gathering"

\* The handlers subscribed by the driver: on_text and on_pause.
Handle(e) ==
    /\ output' = IF IsText(e) THEN output + 1 ELSE output
    /\ status' = IF IsPause(e) THEN e.tag ELSE status
    /\ terminal' = (terminal \/ IsText(e) \/ IsPause(e))

\* The event types a worker reacts to; it reads the others and goes on waiting.
Reacts == [breaker |-> {"StreamPaused", "SkillCompleted", "LLMActionEmitted"},
           llm     |-> {"StreamPaused", "SkillCompleted", "AgentInputAdded"},
           skill   |-> {"StreamPaused", "SkillRequested"}]

Deliver(w, e) == IF e.type \in Reacts[w] THEN Append(queue[w], e) ELSE queue[w]

\* _dispatch(): every queue, then the handlers.  A queue whose task has ended
\* is never read again and is left out; none comes near its limit of 500, as
\* a loop has one piece of work under way at a time.
Dispatch(p) ==
    LET e == Head(outbox[p].todo) rest == Tail(outbox[p].todo)
    IN  /\ outbox[p].persisted
        /\ queue' = [w \in Workers |-> IF Ended(w) \/ (w = p /\ p = "breaker") THEN <<>> ELSE Deliver(w, e)]
        /\ Handle(e)
        /\ outbox' = [outbox EXCEPT ![p] = [todo |-> rest, persisted |-> FALSE]]
        /\ at' = IF rest = <<>> THEN [at EXCEPT ![p] = AfterPublishing(p)] ELSE at
        /\ UNCHANGED <<log, calls, tally, snapshot, limited, timedOut, faults>>

\* The write raises: the task dies, except that run_skill_worker catches the
\* failure to publish SkillCancelled and reports the skill as failed, and that
\* the driver goes on to its finally block, or leaves it without gather().
PersistFails(p) ==
    /\ outbox[p].todo # <<>> /\ ~outbox[p].persisted /\ faults < MaxFaults
    /\ faults' = faults + 1
    /\ IF p = "skill" /\ Head(outbox[p].todo) = SkillCancelled
       THEN Publishes(p, <<Completed("failed")>>) /\ UNCHANGED <<at, queue>>
       ELSE /\ Publishes(p, IF at[p] = "publishing" /\ p = "driver" THEN <<Paused("completed")>> ELSE <<>>)
            /\ at' = [at EXCEPT ![p] = CASE p # "driver" -> "crashed"
                                         [] p = "driver" /\ @ = "publishing" -> "closing"
                                         [] p = "driver" /\ @ = "closing" -> "raised"]
            /\ queue' = [w \in Workers |-> IF w = p THEN <<>> ELSE queue[w]]
    /\ UNCHANGED <<log, calls, tally, snapshot, output, terminal, status, limited, timedOut>>

-----------------------------------------------------------------------------
(* The loop of a worker: take the next event; StreamPaused ends it. *)

Take(w, e) ==
    /\ at[w] = "waiting" /\ queue[w] # <<>> /\ e = Head(queue[w])
    /\ queue' = [queue EXCEPT ![w] = IF IsPause(e) THEN <<>> ELSE Tail(@)]

Move(p, place) == at' = [at EXCEPT ![p] = place]

\* Mutant: every result that is not a failure resets the counter.
BreakerCountAnyReset(n, e) ==
    CASE e.type = "SkillCompleted" /\ e.tag = "failed" -> n + 1
      [] e.type = "SkillCompleted" /\ e.tag # "failed" -> 0
      [] OTHER -> n

\* run_circuit_breaker: its own count of consecutive failures, and the reason
\* it pauses the stream for.
BreakerCount(n, e) ==
    CASE e.type = "SkillCompleted" /\ e.tag = "failed" -> n + 1
      [] e.type = "SkillCompleted" /\ e.tag = "success" -> 0
      [] OTHER -> n

BreachOf(e, tokens, failures) ==
    CASE e.type = "LLMActionEmitted" /\ tokens > MaxTokens -> "budget_exhausted"
      [] e.type = "SkillCompleted" /\ failures > MaxRetries -> "consecutive_failures"
      [] OTHER -> "none"

BreakerStep(e) ==
    LET failures == BreakerCount(tally.failures, e)
        tokens == tally.tokens + e.tokens
        reason == BreachOf(e, tokens, failures)
    IN  /\ Take("breaker", e)
        /\ IF IsPause(e)
           THEN Move("breaker", "done") /\ UNCHANGED <<tally, outbox>>
           ELSE /\ tally' = [tokens |-> tokens, failures |-> failures]
                /\ IF reason = "none"
                   THEN UNCHANGED <<at, outbox>>
                   ELSE Move("breaker", "publishing") /\ Publishes("breaker", <<Paused(reason)>>)
        /\ UNCHANGED <<log, calls, snapshot, output, terminal, status, limited, timedOut, faults>>

\* run_llm_worker: inputs and skill results start a turn.
LlmTake(e) ==
    /\ Take("llm", e)
    /\ Move("llm", IF IsPause(e) THEN "done" ELSE "deriving")
    /\ UNCHANGED <<log, outbox, calls, tally, snapshot, output, terminal, status, limited, timedOut, faults>>

\* Mutant: the last row of the snapshot is folded a second time.
DeriveFromOffset ==
    LET new == SubSeq(log, IF snapshot.offset = 0 THEN 1 ELSE snapshot.offset, Len(log))
    IN  [offset   |-> Len(log),
         tokens   |-> snapshot.tokens + Tokens(new),
         failures |-> AllFailures(snapshot.failures, new),
         paused   |-> snapshot.paused \/ HasPause(new)]

\* derive_session_state(): the rows past the snapshot are folded into it, those of tool calls too.
Derive ==
    LET new == SubSeq(log, snapshot.offset + 1, Len(log))
    IN  [offset   |-> Len(log),
         tokens   |-> snapshot.tokens + Tokens(new),
         failures |-> AllFailures(snapshot.failures, new),
         paused   |-> snapshot.paused \/ HasPause(new)]

\* Mutant: the derived state is not asked for stream_paused.
LlmDeriveUnguarded ==
    /\ at["llm"] = "deriving"
    /\ snapshot' = Derive
    /\ Move("llm", "running")
    /\ UNCHANGED <<log, queue, outbox, calls, tally, output, terminal, status, limited, timedOut, faults>>

LlmDerive ==
    /\ at["llm"] = "deriving"
    /\ snapshot' = Derive
    /\ IF snapshot'.paused
       THEN Move("llm", "done") /\ queue' = [queue EXCEPT !["llm"] = <<>>]
       ELSE Move("llm", "running") /\ UNCHANGED queue
    /\ UNCHANGED <<log, outbox, calls, tally, output, terminal, status, limited, timedOut, faults>>

MoreUses == Count(log, "SkillRequested") + Count(log, "SkillCalled") < MaxUses

\* _persist_tool_started, _persist_tool_completed
Records(row, lost) ==
    /\ IF lost THEN faults < MaxFaults /\ faults' = faults + 1 /\ UNCHANGED log
               ELSE log' = Append(log, row) /\ UNCHANGED faults
    /\ UNCHANGED <<queue, at, outbox, tally, snapshot, output, terminal, status, limited, timedOut>>

\* _execute_builtin_tool, execute_skill_as_tool: the model calls a tool, in a
\* thread of its own beside the others of its round. The start and the end are
\* written to the log; a write that fails is swallowed, and the row is missing.
ToolStarts(lost) ==
    /\ at["llm"] = "running" /\ MoreUses
    /\ calls' = calls + 1
    /\ Records(ToolCalled, lost)

\* The call ends, or raises. A call beside it whose error ended the turn does
\* not stop its thread.
ToolEnds(st, lost) ==
    /\ at["llm"] \in {"running", "crashed"} /\ calls > 0
    /\ calls' = calls - 1
    /\ Records(ToolCompleted(st), lost)

\* run_text() returns, with no call open: usage first, then a skill request, a
\* text, or nothing when the content is empty.
LlmReturns(n, reply) ==
    /\ at["llm"] = "running" /\ calls = 0
    /\ reply = <<Request>> => MoreUses
    /\ Move("llm", "publishing")
    /\ Publishes("llm", <<Action(n)>> \o reply)
    /\ UNCHANGED <<log, queue, calls, tally, snapshot, output, terminal, status, limited, timedOut, faults>>

\* run_text() raises, also for a tool that did: nobody catches it, the task is lost.
LlmRaises ==
    /\ at["llm"] = "running" /\ faults < MaxFaults
    /\ faults' = faults + 1
    /\ Move("llm", "crashed") /\ queue' = [queue EXCEPT !["llm"] = <<>>]
    /\ UNCHANGED <<log, outbox, calls, tally, snapshot, output, terminal, status, limited, timedOut>>

\* run_skill_worker
SkillTake(e) ==
    /\ Take("skill", e)
    /\ Move("skill", IF IsPause(e) THEN "done" ELSE "running")
    /\ UNCHANGED <<log, outbox, calls, tally, snapshot, output, terminal, status, limited, timedOut, faults>>

\* execute_skill() returns, or raises, which counts as "failed".
SkillReturns(st) ==
    /\ at["skill"] = "running"
    /\ Move("skill", "publishing")
    /\ Publishes("skill", IF st = "cancelled" THEN <<SkillCancelled, Completed(st)>> ELSE <<Completed(st)>>)
    /\ UNCHANGED <<log, queue, calls, tally, snapshot, output, terminal, status, limited, timedOut, faults>>

-----------------------------------------------------------------------------
(* _run_event_sourced_goal *)

\* Mutant: the tasks are not told to stop.
CloseSilently(late) ==
    /\ at["driver"] = "waiting"
    /\ IF late THEN limited /\ ~terminal ELSE terminal
    /\ timedOut' = late
    /\ status' = IF late THEN "budget_exhausted" ELSE status
    /\ Move("driver", "gathering")
    /\ UNCHANGED <<log, queue, outbox, calls, tally, snapshot, output, terminal, limited, faults>>

\* wait_for() ends, in time or not, and the finally block publishes a pause.
Close(late) ==
    /\ at["driver"] = "waiting"
    /\ IF late THEN limited /\ ~terminal ELSE terminal
    /\ timedOut' = late
    /\ status' = IF late THEN "budget_exhausted" ELSE status
    /\ Move("driver", "closing") /\ Publishes("driver", <<Paused("completed")>>)
    /\ UNCHANGED <<log, queue, calls, tally, snapshot, output, terminal, limited, faults>>

\* Mutant: the driver does not wait for the tasks.
ReturnWithoutGather ==
    /\ at["driver"] = "gathering"
    /\ Move("driver", "returned")
    /\ UNCHANGED <<log, queue, outbox, calls, tally, snapshot, output, terminal, status, limited, timedOut, faults>>

\* gather(): all three tasks have ended.
GatherReturns ==
    /\ at["driver"] = "gathering" /\ \A w \in Workers : Ended(w)
    /\ Move("driver", "returned")
    /\ UNCHANGED <<log, queue, outbox, calls, tally, snapshot, output, terminal, status, limited, timedOut, faults>>

-----------------------------------------------------------------------------
Replies == {<<Request>>, <<Text>>, <<>>}

\* An exception of the driver cancels the tasks. The threads of tool calls go on.
Alive == at["driver"] # "raised"

Breaker == Alive /\ \E e \in Events : BreakerStep(e)
ToolCalls(lost) == ToolStarts(lost) \/ \E st \in ToolStatuses : ToolEnds(st, lost)
Llm == \/ /\ Alive
          /\ \/ \E e \in Events : LlmTake(e)
             \/ LlmDerive
             \/ \E n \in TurnTokens, reply \in Replies : LlmReturns(n, reply)
       \/ ToolCalls(FALSE)
Skill == /\ Alive
         /\ \/ \E e \in Events : SkillTake(e)
            \/ \E st \in SkillStatuses : SkillReturns(st)
Publish(p) == Alive /\ (Persist(p) \/ Dispatch(p))
Fault == (Alive /\ (LlmRaises \/ \E p \in Processes : PersistFails(p))) \/ ToolCalls(TRUE)
Driver == (\E late \in BOOLEAN : Close(late)) \/ GatherReturns

Step(p) == Publish(p) \/ (p = "breaker" /\ Breaker) \/ (p = "llm" /\ Llm)
           \/ (p = "skill" /\ Skill) \/ (p = "driver" /\ Driver)

Next == Fault \/ \E p \in Processes : Step(p)

Spec == Init /\ [][Next]_vars

\* asyncio runs every ready task, threads finish their write, model calls and
\* skills return (both carry timeouts), and a timer that is set expires.
FairSpec == Spec /\ \A p \in Processes : WF_vars(Step(p))

-----------------------------------------------------------------------------
(* Safety *)

\* Written but not yet dispatched by p.
InFlight(p) == IF outbox[p].persisted THEN <<Head(outbox[p].todo)>> ELSE <<>>

\* However writes and dispatches interleave, the breaker neither misses an
\* event nor counts one twice: its counters, its queue and what is being
\* published add up to the log.
BreakerCounts ==
    ~Ended("breaker") /\ at["breaker"] # "publishing" =>
        /\ tally.tokens + Tokens(queue["breaker"] \o InFlight("llm")) = Tokens(log)
        /\ Failures(tally.failures, queue["breaker"] \o InFlight("skill")) = Failures(0, log)

\* A pause by the breaker is justified by the log before it, and there is one
\* at most.
PauseJustified ==
    /\ \A i \in DOMAIN log : LET before == SubSeq(log, 1, i - 1) IN
          /\ log[i] = Paused("budget_exhausted") => Tokens(before) > MaxTokens
          /\ log[i] = Paused("consecutive_failures") =>
                \E j \in 1..(i - 1) : Failures(0, SubSeq(log, 1, j)) > MaxRetries
    /\ Cardinality({i \in DOMAIN log : log[i] \in {Paused("budget_exhausted"), Paused("consecutive_failures")}}) <= 1

\* The breaker's arithmetic survives the interleavings, and decides what it should.
BreakerIsExact == BreakerCounts /\ PauseJustified

\* The part of the log after the first pause.
AfterPause == SelectInSeq(log, IsPause)
LateLog == IF HasPause(log) THEN SubSeq(log, AfterPause + 1, Len(log)) ELSE <<>>

\* Once a pause is written, the turn that is running may end and the skill it
\* asks for or left running may end too, but nothing else follows. The turn may
\* still call any number of tools, and none is on record after its end.
LateWorkBounded ==
    /\ Count(LateLog, "LLMActionEmitted") <= 1 /\ Count(LateLog, "SkillCompleted") <= 1
    /\ \A n \in DOMAIN LateLog : IsTool(LateLog[n]) => Count(SubSeq(LateLog, 1, n), "LLMActionEmitted") = 0

\* The incremental snapshot equals a full replay of the rows it covers.
SnapshotIsReplay ==
    LET covered == SubSeq(log, 1, snapshot.offset)
    IN  /\ snapshot.tokens = Tokens(covered)
        /\ snapshot.failures = AllFailures(0, covered)
        /\ snapshot.paused = HasPause(covered)

\* One thread of work: no skill result without its request, no turn without
\* its input or skill result, one text at the end. A tool is called within a
\* turn, before the text, and its end has a start unless that row was lost.
OneThreadOfWork ==
    /\ \A n \in DOMAIN log : LET s == SubSeq(log, 1, n) IN
          /\ Count(s, "SkillCompleted") <= Count(s, "SkillRequested")
          /\ Count(s, "LLMActionEmitted") <= 1 + Count(s, "SkillCompleted")
          /\ IsTool(log[n]) => /\ Count(s, "LLMActionEmitted") <= Count(s, "SkillCompleted")
                               /\ Count(s, "LLMTextEmitted") = 0
          /\ Count(s, "ToolCompleted") <= Count(s, "SkillCalled") + faults
    /\ Count(log, "LLMTextEmitted") <= 1

\* What the processors derive from the log, and what the log holds, fit together.
\* The snapshot's failures are not the breaker's: they count the tool calls.
LogIsSound == TypeOK /\ SnapshotIsReplay /\ OneThreadOfWork

\* When the driver returns, everything written has been dispatched, also what
\* a turn or a skill wrote after the timeout, and the text is in the output.
ReturnIsFinal ==
    at["driver"] = "returned" =>
        /\ \A p \in Processes : outbox[p] = Idle
        /\ output = Count(log, "LLMTextEmitted")
        /\ HasPause(log)

\* A goal that ran into its time limit or its token budget is reported as
\* exhausted (GoalRunResult.status).
ExhaustionIsReported ==
    at["driver"] = "returned" /\ (timedOut \/ Paused("budget_exhausted") \in Range(log))
        => status = "budget_exhausted"

-----------------------------------------------------------------------------
(* Liveness *)

Over == at["driver"] \in {"returned", "raised"}

\* A goal has to end under a time limit, whatever fails, and without one once a
\* budget is exceeded and the breaker lives. Only published results count.
Breach == \/ Tokens(log) > MaxTokens
          \/ \E n \in DOMAIN log : Failures(0, SubSeq(log, 1, n)) > MaxRetries
MustEnd == ~Over /\ (limited \/ (Breach /\ at["breaker"] # "crashed"))
GoalEnds == MustEnd ~> ~MustEnd

=============================================================================
