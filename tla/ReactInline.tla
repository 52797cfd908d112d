----------------------------- MODULE ReactInline -----------------------------
(***************************************************************************)
(* The v2 ReAct mode: V2Runtime.start and stop (v2/wiring.py) around the   *)
(* four subscribers CircuitBreaker, LlmWorker, ToolWorker and              *)
(* GoalEvaluator (v2/subscribers/), driven by _run_v2_react_mode of cli.py *)
(* ("run --mode react") or by _run_react_inline of repl.py (an input of    *)
(* the chat). All of them are tasks of one event loop, and publish()       *)
(* writes and dispatches without a suspension: a step of this model is     *)
(* what a task does between two awaits.                                    *)
(*                                                                         *)
(* At this commit the mode does not get that far: llm_worker.py:28 imports *)
(* MapEntryReferenced from core.events.events, which defines no such name, *)
(* so build_v2_runtime(mode="react") raises ImportError. The model is of   *)
(* the subscribers as written, with that import taken from core.events,    *)
(* which does export the name.                                             *)
(***************************************************************************)
EXTENDS Naturals, Sequences

CONSTANTS MaxRetries,    \* runtime.max_retries
          MaxTokens,     \* runtime.max_tokens
          MaxIterations, \* GoalEvaluator.max_iterations
          TurnTokens,    \* what a model call may cost
          MaxAsks,       \* bound: skills the model asks for in one session
          MaxRuns,       \* bound: runs of one session
          MaxErrors      \* bound: failed writes and failed model calls

VARIABLES surface,  \* "cli" or "repl"
          limited,  \* wait_for has a timeout
          driver,   \* "idle", "publish", "waiting", "stop", "stopping" or "left"
          place,    \* place[w]: where the task of subscriber w is
          inbox,    \* inbox[w]: its queue
          events,   \* the state_events rows, as [type, tokens]
          tally,    \* the breaker's failures and tokens
          rounds,   \* _iteration_count, which lives as long as the runtime
          terminal, \* terminal_event is set
          texts,    \* output_parts, as a count
          runs,     \* runs begun
          asks, errors

vars == <<surface, limited, driver, place, inbox, events, tally, rounds, terminal, texts, runs, asks, errors>>
driving == <<surface, limited, driver, runs>>

Workers == {"breaker", "llm", "tool", "goal"}
Event(type) == [type |-> type, tokens |-> 0]
\* derive_session_state finds a pause anywhere in the session's events.
StreamPaused == \E i \in DOMAIN events : events[i].type = "StreamPaused"

\* publish(): a row, and a copy for every queue and for the handlers of the driver; or an error.
Publish(sent) ==
    /\ events' = events \o sent
    /\ inbox' = [w \in Workers |-> IF place[w] \in {"off", "new"} THEN inbox[w] ELSE inbox[w] \o sent]
    /\ LET said == SelectSeq(sent, LAMBDA e : e.type = "LLMTextEmitted")
           ends == SelectSeq(sent, LAMBDA e : e.type \in {"LLMTextEmitted", "StreamPaused", "GoalEvaluated"})
       IN texts' = texts + Len(said) /\ terminal' = (terminal \/ ends # <<>>)
Silent == UNCHANGED <<events, inbox, texts, terminal>>
Move(w, there) == place' = [place EXCEPT ![w] = there]
\* An exception ends the task; gather collects it.
Dies(w) == errors < MaxErrors /\ errors' = errors + 1 /\ Move(w, "off") /\ Silent

Init ==
    /\ surface \in {"cli", "repl"} /\ limited \in BOOLEAN /\ (surface = "repl" => limited)
    /\ driver = "idle" /\ place = [w \in Workers |-> "off"] /\ inbox = [w \in Workers |-> <<>>]
    /\ events = <<>> /\ tally = [failures |-> 0, tokens |-> 0] /\ rounds = 0
    /\ terminal = FALSE /\ texts = 0 /\ runs = 0 /\ asks = 0 /\ errors = 0

-----------------------------------------------------------------------------
(* The driver *)

\* start() creates the tasks, which have not begun when it returns. The chat publishes the input at
\* once; a session of the command line has one run.
Begin ==
    /\ driver = "idle" /\ runs < (IF surface = "repl" THEN MaxRuns ELSE 1)
    /\ runs' = runs + 1 /\ terminal' = FALSE
    /\ place' = [w \in Workers |-> "new"] /\ inbox' = [w \in Workers |-> <<>>]
    /\ \/ surface = "cli" /\ driver' = "publish" /\ UNCHANGED events
       \/ surface = "repl" /\ driver' = "waiting" /\ events' = Append(events, Event("AgentInputAdded"))
       \/ surface = "repl" /\ errors < MaxErrors /\ driver' = "stop" /\ UNCHANGED events
    /\ errors' = IF driver' = "stop" THEN errors + 1 ELSE errors
    /\ UNCHANGED <<surface, limited, tally, rounds, texts, asks>>

\* The command line sleeps first, and every task subscribes before it goes on.
Input ==
    /\ driver = "publish" /\ \A w \in Workers : place[w] # "new"
    /\ \/ Publish(<<Event("AgentInputAdded")>>) /\ driver' = "waiting" /\ UNCHANGED errors
       \/ errors < MaxErrors /\ errors' = errors + 1 /\ driver' = "stop" /\ Silent
    /\ UNCHANGED <<surface, limited, place, tally, rounds, runs, asks>>

\* wait_for returns, or its time is up.
Wait ==
    /\ driver = "waiting" /\ (terminal \/ limited)
    /\ texts' = IF terminal THEN texts ELSE texts + 1
    /\ driver' = "stop"
    /\ UNCHANGED <<surface, limited, place, inbox, events, tally, rounds, terminal, runs, asks, errors>>

\* stop() publishes a pause and gathers the tasks; when it cannot, asyncio.run cancels them.
Stop ==
    /\ driver = "stop"
    /\ \/ Publish(<<Event("StreamPaused")>>) /\ driver' = "stopping" /\ UNCHANGED <<place, errors>>
       \/ /\ errors < MaxErrors /\ errors' = errors + 1
          /\ place' = [w \in Workers |-> "off"] /\ driver' = "idle" /\ Silent
    /\ UNCHANGED <<surface, limited, tally, rounds, runs, asks>>

Gather ==
    /\ driver = "stopping" /\ \A w \in Workers : place[w] = "off"
    /\ driver' = "idle"
    /\ UNCHANGED <<surface, limited, place, inbox, events, tally, rounds, terminal, texts, runs, asks, errors>>

\* The chat joins the thread of the run for 130 seconds only. What a thread that was given up goes on
\* to do beside a next run is left out: the session ends here.
GiveUp ==
    /\ driver = "stopping" /\ surface = "repl" /\ driver' = "left"
    /\ UNCHANGED <<surface, limited, place, inbox, events, tally, rounds, terminal, texts, runs, asks, errors>>

-----------------------------------------------------------------------------
(* The subscribers *)

Subscribe(w) ==
    /\ place[w] = "new" /\ Move(w, "listening") /\ Silent
    /\ tally' = IF w = "breaker" THEN [failures |-> 0, tokens |-> 0] ELSE tally
    /\ UNCHANGED <<driving, rounds, asks, errors>>

\* The next event of the session is taken: what the worker publishes comes after it.
Takes(w) == place[w] = "listening" /\ inbox[w] # <<>>
Head1(w) == Head(inbox[w])
Taken(w, sent) ==
    /\ inbox' = [[v \in Workers |-> IF place[v] \in {"off", "new"} THEN inbox[v] ELSE inbox[v] \o sent]
                     EXCEPT ![w] = Tail(@) \o sent]
    /\ events' = events \o sent
    /\ terminal' = (terminal \/ sent # <<>>) /\ UNCHANGED texts

\* Every subscriber leaves at a pause.
Leave(w) ==
    /\ Takes(w) /\ Head1(w).type = "StreamPaused"
    /\ Move(w, "off") /\ Silent
    /\ UNCHANGED <<driving, tally, rounds, asks, errors>>

\* CircuitBreaker.run: the failures in a row and the tokens are counted, and a breach is published.
Counted(e) ==
    [failures |-> CASE e.type = "SkillFailed" -> tally.failures + 1
                    [] e.type = "SkillSucceeded" -> 0
                    [] OTHER -> tally.failures,
     tokens   |-> tally.tokens + e.tokens]
Breached(e) == (e.type \in {"SkillFailed", "SkillSucceeded", "SkillCancelled"} /\ Counted(e).failures > MaxRetries)
               \/ (e.type = "LLMActionEmitted" /\ Counted(e).tokens > MaxTokens)
Breaker ==
    /\ Takes("breaker") /\ Head1("breaker").type # "StreamPaused"
    /\ tally' = Counted(Head1("breaker"))
    /\ \/ Breached(Head1("breaker")) /\ Taken("breaker", <<Event("StreamPaused")>>) /\ Move("breaker", "off") /\ UNCHANGED errors
       \/ ~Breached(Head1("breaker")) /\ Taken("breaker", <<>>) /\ UNCHANGED <<place, errors>>
       \/ Breached(Head1("breaker")) /\ Dies("breaker")
    /\ UNCHANGED <<driving, rounds, asks>>

\* GoalEvaluator.run: a text completes the goal, and the iterations of all runs are limited.
Goal ==
    /\ Takes("goal") /\ Head1("goal").type # "StreamPaused"
    /\ LET e == Head1("goal")
           counted == rounds + (IF e.type = "LLMActionEmitted" THEN 1 ELSE 0)
           verdicts == (IF e.type = "LLMTextEmitted" THEN 1 ELSE 0) + (IF counted >= MaxIterations THEN 1 ELSE 0)
       IN /\ rounds' = counted
          /\ \/ /\ Taken("goal", [i \in 1..verdicts |-> Event("GoalEvaluated")]) /\ UNCHANGED errors
                /\ IF counted >= MaxIterations THEN Move("goal", "off") ELSE UNCHANGED place
             \/ verdicts > 0 /\ Dies("goal")
    /\ UNCHANGED <<driving, tally, asks>>

\* LlmWorker.run: an input or a result is followed by a look at the session's state, in a thread,
Prompts == {"AgentInputAdded", "SkillSucceeded", "SkillFailed", "SkillCancelled"}
Hear ==
    /\ Takes("llm") /\ Head1("llm").type # "StreamPaused"
    /\ Taken("llm", <<>>)
    /\ IF Head1("llm").type \in Prompts THEN Move("llm", "deriving") ELSE UNCHANGED place
    /\ UNCHANGED <<driving, tally, rounds, asks, errors>>

Derive ==
    /\ place["llm"] = "deriving"
    /\ Move("llm", IF StreamPaused THEN "off" ELSE "model")
    /\ Silent /\ UNCHANGED <<driving, tally, rounds, asks, errors>>

\* by the model call, in another one, and by the events of its answer: a request, a text, or none when
\* the content is empty. A failed write or model call ends the task.
Reply ==
    /\ place["llm"] = "model"
    /\ \/ \E n \in TurnTokens, answer \in {<<Event("SkillRequested")>>, <<Event("LLMTextEmitted")>>, <<>>} :
             /\ answer = <<Event("SkillRequested")>> => asks < MaxAsks
             /\ asks' = IF answer = <<Event("SkillRequested")>> THEN asks + 1 ELSE asks
             /\ Publish(<<[Event("LLMActionEmitted") EXCEPT !.tokens = n]>> \o answer)
             /\ Move("llm", "listening") /\ UNCHANGED errors
       \/ Dies("llm") /\ UNCHANGED asks
       \/ errors < MaxErrors /\ errors' = errors + 1 /\ Move("llm", "off") /\ UNCHANGED asks
          /\ \E n \in TurnTokens : Publish(<<[Event("LLMActionEmitted") EXCEPT !.tokens = n]>>)
    /\ UNCHANGED <<driving, tally, rounds>>

\* ToolWorker.run: a request runs in a thread, and its result is published; a failed write of a
\* result is answered by a failed result.
Serve ==
    /\ Takes("tool") /\ Head1("tool").type # "StreamPaused"
    /\ Taken("tool", <<>>)
    /\ IF Head1("tool").type = "SkillRequested" THEN Move("tool", "skill") ELSE UNCHANGED place
    /\ UNCHANGED <<driving, tally, rounds, asks, errors>>

Serves ==
    /\ place["tool"] = "skill" /\ Move("tool", "listening")
    /\ \/ \E result \in {"SkillSucceeded", "SkillFailed", "SkillCancelled"} : Publish(<<Event(result)>>) /\ UNCHANGED errors
       \/ errors < MaxErrors /\ errors' = errors + 1 /\ Publish(<<Event("SkillFailed")>>)
    /\ UNCHANGED <<driving, tally, rounds, asks>>

Work(w) == Subscribe(w) \/ Leave(w) \/ (w = "breaker" /\ Breaker) \/ (w = "goal" /\ Goal)
           \/ (w = "llm" /\ (Hear \/ Derive \/ Reply)) \/ (w = "tool" /\ (Serve \/ Serves))
Driver == Input \/ Wait \/ Stop \/ Gather \/ GiveUp

Step(p) == (p = "driver" /\ Driver) \/ (p \in Workers /\ Work(p))

Next == Begin \/ \E p \in Workers \cup {"driver"} : Step(p)
Fairness == \A p \in Workers \cup {"driver"} : WF_vars(Step(p))
Spec == Init /\ [][Next]_vars /\ Fairness

-----------------------------------------------------------------------------
\* A run that has a time limit ends, whichever subscriber died or broke off: stop() reaches every
\* task of gather (V2Runtime.stop).
MustEnd == limited /\ driver \notin {"idle", "left"}
RunsEnd == MustEnd ~> ~MustEnd
=============================================================================
