--------------------------- MODULE BackgroundPool ---------------------------
(***************************************************************************)
(* The background sub-agent pool of harness_poc/v2/execution_engine.py.    *)
(*                                                                         *)
(* One caller (the thread that runs the REPL commands /spawn, /tasks,      *)
(* /result and /cancel) and one daemon thread per task share three Python  *)
(* containers without a lock.  A single operation on a container is        *)
(* atomic; everything else interleaves, so each method below is a          *)
(* sequence of steps, one per access to shared state.                      *)
(***************************************************************************)
EXTENDS Naturals, FiniteSets

CONSTANTS Tasks,          \* task identifiers (fresh uuids)
          MaxBackground   \* max_background_agents

ASSUME TasksFinite == IsFiniteSet(Tasks)
ASSUME MaxBackgroundPos == MaxBackground \in Nat \ {0}

VARIABLES active,     \* keys of _active_tasks
          results,    \* keys of _results_cache
          cancelled,  \* _cancelled
          thread,     \* thread[t]: where the daemon thread of t is
          call,       \* the method the caller is executing
          answer,     \* what the caller's last finished method returned
          fetched     \* history: tasks whose result was returned to the caller

pool == <<active, results, cancelled>>
vars == <<active, results, cancelled, thread, call, answer, fetched>>

-----------------------------------------------------------------------------
(* The caller and its threads *)

ThreadStates == {"unborn", "registered", "running", "storing", "clearing",
                 "discarding", "exiting", "dead"}

\* Thread.is_alive()
Alive(t) == thread[t] \notin {"unborn", "registered", "dead"}

Queries == {"status", "result", "cancel"}

NoCall == [op |-> "none", at |-> "idle", tasks |-> {}, seen |-> {}]

\* "seen" is what the method has read so far, kept in its local variables.
Calls == [op    : Queries \cup {"none", "spawn", "list"},
          at    : {"idle", "admit", "start", "results", "active", "index",
                   "alive", "take", "untrack", "mark", "drop",
                   "listActive", "listResults", "listEnd"},
          tasks : SUBSET Tasks,
          seen  : SUBSET Tasks]

Values == {"none", "queued", "SubAgentPoolFullError", "running", "done",
           "cancelled", "unknown", "result", "TaskNotCompleteError",
           "TaskCancelledError", "TaskNotFoundError", "KeyError", "True",
           "False", "listed", "RuntimeError"}

NoAnswer == [op |-> "none", tasks |-> {}, seen |-> {}, value |-> "none"]

Answers == [op : Queries \cup {"none", "spawn", "list"}, tasks : SUBSET Tasks,
            seen : SUBSET Tasks, value : Values]

\* Every container, thread, call and answer is one the code can produce.
TypeOK ==
    /\ active \subseteq Tasks
    /\ results \subseteq Tasks
    /\ cancelled \subseteq Tasks
    /\ thread \in [Tasks -> ThreadStates]
    /\ call \in Calls
    /\ answer \in Answers
    /\ fetched \subseteq Tasks

Init ==
    /\ active = {}
    /\ results = {}
    /\ cancelled = {}
    /\ thread = [t \in Tasks |-> "unborn"]
    /\ call = NoCall
    /\ answer = NoAnswer
    /\ fetched = {}

\* The caller enters a method having read "seen", and will next be at "at".
Enter(op, ts, at, seen) ==
    /\ call.op = "none"
    /\ call' = [op |-> op, at |-> at, tasks |-> ts, seen |-> seen]
    /\ answer' = NoAnswer

Goto(from, to) ==
    /\ call.at = from
    /\ call' = [call EXCEPT !.at = to]
    /\ UNCHANGED answer

Return(value) ==
    /\ call' = NoCall
    /\ answer' = [op |-> call.op, tasks |-> call.tasks, seen |-> call.seen, value |-> value]

\* The one task of a call on a single task.
On(t) == call.tasks = {t}

-----------------------------------------------------------------------------
(* spawn_sub_agent(mode="background") *)

\* A fresh task_id; len(_active_tasks) is read first.
SpawnCall(t) ==
    /\ thread[t] = "unborn"
    /\ Enter("spawn", {t}, "admit", active)
    /\ UNCHANGED <<pool, thread, fetched>>

\* Then len(_results_cache), the capacity test, and the registration of the
\* thread object.
SpawnRefused ==
    /\ call.at = "admit"
    /\ Cardinality(call.seen) + Cardinality(results) >= MaxBackground
    /\ Return("SubAgentPoolFullError")
    /\ UNCHANGED <<pool, thread, fetched>>

\* Mutant: the comparison with the capacity is off by one.
SpawnAdmittedOffByOne(t) ==
    /\ On(t)
    /\ Cardinality(call.seen) + Cardinality(results) <= MaxBackground
    /\ Goto("admit", "start")
    /\ active' = active \cup {t}
    /\ thread' = [thread EXCEPT ![t] = "registered"]
    /\ UNCHANGED <<results, cancelled, fetched>>

\* Mutant: finished results do not count against the capacity.
SpawnAdmittedActiveOnly(t) ==
    /\ On(t)
    /\ Cardinality(call.seen) < MaxBackground
    /\ Goto("admit", "start")
    /\ active' = active \cup {t}
    /\ thread' = [thread EXCEPT ![t] = "registered"]
    /\ UNCHANGED <<results, cancelled, fetched>>

SpawnAdmitted(t) ==
    /\ On(t)
    /\ Cardinality(call.seen) + Cardinality(results) < MaxBackground
    /\ Goto("admit", "start")
    /\ active' = active \cup {t}
    /\ thread' = [thread EXCEPT ![t] = "registered"]
    /\ UNCHANGED <<results, cancelled, fetched>>

SpawnStart(t) ==
    /\ On(t) /\ call.at = "start"
    /\ thread' = [thread EXCEPT ![t] = "running"]
    /\ Return("queued")
    /\ UNCHANGED <<pool, fetched>>

-----------------------------------------------------------------------------
(* status(task_id), on its own and as the first part of result and cancel *)

\* What each method does with the status it has computed.
Conclude(t, status) ==
    \/ /\ call.op = "status"
       /\ Return(status)
    \/ /\ call.op \in {"result", "cancel"} /\ status = "unknown"
       /\ Return("TaskNotFoundError")
    \/ /\ call.op = "result" /\ status = "running"
       /\ Return("TaskNotCompleteError")
    \/ /\ call.op = "result" /\ status = "done"
       /\ Goto(call.at, "take")
    \/ /\ call.op = "cancel" /\ status = "done"
       /\ Return("False")
    \/ /\ call.op = "cancel" /\ status = "running"
       /\ Goto(call.at, "mark")

\* Mutant: status() does not look at _cancelled.
QueryCallUnchecked(op, t) ==
    /\ Enter(op, {t}, "results", {})
    /\ UNCHANGED <<pool, thread, fetched>>

\* task_id in _cancelled
QueryCall(op, t) ==
    /\ call.op = "none"
    /\ IF t \in cancelled
       THEN /\ answer' = [op |-> op, tasks |-> {t}, seen |-> {},
                          value |-> CASE op = "status" -> "cancelled"
                                      [] op = "result" -> "TaskCancelledError"
                                      [] op = "cancel" -> "False"]
            /\ UNCHANGED call
       ELSE Enter(op, {t}, "results", {})
    /\ UNCHANGED <<pool, thread, fetched>>

\* task_id in _results_cache
QueryResults(t) ==
    /\ On(t) /\ call.at = "results"
    /\ IF t \in results THEN Conclude(t, "done") ELSE Goto("results", "active")
    /\ UNCHANGED <<pool, thread, fetched>>

\* task_id in _active_tasks
QueryActive(t) ==
    /\ On(t) /\ call.at = "active"
    /\ IF t \in active THEN Goto("active", "index") ELSE Conclude(t, "unknown")
    /\ UNCHANGED <<pool, thread, fetched>>

\* _active_tasks[task_id]: the daemon thread may have popped the key.
QueryIndex(t) ==
    /\ On(t) /\ call.at = "index"
    /\ IF t \in active THEN Goto("index", "alive") ELSE Return("KeyError")
    /\ UNCHANGED <<pool, thread, fetched>>

\* .is_alive()
QueryAlive(t) ==
    /\ On(t) /\ call.at = "alive"
    /\ Conclude(t, IF Alive(t) THEN "running" ELSE "unknown")
    /\ UNCHANGED <<pool, thread, fetched>>

-----------------------------------------------------------------------------
(* result(task_id), once the status is "done" *)

\* _results_cache.pop(task_id)
ResultTake(t) ==
    /\ On(t)
    /\ Goto("take", "untrack")
    /\ results' = results \ {t}
    /\ fetched' = fetched \cup {t}
    /\ UNCHANGED <<active, cancelled, thread>>

\* _active_tasks.pop(task_id, None)
ResultUntrack(t) ==
    /\ On(t) /\ call.op = "result" /\ call.at = "untrack"
    /\ active' = active \ {t}
    /\ Return("result")
    /\ UNCHANGED <<results, cancelled, thread, fetched>>

-----------------------------------------------------------------------------
(* cancel(task_id), once the status is "running" *)

CancelMark(t) ==
    /\ On(t)
    /\ Goto("mark", "untrack")
    /\ cancelled' = cancelled \cup {t}
    /\ UNCHANGED <<active, results, thread, fetched>>

CancelUntrack(t) ==
    /\ On(t) /\ call.op = "cancel"
    /\ Goto("untrack", "drop")
    /\ active' = active \ {t}
    /\ UNCHANGED <<results, cancelled, thread, fetched>>

CancelDrop(t) ==
    /\ On(t) /\ call.at = "drop"
    /\ results' = results \ {t}
    /\ Return("True")
    /\ UNCHANGED <<active, cancelled, thread, fetched>>

-----------------------------------------------------------------------------
(* list_tasks(): the cancelled ids, then an iteration over each dict.  A    *)
(* dict iterator raises RuntimeError at its next step if the dict changed   *)
(* size meanwhile; daemon threads only shrink _active_tasks and only grow   *)
(* _results_cache, so testing its last step is enough.                      *)

\* Mutant: the listing starts without the cancelled tasks.
ListCallWithoutCancelled ==
    /\ Enter("list", {}, "listActive", {})
    /\ UNCHANGED <<pool, thread, fetched>>

ListCall ==
    /\ Enter("list", {}, "listActive", cancelled)
    /\ UNCHANGED <<pool, thread, fetched>>

\* The iterator over _active_tasks is created; its keys are in "tasks".
ListActive ==
    /\ call.at = "listActive"
    /\ call' = [call EXCEPT !.at = "listResults", !.tasks = active, !.seen = @ \cup active]
    /\ UNCHANGED <<pool, thread, answer, fetched>>

\* It is exhausted, and the iterator over _results_cache is created.
ListResults ==
    /\ call.at = "listResults"
    /\ IF Cardinality(active) # Cardinality(call.tasks)
       THEN Return("RuntimeError")
       ELSE /\ call' = [call EXCEPT !.at = "listEnd", !.tasks = results, !.seen = @ \cup results]
            /\ UNCHANGED answer
    /\ UNCHANGED <<pool, thread, fetched>>

ListEnd ==
    /\ call.at = "listEnd"
    /\ Return(IF Cardinality(results) # Cardinality(call.tasks) THEN "RuntimeError" ELSE "listed")
    /\ UNCHANGED <<pool, thread, fetched>>

-----------------------------------------------------------------------------
(* _run_background_task: the daemon thread of t *)

At(t, from, to) ==
    /\ thread[t] = from
    /\ thread' = [thread EXCEPT ![t] = to]
    /\ UNCHANGED <<call, answer, fetched>>

\* The delegate_task handler has returned or raised; task_id in _cancelled.
WorkerFinish(t) ==
    /\ At(t, "running", IF t \in cancelled THEN "discarding" ELSE "storing")
    /\ UNCHANGED pool

\* Mutant: the worker leaves _active_tasks before it stores its result.
WorkerStoreUntracksFirst(t) ==
    /\ At(t, "storing", "clearing")
    /\ active' = active \ {t}
    /\ UNCHANGED <<results, cancelled>>

WorkerStore(t) ==
    /\ At(t, "storing", "clearing")
    /\ results' = results \cup {t}
    /\ UNCHANGED <<active, cancelled>>

\* Mutant: the worker does not leave _active_tasks.
WorkerClearForgotten(t) ==
    /\ At(t, "clearing", "exiting") \/ At(t, "discarding", "exiting")
    /\ UNCHANGED pool

WorkerClear(t) ==
    /\ At(t, "clearing", "exiting") \/ At(t, "discarding", "exiting")
    /\ active' = active \ {t}
    /\ UNCHANGED <<results, cancelled>>

WorkerExit(t) == At(t, "exiting", "dead") /\ UNCHANGED pool

Worker(t) == WorkerFinish(t) \/ WorkerStore(t) \/ WorkerClear(t) \/ WorkerExit(t)

-----------------------------------------------------------------------------
Begin ==
    \/ \E t \in Tasks : SpawnCall(t) \/ (\E op \in Queries : QueryCall(op, t))
    \/ ListCall

Continue ==
    \/ \E t \in Tasks :
          \/ SpawnAdmitted(t) \/ SpawnStart(t)
          \/ QueryResults(t) \/ QueryActive(t) \/ QueryIndex(t) \/ QueryAlive(t)
          \/ ResultTake(t) \/ ResultUntrack(t)
          \/ CancelMark(t) \/ CancelUntrack(t) \/ CancelDrop(t)
    \/ SpawnRefused \/ ListActive \/ ListResults \/ ListEnd

Next == Begin \/ Continue \/ \E t \in Tasks : Worker(t)

Spec == Init /\ [][Next]_vars

\* A method once entered runs on, and so does a started thread: the delegate
\* handler returns or raises (its model calls carry timeouts).  The caller is
\* free never to issue another command.
FairSpec ==
    /\ Spec
    /\ WF_vars(Continue)
    /\ \A t \in Tasks : WF_vars(Worker(t))

-----------------------------------------------------------------------------
(* Safety *)

Spawned(t) == thread[t] # "unborn"

\* Between the worker's two writes, between the two pops of result(), and
\* around a cancellation, an uncancelled task is never out of both dicts
\* before its result has been handed over: no result is lost.
NoResultLost ==
    \A t \in Tasks : Spawned(t) => t \in active \cup results \cup fetched \cup cancelled

\* Admission keeps the tasks that were not cancelled within the pool's
\* capacity although the two sizes it adds are read at different moments.
SlotBound == Cardinality((active \cup results) \ cancelled) <= MaxBackground

\* A cancelled task's result is never returned by result(), even when the
\* worker stored it after the cancellation.
CancelledNeverFetched == cancelled \cap fetched = {}

\* list_tasks() shows every task it should although a task moves from one
\* dict to the other while the listing reads them one after the other.
ListComplete ==
    answer.value = "listed" =>
        \A t \in Tasks : Spawned(t) /\ t \notin fetched => t \in answer.seen

\* "False" from cancel() means the task had a result (or was cancelled), so
\* the caller can still fetch it: the answer is never given for a task that
\* is still running or that the pool has lost.
RefusedCancelMeansDone ==
    answer.op = "cancel" /\ answer.value = "False" =>
        answer.tasks \subseteq results \cup fetched \cup cancelled

\* cancel() is true to its word in both directions: what it cancelled is never handed over, and
\* what it refused to cancel is there to be fetched.
CancellationIsHonest == CancelledNeverFetched /\ RefusedCancelMeansDone

-----------------------------------------------------------------------------
(* The inductive invariant behind the safety properties. *)

\* Where the thread of a task is tells which containers hold the task.
ThreadInv ==
    \A t \in Tasks :
        /\ thread[t] = "unborn" => t \notin active \cup results \cup fetched \cup cancelled
        /\ thread[t] \in {"registered", "running", "storing"} =>
              t \in active \cup cancelled /\ t \notin results \cup fetched
        /\ thread[t] = "discarding" => t \in cancelled /\ t \notin results \cup fetched
        /\ thread[t] \in {"clearing", "exiting", "dead"} => t \in results \cup fetched \cup cancelled
        /\ thread[t] \in {"exiting", "dead"} => t \notin active
        /\ t \in results => t \notin fetched
        /\ t \in fetched \cap active => call.op = "result" /\ call.at = "untrack" /\ On(t)

\* Which method is at which of its steps.
CallShape ==
    /\ call.op = "none" <=> call.at = "idle"
    /\ call.op # "none" => answer = NoAnswer
    /\ call.op = "spawn" <=> call.at \in {"admit", "start"}
    /\ call.op = "list" <=> call.at \in {"listActive", "listResults", "listEnd"}
    /\ call.op \in Queries \cup {"spawn"} => \E t \in Tasks : On(t)
    /\ call.at = "take" => call.op = "result"
    /\ call.at \in {"mark", "drop"} => call.op = "cancel"
    /\ call.at = "untrack" => call.op \in {"result", "cancel"}

\* What a method knows about its task at each of its steps: nobody but the
\* caller registers, cancels or fetches.
CallInv ==
    /\ call.at = "admit" => active \subseteq call.seen
    /\ \A t \in call.tasks :
          /\ call.at = "admit" => thread[t] = "unborn"
          /\ call.at = "start" => thread[t] = "registered"
          /\ call.op = "result" => t \notin cancelled
          /\ call.at = "take" => t \in results
          /\ call.op = "result" /\ call.at = "untrack" => t \in fetched
          /\ call.op = "cancel" /\ call.at \in {"index", "alive", "mark"} => Spawned(t) /\ t \notin fetched
          /\ call.op = "cancel" /\ call.at \in {"untrack", "drop"} => t \in cancelled

\* What a listing still has to read covers what it has not seen yet.
ListInv ==
    /\ call.op = "list" => cancelled \subseteq call.seen
    /\ \A t \in Tasks : Spawned(t) /\ t \notin fetched =>
          /\ call.at = "listActive" => t \in call.seen \cup active \cup results
          /\ call.at = "listResults" => t \in call.seen \cup results
          /\ call.at = "listEnd" => t \in call.seen

IInv == /\ TypeOK /\ ThreadInv /\ CallShape /\ CallInv /\ ListInv
        /\ SlotBound /\ CancelledNeverFetched /\ ListComplete /\ RefusedCancelMeansDone

-----------------------------------------------------------------------------
(* Liveness: every admitted task leaves _active_tasks for good, with its     *)
(* result kept, handed over, or cancelled; every method returns.             *)

TaskSettles ==
    \A t \in Tasks :
        (thread[t] = "registered") ~> [](t \notin active /\ t \in results \cup fetched \cup cancelled)

CallReturns == (call.op # "none") ~> (call.op = "none")

TasksAndCallsEnd == TaskSettles /\ CallReturns

-----------------------------------------------------------------------------
(* The pool implements the atomic task life cycle. *)

Phase(t) ==
    CASE t \in cancelled -> "cancelled"
      [] t \notin cancelled /\ t \in fetched -> "fetched"
      [] t \notin cancelled \cup fetched /\ t \in results -> "done"
      [] t \notin cancelled \cup fetched \cup results /\ t \in active -> "running"
      [] OTHER -> "idle"

Abstract == INSTANCE TaskPool WITH phase <- [t \in Tasks |-> Phase(t)]

\* Every step of the pool is a step of TaskPool or changes no task's phase.
ImplementsTaskPool == Abstract!Spec
=============================================================================
