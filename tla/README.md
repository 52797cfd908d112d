# Deverino: specifications, model checking and proofs

TLA+ specifications of the concurrent, failure-prone and stateful parts of
Deverino (`src/harness_poc`), the TLC configurations that check them, and TLAPS
proofs about them. Paths below are relative to `src/harness_poc` unless they
start with `src/`.

## The system

Deverino is an LLM agent harness. A front end (TUI, REPL, CLI, HTTP API) drives
an agent loop; the loop publishes typed events on a bus that also persists them;
skills and tools run in worker threads; sub-agents run in background threads or
in a pipeline of probe, execution and gate; a database keeps sessions, state,
proposals, messages, events and the context map; a background task materialises
the map; documents and skills are indexed and compiled on the side.

| Component | State | Operations | Talks to |
| --- | --- | --- | --- |
| Background pool (`v2/execution_engine.py`) | `_active_tasks`, `_results_cache`, `_cancelled`, one thread per task | spawn, status, result, cancel, list | REPL commands; delegate handler in daemon threads |
| v1 ReAct loop (`core/processors/`, `cli.py:650-734`) | event log, session queues, breaker counters, incremental snapshot, driver status | model turn, skill call, breaker, close | bus, database, model, skills |
| v2 ReAct mode (`v2/subscribers/`, `v2/wiring.py`) | the same, one task per subscriber, one runtime per session | start, input, turn, skill, verdict, stop | bus, model, skills, CLI and chat |
| Event bus and store (`core/events/`) | subscribers, queues, `state_events` rows | publish, publish_async, subscribe | every event-driven part |
| v2 pipeline (`v2/subscribers/pipeline_runner.py`, `v2/workflow_orchestrator.py`) | subscribed runners with their fired types, the log, the verified snapshot | probe, execution, gate, refresh | bus (synchronous, nested), context engine, sub-agents |
| Session and project state (`core/storage/database.py`) | `session_state`, `project_state`, `state_proposals`, `state_events` | append, propose, approve, reject, set fact | REPL, tools, skills, other processes |
| Context map (`core/context_map/`, `src/skills/context-map-materializer`, `core/execution/materializer_runner.py`) | pending events, map, cycle counter, freeze, no-change counts | poll, distil, merge, evict, write, freeze | database, model |
| Goal runner (`core/runtime/goal_runner.py`) | budgets, recent keys, session events, two results when refining | decide, run skill, judge, return | model, skills, bus |
| Workflows, pipelines, delegation, orchestrate, spec_writer (`core/execution/`, `v2/handlers/`, `system_skills/`, `src/skills/spec_writer`) | outputs and results of steps, memory rows, lifecycle events | run step, collect, announce, gather answers | skills, sub-agents, database |
| Tool and skill calls (`core/tools/`, `core/skills/skill_runner.py`, `core/runtime/pydantic_runtime.py`) | repeat window, budgets, cancellation tokens, event log | check, record, execute, cancel, log | agent library, handlers |
| Container and file tools (`system_tools/`) | containers of the engine, scratch directories, memory rows; files | spawn, exec, clean, destroy; patch, diff, write, page | container engine, file system |
| Chat (`repl.py`, `tui.py`, `core/runtime/message_history.py`) | history, message rows, callbacks, queue of inputs, worker flags | turn, escape, queue, feed, slice, resume | agent runtime, bus, database |
| Keys and editor (`tui_vim.py`, `tui.py`) | pane, mode, pending operator, selection; text, history, menus, model | keys, menus, submit, cycle model | chat |
| Skill compiler (`core/skills/skill_compiler.py`, `api/routes.py`) | `SKILL.md`, saved bundle, cache, progress, connected browsers | parse, extract, verify, store, view, stream | model, agents, dashboard |
| Document index (`core/retrieval/`) | `document_sources`, `document_chunks`, Vespa | scan, hash, delete, feed, mark | Vespa, embedder, database |
| ACDL (`core/acdl/`) | none: a file is parsed once per path | parse, assemble the system prompt | agent runtime |
| Context-map configuration and rendering, processor supervisor, AHE, evaluation, observability, dashboard | none that changes over time | text, reports, read-only views | everything |

`PROJECT.json` lists every component with its sources and status, and under
`hazards` the places where this code is hard to test. The hard behaviours are:

* containers shared by threads without a lock (background pool, tool guards,
  container engine, files);
* an asynchronous bus whose database write and dispatch are two steps, with four
  processes in a loop that must stop (ReAct loops);
* synchronous dispatch that nests a whole pipeline inside the first handler and
  swallows exceptions, with subscribers that are never removed (pipeline);
* rows read in one transaction and written in another (state, cycle counter,
  interviews, message ordinals);
* writes to two stores that cannot be one (index and rows; events and map;
  announcement and memory), with failures and crashes in between;
* threads that are given up and go on (Escape, cancelled calls, time limits);
* caches keyed by something that is not what they hold (skill bundles);
* modes and flags that several handlers set by themselves (keys, menus);
* state that feeds on itself over many cycles (context map).

## Modules

| Module | Models | Kind |
| --- | --- | --- |
| `TaskPool` | what the pool promises, operations atomic | abstract specification |
| `BackgroundPool` | the pool, one step per access to a shared container | state machine, implements `TaskPool` |
| `ReactLoop` | goal command: driver, breaker, model worker with its tools, skill worker, bus, log | state machine |
| `ReactInline` | the v2 mode: four subscribers, start and stop, both drivers | state machine |
| `PipelineBus` | `run_pipeline_via_bus` over the synchronous bus | state machine |
| `StateStore` | state methods of the database, reads and commits apart | state machine |
| `DocumentIndex` | the document index over its database rows and Vespa | state machine |
| `Cartographer` | `deterministic_cartographer`: removal, merge, priority, staleness, budget | operators |
| `Materializer` | the polling runner and the skill on one corpus, two runners, crashes | state machine over `Cartographer` |
| `GoalRun` | `GoalRunner.run_async` with the refining second round | state machine |
| `DagRun` | a pipeline file: waves of nodes in a thread pool | state machine |
| `WorkflowRun` | workflow files run by several callers | state machine |
| `Delegation` | delegated tasks, through the handler and through the skill | state machine |
| `Orchestrate` | the fan-out of the orchestrate skill | state machine |
| `SpecGather` | the interview of the spec_writer skill | state machine |
| `ToolCall` | the tool calls of a turn through guards, runners and log | state machine |
| `Containers` | the container tools on one engine | state machine |
| `FileEdit` | patch, apply_diff, write_file, paged reading | operators and state machine |
| `ChatHistory` | bounding, pruning and repairing the messages | operators |
| `ChatTurn` | a turn of the chat, step by step, and the commands beside it | state machine over `ChatHistory` |
| `ChatApp` | the terminal application around the turns | state machine, composes `ChatTurn` |
| `VimLayer` | the modal keys of the two panes | state machine |
| `TuiInput` | the editor's text, history and menu, and the model that serves | state machine |
| `SkillParse` | units, clusters, contracts and their verification | operators |
| `AcdlPrompt`, `AcdlFiles` | grammar and executor of the `.acdl` specification; files by their meaning | operators |
| `SkillBundles` | compilation threads, caches, saved bundles, views, progress | state machine |
| `SequenceFold` | folding a sequence with a function, sums of weights | operators |
| `Requests` | a goal, a pipeline file, workflows, delegated tasks, a fan-out and an interview, side by side | composition of `GoalRun`, `DagRun`, `WorkflowRun`, `Delegation`, `Orchestrate` and `SpecGather` |
| `Tools` | a turn's calls and the container engine, side by side | composition of `ToolCall` and `Containers` |
| `Stores` | the state, the document index and the context map, side by side | composition of `StateStore`, `DocumentIndex` and `Materializer` |
| `FrontEnds` | the chat, its keys, its editor and the skill views, side by side | composition of `ChatApp`, `VimLayer`, `TuiInput` and two of `SkillBundles` |
| `*Proofs` | theorems about the modules they extend or instantiate | proofs |
| `MC*` | instances for TLC | model values and composition |

Five MC modules (`MCReactLoop`, `MCStores`, `MCRequests`, `MCTools`,
`MCFrontEnds`) put several specifications side by side in one run: a variable
`subject`, fixed in the initial state, says which of them a behaviour is about,
and the variables of the others stay idle. It is a sum of state spaces and not a
product: nothing interacts that does not in the code. A property of such a run
is the conjunction of those of its subjects, and every conjunct has the name it
has in its own module. Where theorems are about such properties, the instances
and the properties are in a module with free constants (`Tools`, `FrontEnds`,
`Stores`, `Requests`), which the MC module and the proofs extend. `MCStores` has two
specifications: the run `stores` is about the state and the index, the run
`materializer` about the context map.

### BackgroundPool

State: `active`, `results` and `cancelled` are the keys of the three containers;
`thread[t]` is the program counter of the daemon thread (`_run_background_task`,
306-364); `call` is the method the single caller is in with its local variables
(`seen`), `answer` what it returned. `SpawnCall`, `SpawnAdmitted`/`SpawnRefused`
and `SpawnStart` are `spawn_sub_agent`; `Query*` are the reads that `status`
makes on behalf of `status`, `result` and `cancel`; `ResultTake`, `ResultUntrack`,
`CancelMark`, `CancelUntrack`, `CancelDrop` are their writes; `List*` the two
iterations. One container operation is atomic under the interpreter, nothing
else is. One caller suffices: only the REPL's command loop calls these methods
(`repl.py:1115, 1241, 1267, 1289`).

### ReactLoop and ReactInline

`log` is `state_events` for one session. A process of `ReactLoop` publishes by
`Persist` (the database write, in a thread) and later `Dispatch` (queues and
synchronous handlers), as `publish_async` awaits the one before the other;
between the two, other processes move. `BreakerStep`,
`LlmTake`/`LlmDerive`/`LlmReturns`, `SkillTake`/`SkillReturns` are the three
processors; `Close` is the driver's `wait_for` and `finally`, `GatherReturns` the
end of `gather`. `PersistFails` and `LlmRaises` are a failed write and a model
call that raises. Within a turn the model calls tools, several of them at once in threads
of the agent library: `ToolStarts` and `ToolEnds` append their SkillCalled and
SkillCompleted rows to the same log directly (`pydantic_runtime.py:820-859`). These rows
are never dispatched; one whose write fails is dropped, which is one of the `MaxFaults`;
and a thread whose sibling's error has ended the turn still writes its last row, also
after the driver has returned. In the model the published
result is a `SkillCompleted` and the result of a tool call a `ToolCompleted`, because only the
reducer, and not the breaker, sees both (`AllFailures`, `Failures`). `calls` counts the calls under way; `MaxUses`
bounds requests and calls together, where the code has the request limit of the
agent library (50 by default) for each turn. A tool call that is blocked by its budget,
or has no runner, writes nothing and is no step. `Derive` is the incremental reducer with its snapshot; what it
counts (`Tokens`, `Failures`) are folds of `SequenceFold`. That "failed" is one of
the statuses a skill can have (`FailuresAreStatuses`) is what the worker writes
when a skill raises.

The subscribers of the v2 mode publish synchronously, and their model calls no tools
(`v2/wiring.py` gives the worker a runtime without any), so a step of `ReactInline`
is what a task does between two awaits. `Begin`, `Input`, `Wait`, `Stop`,
`Gather`, `GiveUp` are the driver (of `cli.py`, or of `repl.py` in a thread that
is joined for 130 seconds); `Subscribe` is the moment a task first runs and joins
the bus, `Leave` its reaction to a pause. At this commit the mode stops at an
import before any of it (see the divergences below): the model is of the mode
with that import mended.

### PipelineBus

The call stack of nested `publish()` calls is `stack`; `todo` holds the handlers
a publication has still to call. `Fire` runs a handler's effects (`EffectsOf`)
up to the event it publishes, which is pushed; `FireRaises` stops at any of the
effects that may raise, which the bus swallows. An effect is a record of the rows
it writes, the steps it runs, the snapshot it saves and whether it may raise;
`Done` folds the effects of a handler into what it has done so far. `plan`, `outcome` and `ran`
record the calls. Several workflows use one bus one after the other, as a REPL
session does.

### StateStore

`session`, `project` and `proposals` are rows. A method is entered with its
first read, may load the row again in its write transaction (`*Load`), and
commits. What the events say of a row is a fold of `SequenceFold` over them
(`SessionEffect`, `ProjectEffect`). `Column` is the ORM's rule that an unchanged column is not written.
`stale` collects the rows that some commit wrote from an outdated read: the
replay properties hold for all the others. The five list sections are one list;
`summary` has no writer.

### DocumentIndex

A file has a text (its hash), a source (several files may have one source id), a
row and, in Vespa, chunks. `Start` is the indexing at the start of the program
(only what changed), `Tool` the index_documents skill; a run scans and marks,
and its pool takes each file through `Begin`, `Hash`, `Lookup`, `Skip`, `Read`,
`Pending`, `Delete`, `Embed`, `Feed`, `Fed`, `List`, `Indexed`, each a call of
another store; `Raise` is the failure of any of them, `Crash` the end of the
process. Vespa is external and modelled by how `vespa_client.py` uses it.
`disturbed` collects the sources at which two workers met, or whose file changed
between the two reads of one worker. `project` is what differs between projects:
files, texts, source ids, PDFs, runs, the size of the pool, and the bound on
edits, failures and crashes.

### Cartographer and Materializer

`Cartographer` gives one operator to each stage of `deterministic_cartographer`.
Summaries and the events that support them are left out, so an entry is the
cycles it was first and last seen in and its priority. Weights and token counts
are integers. Ties between equal priorities are decided in the code by the time
of the last update and a random id; here every order is possible. What entries
or shares take together is the number of their tokens, as a set in which the
tokens of each are numbered. `ConfigIsValid` is what the configuration's loader
insists on; it allows shares to add up to a thousandth more than the whole, which
the model leaves out.

`Materializer` keeps one corpus: its events, which of them are processed, its
map with the freeze, and its cycle number. The number is read in one transaction
and written in another, so that a slow runner can set it back. A runner carries what it has read:

| variable | code |
|---|---|
| `events`, `processed` | rows of `context_map_events` and their `processed` column |
| `row` | the `context_map` row: `map_json` and `freeze_until` (unset, in the future, in the past) |
| `cycle` | `cycle_n` of the corpus |
| `run[r]` | the local variables of `execute()` and where it is |
| `quiet[r]` | `_no_change_count` of the runner |
| `been`, `lost` | history: what has been in the map; a write replaced a map it had not read |

Every read and every commit is one step, so a second runner (another process, or
the thread that survives a cancelled runner) may act between any two. What the
distiller returns is a choice among all batches; the limit of 50 events and the
token budget of events are left out. A retrieval hook that fails is only logged,
and embeddings do not change the map.

`ChangesAnnounced` excepts histories with a lost update: there the later writer
erases entries without announcing it. That is what the code does with two
runners, and it is listed as a hazard.

### GoalRun

`loc` holds the local variables of one round of `run_async` (iteration, tokens,
whether the time is up), `recent` the session's last events, `keys` the window of
semantic keys. `LimitReached`, `IterationsReached`, `Decide`, `EmitText`,
`Block`, `NotComplete`, `GoalComplete`, `CallSkill`, `SkillReturns`,
`SkillFails`, `Raise` and `Exhausted` are the paths of the loop; `JudgeFirst` and
`JudgeSecond` the refining cycle around it. `executed`, `unanswered`, `judged`
and `achieved` are history.

### DagRun, WorkflowRun, Delegation, Orchestrate, SpecGather

* `DagRun`: `Waves` is `build_waves`, a fold of the turns of its loop, of which
  there are no more than nodes; what the turns leave over (`Left`) makes it
  `Circular`. `Circles` says independently of the loop what a circle is. Each
  node's thread is `BeginNode` (which
  renders its templates) and `RunNode`, the calling thread is `NextWave`,
  `Collect` and `WaveOver`, `RaiseOut` the exception that leaves the pool after
  waiting for its threads. `results`, `failed` and `log` are the runner's.
* `WorkflowRun`: `Load`, `Spawn`, `Visit`, `SkillReturns`, `SkillRaises`, for each of
  several callers; `MaxStates` is the loop's limit of 100. The container that a
  file declares is never spawned: `app_factory.py:409` gives the runner a SkillRunner, which
  finds skills with a `SKILL.md` only (`skill_runner.py:248-257`), and `container_spawn`
  is a tool without one. `Spawn` is the warning that this becomes
  (`workflow_runner.py:230`), or the error of an unreadable `SKILL.md` on the way, which
  is not caught. Hence `states._spawn` never resolves, and the removal of the container
  (`workflow_runner.py:239-254`) is not reached.
* `Delegation`: `Reject`, `Announce`, `Spawn`/`SpawnRaises`, `Complete`, `Write`,
  `Publish` are the handler with what `wiring.py` gives it, `RunSubagent` and
  `Keep` the skill that writes rows of the same memory. `lifecycle` are the
  context-map events, `BestEffort` the writes whose failure is only logged.
* `Orchestrate`: `Decompose`, threads that `Begin` and `End`, `Gather` in the order
  of arrival, `Synthesize`.
* `SpecGather`: an interview call reads the row and works on its copy (`Begin`),
  saves it (`Save`, `WriteFile`) or is `Killed`; `Draft`, `Refine` and `SaveDraft`
  write a specification from it.

### ToolCall, Containers, FileEdit

* `ToolCall`: `ReadBudget` and `TakeBudget` are the two accesses to a skill's
  count, `Check` and `Record` those of the IdempotencyGuard, with the guards that
  only look at the arguments (`PathGuard` to `TypeGuard`) between them; `Begin` registers the cancellation token and starts the handler, whose end
  (`Finish`) is up to the environment, as is `Cancel`; `LogStarted` and
  `LogCompleted` write the events. An argument is the class a guard puts it in.
* `Containers`: one action per engine command (`List`, `Inspect`, `Clean`, `Look`,
  `Create`, `Await`, `Exec`, `Command`, `Stop`, `Rm`), because the engine
  knows a container by its name and every other call may come in between.
  `picture[c]` is what a cleanup has seen, `gone` says who removed what.
* `FileEdit`: the three strategies of `patch` and the hunks of `apply_diff` are
  operators on texts; reading and writing are two steps, as no lock is held.

### Chat: ChatHistory, ChatTurn, ChatApp

A message is its kind, the turn it comes from and its size; which messages a
history selects (`Selected`) and what the rows of a session say together
(`Joined`) are folds. `HistoryIsSound` is the conjunction of the types, of
`HistoryIsAccepted` (what is stored, sent or resumed is well formed) and of
`HistoryIsLatest` (without races and failures it is the newest rows). `ChatTurn` is what
the executor thread of an input does: `Begin`, `Call` (prunes and sends the
history), `Answer`, `Account`, `Extend`, `Bound`, `Number` and `Insert` (the
message row), `Record`, `Say`; other inputs (`Goal`, `Spawn`, `Feed`, `Slice`)
are one step. `ChatApp` adds the application's own thread: `Type`, `Dequeue`,
`Interrupt` (Escape, or a deferred command), `Chunk` (the streaming callbacks),
`Finished` and `Broken` (a worker that sees its thread end), `Restart` (the
process is killed and the session resumed). An exception in the application's
own thread ends it, as Textual does: `Exit`. A deferred command runs in the place of
the dequeue (`AfterTurn`, `tui.py:1341-1350`): an answer that cannot be mounted ends the
application, the list of sessions does not, and the queue then waits for the end of
another turn (`skipped`).

### VimLayer and TuiInput

`VimLayer` has the pane, the mode, the pending operator, whether a count is
being typed, the selection in the chat, the focus and the overlays; `InputKey` and
`ChatKey` are the tables of `tui_vim.py`, the other actions the bindings of
`tui.py` that change pane or mode beside it. `TuiInput` has the text, the walk
through the history with its draft, the one menu with the two flags that say
what it shows, and the model: header, override and the runtime's. Priority
bindings do not pass through the editor's key handler, which is why only `Key`
and `Insert` leave the history.

### SkillParse and SkillBundles

`SkillParse` gives the compiler's stages for a body (a sequence of kinds of
line), for clusters, and for the contracts the model returned. `SkillBundles`
has the file (its text is the number of its edit, also its mtime), the saved
bundle, each process's cache, and threads that compile (`Mark`, `Spawned`, `Stat`,
`Parse`, `Extract`, `Store`, `Reject`) while agents edit (`Manage`) and view
(`Load`, `Fill`, `Serve`) and browsers follow (`Connect`, `Snapshot`, `Receive`,
`Disconnect`).

### AcdlPrompt and AcdlFiles

The system prompt is assembled from `deverino_react.acdl`. `AcdlPrompt` gives the
grammar as a table (`Rule`: what is expected, by the next two tokens), the
parser as the tree of a token sequence, and the executor as the sequence of
blocks it makes of the tree and the bound variables. `AcdlFiles` writes files
from their meaning and compares: the assembled prompt is the meant one or the
file is refused. The parser tests most tokens by value, so a literal `"}"` or
`"."` can end a body or extend a variable, and an annotation with a literal `"{"`
can swallow the message after it. The run shows that such a file is refused, by
the parser or for want of an `S:` message, and never gives another prompt. It claims so for files
that are `Direct`: the executor looks for the variables of a fragment among its items, not
inside a `RECORD(...)` or an `If`, and such a fragment is rendered although it references
something that is not bound (see the divergences below).

## Runs

Sizes are chosen so that every race has its participants; the action coverage
of the runs is complete.

| Run | Bounds | Shows |
| --- | --- | --- |
| `background_pool` | 2 tasks, 1 slot | every race of two threads and the caller for one slot: no result lost, capacity, no cancelled result fetched and honest refusals, complete listings; tasks settle and methods return; `TaskPool` is implemented. 3 tasks and 2 slots (232,211 states) also pass |
| `react_loop` | goal loop: 2 uses of skills or tools, failing tools, 1 token per turn, limits 2 tokens and 1 failure, 1 fault. v2 mode: 1 skill, 2 iterations, 2 runs, 1 error | the breaker counts what is published exactly and pauses once and for a reason; work after a pause is bounded, the tools' too; the incremental snapshot equals replay, one thread of work; a returned result is complete; a run with a time limit ends, whatever fails, and a breach ends it without one |
| `react_exhaustion` | same, tools that fail or succeed | finding: the driver's own closing pause overwrites the status `budget_exhausted` |
| `pipeline_bus` | 3 workflows, 1 fault | each step runs as planned whatever ran before, and is repeated at most once per failure; a pass is earned by its probe and the snapshot follows the log; calls return |
| `stores` | 2 callers, 2 sessions, 2 notes, 1 key, 4 events; index: 2 files with 2 threads, or 2 processes, or 3 edits, failures and crashes of one file | rows are the replay of their events except where a read was outdated; approvals are exact; a row that says indexed is what Vespa holds; every edit is found, if the program is started again and again |
| `materializer` | 2 runners, 2 keys, 2 events, 2 cycles, 1 failure or crash | the map keeps to its shares; what enters and leaves it is announced first; pending events are processed through freezes |
| `requests` | goal: 4 iterations, window of 3 keys, threshold 2, 9 tokens, scores 0-2; pipelines: all graphs of 3 nodes and some of 4; pairs of workflows, of delegated tasks and of interviews (7 answers) | no action is repeated beyond the threshold and spending is bounded; each skill call is answered in the log and the better result returned; nodes start after their dependencies, reports of pipelines are complete and those of workflows true; documents miss no answer; a delegated or fanned-out task has one story; everything asked for ends |
| `goal_completed` | 1 answer | finding: a goal declared complete is returned as `budget_exhausted` |
| `front_ends` | chat: scripts of 2 or 3 inputs, queue of 1, history of 3 messages and 8 tokens, 1 error or restart; Vim layer: 2 messages; editor: history of 2, 2 models; skills: 1 file, 2 processes or 1 browser; 5 lines, 3 clusters; 481 specification files with up to 2 items | what is sent, stored and resumed is a history the model accepts, and the latest; an announced answer is in a row; two turns run at once only if raced; the application is never busy for good; keys never act in another pane or mode; drafts, menus and models are what they are shown as; no instruction is lost by the parser and only verified contracts are offered; the system prompt is what its specification means; no older bundle comes back; the end of a compilation is shown |
| `chat_queue` | same | finding: the answer of a queued input is not shown, its callbacks are reset by the worker of the turn before |
| `tools` | 3 calls of a turn, window of 1, budget of 2; 3 container calls on 4 states of the engine; all patches of 2 characters on texts of 3, diffs of 2 lines, 2 calls on one file | repeats and budgets are exceeded only by calls that overlap; handlers get the types they declare; the log closes every call and says what became of it; cleanups spare the young and lost containers are explained; edits change what they name, and calls that do not overlap are serial; cancelled and container calls end |
| `skill_stale` | same as `front_ends` | finding: a view gives the saved bundle of the old text and caches it as that of the new |

The four largest are `front_ends` (2.0 million states, 100 s), `stores` (1.4
million, 105 s), `requests` (1.1 million, 80 s) and `materializer` (1.0 million,
190 s, most of it for liveness).

Why the bounds are enough: the pool's properties are per task or about one more
task than there are slots, and are proved for all sizes. In the ReAct loops the
limits are reached and exceeded within two turns, and one fault hits each process
at each write. Two tools of one turn run side by side; in `react_loop` they fail, which is
what a count could confuse (216,000 states; with tools that also succeed 355,000 states pass). A third pipeline is the first that sees runners left by two
earlier ones. Two callers and four events allow two proposals, both approvals
and every overlap of their reads. Two materializer cycles are an insertion and
an eviction of each kind (obsolete, stale, budget), and two events let one arrive
while the map is frozen. Four iterations repeat an action once more than the
threshold allows and slide it out of the window of three. All graphs of three
nodes include every shape a wave can have; a diamond and two chains add the
cases of four. Three inputs are the turn, the queued one and the one that races
with `_dequeue_next`. Five lines hold an opened, a closed and a nested fence with
text on both sides.

`CHECK_DEADLOCK FALSE` stands where the system may stop: a caller that issues no
more commands, a command that has returned, a bound that is used up.

### Findings

Four runs expect a violation; each is a disagreement of the code with its own
documentation, comments or tests, quoted in `PROJECT.json`: the statuses of
exhausted (`cli.py:711`) and of completed goals (`goal_runner.py:811`), the lost
answer of a queued input (`tui.py:1412`), and the stale skill view
(`skill_compiler.py:283`).

### What the code does, and a document says otherwise

These were met while modelling. The models have them as the code does, and the
properties are stated so that they hold of it:

* a pool result stored after its task's cancellation stays in the cache and holds
  a slot (`v2/execution_engine.py:350`), and a task that finishes between the two
  reads of `status()` is "not found"; both are outcomes of `BackgroundPool`;
* two materializers that bump the cycle number one inside the other set it back
  (`core/storage/database.py:798-809`): entries and announcements of a later cycle
  are then older than the number says;
* after a failed pipeline the next one on the same bus runs its steps twice, as
  handlers are never unsubscribed (`v2/subscribers/pipeline_runner.py:104`);
* approving clears the dirty flag although notes may have been appended since the
  proposal (`core/storage/database.py:407`), and two callers overwrite each
  other's appends;
* a map entry is evicted although it fits in what other sections leave unused;
* a pipeline node two steps below a failed one runs, as only failed dependencies are
  looked at, and a skipped one is not failed, although failed nodes should "mark
  dependents as skipped" (`src/README.md:762`); `ReportIsComplete` claims neither: a node
  below a failed one is skipped, and only nodes below a failed or skipped one are;
* a workflow that declares a container runs without it, or raises at the first
  template that names it, although `src/workflows/test_container_exec.yaml:2` says
  "Auto-spawns a container"; `ReportIsTrue` claims nothing of containers;
* the number of consecutive failures in the session's snapshot counts the tool calls
  of the model too, the circuit breaker's does not; a pause does not stop the tools of
  a turn that is under way;
* a deferred `/resume` leaves queued inputs waiting while nothing runs (`tui.py:1350`, whose
  comment takes a deferred command to be exclusive with the queue); `ComesBack` allows it;
* `apply_diff` doubles an empty line when the diff ends with a newline;
* an unparseable answer of the model skips a cluster, although the docstring says
  otherwise; two POSTs may both start a batch; a chunk overlap as large as the
  chunk never ends, so `ChunkAssumption` excludes it;
* the variables inside a `RECORD(...)` or an `If` of a fragment of the ACDL file do not
  count among those it needs, and the `If` is rendered whatever its condition, although the
  docstring wants every referenced variable bound (`core/acdl/executor.py:42-44, 97-110`);
  `PromptIsMeant` leaves such files out, and the run has them;
* one `SKILL.md` with a YAML error makes the look for the bundle of any later
  skill raise (`skill_compiler.py:570`), and `skill_view` gives the raw markdown;
* a built-in tool that fails by its own account is logged as a success; equal calls
  that overlap both pass the guard;
* the TUI's flags of the model and session pickers outlive their menu after Enter,
  F2 or `?`; cycling back to the configured model leaves the other runtime in place
  (`tui.py:1373`); `_dequeue_next` and Alt+Up overwrite what is being typed;
  `src/docs/guides/tui-keybindings.md` gives Enter and ctrl+d other meanings in VISUAL,
  and a count to every command, which `D` and `u` do not take;
* an interview of spec_writer whose component list names nothing saves that list
  and then raises for ever (`src/skills/spec_writer/skill.py:118, 155`), and
  overlapping calls lose answers;
* the v2 ReAct mode cannot start: `v2/subscribers/llm_worker.py:28` imports
  `MapEntryReferenced` from `core.events.events`, which does not define it. With
  the import mended, the chat publishes its input before any subscriber listens
  (`repl.py:1693`), so the input is lost and the run waits for its time limit.

## Fairness

* Pool: a method that was entered goes on (weak fairness of `Continue`), so does
  a started thread, whose model calls carry timeouts. No fairness on `Begin`.
* ReAct loops: asyncio runs ready tasks, database threads finish, model calls and
  skills return, a timer that was set expires. None on `Fault`, and none on a next
  input of the chat.
* Pipeline: the thread inside a call goes on.
* Materializer: the runner's next step, as `run_forever` polls again whatever a
  cycle raised and the model call has a timeout, and the passing of a freeze. No
  fairness for new events, failures or crashes, which are bounded. A runner begins
  no cycle beyond `MaxCycles`, so `PendingProcessed` speaks of executions up to
  that bound.
* Goal, pipeline file, workflow, delegated task, fan-out: the thread that runs it
  takes its next step; skills and sub-agents answer or raise, as the runners wait
  for them without a limit of their own. The passing of time is not fair.
* Tool calls: each call's own steps, but not the end of its handler and not its
  cancellation: `ToolsEnd` says that a cancelled call of a polled tool ends
  although its handler does not. Container calls: every engine command has a
  timeout.
* Document index: processes and threads of the program are scheduled. Starting it
  is not fair: `EditsAreFound` assumes that it is started again and again.
* Everywhere, users, edits, crashes and failures are not fair. StateStore, the
  chat, keys and skills have no liveness property; `ComesBack` says as an
  invariant that an occupied application always has something left that will
  free it.

## Proofs

Eight modules hold theorems, for every value of the constants that satisfies the
named assumptions. `PROJECT.json` lists them with the property each states.
`StoreProofs`, `ToolProofs`, `FrontEndProofs` and `RequestProofs` are about specifications that
share a run, each instantiated under a name (`Index`, `Map`; `Turn`, `Engine`; `Vim`, `Tui`,
`Views`, `Follows`; `Dag`, `Flow`, `Calls`, `Fan`, `Gather`). A theorem `Turn!Spec => []P /\ []Q` says that `P` holds in
every behaviour of the turn's calls, and so does the run's property `Q`, which claims `P` where they
are the subject. Where one property is about several subjects, the theorem is about the
composition (`RequestSpec`): a step of one subject is idle for the others.

A fold is defined by recursion over the length of a sequence, and induction is
out of reach in the form the library states it, with an operator for the
formula. `SequenceFoldProofs` gets it in the form of a set: the naturals are well
founded (`NatLessThanWellFounded`, `WFMin`), so a nonempty set of them has a least
member (`LeastMember`), so a set that holds 0 and with every number the next one
holds them all (`Induction`). From there it proves what a fold is of the empty
sequence, of one element more at either end (`FoldAppend`) and of a
concatenation, and the same of sums. The proofs about replays, counts and
histories cite these lemmas; a model states its recursion as a function or as a
fold of `SequenceFold` to be within their reach.

### BackgroundPoolProofs

For any finite set of tasks and any capacity of at least one (`TasksFinite`,
`MaxBackgroundPos`), `Spec => []IInv` and from it type correctness,
`NoResultLost`, `SlotBound`, `CancellationIsHonest` and `ListComplete`. None of
these is inductive: whether `ResultTake` may hand a result over depends on what
the method has read before and on where the worker stands. `IInv` adds
`ThreadInv` (the containers a task is in, by the position of its thread),
`CallShape` and `CallInv` (what the caller's local knowledge still implies about
the shared state at each of its steps) and `ListInv` (what a listing has yet to
read covers what it has not seen). `SlotBound` needs the admission step's
argument that the set of tasks seen active can only have moved to `results`
since. `Refinement` proves, with the same invariant, that every step maps to a
step of `TaskPool` or leaves all phases unchanged.

### ReactLoopProofs

For any limits, statuses and token counts and any number of turns, tool calls and faults
(`LimitsAreNaturals`, `TurnTokensAreNaturals`, `FailuresAreStatuses`): the four
safety properties of the run, `BreakerIsExact`, `LateWorkBounded`, `LogIsSound`
and `ReturnIsFinal`. What makes them not inductive is the time between the row
and its dispatch, in which an event is in the log and in nobody's queue.

* `OutboxesFit`, `QueuesFit`: what each process still has to publish, and in
  which order, at each of its places; a queue holds only what its worker reacts
  to, and nothing after the worker's end.
* `BreakerKeepsUp`: the breaker's tally, with what waits in its queue and what is
  about to be dispatched, is the count of the published events in the log. It counts failures in a row,
  so what it will see of its queue is what some prefix of the log had.
  `PauseIsDue`: a pause it is about to write has its reason in the log, and there
  is no second.
* `Work`: there is one thread of work. The objective, the turn, the request, the
  skill, its result and the next turn are counted together (`Thread`), and with
  the texts in the log they are one at most; each result owed has its request in
  the log. `LateWorkLeft` adds what was written after a pause and what a process
  that derived its state before the pause may still write, which gives the bound.
* `CallsFit`, `LateTools`: tool calls are open only in a turn (`TurnOpen`) or after its
  crash, their rows come before the turn's action, and each end has a start, or a fault
  in its place. As only the turn writes between its begin and its action, what is
  written after a pause stays before that action.
* `SnapshotIsReplay`: reducing the log from where the snapshot stands is reducing
  it from its beginning, by the fold of a concatenation.
* `OutputFollows`, `DriverCloses`: what the driver has when it returns.

### PipelineBusProofs

For any finite set of workflows, any plans and number of faults
(`WorkflowsFinite`, `PlansAreRecords`, `MaxFaultsNat`), hence any number of runners that
earlier calls left subscribed and any depth of nested publications:
`PassIsEarned` and `StepsRunAsPlanned`. A handler is a fold over its effects and
may stop at each that raises; the proof first says, once per handler, what it
has written, run and saved when it ends there (its *deeds*).

`Ground` says that one call is under way and that all publications on the stack
are about it; `PassIsEarned` follows from it and the deeds. That a step is
repeated at most once per failure needs to know where the repetitions come from:
`RepeatsLeft` counts the runners that have not yet handled a step's event
together with the runs of that step, and `LeftOver` says that these runners are
one per failure, or else that the event is on the stack on its way to all of
them, so that only a failure leaves a runner behind. `CleanSoFar` says that while
nothing has raised only the call's own runner works, and has done the steps up to
its phase, in order.

### StoreProofs

For any number of actors, sessions, notes and facts (`ActorsFinite`,
`MaxEventsNat`): `ApprovalsAreExact` and `RowsAreReplays`. The first rests on
`TypeOK /\ References /\ ResolvedOnce /\ DirtySinceApproval`: `References` says
that every proposal named by an event or by a call under way exists, so that a
new proposal has no event that could already resolve it. For the second, each
commit is shown to do to its row what the event it appends does to the replay;
the replay of the longer log is that of the log with one effect more. A row that
was written from an outdated read is in `stale` from that commit on, and the
theorem says nothing of it.

`IndexedIsSearchable`, for any files, texts, lengths of a chunk, processes and threads,
and without an assumption. What makes it hard is that a worker's row, its
chunks in Vespa and the rows that list them are written at different times, and that two
processes, or two paths with one source, can do it side by side. `IndexInv` adds `Apart`
(workers that are at one source at the same time have both met) and `MetDisturbs`
(then the source is disturbed until they are through), `Unseen` (a source without
a row has no chunks yet) and `Known`: what a worker that has met nobody may still conclude,
at its stage, from the row it has read and from the chunks it has fed so far. The
property follows for sources at which nothing has disturbed the last indexing.

`MapIsSound` and `ChangesAnnounced`, for any keys, sizes, shares, weights, batches
and number of runners (`ParametersAreValid`, which TLC evaluates in `MCStores`).
Every map that is written comes from the fold that keeps what fits, so each section is
within its share; that the whole is then within the budget is an argument by
counting, without sums: the tokens of a section's entries can be numbered by the tokens
of its share, so the tokens of the map by those of all shares (`SharesMakeTheBudget`).
For the announcements, `MapInv` says of everything that has ever been in the map that
its insertion is in the events and that it is still there or was announced as evicted after that
(`Entered`, `Left`), and of each runner, at its stage, what it has announced of the
change it is about to commit (`RunnerInv`) - as long as what it has read is still the map,
or else the write that follows will be `lost`. A key that leaves and comes back in the same
cycle, a cycle number that was set back, and a write that changes nothing are the cases
that make this less than obvious. The type invariant was false as it first stood: it
bounded the cycle of an insertion by the corpus's cycle, which TLC refutes with four cycles
and two overlapping bumps.

### RequestProofs

`GoalStaysInBounds` and `GoalIsHonest` for any actions, keys, limits, window and
scores (`KeysOfActions`, `LimitsAreNat`, `ScoresAreNat`, `FlagsAreBoolean`).
`NoFixation` counts, at every place of the history, earlier places with the same
key; the code counts keys in a bounded window. `Windowed` ties the two: the window
is the end of what was executed, so the earlier places in reach map one to one
into the window, and a key that stands there often enough is refused. `Judging`
says what the judge has said at each point of the refining cycle, from which
`BestIsReturned` follows; `Answered` and `Called` say that the call under way, and
no other, is unanswered.

`FilesAreRun`, for pipelines over any finite set of nodes and for any workflows,
callers and limit of states (`PipelinesAssumption`, `WorkflowsAssumption`).

* `Waving` is what each turn of `build_waves` keeps: waves are disjoint and not empty, and
  the dependencies of a member lie in earlier ones. There are no more turns than nodes,
  by the pigeonhole principle, so what is left over at the end has no member that is ready: a
  circle (`WavesAre`), and without a circle nothing is left. `NodeInv` says how far the thread and
  the result of a node are by whether its wave was reached, `LogInv` what is in the log of it.
  `DepsAreDone` follows: a node that was reached finds a result of everything it depends on,
  and a failure that is collected later cannot be that of a dependency.
* `RunIs` says of a run that its outputs are a walk along the file's `next`, each of whose states
  found the outputs its templates name, and that all of them are recorded unless the run has
  raised; a report is read off it when the run ends.

`InterviewsAreWhole`, for any lists and any number of writers (`ListsAssumption`). `Kept`
says what an interview holds at each question, `AnswerAdvances` that an answer goes to the open
question and opens the next, and `GatherInv` that rows and copies under way are such states, and
that the answers given are those of the row, or of the one copy still to be written, while the
calls do not overlap.

`SubAgentsAreAccountedFor`, for any calls and any plans (`DelegationsAssumption`, `PlansAssumption`).
`CallInv` says which notes of a call are in the lifecycle at each of its stages, `Told` and `RowIs`
what else is true of one that was announced and of a row that was written: two calls may
have the same row. `FanInv` says that each gathered result is of a different subtask that
has ended; when there are as many of them as subtasks, each subtask is among them, again by the
pigeonhole principle (`AllGathered`).

### ToolProofs

The calls of a turn, for any finite set of them, any budget, length of the history,
schemas and arguments (`TurnsAssumption`, which TLC evaluates in `MCTools`):
`CallsAreGuarded` and `AnswersAreLogged`. `TurnInv` is

* `CallInv`, what a call has at its stage: its entries in the log, its token, its
  answer. A log write that failed is the only way to an entry that is missing;
* `CountsHold`: no call that waits with a count, and not the counter, is above the number
  of calls that have passed the budget. That two calls hold the same count when the
  budget is exceeded is the pigeonhole principle, of the calls that have passed and the
  counts they have held;
* `WindowInv`: the history is the end of the order in which keys were recorded and
  remembers those none of whose records has left it, so that a repeat is refused exactly
  when its first call was recorded before the second looked.

The container engine, for any callers, names, sessions and limits
(`ScenesAssumption`): `ContainersAreKept`. Each step does one of four things to the
engine, `Stays`, `Taken`, `Stopped` or `Made`. `EngineInv` follows every container a
cleanup has seen (`Pictured`) and every one that a spawn has returned (`Tracked`) from
there to where it is now, or to the entry of `gone` that tells who took it; identities
are never given twice (`Ids`), so that a name that stands for another container can be
told from the one that was seen. `Removals` is the property itself, about the picture
that the cleanup had, which its later steps do not change.

### FrontEndProofs

`HistoryIsSound`, `AnswersAreDurable`, `OneTurnUnlessRaced` and `ComesBack` for
every finite set of inputs, every script of them, every limit of the queue and
of the history (`InputsAssumption`, `LimitsAreNumbers`) and any number of errors
and restarts.

The first part is about histories: a cut by messages or by tokens leaves a suffix
that begins where a turn begins; a selection commutes with concatenation;
stripping and repairing leave a well-formed history alone; each of them keeps a
history well formed. The second part is the invariant, in four parts of which
each is kept with the help of those before it:

* `TypesOK`, with every history well formed wherever one is held;
* `Order`: an input is submitted or queued once (`Once`); an occupied application
  has a worker that polls and has not freed it, and a queue somebody who will
  look at it, unless the turn gave way to a deferred command, which only an interruption
  leaves (`Attended`); and as long as no turns raced the busy turn is that of
  the one live worker (`Solo`). `ComesBack` and `OneTurnUnlessRaced` follow;
* `Durable`: where a turn is tells what it has: messages from its answer on, a row
  from its insertion on, an event that records it before its text is announced;
* `Latest`: while a turn has extended the history and not stored its row, the
  history ends in the turn's messages and the rows do not yet have them, so what
  is compared is the history without the turns that no row holds (`Recorded`).
  The bound keeps the last turn whole or the history becomes empty, and the row is
  the whole turn: in both cases what is left is an end of the rows.

`KeysAreModal` for any number of messages. `KeyInv` is `KeyTypes`, `ModesFit` (which pane
has which modes), `SelectionFits` (a visual mode in the chat has a selection
within its messages), `PrefixBegun` (a prefix or count is pending only in the pane and
mode it was begun in) and `PrefixFits` (which pane has which operators). The proof
is one lemma per way a key or a click gets in.

`InputIsKept` for any texts, models and limits (`HistoryAssumption`, which TLC evaluates
in `MCFrontEnds`). `EditorInv` adds to it what the editor holds (`EditorTypes`): that a
place in the history stays in it rests on what submitting makes of a history that is full.

`SkillViewsAreTrue` for any files, threads, viewers, browsers and length of a browser's queue
(`BundlesAssumption`: files have an order, and browsers belong to a server that compiles).
`ViewInv` says of a file that a process has settled that the entry under its key is that
of its text (`Settled`), that whoever else is between reading and writing that entry read the
same key and text (`Knows`), and that no view is about to fill it; the bundle a thread
stores is that of the text it has read, under that file's key (`Fits`). `FollowInv`: the flag
is up only while a batch has its end still to announce (`FlagHasBatch`), so that a late
browser's snapshot, like the last event sent to one that listens, either says that nothing
runs or leaves an announcement to come.

### Only model-checked

Liveness, as fairness and `ENABLED` are out of the prover's reach; what the
parser of skill documents, the specification grammar and the edit algorithms
compute (`TextsAreWhole`, `EditsAreExact`), which are RECURSIVE operators over
texts; and the v2 mode, `ReactInline`.

## Not modelled

`PROJECT.json` gives a reason for each component. In short:

* text: prompts, rendering, completion candidates, parsing of skill
  documents, the wording of events;
* pure configuration and calibration, whose numbers no property tells apart;
* file and network I/O and external services beyond their success or failure:
  searching and ranking in Vespa, embeddings, PDF conversion, the container
  engine's own behaviour;
* reports over stored data: AHE, evaluation, observability, the dashboard, and
  HTTP routes that only read;
* code that nothing runs: the processor supervisor is never started;
* a queue limit of 500 that the modelled loops do not come near
  (`core/events/event_bus.py:83`);
* the thread of a v2 run that the chat has given up, beside a next run;
* the cut of a read file at 100,000 characters (`file_tools.py:468-470`), which the
  modelled texts do not come near; a skill directory with an unreadable `SKILL.md` beside
  the one that is viewed (`SkillBundles`); and a contract's template that holds a word
  which cannot be covered (`skill_compiler.py:1122-1142`), where `SkillParse` finds it.

## Plan

1. Proofs: the texts of the chat and of skills (`TextsAreWhole`) and the edits of files
   (`EditsAreExact`), which need induction over data, once the prover has it.
2. An abstract specification of the ReAct loop (one thread of work that stops
   after a pause) that `ReactLoop` and `ReactInline` implement; one of a request
   (asked, running, ended with an outcome) for goals, workflows and delegation.
3. Composition: the tool calls of `ToolCall` inside a turn of `ChatTurn`, so that a
   turn that was given up goes on to call tools.
4. A second writer of `session_messages` from another process, and the AHE
   evolution loop once it keeps state of its own.
