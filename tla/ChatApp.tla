------------------------------- MODULE ChatApp -------------------------------
(***************************************************************************)
(* The terminal application (ChatApp of tui.py) around the turns of a      *)
(* session: the queue of inputs, the worker of each input, which polls its *)
(* thread, Escape, the deferred commands and the end of the process.       *)
(*                                                                         *)
(* Textual's call_from_thread raises in the application's own thread, and  *)
(* an exception of a worker or a handler ends the application. So every    *)
(* path of tui.py that mounts a message from the application's thread ends *)
(* in Exit.                                                                *)
(***************************************************************************)
EXTENDS ChatTurn

CONSTANTS QueueMax     \* _QUEUE_MAX

VARIABLES app,         \* "up" or "down"
          running,     \* _worker_running
          queued,      \* _queued_messages
          later,       \* calls of _dequeue_next that wait in call_later
          pending,     \* _pending_command
          abort,       \* _abort_event is set
          finalized,   \* _abort_finalized
          worker,      \* worker[t]: "none", "polling" or "over"
          tracked,     \* tracked[t]: _streaming_finalized of its worker
          next,        \* the next input of the user
          raced,       \* history: a turn was interrupted, or one was typed between the end of a turn and _dequeue_next
          skipped      \* history: the last turn ended in a deferred command, and inputs were left queued

uiVars == <<app, running, queued, later, pending, abort, finalized, worker, tracked, next, raced, skipped>>
vars == <<turnVars, sessionVars, callbacks, uiVars>>

\* Turns, callbacks and rows are ones the code can produce.
TypeOK ==
    /\ at \in [Turns -> {"none", "begin", "call", "model", "account", "extend", "bound", "number", "row", "record",
                        "say", "finish"} \cup Ends]
    /\ kind \in Scripts
    /\ heard \in [Turns -> Turns \cup {0}] /\ callbacks \in Turns \cup {0}
    /\ new \in [Turns -> Seq(Messages)] /\ kept \in [Turns -> Seq(Messages)] /\ sent \in [Turns -> Seq(Messages)]
    /\ history \in Seq(Messages) /\ rows \in Seq(Seq(Messages)) /\ ordinal \in [Turns -> Nat]
    /\ log \in Seq({"AgentInputAdded", "LLMActionEmitted", "AgentTurnRecorded", "LLMTextEmitted"} \X Turns)
    /\ app \in {"up", "down"} /\ pending \in {"none", "resume"}
    /\ running \in BOOLEAN /\ abort \in BOOLEAN /\ finalized \in BOOLEAN /\ raced \in BOOLEAN /\ skipped \in BOOLEAN
    /\ queued \in Seq(Turns) /\ later \in Nat /\ next \in Nat /\ faults \in Nat
    /\ worker \in [Turns -> {"none", "polling", "over"}] /\ tracked \in [Turns -> BOOLEAN]

Init ==
    /\ InitTurns /\ callbacks = 0
    /\ app = "up" /\ running = FALSE /\ queued = <<>> /\ later = 0 /\ pending = "none"
    /\ abort = FALSE /\ finalized = FALSE /\ next = 1 /\ raced = FALSE /\ skipped = FALSE
    /\ worker = [t \in Turns |-> "none"] /\ tracked = [t \in Turns |-> FALSE]

-----------------------------------------------------------------------------
(* In the application's thread *)

\* _submit and the beginning of _chat_worker
Submit(t) ==
    /\ abort' = FALSE /\ finalized' = FALSE /\ running' = TRUE /\ skipped' = FALSE
    /\ worker' = [worker EXCEPT ![t] = "polling"]
    /\ callbacks' = t
    /\ Go(t, "begin")

\* Mutant: an input is submitted at once.
TypeUngated ==
    /\ app = "up" /\ next \in DOMAIN kind /\ next' = next + 1
    /\ Submit(next) /\ raced' = (raced \/ later > 0)
    /\ UNCHANGED <<kind, heard, new, kept, ordinal, sent, sessionVars, app, later, pending, tracked, queued>>

\* action_submit_editor: an input is submitted, or queued while a worker runs.
Type ==
    /\ app = "up" /\ next \in DOMAIN kind /\ next' = next + 1
    /\ \/ /\ ~running /\ Submit(next)
          /\ raced' = (raced \/ later > 0)
          /\ UNCHANGED queued
       \/ /\ running
          /\ queued' = IF Len(queued) < QueueMax THEN Append(queued, next) ELSE queued
          /\ UNCHANGED <<abort, finalized, running, skipped, worker, callbacks, at, raced>>
    /\ UNCHANGED <<kind, heard, new, kept, ordinal, sent, sessionVars, app, later, pending, tracked>>

\* Alt+Up takes the last queued input back to the editor.
Restore ==
    /\ app = "up" /\ queued # <<>> /\ queued' = Front(queued)
    /\ UNCHANGED <<turnVars, sessionVars, callbacks, app, running, later, pending, abort, finalized, worker,
                   tracked, next, raced, skipped>>

\* _dequeue_next
Dequeue ==
    /\ app = "up" /\ later > 0 /\ later' = later - 1
    /\ \/ queued # <<>> /\ Submit(Head(queued)) /\ queued' = Tail(queued)
       \/ queued = <<>> /\ UNCHANGED <<queued, abort, finalized, running, skipped, worker, callbacks, at>>
    /\ UNCHANGED <<kind, heard, new, kept, ordinal, sent, sessionVars, app, pending, tracked, next,
                   raced>>

\* Escape, or /resume and /compact while a worker runs
Interrupt(cmd) ==
    /\ app = "up" /\ running /\ ~abort
    /\ abort' = TRUE /\ raced' = TRUE
    /\ pending' = IF cmd = "escape" THEN pending ELSE cmd
    /\ UNCHANGED <<turnVars, sessionVars, callbacks, app, running, queued, later, finalized, worker,
                   tracked, next, skipped>>

\* The next queued input is to be submitted, or the deferred command runs in its place: /resume opens
\* the list of sessions, and the queue waits for the end of another turn; the other answers of /resume,
\* and /compact, mount a message.
AfterTurn ==
    /\ pending' = "none"
    /\ \/ pending = "none" /\ later' = later + (IF queued = <<>> THEN 0 ELSE 1) /\ UNCHANGED <<app, skipped>>
       \/ pending # "none" /\ app' = "down" /\ UNCHANGED <<later, skipped>>
       \/ pending # "none" /\ skipped' = (queued # <<>>) /\ UNCHANGED <<app, later>>

\* The application ends: exit, /resume and /compact with their messages, or an exception. What the
\* threads do when it ends under them is the same for every ending, and Broken shows it.
Exit == app' = "down"
Leave ==
    /\ app = "up" /\ (\A t \in Turns : ~Busy(t)) /\ Exit
    /\ UNCHANGED <<turnVars, sessionVars, callbacks, running, queued, later, pending, abort, finalized,
                   worker, tracked, next, raced, skipped>>

-----------------------------------------------------------------------------
(* The worker of a turn *)

\* Mutant: a worker whose turn did not stream leaves without a word.
FinishedSilently(t) ==
    /\ app = "up" /\ worker[t] = "polling" /\ at[t] = "over"
    /\ worker' = [worker EXCEPT ![t] = "over"] /\ callbacks' = 0
    /\ UNCHANGED <<turnVars, sessionVars, app, running, queued, later, pending, abort, finalized, tracked,
                   next, raced, skipped>>

\* The thread is done: the callbacks go, and what no on_finish cleaned up is cleaned up.
Finished(t) ==
    /\ app = "up" /\ worker[t] = "polling" /\ at[t] = "over"
    /\ worker' = [worker EXCEPT ![t] = "over"] /\ callbacks' = 0
    /\ \/ tracked[t] /\ UNCHANGED <<running, later>>
       \/ ~tracked[t] /\ running' = FALSE /\ later' = later + (IF queued = <<>> THEN 0 ELSE 1)
    /\ UNCHANGED <<turnVars, sessionVars, app, queued, pending, abort, finalized, tracked, next,
                   raced, skipped>>

\* The thread raised, or the poll finds the abort while the thread is not done: both answers of the
\* worker call into the application's thread from itself.
Broken(t) ==
    /\ app = "up" /\ worker[t] = "polling"
    /\ at[t] = "failed" \/ (abort /\ Busy(t))
    /\ worker' = [worker EXCEPT ![t] = "over"] /\ Exit
    /\ UNCHANGED <<turnVars, sessionVars, callbacks, running, queued, later, pending, abort, finalized,
                   tracked, next, raced, skipped>>

-----------------------------------------------------------------------------
(* In a turn's thread *)

\* _finalize_response: the default callbacks return, and the application is idle.
Finalize ==
    /\ callbacks' = 0 /\ running' = FALSE /\ AfterTurn

\* on_text: after an abort the first chunk of any turn ends the turn on the screen.
Chunk(t) ==
    /\ at[t] = "model" /\ heard[t] # 0
    /\ \/ /\ app = "up" /\ abort /\ ~finalized
          /\ finalized' = TRUE /\ Finalize
          /\ UNCHANGED at
       \/ /\ app = "down" /\ Go(t, "failed")    \* "App is not running"
          /\ UNCHANGED <<app, callbacks, running, later, pending, finalized, skipped>>
    /\ UNCHANGED <<kind, heard, new, kept, ordinal, sent, sessionVars, queued, abort, worker, tracked, next,
                   raced>>

\* on_finish of this moment, which may be another turn's
Finish(t) ==
    /\ at[t] = "finish" /\ Go(t, "over")
    /\ \/ /\ callbacks # 0 /\ app = "up"
          /\ tracked' = [tracked EXCEPT ![callbacks] = TRUE] /\ Finalize
       \/ /\ callbacks = 0 \/ app = "down"
          /\ UNCHANGED <<tracked, app, callbacks, running, later, pending, skipped>>
    /\ UNCHANGED <<kind, heard, new, kept, ordinal, sent, sessionVars, queued, abort, finalized, worker, next,
                   raced>>

Thread(t) == (Step(t) /\ UNCHANGED uiVars) \/ Finish(t)

-----------------------------------------------------------------------------
\* The process ends at any moment, and the next one resumes the session from its rows.
Restart ==
    /\ faults < MaxFaults /\ faults' = faults + 1
    /\ history' = Repaired(Joined(rows))
    /\ at' = [t \in Turns |-> IF at[t] \in {"none", "over"} THEN at[t] ELSE "gone"]
    /\ app' = "up" /\ running' = FALSE /\ queued' = <<>> /\ later' = 0 /\ pending' = "none"
    /\ abort' = FALSE /\ finalized' = FALSE /\ callbacks' = 0 /\ skipped' = FALSE
    /\ worker' = [t \in Turns |-> IF at[t] = "none" THEN "none" ELSE "over"]
    /\ UNCHANGED <<kind, heard, new, kept, ordinal, sent, rows, log, board, tracked, next, raced>>

User == Type \/ Restore \/ Leave \/ \E cmd \in {"escape", "resume"} : Interrupt(cmd)
Work(t) == Thread(t) \/ Finished(t) \/ Broken(t)

Next == User \/ Dequeue \/ Restart \/ \E t \in Turns : Work(t) \/ Chunk(t)

Fairness == WF_vars(Dequeue) /\ \A t \in Turns : WF_vars(Work(t))
Spec == Init /\ [][Next]_vars /\ Fairness

-----------------------------------------------------------------------------
\* Two turns run at once only after an interruption, or when an input was typed between the end of
\* a turn and _dequeue_next (the gate of action_submit_editor, _worker_running).
OneTurnUnlessRaced == raced \/ Cardinality({t \in Turns : Busy(t)}) <= 1

\* As long as no turns raced and no error or restart came between, the recorded turns in
\* the history are the latest rows, in their order: a bound drops only the oldest turns.
Recorded == {m \in Messages : m.kind # "fed" /\ \E r \in DOMAIN rows : rows[r][1].of = m.of}
HistoryIsLatest ==
    ~raced /\ faults = 0 =>
        \E i \in 1..(Len(Joined(rows)) + 1) : Selected(history, Recorded) = From(Joined(rows), i)

\* What the agent is given is well formed, and the newest that is recorded.
HistoryIsSound == TypeOK /\ HistoryIsAccepted /\ HistoryIsLatest

\* The application is never busy for good: whoever looks at an occupied application finds a worker
\* that still polls, and an input that is queued will be taken out, whatever the threads, the
\* interruptions and the errors did (the three places that clear _worker_running). Only a deferred
\* command, which is exclusive with the queue, leaves inputs behind; the end of the next turn takes them.
ComesBack ==
    app = "up" =>
        /\ running => \E t \in Turns : worker[t] = "polling"
        /\ queued # <<>> => running \/ later > 0 \/ skipped
        /\ skipped => ~running /\ raced

\* "Non-streaming REPL commands return without ever triggering on_finish": the worker of a turn whose
\* answer was announced finds that the answer was shown, when nothing was interrupted.
AnswersAreShown ==
    \A t \in Turns : (worker[t] = "over" /\ at[t] = "over" /\ faults = 0 /\ ~raced /\ app = "up"
                      /\ Contains(log, <<"LLMTextEmitted", t>>)) => tracked[t]
=============================================================================
