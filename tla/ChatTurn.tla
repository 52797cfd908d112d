------------------------------ MODULE ChatTurn ------------------------------
(***************************************************************************)
(* What handle_repl_input (repl.py) does with an input, in an executor     *)
(* thread of the terminal application: a chat turn step by step, the other *)
(* commands at once. A turn that was interrupted keeps its thread, so      *)
(* several threads may work on one session; a killed process loses its     *)
(* threads and its history, and the next one resumes from the rows.        *)
(***************************************************************************)
EXTENDS ChatHistory

CONSTANTS Turns,      \* the inputs of the user, in order: 1..n
          Scripts,    \* what may be typed: sequences of kinds of input, at most n
          Written,    \* prefixes of the blackboard keys that the tools of a model run write
          Outcomes,   \* what a model run may end in
          MaxFaults   \* bound: database errors, and restarts

ASSUME InputsAssumption ==
    /\ IsFiniteSet(Turns) /\ Turns \subseteq Nat \ {0}
    /\ \A script \in Scripts : DOMAIN script \subseteq Turns
    /\ Outcomes \subseteq {"text", "long", "tools", "caught", "raised"}

VARIABLES at,        \* at[t]: the next step of turn t's thread
          kind,      \* kind[t]: what is typed
          heard,     \* heard[t]: whose callback the thread streams to, 0 for the default
          new,       \* new[t]: the messages of the model run
          kept,      \* kept[t]: the bounded history the thread is about to store
          ordinal,   \* ordinal[t]: the number it has read for its row
          sent,      \* sent[t]: the history the model was sent
          history,   \* app_state.pydantic_messages
          rows,      \* the session_messages rows of the session
          log,       \* state_events, as <<type, turn>>
          board,     \* the blackboard's keys, as <<prefix, task>>
          callbacks, \* whose callbacks app_state.streaming holds, 0 for the defaults
          faults

turnVars == <<at, kind, heard, new, kept, ordinal, sent>>
sessionVars == <<history, rows, log, board, faults>>

Chats(t) == kind[t] \in {"chat", "copy"}   \* "/copy" prints, and goes on as an input to the chat
Busy(t) == at[t] \notin {"none", "over", "failed", "gone"}
Ends == {"over", "failed", "gone"}

InitTurns ==
    /\ at = [t \in Turns |-> "none"] /\ kind \in Scripts
    /\ heard = [t \in Turns |-> 0] /\ ordinal = [t \in Turns |-> 0]
    /\ new = [t \in Turns |-> <<>>] /\ kept = [t \in Turns |-> <<>>] /\ sent = [t \in Turns |-> <<>>]
    /\ history = <<>> /\ rows = <<>> /\ log = <<>> /\ board = {} /\ faults = 0

Go(t, there) == at' = [at EXCEPT ![t] = there]

\* EventBus.publish: the event is written, or the error of the database ends the turn: it is not
\* one of the exceptions that handle_chat_input catches.
Publish(t, type, there) ==
    \/ log' = Append(log, <<type, t>>) /\ Go(t, there) /\ UNCHANGED faults
    \/ faults < MaxFaults /\ faults' = faults + 1 /\ Go(t, "failed") /\ UNCHANGED log

-----------------------------------------------------------------------------
(* A chat turn *)

Begin(t) ==
    /\ at[t] = "begin" /\ Chats(t)
    /\ Publish(t, "AgentInputAdded", "call")
    /\ UNCHANGED <<kind, heard, new, kept, ordinal, sent, history, rows, board, callbacks>>

\* The pruned history goes to the model, and the callbacks of this moment to stream_text.
Call(t) ==
    /\ at[t] = "call"
    /\ sent' = [sent EXCEPT ![t] = Pruned(history)]
    /\ heard' = [heard EXCEPT ![t] = callbacks]
    /\ Go(t, "model")
    /\ UNCHANGED <<kind, new, kept, ordinal, history, rows, log, board, faults, callbacks>>

Exchange(t, size) == <<Message("ask", t, 1), Message("say", t, size)>>
Answered(t, outcome) ==
    CASE outcome = "text"  -> Exchange(t, 1)     \* also a capped run, whose tool rounds are not kept
      [] outcome = "long"  -> Exchange(t, TokenBudget)
      [] outcome = "tools" -> Sanitized(<<Message("ask", t, 1), Message("call", t, 1),
                                          Message("ret", t, TokenBudget), Message("say", t, 1)>>)

\* The model run ends: with messages, and with what its tools wrote to the blackboard, with an
\* exception that is printed, or with another one.
Answer(t) ==
    /\ at[t] = "model"
    /\ \E outcome \in Outcomes :
          /\ new' = IF outcome \in {"text", "long", "tools"} THEN [new EXCEPT ![t] = Answered(t, outcome)] ELSE new
          /\ board' = IF outcome = "tools" THEN board \cup {<<prefix, t>> : prefix \in Written} ELSE board
          /\ Go(t, CASE outcome = "caught" -> "over" [] outcome = "raised" -> "failed" [] OTHER -> "account")
    /\ UNCHANGED <<kind, heard, kept, ordinal, sent, history, rows, log, faults, callbacks>>

Account(t) ==
    /\ at[t] = "account"
    /\ Publish(t, "LLMActionEmitted", "extend")
    /\ UNCHANGED <<kind, heard, new, kept, ordinal, sent, history, rows, board, callbacks>>

\* history.extend(new), and then history = bounded(history): two steps between threads.
Extend(t) ==
    /\ at[t] = "extend"
    /\ history' = history \o new[t]
    /\ kept' = [kept EXCEPT ![t] = Bounded(history \o new[t])]
    /\ Go(t, "bound")
    /\ UNCHANGED <<kind, heard, new, ordinal, sent, rows, log, board, faults, callbacks>>

Bound(t) ==
    /\ at[t] = "bound"
    /\ history' = kept[t]
    /\ Go(t, "number")
    /\ UNCHANGED <<kind, heard, new, kept, ordinal, sent, rows, log, board, faults, callbacks>>

\* append_session_messages reads the highest ordinal and inserts the next one, which the primary
\* key refuses when another thread was faster.
Number(t) ==
    /\ at[t] = "number"
    /\ ordinal' = [ordinal EXCEPT ![t] = Len(rows) + 1]
    /\ Go(t, "row")
    /\ UNCHANGED <<kind, heard, new, kept, sent, sessionVars, callbacks>>

\* Mutant: an insertion that fails is passed over.
InsertLenient(t) ==
    /\ at[t] = "row" /\ Go(t, "record")
    /\ \/ ordinal[t] = Len(rows) + 1 /\ rows' = Append(rows, new[t]) /\ UNCHANGED faults
       \/ ordinal[t] <= Len(rows) /\ UNCHANGED <<rows, faults>>
       \/ faults < MaxFaults /\ faults' = faults + 1 /\ UNCHANGED rows
    /\ UNCHANGED <<kind, heard, new, kept, ordinal, sent, history, log, board, callbacks>>

Insert(t) ==
    /\ at[t] = "row"
    /\ \/ ordinal[t] = Len(rows) + 1 /\ rows' = Append(rows, new[t]) /\ Go(t, "record") /\ UNCHANGED faults
       \/ ordinal[t] <= Len(rows) /\ Go(t, "failed") /\ UNCHANGED <<rows, faults>>
       \/ faults < MaxFaults /\ faults' = faults + 1 /\ Go(t, "failed") /\ UNCHANGED rows
    /\ UNCHANGED <<kind, heard, new, kept, ordinal, sent, history, log, board, callbacks>>

Record(t) ==
    /\ at[t] = "record"
    /\ Publish(t, "AgentTurnRecorded", "say")
    /\ UNCHANGED <<kind, heard, new, kept, ordinal, sent, history, rows, board, callbacks>>

Say(t) ==
    /\ at[t] = "say"
    /\ Publish(t, "LLMTextEmitted", "finish")
    /\ UNCHANGED <<kind, heard, new, kept, ordinal, sent, history, rows, board, callbacks>>

-----------------------------------------------------------------------------
(* The other commands, each in one step *)

\* GoalRunner runs, and its exchange goes to the history: not bounded, and to no row.
Goal(t) == history' = history \o Exchange(t, 1) /\ UNCHANGED board
\* A foreground spawn: the handler writes its result under a key of its own prefix.
Spawn(t) == board' = board \cup {<<"delegate_task", t>>} /\ UNCHANGED history
\* The findings of a task, read from the blackboard, go to the end of the history.
Feed(t, task) ==
    /\ UNCHANGED board
    /\ history' = IF <<"delegated", task>> \in board THEN Bounded(Append(history, Message("fed", task, 1)))
                  ELSE history
Slice(task) == history' = Without(history, task) /\ UNCHANGED board

Command(t) ==
    /\ at[t] = "begin" /\ ~Chats(t)
    /\ \/ kind[t] = "goal" /\ Goal(t)
       \/ kind[t] = "spawn" /\ Spawn(t)
       \/ kind[t] = "feed" /\ \E task \in 1..t : Feed(t, task)
       \/ kind[t] = "slice" /\ \E task \in 1..t : Slice(task)
    /\ Go(t, "over")
    /\ UNCHANGED <<kind, heard, new, kept, ordinal, sent, rows, log, faults, callbacks>>

Step(t) == Begin(t) \/ Call(t) \/ Answer(t) \/ Account(t) \/ Extend(t) \/ Bound(t) \/ Number(t)
           \/ Insert(t) \/ Record(t) \/ Say(t) \/ Command(t)

-----------------------------------------------------------------------------
\* Every history that is stored, sent or resumed is one the model's API accepts: returns stay with
\* their calls although turns are dropped, cut, sliced, fed and written by several threads
\* (_bounded_pydantic_messages, prune_message_history, _ensure_history_consistent).
HistoryIsAccepted == WellFormed(history) /\ (\A t \in Turns : WellFormed(sent[t])) /\ \A i \in DOMAIN rows : WellFormed(rows[i])

\* An answer that was announced is in a row, and its turn was recorded before: a resumed session
\* knows every answer that the log says was given; no turn has two rows.
AnswersAreDurable ==
    /\ \A i \in DOMAIN log : log[i][1] = "LLMTextEmitted" =>
           /\ \E j \in 1..(i-1) : log[j] = <<"AgentTurnRecorded", log[i][2]>>
           /\ \E r \in DOMAIN rows : rows[r] = new[log[i][2]]
    /\ \A r, q \in DOMAIN rows : rows[r][1].of = rows[q][1].of => r = q
=============================================================================
