------------------------------ MODULE TuiInput ------------------------------
(***************************************************************************)
(* What the terminal application does with the text of its editor (tui.py  *)
(* and VimTextArea): the history of inputs and the draft, the queue, the   *)
(* one menu that shows completions, models or sessions, and the choice of  *)
(* the model that serves the turns.                                        *)
(*                                                                         *)
(* Priority bindings (Enter, Tab, Ctrl+D, Alt+Up, Ctrl+L, ...) do not pass *)
(* through VimTextArea._on_key: only the other keys leave the history.     *)
(* A text may be a command: which one is not told apart. Turns are one     *)
(* step here (ChatApp models them), and so is the Vim layer: `modal' says  *)
(* that it is in normal mode in the input pane (VimLayer).                 *)
(***************************************************************************)
EXTENDS Integers, Sequences, SequencesExt

CONSTANTS Texts,       \* what the user may write
          HistoryMax,  \* _HISTORY_MAX
          QueueMax,    \* _QUEUE_MAX
          Models       \* a sequence: tui.models; the first is the configured one

VARIABLES modal, text, past, index, draft, before,
          queue,       \* length of _queued_messages
          working,     \* _worker_running
          menu,        \* what the menu shows, or "none"
          choosing,    \* _model_selector_active
          picking,     \* _session_picker_active
          override,    \* _llm_override, or "none"
          served,      \* the model of the runtime
          shown,       \* history: the model in the header when the last turn began
          up           \* the application runs

editor == <<text, past, index, draft, before>>
menus == <<menu, choosing, picking>>
models == <<override, served, shown>>
vars == <<modal, editor, queue, working, menus, models, up>>

\* A place in the history is a number.
HistoryAssumption == HistoryMax \in Nat

Empty == "empty"
Configured == Models[1]
Offered == Range(Models)
Effective == IF override = "none" THEN Configured ELSE override

Init ==
    /\ modal \in BOOLEAN /\ text = Empty /\ past = <<>> /\ index = -1 /\ draft = Empty /\ before = Empty
    /\ queue = 0 /\ working = FALSE /\ menu = "none" /\ choosing = FALSE /\ picking = FALSE
    /\ override = "none" /\ served = Configured /\ shown = Configured /\ up = TRUE

-----------------------------------------------------------------------------
(* Editing *)

LeaveHistory == index' = -1 /\ draft' = Empty /\ before' = Empty
KeepHistory == UNCHANGED <<past, index, draft, before>>

\* _refresh_completion_menu: what fits the text before the cursor, or nothing.
Completions == {"none", "completions"}

\* A change of the text while the menu is displayed refreshes it.
Refresh == menu' \in (IF menu = "none" THEN {"none"} ELSE Completions)

\* A key that is no binding: whatever it does to the text, the history is left.
Key ==
    /\ text' \in Texts \cup {Empty} /\ LeaveHistory /\ Refresh
    /\ UNCHANGED <<modal, past, queue, working, choosing, picking, models, up>>

\* Enter and `?' write into the text and stay in the history.
Insert ==
    /\ menu = "none" /\ ~modal
    /\ text' \in Texts /\ KeepHistory
    /\ UNCHANGED <<modal, queue, working, menus, models, up>>

\* Mutant: every Up keeps the text as the draft.
UpSaving ==
    /\ menu = "none" /\ index < Len(past) - 1
    /\ draft' = text /\ index' = index + 1 /\ text' = past[index' + 1]
    /\ before' = IF index = -1 THEN text ELSE before
    /\ UNCHANGED <<modal, past, queue, working, menus, models, up>>

\* Up at the beginning of the text: the first one keeps the draft.
Up ==
    /\ menu = "none" /\ index < Len(past) - 1
    /\ draft' = IF index = -1 THEN text ELSE draft
    /\ before' = IF index = -1 THEN text ELSE before
    /\ index' = index + 1 /\ text' = past[index' + 1]
    /\ UNCHANGED <<modal, past, queue, working, menus, models, up>>

\* Down at the end of the text: past the newest entry the draft comes back.
Down ==
    /\ menu = "none" /\ index >= 0
    /\ \/ index = 0 /\ text' = draft /\ LeaveHistory
       \/ index > 0 /\ index' = index - 1 /\ text' = past[index] /\ UNCHANGED <<draft, before>>
    /\ UNCHANGED <<modal, past, queue, working, menus, models, up>>

-----------------------------------------------------------------------------
(* Submitting *)

\* A submitted or queued text is the newest of the history, which drops its oldest.
Remember ==
    /\ past' = SubSeq(<<text>> \o past, 1, IF Len(past) < HistoryMax THEN Len(past) + 1 ELSE HistoryMax)
    /\ LeaveHistory /\ text' = Empty /\ menu' = "none"

\* _chat_worker: another runtime when the model is not the configured one. One that no provider has
\* may raise, and the answer to that ends the application (ChatApp).
Serve ==
    /\ working' = TRUE /\ shown' = Effective /\ UNCHANGED override
    /\ \/ served' = (IF Effective = Configured THEN served ELSE Effective) /\ UNCHANGED up
       \/ Effective \notin Offered /\ up' = FALSE /\ UNCHANGED served

\* action_submit_editor: Ctrl+D, Alt+Enter, Super+Enter. A full queue leaves the text alone.
Submit ==
    /\ text # Empty /\ UNCHANGED <<modal, choosing, picking>>
    /\ \/ working /\ queue < QueueMax /\ queue' = queue + 1 /\ Remember /\ UNCHANGED <<working, models, up>>
       \/ ~working /\ ~modal /\ Remember /\ Serve /\ UNCHANGED queue

\* Alt+Up takes the last queued text back, over whatever is in the editor.
Restore ==
    /\ queue > 0 /\ queue' = queue - 1 /\ text' \in Texts /\ KeepHistory /\ Refresh
    /\ UNCHANGED <<modal, working, choosing, picking, models, up>>

\* _dequeue_next clears the editor, whatever is in it.
Dequeue ==
    /\ queue > 0 /\ ~working /\ queue' = queue - 1
    /\ text' = Empty /\ KeepHistory /\ menu' = "none" /\ Serve
    /\ UNCHANGED <<modal, choosing, picking>>

TurnEnds ==
    /\ working /\ working' = FALSE
    /\ UNCHANGED <<modal, editor, queue, menus, models, up>>

-----------------------------------------------------------------------------
(* The menu *)

\* Tab opens completions, if there are any; when the menu is displayed it only moves in it.
Complete ==
    /\ menu = "none" /\ menu' \in Completions
    /\ UNCHANGED <<modal, editor, queue, working, choosing, picking, models, up>>

\* Enter takes the highlighted option into the text, whatever the options are.
Accept ==
    /\ menu # "none" /\ menu' = "none" /\ text' \in Texts /\ KeepHistory
    /\ UNCHANGED <<modal, queue, working, choosing, picking, models, up>>

\* Ctrl+L, or /model
Selector ==
    /\ menu' = "models" /\ choosing' = TRUE /\ text' \in {text, Empty} /\ KeepHistory
    /\ UNCHANGED <<modal, queue, working, picking, models, up>>

\* /resume while no worker runs: the recent sessions, or none, which ends the application (ChatApp).
Picker ==
    /\ text # Empty /\ ~working /\ text' = Empty /\ KeepHistory
    /\ \/ menu' = "sessions" /\ picking' = TRUE /\ UNCHANGED up
       \/ Refresh /\ up' = FALSE /\ UNCHANGED picking
    /\ UNCHANGED <<modal, queue, working, choosing, models>>

\* _select_session: the messages are shown, and the one after them ends the application (ChatApp)
\* before the override is taken back.
LoadSession == picking' = FALSE /\ up' = FALSE /\ UNCHANGED <<text, choosing, models>>

\* An option is clicked. The flags decide what it is: as a model, the label of something else names
\* a model that no provider has, or none.
Select ==
    /\ menu # "none"
    /\ CASE choosing -> /\ choosing' = FALSE /\ menu' = "none" /\ UNCHANGED <<text, picking, up, served, shown>>
                        /\ override' \in (IF menu = "models" THEN Offered ELSE {override, "unknown"})
         [] ~choosing /\ picking -> menu' = "none" /\ LoadSession
         [] OTHER -> /\ menu' = "none" /\ text' \in Texts
                     /\ UNCHANGED <<choosing, picking, up, models>>
    /\ KeepHistory /\ UNCHANGED <<modal, queue, working>>

\* Ctrl+P and Ctrl+Shift+P go around the models, from the first if the model is not among them.
CycleModel(step) ==
    LET at == IF Effective \in Offered THEN SelectInSeq(Models, LAMBDA m : m = Effective) ELSE 1
    IN /\ Len(Models) > 1
       /\ override' = Models[((at - 1 + step) % Len(Models)) + 1]
       /\ UNCHANGED <<modal, editor, queue, working, menus, served, shown, up>>

\* F2 hides the menu, and `?' every overlay; the flags stay. The Vim layer changes its mode.
Dismiss ==
    /\ menu' = "none" /\ modal' \in BOOLEAN
    /\ UNCHANGED <<editor, queue, working, choosing, picking, models, up>>

Next == up /\ (\/ Key \/ Insert \/ Up \/ Down \/ Submit \/ Restore \/ Dequeue \/ TurnEnds \/ Complete
               \/ Accept \/ Selector \/ Picker \/ Select \/ Dismiss
               \/ \E step \in {-1, 1} : CycleModel(step))

Spec == Init /\ [][Next]_vars

-----------------------------------------------------------------------------
\* While the user walks through the history, its place is in the history and the draft is what was
\* written before, whatever keys came between; outside of it no old draft can come back.
DraftIsKept ==
    /\ index < Len(past) /\ draft = before
    /\ index = -1 => draft = Empty

\* Models and sessions in the menu are told from completions, so that a click on one never writes
\* into the text. The flags may outlive their menu: the converse does not hold.
MenusAreTold == (menu = "models" => choosing) /\ (menu = "sessions" => picking \/ choosing)

\* A turn is served by the model in the header, unless the user went back to the configured one.
ModelIsServed == shown # Configured /\ up => served = shown
=============================================================================
