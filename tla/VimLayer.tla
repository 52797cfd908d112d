------------------------------ MODULE VimLayer ------------------------------
(***************************************************************************)
(* The modal keys of the terminal application: VimState and the handlers   *)
(* of the two panes (tui_vim.py), and the ways in which ChatApp (tui.py)   *)
(* brings a key to one of them, or changes pane and mode beside them: F2,  *)
(* Tab, `?', the mouse, the menu below the editor and the help panel.      *)
(*                                                                         *)
(* A key stands for all keys that are treated alike: "1" for the digits,   *)
(* "j" for the motions, "z" for what has no meaning. What keys do to the   *)
(* text and to the scroll position is left out (see TuiInput).             *)
(***************************************************************************)
EXTENDS Integers, Sequences

CONSTANTS MaxMessages  \* bound: messages in the chat

VARIABLES initial,     \* initial_mode of the configuration
          enabled, pane, mode, pending,
          counting,    \* count is not None
          selection,   \* ChatVimHandler._selection: <<>> or <<anchor, head>>
          messages,    \* number of _chat_messages
          focus,       \* the widget that has the focus
          menu,        \* the menu is displayed: _completion_visible
          help,        \* the help panel is displayed
          begun        \* history: pane and mode in which pending or count was begun

state == <<enabled, pane, mode, pending, counting, begun>>
screen == <<messages, focus, menu, help>>
vars == <<initial, state, selection, screen>>

Keys == {"escape", "1", "0", "i", "a", "v", "y", "d", "c", "D", "x", "j", "g", "G", "z", "ctrl_u"}
Printable == Keys \ {"escape", "ctrl_u"}

Init ==
    /\ initial \in {"insert", "normal"} /\ enabled \in BOOLEAN
    /\ pane = "input" /\ mode = IF enabled THEN initial ELSE "insert"
    /\ pending = "" /\ counting = FALSE /\ selection = <<>> /\ messages = 0
    /\ focus = "input" /\ menu = FALSE /\ help = FALSE /\ begun = <<pane, mode>>

-----------------------------------------------------------------------------
(* VimState *)

Is(p, m) == pane' = p /\ mode' = m
Reset == pending' = "" /\ counting' = FALSE /\ UNCHANGED begun
To(m) == Is(pane, m) /\ Reset
Count == counting' = TRUE /\ begun' = <<pane, mode>> /\ UNCHANGED <<pane, mode, pending>>
Await(k) == pending' = k /\ begun' = <<pane, mode>> /\ UNCHANGED <<pane, mode, counting>>
Consume == counting' = FALSE /\ UNCHANGED <<pane, mode, pending, begun>>
Swallow == UNCHANGED <<pane, mode, pending, counting, begun>>

\* `0' goes on with a count, and begins none.
Digit(k) == k = "1" \/ (k = "0" /\ counting)
Motion(k) == k \in {"j", "0"}

-----------------------------------------------------------------------------
(* The input pane *)

\* The first keys that each handler of a normal mode looks at: Escape, and a count.
Prefix(k) == (k = "escape" /\ To(mode)) \/ (Digit(k) /\ Count)
Plain(k) == k # "escape" /\ ~Digit(k)

InsertKey(k) ==
    \/ k = "escape" /\ To("normal")
    \/ k # "escape" /\ Swallow

\* The key after `d' or `c': the operator again, a motion, or anything else, which discards both.
Operate(k) ==
    /\ Is(pane, IF pending = "c" /\ (k = pending \/ Motion(k)) THEN "insert" ELSE mode)
    /\ Reset

InputCommand(k) ==
    \/ k \in {"i", "a"} /\ To("insert")
    \/ k = "v" /\ To("visual")
    \/ k \in {"d", "c"} /\ Await(k)
    \/ k = "D" /\ To(mode)
    \/ (k = "x" \/ Motion(k)) /\ Consume
    \/ k \in {"y", "g", "G", "z", "ctrl_u"} /\ Swallow

InputNormalKey(k) ==
    \/ Prefix(k)
    \/ Plain(k) /\ pending \in {"d", "c"} /\ Operate(k)
    \/ Plain(k) /\ pending \notin {"d", "c"} /\ InputCommand(k)

InputVisualKey(k) ==
    \/ k \in {"escape", "v", "y", "d"} /\ To("normal")
    \/ k = "c" /\ To("insert")
    \/ k \notin {"escape", "v", "y", "d", "c"} /\ Swallow

\* handle_vim_text_area_key: only the focused editor has its keys looked at.
InputKey(k) ==
    /\ enabled /\ ~menu /\ pane = "input" /\ focus = "input"
    /\ \/ mode = "insert" /\ InsertKey(k)
       \/ mode = "normal" /\ InputNormalKey(k)
       \/ mode = "visual" /\ InputVisualKey(k)
    /\ UNCHANGED <<initial, enabled, selection, screen>>

-----------------------------------------------------------------------------
(* The chat pane *)

FocusInput == Is("input", "insert") /\ Reset /\ focus' = "input"
Still(A) == A /\ UNCHANGED <<focus, selection>>
Discard == pending' = "" /\ UNCHANGED <<pane, mode, counting, begun>>

\* `g' waits for another `g', and `v' selects the last message, if there is one.
ChatCommand(k) ==
    \/ k = "g" /\ Still(Await("g"))
    \/ k = "i" /\ FocusInput /\ UNCHANGED selection
    \/ k = "v" /\ messages > 0 /\ To("visual") /\ selection' = <<messages, messages>> /\ UNCHANGED focus
    \/ (k \in {"y", "G"} \/ (k = "v" /\ messages = 0)) /\ Still(To(mode))
    \/ k = "j" /\ Still(Consume)
    \/ k \notin {"g", "i", "v", "y", "G", "j"} /\ Still(Swallow)

\* Whatever follows a `g' ends its waiting, and leaves the count.
ChatNormalKey(k) ==
    \/ Still(Prefix(k))
    \/ Plain(k) /\ pending = "g" /\ Still(Discard)
    \/ Plain(k) /\ pending # "g" /\ ChatCommand(k)

ExitVisual == To("normal") /\ selection' = <<>>

\* The head moves down, or up, within the messages; `y' copies what is between it and the anchor.
Extend == \E head \in {selection[2] - 1, selection[2], selection[2] + 1} \cap (1..messages) :
             selection' = <<selection[1], head>>

ChatVisualKey(k) ==
    /\ UNCHANGED focus
    /\ \/ (selection = <<>> \/ messages = 0 \/ k \in {"escape", "v", "y"}) /\ ExitVisual
       \/ /\ selection # <<>> /\ messages > 0 /\ k \notin {"escape", "v", "y"} /\ Swallow
          /\ \/ k = "j" /\ Extend
             \/ k # "j" /\ UNCHANGED selection

\* on_key: keys that bubble up. The editor keeps printable keys to itself when it has the focus.
ChatKey(k) ==
    /\ enabled /\ ~menu /\ pane = "chat" /\ (focus = "chat" \/ k \notin Printable)
    /\ \/ mode = "visual" /\ ChatVisualKey(k)
       \/ mode # "visual" /\ ChatNormalKey(k)
    /\ UNCHANGED <<initial, enabled, messages, menu, help>>

-----------------------------------------------------------------------------
(* The application *)

ToggleVim ==
    /\ enabled' = ~enabled /\ Is("input", IF enabled THEN "insert" ELSE initial) /\ Reset
    /\ focus' = "input" /\ menu' = FALSE
    /\ UNCHANGED <<initial, selection, messages, help>>

\* Mutant: the mode is the one of the pane that is left.
CyclePaneKeeping ==
    /\ enabled /\ ~menu
    /\ LET next == IF pane = "input" THEN "chat" ELSE "input"
       IN Is(next, mode) /\ focus' = next
    /\ Reset
    /\ UNCHANGED <<initial, enabled, selection, messages, menu, help>>

\* Tab: the chat has no insert mode.
CyclePane ==
    /\ enabled /\ ~menu
    /\ LET next == IF pane = "input" THEN "chat" ELSE "input"
       IN Is(next, IF next = "chat" THEN "normal" ELSE mode) /\ focus' = next
    /\ Reset
    /\ UNCHANGED <<initial, enabled, selection, messages, menu, help>>

\* The mouse moves the focus, and the Vim layer is not told.
Click(widget) ==
    /\ focus' = widget
    /\ UNCHANGED <<initial, state, selection, messages, menu, help>>

Message ==
    /\ messages < MaxMessages /\ messages' = messages + 1
    /\ UNCHANGED <<initial, state, selection, focus, menu, help>>

\* The menu comes and goes (TuiInput); taking an option brings the focus back to the editor.
Menu ==
    /\ menu' = ~menu /\ focus' \in (IF menu THEN {"input", focus} ELSE {focus})
    /\ UNCHANGED <<initial, state, selection, messages, help>>

\* `?' outside of typing. The panel takes the place of every other overlay.
ToggleHelp ==
    /\ focus = "input" => enabled /\ ~(pane = "input" /\ mode = "insert")
    /\ help' = ~help /\ menu' = (menu /\ help)
    /\ UNCHANGED <<initial, state, selection, messages, focus>>

\* action_escape: only an Escape that the Vim layer leaves alone closes the panel.
Escape ==
    /\ ~enabled \/ menu \/ (pane = "input" /\ focus = "chat")
    /\ help /\ help' = FALSE
    /\ UNCHANGED <<initial, state, selection, messages, focus, menu>>

Key(k) == InputKey(k) \/ ChatKey(k)
Next == \/ ToggleVim \/ CyclePane \/ Message \/ Menu \/ ToggleHelp \/ Escape
        \/ \E k \in Keys : Key(k)
        \/ \E widget \in {"input", "chat"} : Click(widget)

Spec == Init /\ [][Next]_vars

-----------------------------------------------------------------------------
\* No mode without its pane: the chat is read only and never in insert mode, a visual mode in it
\* has messages to show, and with the layer off the editor is in insert mode (F2, Tab and `i' each
\* set pane and mode by themselves).
ModesFitPanes ==
    /\ pane = "chat" => enabled /\ mode # "insert" /\ (mode = "visual" => selection # <<>>)
    /\ selection # <<>> => selection \in (1..messages) \X (1..messages)
    /\ ~enabled => pane = "input" /\ mode = "insert"

\* An operator or a count that was begun in one pane and mode is never applied in another, where
\* the same key would delete text instead of scrolling.
PrefixesStay ==
    pending # "" \/ counting =>
        /\ begun = <<pane, mode>> /\ mode = "normal"
        /\ pending \in (IF pane = "input" THEN {"", "d", "c"} ELSE {"", "g"})
=============================================================================
