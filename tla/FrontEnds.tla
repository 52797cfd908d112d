------------------------------ MODULE FrontEnds ------------------------------
(***************************************************************************)
(* The front ends side by side: the chat of the terminal application, with *)
(* what runs around its turns (ChatApp); its keys and modes (VimLayer);    *)
(* the text, menu and model in it (TuiInput); and the compilations, caches *)
(* and views of skills in the application and in the dashboard             *)
(* (SkillBundles: views without browsers that follow, and the other way    *)
(* around). Nothing interacts between them that does not in the code:      *)
(* `subject' says which a behaviour is about.                              *)
(***************************************************************************)
EXTENDS ChatApp

CONSTANTS MaxMessagesShown,                              \* VimLayer
          Texts, HistoryMax, TypedMax, Models,           \* TuiInput
          Files, EventsMax,                              \* SkillBundles, and of each instance:
          ViewThreads, Viewers, ViewEdits, ViewFailures, FollowThreads, Followers, FollowEdits, FollowFailures

VARIABLES subject,
          initial, enabled, pane, mode, awaited, counting, selection, messages, focus, visible, help, begun,
          modal, text, past, index, draft, before, queue, working, menu, choosing, picking, override, served,
          header, up,
          disk, json, cache, compiling, thread, view, shown, settled, client, listening, edits, failures

Vim == INSTANCE VimLayer WITH pending <- awaited, menu <- visible, MaxMessages <- MaxMessagesShown
Tui == INSTANCE TuiInput WITH shown <- header, QueueMax <- TypedMax
Views == INSTANCE SkillBundles WITH
    running <- compiling, Threads <- ViewThreads, Viewers <- Viewers, Clients <- {}, QueueMax <- EventsMax,
    MaxEdits <- ViewEdits, MaxFailures <- ViewFailures
Follows == INSTANCE SkillBundles WITH
    running <- compiling, Threads <- FollowThreads, Viewers <- {}, Clients <- Followers, QueueMax <- EventsMax,
    MaxEdits <- FollowEdits, MaxFailures <- FollowFailures

-----------------------------------------------------------------------------
\* VimLayer: no illegal mode, and no operator or count in another pane than the one it was begun in.
KeysAreModal == subject = "vim" => Vim!ModesFitPanes /\ Vim!PrefixesStay

\* TuiInput: draft, menu and model are what they are shown as, whatever keys came between.
InputIsKept == subject = "tui" => Tui!DraftIsKept /\ Tui!MenusAreTold /\ Tui!ModelIsServed

\* SkillBundles: no older bundle comes back, and the end of a compilation is shown.
SkillViewsAreTrue == /\ subject = "views" => Views!FreshUntilEdited
                     /\ subject = "follows" => Follows!EndIsShown
=============================================================================
