-------------------------------- MODULE Tools --------------------------------
(***************************************************************************)
(* The tools of the system side by side: the calls of an agent's turn      *)
(* (ToolCall) and the calls that share the container engine (Containers).  *)
(* Nothing interacts between them that does not in the code: `subject'     *)
(* says which of them a behaviour is about, and those of their variables   *)
(* that have the same name belong to the subject.                          *)
(***************************************************************************)
EXTENDS Naturals, Sequences, FiniteSets

CONSTANTS Calls, Turns, MaxHistory, Budget,
          Callers, Names, Sessions, Scenes, MaxContainers

VARIABLES subject, stage, call, answer, seen,
          errors, history, spent, held, tokens, work, log, lost, order, checked,
          engine, created, picture, doomed, using, scratch, memory, gone, took

Turn == INSTANCE ToolCall
Engine == INSTANCE Containers

-----------------------------------------------------------------------------
\* ToolCall: the window of repeats and the budget hold, and handlers get what they declare.
CallsAreGuarded == subject = "turn" => Turn!LimitsHold /\ Turn!HandlersGetTheirTypes

\* ToolCall: the log closes every call, and says what became of it.
AnswersAreLogged == subject = "turn" => Turn!TypeOK /\ Turn!AnswersAreLogged

\* Containers: cleanups spare young containers, and a container that a call was given is lost only
\* to somebody else's cleanup or removal.
ContainersAreKept ==
    subject = "containers" => Engine!TypeOK /\ Engine!CleanupSparesTheYoung /\ Engine!UseIsExplained
=============================================================================
