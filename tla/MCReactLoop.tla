---------------------------- MODULE MCReactLoop ----------------------------
(***************************************************************************)
(* Small instances of the two ReAct loops over the event bus: the goal     *)
(* loop of ReactLoop and the v2 mode of ReactInline. `subject' says which  *)
(* a behaviour is about; the variables of the other are idle.              *)
(***************************************************************************)
EXTENDS ReactLoop

VARIABLES subject, surface, timed, driver, place, inbox, events, count, rounds, ended, texts,
          runs, asks, errors

inlineVars == <<surface, timed, driver, place, inbox, events, count, rounds, ended, texts, runs, asks, errors>>
all == <<subject, vars, inlineVars>>

V2 == INSTANCE ReactInline WITH
          MaxRetries <- 0, MaxTokens <- 1, MaxIterations <- 2, MaxAsks <- 1, MaxRuns <- 2, MaxErrors <- 1,
          limited <- timed, tally <- count, terminal <- ended

MCInit == /\ subject \in {"goal", "inline"}
          /\ Init /\ V2!Init
          /\ subject = "goal" => surface = "cli" /\ ~timed
          /\ subject = "inline" => ~limited

Loop(A) == subject = "goal" /\ A /\ UNCHANGED <<subject, inlineVars>>
Mode(A) == subject = "inline" /\ A /\ UNCHANGED <<subject, vars>>

MCNext == Loop(Next) \/ Mode(V2!Next)
MCSpec == MCInit /\ [][MCNext]_all
MCFairSpec ==
    /\ MCSpec
    /\ \A p \in Processes \cup V2!Workers :
          WF_all(Loop(p \in Processes /\ Step(p)) \/ Mode(V2!Step(p)))

\* Goals and runs with a time limit end, and goals whose budget is exceeded.
Due == IF subject = "goal" THEN MustEnd ELSE V2!MustEnd
LoopsEnd == Due ~> ~Due
=============================================================================
