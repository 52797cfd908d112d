----------------------------- MODULE MCRequests -----------------------------
(***************************************************************************)
(* Small instances of what is done for a request (Requests), in one run.   *)
(***************************************************************************)
EXTENDS Requests

-----------------------------------------------------------------------------
\* A goal: two phrasings of one action, and another action.
MCKeyOf == [a \in {"Read", "read", "grep"} |-> IF a = "grep" THEN "g" ELSE "r"]

(* Pipelines: all graphs of three nodes in which a template may also name a node that is not a  *)
(* dependency, a diamond, two chains, an unknown type and a dependency that is not defined.     *)
Plain(deps) == [deps |-> deps, refs |-> deps, unknownType |-> {}]
Three == {"n1", "n2", "n3"}
MCPipelines ==
    {Plain(deps) : deps \in [Three -> SUBSET Three]}
    \cup {[deps |-> [n1 |-> {}, n2 |-> {}, n3 |-> {"n2"}],
           refs |-> [n1 |-> {}, n2 |-> {"n1"}, n3 |-> {"n1", "n2"}], unknownType |-> u] : u \in {{}, {"n1"}}}
    \cup {[deps |-> [n1 |-> {}, n2 |-> {"n9"}], refs |-> [n1 |-> {}, n2 |-> {}], unknownType |-> {}],
          Plain([n1 |-> {}, n2 |-> {"n1"}, n3 |-> {"n1"}, n4 |-> {"n2", "n3"}]),
          Plain([n1 |-> {}, n2 |-> {}, n3 |-> {"n1"}, n4 |-> {"n2"}])}

\* Workflows: a line, a terminal state with a skill, two circles, templates that name a declared
\* container or a state that has not run, a next that is not defined, no states at all.
State(next, refs, terminal) == [next |-> next, refs |-> refs, terminal |-> terminal]
Flows(states, containers) == {[first |-> "a", states |-> states, container |-> c] : c \in containers}
MCWorkflows ==
    UNION {Flows([a |-> State("b", {}, FALSE), b |-> State("none", {"a"}, FALSE)], BOOLEAN),
           Flows([a |-> State("b", {}, FALSE), b |-> State("none", {}, TRUE)], {TRUE}),
           Flows([a |-> State("b", {}, FALSE), b |-> State("a", {"a"}, FALSE)], {FALSE}),
           Flows([a |-> State("b", {}, FALSE), b |-> State("a", {"_spawn"}, FALSE)], {TRUE}),
           Flows([a |-> State("x", {"b"}, FALSE)], {FALSE}),
           Flows([a |-> State("x", {}, FALSE)], {TRUE}),
           Flows(<<>>, {TRUE})}

\* Delegated tasks: two calls that may have the same task id, or the same persona.
Request(door, id, tracked, goal) ==
    [door |-> door, row |-> id, tracked |-> tracked, valid |-> TRUE, goal |-> goal]
MCDelegations ==
    {Request("handler", id, tracked, goal) : id \in {"task1", "task2"}, tracked \in BOOLEAN,
                                              goal \in {"none", "completed"}}
    \cup {Request("handler", "task1", TRUE, goal) : goal \in {"blocked", "timeout"}}
    \cup {Request("skill", "coder_result", FALSE, "none")}
    \cup {[Request("skill", "coder_result", FALSE, "none") EXCEPT !.valid = FALSE]}

\* Decompositions, one with an id used twice.
MCPlans == {<<"plan">>, <<"plan", "execute">>, <<"search", "validate", "search">>}

\* What an answer names as components: nothing, one, two, or one of them twice.
MCLists == {<<>>, <<"x">>, <<"x", "y">>, <<"x", "x">>}

-----------------------------------------------------------------------------
MCSpec == /\ RequestSpec
          /\ WF_all(GoalStep(Step)) /\ WF_all(PipelineStep) /\ WF_all(FanOutStep)
          /\ \A c \in Callers : WF_all(WorkflowStep(c))
          /\ \A t \in Tasks : WF_all(DelegationStep(t))

\* Whatever was asked for ends: goals, pipelines, workflows, delegated tasks and fan-outs.
RequestsEnd ==
    <>(/\ subject = "goal" => stage \in {"done", "raised"}
       /\ subject = "pipeline" => Dag!Over
       /\ subject = "workflow" => \A c \in Callers : Flow!Over(c)
       /\ subject = "delegation" => \A t \in Tasks : Calls!Over(t)
       /\ subject = "orchestrate" => Fan!Over)

\* GoalRun, its documentation and tests: a goal that the model has declared complete is reported so.
GoalsAreCompleted == subject = "goal" => CompletedIsReported
=============================================================================
