----------------------------- MODULE PipelineBus -----------------------------
(***************************************************************************)
(* The event-driven v2 pipeline: WorkflowOrchestrator.run_pipeline_via_bus *)
(* subscribes a new PipelineStepRunner to the bus and publishes            *)
(* WorkflowStarted; the runner's handlers run probe, execution and gate by *)
(* publishing from inside each other.                                      *)
(*                                                                         *)
(* Everything runs in the caller's thread: publish() writes the row, then  *)
(* calls the handlers one after the other, and swallows what they raise.   *)
(* The publications in progress form a stack.  Runners are never           *)
(* unsubscribed, and no handler looks at the workflow of its event.        *)
(***************************************************************************)
EXTENDS Naturals, Sequences, FiniteSets, SequencesExt, SequenceFold

CONSTANTS Workflows,   \* workflow identifiers, one per call
          Plans,       \* what a call asks for: see PlansAreRecords
          MaxFaults    \* bound: writes, reads and probes that raise

ASSUME PlansAreRecords ==
    Plans \subseteq [probe : BOOLEAN, tasks : BOOLEAN, workspace : BOOLEAN, persona : STRING]
ASSUME WorkflowsFinite == IsFiniteSet(Workflows)
ASSUME MaxFaultsNat == MaxFaults \in Nat

VARIABLES log,       \* rows of state_events
          snapshot,  \* who wrote the materialized context map last
          runners,   \* the subscribed runners, oldest first
          stack,     \* publications in progress, outermost first
          plan,      \* plan[w]: the arguments of w's call, once it is made
          outcome,   \* outcome[w]: how the call ended
          ran,       \* history: steps run, with workflow and persona
          faults     \* exceptions so far

vars == <<log, snapshot, runners, stack, plan, outcome, ran, faults>>

-----------------------------------------------------------------------------
(* Events and runners *)

Types == {"WorkflowStarted", "ProbeCompleted", "ExecutionCompleted", "GateCompleted",
          "ProbeFailed", "ContextWarmed", "SpecCommitted", "GatePassed", "GateFailed"}

\* The types a runner subscribes to.
Handled == {"WorkflowStarted", "ProbeCompleted", "ExecutionCompleted"}

\* "ok" is success, all_passed or passed.
Event(type, w, ok) == [type |-> type, w |-> w, ok |-> ok]
Events == [type : Types, w : Workflows, ok : BOOLEAN]

Steps == {"probe", "execution", "gate", "refresh"}
NewRunner == [fired |-> {}, persona |-> "coder"]
NoPlan == [probe |-> FALSE, tasks |-> FALSE, workspace |-> FALSE, persona |-> "coder"]

Personas == {p.persona : p \in Plans} \cup {"coder"}
StepRuns == [step : Steps, w : Workflows, persona : Personas]

\* Rows, runners, publications and calls are ones the code can produce.
TypeOK ==
    /\ log \in Seq(Events)
    /\ snapshot \in {"none", "probe", "gate"}
    /\ runners \in Seq([fired : SUBSET Handled, persona : Personas])
    /\ stack \in Seq([event : Events, todo : Seq(DOMAIN runners)])
    /\ outcome \in [Workflows -> {"idle", "running", "returned", "raised"}]
    /\ plan \in [Workflows -> Plans \cup {NoPlan}]
    /\ ran \in Seq(StepRuns)
    /\ faults \in 0..MaxFaults

Init ==
    /\ log = <<>> /\ snapshot = "none" /\ runners = <<>> /\ stack = <<>>
    /\ plan = [w \in Workflows |-> NoPlan] /\ ran = <<>> /\ faults = 0
    /\ outcome = [w \in Workflows |-> "idle"]

-----------------------------------------------------------------------------
(* What a handler does, as a sequence of effects.  An effect that may raise  *)
(* out of the handler ends it there; the last effect is the event that the   *)
(* handler publishes.                                                        *)

Effects == [rows : Seq(Events), runs : Seq(StepRuns), saved : {"none", "probe", "gate"}, raises : BOOLEAN]

Effect(rows, runs, saved, raises) == [rows |-> rows, runs |-> runs, saved |-> saved, raises |-> raises]

Row(e)                 == Effect(<<e>>, <<>>, "none", TRUE)
Kept(e)                == Effect(<<e>>, <<>>, "none", FALSE)
Snapshot(s)            == Effect(<<>>, <<>>, s, TRUE)
KeptSnapshot(s)        == Effect(<<>>, <<>>, s, FALSE)
Read                   == Effect(<<>>, <<>>, "none", TRUE)
StepRun(step, w, p)    == [step |-> step, w |-> w, persona |-> p]
Run(step, w, p)        == Effect(<<>>, <<StepRun(step, w, p)>>, "none", FALSE)
RunOrRaise(step, w, p) == Effect(<<>>, <<StepRun(step, w, p)>>, "none", TRUE)

\* handle_workflow_started: run_exploration_probe() may fail to start the
\* interpreter; a failing probe warms the context map up.
ProbeEffects(w, p) ==
    IF ~plan[w].probe
    THEN {<<Row(Event("ProbeCompleted", w, TRUE))>>}
    ELSE {<<RunOrRaise("probe", w, p), Row(Event("ProbeCompleted", w, TRUE))>>,
          <<RunOrRaise("probe", w, p), Row(Event("ProbeFailed", w, FALSE)), Snapshot("probe"),
            Row(Event("ContextWarmed", w, TRUE)), Row(Event("ProbeCompleted", w, FALSE))>>}

\* handle_probe_completed: run_spec_execution() passes background= to
\* spawn_sub_agent(), which has no such parameter; the TypeError is caught
\* and every task counts as failed.
ExecutionEffects(w, p) ==
    IF ~plan[w].tasks
    THEN {<<Row(Event("ExecutionCompleted", w, TRUE))>>}
    ELSE {<<Run("execution", w, p), Row(Event("SpecCommitted", w, FALSE)),
            Row(Event("ExecutionCompleted", w, FALSE))>>}

\* handle_execution_completed: run_review_gate() turns every exception of
\* execute_deterministic_gate() into "not passed" (a timeout is recorded as
\* GateFailed first); its read of the snapshot is outside the try block.
GateEffects(w, p) ==
    LET gate(passed) == Row(Event("GateCompleted", w, passed))
        run == Run("gate", w, p)
        passedRow == Kept(Event("GatePassed", w, TRUE))
        failedRow == Kept(Event("GateFailed", w, FALSE))
    IN  IF ~plan[w].workspace
        THEN {<<gate(TRUE)>>}
        ELSE {<<run, passedRow, KeptSnapshot("gate"), Read, Run("refresh", w, p), gate(TRUE)>>,
              <<run, failedRow, Read, gate(FALSE)>>,
              <<run, failedRow, gate(FALSE)>>}

\* Mutant: a gate that could not write its row or its snapshot counts as passed.
GateFaultEffectsPass(w, p) ==
    IF ~plan[w].workspace
    THEN {}
    ELSE {<<Run("gate", w, p)>> \o kept \o <<Row(Event("GateCompleted", w, TRUE))>> :
            kept \in {<<>>, <<Kept(Event("GatePassed", w, TRUE))>>}}

\* The gate's row or its snapshot could not be written.
GateFaultEffects(w, p) ==
    IF ~plan[w].workspace
    THEN {}
    ELSE {<<Run("gate", w, p)>> \o kept \o <<Row(Event("GateCompleted", w, FALSE))>> :
            kept \in {<<>>, <<Kept(Event("GatePassed", w, TRUE))>>}}

EffectsOf(e, p) ==
    CASE e.type = "WorkflowStarted" -> ProbeEffects(e.w, plan[e.w].persona)
      [] e.type = "ProbeCompleted" -> ExecutionEffects(e.w, p)
      [] e.type = "ExecutionCompleted" -> GateEffects(e.w, p)

FaultEffectsOf(e, p) == IF e.type = "ExecutionCompleted" THEN GateFaultEffects(e.w, p) ELSE {}

\* One effect after the other: what they have written, run and saved.
Then == [x \in Effects |-> [done \in Effects |->
            Effect(done.rows \o x.rows, done.runs \o x.runs, IF x.saved = "none" THEN done.saved ELSE x.saved, FALSE)]]

Done(effects) == Fold(Then, Effect(<<>>, <<>>, "none", FALSE), effects)

Apply(effects) ==
    /\ log' = log \o Done(effects).rows
    /\ ran' = ran \o Done(effects).runs
    /\ snapshot' = IF Done(effects).saved = "none" THEN snapshot ELSE Done(effects).saved

\* The event that a handler publishes, whose row is its last effect.
Published(effects) == Last(effects).rows[1]

-----------------------------------------------------------------------------
(* publish() and _dispatch() *)

Current == CHOOSE w \in Workflows : outcome[w] = "running"

\* Every subscribed runner, in the order of subscription; GateCompleted has none.
Audience(e) == IF e.type \in Handled THEN [i \in DOMAIN runners |-> i] ELSE <<>>

Publication(e) == [event |-> e, todo |-> Audience(e)]

\* The call's own publish(): the new runner is subscribed first.
Call(w, pl) ==
    /\ stack = <<>> /\ outcome[w] = "idle"
    /\ runners' = Append(runners, NewRunner)
    /\ plan' = [plan EXCEPT ![w] = pl]
    /\ log' = Append(log, Event("WorkflowStarted", w, TRUE))
    /\ stack' = <<[event |-> Event("WorkflowStarted", w, TRUE), todo |-> [i \in DOMAIN runners' |-> i]]>>
    /\ outcome' = [outcome EXCEPT ![w] = "running"]
    /\ UNCHANGED <<snapshot, ran, faults>>

\* The row of WorkflowStarted cannot be written: the caller sees the exception,
\* the runner stays subscribed.
CallRaises(w, pl) ==
    /\ stack = <<>> /\ outcome[w] = "idle" /\ faults < MaxFaults
    /\ runners' = Append(runners, NewRunner)
    /\ plan' = [plan EXCEPT ![w] = pl]
    /\ outcome' = [outcome EXCEPT ![w] = "raised"]
    /\ faults' = faults + 1
    /\ UNCHANGED <<log, snapshot, stack, ran>>

Top == Last(stack)

\* The innermost publication goes on to its next handler.
Rest == Append(Front(stack), [Top EXCEPT !.todo = Tail(@)])

\* Mutant: the handler is not marked as fired.
MarkForgotten(i, e) ==
    runners' = [runners EXCEPT ![i].persona = IF e.type = "WorkflowStarted" THEN plan[e.w].persona ELSE @]

\* _fired.add(); WorkflowStarted also sets _persona_id.
Mark(i, e) ==
    runners' = [runners EXCEPT ![i].fired = @ \cup {e.type},
                               ![i].persona = IF e.type = "WorkflowStarted" THEN plan[e.w].persona ELSE @]

Handling(i, e) == stack # <<>> /\ Top.todo # <<>> /\ i = Head(Top.todo) /\ e = Top.event

\* A handler that has fired for this type returns at once.
Skip(i, e) ==
    /\ Handling(i, e) /\ e.type \in runners[i].fired
    /\ stack' = Rest
    /\ UNCHANGED <<log, snapshot, runners, plan, outcome, ran, faults>>

\* A handler runs to its own publish(), whose dispatch comes before the rest.
Fire(i, e) ==
    /\ Handling(i, e) /\ e.type \notin runners[i].fired
    /\ Mark(i, e)
    /\ \/ \E effects \in EffectsOf(e, runners[i].persona) :
             Apply(effects) /\ stack' = Append(Rest, Publication(Published(effects))) /\ UNCHANGED faults
       \/ /\ faults < MaxFaults /\ faults' = faults + 1
          /\ \E effects \in FaultEffectsOf(e, runners[i].persona) :
                Apply(effects) /\ stack' = Append(Rest, Publication(Published(effects)))
    /\ UNCHANGED <<plan, outcome>>

\* A handler raises in the middle; _dispatch() logs it and goes on.
FireRaises(i, e) ==
    /\ Handling(i, e) /\ e.type \notin runners[i].fired /\ faults < MaxFaults
    /\ Mark(i, e)
    /\ \E effects \in EffectsOf(e, runners[i].persona) : \E k \in DOMAIN effects :
          effects[k].raises /\ Apply(SubSeq(effects, 1, k - 1))
    /\ stack' = Rest
    /\ faults' = faults + 1
    /\ UNCHANGED <<plan, outcome>>

\* Mutant: only the outermost publication returns.
PopForgotten ==
    /\ Len(stack) = 1 /\ Top.todo = <<>>
    /\ stack' = Front(stack)
    /\ outcome' = IF stack' = <<>> THEN [outcome EXCEPT ![Current] = "returned"] ELSE outcome
    /\ UNCHANGED <<log, snapshot, runners, plan, ran, faults>>

\* A publication has called all its handlers and returns, to the handler that
\* made it, which ends too, or to the caller.
Pop ==
    /\ stack # <<>> /\ Top.todo = <<>>
    /\ stack' = Front(stack)
    /\ outcome' = IF stack' = <<>> THEN [outcome EXCEPT ![Current] = "returned"] ELSE outcome
    /\ UNCHANGED <<log, snapshot, runners, plan, ran, faults>>

-----------------------------------------------------------------------------
Step == Pop \/ (stack # <<>> /\ \E i \in DOMAIN runners : Skip(i, Top.event) \/ Fire(i, Top.event) \/ FireRaises(i, Top.event))

Next == Step \/ \E w \in Workflows, pl \in Plans : Call(w, pl) \/ CallRaises(w, pl)

Spec == Init /\ [][Next]_vars

\* A thread inside a call goes on: probe, tests and model calls carry timeouts.
FairSpec == Spec /\ WF_vars(Step)

-----------------------------------------------------------------------------
(* What execute_workflow() does with the same arguments *)

OneIf(cond, step) == IF cond THEN <<step>> ELSE <<>>

ExpectedSteps(p, passed) ==
    OneIf(p.probe, "probe") \o OneIf(p.tasks, "execution") \o OneIf(p.workspace, "gate")
        \o OneIf(p.workspace /\ passed, "refresh")

StepsRun(w) ==
    Fold([r \in StepRuns |-> [steps \in Seq(Steps) |-> IF r.w = w THEN Append(steps, r.step) ELSE steps]], <<>>, ran)

Times(step, w) == Sum([r \in StepRuns |-> IF r.step = step /\ r.w = w THEN 1 ELSE 0], ran)

Has(type, w, ok) == Contains(log, Event(type, w, ok))
CountRows(type, w) == Sum([e \in Events |-> IF e.type = type /\ e.w = w THEN 1 ELSE 0], log)

-----------------------------------------------------------------------------
(* Safety *)

\* While nothing has raised, a pipeline on the bus is execute_workflow():
\* whatever older runners are still subscribed, each step of the call runs
\* once, in order and with the call's persona, and one GateCompleted ends it.
CleanRunIsExecuteWorkflow ==
    faults = 0 =>
        \A w \in Workflows : outcome[w] = "returned" =>
            /\ StepsRun(w) = ExpectedSteps(plan[w], Has("GateCompleted", w, TRUE))
            /\ \A i \in DOMAIN ran : ran[i].w = w => ran[i].persona = plan[w].persona
            /\ CountRows("GateCompleted", w) = 1

\* The runners that failures left half fired repeat later steps, but only
\* once per failure.
RepeatsBounded ==
    \A w \in Workflows, step \in Steps : Times(step, w) <= 1 + faults

\* The steps that run are those of the call, and after failures at most the repeated ones.
StepsRunAsPlanned == CleanRunIsExecuteWorkflow /\ RepeatsBounded

\* A gate is reported as passed, and the map refreshed, only after the tests
\* of that workflow passed and the row that says so was written, whatever raised.
GateIsHonest ==
    /\ \A i \in DOMAIN log : log[i].type = "GateCompleted" /\ log[i].ok /\ plan[log[i].w].workspace =>
          \E j \in 1..(i - 1) : log[j] = Event("GatePassed", log[i].w, TRUE)
    /\ \A i \in DOMAIN ran : ran[i].step = "refresh" => Has("GatePassed", ran[i].w, TRUE)

\* The snapshot says "gate passed" only if no probe has warmed the context up
\* since the last passing gate; a failed gate never writes it.
SnapshotFollowsLog ==
    snapshot = "gate" =>
        \E i \in DOMAIN log :
            log[i].type = "GatePassed" /\ \A j \in (i + 1)..Len(log) : log[j].type # "ContextWarmed"

\* Whoever reads that a gate has passed, in an event or in the snapshot, may believe it.
PassIsEarned == TypeOK /\ GateIsHonest /\ SnapshotFollowsLog

-----------------------------------------------------------------------------
(* Liveness *)

\* Every call comes back to its caller, with any number of runners left over.
CallsReturn == \A w \in Workflows : (outcome[w] = "running") ~> (outcome[w] \in {"returned", "raised"})
=============================================================================
