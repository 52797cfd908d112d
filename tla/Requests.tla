------------------------------ MODULE Requests ------------------------------
(***************************************************************************)
(* The ways in which the system does several things for one request, side  *)
(* by side: a goal (GoalRun, which this module extends), a pipeline file   *)
(* (DagRun), workflow files (WorkflowRun), delegated tasks (Delegation),   *)
(* the orchestrate skill (Orchestrate) and the interview of the            *)
(* spec_writer skill (SpecGather).  `subject' says which one a behaviour   *)
(* is about; the variables of the others are idle, and `phase' belongs to  *)
(* the subject, unless it is a goal.                                       *)
(***************************************************************************)
EXTENDS GoalRun

CONSTANTS Nodes, Pipelines,              \* DagRun
          Callers, Workflows, MaxStates, \* WorkflowRun
          Tasks, Delegations,            \* Delegation
          Plans, MaxParallels,           \* Orchestrate
          Writers, Lists, MaxAnswers     \* SpecGather

VARIABLES subject, phase,
          pipeline, wave, thread, results, failed, log,
          workflow, current, turns, outputs, verdict, records,
          request, raw, lifecycle, dropped, memory, announced, answer,
          plan, limit, worker, gathered, tree, outcome,
          row, spec, documents, step, copy, context, begun, given, raced

dag == <<pipeline, wave, thread, results, failed, log>>
flow == <<workflow, current, turns, outputs, verdict, records>>
calls == <<request, raw, lifecycle, dropped, memory, announced, answer>>
fan == <<plan, limit, worker, gathered, tree, outcome>>
interview == <<row, spec, documents, step, copy, context, begun, given, raced>>
all == <<subject, phase, vars, dag, flow, calls, fan, interview>>

Dag == INSTANCE DagRun WITH stage <- phase
Flow == INSTANCE WorkflowRun WITH stage <- phase
Calls == INSTANCE Delegation WITH stage <- phase, Requests <- Delegations
Fan == INSTANCE Orchestrate WITH stage <- phase
Gather == INSTANCE SpecGather

ASSUME PipelinesAssumption == Dag!PipelinesOverNodes
ASSUME WorkflowsAssumption == Flow!LimitAssumption
ASSUME DelegationsAssumption == Calls!RequestsAreRecords
ASSUME PlansAssumption == Fan!PlansAreSequences
ASSUME ListsAssumption == Gather!ListsAreNames

-----------------------------------------------------------------------------
NoGoal == Init /\ recent = <<>>
NoDag == pipeline = 0 /\ wave = 0 /\ thread = 0 /\ results = 0 /\ failed = 0 /\ log = 0
NoFlow == workflow = 0 /\ current = 0 /\ turns = 0 /\ outputs = 0 /\ verdict = 0 /\ records = 0
NoCalls == request = 0 /\ raw = 0 /\ lifecycle = 0 /\ dropped = 0 /\ memory = 0 /\ announced = 0 /\ answer = 0
NoFan == plan = 0 /\ limit = 0 /\ worker = 0 /\ gathered = 0 /\ tree = 0 /\ outcome = 0

NoInterview == /\ row = 0 /\ spec = 0 /\ documents = 0 /\ step = 0 /\ copy = 0 /\ context = 0
               /\ begun = 0 /\ given = 0 /\ raced = 0

RequestInit ==
    \/ subject = "goal" /\ Init /\ phase = 0 /\ NoDag /\ NoFlow /\ NoCalls /\ NoFan /\ NoInterview
    \/ subject = "gather" /\ Gather!Init /\ phase = 0 /\ NoGoal /\ NoDag /\ NoFlow /\ NoCalls /\ NoFan
    \/ /\ NoGoal /\ NoInterview
       /\ \/ subject = "pipeline" /\ Dag!Init /\ NoFlow /\ NoCalls /\ NoFan
          \/ subject = "workflow" /\ Flow!Init /\ NoDag /\ NoCalls /\ NoFan
          \/ subject = "delegation" /\ Calls!Init /\ NoDag /\ NoFlow /\ NoFan
          \/ subject = "orchestrate" /\ Fan!Init /\ NoDag /\ NoFlow /\ NoCalls

GoalStep(A) == subject = "goal" /\ A /\ UNCHANGED <<subject, phase, dag, flow, calls, fan, interview>>
PipelineStep == subject = "pipeline" /\ Dag!Next /\ UNCHANGED <<subject, vars, flow, calls, fan, interview>>
WorkflowStep(c) == subject = "workflow" /\ Flow!Walk(c) /\ UNCHANGED <<subject, vars, dag, calls, fan, interview>>
DelegationStep(t) == subject = "delegation" /\ Calls!Call(t) /\ UNCHANGED <<subject, vars, dag, flow, fan, interview>>
FanOutStep == subject = "orchestrate" /\ Fan!Next /\ UNCHANGED <<subject, vars, dag, flow, calls, interview>>
GatherStep == subject = "gather" /\ Gather!Next /\ UNCHANGED <<subject, phase, vars, dag, flow, calls, fan>>

RequestNext ==
    \/ GoalStep(Next) \/ PipelineStep \/ FanOutStep \/ GatherStep
    \/ \E c \in Callers : WorkflowStep(c)
    \/ \E t \in Tasks : DelegationStep(t)

RequestSpec == RequestInit /\ [][RequestNext]_all

-----------------------------------------------------------------------------
\* GoalRun states its own invariants, GoalStaysInBounds and GoalIsHonest.

\* DagRun: a node starts once, after its dependencies, and only what cannot be sorted is refused; a
\* finished pipeline has an outcome for every node and its status says whether one failed.
\* WorkflowRun: the report is what happened.
FilesAreRun ==
    /\ subject = "pipeline" => Dag!TypeOK /\ Dag!StartsAfterDependencies /\ Dag!ReportIsComplete
    /\ subject = "workflow" => Flow!TypeOK /\ Flow!ReportIsTrue

\* SpecGather: a document leaves out nothing that was asked for, and no answer is lost.
InterviewsAreWhole == subject = "gather" => Gather!ContextIsWhole /\ Gather!AnswersAreRecorded

\* Delegation and Orchestrate: whoever handed work to a sub-agent can tell what became of it.
\* Lifecycles are closed, announcement, memory and answer tell one story, and each subtask of a
\* fan-out is accounted for once.
SubAgentsAreAccountedFor ==
    /\ subject = "delegation" => Calls!TypeOK /\ Calls!LifecyclesClosed /\ Calls!OneStory
    /\ subject = "orchestrate" => Fan!TypeOK /\ Fan!AllAccountedFor
=============================================================================
