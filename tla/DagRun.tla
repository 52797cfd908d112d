------------------------------- MODULE DagRun -------------------------------
(***************************************************************************)
(* A pipeline of the pipelines directory: PipelineRunner.run               *)
(* (core/execution/pipeline_runner.py).  The nodes are sorted into waves;  *)
(* the nodes of a wave run in a thread pool and read the results of other  *)
(* nodes through their templates, while the calling thread collects the    *)
(* results in the order in which they arrive.                              *)
(*                                                                         *)
(* Abstracted: a node's result is its status, its templates are the nodes  *)
(* they name.  A skill that returns the status "failed" completes its node *)
(* like any other: only an exception fails one.                            *)
(***************************************************************************)
EXTENDS Naturals, Sequences, FiniteSets, SequenceFold

CONSTANTS Nodes,    \* node ids that a pipeline may define
          Pipelines \* pipelines: depends_on, templates and nodes of an unknown type

PipelinesOverNodes ==
    /\ IsFiniteSet(Nodes)
    /\ \A p \in Pipelines : /\ DOMAIN p.deps = DOMAIN p.refs
                            /\ DOMAIN p.deps \subseteq Nodes /\ p.unknownType \subseteq DOMAIN p.deps

VARIABLES pipeline,  \* the loaded YAML
          stage,     \* where run() is
          wave,      \* number of the wave being run
          thread,    \* thread[n]: how far _execute_node(n) is
          results,   \* node_results[n].status, or "none"
          failed,    \* failed_ids
          log        \* events published, in order

vars == <<pipeline, stage, wave, thread, results, failed, log>>

-----------------------------------------------------------------------------
Defined == DOMAIN pipeline.deps
Deps(n) == pipeline.deps[n]
Refs(n) == pipeline.refs[n]

Ready(remaining) == {n \in remaining : Deps(n) \cap remaining = {}}

\* build_waves: each turn of its loop takes the nodes that depend on none that remain; a turn without
\* one is a circle.
Left(waves) == Defined \ UNION {waves[i] : i \in DOMAIN waves}
Turn == [i \in Nat |-> [waves \in Seq(SUBSET Nodes) |->
            LET ready == Ready(Left(waves)) IN IF ready = {} THEN waves ELSE Append(waves, ready)]]
Waves == Fold(Turn, <<>>, [i \in 1..Cardinality(Nodes) |-> i])

UnknownDependency == \E n \in Defined : ~(Deps(n) \subseteq Defined)
Circular == Left(Waves) # {}

Blocked(n) == Deps(n) \cap failed # {}
Runnable == {n \in Waves[wave] : ~Blocked(n)}

TypeOK ==
    /\ pipeline \in Pipelines
    /\ stage \in {"load", "waves", "pool", "broken", "done", "raised"}
    /\ wave \in 0..Len(Waves)
    /\ DOMAIN thread = Defined /\ DOMAIN results = Defined
    /\ \A n \in Defined : /\ thread[n] \in {"none", "started", "rendered", "completed", "failed", "exception"}
                          /\ results[n] \in {"none", "completed", "failed", "skipped"}
    /\ failed \subseteq Defined

Init ==
    /\ pipeline \in Pipelines
    /\ stage = "load" /\ wave = 0
    /\ thread = [n \in Defined |-> "none"] /\ results = [n \in Defined |-> "none"]
    /\ failed = {} /\ log = <<>>

Publish(event) == log' = Append(log, event)

\* YAML that cannot be sorted is refused before anything is published.
Refuse ==
    /\ stage = "load" /\ (UnknownDependency \/ Circular)
    /\ stage' = "raised"
    /\ UNCHANGED <<pipeline, wave, thread, results, failed, log>>

Start ==
    /\ stage = "load" /\ ~UnknownDependency /\ ~Circular
    /\ stage' = "waves" /\ Publish([type |-> "PipelineStarted"])
    /\ UNCHANGED <<pipeline, wave, thread, results, failed>>

-----------------------------------------------------------------------------
(* A wave *)

\* Nodes with a failed dependency are skipped, the others are submitted.  A skipped node
\* is not among failed_ids.
NextWave ==
    /\ stage = "waves" /\ wave < Len(Waves)
    /\ wave' = wave + 1
    /\ LET skipped == {n \in Waves[wave + 1] : Blocked(n)}
           ready == Waves[wave + 1] \ skipped
       IN  /\ results' = [n \in Defined |-> IF n \in skipped THEN "skipped" ELSE results[n]]
           /\ thread' = [n \in Defined |-> IF n \in ready THEN "started" ELSE thread[n]]
           /\ stage' = IF ready = {} THEN "waves" ELSE "pool"
    /\ UNCHANGED <<pipeline, failed, log>>

\* A worker begins: a type that is neither skill nor agent raises outside the try.
BeginNode(n) ==
    /\ stage \in {"pool", "broken"} /\ thread[n] = "started"
    /\ IF n \in pipeline.unknownType
       THEN thread' = [thread EXCEPT ![n] = "exception"] /\ UNCHANGED log
       ELSE thread' = [thread EXCEPT ![n] = "rendered"] /\ Publish([type |-> "NodeStarted", node |-> n])
    /\ UNCHANGED <<pipeline, stage, wave, results, failed>>

Available(n) == \A ref \in Refs(n) : ref \in Defined /\ results[ref] # "none"

\* The templates are rendered and the skill or the agent runs; the exception of either
\* fails the node.
RunNode(n) ==
    /\ stage \in {"pool", "broken"} /\ thread[n] = "rendered"
    /\ \E status \in IF Available(n) THEN {"completed", "failed"} ELSE {"failed"} :
          /\ thread' = [thread EXCEPT ![n] = status]
          /\ Publish([type |-> "NodeCompleted", node |-> n, status |-> status])
    /\ UNCHANGED <<pipeline, stage, wave, results, failed>>

\* The caller takes a finished future; the exception of one ends its loop.
Collect(n) ==
    /\ stage = "pool" /\ results[n] = "none" /\ thread[n] \in {"completed", "failed", "exception"}
    /\ IF thread[n] = "exception"
       THEN stage' = "broken" /\ UNCHANGED <<results, failed>>
       ELSE /\ results' = [results EXCEPT ![n] = thread[n]]
            /\ failed' = IF thread[n] = "failed" THEN failed \cup {n} ELSE failed
            /\ UNCHANGED stage
    /\ UNCHANGED <<pipeline, wave, thread, log>>

\* Mutant: the first result is enough.
WaveOverEarly ==
    /\ stage = "pool" /\ \E n \in Runnable : results[n] # "none"
    /\ stage' = "waves"
    /\ UNCHANGED <<pipeline, wave, thread, results, failed, log>>

\* Mutant: the wave waits for its skipped nodes too.
WaveOverForAll ==
    /\ stage = "pool" /\ \A n \in Waves[wave] : thread[n] \in {"completed", "failed"} /\ results[n] # "none"
    /\ stage' = "waves"
    /\ UNCHANGED <<pipeline, wave, thread, results, failed, log>>

\* Every future has been collected.
WaveOver ==
    /\ stage = "pool" /\ \A n \in Runnable : results[n] # "none"
    /\ stage' = "waves"
    /\ UNCHANGED <<pipeline, wave, thread, results, failed, log>>

\* Leaving the pool waits for the threads that still run.
RaiseOut ==
    /\ stage = "broken" /\ \A n \in Runnable : thread[n] \notin {"started", "rendered"}
    /\ stage' = "raised"
    /\ UNCHANGED <<pipeline, wave, thread, results, failed, log>>

Finish ==
    /\ stage = "waves" /\ wave = Len(Waves)
    /\ stage' = "done"
    /\ Publish([type |-> "PipelineCompleted", status |-> IF failed = {} THEN "completed" ELSE "failed"])
    /\ UNCHANGED <<pipeline, wave, thread, results, failed>>

Worker(n) == BeginNode(n) \/ RunNode(n) \/ Collect(n)
Next == Refuse \/ Start \/ NextWave \/ WaveOver \/ RaiseOut \/ Finish \/ \E n \in Nodes \cap Defined : Worker(n)

\* Skills and goals end: the runner waits for them without a limit.
Spec == Init /\ [][Next]_vars /\ WF_vars(Next)

-----------------------------------------------------------------------------
Logged(type) == {i \in DOMAIN log : log[i].type = type}
Over == stage \in {"done", "raised"}

\* Nodes of which each depends on another one of them.
Circles == {C \in SUBSET Defined : C # {} /\ \A n \in C : Deps(n) \cap C # {}}

\* A node is started once, when everything it depends on has a result that is not a failure,
\* and so its templates can name whatever is upstream of it; a pipeline with a circle or an
\* unknown dependency starts nothing, and nothing else is refused.
StartsAfterDependencies ==
    /\ \A i \in Logged("NodeStarted") :
          LET n == log[i].node IN
          /\ \A d \in Deps(n) : results[d] \in {"completed", "skipped"}
          /\ \A j \in Logged("NodeStarted") : log[j].node = n => i = j
    /\ log # <<>> => ~UnknownDependency /\ Circles = {}
    /\ stage = "raised" /\ log = <<>> => UnknownDependency \/ Circles # {}
    /\ \A i \in Logged("NodeCompleted") :
          log[i].status = "completed" => \A ref \in Refs(log[i].node) : ref \in Defined /\ results[ref] # "none"

\* A finished pipeline tells the truth: every node has a result, a node is skipped below a failed
\* one and only below a failed or a skipped one, and each started node has ended in the log before
\* the pipeline has.
ReportIsComplete ==
    stage = "done" =>
        LET ended == {log[i] : i \in Logged("NodeCompleted")} IN
        /\ \A n \in Defined :
              /\ results[n] # "none"
              /\ (\E d \in Deps(n) : results[d] = "failed") => results[n] = "skipped"
              /\ results[n] = "skipped" => \E d \in Deps(n) : results[d] \in {"failed", "skipped"}
              /\ results[n] # "skipped" <=> [type |-> "NodeCompleted", node |-> n, status |-> results[n]] \in ended
        /\ log[Len(log)].status = "failed" <=> \E n \in Defined : results[n] = "failed"

\* A pipeline ends, also when a node breaks the pool.
PipelineEnds == <>Over
=============================================================================
