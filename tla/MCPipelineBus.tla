---------------------------- MODULE MCPipelineBus ----------------------------
(* A small instance of PipelineBus: two workflows with every step, for two   *)
(* personas, and the workflow of the REPL, which has no step at all.         *)
EXTENDS PipelineBus

MCPlans == {[probe |-> TRUE, tasks |-> TRUE, workspace |-> TRUE, persona |-> "architect"],
            [probe |-> FALSE, tasks |-> TRUE, workspace |-> TRUE, persona |-> "reviewer"],
            [probe |-> FALSE, tasks |-> FALSE, workspace |-> FALSE, persona |-> "coder"]}
=============================================================================
