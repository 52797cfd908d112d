------------------------------ MODULE MCStores ------------------------------
(***************************************************************************)
(* Small instances of the stores (Stores), one run for the session and     *)
(* project state and the document index, and one for the context map. The  *)
(* variables of what a behaviour is not about are idle.                    *)
(***************************************************************************)
EXTENDS Stores, TLC

CONSTANTS k1, k2

index == <<tree, disk, rows, listed, vespa, run, job, disturbed, troubles>>
map == <<incoming, processed, corpus, cycle, runner, quiet, been, lost, faults>>
all == <<subject, vars, index, map>>

-----------------------------------------------------------------------------
\* Projects in which all files have one source id, as docs/a.md and docs-a.md have: a run over two
\* files, text or PDF; two processes on one file; and one file that is edited and indexed again and
\* again, with three edits, failures and crashes.
MCLengths == [short |-> 2, long |-> 4, blank |-> 0]
One(files, pdf, texts, runs, workers, bound) ==
    [source |-> [f \in Files |-> "s"], files |-> files, pdf |-> pdf, texts |-> texts, runs |-> runs,
     workers |-> workers, troubles |-> bound]
Pool == {One({"f1", "f2"}, pdf, {"short", "long"}, {"r1"}, 2, 1) : pdf \in {{}, {"f1", "f2"}}}
Two == {One({"f1"}, {}, {"short", "long"}, {"r1", "r2"}, 1, 1)}
Again == {One({"f1"}, pdf, Texts, {"r1"}, 1, 3) : pdf \in {{}, {"f1"}}}
MCProjects == Pool \cup Two \cup Again

\* Two keys in a section that holds one of them, and slack in another; k1 outlives one missed cycle,
\* k2 none.
MCSectionOf == k1 :> "understanding" @@ k2 :> "understanding"
MCSize == k1 :> 2 @@ k2 :> 1
MCShare == "understanding" :> 2 @@ "results" :> 1
MCWeight == k1 :> 2 @@ k2 :> 2
MCBonus == k1 :> 1 @@ k2 :> 0
MCCap == k1 :> 1 @@ k2 :> 1
MCPenalty == k1 :> 1 @@ k2 :> 2
MCFloor == k1 :> 2 @@ k2 :> 1
MCObserve(k) == [key |-> k, obsolete |-> FALSE]
MCBatches == {{}, {MCObserve(k1)}, {MCObserve(k2)}, {[key |-> k1, obsolete |-> TRUE], MCObserve(k2)}}

ASSUME Index!ChunkAssumption /\ Map!ParametersAreValid

-----------------------------------------------------------------------------
NoIndex == /\ tree = 0 /\ disk = 0 /\ rows = 0 /\ listed = 0 /\ vespa = 0
           /\ run = 0 /\ job = 0 /\ disturbed = 0 /\ troubles = 0
NoMap == /\ incoming = 0 /\ processed = 0 /\ corpus = 0 /\ cycle = 0 /\ runner = 0
         /\ quiet = 0 /\ been = 0 /\ lost = 0 /\ faults = 0

MCInit == /\ Init /\ NoMap
          /\ (subject = "state" /\ NoIndex) \/ (subject = "index" /\ Index!Init)

IndexStep(A) == subject = "index" /\ A /\ UNCHANGED <<subject, vars, map>>
MCNext ==
    \/ subject = "state" /\ Next /\ UNCHANGED <<subject, index, map>>
    \/ IndexStep(Index!Next)

\* The program is scheduled; the fairness is that of DocumentIndex.
Alone == subject = "index" /\ tree \in Again
MCSpec == MCInit /\ [][MCNext]_all
          /\ WF_all(Alone /\ IndexStep(Index!Proceed("r1"))) /\ WF_all(Alone /\ IndexStep(Index!Work("r1", "f1")))

\* DocumentIndex: if the program is started again and again, every edit is found.
EditsAreFound == ([]<><<IndexStep(Index!Starts)>>_all) => []<>(Alone => Index!Found("f1"))

-----------------------------------------------------------------------------
MCMapInit == subject = "map" /\ Init /\ NoIndex /\ Map!Init
MapStep(A) == subject = "map" /\ A /\ UNCHANGED <<subject, vars, index>>

\* The fairness is that of Materializer.
MCMapSpec == /\ MCMapInit /\ [][MapStep(Map!Next)]_all
             /\ WF_corpus(Map!Thaw) /\ \A r \in Runners : WF_(runner[r])(Map!Runner(r))

\* Materializer: what is pending is processed in the end.
PendingProcessed == []<>(Map!Pending = {} \/ cycle >= MaxCycles)
=============================================================================
