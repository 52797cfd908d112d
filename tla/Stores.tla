------------------------------- MODULE Stores -------------------------------
(***************************************************************************)
(* The stores that several actors write, side by side: the session and     *)
(* project state (StateStore, which this module extends), the index of the *)
(* documents (DocumentIndex) and the context map of a corpus               *)
(* (Materializer). Nothing interacts between them that does not in the     *)
(* code: `subject' says which of them a behaviour is about.                *)
(***************************************************************************)
EXTENDS StateStore

CONSTANTS Files, Texts, LengthOf, Projects, Runs, ChunkSize, Overlap,                     \* DocumentIndex
          Slugs, SectionOf, SizeOf, Share, TokenBudget, Weight, Bonus, Cap, Penalty, Floor, \* Materializer
          Runners, Batches, Threshold, Copt, MaxObserved, MaxCycles, MaxFaults

VARIABLES subject,
          tree, disk, rows, listed, vespa, run, job, disturbed, troubles,                 \* DocumentIndex
          incoming, processed, corpus, cycle, runner, quiet, been, lost, faults           \* Materializer

Index == INSTANCE DocumentIndex WITH project <- tree
Map == INSTANCE Materializer WITH Keys <- Slugs, Size <- SizeOf, events <- incoming, row <- corpus, run <- runner

-----------------------------------------------------------------------------
\* DocumentIndex: a row that says "indexed" is what Vespa holds.
IndexedIsSearchable == subject = "index" => Index!IndexedIsSearchable

\* Materializer: the map keeps to its budget and its shares.
MapIsSound == subject = "map" => Map!MapIsSound

\* Materializer: what enters and leaves the map is announced first.
ChangesAnnounced == subject = "map" => Map!ChangesAnnounced
=============================================================================
