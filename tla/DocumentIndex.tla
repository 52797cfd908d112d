---------------------------- MODULE DocumentIndex ----------------------------
(***************************************************************************)
(* The index of the project's documents: DocumentIndexer keeps one row per *)
(* file in document_sources and the file's chunks in Vespa. It runs at the *)
(* start of the program for the files that changed (app_factory.py) and    *)
(* for the index_documents skill, in several processes at once, each with  *)
(* a pool of threads, while files are edited and Vespa fails.              *)
(*                                                                         *)
(* A text is named by what it says; all that counts of it is its length,   *)
(* which says how many chunks it has. A file's hash is its text.           *)
(***************************************************************************)
EXTENDS Naturals, Sequences, FiniteSets

CONSTANTS Files, Texts,
          LengthOf,     \* LengthOf[t]: the characters of text t, 0 when it is blank
          Projects,     \* what differs between projects: see project
          Runs,         \* the runs of the indexer that may be under way together
          ChunkSize, Overlap

VARIABLES project,    \* files, their texts, source: Files -> the source id, pdf: the files that are PDFs,
                      \* runs: those of the project, workers: max_feed_workers,
                      \* troubles, a bound: edits of a file, failures of Vespa, the embedder, the database, crashes
          disk,       \* disk[f]: the text of file f, or "absent"
          rows,       \* rows[s]: the document_sources row of source s, or NoRow
          listed,     \* listed[s]: the document_chunks rows of s, as chunk indexes
          vespa,      \* vespa[s]: the chunks that can be found: chunk index -> text
          run,        \* run[r]: [at, todo, changed, force]
          job,        \* job[r][f]: a worker thread's file
          disturbed,  \* disturbed[s]: two workers met on s, or one read two versions of the file
          troubles

vars == <<project, disk, rows, listed, vespa, run, job, disturbed, troubles>>

\* What a prover or a reader may rely on: an overlap as long as a chunk never ends.
ChunkAssumption == ChunkSize \in Nat /\ Overlap \in Nat /\ Overlap < ChunkSize

\* chunk_text: the bounds of the chunks of a text of n characters.
ChunkText(n) ==
    LET from[start \in Nat] ==
            IF start + ChunkSize >= n THEN <<<<start, n>>>>
            ELSE <<<<start, start + ChunkSize>>>> \o from[start + ChunkSize - Overlap]
    IN  IF n = 0 THEN <<>> ELSE from[0]

Size(t) == Len(ChunkText(LengthOf[t]))
ChunksOf(t) == [i \in 0..(Size(t) - 1) |-> t]     \* make_document_chunks, by chunk_id

Source(f) == project.source[f]
Sources == {Source(f) : f \in Files}
NoRow == [status |-> "none", hash |-> "none", count |-> 0]
Row(status, hash, count) == [status |-> status, hash |-> hash, count |-> count]
IdleRun == [at |-> "idle", todo |-> {}, changed |-> {}, force |-> FALSE]
IdleJob == [at |-> "over", hash |-> "none", seen |-> NoRow, text |-> "none", i |-> 0, bad |-> FALSE,
            met |-> FALSE]   \* met: another worker was at the source at the same time

\* What may be found at the path f.
MayBe(f, t) == t = "absent" \/ (f \in project.files /\ t \in project.texts)

Init ==
    /\ project \in Projects
    /\ disk \in [Files -> {"absent"} \cup Texts] /\ \A f \in Files : MayBe(f, disk[f])
    /\ rows = [s \in Sources |-> NoRow] /\ listed = [s \in Sources |-> {}]
    /\ vespa = [s \in Sources |-> <<>>]
    /\ run = [r \in Runs |-> IdleRun] /\ job = [r \in Runs |-> [f \in Files |-> IdleJob]]
    /\ disturbed = [s \in Sources |-> FALSE]
    /\ troubles = 0

stored == <<rows, listed, vespa, disturbed>>
Trouble == troubles < project.troubles /\ troubles' = troubles + 1
Upsert(s, row) == rows' = [rows EXCEPT ![s] = row]

-----------------------------------------------------------------------------
(* The user *)

Edit(f) ==
    /\ Trouble
    /\ \E t \in {"absent"} \cup Texts : MayBe(f, t) /\ t # disk[f] /\ disk' = [disk EXCEPT ![f] = t]
    /\ UNCHANGED <<project, stored, run, job>>

-----------------------------------------------------------------------------
(* A run *)

Present == {f \in Files : disk[f] # "absent"}

\* bootstrap_document_index, when one of the paths exists.
Start(r) ==
    /\ r \in project.runs /\ run[r].at = "idle" /\ Present # {}
    /\ run' = [run EXCEPT ![r] = [at |-> "scan", todo |-> Present, changed |-> {}, force |-> FALSE]]
    /\ UNCHANGED <<project, disk, stored, job, troubles>>

\* Mutant: a row whose hash is that of the file counts as unchanged, whatever its status.
ScanByHash(r, f) ==
    /\ run[r].at = "scan" /\ f \in run[r].todo
    /\ LET changed == rows[Source(f)].hash # disk[f]
       IN  run' = [run EXCEPT ![r].todo = @ \ {f}, ![r].changed = IF changed THEN @ \cup {f} ELSE @]
    /\ UNCHANGED <<project, disk, stored, job, troubles>>

\* changed_indexable_uris, one file: a file that cannot be read is taken for changed.
Scan(r, f) ==
    /\ run[r].at = "scan" /\ f \in run[r].todo
    /\ LET row == rows[Source(f)]
           changed == row.hash # disk[f] \/ row.status \notin {"indexed", "skipped"}
       IN  run' = [run EXCEPT ![r].todo = @ \ {f}, ![r].changed = IF changed THEN @ \cup {f} ELSE @]
    /\ UNCHANGED <<project, disk, stored, job, troubles>>

\* The health check of the start: nothing is done when nothing changed, or Vespa does not answer.
Bootstrap(r) ==
    /\ run[r].at = "scan" /\ run[r].todo = {}
    /\ \/ /\ run[r].changed # {}
          /\ run' = [run EXCEPT ![r].at = "health", ![r].todo = run[r].changed]
          /\ UNCHANGED troubles
       \/ /\ run' = [run EXCEPT ![r] = IdleRun]
          /\ IF run[r].changed = {} THEN UNCHANGED troubles ELSE Trouble
    /\ UNCHANGED <<project, disk, stored, job>>

\* The index_documents skill: any paths, and unchanged files too when it is forced.
Tool(r) ==
    /\ r \in project.runs /\ run[r].at = "idle"
    /\ \E paths \in (SUBSET project.files) \ {{}}, force \in BOOLEAN :
          run' = [run EXCEPT ![r] = [at |-> "health", todo |-> paths, changed |-> {}, force |-> force]]
    /\ UNCHANGED <<project, disk, stored, job, troubles>>

\* index_paths: its own health check, then the pool gets every path that is a file.
Healthy(r) ==
    /\ run[r].at = "health"
    /\ \/ /\ run' = [run EXCEPT ![r].at = "pool"] /\ UNCHANGED troubles
          /\ job' = [job EXCEPT ![r] = [f \in Files |->
                        IF f \in run[r].todo \cap Present THEN [IdleJob EXCEPT !.at = "queued"] ELSE IdleJob]]
       \/ /\ run' = [run EXCEPT ![r].at = "mark"] /\ Trouble /\ UNCHANGED job
    /\ UNCHANGED <<project, disk, stored>>

\* Vespa is down: every path becomes a failed row without a hash. (A path that is a directory gets
\* a row of its own, which no file has.)
Mark(r, f) ==
    /\ run[r].at = "mark" /\ f \in run[r].todo
    /\ Upsert(Source(f), Row("failed", "none", 0))
    /\ run' = [run EXCEPT ![r] = IF run[r].todo = {f} THEN IdleRun ELSE [@ EXCEPT !.todo = @ \ {f}]]
    /\ UNCHANGED <<project, disk, listed, vespa, job, disturbed, troubles>>

\* The pool is empty: the results of the files are added up.
Finish(r) ==
    /\ run[r].at = "pool" /\ \A f \in Files : job[r][f].at = "over"
    /\ run' = [run EXCEPT ![r] = IdleRun]
    /\ UNCHANGED <<project, disk, stored, job, troubles>>

\* The process is killed.
Crash(r) ==
    /\ run[r].at # "idle" /\ Trouble
    /\ run' = [run EXCEPT ![r] = IdleRun] /\ job' = [job EXCEPT ![r] = [f \in Files |-> IdleJob]]
    /\ UNCHANGED <<project, disk, stored>>

-----------------------------------------------------------------------------
(* _index_one_isolated, in a thread of the pool *)

Working(r, f) == job[r][f].at \notin {"queued", "over"}
Others(r, f) == {w \in Runs \X Files : w # <<r, f>> /\ Source(w[2]) = Source(f) /\ Working(w[1], w[2])}
Go(r, f, j) == job' = [job EXCEPT ![r][f] = j]
Over(r, f) == Go(r, f, IdleJob)
quiet == <<project, disk, run>>

Begin(r, f) ==
    /\ job[r][f].at = "queued" /\ Cardinality({g \in Files : Working(r, g)}) < project.workers
    /\ LET met == Others(r, f) # {} IN
       /\ job' = [q \in Runs |-> [g \in Files |->
                     CASE q = r /\ g = f             -> [IdleJob EXCEPT !.at = "hash", !.met = met]
                       [] <<q, g>> \in Others(r, f) -> [job[q][g] EXCEPT !.met = TRUE]
                       [] OTHER                     -> job[q][g]]]
       /\ disturbed' = [disturbed EXCEPT ![Source(f)] = @ \/ met]
    /\ UNCHANGED <<quiet, rows, listed, vespa, troubles>>

\* A file that is gone, or is too large, fails without a trace in its row.
Hash(r, f) ==
    /\ job[r][f].at = "hash"
    /\ IF disk[f] = "absent" THEN Over(r, f) ELSE Go(r, f, [job[r][f] EXCEPT !.at = "lookup", !.hash = disk[f]])
    /\ UNCHANGED <<quiet, stored, troubles>>

Lookup(r, f) ==
    /\ job[r][f].at = "lookup"
    /\ LET row == rows[Source(f)]
           same == row.hash = job[r][f].hash /\ row.status \in {"indexed", "skipped"} /\ ~run[r].force
       IN  Go(r, f, [job[r][f] EXCEPT !.at = IF same THEN "skip" ELSE "read", !.seen = row])
    /\ UNCHANGED <<quiet, stored, troubles>>

Skip(r, f) ==
    /\ job[r][f].at = "skip"
    /\ Upsert(Source(f), Row("indexed", job[r][f].hash, job[r][f].seen.count))
    /\ Over(r, f)
    /\ UNCHANGED <<quiet, listed, vespa, disturbed, troubles>>

\* The file is read again for its text; a PDF without a text fails.
Read(r, f) ==
    /\ job[r][f].at = "read"
    /\ IF disk[f] = "absent" \/ (f \in project.pdf /\ Size(disk[f]) = 0) THEN Over(r, f)
       ELSE Go(r, f, [job[r][f] EXCEPT !.at = "pending", !.text = disk[f]])
    /\ UNCHANGED <<quiet, stored, troubles>>

\* Mutant: only the chunks of a row that says so are deleted, not those of one that was interrupted.
PendingKeeps(r, f) ==
    /\ job[r][f].at = "pending"
    /\ Upsert(Source(f), Row("pending", job[r][f].hash, Size(job[r][f].text)))
    /\ Go(r, f, [job[r][f] EXCEPT !.at = IF job[r][f].seen.status \notin {"indexed", "skipped"} THEN "embed" ELSE "delete"])
    /\ disturbed' = [disturbed EXCEPT ![Source(f)] =
                        (@ /\ job[r][f].met) \/ job[r][f].text # job[r][f].hash]
    /\ UNCHANGED <<quiet, listed, vespa, troubles>>

\* The chunks of a source that has a row are deleted first.
Pending(r, f) ==
    /\ job[r][f].at = "pending"
    /\ Upsert(Source(f), Row("pending", job[r][f].hash, Size(job[r][f].text)))
    /\ Go(r, f, [job[r][f] EXCEPT !.at = IF job[r][f].seen = NoRow THEN "embed" ELSE "delete"])
    /\ disturbed' = [disturbed EXCEPT ![Source(f)] =
                        (@ /\ job[r][f].met) \/ job[r][f].text # job[r][f].hash]
    /\ UNCHANGED <<quiet, listed, vespa, troubles>>

\* delete_source: query and delete until the query finds nothing; a delete's answer is not read.
Delete(r, f) ==
    /\ job[r][f].at = "delete"
    /\ LET s == Source(f) IN
       IF vespa[s] = <<>> THEN Go(r, f, [job[r][f] EXCEPT !.at = "embed"]) /\ UNCHANGED <<vespa, troubles>>
       ELSE \E i \in DOMAIN vespa[s] :
               /\ \/ /\ vespa' = [vespa EXCEPT ![s] = [k \in DOMAIN vespa[s] \ {i} |-> vespa[s][k]]]
                     /\ UNCHANGED troubles
                  \/ Trouble /\ UNCHANGED vespa
               /\ UNCHANGED job
    /\ UNCHANGED <<quiet, rows, listed, disturbed>>

Embed(r, f) ==
    /\ job[r][f].at = "embed" /\ Go(r, f, [job[r][f] EXCEPT !.at = "feed"])
    /\ UNCHANGED <<quiet, stored, troubles>>

\* feed_chunks: one chunk, which Vespa takes or refuses.
Feed(r, f) ==
    LET j == job[r][f]  s == Source(f) IN
    /\ j.at = "feed" /\ j.i < Size(j.text)
    /\ \/ /\ vespa' = [vespa EXCEPT ![s] = [k \in DOMAIN vespa[s] \cup {j.i} |->
                          IF k = j.i THEN j.text ELSE vespa[s][k]]]
          /\ Go(r, f, [j EXCEPT !.i = @ + 1]) /\ UNCHANGED troubles
       \/ Go(r, f, [j EXCEPT !.i = @ + 1, !.bad = TRUE]) /\ Trouble /\ UNCHANGED vespa
    /\ UNCHANGED <<quiet, rows, listed, disturbed>>

\* A chunk that was refused makes the row a failed one; else every chunk gets its row.
Fed(r, f) ==
    LET j == job[r][f] IN
    /\ j.at = "feed" /\ j.i = Size(j.text)
    /\ IF j.bad THEN Upsert(Source(f), Row("failed", j.hash, Size(j.text))) /\ Over(r, f)
       ELSE Go(r, f, [j EXCEPT !.at = "list", !.i = 0]) /\ UNCHANGED rows
    /\ UNCHANGED <<quiet, listed, vespa, disturbed, troubles>>

List(r, f) ==
    LET j == job[r][f] IN
    /\ j.at = "list" /\ j.i < Size(j.text)
    /\ listed' = [listed EXCEPT ![Source(f)] = @ \cup {j.i}]
    /\ Go(r, f, [j EXCEPT !.i = @ + 1])
    /\ UNCHANGED <<quiet, rows, vespa, disturbed, troubles>>

Indexed(r, f) ==
    LET j == job[r][f] IN
    /\ j.at = "list" /\ j.i = Size(j.text)
    /\ Upsert(Source(f), Row("indexed", j.hash, Size(j.text))) /\ Over(r, f)
    /\ UNCHANGED <<quiet, listed, vespa, disturbed, troubles>>

\* Any call of Vespa, of the embedder or of the database may raise: the file is counted as failed,
\* its row stays as it is.
Raise(r, f) ==
    /\ Working(r, f) /\ Trouble /\ Over(r, f)
    /\ UNCHANGED <<quiet, stored>>

Work(r, f) == Begin(r, f) \/ Hash(r, f) \/ Lookup(r, f) \/ Skip(r, f) \/ Read(r, f) \/ Pending(r, f)
              \/ Delete(r, f) \/ Embed(r, f) \/ Feed(r, f) \/ Fed(r, f) \/ List(r, f) \/ Indexed(r, f)
              \/ Raise(r, f)
Proceed(r) == Bootstrap(r) \/ Healthy(r) \/ Finish(r) \/ \E f \in Files : Scan(r, f) \/ Mark(r, f) \/ Work(r, f)

Next ==
    \/ \E f \in Files : Edit(f)
    \/ \E r \in Runs : Start(r) \/ Tool(r) \/ Crash(r) \/ Proceed(r)

Spec == Init /\ [][Next]_vars
\* Threads and processes are scheduled.
FairSpec == Spec /\ \A r \in Runs : WF_vars(Proceed(r)) /\ \A f \in Files : WF_vars(Work(r, f))

-----------------------------------------------------------------------------
(* Properties *)

\* A row that says "indexed" is what a later start goes by when it leaves a file out: unless workers
\* met on the source, or the file was edited between its two reads, Vespa then holds the chunks of
\* exactly the text of the row's hash, and document_chunks names them all, whatever failed or was
\* killed before.
IndexedIsSearchable ==
    \A s \in Sources : rows[s].status = "indexed" /\ ~disturbed[s] =>
        /\ vespa[s] = ChunksOf(rows[s].hash)
        /\ DOMAIN vespa[s] \subseteq listed[s]

\* The program is started again and again, and Vespa's failures end: a file that shares its source
\* with no other, and has a text, is found in Vespa as it is on disk, again and again, unless its
\* source was disturbed.
Owns(f) == \A g \in Present : Source(g) = Source(f) => g = f
Found(f) ==
    (f \in Present /\ Owns(f) /\ (f \in project.pdf => Size(disk[f]) > 0)) =>
        \/ disturbed[Source(f)]
        \/ rows[Source(f)].status = "indexed" /\ vespa[Source(f)] = ChunksOf(disk[f])
Starts == \E r \in Runs : Start(r)
EditsAreFound == ([]<><<Starts>>_vars) => \A f \in Files : []<>Found(f)
=============================================================================
