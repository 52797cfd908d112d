---------------------------- MODULE Materializer ----------------------------
(***************************************************************************)
(* How the context map of one corpus is kept: MaterializerRunner polls for *)
(* pending events and runs the context-map-materializer skill in a thread. *)
(* The skill distils the events, calls the cartographer, announces what it *)
(* inserts and evicts as new pending events of the same corpus, and writes *)
(* the map and marks what it had read as processed in one transaction.     *)
(*                                                                         *)
(* A second runner is a second process on the database, or the thread of a *)
(* runner whose task was cancelled.  Each read and each commit is a step.  *)
(***************************************************************************)
EXTENDS Cartographer

CONSTANTS Runners,
          Batches,       \* what the distiller may return: all of SUBSET
                         \* Observations, or some of it to keep TLC small
          Threshold,     \* materializer_freeze_threshold
          Copt,          \* whether the redundancy gates can run (PostgreSQL)
          MaxObserved,   \* bound: events of agents and tools
          MaxCycles,     \* bound: cycles that are begun
          MaxFaults      \* bound: failed distillations, crashes

\* What the proofs and a reader may rely on.
ParametersAreValid ==
    /\ ConfigIsValid
    /\ Batches \subseteq SUBSET Observations
    /\ Threshold \in Nat \ {0} /\ Copt \in BOOLEAN

VARIABLES events,     \* context_map_events, in order of insertion
          processed,  \* indices of the processed ones
          row,        \* the context_map row
          cycle,      \* cycle_n of the corpus; 0 while there is no row
          run,        \* run[r]: where runner r is, and what it has read
          quiet,      \* quiet[r]: its _no_change_count
          been,       \* history: entries that have been in the map
          lost,       \* history: a write replaced a map it had not read
          faults

vars == <<events, processed, row, cycle, run, quiet, been, lost, faults>>
history == <<been, lost>>

-----------------------------------------------------------------------------
Places == {"idle", "fetch", "map", "load", "bump", "distil", "announce", "write", "commit", "settle"}
Idle == [at |-> "idle"]
NoEntry(kind) == [kind |-> kind]

Pending == DOMAIN events \ processed
Frozen == row.freeze = "set"

\* Rows, events and runners are ones the code can produce.  An insertion may
\* carry a later cycle than the corpus has: a bump can take the number back.
TypeOK ==
    /\ \A i \in DOMAIN events :
          CASE events[i].kind = "inserted" -> events[i].key \in Keys /\ events[i].cycle \in Nat \ {0}
            [] events[i].kind = "evicted"  -> events[i].key \in Keys
            [] OTHER -> events[i].kind = "observed"
    /\ processed \subseteq DOMAIN events
    /\ row.exists \in BOOLEAN /\ row.freeze \in {"none", "set", "expired"} /\ IsMap(row.map)
    /\ ~row.exists => row.map = NoMap /\ row.freeze = "none"
    /\ \A r \in Runners : run[r].at \in Places
    /\ quiet \in [Runners -> Nat]

Init ==
    /\ events = <<>> /\ processed = {} /\ cycle = 0
    /\ row = [exists |-> FALSE, map |-> NoMap, freeze |-> "none"]
    /\ run = [r \in Runners |-> Idle] /\ quiet = [r \in Runners |-> 0]
    /\ been = {} /\ lost = FALSE /\ faults = 0

\* An agent, a tool or a handler appends an event.
Observe ==
    /\ Cardinality({i \in DOMAIN events : events[i].kind = "observed"}) < MaxObserved
    /\ events' = Append(events, NoEntry("observed"))
    /\ UNCHANGED <<processed, row, cycle, run, quiet, history, faults>>

\* The time of a freeze runs out.
Thaw ==
    /\ Frozen
    /\ row' = [row EXCEPT !.freeze = "expired"]
    /\ UNCHANGED <<events, processed, cycle, run, quiet, history, faults>>

-----------------------------------------------------------------------------
(* MaterializerRunner and the skill *)

\* Runner r goes from one place to the next, with c as what it knows now.
Step(r, from, c) == run[r].at = from /\ run' = [run EXCEPT ![r] = c]

Local(r, from, c) == Step(r, from, c) /\ UNCHANGED <<events, processed, row, cycle, quiet, history, faults>>

\* Mutant: a map with any freeze time counts as frozen.
PollNeverThaws(r) ==
    /\ cycle < MaxCycles
    /\ Pending # {} /\ row.freeze = "none"
    /\ Local(r, "idle", [at |-> "fetch"])

\* _poll_once: something is pending and the map is not frozen.
Poll(r) ==
    /\ cycle < MaxCycles
    /\ Pending # {} /\ ~Frozen
    /\ Local(r, "idle", [at |-> "fetch"])

\* The skill reads the pending events again; without any it reports success
\* and no change.
Fetch(r) ==
    Local(r, "fetch", IF Pending = {} THEN [at |-> "settle", changed |-> FALSE]
                                      ELSE [at |-> "map", pending |-> Pending])

ReadMap(r) == Local(r, "map", [at |-> "load", pending |-> run[r].pending, map |-> row.map])

\* A second insertion of a row violates its key.
Collides(r) ==
    \/ run[r].at = "bump" /\ run[r].n = 0 /\ cycle # 0
    \/ run[r].at = "commit" /\ ~run[r].row.exists /\ row.exists

\* get_and_bump_cycle: load, commit, and load again for the return value.
LoadCycle(r) == Local(r, "load", [at |-> "bump", pending |-> run[r].pending, map |-> run[r].map, n |-> cycle])

BumpCycle(r) ==
    /\ ~Collides(r)
    /\ Step(r, "bump", [run[r] EXCEPT !.at = "distil"])
    /\ cycle' = run[r].n + 1
    /\ UNCHANGED <<events, processed, row, quiet, history, faults>>

\* What there is still to announce: the entries first seen in cycle n, then the
\* evictions; then the map is written.
Outcome(c, n, result) ==
    [at |-> "announce", pending |-> c.pending, base |-> c.map, n |-> n, map |-> result.map,
     inserted |-> {k \in DOMAIN result.map : result.map[k].first = n}, evicted |-> result.evicted,
     changed |-> result.map # c.map]

\* run_distiller and the cartographer.  Of the events, as many as the token
\* budget admits are distilled, to any batch; after too many failed attempts,
\* or without events, to none.
Distil(r) ==
    /\ run[r].at = "distil"
    /\ \E batch \in Batches : \E result \in Cartograph(batch, run[r].map, cycle) :
          Local(r, "distil", Outcome(run[r], cycle, result))

\* A redundancy gate: the map is written as it was read.
Gate(r) ==
    /\ Copt /\ run[r].at = "distil" /\ run[r].map # NoMap
    /\ Local(r, "distil", [at |-> "write", pending |-> run[r].pending, base |-> run[r].map,
                           map |-> run[r].map, changed |-> FALSE])

Announce(e) ==
    /\ events' = Append(events, e)
    /\ UNCHANGED <<processed, row, cycle, quiet, history, faults>>

AnnounceInserted(r) ==
    /\ run[r].at = "announce"
    /\ \E k \in run[r].inserted :
          /\ Step(r, "announce", [run[r] EXCEPT !.inserted = @ \ {k}])
          /\ Announce([kind |-> "inserted", key |-> k, cycle |-> run[r].n])

AnnounceEvicted(r) ==
    /\ run[r].at = "announce" /\ run[r].inserted = {}
    /\ \E e \in run[r].evicted :
          /\ Step(r, "announce", [run[r] EXCEPT !.evicted = @ \ {e}])
          /\ Announce([kind |-> "evicted", key |-> e.key])

\* Mutant: the evictions are announced after the map is written, if at all.
LoadRowEarly(r) ==
    /\ run[r].at = "write" \/ (run[r].at = "announce" /\ run[r].inserted = {})
    /\ Local(r, run[r].at, [at |-> "commit", pending |-> run[r].pending, base |-> run[r].base,
                            map |-> run[r].map, changed |-> run[r].changed, row |-> row])

\* write_map_and_mark_processed: the row is loaded when nothing is left to
\* announce, and its columns are written if they differ from the loaded ones.
LoadRow(r) ==
    /\ \/ run[r].at = "write"
       \/ run[r].at = "announce" /\ run[r].inserted = {} /\ run[r].evicted = {}
    /\ Local(r, run[r].at, [at |-> "commit", pending |-> run[r].pending, base |-> run[r].base,
                            map |-> run[r].map, changed |-> run[r].changed, row |-> row])

Column(loaded, new, current) == IF new = loaded THEN current ELSE new

WriteMap(r) ==
    LET c == run[r] IN
    /\ ~Collides(r)
    /\ Step(r, "commit", [at |-> "settle", changed |-> c.changed])
    /\ row' = [exists |-> TRUE, map |-> Column(c.row.map, c.map, row.map),
               freeze |-> Column(c.row.freeze, "none", row.freeze)]
    /\ processed' = processed \cup c.pending
    /\ been' = been \cup {<<k, c.map[k].first>> : k \in DOMAIN c.map}
    /\ lost' = (lost \/ row.map # c.base)
    /\ UNCHANGED <<events, cycle, quiet, faults>>

\* _materialize after a success: a change resets the count, the threshold
\* freezes the map.
Settle(r) ==
    LET count == IF run[r].changed THEN 0 ELSE quiet[r] + 1 IN
    /\ Step(r, "settle", Idle)
    /\ quiet' = [quiet EXCEPT ![r] = count]
    /\ row' = IF count >= Threshold /\ row.exists THEN [row EXCEPT !.freeze = "set"] ELSE row
    /\ UNCHANGED <<events, processed, cycle, history, faults>>

\* The skill fails: the model or a commit raises, or a row was inserted twice.
SkillFails(r) ==
    /\ run[r].at \in {"bump", "distil", "announce", "commit"}
    /\ Step(r, run[r].at, Idle)
    /\ IF Collides(r) THEN UNCHANGED faults ELSE faults < MaxFaults /\ faults' = faults + 1
    /\ UNCHANGED <<events, processed, row, cycle, quiet, history>>

\* The process ends and is started again.
Crash(r) ==
    /\ faults < MaxFaults /\ faults' = faults + 1
    /\ Step(r, run[r].at, Idle)
    /\ quiet' = [quiet EXCEPT ![r] = 0]
    /\ UNCHANGED <<events, processed, row, cycle, history>>

-----------------------------------------------------------------------------
Runner(r) ==
    \/ Poll(r) \/ Fetch(r) \/ ReadMap(r) \/ LoadCycle(r) \/ BumpCycle(r) \/ Distil(r) \/ Gate(r)
    \/ AnnounceInserted(r) \/ AnnounceEvicted(r) \/ LoadRow(r) \/ WriteMap(r) \/ Settle(r)
    \/ (Collides(r) /\ SkillFails(r))

Next == Observe \/ Thaw \/ \E r \in Runners : Runner(r) \/ SkillFails(r) \/ Crash(r)

Spec == Init /\ [][Next]_vars

\* run_forever() polls again after every cycle, whatever it raised; the model
\* call carries a timeout; time passes.
FairSpec == Spec /\ WF_vars(Thaw) /\ \A r \in Runners : WF_vars(Runner(r))

-----------------------------------------------------------------------------
(* Safety *)

\* The map never exceeds its budget, nor a section its share, whichever runner
\* wrote it last.
MapSound ==
    /\ Total(DOMAIN row.map) <= TokenBudget
    /\ \A s \in DOMAIN Share : Total(InSection(DOMAIN row.map, s)) <= Share[s]
MapIsSound == TypeOK /\ MapSound

Announced(kind, k, i) == events[i].kind = kind /\ events[i].key = k

\* What enters the map is announced before, and what leaves it is announced
\* after that, through crashes, failures and repeated cycles, unless a write
\* replaced a map it had not read.
ChangesAnnounced ==
    ~lost =>
        \A e \in been : \E i \in DOMAIN events :
            /\ Announced("inserted", e[1], i) /\ events[i].cycle = e[2]
            /\ \/ e[1] \in DOMAIN row.map
               \/ \E j \in (i + 1)..Len(events) : Announced("evicted", e[1], j)

-----------------------------------------------------------------------------
(* Liveness *)

\* What is pending is processed in the end, through freezes and failures: the
\* queue is emptied again and again, as long as cycles may be begun.
PendingProcessed == []<>(Pending = {} \/ cycle >= MaxCycles)
=============================================================================
