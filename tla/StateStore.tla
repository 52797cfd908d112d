----------------------------- MODULE StateStore -----------------------------
(***************************************************************************)
(* Durable session and project state: the state methods of                 *)
(* BlackboardDatabase (core/storage/database.py) over the payloads of      *)
(* core/storage/state.py.  REPL commands, agent tools in worker threads    *)
(* and other processes on the same database call them at the same time.    *)
(*                                                                         *)
(* A method reads in one transaction and writes in another; the ORM writes *)
(* only the columns that differ from the row it loaded.  With the default  *)
(* SQLite engine a transaction begins at the first write, so rows loaded   *)
(* before it may be out of date.  Each read is a step, each commit is one. *)
(***************************************************************************)
EXTENDS Naturals, Sequences, FiniteSets, SequenceFold

CONSTANTS Actors,      \* threads and processes
          Sessions,    \* session ids; their state rows exist from start-up on
          Notes,       \* texts: the five list sections are one list here
          Keys, Values, \* facts
          MaxEvents    \* bound: rows of state_events

ASSUME ActorsFinite == IsFiniteSet(Actors)
ASSUME MaxEventsNat == MaxEvents \in Nat

VARIABLES session,    \* session[s]: the session_state row
          project,    \* the project_state row "default"
          proposals,  \* state_proposals, in order of creation
          events,     \* state_events
          call,       \* call[a]: the method a is in, and what it has read
          stale       \* history: rows committed from an outdated read

vars == <<session, project, proposals, events, call, stale>>

-----------------------------------------------------------------------------
Unset == "unset"
Idle == [op |-> "idle"]

Facts == [Keys -> Values \cup {Unset}]
SessionRow == [notes : Seq(Notes), version : Nat, dirty : BOOLEAN]
ProjectRow == [notes : Seq(Notes), facts : Facts, version : Nat]
Proposal == [session : Sessions, notes : Seq(Notes), status : {"pending", "approved", "rejected"}]

\* What a method has read when it is between two steps.
AppendCall == [op : {"append"}, s : Sessions, n : Notes, notes : Seq(Notes)]
AppendLoaded == [op : {"append loaded"}, s : Sessions, n : Notes, notes : Seq(Notes), row : SessionRow]
ProposeCall == [op : {"propose"}, s : Sessions, notes : Seq(Notes)]
ResolveCall == [op : {"approve", "reject"}, p : Nat, status : {"pending"}]
ApproveLoaded == [op : {"approve loaded"}, p : Nat, status : {"pending"}, row : ProjectRow]
FactCall == [op : {"fact"}, k : Keys, v : Values, read : Seq(Notes) \X Facts]
FactLoaded == [op : {"fact loaded"}, k : Keys, v : Values, read : Seq(Notes) \X Facts, row : ProjectRow]
Calls == {Idle} \cup AppendCall \cup AppendLoaded \cup ProposeCall
         \cup ResolveCall \cup ApproveLoaded \cup FactCall \cup FactLoaded

AppendEvent == [type : {"append"}, s : Sessions, n : Notes]
ProposalEvent == [type : {"proposal_created", "proposal_approved", "proposal_rejected"}, p : Nat]
FactEvent == [type : {"fact_set"}, k : Keys, v : Values]
Event == AppendEvent \cup ProposalEvent \cup FactEvent

\* Rows, proposals, events and calls are ones the code can produce.
TypeOK ==
    /\ session \in [Sessions -> SessionRow]
    /\ project \in ProjectRow
    /\ proposals \in Seq(Proposal)
    /\ events \in Seq(Event)
    /\ call \in [Actors -> Calls]
    /\ stale \subseteq Sessions \cup {"project", "proposals"}

\* The rows exist: composing a session's system prompt has made sure of it.
Init ==
    /\ session = [s \in Sessions |-> [notes |-> <<>>, version |-> 1, dirty |-> FALSE]]
    /\ project = [notes |-> <<>>, facts |-> [k \in Keys |-> Unset], version |-> 1]
    /\ proposals = <<>> /\ events = <<>>
    /\ call = [a \in Actors |-> Idle]
    /\ stale = {}

Busy == {a \in Actors : call[a] # Idle}

\* A method is entered with its first read.
Enter(a, c) ==
    /\ call[a] = Idle /\ Len(events) + Cardinality(Busy) < MaxEvents
    /\ call' = [call EXCEPT ![a] = c]
    /\ UNCHANGED <<session, project, proposals, events, stale>>

Load(a, c) == call' = [call EXCEPT ![a] = c] /\ UNCHANGED <<session, project, proposals, events, stale>>

\* Row r counts as outdated if it is not what the method has read.
Outdated(r, changed) == IF changed THEN {r} ELSE {}

\* A method commits its rows and one event, and returns.
Commit(a, event, outdated) ==
    /\ events' = Append(events, event)
    /\ stale' = stale \cup outdated
    /\ call' = [call EXCEPT ![a] = Idle]

\* The database is locked, or the process dies: the transaction is not written.
Abandon(a) ==
    /\ call[a] # Idle
    /\ call' = [call EXCEPT ![a] = Idle]
    /\ UNCHANGED <<session, project, proposals, events, stale>>

\* A column is written only if its value differs from the loaded one.
Column(loaded, new, current) == IF new = loaded THEN current ELSE new

-----------------------------------------------------------------------------
(* append_session_state *)

AppendRead(a, s, n) == Enter(a, [op |-> "append", s |-> s, n |-> n, notes |-> session[s].notes])

AppendLoad(a) ==
    /\ call[a].op = "append"
    /\ Load(a, [op |-> "append loaded", s |-> call[a].s, n |-> call[a].n,
                notes |-> call[a].notes, row |-> session[call[a].s]])

\* Mutant: the text is put in front.
AppendCommitInFront(a) ==
    LET c == call[a]
    IN  /\ c.op = "append loaded"
        /\ session' = [session EXCEPT ![c.s] = [notes |-> <<c.n>> \o c.notes, version |-> c.row.version + 1,
                                                dirty |-> TRUE]]
        /\ Commit(a, [type |-> "append", s |-> c.s, n |-> c.n],
                  Outdated(c.s, session[c.s] # c.row \/ c.row.notes # c.notes))
        /\ UNCHANGED <<project, proposals>>

AppendCommit(a) ==
    LET c == call[a] new == Append(c.notes, c.n)
    IN  /\ c.op = "append loaded"
        /\ session' = [session EXCEPT ![c.s] = [notes   |-> Column(c.row.notes, new, @.notes),
                                                version |-> c.row.version + 1,
                                                dirty   |-> Column(c.row.dirty, TRUE, @.dirty)]]
        /\ Commit(a, [type |-> "append", s |-> c.s, n |-> c.n],
                  Outdated(c.s, session[c.s] # c.row \/ c.row.notes # c.notes))
        /\ UNCHANGED <<project, proposals>>

-----------------------------------------------------------------------------
(* create_state_proposal: an empty session state raises *)

ProposeRead(a, s) ==
    /\ session[s].notes # <<>>
    /\ Enter(a, [op |-> "propose", s |-> s, notes |-> session[s].notes])

ProposeCommit(a) ==
    LET c == call[a]
    IN  /\ c.op = "propose"
        /\ proposals' = Append(proposals, [session |-> c.s, notes |-> c.notes, status |-> "pending"])
        /\ Commit(a, [type |-> "proposal_created", p |-> Len(proposals) + 1], {})
        /\ UNCHANGED <<session, project>>

-----------------------------------------------------------------------------
(* approve_state_proposal and reject_state_proposal; approve_latest_proposal *)
(* chooses the pending proposal, of any session, and calls the first         *)

\* Mutant: the status is not looked at.
ResolveReadAny(a, op, p) == Enter(a, [op |-> op, p |-> p, status |-> proposals[p].status])

ResolveRead(a, op, p) ==
    /\ proposals[p].status = "pending"
    /\ Enter(a, [op |-> op, p |-> p, status |-> proposals[p].status])

Resolved(c) == Outdated("proposals", proposals[c.p].status # c.status)

ApproveLoad(a) ==
    /\ call[a].op = "approve"
    /\ Load(a, [op |-> "approve loaded", p |-> call[a].p, status |-> call[a].status, row |-> project])

\* The session row is loaded after the flush of the others, inside the write
\* transaction, so that its dirty flag is up to date.
ApproveCommit(a) ==
    LET c == call[a] pr == proposals[c.p]
    IN  /\ c.op = "approve loaded"
        /\ project' = [notes |-> c.row.notes \o pr.notes, facts |-> c.row.facts, version |-> c.row.version + 1]
        /\ proposals' = [proposals EXCEPT ![c.p].status = "approved"]
        /\ session' = [session EXCEPT ![pr.session].dirty = FALSE]
        /\ Commit(a, [type |-> "proposal_approved", p |-> c.p], Outdated("project", project # c.row) \cup Resolved(c))

RejectCommit(a) ==
    LET c == call[a]
    IN  /\ c.op = "reject"
        /\ proposals' = [proposals EXCEPT ![c.p].status = "rejected"]
        /\ Commit(a, [type |-> "proposal_rejected", p |-> c.p], Resolved(c))
        /\ UNCHANGED <<session, project>>

-----------------------------------------------------------------------------
(* set_project_fact *)

Payload(row) == <<row.notes, row.facts>>

FactRead(a, k, v) == Enter(a, [op |-> "fact", k |-> k, v |-> v, read |-> Payload(project)])

FactLoad(a) ==
    /\ call[a].op = "fact"
    /\ Load(a, [op |-> "fact loaded", k |-> call[a].k, v |-> call[a].v, read |-> call[a].read, row |-> project])

FactCommit(a) ==
    LET c == call[a]
        new == <<c.read[1], [c.read[2] EXCEPT ![c.k] = c.v]>>
        written == Column(Payload(c.row), new, Payload(project))
    IN  /\ c.op = "fact loaded"
        /\ project' = [notes |-> written[1], facts |-> written[2], version |-> c.row.version + 1]
        /\ Commit(a, [type |-> "fact_set", k |-> c.k, v |-> c.v],
                  Outdated("project", project # c.row \/ Payload(c.row) # c.read))
        /\ UNCHANGED <<session, proposals>>

-----------------------------------------------------------------------------
Method(a) ==
    \/ \E s \in Sessions : (\E n \in Notes : AppendRead(a, s, n)) \/ ProposeRead(a, s)
    \/ \E p \in DOMAIN proposals : ResolveRead(a, "approve", p) \/ ResolveRead(a, "reject", p)
    \/ \E k \in Keys, v \in Values : FactRead(a, k, v)
    \/ AppendLoad(a) \/ AppendCommit(a)
    \/ ProposeCommit(a)
    \/ ApproveLoad(a) \/ ApproveCommit(a) \/ RejectCommit(a)
    \/ FactLoad(a) \/ FactCommit(a)
    \/ Abandon(a)

Next == \E a \in Actors : Method(a)

Spec == Init /\ [][Next]_vars

-----------------------------------------------------------------------------
(* Safety *)

\* What an event says of the row of session s, its dirty flag apart.
Replayed == [notes : Seq(Notes), version : Nat]
SessionEffect(s) ==
    [e \in Event |-> [row \in Replayed |->
        IF e.type = "append" /\ e.s = s
        THEN [notes |-> Append(row.notes, e.n), version |-> row.version + 1]
        ELSE row]]

\* What it says of the project row: an approval adds the proposed notes.
ProjectEffect ==
    [e \in Event |-> [row \in ProjectRow |->
        CASE e.type = "proposal_approved" ->
                [notes |-> row.notes \o proposals[e.p].notes, facts |-> row.facts, version |-> row.version + 1]
          [] e.type = "fact_set" ->
                [notes |-> row.notes, facts |-> [row.facts EXCEPT ![e.k] = e.v], version |-> row.version + 1]
          [] OTHER -> row]]

\* A session row is what its events say, unless a commit to that very row used
\* an outdated read: the two-transaction methods lose and double nothing else,
\* whatever happens to the other rows in between.
SessionIsReplay ==
    \A s \in Sessions \ stale :
        [notes |-> session[s].notes, version |-> session[s].version]
            = Fold(SessionEffect(s), [notes |-> <<>>, version |-> 1], events)

\* The project row is the approved payloads in the order of approval and the
\* last value of each fact, and its version counts them.
ProjectIsReplay ==
    "project" \notin stale =>
        project = Fold(ProjectEffect, [notes |-> <<>>, facts |-> [k \in Keys |-> Unset], version |-> 1], events)

\* The rows can be rebuilt from the events, and the proposals they name.
RowsAreReplays == TypeOK /\ SessionIsReplay /\ ProjectIsReplay

Outcome == [approved |-> "proposal_approved", rejected |-> "proposal_rejected"]
Resolves(e, p) == e.type \in {"proposal_approved", "proposal_rejected"} /\ e.p = p

Resolutions(p) == {i \in DOMAIN events : Resolves(events[i], p)}
Settled(p) ==
    IF proposals[p].status = "pending" THEN Resolutions(p) = {}
    ELSE \E i \in DOMAIN events : /\ Resolutions(p) = {i}
                                  /\ events[i].type = Outcome[proposals[p].status]

\* A proposal is resolved by one event, and its status says how.
ResolvedOnce == "proposals" \notin stale => \A p \in DOMAIN proposals : Settled(p)

Undecided(s) ==
    \E i \in DOMAIN events :
        /\ events[i].type = "append" /\ events[i].s = s
        /\ \A j \in DOMAIN events :
              j > i /\ events[j].type = "proposal_approved" => proposals[events[j].p].session # s

\* A session is dirty exactly if something was appended after the last
\* approval of one of its proposals.
DirtySinceApproval == \A s \in Sessions \ stale : session[s].dirty <=> Undecided(s)

\* A proposal and its event, and a session's dirty flag and its approvals, tell the same.
ApprovalsAreExact == ResolvedOnce /\ DirtySinceApproval
=============================================================================
