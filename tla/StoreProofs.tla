----------------------------- MODULE StoreProofs -----------------------------
(***************************************************************************)
(* What holds of the stores for every value of the constants: that         *)
(* approvals are exact (ApprovalsAreExact), that rows are what their       *)
(* events say (RowsAreReplays), that what the document index lists as      *)
(* indexed can be searched (IndexedIsSearchable), that the context map     *)
(* keeps to its shares (MapIsSound), and that its changes are announced    *)
(* (ChangesAnnounced).                                                     *)
(*                                                                         *)
(* State: next to the types of rows, events and calls the invariant says   *)
(* that every reference to a proposal, in an event or in a call under way, *)
(* is to one that exists: a new proposal then has no event that could      *)
(* resolve it, and the notes an approval event stands for are known from   *)
(* the first commit on. Each commit gets four lemmas at most: its types,   *)
(* that it settles (CommitSettles, Settles) and decides (CommitDecides)    *)
(* what it should, and that it does to its row what the event it appends   *)
(* says.                                                                   *)
(* Index: workers that meet at a source disturb it; until then the one     *)
(* that works on it knows what of its text Vespa holds (Known), and nobody *)
(* else changes that.                                                      *)
(* Map: a set of entries is measured by numbering the tokens of each       *)
(* section within the section's share, which makes of all of them tokens   *)
(* of the budget (SharesMakeTheBudget). Every map that a runner reads was  *)
(* in the corpus (Ages, been), so its entries were announced before; what  *)
(* it made of that map and has not announced yet, it still holds           *)
(* (RunnerInv); and events are only added, so what was announced stays so  *)
(* (ToldStays).                                                            *)
(***************************************************************************)
EXTENDS Stores, SequenceFoldProofs, FiniteSetTheorems, Integers

-----------------------------------------------------------------------------
(* Types *)

LEMMA OpOfCall ==
  /\ Idle.op = "idle"
  /\ \A c \in AppendCall : c.op = "append"
  /\ \A c \in AppendLoaded : c.op = "append loaded"
  /\ \A c \in ProposeCall : c.op = "propose"
  /\ \A c \in ResolveCall : c.op \in {"approve", "reject"}
  /\ \A c \in ApproveLoaded : c.op = "approve loaded"
  /\ \A c \in FactCall : c.op = "fact"
  /\ \A c \in FactLoaded : c.op = "fact loaded"
  BY DEF Idle, AppendCall, AppendLoaded, ProposeCall, ResolveCall, ApproveLoaded, FactCall, FactLoaded

LEMMA CallOfOp ==
  ASSUME NEW c \in Calls
  PROVE  /\ c.op = "append" => c \in AppendCall
         /\ c.op = "append loaded" => c \in AppendLoaded
         /\ c.op = "propose" => c \in ProposeCall
         /\ c.op \in {"approve", "reject"} => c \in ResolveCall
         /\ c.op = "approve loaded" => c \in ApproveLoaded
         /\ c.op = "fact" => c \in FactCall
         /\ c.op = "fact loaded" => c \in FactLoaded
  BY OpOfCall DEF Calls

LEMMA InitTypeOK == Init => TypeOK
  BY DEF Init, TypeOK, SessionRow, ProjectRow, Facts, Calls, Idle

Flags == SUBSET (Sessions \cup {"project", "proposals"})

LEMMA CommitType ==
  ASSUME TypeOK, NEW a \in Actors, NEW e \in Event, NEW o \in Flags, Commit(a, e, o),
         session' \in [Sessions -> SessionRow], project' \in ProjectRow, proposals' \in Seq(Proposal)
  PROVE  TypeOK'
<1>1. Idle \in Calls
  BY DEF Calls
<1>2. events' \in Seq(Event) /\ call' \in [Actors -> Calls]
  BY <1>1 DEF TypeOK, Commit
<1>3. stale' \subseteq Sessions \cup {"project", "proposals"}
  BY DEF TypeOK, Commit, Flags
<1> QED BY <1>2, <1>3 DEF TypeOK

LEMMA OutdatedType ==
  ASSUME NEW r \in Sessions \cup {"project", "proposals"}, NEW changed
  PROVE  Outdated(r, changed) \in Flags
  BY DEF Outdated, Flags

LEMMA ColumnType ==
  ASSUME NEW S, NEW loaded \in S, NEW new \in S, NEW current \in S
  PROVE  Column(loaded, new, current) \in S
  BY DEF Column

LEMMA AppendType == ASSUME TypeOK, NEW a \in Actors, AppendCommit(a) PROVE TypeOK'
<1> DEFINE c == call[a]
           new == Append(c.notes, c.n)
           e == [type |-> "append", s |-> c.s, n |-> c.n]
           o == Outdated(c.s, session[c.s] # c.row \/ c.row.notes # c.notes)
           old == session[c.s]
           row == [notes |-> Column(c.row.notes, new, old.notes), version |-> c.row.version + 1,
                   dirty |-> Column(c.row.dirty, TRUE, old.dirty)]
<1>1. c \in AppendLoaded
  BY CallOfOp DEF AppendCommit, TypeOK
<1>2. c.s \in Sessions /\ c.n \in Notes /\ c.notes \in Seq(Notes) /\ c.row \in SessionRow
  BY <1>1 DEF AppendLoaded
<1>3. e \in Event
  BY <1>2 DEF Event, AppendEvent
<1>4. o \in Flags
  BY <1>2, OutdatedType
<1>5. old \in SessionRow /\ new \in Seq(Notes)
  BY <1>2 DEF TypeOK
<1>6. row \in SessionRow
  <2>1. c.row.notes \in Seq(Notes) /\ old.notes \in Seq(Notes) /\ c.row.version + 1 \in Nat
    BY <1>2, <1>5 DEF SessionRow
  <2>2. c.row.dirty \in BOOLEAN /\ old.dirty \in BOOLEAN
    BY <1>2, <1>5 DEF SessionRow
  <2>3. Column(c.row.notes, new, old.notes) \in Seq(Notes)
    BY <1>5, <2>1, ColumnType
  <2>4. Column(c.row.dirty, TRUE, old.dirty) \in BOOLEAN
    BY <2>2, ColumnType
  <2> QED BY <2>1, <2>3, <2>4 DEF SessionRow
<1>7. session' = [session EXCEPT ![c.s] = row] /\ Commit(a, e, o) /\ UNCHANGED <<project, proposals>>
  BY DEF AppendCommit
<1>8. session' \in [Sessions -> SessionRow]
  BY <1>2, <1>6, <1>7 DEF TypeOK
<1> HIDE DEF e, o
<1> QED BY <1>3, <1>4, <1>7, <1>8, CommitType DEF TypeOK

LEMMA ProposeType == ASSUME TypeOK, NEW a \in Actors, ProposeCommit(a) PROVE TypeOK'
<1> DEFINE c == call[a]
           e == [type |-> "proposal_created", p |-> Len(proposals) + 1]
           new == [session |-> c.s, notes |-> c.notes, status |-> "pending"]
<1>1. c \in ProposeCall
  BY CallOfOp DEF ProposeCommit, TypeOK
<1>2. c.s \in Sessions /\ c.notes \in Seq(Notes)
  BY <1>1 DEF ProposeCall
<1>3. e \in Event
  BY DEF Event, ProposalEvent, TypeOK
<1>4. proposals' \in Seq(Proposal)
  BY <1>2 DEF ProposeCommit, Proposal, TypeOK
<1>5. Commit(a, e, {}) /\ UNCHANGED <<session, project>> /\ {} \in Flags
  BY DEF ProposeCommit, Flags
<1> HIDE DEF e
<1> QED BY <1>3, <1>4, <1>5, CommitType DEF TypeOK

LEMMA StatusType ==
  ASSUME proposals \in Seq(Proposal), NEW p \in DOMAIN proposals, NEW st \in {"approved", "rejected"}
  PROVE  /\ [proposals EXCEPT ![p].status = st] \in Seq(Proposal)
         /\ DOMAIN [proposals EXCEPT ![p].status = st] = DOMAIN proposals
<1>1. proposals[p] \in Proposal
  OBVIOUS
<1>2. [proposals[p] EXCEPT !.status = st] \in Proposal
  BY <1>1 DEF Proposal
<1> QED BY <1>2

LEMMA ApproveType ==
  ASSUME TypeOK, NEW a \in Actors, ApproveCommit(a), call[a].p \in DOMAIN proposals PROVE TypeOK'
<1> DEFINE c == call[a]
           pr == proposals[c.p]
           e == [type |-> "proposal_approved", p |-> c.p]
           o == Outdated("project", project # c.row) \cup Resolved(c)
<1>1. c \in ApproveLoaded
  BY CallOfOp DEF ApproveCommit, TypeOK
<1>2. c.p \in Nat /\ c.row \in ProjectRow /\ pr \in Proposal
  <2>1. c.p \in Nat /\ c.row \in ProjectRow
    BY <1>1 DEF ApproveLoaded
  <2>2. pr \in Proposal
    BY DEF TypeOK
  <2> QED BY <2>1, <2>2
<1>3. e \in Event
  BY <1>2 DEF Event, ProposalEvent
<1>4. o \in Flags
  <2>1. Outdated("project", project # c.row) \in Flags /\ Resolved(c) \in Flags
    BY OutdatedType DEF Resolved
  <2> QED BY <2>1 DEF Flags
<1>5. project' \in ProjectRow
  <2>1. c.row.notes \o pr.notes \in Seq(Notes) /\ c.row.version + 1 \in Nat /\ c.row.facts \in Facts
    <3>1. c.row.notes \in Seq(Notes) /\ pr.notes \in Seq(Notes)
      BY <1>2 DEF ProjectRow, Proposal
    <3>2. c.row.notes \o pr.notes \in Seq(Notes)
      BY <3>1
    <3> QED BY <1>2, <3>2 DEF ProjectRow
  <2> QED BY <2>1 DEF ApproveCommit, ProjectRow
<1>6. proposals' \in Seq(Proposal)
  BY StatusType DEF ApproveCommit, TypeOK
<1>7. session' \in [Sessions -> SessionRow]
  <2>1. pr.session \in Sessions
    BY <1>2 DEF Proposal
  <2>2. [session[pr.session] EXCEPT !.dirty = FALSE] \in SessionRow
    BY <2>1 DEF TypeOK, SessionRow
  <2> QED BY <2>1, <2>2 DEF ApproveCommit, TypeOK
<1>8. Commit(a, e, o)
  BY DEF ApproveCommit
<1> HIDE DEF e, o
<1> QED BY <1>3, <1>4, <1>5, <1>6, <1>7, <1>8, CommitType
LEMMA RejectType ==
  ASSUME TypeOK, NEW a \in Actors, RejectCommit(a), call[a].p \in DOMAIN proposals PROVE TypeOK'
<1> DEFINE c == call[a]
           e == [type |-> "proposal_rejected", p |-> c.p]
<1>1. c \in ResolveCall
  BY CallOfOp DEF RejectCommit, TypeOK
<1>2. e \in Event
  BY <1>1 DEF ResolveCall, Event, ProposalEvent
<1>3. Resolved(c) \in Flags
  BY OutdatedType DEF Resolved
<1>4. proposals' \in Seq(Proposal)
  BY StatusType DEF RejectCommit, TypeOK
<1>5. Commit(a, e, Resolved(c)) /\ UNCHANGED <<session, project>>
  BY DEF RejectCommit
<1> HIDE DEF e
<1> QED BY <1>2, <1>3, <1>4, <1>5, CommitType DEF TypeOK

LEMMA FactType == ASSUME TypeOK, NEW a \in Actors, FactCommit(a) PROVE TypeOK'
<1> DEFINE c == call[a]
           new == <<c.read[1], [c.read[2] EXCEPT ![c.k] = c.v]>>
           written == Column(Payload(c.row), new, Payload(project))
           e == [type |-> "fact_set", k |-> c.k, v |-> c.v]
           o == Outdated("project", project # c.row \/ Payload(c.row) # c.read)
<1>1. c \in FactLoaded
  BY CallOfOp DEF FactCommit, TypeOK
<1>2. c.k \in Keys /\ c.v \in Values /\ c.read \in Seq(Notes) \X Facts /\ c.row \in ProjectRow
  BY <1>1 DEF FactLoaded
<1>3. e \in Event
  BY <1>2 DEF Event, FactEvent
<1>4. o \in Flags
  BY OutdatedType
<1>5. Payload(c.row) \in Seq(Notes) \X Facts /\ Payload(project) \in Seq(Notes) \X Facts
  BY <1>2 DEF Payload, ProjectRow, TypeOK
<1>6. new \in Seq(Notes) \X Facts
  BY <1>2 DEF Facts
<1>7. written \in Seq(Notes) \X Facts
  BY <1>5, <1>6, ColumnType
<1>8. project' = [notes |-> written[1], facts |-> written[2], version |-> c.row.version + 1]
  BY DEF FactCommit
<1>9. project' \in ProjectRow
  <2> HIDE DEF written
  <2>1. c.row.version + 1 \in Nat
    BY <1>2 DEF ProjectRow
  <2> QED BY <1>7, <1>8, <2>1 DEF ProjectRow
<1>10. Commit(a, e, o) /\ UNCHANGED <<session, proposals>>
  BY DEF FactCommit
<1> HIDE DEF e, o
<1> QED BY <1>3, <1>4, <1>9, <1>10, CommitType DEF TypeOK

-----------------------------------------------------------------------------
(* The invariant *)

References ==
    /\ \A i \in DOMAIN events :
          events[i].type \in {"proposal_created", "proposal_approved", "proposal_rejected"}
              => events[i].p \in DOMAIN proposals
    /\ \A a \in Actors :
          call[a].op \in {"approve", "reject", "approve loaded"} => call[a].p \in DOMAIN proposals

\* What a commit does to the proposals: none is lost, or handed to another session.
Kept == \A p \in DOMAIN proposals : p \in DOMAIN proposals' /\ proposals'[p].session = proposals[p].session

LEMMA Appended ==
  ASSUME NEW S, NEW q \in Seq(S), NEW e \in S
  PROVE  /\ Append(q, e) \in Seq(S)
         /\ Len(q) \in Nat /\ Len(q) + 1 \in DOMAIN Append(q, e) /\ Append(q, e)[Len(q) + 1] = e
         /\ \A i \in DOMAIN q : i \in DOMAIN Append(q, e) /\ i < Len(q) + 1 /\ Append(q, e)[i] = q[i]
         /\ \A i \in DOMAIN Append(q, e) : i \in DOMAIN q \/ i = Len(q) + 1
         /\ DOMAIN q \subseteq Nat /\ DOMAIN Append(q, e) \subseteq Nat
  OBVIOUS

\* A proposal that an event does not resolve stays settled.
LEMMA SettledStays ==
  ASSUME events \in Seq(Event), NEW e \in Event, events' = Append(events, e),
         NEW p \in DOMAIN proposals, proposals'[p].status = proposals[p].status,
         ~Resolves(e, p), Settled(p)
  PROVE  Settled(p)'
<1>1. Resolutions(p)' = Resolutions(p)
  BY Appended DEF Resolutions
<1>2. \A i \in DOMAIN events : i \in DOMAIN events' /\ events'[i] = events[i]
  BY Appended
<1> QED BY <1>1, <1>2 DEF Settled

\* A session that an event is not about is as undecided as before.
LEMMA UndecidedStays ==
  ASSUME events \in Seq(Event), NEW e \in Event, events' = Append(events, e), References, Kept,
         NEW s \in Sessions, e.type = "append" => e.s # s,
         e.type = "proposal_approved" => proposals'[e.p].session # s
  PROVE  Undecided(s)' <=> Undecided(s)
<1>1. \A i \in DOMAIN events : i \in DOMAIN events' /\ events'[i] = events[i]
  BY Appended
<1>2. \A i \in DOMAIN events' : i \in DOMAIN events \/ events'[i] = e
  BY Appended
<1>3. \A i \in DOMAIN events : events[i].type = "proposal_approved" =>
          proposals'[events[i].p].session = proposals[events[i].p].session
  BY DEF References, Kept
<1> QED BY <1>1, <1>2, <1>3 DEF Undecided

IInv == TypeOK /\ References /\ ResolvedOnce /\ DirtySinceApproval

\* A method that has only read leaves the rows alone, and refers to an existing proposal.
LEMMA ReadStep ==
  ASSUME IInv, NEW a \in Actors, NEW c \in Calls, call' = [call EXCEPT ![a] = c],
         c.op \in {"approve", "reject", "approve loaded"} => c.p \in DOMAIN proposals,
         UNCHANGED <<session, project, proposals, events, stale>>
  PROVE  IInv'
<1>1. TypeOK'
  BY DEF IInv, TypeOK
<1>2. References'
  BY DEF IInv, TypeOK, References
<1>3. ResolvedOnce'
  <2>1. \A p \in DOMAIN proposals : Settled(p) <=> Settled(p)'
    BY DEF Settled, Resolutions
  <2> QED BY <2>1 DEF IInv, ResolvedOnce
<1>4. DirtySinceApproval'
  <2>1. \A s \in Sessions : Undecided(s) <=> Undecided(s)'
    BY DEF Undecided
  <2> QED BY <2>1 DEF IInv, DirtySinceApproval
<1> QED BY <1>1, <1>2, <1>3, <1>4 DEF IInv

\* A commit refers to an existing proposal, and so do the calls that go on.
LEMMA CommitReferences ==
  ASSUME TypeOK, References, Kept, NEW a \in Actors, NEW e \in Event, NEW o, Commit(a, e, o),
         e.type \in {"proposal_created", "proposal_approved", "proposal_rejected"} => e.p \in DOMAIN proposals'
  PROVE  References'
<1>1. \A i \in DOMAIN events' : (i \in DOMAIN events /\ events'[i] = events[i]) \/ events'[i] = e
  BY Appended DEF TypeOK, Commit
<1>2. \A i \in DOMAIN events' :
        events'[i].type \in {"proposal_created", "proposal_approved", "proposal_rejected"}
            => events'[i].p \in DOMAIN proposals'
  BY <1>1 DEF References, Kept
<1>3. \A b \in Actors : call'[b] = Idle \/ call'[b] = call[b]
  BY DEF TypeOK, Commit
<1>4. \A b \in Actors :
        call'[b].op \in {"approve", "reject", "approve loaded"} => call'[b].p \in DOMAIN proposals'
  BY <1>3, OpOfCall DEF References, Kept
<1> QED BY <1>2, <1>4 DEF References

\* An event that resolves nothing settles nothing.
LEMMA CommitSettles ==
  ASSUME TypeOK, ResolvedOnce, UNCHANGED proposals, NEW a \in Actors, NEW e \in Event, NEW o, Commit(a, e, o),
         e.type \notin {"proposal_approved", "proposal_rejected"}
  PROVE  ResolvedOnce'
<1>1. \A p \in DOMAIN proposals : Settled(p) => Settled(p)'
  BY SettledStays DEF TypeOK, Commit, Resolves
<1> QED BY <1>1 DEF ResolvedOnce, Commit

\* An event that neither appends nor approves decides nothing.
LEMMA CommitDecides ==
  ASSUME TypeOK, References, DirtySinceApproval, Kept, UNCHANGED session,
         NEW a \in Actors, NEW e \in Event, NEW o, Commit(a, e, o),
         e.type \notin {"append", "proposal_approved"}
  PROVE  DirtySinceApproval'
<1>1. \A s \in Sessions : Undecided(s)' <=> Undecided(s)
  BY UndecidedStays DEF TypeOK, Commit
<1> QED BY <1>1 DEF DirtySinceApproval, Commit

-----------------------------------------------------------------------------
(* The steps *)

LEMMA KeptProposals == ASSUME UNCHANGED proposals PROVE Kept
  BY DEF Kept

LEMMA AppendStep == ASSUME IInv, NEW a \in Actors, AppendCommit(a) PROVE IInv'
<1> DEFINE c == call[a]
           e == [type |-> "append", s |-> c.s, n |-> c.n]
           o == Outdated(c.s, session[c.s] # c.row \/ c.row.notes # c.notes)
<1> USE DEF IInv
<1>1. c \in AppendLoaded /\ c.s \in Sessions
  <2>1. c \in AppendLoaded
    BY CallOfOp DEF AppendCommit, TypeOK
  <2> QED BY <2>1 DEF AppendLoaded
<1>2. e \in Event /\ e.type = "append" /\ e.s = c.s
  BY <1>1 DEF AppendLoaded, Event, AppendEvent
<1>3. Commit(a, e, o) /\ UNCHANGED proposals /\ Kept
  BY KeptProposals DEF AppendCommit
<1>4. TypeOK'
  BY AppendType
<1> HIDE DEF e
<1>5. References'
  BY <1>2, <1>3, CommitReferences
<1>6. ResolvedOnce'
  BY <1>2, <1>3, CommitSettles
<1>7. ASSUME NEW s \in Sessions, s \notin stale' PROVE session'[s].dirty <=> Undecided(s)'
  <2>1. s \notin stale /\ events' = Append(events, e) /\ events \in Seq(Event)
    BY <1>3, <1>7 DEF Commit, TypeOK
  <2>2. CASE s # c.s
    <3>1. Undecided(s)' <=> Undecided(s)
      BY <1>2, <1>3, <2>1, <2>2, UndecidedStays
    <3>2. session'[s] = session[s]
      BY <1>1, <2>2 DEF AppendCommit, TypeOK
    <3> QED BY <2>1, <3>1, <3>2 DEF DirtySinceApproval
  <2>3. CASE s = c.s
    <3>1. session[s] = c.row
      BY <1>3, <1>7, <2>3 DEF Commit, Outdated
    <3>2. session'[s].dirty = Column(c.row.dirty, TRUE, session[s].dirty)
      BY <1>1, <2>3 DEF AppendCommit, TypeOK
    <3>3. session'[s].dirty
      BY <3>1, <3>2 DEF Column
    <3>4. Len(events) + 1 \in DOMAIN events' /\ events'[Len(events) + 1] = e
      BY <1>2, <2>1, Appended
    <3>5. \A j \in DOMAIN events' : ~(j > Len(events) + 1)
      BY <1>2, <2>1
    <3>6. Undecided(s)'
      BY <1>2, <2>3, <3>4, <3>5 DEF Undecided
    <3> QED BY <3>3, <3>6
  <2> QED BY <2>2, <2>3
<1>8. DirtySinceApproval'
  BY <1>7 DEF DirtySinceApproval
<1> QED BY <1>4, <1>5, <1>6, <1>8

LEMMA FactStep == ASSUME IInv, NEW a \in Actors, FactCommit(a) PROVE IInv'
<1> DEFINE c == call[a]
           e == [type |-> "fact_set", k |-> c.k, v |-> c.v]
           o == Outdated("project", project # c.row \/ Payload(c.row) # c.read)
<1> USE DEF IInv
<1>1. e \in Event /\ e.type = "fact_set"
  <2>1. c \in FactLoaded
    BY CallOfOp DEF FactCommit, TypeOK
  <2> QED BY <2>1 DEF FactLoaded, Event, FactEvent
<1>2. Commit(a, e, o) /\ UNCHANGED <<session, proposals>> /\ Kept
  BY KeptProposals DEF FactCommit
<1>3. TypeOK'
  BY FactType
<1> HIDE DEF e, o
<1>4. References'
  BY <1>1, <1>2, CommitReferences
<1>5. ResolvedOnce'
  BY <1>1, <1>2, CommitSettles
<1>6. DirtySinceApproval'
  BY <1>1, <1>2, CommitDecides
<1> QED BY <1>3, <1>4, <1>5, <1>6

LEMMA ProposeStep == ASSUME IInv, NEW a \in Actors, ProposeCommit(a) PROVE IInv'
<1> DEFINE c == call[a]
           n == Len(proposals) + 1
           e == [type |-> "proposal_created", p |-> n]
           new == [session |-> c.s, notes |-> c.notes, status |-> "pending"]
<1> USE DEF IInv
<1>1. new \in Proposal
  <2>1. c \in ProposeCall
    BY CallOfOp DEF ProposeCommit, TypeOK
  <2> QED BY <2>1 DEF ProposeCall, Proposal
<1>2. e \in Event /\ e.type = "proposal_created" /\ e.p = n
  BY DEF Event, ProposalEvent, TypeOK
<1>3. Commit(a, e, {}) /\ UNCHANGED session /\ proposals' = Append(proposals, new)
  BY DEF ProposeCommit
<1>4. new.status = "pending"
  OBVIOUS
<1> HIDE DEF new
<1>5. /\ n \in DOMAIN proposals' /\ proposals'[n] = new /\ n \notin DOMAIN proposals
      /\ \A p \in DOMAIN proposals : p \in DOMAIN proposals' /\ proposals'[p] = proposals[p]
      /\ \A p \in DOMAIN proposals' : p \in DOMAIN proposals \/ p = n
  BY <1>1, <1>3, Appended DEF TypeOK
<1>6. Kept
  BY <1>5 DEF Kept
<1>7. TypeOK'
  BY ProposeType
<1> HIDE DEF e, n
<1>8. References'
  BY <1>2, <1>3, <1>5, <1>6, CommitReferences
<1>9. DirtySinceApproval'
  BY <1>2, <1>3, <1>6, CommitDecides
<1>10. \A p \in DOMAIN proposals : Settled(p) => Settled(p)'
  BY <1>2, <1>3, <1>5, SettledStays DEF TypeOK, Commit, Resolves
<1>11. ASSUME NEW p, p = n PROVE Settled(p)'
  <2>1. \A i \in DOMAIN events' : (i \in DOMAIN events /\ events'[i] = events[i]) \/ events'[i] = e
    BY <1>2, <1>3, Appended DEF TypeOK, Commit
  <2>2. ~Resolves(e, p) /\ \A i \in DOMAIN events : ~Resolves(events[i], p)
    BY <1>2, <1>5, <1>11 DEF Resolves, References
  <2>3. Resolutions(p)' = {}
    BY <2>1, <2>2 DEF Resolutions
  <2> QED BY <1>4, <1>5, <1>11, <2>3 DEF Settled
<1>12. ResolvedOnce'
  BY <1>3, <1>5, <1>10, <1>11 DEF ResolvedOnce, Commit
<1> QED BY <1>7, <1>8, <1>9, <1>12

\* The proposal that an actor found pending is settled by the commit, or somebody else has
\* resolved it in between, which makes the proposals stale.
LEMMA Settles ==
  ASSUME IInv, NEW a \in Actors, NEW st \in {"approved", "rejected"}, NEW e \in Event, NEW o \in Flags,
         call[a].p \in DOMAIN proposals, call[a].status = "pending", Resolved(call[a]) \subseteq o,
         e.type = Outcome[st], e.p = call[a].p, Commit(a, e, o),
         proposals' = [proposals EXCEPT ![call[a].p].status = st]
  PROVE  /\ Kept /\ DOMAIN proposals' = DOMAIN proposals /\ ResolvedOnce'
<1> DEFINE q == call[a].p
<1>1. /\ DOMAIN proposals' = DOMAIN proposals /\ proposals'[q].status = st
      /\ \A p \in DOMAIN proposals : /\ proposals'[p].session = proposals[p].session
                                     /\ p # q => proposals'[p] = proposals[p]
  <2>1. proposals[q] \in Proposal /\ proposals \in Seq(Proposal)
    BY DEF IInv, TypeOK
  <2> QED BY <2>1 DEF Proposal
<1>2. Kept
  BY <1>1 DEF Kept
<1>3. e.type \in {"proposal_approved", "proposal_rejected"}
  BY DEF Outcome
<1>4. events \in Seq(Event) /\ events' = Append(events, e)
  BY DEF IInv, TypeOK, Commit
<1>5. ASSUME "proposals" \notin stale' PROVE \A p \in DOMAIN proposals' : Settled(p)'
  <2>1. proposals[q].status = "pending" /\ "proposals" \notin stale
    BY <1>5 DEF Commit, Resolved, Outdated
  <2>2. \A p \in DOMAIN proposals : Settled(p)
    BY <2>1 DEF IInv, ResolvedOnce
  <2>3. ASSUME NEW p \in DOMAIN proposals, p # q PROVE Settled(p)'
    BY <1>1, <1>4, <2>2, <2>3, SettledStays DEF Resolves
  <2>4. ASSUME NEW p \in DOMAIN proposals, p = q PROVE Settled(p)'
    <3>1. Resolutions(p) = {}
      BY <2>1, <2>2, <2>4 DEF Settled
    <3>2. \A i \in DOMAIN events : ~Resolves(events[i], p)
      BY <3>1 DEF Resolutions
    <3>3. Resolves(e, p)
      BY <1>3, <2>4 DEF Resolves
    <3>4. Resolutions(p)' = {Len(events) + 1}
      BY <1>4, <3>2, <3>3, Appended DEF Resolutions
    <3>5. Len(events) + 1 \in DOMAIN events' /\ events'[Len(events) + 1] = e
      BY <1>4, Appended
    <3>6. proposals'[p].status # "pending" /\ e.type = Outcome[proposals'[p].status]
      BY <1>1, <2>4
    <3> QED BY <3>4, <3>5, <3>6 DEF Settled
  <2> QED BY <1>1, <2>3, <2>4
<1>6. ResolvedOnce'
  BY <1>5 DEF ResolvedOnce
<1> QED BY <1>1, <1>2, <1>6

LEMMA RejectStep == ASSUME IInv, NEW a \in Actors, RejectCommit(a) PROVE IInv'
<1> DEFINE c == call[a]
           e == [type |-> "proposal_rejected", p |-> c.p]
<1> USE DEF IInv
<1>1. c \in ResolveCall /\ c.p \in DOMAIN proposals
  BY CallOfOp DEF RejectCommit, TypeOK, References
<1>2. e \in Event /\ e.type = "proposal_rejected" /\ e.p = c.p
  BY <1>1 DEF ResolveCall, Event, ProposalEvent
<1>3. c.status = "pending"
  BY <1>1 DEF ResolveCall
<1>4. Resolved(c) \in Flags
  BY OutdatedType DEF Resolved
<1>5. Commit(a, e, Resolved(c)) /\ UNCHANGED <<session, project>>
  BY DEF RejectCommit
<1>6. proposals' = [proposals EXCEPT ![c.p].status = "rejected"]
  BY DEF RejectCommit
<1>7. TypeOK'
  BY <1>1, RejectType
<1> HIDE DEF e
<1>8. Kept /\ DOMAIN proposals' = DOMAIN proposals /\ ResolvedOnce'
  BY <1>1, <1>2, <1>3, <1>4, <1>5, <1>6, Settles DEF Outcome
<1>9. References'
  BY <1>1, <1>2, <1>5, <1>8, CommitReferences
<1>10. DirtySinceApproval'
  BY <1>2, <1>5, <1>8, CommitDecides
<1> QED BY <1>7, <1>8, <1>9, <1>10

LEMMA ApproveStep == ASSUME IInv, NEW a \in Actors, ApproveCommit(a) PROVE IInv'
<1> DEFINE c == call[a]
           pr == proposals[c.p]
           e == [type |-> "proposal_approved", p |-> c.p]
           o == Outdated("project", project # c.row) \cup Resolved(c)
<1> USE DEF IInv
<1>1. c \in ApproveLoaded /\ c.p \in DOMAIN proposals
  BY CallOfOp DEF ApproveCommit, TypeOK, References
<1>2. e \in Event /\ e.type = "proposal_approved" /\ e.p = c.p
  BY <1>1 DEF ApproveLoaded, Event, ProposalEvent
<1>3. c.status = "pending"
  BY <1>1 DEF ApproveLoaded
<1>4. o \in Flags /\ Resolved(c) \subseteq o
  <2>1. Outdated("project", project # c.row) \in Flags /\ Resolved(c) \in Flags
    BY OutdatedType DEF Resolved
  <2> QED BY <2>1 DEF Flags
<1>5. /\ Commit(a, e, o)
      /\ proposals' = [proposals EXCEPT ![c.p].status = "approved"]
      /\ session' = [session EXCEPT ![pr.session].dirty = FALSE]
  BY DEF ApproveCommit
<1>6. TypeOK'
  BY <1>1, ApproveType
<1> HIDE DEF e, o
<1>7. Kept /\ DOMAIN proposals' = DOMAIN proposals /\ ResolvedOnce'
  BY <1>1, <1>2, <1>3, <1>4, <1>5, Settles DEF Outcome
<1>8. References'
  BY <1>1, <1>2, <1>5, <1>7, CommitReferences
<1>9. ASSUME NEW s \in Sessions, s \notin stale' PROVE session'[s].dirty <=> Undecided(s)'
  <2>1. s \notin stale /\ events' = Append(events, e) /\ events \in Seq(Event)
    BY <1>5, <1>9 DEF Commit, TypeOK
  <2>2. proposals'[c.p].session = pr.session
    BY <1>1, <1>7 DEF Kept
  <2>3. CASE s # pr.session
    <3>1. Undecided(s)' <=> Undecided(s)
      BY <1>2, <1>7, <2>1, <2>2, <2>3, UndecidedStays
    <3>2. session'[s] = session[s]
      BY <1>5, <2>3 DEF TypeOK
    <3> QED BY <2>1, <3>1, <3>2 DEF DirtySinceApproval
  <2>4. CASE s = pr.session
    <3>1. ~session'[s].dirty
      BY <1>5, <2>4 DEF TypeOK, SessionRow
    <3>2. /\ Len(events) + 1 \in DOMAIN events' /\ events'[Len(events) + 1] = e
          /\ \A i \in DOMAIN events' : i < Len(events) + 1 \/ events'[i] = e
      BY <1>2, <2>1, Appended
    <3>3. ~Undecided(s)'
      BY <1>2, <2>2, <2>4, <3>2 DEF Undecided
    <3> QED BY <3>1, <3>3
  <2> QED BY <2>3, <2>4
<1>10. DirtySinceApproval'
  BY <1>9 DEF DirtySinceApproval
<1> QED BY <1>6, <1>7, <1>8, <1>10

LEMMA Idling == ASSUME IInv, NEW a \in Actors, Abandon(a) PROVE IInv'
<1>1. Idle \in Calls
  BY DEF Calls
<1> QED BY <1>1, OpOfCall, ReadStep DEF Abandon

\* The methods' first and second reads.
LEMMA Reads ==
  ASSUME IInv, NEW a \in Actors, Method(a),
         ~(AppendCommit(a) \/ ProposeCommit(a) \/ ApproveCommit(a) \/ RejectCommit(a) \/ FactCommit(a))
  PROVE  IInv'
<1> USE DEF IInv
<1>1. ASSUME NEW s \in Sessions, NEW n \in Notes, AppendRead(a, s, n) PROVE IInv'
  <2>1. [op |-> "append", s |-> s, n |-> n, notes |-> session[s].notes] \in AppendCall
    BY DEF AppendCall, TypeOK, SessionRow
  <2> QED BY <1>1, <2>1, ReadStep DEF AppendRead, Enter, Calls
<1>2. ASSUME NEW s \in Sessions, ProposeRead(a, s) PROVE IInv'
  <2>1. [op |-> "propose", s |-> s, notes |-> session[s].notes] \in ProposeCall
    BY DEF ProposeCall, TypeOK, SessionRow
  <2> QED BY <1>2, <2>1, ReadStep DEF ProposeRead, Enter, Calls
<1>3. ASSUME NEW p \in DOMAIN proposals, NEW op \in {"approve", "reject"}, ResolveRead(a, op, p) PROVE IInv'
  <2>1. [op |-> op, p |-> p, status |-> proposals[p].status] \in ResolveCall
    BY <1>3 DEF ResolveCall, ResolveRead, TypeOK
  <2> QED BY <1>3, <2>1, ReadStep DEF ResolveRead, Enter, Calls
<1>4. ASSUME NEW k \in Keys, NEW v \in Values, FactRead(a, k, v) PROVE IInv'
  <2>1. Payload(project) \in Seq(Notes) \X Facts
    BY DEF Payload, TypeOK, ProjectRow
  <2>2. [op |-> "fact", k |-> k, v |-> v, read |-> Payload(project)] \in FactCall
    BY <2>1 DEF FactCall
  <2> QED BY <1>4, <2>2, ReadStep DEF FactRead, Enter, Calls
<1>5. CASE AppendLoad(a)
  <2> DEFINE c == [op |-> "append loaded", s |-> call[a].s, n |-> call[a].n,
                   notes |-> call[a].notes, row |-> session[call[a].s]]
  <2>1. call[a] \in AppendCall
    BY <1>5, CallOfOp DEF AppendLoad, TypeOK
  <2>2. c \in AppendLoaded
    BY <2>1 DEF AppendCall, AppendLoaded, TypeOK
  <2> QED BY <1>5, <2>2, ReadStep DEF AppendLoad, Load, Calls
<1>6. CASE ApproveLoad(a)
  <2> DEFINE c == [op |-> "approve loaded", p |-> call[a].p, status |-> call[a].status, row |-> project]
  <2>1. call[a] \in ResolveCall /\ call[a].p \in DOMAIN proposals
    BY <1>6, CallOfOp DEF ApproveLoad, TypeOK, References
  <2>2. c \in ApproveLoaded
    BY <2>1 DEF ResolveCall, ApproveLoaded, TypeOK
  <2> QED BY <1>6, <2>1, <2>2, ReadStep DEF ApproveLoad, Load, Calls
<1>7. CASE FactLoad(a)
  <2> DEFINE c == [op |-> "fact loaded", k |-> call[a].k, v |-> call[a].v, read |-> call[a].read, row |-> project]
  <2>1. call[a] \in FactCall
    BY <1>7, CallOfOp DEF FactLoad, TypeOK
  <2>2. c \in FactLoaded
    BY <2>1 DEF FactCall, FactLoaded, TypeOK
  <2> QED BY <1>7, <2>2, ReadStep DEF FactLoad, Load, Calls
<1> QED BY <1>1, <1>2, <1>3, <1>4, <1>5, <1>6, <1>7, Idling DEF Method

LEMMA InitIInv == Init => IInv
<1> SUFFICES ASSUME Init PROVE IInv
  OBVIOUS
<1>1. events = <<>> /\ proposals = <<>> /\ call = [a \in Actors |-> Idle]
  BY DEF Init
<1>2. References
  <2>1. \A i \in DOMAIN events : FALSE
    BY <1>1
  <2>2. \A a \in Actors : call[a].op = "idle"
    BY <1>1, OpOfCall
  <2> QED BY <2>1, <2>2 DEF References
<1>3. ResolvedOnce
  BY <1>1 DEF ResolvedOnce
<1>4. DirtySinceApproval
  BY <1>1 DEF Init, DirtySinceApproval, Undecided
<1> QED BY <1>2, <1>3, <1>4, InitTypeOK DEF IInv

\* However the transactions of any number of actors interleave, every row, event and call is well
\* formed, and every reference to a proposal is to one that exists.
THEOREM Inductive == IInv /\ [Next]_vars => IInv'
<1> SUFFICES ASSUME IInv, [Next]_vars PROVE IInv'
  OBVIOUS
<1>1. CASE Next
  <2>1. PICK a \in Actors : Method(a)
    BY <1>1 DEF Next
  <2> QED BY <2>1, AppendStep, ProposeStep, ApproveStep, RejectStep, FactStep, Reads
<1>2. CASE UNCHANGED vars
  <2> USE <1>2 DEF vars
  <2>1. TypeOK' /\ References'
    BY DEF IInv, TypeOK, References
  <2>2. \A p \in DOMAIN proposals : Settled(p) <=> Settled(p)'
    BY DEF Settled, Resolutions
  <2>3. \A s \in Sessions : Undecided(s) <=> Undecided(s)'
    BY DEF Undecided
  <2> QED BY <2>1, <2>2, <2>3 DEF IInv, ResolvedOnce, DirtySinceApproval
<1> QED BY <1>1, <1>2

\* The state methods keep the types of their rows.
THEOREM TypeCorrect == Spec => []TypeOK
<1>1. IInv => TypeOK
  BY DEF IInv
<1> QED BY <1>1, InitIInv, Inductive, PTL DEF Spec

\* Approvals are exact for any number of actors, sessions and proposals.
THEOREM ApprovalsStayExact == Spec => []ApprovalsAreExact
<1>1. IInv => ApprovalsAreExact
  BY DEF IInv, ApprovalsAreExact
<1> QED BY <1>1, InitIInv, Inductive, PTL DEF Spec

-----------------------------------------------------------------------------
(* Rows and events *)

LEMMA SessionEffectType ==
  ASSUME NEW s \in Sessions PROVE SessionEffect(s) \in [Event -> [Replayed -> Replayed]]
<1>1. ASSUME NEW e \in Event, NEW row \in Replayed, e.type = "append", e.s = s
      PROVE  [notes |-> Append(row.notes, e.n), version |-> row.version + 1] \in Replayed
  <2>1. e \in AppendEvent
    BY <1>1 DEF Event, ProposalEvent, FactEvent
  <2>2. e.n \in Notes /\ row.notes \in Seq(Notes) /\ row.version + 1 \in Nat
    BY <2>1 DEF AppendEvent, Replayed
  <2>3. Append(row.notes, e.n) \in Seq(Notes)
    BY <2>2
  <2> QED BY <2>2, <2>3 DEF Replayed
<1> QED BY <1>1 DEF SessionEffect

Fresh == [notes |-> <<>>, version |-> 1]
SessionReplay(s) == Fold(SessionEffect(s), Fresh, events)
Blank == [notes |-> <<>>, facts |-> [k \in Keys |-> Unset], version |-> 1]
ProjectReplay == Fold(ProjectEffect, Blank, events)

LEMMA SessionReplayType == ASSUME events \in Seq(Event), NEW s \in Sessions PROVE SessionReplay(s) \in Replayed
<1>1. Fresh \in Replayed
  BY DEF Fresh, Replayed
<1> QED BY <1>1, SessionEffectType, FoldType DEF SessionReplay

\* A new event that is not an append to session s says nothing of it.
LEMMA SessionReplayStays ==
  ASSUME events \in Seq(Event), NEW e \in Event, events' = Append(events, e), NEW s \in Sessions,
         e.type = "append" => e.s # s
  PROVE  SessionReplay(s)' = SessionReplay(s)
<1>1. SessionReplay(s)' = SessionEffect(s)[e][SessionReplay(s)]
  BY FoldAppend DEF SessionReplay
<1>2. SessionReplay(s) \in Replayed
  BY SessionReplayType
<1> QED BY <1>1, <1>2 DEF SessionEffect

LEMMA SessionReplayGrows ==
  ASSUME events \in Seq(Event), NEW e \in Event, events' = Append(events, e), NEW s \in Sessions,
         e.type = "append", e.s = s
  PROVE  SessionReplay(s)' = [notes   |-> Append(SessionReplay(s).notes, e.n),
                              version |-> SessionReplay(s).version + 1]
<1>1. SessionReplay(s)' = SessionEffect(s)[e][SessionReplay(s)]
  BY FoldAppend DEF SessionReplay
<1>2. SessionReplay(s) \in Replayed
  BY SessionReplayType
<1> QED BY <1>1, <1>2 DEF SessionEffect

\* A commit that leaves a session row alone, but perhaps for its dirty flag, is not an append to it.
LEMMA SessionsStay ==
  ASSUME TypeOK, SessionIsReplay, NEW a \in Actors, NEW e \in Event, NEW o, Commit(a, e, o), e.type # "append",
         \A s \in Sessions : session'[s].notes = session[s].notes /\ session'[s].version = session[s].version
  PROVE  SessionIsReplay'
<1>1. ASSUME NEW s \in Sessions, s \notin stale'
      PROVE  [notes |-> session'[s].notes, version |-> session'[s].version] = SessionReplay(s)'
  <2>1. s \notin stale
    BY <1>1 DEF Commit
  <2>2. SessionReplay(s)' = SessionReplay(s)
    BY SessionReplayStays DEF Commit, TypeOK
  <2>3. SessionReplay(s) = [notes |-> session[s].notes, version |-> session[s].version]
    BY <2>1 DEF SessionIsReplay, SessionReplay, Fresh
  <2> QED BY <2>2, <2>3
<1> QED BY <1>1 DEF SessionIsReplay, SessionReplay, Fresh

LEMMA AppendReplay == ASSUME IInv, SessionIsReplay, NEW a \in Actors, AppendCommit(a) PROVE SessionIsReplay'
<1> DEFINE c == call[a]
           e == [type |-> "append", s |-> c.s, n |-> c.n]
           o == Outdated(c.s, session[c.s] # c.row \/ c.row.notes # c.notes)
<1>1. c \in AppendLoaded /\ c.s \in Sessions /\ c.n \in Notes /\ c.notes \in Seq(Notes)
  <2>1. c \in AppendLoaded
    BY CallOfOp DEF AppendCommit, IInv, TypeOK
  <2> QED BY <2>1 DEF AppendLoaded
<1>2. e \in Event /\ e.type = "append" /\ e.s = c.s /\ e.n = c.n
  BY <1>1 DEF Event, AppendEvent
<1>3. Commit(a, e, o)
  BY DEF AppendCommit
<1> HIDE DEF e
<1>4. events \in Seq(Event) /\ events' = Append(events, e) /\ stale \subseteq stale'
  BY <1>3 DEF IInv, TypeOK, Commit
<1>5. ASSUME NEW s \in Sessions, s \notin stale', s # c.s
      PROVE  [notes |-> session'[s].notes, version |-> session'[s].version] = SessionReplay(s)'
  <2>1. SessionReplay(s)' = SessionReplay(s)
    BY <1>2, <1>4, <1>5, SessionReplayStays
  <2>2. SessionReplay(s) = [notes |-> session[s].notes, version |-> session[s].version]
    BY <1>4, <1>5 DEF SessionIsReplay, SessionReplay, Fresh
  <2>3. session'[s] = session[s]
    BY <1>1, <1>5 DEF AppendCommit, IInv, TypeOK
  <2> QED BY <2>1, <2>2, <2>3
<1>6. ASSUME NEW s \in Sessions, s \notin stale', s = c.s
      PROVE  [notes |-> session'[s].notes, version |-> session'[s].version] = SessionReplay(s)'
  <2>1. session[s] = c.row /\ c.row.notes = c.notes
    BY <1>3, <1>6 DEF Commit, Outdated
  <2>2. session'[s].notes = Column(c.row.notes, Append(c.notes, c.n), session[s].notes)
    BY <1>1, <1>6 DEF AppendCommit, IInv, TypeOK
  <2>3. session'[s].version = c.row.version + 1
    BY <1>1, <1>6 DEF AppendCommit, IInv, TypeOK
  <2>4. session'[s].notes = Append(session[s].notes, c.n)
    BY <2>1, <2>2 DEF Column
  <2>5. SessionReplay(s) = [notes |-> session[s].notes, version |-> session[s].version]
    BY <1>4, <1>6 DEF SessionIsReplay, SessionReplay, Fresh
  <2>6. SessionReplay(s)' = [notes |-> Append(SessionReplay(s).notes, c.n), version |-> SessionReplay(s).version + 1]
    BY <1>2, <1>4, <1>6, SessionReplayGrows
  <2> QED BY <2>1, <2>3, <2>4, <2>5, <2>6
<1> QED BY <1>5, <1>6 DEF SessionIsReplay, SessionReplay, Fresh

LEMMA ProjectEffectType ==
  ASSUME proposals \in Seq(Proposal), NEW e \in Event,
         e.type = "proposal_approved" => e.p \in DOMAIN proposals
  PROVE  \A row \in ProjectRow : ProjectEffect[e][row] \in ProjectRow
<1> SUFFICES ASSUME NEW row \in ProjectRow PROVE ProjectEffect[e][row] \in ProjectRow
  OBVIOUS
<1>1. row.notes \in Seq(Notes) /\ row.facts \in Facts /\ row.version + 1 \in Nat
  BY DEF ProjectRow
<1>2. CASE e.type = "proposal_approved"
  <2>1. proposals[e.p] \in Proposal
    BY <1>2
  <2>2. proposals[e.p].notes \in Seq(Notes)
    BY <2>1 DEF Proposal
  <2>3. row.notes \o proposals[e.p].notes \in Seq(Notes)
    BY <1>1, <2>2
  <2>4. ProjectEffect[e][row] = [notes |-> row.notes \o proposals[e.p].notes, facts |-> row.facts,
                                 version |-> row.version + 1]
    BY <1>2 DEF ProjectEffect
  <2> QED BY <1>1, <2>3, <2>4 DEF ProjectRow
<1>3. CASE e.type = "fact_set"
  <2>1. e \in FactEvent
    BY <1>3 DEF Event, AppendEvent, ProposalEvent
  <2>2. [row.facts EXCEPT ![e.k] = e.v] \in Facts
    BY <1>1, <2>1 DEF FactEvent, Facts
  <2>3. ProjectEffect[e][row] = [notes |-> row.notes, facts |-> [row.facts EXCEPT ![e.k] = e.v],
                                 version |-> row.version + 1]
    BY <1>3 DEF ProjectEffect
  <2> QED BY <1>1, <2>2, <2>3 DEF ProjectRow
<1>4. CASE e.type \notin {"proposal_approved", "fact_set"}
  BY <1>4 DEF ProjectEffect
<1> QED BY <1>2, <1>3, <1>4

LEMMA ProjectReplayType == ASSUME TypeOK, References PROVE ProjectReplay \in ProjectRow
<1>1. Blank \in ProjectRow
  BY DEF Blank, ProjectRow, Facts
<1>2. ASSUME NEW i \in 1..Len(events), NEW row \in ProjectRow PROVE ProjectEffect[events[i]][row] \in ProjectRow
  <2>1. i \in DOMAIN events /\ events[i] \in Event
    BY DEF TypeOK
  <2> QED BY <2>1, ProjectEffectType DEF TypeOK, References
<1> QED BY <1>1, <1>2, FoldStays DEF ProjectReplay, TypeOK

\* Proposals keep their notes, and so what the events say of the project.
SameNotes == \A p \in DOMAIN proposals : p \in DOMAIN proposals' /\ proposals'[p].notes = proposals[p].notes

LEMMA ProjectReplayAppend ==
  ASSUME TypeOK, References, SameNotes, NEW e \in Event, events' = Append(events, e)
  PROVE  ProjectReplay' = ProjectEffect'[e][ProjectReplay]
<1>1. ProjectReplay' = ProjectEffect'[e][Fold(ProjectEffect', Blank, events)]
  BY FoldAppend DEF ProjectReplay, TypeOK, Blank
<1>2. ASSUME NEW i \in 1..Len(events) PROVE ProjectEffect'[events[i]] = ProjectEffect[events[i]]
  <2>1. i \in DOMAIN events /\ events[i] \in Event
    BY DEF TypeOK
  <2>2. ASSUME events[i].type = "proposal_approved" PROVE proposals'[events[i].p].notes = proposals[events[i].p].notes
    BY <2>1, <2>2 DEF References, SameNotes
  <2> QED BY <2>1, <2>2 DEF ProjectEffect
<1>3. Fold(ProjectEffect', Blank, events) = ProjectReplay
  BY <1>2, FoldSame DEF ProjectReplay, TypeOK
<1> QED BY <1>1, <1>3


\* A commit that leaves the project row alone says nothing of it.
LEMMA ProjectStays ==
  ASSUME TypeOK, References, SameNotes, ProjectIsReplay, UNCHANGED project,
         NEW a \in Actors, NEW e \in Event, NEW o, Commit(a, e, o), e.type \notin {"proposal_approved", "fact_set"}
  PROVE  ProjectIsReplay'
<1> SUFFICES ASSUME "project" \notin stale' PROVE project = ProjectReplay'
  BY DEF ProjectIsReplay, ProjectReplay, Blank
<1>1. ProjectReplay' = ProjectEffect'[e][ProjectReplay]
  BY ProjectReplayAppend DEF Commit
<1>2. ProjectReplay \in ProjectRow
  BY ProjectReplayType
<1>3. ProjectEffect'[e][ProjectReplay] = ProjectReplay
  BY <1>2 DEF ProjectEffect
<1>4. project = ProjectReplay
  BY DEF ProjectIsReplay, ProjectReplay, Blank, Commit
<1> QED BY <1>1, <1>3, <1>4

LEMMA SameNotesOfSame == ASSUME UNCHANGED proposals PROVE SameNotes
  BY DEF SameNotes

LEMMA SameNotesOfStatus ==
  ASSUME proposals \in Seq(Proposal), NEW p \in DOMAIN proposals, NEW st,
         proposals' = [proposals EXCEPT ![p].status = st]
  PROVE  SameNotes
<1>1. \A q \in DOMAIN proposals : proposals[q] \in Proposal
  OBVIOUS
<1>2. ASSUME NEW q \in DOMAIN proposals
      PROVE  q \in DOMAIN proposals' /\ proposals'[q].notes = proposals[q].notes
  <2>1. q \in DOMAIN proposals' /\ proposals'[q] = IF q = p THEN [proposals[p] EXCEPT !.status = st] ELSE proposals[q]
    OBVIOUS
  <2> QED BY <1>1, <2>1 DEF Proposal
<1> QED BY <1>2 DEF SameNotes

RowsOK == SessionIsReplay /\ ProjectIsReplay

LEMMA ReplayAppend == ASSUME IInv, RowsOK, NEW a \in Actors, AppendCommit(a) PROVE RowsOK'
<1> DEFINE c == call[a]
           e == [type |-> "append", s |-> c.s, n |-> c.n]
           o == Outdated(c.s, session[c.s] # c.row \/ c.row.notes # c.notes)
<1>1. e \in Event /\ e.type = "append"
  <2>1. c \in AppendLoaded
    BY CallOfOp DEF AppendCommit, IInv, TypeOK
  <2> QED BY <2>1 DEF AppendLoaded, Event, AppendEvent
<1>2. Commit(a, e, o) /\ UNCHANGED <<project, proposals>>
  BY DEF AppendCommit
<1> HIDE DEF e, o
<1>3. SameNotes
  BY <1>2, SameNotesOfSame
<1>4. ProjectIsReplay'
  BY <1>1, <1>2, <1>3, ProjectStays DEF IInv, RowsOK
<1> QED BY <1>4, AppendReplay DEF RowsOK

LEMMA ReplayPropose == ASSUME IInv, RowsOK, NEW a \in Actors, ProposeCommit(a) PROVE RowsOK'
<1> DEFINE c == call[a]
           e == [type |-> "proposal_created", p |-> Len(proposals) + 1]
           new == [session |-> c.s, notes |-> c.notes, status |-> "pending"]
<1>1. e \in Event /\ e.type = "proposal_created"
  BY DEF Event, ProposalEvent, IInv, TypeOK
<1>2. new \in Proposal
  <2>1. c \in ProposeCall
    BY CallOfOp DEF ProposeCommit, IInv, TypeOK
  <2> QED BY <2>1 DEF ProposeCall, Proposal
<1>3. Commit(a, e, {}) /\ UNCHANGED <<session, project>> /\ proposals' = Append(proposals, new)
  BY DEF ProposeCommit
<1> HIDE DEF e, new
<1>4. SameNotes
  BY <1>2, <1>3, Appended DEF SameNotes, IInv, TypeOK
<1>5. SessionIsReplay'
  BY <1>1, <1>3, SessionsStay DEF IInv, RowsOK
<1>6. ProjectIsReplay'
  BY <1>1, <1>3, <1>4, ProjectStays DEF IInv, RowsOK
<1> QED BY <1>5, <1>6 DEF RowsOK

LEMMA ReplayReject == ASSUME IInv, RowsOK, NEW a \in Actors, RejectCommit(a) PROVE RowsOK'
<1> DEFINE c == call[a]
           e == [type |-> "proposal_rejected", p |-> c.p]
<1>1. c \in ResolveCall /\ c.p \in DOMAIN proposals
  BY CallOfOp DEF RejectCommit, IInv, TypeOK, References
<1>2. e \in Event /\ e.type = "proposal_rejected"
  BY <1>1 DEF ResolveCall, Event, ProposalEvent
<1>3. Commit(a, e, Resolved(c)) /\ UNCHANGED <<session, project>>
      /\ proposals' = [proposals EXCEPT ![c.p].status = "rejected"]
  BY DEF RejectCommit
<1> HIDE DEF e
<1>4. SameNotes
  BY <1>1, <1>3, SameNotesOfStatus DEF IInv, TypeOK
<1>5. SessionIsReplay'
  BY <1>2, <1>3, SessionsStay DEF IInv, RowsOK
<1>6. ProjectIsReplay'
  BY <1>2, <1>3, <1>4, ProjectStays DEF IInv, RowsOK
<1> QED BY <1>5, <1>6 DEF RowsOK

\* If nobody has written the project row since it was loaded, the approved notes follow the others.
LEMMA ReplayApprove == ASSUME IInv, RowsOK, NEW a \in Actors, ApproveCommit(a) PROVE RowsOK'
<1> DEFINE c == call[a]
           pr == proposals[c.p]
           e == [type |-> "proposal_approved", p |-> c.p]
           o == Outdated("project", project # c.row) \cup Resolved(c)
<1>1. c \in ApproveLoaded /\ c.p \in DOMAIN proposals
  BY CallOfOp DEF ApproveCommit, IInv, TypeOK, References
<1>2. e \in Event /\ e.type = "proposal_approved" /\ e.p = c.p
  BY <1>1 DEF ApproveLoaded, Event, ProposalEvent
<1>3. /\ Commit(a, e, o)
      /\ proposals' = [proposals EXCEPT ![c.p].status = "approved"]
      /\ session' = [session EXCEPT ![pr.session].dirty = FALSE]
      /\ project' = [notes |-> c.row.notes \o pr.notes, facts |-> c.row.facts, version |-> c.row.version + 1]
  BY DEF ApproveCommit
<1> HIDE DEF e
<1>4. SameNotes
  BY <1>1, <1>3, SameNotesOfStatus DEF IInv, TypeOK
<1>5. SessionIsReplay'
  <2>1. \A s \in Sessions : session'[s].notes = session[s].notes /\ session'[s].version = session[s].version
    BY <1>3 DEF IInv, TypeOK, SessionRow
  <2> HIDE DEF o
  <2> QED BY <1>2, <1>3, <2>1, SessionsStay DEF IInv, RowsOK
<1>6. ASSUME "project" \notin stale' PROVE project' = ProjectReplay'
  <2>1. project = c.row /\ "project" \notin stale /\ events' = Append(events, e)
    BY <1>3, <1>6 DEF Commit, Outdated
  <2>2. project = ProjectReplay /\ project \in ProjectRow
    BY <2>1 DEF RowsOK, ProjectIsReplay, ProjectReplay, Blank, IInv, TypeOK
  <2>3. ProjectReplay' = ProjectEffect'[e][project]
    BY <1>2, <1>4, <2>1, <2>2, ProjectReplayAppend DEF IInv
  <2>4. proposals'[c.p].notes = pr.notes
    BY <1>1, <1>4 DEF SameNotes
  <2>5. ProjectEffect'[e][project] = [notes |-> project.notes \o pr.notes, facts |-> project.facts,
                                      version |-> project.version + 1]
    BY <1>2, <2>2, <2>4 DEF ProjectEffect
  <2> QED BY <1>3, <2>1, <2>3, <2>5
<1>7. ProjectIsReplay'
  BY <1>6 DEF ProjectIsReplay, ProjectReplay, Blank
<1> QED BY <1>5, <1>7 DEF RowsOK

LEMMA ReplayFact == ASSUME IInv, RowsOK, NEW a \in Actors, FactCommit(a) PROVE RowsOK'
<1> DEFINE c == call[a]
           facts == [c.read[2] EXCEPT ![c.k] = c.v]
           new == <<c.read[1], facts>>
           written == Column(Payload(c.row), new, Payload(project))
           e == [type |-> "fact_set", k |-> c.k, v |-> c.v]
           o == Outdated("project", project # c.row \/ Payload(c.row) # c.read)
<1>1. c \in FactLoaded
  BY CallOfOp DEF FactCommit, IInv, TypeOK
<1>2. e \in Event /\ e.type = "fact_set" /\ e.k = c.k /\ e.v = c.v
  BY <1>1 DEF FactLoaded, Event, FactEvent
<1>3. Commit(a, e, o) /\ UNCHANGED <<session, proposals>>
      /\ project' = [notes |-> written[1], facts |-> written[2], version |-> c.row.version + 1]
  BY DEF FactCommit
<1> HIDE DEF e
<1>4. SameNotes
  BY <1>3, SameNotesOfSame
<1>5. SessionIsReplay'
  <2> HIDE DEF o
  <2> QED BY <1>2, <1>3, SessionsStay DEF IInv, RowsOK
<1>6. ASSUME "project" \notin stale' PROVE project' = ProjectReplay'
  <2>1. project = c.row /\ Payload(c.row) = c.read /\ "project" \notin stale /\ events' = Append(events, e)
    BY <1>3, <1>6 DEF Commit, Outdated
  <2>2. project = ProjectReplay /\ project \in ProjectRow
    BY <2>1 DEF RowsOK, ProjectIsReplay, ProjectReplay, Blank, IInv, TypeOK
  <2>3. ProjectReplay' = ProjectEffect'[e][project]
    BY <1>2, <1>4, <2>1, <2>2, ProjectReplayAppend DEF IInv
  <2>4. ProjectEffect'[e][project] = [notes |-> project.notes, facts |-> [project.facts EXCEPT ![c.k] = c.v],
                                      version |-> project.version + 1]
    BY <1>2, <2>2 DEF ProjectEffect
  <2>5. c.read[1] = project.notes /\ c.read[2] = project.facts
    BY <2>1 DEF Payload
  <2>6. written = new
    BY <2>1 DEF Column
  <2> QED BY <1>3, <2>1, <2>3, <2>4, <2>5, <2>6
<1>7. ProjectIsReplay'
  BY <1>6 DEF ProjectIsReplay, ProjectReplay, Blank
<1> QED BY <1>5, <1>7 DEF RowsOK

LEMMA ReplayOfSame == ASSUME RowsOK, UNCHANGED <<session, project, proposals, events, stale>> PROVE RowsOK'
<1>1. ProjectEffect' = ProjectEffect
  BY DEF ProjectEffect
<1> QED BY <1>1 DEF RowsOK, SessionIsReplay, ProjectIsReplay

\* A commit of a method that has read up-to-date rows does to them what its event says, and the
\* other rows stay what their events say.
THEOREM ReplayInductive == IInv /\ RowsOK /\ [Next]_vars => RowsOK'
<1> SUFFICES ASSUME IInv, RowsOK, [Next]_vars PROVE RowsOK'
  OBVIOUS
<1>1. CASE Next
  <2>1. PICK a \in Actors : Method(a)
    BY <1>1 DEF Next
  <2>2. \/ AppendCommit(a) \/ ProposeCommit(a) \/ ApproveCommit(a) \/ RejectCommit(a) \/ FactCommit(a)
        \/ UNCHANGED <<session, project, proposals, events, stale>>
    BY <2>1 DEF Method, AppendRead, ProposeRead, ResolveRead, FactRead, Enter, AppendLoad, ApproveLoad, FactLoad,
                Load, Abandon
  <2> QED BY <2>2, ReplayAppend, ReplayPropose, ReplayApprove, ReplayReject, ReplayFact, ReplayOfSame
<1>2. CASE UNCHANGED vars
  BY <1>2, ReplayOfSame DEF vars
<1> QED BY <1>1, <1>2

\* Whatever interleaving of reads, commits and crashes led there, a row that no outdated read has
\* overwritten is the fold of its events.
THEOREM RowsStayReplays == Spec => []RowsAreReplays
<1>1. ASSUME Init PROVE RowsOK
  <2>1. events = <<>> /\ project = Blank /\ \A s \in Sessions : session[s].notes = <<>> /\ session[s].version = 1
    BY <1>1 DEF Init, Blank
  <2>2. \A s \in Sessions : SessionReplay(s) = Fresh
    BY <2>1, FoldEmpty DEF SessionReplay
  <2>3. ProjectReplay = Blank
    BY <2>1, FoldEmpty DEF ProjectReplay
  <2> QED BY <2>1, <2>2, <2>3 DEF RowsOK, SessionIsReplay, ProjectIsReplay, SessionReplay, ProjectReplay, Fresh, Blank
<1>2. IInv /\ RowsOK => RowsAreReplays
  BY DEF IInv, RowsOK, RowsAreReplays
<1> QED BY <1>1, <1>2, InitIInv, Inductive, ReplayInductive, PTL DEF Spec

-----------------------------------------------------------------------------
(* The document index: types.                                                                  *)
Named == Texts \cup {"none"}
RowSet == [status : {"none", "pending", "failed", "indexed"}, hash : Named,
           count : {0} \cup {Index!Size(t) : t \in Named}]
Chunks == UNION {[K -> Named] : K \in SUBSET Nat}
Before == {"hash", "lookup", "skip", "read", "pending", "delete", "embed"}
Feeding == {"delete", "embed", "feed", "list"}
Job == [at : Before \cup Feeding \cup {"queued", "over"}, hash : Named, seen : RowSet, text : Named, i : Nat,
        bad : BOOLEAN, met : BOOLEAN]

IndexTypes ==
    /\ disk \in [Files -> {"absent"} \cup Texts]
    /\ rows \in [Index!Sources -> RowSet]
    /\ listed \in [Index!Sources -> SUBSET Nat]
    /\ vespa \in [Index!Sources -> Chunks]
    /\ job \in [Runs -> [Files -> Job]]
    /\ disturbed \in [Index!Sources -> BOOLEAN]

LEMMA RowFacts ==
  /\ Index!NoRow \in RowSet
  /\ \A h \in Named, t \in Named, st \in {"pending", "failed", "indexed"} :
        Index!Row(st, h, Index!Size(t)) \in RowSet /\ Index!Row(st, h, Index!Size(t)) # Index!NoRow
  /\ \A row \in RowSet, h \in Named : Index!Row("indexed", h, row.count) \in RowSet /\ Index!Row("indexed", h, row.count) # Index!NoRow
  /\ Index!Row("failed", "none", 0) \in RowSet /\ Index!Row("failed", "none", 0) # Index!NoRow
<1>1. Index!NoRow.status = "none"
  BY DEF Index!NoRow
<1>2. \A st, h, n : Index!Row(st, h, n).status = st
  BY DEF Index!Row
<1> QED BY <1>1, <1>2 DEF Index!NoRow, Index!Row, RowSet, Named

LEMMA EmptyIsChunks == <<>> \in Chunks /\ DOMAIN <<>> = {}
<1>1. <<>> \in [{} -> Named]
  OBVIOUS
<1> QED BY <1>1 DEF Chunks

LEMMA InitTypes == Index!Init => IndexTypes
<1> SUFFICES ASSUME Index!Init PROVE IndexTypes
  OBVIOUS
<1>1. Index!IdleJob \in Job
  BY RowFacts DEF Index!IdleJob, Job, Named
<1> QED BY <1>1, RowFacts, EmptyIsChunks DEF Index!Init, IndexTypes


-----------------------------------------------------------------------------
(* Who works on a source, and what they know of it *)

\* Workers that are at one source at the same time have both met, and as long as one that has met
\* works, the source is disturbed.
Apart ==
    \A r, q \in Runs, f, g \in Files :
        Index!Working(r, f) /\ Index!Working(q, g) /\ Index!Source(f) = Index!Source(g) /\ <<r, f>> # <<q, g>> =>
            job[r][f].met /\ job[q][g].met
MetDisturbs == \A r \in Runs, f \in Files : Index!Working(r, f) /\ job[r][f].met => disturbed[Index!Source(f)]

\* A source without a row has no chunks, and nobody who deletes or feeds any.
Unseen ==
    \A s \in Index!Sources : rows[s] = Index!NoRow =>
        /\ DOMAIN vespa[s] = {}
        /\ \A r \in Runs, f \in Files : Index!Source(f) = s => job[r][f].at \notin Feeding

\* What a worker with job j knows of its source: one that has met nobody knows what Vespa holds; at
\* an undisturbed source the text is that of the hash, and the row has not been called indexed yet.
Knows(j, s) ==
    /\ j.at \in Before => j.i = 0 /\ ~j.bad
    /\ ~j.met =>
        /\ j.at \in {"read", "pending"} /\ j.seen = Index!NoRow => DOMAIN vespa[s] = {}
        /\ j.at = "embed" => DOMAIN vespa[s] = {}
        /\ j.at = "feed" /\ ~j.bad => vespa[s] = [k \in 0..(j.i - 1) |-> j.text]
        /\ j.at = "list" => vespa[s] = Index!ChunksOf(j.text) /\ 0..(j.i - 1) \subseteq listed[s]
    /\ ~disturbed[s] =>
        /\ j.at = "skip" => vespa[s] = Index!ChunksOf(j.hash) /\ DOMAIN vespa[s] \subseteq listed[s]
        /\ j.at \in Feeding => j.text = j.hash /\ rows[s].status # "indexed"
Known == \A r \in Runs, f \in Files : Knows(job[r][f], Index!Source(f))

Searchable(s) ==
    rows[s].status = "indexed" /\ ~disturbed[s] =>
        vespa[s] = Index!ChunksOf(rows[s].hash) /\ DOMAIN vespa[s] \subseteq listed[s]

IndexInv == IndexTypes /\ Apart /\ MetDisturbs /\ Unseen /\ Known /\ \A s \in Index!Sources : Searchable(s)

LEMMA SourceOfFile == \A f \in Files : Index!Source(f) \in Index!Sources
BY DEF Index!Sources

\* A worker's step, from what it does to its own source: nobody else who works there knows anything
\* that could become false.
LEMMA WorkerStep ==
  ASSUME IndexInv, NEW r \in Runs, NEW f \in Files, Index!Working(r, f), NEW j \in Job,
         job' = [job EXCEPT ![r][f] = j], j.at # "over" => j.at # "queued" /\ j.met = job[r][f].met,
         UNCHANGED <<tree, disk>>,
         rows' \in [Index!Sources -> RowSet], listed' \in [Index!Sources -> SUBSET Nat],
         vespa' \in [Index!Sources -> Chunks], disturbed' \in [Index!Sources -> BOOLEAN],
         \A s \in Index!Sources : s # Index!Source(f) =>
            rows'[s] = rows[s] /\ listed'[s] = listed[s] /\ vespa'[s] = vespa[s] /\ disturbed'[s] = disturbed[s],
         job[r][f].met /\ disturbed[Index!Source(f)] => disturbed'[Index!Source(f)],
         \/ rows'[Index!Source(f)] # Index!NoRow
         \/ /\ rows'[Index!Source(f)] = rows[Index!Source(f)] /\ vespa'[Index!Source(f)] = vespa[Index!Source(f)]
            /\ j.at \notin Feeding,
         Knows(j, Index!Source(f))', Searchable(Index!Source(f))'
  PROVE  IndexInv'
<1> DEFINE s == Index!Source(f)
<1>1. s \in Index!Sources /\ \A g \in Files : Index!Source(g) \in Index!Sources
  BY SourceOfFile
<1>2. /\ \A g \in Files : Index!Source(g)' = Index!Source(g)
      /\ Index!Sources' = Index!Sources
  BY DEF Index!Source, Index!Sources
<1>3. /\ job' \in [Runs -> [Files -> Job]] /\ job'[r][f] = j
      /\ \A q \in Runs, g \in Files : <<q, g>> # <<r, f>> => job'[q][g] = job[q][g]
  BY DEF IndexInv, IndexTypes
<1>4. IndexTypes'
  BY <1>2, <1>3 DEF IndexInv, IndexTypes
<1>5. /\ Index!Working(r, f)' => j.met = job[r][f].met
      /\ \A q \in Runs, g \in Files : <<q, g>> # <<r, f>> => (Index!Working(q, g)' <=> Index!Working(q, g))
  BY <1>3 DEF Index!Working
<1> HIDE DEF s
<1>6. Apart'
  <2> SUFFICES ASSUME NEW q \in Runs, NEW u \in Runs, NEW g \in Files, NEW h \in Files,
                      Index!Working(q, g)', Index!Working(u, h)', Index!Source(g)' = Index!Source(h)', <<q, g>> # <<u, h>>
               PROVE  job'[q][g].met /\ job'[u][h].met
    BY DEF Apart
  <2>1. Index!Working(q, g) /\ Index!Working(u, h)
    BY <1>5
  <2>2. job[q][g].met /\ job[u][h].met
    BY <1>2, <2>1 DEF IndexInv, Apart
  <2> QED BY <1>3, <1>5, <2>2
<1>7. \A q \in Runs, g \in Files : <<q, g>> # <<r, f>> /\ Index!Source(g) = s /\ Index!Working(q, g) =>
         job[q][g].met /\ disturbed'[s]
  <2> SUFFICES ASSUME NEW q \in Runs, NEW g \in Files, <<q, g>> # <<r, f>>, Index!Source(g) = s, Index!Working(q, g)
               PROVE  job[q][g].met /\ disturbed'[s]
    OBVIOUS
  <2>1. job[q][g].met /\ job[r][f].met
    BY DEF IndexInv, Apart, s
  <2>2. disturbed[s]
    BY <2>1 DEF IndexInv, MetDisturbs, s
  <2> QED BY <2>1, <2>2 DEF s
<1>8. MetDisturbs'
  <2> SUFFICES ASSUME NEW q \in Runs, NEW g \in Files, Index!Working(q, g)', job'[q][g].met
               PROVE  disturbed'[Index!Source(g)]
    BY <1>2 DEF MetDisturbs
  <2>1. CASE <<q, g>> = <<r, f>>
    <3>1. job[r][f].met
      BY <1>3, <1>5, <2>1
    <3>2. disturbed[s]
      BY <3>1 DEF IndexInv, MetDisturbs, s
    <3> QED BY <2>1, <3>1, <3>2 DEF s
  <2>2. CASE <<q, g>> # <<r, f>>
    <3>1. Index!Working(q, g) /\ job[q][g].met
      BY <1>3, <1>5, <2>2
    <3>2. disturbed[Index!Source(g)]
      BY <3>1 DEF IndexInv, MetDisturbs
    <3> QED BY <1>1, <1>7, <2>2, <3>1, <3>2 DEF s
  <2> QED BY <2>1, <2>2
<1>9. Unseen'
  <2> SUFFICES ASSUME NEW t \in Index!Sources, rows'[t] = Index!NoRow
               PROVE  /\ DOMAIN vespa'[t] = {}
                      /\ \A q \in Runs, g \in Files : Index!Source(g) = t => job'[q][g].at \notin Feeding
    BY <1>2 DEF Unseen, Index!NoRow
  <2>1. rows[t] = Index!NoRow /\ vespa'[t] = vespa[t] /\ (t = s => j.at \notin Feeding)
    BY DEF s
  <2>2. DOMAIN vespa[t] = {} /\ \A q \in Runs, g \in Files : Index!Source(g) = t => job[q][g].at \notin Feeding
    BY <2>1 DEF IndexInv, Unseen
  <2> QED BY <1>3, <2>1, <2>2 DEF s
<1>10. Known'
  <2> SUFFICES ASSUME NEW q \in Runs, NEW g \in Files PROVE Knows(job[q][g], Index!Source(g))'
    BY <1>2 DEF Known
  <2>1. CASE <<q, g>> = <<r, f>>
    BY <1>2, <1>3, <2>1 DEF s
  <2>2. CASE <<q, g>> # <<r, f>> /\ Index!Source(g) # s
    <3>1. job'[q][g] = job[q][g] /\ Knows(job[q][g], Index!Source(g))
      BY <1>3, <2>2 DEF IndexInv, Known
    <3>2. LET t == Index!Source(g) IN rows'[t] = rows[t] /\ listed'[t] = listed[t] /\ vespa'[t] = vespa[t] /\ disturbed'[t] = disturbed[t]
      BY <1>1, <2>2 DEF s
    <3> QED BY <1>2, <3>1, <3>2 DEF Knows
  <2>3. CASE <<q, g>> # <<r, f>> /\ Index!Source(g) = s
    <3>1. job'[q][g] = job[q][g] /\ Knows(job[q][g], Index!Source(g))
      BY <1>3, <2>3 DEF IndexInv, Known
    <3>2. CASE Index!Working(q, g)
      <4>1. job[q][g].met /\ disturbed'[s]
        BY <1>7, <2>3, <3>2
      <4> QED BY <1>2, <2>3, <3>1, <4>1 DEF Knows
    <3>3. CASE ~Index!Working(q, g)
      BY <1>2, <3>1, <3>3 DEF Knows, Index!Working, Before, Feeding
    <3> QED BY <3>2, <3>3
  <2> QED BY <2>1, <2>2, <2>3
<1>11. \A t \in Index!Sources : Searchable(t)'
  <2> SUFFICES ASSUME NEW t \in Index!Sources PROVE Searchable(t)'
    OBVIOUS
  <2>1. CASE t = s
    BY <1>2, <2>1 DEF Searchable, s
  <2>2. CASE t # s
    <3>1. Searchable(t) /\ rows'[t] = rows[t] /\ listed'[t] = listed[t] /\ vespa'[t] = vespa[t] /\ disturbed'[t] = disturbed[t]
      BY <2>2 DEF IndexInv, s
    <3> QED BY <3>1 DEF Searchable
  <2> QED BY <2>1, <2>2
<1>12. (\A t \in Index!Sources : Searchable(t))'
  BY <1>2, <1>11
<1> QED BY <1>4, <1>6, <1>8, <1>9, <1>10, <1>12 DEF IndexInv


LEMMA IdleIsJob == Index!IdleJob \in Job /\ Index!IdleJob.at = "over" /\ \A s : Knows(Index!IdleJob, s)
BY RowFacts DEF Index!IdleJob, Job, Named, Knows, Before, Feeding

LEMMA JobFacts ==
  ASSUME IndexInv, NEW r \in Runs, NEW f \in Files
  PROVE  /\ job[r][f] \in Job /\ Knows(job[r][f], Index!Source(f)) /\ Index!Source(f) \in Index!Sources
         /\ Searchable(Index!Source(f)) /\ rows[Index!Source(f)] \in RowSet
         /\ listed[Index!Source(f)] \in SUBSET Nat /\ vespa[Index!Source(f)] \in Chunks
         /\ Index!Working(r, f) /\ job[r][f].met => disturbed[Index!Source(f)]
BY SourceOfFile DEF IndexInv, IndexTypes, Known, MetDisturbs

\* A step that changes nothing but the worker's job.
LEMMA MoveStep ==
  ASSUME IndexInv, NEW r \in Runs, NEW f \in Files, Index!Working(r, f), NEW j \in Job,
         job' = [job EXCEPT ![r][f] = j], j.at # "over" => j.at # "queued" /\ j.met = job[r][f].met,
         UNCHANGED <<tree, disk, rows, listed, vespa, disturbed>>,
         j.at \in Feeding => rows[Index!Source(f)] # Index!NoRow, Knows(j, Index!Source(f))
  PROVE  IndexInv'
<1>1. Index!Source(f)' = Index!Source(f) /\ Index!Sources' = Index!Sources
  BY DEF Index!Source, Index!Sources
<1>2. Knows(j, Index!Source(f))'
  BY <1>1 DEF Knows
<1>3. Searchable(Index!Source(f))'
  BY <1>1, JobFacts DEF Searchable
<1>4. /\ rows' \in [Index!Sources -> RowSet] /\ listed' \in [Index!Sources -> SUBSET Nat]
      /\ vespa' \in [Index!Sources -> Chunks] /\ disturbed' \in [Index!Sources -> BOOLEAN]
  BY DEF IndexInv, IndexTypes
<1>5. /\ \A s \in Index!Sources : s # Index!Source(f) =>
            rows'[s] = rows[s] /\ listed'[s] = listed[s] /\ vespa'[s] = vespa[s] /\ disturbed'[s] = disturbed[s]
      /\ job[r][f].met /\ disturbed[Index!Source(f)] => disturbed'[Index!Source(f)]
      /\ \/ rows'[Index!Source(f)] # Index!NoRow
         \/ /\ rows'[Index!Source(f)] = rows[Index!Source(f)] /\ vespa'[Index!Source(f)] = vespa[Index!Source(f)]
            /\ j.at \notin Feeding
  OBVIOUS
<1> QED BY <1>2, <1>3, <1>4, <1>5, WorkerStep

LEMMA OverStep ==
  ASSUME IndexInv, NEW r \in Runs, NEW f \in Files, Index!Working(r, f), Index!Over(r, f),
         UNCHANGED <<tree, disk, rows, listed, vespa, disturbed>>
  PROVE  IndexInv'
<1>1. PICK j \in Job : j = Index!IdleJob /\ j.at = "over" /\ Knows(j, Index!Source(f))
  BY IdleIsJob
<1>2. job' = [job EXCEPT ![r][f] = j]
  BY <1>1 DEF Index!Over, Index!Go
<1>3. j.at \notin Feeding
  BY <1>1 DEF Feeding
<1> QED BY <1>1, <1>2, <1>3, MoveStep

LEMMA HashStep == ASSUME IndexInv, NEW r \in Runs, NEW f \in Files, Index!Hash(r, f) PROVE IndexInv'
<1>1. /\ job[r][f].at = "hash" /\ Index!Working(r, f)
      /\ UNCHANGED <<tree, disk, rows, listed, vespa, disturbed>>
  BY DEF Index!Hash, Index!Working, Index!quiet, Index!stored
<1>2. CASE disk[f] = "absent"
  BY <1>1, <1>2, OverStep DEF Index!Hash
<1>3. CASE disk[f] # "absent"
  <2>1. PICK j : j = [job[r][f] EXCEPT !.at = "lookup", !.hash = disk[f]] /\ job' = [job EXCEPT ![r][f] = j]
    BY <1>3 DEF Index!Hash, Index!Go
  <2>2. disk[f] \in Named
    BY <1>3 DEF IndexInv, IndexTypes, Named
  <2>3. j \in Job /\ j.at = "lookup" /\ j.met = job[r][f].met /\ j.i = job[r][f].i /\ j.bad = job[r][f].bad
    BY <2>1, <2>2, JobFacts DEF Job, Before
  <2>4. Knows(j, Index!Source(f))
    BY <1>1, <2>3, JobFacts DEF Knows, Before, Feeding
  <2> QED BY <1>1, <2>1, <2>3, <2>4, MoveStep DEF Feeding
<1> QED BY <1>2, <1>3

LEMMA LookupStep == ASSUME IndexInv, NEW r \in Runs, NEW f \in Files, Index!Lookup(r, f) PROVE IndexInv'
<1> DEFINE s == Index!Source(f)
           same == /\ rows[s].hash = job[r][f].hash /\ rows[s].status \in {"indexed", "skipped"}
                   /\ ~run[r].force
<1>1. /\ job[r][f].at = "lookup" /\ Index!Working(r, f)
      /\ UNCHANGED <<tree, disk, rows, listed, vespa, disturbed>>
  BY DEF Index!Lookup, Index!Working, Index!quiet, Index!stored
<1>2. PICK j : /\ j = [job[r][f] EXCEPT !.at = IF same THEN "skip" ELSE "read", !.seen = rows[s]]
               /\ job' = [job EXCEPT ![r][f] = j]
  BY DEF Index!Lookup, Index!Go
<1>3. /\ j \in Job /\ j.at = (IF same THEN "skip" ELSE "read") /\ j.met = job[r][f].met /\ j.i = job[r][f].i
      /\ j.bad = job[r][f].bad /\ j.hash = job[r][f].hash /\ j.seen = rows[s]
  BY <1>2, JobFacts DEF Job, Before
<1>4. same => rows[s].status = "indexed"
  BY JobFacts DEF RowSet
<1>5. Searchable(s) /\ Knows(job[r][f], s) /\ (rows[s] = Index!NoRow => DOMAIN vespa[s] = {})
  BY JobFacts DEF IndexInv, Unseen
<1> HIDE DEF s
<1>6. Knows(j, s)
  BY <1>1, <1>3, <1>4, <1>5 DEF Knows, Searchable, Before, Feeding
<1>7. Knows(j, Index!Source(f))
  BY <1>6 DEF s
<1>8. j.at \in {"skip", "read"} /\ j.at \notin Feeding
  BY <1>3 DEF Feeding
<1> QED BY <1>1, <1>2, <1>3, <1>7, <1>8, MoveStep

LEMMA ReadKeeps == ASSUME IndexInv, NEW r \in Runs, NEW f \in Files, Index!Read(r, f) PROVE IndexInv'
<1>1. /\ job[r][f].at = "read" /\ Index!Working(r, f)
      /\ UNCHANGED <<tree, disk, rows, listed, vespa, disturbed>>
  BY DEF Index!Read, Index!Working, Index!quiet, Index!stored
<1>2. CASE Index!Over(r, f)
  BY <1>1, <1>2, OverStep
<1>3. CASE disk[f] # "absent" /\ Index!Go(r, f, [job[r][f] EXCEPT !.at = "pending", !.text = disk[f]])
  <2>1. PICK j : j = [job[r][f] EXCEPT !.at = "pending", !.text = disk[f]] /\ job' = [job EXCEPT ![r][f] = j]
    BY <1>3 DEF Index!Go
  <2>2. disk[f] \in Named
    BY <1>3 DEF IndexInv, IndexTypes, Named
  <2>3. /\ j \in Job /\ j.at = "pending" /\ j.met = job[r][f].met /\ j.i = job[r][f].i /\ j.bad = job[r][f].bad
        /\ j.seen = job[r][f].seen
    BY <2>1, <2>2, JobFacts DEF Job, Before
  <2>4. Knows(j, Index!Source(f))
    BY <1>1, <2>3, JobFacts DEF Knows, Before, Feeding
  <2> QED BY <1>1, <2>1, <2>3, <2>4, MoveStep DEF Feeding
<1> QED BY <1>2, <1>3 DEF Index!Read

\* A worker that deletes, embeds, feeds or lists has given the source a row.
LEMMA FeederHasRow ==
  ASSUME IndexInv, NEW r \in Runs, NEW f \in Files, job[r][f].at \in Feeding
  PROVE  rows[Index!Source(f)] # Index!NoRow
BY SourceOfFile DEF IndexInv, Unseen

LEMMA EmbedStep == ASSUME IndexInv, NEW r \in Runs, NEW f \in Files, Index!Embed(r, f) PROVE IndexInv'
<1>1. /\ job[r][f].at = "embed" /\ Index!Working(r, f)
      /\ UNCHANGED <<tree, disk, rows, listed, vespa, disturbed>>
  BY DEF Index!Embed, Index!Working, Index!quiet, Index!stored
<1>2. PICK j : j = [job[r][f] EXCEPT !.at = "feed"] /\ job' = [job EXCEPT ![r][f] = j]
  BY DEF Index!Embed, Index!Go
<1>3. /\ j \in Job /\ j.at = "feed" /\ j.met = job[r][f].met /\ j.i = 0 /\ j.text = job[r][f].text /\ j.hash = job[r][f].hash
  <2>1. job[r][f].i = 0 /\ job[r][f] \in Job
    BY <1>1, JobFacts DEF Knows, Before
  <2>2. "feed" \in Feeding
    BY DEF Feeding
  <2> QED BY <1>2, <2>1, <2>2 DEF Job
<1>4. ~j.met => vespa[Index!Source(f)] = [k \in 0..(j.i - 1) |-> j.text]
  <2> SUFFICES ASSUME ~j.met PROVE vespa[Index!Source(f)] = [k \in 0..(j.i - 1) |-> j.text]
    OBVIOUS
  <2>1. DOMAIN vespa[Index!Source(f)] = {} /\ vespa[Index!Source(f)] \in Chunks
    BY <1>1, <1>3, JobFacts DEF Knows
  <2>2. 0..(j.i - 1) = {}
    BY <1>3
  <2> QED BY <2>1, <2>2 DEF Chunks
<1>5. Knows(j, Index!Source(f))
  BY <1>1, <1>3, <1>4, JobFacts DEF Knows, Before, Feeding
<1>6. rows[Index!Source(f)] # Index!NoRow
  BY <1>1, FeederHasRow DEF Feeding
<1> QED BY <1>1, <1>2, <1>3, <1>5, <1>6, MoveStep


\* A step in which the worker also writes the row of its source.
LEMMA RowStep ==
  ASSUME IndexInv, NEW r \in Runs, NEW f \in Files, Index!Working(r, f), NEW j \in Job, NEW row \in RowSet,
         row # Index!NoRow, job' = [job EXCEPT ![r][f] = j],
         j.at # "over" => j.at # "queued" /\ j.met = job[r][f].met,
         Index!Upsert(Index!Source(f), row), UNCHANGED <<tree, disk, listed, vespa>>,
         \/ UNCHANGED disturbed
         \/ \E b \in BOOLEAN : disturbed' = [disturbed EXCEPT ![Index!Source(f)] = b]
                               /\ (job[r][f].met /\ disturbed[Index!Source(f)] => b),
         Knows(j, Index!Source(f))', Searchable(Index!Source(f))'
  PROVE  IndexInv'
<1>1. Index!Source(f) \in Index!Sources
  BY SourceOfFile
<1>2. /\ rows' \in [Index!Sources -> RowSet] /\ listed' \in [Index!Sources -> SUBSET Nat]
      /\ vespa' \in [Index!Sources -> Chunks] /\ disturbed' \in [Index!Sources -> BOOLEAN]
  BY <1>1 DEF IndexInv, IndexTypes, Index!Upsert
<1>3. /\ rows'[Index!Source(f)] = row
      /\ \A s \in Index!Sources : s # Index!Source(f) =>
            rows'[s] = rows[s] /\ listed'[s] = listed[s] /\ vespa'[s] = vespa[s] /\ disturbed'[s] = disturbed[s]
      /\ job[r][f].met /\ disturbed[Index!Source(f)] => disturbed'[Index!Source(f)]
  BY <1>1 DEF IndexInv, IndexTypes, Index!Upsert
<1> QED BY <1>2, <1>3, WorkerStep

LEMMA SkipStep == ASSUME IndexInv, NEW r \in Runs, NEW f \in Files, Index!Skip(r, f) PROVE IndexInv'
<1> DEFINE s == Index!Source(f)
           o == job[r][f]
<1>1. /\ o.at = "skip" /\ Index!Working(r, f) /\ UNCHANGED <<tree, disk, listed, vespa, disturbed>>
  BY DEF Index!Skip, Index!Working, Index!quiet
<1>2. o \in Job /\ Knows(o, s) /\ s \in Index!Sources
  BY JobFacts
<1>3. PICK row \in RowSet : row = Index!Row("indexed", o.hash, o.seen.count) /\ row # Index!NoRow
  BY <1>2, RowFacts DEF Job
<1>4. Index!Upsert(s, row)
  BY <1>3 DEF Index!Skip
<1>5. PICK j \in Job : j = Index!IdleJob /\ j.at = "over" /\ \A x : Knows(j, x)
  BY IdleIsJob
<1>6. job' = [job EXCEPT ![r][f] = j]
  BY <1>5 DEF Index!Skip, Index!Over, Index!Go
<1>7. Knows(j, Index!Source(f))'
  BY <1>5, IdleIsJob DEF Knows, Index!IdleJob, Before, Feeding
<1>8. Searchable(Index!Source(f))'
  <2>1. Index!Source(f)' = s /\ rows'[s] = row /\ row.hash = o.hash
    BY <1>1, <1>2, <1>3, <1>4 DEF IndexInv, IndexTypes, Index!Upsert, Index!Source, Index!Row
  <2> QED BY <1>1, <1>2, <2>1 DEF Searchable, Knows
<1> QED BY <1>1, <1>3, <1>4, <1>5, <1>6, <1>7, <1>8, RowStep

LEMMA PendingStep == ASSUME IndexInv, NEW r \in Runs, NEW f \in Files, Index!Pending(r, f) PROVE IndexInv'
<1> DEFINE s == Index!Source(f)
           o == job[r][f]
           b == (disturbed[s] /\ o.met) \/ o.text # o.hash
<1>1. /\ o.at = "pending" /\ Index!Working(r, f) /\ UNCHANGED <<tree, disk, listed, vespa>>
      /\ disturbed' = [disturbed EXCEPT ![s] = b]
  BY DEF Index!Pending, Index!Working, Index!quiet
<1>2. o \in Job /\ Knows(o, s) /\ s \in Index!Sources /\ (o.met => disturbed[s]) /\ disturbed[s] \in BOOLEAN
  BY <1>1, JobFacts DEF IndexInv, IndexTypes
<1>3. PICK row \in RowSet : row = Index!Row("pending", o.hash, Index!Size(o.text)) /\ row # Index!NoRow
  BY <1>2, RowFacts DEF Job
<1>4. Index!Upsert(s, row)
  BY <1>3 DEF Index!Pending
<1>5. PICK j : /\ j = [o EXCEPT !.at = IF o.seen = Index!NoRow THEN "embed" ELSE "delete"]
               /\ job' = [job EXCEPT ![r][f] = j]
  BY DEF Index!Pending, Index!Go
<1>6. /\ j \in Job /\ j.at = (IF o.seen = Index!NoRow THEN "embed" ELSE "delete") /\ j.met = o.met /\ j.i = o.i
      /\ j.bad = o.bad /\ j.text = o.text /\ j.hash = o.hash
  BY <1>2, <1>5 DEF Job, Before, Feeding
<1>7. rows'[s] = row /\ disturbed'[s] = b /\ row.status = "pending" /\ Index!Source(f)' = s
  BY <1>1, <1>2, <1>3, <1>4 DEF IndexInv, IndexTypes, Index!Upsert, Index!Source, Index!Row
<1>8. Knows(j, Index!Source(f))'
  <2>1. j.i = 0 /\ ~j.bad /\ (~j.met /\ j.at = "embed" => DOMAIN vespa[s] = {})
    BY <1>1, <1>2, <1>6 DEF Knows, Before
  <2>2. ~disturbed'[s] => j.text = j.hash /\ rows'[s].status # "indexed"
    BY <1>6, <1>7
  <2>3. j.at \in {"embed", "delete"}
    BY <1>6
  <2> QED BY <1>1, <1>7, <2>1, <2>2, <2>3 DEF Knows
<1>9. Searchable(Index!Source(f))'
  BY <1>7 DEF Searchable
<1>10. b \in BOOLEAN /\ (o.met /\ disturbed[s] => b)
  OBVIOUS
<1>11. \E x \in BOOLEAN : disturbed' = [disturbed EXCEPT ![s] = x] /\ (o.met /\ disturbed[s] => x)
  BY <1>1, <1>10
<1>12. j.at # "over" => j.at # "queued" /\ j.met = job[r][f].met
  BY <1>6
<1> HIDE DEF b
<1> QED BY <1>1, <1>3, <1>4, <1>5, <1>6, <1>8, <1>9, <1>11, <1>12, RowStep

LEMMA FedStep == ASSUME IndexInv, NEW r \in Runs, NEW f \in Files, Index!Fed(r, f) PROVE IndexInv'
<1> DEFINE s == Index!Source(f)
           o == job[r][f]
<1>1. /\ o.at = "feed" /\ o.i = Index!Size(o.text) /\ Index!Working(r, f)
      /\ UNCHANGED <<tree, disk, listed, vespa, disturbed>>
  BY DEF Index!Fed, Index!Working, Index!quiet
<1>2. o \in Job /\ Knows(o, s) /\ s \in Index!Sources /\ rows[s] # Index!NoRow
  BY <1>1, JobFacts, FeederHasRow DEF Feeding
<1>3. CASE o.bad
  <2>1. PICK row \in RowSet : row = Index!Row("failed", o.hash, Index!Size(o.text)) /\ row # Index!NoRow
    BY <1>2, RowFacts DEF Job
  <2>2. PICK j \in Job : j = Index!IdleJob /\ j.at = "over"
    BY IdleIsJob
  <2>3. Index!Upsert(s, row) /\ job' = [job EXCEPT ![r][f] = j]
    BY <1>3, <2>1, <2>2 DEF Index!Fed, Index!Over, Index!Go
  <2>4. Knows(j, Index!Source(f))'
    BY <2>2 DEF Knows, Index!IdleJob, Before, Feeding
  <2>5. Searchable(Index!Source(f))'
    <3>1. Index!Source(f)' = s /\ rows'[s] = row /\ row.status = "failed"
      BY <1>1, <1>2, <2>1, <2>3 DEF IndexInv, IndexTypes, Index!Upsert, Index!Source, Index!Row
    <3> QED BY <3>1 DEF Searchable
  <2> QED BY <1>1, <2>1, <2>2, <2>3, <2>4, <2>5, RowStep
<1>4. CASE ~o.bad
  <2>1. PICK j : j = [o EXCEPT !.at = "list", !.i = 0] /\ job' = [job EXCEPT ![r][f] = j]
    BY <1>4 DEF Index!Fed, Index!Go
  <2>2. j \in Job /\ j.at = "list" /\ j.met = o.met /\ j.i = 0 /\ j.text = o.text /\ j.hash = o.hash
    BY <1>2, <2>1 DEF Job, Feeding
  <2>3. ~j.met => vespa[s] = Index!ChunksOf(j.text)
    BY <1>1, <1>2, <1>4, <2>2 DEF Knows, Index!ChunksOf
  <2>4. 0..(j.i - 1) \subseteq listed[s]
    BY <2>2
  <2>5. Knows(j, s)
    BY <1>1, <1>2, <2>2, <2>3, <2>4 DEF Knows, Before, Feeding
  <2>6. UNCHANGED rows
    BY <1>4 DEF Index!Fed
  <2> QED BY <1>1, <1>2, <2>1, <2>2, <2>5, <2>6, MoveStep
<1> QED BY <1>3, <1>4

LEMMA IndexedStep == ASSUME IndexInv, NEW r \in Runs, NEW f \in Files, Index!Indexed(r, f) PROVE IndexInv'
<1> DEFINE s == Index!Source(f)
           o == job[r][f]
<1>1. /\ o.at = "list" /\ o.i = Index!Size(o.text) /\ Index!Working(r, f)
      /\ UNCHANGED <<tree, disk, listed, vespa, disturbed>>
  BY DEF Index!Indexed, Index!Working, Index!quiet
<1>2. o \in Job /\ Knows(o, s) /\ s \in Index!Sources /\ (o.met => disturbed[s])
  BY <1>1, JobFacts
<1>3. PICK row \in RowSet : row = Index!Row("indexed", o.hash, Index!Size(o.text)) /\ row # Index!NoRow
  BY <1>2, RowFacts DEF Job
<1>4. PICK j \in Job : j = Index!IdleJob /\ j.at = "over"
  BY IdleIsJob
<1>5. Index!Upsert(s, row) /\ job' = [job EXCEPT ![r][f] = j]
  BY <1>3, <1>4 DEF Index!Indexed, Index!Over, Index!Go
<1>6. Knows(j, Index!Source(f))'
  BY <1>4 DEF Knows, Index!IdleJob, Before, Feeding
<1>7. Searchable(Index!Source(f))'
  <2>1. Index!Source(f)' = s /\ rows'[s] = row /\ row.hash = o.hash
    BY <1>1, <1>2, <1>3, <1>5 DEF IndexInv, IndexTypes, Index!Upsert, Index!Source, Index!Row
  <2>2. ~disturbed[s] => vespa[s] = Index!ChunksOf(o.text) /\ 0..(o.i - 1) \subseteq listed[s] /\ o.text = o.hash
    BY <1>1, <1>2 DEF Knows, Feeding
  <2>3. DOMAIN Index!ChunksOf(o.text) = 0..(o.i - 1)
    BY <1>1 DEF Index!ChunksOf
  <2>4. ~disturbed[s] => vespa[s] = Index!ChunksOf(o.hash) /\ DOMAIN vespa[s] \subseteq listed[s]
    BY <2>2, <2>3
  <2> QED BY <1>1, <2>1, <2>4 DEF Searchable
<1> QED BY <1>1, <1>3, <1>4, <1>5, <1>6, <1>7, RowStep


\* A step in which the worker changes what Vespa holds of its source.
LEMMA VespaStep ==
  ASSUME IndexInv, NEW r \in Runs, NEW f \in Files, Index!Working(r, f), job[r][f].at \in Feeding, NEW j \in Job,
         NEW held \in Chunks, job' = [job EXCEPT ![r][f] = j], j.at \in Feeding, j.met = job[r][f].met,
         j.text = job[r][f].text, j.hash = job[r][f].hash,
         vespa' = [vespa EXCEPT ![Index!Source(f)] = held], UNCHANGED <<tree, disk, rows, listed, disturbed>>,
         j.at = "delete" => j.i = 0 /\ ~j.bad,
         j.at = "feed" /\ ~j.bad /\ ~j.met => held = [k \in 0..(j.i - 1) |-> j.text],
         j.at \in {"delete", "feed"}
  PROVE  IndexInv'
<1> DEFINE s == Index!Source(f)
<1>1. /\ s \in Index!Sources /\ rows[s] # Index!NoRow /\ Knows(job[r][f], s) /\ Index!Source(f)' = s
  BY JobFacts, FeederHasRow DEF Index!Source
<1>2. /\ rows' \in [Index!Sources -> RowSet] /\ listed' \in [Index!Sources -> SUBSET Nat]
      /\ vespa' \in [Index!Sources -> Chunks] /\ disturbed' \in [Index!Sources -> BOOLEAN]
  BY <1>1 DEF IndexInv, IndexTypes
<1>3. vespa'[s] = held /\ \A x \in Index!Sources : x # s => vespa'[x] = vespa[x]
  BY <1>1 DEF IndexInv, IndexTypes
<1>4. ~disturbed[s] => j.text = j.hash /\ rows[s].status # "indexed"
  BY <1>1 DEF Knows
<1>5. Knows(j, Index!Source(f))'
  BY <1>1, <1>3, <1>4 DEF Knows, Before, Feeding
<1>6. Searchable(Index!Source(f))'
  BY <1>1, <1>4 DEF Searchable
<1>7. j.at # "over" /\ j.at # "queued"
  OBVIOUS
<1> QED BY <1>1, <1>2, <1>3, <1>5, <1>6, <1>7, WorkerStep

LEMMA DeleteStep == ASSUME IndexInv, NEW r \in Runs, NEW f \in Files, Index!Delete(r, f) PROVE IndexInv'
<1> DEFINE s == Index!Source(f)
           o == job[r][f]
<1>1. /\ o.at = "delete" /\ Index!Working(r, f) /\ o.at \in Feeding
      /\ UNCHANGED <<tree, disk, rows, listed, disturbed>>
  BY DEF Index!Delete, Index!Working, Index!quiet, Feeding
<1>2. o \in Job /\ Knows(o, s) /\ s \in Index!Sources /\ vespa[s] \in Chunks /\ rows[s] # Index!NoRow
  BY <1>1, JobFacts, FeederHasRow
<1>3. o.i = 0 /\ ~o.bad
  BY <1>1, <1>2 DEF Knows, Before
<1>4. CASE vespa[s] = <<>>
  <2>1. PICK j : j = [o EXCEPT !.at = "embed"] /\ job' = [job EXCEPT ![r][f] = j] /\ vespa' = vespa
    BY <1>4 DEF Index!Delete, Index!Go
  <2>2. j \in Job /\ j.at = "embed" /\ j.met = o.met /\ j.i = o.i /\ j.bad = o.bad /\ j.text = o.text /\ j.hash = o.hash
    BY <1>2, <2>1 DEF Job, Before
  <2>3. DOMAIN vespa[s] = {}
    BY <1>4
  <2>4. Knows(j, s)
    BY <1>1, <1>2, <1>3, <2>2, <2>3 DEF Knows, Before, Feeding
  <2> QED BY <1>1, <1>2, <2>1, <2>2, <2>4, MoveStep
<1>5. CASE vespa[s] # <<>>
  <2>1. PICK j \in Job : j = o
    BY <1>2
  <2>2. job' = job /\ job' = [job EXCEPT ![r][f] = j]
    BY <1>5, <2>1 DEF Index!Delete, IndexInv, IndexTypes
  <2>3. ASSUME NEW i \in DOMAIN vespa[s],
               vespa' = [vespa EXCEPT ![s] = [k \in DOMAIN vespa[s] \ {i} |-> vespa[s][k]]]
        PROVE  IndexInv'
    <3>1. [k \in DOMAIN vespa[s] \ {i} |-> vespa[s][k]] \in Chunks
      <4>1. PICK K \in SUBSET Nat : vespa[s] \in [K -> Named]
        BY <1>2 DEF Chunks
      <4>2. K \ {i} \in SUBSET Nat /\ [k \in K \ {i} |-> vespa[s][k]] \in [K \ {i} -> Named]
        BY <4>1
      <4>3. DOMAIN vespa[s] = K
        BY <4>1
      <4> QED BY <4>2, <4>3 DEF Chunks
    <3> QED BY <1>1, <1>3, <2>1, <2>2, <2>3, <3>1, VespaStep
  <2>4. CASE UNCHANGED vespa
    <3>1. Knows(j, Index!Source(f)) /\ j.at # "over" /\ j.at # "queued" /\ j.met = o.met
      BY <1>1, <1>2, <2>1
    <3> QED BY <1>1, <1>2, <2>2, <2>4, <3>1, MoveStep
  <2> QED BY <1>5, <2>3, <2>4 DEF Index!Delete
<1> QED BY <1>4, <1>5

LEMMA FeedStep == ASSUME IndexInv, NEW r \in Runs, NEW f \in Files, Index!Feed(r, f) PROVE IndexInv'
<1> DEFINE s == Index!Source(f)
           o == job[r][f]
<1>1. /\ o.at = "feed" /\ Index!Working(r, f) /\ o.at \in Feeding
      /\ UNCHANGED <<tree, disk, rows, listed, disturbed>>
  BY DEF Index!Feed, Index!Working, Index!quiet, Feeding
<1>2. o \in Job /\ Knows(o, s) /\ s \in Index!Sources /\ vespa[s] \in Chunks /\ rows[s] # Index!NoRow
  BY <1>1, JobFacts, FeederHasRow
<1>3. CASE /\ vespa' = [vespa EXCEPT ![s] = [k \in DOMAIN vespa[s] \cup {o.i} |-> IF k = o.i THEN o.text ELSE vespa[s][k]]]
           /\ Index!Go(r, f, [o EXCEPT !.i = @ + 1])
  <2>1. PICK j : j = [o EXCEPT !.i = @ + 1] /\ job' = [job EXCEPT ![r][f] = j]
    BY <1>3 DEF Index!Go
  <2>2. /\ j \in Job /\ j.at = "feed" /\ j.met = o.met /\ j.i = o.i + 1 /\ j.bad = o.bad /\ j.text = o.text
        /\ j.hash = o.hash /\ o.i \in Nat /\ o.text \in Named
    BY <1>1, <1>2, <2>1 DEF Job
  <2>3. PICK held : held = [k \in DOMAIN vespa[s] \cup {o.i} |-> IF k = o.i THEN o.text ELSE vespa[s][k]]
    OBVIOUS
  <2>4. held \in Chunks
    BY <1>2, <2>2, <2>3 DEF Chunks
  <2>5. ~j.bad /\ ~j.met => held = [k \in 0..(j.i - 1) |-> j.text]
    <3> SUFFICES ASSUME ~j.bad, ~j.met PROVE held = [k \in 0..(j.i - 1) |-> j.text]
      OBVIOUS
    <3>1. vespa[s] = [k \in 0..(o.i - 1) |-> o.text]
      BY <1>1, <1>2, <2>2 DEF Knows
    <3>2. 0..(o.i - 1) \cup {o.i} = 0..(j.i - 1)
      BY <2>2
    <3> QED BY <2>2, <2>3, <3>1, <3>2
  <2>6. vespa' = [vespa EXCEPT ![s] = held]
    BY <1>3, <2>3
  <2> QED BY <1>1, <2>1, <2>2, <2>4, <2>5, <2>6, VespaStep
<1>4. CASE Index!Go(r, f, [o EXCEPT !.i = @ + 1, !.bad = TRUE]) /\ UNCHANGED vespa
  <2>1. PICK j : j = [o EXCEPT !.i = @ + 1, !.bad = TRUE] /\ job' = [job EXCEPT ![r][f] = j]
    BY <1>4 DEF Index!Go
  <2>2. j \in Job /\ j.at = "feed" /\ j.met = o.met /\ j.bad /\ j.text = o.text /\ j.hash = o.hash
    <3>1. o.i + 1 \in Nat /\ TRUE \in BOOLEAN
      BY <1>2 DEF Job
    <3>2. j \in Job
      BY <1>2, <2>1, <3>1 DEF Job
    <3>3. j.bad = TRUE /\ j.at = "feed" /\ j.met = o.met /\ j.text = o.text /\ j.hash = o.hash
      BY <1>1, <1>2, <2>1 DEF Job
    <3> QED BY <3>2, <3>3
  <2>3. Knows(j, s)
    BY <1>1, <1>2, <2>2 DEF Knows, Before, Feeding
  <2> QED BY <1>1, <1>2, <1>4, <2>1, <2>2, <2>3, MoveStep
<1> QED BY <1>3, <1>4 DEF Index!Feed

LEMMA ListStep == ASSUME IndexInv, NEW r \in Runs, NEW f \in Files, Index!List(r, f) PROVE IndexInv'
<1> DEFINE s == Index!Source(f)
           o == job[r][f]
<1>1. /\ o.at = "list" /\ Index!Working(r, f) /\ o.at \in Feeding
      /\ UNCHANGED <<tree, disk, rows, vespa, disturbed>> /\ listed' = [listed EXCEPT ![s] = @ \cup {o.i}]
  BY DEF Index!List, Index!Working, Index!quiet, Feeding
<1>2. /\ o \in Job /\ Knows(o, s) /\ s \in Index!Sources /\ listed[s] \in SUBSET Nat /\ rows[s] # Index!NoRow
      /\ Searchable(s) /\ Index!Source(f)' = s
  BY <1>1, JobFacts, FeederHasRow DEF Index!Source
<1>3. PICK j : j = [o EXCEPT !.i = @ + 1] /\ job' = [job EXCEPT ![r][f] = j]
  BY DEF Index!List, Index!Go
<1>4. /\ j \in Job /\ j.at = "list" /\ j.met = o.met /\ j.i = o.i + 1 /\ j.text = o.text /\ j.hash = o.hash /\ o.i \in Nat
  BY <1>1, <1>2, <1>3 DEF Job
<1>5. /\ listed' \in [Index!Sources -> SUBSET Nat] /\ listed'[s] = listed[s] \cup {o.i}
      /\ \A x \in Index!Sources : x # s => listed'[x] = listed[x]
  BY <1>1, <1>2, <1>4 DEF IndexInv, IndexTypes
<1>6. 0..(j.i - 1) \subseteq 0..(o.i - 1) \cup {o.i}
  BY <1>4
<1>7. Knows(j, Index!Source(f))'
  BY <1>1, <1>2, <1>4, <1>5, <1>6 DEF Knows, Before, Feeding
<1>8. Searchable(Index!Source(f))'
  BY <1>1, <1>2, <1>5 DEF Searchable
<1>9. /\ rows' \in [Index!Sources -> RowSet] /\ vespa' \in [Index!Sources -> Chunks]
      /\ disturbed' \in [Index!Sources -> BOOLEAN]
  BY <1>1 DEF IndexInv, IndexTypes
<1>10. j.at # "over" => j.at # "queued" /\ j.met = o.met
  BY <1>4
<1> QED BY <1>1, <1>2, <1>3, <1>4, <1>5, <1>7, <1>8, <1>9, <1>10, WorkerStep

LEMMA RaiseStep == ASSUME IndexInv, NEW r \in Runs, NEW f \in Files, Index!Raise(r, f) PROVE IndexInv'
BY OverStep DEF Index!Raise, Index!quiet, Index!stored


\* Another worker begins: those that work at the source have met it.
LEMMA BeginStep == ASSUME IndexInv, NEW r \in Runs, NEW f \in Files, Index!Begin(r, f) PROVE IndexInv'
<1> DEFINE s == Index!Source(f)
           met == Index!Others(r, f) # {}
<1>1. /\ job[r][f].at = "queued" /\ UNCHANGED <<tree, disk, rows, listed, vespa>>
      /\ disturbed' = [disturbed EXCEPT ![s] = @ \/ met]
      /\ job' = [q \in Runs |-> [g \in Files |->
                     CASE q = r /\ g = f                   -> [Index!IdleJob EXCEPT !.at = "hash", !.met = met]
                       [] <<q, g>> \in Index!Others(r, f) -> [job[q][g] EXCEPT !.met = TRUE]
                       [] OTHER                            -> job[q][g]]]
  BY DEF Index!Begin, Index!quiet
<1>2. /\ s \in Index!Sources /\ \A g \in Files : Index!Source(g) \in Index!Sources /\ Index!Source(g)' = Index!Source(g)
      /\ Index!Sources' = Index!Sources
  BY <1>1, SourceOfFile DEF Index!Source, Index!Sources
<1>3. /\ <<r, f>> \notin Index!Others(r, f)
      /\ \A q \in Runs, g \in Files : <<q, g>> \in Index!Others(r, f) <=>
            <<q, g>> # <<r, f>> /\ Index!Source(g) = s /\ Index!Working(q, g)
  BY DEF Index!Others
<1>4. ~Index!Working(r, f)
  BY <1>1 DEF Index!Working
<1>5. /\ job'[r][f] = [Index!IdleJob EXCEPT !.at = "hash", !.met = met]
      /\ \A q \in Runs, g \in Files : <<q, g>> \in Index!Others(r, f) => job'[q][g] = [job[q][g] EXCEPT !.met = TRUE]
      /\ \A q \in Runs, g \in Files : <<q, g>> # <<r, f>> /\ <<q, g>> \notin Index!Others(r, f) => job'[q][g] = job[q][g]
  BY <1>1, <1>3
<1>6. met \in BOOLEAN /\ Index!IdleJob \in Job
  BY IdleIsJob
<1> HIDE DEF met
<1>7. /\ job'[r][f] \in Job /\ job'[r][f].at = "hash" /\ job'[r][f].met = met /\ job'[r][f].i = 0 /\ ~job'[r][f].bad
  BY <1>5, <1>6 DEF Index!IdleJob, Job, Before
<1>8. \A q \in Runs, g \in Files : <<q, g>> \in Index!Others(r, f) =>
         /\ job'[q][g] \in Job /\ job'[q][g].met /\ met
         /\ job'[q][g].at = job[q][g].at /\ job'[q][g].i = job[q][g].i /\ job'[q][g].bad = job[q][g].bad
  <2> SUFFICES ASSUME NEW q \in Runs, NEW g \in Files, <<q, g>> \in Index!Others(r, f)
               PROVE  /\ job'[q][g] \in Job /\ job'[q][g].met /\ met
                      /\ job'[q][g].at = job[q][g].at /\ job'[q][g].i = job[q][g].i /\ job'[q][g].bad = job[q][g].bad
    OBVIOUS
  <2>1. job'[q][g] = [job[q][g] EXCEPT !.met = TRUE] /\ job[q][g] \in Job /\ TRUE \in BOOLEAN
    BY <1>5, JobFacts
  <2>2. job'[q][g] \in Job /\ job'[q][g].met = TRUE
    BY <2>1 DEF Job
  <2>3. job'[q][g].at = job[q][g].at /\ job'[q][g].i = job[q][g].i /\ job'[q][g].bad = job[q][g].bad
    BY <2>1 DEF Job
  <2> QED BY <2>2, <2>3 DEF met
<1>9. \A q \in Runs, g \in Files : job'[q][g] \in Job
  <2> SUFFICES ASSUME NEW q \in Runs, NEW g \in Files PROVE job'[q][g] \in Job
    OBVIOUS
  <2>1. CASE <<q, g>> = <<r, f>>
    BY <1>7, <2>1
  <2>2. CASE <<q, g>> \in Index!Others(r, f)
    BY <1>8, <2>2
  <2>3. CASE <<q, g>> # <<r, f>> /\ <<q, g>> \notin Index!Others(r, f)
    BY <1>5, <2>3, JobFacts
  <2> QED BY <2>1, <2>2, <2>3
<1>10. disturbed' \in [Index!Sources -> BOOLEAN] /\ disturbed'[s] = (disturbed[s] \/ met)
       /\ \A x \in Index!Sources : x # s => disturbed'[x] = disturbed[x]
  BY <1>1, <1>2, <1>6 DEF IndexInv, IndexTypes
<1>11. job' = [q \in Runs |-> [g \in Files |-> job'[q][g]]]
  BY <1>1
<1>12. IndexTypes'
  <2>1. job' \in [Runs -> [Files -> Job]]
    BY <1>9, <1>11
  <2> QED BY <1>1, <1>2, <1>10, <2>1 DEF IndexInv, IndexTypes
<1>13. \A q \in Runs, g \in Files : <<q, g>> # <<r, f>> => job'[q][g].at = job[q][g].at /\ (job[q][g].met => job'[q][g].met)
  <2> SUFFICES ASSUME NEW q \in Runs, NEW g \in Files, <<q, g>> # <<r, f>>
               PROVE  job'[q][g].at = job[q][g].at /\ (job[q][g].met => job'[q][g].met)
    OBVIOUS
  <2>1. CASE <<q, g>> \in Index!Others(r, f)
    BY <1>8, <2>1
  <2>2. CASE <<q, g>> \notin Index!Others(r, f)
    BY <1>5, <2>2
  <2> QED BY <2>1, <2>2
<1>14. \A q \in Runs, g \in Files : Index!Working(q, g)' => <<q, g>> = <<r, f>> \/ Index!Working(q, g)
  BY <1>13 DEF Index!Working
<1>15. Apart'
  <2> SUFFICES ASSUME NEW q \in Runs, NEW u \in Runs, NEW g \in Files, NEW h \in Files,
                      Index!Working(q, g)', Index!Working(u, h)', Index!Source(g)' = Index!Source(h)', <<q, g>> # <<u, h>>
               PROVE  job'[q][g].met /\ job'[u][h].met
    BY DEF Apart
  <2>1. Index!Source(g) = Index!Source(h)
    BY <1>2
  <2>2. CASE <<q, g>> = <<r, f>>
    <3>1. <<u, h>> \in Index!Others(r, f)
      BY <1>3, <1>14, <2>1, <2>2
    <3> QED BY <1>7, <1>8, <2>2, <3>1
  <2>3. CASE <<u, h>> = <<r, f>>
    <3>1. <<q, g>> \in Index!Others(r, f)
      BY <1>3, <1>14, <2>1, <2>3
    <3> QED BY <1>7, <1>8, <2>3, <3>1
  <2>4. CASE <<q, g>> # <<r, f>> /\ <<u, h>> # <<r, f>>
    <3>1. job[q][g].met /\ job[u][h].met
      BY <1>14, <2>1, <2>4 DEF IndexInv, Apart
    <3> QED BY <1>13, <2>4, <3>1
  <2> QED BY <2>2, <2>3, <2>4
<1>16. MetDisturbs'
  <2> SUFFICES ASSUME NEW q \in Runs, NEW g \in Files, Index!Working(q, g)', job'[q][g].met
               PROVE  disturbed'[Index!Source(g)]
    BY <1>2 DEF MetDisturbs
  <2>1. CASE <<q, g>> = <<r, f>>
    BY <1>7, <1>10, <2>1
  <2>2. CASE <<q, g>> \in Index!Others(r, f)
    BY <1>3, <1>8, <1>10, <2>2
  <2>3. CASE <<q, g>> # <<r, f>> /\ <<q, g>> \notin Index!Others(r, f)
    <3>1. disturbed[Index!Source(g)]
      BY <1>5, <1>14, <2>3 DEF IndexInv, MetDisturbs
    <3> QED BY <1>2, <1>10, <3>1
  <2> QED BY <2>1, <2>2, <2>3
<1>17. Unseen'
  <2> SUFFICES ASSUME NEW x \in Index!Sources, rows[x] = Index!NoRow
               PROVE  /\ DOMAIN vespa[x] = {}
                      /\ \A q \in Runs, g \in Files : Index!Source(g) = x => job'[q][g].at \notin Feeding
    BY <1>1, <1>2 DEF Unseen, Index!NoRow
  <2>1. DOMAIN vespa[x] = {} /\ \A q \in Runs, g \in Files : Index!Source(g) = x => job[q][g].at \notin Feeding
    BY DEF IndexInv, Unseen
  <2> QED BY <1>7, <1>13, <2>1 DEF Feeding
<1>18. Known'
  <2> SUFFICES ASSUME NEW q \in Runs, NEW g \in Files PROVE Knows(job[q][g], Index!Source(g))'
    BY <1>2 DEF Known
  <2>1. CASE <<q, g>> = <<r, f>>
    BY <1>7, <2>1 DEF Knows, Before, Feeding
  <2>2. CASE <<q, g>> \in Index!Others(r, f)
    <3>1. job'[q][g].met /\ disturbed'[s] /\ Index!Source(g) = s
      BY <1>3, <1>8, <1>10, <2>2
    <3>2. Knows(job[q][g], s)
      BY <3>1 DEF IndexInv, Known
    <3> QED BY <1>2, <1>8, <2>2, <3>1, <3>2 DEF Knows
  <2>3. CASE <<q, g>> # <<r, f>> /\ <<q, g>> \notin Index!Others(r, f)
    <3>1. job'[q][g] = job[q][g] /\ Knows(job[q][g], Index!Source(g))
      BY <1>5, <2>3 DEF IndexInv, Known
    <3>2. disturbed'[Index!Source(g)] = FALSE => disturbed[Index!Source(g)] = FALSE
      BY <1>2, <1>10 DEF IndexInv, IndexTypes
    <3>3. disturbed'[Index!Source(g)] \in BOOLEAN /\ disturbed[Index!Source(g)] \in BOOLEAN
      BY <1>2, <1>10 DEF IndexInv, IndexTypes
    <3> QED BY <1>1, <1>2, <3>1, <3>2, <3>3 DEF Knows
  <2> QED BY <2>1, <2>2, <2>3
<1>19. (\A x \in Index!Sources : Searchable(x))'
  <2> SUFFICES ASSUME NEW x \in Index!Sources PROVE Searchable(x)'
    BY <1>2
  <2>1. Searchable(x)
    BY DEF IndexInv
  <2>2. ~disturbed'[x] => ~disturbed[x]
    BY <1>10
  <2> QED BY <1>1, <2>1, <2>2 DEF Searchable
<1> QED BY <1>12, <1>15, <1>16, <1>17, <1>18, <1>19 DEF IndexInv


\* A run that hands its files to the pool, or is killed, leaves no worker of its own at any source.
LEMMA ResetStep ==
  ASSUME IndexInv, NEW r \in Runs, NEW jobs \in [Files -> Job], job' = [job EXCEPT ![r] = jobs],
         \A g \in Files : jobs[g].at \in {"queued", "over"} /\ jobs[g].i = 0 /\ ~jobs[g].bad,
         UNCHANGED <<tree, disk, rows, listed, vespa, disturbed>>
  PROVE  IndexInv'
<1>1. /\ \A g \in Files : job'[r][g].at \in {"queued", "over"} /\ job'[r][g].i = 0 /\ ~job'[r][g].bad
      /\ \A q \in Runs, g \in Files : q # r => job'[q][g] = job[q][g]
      /\ job' \in [Runs -> [Files -> Job]]
  BY DEF IndexInv, IndexTypes
<1>2. /\ \A g \in Files : Index!Source(g)' = Index!Source(g)
      /\ Index!Sources' = Index!Sources
  BY DEF Index!Source, Index!Sources
<1>3. IndexTypes'
  BY <1>1, <1>2 DEF IndexInv, IndexTypes
<1>4. \A q \in Runs, g \in Files : Index!Working(q, g)' => Index!Working(q, g) /\ job'[q][g] = job[q][g]
  BY <1>1 DEF Index!Working
<1>5. Apart'
  <2> SUFFICES ASSUME NEW q \in Runs, NEW u \in Runs, NEW g \in Files, NEW h \in Files,
                      Index!Working(q, g)', Index!Working(u, h)', Index!Source(g)' = Index!Source(h)', <<q, g>> # <<u, h>>
               PROVE  job'[q][g].met /\ job'[u][h].met
    BY DEF Apart
  <2>1. job[q][g].met /\ job[u][h].met
    BY <1>2, <1>4 DEF IndexInv, Apart
  <2> QED BY <1>4, <2>1
<1>6. MetDisturbs'
  BY <1>2, <1>4 DEF IndexInv, MetDisturbs
<1>7. Unseen'
  <2> SUFFICES ASSUME NEW x \in Index!Sources, rows[x] = Index!NoRow
               PROVE  /\ DOMAIN vespa[x] = {}
                      /\ \A q \in Runs, g \in Files : Index!Source(g) = x => job'[q][g].at \notin Feeding
    BY <1>2 DEF Unseen, Index!NoRow
  <2>1. DOMAIN vespa[x] = {} /\ \A q \in Runs, g \in Files : Index!Source(g) = x => job[q][g].at \notin Feeding
    BY DEF IndexInv, Unseen
  <2> QED BY <1>1, <2>1 DEF Feeding
<1>8. Known'
  <2> SUFFICES ASSUME NEW q \in Runs, NEW g \in Files PROVE Knows(job[q][g], Index!Source(g))'
    BY <1>2 DEF Known
  <2>1. CASE q = r
    BY <1>1, <2>1 DEF Knows, Before, Feeding
  <2>2. CASE q # r
    <3>1. job'[q][g] = job[q][g] /\ Knows(job[q][g], Index!Source(g))
      BY <1>1, <2>2 DEF IndexInv, Known
    <3> QED BY <1>2, <3>1 DEF Knows
  <2> QED BY <2>1, <2>2
<1>9. (\A x \in Index!Sources : Searchable(x))'
  <2> SUFFICES ASSUME NEW x \in Index!Sources PROVE Searchable(x)'
    BY <1>2
  <2>1. Searchable(x)
    BY DEF IndexInv
  <2> QED BY <2>1 DEF Searchable
<1> QED BY <1>3, <1>5, <1>6, <1>7, <1>8, <1>9 DEF IndexInv

\* Whatever else happens, the jobs and the stores stay.
LEMMA CalmStep ==
  ASSUME IndexInv, UNCHANGED <<tree, rows, listed, vespa, disturbed, job>>, disk' \in [Files -> {"absent"} \cup Texts]
  PROVE  IndexInv'
<1>1. /\ \A g \in Files : Index!Source(g)' = Index!Source(g)
      /\ Index!Sources' = Index!Sources
  BY DEF Index!Source, Index!Sources
<1>2. IndexTypes'
  BY <1>1 DEF IndexInv, IndexTypes
<1>3. Apart' /\ MetDisturbs' /\ Unseen'
  BY <1>1 DEF IndexInv, Apart, MetDisturbs, Unseen, Index!Working, Index!NoRow
<1>4. Known'
  BY <1>1 DEF IndexInv, Known, Knows
<1>5. (\A x \in Index!Sources : Searchable(x))'
  BY <1>1 DEF IndexInv, Searchable
<1> QED BY <1>2, <1>3, <1>4, <1>5 DEF IndexInv

\* Vespa is down: the row of a source says so, whoever works there.
LEMMA MarkStep == ASSUME IndexInv, NEW r \in Runs, NEW f \in Files, Index!Mark(r, f) PROVE IndexInv'
<1> DEFINE s == Index!Source(f)
<1>1. PICK row \in RowSet : row = Index!Row("failed", "none", 0) /\ row # Index!NoRow /\ row.status = "failed"
  BY RowFacts DEF Index!Row
<1>2. UNCHANGED <<tree, disk, listed, vespa, job, disturbed>> /\ rows' = [rows EXCEPT ![s] = row]
  BY <1>1 DEF Index!Mark, Index!Upsert
<1>3. /\ s \in Index!Sources /\ \A g \in Files : Index!Source(g) \in Index!Sources /\ Index!Source(g)' = Index!Source(g)
      /\ Index!Sources' = Index!Sources
  BY <1>2, SourceOfFile DEF Index!Source, Index!Sources
<1>4. /\ rows' \in [Index!Sources -> RowSet] /\ rows'[s] = row
      /\ \A x \in Index!Sources : x # s => rows'[x] = rows[x]
  BY <1>2, <1>3 DEF IndexInv, IndexTypes
<1> HIDE DEF s
<1>5. IndexTypes'
  BY <1>2, <1>3, <1>4 DEF IndexInv, IndexTypes
<1>6. Apart' /\ MetDisturbs'
  BY <1>2, <1>3 DEF IndexInv, Apart, MetDisturbs, Index!Working
<1>7. Unseen'
  BY <1>1, <1>2, <1>3, <1>4 DEF IndexInv, Unseen, Index!NoRow
<1>8. Known'
  <2> SUFFICES ASSUME NEW q \in Runs, NEW g \in Files PROVE Knows(job[q][g], Index!Source(g))'
    BY <1>3 DEF Known
  <2>1. Knows(job[q][g], Index!Source(g))
    BY DEF IndexInv, Known
  <2> QED BY <1>1, <1>2, <1>3, <1>4, <2>1 DEF Knows
<1>9. (\A x \in Index!Sources : Searchable(x))'
  BY <1>1, <1>2, <1>3, <1>4 DEF IndexInv, Searchable
<1> QED BY <1>5, <1>6, <1>7, <1>8, <1>9 DEF IndexInv

LEMMA IndexInit == Index!Init => IndexInv
<1> SUFFICES ASSUME Index!Init PROVE IndexInv
  OBVIOUS
<1>1. IndexTypes
  BY InitTypes
<1>2. \A r \in Runs, f \in Files : job[r][f] = Index!IdleJob
  BY DEF Index!Init
<1>3. \A s \in Index!Sources : rows[s] = Index!NoRow /\ DOMAIN vespa[s] = {}
  BY EmptyIsChunks DEF Index!Init
<1>4. Apart /\ MetDisturbs
  BY <1>2, IdleIsJob DEF Apart, MetDisturbs, Index!Working
<1>5. Unseen
  BY <1>2, <1>3, IdleIsJob DEF Unseen, Feeding
<1>6. Known
  BY <1>2, IdleIsJob DEF Known
<1>7. \A s \in Index!Sources : Searchable(s)
  BY <1>3 DEF Searchable, Index!NoRow
<1> QED BY <1>1, <1>4, <1>5, <1>6, <1>7 DEF IndexInv

LEMMA IndexKept == IndexInv /\ [Index!Next]_(Index!vars) => IndexInv'
<1> SUFFICES ASSUME IndexInv, [Index!Next]_(Index!vars) PROVE IndexInv'
  OBVIOUS
<1> USE DEF Index!stored
<1>1. disk \in [Files -> {"absent"} \cup Texts]
  BY DEF IndexInv, IndexTypes
<1>2. ASSUME NEW f \in Files, Index!Edit(f) PROVE IndexInv'
  BY <1>1, <1>2, CalmStep DEF Index!Edit
<1>3. ASSUME NEW r \in Runs, Index!Start(r) \/ Index!Tool(r) \/ Index!Bootstrap(r) \/ Index!Finish(r) PROVE IndexInv'
  BY <1>1, <1>3, CalmStep DEF Index!Start, Index!Tool, Index!Bootstrap, Index!Finish
<1>4. ASSUME NEW r \in Runs, NEW f \in Files, Index!Scan(r, f) PROVE IndexInv'
  BY <1>1, <1>4, CalmStep DEF Index!Scan
<1>5. ASSUME NEW r \in Runs, Index!Crash(r) PROVE IndexInv'
  <2>1. PICK jobs \in [Files -> Job] : jobs = [f \in Files |-> Index!IdleJob]
    BY IdleIsJob
  <2>2. \A g \in Files : jobs[g].at \in {"queued", "over"} /\ jobs[g].i = 0 /\ ~jobs[g].bad
    BY <2>1 DEF Index!IdleJob
  <2> QED BY <1>5, <2>1, <2>2, ResetStep DEF Index!Crash
<1>6. ASSUME NEW r \in Runs, Index!Healthy(r) PROVE IndexInv'
  <2>1. CASE UNCHANGED job
    BY <1>1, <1>6, <2>1, CalmStep DEF Index!Healthy
  <2>2. PICK jobs : jobs = [f \in Files |-> IF f \in run[r].todo \cap Index!Present
                                            THEN [Index!IdleJob EXCEPT !.at = "queued"] ELSE Index!IdleJob]
    OBVIOUS
  <2>3. [Index!IdleJob EXCEPT !.at = "queued"] \in Job
    BY IdleIsJob DEF Job
  <2>4. jobs \in [Files -> Job]
    BY <2>2, <2>3, IdleIsJob
  <2>5. \A g \in Files : jobs[g].at \in {"queued", "over"} /\ jobs[g].i = 0 /\ ~jobs[g].bad
    BY <2>2 DEF Index!IdleJob
  <2>6. CASE job' = [job EXCEPT ![r] = jobs]
    BY <1>6, <2>4, <2>5, <2>6, ResetStep DEF Index!Healthy
  <2> QED BY <1>6, <2>1, <2>2, <2>6 DEF Index!Healthy
<1>7. ASSUME NEW r \in Runs, NEW f \in Files, Index!Work(r, f) PROVE IndexInv'
  BY <1>7, BeginStep, HashStep, LookupStep, SkipStep, ReadKeeps, PendingStep, DeleteStep, EmbedStep, FeedStep, FedStep,
     ListStep, IndexedStep, RaiseStep DEF Index!Work
<1>8. CASE UNCHANGED Index!vars
  BY <1>1, <1>8, CalmStep DEF Index!vars
<1> QED BY <1>2, <1>3, <1>4, <1>5, <1>6, <1>7, <1>8, MarkStep DEF Index!Next, Index!Proceed

\* An indexed row of an undisturbed source is what Vespa holds, for any files, texts, lengths of chunks,
\* processes and threads, and any number of edits, failures and crashes.
THEOREM IndexedStaysSearchable == Index!Spec => []Index!IndexedIsSearchable /\ []IndexedIsSearchable
<1>1. IndexInv => Index!IndexedIsSearchable /\ IndexedIsSearchable
  BY DEF IndexInv, Searchable, Index!IndexedIsSearchable, IndexedIsSearchable
<1> QED BY <1>1, IndexInit, IndexKept, PTL DEF Index!Spec

-----------------------------------------------------------------------------
(* The cartographer *)

LEMMA SameMeasures ==
  /\ \A S : (Map!IsFiniteSet(S) <=> IsFiniteSet(S)) /\ Map!Cardinality(S) = Cardinality(S)
  /\ \A step, start, s : Map!Fold(step, start, s) = Fold(step, start, s)
<1>1. \A S : Map!IsFiniteSet(S) <=> IsFiniteSet(S)
  BY DEF IsFiniteSet, Map!IsFiniteSet
<1>2. \A S : Map!Cardinality(S) = Cardinality(S)
  BY DEF Cardinality, Map!Cardinality
<1>3. \A step, start, s : Map!Fold(step, start, s) = Fold(step, start, s)
  BY DEF Fold, Map!Fold
<1> QED BY <1>1, <1>2, <1>3

\* Sections within their shares.
Within(K) == \A s \in DOMAIN Share : Map!Total(Map!InSection(K, s)) <= Share[s]

LEMMA Numbered ==
  ASSUME NEW S, IsFiniteSet(S), NEW n \in Nat, Cardinality(S) <= n
  PROVE  \E f \in [S -> 1..n] : \A x, y \in S : f[x] = f[y] => x = y
<1>1. PICK g : g \in Bijection(1..Cardinality(S), S)
  BY FS_CardinalityType DEF ExistsBijection
<1>2. \A x \in S : \E i \in 1..Cardinality(S) : g[i] = x
  BY <1>1 DEF Bijection, Surjection
<1> DEFINE f == [x \in S |-> CHOOSE i \in 1..Cardinality(S) : g[i] = x]
<1>3. \A x \in S : f[x] \in 1..Cardinality(S) /\ g[f[x]] = x
  BY <1>2
<1>4. Cardinality(S) \in Nat
  BY FS_CardinalityType
<1>5. 1..Cardinality(S) \subseteq 1..n
  BY <1>4
<1>6. f \in [S -> 1..n]
  BY <1>3, <1>5
<1> QED BY <1>3, <1>6

LEMMA TokensAreFinite ==
  ASSUME NEW K, IsFiniteSet(K), NEW size, \A k \in K : size[k] \in Nat
  PROVE  IsFiniteSet(Map!Tokens(size, K))
<1> DEFINE f == [k \in K |-> {k} \X (1..size[k])]
           S == {{k} \X (1..size[k]) : k \in K}
<1>1. f \in Surjection(K, S)
  BY DEF Surjection
<1>2. IsFiniteSet(S)
  BY <1>1, FS_Surjection
<1>3. ASSUME NEW k \in K PROVE IsFiniteSet({k} \X (1..size[k]))
  <2>1. IsFiniteSet({k}) /\ IsFiniteSet(1..size[k])
    <3>1. size[k] \in Int /\ 1 \in Int
      OBVIOUS
    <3> QED BY <3>1, FS_Singleton, FS_Interval, Zenon
  <2> QED BY <2>1, FS_Product
<1>4. IsFiniteSet(UNION S)
  BY <1>2, <1>3, FS_UNION
<1> QED BY <1>4 DEF Map!Tokens

LEMMA TokenIs ==
  ASSUME NEW K, NEW size
  PROVE  \A t : t \in Map!Tokens(size, K) <=> \E k \in K : \E i \in 1..size[k] : t = <<k, i>>
  BY DEF Map!Tokens

LEMMA SharesMakeTheBudget ==
  ASSUME Map!ConfigIsValid, NEW K \in SUBSET Slugs, Within(K)
  PROVE  Map!Total(K) <= TokenBudget
<1> DEFINE T(s) == Map!Tokens(SizeOf, Map!InSection(K, s))
           U == Map!Tokens(SizeOf, K)
           W == Map!Tokens(Share, DOMAIN Share)
           F == [s \in DOMAIN Share |-> CHOOSE f \in [T(s) -> 1..Share[s]] : \A x, y \in T(s) : f[x] = f[y] => x = y]
           G == [t \in U |-> <<SectionOf[t[1]], F[SectionOf[t[1]]][t]>>]
<1>1. /\ IsFiniteSet(Slugs) /\ IsFiniteSet(DOMAIN Share)
      /\ \A k \in Slugs : SectionOf[k] \in DOMAIN Share /\ SizeOf[k] \in Nat
      /\ \A s \in DOMAIN Share : Share[s] \in Nat
      /\ Cardinality(W) <= TokenBudget /\ TokenBudget \in Nat
  BY SameMeasures DEF Map!ConfigIsValid
<1>2. ASSUME NEW s \in DOMAIN Share
      PROVE  /\ F[s] \in [T(s) -> 1..Share[s]]
             /\ \A x, y \in T(s) : F[s][x] = F[s][y] => x = y
  <2>1. Map!InSection(K, s) \in SUBSET Slugs
    BY DEF Map!InSection
  <2>2. IsFiniteSet(Map!InSection(K, s))
    BY <1>1, <2>1, FS_Subset
  <2>3. IsFiniteSet(T(s))
    BY <1>1, <2>1, <2>2, TokensAreFinite
  <2>4. Cardinality(T(s)) <= Share[s]
    BY SameMeasures DEF Within, Map!Total
  <2>5. \E f \in [T(s) -> 1..Share[s]] : \A x, y \in T(s) : f[x] = f[y] => x = y
    BY <1>1, <2>3, <2>4, Numbered
  <2> QED BY <2>5
<1>3. ASSUME NEW t \in U
      PROVE  /\ t[1] \in K /\ SectionOf[t[1]] \in DOMAIN Share /\ t \in T(SectionOf[t[1]])
             /\ G[t] = <<SectionOf[t[1]], F[SectionOf[t[1]]][t]>> /\ F[SectionOf[t[1]]][t] \in 1..Share[SectionOf[t[1]]]
  <2>1. PICK k \in K : \E i \in 1..SizeOf[k] : t = <<k, i>>
    BY TokenIs
  <2>2. t[1] = k /\ SectionOf[k] \in DOMAIN Share /\ k \in Map!InSection(K, SectionOf[k])
    BY <1>1, <2>1 DEF Map!InSection
  <2>3. t \in T(SectionOf[k])
    BY <2>1, <2>2, TokenIs
  <2>4. F[SectionOf[k]][t] \in 1..Share[SectionOf[k]]
    BY <1>2, <2>2, <2>3
  <2> HIDE DEF F
  <2> QED BY <2>2, <2>3, <2>4
<1> HIDE DEF F
<1>4. G \in Injection(U, W)
  <2>1. ASSUME NEW t \in U PROVE G[t] \in W
    BY <1>3, TokenIs
  <2>2. ASSUME NEW t \in U, NEW u \in U, G[t] = G[u] PROVE t = u
    <3>1. SectionOf[t[1]] = SectionOf[u[1]] /\ F[SectionOf[t[1]]][t] = F[SectionOf[u[1]]][u]
      BY <1>3, <2>2
    <3> QED BY <1>2, <1>3, <3>1
  <2>3. G \in [U -> W]
    BY <2>1
  <2> HIDE DEF G
  <2> QED BY <2>2, <2>3 DEF Injection, IsInjective
<1>5. IsFiniteSet(W)
  BY <1>1, TokensAreFinite
<1>6. Cardinality(U) <= Cardinality(W)
  BY <1>4, <1>5, FS_Injection
<1>7. IsFiniteSet(U)
  BY <1>4, <1>5, FS_Injection
<1>8. Cardinality(U) \in Nat /\ Cardinality(W) \in Nat
  BY <1>5, <1>7, FS_CardinalityType
<1> QED BY <1>1, <1>6, <1>8, SameMeasures DEF Map!Total


LEMMA FitKeepsShares ==
  ASSUME Map!ConfigIsValid, NEW K \in SUBSET Slugs, Within(K), NEW k \in Slugs, Map!Fits(K, k)
  PROVE  Within(K \cup {k})
<1> DEFINE s == SectionOf[k]
           A == Map!InSection(K, s)
           T == Map!Tokens(SizeOf, A)
           N == {k} \X (1..SizeOf[k])
<1>1. /\ IsFiniteSet(Slugs) /\ \A x \in Slugs : SizeOf[x] \in Nat
      /\ \A x \in DOMAIN Share : Share[x] \in Nat
      /\ s \in DOMAIN Share
  BY SameMeasures DEF Map!ConfigIsValid
<1>2. A \in SUBSET Slugs /\ IsFiniteSet(A)
  <2>1. A \in SUBSET Slugs
    BY DEF Map!InSection
  <2> QED BY <1>1, <2>1, FS_Subset
<1>3. IsFiniteSet(T) /\ Cardinality(T) \in Nat
  <2>1. IsFiniteSet(T)
    BY <1>1, <1>2, TokensAreFinite
  <2> QED BY <2>1, FS_CardinalityType
<1>4. IsFiniteSet(N) /\ Cardinality(N) = SizeOf[k]
  <2>1. IsFiniteSet({k}) /\ Cardinality({k}) = 1
    BY FS_Singleton, Zenon
  <2>2. SizeOf[k] \in Nat
    BY <1>1
  <2>3. IsFiniteSet(1..SizeOf[k]) /\ Cardinality(1..SizeOf[k]) = SizeOf[k]
    BY <2>2, FS_Interval
  <2>4. IsFiniteSet(N) /\ Cardinality(N) = 1 * SizeOf[k]
    BY <2>1, <2>3, FS_Product
  <2> QED BY <2>2, <2>4
<1>5. Cardinality(T \cup N) <= Cardinality(T) + SizeOf[k]
  <2>1. Cardinality(T \cup N) = Cardinality(T) + Cardinality(N) - Cardinality(T \cap N)
    BY <1>3, <1>4, FS_Union
  <2>2. IsFiniteSet(T \cap N)
    BY <1>3, FS_Intersection
  <2>3. Cardinality(T \cap N) \in Nat
    BY <2>2, FS_CardinalityType
  <2>4. SizeOf[k] \in Nat
    BY <1>1
  <2> QED BY <1>3, <1>4, <2>1, <2>3, <2>4
<1>6. Map!InSection(K \cup {k}, s) = A \cup {k}
  BY DEF Map!InSection
<1>7. Map!Tokens(SizeOf, A \cup {k}) = T \cup N
  <2>1. \A t : t \in Map!Tokens(SizeOf, A \cup {k}) <=> t \in T \cup N
    BY TokenIs
  <2> QED BY <2>1
<1>8. Map!Total(Map!InSection(K \cup {k}, s)) <= Share[s]
  <2>1. Cardinality(T) + SizeOf[k] <= Share[s]
    BY SameMeasures DEF Map!Fits, Map!Total
  <2>2. Map!Total(Map!InSection(K \cup {k}, s)) = Cardinality(T \cup N)
    BY <1>6, <1>7, SameMeasures DEF Map!Total
  <2>3. Share[s] \in Nat /\ SizeOf[k] \in Nat
    BY <1>1
  <2>4. IsFiniteSet(T \cup N)
    BY <1>3, <1>4, FS_Union
  <2>5. Cardinality(T \cup N) \in Nat
    BY <2>4, FS_CardinalityType
  <2> QED BY <1>3, <1>5, <2>1, <2>2, <2>3, <2>5
<1>9. ASSUME NEW x \in DOMAIN Share, x # s PROVE Map!Total(Map!InSection(K \cup {k}, x)) <= Share[x]
  <2>1. Map!InSection(K \cup {k}, x) = Map!InSection(K, x)
    BY <1>9 DEF Map!InSection
  <2> QED BY <2>1 DEF Within
<1> QED BY <1>8, <1>9 DEF Within

LEMMA NothingKeepsShares == ASSUME Map!ConfigIsValid PROVE Within({})
<1>1. ASSUME NEW s \in DOMAIN Share PROVE Map!Total(Map!InSection({}, s)) <= Share[s]
  <2>1. Map!Tokens(SizeOf, Map!InSection({}, s)) = {}
    BY DEF Map!Tokens, Map!InSection
  <2>2. Map!Total(Map!InSection({}, s)) = 0
    BY <2>1, FS_EmptySet, SameMeasures DEF Map!Total
  <2>3. Share[s] \in Nat
    BY DEF Map!ConfigIsValid
  <2> QED BY <2>2, <2>3
<1> QED BY <1>1 DEF Within

LEMMA BudgetKeepsShares ==
  ASSUME Map!ConfigIsValid, NEW map, NEW K \in SUBSET Slugs, NEW kept \in Map!WithinBudget(map, K)
  PROVE  kept \subseteq K /\ Within(kept)
<1> DEFINE V == {Q \in SUBSET K : Within(Q)}
<1>1. PICK s \in Map!SetToSeqs(K) : kept = Fold(Map!Keep, {}, s)
  BY SameMeasures DEF Map!WithinBudget
<1>2. IsFiniteSet(K)
  BY SameMeasures, FS_Subset DEF Map!ConfigIsValid
<1>3. Cardinality(K) \in Nat
  BY <1>2, FS_CardinalityType
<1>4. s \in [1..Cardinality(K) -> K]
  BY <1>1, SameMeasures DEF Map!SetToSeqs
<1>5. s \in Seq(K) /\ Len(s) = Cardinality(K)
  BY <1>3, <1>4
<1>6. ASSUME NEW i \in 1..Len(s), NEW v \in V PROVE Map!Keep[s[i]][v] \in V
  <2>1. s[i] \in K /\ s[i] \in Slugs /\ v \in SUBSET Slugs
    BY <1>4, <1>5, <1>6
  <2>2. Map!Keep[s[i]][v] = IF Map!Fits(v, s[i]) THEN v \cup {s[i]} ELSE v
    BY <2>1 DEF Map!Keep
  <2>3. CASE Map!Fits(v, s[i])
    <3>1. Within(v \cup {s[i]})
      BY <2>1, <2>3, FitKeepsShares
    <3> QED BY <2>1, <2>2, <2>3, <3>1
  <2>4. CASE ~Map!Fits(v, s[i])
    BY <2>2, <2>4
  <2> QED BY <2>3, <2>4
<1>7. {} \in V
  BY NothingKeepsShares
<1>8. Fold(Map!Keep, {}, s) \in V
  <2> HIDE DEF V
  <2> QED BY <1>5, <1>6, <1>7, FoldStays
<1> QED BY <1>1, <1>8

LEMMA MergedIsMap ==
  ASSUME Map!ConfigIsValid, NEW batch \in SUBSET Map!Observations, NEW map, Map!IsMap(map), NEW n \in Nat
  PROVE  /\ Map!IsMap(Map!Merged(batch, map, n))
         /\ DOMAIN Map!Merged(batch, map, n) = (DOMAIN map \ Map!Obsolete(batch, map)) \cup Map!Observed(batch)
         /\ \A k \in DOMAIN Map!Merged(batch, map, n) :
               /\ k \in DOMAIN map \ Map!Obsolete(batch, map) => Map!Merged(batch, map, n)[k].first = map[k].first
               /\ k \notin DOMAIN map \ Map!Obsolete(batch, map) => Map!Merged(batch, map, n)[k].first = n
<1> DEFINE D == DOMAIN map \ Map!Obsolete(batch, map)
           First(k) == IF k \in D THEN map[k].first ELSE n
           Last(k) == IF k \in Map!Observed(batch) THEN n ELSE map[k].last
<1>1. Map!Merged(batch, map, n) = [k \in D \cup Map!Observed(batch) |->
          [first |-> First(k), last |-> Last(k), priority |-> Map!Priority(k, First(k), Last(k), n)]]
  BY DEF Map!Merged
<1>2. D \cup Map!Observed(batch) \subseteq Slugs
  BY DEF Map!IsMap, Map!Observed, Map!Observations
<1>3. ASSUME NEW k \in D \cup Map!Observed(batch) PROVE First(k) \in Nat /\ Last(k) \in Nat
  BY <1>3 DEF Map!IsMap, Map!Entry
<1>4. ASSUME NEW k \in Slugs, NEW a \in Nat, NEW b \in Nat PROVE Map!Priority(k, a, b, n) \in Int
  <2>1. Weight[k] \in Int /\ Bonus[k] \in Int /\ Cap[k] \in Int /\ Penalty[k] \in Int
    BY DEF Map!ConfigIsValid
  <2>2. Map!Positive(n - a) \in Int /\ Map!Positive(n - b) \in Int
    BY DEF Map!Positive
  <2>3. Map!Positive(n - a) * Bonus[k] \in Int /\ Map!Positive(n - b) * Penalty[k] \in Int
    BY <2>1, <2>2
  <2>4. Map!Least(Map!Positive(n - a) * Bonus[k], Cap[k]) \in Int
    BY <2>1, <2>3 DEF Map!Least
  <2> QED BY <2>1, <2>3, <2>4 DEF Map!Priority
<1>5. ASSUME NEW k \in D \cup Map!Observed(batch)
      PROVE  /\ Map!Merged(batch, map, n)[k] \in Map!Entry
             /\ Map!Merged(batch, map, n)[k].first = First(k)
  <2>1. Map!Merged(batch, map, n)[k] = [first |-> First(k), last |-> Last(k), priority |-> Map!Priority(k, First(k), Last(k), n)]
    BY <1>1
  <2>2. Map!Priority(k, First(k), Last(k), n) \in Int
    BY <1>2, <1>3, <1>4
  <2> HIDE DEF First, Last
  <2> QED BY <1>3, <2>1, <2>2 DEF Map!Entry
<1>6. DOMAIN Map!Merged(batch, map, n) = D \cup Map!Observed(batch)
  BY <1>1
<1> QED BY <1>2, <1>5, <1>6 DEF Map!IsMap

Maps == UNION {[K -> Map!Entry] : K \in SUBSET Slugs}
Reasoned == [key : Slugs, reason : {"obsolete", "stale", "budget"}]

LEMMA MapsAreMaps ==
  /\ \A map \in Maps : Map!IsMap(map)
  /\ Map!NoMap \in Maps /\ DOMAIN Map!NoMap = {}
  BY DEF Maps, Map!IsMap, Map!NoMap

Evicts(result, k) == \E v \in result.evicted : v.key = k

\* What the cartographer makes of a map keeps to the shares; an entry is new, or has the age it had;
\* and what is no longer there, or is so again, was evicted.
LEMMA CartographMakesMaps ==
  ASSUME Map!ConfigIsValid, NEW batch \in SUBSET Map!Observations, NEW map, Map!IsMap(map), NEW n \in Nat,
         NEW result \in Map!Cartograph(batch, map, n)
  PROVE  /\ result.map \in Maps /\ result.evicted \in SUBSET Reasoned /\ Within(DOMAIN result.map)
         /\ \A k \in DOMAIN result.map :
               result.map[k].first = n \/ (k \in DOMAIN map /\ result.map[k].first = map[k].first)
         /\ \A k \in DOMAIN map :
               (k \in DOMAIN result.map /\ result.map[k].first = map[k].first) \/ Evicts(result, k)
<1> DEFINE M == Map!Merged(batch, map, n)
           S == Map!Stale(M)
           Gone == Map!Obsolete(batch, map)
           Because(K, reason) == {[key |-> k, reason |-> reason] : k \in K}
<1>1. /\ Map!IsMap(M) /\ DOMAIN M = (DOMAIN map \ Gone) \cup Map!Observed(batch)
      /\ \A k \in DOMAIN M : /\ k \in DOMAIN map \ Gone => M[k].first = map[k].first
                             /\ k \notin DOMAIN map \ Gone => M[k].first = n
  <2>1. Map!IsMap(M)
    BY MergedIsMap
  <2>2. DOMAIN M = (DOMAIN map \ Gone) \cup Map!Observed(batch)
    BY MergedIsMap
  <2>3. \A k \in DOMAIN M : /\ k \in DOMAIN map \ Gone => M[k].first = map[k].first
                            /\ k \notin DOMAIN map \ Gone => M[k].first = n
    BY MergedIsMap
  <2> QED BY <2>1, <2>2, <2>3
<1>2. PICK K \in Map!WithinBudget(M, DOMAIN M \ S) :
         result = [map |-> [k \in K |-> M[k]],
                   evicted |-> Because(Gone, "obsolete") \cup Because(S, "stale") \cup Because((DOMAIN M \ S) \ K, "budget")]
  BY DEF Map!Cartograph
<1>3. DOMAIN M \subseteq Slugs
  BY <1>1 DEF Map!IsMap
<1>4. K \subseteq DOMAIN M \ S /\ Within(K)
  <2>1. DOMAIN M \ S \in SUBSET Slugs
    BY <1>3
  <2> QED BY <2>1, BudgetKeepsShares
<1> HIDE DEF M
<1>5. result.map = [k \in K |-> M[k]] /\ DOMAIN result.map = K /\ \A k \in K : result.map[k] = M[k]
  BY <1>2
<1>6. \A k : (\E v \in result.evicted : v.key = k) <=> k \in Gone \cup S \cup ((DOMAIN M \ S) \ K)
  <2>1. ASSUME NEW Q, NEW reason, NEW k PROVE (\E v \in Because(Q, reason) : v.key = k) <=> k \in Q
    <3>1. ASSUME k \in Q PROVE \E v \in Because(Q, reason) : v.key = k
      <4>1. [key |-> k, reason |-> reason] \in Because(Q, reason)
        BY <3>1
      <4>2. [key |-> k, reason |-> reason].key = k
        OBVIOUS
      <4> QED BY <4>1, <4>2
    <3>2. ASSUME NEW v \in Because(Q, reason), v.key = k PROVE k \in Q
      BY <3>2
    <3> QED BY <3>1, <3>2
  <2>2. result.evicted = Because(Gone, "obsolete") \cup Because(S, "stale") \cup Because((DOMAIN M \ S) \ K, "budget")
    BY <1>2
  <2> DEFINE X == (DOMAIN M \ S) \ K
             A == Because(Gone, "obsolete")
             B == Because(S, "stale")
             C == Because(X, "budget")
  <2>3. \A k : /\ (\E v \in A : v.key = k) <=> k \in Gone
               /\ (\E v \in B : v.key = k) <=> k \in S
               /\ (\E v \in C : v.key = k) <=> k \in X
    <3> HIDE DEF Because, S, Gone, X
    <3> QED BY <2>1
  <2>4. result.evicted = A \cup B \cup C
    BY <2>2
  <2>5. \A k : (\E v \in result.evicted : v.key = k) <=> k \in Gone \cup S \cup X
    <3> HIDE DEF A, B, C, S, Gone, X
    <3> QED BY <2>3, <2>4
  <2> HIDE DEF S, Gone
  <2> QED BY <2>5
<1>7. Gone \subseteq Slugs /\ S \subseteq DOMAIN M
  BY DEF Map!Obsolete, Map!Stale, Map!IsMap
<1>8. result.map \in Maps
  <2>1. K \subseteq Slugs /\ \A k \in K : M[k] \in Map!Entry
    BY <1>1, <1>3, <1>4 DEF Map!IsMap
  <2>2. result.map \in [K -> Map!Entry]
    BY <1>5, <2>1
  <2> QED BY <2>1, <2>2 DEF Maps
<1>9. ASSUME NEW k \in DOMAIN result.map
      PROVE  result.map[k].first = n \/ (k \in DOMAIN map /\ result.map[k].first = map[k].first)
  <2>1. k \in K /\ k \in DOMAIN M
    BY <1>4, <1>5
  <2>2. result.map[k].first = M[k].first
    BY <1>5, <2>1
  <2>3. (k \in DOMAIN map \ Gone /\ M[k].first = map[k].first) \/ M[k].first = n
    <3> HIDE DEF S, Gone
    <3> QED BY <1>1, <2>1
  <2> QED BY <2>2, <2>3
<1>10. ASSUME NEW k \in DOMAIN map
       PROVE  (k \in DOMAIN result.map /\ result.map[k].first = map[k].first) \/ Evicts(result, k)
  <2> HIDE DEF S, Gone
  <2>1. CASE k \in Gone \cup S \cup ((DOMAIN M \ S) \ K)
    BY <1>6, <2>1 DEF Evicts
  <2>2. CASE k \notin Gone \cup S \cup ((DOMAIN M \ S) \ K)
    <3>1. k \notin Gone /\ k \in DOMAIN M /\ k \in K
      BY <1>1, <2>2
    <3>2. M[k].first = map[k].first
      BY <1>1, <3>1
    <3>3. k \in DOMAIN result.map /\ result.map[k].first = M[k].first
      BY <1>5, <3>1
    <3> QED BY <3>2, <3>3
  <2> QED BY <2>1, <2>2
<1>11. result.evicted \in SUBSET Reasoned
  <2>1. \A Q \in SUBSET Slugs, reason \in {"obsolete", "stale", "budget"} : Because(Q, reason) \in SUBSET Reasoned
    BY DEF Reasoned
  <2>2. Gone \in SUBSET Slugs /\ S \in SUBSET Slugs /\ (DOMAIN M \ S) \ K \in SUBSET Slugs
    BY <1>3, <1>7
  <2>3. result.evicted = Because(Gone, "obsolete") \cup Because(S, "stale") \cup Because((DOMAIN M \ S) \ K, "budget")
    BY <1>2
  <2> HIDE DEF Because, S, Gone
  <2> QED BY <2>1, <2>2, <2>3
<1>12. Within(DOMAIN result.map)
  BY <1>4, <1>5
<1> HIDE DEF S, Gone, Because
<1> QED BY <1>8, <1>9, <1>10, <1>11, <1>12


-----------------------------------------------------------------------------
(* The map of a corpus *)

EntersEvent == [kind : {"inserted"}, key : Slugs, cycle : Nat \ {0}]
LeavesEvent == [kind : {"evicted"}, key : Slugs]
MapEvents == [kind : {"observed"}] \cup EntersEvent \cup LeavesEvent
MapRows == [exists : BOOLEAN, map : Maps, freeze : {"none", "set", "expired"}]

\* What a runner has read when it is between two steps.
RestAt == [at : {"idle", "fetch"}]
SettleAt == [at : {"settle"}, changed : BOOLEAN]
MapAt == [at : {"map"}, pending : SUBSET Nat]
LoadAt == [at : {"load"}, pending : SUBSET Nat, map : Maps]
BumpAt == [at : {"bump", "distil"}, pending : SUBSET Nat, map : Maps, n : Nat]
TellAt == [at : {"announce"}, pending : SUBSET Nat, base : Maps, n : Nat \ {0}, map : Maps,
           inserted : SUBSET Slugs, evicted : SUBSET Reasoned, changed : BOOLEAN]
WriteAt == [at : {"write"}, pending : SUBSET Nat, base : Maps, map : Maps, changed : BOOLEAN]
CommitAt == [at : {"commit"}, pending : SUBSET Nat, base : Maps, map : Maps, changed : BOOLEAN, row : MapRows]
Locals == RestAt \cup SettleAt \cup MapAt \cup LoadAt \cup BumpAt \cup TellAt \cup WriteAt \cup CommitAt

LEMMA LocalOf ==
  ASSUME NEW c \in Locals
  PROVE  /\ c.at = "settle" => c \in SettleAt
         /\ c.at = "map" => c \in MapAt
         /\ c.at = "load" => c \in LoadAt
         /\ c.at \in {"bump", "distil"} => c \in BumpAt
         /\ c.at = "announce" => c \in TellAt
         /\ c.at = "write" => c \in WriteAt
         /\ c.at = "commit" => c \in CommitAt
         /\ c.at \in Map!Places
<1>1. /\ \A d \in RestAt : d.at \in {"idle", "fetch"}
      /\ \A d \in SettleAt : d.at = "settle"
      /\ \A d \in MapAt : d.at = "map"
      /\ \A d \in LoadAt : d.at = "load"
      /\ \A d \in BumpAt : d.at \in {"bump", "distil"}
      /\ \A d \in TellAt : d.at = "announce"
      /\ \A d \in WriteAt : d.at = "write"
      /\ \A d \in CommitAt : d.at = "commit"
  BY DEF RestAt, SettleAt, MapAt, LoadAt, BumpAt, TellAt, WriteAt, CommitAt
<1> QED BY <1>1 DEF Locals, Map!Places

\* An entry of the map: its key, and the cycle in which it was first seen.
Ages(map) == {<<k, map[k].first>> : k \in DOMAIN map}

\* It was announced; and that it is gone was announced after that.
EnteredAt(e, i) == Map!Announced("inserted", e[1], i) /\ incoming[i].cycle = e[2]
Entered(e) == \E i \in DOMAIN incoming : EnteredAt(e, i)
Left(e) == \E i, j \in DOMAIN incoming : EnteredAt(e, i) /\ i < j /\ Map!Announced("evicted", e[1], j)

\* The rows: the map keeps to its shares, and it is known of what has been in it how it came and went.
CorpusInv ==
  /\ incoming \in Seq(MapEvents) /\ processed \subseteq DOMAIN incoming
  /\ corpus \in MapRows /\ cycle \in Nat /\ quiet \in [Runners -> Nat] /\ lost \in BOOLEAN
  /\ ~corpus.exists => corpus.map = Map!NoMap /\ corpus.freeze = "none"
  /\ Within(DOMAIN corpus.map) /\ Ages(corpus.map) \subseteq been
  /\ ~lost => \A e \in been : Entered(e) /\ (e \in Ages(corpus.map) \/ Left(e))

\* A runner: the map that it has made keeps to the shares, the maps that it has read have been in the
\* corpus, and what differs between the two is announced, or still to be.
Reading == {"load", "bump", "distil"}
Writing == {"announce", "write", "commit"}
RunnerInv(c) ==
  /\ c.at \notin {"idle", "fetch", "settle"} => c.pending \subseteq DOMAIN incoming
  /\ c.at \in Reading => Within(DOMAIN c.map) /\ Ages(c.map) \subseteq been
  /\ c.at = "distil" => cycle > 0
  /\ c.at \in Writing => Within(DOMAIN c.map) /\ Ages(c.base) \subseteq been
  /\ c.at \in Writing /\ ~lost =>
        /\ \A e \in Ages(c.map) : Entered(e) \/ (c.at = "announce" /\ e[1] \in c.inserted /\ e[2] = c.n)
        /\ \A e \in Ages(c.base) : e \in Ages(c.map) \/ Left(e) \/ (c.at = "announce" /\ \E v \in c.evicted : v.key = e[1])
  /\ c.at = "commit" => Within(DOMAIN c.row.map) /\ Ages(c.row.map) \subseteq been

MapInv == /\ CorpusInv
          /\ runner \in [Runners -> Locals]
          /\ \A r \in Runners : RunnerInv(runner[r])

LEMMA AgesAre ==
  /\ \A map, e : e \in Ages(map) <=> e = <<e[1], e[2]>> /\ e[1] \in DOMAIN map /\ e[2] = map[e[1]].first
  /\ \A map : \A k \in DOMAIN map : <<k, map[k].first>> \in Ages(map)
  BY DEF Ages

LEMMA MapInit == ASSUME Map!ConfigIsValid, Map!Init PROVE MapInv
<1>1. incoming = <<>> /\ processed = {} /\ cycle = 0 /\ been = {} /\ lost = FALSE
      /\ corpus = [exists |-> FALSE, map |-> Map!NoMap, freeze |-> "none"]
      /\ quiet = [r \in Runners |-> 0] /\ runner = [r \in Runners |-> Map!Idle]
  BY DEF Map!Init
<1>2. corpus \in MapRows
  BY <1>1, MapsAreMaps DEF MapRows
<1>3. DOMAIN corpus.map = {} /\ Ages(corpus.map) = {}
  BY <1>1, MapsAreMaps DEF Ages
<1>4. Within(DOMAIN corpus.map)
  BY <1>3, NothingKeepsShares
<1>5. CorpusInv
  <2>1. incoming \in Seq(MapEvents) /\ processed \subseteq DOMAIN incoming
    BY <1>1
  <2>2. cycle \in Nat /\ quiet \in [Runners -> Nat] /\ lost \in BOOLEAN
    BY <1>1
  <2>3. ~corpus.exists => corpus.map = Map!NoMap /\ corpus.freeze = "none"
    BY <1>1
  <2>4. Ages(corpus.map) \subseteq been /\ \A e \in been : FALSE
    BY <1>1, <1>3
  <2> QED BY <1>2, <1>4, <2>1, <2>2, <2>3, <2>4 DEF CorpusInv
<1>6. Map!Idle \in Locals /\ RunnerInv(Map!Idle)
  BY DEF Map!Idle, Locals, RestAt, RunnerInv, Reading, Writing
<1> QED BY <1>1, <1>5, <1>6 DEF MapInv

\* Nothing is forgotten from one state to the next.
Grows == /\ incoming' = incoming \/ \E e \in MapEvents : incoming' = Append(incoming, e)
         /\ been \subseteq been' /\ (lost => lost') /\ (cycle > 0 => cycle' > 0)

LEMMA EventsStay ==
  ASSUME CorpusInv, Grows
  PROVE  /\ DOMAIN incoming \subseteq DOMAIN incoming'
         /\ \A i \in DOMAIN incoming : incoming'[i] = incoming[i]
<1>1. CASE incoming' = incoming
  BY <1>1
<1>2. CASE \E e \in MapEvents : incoming' = Append(incoming, e)
  <2>1. PICK e \in MapEvents : incoming' = Append(incoming, e)
    BY <1>2
  <2>2. incoming \in Seq(MapEvents)
    BY DEF CorpusInv
  <2> QED BY <2>1, <2>2
<1> QED BY <1>1, <1>2 DEF Grows

LEMMA ToldStays ==
  ASSUME CorpusInv, Grows, NEW e
  PROVE  (Entered(e) => Entered(e)') /\ (Left(e) => Left(e)')
<1>1. \A i \in DOMAIN incoming : i \in DOMAIN incoming' /\ incoming'[i] = incoming[i]
  BY EventsStay
<1>2. ASSUME NEW i \in DOMAIN incoming PROVE EnteredAt(e, i) => EnteredAt(e, i)'
  BY <1>1 DEF EnteredAt, Map!Announced
<1>3. ASSUME NEW j \in DOMAIN incoming PROVE Map!Announced("evicted", e[1], j) => Map!Announced("evicted", e[1], j)'
  BY <1>1 DEF Map!Announced
<1> QED BY <1>1, <1>2, <1>3 DEF Entered, Left

LEMMA RunnerStays ==
  ASSUME CorpusInv, Grows, NEW c, RunnerInv(c)
  PROVE  RunnerInv(c)'
<1>1. /\ DOMAIN incoming \subseteq DOMAIN incoming' /\ been \subseteq been' /\ (~lost' => ~lost)
      /\ (cycle > 0 => cycle' > 0)
  BY EventsStay DEF Grows
<1>2. \A e : (Entered(e) => Entered(e)') /\ (Left(e) => Left(e)')
  BY ToldStays
<1> QED BY <1>1, <1>2 DEF RunnerInv, Ages, Within, Map!Total, Map!InSection, Map!Tokens

\* One runner moves, and the rows may change with it.
LEMMA RunnerMoves ==
  ASSUME MapInv, Grows, CorpusInv', NEW r \in Runners, NEW c \in Locals, RunnerInv(c)',
         runner' = [runner EXCEPT ![r] = c]
  PROVE  MapInv'
<1>1. runner' \in [Runners -> Locals] /\ runner'[r] = c
  BY DEF MapInv
<1>2. ASSUME NEW q \in Runners PROVE RunnerInv(runner[q])'
  <2>1. PICK d : d = runner'[q]
    OBVIOUS
  <2>2. RunnerInv(d)'
    <3>1. CASE q = r
      BY <1>1, <2>1, <3>1
    <3>2. CASE q # r
      <4>1. d = runner[q]
        BY <2>1, <3>2 DEF MapInv
      <4>2. RunnerInv(d)
        BY <4>1 DEF MapInv
      <4> QED BY <4>2, RunnerStays DEF MapInv
    <3> QED BY <3>1, <3>2
  <2> QED BY <2>1, <2>2
<1> QED BY <1>1, <1>2 DEF MapInv


\* The rows change, and no runner moves.
LEMMA RunnersStay ==
  ASSUME MapInv, Grows, CorpusInv', UNCHANGED runner
  PROVE  MapInv'
<1>1. ASSUME NEW q \in Runners PROVE RunnerInv(runner[q])'
  <2>1. PICK d : d = runner[q] /\ d = runner'[q]
    OBVIOUS
  <2>2. RunnerInv(d)
    BY <2>1 DEF MapInv
  <2>3. RunnerInv(d)'
    BY <2>2, RunnerStays DEF MapInv
  <2> QED BY <2>1, <2>3
<1> QED BY <1>1 DEF MapInv

\* What does not touch the events, the map and its history keeps what is known of them.
LEMMA CorpusStays ==
  ASSUME CorpusInv, UNCHANGED <<incoming, been, lost>>, processed' \subseteq DOMAIN incoming,
         cycle' \in Nat, quiet' \in [Runners -> Nat], corpus' \in MapRows, corpus'.map = corpus.map,
         ~corpus'.exists => ~corpus.exists /\ corpus'.freeze = corpus.freeze
  PROVE  CorpusInv'
<1>1. Ages(corpus.map)' = Ages(corpus.map) /\ (Within(DOMAIN corpus.map)' <=> Within(DOMAIN corpus.map))
  BY DEF Ages, Within, Map!Total, Map!InSection, Map!Tokens
<1>2. \A e : (Entered(e)' <=> Entered(e)) /\ (Left(e)' <=> Left(e))
  BY DEF Entered, Left, EnteredAt, Map!Announced
<1> QED BY <1>1, <1>2 DEF CorpusInv

\* A runner that only looks.
LEMMA RunnerLooks ==
  ASSUME MapInv, NEW r \in Runners, NEW from, NEW c \in Locals, RunnerInv(c), Map!Local(r, from, c)
  PROVE  MapInv'
<1>1. UNCHANGED <<incoming, processed, corpus, cycle, quiet, been, lost>> /\ runner' = [runner EXCEPT ![r] = c]
  BY DEF Map!Local, Map!Step, Map!history
<1>2. CorpusInv'
  BY <1>1, CorpusStays DEF MapInv, CorpusInv
<1>3. Grows
  BY <1>1 DEF Grows
<1>4. RunnerInv(c)'
  BY <1>3, RunnerStays DEF MapInv
<1> QED BY <1>1, <1>2, <1>3, <1>4, RunnerMoves

LEMMA RestKeeps == /\ Map!Idle \in Locals /\ RunnerInv(Map!Idle) /\ RunnerInv(Map!Idle)'
  BY DEF Map!Idle, Locals, RestAt, RunnerInv, Reading, Writing

\* What the invariant says of a runner at one of its places.
LEMMA RunnerFacts ==
  ASSUME MapInv, NEW r \in Runners
  PROVE  runner[r] \in Locals /\ RunnerInv(runner[r])
  BY DEF MapInv

LEMMA PollKeeps == ASSUME MapInv, NEW r \in Runners, Map!Poll(r) PROVE MapInv'
<1>1. PICK c : c = [at |-> "fetch"]
  OBVIOUS
<1>2. c \in Locals /\ RunnerInv(c)
  BY <1>1 DEF Locals, RestAt, RunnerInv, Reading, Writing
<1> QED BY <1>1, <1>2, RunnerLooks DEF Map!Poll

LEMMA FetchKeeps == ASSUME MapInv, NEW r \in Runners, Map!Fetch(r) PROVE MapInv'
<1>1. CASE Map!Pending = {}
  <2>1. PICK c : c = [at |-> "settle", changed |-> FALSE]
    OBVIOUS
  <2>2. c \in Locals /\ RunnerInv(c)
    BY <2>1 DEF Locals, SettleAt, RunnerInv, Reading, Writing
  <2> QED BY <1>1, <2>1, <2>2, RunnerLooks DEF Map!Fetch
<1>2. CASE Map!Pending # {}
  <2>1. PICK c : c = [at |-> "map", pending |-> Map!Pending]
    OBVIOUS
  <2>2. Map!Pending \subseteq DOMAIN incoming /\ DOMAIN incoming \subseteq Nat
    BY DEF Map!Pending, MapInv, CorpusInv
  <2>3. c \in Locals /\ RunnerInv(c)
    BY <2>1, <2>2 DEF Locals, MapAt, RunnerInv, Reading, Writing
  <2> QED BY <1>2, <2>1, <2>3, RunnerLooks DEF Map!Fetch
<1> QED BY <1>1, <1>2

LEMMA ReadMapKeeps == ASSUME MapInv, NEW r \in Runners, Map!ReadMap(r) PROVE MapInv'
<1>1. runner[r].at = "map"
  BY DEF Map!ReadMap, Map!Local, Map!Step
<1>2. PICK c : c = [at |-> "load", pending |-> runner[r].pending, map |-> corpus.map]
  OBVIOUS
<1>3. runner[r] \in MapAt /\ runner[r].pending \subseteq DOMAIN incoming
  BY <1>1, RunnerFacts, LocalOf DEF RunnerInv
<1>4. corpus.map \in Maps /\ Within(DOMAIN corpus.map) /\ Ages(corpus.map) \subseteq been
  BY DEF MapInv, CorpusInv, MapRows
<1>5. c \in LoadAt
  BY <1>2, <1>3, <1>4 DEF LoadAt, MapAt
<1>6. c.at = "load" /\ c.pending = runner[r].pending /\ c.map = corpus.map
  BY <1>2
<1>7. c \in Locals /\ RunnerInv(c)
  BY <1>3, <1>4, <1>5, <1>6 DEF Locals, RunnerInv, Reading, Writing
<1> QED BY <1>2, <1>7, RunnerLooks DEF Map!ReadMap

LEMMA LoadCycleKeeps == ASSUME MapInv, NEW r \in Runners, Map!LoadCycle(r) PROVE MapInv'
<1>1. runner[r].at = "load"
  BY DEF Map!LoadCycle, Map!Local, Map!Step
<1>2. PICK c : c = [at |-> "bump", pending |-> runner[r].pending, map |-> runner[r].map, n |-> cycle]
  OBVIOUS
<1>3. /\ runner[r] \in LoadAt /\ runner[r].pending \subseteq DOMAIN incoming
      /\ Within(DOMAIN runner[r].map) /\ Ages(runner[r].map) \subseteq been
  BY <1>1, RunnerFacts, LocalOf DEF RunnerInv, Reading
<1>4. cycle \in Nat
  BY DEF MapInv, CorpusInv
<1>5. c \in BumpAt
  BY <1>2, <1>3, <1>4 DEF LoadAt, BumpAt
<1>6. c.at = "bump" /\ c.pending = runner[r].pending /\ c.map = runner[r].map
  BY <1>2
<1>7. c \in Locals /\ RunnerInv(c)
  BY <1>3, <1>5, <1>6 DEF Locals, RunnerInv, Reading, Writing
<1> QED BY <1>2, <1>7, RunnerLooks DEF Map!LoadCycle

LEMMA BumpCycleKeeps == ASSUME MapInv, NEW r \in Runners, Map!BumpCycle(r) PROVE MapInv'
<1>1. /\ runner[r].at = "bump" /\ runner' = [runner EXCEPT ![r] = [runner[r] EXCEPT !.at = "distil"]]
      /\ cycle' = runner[r].n + 1 /\ UNCHANGED <<incoming, processed, corpus, quiet, been, lost>>
  BY DEF Map!BumpCycle, Map!Step, Map!history
<1>2. PICK c : c = [runner[r] EXCEPT !.at = "distil"]
  OBVIOUS
<1>3. /\ runner[r] \in BumpAt /\ runner[r].pending \subseteq DOMAIN incoming
      /\ Within(DOMAIN runner[r].map) /\ Ages(runner[r].map) \subseteq been
  BY <1>1, RunnerFacts, LocalOf DEF RunnerInv, Reading
<1>4. cycle' \in Nat /\ cycle' > 0
  BY <1>1, <1>3 DEF BumpAt
<1>5. c \in BumpAt /\ c.at = "distil" /\ c.pending = runner[r].pending /\ c.map = runner[r].map
  BY <1>2, <1>3 DEF BumpAt
<1>6. Grows
  BY <1>1, <1>4 DEF Grows
<1>7. CorpusInv'
  BY <1>1, <1>4, CorpusStays DEF MapInv, CorpusInv
<1>8. PICK K : K = DOMAIN c.map
  OBVIOUS
<1>9. Within(K) /\ (Within(K) => Within(K)')
  BY <1>3, <1>5, <1>8 DEF Within, Map!Total, Map!InSection, Map!Tokens
<1>10. c \in Locals /\ RunnerInv(c)'
  <2>1. c \in Locals
    BY <1>5 DEF Locals
  <2>2. c.pending \subseteq DOMAIN incoming' /\ Within(K)' /\ Ages(c.map) \subseteq been'
    BY <1>1, <1>3, <1>5, <1>9
  <2> QED BY <1>4, <1>5, <1>8, <2>1, <2>2 DEF RunnerInv, Reading, Writing, Ages
<1> QED BY <1>1, <1>2, <1>6, <1>7, <1>10, RunnerMoves


LEMMA DistilKeeps == ASSUME Map!ParametersAreValid, MapInv, NEW r \in Runners, Map!Distil(r) PROVE MapInv'
<1>1. runner[r].at = "distil"
  BY DEF Map!Distil
<1>2. PICK old : old = runner[r]
  OBVIOUS
<1>3. /\ old \in BumpAt /\ old.pending \subseteq DOMAIN incoming /\ old.map \in Maps
      /\ Ages(old.map) \subseteq been /\ cycle > 0 /\ cycle \in Nat
  <2>1. old \in Locals /\ RunnerInv(old) /\ old.at = "distil"
    BY <1>1, <1>2, RunnerFacts
  <2>2. old \in BumpAt
    BY <2>1, LocalOf
  <2> QED BY <2>1, <2>2 DEF RunnerInv, Reading, BumpAt, MapInv, CorpusInv
<1>4. PICK batch \in Batches : \E result \in Map!Cartograph(batch, old.map, cycle) :
         Map!Local(r, "distil", Map!Outcome(old, cycle, result))
  BY <1>2 DEF Map!Distil
<1>5. PICK result \in Map!Cartograph(batch, old.map, cycle) : Map!Local(r, "distil", Map!Outcome(old, cycle, result))
  BY <1>4
<1>6. PICK n : n = cycle
  OBVIOUS
<1>7. /\ result.map \in Maps /\ result.evicted \in SUBSET Reasoned /\ Within(DOMAIN result.map)
      /\ \A k \in DOMAIN result.map :
            result.map[k].first = n \/ (k \in DOMAIN old.map /\ result.map[k].first = old.map[k].first)
      /\ \A k \in DOMAIN old.map :
            (k \in DOMAIN result.map /\ result.map[k].first = old.map[k].first) \/ Evicts(result, k)
  <2>1. Map!ConfigIsValid /\ batch \in SUBSET Map!Observations /\ Map!IsMap(old.map) /\ n \in Nat
    BY <1>3, <1>6, MapsAreMaps DEF Map!ParametersAreValid
  <2>2. PICK map : map = old.map
    OBVIOUS
  <2>3. Map!IsMap(map) /\ result \in Map!Cartograph(batch, map, n)
    BY <1>6, <2>1, <2>2
  <2>4. result.map \in Maps /\ result.evicted \in SUBSET Reasoned /\ Within(DOMAIN result.map)
    BY <2>1, <2>3, CartographMakesMaps
  <2>5. \A k \in DOMAIN result.map :
           result.map[k].first = n \/ (k \in DOMAIN map /\ result.map[k].first = map[k].first)
    BY <2>1, <2>3, CartographMakesMaps
  <2>6. \A k \in DOMAIN map :
           (k \in DOMAIN result.map /\ result.map[k].first = map[k].first) \/ Evicts(result, k)
    BY <2>1, <2>3, CartographMakesMaps
  <2> QED BY <2>2, <2>4, <2>5, <2>6
<1>8. PICK c : c = Map!Outcome(old, n, result)
  OBVIOUS
<1>9. /\ c.at = "announce" /\ c.pending = old.pending /\ c.base = old.map /\ c.n = n /\ c.map = result.map
      /\ c.inserted = {k \in DOMAIN result.map : result.map[k].first = n} /\ c.evicted = result.evicted
  BY <1>8 DEF Map!Outcome
<1>10. DOMAIN result.map \subseteq Slugs
  BY <1>7, MapsAreMaps DEF Map!IsMap
<1>11. c \in TellAt
  <2>1. /\ old.pending \in SUBSET Nat /\ n \in Nat \ {0} /\ (result.map # old.map) \in BOOLEAN
        /\ {k \in DOMAIN result.map : result.map[k].first = n} \in SUBSET Slugs
    BY <1>3, <1>6, <1>10 DEF BumpAt
  <2> QED BY <1>3, <1>7, <1>8, <2>1 DEF TellAt, Map!Outcome
<1>12. ASSUME NEW e \in Ages(c.map), ~lost PROVE Entered(e) \/ (e[1] \in c.inserted /\ e[2] = c.n)
  <2>1. e = <<e[1], e[2]>> /\ e[1] \in DOMAIN result.map /\ e[2] = result.map[e[1]].first
    BY <1>9, AgesAre
  <2>2. CASE e[2] = n
    BY <1>9, <2>1, <2>2
  <2>3. CASE e[2] # n
    <3>1. e[1] \in DOMAIN old.map /\ e[2] = old.map[e[1]].first
      BY <1>7, <2>1, <2>3
    <3>2. e \in Ages(old.map)
      BY <2>1, <3>1, AgesAre
    <3> QED BY <1>3, <1>12, <3>2 DEF MapInv, CorpusInv
  <2> QED BY <2>2, <2>3
<1>13. ASSUME NEW e \in Ages(c.base) PROVE e \in Ages(c.map) \/ \E v \in c.evicted : v.key = e[1]
  <2>1. e = <<e[1], e[2]>> /\ e[1] \in DOMAIN old.map /\ e[2] = old.map[e[1]].first
    BY <1>9, AgesAre
  <2>2. CASE e[1] \in DOMAIN result.map /\ result.map[e[1]].first = old.map[e[1]].first
    BY <1>9, <2>1, <2>2, AgesAre
  <2>3. CASE Evicts(result, e[1])
    BY <1>9, <2>3 DEF Evicts
  <2> QED BY <1>7, <2>1, <2>2, <2>3
<1>14. c \in Locals /\ RunnerInv(c)
  <2>1. c.pending \subseteq DOMAIN incoming /\ Within(DOMAIN c.map) /\ Ages(c.base) \subseteq been
    BY <1>3, <1>7, <1>9
  <2> QED BY <1>9, <1>11, <1>12, <1>13, <2>1 DEF Locals, RunnerInv, Reading, Writing
<1> QED BY <1>5, <1>6, <1>8, <1>14, RunnerLooks

LEMMA GateKeeps == ASSUME MapInv, NEW r \in Runners, Map!Gate(r) PROVE MapInv'
<1>1. PICK old : old = runner[r] /\ old.at = "distil"
  BY DEF Map!Gate
<1>2. /\ old \in BumpAt /\ old.pending \subseteq DOMAIN incoming /\ old.map \in Maps
      /\ Within(DOMAIN old.map) /\ Ages(old.map) \subseteq been
  <2>1. old \in Locals /\ RunnerInv(old)
    BY <1>1, RunnerFacts
  <2>2. old \in BumpAt
    BY <1>1, <2>1, LocalOf
  <2> QED BY <1>1, <2>1, <2>2 DEF RunnerInv, Reading, BumpAt
<1>3. PICK c : c = [at |-> "write", pending |-> old.pending, base |-> old.map, map |-> old.map, changed |-> FALSE]
  OBVIOUS
<1>4. c \in WriteAt
  BY <1>2, <1>3 DEF WriteAt, BumpAt
<1>5. c.at = "write" /\ c.pending = old.pending /\ c.base = old.map /\ c.map = old.map
  BY <1>3
<1>6. ~lost => \A e \in Ages(c.map) : Entered(e)
  BY <1>2, <1>5 DEF MapInv, CorpusInv
<1>7. c \in Locals /\ RunnerInv(c)
  BY <1>2, <1>4, <1>5, <1>6 DEF Locals, RunnerInv, Reading, Writing
<1> QED BY <1>1, <1>3, <1>7, RunnerLooks DEF Map!Gate

\* An event is added.
LEMMA EventAdded ==
  ASSUME MapInv, NEW e \in MapEvents, incoming' = Append(incoming, e),
         UNCHANGED <<processed, corpus, cycle, quiet, been, lost>>
  PROVE  /\ Grows /\ CorpusInv'
         /\ Len(incoming) + 1 \in DOMAIN incoming' /\ incoming'[Len(incoming) + 1] = e
         /\ \A i \in DOMAIN incoming : i < Len(incoming) + 1
<1>1. incoming \in Seq(MapEvents) /\ CorpusInv
  BY DEF MapInv, CorpusInv
<1>2. Grows
  BY DEF Grows
<1>3. /\ incoming' \in Seq(MapEvents)
      /\ Len(incoming) + 1 \in DOMAIN incoming' /\ incoming'[Len(incoming) + 1] = e
      /\ \A i \in DOMAIN incoming : i < Len(incoming) + 1
  BY <1>1
<1>4. processed' \subseteq DOMAIN incoming'
  BY <1>1, <1>2, EventsStay DEF CorpusInv
<1>5. Within(DOMAIN corpus.map)' /\ Ages(corpus.map)' \subseteq been'
  BY <1>1 DEF CorpusInv, Within, Ages, Map!Total, Map!InSection, Map!Tokens
<1>6. ASSUME ~lost', NEW x \in been' PROVE Entered(x)' /\ (x \in Ages(corpus.map)' \/ Left(x)')
  <2>1. ~lost /\ x \in been /\ Ages(corpus.map)' = Ages(corpus.map)
    BY <1>6 DEF Ages
  <2>2. Entered(x) /\ (x \in Ages(corpus.map) \/ Left(x))
    BY <1>1, <2>1 DEF CorpusInv
  <2> QED BY <1>1, <1>2, <2>1, <2>2, ToldStays
<1>7. CorpusInv'
  BY <1>1, <1>3, <1>4, <1>5, <1>6 DEF CorpusInv
<1> QED BY <1>2, <1>3, <1>7

LEMMA ObserveKeeps == ASSUME MapInv, Map!Observe PROVE MapInv'
<1>1. PICK e \in MapEvents : incoming' = Append(incoming, e)
  BY DEF Map!Observe, Map!NoEntry, MapEvents
<1>2. UNCHANGED <<processed, corpus, cycle, quiet, been, lost, runner>>
  BY DEF Map!Observe, Map!history
<1>3. Grows /\ CorpusInv'
  BY <1>1, <1>2, EventAdded
<1> QED BY <1>2, <1>3, RunnersStay

LEMMA AnnounceInsertedKeeps == ASSUME MapInv, NEW r \in Runners, Map!AnnounceInserted(r) PROVE MapInv'
<1>1. PICK k \in runner[r].inserted :
         /\ Map!Step(r, "announce", [runner[r] EXCEPT !.inserted = @ \ {k}])
         /\ Map!Announce([kind |-> "inserted", key |-> k, cycle |-> runner[r].n])
  BY DEF Map!AnnounceInserted
<1>2. PICK old : old = runner[r] /\ old.at = "announce"
  BY DEF Map!AnnounceInserted
<1>3. old \in TellAt /\ RunnerInv(old)
  BY <1>2, RunnerFacts, LocalOf
<1>4. PICK e : e = [kind |-> "inserted", key |-> k, cycle |-> old.n]
  OBVIOUS
<1>5. e \in MapEvents
  BY <1>1, <1>2, <1>3, <1>4 DEF MapEvents, EntersEvent, TellAt
<1>6. /\ incoming' = Append(incoming, e) /\ UNCHANGED <<processed, corpus, cycle, quiet, been, lost>>
  BY <1>1, <1>2, <1>4 DEF Map!Announce, Map!history
<1>7. PICK c : c = [old EXCEPT !.inserted = @ \ {k}]
  OBVIOUS
<1>8. /\ c \in TellAt /\ c.at = "announce" /\ c.pending = old.pending /\ c.base = old.base /\ c.map = old.map /\ c.n = old.n
      /\ c.inserted = old.inserted \ {k} /\ c.evicted = old.evicted
  BY <1>2, <1>3, <1>7 DEF TellAt
<1>9. /\ Grows /\ CorpusInv'
      /\ Len(incoming) + 1 \in DOMAIN incoming' /\ incoming'[Len(incoming) + 1] = e
  BY <1>5, <1>6, EventAdded
<1>10. RunnerInv(old)'
  BY <1>3, <1>9, RunnerStays DEF MapInv
<1>11. ASSUME NEW x, x[1] = k, x[2] = old.n PROVE Entered(x)'
  <2>1. PICK j : j = Len(incoming) + 1
    OBVIOUS
  <2>2. j \in DOMAIN incoming' /\ EnteredAt(x, j)'
    BY <1>4, <1>9, <1>11, <2>1 DEF EnteredAt, Map!Announced
  <2> QED BY <2>2 DEF Entered
<1>12. c \in Locals /\ RunnerInv(c)'
  BY <1>2, <1>8, <1>10, <1>11 DEF Locals, RunnerInv, Reading, Writing, Ages
<1>13. runner' = [runner EXCEPT ![r] = c]
  BY <1>1, <1>2, <1>7 DEF Map!Step
<1> QED BY <1>9, <1>12, <1>13, RunnerMoves

LEMMA AnnounceEvictedKeeps == ASSUME MapInv, NEW r \in Runners, Map!AnnounceEvicted(r) PROVE MapInv'
<1>1. PICK w \in runner[r].evicted :
         /\ Map!Step(r, "announce", [runner[r] EXCEPT !.evicted = @ \ {w}])
         /\ Map!Announce([kind |-> "evicted", key |-> w.key])
  BY DEF Map!AnnounceEvicted
<1>2. PICK old : old = runner[r] /\ old.at = "announce"
  BY DEF Map!AnnounceEvicted
<1>3. old \in TellAt /\ RunnerInv(old)
  BY <1>2, RunnerFacts, LocalOf
<1>4. PICK e : e = [kind |-> "evicted", key |-> w.key]
  OBVIOUS
<1>5. e \in MapEvents
  BY <1>1, <1>2, <1>3, <1>4 DEF MapEvents, LeavesEvent, TellAt, Reasoned
<1>6. /\ incoming' = Append(incoming, e) /\ UNCHANGED <<processed, corpus, cycle, quiet, been, lost>>
  BY <1>1, <1>4 DEF Map!Announce, Map!history
<1>7. PICK c : c = [old EXCEPT !.evicted = @ \ {w}]
  OBVIOUS
<1>8. /\ c \in TellAt /\ c.at = "announce" /\ c.pending = old.pending /\ c.base = old.base /\ c.map = old.map /\ c.n = old.n
      /\ c.inserted = old.inserted /\ c.evicted = old.evicted \ {w}
  BY <1>2, <1>3, <1>7 DEF TellAt
<1>9. /\ Grows /\ CorpusInv'
      /\ Len(incoming) + 1 \in DOMAIN incoming' /\ incoming'[Len(incoming) + 1] = e
      /\ \A i \in DOMAIN incoming : i < Len(incoming) + 1
  BY <1>5, <1>6, EventAdded
<1>10. RunnerInv(old)'
  BY <1>3, <1>9, RunnerStays DEF MapInv
<1>11. ASSUME ~lost, NEW x \in Ages(old.base), x[1] = w.key PROVE Left(x)'
  <2>1. Entered(x)
    BY <1>2, <1>3, <1>11 DEF RunnerInv, Writing, MapInv, CorpusInv
  <2>2. PICK i \in DOMAIN incoming : EnteredAt(x, i)
    BY <2>1 DEF Entered
  <2>3. i \in DOMAIN incoming' /\ incoming'[i] = incoming[i]
    BY <1>9, EventsStay DEF MapInv
  <2>4. EnteredAt(x, i)'
    BY <2>2, <2>3 DEF EnteredAt, Map!Announced
  <2>5. PICK j : j = Len(incoming) + 1
    OBVIOUS
  <2>6. i < j /\ j \in DOMAIN incoming' /\ Map!Announced("evicted", x[1], j)'
    BY <1>4, <1>9, <1>11, <2>5 DEF Map!Announced
  <2> QED BY <2>3, <2>4, <2>6 DEF Left
<1>12. c \in Locals /\ RunnerInv(c)'
  <2>1. c \in Locals
    BY <1>8 DEF Locals
  <2>2. ASSUME ~lost', NEW x \in Ages(c.base), x \notin Ages(c.map), ~Left(x)' PROVE \E v \in c.evicted : v.key = x[1]
    <3>1. PICK v \in old.evicted : v.key = x[1]
      BY <1>2, <1>8, <1>10, <2>2 DEF RunnerInv, Writing, Ages
    <3>2. v # w
      BY <1>6, <1>8, <1>11, <2>2, <3>1
    <3> QED BY <1>8, <3>1, <3>2
  <2> QED BY <1>2, <1>8, <1>10, <2>1, <2>2 DEF RunnerInv, Reading, Writing, Ages
<1>13. runner' = [runner EXCEPT ![r] = c]
  BY <1>1, <1>2, <1>7 DEF Map!Step
<1> QED BY <1>9, <1>12, <1>13, RunnerMoves


LEMMA LoadRowKeeps == ASSUME MapInv, NEW r \in Runners, Map!LoadRow(r) PROVE MapInv'
<1>1. PICK old : old = runner[r] /\ (old.at = "write" \/ (old.at = "announce" /\ old.inserted = {} /\ old.evicted = {}))
  BY DEF Map!LoadRow
<1>2. old \in TellAt \cup WriteAt /\ RunnerInv(old)
  BY <1>1, RunnerFacts, LocalOf
<1>3. PICK c : c = [at |-> "commit", pending |-> old.pending, base |-> old.base, map |-> old.map,
                    changed |-> old.changed, row |-> corpus]
  OBVIOUS
<1>4. corpus \in MapRows /\ Within(DOMAIN corpus.map) /\ Ages(corpus.map) \subseteq been
  BY DEF MapInv, CorpusInv
<1>5. c \in CommitAt
  BY <1>2, <1>3, <1>4 DEF TellAt, WriteAt, CommitAt
<1>6. c.at = "commit" /\ c.pending = old.pending /\ c.base = old.base /\ c.map = old.map /\ c.row = corpus
  BY <1>3
<1>7. c \in Locals /\ RunnerInv(c)
  BY <1>1, <1>2, <1>4, <1>5, <1>6 DEF Locals, RunnerInv, Reading, Writing
<1>8. Map!Local(r, old.at, c)
  BY <1>1, <1>3 DEF Map!LoadRow
<1> QED BY <1>7, <1>8, RunnerLooks

LEMMA WriteMapKeeps == ASSUME MapInv, NEW r \in Runners, Map!WriteMap(r) PROVE MapInv'
<1>1. PICK c : c = runner[r]
  OBVIOUS
<1>2. /\ c.at = "commit" /\ runner' = [runner EXCEPT ![r] = [at |-> "settle", changed |-> c.changed]]
      /\ corpus' = [exists |-> TRUE, map |-> Map!Column(c.row.map, c.map, corpus.map),
                    freeze |-> Map!Column(c.row.freeze, "none", corpus.freeze)]
      /\ processed' = processed \cup c.pending /\ been' = been \cup Ages(c.map)
      /\ lost' = (lost \/ corpus.map # c.base) /\ UNCHANGED <<incoming, cycle, quiet>>
  BY <1>1 DEF Map!WriteMap, Map!Step, Ages
<1>3. c \in CommitAt /\ RunnerInv(c)
  BY <1>1, <1>2, RunnerFacts, LocalOf
<1>4. PICK rest : rest = [at |-> "settle", changed |-> c.changed]
  OBVIOUS
<1>5. rest \in Locals /\ RunnerInv(rest)'
  BY <1>3, <1>4 DEF Locals, SettleAt, CommitAt, RunnerInv, Reading, Writing
<1>6. /\ c.map \in Maps /\ c.row \in MapRows /\ Within(DOMAIN c.map) /\ c.pending \subseteq DOMAIN incoming
      /\ Ages(c.base) \subseteq been /\ Ages(c.row.map) \subseteq been
      /\ ~lost => /\ \A e \in Ages(c.map) : Entered(e)
                  /\ \A e \in Ages(c.base) : e \in Ages(c.map) \/ Left(e)
  BY <1>2, <1>3 DEF RunnerInv, Writing, CommitAt
<1>7. CorpusInv
  BY DEF MapInv
<1>8. Grows
  BY <1>2, <1>7 DEF Grows, CorpusInv
<1>9. corpus'.map = c.map \/ (corpus'.map = corpus.map /\ c.map = c.row.map)
  BY <1>2 DEF Map!Column
<1>10. corpus' \in MapRows /\ corpus'.exists
  <2>1. Map!Column(c.row.freeze, "none", corpus.freeze) \in {"none", "set", "expired"}
    BY <1>7 DEF Map!Column, CorpusInv, MapRows
  <2>2. Map!Column(c.row.map, c.map, corpus.map) \in Maps
    BY <1>6, <1>7 DEF Map!Column, CorpusInv, MapRows
  <2> QED BY <1>2, <2>1, <2>2 DEF MapRows
<1>11. PICK map : map = corpus'.map
  OBVIOUS
<1>12. Within(DOMAIN map) /\ Ages(map) \subseteq been \cup Ages(c.map)
  BY <1>6, <1>7, <1>9, <1>11 DEF CorpusInv
<1>13. ASSUME ~lost', NEW e \in been' PROVE Entered(e) /\ (e \in Ages(map) \/ Left(e))
  <2>1. ~lost /\ corpus.map = c.base
    BY <1>2, <1>7, <1>13 DEF CorpusInv
  <2>2. CASE map = c.map
    <3>1. CASE e \in been
      <4>1. Entered(e) /\ (e \in Ages(c.base) \/ Left(e))
        BY <1>7, <2>1, <3>1 DEF CorpusInv
      <4> QED BY <1>6, <2>1, <2>2, <4>1
    <3>2. CASE e \in Ages(c.map)
      BY <1>6, <2>1, <2>2, <3>2
    <3> QED BY <1>2, <1>13, <3>1, <3>2
  <2>3. CASE map = corpus.map /\ c.map = c.row.map
    <3>1. e \in been
      BY <1>2, <1>6, <1>13, <2>3
    <3> QED BY <1>7, <2>1, <2>3, <3>1 DEF CorpusInv
  <2> QED BY <1>9, <1>11, <2>2, <2>3
<1>14. CorpusInv'
  <2>1. incoming' \in Seq(MapEvents) /\ processed' \subseteq DOMAIN incoming' /\ cycle' \in Nat /\ quiet' \in [Runners -> Nat]
    BY <1>2, <1>6, <1>7 DEF CorpusInv
  <2>2. lost' \in BOOLEAN
    BY <1>2, <1>7 DEF CorpusInv
  <2>3. Within(DOMAIN corpus.map)' /\ Ages(corpus.map)' \subseteq been'
    BY <1>2, <1>11, <1>12 DEF Within, Ages, Map!Total, Map!InSection, Map!Tokens
  <2>4. ASSUME ~lost', NEW e \in been' PROVE Entered(e)' /\ (e \in Ages(corpus.map)' \/ Left(e)')
    <3>1. Entered(e) /\ (e \in Ages(map) \/ Left(e))
      BY <1>13, <2>4
    <3>2. (Entered(e) => Entered(e)') /\ (Left(e) => Left(e)')
      BY <1>7, <1>8, ToldStays
    <3>3. Ages(corpus.map)' = Ages(map)
      BY <1>11 DEF Ages
    <3> QED BY <3>1, <3>2, <3>3
  <2> QED BY <1>10, <2>1, <2>2, <2>3, <2>4 DEF CorpusInv
<1> QED BY <1>2, <1>4, <1>5, <1>8, <1>14, RunnerMoves

LEMMA SettleKeeps == ASSUME MapInv, NEW r \in Runners, Map!Settle(r) PROVE MapInv'
<1>1. /\ runner' = [runner EXCEPT ![r] = Map!Idle] /\ UNCHANGED <<incoming, processed, cycle, been, lost>>
      /\ quiet' = [quiet EXCEPT ![r] = IF runner[r].changed THEN 0 ELSE quiet[r] + 1]
      /\ corpus' = corpus \/ (corpus.exists /\ corpus' = [corpus EXCEPT !.freeze = "set"])
  BY DEF Map!Settle, Map!Step, Map!history
<1>2. quiet' \in [Runners -> Nat]
  BY <1>1 DEF MapInv, CorpusInv
<1>3. corpus' \in MapRows /\ corpus'.map = corpus.map /\ corpus'.exists = corpus.exists
      /\ (corpus.exists \/ corpus' = corpus)
  BY <1>1 DEF MapInv, CorpusInv, MapRows
<1>4. CorpusInv'
  BY <1>1, <1>2, <1>3, CorpusStays DEF MapInv, CorpusInv
<1>5. Grows
  BY <1>1 DEF Grows
<1> QED BY <1>1, <1>4, <1>5, RestKeeps, RunnerMoves

LEMMA ThawKeeps == ASSUME MapInv, Map!Thaw PROVE MapInv'
<1>1. /\ corpus.freeze = "set" /\ corpus' = [corpus EXCEPT !.freeze = "expired"]
      /\ UNCHANGED <<incoming, processed, cycle, quiet, been, lost, runner>>
  BY DEF Map!Thaw, Map!Frozen, Map!history
<1>2. corpus.exists /\ corpus' \in MapRows /\ corpus'.map = corpus.map /\ corpus'.exists
  BY <1>1 DEF MapInv, CorpusInv, MapRows
<1>3. CorpusInv'
  BY <1>1, <1>2, CorpusStays DEF MapInv, CorpusInv
<1>4. Grows
  BY <1>1 DEF Grows
<1> QED BY <1>1, <1>3, <1>4, RunnersStay

LEMMA EndKeeps == ASSUME MapInv, NEW r \in Runners, Map!SkillFails(r) \/ Map!Crash(r) PROVE MapInv'
<1>1. /\ runner' = [runner EXCEPT ![r] = Map!Idle] /\ UNCHANGED <<incoming, processed, corpus, cycle, been, lost>>
      /\ quiet' = quiet \/ quiet' = [quiet EXCEPT ![r] = 0]
  BY DEF Map!SkillFails, Map!Crash, Map!Step, Map!history
<1>2. quiet' \in [Runners -> Nat]
  BY <1>1 DEF MapInv, CorpusInv
<1>3. CorpusInv'
  BY <1>1, <1>2, CorpusStays DEF MapInv, CorpusInv
<1>4. Grows
  BY <1>1 DEF Grows
<1> QED BY <1>1, <1>3, <1>4, RestKeeps, RunnerMoves

LEMMA MapKept == ASSUME Map!ParametersAreValid, MapInv, [Map!Next]_(Map!vars) PROVE MapInv'
<1>1. ASSUME NEW r \in Runners, Map!Runner(r) \/ Map!SkillFails(r) \/ Map!Crash(r) PROVE MapInv'
  BY <1>1, PollKeeps, FetchKeeps, ReadMapKeeps, LoadCycleKeeps, BumpCycleKeeps, DistilKeeps, GateKeeps,
     AnnounceInsertedKeeps, AnnounceEvictedKeeps, LoadRowKeeps, WriteMapKeeps, SettleKeeps, EndKeeps DEF Map!Runner
<1>2. CASE UNCHANGED Map!vars
  <2>1. UNCHANGED <<incoming, processed, corpus, cycle, runner, quiet, been, lost>>
    BY <1>2 DEF Map!vars
  <2>2. CorpusInv'
    BY <2>1, CorpusStays DEF MapInv, CorpusInv
  <2>3. Grows
    BY <2>1 DEF Grows
  <2> QED BY <2>1, <2>2, <2>3, RunnersStay
<1> QED BY <1>1, <1>2, ObserveKeeps, ThawKeeps DEF Map!Next

LEMMA MapInvSays == ASSUME Map!ParametersAreValid, MapInv PROVE Map!MapIsSound /\ Map!ChangesAnnounced
<1>1. Map!TypeOK
  <2>1. ASSUME NEW i \in DOMAIN incoming
        PROVE  CASE incoming[i].kind = "inserted" -> incoming[i].key \in Slugs /\ incoming[i].cycle \in Nat \ {0}
                 [] incoming[i].kind = "evicted"  -> incoming[i].key \in Slugs
                 [] OTHER -> incoming[i].kind = "observed"
    <3>1. incoming[i] \in MapEvents
      BY DEF MapInv, CorpusInv
    <3> QED BY <3>1 DEF MapEvents, EntersEvent, LeavesEvent
  <2>2. corpus.exists \in BOOLEAN /\ corpus.freeze \in {"none", "set", "expired"} /\ Map!IsMap(corpus.map)
    BY MapsAreMaps DEF MapInv, CorpusInv, MapRows
  <2>3. \A r \in Runners : runner[r].at \in Map!Places
    BY RunnerFacts, LocalOf
  <2> QED BY <2>1, <2>2, <2>3 DEF Map!TypeOK, MapInv, CorpusInv
<1>2. Map!MapSound
  <2>1. Within(DOMAIN corpus.map) /\ DOMAIN corpus.map \in SUBSET Slugs
    BY MapsAreMaps DEF MapInv, CorpusInv, MapRows, Map!IsMap
  <2>2. Map!Total(DOMAIN corpus.map) <= TokenBudget
    BY <2>1, SharesMakeTheBudget DEF Map!ParametersAreValid
  <2> QED BY <2>1, <2>2 DEF Map!MapSound, Within
<1>3. Map!ChangesAnnounced
  <2> SUFFICES ASSUME ~lost, NEW e \in been
               PROVE  \E i \in DOMAIN incoming :
                         /\ EnteredAt(e, i)
                         /\ \/ e[1] \in DOMAIN corpus.map
                            \/ \E j \in (i + 1)..Len(incoming) : Map!Announced("evicted", e[1], j)
    BY DEF Map!ChangesAnnounced, EnteredAt
  <2>1. Entered(e) /\ (e \in Ages(corpus.map) \/ Left(e)) /\ incoming \in Seq(MapEvents)
    BY DEF MapInv, CorpusInv
  <2>2. CASE e \in Ages(corpus.map)
    <3>1. e[1] \in DOMAIN corpus.map
      BY <2>2, AgesAre
    <3> QED BY <2>1, <3>1 DEF Entered
  <2>3. CASE Left(e)
    <3>1. PICK i, j \in DOMAIN incoming : EnteredAt(e, i) /\ i < j /\ Map!Announced("evicted", e[1], j)
      BY <2>3 DEF Left
    <3>2. j \in (i + 1)..Len(incoming)
      BY <2>1, <3>1
    <3> QED BY <3>1, <3>2
  <2> QED BY <2>1, <2>2, <2>3
<1> QED BY <1>1, <1>2, <1>3 DEF Map!MapIsSound

LEMMA MapAlways == ASSUME Map!ParametersAreValid PROVE Map!Spec => []MapInv
<1>1. Map!Init => MapInv
  BY MapInit DEF Map!ParametersAreValid
<1>2. MapInv /\ [Map!Next]_(Map!vars) => MapInv'
  BY MapKept
<1> QED BY <1>1, <1>2, PTL DEF Map!Spec

\* The context map keeps to its budget and every section to its share, for any keys, sizes, shares, weights
\* and decay, any number of runners that overlap, and any failures and crashes (deterministic_cartographer,
\* _enforce_budget; write_map_and_mark_processed).
THEOREM MapStaysSound == ASSUME Map!ParametersAreValid PROVE Map!Spec => []Map!MapIsSound /\ []MapIsSound
<1>1. MapInv => Map!MapIsSound /\ MapIsSound
  BY MapInvSays DEF MapIsSound
<1> QED BY <1>1, MapAlways, PTL

\* What has entered the map was announced, and what has left it was announced as evicted after that, unless
\* a write replaced a map it had not read (the materializer skill's execute).
THEOREM ChangesStayAnnounced ==
  ASSUME Map!ParametersAreValid PROVE Map!Spec => []Map!ChangesAnnounced /\ []ChangesAnnounced
<1>1. MapInv => Map!ChangesAnnounced /\ ChangesAnnounced
  BY MapInvSays DEF ChangesAnnounced
<1> QED BY <1>1, MapAlways, PTL
=============================================================================
