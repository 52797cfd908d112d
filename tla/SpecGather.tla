----------------------------- MODULE SpecGather -----------------------------
(***************************************************************************)
(* The spec_writer skill: an interview of several calls that collects the  *)
(* context of a specification in one row of the shared memory (gather),    *)
(* and the calls that draft or refine a specification from it.             *)
(*                                                                         *)
(* A call reads the row, works on its copy and writes the copy back; calls *)
(* of one turn run beside each other. What was answered matters only as    *)
(* given or not; the components an answer names may be none, may be named  *)
(* twice, and have their details under their names.                        *)
(***************************************************************************)
EXTENDS Naturals, Sequences, FiniteSets, SequencesExt, Functions

CONSTANTS Writers,     \* calls that may be in progress at once
          Lists,       \* the component names that an answer may hold
          MaxAnswers   \* bound: calls of the interview

\* What a prover or a reader may rely on.
ListsAreNames == Lists \subseteq Seq(STRING)

VARIABLES row,         \* the gather state in memory, or NoRow
          spec,        \* the draft in memory: "none", "flat" or "context"
          documents,   \* what the XML files under specs/ hold
          step,        \* step[c]: where a call is
          copy,        \* copy[c]: its gather state
          context,     \* context[c]: the document a draft is written from
          begun,       \* interview calls so far
          given,       \* history: answers that were recorded
          raced        \* history: two interview calls overlapped, or one was killed

vars == <<row, spec, documents, step, copy, context, begun, given, raced>>

Phases == {"overview", "feature", "list", "detail", "constraints", "complete"}
NoRow == [phase |-> "none"]
NoXml == <<>>
Fresh == [phase |-> "overview", answered |-> {}, names |-> <<>>, details |-> {}, at |-> 1, xml |-> NoXml]

Init ==
    /\ row = NoRow /\ spec = "none" /\ documents = {} /\ begun = 0 /\ given = 0 /\ raced = FALSE
    /\ step = [c \in Writers |-> "idle"] /\ copy = [c \in Writers |-> NoRow]
    /\ context = [c \in Writers |-> NoXml]

-----------------------------------------------------------------------------
(* The interview *)

Answered(s, phase, next) == [s EXCEPT !.answered = @ \cup {phase}, !.phase = next]

\* Mutant: the constraints are asked for with one component left.
DescribedShort(s) ==
    [s EXCEPT !.details = @ \cup {s.names[s.at]},
              !.at = IF s.at + 1 < Len(s.names) THEN s.at + 1 ELSE s.at,
              !.phase = IF s.at + 1 < Len(s.names) THEN s.phase ELSE "constraints"]

\* The detail of the component in turn; after the last one, the constraints.
Described(s) ==
    [s EXCEPT !.details = @ \cup {s.names[s.at]},
              !.at = IF s.at < Len(s.names) THEN s.at + 1 ELSE s.at,
              !.phase = IF s.at < Len(s.names) THEN s.phase ELSE "constraints"]

\* _apply_answer_and_advance, for an answer that is not empty: the states it may give.
Advanced(s) ==
    CASE s.phase = "overview"    -> {Answered(s, "overview", "feature")}
      [] s.phase = "feature"     -> {Answered(s, "feature", "list")}
      [] s.phase = "list"        -> {[s EXCEPT !.names = l, !.at = 1, !.phase = "detail"] : l \in Lists}
      [] s.phase = "detail"      -> {Described(s)}
      [] s.phase = "constraints" -> {Answered(s, "constraints", "complete")}
      [] s.phase = "complete"    -> {s}

\* _generate_xml_context: each component with its detail, or with nothing.
Document(s) == [answered |-> s.answered, components |-> [i \in DOMAIN s.names |-> s.names[i] \in s.details]]
Sealed(s) == IF s.phase = "complete" THEN [s EXCEPT !.xml = <<Document(s)>>] ELSE s

\* No name was found in the list of components: the question for the first one has nothing to ask.
Unaskable(s) == s.phase = "detail" /\ s.names = <<>>

Loaded == IF row = NoRow THEN Fresh ELSE row
Interviewing == \E c \in Writers : step[c] \in {"save", "write"}
Go(c, s) == step' = [step EXCEPT ![c] = s]

\* A call of the interview, with an answer or without. It raises when an answer belongs to a
\* component that is not there.
Begin(c) ==
    /\ step[c] = "idle" /\ begun < MaxAnswers /\ begun' = begun + 1
    /\ raced' = (raced \/ Interviewing)
    /\ \/ copy' = [copy EXCEPT ![c] = Sealed(Loaded)] /\ Go(c, "save") /\ UNCHANGED given
       \/ /\ ~Unaskable(Loaded)
          /\ \E s \in Advanced(Loaded) :
                /\ copy' = [copy EXCEPT ![c] = Sealed(s)]
                /\ given' = given + (IF s = Loaded THEN 0 ELSE 1)
          /\ Go(c, "save")
       \/ Unaskable(Loaded) /\ UNCHANGED <<step, copy, given>>
    /\ UNCHANGED <<row, spec, documents, context>>

\* The copy is written before the question is put into words, which may raise, and before the file.
Save(c) ==
    /\ step[c] = "save" /\ row' = copy[c]
    /\ Go(c, IF copy[c].phase = "complete" THEN "write" ELSE "idle")
    /\ UNCHANGED <<spec, documents, copy, context, begun, given, raced>>

WriteFile(c) ==
    /\ step[c] = "write" /\ documents' = documents \cup {copy[c].xml[1]} /\ Go(c, "idle")
    /\ UNCHANGED <<row, spec, copy, context, begun, given, raced>>

\* The call is given up: what it has not written is lost.
Killed(c) ==
    /\ step[c] \in {"save", "write"} /\ Go(c, "idle") /\ raced' = TRUE
    /\ UNCHANGED <<row, spec, documents, copy, context, begun, given>>

-----------------------------------------------------------------------------
(* Drafts *)

\* A draft needs no interview and takes the document of a complete one; a refinement is blocked
\* without a draft.
Draft(c) ==
    /\ step[c] = "idle" /\ Go(c, "draft")
    /\ context' = [context EXCEPT ![c] = IF row.phase = "complete" THEN row.xml ELSE NoXml]
    /\ UNCHANGED <<row, spec, documents, copy, begun, given, raced>>

RefineDraft(c) == spec # "none" /\ Draft(c)

\* The file, and then the row.
SaveDraft(c) ==
    /\ step[c] = "draft" /\ Go(c, "idle")
    /\ spec' = IF context[c] = NoXml THEN "flat" ELSE "context"
    /\ context' = [context EXCEPT ![c] = NoXml]
    /\ UNCHANGED <<row, documents, copy, begun, given, raced>>

Call(c) == Begin(c) \/ Save(c) \/ WriteFile(c) \/ Killed(c) \/ Draft(c) \/ RefineDraft(c) \/ SaveDraft(c)
Next == \E c \in Writers : Call(c)

-----------------------------------------------------------------------------
\* A document says that it is everything the spec author should know: no call, whatever others
\* were beside it or killed, makes one, in the row, in a file or for a draft, in which a question
\* or a component is left out.
Whole(d) == d.answered = {"overview", "feature", "constraints"} /\ \A i \in DOMAIN d.components : d.components[i]
ContextIsWhole ==
    /\ \A d \in documents : Whole(d)
    /\ row.phase = "complete" => row.xml # NoXml /\ Whole(row.xml[1])
    /\ \A c \in Writers : context[c] # NoXml => Whole(context[c][1])

\* While calls come one after the other, each answer is recorded once, under the question that was
\* asked: the place of the interview is the number of answers.
Place(s) ==
    CASE s.phase = "none" -> 0 [] s.phase = "overview" -> 0 [] s.phase = "feature" -> 1 [] s.phase = "list" -> 2
      [] s.phase = "detail" -> 2 + s.at [] s.phase = "constraints" -> 3 + Len(s.names)
      [] s.phase = "complete" -> 4 + Len(s.names)
AnswersAreRecorded == ~raced /\ ~Interviewing => Place(row) = given
=============================================================================
