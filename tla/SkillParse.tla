------------------------------ MODULE SkillParse ------------------------------
(***************************************************************************)
(* What skill_compiler.py makes of the body of a SKILL.md: the units of    *)
(* its markdown, the contracts extracted from them and their verification. *)
(* A body is a sequence of kinds of line: "exec" opens a fence in a        *)
(* language that is executed, "fence" is any other fence line; the second  *)
(* of two fences closes the first, whatever its language.                  *)
(***************************************************************************)
EXTENDS Naturals, Sequences, FiniteSets, SequencesExt

LineKinds == {"blank", "text", "heading", "step", "exec", "fence"}

Positions(body, kinds) == SetToSortSeq({i \in DOMAIN body : body[i] \in kinds}, <)
Unit(type, from, to) == [type |-> type, from |-> from, to |-> to]
Lines(units) == UNION {u.from..u.to : u \in units}

-----------------------------------------------------------------------------
(* Stage 1: _parse_units *)

\* _parse_code_blocks: the executable fences that are closed and say something.
CodeBlocks(body) ==
    LET fences == Positions(body, {"exec", "fence"})
    IN  {Unit("code_block", fences[k], fences[k + 1]) :
            k \in {k \in DOMAIN fences : /\ k % 2 = 1 /\ k < Len(fences)
                                         /\ body[fences[k]] = "exec"
                                         /\ \E i \in (fences[k] + 1)..(fences[k + 1] - 1) : body[i] # "blank"}}

\* The end of what starts at i: before the next of the given lines, or with the body.
EndOf(body, i, starts) ==
    LET later == {j \in starts : j > i}
    IN  IF later = {} THEN Len(body) ELSE (CHOOSE j \in later : \A k \in later : j <= k) - 1

\* _parse_heading_sections: from a heading to the next, when a line of it is left over from the code.
Sections(body, taken) ==
    LET headings == {i \in DOMAIN body \ taken : body[i] = "heading"}
        section(i) == Unit("heading_section", i, EndOf(body, i, headings))
    IN  {section(i) : i \in {i \in headings : \E j \in (i + 1)..EndOf(body, i, headings) :
                                                  j \notin taken /\ body[j] # "blank"}}

\* _parse_numbered_steps: the lines that are taken are passed over, and so are part of the text.
Steps(body, taken) ==
    LET free == DOMAIN body \ taken
        stops == {i \in free : body[i] \in {"step", "heading"}}
    IN  {Unit("numbered_step", i, EndOf(body, i, stops)) : i \in {i \in free : body[i] = "step"}}

Units(body) ==
    LET code == CodeBlocks(body)
        sections == Sections(body, Lines(code))
    IN  code \cup sections \cup Steps(body, Lines(code) \cup Lines(sections))

-----------------------------------------------------------------------------
(* Stage 2: _cluster_units. Each unit that is in no cluster yet starts one and takes the later ones *)
(* that are near it; when the embedder fails every unit is a cluster of its own.                    *)

Clusters(n, near) ==
    LET step(acc, i) ==
            IF i \in acc.assigned THEN acc
            ELSE LET members == {i} \cup {j \in (i + 1)..n : j \notin acc.assigned /\ {i, j} \in near}
                 IN  [assigned |-> acc.assigned \cup members, clusters |-> Append(acc.clusters, members)]
    IN  FoldLeft(step, [assigned |-> {}, clusters |-> <<>>], [i \in 1..n |-> i]).clusters

-----------------------------------------------------------------------------
(* Stage 3. What a cluster yields: a list of [name, inputs, template], where the template says      *)
(* whether its words are "found" in the body or the parameters, or "none". The language model gives *)
(* one contract per cluster, or nothing that can be parsed; when its call fails, and without a      *)
(* model, the first command of every code block is one, with no inputs and words from the body.     *)

Stub(name) == [name |-> name, inputs |-> {}, template |-> "found"]
Extracted(answers) == FlattenSeq(answers)

\* templates[name], written in the order of the clusters.
Templates(contracts) ==
    LET with == {k \in DOMAIN contracts : contracts[k].template # "none"}
        named(name) == {k \in with : contracts[k].name = name}
    IN  [name \in {contracts[k].name : k \in with} |->
            contracts[CHOOSE k \in named(name) : \A m \in named(name) : m <= k].template]

-----------------------------------------------------------------------------
(* Stage 4: _verify_contracts, and the bundle *)

\* The words of the contract's template, and, but for knowledge skills, its inputs.
Covered(c, templates) == c.name \in DOMAIN templates => templates[c.name] = "found"
Bound(c, skill) == skill.knowledge \/ c.inputs \subseteq skill.params

\* Mutant: a contract is checked with the template of its own cluster.
PassesOwn(c, templates, skill) == c.template # "missing" /\ Bound(c, skill)

\* _verify_contracts
Passes(c, templates, skill) == Covered(c, templates) /\ Bound(c, skill)

\* _check_replacement, _check_risk: of the promoted contracts only.
Remarks(promoted, skill) ==
    (IF promoted # <<>> /\ skill.unbalanced THEN {<<"replacement", "body">>} ELSE {})
    \cup {<<"risk", c.name>> : c \in {c \in ToSet(promoted) : c.name \in skill.inWords}}

Compiled(answers, skill) ==
    LET contracts == Extracted(answers)
        templates == Templates(contracts)
        passes(c) == Passes(c, templates, skill)
        promoted == SelectSeq(contracts, passes)
        errors == {<<"contract", c.name>> : c \in {c \in ToSet(contracts) : ~passes(c)}} \cup Remarks(promoted, skill)
        last(name) == promoted[CHOOSE k \in DOMAIN promoted :
                          /\ promoted[k].name = name
                          /\ \A m \in DOMAIN promoted : promoted[m].name = name => m <= k]
    IN  [contracts |-> [name \in {promoted[k].name : k \in DOMAIN promoted} |-> last(name)],
         templates |-> templates,
         errors    |-> errors,
         status    |-> CASE contracts = <<>> -> "full"
                         [] contracts # <<>> /\ promoted # <<>> /\ errors = {} -> "full"
                         [] contracts # <<>> /\ promoted # <<>> /\ errors # {} -> "partial"
                         [] OTHER -> "rejected"]

-----------------------------------------------------------------------------
(* Properties, of one body and of one list of answers *)

\* Whatever the body, nothing an agent is told to do is lost on the way to the language model:
\* every numbered line, every executable block that is closed, and every line of text under a heading
\* is part of a unit; and every unit is in exactly one cluster, whatever is near what.
UnitsKeepInstructions(body) ==
    LET units == Units(body)
        firstHeading == {i \in DOMAIN body : body[i] = "heading" /\ i \notin Lines(CodeBlocks(body))}
    IN  /\ \A i \in DOMAIN body :
              body[i] = "step" \/ (body[i] = "text" /\ \E h \in firstHeading : h < i) => i \in Lines(units)
        /\ \A u, v \in units : u # v /\ u.type = v.type => u.from..u.to \cap v.from..v.to = {}
ClustersPartition(n, near) ==
    LET clusters == Clusters(n, near)
    IN  /\ UNION ToSet(clusters) = 1..n
        /\ \A a, b \in DOMAIN clusters : a # b => clusters[a] \cap clusters[b] = {}

\* What a bundle offers to be called has been verified: the template that stands under a contract's
\* name, which a later cluster may have written, is the one the contract was checked with; and a
\* bundle that calls itself full offers every contract that was extracted.
BundleIsVerified(answers, skill) ==
    LET bundle == Compiled(answers, skill)  contracts == Extracted(answers)
    IN  /\ \A name \in DOMAIN bundle.contracts :
              Covered(bundle.contracts[name], bundle.templates) /\ Bound(bundle.contracts[name], skill)
        /\ bundle.status = "full" =>
              /\ bundle.errors = {}
              /\ \A k \in DOMAIN contracts : contracts[k].name \in DOMAIN bundle.contracts
        /\ bundle.status = "rejected" => bundle.contracts = <<>>
=============================================================================
