------------------------------- MODULE FileEdit -------------------------------
(***************************************************************************)
(* The file tools (system_tools/file_tools.py): patch with its three       *)
(* strategies, apply_diff, write_file, and reading page by page, by tools  *)
(* that run in threads of their own and take no lock on the file.          *)
(*                                                                         *)
(* Abstracted: a text is a sequence of characters, "s" a space and "n" the *)
(* end of a line; a diff is its parsed hunks.  Lint results, the guards    *)
(* against binary files and the wording of answers are left out; a hunk    *)
(* starts at a line and has an old line.                                   *)
(***************************************************************************)
EXTENDS Naturals, Sequences, FiniteSets, SequencesExt

CONSTANTS Editors, \* tool calls on one file
          Jobs     \* [file: a text, call: [Editors -> a request]]

VARIABLES job,    \* what is asked for
          stage,  \* stage[e]: "ready" | "write" | "filling" | "paging" | "over"
          file,   \* the text on disk
          draft,  \* draft[e]: the text it is going to write, or has read so far
          answer, \* answer[e]: "none" | "refused" | "failed" | how it matched | "done"
          seen,   \* history: the text each call started from
          between \* history: between[e]: the file was written while e was under way

vars == <<job, stage, file, draft, answer, seen, between>>

Max2(a, b) == IF a < b THEN b ELSE a

-----------------------------------------------------------------------------
(* Text. *)
Lines(text) ==
    FoldLeft(LAMBDA acc, c : IF c = "n" THEN Append(acc, <<>>) ELSE [acc EXCEPT ![Len(acc)] = Append(@, c)],
             << <<>> >>, text)
Joined(lines) == IF lines = <<>> THEN <<>>
                 ELSE Tail(FoldLeft(LAMBDA acc, line : acc \o <<"n">> \o line, <<>>, lines))

Strip(line) ==
    LET ink == {i \in DOMAIN line : line[i] # "s"}
    IN  IF ink = {} THEN <<>>
        ELSE SubSeq(line, CHOOSE i \in ink : \A j \in ink : i <= j, CHOOSE i \in ink : \A j \in ink : j <= i)
Stripped(lines) == [i \in DOMAIN lines |-> Strip(lines[i])]

\* One space for every run of spaces.
Normalize(text) ==
    FoldLeft(LAMBDA acc, c : IF c = "s" /\ acc # <<>> /\ Last(acc) = "s" THEN acc ELSE Append(acc, c), <<>>, text)

At(text, i, old) == SubSeq(text, i, i + Len(old) - 1) = old

\* The matches that str.count counts: from the left, none overlapping the last one.
Matches(text, old) ==
    FoldLeft(LAMBDA acc, i : IF At(text, i, old) /\ (acc = <<>> \/ i >= Last(acc) + Len(old))
                             THEN Append(acc, i) ELSE acc,
             <<>>, [i \in 1..Max2(0, Len(text) + 1 - Len(old)) |-> i])

\* The text with `new' in place of `width' elements at each of the positions `at', as the code
\* copies it: from the end of the last match to the next one.
Splice(text, at, width, new) ==
    LET walk == FoldLeft(LAMBDA acc, i : [out |-> acc.out \o SubSeq(text, acc.end, i - 1) \o new, end |-> i + width],
                         [out |-> <<>>, end |-> 1], at)
    IN  walk.out \o SubSeq(text, walk.end, Len(text))

\* The loop of strategy 3: a position found in the normalized rest is used in the rest as it is.
RECURSIVE Collapsed(_, _, _, _)
Collapsed(rest, old, new, all) ==
    LET found == Matches(Normalize(rest), old) IN
    IF found = <<>> THEN rest
    ELSE LET tail == SubSeq(rest, found[1] + Len(old), Len(rest))
         IN  SubSeq(rest, 1, found[1] - 1) \o new \o IF all THEN Collapsed(tail, old, new, all) ELSE tail

NoMatch(text, count) == [text |-> text, count |-> count, how |-> "none"]

\* _fuzzy_find_and_replace: the first strategy that finds a match decides.
Fuzzy(content, old, new, all) ==
    LET exact == Matches(content, old)
        lines == Lines(content)
        wanted == Stripped(Lines(old))
        windows == SelectSeq([i \in 1..Max2(0, Len(lines) + 1 - Len(wanted)) |-> i],
                             LAMBDA i : At(Stripped(lines), i, wanted))
        loose == Matches(Normalize(content), Normalize(old))
    IN  CASE old = <<>> \/ old = new -> NoMatch(content, 0)
          [] old # <<>> /\ old # new /\ exact # <<>> ->
                IF all \/ Len(exact) = 1
                THEN [text |-> Splice(content, exact, Len(old), new), count |-> Len(exact), how |-> "exact"]
                ELSE NoMatch(content, Len(exact))
          [] old # <<>> /\ old # new /\ exact = <<>> /\ windows # <<>> ->
                IF all \/ Len(windows) = 1
                THEN [text |-> Joined(Splice(lines, windows, Len(wanted), Lines(new))),
                      count |-> Len(windows), how |-> "line_trimmed"]
                ELSE NoMatch(content, Len(windows))
          [] OTHER ->
                IF loose # <<>> /\ (all \/ Len(loose) = 1)
                THEN [text |-> Collapsed(content, Normalize(old), new, all),
                      count |-> Len(loose), how |-> "whitespace_normalized"]
                ELSE NoMatch(content, Len(loose))

-----------------------------------------------------------------------------
(* Unified diffs: a sequence of hunks [start, count, ops], an op being [op, text].  A diff that *)
(* ends with a newline has an empty last line, which is read as an empty line of context.       *)
Ops(diff, h) ==
    diff.hunks[h].ops \o IF diff.newline /\ h = Len(diff.hunks) THEN <<[op |-> " ", text |-> <<>>]>> ELSE <<>>
Old(ops) == LET kept == SelectSeq(ops, LAMBDA o : o.op # "+") IN [i \in DOMAIN kept |-> kept[i].text]
New(ops) == LET kept == SelectSeq(ops, LAMBDA o : o.op # "-") IN [i \in DOMAIN kept |-> kept[i].text]

Fits(lines, start, ops) ==
    start + Len(Old(ops)) - 1 <= Len(lines) /\ SubSeq(lines, start, start + Len(Old(ops)) - 1) = Old(ops)

\* Mutant: the hunks are applied in their order, at the lines the diff gives.
ApplyForward(lines, diff) ==
    FoldLeft(LAMBDA acc, h :
                LET hunk == diff.hunks[h] IN
                IF ~acc.ok \/ ~Fits(acc.lines, hunk.start, Ops(diff, h)) THEN [ok |-> FALSE, lines |-> lines]
                ELSE [ok |-> TRUE, lines |-> SubSeq(acc.lines, 1, hunk.start - 1) \o New(Ops(diff, h))
                                             \o SubSeq(acc.lines, hunk.start + hunk.count, Len(acc.lines))],
             [ok |-> TRUE, lines |-> lines], [h \in DOMAIN diff.hunks |-> h])

\* _apply_unified_diff: from the last hunk to the first; the lines of the header's count are
\* replaced, the lines of the body are compared.
Apply(lines, diff) ==
    FoldRight(LAMBDA h, acc :
                LET hunk == diff.hunks[h] IN
                IF ~acc.ok \/ ~Fits(acc.lines, hunk.start, Ops(diff, h)) THEN [ok |-> FALSE, lines |-> lines]
                ELSE [ok |-> TRUE, lines |-> SubSeq(acc.lines, 1, hunk.start - 1) \o New(Ops(diff, h))
                                             \o SubSeq(acc.lines, hunk.start + hunk.count, Len(acc.lines))],
              [h \in DOMAIN diff.hunks |-> h], [ok |-> TRUE, lines |-> lines])

-----------------------------------------------------------------------------
Request(e) == job.call[e]

Init ==
    /\ job \in Jobs /\ file = job.file
    /\ stage = [e \in Editors |-> "ready"] /\ draft = [e \in Editors |-> <<>>]
    /\ answer = [e \in Editors |-> "none"] /\ seen = [e \in Editors |-> <<>>]
    /\ between = [e \in Editors |-> FALSE]

Answer(e, a) == stage' = [stage EXCEPT ![e] = "over"] /\ answer' = [answer EXCEPT ![e] = a]
ReadsFile(e) == stage[e] = "ready" /\ seen' = [seen EXCEPT ![e] = file]
Drafts(e, text, how) ==
    /\ stage' = [stage EXCEPT ![e] = "write"]
    /\ draft' = [draft EXCEPT ![e] = text] /\ answer' = [answer EXCEPT ![e] = how]
Written(e) == between' = [x \in Editors |-> between[x] \/ (x # e /\ stage[x] \notin {"ready", "over"})]

\* patch: read and match; no match, or several, change nothing.
Patch(e) ==
    LET r == Fuzzy(file, Request(e).old, Request(e).new, Request(e).all) IN
    /\ Request(e).tool = "patch" /\ ReadsFile(e) /\ UNCHANGED <<job, file, between>>
    /\ \/ r.how = "none" /\ Answer(e, "refused") /\ UNCHANGED draft
       \/ r.how # "none" /\ Drafts(e, r.text, r.how)

\* apply_diff: a hunk that does not fit, or Python that no longer parses, changes nothing.
ApplyDiff(e) ==
    LET r == Apply(Lines(file), Request(e).diff) IN
    /\ Request(e).tool = "apply_diff" /\ ReadsFile(e) /\ UNCHANGED <<job, file, between>>
    /\ \/ (~r.ok \/ Request(e).python) /\ Answer(e, "refused") /\ UNCHANGED draft
       \/ r.ok /\ Drafts(e, Joined(r.lines), "applied")

\* write_file reads only to compare what the linter says.
WriteFile(e) ==
    /\ Request(e).tool = "write_file" /\ ReadsFile(e) /\ UNCHANGED <<job, file, between>>
    /\ Drafts(e, Request(e).text, "written")

\* write_text opens the file, which empties it, and writes from its start; either may fail.
Open(e) ==
    /\ stage[e] = "write" /\ UNCHANGED <<job, draft, seen>>
    /\ \/ stage' = [stage EXCEPT ![e] = "filling"] /\ file' = <<>> /\ Written(e) /\ UNCHANGED answer
       \/ Answer(e, "failed") /\ UNCHANGED <<file, between>>
Fill(e) ==
    /\ stage[e] = "filling" /\ UNCHANGED <<job, draft, seen>>
    /\ \/ /\ file' = draft[e] \o SubSeq(file, Len(draft[e]) + 1, Len(file))
          /\ stage' = [stage EXCEPT ![e] = "over"] /\ Written(e) /\ UNCHANGED answer
       \/ Answer(e, "failed") /\ UNCHANGED <<file, between>>

-----------------------------------------------------------------------------
(* read_file and view_file: `draft' holds the lines shown so far; a page is cut from the file   *)
(* as it is now and its hint names the line to go on from, as long as there is one.             *)
StartOf(e) == Len(draft[e]) + 1
EndOf(e) == IF StartOf(e) + Request(e).limit - 1 < Len(Lines(file))
            THEN StartOf(e) + Request(e).limit - 1 ELSE Len(Lines(file))

ShowPage(e) ==
    /\ Request(e).tool = "view_file" /\ stage[e] \in {"ready", "paging"}
    /\ draft' = [draft EXCEPT ![e] = @ \o SubSeq(Lines(file), StartOf(e), EndOf(e))]
    /\ seen' = IF stage[e] = "ready" THEN [seen EXCEPT ![e] = file] ELSE seen
    /\ IF EndOf(e) < Len(Lines(file)) THEN stage' = [stage EXCEPT ![e] = "paging"] /\ UNCHANGED answer
                                      ELSE Answer(e, "done")
    /\ UNCHANGED <<job, file, between>>

Edit(e) == Patch(e) \/ ApplyDiff(e) \/ WriteFile(e) \/ Open(e) \/ Fill(e) \/ ShowPage(e)
AllOver == \A e \in Editors : stage[e] = "over"
Next == (\E e \in Editors : Edit(e)) \/ (AllOver /\ UNCHANGED vars)

Spec == Init /\ [][Next]_vars

-----------------------------------------------------------------------------
TypeOK ==
    /\ \A e \in Editors : stage[e] \in {"ready", "write", "filling", "paging", "over"}
    /\ \A e \in Editors : answer[e] \in {"none", "refused", "failed", "done", "exact", "line_trimmed",
                                         "whitespace_normalized", "applied", "written"}
    /\ DOMAIN draft = Editors /\ DOMAIN seen = Editors

\* A patch without replace_all that matched exactly or by trimmed lines replaced one passage that
\* reads like old_string, the only one, and left the text before and after it as it was
\* (_fuzzy_find_and_replace, strategies 1 and 2).
SplitAt(text, i, j, e) ==
    /\ draft[e] = SubSeq(text, 1, i - 1) \o Request(e).new \o SubSeq(text, j + 1, Len(text))
    /\ Stripped(Lines(SubSeq(text, i, j))) = Stripped(Lines(Request(e).old))
PatchIsTargeted ==
    \A e \in Editors :
        (answer[e] \in {"exact", "line_trimmed"} /\ ~Request(e).all) =>
            /\ \E i \in 1..(Len(seen[e]) + 1), j \in 0..Len(seen[e]) : i <= j + 1 /\ SplitAt(seen[e], i, j, e)
            /\ Len(Matches(seen[e], Request(e).old)) <= 1

\* The lines that a diff asks for: those outside the ranges of its headers as they were, and in
\* place of each range the lines of its hunk.
Wanted(lines, diff) ==
    LET covered(i) == \E h \in DOMAIN diff.hunks :
                          i \in diff.hunks[h].start..(diff.hunks[h].start + Len(Old(diff.hunks[h].ops)) - 1)
        begun(i) == {h \in DOMAIN diff.hunks : diff.hunks[h].start = i}
        part(i) == (IF begun(i) = {} THEN <<>> ELSE New(diff.hunks[CHOOSE h \in begun(i) : TRUE].ops))
                   \o IF i \in DOMAIN lines /\ ~covered(i) THEN <<lines[i]>> ELSE <<>>
    IN  FlattenSeq([i \in 1..(Len(lines) + 1) |-> part(i)])
Honest(diff) == \A h \in DOMAIN diff.hunks : diff.hunks[h].count = Len(Old(diff.hunks[h].ops))

\* An applied diff whose headers count the lines of its hunks, and that does not end with a
\* newline, changes the lines it specifies and no other, however many hunks it has and whatever
\* they add or remove before one another.
DiffIsExact ==
    \A e \in Editors :
        (answer[e] = "applied" /\ Honest(Request(e).diff) /\ ~Request(e).diff.newline) =>
            draft[e] = Joined(Wanted(Lines(seen[e]), Request(e).diff))

\* Calls that do not overlap are serial: the edits compose in some order, a reader has seen each
\* line of the file once, and refused calls change nothing.  An edit is lost, or a text torn, only
\* when another call writes between a call's reading and its end.
Writers == {e \in Editors : answer[e] \notin {"refused", "done"}}
Serializable ==
    /\ \A e \in Editors : (answer[e] = "done" /\ ~between[e]) => draft[e] = Lines(seen[e])
    /\ (AllOver /\ \A e \in Editors : ~between[e] /\ answer[e] # "failed") =>
           \E s \in SetToSeqs(Writers) :
               LET text == [i \in 0..Len(s) |-> IF i = 0 THEN job.file ELSE draft[s[i]]] IN
               /\ \A i \in DOMAIN s : seen[s[i]] = text[i - 1]
               /\ file = text[Len(s)]
=============================================================================
