-------------------------- MODULE PipelineBusProofs --------------------------
(***************************************************************************)
(* The safety of the v2 pipeline over the bus, for any workflows, plans    *)
(* and number of faults, hence any number of runners left subscribed and   *)
(* any depth of nested publications.                                       *)
(*                                                                         *)
(* A handler is a fold over its effects, so the proof first says, once per *)
(* handler, what it has written, run and saved when it ends or is cut      *)
(* short (its deeds); a step of Next is then a call, a return, a handler   *)
(* that steps aside, or a deed.  IInv has three parts besides the types:   *)
(*   Ground       one call is under way and all publications are about it; *)
(*   RepeatsLeft  a step is run at most once by each runner that has not   *)
(*   and LeftOver handled its event, which are one per failure and the     *)
(*                call's own: LeftOver follows the event on its way to all *)
(*                of them, so that only failures leave a runner behind;    *)
(*   CleanSoFar   while nothing has raised, only the call's own runner     *)
(*                works, and has done the steps up to its phase.           *)
(***************************************************************************)
EXTENDS PipelineBus, SequenceFoldProofs, FiniteSetTheorems

-----------------------------------------------------------------------------
(* What a handler has done after each of its effects *)

Saved == {"none", "probe", "gate"}
Deed(rows, runs, saved) == Effect(rows, runs, saved, FALSE)

LEMMA EffectType ==
  ASSUME NEW rows \in Seq(Events), NEW runs \in Seq(StepRuns), NEW s \in Saved, NEW b \in BOOLEAN
  PROVE  /\ Effect(rows, runs, s, b) \in Effects
         /\ Effect(rows, runs, s, b).rows = rows /\ Effect(rows, runs, s, b).runs = runs
         /\ Effect(rows, runs, s, b).saved = s /\ Effect(rows, runs, s, b).raises = b
BY DEF Effect, Effects, Saved

LEMMA EffectTypes ==
  /\ \A e \in Events : Row(e) \in Effects /\ Kept(e) \in Effects
  /\ \A s \in {"probe", "gate"} : Snapshot(s) \in Effects /\ KeptSnapshot(s) \in Effects
  /\ Read \in Effects
  /\ \A step \in Steps, w \in Workflows, p \in Personas :
        Run(step, w, p) \in Effects /\ RunOrRaise(step, w, p) \in Effects
<1>1. <<>> \in Seq(Events) /\ <<>> \in Seq(StepRuns) /\ "none" \in Saved /\ "probe" \in Saved /\ "gate" \in Saved
      /\ TRUE \in BOOLEAN /\ FALSE \in BOOLEAN
  BY DEF Saved
<1>2. \A e \in Events : <<e>> \in Seq(Events)
  OBVIOUS
<1>3. \A step \in Steps, w \in Workflows, p \in Personas : <<StepRun(step, w, p)>> \in Seq(StepRuns)
  BY DEF StepRun, StepRuns
<1>4. \A e \in Events : Row(e) \in Effects /\ Kept(e) \in Effects
  BY <1>1, <1>2, EffectType DEF Row, Kept
<1>5. ASSUME NEW s \in {"probe", "gate"} PROVE Snapshot(s) \in Effects /\ KeptSnapshot(s) \in Effects
  <2>1. s \in Saved
    BY DEF Saved
  <2> QED BY <1>1, <2>1, EffectType DEF Snapshot, KeptSnapshot
<1>6. Read \in Effects
  BY <1>1, EffectType DEF Read
<1>7. \A step \in Steps, w \in Workflows, p \in Personas :
         Run(step, w, p) \in Effects /\ RunOrRaise(step, w, p) \in Effects
  BY <1>1, <1>3, EffectType DEF Run, RunOrRaise
<1> QED BY <1>4, <1>5, <1>6, <1>7

LEMMA ThenIs ==
  ASSUME NEW x \in Effects, NEW rows \in Seq(Events), NEW runs \in Seq(StepRuns), NEW saved \in Saved
  PROVE  Then[x][Deed(rows, runs, saved)]
            = Deed(rows \o x.rows, runs \o x.runs, IF x.saved = "none" THEN saved ELSE x.saved)
<1> DEFINE d == Deed(rows, runs, saved)
<1>1. d \in Effects /\ d.rows = rows /\ d.runs = runs /\ d.saved = saved
  BY EffectType DEF Deed
<1> HIDE DEF d
<1>2. Then[x][d] = Effect(d.rows \o x.rows, d.runs \o x.runs, IF x.saved = "none" THEN d.saved ELSE x.saved, FALSE)
  BY <1>1 DEF Then
<1>3. Then[x][d] = Effect(rows \o x.rows, runs \o x.runs, IF x.saved = "none" THEN saved ELSE x.saved, FALSE)
  BY <1>1, <1>2
<1> QED BY <1>3 DEF Deed, d

LEMMA DoneNothing == Done(<<>>) = Deed(<<>>, <<>>, "none")
BY FoldEmpty DEF Done, Deed

LEMMA DoneStep ==
  ASSUME NEW s \in Seq(Effects), NEW rows \in Seq(Events), NEW runs \in Seq(StepRuns), NEW saved \in Saved,
         Done(s) = Deed(rows, runs, saved)
  PROVE  /\ \A e \in Events : /\ Done(Append(s, Row(e))) = Deed(Append(rows, e), runs, saved)
                              /\ Done(Append(s, Kept(e))) = Deed(Append(rows, e), runs, saved)
         /\ \A step \in Steps, w \in Workflows, p \in Personas :
               /\ Done(Append(s, Run(step, w, p))) = Deed(rows, Append(runs, StepRun(step, w, p)), saved)
               /\ Done(Append(s, RunOrRaise(step, w, p))) = Deed(rows, Append(runs, StepRun(step, w, p)), saved)
         /\ \A x \in {"probe", "gate"} : /\ Done(Append(s, Snapshot(x))) = Deed(rows, runs, x)
                                         /\ Done(Append(s, KeptSnapshot(x))) = Deed(rows, runs, x)
         /\ Done(Append(s, Read)) = Deed(rows, runs, saved)
<1>1. ASSUME NEW x \in Effects
      PROVE  Done(Append(s, x)) = Deed(rows \o x.rows, runs \o x.runs, IF x.saved = "none" THEN saved ELSE x.saved)
  <2>1. Done(Append(s, x)) = Then[x][Done(s)]
    BY FoldAppend DEF Done
  <2> QED BY <2>1, ThenIs
<1>2. rows \o <<>> = rows /\ runs \o <<>> = runs
  OBVIOUS
<1>3. ASSUME NEW e \in Events
      PROVE  /\ Done(Append(s, Row(e))) = Deed(Append(rows, e), runs, saved)
             /\ Done(Append(s, Kept(e))) = Deed(Append(rows, e), runs, saved)
  <2>1. rows \o <<e>> = Append(rows, e)
    OBVIOUS
  <2>2. Row(e).rows = <<e>> /\ Row(e).runs = <<>> /\ Row(e).saved = "none"
    BY DEF Row, Effect
  <2>3. Kept(e).rows = <<e>> /\ Kept(e).runs = <<>> /\ Kept(e).saved = "none"
    BY DEF Kept, Effect
  <2> QED BY <1>1, <1>2, <2>1, <2>2, <2>3, EffectTypes
<1>4. ASSUME NEW step \in Steps, NEW w \in Workflows, NEW p \in Personas
      PROVE  /\ Done(Append(s, Run(step, w, p))) = Deed(rows, Append(runs, StepRun(step, w, p)), saved)
             /\ Done(Append(s, RunOrRaise(step, w, p))) = Deed(rows, Append(runs, StepRun(step, w, p)), saved)
  <2> DEFINE r == StepRun(step, w, p)
  <2>1. runs \o <<r>> = Append(runs, r)
    OBVIOUS
  <2>2. Run(step, w, p).rows = <<>> /\ Run(step, w, p).runs = <<r>> /\ Run(step, w, p).saved = "none"
    BY DEF Run, Effect
  <2>3. RunOrRaise(step, w, p).rows = <<>> /\ RunOrRaise(step, w, p).runs = <<r>> /\ RunOrRaise(step, w, p).saved = "none"
    BY DEF RunOrRaise, Effect
  <2> QED BY <1>1, <1>2, <2>1, <2>2, <2>3, EffectTypes
<1>5. ASSUME NEW x \in {"probe", "gate"}
      PROVE  /\ Done(Append(s, Snapshot(x))) = Deed(rows, runs, x)
             /\ Done(Append(s, KeptSnapshot(x))) = Deed(rows, runs, x)
  <2>1. Snapshot(x).rows = <<>> /\ Snapshot(x).runs = <<>> /\ Snapshot(x).saved = x
    BY DEF Snapshot, Effect
  <2>2. KeptSnapshot(x).rows = <<>> /\ KeptSnapshot(x).runs = <<>> /\ KeptSnapshot(x).saved = x
    BY DEF KeptSnapshot, Effect
  <2>3. x # "none" /\ Snapshot(x) \in Effects /\ KeptSnapshot(x) \in Effects
    BY EffectTypes DEF Saved
  <2> QED BY <1>1, <1>2, <2>1, <2>2, <2>3
<1>6. Done(Append(s, Read)) = Deed(rows, runs, saved)
  <2>1. Read.rows = <<>> /\ Read.runs = <<>> /\ Read.saved = "none"
    BY DEF Read, Effect
  <2> QED BY <1>1, <1>2, <2>1, EffectTypes
<1> QED BY <1>3, <1>4, <1>5, <1>6

\* After the effects s a handler has done this much, and where it may raise on
\* the way, what it has done by then is one of cuts.
Did(s, rows, runs, saved, cuts) ==
    /\ s \in Seq(Effects) /\ rows \in Seq(Events) /\ runs \in Seq(StepRuns) /\ saved \in Saved
    /\ Done(s) = Deed(rows, runs, saved)
    /\ \A k \in DOMAIN s : s[k].raises => Done(SubSeq(s, 1, k - 1)) \in cuts

LEMMA DidNothing == \A cuts : Did(<<>>, <<>>, <<>>, "none", cuts)
BY DoneNothing DEF Did, Saved

LEMMA DidMore ==
  ASSUME NEW s, NEW rows, NEW runs, NEW saved, NEW cuts, Did(s, rows, runs, saved, cuts),
         NEW x \in Effects, x.raises => Deed(rows, runs, saved) \in cuts,
         NEW rows2 \in Seq(Events), NEW runs2 \in Seq(StepRuns), NEW saved2 \in Saved,
         Done(Append(s, x)) = Deed(rows2, runs2, saved2)
  PROVE  Did(Append(s, x), rows2, runs2, saved2, cuts)
<1> DEFINE t == Append(s, x)
<1>1. s \in Seq(Effects) /\ t \in Seq(Effects) /\ DOMAIN t = 1..(Len(s) + 1) /\ Len(s) \in Nat /\ DOMAIN s = 1..Len(s)
  BY DEF Did
<1>2. ASSUME NEW k \in DOMAIN t, t[k].raises PROVE Done(SubSeq(t, 1, k - 1)) \in cuts
  <2>1. CASE k = Len(s) + 1
    <3>1. t[k] = x /\ SubSeq(t, 1, k - 1) = s
      BY <1>1, <2>1
    <3> QED BY <1>2, <3>1 DEF Did
  <2>2. CASE k # Len(s) + 1
    <3>1. k \in DOMAIN s /\ t[k] = s[k] /\ SubSeq(t, 1, k - 1) = SubSeq(s, 1, k - 1)
      BY <1>1, <2>2
    <3> QED BY <1>2, <3>1 DEF Did
  <2> QED BY <2>1, <2>2
<1> QED BY <1>1, <1>2 DEF Did

LEMMA RaisesOf ==
  /\ \A e : Row(e).raises = TRUE /\ Kept(e).raises = FALSE /\ Row(e).rows[1] = e
  /\ \A s : Snapshot(s).raises = TRUE /\ KeptSnapshot(s).raises = FALSE
  /\ Read.raises = TRUE
  /\ \A step, w, p : Run(step, w, p).raises = FALSE /\ RunOrRaise(step, w, p).raises = TRUE
BY DEF Row, Kept, Snapshot, KeptSnapshot, Read, Run, RunOrRaise, Effect

LEMMA DidRow ==
  ASSUME NEW s, NEW rows, NEW runs, NEW saved, NEW cuts, Did(s, rows, runs, saved, cuts), NEW e \in Events
  PROVE  /\ Deed(rows, runs, saved) \in cuts => Did(Append(s, Row(e)), Append(rows, e), runs, saved, cuts)
         /\ Did(Append(s, Kept(e)), Append(rows, e), runs, saved, cuts)
<1>1. Append(rows, e) \in Seq(Events) /\ runs \in Seq(StepRuns) /\ saved \in Saved
  BY DEF Did
<1>2. Done(Append(s, Row(e))) = Deed(Append(rows, e), runs, saved) /\ Done(Append(s, Kept(e))) = Deed(Append(rows, e), runs, saved)
  BY DoneStep DEF Did
<1>3. Row(e) \in Effects /\ Kept(e) \in Effects /\ ~Kept(e).raises
  BY EffectTypes, RaisesOf
<1> QED BY <1>1, <1>2, <1>3, DidMore

LEMMA DidRun ==
  ASSUME NEW s, NEW rows, NEW runs, NEW saved, NEW cuts, Did(s, rows, runs, saved, cuts),
         NEW step \in Steps, NEW w \in Workflows, NEW p \in Personas
  PROVE  /\ Deed(rows, runs, saved) \in cuts =>
               Did(Append(s, RunOrRaise(step, w, p)), rows, Append(runs, StepRun(step, w, p)), saved, cuts)
         /\ Did(Append(s, Run(step, w, p)), rows, Append(runs, StepRun(step, w, p)), saved, cuts)
<1> DEFINE r == StepRun(step, w, p)
<1>1. rows \in Seq(Events) /\ Append(runs, r) \in Seq(StepRuns) /\ saved \in Saved
  <2>1. r \in StepRuns
    BY DEF StepRun, StepRuns
  <2> QED BY <2>1 DEF Did
<1>2. Done(Append(s, Run(step, w, p))) = Deed(rows, Append(runs, r), saved)
      /\ Done(Append(s, RunOrRaise(step, w, p))) = Deed(rows, Append(runs, r), saved)
  BY DoneStep DEF Did
<1>3. Run(step, w, p) \in Effects /\ RunOrRaise(step, w, p) \in Effects /\ ~Run(step, w, p).raises
  BY EffectTypes, RaisesOf
<1> HIDE DEF r
<1>4. Did(Append(s, Run(step, w, p)), rows, Append(runs, r), saved, cuts)
  BY <1>1, <1>2, <1>3, DidMore
<1>5. Deed(rows, runs, saved) \in cuts => Did(Append(s, RunOrRaise(step, w, p)), rows, Append(runs, r), saved, cuts)
  BY <1>1, <1>2, <1>3, DidMore
<1> QED BY <1>4, <1>5 DEF r

LEMMA DidSave ==
  ASSUME NEW s, NEW rows, NEW runs, NEW saved, NEW cuts, Did(s, rows, runs, saved, cuts), NEW x \in {"probe", "gate"}
  PROVE  /\ Deed(rows, runs, saved) \in cuts => Did(Append(s, Snapshot(x)), rows, runs, x, cuts)
         /\ Did(Append(s, KeptSnapshot(x)), rows, runs, x, cuts)
<1>1. rows \in Seq(Events) /\ runs \in Seq(StepRuns) /\ x \in Saved
  BY DEF Did, Saved
<1>2. Done(Append(s, Snapshot(x))) = Deed(rows, runs, x) /\ Done(Append(s, KeptSnapshot(x))) = Deed(rows, runs, x)
  BY DoneStep DEF Did
<1>3. Snapshot(x) \in Effects /\ KeptSnapshot(x) \in Effects /\ ~KeptSnapshot(x).raises
  BY EffectTypes, RaisesOf
<1> QED BY <1>1, <1>2, <1>3, DidMore

LEMMA DidRead ==
  ASSUME NEW s, NEW rows, NEW runs, NEW saved, NEW cuts, Did(s, rows, runs, saved, cuts), Deed(rows, runs, saved) \in cuts
  PROVE  Did(Append(s, Read), rows, runs, saved, cuts)
<1>1. rows \in Seq(Events) /\ runs \in Seq(StepRuns) /\ saved \in Saved /\ Done(Append(s, Read)) = Deed(rows, runs, saved)
  BY DoneStep DEF Did
<1> QED BY <1>1, EffectTypes, DidMore

\* A handler that ends has published its last row, and its deed is one of wholes.
Outcome(effects, wholes, cuts) ==
    \E rows, runs, saved : /\ Did(effects, rows, runs, saved, cuts) /\ Deed(rows, runs, saved) \in wholes
                           /\ rows # <<>> /\ Published(effects) = Last(rows)

LEMMA Ends ==
  ASSUME NEW s, NEW rows, NEW runs, NEW saved, NEW cuts, Did(s, rows, runs, saved, cuts), Deed(rows, runs, saved) \in cuts,
         NEW e \in Events, NEW wholes, Deed(Append(rows, e), runs, saved) \in wholes
  PROVE  Outcome(Append(s, Row(e)), wholes, cuts)
<1>1. Did(Append(s, Row(e)), Append(rows, e), runs, saved, cuts)
  BY DidRow
<1>2. s \in Seq(Effects) /\ rows \in Seq(Events) /\ Row(e) \in Effects
  BY EffectTypes DEF Did
<1>3. Last(Append(rows, e)) = e /\ Append(rows, e) # <<>>
  BY <1>2 DEF Last
<1>4. Last(Append(s, Row(e))) = Row(e)
  BY <1>2 DEF Last
<1>5. Published(Append(s, Row(e))) = e
  BY <1>4, RaisesOf DEF Published
<1> QED BY <1>1, <1>3, <1>5 DEF Outcome

\* Literal sequences, built from the front.
LEMMA SameElements ==
  ASSUME NEW S, NEW s \in Seq(S), NEW t \in Seq(S), Len(s) = Len(t), \A i \in 1..Len(s) : s[i] = t[i]
  PROVE  s = t
OBVIOUS

LEMMA Tuple1 == ASSUME NEW a PROVE Append(<<>>, a) = <<a>>
<1> DEFINE S == {a}
           s == Append(<<>>, a)
           t == <<a>>
<1>1. s \in Seq(S) /\ Len(s) = 1 /\ s[1] = a
  OBVIOUS
<1>2. t \in Seq(S) /\ Len(t) = 1 /\ t[1] = a
  OBVIOUS
<1> HIDE DEF s, t, S
<1>3. \A i \in 1..1 : i = 1
  OBVIOUS
<1>4. \A i \in 1..Len(s) : s[i] = t[i]
  BY <1>1, <1>2, <1>3
<1>5. s = t
  BY <1>1, <1>2, <1>4, SameElements
<1> QED BY <1>5 DEF s, t

LEMMA Tuple2 == ASSUME NEW a, NEW b PROVE Append(<<a>>, b) = <<a, b>>
<1> DEFINE S == {a, b}
           s == Append(<<a>>, b)
           t == <<a, b>>
<1>1. s \in Seq(S) /\ Len(s) = 2 /\ s[1] = a /\ s[2] = b
  OBVIOUS
<1>2. t \in Seq(S) /\ Len(t) = 2 /\ t[1] = a /\ t[2] = b
  OBVIOUS
<1> HIDE DEF s, t, S
<1>3. \A i \in 1..2 : i = 1 \/ i = 2
  OBVIOUS
<1>4. \A i \in 1..Len(s) : s[i] = t[i]
  BY <1>1, <1>2, <1>3
<1>5. s = t
  BY <1>1, <1>2, <1>4, SameElements
<1> QED BY <1>5 DEF s, t

LEMMA Tuple3 == ASSUME NEW a, NEW b, NEW c PROVE Append(<<a, b>>, c) = <<a, b, c>>
<1> DEFINE S == {a, b, c}
           s == Append(<<a, b>>, c)
           t == <<a, b, c>>
<1>1. s \in Seq(S) /\ Len(s) = 3 /\ s[1] = a /\ s[2] = b /\ s[3] = c
  OBVIOUS
<1>2. t \in Seq(S) /\ Len(t) = 3 /\ t[1] = a /\ t[2] = b /\ t[3] = c
  OBVIOUS
<1> HIDE DEF s, t, S
<1>3. \A i \in 1..3 : i = 1 \/ i = 2 \/ i = 3
  OBVIOUS
<1>4. \A i \in 1..Len(s) : s[i] = t[i]
  BY <1>1, <1>2, <1>3
<1>5. s = t
  BY <1>1, <1>2, <1>4, SameElements
<1> QED BY <1>5 DEF s, t

LEMMA Tuple4 == ASSUME NEW a, NEW b, NEW c, NEW d PROVE Append(<<a, b, c>>, d) = <<a, b, c, d>>
<1> DEFINE S == {a, b, c, d}
           s == Append(<<a, b, c>>, d)
           t == <<a, b, c, d>>
<1>1. s \in Seq(S) /\ Len(s) = 4 /\ s[1] = a /\ s[2] = b /\ s[3] = c /\ s[4] = d
  OBVIOUS
<1>2. t \in Seq(S) /\ Len(t) = 4 /\ t[1] = a /\ t[2] = b /\ t[3] = c /\ t[4] = d
  OBVIOUS
<1> HIDE DEF s, t, S
<1>3. \A i \in 1..4 : i = 1 \/ i = 2 \/ i = 3 \/ i = 4
  OBVIOUS
<1>4. \A i \in 1..Len(s) : s[i] = t[i]
  BY <1>1, <1>2, <1>3
<1>5. s = t
  BY <1>1, <1>2, <1>4, SameElements
<1> QED BY <1>5 DEF s, t

LEMMA Tuple5 == ASSUME NEW a, NEW b, NEW c, NEW d, NEW e PROVE Append(<<a, b, c, d>>, e) = <<a, b, c, d, e>>
<1> DEFINE S == {a, b, c, d, e}
           s == Append(<<a, b, c, d>>, e)
           t == <<a, b, c, d, e>>
<1>1. s \in Seq(S) /\ Len(s) = 5 /\ s[1] = a /\ s[2] = b /\ s[3] = c /\ s[4] = d /\ s[5] = e
  OBVIOUS
<1>2. t \in Seq(S) /\ Len(t) = 5 /\ t[1] = a /\ t[2] = b /\ t[3] = c /\ t[4] = d /\ t[5] = e
  OBVIOUS
<1> HIDE DEF s, t, S
<1>3. \A i \in 1..5 : i = 1 \/ i = 2 \/ i = 3 \/ i = 4 \/ i = 5
  OBVIOUS
<1>4. \A i \in 1..Len(s) : s[i] = t[i]
  BY <1>1, <1>2, <1>3
<1>5. s = t
  BY <1>1, <1>2, <1>4, SameElements
<1> QED BY <1>5 DEF s, t

LEMMA Tuple6 == ASSUME NEW a, NEW b, NEW c, NEW d, NEW e, NEW f PROVE Append(<<a, b, c, d, e>>, f) = <<a, b, c, d, e, f>>
<1> DEFINE S == {a, b, c, d, e, f}
           s == Append(<<a, b, c, d, e>>, f)
           t == <<a, b, c, d, e, f>>
<1>1. s \in Seq(S) /\ Len(s) = 6 /\ s[1] = a /\ s[2] = b /\ s[3] = c /\ s[4] = d /\ s[5] = e /\ s[6] = f
  OBVIOUS
<1>2. t \in Seq(S) /\ Len(t) = 6 /\ t[1] = a /\ t[2] = b /\ t[3] = c /\ t[4] = d /\ t[5] = e /\ t[6] = f
  OBVIOUS
<1> HIDE DEF s, t, S
<1>3. \A i \in 1..6 : i = 1 \/ i = 2 \/ i = 3 \/ i = 4 \/ i = 5 \/ i = 6
  OBVIOUS
<1>4. \A i \in 1..Len(s) : s[i] = t[i]
  BY <1>1, <1>2, <1>3
<1>5. s = t
  BY <1>1, <1>2, <1>4, SameElements
<1> QED BY <1>5 DEF s, t

-----------------------------------------------------------------------------
(* What each handler does, when it runs to its end and when it raises *)

ProbeWhole(w, p) ==
    IF ~plan[w].probe
    THEN {Deed(<<Event("ProbeCompleted", w, TRUE)>>, <<>>, "none")}
    ELSE {Deed(<<Event("ProbeCompleted", w, TRUE)>>, <<StepRun("probe", w, p)>>, "none"),
          Deed(<<Event("ProbeFailed", w, FALSE), Event("ContextWarmed", w, TRUE), Event("ProbeCompleted", w, FALSE)>>,
               <<StepRun("probe", w, p)>>, "probe")}

ProbeCut(w, p) ==
    {Deed(<<>>, <<>>, "none"),
     Deed(<<>>, <<StepRun("probe", w, p)>>, "none"),
     Deed(<<Event("ProbeFailed", w, FALSE)>>, <<StepRun("probe", w, p)>>, "none"),
     Deed(<<Event("ProbeFailed", w, FALSE)>>, <<StepRun("probe", w, p)>>, "probe"),
     Deed(<<Event("ProbeFailed", w, FALSE), Event("ContextWarmed", w, TRUE)>>, <<StepRun("probe", w, p)>>, "probe")}

LEMMA EventType == \A type \in Types, w \in Workflows, ok \in BOOLEAN : Event(type, w, ok) \in Events
BY DEF Event, Events

LEMMA ProbeDeeds ==
  ASSUME NEW w \in Workflows, NEW p \in Personas, NEW effects \in ProbeEffects(w, p)
  PROVE  Outcome(effects, ProbeWhole(w, p), ProbeCut(w, p))
<1> DEFINE C == ProbeCut(w, p)
           r == StepRun("probe", w, p)
           run == RunOrRaise("probe", w, p)
           pass == Event("ProbeCompleted", w, TRUE)
           fail == Event("ProbeCompleted", w, FALSE)
           bad == Event("ProbeFailed", w, FALSE)
           warm == Event("ContextWarmed", w, TRUE)
<1>1. pass \in Events /\ fail \in Events /\ bad \in Events /\ warm \in Events /\ "probe" \in Steps
  BY EventType DEF Types, Steps
<1>2. /\ Deed(<<>>, <<>>, "none") \in C /\ Deed(<<>>, <<r>>, "none") \in C
      /\ Deed(<<bad>>, <<r>>, "none") \in C /\ Deed(<<bad>>, <<r>>, "probe") \in C
      /\ Deed(<<bad, warm>>, <<r>>, "probe") \in C
  BY DEF ProbeCut
<1>3. effects \in IF ~plan[w].probe THEN {<<Row(pass)>>}
                  ELSE {<<run, Row(pass)>>, <<run, Row(bad), Snapshot("probe"), Row(warm), Row(fail)>>}
  BY DEF ProbeEffects
<1>4. ProbeWhole(w, p) = IF ~plan[w].probe THEN {Deed(<<pass>>, <<>>, "none")}
                         ELSE {Deed(<<pass>>, <<r>>, "none"), Deed(<<bad, warm, fail>>, <<r>>, "probe")}
  BY DEF ProbeWhole
<1> HIDE DEF C, r, run, pass, fail, bad, warm
<1>5. Did(<<>>, <<>>, <<>>, "none", C)
  BY DidNothing
<1>6. CASE ~plan[w].probe
  <2>1. effects = Append(<<>>, Row(pass)) /\ Append(<<>>, pass) = <<pass>>
    BY <1>3, <1>6, Tuple1
  <2>2. Deed(Append(<<>>, pass), <<>>, "none") \in ProbeWhole(w, p)
    BY <1>4, <1>6, <2>1
  <2> QED BY <1>1, <1>2, <1>5, <2>1, <2>2, Ends DEF C
<1>7. Did(<<run>>, <<>>, <<r>>, "none", C)
  BY <1>1, <1>2, <1>5, DidRun, Tuple1 DEF r, run
<1>8. CASE plan[w].probe /\ effects = <<run, Row(pass)>>
  <2>1. effects = Append(<<run>>, Row(pass)) /\ Append(<<>>, pass) = <<pass>>
    BY <1>8, Tuple1, Tuple2
  <2>2. Deed(Append(<<>>, pass), <<r>>, "none") \in ProbeWhole(w, p)
    BY <1>4, <1>8, <2>1
  <2> QED BY <1>1, <1>2, <1>7, <2>1, <2>2, Ends DEF C
<1>9. CASE plan[w].probe /\ effects = <<run, Row(bad), Snapshot("probe"), Row(warm), Row(fail)>>
  <2>1. Did(<<run, Row(bad)>>, <<bad>>, <<r>>, "none", C)
    BY <1>1, <1>2, <1>7, DidRow, Tuple1, Tuple2
  <2>2. Did(<<run, Row(bad), Snapshot("probe")>>, <<bad>>, <<r>>, "probe", C)
    BY <1>1, <1>2, <2>1, DidSave, Tuple3
  <2>3. Did(<<run, Row(bad), Snapshot("probe"), Row(warm)>>, <<bad, warm>>, <<r>>, "probe", C)
    BY <1>1, <1>2, <2>2, DidRow, Tuple2, Tuple4
  <2>4. /\ effects = Append(<<run, Row(bad), Snapshot("probe"), Row(warm)>>, Row(fail))
        /\ Append(<<bad, warm>>, fail) = <<bad, warm, fail>>
    BY <1>9, Tuple3, Tuple5
  <2>5. Deed(Append(<<bad, warm>>, fail), <<r>>, "probe") \in ProbeWhole(w, p)
    BY <1>4, <1>9, <2>4
  <2> QED BY <1>1, <1>2, <2>3, <2>4, <2>5, Ends DEF C
<1> QED BY <1>3, <1>6, <1>8, <1>9

ExecutionWhole(w, p) ==
    IF ~plan[w].tasks
    THEN {Deed(<<Event("ExecutionCompleted", w, TRUE)>>, <<>>, "none")}
    ELSE {Deed(<<Event("SpecCommitted", w, FALSE), Event("ExecutionCompleted", w, FALSE)>>,
               <<StepRun("execution", w, p)>>, "none")}

ExecutionCut(w, p) ==
    {Deed(<<>>, <<>>, "none"),
     Deed(<<>>, <<StepRun("execution", w, p)>>, "none"),
     Deed(<<Event("SpecCommitted", w, FALSE)>>, <<StepRun("execution", w, p)>>, "none")}

LEMMA ExecutionDeeds ==
  ASSUME NEW w \in Workflows, NEW p \in Personas, NEW effects \in ExecutionEffects(w, p)
  PROVE  Outcome(effects, ExecutionWhole(w, p), ExecutionCut(w, p))
<1> DEFINE C == ExecutionCut(w, p)
           r == StepRun("execution", w, p)
           run == Run("execution", w, p)
           nothing == Event("ExecutionCompleted", w, TRUE)
           failed == Event("ExecutionCompleted", w, FALSE)
           spec == Event("SpecCommitted", w, FALSE)
<1>1. nothing \in Events /\ failed \in Events /\ spec \in Events /\ "execution" \in Steps
  BY EventType DEF Types, Steps
<1>2. Deed(<<>>, <<>>, "none") \in C /\ Deed(<<>>, <<r>>, "none") \in C /\ Deed(<<spec>>, <<r>>, "none") \in C
  BY DEF ExecutionCut
<1>3. effects = IF ~plan[w].tasks THEN <<Row(nothing)>> ELSE <<run, Row(spec), Row(failed)>>
  BY DEF ExecutionEffects
<1>4. ExecutionWhole(w, p) = IF ~plan[w].tasks THEN {Deed(<<nothing>>, <<>>, "none")}
                             ELSE {Deed(<<spec, failed>>, <<r>>, "none")}
  BY DEF ExecutionWhole
<1> HIDE DEF C, r, run, nothing, failed, spec
<1>5. Did(<<>>, <<>>, <<>>, "none", C)
  BY DidNothing
<1>6. CASE ~plan[w].tasks
  <2>1. effects = Append(<<>>, Row(nothing)) /\ Append(<<>>, nothing) = <<nothing>>
    BY <1>3, <1>6, Tuple1
  <2>2. Deed(Append(<<>>, nothing), <<>>, "none") \in ExecutionWhole(w, p)
    BY <1>4, <1>6, <2>1
  <2> QED BY <1>1, <1>2, <1>5, <2>1, <2>2, Ends DEF C
<1>7. CASE plan[w].tasks
  <2>1. Did(<<run>>, <<>>, <<r>>, "none", C)
    BY <1>1, <1>5, DidRun, Tuple1 DEF r, run
  <2>2. Did(<<run, Row(spec)>>, <<spec>>, <<r>>, "none", C)
    BY <1>1, <1>2, <2>1, DidRow, Tuple1, Tuple2
  <2>3. effects = Append(<<run, Row(spec)>>, Row(failed)) /\ Append(<<spec>>, failed) = <<spec, failed>>
    BY <1>3, <1>7, Tuple2, Tuple3
  <2>4. Deed(Append(<<spec>>, failed), <<r>>, "none") \in ExecutionWhole(w, p)
    BY <1>4, <1>7, <2>3
  <2> QED BY <1>1, <1>2, <2>2, <2>3, <2>4, Ends DEF C
<1> QED BY <1>6, <1>7

GateWhole(w, p) ==
    IF ~plan[w].workspace
    THEN {Deed(<<Event("GateCompleted", w, TRUE)>>, <<>>, "none")}
    ELSE {Deed(<<Event("GatePassed", w, TRUE), Event("GateCompleted", w, TRUE)>>,
               <<StepRun("gate", w, p), StepRun("refresh", w, p)>>, "gate"),
          Deed(<<Event("GateFailed", w, FALSE), Event("GateCompleted", w, FALSE)>>, <<StepRun("gate", w, p)>>, "none")}

GateCut(w, p) ==
    {Deed(<<>>, <<>>, "none"),
     Deed(<<Event("GatePassed", w, TRUE)>>, <<StepRun("gate", w, p)>>, "gate"),
     Deed(<<Event("GatePassed", w, TRUE)>>, <<StepRun("gate", w, p), StepRun("refresh", w, p)>>, "gate"),
     Deed(<<Event("GateFailed", w, FALSE)>>, <<StepRun("gate", w, p)>>, "none")}

LEMMA GateDeeds ==
  ASSUME NEW w \in Workflows, NEW p \in Personas, NEW effects \in GateEffects(w, p)
  PROVE  Outcome(effects, GateWhole(w, p), GateCut(w, p))
<1> DEFINE C == GateCut(w, p)
           r == StepRun("gate", w, p)
           r2 == StepRun("refresh", w, p)
           run == Run("gate", w, p)
           refresh == Run("refresh", w, p)
           pass == Event("GateCompleted", w, TRUE)
           fail == Event("GateCompleted", w, FALSE)
           good == Event("GatePassed", w, TRUE)
           bad == Event("GateFailed", w, FALSE)
<1>1. pass \in Events /\ fail \in Events /\ good \in Events /\ bad \in Events /\ "gate" \in Steps /\ "refresh" \in Steps
  BY EventType DEF Types, Steps
<1>2. /\ Deed(<<>>, <<>>, "none") \in C /\ Deed(<<good>>, <<r>>, "gate") \in C
      /\ Deed(<<good>>, <<r, r2>>, "gate") \in C /\ Deed(<<bad>>, <<r>>, "none") \in C
  BY DEF GateCut
<1>3. effects \in IF ~plan[w].workspace THEN {<<Row(pass)>>}
                  ELSE {<<run, Kept(good), KeptSnapshot("gate"), Read, refresh, Row(pass)>>,
                        <<run, Kept(bad), Read, Row(fail)>>, <<run, Kept(bad), Row(fail)>>}
  BY DEF GateEffects
<1>4. GateWhole(w, p) = IF ~plan[w].workspace THEN {Deed(<<pass>>, <<>>, "none")}
                        ELSE {Deed(<<good, pass>>, <<r, r2>>, "gate"), Deed(<<bad, fail>>, <<r>>, "none")}
  BY DEF GateWhole
<1> HIDE DEF C, r, r2, run, refresh, pass, fail, good, bad
<1>5. Did(<<>>, <<>>, <<>>, "none", C)
  BY DidNothing
<1>6. CASE ~plan[w].workspace
  <2>1. effects = Append(<<>>, Row(pass)) /\ Append(<<>>, pass) = <<pass>>
    BY <1>3, <1>6, Tuple1
  <2>2. Deed(Append(<<>>, pass), <<>>, "none") \in GateWhole(w, p)
    BY <1>4, <1>6, <2>1
  <2> QED BY <1>1, <1>2, <1>5, <2>1, <2>2, Ends DEF C
<1>7. Did(<<run>>, <<>>, <<r>>, "none", C)
  BY <1>1, <1>5, DidRun, Tuple1 DEF r, run
<1>8. CASE plan[w].workspace /\ effects = <<run, Kept(good), KeptSnapshot("gate"), Read, refresh, Row(pass)>>
  <2>1. Did(<<run, Kept(good)>>, <<good>>, <<r>>, "none", C)
    BY <1>1, <1>7, DidRow, Tuple1, Tuple2
  <2>2. Did(<<run, Kept(good), KeptSnapshot("gate")>>, <<good>>, <<r>>, "gate", C)
    BY <2>1, DidSave, Tuple3
  <2>3. Did(<<run, Kept(good), KeptSnapshot("gate"), Read>>, <<good>>, <<r>>, "gate", C)
    BY <1>2, <2>2, DidRead, Tuple4
  <2>4. Did(<<run, Kept(good), KeptSnapshot("gate"), Read, refresh>>, <<good>>, <<r, r2>>, "gate", C)
    <3>1. /\ Append(<<run, Kept(good), KeptSnapshot("gate"), Read>>, refresh)
                = <<run, Kept(good), KeptSnapshot("gate"), Read, refresh>>
          /\ Append(<<r>>, r2) = <<r, r2>>
      BY Tuple2, Tuple5
    <3>2. Did(Append(<<run, Kept(good), KeptSnapshot("gate"), Read>>, refresh), <<good>>, Append(<<r>>, r2), "gate", C)
      BY <1>1, <2>3, DidRun DEF r2, refresh
    <3> QED BY <3>1, <3>2
  <2>5. /\ effects = Append(<<run, Kept(good), KeptSnapshot("gate"), Read, refresh>>, Row(pass))
        /\ Append(<<good>>, pass) = <<good, pass>>
    BY <1>8, Tuple2, Tuple6
  <2>6. Deed(Append(<<good>>, pass), <<r, r2>>, "gate") \in GateWhole(w, p)
    BY <1>4, <1>8, <2>5
  <2> QED BY <1>1, <1>2, <2>4, <2>5, <2>6, Ends DEF C
<1>9. Did(<<run, Kept(bad)>>, <<bad>>, <<r>>, "none", C)
  BY <1>1, <1>7, DidRow, Tuple1, Tuple2
<1>10. plan[w].workspace => Append(<<bad>>, fail) = <<bad, fail>> /\ Deed(Append(<<bad>>, fail), <<r>>, "none") \in GateWhole(w, p)
  <2>1. Append(<<bad>>, fail) = <<bad, fail>>
    BY Tuple2
  <2> QED BY <1>4, <2>1
<1>11. CASE plan[w].workspace /\ effects = <<run, Kept(bad), Read, Row(fail)>>
  <2>1. Did(<<run, Kept(bad), Read>>, <<bad>>, <<r>>, "none", C)
    BY <1>2, <1>9, DidRead, Tuple3
  <2>2. effects = Append(<<run, Kept(bad), Read>>, Row(fail))
    BY <1>11, Tuple4
  <2> QED BY <1>1, <1>2, <1>10, <1>11, <2>1, <2>2, Ends DEF C
<1>12. CASE plan[w].workspace /\ effects = <<run, Kept(bad), Row(fail)>>
  <2>1. effects = Append(<<run, Kept(bad)>>, Row(fail))
    BY <1>12, Tuple3
  <2> QED BY <1>1, <1>2, <1>9, <1>10, <1>12, <2>1, Ends DEF C
<1> QED BY <1>3, <1>6, <1>8, <1>11, <1>12

GateFaultWhole(w, p) ==
    {Deed(<<Event("GateCompleted", w, FALSE)>>, <<StepRun("gate", w, p)>>, "none"),
     Deed(<<Event("GatePassed", w, TRUE), Event("GateCompleted", w, FALSE)>>, <<StepRun("gate", w, p)>>, "none")}

LEMMA GateFaultDeeds ==
  ASSUME NEW w \in Workflows, NEW p \in Personas, NEW effects \in GateFaultEffects(w, p)
  PROVE  \E cuts : Outcome(effects, GateFaultWhole(w, p), cuts)
<1> DEFINE r == StepRun("gate", w, p)
           run == Run("gate", w, p)
           fail == Event("GateCompleted", w, FALSE)
           good == Event("GatePassed", w, TRUE)
           C == {Deed(<<>>, <<r>>, "none"), Deed(<<good>>, <<r>>, "none")}
<1>1. fail \in Events /\ good \in Events /\ "gate" \in Steps
  BY EventType DEF Types, Steps
<1>2. Deed(<<>>, <<r>>, "none") \in C /\ Deed(<<good>>, <<r>>, "none") \in C
  OBVIOUS
<1>3. \E kept \in {<<>>, <<Kept(good)>>} : effects = <<run>> \o kept \o <<Row(fail)>>
  BY DEF GateFaultEffects
<1>4. GateFaultWhole(w, p) = {Deed(<<fail>>, <<r>>, "none"), Deed(<<good, fail>>, <<r>>, "none")}
  BY DEF GateFaultWhole
<1>5. run \in Effects /\ Row(fail) \in Effects /\ Kept(good) \in Effects
  BY <1>1, EffectTypes
<1> HIDE DEF C, r, run, fail, good
<1>6. Did(<<>>, <<>>, <<>>, "none", C)
  BY DidNothing
<1>7. Did(<<run>>, <<>>, <<r>>, "none", C)
  BY <1>1, <1>6, DidRun, Tuple1 DEF r, run
<1>8. CASE effects = <<run>> \o <<>> \o <<Row(fail)>>
  <2>1. effects = Append(<<run>>, Row(fail)) /\ Append(<<>>, fail) = <<fail>>
    <3>1. <<run>> \in Seq(Effects)
      BY <1>5
    <3>2. <<run>> \o <<>> = <<run>> /\ <<run>> \o <<Row(fail)>> = Append(<<run>>, Row(fail))
      BY <1>5, <3>1
    <3> QED BY <1>8, <3>2, Tuple1
  <2>2. Deed(Append(<<>>, fail), <<r>>, "none") \in GateFaultWhole(w, p)
    BY <1>4, <2>1
  <2> QED BY <1>1, <1>2, <1>7, <2>1, <2>2, Ends
<1>9. CASE effects = <<run>> \o <<Kept(good)>> \o <<Row(fail)>>
  <2>1. Did(<<run, Kept(good)>>, <<good>>, <<r>>, "none", C)
    BY <1>1, <1>7, DidRow, Tuple1, Tuple2
  <2>2. effects = Append(<<run, Kept(good)>>, Row(fail)) /\ Append(<<good>>, fail) = <<good, fail>>
    <3>1. <<run>> \in Seq(Effects) /\ <<run, Kept(good)>> \in Seq(Effects)
      BY <1>5
    <3>2. <<run>> \o <<Kept(good)>> = Append(<<run>>, Kept(good))
      BY <1>5, <3>1
    <3>3. <<run, Kept(good)>> \o <<Row(fail)>> = Append(<<run, Kept(good)>>, Row(fail))
      BY <1>5, <3>1
    <3> QED BY <1>9, <3>2, <3>3, Tuple2
  <2>3. Deed(Append(<<good>>, fail), <<r>>, "none") \in GateFaultWhole(w, p)
    BY <1>4, <2>2
  <2> QED BY <1>1, <1>2, <2>1, <2>2, <2>3, Ends
<1> QED BY <1>3, <1>8, <1>9

-----------------------------------------------------------------------------
(* What the deeds of the handlers have in common *)

PassRow(w) == Event("GatePassed", w, TRUE)

\* Rows of one call; a passed gate only after its row, and the snapshot as the
\* rows have it.
RowsFine(w, rows, saved) ==
    /\ \A i \in DOMAIN rows : rows[i].w = w
    /\ \A i \in DOMAIN rows : rows[i].type = "GateCompleted" /\ rows[i].ok /\ plan[w].workspace =>
          \E j \in 1..(i - 1) : rows[j] = PassRow(w)
    /\ saved = "gate" => \E i \in DOMAIN rows : rows[i] = PassRow(w) /\ \A j \in (i + 1)..Len(rows) : rows[j].type # "ContextWarmed"
    /\ saved = "none" => \A i \in DOMAIN rows : rows[i].type # "ContextWarmed"

LEMMA RowsFine0 == ASSUME NEW w, NEW saved \in {"none", "probe"} PROVE RowsFine(w, <<>>, saved)
BY DEF RowsFine

LEMMA RowsFine1 ==
  ASSUME NEW w, NEW a, NEW saved \in Saved, a.w = w, a.type = "GateCompleted" /\ a.ok => ~plan[w].workspace,
         a.type # "ContextWarmed", saved = "gate" => a = PassRow(w)
  PROVE  RowsFine(w, <<a>>, saved)
<1>1. DOMAIN <<a>> = {1} /\ Len(<<a>>) = 1 /\ <<a>>[1] = a /\ \A j \in (1 + 1)..1 : FALSE
  OBVIOUS
<1> QED BY <1>1 DEF RowsFine, Saved

LEMMA RowsFine2 ==
  ASSUME NEW w, NEW a, NEW b, NEW saved \in Saved, a.w = w, b.w = w, a.type # "GateCompleted",
         b.type = "GateCompleted" /\ b.ok => ~plan[w].workspace \/ a = PassRow(w),
         b.type # "ContextWarmed" \/ saved = "probe", a.type # "ContextWarmed", saved = "gate" => a = PassRow(w)
  PROVE  RowsFine(w, <<a, b>>, saved)
<1>1. DOMAIN <<a, b>> = {1, 2} /\ Len(<<a, b>>) = 2 /\ <<a, b>>[1] = a /\ <<a, b>>[2] = b
  OBVIOUS
<1>2. (\A j \in (1 + 1)..2 : j = 2) /\ 1 \in 1..(2 - 1)
  OBVIOUS
<1> QED BY <1>1, <1>2 DEF RowsFine, Saved

LEMMA RowsFine3 ==
  ASSUME NEW w, NEW a, NEW b, NEW c, a.w = w, b.w = w, c.w = w,
         a.type # "GateCompleted", b.type # "GateCompleted", c.type # "GateCompleted"
  PROVE  RowsFine(w, <<a, b, c>>, "probe")
<1>1. DOMAIN <<a, b, c>> = {1, 2, 3} /\ <<a, b, c>>[1] = a /\ <<a, b, c>>[2] = b /\ <<a, b, c>>[3] = c
  OBVIOUS
<1> QED BY <1>1 DEF RowsFine

HandlerOf == [probe |-> "WorkflowStarted", execution |-> "ProbeCompleted",
              gate |-> "ExecutionCompleted", refresh |-> "ExecutionCompleted"]

\* The steps one firing runs: none, one of those its handler has, or the gate
\* and the refresh, the latter after a row that says the gate has passed.
RunsFine(w, type, rows, runs) ==
    \/ runs = <<>>
    \/ \E step \in Steps \ {"refresh"}, p \in Personas : HandlerOf[step] = type /\ runs = <<StepRun(step, w, p)>>
    \/ /\ type = "ExecutionCompleted" /\ \E i \in DOMAIN rows : rows[i] = PassRow(w)
       /\ \E p \in Personas : runs = <<StepRun("gate", w, p), StepRun("refresh", w, p)>>

Fine(w, type, d) == RowsFine(w, d.rows, d.saved) /\ RunsFine(w, type, d.rows, d.runs)

LEMMA DeedFields == \A rows, runs, saved : /\ Deed(rows, runs, saved).rows = rows
                                           /\ Deed(rows, runs, saved).runs = runs
                                           /\ Deed(rows, runs, saved).saved = saved
BY DEF Deed, Effect

LEMMA FineDeed ==
  ASSUME NEW w, NEW type, NEW rows, NEW runs, NEW saved, RowsFine(w, rows, saved), RunsFine(w, type, rows, runs)
  PROVE  Fine(w, type, Deed(rows, runs, saved))
BY DeedFields DEF Fine

LEMMA RunsFineNone == \A w, type, rows : RunsFine(w, type, rows, <<>>)
BY DEF RunsFine

LEMMA RunsFineOne ==
  ASSUME NEW w, NEW step \in Steps \ {"refresh"}, NEW p \in Personas, NEW rows
  PROVE  RunsFine(w, HandlerOf[step], rows, <<StepRun(step, w, p)>>)
BY DEF RunsFine

LEMMA RunsFineTwo ==
  ASSUME NEW w, NEW p \in Personas, NEW rows, 1 \in DOMAIN rows, rows[1] = PassRow(w)
  PROVE  RunsFine(w, "ExecutionCompleted", rows, <<StepRun("gate", w, p), StepRun("refresh", w, p)>>)
BY DEF RunsFine

LEMMA ProbeFine ==
  ASSUME NEW w \in Workflows, NEW p \in Personas, NEW d \in ProbeWhole(w, p) \cup ProbeCut(w, p)
  PROVE  Fine(w, "WorkflowStarted", d)
<1> DEFINE r == StepRun("probe", w, p)
           pass == Event("ProbeCompleted", w, TRUE)
           fail == Event("ProbeCompleted", w, FALSE)
           bad == Event("ProbeFailed", w, FALSE)
           warm == Event("ContextWarmed", w, TRUE)
           F(rows, runs, saved) == Fine(w, "WorkflowStarted", Deed(rows, runs, saved))
<1>1. d \in {Deed(<<pass>>, <<>>, "none"), Deed(<<pass>>, <<r>>, "none"), Deed(<<bad, warm, fail>>, <<r>>, "probe"),
             Deed(<<>>, <<>>, "none"), Deed(<<>>, <<r>>, "none"), Deed(<<bad>>, <<r>>, "none"),
             Deed(<<bad>>, <<r>>, "probe"), Deed(<<bad, warm>>, <<r>>, "probe")}
  BY DEF ProbeWhole, ProbeCut
<1>2. /\ pass.w = w /\ fail.w = w /\ bad.w = w /\ warm.w = w /\ pass.type = "ProbeCompleted"
      /\ fail.type = "ProbeCompleted" /\ bad.type = "ProbeFailed" /\ warm.type = "ContextWarmed"
  BY DEF Event
<1>3. \A rows : RunsFine(w, "WorkflowStarted", rows, <<>>) /\ RunsFine(w, "WorkflowStarted", rows, <<r>>)
  <2>1. HandlerOf["probe"] = "WorkflowStarted" /\ "probe" \in Steps \ {"refresh"}
    BY DEF HandlerOf, Steps
  <2> QED BY <2>1, RunsFineNone, RunsFineOne
<1> HIDE DEF r, pass, fail, bad, warm
<1>4. RowsFine(w, <<>>, "none") /\ RowsFine(w, <<pass>>, "none") /\ RowsFine(w, <<bad>>, "none") /\ RowsFine(w, <<bad>>, "probe")
  BY <1>2, RowsFine0, RowsFine1 DEF Saved
<1>5. RowsFine(w, <<bad, warm>>, "probe") /\ RowsFine(w, <<bad, warm, fail>>, "probe")
  BY <1>2, RowsFine2, RowsFine3 DEF Saved
<1>6. /\ F(<<pass>>, <<>>, "none") /\ F(<<pass>>, <<r>>, "none") /\ F(<<bad, warm, fail>>, <<r>>, "probe")
      /\ F(<<>>, <<>>, "none") /\ F(<<>>, <<r>>, "none") /\ F(<<bad>>, <<r>>, "none")
      /\ F(<<bad>>, <<r>>, "probe") /\ F(<<bad, warm>>, <<r>>, "probe")
  BY <1>3, <1>4, <1>5, FineDeed
<1> QED BY <1>1, <1>6

LEMMA ExecutionFine ==
  ASSUME NEW w \in Workflows, NEW p \in Personas, NEW d \in ExecutionWhole(w, p) \cup ExecutionCut(w, p)
  PROVE  Fine(w, "ProbeCompleted", d)
<1> DEFINE r == StepRun("execution", w, p)
           nothing == Event("ExecutionCompleted", w, TRUE)
           failed == Event("ExecutionCompleted", w, FALSE)
           spec == Event("SpecCommitted", w, FALSE)
           F(rows, runs, saved) == Fine(w, "ProbeCompleted", Deed(rows, runs, saved))
<1>1. d \in {Deed(<<nothing>>, <<>>, "none"), Deed(<<spec, failed>>, <<r>>, "none"), Deed(<<>>, <<>>, "none"),
             Deed(<<>>, <<r>>, "none"), Deed(<<spec>>, <<r>>, "none")}
  BY DEF ExecutionWhole, ExecutionCut
<1>2. /\ nothing.w = w /\ failed.w = w /\ spec.w = w
      /\ nothing.type = "ExecutionCompleted" /\ failed.type = "ExecutionCompleted" /\ spec.type = "SpecCommitted"
  BY DEF Event
<1>3. \A rows : RunsFine(w, "ProbeCompleted", rows, <<>>) /\ RunsFine(w, "ProbeCompleted", rows, <<r>>)
  <2>1. HandlerOf["execution"] = "ProbeCompleted" /\ "execution" \in Steps \ {"refresh"}
    BY DEF HandlerOf, Steps
  <2> QED BY <2>1, RunsFineNone, RunsFineOne
<1> HIDE DEF r, nothing, failed, spec
<1>4. RowsFine(w, <<>>, "none") /\ RowsFine(w, <<nothing>>, "none") /\ RowsFine(w, <<spec>>, "none")
  BY <1>2, RowsFine0, RowsFine1 DEF Saved
<1>5. RowsFine(w, <<spec, failed>>, "none")
  BY <1>2, RowsFine2 DEF Saved
<1>6. /\ F(<<nothing>>, <<>>, "none") /\ F(<<spec, failed>>, <<r>>, "none") /\ F(<<>>, <<>>, "none")
      /\ F(<<>>, <<r>>, "none") /\ F(<<spec>>, <<r>>, "none")
  BY <1>3, <1>4, <1>5, FineDeed
<1> QED BY <1>1, <1>6

LEMMA GateFine ==
  ASSUME NEW w \in Workflows, NEW p \in Personas, NEW d \in GateWhole(w, p) \cup GateCut(w, p) \cup GateFaultWhole(w, p)
  PROVE  Fine(w, "ExecutionCompleted", d)
<1> DEFINE r == StepRun("gate", w, p)
           r2 == StepRun("refresh", w, p)
           pass == Event("GateCompleted", w, TRUE)
           fail == Event("GateCompleted", w, FALSE)
           good == Event("GatePassed", w, TRUE)
           bad == Event("GateFailed", w, FALSE)
           F(rows, runs, saved) == Fine(w, "ExecutionCompleted", Deed(rows, runs, saved))
<1>1. \/ ~plan[w].workspace /\ d = Deed(<<pass>>, <<>>, "none")
      \/ d \in {Deed(<<good, pass>>, <<r, r2>>, "gate"), Deed(<<bad, fail>>, <<r>>, "none"),
                Deed(<<>>, <<>>, "none"), Deed(<<good>>, <<r>>, "gate"), Deed(<<good>>, <<r, r2>>, "gate"),
                Deed(<<bad>>, <<r>>, "none"), Deed(<<fail>>, <<r>>, "none"), Deed(<<good, fail>>, <<r>>, "none")}
  BY DEF GateWhole, GateCut, GateFaultWhole
<1>2. /\ pass.w = w /\ fail.w = w /\ bad.w = w /\ good.w = w /\ ~fail.ok
      /\ pass.type = "GateCompleted" /\ fail.type = "GateCompleted" /\ bad.type = "GateFailed" /\ good.type = "GatePassed"
  BY DEF Event
<1>3. good = PassRow(w)
  BY DEF PassRow
<1>4. \A rows : RunsFine(w, "ExecutionCompleted", rows, <<>>) /\ RunsFine(w, "ExecutionCompleted", rows, <<r>>)
  <2>1. HandlerOf["gate"] = "ExecutionCompleted" /\ "gate" \in Steps \ {"refresh"}
    BY DEF HandlerOf, Steps
  <2> QED BY <2>1, RunsFineNone, RunsFineOne
<1>5. RunsFine(w, "ExecutionCompleted", <<good>>, <<r, r2>>) /\ RunsFine(w, "ExecutionCompleted", <<good, pass>>, <<r, r2>>)
  <2> HIDE DEF good, pass
  <2>1. 1 \in DOMAIN <<good>> /\ <<good>>[1] = good /\ 1 \in DOMAIN <<good, pass>> /\ <<good, pass>>[1] = good
    OBVIOUS
  <2> QED BY <1>3, <2>1, RunsFineTwo
<1> HIDE DEF r, r2, pass, fail, bad, good
<1>6. /\ RowsFine(w, <<>>, "none") /\ RowsFine(w, <<good>>, "gate") /\ RowsFine(w, <<bad>>, "none")
      /\ RowsFine(w, <<fail>>, "none") /\ (~plan[w].workspace => RowsFine(w, <<pass>>, "none"))
  BY <1>2, <1>3, RowsFine0, RowsFine1 DEF Saved
<1>7. RowsFine(w, <<good, pass>>, "gate") /\ RowsFine(w, <<bad, fail>>, "none") /\ RowsFine(w, <<good, fail>>, "none")
  BY <1>2, <1>3, RowsFine2 DEF Saved
<1>8. ~plan[w].workspace => F(<<pass>>, <<>>, "none")
  BY <1>4, <1>6, FineDeed
<1>9. /\ F(<<good, pass>>, <<r, r2>>, "gate") /\ F(<<bad, fail>>, <<r>>, "none")
      /\ F(<<>>, <<>>, "none") /\ F(<<good>>, <<r>>, "gate") /\ F(<<good>>, <<r, r2>>, "gate")
      /\ F(<<bad>>, <<r>>, "none") /\ F(<<fail>>, <<r>>, "none") /\ F(<<good, fail>>, <<r>>, "none")
  BY <1>4, <1>5, <1>6, <1>7, FineDeed
<1> QED BY <1>1, <1>8, <1>9

-----------------------------------------------------------------------------
(* The steps, with what the handler has done *)

Wholes(type, w, p) == CASE type = "WorkflowStarted" -> ProbeWhole(w, p)
                        [] type = "ProbeCompleted" -> ExecutionWhole(w, p)
                        [] type = "ExecutionCompleted" -> GateWhole(w, p)

Cuts(type, w, p) == CASE type = "WorkflowStarted" -> ProbeCut(w, p)
                      [] type = "ProbeCompleted" -> ExecutionCut(w, p)
                      [] type = "ExecutionCompleted" -> GateCut(w, p)

\* The persona that the steps of this firing get.
Speaker(i, e) == IF e.type = "WorkflowStarted" THEN plan[e.w].persona ELSE runners[i].persona

\* Runner i handles e and has done d.
Does(i, e, d) ==
    /\ Handling(i, e) /\ i \in DOMAIN runners /\ e \in Events /\ e.type \in Handled /\ e.type \notin runners[i].fired
    /\ Mark(i, e)
    /\ d.rows \in Seq(Events) /\ d.runs \in Seq(StepRuns) /\ d.saved \in Saved /\ Fine(e.w, e.type, d)
    /\ log' = log \o d.rows /\ ran' = ran \o d.runs
    /\ snapshot' = IF d.saved = "none" THEN snapshot ELSE d.saved
    /\ UNCHANGED <<plan, outcome>>

\* It published the last row and is waiting, or it has raised.
Goes(i, e, d) ==
    /\ Does(i, e, d) /\ d.rows # <<>> /\ stack' = Append(Rest, Publication(Last(d.rows)))
    /\ \/ d \in Wholes(e.type, e.w, Speaker(i, e)) /\ faults' = faults
       \/ e.type = "ExecutionCompleted" /\ d \in GateFaultWhole(e.w, Speaker(i, e)) /\ faults < MaxFaults /\ faults' = faults + 1

Breaks(i, e, d) == Does(i, e, d) /\ stack' = Rest /\ faults < MaxFaults /\ faults' = faults + 1

-----------------------------------------------------------------------------
(* The inductive invariant *)

\* The runners that would still handle an event of this type, and the newest.
Lacking(type) == {i \in DOMAIN runners : type \notin runners[i].fired}
Newest == Len(runners)
HasFired(type) == type \in runners[Newest].fired

\* One call is under way exactly while something is being published, and all of
\* what is being published is about it; only GateCompleted has no audience.
CallUnderWay ==
    /\ \A w \in Workflows : outcome[w] = "running" => stack # <<>>
    /\ \A w, v \in Workflows : outcome[w] = "running" /\ outcome[v] = "running" => w = v
    /\ stack # <<>> => runners # <<>>
    /\ \A k \in DOMAIN stack :
          /\ outcome[stack[k].event.w] = "running"
          /\ stack[k].todo # <<>> => stack[k].event.type \in Handled

\* Rows and steps belong to calls that were made.
OfCalls ==
    /\ \A i \in DOMAIN log : outcome[log[i].w] # "idle"
    /\ \A i \in DOMAIN ran : outcome[ran[i].w] # "idle"

\* What the types and the shape of the stack say of the innermost publication.
LEMMA TopIs ==
  ASSUME TypeOK, stack # <<>>
  PROVE  /\ Top = stack[Len(stack)] /\ Len(stack) \in DOMAIN stack /\ Len(stack) \in Nat \ {0} /\ DOMAIN stack = 1..Len(stack)
         /\ Top \in [event : Events, todo : Seq(DOMAIN runners)]
         /\ Top.event \in Events /\ Top.event.w \in Workflows /\ Top.todo \in Seq(DOMAIN runners)
         /\ DOMAIN runners = 1..Len(runners) /\ Len(runners) \in Nat
<1>1. stack \in Seq([event : Events, todo : Seq(DOMAIN runners)]) /\ runners \in Seq([fired : SUBSET Handled, persona : Personas])
  BY DEF TypeOK
<1>2. Top = stack[Len(stack)] /\ Len(stack) \in DOMAIN stack /\ Len(stack) \in Nat \ {0} /\ DOMAIN stack = 1..Len(stack)
  BY <1>1 DEF Top, Last
<1>3. Top \in [event : Events, todo : Seq(DOMAIN runners)]
  <2> DEFINE F == [event : Events, todo : Seq(DOMAIN runners)]
  <2>1. stack \in Seq(F)
    BY <1>1
  <2> HIDE DEF F
  <2>2. Top \in F
    BY <1>2, <2>1
  <2> QED BY <2>2 DEF F
<1>4. DOMAIN runners = 1..Len(runners) /\ Len(runners) \in Nat
  BY <1>1
<1> HIDE DEF Top
<1>5. Top.event \in Events /\ Top.todo \in Seq(DOMAIN runners)
  BY <1>3
<1>6. Top.event.w \in Workflows
  BY <1>5 DEF Events
<1> QED BY <1>2, <1>3, <1>4, <1>5, <1>6

LEMMA RestIs ==
  ASSUME TypeOK, stack # <<>>, Top.todo # <<>>
  PROVE  /\ Rest \in Seq([event : Events, todo : Seq(DOMAIN runners)]) /\ Len(Rest) = Len(stack) /\ Rest # <<>>
         /\ \A k \in 1..Len(stack) : k # Len(stack) => Rest[k] = stack[k]
         /\ Rest[Len(stack)].event = Top.event /\ Rest[Len(stack)].todo = Tail(Top.todo)
         /\ Head(Top.todo) \in DOMAIN runners /\ Tail(Top.todo) \in Seq(DOMAIN runners)
<1> DEFINE F == [event : Events, todo : Seq(DOMAIN runners)]
           D == DOMAIN runners
           n == Len(stack)
           new == [Top EXCEPT !.todo = Tail(@)]
           low == SubSeq(stack, 1, n - 1)
<1>1. stack \in Seq(F) /\ n \in Nat /\ n # 0 /\ Top \in F /\ Top.todo \in Seq(D) /\ Top.event \in Events
  BY TopIs DEF TypeOK
<1>2. Tail(Top.todo) \in Seq(D) /\ Head(Top.todo) \in D
  <2> HIDE DEF D
  <2> QED BY <1>1
<1>3. new \in F /\ new.event = Top.event /\ new.todo = Tail(Top.todo)
  BY <1>1, <1>2
<1>4. Rest = Append(low, new)
  BY DEF Rest, Front
<1> HIDE DEF F, D, n, new
<1>5. low \in Seq(F) /\ Len(low) = n - 1 /\ \A k \in 1..(n - 1) : low[k] = stack[k]
  <2>1. n - 1 \in Nat /\ n - 1 <= Len(stack)
    BY <1>1 DEF n
  <2>2. low \in Seq(F)
    BY <1>1, <2>1
  <2>3. Len(low) = n - 1
    BY <1>1, <2>1
  <2>4. \A k \in 1..(n - 1) : low[k] = stack[k]
    BY <1>1, <2>1
  <2> QED BY <2>2, <2>3, <2>4
<1> HIDE DEF low
<1>6. Rest \in Seq(F) /\ Len(Rest) = n /\ Rest[n] = new /\ \A k \in 1..(n - 1) : Rest[k] = low[k]
  BY <1>1, <1>3, <1>4, <1>5
<1>7. Rest # <<>>
  BY <1>1, <1>6
<1>8. \A k \in 1..n : k # n => k \in 1..(n - 1)
  BY <1>1
<1>9. \A k \in 1..n : k # n => Rest[k] = stack[k]
  BY <1>5, <1>6, <1>8
<1> QED BY <1>2, <1>3, <1>6, <1>7, <1>9 DEF F, D, n

\* The runner has the event's type among those fired, and WorkflowStarted gives
\* it the persona of the call.
LEMMA MarkIs ==
  ASSUME TypeOK, NEW i \in DOMAIN runners, NEW e \in Events, e.type \in Handled, Mark(i, e)
  PROVE  /\ runners' \in Seq([fired : SUBSET Handled, persona : Personas])
         /\ DOMAIN runners' = DOMAIN runners /\ Len(runners') = Len(runners)
         /\ \A j \in DOMAIN runners : j # i => runners'[j] = runners[j]
         /\ runners'[i].fired = runners[i].fired \cup {e.type} /\ runners'[i].persona = Speaker(i, e)
         /\ Speaker(i, e) \in Personas
<1> DEFINE R == [fired : SUBSET Handled, persona : Personas]
           r == runners[i]
           new == [r EXCEPT !.fired = @ \cup {e.type}, !.persona = Speaker(i, e)]
<1>1. runners \in Seq(R)
  BY DEF TypeOK
<1>2. r \in R
  <2> HIDE DEF R
  <2> QED BY <1>1
<1>3. Speaker(i, e) \in Personas
  <2>1. e.w \in Workflows /\ r.persona \in Personas
    BY <1>2 DEF Events
  <2>2. plan[e.w] \in Plans \cup {NoPlan}
    BY <2>1 DEF TypeOK
  <2>3. plan[e.w].persona \in Personas
    BY <2>2 DEF Personas, NoPlan
  <2> QED BY <2>1, <2>3 DEF Speaker
<1>4. new \in R /\ new.fired = r.fired \cup {e.type} /\ new.persona = Speaker(i, e)
  <2> HIDE DEF r
  <2> QED BY <1>2, <1>3
<1>5. runners' = [runners EXCEPT ![i] = new]
  BY DEF Mark, Speaker
<1> HIDE DEF new, R, r
<1>6. /\ runners' \in Seq(R) /\ DOMAIN runners' = DOMAIN runners /\ Len(runners') = Len(runners)
      /\ \A j \in DOMAIN runners : j # i => runners'[j] = runners[j]
      /\ runners'[i] = new
  BY <1>1, <1>4, <1>5
<1> QED BY <1>3, <1>4, <1>6 DEF R, r

\* Whoever handles an event is a subscribed runner, and the event is one that is handled.
LEMMA HandlingIs ==
  ASSUME TypeOK, CallUnderWay, NEW i, NEW e, Handling(i, e)
  PROVE  /\ stack # <<>> /\ Top.todo # <<>> /\ i = Head(Top.todo) /\ e = Top.event /\ i \in DOMAIN runners
         /\ e \in Events /\ e.w \in Workflows /\ e.type \in Handled /\ outcome[e.w] = "running"
         /\ runners[i].persona \in Personas /\ Speaker(i, e) \in Personas
<1>1. stack # <<>> /\ Top.todo # <<>> /\ i = Head(Top.todo) /\ e = Top.event
  BY DEF Handling
<1>2. i \in DOMAIN runners
  BY <1>1, RestIs
<1>3. e \in Events /\ e.w \in Workflows /\ Top = stack[Len(stack)] /\ Len(stack) \in DOMAIN stack
  BY <1>1, TopIs
<1>4. e.type \in Handled /\ outcome[e.w] = "running"
  BY <1>1, <1>3 DEF CallUnderWay
<1>5. runners[i].persona \in Personas
  <2> DEFINE R == [fired : SUBSET Handled, persona : Personas]
  <2>1. runners \in Seq(R)
    BY DEF TypeOK
  <2> HIDE DEF R
  <2>2. runners[i] \in R
    BY <1>2, <2>1
  <2> QED BY <2>2 DEF R
<1>6. Speaker(i, e) \in Personas
  <2>1. plan[e.w] \in Plans \cup {NoPlan}
    BY <1>3 DEF TypeOK
  <2>2. plan[e.w].persona \in Personas
    BY <2>1 DEF Personas, NoPlan
  <2> QED BY <1>5, <2>2 DEF Speaker
<1> QED BY <1>1, <1>2, <1>3, <1>4, <1>5, <1>6

\* The effects of each handler come to one of its wholes, and where they raise
\* to one of its cuts.
LEMMA EffectsAreDeeds ==
  ASSUME NEW i, NEW e, e.w \in Workflows, e.type \in Handled, Speaker(i, e) \in Personas,
         NEW effects \in EffectsOf(e, runners[i].persona)
  PROVE  Outcome(effects, Wholes(e.type, e.w, Speaker(i, e)), Cuts(e.type, e.w, Speaker(i, e)))
<1>1. CASE e.type = "WorkflowStarted"
  <2>1. effects \in ProbeEffects(e.w, Speaker(i, e))
    BY <1>1 DEF EffectsOf, Speaker
  <2> QED BY <1>1, <2>1, ProbeDeeds DEF Wholes, Cuts
<1>2. CASE e.type = "ProbeCompleted"
  <2>1. effects \in ExecutionEffects(e.w, Speaker(i, e))
    BY <1>2 DEF EffectsOf, Speaker
  <2> QED BY <1>2, <2>1, ExecutionDeeds DEF Wholes, Cuts
<1>3. CASE e.type = "ExecutionCompleted"
  <2>1. effects \in GateEffects(e.w, Speaker(i, e))
    BY <1>3 DEF EffectsOf, Speaker
  <2> QED BY <1>3, <2>1, GateDeeds DEF Wholes, Cuts
<1> QED BY <1>1, <1>2, <1>3 DEF Handled

LEMMA DeedsAreFine ==
  ASSUME NEW w \in Workflows, NEW type \in Handled, NEW p \in Personas
  PROVE  /\ \A d \in Wholes(type, w, p) \cup Cuts(type, w, p) : Fine(w, type, d)
         /\ type = "ExecutionCompleted" => \A d \in GateFaultWhole(w, p) : Fine(w, type, d)
<1>1. CASE type = "WorkflowStarted"
  BY <1>1, ProbeFine DEF Wholes, Cuts
<1>2. CASE type = "ProbeCompleted"
  BY <1>2, ExecutionFine DEF Wholes, Cuts
<1>3. CASE type = "ExecutionCompleted"
  BY <1>3, GateFine DEF Wholes, Cuts
<1> QED BY <1>1, <1>2, <1>3 DEF Handled

LEMMA CutsAreTyped ==
  ASSUME NEW w \in Workflows, NEW type \in Handled, NEW p \in Personas, NEW d \in Cuts(type, w, p)
  PROVE  \E rows \in Seq(Events), runs \in Seq(StepRuns), saved \in Saved : d = Deed(rows, runs, saved)
<1> DEFINE T == {Deed(rows, runs, saved) : rows \in Seq(Events), runs \in Seq(StepRuns), saved \in Saved}
<1>1. \A step \in Steps : StepRun(step, w, p) \in StepRuns
  BY DEF StepRun, StepRuns
<1>2. \A rows \in Seq(Events), runs \in Seq(StepRuns), saved \in Saved : Deed(rows, runs, saved) \in T
  OBVIOUS
<1>3. "none" \in Saved /\ "probe" \in Saved /\ "gate" \in Saved
  BY DEF Saved
<1>4. \A a \in Events, b \in Events : <<>> \in Seq(Events) /\ <<a>> \in Seq(Events) /\ <<a, b>> \in Seq(Events)
  OBVIOUS
<1>5. \A a \in StepRuns, b \in StepRuns : <<>> \in Seq(StepRuns) /\ <<a>> \in Seq(StepRuns) /\ <<a, b>> \in Seq(StepRuns)
  OBVIOUS
<1> HIDE DEF T
<1>6. CASE type = "WorkflowStarted"
  <2> DEFINE r == StepRun("probe", w, p)
             bad == Event("ProbeFailed", w, FALSE)
             warm == Event("ContextWarmed", w, TRUE)
  <2>1. r \in StepRuns /\ bad \in Events /\ warm \in Events
    BY <1>1, EventType DEF Steps, Types
  <2>2. d \in {Deed(<<>>, <<>>, "none"), Deed(<<>>, <<r>>, "none"), Deed(<<bad>>, <<r>>, "none"),
               Deed(<<bad>>, <<r>>, "probe"), Deed(<<bad, warm>>, <<r>>, "probe")}
    BY <1>6 DEF Cuts, ProbeCut
  <2> HIDE DEF r, bad, warm
  <2> QED BY <1>2, <1>3, <1>4, <1>5, <2>1, <2>2 DEF T
<1>7. CASE type = "ProbeCompleted"
  <2> DEFINE r == StepRun("execution", w, p)
             spec == Event("SpecCommitted", w, FALSE)
  <2>1. r \in StepRuns /\ spec \in Events
    BY <1>1, EventType DEF Steps, Types
  <2>2. d \in {Deed(<<>>, <<>>, "none"), Deed(<<>>, <<r>>, "none"), Deed(<<spec>>, <<r>>, "none")}
    BY <1>7 DEF Cuts, ExecutionCut
  <2> HIDE DEF r, spec
  <2> QED BY <1>2, <1>3, <1>4, <1>5, <2>1, <2>2 DEF T
<1>8. CASE type = "ExecutionCompleted"
  <2> DEFINE r == StepRun("gate", w, p)
             r2 == StepRun("refresh", w, p)
             good == Event("GatePassed", w, TRUE)
             bad == Event("GateFailed", w, FALSE)
  <2>1. r \in StepRuns /\ r2 \in StepRuns /\ good \in Events /\ bad \in Events
    BY <1>1, EventType DEF Steps, Types
  <2>2. d \in {Deed(<<>>, <<>>, "none"), Deed(<<good>>, <<r>>, "gate"), Deed(<<good>>, <<r, r2>>, "gate"),
               Deed(<<bad>>, <<r>>, "none")}
    BY <1>8 DEF Cuts, GateCut
  <2> HIDE DEF r, r2, good, bad
  <2> QED BY <1>2, <1>3, <1>4, <1>5, <2>1, <2>2 DEF T
<1> QED BY <1>6, <1>7, <1>8 DEF Handled, T

LEMMA AppliedDeed ==
  ASSUME NEW effects, NEW rows, NEW runs, NEW saved, Done(effects) = Deed(rows, runs, saved), Apply(effects)
  PROVE  LET d == Deed(rows, runs, saved)
         IN  /\ log' = log \o d.rows /\ ran' = ran \o d.runs
             /\ snapshot' = IF d.saved = "none" THEN snapshot ELSE d.saved
BY DEF Apply

LEMMA FireGoes ==
  ASSUME TypeOK, CallUnderWay, NEW i, NEW e, Fire(i, e)
  PROVE  \E d : Goes(i, e, d)
<1> DEFINE p == Speaker(i, e)
<1>1. /\ Handling(i, e) /\ e.type \notin runners[i].fired /\ Mark(i, e) /\ plan' = plan /\ outcome' = outcome
      /\ \/ \E effects \in EffectsOf(e, runners[i].persona) :
               Apply(effects) /\ stack' = Append(Rest, Publication(Published(effects))) /\ faults' = faults
         \/ /\ faults < MaxFaults /\ faults' = faults + 1
            /\ \E effects \in FaultEffectsOf(e, runners[i].persona) :
                  Apply(effects) /\ stack' = Append(Rest, Publication(Published(effects)))
  BY DEF Fire
<1>2. i \in DOMAIN runners /\ e \in Events /\ e.w \in Workflows /\ e.type \in Handled /\ p \in Personas
  BY <1>1, HandlingIs
<1>3. ASSUME NEW effects, NEW wholes, NEW cuts, Outcome(effects, wholes, cuts), Apply(effects),
             \A d \in wholes : Fine(e.w, e.type, d),
             stack' = Append(Rest, Publication(Published(effects)))
      PROVE  \E d \in wholes : Does(i, e, d) /\ d.rows # <<>> /\ stack' = Append(Rest, Publication(Last(d.rows)))
  <2>1. PICK rows, runs, saved : /\ Did(effects, rows, runs, saved, cuts) /\ Deed(rows, runs, saved) \in wholes
                                 /\ rows # <<>> /\ Published(effects) = Last(rows)
    BY <1>3 DEF Outcome
  <2> DEFINE d == Deed(rows, runs, saved)
  <2>2. d.rows = rows /\ d.runs = runs /\ d.saved = saved
    BY DeedFields
  <2>3. log' = log \o d.rows /\ ran' = ran \o d.runs /\ snapshot' = IF d.saved = "none" THEN snapshot ELSE d.saved
    BY <1>3, <2>1, AppliedDeed DEF Did
  <2>4. rows \in Seq(Events) /\ runs \in Seq(StepRuns) /\ saved \in Saved
    BY <2>1 DEF Did
  <2>5. d \in wholes /\ Fine(e.w, e.type, d)
    BY <1>3, <2>1
  <2> HIDE DEF d
  <2>6. Does(i, e, d)
    BY <1>1, <1>2, <2>2, <2>3, <2>4, <2>5 DEF Does
  <2>7. stack' = Append(Rest, Publication(Last(d.rows))) /\ d.rows # <<>>
    BY <1>3, <2>1, <2>2
  <2> QED BY <2>5, <2>6, <2>7
<1>4. CASE \E effects \in EffectsOf(e, runners[i].persona) :
              Apply(effects) /\ stack' = Append(Rest, Publication(Published(effects))) /\ faults' = faults
  <2>1. PICK effects \in EffectsOf(e, runners[i].persona) :
              Apply(effects) /\ stack' = Append(Rest, Publication(Published(effects))) /\ faults' = faults
    BY <1>4
  <2>2. Outcome(effects, Wholes(e.type, e.w, p), Cuts(e.type, e.w, p))
    BY <1>2, EffectsAreDeeds
  <2>3. \A d \in Wholes(e.type, e.w, p) : Fine(e.w, e.type, d)
    BY <1>2, DeedsAreFine
  <2>4. \E d \in Wholes(e.type, e.w, p) : Does(i, e, d) /\ d.rows # <<>> /\ stack' = Append(Rest, Publication(Last(d.rows)))
    BY <1>3, <2>1, <2>2, <2>3
  <2> QED BY <2>1, <2>4 DEF Goes
<1>5. CASE /\ faults < MaxFaults /\ faults' = faults + 1
           /\ \E effects \in FaultEffectsOf(e, runners[i].persona) :
                 Apply(effects) /\ stack' = Append(Rest, Publication(Published(effects)))
  <2>1. PICK effects \in FaultEffectsOf(e, runners[i].persona) :
              Apply(effects) /\ stack' = Append(Rest, Publication(Published(effects)))
    BY <1>5
  <2>2. e.type = "ExecutionCompleted" /\ effects \in GateFaultEffects(e.w, p)
    BY <2>1 DEF FaultEffectsOf, Speaker
  <2>3. PICK cuts : Outcome(effects, GateFaultWhole(e.w, p), cuts)
    BY <1>2, <2>2, GateFaultDeeds
  <2>4. \A d \in GateFaultWhole(e.w, p) : Fine(e.w, e.type, d)
    BY <1>2, <2>2, DeedsAreFine
  <2>5. \E d \in GateFaultWhole(e.w, p) : Does(i, e, d) /\ d.rows # <<>> /\ stack' = Append(Rest, Publication(Last(d.rows)))
    BY <1>3, <2>1, <2>3, <2>4
  <2> QED BY <1>5, <2>2, <2>5 DEF Goes
<1> QED BY <1>1, <1>4, <1>5

LEMMA FireRaisesBreaks ==
  ASSUME TypeOK, CallUnderWay, NEW i, NEW e, FireRaises(i, e)
  PROVE  \E d : Breaks(i, e, d)
<1> DEFINE p == Speaker(i, e)
           cuts == Cuts(e.type, e.w, p)
<1>1. /\ Handling(i, e) /\ e.type \notin runners[i].fired /\ Mark(i, e) /\ plan' = plan /\ outcome' = outcome
      /\ faults < MaxFaults /\ faults' = faults + 1 /\ stack' = Rest
  BY DEF FireRaises
<1>2. i \in DOMAIN runners /\ e \in Events /\ e.w \in Workflows /\ e.type \in Handled /\ p \in Personas
  BY <1>1, HandlingIs
<1>3. PICK effects \in EffectsOf(e, runners[i].persona) :
          \E k \in DOMAIN effects : effects[k].raises /\ Apply(SubSeq(effects, 1, k - 1))
  BY DEF FireRaises
<1>4. PICK k \in DOMAIN effects : effects[k].raises /\ Apply(SubSeq(effects, 1, k - 1))
  BY <1>3
<1>5. Outcome(effects, Wholes(e.type, e.w, p), cuts)
  BY <1>2, EffectsAreDeeds
<1>6. PICK all, allRuns, allSaved : Did(effects, all, allRuns, allSaved, cuts)
  BY <1>5 DEF Outcome
<1>7. Done(SubSeq(effects, 1, k - 1)) \in cuts
  BY <1>4, <1>6 DEF Did
<1>8. PICK rows \in Seq(Events), runs \in Seq(StepRuns), saved \in Saved : Done(SubSeq(effects, 1, k - 1)) = Deed(rows, runs, saved)
  BY <1>2, <1>7, CutsAreTyped
<1> DEFINE d == Deed(rows, runs, saved)
<1>9. d.rows = rows /\ d.runs = runs /\ d.saved = saved
  BY DeedFields
<1>10. log' = log \o d.rows /\ ran' = ran \o d.runs /\ snapshot' = IF d.saved = "none" THEN snapshot ELSE d.saved
  BY <1>4, <1>8, AppliedDeed
<1>11. Fine(e.w, e.type, d)
  BY <1>2, <1>7, <1>8, DeedsAreFine
<1> HIDE DEF d
<1>12. Does(i, e, d)
  BY <1>1, <1>2, <1>8, <1>9, <1>10, <1>11 DEF Does
<1> QED BY <1>1, <1>12 DEF Breaks

-----------------------------------------------------------------------------
(* Types *)

LEMMA StepCases ==
  ASSUME TypeOK, CallUnderWay, Next
  PROVE  \/ \E w \in Workflows, pl \in Plans : Call(w, pl) \/ CallRaises(w, pl)
         \/ Pop
         \/ \E i, e : Skip(i, e)
         \/ \E i, e, d : Goes(i, e, d)
         \/ \E i, e, d : Breaks(i, e, d)
<1>1. CASE Step
  BY <1>1, FireGoes, FireRaisesBreaks DEF Step
<1>2. CASE \E w \in Workflows, pl \in Plans : Call(w, pl) \/ CallRaises(w, pl)
  BY <1>2
<1> QED BY <1>1, <1>2 DEF Next

Frames == [event : Events, todo : Seq(DOMAIN runners)]
Runners == [fired : SUBSET Handled, persona : Personas]

\* Popping a publication leaves the outer ones.
LEMMA FrontIs ==
  ASSUME TypeOK, stack # <<>>
  PROVE  /\ Front(stack) \in Seq(Frames) /\ Len(Front(stack)) = Len(stack) - 1 /\ Len(stack) \in Nat \ {0}
         /\ \A k \in 1..(Len(stack) - 1) : Front(stack)[k] = stack[k]
         /\ Front(stack) = <<>> <=> Len(stack) = 1
<1> DEFINE n == Len(stack)
<1>1. stack \in Seq(Frames) /\ n \in Nat /\ n # 0 /\ Front(stack) = SubSeq(stack, 1, n - 1)
  BY DEF TypeOK, Frames, Front
<1> HIDE DEF n
<1>2. n - 1 \in Nat /\ n - 1 <= Len(stack)
  BY <1>1 DEF n
<1>3. Front(stack) \in Seq(Frames)
  BY <1>1, <1>2
<1>4. Len(Front(stack)) = n - 1
  BY <1>1, <1>2
<1>5. \A k \in 1..(n - 1) : Front(stack)[k] = stack[k]
  BY <1>1, <1>2
<1>6. Front(stack) = <<>> <=> n = 1
  <2>1. n - 1 = 0 <=> n = 1
    BY <1>1
  <2>2. Front(stack) = <<>> <=> Len(Front(stack)) = 0
    BY <1>3
  <2> QED BY <1>4, <2>1, <2>2
<1> QED BY <1>1, <1>3, <1>4, <1>5, <1>6 DEF n

LEMMA AudienceType ==
  ASSUME NEW rs \in Seq(Runners)
  PROVE  /\ [i \in DOMAIN rs |-> i] \in Seq(DOMAIN rs) /\ Len([i \in DOMAIN rs |-> i]) = Len(rs)
         /\ \A j \in DOMAIN rs : j \in Range([i \in DOMAIN rs |-> i])
         /\ rs # <<>> => [i \in DOMAIN rs |-> i] # <<>>
<1> DEFINE n == Len(rs)
           s == [i \in DOMAIN rs |-> i]
           D == DOMAIN rs
<1>1. n \in Nat /\ D = 1..n /\ (rs # <<>> => n # 0)
  OBVIOUS
<1>2. s = [i \in 1..n |-> i]
  BY <1>1
<1> HIDE DEF n, D
<1>3. s \in Seq(D) /\ Len(s) = n
  BY <1>1, <1>2
<1>4. \A j \in D : j \in Range(s)
  BY <1>1, <1>2 DEF Range
<1>5. n # 0 => s # <<>>
  BY <1>1, <1>3
<1> QED BY <1>1, <1>3, <1>4, <1>5 DEF n, D

\* What is published next, and whom it goes to, once the firing runner is marked.
LEMMA PublicationIs ==
  ASSUME TypeOK, NEW g \in Events
  PROVE  /\ Publication(g) \in Frames /\ Publication(g).event = g
         /\ g.type \in Handled => \A j \in DOMAIN runners : j \in Range(Publication(g).todo)
         /\ g.type \notin Handled => Publication(g).todo = <<>>
<1>1. runners \in Seq(Runners)
  BY DEF TypeOK, Runners
<1>2. Audience(g) \in Seq(DOMAIN runners)
  <2>1. [i \in DOMAIN runners |-> i] \in Seq(DOMAIN runners) /\ <<>> \in Seq(DOMAIN runners)
    BY <1>1, AudienceType
  <2> QED BY <2>1 DEF Audience
<1>3. Publication(g).event = g /\ Publication(g).todo = Audience(g) /\ Publication(g) \in Frames
  BY <1>2 DEF Publication, Frames
<1>4. g.type \in Handled => \A j \in DOMAIN runners : j \in Range(Audience(g))
  BY <1>1, AudienceType DEF Audience
<1>5. g.type \notin Handled => Audience(g) = <<>>
  BY DEF Audience
<1> QED BY <1>3, <1>4, <1>5

\* A firing that ends makes the publication of its last row the innermost one.
LEMMA GoesStack ==
  ASSUME TypeOK, CallUnderWay, NEW i, NEW e, NEW d, Goes(i, e, d)
  PROVE  LET g == Last(d.rows) IN
         /\ g \in Events /\ g.w = e.w
         /\ stack' \in Seq(Frames) /\ Len(stack') = Len(stack) + 1 /\ stack' # <<>>
         /\ \A k \in 1..Len(stack) : stack'[k] = Rest[k]
         /\ stack'[Len(stack) + 1] = Publication(g)
<1> DEFINE g == Last(d.rows)
<1>1. Does(i, e, d) /\ d.rows # <<>> /\ stack' = Append(Rest, Publication(g))
  BY DEF Goes
<1>2. d.rows \in Seq(Events) /\ Handling(i, e) /\ RowsFine(e.w, d.rows, d.saved)
  BY <1>1 DEF Does, Fine
<1>3. g \in Events /\ Len(d.rows) \in DOMAIN d.rows /\ g = d.rows[Len(d.rows)]
  BY <1>1, <1>2 DEF Last
<1>4. g.w = e.w
  BY <1>2, <1>3 DEF RowsFine
<1> HIDE DEF g
<1>5. Publication(g) \in Frames
  BY <1>3, PublicationIs
<1>6. Rest \in Seq(Frames) /\ Len(Rest) = Len(stack) /\ Len(Rest) \in Nat
  BY <1>2, HandlingIs, RestIs DEF Frames
<1>7. /\ stack' \in Seq(Frames) /\ Len(stack') = Len(stack) + 1 /\ stack' # <<>>
      /\ \A k \in 1..Len(stack) : stack'[k] = Rest[k]
      /\ stack'[Len(stack) + 1] = Publication(g)
  BY <1>1, <1>5, <1>6
<1> QED BY <1>3, <1>4, <1>7 DEF g

LEMMA TypeDoes ==
  ASSUME TypeOK, NEW i, NEW e, NEW d, Does(i, e, d)
  PROVE  /\ log' \in Seq(Events) /\ snapshot' \in {"none", "probe", "gate"} /\ ran' \in Seq(StepRuns)
         /\ runners' \in Seq([fired : SUBSET Handled, persona : Personas]) /\ DOMAIN runners' = DOMAIN runners
         /\ outcome' \in [Workflows -> {"idle", "running", "returned", "raised"}]
         /\ plan' \in [Workflows -> Plans \cup {NoPlan}]
<1>1. d.rows \in Seq(Events) /\ d.runs \in Seq(StepRuns) /\ d.saved \in Saved /\ plan' = plan /\ outcome' = outcome
      /\ log' = log \o d.rows /\ ran' = ran \o d.runs /\ snapshot' = IF d.saved = "none" THEN snapshot ELSE d.saved
  BY DEF Does
<1>2. log \in Seq(Events) /\ ran \in Seq(StepRuns) /\ snapshot \in {"none", "probe", "gate"}
      /\ outcome \in [Workflows -> {"idle", "running", "returned", "raised"}] /\ plan \in [Workflows -> Plans \cup {NoPlan}]
  BY DEF TypeOK
<1>3. log' \in Seq(Events)
  BY <1>1, <1>2
<1>4. ran' \in Seq(StepRuns)
  BY <1>1, <1>2
<1>5. snapshot' \in {"none", "probe", "gate"}
  BY <1>1, <1>2 DEF Saved
<1>6. runners' \in Seq([fired : SUBSET Handled, persona : Personas]) /\ DOMAIN runners' = DOMAIN runners
  BY MarkIs DEF Does
<1> QED BY <1>1, <1>2, <1>3, <1>4, <1>5, <1>6

LEMMA TypeCall ==
  ASSUME TypeOK, NEW w \in Workflows, NEW pl \in Plans, Call(w, pl) \/ CallRaises(w, pl)
  PROVE  TypeOK'
<1> DEFINE new == Event("WorkflowStarted", w, TRUE)
<1>1. /\ log \in Seq(Events) /\ runners \in Seq(Runners) /\ ran \in Seq(StepRuns) /\ faults \in 0..MaxFaults
      /\ outcome \in [Workflows -> {"idle", "running", "returned", "raised"}] /\ plan \in [Workflows -> Plans \cup {NoPlan}]
      /\ snapshot \in {"none", "probe", "gate"}
  BY DEF TypeOK, Runners
<1>2. NewRunner \in Runners
  BY DEF NewRunner, Runners, Personas
<1>3. new \in Events
  BY EventType DEF Types
<1> HIDE DEF new
<1>4. /\ runners' = Append(runners, NewRunner) /\ plan' = [plan EXCEPT ![w] = pl]
      /\ ran' = ran /\ snapshot' = snapshot
  BY DEF Call, CallRaises
<1>5. runners' \in Seq(Runners) /\ plan' \in [Workflows -> Plans \cup {NoPlan}]
  <2>1. runners' \in Seq(Runners)
    BY <1>1, <1>2, <1>4
  <2>2. plan' \in [Workflows -> Plans \cup {NoPlan}]
    BY <1>1, <1>4
  <2> QED BY <2>1, <2>2
<1>6. CASE Call(w, pl)
  <2>1. /\ log' = Append(log, new) /\ outcome' = [outcome EXCEPT ![w] = "running"] /\ faults' = faults
        /\ stack' = <<[event |-> new, todo |-> [i \in DOMAIN runners' |-> i]]>>
    BY <1>6 DEF Call, new
  <2>2. log' \in Seq(Events)
    BY <1>1, <1>3, <2>1
  <2>3. outcome' \in [Workflows -> {"idle", "running", "returned", "raised"}]
    BY <1>1, <2>1
  <2>4. [i \in DOMAIN runners' |-> i] \in Seq(DOMAIN runners')
    BY <1>5, AudienceType
  <2>5. [event |-> new, todo |-> [i \in DOMAIN runners' |-> i]] \in [event : Events, todo : Seq(DOMAIN runners')]
    BY <1>3, <2>4
  <2>6. stack' \in Seq([event : Events, todo : Seq(DOMAIN runners')])
    <3> DEFINE F == [event : Events, todo : Seq(DOMAIN runners')]
               f == [event |-> new, todo |-> [i \in DOMAIN runners' |-> i]]
    <3>1. f \in F /\ stack' = <<f>>
      BY <2>1, <2>5
    <3> HIDE DEF F, f
    <3>2. stack' \in Seq(F)
      BY <3>1
    <3> QED BY <3>2 DEF F
  <2> QED BY <1>1, <1>4, <1>5, <2>1, <2>2, <2>3, <2>6 DEF TypeOK, Runners
<1>7. CASE CallRaises(w, pl)
  <2>1. /\ log' = log /\ outcome' = [outcome EXCEPT ![w] = "raised"] /\ faults' = faults + 1 /\ faults < MaxFaults
        /\ stack' = <<>>
    BY <1>7 DEF CallRaises
  <2>2. outcome' \in [Workflows -> {"idle", "running", "returned", "raised"}]
    BY <1>1, <2>1
  <2>3. stack' \in Seq([event : Events, todo : Seq(DOMAIN runners')])
    BY <2>1
  <2>4. faults' \in 0..MaxFaults
    BY <1>1, <2>1, MaxFaultsNat
  <2> QED BY <1>1, <1>4, <1>5, <2>1, <2>2, <2>3, <2>4 DEF TypeOK, Runners
<1> QED BY <1>6, <1>7

LEMMA TypeStep ==
  ASSUME TypeOK, CallUnderWay, [Next]_vars
  PROVE  TypeOK'
<1>1. CASE UNCHANGED vars
  BY <1>1 DEF TypeOK, vars
<1>2. ASSUME NEW w \in Workflows, NEW pl \in Plans, Call(w, pl) \/ CallRaises(w, pl) PROVE TypeOK'
  BY <1>2, TypeCall
<1>3. CASE Pop
  <2>1. stack # <<>> /\ stack' = Front(stack) /\ UNCHANGED <<log, snapshot, runners, plan, ran, faults>>
        /\ outcome' = IF stack' = <<>> THEN [outcome EXCEPT ![Current] = "returned"] ELSE outcome
    BY <1>3 DEF Pop
  <2>2. stack' \in Seq(Frames)
    BY <2>1, FrontIs
  <2>3. outcome' \in [Workflows -> {"idle", "running", "returned", "raised"}]
    BY <2>1 DEF TypeOK
  <2> QED BY <2>1, <2>2, <2>3 DEF TypeOK, Frames
<1>4. ASSUME NEW i, NEW e, Skip(i, e) PROVE TypeOK'
  <2>1. Handling(i, e) /\ stack' = Rest /\ UNCHANGED <<log, snapshot, runners, plan, outcome, ran, faults>>
    BY <1>4 DEF Skip
  <2>2. stack' \in Seq(Frames)
    BY <2>1, HandlingIs, RestIs DEF Frames
  <2> QED BY <2>1, <2>2 DEF TypeOK, Frames
<1>5. ASSUME NEW i, NEW e, NEW d, Goes(i, e, d) PROVE TypeOK'
  <2>1. Does(i, e, d)
    BY <1>5 DEF Goes
  <2>2. stack' \in Seq(Frames)
    BY <1>5, GoesStack
  <2>3. faults' \in 0..MaxFaults
    BY <1>5, MaxFaultsNat DEF Goes, TypeOK
  <2> QED BY <2>1, <2>2, <2>3, TypeDoes DEF TypeOK, Frames
<1>6. ASSUME NEW i, NEW e, NEW d, Breaks(i, e, d) PROVE TypeOK'
  <2>1. Does(i, e, d) /\ stack' = Rest
    BY <1>6 DEF Breaks
  <2>2. stack' \in Seq(Frames)
    BY <2>1, HandlingIs, RestIs DEF Does, Frames
  <2>3. faults' \in 0..MaxFaults
    BY <1>6, MaxFaultsNat DEF Breaks, TypeOK
  <2> QED BY <2>1, <2>2, <2>3, TypeDoes DEF TypeOK, Frames
<1> QED BY <1>1, <1>2, <1>3, <1>4, <1>5, <1>6, StepCases

-----------------------------------------------------------------------------
(* One call at a time *)

\* The innermost publication is about the running call.
LEMMA CurrentIs ==
  ASSUME TypeOK, CallUnderWay, stack # <<>>
  PROVE  Current \in Workflows /\ outcome[Current] = "running" /\ \A w \in Workflows : outcome[w] = "running" => w = Current
<1>1. Top.event.w \in Workflows /\ outcome[Top.event.w] = "running"
  BY TopIs DEF CallUnderWay
<1>2. Current \in Workflows /\ outcome[Current] = "running"
  BY <1>1 DEF Current
<1> QED BY <1>2 DEF CallUnderWay

\* A step that keeps the outcomes, and every publication but a nonempty end of
\* the stack, keeps the calls under way.
LEMMA SameCall ==
  ASSUME TypeOK, CallUnderWay, stack # <<>>, outcome' = outcome, stack' # <<>>, Len(runners') = Len(runners),
         runners' \in Seq(Runners),
         \A k \in DOMAIN stack' : /\ outcome[stack'[k].event.w] = "running"
                                  /\ stack'[k].todo # <<>> => stack'[k].event.type \in Handled
  PROVE  CallUnderWay'
<1>1. runners \in Seq(Runners) /\ runners # <<>>
  BY DEF TypeOK, Runners, CallUnderWay
<1>2. runners' # <<>>
  BY <1>1
<1> QED BY <1>2 DEF CallUnderWay

LEMMA RestFrames ==
  ASSUME TypeOK, CallUnderWay, NEW i, NEW e, Handling(i, e)
  PROVE  \A k \in 1..Len(stack) : /\ outcome[Rest[k].event.w] = "running"
                                  /\ Rest[k].todo # <<>> => Rest[k].event.type \in Handled
<1>1. stack # <<>> /\ Top.todo # <<>> /\ Top = stack[Len(stack)] /\ DOMAIN stack = 1..Len(stack) /\ Len(stack) \in 1..Len(stack)
  BY HandlingIs, TopIs
<1>2. \A k \in 1..Len(stack) : /\ outcome[stack[k].event.w] = "running"
                               /\ stack[k].todo # <<>> => stack[k].event.type \in Handled
  BY <1>1 DEF CallUnderWay
<1>3. Top.event.type \in Handled /\ outcome[Top.event.w] = "running"
  BY <1>1, <1>2
<1>4. /\ \A k \in 1..Len(stack) : k # Len(stack) => Rest[k] = stack[k]
      /\ Rest[Len(stack)].event = Top.event
  BY <1>1, RestIs
<1> QED BY <1>2, <1>3, <1>4

LEMMA CallStep ==
  ASSUME TypeOK, CallUnderWay, [Next]_vars
  PROVE  CallUnderWay'
<1>1. CASE UNCHANGED vars
  BY <1>1 DEF CallUnderWay, vars
<1>2. ASSUME NEW w \in Workflows, NEW pl \in Plans, Call(w, pl) PROVE CallUnderWay'
  <2> DEFINE f == [event |-> Event("WorkflowStarted", w, TRUE), todo |-> [i \in DOMAIN runners' |-> i]]
  <2>1. stack = <<>> /\ outcome[w] = "idle" /\ stack' = <<f>> /\ outcome' = [outcome EXCEPT ![w] = "running"]
        /\ runners' = Append(runners, NewRunner)
    BY <1>2 DEF Call
  <2>2. f.event.w = w /\ f.event.type \in Handled
    BY DEF Event, Handled
  <2> HIDE DEF f
  <2>3. \A v \in Workflows : outcome[v] # "running"
    BY <2>1 DEF CallUnderWay
  <2>4. outcome \in [Workflows -> {"idle", "running", "returned", "raised"}]
    BY DEF TypeOK
  <2>5. outcome'[w] = "running" /\ \A v \in Workflows : outcome'[v] = "running" => v = w
    BY <2>1, <2>3, <2>4
  <2>6. runners' # <<>>
    <3>1. runners \in Seq(Runners)
      BY DEF TypeOK, Runners
    <3> QED BY <2>1, <3>1
  <2>7. stack' # <<>> /\ \A k \in DOMAIN stack' : stack'[k] = f
    BY <2>1
  <2> QED BY <2>2, <2>5, <2>6, <2>7 DEF CallUnderWay
<1>3. ASSUME NEW w \in Workflows, NEW pl \in Plans, CallRaises(w, pl) PROVE CallUnderWay'
  <2>1. stack = <<>> /\ stack' = <<>> /\ outcome' = [outcome EXCEPT ![w] = "raised"]
    BY <1>3 DEF CallRaises
  <2>2. \A v \in Workflows : outcome[v] # "running"
    BY <2>1 DEF CallUnderWay
  <2>3. \A v \in Workflows : outcome'[v] # "running"
    BY <2>1, <2>2 DEF TypeOK
  <2>4. DOMAIN stack' = {}
    BY <2>1
  <2> QED BY <2>1, <2>3, <2>4 DEF CallUnderWay
<1>4. CASE Pop
  <2>1. stack # <<>> /\ stack' = Front(stack) /\ runners' = runners
        /\ outcome' = IF stack' = <<>> THEN [outcome EXCEPT ![Current] = "returned"] ELSE outcome
    BY <1>4 DEF Pop
  <2>2. /\ Len(stack') = Len(stack) - 1 /\ Len(stack) \in Nat \ {0} /\ stack' \in Seq(Frames)
        /\ \A k \in 1..(Len(stack) - 1) : stack'[k] = stack[k]
    BY <2>1, FrontIs
  <2>3. CASE stack' = <<>>
    <3>1. \A v \in Workflows : outcome'[v] # "running"
      BY <2>1, <2>3, CurrentIs DEF TypeOK
    <3>2. DOMAIN stack' = {}
      BY <2>3
    <3> QED BY <2>3, <3>1, <3>2 DEF CallUnderWay
  <2>4. CASE stack' # <<>>
    <3>1. outcome' = outcome
      BY <2>1, <2>4
    <3>2. \A k \in DOMAIN stack' : k \in 1..(Len(stack) - 1)
      BY <2>2
    <3>3. \A k \in 1..(Len(stack) - 1) : k \in DOMAIN stack
      BY <2>2, TopIs, <2>1
    <3>4. \A k \in DOMAIN stack' : k \in DOMAIN stack /\ stack'[k] = stack[k]
      BY <2>2, <3>2, <3>3
    <3> QED BY <2>1, <2>4, <3>1, <3>4 DEF CallUnderWay
  <2> QED BY <2>3, <2>4
<1>5. ASSUME NEW i, NEW e, Skip(i, e) \/ \E d : Breaks(i, e, d) PROVE CallUnderWay'
  <2>1. Handling(i, e) /\ stack' = Rest /\ outcome' = outcome
    BY <1>5 DEF Skip, Breaks, Does
  <2>2. stack # <<>> /\ Rest # <<>> /\ DOMAIN Rest = 1..Len(stack)
    BY <2>1, HandlingIs, RestIs
  <2>3. Len(runners') = Len(runners) /\ runners' \in Seq(Runners)
    BY <1>5, MarkIs DEF Skip, Breaks, Does, TypeOK, Runners
  <2> QED BY <2>1, <2>2, <2>3, RestFrames, SameCall
<1>6. ASSUME NEW i, NEW e, NEW d, Goes(i, e, d) PROVE CallUnderWay'
  <2> DEFINE g == Last(d.rows)
             n == Len(stack)
  <2>1. Does(i, e, d) /\ Handling(i, e) /\ outcome' = outcome
    BY <1>6 DEF Goes, Does
  <2>2. stack # <<>> /\ n \in Nat /\ outcome[e.w] = "running"
    BY <2>1, HandlingIs, TopIs
  <2>3. g \in Events /\ g.w = e.w /\ Len(stack') = n + 1 /\ stack' # <<>> /\ stack' \in Seq(Frames)
        /\ (\A k \in 1..n : stack'[k] = Rest[k]) /\ stack'[n + 1] = Publication(g)
    BY <1>6, GoesStack
  <2>4. Len(runners') = Len(runners) /\ runners' \in Seq(Runners)
    BY <2>1, MarkIs DEF Does, Runners
  <2>5. Publication(g).event = g /\ (Publication(g).todo # <<>> => g.type \in Handled)
    BY <2>3, PublicationIs
  <2> HIDE DEF g, n
  <2>6. \A k \in DOMAIN stack' : k \in 1..n \/ k = n + 1
    BY <2>2, <2>3
  <2>7. \A k \in DOMAIN stack' : /\ outcome[stack'[k].event.w] = "running"
                                 /\ stack'[k].todo # <<>> => stack'[k].event.type \in Handled
    BY <2>1, <2>2, <2>3, <2>5, <2>6, RestFrames DEF n
  <2> QED BY <2>1, <2>2, <2>3, <2>4, <2>7, SameCall
<1> QED BY <1>1, <1>2, <1>3, <1>4, <1>5, <1>6, StepCases

\* Nobody asks again for a workflow that is no longer idle.
LEMMA NeverIdleAgain ==
  ASSUME TypeOK, CallUnderWay, [Next]_vars, NEW w \in Workflows, outcome[w] # "idle"
  PROVE  outcome'[w] # "idle" /\ plan'[w] = plan[w]
<1>1. CASE UNCHANGED vars
  BY <1>1 DEF vars
<1>2. ASSUME NEW v \in Workflows, NEW pl \in Plans, Call(v, pl) \/ CallRaises(v, pl) PROVE outcome'[w] # "idle" /\ plan'[w] = plan[w]
  BY <1>2 DEF Call, CallRaises, TypeOK
<1>3. CASE Pop
  BY <1>3 DEF Pop, TypeOK
<1>4. ASSUME NEW i, NEW e, Skip(i, e) PROVE outcome'[w] # "idle" /\ plan'[w] = plan[w]
  BY <1>4 DEF Skip
<1>5. ASSUME NEW i, NEW e, NEW d, Does(i, e, d) PROVE outcome'[w] # "idle" /\ plan'[w] = plan[w]
  BY <1>5 DEF Does
<1> QED BY <1>1, <1>2, <1>3, <1>4, <1>5, StepCases DEF Goes, Breaks

\* What a step has added to the log and to the steps run.
LEMMA Added ==
  ASSUME TypeOK, CallUnderWay, [Next]_vars
  PROVE  \/ log' = log /\ ran' = ran /\ snapshot' = snapshot
         \/ \E w \in Workflows : /\ outcome'[w] = "running" /\ log' = Append(log, Event("WorkflowStarted", w, TRUE))
                                 /\ ran' = ran /\ snapshot' = snapshot
         \/ \E i, e, d : Does(i, e, d) /\ outcome'[e.w] = "running"
<1>1. CASE UNCHANGED vars
  BY <1>1 DEF vars
<1>2. ASSUME NEW w \in Workflows, NEW pl \in Plans, Call(w, pl)
      PROVE  outcome'[w] = "running" /\ log' = Append(log, Event("WorkflowStarted", w, TRUE)) /\ ran' = ran /\ snapshot' = snapshot
  BY <1>2 DEF Call, TypeOK
<1>3. ASSUME NEW w \in Workflows, NEW pl \in Plans, CallRaises(w, pl) PROVE log' = log /\ ran' = ran /\ snapshot' = snapshot
  BY <1>3 DEF CallRaises
<1>4. CASE Pop
  BY <1>4 DEF Pop
<1>5. ASSUME NEW i, NEW e, Skip(i, e) PROVE log' = log /\ ran' = ran /\ snapshot' = snapshot
  BY <1>5 DEF Skip
<1>6. ASSUME NEW i, NEW e, NEW d, Does(i, e, d) PROVE outcome'[e.w] = "running"
  <2>1. Handling(i, e) /\ outcome' = outcome
    BY <1>6 DEF Does
  <2> QED BY <2>1, HandlingIs
<1> QED BY <1>1, <1>2, <1>3, <1>4, <1>5, <1>6, StepCases DEF Goes, Breaks

-----------------------------------------------------------------------------
(* A pass is earned *)

\* A row of the longer log is an old one or one of the new ones, and so is a step run.
LEMMA LongerLog ==
  ASSUME TypeOK, NEW i, NEW e, NEW d, Does(i, e, d)
  PROVE  LET rows == d.rows IN
         /\ Len(log) \in Nat /\ Len(rows) \in Nat /\ Len(log') = Len(log) + Len(rows)
         /\ DOMAIN log = 1..Len(log) /\ DOMAIN rows = 1..Len(rows) /\ DOMAIN log' = 1..(Len(log) + Len(rows))
         /\ \A k \in DOMAIN log : k \in DOMAIN log' /\ log'[k] = log[k]
         /\ \A k \in DOMAIN rows : Len(log) + k \in DOMAIN log' /\ log'[Len(log) + k] = rows[k]
         /\ \A k \in DOMAIN log' : k \in DOMAIN log \/ \E j \in DOMAIN rows : k = Len(log) + j /\ log'[k] = rows[j]
<1> DEFINE rows == d.rows
<1>1. log \in Seq(Events) /\ rows \in Seq(Events) /\ log' = log \o rows
  BY DEF TypeOK, Does
<1> HIDE DEF rows
<1>2. /\ Len(log) \in Nat /\ Len(rows) \in Nat /\ Len(log') = Len(log) + Len(rows)
      /\ DOMAIN log = 1..Len(log) /\ DOMAIN rows = 1..Len(rows) /\ DOMAIN log' = 1..(Len(log) + Len(rows))
  BY <1>1
<1>3. \A k \in DOMAIN log : k \in DOMAIN log' /\ log'[k] = log[k]
  BY <1>1, <1>2
<1>4. \A k \in DOMAIN rows : Len(log) + k \in DOMAIN log' /\ log'[Len(log) + k] = rows[k]
  BY <1>1, <1>2
<1>5. ASSUME NEW k \in DOMAIN log', k \notin DOMAIN log PROVE \E j \in DOMAIN rows : k = Len(log) + j /\ log'[k] = rows[j]
  <2>1. k - Len(log) \in DOMAIN rows /\ k = Len(log) + (k - Len(log))
    BY <1>2, <1>5
  <2> QED BY <1>4, <2>1
<1> QED BY <1>2, <1>3, <1>4, <1>5 DEF rows

LEMMA LongerRan ==
  ASSUME TypeOK, NEW i, NEW e, NEW d, Does(i, e, d)
  PROVE  LET runs == d.runs IN
         /\ \A k \in DOMAIN ran : ran'[k] = ran[k]
         /\ \A k \in DOMAIN ran' : k \in DOMAIN ran \/ \E j \in DOMAIN runs : ran'[k] = runs[j]
<1> DEFINE runs == d.runs
<1>1. ran \in Seq(StepRuns) /\ runs \in Seq(StepRuns) /\ ran' = ran \o runs
  BY DEF TypeOK, Does
<1> HIDE DEF runs
<1>2. /\ Len(ran) \in Nat /\ Len(runs) \in Nat
      /\ DOMAIN ran = 1..Len(ran) /\ DOMAIN runs = 1..Len(runs) /\ DOMAIN ran' = 1..(Len(ran) + Len(runs))
  BY <1>1
<1>3. \A k \in DOMAIN ran : ran'[k] = ran[k]
  BY <1>1, <1>2
<1>4. ASSUME NEW k \in DOMAIN ran', k \notin DOMAIN ran PROVE \E j \in DOMAIN runs : ran'[k] = runs[j]
  <2>1. k - Len(ran) \in DOMAIN runs /\ ran'[k] = runs[k - Len(ran)]
    BY <1>1, <1>2, <1>4
  <2> QED BY <2>1
<1> QED BY <1>3, <1>4 DEF runs

\* The steps of a firing are of its call, and a refresh is only among them
\* after a row that says that the gate has passed.
LEMMA RunsAreOf ==
  ASSUME NEW w, NEW type, NEW rows, NEW runs, RunsFine(w, type, rows, runs), NEW l \in DOMAIN runs
  PROVE  /\ runs[l].w = w
         /\ runs[l].step = "refresh" => \E j \in DOMAIN rows : rows[j] = PassRow(w)
<1>1. \A step, p : StepRun(step, w, p).w = w /\ StepRun(step, w, p).step = step
  BY DEF StepRun
<1>2. runs # <<>>
  OBVIOUS
<1>3. ASSUME NEW step \in Steps \ {"refresh"}, NEW p \in Personas, runs = <<StepRun(step, w, p)>>
      PROVE  runs[l].w = w /\ runs[l].step # "refresh"
  <2> DEFINE r == StepRun(step, w, p)
  <2>1. r.w = w /\ r.step # "refresh" /\ runs = <<r>>
    BY <1>1, <1>3
  <2> HIDE DEF r
  <2>2. runs[l] = r
    BY <2>1
  <2> QED BY <2>1, <2>2
<1>4. ASSUME NEW p \in Personas, runs = <<StepRun("gate", w, p), StepRun("refresh", w, p)>>
      PROVE  runs[l].w = w
  <2> DEFINE r == StepRun("gate", w, p)
             r2 == StepRun("refresh", w, p)
  <2>1. r.w = w /\ r2.w = w /\ runs = <<r, r2>>
    BY <1>1, <1>4
  <2> HIDE DEF r, r2
  <2>2. runs[l] = r \/ runs[l] = r2
    BY <2>1
  <2> QED BY <2>1, <2>2
<1> QED BY <1>2, <1>3, <1>4 DEF RunsFine

LEMMA OfCallsStep ==
  ASSUME TypeOK, CallUnderWay, OfCalls, [Next]_vars
  PROVE  OfCalls'
<1>1. log \in Seq(Events) /\ ran \in Seq(StepRuns)
  BY DEF TypeOK
<1>2. \A i \in DOMAIN log : log[i].w \in Workflows /\ outcome'[log[i].w] # "idle"
  <2>1. \A i \in DOMAIN log : log[i] \in Events
    BY <1>1
  <2>2. \A i \in DOMAIN log : log[i].w \in Workflows
    BY <2>1 DEF Events
  <2> QED BY <2>2, NeverIdleAgain DEF OfCalls
<1>3. \A i \in DOMAIN ran : outcome'[ran[i].w] # "idle"
  <2>1. \A i \in DOMAIN ran : ran[i] \in StepRuns
    BY <1>1
  <2>2. \A i \in DOMAIN ran : ran[i].w \in Workflows
    BY <2>1 DEF StepRuns
  <2> QED BY <2>2, NeverIdleAgain DEF OfCalls
<1>4. CASE log' = log /\ ran' = ran
  BY <1>2, <1>3, <1>4 DEF OfCalls
<1>5. ASSUME NEW w \in Workflows, outcome'[w] = "running", log' = Append(log, Event("WorkflowStarted", w, TRUE)), ran' = ran
      PROVE  OfCalls'
  <2> DEFINE new == Event("WorkflowStarted", w, TRUE)
  <2>1. new.w = w /\ new \in Events
    BY EventType DEF Event, Types
  <2>2. log' = Append(log, new)
    BY <1>5
  <2> HIDE DEF new
  <2>3. \A i \in DOMAIN log' : log'[i] = new \/ (i \in DOMAIN log /\ log'[i] = log[i])
    BY <1>1, <2>1, <2>2
  <2> QED BY <1>2, <1>3, <1>5, <2>1, <2>3 DEF OfCalls
<1>6. ASSUME NEW i, NEW e, NEW d, Does(i, e, d), outcome'[e.w] = "running" PROVE OfCalls'
  <2>1. d.rows \in Seq(Events) /\ d.runs \in Seq(StepRuns) /\ log' = log \o d.rows /\ ran' = ran \o d.runs
        /\ RowsFine(e.w, d.rows, d.saved) /\ RunsFine(e.w, e.type, d.rows, d.runs)
    BY <1>6 DEF Does, Fine
  <2>2. \A j \in DOMAIN d.rows : d.rows[j].w = e.w
    BY <2>1 DEF RowsFine
  <2>3. \A j \in DOMAIN d.runs : d.runs[j].w = e.w
    BY <2>1, RunsAreOf
  <2>4. \A k \in DOMAIN log' : outcome'[log'[k].w] # "idle"
    BY <1>2, <1>6, <2>2, LongerLog
  <2>5. \A k \in DOMAIN ran' : outcome'[ran'[k].w] # "idle"
    BY <1>3, <1>6, <2>3, LongerRan
  <2> QED BY <2>4, <2>5 DEF OfCalls
<1> QED BY <1>4, <1>5, <1>6, Added

LEMMA HonestStep ==
  ASSUME TypeOK, CallUnderWay, OfCalls, GateIsHonest, [Next]_vars
  PROVE  GateIsHonest'
<1>1. log \in Seq(Events) /\ ran \in Seq(StepRuns) /\ DOMAIN log = 1..Len(log) /\ Len(log) \in Nat
  BY DEF TypeOK
<1>2. \A i \in DOMAIN log : plan'[log[i].w] = plan[log[i].w]
  <2>1. \A i \in DOMAIN log : log[i] \in Events
    BY <1>1
  <2>2. \A i \in DOMAIN log : log[i].w \in Workflows
    BY <2>1 DEF Events
  <2> QED BY <2>2, NeverIdleAgain DEF OfCalls
<1>3. /\ \A i \in DOMAIN log : log[i].type = "GateCompleted" /\ log[i].ok /\ plan'[log[i].w].workspace =>
            \E j \in 1..(i - 1) : log[j] = PassRow(log[i].w)
      /\ \A i \in DOMAIN ran : ran[i].step = "refresh" => \E j \in DOMAIN log : log[j] = PassRow(ran[i].w)
  BY <1>1, <1>2 DEF GateIsHonest, Has, Contains, PassRow
<1>4. SUFFICES
        /\ \A i \in DOMAIN log' : log'[i].type = "GateCompleted" /\ log'[i].ok /\ plan'[log'[i].w].workspace =>
              \E j \in 1..(i - 1) : log'[j] = PassRow(log'[i].w)
        /\ \A i \in DOMAIN ran' : ran'[i].step = "refresh" => \E j \in DOMAIN log' : log'[j] = PassRow(ran'[i].w)
  <2>1. DOMAIN log' = 1..Len(log')
    BY TypeStep DEF TypeOK
  <2> QED BY <2>1 DEF GateIsHonest, Has, Contains, PassRow
<1>5. CASE log' = log /\ ran' = ran
  BY <1>3, <1>5
<1>6. ASSUME NEW w \in Workflows, log' = Append(log, Event("WorkflowStarted", w, TRUE)), ran' = ran
      PROVE  /\ \A i \in DOMAIN log' : log'[i].type = "GateCompleted" /\ log'[i].ok /\ plan'[log'[i].w].workspace =>
                   \E j \in 1..(i - 1) : log'[j] = PassRow(log'[i].w)
             /\ \A i \in DOMAIN ran' : ran'[i].step = "refresh" => \E j \in DOMAIN log' : log'[j] = PassRow(ran'[i].w)
  <2> DEFINE new == Event("WorkflowStarted", w, TRUE)
  <2>1. new.type # "GateCompleted" /\ new \in Events
    BY EventType DEF Event, Types
  <2>2. log' = Append(log, new)
    BY <1>6
  <2> HIDE DEF new
  <2>3. /\ \A i \in DOMAIN log' : log'[i] = new \/ i \in DOMAIN log
        /\ \A i \in DOMAIN log : i \in DOMAIN log' /\ log'[i] = log[i] /\ \A j \in 1..(i - 1) : j \in DOMAIN log /\ log'[j] = log[j]
    BY <1>1, <2>1, <2>2
  <2>4. ASSUME NEW i \in DOMAIN log', log'[i].type = "GateCompleted", log'[i].ok, plan'[log'[i].w].workspace
        PROVE  \E j \in 1..(i - 1) : log'[j] = PassRow(log'[i].w)
    <3>1. i \in DOMAIN log /\ log'[i] = log[i]
      BY <2>1, <2>3, <2>4
    <3>2. PICK j \in 1..(i - 1) : log[j] = PassRow(log[i].w)
      BY <1>3, <2>4, <3>1
    <3> QED BY <2>3, <3>1, <3>2
  <2>5. ASSUME NEW i \in DOMAIN ran', ran'[i].step = "refresh" PROVE \E j \in DOMAIN log' : log'[j] = PassRow(ran'[i].w)
    BY <1>3, <1>6, <2>3, <2>5
  <2> QED BY <2>4, <2>5
<1>7. ASSUME NEW i, NEW e, NEW d, Does(i, e, d)
      PROVE  /\ \A k \in DOMAIN log' : log'[k].type = "GateCompleted" /\ log'[k].ok /\ plan'[log'[k].w].workspace =>
                   \E j \in 1..(k - 1) : log'[j] = PassRow(log'[k].w)
             /\ \A k \in DOMAIN ran' : ran'[k].step = "refresh" => \E j \in DOMAIN log' : log'[j] = PassRow(ran'[k].w)
  <2>1. d.rows \in Seq(Events) /\ d.runs \in Seq(StepRuns) /\ log' = log \o d.rows /\ ran' = ran \o d.runs
        /\ RowsFine(e.w, d.rows, d.saved) /\ RunsFine(e.w, e.type, d.rows, d.runs) /\ plan' = plan
    BY <1>7 DEF Does, Fine
  <2> DEFINE n == Len(log)
             m == Len(d.rows)
  <2>2. /\ n \in Nat /\ m \in Nat /\ DOMAIN log = 1..n /\ DOMAIN d.rows = 1..m
        /\ \A k \in DOMAIN log : k \in DOMAIN log' /\ log'[k] = log[k]
        /\ \A k \in DOMAIN d.rows : n + k \in DOMAIN log' /\ log'[n + k] = d.rows[k]
        /\ \A k \in DOMAIN log' : k \in DOMAIN log \/ \E j \in DOMAIN d.rows : k = n + j
    BY <1>7, LongerLog
  <2> HIDE DEF n, m
  <2>3. ASSUME NEW k \in DOMAIN log', log'[k].type = "GateCompleted", log'[k].ok, plan'[log'[k].w].workspace
        PROVE  \E j \in 1..(k - 1) : log'[j] = PassRow(log'[k].w)
    <3>1. CASE k \in DOMAIN log
      <4>1. PICK j \in 1..(k - 1) : log[j] = PassRow(log[k].w)
        BY <1>3, <2>2, <2>3, <3>1
      <4>2. j \in DOMAIN log
        BY <2>2, <3>1
      <4> QED BY <2>2, <3>1, <4>1, <4>2
    <3>2. CASE k \notin DOMAIN log
      <4>1. PICK l \in DOMAIN d.rows : k = n + l
        BY <2>2, <3>2
      <4>2. log'[k] = d.rows[l] /\ d.rows[l].w = e.w
        BY <2>1, <2>2, <4>1 DEF RowsFine
      <4>3. PICK j \in 1..(l - 1) : d.rows[j] = PassRow(e.w)
        BY <2>1, <2>3, <4>2 DEF RowsFine
      <4>4. j \in DOMAIN d.rows /\ n + j \in 1..(k - 1)
        BY <2>2, <4>1, <4>3
      <4> QED BY <2>2, <4>2, <4>3, <4>4
    <3> QED BY <3>1, <3>2
  <2>4. ASSUME NEW k \in DOMAIN ran', ran'[k].step = "refresh"
        PROVE  \E j \in DOMAIN log' : log'[j] = PassRow(ran'[k].w)
    <3>1. CASE k \in DOMAIN ran
      <4>1. ran'[k] = ran[k]
        BY <1>7, <3>1, LongerRan
      <4> QED BY <1>3, <2>2, <2>4, <3>1, <4>1
    <3>2. CASE k \notin DOMAIN ran
      <4>1. \E l \in DOMAIN d.runs : ran'[k] = d.runs[l]
        BY <1>7, <3>2, LongerRan
      <4>2. ran'[k].w = e.w /\ \E j \in DOMAIN d.rows : d.rows[j] = PassRow(e.w)
        BY <2>1, <2>4, <4>1, RunsAreOf
      <4> QED BY <2>2, <4>2
    <3> QED BY <3>1, <3>2
  <2> QED BY <2>3, <2>4
<1> QED BY <1>5, <1>6, <1>7, Added

LEMMA SnapshotStep ==
  ASSUME TypeOK, CallUnderWay, SnapshotFollowsLog, [Next]_vars
  PROVE  SnapshotFollowsLog'
<1>1. log \in Seq(Events) /\ DOMAIN log = 1..Len(log) /\ Len(log) \in Nat
  BY DEF TypeOK
<1>2. CASE log' = log /\ snapshot' = snapshot
  BY <1>2 DEF SnapshotFollowsLog
<1>3. ASSUME NEW w \in Workflows, log' = Append(log, Event("WorkflowStarted", w, TRUE)), snapshot' = snapshot
      PROVE  SnapshotFollowsLog'
  <2> DEFINE new == Event("WorkflowStarted", w, TRUE)
  <2>1. new.type # "ContextWarmed" /\ new \in Events
    BY EventType DEF Event, Types
  <2>2. log' = Append(log, new)
    BY <1>3
  <2> HIDE DEF new
  <2>3. /\ Len(log') = Len(log) + 1 /\ DOMAIN log' = 1..(Len(log) + 1) /\ log'[Len(log) + 1] = new
        /\ \A i \in DOMAIN log : i \in DOMAIN log' /\ log'[i] = log[i]
    BY <1>1, <2>1, <2>2
  <2>4. ASSUME snapshot' = "gate"
        PROVE  \E i \in DOMAIN log' : log'[i].type = "GatePassed" /\ \A j \in (i + 1)..Len(log') : log'[j].type # "ContextWarmed"
    <3>1. PICK i \in DOMAIN log : log[i].type = "GatePassed" /\ \A j \in (i + 1)..Len(log) : log[j].type # "ContextWarmed"
      BY <1>3, <2>4 DEF SnapshotFollowsLog
    <3>2. ASSUME NEW j \in (i + 1)..Len(log') PROVE log'[j].type # "ContextWarmed"
      <4>1. j = Len(log) + 1 \/ (j \in (i + 1)..Len(log) /\ j \in DOMAIN log)
        BY <1>1, <2>3
      <4> QED BY <2>1, <2>3, <3>1, <4>1
    <3> QED BY <2>3, <3>1, <3>2
  <2> QED BY <2>4 DEF SnapshotFollowsLog
<1>4. ASSUME NEW i, NEW e, NEW d, Does(i, e, d) PROVE SnapshotFollowsLog'
  <2>1. d.rows \in Seq(Events) /\ log' = log \o d.rows /\ RowsFine(e.w, d.rows, d.saved) /\ d.saved \in Saved
        /\ snapshot' = IF d.saved = "none" THEN snapshot ELSE d.saved
    BY <1>4 DEF Does, Fine
  <2> DEFINE n == Len(log)
             m == Len(d.rows)
  <2>2. /\ n \in Nat /\ m \in Nat /\ DOMAIN log = 1..n /\ DOMAIN d.rows = 1..m /\ Len(log') = n + m
        /\ \A k \in DOMAIN log : k \in DOMAIN log' /\ log'[k] = log[k]
        /\ \A k \in DOMAIN d.rows : n + k \in DOMAIN log' /\ log'[n + k] = d.rows[k]
        /\ \A k \in DOMAIN log' : k \in DOMAIN log \/ \E j \in DOMAIN d.rows : k = n + j
        /\ DOMAIN log' = 1..(n + m)
    BY <1>4, LongerLog
  <2> HIDE DEF n, m
  <2>3. CASE snapshot' = "gate" /\ d.saved = "gate"
    <3>1. PICK i1 \in DOMAIN d.rows : d.rows[i1] = PassRow(e.w) /\ \A j \in (i1 + 1)..Len(d.rows) : d.rows[j].type # "ContextWarmed"
      BY <2>1, <2>3 DEF RowsFine
    <3>2. ASSUME NEW j \in (n + i1 + 1)..Len(log') PROVE log'[j].type # "ContextWarmed"
      <4>1. j - n \in (i1 + 1)..m /\ j - n \in DOMAIN d.rows /\ n + (j - n) = j
        BY <2>2
      <4>2. log'[j] = d.rows[j - n]
        BY <2>2, <4>1
      <4> QED BY <3>1, <4>1, <4>2 DEF m
    <3>3. log'[n + i1].type = "GatePassed" /\ n + i1 \in DOMAIN log'
      BY <2>2, <3>1 DEF PassRow, Event
    <3> QED BY <3>2, <3>3 DEF SnapshotFollowsLog
  <2>4. CASE snapshot' = "gate" /\ d.saved = "none"
    <3>1. PICK i1 \in DOMAIN log : log[i1].type = "GatePassed" /\ \A j \in (i1 + 1)..Len(log) : log[j].type # "ContextWarmed"
      BY <2>1, <2>4 DEF SnapshotFollowsLog
    <3>2. ASSUME NEW j \in (i1 + 1)..Len(log') PROVE log'[j].type # "ContextWarmed"
      <4>1. CASE j \in DOMAIN log
        <5>1. j \in (i1 + 1)..Len(log)
          BY <2>2, <4>1 DEF n
        <5> QED BY <2>2, <3>1, <4>1, <5>1
      <4>2. CASE j \notin DOMAIN log
        <5>1. j \in DOMAIN log'
          BY <2>2
        <5>2. PICK l \in DOMAIN d.rows : j = n + l
          BY <2>2, <4>2, <5>1
        <5> QED BY <2>1, <2>2, <2>4, <5>2 DEF RowsFine
      <4> QED BY <4>1, <4>2
    <3>3. log'[i1].type = "GatePassed" /\ i1 \in DOMAIN log'
      BY <2>2, <3>1
    <3> QED BY <3>2, <3>3 DEF SnapshotFollowsLog
  <2>5. CASE snapshot' # "gate"
    BY <2>5 DEF SnapshotFollowsLog
  <2> QED BY <2>1, <2>3, <2>4, <2>5 DEF Saved
<1> QED BY <1>2, <1>3, <1>4, Added

\* What the other parts of the invariant stand on.
Ground == TypeOK /\ CallUnderWay /\ OfCalls

LEMMA GroundInit == Init => Ground
<1> SUFFICES ASSUME Init PROVE Ground
  OBVIOUS
<1>1. <<>> \in Seq(Events) /\ <<>> \in Seq(StepRuns) /\ <<>> \in Seq([fired : SUBSET Handled, persona : Personas])
      /\ <<>> \in Seq([event : Events, todo : Seq(DOMAIN runners)]) /\ DOMAIN <<>> = {}
  OBVIOUS
<1>2. TypeOK
  BY <1>1, MaxFaultsNat DEF Init, TypeOK
<1>3. CallUnderWay /\ OfCalls
  BY <1>1 DEF Init, CallUnderWay, OfCalls
<1> QED BY <1>2, <1>3 DEF Ground

LEMMA GroundStep == Ground /\ [Next]_vars => Ground'
BY TypeStep, CallStep, OfCallsStep DEF Ground

\* Whoever reads that a gate has passed may believe it, whatever raised on the
\* way: the event, the refresh and the snapshot all come after the row.
THEOREM PassIsAlwaysEarned == Spec => []PassIsEarned
<1> DEFINE I == Ground /\ GateIsHonest /\ SnapshotFollowsLog
<1>1. Init => I
  <2>1. Init => GateIsHonest /\ SnapshotFollowsLog
    BY DEF Init, GateIsHonest, SnapshotFollowsLog
  <2> QED BY <2>1, GroundInit
<1>2. I /\ [Next]_vars => I'
  BY GroundStep, HonestStep, SnapshotStep DEF Ground
<1>3. I => PassIsEarned
  BY DEF Ground, PassIsEarned
<1> QED BY <1>1, <1>2, <1>3, PTL DEF Spec

-----------------------------------------------------------------------------
(* Steps repeat once per failure *)

\* A step is run by runners that have not handled its event before: those left
\* over, one per failure, and the call's own.
RepeatsLeft ==
    \A w \in Workflows, step \in Steps :
        /\ Times(step, w) <= 1 + faults
        /\ outcome[w] = "running" => Times(step, w) + Cardinality(Lacking(HandlerOf[step])) <= 1 + faults

\* There are as many left over as there were failures, or the event is on its
\* way to all that lack it.
Slack == \A type \in Handled : Cardinality(Lacking(type)) <= faults
Covered(type) ==
    \/ Lacking(type) = {}
    \/ \E k \in DOMAIN stack : stack[k].event.type = type /\ Lacking(type) \subseteq Range(stack[k].todo)

LeftOver ==
    \/ Slack
    \/ /\ stack # <<>> /\ Covered("WorkflowStarted")
       /\ HasFired("WorkflowStarted") => Covered("ProbeCompleted")
       /\ HasFired("ProbeCompleted") => Covered("ExecutionCompleted")

LEMMA LackingFinite == ASSUME TypeOK, NEW type PROVE IsFiniteSet(Lacking(type)) /\ Cardinality(Lacking(type)) \in Nat
<1>1. DOMAIN runners = 1..Len(runners) /\ Len(runners) \in Nat
  BY DEF TypeOK
<1>2. IsFiniteSet(1..Len(runners))
  BY <1>1, FS_Interval
<1>3. Lacking(type) \subseteq 1..Len(runners)
  BY <1>1 DEF Lacking
<1>4. IsFiniteSet(Lacking(type))
  BY <1>2, <1>3, FS_Subset
<1> QED BY <1>4, FS_CardinalityType

LEMMA LackingDoes ==
  ASSUME TypeOK, NEW i, NEW e, NEW d, Does(i, e, d), NEW type \in Handled
  PROVE  /\ i \in Lacking(e.type) /\ Lacking(type)' = (IF type = e.type THEN Lacking(type) \ {i} ELSE Lacking(type))
         /\ Lacking(type)' \subseteq Lacking(type)
         /\ Cardinality(Lacking(type)') <= Cardinality(Lacking(type))
         /\ type = e.type => Cardinality(Lacking(type)') = Cardinality(Lacking(type)) - 1
<1>1. i \in DOMAIN runners /\ e \in Events /\ e.type \in Handled /\ e.type \notin runners[i].fired /\ Mark(i, e)
  BY DEF Does
<1>2. i \in Lacking(e.type)
  BY <1>1 DEF Lacking
<1>3. /\ DOMAIN runners' = DOMAIN runners /\ runners'[i].fired = runners[i].fired \cup {e.type}
      /\ \A j \in DOMAIN runners : j # i => runners'[j] = runners[j]
  BY <1>1, MarkIs
<1>4. Lacking(type)' = IF type = e.type THEN Lacking(type) \ {i} ELSE Lacking(type)
  BY <1>1, <1>3 DEF Lacking
<1>5. IsFiniteSet(Lacking(type)) /\ Cardinality(Lacking(type)) \in Nat
  BY LackingFinite
<1>6. type = e.type => Cardinality(Lacking(type)') = Cardinality(Lacking(type)) - 1
  BY <1>2, <1>4, <1>5, FS_RemoveElement
<1>7. Cardinality(Lacking(type)') <= Cardinality(Lacking(type))
  BY <1>4, <1>5, <1>6
<1> QED BY <1>2, <1>4, <1>6, <1>7

LEMMA LackingSame == ASSUME NEW type, runners' = runners PROVE Lacking(type)' = Lacking(type)
BY DEF Lacking

\* A call's own runner lacks everything.
LEMMA LackingCall ==
  ASSUME TypeOK, NEW type \in Handled, runners' = Append(runners, NewRunner)
  PROVE  /\ Lacking(type)' = Lacking(type) \cup {Len(runners) + 1}
         /\ Cardinality(Lacking(type)') = Cardinality(Lacking(type)) + 1
<1>1. runners \in Seq(Runners) /\ Len(runners) \in Nat /\ DOMAIN runners = 1..Len(runners)
  BY DEF TypeOK, Runners
<1>2. DOMAIN runners' = 1..(Len(runners) + 1) /\ runners'[Len(runners) + 1] = NewRunner
      /\ \A j \in DOMAIN runners : runners'[j] = runners[j]
  BY <1>1
<1>3. type \notin NewRunner.fired
  BY DEF NewRunner
<1>4. Lacking(type)' = Lacking(type) \cup {Len(runners) + 1}
  BY <1>1, <1>2, <1>3 DEF Lacking
<1>5. Len(runners) + 1 \notin Lacking(type)
  BY <1>1 DEF Lacking
<1>6. IsFiniteSet(Lacking(type)) /\ Cardinality(Lacking(type)) \in Nat
  BY LackingFinite
<1> QED BY <1>4, <1>5, <1>6, FS_AddElement

\* How much a step run counts.
Weight(step, w) == [r \in StepRuns |-> IF r.step = step /\ r.w = w THEN 1 ELSE 0]

LEMMA WeightType == ASSUME NEW step, NEW w PROVE Weight(step, w) \in [StepRuns -> Nat]
BY DEF Weight

LEMMA TimesType == ASSUME TypeOK, NEW step, NEW w PROVE Times(step, w) \in Nat /\ Times(step, w) = Sum(Weight(step, w), ran)
<1>1. ran \in Seq(StepRuns)
  BY DEF TypeOK
<1> QED BY <1>1, WeightType, SumType DEF Times, Weight

LEMMA SumOne ==
  ASSUME NEW E, NEW weight \in [E -> Nat], NEW a \in E
  PROVE  Sum(weight, <<a>>) = weight[a]
<1>1. <<>> \in Seq(E) /\ Append(<<>>, a) = <<a>>
  BY Tuple1
<1>2. Sum(weight, Append(<<>>, a)) = Sum(weight, <<>>) + weight[a]
  BY <1>1, SumAppend
<1>3. Sum(weight, <<>>) = 0 /\ weight[a] \in Nat
  BY SumEmpty
<1> QED BY <1>1, <1>2, <1>3

LEMMA SumTwo ==
  ASSUME NEW E, NEW weight \in [E -> Nat], NEW a \in E, NEW b \in E
  PROVE  Sum(weight, <<a, b>>) = weight[a] + weight[b]
<1>1. <<a>> \in Seq(E) /\ Append(<<a>>, b) = <<a, b>>
  BY Tuple2
<1>2. Sum(weight, Append(<<a>>, b)) = Sum(weight, <<a>>) + weight[b]
  BY <1>1, SumAppend
<1> QED BY <1>1, <1>2, SumOne

\* One firing runs a step at most once, and only its own steps, for its own call.
LEMMA TimesDoes ==
  ASSUME TypeOK, NEW i, NEW e, NEW d, Does(i, e, d), NEW step \in Steps, NEW w \in Workflows
  PROVE  /\ Times(step, w)' \in Nat
         /\ Times(step, w)' <= Times(step, w) + 1
         /\ (w # e.w \/ HandlerOf[step] # e.type) => Times(step, w)' = Times(step, w)
<1> DEFINE W == Weight(step, w)
           runs == d.runs
           more == Sum(W, runs)
<1>1. ran \in Seq(StepRuns) /\ runs \in Seq(StepRuns) /\ ran' = ran \o runs /\ RunsFine(e.w, e.type, d.rows, runs)
  BY DEF TypeOK, Does, Fine
<1>2. W \in [StepRuns -> Nat]
  BY WeightType
<1>3. Times(step, w)' = Sum(W, ran')
  BY DEF Times, Weight
<1>4. Times(step, w) \in Nat /\ Times(step, w) = Sum(W, ran)
  BY TimesType
<1> HIDE DEF W, runs
<1>5. Sum(W, ran') = Sum(W, ran) + more
  BY <1>1, <1>2, SumConcat
<1>6. more \in {0, 1} /\ ((w # e.w \/ HandlerOf[step] # e.type) => more = 0)
  <2>1. CASE runs = <<>>
    BY <2>1, SumEmpty
  <2>2. ASSUME NEW s \in Steps \ {"refresh"}, NEW p \in Personas, HandlerOf[s] = e.type, runs = <<StepRun(s, e.w, p)>>
        PROVE  more \in {0, 1} /\ ((w # e.w \/ HandlerOf[step] # e.type) => more = 0)
    <3> DEFINE r == StepRun(s, e.w, p)
    <3>1. r.step = s /\ r.w = e.w
      BY DEF StepRun
    <3>2. runs = <<r>>
      BY <2>2
    <3> HIDE DEF r
    <3>3. runs[1] = r /\ 1 \in DOMAIN runs
      BY <3>2
    <3>4. r \in StepRuns
      BY <1>1, <3>3
    <3>5. more = W[r]
      BY <1>2, <3>2, <3>4, SumOne
    <3>6. W[r] = IF s = step /\ e.w = w THEN 1 ELSE 0
      BY <3>1, <3>4 DEF W, Weight
    <3> QED BY <2>2, <3>5, <3>6
  <2>3. ASSUME NEW p \in Personas, e.type = "ExecutionCompleted",
               runs = <<StepRun("gate", e.w, p), StepRun("refresh", e.w, p)>>
        PROVE  more \in {0, 1} /\ ((w # e.w \/ HandlerOf[step] # e.type) => more = 0)
    <3> DEFINE r == StepRun("gate", e.w, p)
               r2 == StepRun("refresh", e.w, p)
    <3>1. r.step = "gate" /\ r.w = e.w /\ r2.step = "refresh" /\ r2.w = e.w
      BY DEF StepRun
    <3>2. runs = <<r, r2>>
      BY <2>3
    <3> HIDE DEF r, r2
    <3>3. runs[1] = r /\ 1 \in DOMAIN runs /\ runs[2] = r2 /\ 2 \in DOMAIN runs
      BY <3>2
    <3>4. r \in StepRuns /\ r2 \in StepRuns
      BY <1>1, <3>3
    <3>5. more = W[r] + W[r2]
      BY <1>2, <3>2, <3>4, SumTwo
    <3>6. /\ W[r] = IF step = "gate" /\ e.w = w THEN 1 ELSE 0
          /\ W[r2] = IF step = "refresh" /\ e.w = w THEN 1 ELSE 0
      BY <3>1, <3>4 DEF W, Weight
    <3>7. HandlerOf["gate"] = e.type /\ HandlerOf["refresh"] = e.type
      BY <2>3 DEF HandlerOf
    <3> QED BY <3>5, <3>6, <3>7
  <2> QED BY <1>1, <2>1, <2>2, <2>3 DEF RunsFine
<1> HIDE DEF more
<1> QED BY <1>3, <1>4, <1>5, <1>6

\* Nothing was run for a workflow that nobody has asked for.
LEMMA TimesIdle ==
  ASSUME TypeOK, OfCalls, NEW w \in Workflows, outcome[w] = "idle", NEW step
  PROVE  Times(step, w) = 0
<1>1. ran \in Seq(StepRuns) /\ DOMAIN ran = 1..Len(ran)
  BY DEF TypeOK
<1>2. \A i \in DOMAIN ran : ran[i] \in StepRuns /\ ran[i].w # w
  BY <1>1 DEF OfCalls
<1>3. \A i \in 1..Len(ran) : Weight(step, w)[ran[i]] = 0
  BY <1>1, <1>2 DEF Weight
<1> QED BY <1>1, <1>3, WeightType, SumZero, TimesType

LEMMA HandlerOfIs == /\ \A step \in Steps : HandlerOf[step] \in Handled
                     /\ \A type \in Handled : \E step \in Steps : HandlerOf[step] = type
<1>1. /\ HandlerOf["probe"] = "WorkflowStarted" /\ HandlerOf["execution"] = "ProbeCompleted"
      /\ HandlerOf["gate"] = "ExecutionCompleted" /\ HandlerOf["refresh"] = "ExecutionCompleted"
  BY DEF HandlerOf
<1> QED BY <1>1 DEF Steps, Handled

LEMMA RepeatsStep ==
  ASSUME Ground, RepeatsLeft, LeftOver, [Next]_vars
  PROVE  RepeatsLeft'
<1> USE DEF Ground
<1>1. faults \in Nat /\ MaxFaults \in Nat
  BY MaxFaultsNat DEF TypeOK
<1>2. CASE UNCHANGED vars
  BY <1>2, LackingSame DEF vars, RepeatsLeft, Times
<1>3. ASSUME NEW w \in Workflows, NEW pl \in Plans, Call(w, pl) PROVE RepeatsLeft'
  <2>1. stack = <<>> /\ outcome[w] = "idle" /\ outcome' = [outcome EXCEPT ![w] = "running"] /\ ran' = ran /\ faults' = faults
        /\ runners' = Append(runners, NewRunner)
    BY <1>3 DEF Call
  <2>2. Slack
    BY <2>1 DEF LeftOver
  <2>3. ASSUME NEW v \in Workflows, NEW step \in Steps
        PROVE  /\ Times(step, v)' <= 1 + faults'
               /\ outcome'[v] = "running" => Times(step, v)' + Cardinality(Lacking(HandlerOf[step])') <= 1 + faults'
    <3>1. Times(step, v)' = Times(step, v) /\ Times(step, v) <= 1 + faults
      BY <2>1 DEF Times, RepeatsLeft
    <3>2. CASE v = w
      <4>1. Times(step, v) = 0
        BY <2>1, <3>2, TimesIdle
      <4>2. /\ Cardinality(Lacking(HandlerOf[step])') = Cardinality(Lacking(HandlerOf[step])) + 1
            /\ Cardinality(Lacking(HandlerOf[step])) <= faults /\ Cardinality(Lacking(HandlerOf[step])) \in Nat
        BY <2>1, <2>2, HandlerOfIs, LackingCall, LackingFinite DEF Slack
      <4> QED BY <1>1, <2>1, <3>1, <4>1, <4>2
    <3>3. CASE v # w
      <4>1. outcome'[v] # "running"
        BY <2>1, <3>3 DEF CallUnderWay, TypeOK
      <4> QED BY <2>1, <3>1, <4>1
    <3> QED BY <3>2, <3>3
  <2> QED BY <2>3 DEF RepeatsLeft
<1>4. ASSUME NEW w \in Workflows, NEW pl \in Plans, CallRaises(w, pl) PROVE RepeatsLeft'
  <2>1. stack = <<>> /\ outcome' = [outcome EXCEPT ![w] = "raised"] /\ ran' = ran /\ faults' = faults + 1
    BY <1>4 DEF CallRaises
  <2>2. \A v \in Workflows : outcome'[v] # "running"
    BY <2>1 DEF CallUnderWay, TypeOK
  <2>3. ASSUME NEW v \in Workflows, NEW step \in Steps PROVE Times(step, v)' <= 1 + faults'
    <3>1. Times(step, v)' = Times(step, v) /\ Times(step, v) <= 1 + faults /\ Times(step, v) \in Nat
      BY <2>1, TimesType DEF Times, RepeatsLeft
    <3> QED BY <1>1, <2>1, <3>1
  <2> QED BY <2>2, <2>3 DEF RepeatsLeft
<1>5. CASE Pop
  <2>1. runners' = runners /\ ran' = ran /\ faults' = faults
        /\ outcome' = IF stack' = <<>> THEN [outcome EXCEPT ![Current] = "returned"] ELSE outcome
    BY <1>5 DEF Pop
  <2>2. \A v \in Workflows : outcome'[v] = "running" => outcome[v] = "running"
    BY <2>1 DEF TypeOK
  <2>3. \A v \in Workflows, step \in Steps : Times(step, v)' = Times(step, v)
    BY <2>1 DEF Times
  <2>4. \A step \in Steps : Lacking(HandlerOf[step])' = Lacking(HandlerOf[step])
    BY <2>1, LackingSame
  <2> QED BY <2>1, <2>2, <2>3, <2>4 DEF RepeatsLeft
<1>6. ASSUME NEW i, NEW e, Skip(i, e) PROVE RepeatsLeft'
  <2>1. runners' = runners /\ ran' = ran /\ faults' = faults /\ outcome' = outcome
    BY <1>6 DEF Skip
  <2>2. \A v \in Workflows, step \in Steps : Times(step, v)' = Times(step, v)
    BY <2>1 DEF Times
  <2>3. \A step \in Steps : Lacking(HandlerOf[step])' = Lacking(HandlerOf[step])
    BY <2>1, LackingSame
  <2> QED BY <2>1, <2>2, <2>3 DEF RepeatsLeft
<1>7. ASSUME NEW i, NEW e, NEW d, Does(i, e, d), faults' = faults \/ faults' = faults + 1 PROVE RepeatsLeft'
  <2>1. Handling(i, e) /\ outcome' = outcome
    BY <1>7 DEF Does
  <2>2. e.w \in Workflows /\ outcome[e.w] = "running" /\ \A v \in Workflows : outcome[v] = "running" => v = e.w
    BY <2>1, HandlingIs DEF CallUnderWay
  <2>3. ASSUME NEW v \in Workflows, NEW step \in Steps
        PROVE  /\ Times(step, v)' <= 1 + faults'
               /\ outcome'[v] = "running" => Times(step, v)' + Cardinality(Lacking(HandlerOf[step])') <= 1 + faults'
    <3> DEFINE before == Cardinality(Lacking(HandlerOf[step]))
               after == Cardinality(Lacking(HandlerOf[step])')
               t == Times(step, v)
               u == Times(step, v)'
    <3>1. t \in Nat /\ u \in Nat /\ u <= t + 1 /\ ((v # e.w \/ HandlerOf[step] # e.type) => u = t)
      BY <1>7, TimesDoes, TimesType
    <3>2. before \in Nat /\ after \in Nat /\ after <= before /\ (HandlerOf[step] = e.type => after = before - 1)
      <4>1. TypeOK'
        BY TypeStep
      <4>2. after \in Nat
        <5>1. IsFiniteSet(Lacking(HandlerOf[step])) /\ before \in Nat
          BY LackingFinite
        <5>2. Lacking(HandlerOf[step])' \subseteq Lacking(HandlerOf[step])
          BY <1>7, HandlerOfIs, LackingDoes
        <5> QED BY <5>1, <5>2, FS_Subset, FS_CardinalityType
      <4> QED BY <1>7, <4>2, HandlerOfIs, LackingDoes, LackingFinite
    <3>3. t <= 1 + faults /\ (outcome[v] = "running" => t + before <= 1 + faults)
      BY DEF RepeatsLeft
    <3>4. outcome'[v] = outcome[v] /\ (v = e.w => outcome[v] = "running")
      BY <2>1, <2>2
    <3> HIDE DEF before, after, t, u
    <3>5. outcome[v] = "running" => u + after <= 1 + faults
      BY <1>1, <2>2, <3>1, <3>2, <3>3
    <3>6. u <= 1 + faults
      BY <1>1, <3>1, <3>2, <3>3, <3>4, <3>5
    <3>7. u <= 1 + faults' /\ (outcome'[v] = "running" => u + after <= 1 + faults')
      BY <1>1, <1>7, <3>1, <3>2, <3>4, <3>5, <3>6
    <3> QED BY <3>7 DEF after, u
  <2> QED BY <2>3 DEF RepeatsLeft
<1> QED BY <1>2, <1>3, <1>4, <1>5, <1>6, <1>7, StepCases DEF Goes, Breaks

LEMMA SlackShrinks ==
  ASSUME TypeOK, Slack, \A type \in Handled : Lacking(type)' \subseteq Lacking(type), faults' \in Nat, faults <= faults', faults \in Nat
  PROVE  Slack'
<1>1. ASSUME NEW type \in Handled PROVE Cardinality(Lacking(type)') <= faults'
  <2>1. IsFiniteSet(Lacking(type)) /\ Cardinality(Lacking(type)) \in Nat
    BY LackingFinite
  <2>2. Cardinality(Lacking(type)') <= Cardinality(Lacking(type)) /\ Cardinality(Lacking(type)') \in Nat
    BY <2>1, FS_Subset, FS_CardinalityType
  <2>3. Cardinality(Lacking(type)) <= faults
    BY DEF Slack
  <2> QED BY <2>1, <2>2, <2>3
<1> QED BY <1>1 DEF Slack

\* The head of a list that has gone on is the only one it no longer holds.
LEMMA TailRange ==
  ASSUME NEW S, NEW s \in Seq(S), s # <<>>, NEW x \in Range(s), x # Head(s)
  PROVE  x \in Range(Tail(s))
<1>1. PICK k \in DOMAIN s : s[k] = x
  BY DEF Range
<1>2. k # 1 /\ k \in 1..Len(s) /\ Len(s) \in Nat
  BY <1>1
<1>3. k - 1 \in DOMAIN Tail(s) /\ Tail(s)[k - 1] = s[k]
  BY <1>2
<1> QED BY <1>1, <1>3 DEF Range

\* An event that is on its way to all that lack it stays so when the innermost
\* publication goes on: the one it went to has it now.
LEMMA CoveredGoesOn ==
  ASSUME TypeOK, CallUnderWay, NEW i, NEW e, Handling(i, e), NEW type \in Handled, Covered(type),
         \A k \in 1..Len(stack) : k \in DOMAIN stack' /\ stack'[k] = Rest[k],
         Lacking(type)' \subseteq Lacking(type), type = e.type => i \notin Lacking(type)'
  PROVE  Covered(type)'
<1>1. /\ stack # <<>> /\ Top.todo # <<>> /\ i = Head(Top.todo) /\ e = Top.event
      /\ Top = stack[Len(stack)] /\ DOMAIN stack = 1..Len(stack) /\ Len(stack) \in 1..Len(stack) /\ Top.todo \in Seq(DOMAIN runners)
  BY HandlingIs, TopIs
<1>2. /\ \A k \in 1..Len(stack) : k # Len(stack) => Rest[k] = stack[k]
      /\ Rest[Len(stack)].event = Top.event /\ Rest[Len(stack)].todo = Tail(Top.todo)
  BY <1>1, RestIs
<1>3. CASE Lacking(type) = {}
  BY <1>3 DEF Covered
<1>4. CASE \E k \in DOMAIN stack : stack[k].event.type = type /\ Lacking(type) \subseteq Range(stack[k].todo)
  <2>1. PICK k \in DOMAIN stack : stack[k].event.type = type /\ Lacking(type) \subseteq Range(stack[k].todo)
    BY <1>4
  <2>2. k \in 1..Len(stack) /\ k \in DOMAIN stack' /\ stack'[k] = Rest[k]
    BY <1>1, <2>1
  <2>3. CASE k # Len(stack)
    <3>1. stack'[k] = stack[k]
      BY <1>2, <2>2, <2>3
    <3> QED BY <2>1, <2>2, <3>1 DEF Covered
  <2>4. CASE k = Len(stack)
    <3>1. stack'[k].event = Top.event /\ stack'[k].todo = Tail(Top.todo) /\ type = e.type
      BY <1>1, <1>2, <2>1, <2>2, <2>4
    <3>2. ASSUME NEW x \in Lacking(type)' PROVE x \in Range(Tail(Top.todo))
      <4>1. x \in Range(Top.todo) /\ x # Head(Top.todo)
        BY <1>1, <2>1, <2>4, <3>1
      <4> QED BY <1>1, <4>1, TailRange
    <3> QED BY <1>1, <2>2, <3>1, <3>2 DEF Covered
  <2> QED BY <2>3, <2>4
<1> QED BY <1>3, <1>4 DEF Covered

\* Probe, execution and gate hand on to each other.
LEMMA HandsOn ==
  ASSUME NEW w, NEW p
  PROVE  /\ \A d \in Wholes("WorkflowStarted", w, p) : Last(d.rows).type = "ProbeCompleted"
         /\ \A d \in Wholes("ProbeCompleted", w, p) : Last(d.rows).type = "ExecutionCompleted"
<1>1. \A a, b, c : Last(<<a>>) = a /\ Last(<<a, b>>) = b /\ Last(<<a, b, c>>) = c
  BY DEF Last
<1>2. ASSUME NEW d \in Wholes("WorkflowStarted", w, p) PROVE Last(d.rows).type = "ProbeCompleted"
  <2> DEFINE r == StepRun("probe", w, p)
             pass == Event("ProbeCompleted", w, TRUE)
             fail == Event("ProbeCompleted", w, FALSE)
             bad == Event("ProbeFailed", w, FALSE)
             warm == Event("ContextWarmed", w, TRUE)
  <2>1. d \in {Deed(<<pass>>, <<>>, "none"), Deed(<<pass>>, <<r>>, "none"), Deed(<<bad, warm, fail>>, <<r>>, "probe")}
    BY <1>2 DEF Wholes, ProbeWhole
  <2>2. pass.type = "ProbeCompleted" /\ fail.type = "ProbeCompleted"
    BY DEF Event
  <2> HIDE DEF r, pass, fail, bad, warm
  <2>3. d.rows = <<pass>> \/ d.rows = <<bad, warm, fail>>
    BY <2>1, DeedFields
  <2> QED BY <1>1, <2>2, <2>3
<1>3. ASSUME NEW d \in Wholes("ProbeCompleted", w, p) PROVE Last(d.rows).type = "ExecutionCompleted"
  <2> DEFINE r == StepRun("execution", w, p)
             nothing == Event("ExecutionCompleted", w, TRUE)
             failed == Event("ExecutionCompleted", w, FALSE)
             spec == Event("SpecCommitted", w, FALSE)
  <2>1. d \in {Deed(<<nothing>>, <<>>, "none"), Deed(<<spec, failed>>, <<r>>, "none")}
    BY <1>3 DEF Wholes, ExecutionWhole
  <2>2. nothing.type = "ExecutionCompleted" /\ failed.type = "ExecutionCompleted"
    BY DEF Event
  <2> HIDE DEF r, nothing, failed, spec
  <2>3. d.rows = <<nothing>> \/ d.rows = <<spec, failed>>
    BY <2>1, DeedFields
  <2> QED BY <1>1, <2>2, <2>3
<1> QED BY <1>2, <1>3

\* Only the runner that fires has one more type behind it.
LEMMA FiredDoes ==
  ASSUME TypeOK, CallUnderWay, NEW i, NEW e, NEW d, Does(i, e, d), NEW type
  PROVE  /\ HasFired(type) => HasFired(type)'
         /\ (HasFired(type)' /\ ~HasFired(type)) => (type = e.type /\ i = Newest)
         /\ Newest' = Newest /\ Newest \in DOMAIN runners
<1>1. i \in DOMAIN runners /\ e \in Events /\ e.type \in Handled /\ Mark(i, e) /\ Handling(i, e)
  BY DEF Does
<1>2. /\ DOMAIN runners' = DOMAIN runners /\ runners'[i].fired = runners[i].fired \cup {e.type} /\ Len(runners') = Len(runners)
      /\ \A j \in DOMAIN runners : j # i => runners'[j] = runners[j]
  BY <1>1, MarkIs
<1>3. Newest \in DOMAIN runners
  <2>1. stack # <<>>
    BY <1>1 DEF Handling
  <2>2. runners # <<>> /\ runners \in Seq(Runners)
    BY <2>1 DEF CallUnderWay, TypeOK, Runners
  <2> QED BY <2>2 DEF Newest
<1>4. Newest' = Newest
  BY <1>2 DEF Newest
<1> QED BY <1>1, <1>2, <1>3, <1>4 DEF HasFired

\* A new publication that is handled goes to everyone.
LEMMA CoveredByNew ==
  ASSUME TypeOK, CallUnderWay, NEW i, NEW e, NEW d, Goes(i, e, d), NEW type \in Handled, Last(d.rows).type = type
  PROVE  Covered(type)'
<1> DEFINE g == Last(d.rows)
           n == Len(stack) + 1
<1>1. Does(i, e, d)
  BY DEF Goes
<1>2. g \in Events /\ Len(stack') = n /\ stack'[n] = Publication(g) /\ stack' \in Seq(Frames)
  BY GoesStack
<1>3. n \in DOMAIN stack'
  <2>1. n \in Nat \ {0}
    BY DEF TypeOK
  <2> HIDE DEF n
  <2> QED BY <1>2, <2>1
<1>4. Publication(g).event = g /\ \A j \in DOMAIN runners : j \in Range(Publication(g).todo)
  BY <1>2, PublicationIs
<1>5. \A j \in Lacking(type)' : j \in DOMAIN runners
  BY <1>1, LackingDoes DEF Lacking
<1> QED BY <1>2, <1>3, <1>4, <1>5 DEF Covered

LEMMA LeftOverStep ==
  ASSUME Ground, RepeatsLeft, LeftOver, [Next]_vars
  PROVE  LeftOver'
<1> USE DEF Ground
<1> DEFINE Ahead == /\ Covered("WorkflowStarted")
                    /\ HasFired("WorkflowStarted") => Covered("ProbeCompleted")
                    /\ HasFired("ProbeCompleted") => Covered("ExecutionCompleted")
<1>1. faults \in Nat /\ faults + 1 \in Nat /\ faults <= faults + 1
  BY DEF TypeOK
<1>2. "WorkflowStarted" \in Handled /\ "ProbeCompleted" \in Handled /\ "ExecutionCompleted" \in Handled
      /\ \A type \in Handled : type \in {"WorkflowStarted", "ProbeCompleted", "ExecutionCompleted"}
  BY DEF Handled
<1>3. CASE UNCHANGED vars
  <2>1. /\ \A type : Lacking(type)' = Lacking(type) /\ HasFired(type)' = HasFired(type)
        /\ stack' = stack /\ faults' = faults
    BY <1>3, LackingSame DEF vars, HasFired, Newest
  <2>2. \A type : Covered(type)' = Covered(type)
    BY <2>1 DEF Covered
  <2>3. Slack' = Slack
    BY <2>1 DEF Slack
  <2> QED BY <2>1, <2>2, <2>3 DEF LeftOver
<1>4. ASSUME NEW w \in Workflows, NEW pl \in Plans, Call(w, pl) PROVE LeftOver'
  <2> DEFINE f == [event |-> Event("WorkflowStarted", w, TRUE), todo |-> [j \in DOMAIN runners' |-> j]]
  <2>1. stack' = <<f>> /\ runners' = Append(runners, NewRunner)
    BY <1>4 DEF Call
  <2>2. f.event.type = "WorkflowStarted" /\ f.todo = [j \in DOMAIN runners' |-> j]
    BY DEF Event
  <2> HIDE DEF f
  <2>3. stack' # <<>> /\ 1 \in DOMAIN stack' /\ stack'[1] = f
    BY <2>1
  <2>4. runners' \in Seq(Runners)
    BY TypeStep DEF TypeOK, Runners
  <2>5. Lacking("WorkflowStarted")' \subseteq Range(f.todo)
    BY <2>2, <2>4, AudienceType DEF Lacking
  <2>6. Covered("WorkflowStarted")'
    BY <2>2, <2>3, <2>5 DEF Covered
  <2>7. Newest' = Len(runners) + 1 /\ runners'[Newest'].fired = {}
    <3>1. runners \in Seq(Runners) /\ Len(runners) \in Nat
      BY DEF TypeOK, Runners
    <3>2. Len(runners') = Len(runners) + 1 /\ runners'[Len(runners) + 1] = NewRunner
      BY <2>1, <3>1
    <3> QED BY <3>2 DEF Newest, NewRunner
  <2>8. ~HasFired("WorkflowStarted")' /\ ~HasFired("ProbeCompleted")'
    BY <2>7 DEF HasFired
  <2> QED BY <2>3, <2>6, <2>8 DEF LeftOver
<1>5. ASSUME NEW w \in Workflows, NEW pl \in Plans, CallRaises(w, pl) PROVE LeftOver'
  <2>1. stack = <<>> /\ runners' = Append(runners, NewRunner) /\ faults' = faults + 1
    BY <1>5 DEF CallRaises
  <2>2. Slack
    BY <2>1 DEF LeftOver
  <2>3. ASSUME NEW type \in Handled PROVE Cardinality(Lacking(type)') <= faults'
    <3>1. Cardinality(Lacking(type)') = Cardinality(Lacking(type)) + 1 /\ Cardinality(Lacking(type)) <= faults
          /\ Cardinality(Lacking(type)) \in Nat
      BY <2>1, <2>2, LackingCall, LackingFinite DEF Slack
    <3> QED BY <1>1, <2>1, <3>1
  <2> QED BY <2>3 DEF Slack, LeftOver
<1>6. CASE Pop
  <2>1. stack # <<>> /\ Top.todo = <<>> /\ stack' = Front(stack) /\ runners' = runners /\ faults' = faults
    BY <1>6 DEF Pop
  <2>2. \A type : Lacking(type)' = Lacking(type) /\ HasFired(type)' = HasFired(type)
    BY <2>1, LackingSame DEF HasFired, Newest
  <2>3. CASE Slack
    <3>1. Slack'
      BY <2>1, <2>2, <2>3 DEF Slack
    <3> QED BY <3>1 DEF LeftOver
  <2>4. CASE Ahead
    <3>1. /\ Len(stack') = Len(stack) - 1 /\ Len(stack) \in Nat \ {0} /\ stack' \in Seq(Frames)
          /\ \A k \in 1..(Len(stack) - 1) : stack'[k] = stack[k]
      BY <2>1, FrontIs
    <3>2. Top = stack[Len(stack)] /\ DOMAIN stack = 1..Len(stack)
      BY <2>1, TopIs
    <3>3. ASSUME NEW type, Covered(type)
          PROVE  Lacking(type) = {} \/ \E k \in DOMAIN stack' : stack'[k].event.type = type /\ Lacking(type) \subseteq Range(stack'[k].todo)
      <4>1. CASE Lacking(type) # {}
        <5>1. PICK k \in DOMAIN stack : stack[k].event.type = type /\ Lacking(type) \subseteq Range(stack[k].todo)
          BY <3>3, <4>1 DEF Covered
        <5>2. k # Len(stack)
          <6>1. SUFFICES ASSUME k = Len(stack) PROVE FALSE
            OBVIOUS
          <6>2. Range(stack[k].todo) = {}
            BY <2>1, <3>2, <6>1 DEF Range
          <6> QED BY <4>1, <5>1, <6>2
        <5>3. k \in 1..(Len(stack) - 1) /\ k \in DOMAIN stack'
          BY <3>1, <3>2, <5>2
        <5> QED BY <3>1, <5>1, <5>3
      <4> QED BY <4>1
    <3>4. CASE stack' = <<>>
      <4>1. \A type : Covered(type) => Lacking(type) = {}
        BY <3>3, <3>4
      <4>2. Newest \in DOMAIN runners
        <5>1. runners # <<>> /\ runners \in Seq(Runners)
          BY <2>1 DEF CallUnderWay, TypeOK, Runners
        <5> QED BY <5>1 DEF Newest
      <4>3. \A type : Lacking(type) = {} => HasFired(type)
        BY <4>2 DEF Lacking, HasFired
      <4>4. \A type \in Handled : Lacking(type) = {}
        BY <1>2, <2>4, <4>1, <4>3
      <4>5. Slack'
        BY <1>1, <2>1, <2>2, <4>4, FS_EmptySet DEF Slack
      <4> QED BY <4>5 DEF LeftOver
    <3>5. CASE stack' # <<>>
      <4>1. \A type : Covered(type) => Covered(type)'
        BY <2>2, <3>3 DEF Covered
      <4> QED BY <2>2, <2>4, <3>5, <4>1 DEF LeftOver
    <3> QED BY <3>4, <3>5
  <2> QED BY <2>3, <2>4 DEF LeftOver
<1>7. ASSUME NEW i, NEW e, Skip(i, e) PROVE LeftOver'
  <2>1. Handling(i, e) /\ e.type \in runners[i].fired /\ stack' = Rest /\ runners' = runners /\ faults' = faults
    BY <1>7 DEF Skip
  <2>2. \A type : Lacking(type)' = Lacking(type) /\ HasFired(type)' = HasFired(type)
    BY <2>1, LackingSame DEF HasFired, Newest
  <2>3. i \notin Lacking(e.type)
    BY <2>1 DEF Lacking
  <2>4. Len(Rest) = Len(stack) /\ Rest # <<>> /\ Rest \in Seq(Frames)
    BY <2>1, HandlingIs, RestIs DEF Frames
  <2>5. \A k \in 1..Len(stack) : k \in DOMAIN stack' /\ stack'[k] = Rest[k]
    BY <2>1, <2>4
  <2>6. ASSUME NEW type \in Handled, Covered(type) PROVE Covered(type)'
    <3>1. Lacking(type)' \subseteq Lacking(type) /\ (type = e.type => i \notin Lacking(type)')
      BY <2>2, <2>3
    <3> QED BY <2>1, <2>5, <2>6, <3>1, CoveredGoesOn
  <2>7. CASE Slack
    <3>1. Slack'
      BY <2>1, <2>2, <2>7 DEF Slack
    <3> QED BY <3>1 DEF LeftOver
  <2>8. CASE Ahead
    BY <1>2, <2>1, <2>2, <2>4, <2>6, <2>8 DEF LeftOver
  <2> QED BY <2>7, <2>8 DEF LeftOver
<1>8. ASSUME NEW i, NEW e, NEW d, Goes(i, e, d) PROVE LeftOver'
  <2>1. Does(i, e, d) /\ Handling(i, e) /\ faults' \in Nat /\ faults <= faults'
    BY <1>1, <1>8 DEF Goes, Does
  <2>2. \A type \in Handled : Lacking(type)' \subseteq Lacking(type) /\ (type = e.type => i \notin Lacking(type)')
    BY <2>1, LackingDoes
  <2>3. CASE Slack
    <3>1. Slack'
      BY <1>1, <2>1, <2>2, <2>3, SlackShrinks
    <3> QED BY <3>1 DEF LeftOver
  <2>4. CASE Ahead
    <3>1. /\ stack' # <<>> /\ stack' \in Seq(Frames) /\ Len(stack') = Len(stack) + 1 /\ Len(stack) \in Nat
          /\ \A k \in 1..Len(stack) : stack'[k] = Rest[k]
      BY <1>8, GoesStack DEF TypeOK
    <3>2. \A k \in 1..Len(stack) : k \in DOMAIN stack' /\ stack'[k] = Rest[k]
      BY <3>1
    <3>3. \A type \in Handled : Covered(type) => Covered(type)'
      BY <2>1, <2>2, <3>2, CoveredGoesOn
    <3>4. ASSUME e.type # "ExecutionCompleted" PROVE d \in Wholes(e.type, e.w, Speaker(i, e))
      BY <1>8, <3>4 DEF Goes
    <3>5. ASSUME HasFired("WorkflowStarted")' PROVE Covered("ProbeCompleted")'
      <4>1. CASE HasFired("WorkflowStarted")
        BY <1>2, <2>4, <3>3, <4>1
      <4>2. CASE ~HasFired("WorkflowStarted")
        <5>1. e.type = "WorkflowStarted"
          BY <2>1, <3>5, <4>2, FiredDoes
        <5>2. Last(d.rows).type = "ProbeCompleted"
          BY <3>4, <5>1, HandsOn
        <5> QED BY <1>2, <1>8, <5>2, CoveredByNew
      <4> QED BY <4>1, <4>2
    <3>6. ASSUME HasFired("ProbeCompleted")' PROVE Covered("ExecutionCompleted")'
      <4>1. CASE HasFired("ProbeCompleted")
        BY <1>2, <2>4, <3>3, <4>1
      <4>2. CASE ~HasFired("ProbeCompleted")
        <5>1. e.type = "ProbeCompleted"
          BY <2>1, <3>6, <4>2, FiredDoes
        <5>2. Last(d.rows).type = "ExecutionCompleted"
          BY <3>4, <5>1, HandsOn
        <5> QED BY <1>2, <1>8, <5>2, CoveredByNew
      <4> QED BY <4>1, <4>2
    <3>7. Covered("WorkflowStarted")'
      BY <1>2, <2>4, <3>3
    <3> QED BY <3>1, <3>5, <3>6, <3>7 DEF LeftOver
  <2> QED BY <2>3, <2>4 DEF LeftOver
<1>9. ASSUME NEW i, NEW e, NEW d, Breaks(i, e, d) PROVE LeftOver'
  <2>1. Does(i, e, d) /\ Handling(i, e) /\ faults' = faults + 1
    BY <1>9 DEF Breaks, Does
  <2>2. e.w \in Workflows /\ outcome[e.w] = "running"
    BY <2>1, HandlingIs
  <2>3. ASSUME NEW type \in Handled PROVE Cardinality(Lacking(type)') <= faults'
    <3>1. PICK step \in Steps : HandlerOf[step] = type
      BY HandlerOfIs
    <3>2. Times(step, e.w) + Cardinality(Lacking(type)) <= 1 + faults
      BY <2>2, <3>1 DEF RepeatsLeft
    <3>3. Times(step, e.w) \in Nat /\ Cardinality(Lacking(type)) \in Nat /\ IsFiniteSet(Lacking(type))
      BY TimesType, LackingFinite
    <3>4. Cardinality(Lacking(type)') <= Cardinality(Lacking(type)) /\ Cardinality(Lacking(type)') \in Nat
      BY <2>1, <3>3, LackingDoes, FS_Subset, FS_CardinalityType
    <3> QED BY <1>1, <2>1, <3>2, <3>3, <3>4
  <2> QED BY <2>3 DEF Slack, LeftOver
<1> QED BY <1>3, <1>4, <1>5, <1>6, <1>7, <1>8, <1>9, StepCases

-----------------------------------------------------------------------------
(* A clean run is execute_workflow() *)

\* While nothing has raised, the newest runner alone is at work, and is about
\* to handle its next event.
NextUp(type) == Top.event.type = type /\ Newest \in Range(Top.todo)

Passed(w) == Has("GateCompleted", w, TRUE)
Before(w) == CountRows("GateCompleted", w) = 0 /\ ~Passed(w)
Whole(w) == StepsRun(w) = ExpectedSteps(plan[w], Passed(w)) /\ CountRows("GateCompleted", w) = 1

\* Before the probe, before the execution, before the gate, after it.
Phase(w) ==
    LET r == runners[Newest] IN
    \/ /\ r.fired = {} /\ NextUp("WorkflowStarted")
       /\ StepsRun(w) = <<>> /\ Before(w)
    \/ /\ r.fired = {"WorkflowStarted"} /\ r.persona = plan[w].persona /\ NextUp("ProbeCompleted")
       /\ StepsRun(w) = OneIf(plan[w].probe, "probe") /\ Before(w)
    \/ /\ r.fired = {"WorkflowStarted", "ProbeCompleted"} /\ r.persona = plan[w].persona /\ NextUp("ExecutionCompleted")
       /\ StepsRun(w) = OneIf(plan[w].probe, "probe") \o OneIf(plan[w].tasks, "execution") /\ Before(w)
    \/ r.fired = Handled /\ Whole(w)

CleanSoFar ==
    faults = 0 =>
      /\ \A i \in DOMAIN runners : i # Newest => runners[i].fired = Handled
      /\ \A i \in DOMAIN ran : ran[i].persona = plan[ran[i].w].persona
      /\ \A w \in Workflows : outcome[w] = "running" => Phase(w)
      /\ \A w \in Workflows : outcome[w] = "returned" => Whole(w)

\* The steps of one call, one more at a time.
Collect(w) == [r \in StepRuns |-> [steps \in Seq(Steps) |-> IF r.w = w THEN Append(steps, r.step) ELSE steps]]

LEMMA CollectIs ==
  ASSUME NEW w, NEW r \in StepRuns, NEW steps \in Seq(Steps)
  PROVE  /\ Collect(w)[r][steps] = (IF r.w = w THEN Append(steps, r.step) ELSE steps)
         /\ Collect(w)[r][steps] \in Seq(Steps)
<1>1. r.step \in Steps
  BY DEF StepRuns
<1>2. Append(steps, r.step) \in Seq(Steps)
  BY <1>1
<1>3. Collect(w)[r][steps] = (IF r.w = w THEN Append(steps, r.step) ELSE steps)
  BY DEF Collect
<1> QED BY <1>2, <1>3

LEMMA StepsRunType == ASSUME TypeOK, NEW w PROVE StepsRun(w) = Fold(Collect(w), <<>>, ran) /\ StepsRun(w) \in Seq(Steps)
<1>1. ran \in Seq(StepRuns) /\ <<>> \in Seq(Steps) /\ DOMAIN ran = 1..Len(ran)
  BY DEF TypeOK
<1>2. StepsRun(w) = Fold(Collect(w), <<>>, ran)
  BY DEF StepsRun, Collect
<1>3. \A i \in 1..Len(ran) : \A v \in Seq(Steps) : Collect(w)[ran[i]][v] \in Seq(Steps)
  <2>1. \A i \in 1..Len(ran) : ran[i] \in StepRuns
    BY <1>1
  <2> QED BY <2>1, CollectIs
<1> DEFINE V == Seq(Steps)
           C == Collect(w)
<1>4. <<>> \in V /\ \A i \in 1..Len(ran) : \A v \in V : C[ran[i]][v] \in V
  BY <1>1, <1>3
<1> HIDE DEF V, C
<1>5. Fold(C, <<>>, ran) \in V
  BY <1>1, <1>4, FoldStays
<1> QED BY <1>2, <1>5 DEF V, C

LEMMA StepsRunIdle ==
  ASSUME TypeOK, OfCalls, NEW w \in Workflows, outcome[w] = "idle"
  PROVE  StepsRun(w) = <<>>
<1> DEFINE V == {<<>>}
<1>1. ran \in Seq(StepRuns) /\ <<>> \in V /\ <<>> \in Seq(Steps) /\ DOMAIN ran = 1..Len(ran)
  BY DEF TypeOK
<1>2. \A i \in 1..Len(ran) : ran[i] \in StepRuns /\ ran[i].w # w
  BY <1>1 DEF OfCalls
<1>3. \A i \in 1..Len(ran) : \A v \in V : Collect(w)[ran[i]][v] \in V
  <2>1. ASSUME NEW i \in 1..Len(ran) PROVE Collect(w)[ran[i]][<<>>] = <<>>
    <3> DEFINE r == ran[i]
               none == <<>>
    <3>1. r \in StepRuns /\ r.w # w /\ none \in Seq(Steps)
      BY <1>1, <1>2
    <3> HIDE DEF r, none
    <3>2. Collect(w)[r][none] = none
      BY <3>1, CollectIs
    <3> QED BY <3>2 DEF r, none
  <2> QED BY <2>1
<1> HIDE DEF V
<1>4. Fold(Collect(w), <<>>, ran) \in V
  BY <1>1, <1>3, FoldStays
<1> QED BY <1>4, StepsRunType DEF V

\* What a firing adds to the steps of its call, and that it adds to no other.
LEMMA StepsDoes ==
  ASSUME TypeOK, NEW i, NEW e, NEW d, Does(i, e, d), NEW w \in Workflows
  PROVE  /\ w # e.w \/ d.runs = <<>> => StepsRun(w)' = StepsRun(w)
         /\ \A step \in Steps, p \in Personas :
               w = e.w /\ d.runs = <<StepRun(step, w, p)>> => StepsRun(w)' = Append(StepsRun(w), step)
         /\ \A p \in Personas :
               w = e.w /\ d.runs = <<StepRun("gate", w, p), StepRun("refresh", w, p)>> =>
                   StepsRun(w)' = Append(Append(StepsRun(w), "gate"), "refresh")
<1> DEFINE C == Collect(w)
           runs == d.runs
           before == StepsRun(w)
<1>1. ran \in Seq(StepRuns) /\ runs \in Seq(StepRuns) /\ ran' = ran \o runs /\ RunsFine(e.w, e.type, d.rows, runs)
      /\ DOMAIN runs = 1..Len(runs)
  BY DEF TypeOK, Does, Fine
<1>2. StepsRun(w)' = Fold(C, <<>>, ran')
  BY DEF StepsRun, Collect
<1>3. before = Fold(C, <<>>, ran) /\ before \in Seq(Steps)
  BY StepsRunType
<1> HIDE DEF runs, C, before
<1>4. Fold(C, <<>>, ran') = Fold(C, before, runs)
  BY <1>1, <1>3, FoldConcat
<1>5. \A r \in StepRuns, s \in Seq(Steps) : C[r][s] = (IF r.w = w THEN Append(s, r.step) ELSE s) /\ C[r][s] \in Seq(Steps)
  BY CollectIs DEF C
<1>6. ASSUME w # e.w PROVE StepsRun(w)' = before
  <2> DEFINE V == {before}
  <2>1. \A j \in 1..Len(runs) : runs[j] \in StepRuns /\ runs[j].w # w
    BY <1>1, <1>6, RunsAreOf
  <2>2. before \in V /\ \A j \in 1..Len(runs) : \A v \in V : C[runs[j]][v] \in V
    BY <1>3, <1>5, <2>1
  <2> HIDE DEF V
  <2>3. Fold(C, before, runs) \in V
    BY <1>1, <2>2, FoldStays
  <2> QED BY <1>2, <1>4, <2>3 DEF V
<1>7. ASSUME runs = <<>> PROVE StepsRun(w)' = before
  BY <1>2, <1>4, <1>7, FoldEmpty
<1>8. ASSUME NEW step \in Steps, NEW p \in Personas, w = e.w, runs = <<StepRun(step, w, p)>>
      PROVE  StepsRun(w)' = Append(before, step)
  <2> DEFINE r == StepRun(step, w, p)
  <2>1. r \in StepRuns /\ r.w = w /\ r.step = step
    BY DEF StepRun, StepRuns
  <2>2. runs = <<r>>
    BY <1>8
  <2> HIDE DEF r
  <2>3. Fold(C, before, runs) = C[r][before]
    BY <2>2, FoldOne
  <2> QED BY <1>2, <1>3, <1>4, <1>5, <2>1, <2>3
<1>9. ASSUME NEW p \in Personas, w = e.w, runs = <<StepRun("gate", w, p), StepRun("refresh", w, p)>>
      PROVE  StepsRun(w)' = Append(Append(before, "gate"), "refresh")
  <2> DEFINE r == StepRun("gate", w, p)
             r2 == StepRun("refresh", w, p)
  <2>1. r \in StepRuns /\ r.w = w /\ r.step = "gate" /\ r2 \in StepRuns /\ r2.w = w /\ r2.step = "refresh"
    BY DEF StepRun, StepRuns, Steps
  <2>2. runs = <<r, r2>>
    BY <1>9
  <2> HIDE DEF r, r2
  <2>3. runs = Append(<<r>>, r2) /\ <<r>> \in Seq(StepRuns)
    BY <2>1, <2>2, Tuple2
  <2>4. Fold(C, before, runs) = C[r2][Fold(C, before, <<r>>)] /\ Fold(C, before, <<r>>) = C[r][before]
    <3>1. Fold(C, before, Append(<<r>>, r2)) = C[r2][Fold(C, before, <<r>>)]
      BY <2>1, <2>3, FoldAppend
    <3>2. Fold(C, before, <<r>>) = C[r][before]
      BY FoldOne
    <3> QED BY <2>3, <3>1, <3>2
  <2>5. C[r][before] = Append(before, "gate") /\ C[r][before] \in Seq(Steps)
    BY <1>3, <1>5, <2>1
  <2>6. C[r2][Append(before, "gate")] = Append(Append(before, "gate"), "refresh")
    BY <1>5, <2>1, <2>5
  <2> QED BY <1>2, <1>4, <2>4, <2>5, <2>6
<1> QED BY <1>6, <1>7, <1>8, <1>9 DEF runs, before

\* How much a row counts.
RowWeight(w) == [x \in Events |-> IF x.type = "GateCompleted" /\ x.w = w THEN 1 ELSE 0]

LEMMA CountIs ==
  ASSUME TypeOK, NEW w
  PROVE  /\ RowWeight(w) \in [Events -> Nat] /\ log \in Seq(Events) /\ DOMAIN log = 1..Len(log) /\ Len(log) \in Nat
         /\ CountRows("GateCompleted", w) = Sum(RowWeight(w), log) /\ CountRows("GateCompleted", w) \in Nat
         /\ Passed(w) <=> \E i \in DOMAIN log : log[i] = Event("GateCompleted", w, TRUE)
<1>1. log \in Seq(Events) /\ DOMAIN log = 1..Len(log) /\ Len(log) \in Nat
  BY DEF TypeOK
<1>2. RowWeight(w) \in [Events -> Nat]
  BY DEF RowWeight
<1>3. CountRows("GateCompleted", w) = Sum(RowWeight(w), log)
  BY DEF CountRows, RowWeight
<1>4. Sum(RowWeight(w), log) \in Nat
  BY <1>1, <1>2, SumType
<1>5. Passed(w) <=> \E i \in DOMAIN log : log[i] = Event("GateCompleted", w, TRUE)
  BY <1>1 DEF Passed, Has, Contains
<1> QED BY <1>1, <1>2, <1>3, <1>4, <1>5

LEMMA CountIdle ==
  ASSUME TypeOK, OfCalls, NEW w \in Workflows, outcome[w] = "idle"
  PROVE  Before(w)
<1>1. \A i \in 1..Len(log) : log[i] \in Events /\ log[i].w # w
  <2>1. log \in Seq(Events) /\ DOMAIN log = 1..Len(log)
    BY CountIs
  <2> QED BY <2>1 DEF OfCalls
<1>2. \A i \in 1..Len(log) : RowWeight(w)[log[i]] = 0
  BY <1>1 DEF RowWeight
<1>3. Sum(RowWeight(w), log) = 0
  BY <1>2, CountIs, SumZero
<1>4. Event("GateCompleted", w, TRUE).w = w
  BY DEF Event
<1> QED BY <1>1, <1>3, <1>4, CountIs DEF Before

\* The row that opens a call is not about a gate.
LEMMA CountCall ==
  ASSUME TypeOK, NEW w \in Workflows, NEW new \in Events, new.type # "GateCompleted", log' = Append(log, new)
  PROVE  CountRows("GateCompleted", w)' = CountRows("GateCompleted", w) /\ Passed(w)' = Passed(w)
<1> DEFINE gate == Event("GateCompleted", w, TRUE)
           W == RowWeight(w)
<1>1. gate # new
  BY DEF Event
<1>2. log \in Seq(Events) /\ DOMAIN log = 1..Len(log) /\ Len(log) \in Nat
  BY CountIs
<1> HIDE DEF gate
<1>3. W \in [Events -> Nat] /\ W[new] = 0
  BY CountIs DEF RowWeight
<1>4. Sum(W, log) \in Nat /\ Sum(W, Append(log, new)) = Sum(W, log) + W[new]
  <2> HIDE DEF W
  <2> QED BY <1>2, <1>3, SumAppend, SumType
<1>5. CountRows("GateCompleted", w)' = Sum(W, log')
  BY DEF CountRows, RowWeight
<1>6. CountRows("GateCompleted", w) = Sum(W, log)
  BY CountIs
<1> HIDE DEF W
<1>7. CountRows("GateCompleted", w)' = CountRows("GateCompleted", w)
  BY <1>3, <1>4, <1>5, <1>6
<1>8. /\ DOMAIN log' = 1..(Len(log) + 1) /\ log'[Len(log) + 1] = new /\ Len(log') = Len(log) + 1
      /\ \A i \in DOMAIN log : i \in DOMAIN log' /\ log'[i] = log[i]
  BY <1>2
<1>9. \A i \in DOMAIN log' : i \in DOMAIN log \/ i = Len(log) + 1
  BY <1>2, <1>8
<1>10. (\E i \in DOMAIN log' : log'[i] = gate) <=> (\E i \in DOMAIN log : log[i] = gate)
  BY <1>1, <1>8, <1>9
<1>11. Passed(w)' <=> \E i \in DOMAIN log' : log'[i] = gate
  BY <1>8 DEF Passed, Has, Contains, gate
<1>12. Passed(w) <=> \E i \in DOMAIN log : log[i] = gate
  BY CountIs DEF gate
<1>13. Passed(w)' \in BOOLEAN /\ Passed(w) \in BOOLEAN
  BY DEF Passed, Has, Contains
<1> QED BY <1>7, <1>10, <1>11, <1>12, <1>13

\* A firing adds its own GateCompleted, to its own call.
LEMMA CountDoes ==
  ASSUME TypeOK, NEW i, NEW e, NEW d, Does(i, e, d), NEW w \in Workflows
  PROVE  /\ (w # e.w \/ \A j \in DOMAIN d.rows : d.rows[j].type # "GateCompleted") =>
               CountRows("GateCompleted", w)' = CountRows("GateCompleted", w) /\ Passed(w)' = Passed(w)
         /\ \A ok \in BOOLEAN : (w = e.w /\ d.rows = <<Event("GateCompleted", w, ok)>>) =>
               CountRows("GateCompleted", w)' = CountRows("GateCompleted", w) + 1 /\ (Passed(w)' <=> (Passed(w) \/ ok))
         /\ \A a : \A ok \in BOOLEAN : (w = e.w /\ a.type # "GateCompleted" /\ d.rows = <<a, Event("GateCompleted", w, ok)>>) =>
               CountRows("GateCompleted", w)' = CountRows("GateCompleted", w) + 1 /\ (Passed(w)' <=> (Passed(w) \/ ok))
<1> DEFINE W == RowWeight(w)
           rows == d.rows
           gate == Event("GateCompleted", w, TRUE)
           more == Sum(W, rows)
           passes == \E j \in DOMAIN rows : rows[j] = gate
           count == CountRows("GateCompleted", w)
<1>1. log \in Seq(Events) /\ rows \in Seq(Events) /\ log' = log \o rows /\ DOMAIN rows = 1..Len(rows)
      /\ \A j \in DOMAIN rows : rows[j] \in Events /\ rows[j].w = e.w
  BY DEF TypeOK, Does, Fine, RowsFine
<1>2. W \in [Events -> Nat] /\ count = Sum(W, log) /\ count \in Nat
  BY CountIs
<1>3. count' = Sum(W, log')
  BY DEF CountRows, RowWeight
<1>4. Sum(W, log') = Sum(W, log) + more
  <2> HIDE DEF W, rows
  <2> QED BY <1>1, <1>2, SumConcat
<1>5. Passed(w)' <=> (Passed(w) \/ passes)
  <2>1. DOMAIN log' = 1..Len(log')
    BY <1>1
  <2>2. Passed(w)' <=> \E k \in DOMAIN log' : log'[k] = gate
    BY <2>1 DEF Passed, Has, Contains
  <2>3. Passed(w) <=> \E k \in DOMAIN log : log[k] = gate
    BY CountIs
  <2>4. /\ \A k \in DOMAIN log : k \in DOMAIN log' /\ log'[k] = log[k]
        /\ \A k \in DOMAIN rows : Len(log) + k \in DOMAIN log' /\ log'[Len(log) + k] = rows[k]
        /\ \A k \in DOMAIN log' : k \in DOMAIN log \/ \E j \in DOMAIN rows : k = Len(log) + j /\ log'[k] = rows[j]
    BY LongerLog
  <2> HIDE DEF gate, rows
  <2> QED BY <2>2, <2>3, <2>4
<1>6. Passed(w)' \in BOOLEAN /\ Passed(w) \in BOOLEAN
  BY DEF Passed, Has, Contains
<1>7. gate.w = w /\ gate.type = "GateCompleted"
  BY DEF Event
<1> HIDE DEF W, rows, gate
<1>8. ASSUME w # e.w \/ \A j \in DOMAIN rows : rows[j].type # "GateCompleted"
      PROVE  more = 0 /\ ~passes
  <2>1. \A j \in 1..Len(rows) : W[rows[j]] = 0
    BY <1>1, <1>8 DEF W, RowWeight
  <2>2. more = 0
    BY <1>1, <1>2, <2>1, SumZero
  <2> QED BY <1>1, <1>7, <1>8, <2>2
<1>9. ASSUME NEW ok \in BOOLEAN, w = e.w, rows = <<Event("GateCompleted", w, ok)>>
      PROVE  more = 1 /\ (passes <=> ok)
  <2> DEFINE g == Event("GateCompleted", w, ok)
  <2>1. g.type = "GateCompleted" /\ g.w = w /\ (g = gate <=> ok)
    BY DEF Event, gate
  <2>2. rows = <<g>>
    BY <1>9
  <2> HIDE DEF g
  <2>3. DOMAIN rows = {1} /\ rows[1] = g
    BY <2>2
  <2>4. g \in Events
    BY <1>1, <2>3
  <2>5. W[g] = 1
    BY <2>1, <2>4 DEF W, RowWeight
  <2>6. more = W[g]
    BY <1>2, <2>2, <2>4, SumOne
  <2> QED BY <2>1, <2>3, <2>5, <2>6
<1>10. ASSUME NEW ok \in BOOLEAN, NEW a, w = e.w, a.type # "GateCompleted", rows = <<a, Event("GateCompleted", w, ok)>>
      PROVE  more = 1 /\ (passes <=> ok)
  <2> DEFINE g == Event("GateCompleted", w, ok)
  <2>1. g.type = "GateCompleted" /\ g.w = w /\ (g = gate <=> ok)
    BY DEF Event, gate
  <2>2. rows = <<a, g>>
    BY <1>10
  <2> HIDE DEF g
  <2>3. DOMAIN rows = {1, 2} /\ rows[1] = a /\ rows[2] = g
    BY <2>2
  <2>4. g \in Events /\ a \in Events
    BY <1>1, <2>3
  <2>5. W[g] = 1 /\ W[a] = 0
    BY <1>10, <2>1, <2>4 DEF W, RowWeight
  <2>6. more = W[a] + W[g]
    BY <1>2, <2>2, <2>4, SumTwo
  <2>7. a # gate
    BY <1>7, <1>10
  <2> QED BY <2>1, <2>3, <2>5, <2>6, <2>7
<1> HIDE DEF more, passes
<1>11. count' = count + more
  BY <1>2, <1>3, <1>4
<1> HIDE DEF count
<1>12. (w # e.w \/ \A j \in DOMAIN rows : rows[j].type # "GateCompleted") => count' = count /\ Passed(w)' = Passed(w)
  BY <1>2, <1>5, <1>6, <1>8, <1>11
<1>13. \A ok \in BOOLEAN : (w = e.w /\ rows = <<Event("GateCompleted", w, ok)>>) =>
           count' = count + 1 /\ (Passed(w)' <=> (Passed(w) \/ ok))
  BY <1>5, <1>9, <1>11
<1>14. \A a : \A ok \in BOOLEAN : (w = e.w /\ a.type # "GateCompleted" /\ rows = <<a, Event("GateCompleted", w, ok)>>) =>
           count' = count + 1 /\ (Passed(w)' <=> (Passed(w) \/ ok))
  BY <1>5, <1>10, <1>11
<1> QED BY <1>12, <1>13, <1>14 DEF rows, count

\* What a handler that does not raise adds: its step, when the plan has it, for
\* the persona it was called with; only the gate's rows speak of a gate.
Adds(d, step, w, p, asked) == d.runs = IF asked THEN <<StepRun(step, w, p)>> ELSE <<>>

LEMMA OfPersona ==
  ASSUME NEW a, NEW b, NEW p, a.persona = p, b.persona = p, NEW runs \in {<<>>, <<a>>, <<a, b>>}, NEW j \in DOMAIN runs
  PROVE  runs[j].persona = p
<1>1. DOMAIN <<>> = {} /\ DOMAIN <<a>> = {1} /\ <<a>>[1] = a /\ DOMAIN <<a, b>> = {1, 2} /\ <<a, b>>[1] = a /\ <<a, b>>[2] = b
  OBVIOUS
<1> QED BY <1>1

LEMMA ProbeAdds ==
  ASSUME NEW w, NEW p, NEW d \in ProbeWhole(w, p)
  PROVE  /\ Adds(d, "probe", w, p, plan[w].probe)
         /\ \A j \in DOMAIN d.rows : d.rows[j].type # "GateCompleted"
         /\ \A j \in DOMAIN d.runs : d.runs[j].persona = p
<1> DEFINE r == StepRun("probe", w, p)
           pass == Event("ProbeCompleted", w, TRUE)
           fail == Event("ProbeCompleted", w, FALSE)
           bad == Event("ProbeFailed", w, FALSE)
           warm == Event("ContextWarmed", w, TRUE)
<1>1. d \in IF ~plan[w].probe THEN {Deed(<<pass>>, <<>>, "none")}
            ELSE {Deed(<<pass>>, <<r>>, "none"), Deed(<<bad, warm, fail>>, <<r>>, "probe")}
  BY DEF ProbeWhole
<1>2. pass.type # "GateCompleted" /\ fail.type # "GateCompleted" /\ bad.type # "GateCompleted" /\ warm.type # "GateCompleted"
  BY DEF Event
<1>3. \A rows \in {<<pass>>, <<bad, warm, fail>>} : \A j \in DOMAIN rows : rows[j].type # "GateCompleted"
  <2> HIDE DEF pass, fail, bad, warm
  <2>1. DOMAIN <<pass>> = {1} /\ <<pass>>[1] = pass /\ DOMAIN <<bad, warm, fail>> = {1, 2, 3}
        /\ <<bad, warm, fail>>[1] = bad /\ <<bad, warm, fail>>[2] = warm /\ <<bad, warm, fail>>[3] = fail
    OBVIOUS
  <2> QED BY <1>2, <2>1
<1>4. r.persona = p
  BY DEF StepRun
<1> HIDE DEF r, pass, fail, bad, warm
<1>5. d.runs = (IF plan[w].probe THEN <<r>> ELSE <<>>) /\ d.rows \in {<<pass>>, <<bad, warm, fail>>}
  BY <1>1, DeedFields
<1>6. \A j \in DOMAIN d.runs : d.runs[j].persona = p
  <2>1. d.runs \in {<<>>, <<r>>, <<r, r>>}
    BY <1>5
  <2> QED BY <1>4, <2>1, OfPersona
<1> QED BY <1>3, <1>5, <1>6 DEF Adds, r

LEMMA ExecutionAdds ==
  ASSUME NEW w, NEW p, NEW d \in ExecutionWhole(w, p)
  PROVE  /\ Adds(d, "execution", w, p, plan[w].tasks)
         /\ \A j \in DOMAIN d.rows : d.rows[j].type # "GateCompleted"
         /\ \A j \in DOMAIN d.runs : d.runs[j].persona = p
<1> DEFINE r == StepRun("execution", w, p)
           nothing == Event("ExecutionCompleted", w, TRUE)
           failed == Event("ExecutionCompleted", w, FALSE)
           spec == Event("SpecCommitted", w, FALSE)
<1>1. d = IF ~plan[w].tasks THEN Deed(<<nothing>>, <<>>, "none") ELSE Deed(<<spec, failed>>, <<r>>, "none")
  BY DEF ExecutionWhole
<1>2. nothing.type # "GateCompleted" /\ failed.type # "GateCompleted" /\ spec.type # "GateCompleted"
  BY DEF Event
<1>3. \A rows \in {<<nothing>>, <<spec, failed>>} : \A j \in DOMAIN rows : rows[j].type # "GateCompleted"
  <2> HIDE DEF nothing, failed, spec
  <2>1. DOMAIN <<nothing>> = {1} /\ <<nothing>>[1] = nothing /\ DOMAIN <<spec, failed>> = {1, 2}
        /\ <<spec, failed>>[1] = spec /\ <<spec, failed>>[2] = failed
    OBVIOUS
  <2> QED BY <1>2, <2>1
<1>4. r.persona = p
  BY DEF StepRun
<1> HIDE DEF r, nothing, failed, spec
<1>5. d.runs = (IF plan[w].tasks THEN <<r>> ELSE <<>>) /\ d.rows \in {<<nothing>>, <<spec, failed>>}
  BY <1>1, DeedFields
<1>6. \A j \in DOMAIN d.runs : d.runs[j].persona = p
  <2>1. d.runs \in {<<>>, <<r>>, <<r, r>>}
    BY <1>5
  <2> QED BY <1>4, <2>1, OfPersona
<1> QED BY <1>3, <1>5, <1>6 DEF Adds, r

\* The gate runs if there is a workspace, and the refresh if it passes.
LEMMA GateAdds ==
  ASSUME NEW w, NEW p, NEW d \in GateWhole(w, p)
  PROVE  \/ ~plan[w].workspace /\ d.rows = <<Event("GateCompleted", w, TRUE)>> /\ d.runs = <<>>
         \/ /\ plan[w].workspace /\ d.rows = <<Event("GatePassed", w, TRUE), Event("GateCompleted", w, TRUE)>>
            /\ d.runs = <<StepRun("gate", w, p), StepRun("refresh", w, p)>>
         \/ /\ plan[w].workspace /\ d.rows = <<Event("GateFailed", w, FALSE), Event("GateCompleted", w, FALSE)>>
            /\ d.runs = <<StepRun("gate", w, p)>>
<1> DEFINE r == StepRun("gate", w, p)
           r2 == StepRun("refresh", w, p)
           pass == Event("GateCompleted", w, TRUE)
           fail == Event("GateCompleted", w, FALSE)
           good == Event("GatePassed", w, TRUE)
           bad == Event("GateFailed", w, FALSE)
<1>1. d \in IF ~plan[w].workspace THEN {Deed(<<pass>>, <<>>, "none")}
            ELSE {Deed(<<good, pass>>, <<r, r2>>, "gate"), Deed(<<bad, fail>>, <<r>>, "none")}
  BY DEF GateWhole
<1> HIDE DEF r, r2, pass, fail, good, bad
<1>2. \/ ~plan[w].workspace /\ d.rows = <<pass>> /\ d.runs = <<>>
      \/ plan[w].workspace /\ d.rows = <<good, pass>> /\ d.runs = <<r, r2>>
      \/ plan[w].workspace /\ d.rows = <<bad, fail>> /\ d.runs = <<r>>
  BY <1>1, DeedFields
<1> QED BY <1>2 DEF r, r2, pass, fail, good, bad

LEMMA GatePersona ==
  ASSUME NEW w, NEW p, NEW d \in GateWhole(w, p), NEW j \in DOMAIN d.runs
  PROVE  d.runs[j].persona = p
<1> DEFINE a == StepRun("gate", w, p)
           b == StepRun("refresh", w, p)
<1>1. a.persona = p /\ b.persona = p
  BY DEF StepRun
<1>2. d.runs = <<>> \/ d.runs = <<a, b>> \/ d.runs = <<a>>
  BY GateAdds, Zenon
<1> HIDE DEF a, b
<1>3. d.runs \in {<<>>, <<a>>, <<a, b>>}
  BY <1>2
<1> QED BY <1>1, <1>3, OfPersona

\* While nothing has raised, it is the newest runner that fires, for the call
\* under way.
LEMMA NewestFires ==
  ASSUME Ground, CleanSoFar, faults = 0, NEW i, NEW e, NEW d, Does(i, e, d)
  PROVE  /\ i = Newest /\ Phase(e.w) /\ e = Top.event /\ e.w \in Workflows /\ Newest \in DOMAIN runners
         /\ e.type \in Handled /\ e.type \notin runners[Newest].fired /\ outcome[e.w] = "running"
         /\ \A v \in Workflows : outcome[v] = "running" => v = e.w
<1> USE DEF Ground
<1>1. Handling(i, e) /\ i \in DOMAIN runners /\ e.type \in Handled /\ e.type \notin runners[i].fired
  BY DEF Does
<1>2. i = Newest
  BY <1>1 DEF CleanSoFar
<1>3. e = Top.event /\ e.w \in Workflows /\ outcome[e.w] = "running"
  BY <1>1, HandlingIs
<1>4. Phase(e.w)
  BY <1>3 DEF CleanSoFar
<1> QED BY <1>1, <1>2, <1>3, <1>4 DEF CallUnderWay

\* The event a firing hands on is the next that its runner handles.
LEMMA NextUpGoes ==
  ASSUME TypeOK, CallUnderWay, NEW i, NEW e, NEW d, Goes(i, e, d), NEW type \in Handled, Last(d.rows).type = type
  PROVE  NextUp(type)'
<1> DEFINE g == Last(d.rows)
<1>1. Does(i, e, d)
  BY DEF Goes
<1>2. g \in Events /\ stack' \in Seq(Frames) /\ Len(stack') = Len(stack) + 1 /\ stack'[Len(stack) + 1] = Publication(g)
  BY GoesStack
<1>3. Top' = Publication(g)
  BY <1>2 DEF Top, Last
<1>4. Publication(g).event = g /\ \A j \in DOMAIN runners : j \in Range(Publication(g).todo)
  BY <1>2, PublicationIs
<1>5. Newest' = Newest /\ Newest \in DOMAIN runners
  BY <1>1, FiredDoes
<1> QED BY <1>3, <1>4, <1>5 DEF NextUp

LEMMA MarkedNewest ==
  ASSUME Ground, CleanSoFar, faults = 0, NEW i, NEW e, NEW d, Does(i, e, d)
  PROVE  /\ Newest' = Newest /\ runners'[Newest].fired = runners[Newest].fired \cup {e.type}
         /\ runners'[Newest].persona = Speaker(i, e)
         /\ \A j \in DOMAIN runners' : j \in DOMAIN runners /\ (j # Newest => runners'[j] = runners[j])
<1> USE DEF Ground
<1>1. i = Newest
  BY NewestFires
<1>2. i \in DOMAIN runners /\ e \in Events /\ e.type \in Handled /\ Mark(i, e)
  BY DEF Does
<1> QED BY <1>1, <1>2, MarkIs DEF Newest

LEMMA Tails ==
  ASSUME NEW s \in Seq(Steps), NEW step \in Steps
  PROVE  s \o OneIf(TRUE, step) = Append(s, step) /\ s \o OneIf(FALSE, step) = s
<1>1. OneIf(TRUE, step) = <<step>> /\ OneIf(FALSE, step) = <<>>
  BY DEF OneIf
<1>2. s \o <<step>> = Append(s, step)
  OBVIOUS
<1>3. s \o <<>> = s
  OBVIOUS
<1> QED BY <1>1, <1>2, <1>3

\* Each handler takes its call from one phase to the next.
LEMMA ProbePhase ==
  ASSUME Ground, CleanSoFar, faults = 0, faults' = 0, NEW i, NEW e, NEW d, Goes(i, e, d), e.type = "WorkflowStarted"
  PROVE  Phase(e.w)' /\ \A j \in DOMAIN d.runs : d.runs[j].persona = plan[e.w].persona
<1> USE DEF Ground
<1> DEFINE w == e.w
           p == plan[w].persona
<1>1. Does(i, e, d) /\ d \in ProbeWhole(w, p)
  BY DEF Goes, Wholes, Speaker
<1>2. w \in Workflows /\ Phase(w) /\ Top.event = e /\ runners[Newest].fired = {}
  <2>1. w \in Workflows /\ Phase(w) /\ Top.event = e /\ "WorkflowStarted" \notin runners[Newest].fired
    BY <1>1, NewestFires
  <2> QED BY <2>1 DEF Phase, Handled
<1>3. StepsRun(w) = <<>> /\ Before(w)
  BY <1>2 DEF Phase, Handled
<1>4. Adds(d, "probe", w, p, plan[w].probe) /\ (\A j \in DOMAIN d.rows : d.rows[j].type # "GateCompleted")
      /\ \A j \in DOMAIN d.runs : d.runs[j].persona = p
  BY <1>1, ProbeAdds
<1>5. /\ Newest' = Newest /\ runners'[Newest].fired = {"WorkflowStarted"} /\ runners'[Newest].persona = p /\ plan' = plan
  BY <1>1, <1>2, MarkedNewest DEF Speaker, Does
<1>6. NextUp("ProbeCompleted")'
  <2>1. Last(d.rows).type = "ProbeCompleted"
    BY <1>1, HandsOn DEF Wholes
  <2> QED BY <2>1, NextUpGoes DEF Handled
<1>7. StepsRun(w)' = OneIf(plan[w].probe, "probe")
  <2>1. p \in Personas
    <3>1. plan[w] \in Plans \cup {NoPlan}
      BY <1>2 DEF TypeOK
    <3> QED BY <3>1 DEF Personas, NoPlan
  <2>2. CASE plan[w].probe
    <3>1. d.runs = <<StepRun("probe", w, p)>>
      BY <1>4, <2>2 DEF Adds
    <3>2. StepsRun(w)' = Append(StepsRun(w), "probe")
      BY <1>1, <1>2, <2>1, <3>1, StepsDoes DEF Steps
    <3> QED BY <1>3, <2>2, <3>2, Tuple1 DEF OneIf
  <2>3. CASE ~plan[w].probe
    <3>1. d.runs = <<>>
      BY <1>4, <2>3 DEF Adds
    <3> QED BY <1>1, <1>2, <1>3, <2>3, <3>1, StepsDoes DEF OneIf
  <2> QED BY <2>2, <2>3
<1>8. Before(w)'
  BY <1>1, <1>2, <1>3, <1>4, CountDoes DEF Before
<1> QED BY <1>4, <1>5, <1>6, <1>7, <1>8 DEF Phase

LEMMA ExecutionPhase ==
  ASSUME Ground, CleanSoFar, faults = 0, faults' = 0, NEW i, NEW e, NEW d, Goes(i, e, d), e.type = "ProbeCompleted"
  PROVE  Phase(e.w)' /\ \A j \in DOMAIN d.runs : d.runs[j].persona = plan[e.w].persona
<1> USE DEF Ground
<1> DEFINE w == e.w
           p == plan[w].persona
           r == runners[Newest]
<1>1. Does(i, e, d) /\ d \in ExecutionWhole(w, runners[i].persona) /\ Speaker(i, e) = runners[i].persona
  BY DEF Goes, Wholes, Speaker
<1>2. w \in Workflows /\ Phase(w) /\ Top.event = e /\ i = Newest /\ r.fired = {"WorkflowStarted"}
  <2>1. w \in Workflows /\ Phase(w) /\ Top.event = e /\ "ProbeCompleted" \notin r.fired /\ i = Newest
    BY <1>1, NewestFires
  <2> QED BY <2>1 DEF Phase, Handled, NextUp
<1>3. StepsRun(w) = OneIf(plan[w].probe, "probe") /\ Before(w) /\ r.persona = p
  BY <1>2 DEF Phase, Handled
<1>4. Adds(d, "execution", w, p, plan[w].tasks) /\ (\A j \in DOMAIN d.rows : d.rows[j].type # "GateCompleted")
      /\ \A j \in DOMAIN d.runs : d.runs[j].persona = p
  BY <1>1, <1>2, <1>3, ExecutionAdds
<1>5. /\ Newest' = Newest /\ runners'[Newest].fired = {"WorkflowStarted", "ProbeCompleted"} /\ runners'[Newest].persona = p /\ plan' = plan
  <2>1. /\ Newest' = Newest /\ runners'[Newest].fired = r.fired \cup {e.type} /\ runners'[Newest].persona = Speaker(i, e)
    BY <1>1, MarkedNewest
  <2>2. plan' = plan
    BY <1>1 DEF Does
  <2>3. r.fired \cup {e.type} = {"WorkflowStarted", "ProbeCompleted"}
    BY <1>2
  <2> QED BY <1>1, <1>2, <1>3, <2>1, <2>2, <2>3
<1>6. NextUp("ExecutionCompleted")'
  <2>1. Last(d.rows).type = "ExecutionCompleted"
    BY <1>1, HandsOn DEF Wholes
  <2> QED BY <2>1, NextUpGoes DEF Handled
<1>7. StepsRun(w)' = OneIf(plan[w].probe, "probe") \o OneIf(plan[w].tasks, "execution")
  <2>1. p \in Personas
    <3>1. plan[w] \in Plans \cup {NoPlan}
      BY <1>2 DEF TypeOK
    <3> QED BY <3>1 DEF Personas, NoPlan
  <2> DEFINE s == StepsRun(w)
  <2>2. s \in Seq(Steps) /\ s \o OneIf(TRUE, "execution") = Append(s, "execution") /\ s \o OneIf(FALSE, "execution") = s
    BY StepsRunType, Tails DEF Steps
  <2>3. CASE plan[w].tasks
    <3>1. d.runs = <<StepRun("execution", w, p)>>
      BY <1>4, <2>3 DEF Adds
    <3>2. StepsRun(w)' = Append(StepsRun(w), "execution")
      BY <1>1, <1>2, <2>1, <3>1, StepsDoes DEF Steps
    <3>3. OneIf(plan[w].tasks, "execution") = OneIf(TRUE, "execution")
      BY <2>3 DEF OneIf
    <3> QED BY <1>3, <2>2, <3>2, <3>3
  <2>4. CASE ~plan[w].tasks
    <3>1. d.runs = <<>>
      BY <1>4, <2>4 DEF Adds
    <3>2. StepsRun(w)' = StepsRun(w)
      BY <1>1, <1>2, <3>1, StepsDoes
    <3>3. OneIf(plan[w].tasks, "execution") = OneIf(FALSE, "execution")
      BY <2>4 DEF OneIf
    <3> QED BY <1>3, <2>2, <3>2, <3>3
  <2> QED BY <2>3, <2>4
<1>8. Before(w)'
  BY <1>1, <1>2, <1>3, <1>4, CountDoes DEF Before
<1> QED BY <1>4, <1>5, <1>6, <1>7, <1>8 DEF Phase

LEMMA GatePhase ==
  ASSUME Ground, CleanSoFar, faults = 0, faults' = 0, NEW i, NEW e, NEW d, Goes(i, e, d), e.type = "ExecutionCompleted"
  PROVE  Phase(e.w)' /\ \A j \in DOMAIN d.runs : d.runs[j].persona = plan[e.w].persona
<1> USE DEF Ground
<1> DEFINE w == e.w
           p == plan[w].persona
           r == runners[Newest]
           head == OneIf(plan[w].probe, "probe") \o OneIf(plan[w].tasks, "execution")
           s == StepsRun(w)
           count == CountRows("GateCompleted", w)
<1>1. Does(i, e, d) /\ Speaker(i, e) = runners[i].persona
  BY DEF Goes, Speaker
<1>2. d \in GateWhole(w, runners[i].persona)
  <2>1. d \in Wholes(e.type, w, Speaker(i, e)) \/ faults' = faults + 1
    BY DEF Goes
  <2> QED BY <1>1, <2>1 DEF Wholes
<1>3. w \in Workflows /\ Phase(w) /\ Top.event = e /\ i = Newest /\ r.fired = {"WorkflowStarted", "ProbeCompleted"}
  <2>1. w \in Workflows /\ Phase(w) /\ Top.event = e /\ "ExecutionCompleted" \notin r.fired /\ i = Newest
    BY <1>1, NewestFires
  <2> QED BY <2>1 DEF Phase, Handled, NextUp
<1>4. s = head /\ Before(w) /\ r.persona = p
  <2>1. r.fired # {} /\ r.fired # {"WorkflowStarted"} /\ r.fired # Handled
    BY <1>3 DEF Handled
  <2> QED BY <1>3, <2>1 DEF Phase
<1>5. d \in GateWhole(w, p)
  BY <1>2, <1>3, <1>4
<1>6. ASSUME NEW j \in DOMAIN d.runs PROVE d.runs[j].persona = p
  BY <1>5, <1>6, GatePersona
<1>7. /\ Newest' = Newest /\ runners'[Newest].fired = Handled /\ plan' = plan
  <2>1. /\ Newest' = Newest /\ runners'[Newest].fired = r.fired \cup {e.type}
    BY <1>1, MarkedNewest
  <2>2. plan' = plan
    BY <1>1 DEF Does
  <2>3. r.fired \cup {e.type} = Handled
    BY <1>3 DEF Handled
  <2> QED BY <2>1, <2>2, <2>3
<1>8. s \in Seq(Steps) /\ p \in Personas
  <2>1. plan[w] \in Plans \cup {NoPlan}
    BY <1>3 DEF TypeOK
  <2>2. p \in Personas
    BY <2>1 DEF Personas, NoPlan
  <2> QED BY <2>2, StepsRunType
<1>9. count = 0 /\ ~Passed(w)
  BY <1>4 DEF Before
<1>10. /\ \A steps \in Seq(Steps) : /\ steps \o OneIf(TRUE, "gate") = Append(steps, "gate") /\ steps \o OneIf(FALSE, "gate") = steps
                                  /\ steps \o OneIf(TRUE, "refresh") = Append(steps, "refresh") /\ steps \o OneIf(FALSE, "refresh") = steps
                                  /\ Append(steps, "gate") \in Seq(Steps)
  <2>1. \A steps \in Seq(Steps), step \in Steps :
            steps \o OneIf(TRUE, step) = Append(steps, step) /\ steps \o OneIf(FALSE, step) = steps
    BY Tails
  <2>2. "gate" \in Steps /\ "refresh" \in Steps
    BY DEF Steps
  <2> HIDE DEF Steps
  <2>3. \A steps \in Seq(Steps) : Append(steps, "gate") \in Seq(Steps)
    BY <2>2
  <2> QED BY <2>1, <2>2, <2>3
<1>11. ExpectedSteps(plan[w], Passed(w)')
          = (s \o OneIf(plan[w].workspace, "gate")) \o OneIf(plan[w].workspace /\ Passed(w)', "refresh")
  BY <1>4 DEF ExpectedSteps
<1> HIDE DEF head
<1>12. /\ \A ok \in BOOLEAN : d.rows = <<Event("GateCompleted", w, ok)>> =>
             CountRows("GateCompleted", w)' = count + 1 /\ (Passed(w)' <=> (Passed(w) \/ ok))
       /\ \A a : \A ok \in BOOLEAN : (a.type # "GateCompleted" /\ d.rows = <<a, Event("GateCompleted", w, ok)>>) =>
             CountRows("GateCompleted", w)' = count + 1 /\ (Passed(w)' <=> (Passed(w) \/ ok))
  BY <1>1, <1>3, CountDoes
<1>13. StepsRun(w)' = ExpectedSteps(plan[w], Passed(w)') /\ CountRows("GateCompleted", w)' = 1
  <2>1. CASE ~plan[w].workspace /\ d.rows = <<Event("GateCompleted", w, TRUE)>> /\ d.runs = <<>>
    <3>1. StepsRun(w)' = s
      BY <1>1, <1>3, <2>1, StepsDoes
    <3>2. CountRows("GateCompleted", w)' = 1
      <4>1. CountRows("GateCompleted", w)' = count + 1
        BY <1>12, <2>1
      <4> QED BY <1>9, <4>1
    <3>3. OneIf(plan[w].workspace, "gate") = OneIf(FALSE, "gate")
      BY <2>1 DEF OneIf
    <3>4. OneIf(plan[w].workspace /\ Passed(w)', "refresh") = OneIf(FALSE, "refresh")
      BY <2>1 DEF OneIf
    <3> QED BY <1>8, <1>10, <1>11, <3>1, <3>2, <3>3, <3>4
  <2>2. CASE /\ plan[w].workspace /\ d.rows = <<Event("GatePassed", w, TRUE), Event("GateCompleted", w, TRUE)>>
             /\ d.runs = <<StepRun("gate", w, p), StepRun("refresh", w, p)>>
    <3>1. StepsRun(w)' = Append(Append(s, "gate"), "refresh")
      BY <1>1, <1>3, <1>8, <2>2, StepsDoes
    <3>2. CountRows("GateCompleted", w)' = 1 /\ Passed(w)'
      <4>1. Event("GatePassed", w, TRUE).type # "GateCompleted"
        BY DEF Event
      <4>2. CountRows("GateCompleted", w)' = count + 1 /\ (Passed(w)' <=> (Passed(w) \/ TRUE))
        BY <1>12, <2>2, <4>1
      <4> QED BY <1>9, <4>2
    <3>3. OneIf(plan[w].workspace, "gate") = OneIf(TRUE, "gate")
      BY <2>2 DEF OneIf
    <3>4. OneIf(plan[w].workspace /\ Passed(w)', "refresh") = OneIf(TRUE, "refresh")
      BY <2>2, <3>2 DEF OneIf
    <3> QED BY <1>8, <1>10, <1>11, <3>1, <3>2, <3>3, <3>4
  <2>3. CASE /\ plan[w].workspace /\ d.rows = <<Event("GateFailed", w, FALSE), Event("GateCompleted", w, FALSE)>>
             /\ d.runs = <<StepRun("gate", w, p)>>
    <3>1. StepsRun(w)' = Append(s, "gate")
      BY <1>1, <1>3, <1>8, <2>3, StepsDoes DEF Steps
    <3>2. CountRows("GateCompleted", w)' = 1 /\ ~Passed(w)'
      <4>1. Event("GateFailed", w, FALSE).type # "GateCompleted"
        BY DEF Event
      <4>2. CountRows("GateCompleted", w)' = count + 1 /\ (Passed(w)' <=> (Passed(w) \/ FALSE))
        BY <1>12, <2>3, <4>1
      <4> QED BY <1>9, <4>2
    <3>3. OneIf(plan[w].workspace, "gate") = OneIf(TRUE, "gate")
      BY <2>3 DEF OneIf
    <3>4. OneIf(plan[w].workspace /\ Passed(w)', "refresh") = OneIf(FALSE, "refresh")
      BY <2>3, <3>2 DEF OneIf
    <3> QED BY <1>8, <1>10, <1>11, <3>1, <3>2, <3>3, <3>4
  <2>4. \/ ~plan[w].workspace /\ d.rows = <<Event("GateCompleted", w, TRUE)>> /\ d.runs = <<>>
        \/ /\ plan[w].workspace /\ d.rows = <<Event("GatePassed", w, TRUE), Event("GateCompleted", w, TRUE)>>
           /\ d.runs = <<StepRun("gate", w, p), StepRun("refresh", w, p)>>
        \/ /\ plan[w].workspace /\ d.rows = <<Event("GateFailed", w, FALSE), Event("GateCompleted", w, FALSE)>>
           /\ d.runs = <<StepRun("gate", w, p)>>
    BY <1>5, GateAdds, Zenon
  <2> QED BY <2>1, <2>2, <2>3, <2>4
<1> QED BY <1>7, <1>13, <1>6 DEF Phase, Whole


\* What a call keeps of another: the steps run and the rows stay.
LEMMA WholeStays ==
  ASSUME NEW w, StepsRun(w)' = StepsRun(w), CountRows("GateCompleted", w)' = CountRows("GateCompleted", w),
         Passed(w)' = Passed(w), plan'[w] = plan[w], Whole(w)
  PROVE  Whole(w)'
BY DEF Whole

LEMMA CleanGoes ==
  ASSUME Ground, CleanSoFar, faults = 0, faults' = 0, NEW i, NEW e, NEW d, Goes(i, e, d)
  PROVE  CleanSoFar'
<1> USE DEF Ground
<1>1. Does(i, e, d) /\ outcome' = outcome /\ plan' = plan
  BY DEF Goes, Does
<1>2. /\ e.w \in Workflows /\ outcome[e.w] = "running" /\ e.type \in Handled
      /\ \A v \in Workflows : outcome[v] = "running" => v = e.w
  BY <1>1, NewestFires
<1>3. \A j \in DOMAIN runners' : j # Newest' => runners'[j].fired = Handled
  BY <1>1, MarkedNewest DEF CleanSoFar
<1>4. Phase(e.w)' /\ \A j \in DOMAIN d.runs : d.runs[j].persona = plan[e.w].persona
  <2>1. e.type \in {"WorkflowStarted", "ProbeCompleted", "ExecutionCompleted"}
    BY <1>2 DEF Handled
  <2> QED BY <2>1, ProbePhase, ExecutionPhase, GatePhase
<1>5. \A k \in DOMAIN ran' : ran'[k].persona = plan'[ran'[k].w].persona
  <2>1. TAKE k \in DOMAIN ran'
  <2>2. CASE k \in DOMAIN ran
    <3>1. ran'[k] = ran[k] /\ ran[k].persona = plan[ran[k].w].persona
      BY <1>1, <2>2, LongerRan DEF CleanSoFar
    <3> QED BY <1>1, <3>1
  <2>3. ASSUME NEW j \in DOMAIN d.runs, ran'[k] = d.runs[j] PROVE ran'[k].persona = plan'[ran'[k].w].persona
    <3>1. RunsFine(e.w, e.type, d.rows, d.runs)
      BY <1>1 DEF Does, Fine
    <3>2. d.runs[j].w = e.w
      BY <3>1, RunsAreOf
    <3> QED BY <1>1, <1>4, <2>3, <3>2
  <2> QED BY <1>1, <2>2, <2>3, LongerRan
<1>6. \A v \in Workflows : outcome'[v] = "running" => Phase(v)'
  BY <1>1, <1>2, <1>4
<1>7. ASSUME NEW v \in Workflows, outcome'[v] = "returned" PROVE Whole(v)'
  <2>1. v # e.w /\ Whole(v)
    BY <1>1, <1>2, <1>7 DEF CleanSoFar
  <2>2. StepsRun(v)' = StepsRun(v)
    BY <1>1, <2>1, StepsDoes
  <2>3. CountRows("GateCompleted", v)' = CountRows("GateCompleted", v) /\ Passed(v)' = Passed(v)
    BY <1>1, <2>1, CountDoes
  <2> QED BY <1>1, <2>1, <2>2, <2>3, WholeStays
<1> QED BY <1>3, <1>5, <1>6, <1>7 DEF CleanSoFar

\* Between calls nobody is left over, so the call's own runner is alone at work.
LEMMA CleanCall ==
  ASSUME Ground, LeftOver, CleanSoFar, faults = 0, faults' = 0, NEW w \in Workflows, NEW pl \in Plans, Call(w, pl)
  PROVE  CleanSoFar'
<1> USE DEF Ground
<1> DEFINE new == Event("WorkflowStarted", w, TRUE)
           n == Len(runners)
           audience == [j \in DOMAIN runners' |-> j]
<1>1. /\ stack = <<>> /\ outcome[w] = "idle" /\ outcome' = [outcome EXCEPT ![w] = "running"] /\ ran' = ran
      /\ runners' = Append(runners, NewRunner) /\ plan' = [plan EXCEPT ![w] = pl] /\ log' = Append(log, new)
      /\ stack' = <<[event |-> new, todo |-> audience]>>
  BY DEF Call
<1>2. new \in Events /\ new.type = "WorkflowStarted"
  <2>1. new \in Events
    BY EventType DEF Types
  <2> QED BY <2>1 DEF Event
<1>3. runners \in Seq(Runners) /\ n \in Nat /\ DOMAIN runners = 1..n
  BY DEF TypeOK, Runners
<1>4. /\ runners' \in Seq(Runners) /\ Newest' = n + 1 /\ DOMAIN runners' = 1..(n + 1)
      /\ runners'[n + 1] = NewRunner /\ \A j \in DOMAIN runners : runners'[j] = runners[j]
  <2>1. NewRunner \in Runners
    BY DEF NewRunner, Runners, Personas
  <2> HIDE DEF Runners
  <2>2. Len(runners') = n + 1 /\ runners' \in Seq(Runners)
    BY <1>1, <1>3, <2>1
  <2>3. Newest' = n + 1
    BY <2>2 DEF Newest
  <2> QED BY <1>1, <1>3, <2>1, <2>2, <2>3
<1>5. \A j \in DOMAIN runners : runners[j].fired = Handled
  <2>1. Slack
    BY <1>1 DEF LeftOver
  <2>2. ASSUME NEW type \in Handled PROVE Lacking(type) = {}
    <3>1. IsFiniteSet(Lacking(type)) /\ Cardinality(Lacking(type)) \in Nat /\ Cardinality(Lacking(type)) <= 0
      BY <2>1, LackingFinite DEF Slack
    <3>2. Cardinality(Lacking(type)) = 0
      BY <3>1
    <3> QED BY <3>1, <3>2, FS_EmptySet
  <2>3. ASSUME NEW j \in DOMAIN runners PROVE runners[j].fired = Handled
    <3>1. \A type \in Handled : type \in runners[j].fired
      BY <2>2 DEF Lacking
    <3>2. runners[j] \in Runners
      BY <1>3
    <3>3. runners[j].fired \subseteq Handled
      BY <3>2 DEF Runners
    <3> QED BY <3>1, <3>3
  <2> QED BY <2>3
<1>6. \A j \in DOMAIN runners' : j # Newest' => runners'[j].fired = Handled
  <2>1. \A j \in DOMAIN runners' : j # Newest' => j \in DOMAIN runners
    BY <1>3, <1>4
  <2> QED BY <1>4, <1>5, <2>1
<1>7. \A v \in Workflows : outcome'[v] = (IF v = w THEN "running" ELSE outcome[v]) /\ (v # w => plan'[v] = plan[v])
  BY <1>1 DEF TypeOK
<1>8. \A k \in DOMAIN ran' : ran'[k].persona = plan'[ran'[k].w].persona
  <2>1. TAKE k \in DOMAIN ran'
  <2>2. ran'[k] = ran[k] /\ k \in DOMAIN ran
    BY <1>1
  <2>3. ran[k] \in StepRuns
    BY <2>2 DEF TypeOK
  <2>4. ran[k].w \in Workflows /\ ran[k].w # w
    BY <1>1, <2>2, <2>3 DEF OfCalls, StepRuns
  <2>5. ran[k].persona = plan[ran[k].w].persona
    BY <2>2 DEF CleanSoFar
  <2> QED BY <1>7, <2>2, <2>4, <2>5
<1>9. \A v \in Workflows : /\ StepsRun(v)' = StepsRun(v)
                          /\ CountRows("GateCompleted", v)' = CountRows("GateCompleted", v) /\ Passed(v)' = Passed(v)
  <2>1. TAKE v \in Workflows
  <2>2. StepsRun(v)' = StepsRun(v)
    BY <1>1 DEF StepsRun
  <2>3. CountRows("GateCompleted", v)' = CountRows("GateCompleted", v) /\ Passed(v)' = Passed(v)
    <3>1. new.type # "GateCompleted" /\ new \in Events /\ log' = Append(log, new)
      BY <1>1, <1>2
    <3> HIDE DEF new
    <3> QED BY <3>1, CountCall
  <2> QED BY <2>2, <2>3
<1>10. NextUp("WorkflowStarted")'
  <2> HIDE DEF new, audience
  <2>1. Top' = [event |-> new, todo |-> audience]
    BY <1>1 DEF Top, Last
  <2>2. Top'.event.type = "WorkflowStarted" /\ Top'.todo = audience
    BY <1>2, <2>1
  <2>3. n + 1 \in Range(audience)
    <3>1. n + 1 \in DOMAIN runners'
      BY <1>3, <1>4
    <3> QED BY <1>4, <3>1, AudienceType DEF audience
  <2> QED BY <1>4, <2>2, <2>3 DEF NextUp
<1>11. Phase(w)'
  <2>1. Before(w)' /\ StepsRun(w)' = <<>>
    BY <1>1, <1>9, CountIdle, StepsRunIdle DEF Before
  <2>2. runners'[Newest'].fired = {}
    BY <1>4 DEF NewRunner
  <2> QED BY <1>10, <2>1, <2>2 DEF Phase
<1>12. \A v \in Workflows : outcome'[v] = "running" => Phase(v)'
  <2>1. \A v \in Workflows : outcome[v] # "running"
    BY <1>1 DEF CallUnderWay
  <2> QED BY <1>7, <1>11, <2>1
<1>13. ASSUME NEW v \in Workflows, outcome'[v] = "returned" PROVE Whole(v)'
  <2>1. v # w /\ outcome[v] = "returned"
    BY <1>7, <1>13
  <2>2. Whole(v) /\ plan'[v] = plan[v]
    BY <1>7, <2>1 DEF CleanSoFar
  <2> QED BY <1>9, <2>2, WholeStays
<1> QED BY <1>6, <1>8, <1>12, <1>13 DEF CleanSoFar

\* The outermost publication returns only once every runner has fired.
LEMMA CleanPop ==
  ASSUME Ground, CleanSoFar, faults = 0, Pop
  PROVE  CleanSoFar'
<1> USE DEF Ground
<1>1. /\ stack # <<>> /\ Top.todo = <<>> /\ runners' = runners /\ ran' = ran /\ log' = log /\ plan' = plan
      /\ outcome' = IF stack' = <<>> THEN [outcome EXCEPT ![Current] = "returned"] ELSE outcome
  BY DEF Pop
<1>2. \A type : ~NextUp(type)
  <2>1. Range(Top.todo) = {}
    BY <1>1 DEF Range
  <2> QED BY <2>1 DEF NextUp
<1>3. \A v \in Workflows : outcome[v] = "running" => runners[Newest].fired = Handled /\ Whole(v)
  BY <1>2 DEF CleanSoFar, Phase
<1>4. Newest' = Newest
  BY <1>1 DEF Newest
<1>5. ASSUME NEW v \in Workflows, Whole(v) PROVE Whole(v)'
  <2>1. StepsRun(v)' = StepsRun(v) /\ CountRows("GateCompleted", v)' = CountRows("GateCompleted", v) /\ Passed(v)' = Passed(v)
    BY <1>1 DEF StepsRun, CountRows, Passed, Has
  <2> QED BY <1>1, <1>5, <2>1, WholeStays
<1>6. ASSUME NEW v \in Workflows, outcome'[v] = "running" PROVE Phase(v)'
  <2>1. outcome[v] = "running"
    BY <1>1, <1>6 DEF TypeOK
  <2> QED BY <1>1, <1>3, <1>4, <1>5, <2>1 DEF Phase
<1>7. ASSUME NEW v \in Workflows, outcome'[v] = "returned" PROVE Whole(v)'
  <2>1. outcome[v] = "returned" \/ outcome[v] = "running"
    BY <1>1, <1>7, CurrentIs DEF TypeOK
  <2> QED BY <1>3, <1>5, <2>1 DEF CleanSoFar
<1>8. \A j \in DOMAIN runners' : j # Newest' => runners'[j].fired = Handled
  BY <1>1, <1>4 DEF CleanSoFar
<1>9. \A k \in DOMAIN ran' : ran'[k].persona = plan'[ran'[k].w].persona
  BY <1>1 DEF CleanSoFar
<1> QED BY <1>6, <1>7, <1>8, <1>9 DEF CleanSoFar

\* The older runners step aside: the newest is still to be called.
LEMMA CleanSkip ==
  ASSUME Ground, CleanSoFar, faults = 0, NEW i, NEW e, Skip(i, e)
  PROVE  CleanSoFar'
<1> USE DEF Ground
<1>1. /\ Handling(i, e) /\ e.type \in runners[i].fired /\ stack' = Rest
      /\ runners' = runners /\ ran' = ran /\ log' = log /\ plan' = plan /\ outcome' = outcome
  BY DEF Skip
<1>2. Newest' = Newest
  BY <1>1 DEF Newest
<1>3. ASSUME NEW v \in Workflows, Whole(v) PROVE Whole(v)'
  <2>1. StepsRun(v)' = StepsRun(v) /\ CountRows("GateCompleted", v)' = CountRows("GateCompleted", v) /\ Passed(v)' = Passed(v)
    BY <1>1 DEF StepsRun, CountRows, Passed, Has
  <2> QED BY <1>1, <1>3, <2>1, WholeStays
<1>4. /\ stack # <<>> /\ Top.todo # <<>> /\ i = Head(Top.todo) /\ e = Top.event
      /\ Top.todo \in Seq(DOMAIN runners)
  BY <1>1, TopIs DEF Handling
<1>5. Top'.event = Top.event /\ Top'.todo = Tail(Top.todo)
  <2>1. Len(Rest) = Len(stack) /\ Rest[Len(stack)].event = Top.event /\ Rest[Len(stack)].todo = Tail(Top.todo)
    BY <1>4, RestIs
  <2>2. Top' = Rest[Len(stack)]
    BY <1>1, <2>1 DEF Top, Last
  <2> QED BY <2>1, <2>2
<1>6. ASSUME NEW type, NextUp(type), type \notin runners[Newest].fired PROVE NextUp(type)'
  <2>1. Newest # i /\ Newest \in Range(Top.todo)
    BY <1>1, <1>4, <1>6 DEF NextUp
  <2>2. Newest \in Range(Tail(Top.todo))
    <3> DEFINE D == DOMAIN runners
               s == Top.todo
    <3>1. s \in Seq(D) /\ s # <<>> /\ Newest \in Range(s) /\ Newest # Head(s)
      BY <1>4, <2>1
    <3> HIDE DEF D, s
    <3>2. Newest \in Range(Tail(s))
      BY <3>1, TailRange
    <3> QED BY <3>2 DEF s
  <2> QED BY <1>2, <1>5, <1>6, <2>2 DEF NextUp
<1>7. ASSUME NEW v \in Workflows, outcome'[v] = "running" PROVE Phase(v)'
  <2>1. Phase(v)
    BY <1>1, <1>7 DEF CleanSoFar
  <2>2. runners'[Newest'] = runners[Newest] /\ StepsRun(v)' = StepsRun(v) /\ Before(v)' = Before(v) /\ plan' = plan
    BY <1>1, <1>2 DEF StepsRun, Before, CountRows, Passed, Has
  <2>3. CASE runners[Newest].fired = Handled /\ Whole(v)
    BY <1>3, <2>2, <2>3 DEF Phase
  <2>4. CASE /\ runners[Newest].fired = {} /\ NextUp("WorkflowStarted") /\ StepsRun(v) = <<>> /\ Before(v)
    <3>1. NextUp("WorkflowStarted")'
      BY <1>6, <2>4
    <3> QED BY <2>2, <2>4, <3>1 DEF Phase
  <2>5. CASE /\ runners[Newest].fired = {"WorkflowStarted"} /\ runners[Newest].persona = plan[v].persona /\ NextUp("ProbeCompleted")
             /\ StepsRun(v) = OneIf(plan[v].probe, "probe") /\ Before(v)
    <3>1. NextUp("ProbeCompleted")'
      BY <1>6, <2>5
    <3> QED BY <2>2, <2>5, <3>1 DEF Phase
  <2>6. CASE /\ runners[Newest].fired = {"WorkflowStarted", "ProbeCompleted"} /\ runners[Newest].persona = plan[v].persona
             /\ NextUp("ExecutionCompleted")
             /\ StepsRun(v) = OneIf(plan[v].probe, "probe") \o OneIf(plan[v].tasks, "execution") /\ Before(v)
    <3>1. NextUp("ExecutionCompleted")'
      BY <1>6, <2>6
    <3> QED BY <2>2, <2>6, <3>1 DEF Phase
  <2> QED BY <2>1, <2>3, <2>4, <2>5, <2>6 DEF Phase
<1>8. ASSUME NEW v \in Workflows, outcome'[v] = "returned" PROVE Whole(v)'
  BY <1>1, <1>3, <1>8 DEF CleanSoFar
<1>9. \A j \in DOMAIN runners' : j # Newest' => runners'[j].fired = Handled
  BY <1>1, <1>2 DEF CleanSoFar
<1>10. \A k \in DOMAIN ran' : ran'[k].persona = plan'[ran'[k].w].persona
  BY <1>1 DEF CleanSoFar
<1> QED BY <1>7, <1>8, <1>9, <1>10 DEF CleanSoFar

LEMMA CleanStep ==
  ASSUME Ground, LeftOver, CleanSoFar, [Next]_vars
  PROVE  CleanSoFar'
<1> USE DEF Ground
<1>1. faults \in Nat
  BY MaxFaultsNat DEF TypeOK
<1>2. CASE UNCHANGED vars
  <2>1. runners' = runners /\ ran' = ran /\ log' = log /\ plan' = plan /\ outcome' = outcome /\ stack' = stack /\ faults' = faults
    BY <1>2 DEF vars
  <2>2. \A w : StepsRun(w)' = StepsRun(w) /\ CountRows("GateCompleted", w)' = CountRows("GateCompleted", w) /\ Passed(w)' = Passed(w)
    BY <2>1 DEF StepsRun, CountRows, Passed, Has
  <2>3. Newest' = Newest /\ \A type : NextUp(type)' = NextUp(type)
    BY <2>1 DEF Newest, NextUp, Top
  <2>4. \A w : Before(w)' = Before(w) /\ Whole(w)' = Whole(w)
    BY <2>1, <2>2 DEF Before, Whole
  <2>5. \A w : Phase(w)' = Phase(w)
    BY <2>1, <2>2, <2>3, <2>4 DEF Phase
  <2> QED BY <2>1, <2>3, <2>4, <2>5 DEF CleanSoFar
<1>3. ASSUME NEW w \in Workflows, NEW pl \in Plans, Call(w, pl) PROVE CleanSoFar'
  <2>1. faults' = faults
    BY <1>3 DEF Call
  <2>2. CASE faults = 0
    BY <1>3, <2>1, <2>2, CleanCall
  <2>3. CASE faults # 0
    BY <2>1, <2>3 DEF CleanSoFar
  <2> QED BY <2>2, <2>3
<1>4. ASSUME faults' = faults + 1 PROVE CleanSoFar'
  <2>1. faults' # 0
    BY <1>1, <1>4
  <2> QED BY <2>1 DEF CleanSoFar
<1>5. CASE Pop
  <2>1. faults' = faults
    BY <1>5 DEF Pop
  <2> QED BY <1>5, <2>1, CleanPop DEF CleanSoFar
<1>6. ASSUME NEW i, NEW e, Skip(i, e) PROVE CleanSoFar'
  <2>1. faults' = faults
    BY <1>6 DEF Skip
  <2>2. CASE faults = 0
    BY <1>6, <2>2, CleanSkip
  <2>3. CASE faults # 0
    BY <2>1, <2>3 DEF CleanSoFar
  <2> QED BY <2>2, <2>3
<1>7. ASSUME NEW i, NEW e, NEW d, Goes(i, e, d) PROVE CleanSoFar'
  <2>1. faults' = faults \/ faults' = faults + 1
    BY <1>7 DEF Goes
  <2>2. CASE faults' = faults /\ faults = 0
    BY <1>7, <2>2, CleanGoes
  <2>3. CASE faults' = faults /\ faults # 0
    BY <2>3 DEF CleanSoFar
  <2> QED BY <1>4, <2>1, <2>2, <2>3
<1> QED BY <1>2, <1>3, <1>4, <1>5, <1>6, <1>7, StepCases DEF CallRaises, Breaks

-----------------------------------------------------------------------------
(* The inductive invariant *)

IInv == Ground /\ RepeatsLeft /\ LeftOver /\ CleanSoFar

LEMMA IInvInit == Init => IInv
<1> SUFFICES ASSUME Init PROVE IInv
  OBVIOUS
<1>1. Ground
  BY GroundInit
<1>2. runners = <<>> /\ stack = <<>> /\ ran = <<>> /\ faults = 0 /\ \A w \in Workflows : outcome[w] = "idle"
  BY DEF Init
<1>3. \A type : Lacking(type) = {} /\ Cardinality(Lacking(type)) = 0
  <2>1. \A type : Lacking(type) = {}
    BY <1>2 DEF Lacking
  <2> QED BY <2>1, FS_EmptySet
<1>4. RepeatsLeft
  BY <1>1, <1>2, TimesIdle DEF RepeatsLeft, Ground
<1>5. LeftOver
  BY <1>2, <1>3 DEF LeftOver, Slack
<1>6. CleanSoFar
  <2>1. DOMAIN runners = {} /\ DOMAIN ran = {}
    BY <1>2
  <2> QED BY <1>2, <2>1 DEF CleanSoFar
<1> QED BY <1>1, <1>4, <1>5, <1>6 DEF IInv

LEMMA IInvStep == IInv /\ [Next]_vars => IInv'
BY GroundStep, RepeatsStep, LeftOverStep, CleanStep DEF IInv

\* The bus is execute_workflow() as long as nothing raises, whatever runners
\* of earlier calls are still subscribed (run_pipeline_via_bus() never
\* unsubscribes one), and a step is repeated at most once per failure.
THEOREM StepsAreAlwaysAsPlanned == Spec => []StepsRunAsPlanned
<1>1. IInv => StepsRunAsPlanned
  <2> SUFFICES ASSUME IInv PROVE StepsRunAsPlanned
    OBVIOUS
  <2>1. RepeatsBounded
    BY DEF IInv, RepeatsLeft, RepeatsBounded
  <2>2. ASSUME faults = 0, NEW w \in Workflows, outcome[w] = "returned"
        PROVE  /\ StepsRun(w) = ExpectedSteps(plan[w], Has("GateCompleted", w, TRUE))
               /\ \A i \in DOMAIN ran : ran[i].w = w => ran[i].persona = plan[w].persona
               /\ CountRows("GateCompleted", w) = 1
    BY <2>2 DEF IInv, CleanSoFar, Whole, Passed
  <2> QED BY <2>1, <2>2 DEF StepsRunAsPlanned, CleanRunIsExecuteWorkflow
<1> QED BY <1>1, IInvInit, IInvStep, PTL DEF Spec
=============================================================================
