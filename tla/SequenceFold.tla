---------------------------- MODULE SequenceFold ----------------------------
(* Folding a sequence from the left with a function: step[e] is what the     *)
(* element e does to the value so far. A function, where the community       *)
(* modules take an operator, so that folds can be reasoned about.            *)
EXTENDS Naturals, Sequences

Fold(step, start, s) ==
    LET fold[n \in 0..Len(s)] == IF n = 0 THEN start ELSE step[s[n]][fold[n - 1]]
    IN  fold[Len(s)]

\* The weights of the elements, added up.
Add(weight) == [e \in DOMAIN weight |-> [n \in Nat |-> n + weight[e]]]
Sum(weight, s) == Fold(Add(weight), 0, s)
=============================================================================
