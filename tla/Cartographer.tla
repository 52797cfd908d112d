---------------------------- MODULE Cartographer ----------------------------
(***************************************************************************)
(* deterministic_cartographer() of core/context_map/cartographer.py: what  *)
(* one cycle makes of the context map of a corpus.                         *)
(*                                                                         *)
(* Summaries and the events that support them are left out, so that an     *)
(* entry is the cycles it was first and last seen in and its priority; a   *)
(* key always has the same observation type and size.  Weights, decay and  *)
(* sizes are integers (the configuration's decimals times a power of ten). *)
(***************************************************************************)
EXTENDS Integers, FiniteSets, SequencesExt, SequenceFold

CONSTANTS Keys,                          \* slugs
          SectionOf,                     \* SectionOf[k]: section of k's observation type
          Size,                          \* Size[k]: tokens of k's summary
          Share,                         \* Share[s]: tokens reserved for section s
          TokenBudget,                   \* token_budget
          Weight, Bonus, Cap, Penalty, Floor \* of k's observation type

\* The tokens of all of K, numbered, where k takes size[k] of them; and how many the entries K take.
Tokens(size, K) == UNION {{k} \X (1..size[k]) : k \in K}
Total(K) == Cardinality(Tokens(Size, K))

\* The configuration insists on a share for every section and on shares that add up to the whole,
\* give or take a thousandth; rounded down to tokens they are no more than the budget, as they are unless
\* somebody uses that tolerance.
ConfigIsValid ==
    /\ IsFiniteSet(Keys) /\ IsFiniteSet(DOMAIN Share)
    /\ \A k \in Keys : SectionOf[k] \in DOMAIN Share /\ Size[k] \in Nat
    /\ \A k \in Keys : {Weight[k], Bonus[k], Cap[k], Penalty[k], Floor[k]} \subseteq Int
    /\ \A s \in DOMAIN Share : Share[s] \in Nat
    /\ TokenBudget \in Nat /\ Cardinality(Tokens(Share, DOMAIN Share)) <= TokenBudget

Observations == [key : Keys, obsolete : BOOLEAN]
Entry == [first : Nat, last : Nat, priority : Int]
NoMap == [k \in {} |-> 0]
IsMap(map) == DOMAIN map \subseteq Keys /\ \A k \in DOMAIN map : map[k] \in Entry

Positive(n) == IF n > 0 THEN n ELSE 0
Least(a, b) == IF a < b THEN a ELSE b

\* _apply_priority: base + recency, up to its cap, - penalty per missed cycle.
Priority(k, first, last, n) ==
    Weight[k] + Least(Positive(n - first) * Bonus[k], Cap[k]) - Positive(n - last) * Penalty[k]

\* _stage_0_explicit_removals: keys of the map that the batch calls obsolete.
Obsolete(batch, map) == {o.key : o \in {p \in batch : p.obsolete}} \cap DOMAIN map

Observed(batch) == {o.key : o \in {p \in batch : ~p.obsolete}}

\* _dedup_and_merge over what stage 0 has left, with the new priorities.
Merged(batch, map, n) ==
    LET kept == DOMAIN map \ Obsolete(batch, map)
    IN  [k \in kept \cup Observed(batch) |->
            LET first == IF k \in kept THEN map[k].first ELSE n
                last  == IF k \in Observed(batch) THEN n ELSE map[k].last
            IN  [first |-> first, last |-> last, priority |-> Priority(k, first, last, n)]]

\* _evict_stale
Stale(map) == {k \in DOMAIN map : map[k].priority < Floor[k]}

InSection(K, s) == {k \in K : SectionOf[k] = s}

\* Mutant: an entry is measured alone, not with what the section holds already.
FitsAlone(K, k) == Size[k] <= Share[SectionOf[k]]

Fits(K, k) == Total(InSection(K, SectionOf[k])) + Size[k] <= Share[SectionOf[k]]

\* _enforce_budget, pass 1: entries in descending priority, ties in any order
\* (the time of the last update, then a random id); one that does not fit is
\* evicted and later, smaller ones may still fit.  As every section has a
\* share, nothing is left for pass 2.
Keep == [k \in Keys |-> [kept \in SUBSET Keys |-> IF Fits(kept, k) THEN kept \cup {k} ELSE kept]]
WithinBudget(map, K) ==
    LET ordered == {s \in SetToSeqs(K) : \A i, j \in DOMAIN s : i < j => map[s[i]].priority >= map[s[j]].priority}
    IN  {Fold(Keep, {}, s) : s \in ordered}

\* The possible results: the new map, and the evictions with their reasons.
Cartograph(batch, map, n) ==
    LET merged == Merged(batch, map, n)
        fresh  == DOMAIN merged \ Stale(merged)
        Evicted(K, reason) == {[key |-> k, reason |-> reason] : k \in K}
    IN  {[map |-> [k \in K |-> merged[k]],
          evicted |-> Evicted(Obsolete(batch, map), "obsolete") \cup Evicted(Stale(merged), "stale")
                        \cup Evicted(fresh \ K, "budget")] : K \in WithinBudget(merged, fresh)}
=============================================================================
