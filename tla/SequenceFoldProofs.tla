------------------------- MODULE SequenceFoldProofs -------------------------
(***************************************************************************)
(* What a fold does with the empty sequence, with one more element at      *)
(* either end and with a concatenation. The lemmas rest on induction over  *)
(* the naturals, in the form a first-order prover can use: a set that      *)
(* holds 0 and the successor of each of its members holds them all.        *)
(***************************************************************************)
EXTENDS SequenceFold, WellFoundedInduction, TLAPS

-----------------------------------------------------------------------------
(* Induction *)

\* A nonempty set of naturals has a least member.
LEMMA LeastMember ==
  ASSUME NEW T, T \subseteq Nat, T # {}
  PROVE  \E x \in T : \A y \in T : x <= y
<1> DEFINE R == OpToRel(<, Nat)
<1>1. IsWellFoundedOn(R, Nat)
  BY NatLessThanWellFounded
<1>2. \A x, y \in Nat : x < y => <<x, y>> \in R
  BY DEF OpToRel
<1> HIDE DEF R
<1>3. PICK x \in T : \A y \in T : ~ (<<y, x>> \in R)
  BY <1>1, WFMin
<1>4. ASSUME NEW y \in T PROVE x <= y
  <2>1. ~ (<<y, x>> \in R) /\ x \in Nat /\ y \in Nat
    BY <1>3
  <2>2. ~ (y < x)
    BY <2>1, <1>2
  <2> QED BY <2>1, <2>2
<1> QED BY <1>4

\* Induction over the naturals, for a set.
LEMMA Induction ==
  ASSUME NEW S, 0 \in S, \A n \in Nat : n \in S => n + 1 \in S
  PROVE  \A n \in Nat : n \in S
<1> SUFFICES ASSUME Nat \ S # {} PROVE FALSE
  OBVIOUS
<1>1. PICK x \in Nat \ S : \A y \in Nat \ S : x <= y
  BY LeastMember
<1>2. x # 0 /\ x - 1 \in Nat
  BY <1>1
<1>3. x - 1 \in S
  BY <1>1, <1>2
<1> QED BY <1>1, <1>2, <1>3

-----------------------------------------------------------------------------
(* The values a fold runs through *)

IsFold(f, step, start, s, k) == f = [n \in 0..k |-> IF n = 0 THEN start ELSE step[s[n]][f[n - 1]]]

LEMMA FoldExists ==
  ASSUME NEW step, NEW start, NEW s
  PROVE  \A k \in Nat : \E f : IsFold(f, step, start, s, k)
<1> DEFINE S == {k \in Nat : \E f : IsFold(f, step, start, s, k)}
<1>1. 0 \in S
  <2> DEFINE g == [i \in 0..0 |-> start]
  <2>1. IsFold(g, step, start, s, 0)
     BY DEF IsFold
  <2> QED BY <2>1
<1>2. ASSUME NEW k \in Nat, k \in S PROVE k + 1 \in S
  <2>1. PICK f : IsFold(f, step, start, s, k)
    BY <1>2
  <2> DEFINE g == [i \in 0..(k + 1) |-> IF i = k + 1 THEN step[s[i]][f[k]] ELSE f[i]]
  <2>2. \A i \in 0..k : f[i] = IF i = 0 THEN start ELSE step[s[i]][f[i - 1]]
    BY <2>1 DEF IsFold
  <2>3. ASSUME NEW i \in 0..(k + 1)
        PROVE  g[i] = IF i = 0 THEN start ELSE step[s[i]][g[i - 1]]
    <3>1. CASE i = k + 1
      BY <3>1
    <3>2. CASE i \in 0..k
      BY <2>2, <3>2
    <3> QED BY <3>1, <3>2
  <2>4. g = [i \in 0..(k + 1) |-> IF i = 0 THEN start ELSE step[s[i]][g[i - 1]]]
    BY <2>3
  <2> HIDE DEF g
  <2>5. IsFold(g, step, start, s, k + 1)
    BY <2>4 DEF IsFold
  <2> QED BY <2>5
<1> HIDE DEF S
<1>3. \A k \in Nat : k \in S
  BY <1>1, <1>2, Induction
<1> QED BY <1>3 DEF S

LEMMA FoldValues ==
  ASSUME NEW f, NEW step, NEW start, NEW s, NEW k \in Nat, IsFold(f, step, start, s, k)
  PROVE  f[0] = start /\ \A i \in 1..k : f[i] = step[s[i]][f[i - 1]]
BY DEF IsFold

\* The fold over s is the last value of such a function.
LEMMA FoldOfValues ==
  ASSUME NEW step, NEW start, NEW E, NEW s \in Seq(E)
  PROVE  \E f : IsFold(f, step, start, s, Len(s)) /\ Fold(step, start, s) = f[Len(s)]
<1> DEFINE fold[n \in 0..Len(s)] == IF n = 0 THEN start ELSE step[s[n]][fold[n - 1]]
<1>1. Fold(step, start, s) = fold[Len(s)]
  BY DEF Fold
<1>2. IsFold(fold, step, start, s, Len(s))
  <2>1. PICK f : IsFold(f, step, start, s, Len(s))
    BY FoldExists
  <2>2. f = [n \in 0..Len(s) |-> IF n = 0 THEN start ELSE step[s[n]][f[n - 1]]]
    BY <2>1 DEF IsFold
  <2>3. fold = [n \in 0..Len(s) |-> IF n = 0 THEN start ELSE step[s[n]][fold[n - 1]]]
    BY <2>2
  <2> QED BY <2>3 DEF IsFold
<1> QED BY <1>1, <1>2

\* Values that start alike and take the same steps stay alike, also when the
\* second fold begins only after the first d elements.
Alike(f, g, step, s, t, d, m) ==
    /\ f[d] = g[0]
    /\ \A i \in 1..m : f[d + i] = step[s[d + i]][f[d + i - 1]]
    /\ \A i \in 1..m : g[i] = step[t[i]][g[i - 1]]
    /\ \A i \in 1..m : s[d + i] = t[i]

LEMMA SameValues ==
  ASSUME NEW f, NEW g, NEW step, NEW s, NEW t, NEW d \in Nat, NEW m \in Nat, Alike(f, g, step, s, t, d, m)
  PROVE  f[d + m] = g[m]
<1> USE DEF Alike
<1> DEFINE S == {n \in Nat : n <= m => f[d + n] = g[n]}
<1>1. 0 \in S
  OBVIOUS
<1>2. ASSUME NEW n \in Nat, n \in S PROVE n + 1 \in S
  <2> SUFFICES ASSUME n + 1 <= m PROVE f[d + (n + 1)] = g[n + 1]
    OBVIOUS
  <2>1. n + 1 \in 1..m /\ d + (n + 1) - 1 = d + n /\ n + 1 - 1 = n
    OBVIOUS
  <2>2. f[d + (n + 1)] = step[s[d + (n + 1)]][f[d + n]] /\ g[n + 1] = step[t[n + 1]][g[n]]
    BY <2>1
  <2>3. f[d + n] = g[n] /\ s[d + (n + 1)] = t[n + 1]
    BY <1>2, <2>1
  <2> QED BY <2>2, <2>3
<1> HIDE DEF S
<1>3. m \in S
  BY <1>1, <1>2, Induction
<1> QED BY <1>3 DEF S

-----------------------------------------------------------------------------
(* Fold *)

LEMMA FoldEmpty == ASSUME NEW step, NEW start PROVE Fold(step, start, <<>>) = start
<1>1. <<>> \in Seq({})
  OBVIOUS
<1>2. PICK f : IsFold(f, step, start, <<>>, Len(<<>>)) /\ Fold(step, start, <<>>) = f[Len(<<>>)]
  BY <1>1, FoldOfValues
<1> QED BY <1>2, FoldValues

\* A concatenation is folded part by part.
LEMMA FoldConcat ==
  ASSUME NEW step, NEW start, NEW E, NEW s \in Seq(E), NEW t \in Seq(E)
  PROVE  Fold(step, start, s \o t) = Fold(step, Fold(step, start, s), t)
<1> DEFINE d == Len(s)
           m == Len(t)
           u == s \o t
<1>1. u \in Seq(E) /\ Len(u) = d + m /\ d \in Nat /\ m \in Nat /\ d + m \in Nat
  OBVIOUS
<1>2. (\A i \in 1..d : u[i] = s[i]) /\ (\A i \in 1..m : u[d + i] = t[i])
  OBVIOUS
<1> HIDE DEF u
<1>3. PICK f : IsFold(f, step, start, u, d + m) /\ Fold(step, start, u) = f[d + m]
  BY <1>1, FoldOfValues
<1>4. PICK g : IsFold(g, step, start, s, d) /\ Fold(step, start, s) = g[d]
  BY FoldOfValues
<1>5. PICK h : IsFold(h, step, g[d], t, m) /\ Fold(step, g[d], t) = h[m]
  BY FoldOfValues
<1> HIDE DEF d, m
<1>6. f[0] = start /\ \A i \in 1..(d + m) : f[i] = step[u[i]][f[i - 1]]
  BY <1>1, <1>3, FoldValues
<1>7. g[0] = start /\ \A i \in 1..d : g[i] = step[s[i]][g[i - 1]]
  BY <1>1, <1>4, FoldValues
<1>8. h[0] = g[d] /\ \A i \in 1..m : h[i] = step[t[i]][h[i - 1]]
  BY <1>1, <1>5, FoldValues
<1>9. f[d] = g[d]
  <2>1. f[0] = g[0] /\ 0 \in Nat
    BY <1>6, <1>7
  <2>2. \A i \in 1..d : f[0 + i] = step[u[0 + i]][f[0 + i - 1]]
    BY <1>1, <1>6
  <2>3. \A i \in 1..d : u[0 + i] = s[i]
    BY <1>1, <1>2
  <2>4. Alike(f, g, step, u, s, 0, d)
    BY <1>7, <2>1, <2>2, <2>3 DEF Alike
  <2>5. f[0 + d] = g[d]
    BY <1>1, <2>1, <2>4, SameValues
  <2> QED BY <1>1, <2>5
<1>10. f[d + m] = h[m]
  <2>1. \A i \in 1..m : f[d + i] = step[u[d + i]][f[d + i - 1]]
    BY <1>1, <1>6
  <2>2. f[d] = h[0]
    BY <1>8, <1>9
  <2>3. Alike(f, h, step, u, t, d, m)
    BY <1>2, <1>8, <2>1, <2>2 DEF Alike
  <2> QED BY <1>1, <2>3, SameValues
<1> QED BY <1>3, <1>4, <1>5, <1>10 DEF u

LEMMA FoldOne ==
  ASSUME NEW step, NEW start, NEW e
  PROVE  Fold(step, start, <<e>>) = step[e][start]
<1>1. <<e>> \in Seq({e}) /\ Len(<<e>>) = 1 /\ <<e>>[1] = e
  OBVIOUS
<1>2. PICK f : IsFold(f, step, start, <<e>>, 1) /\ Fold(step, start, <<e>>) = f[1]
  BY <1>1, FoldOfValues
<1> QED BY <1>1, <1>2, FoldValues

\* One more element at the end is one more step.
LEMMA FoldAppend ==
  ASSUME NEW step, NEW start, NEW E, NEW s \in Seq(E), NEW e \in E
  PROVE  Fold(step, start, Append(s, e)) = step[e][Fold(step, start, s)]
<1> DEFINE one == <<e>>
<1>1. one \in Seq(E) /\ Append(s, e) = s \o one
  OBVIOUS
<1>2. \A x : Fold(step, x, one) = step[e][x]
  BY FoldOne
<1> HIDE DEF one
<1>3. Fold(step, start, s \o one) = Fold(step, Fold(step, start, s), one)
  BY <1>1, FoldConcat
<1> QED BY <1>1, <1>2, <1>3

\* The first element takes the first step.
LEMMA FoldTail ==
  ASSUME NEW step, NEW start, NEW E, NEW s \in Seq(E), s # <<>>
  PROVE  Fold(step, start, s) = Fold(step, step[Head(s)][start], Tail(s))
<1> DEFINE one == <<Head(s)>>
           rest == Tail(s)
<1>1. one \in Seq(E) /\ rest \in Seq(E) /\ s = one \o rest
  OBVIOUS
<1>2. Fold(step, start, one) = step[Head(s)][start]
  BY FoldOne
<1> HIDE DEF one, rest
<1>3. Fold(step, start, one \o rest) = Fold(step, Fold(step, start, one), rest)
  BY <1>1, FoldConcat
<1> QED BY <1>1, <1>2, <1>3 DEF rest

\* What every element of the sequence keeps, the fold keeps.
LEMMA FoldStays ==
  ASSUME NEW V, NEW start \in V, NEW step, NEW E, NEW s \in Seq(E),
         \A i \in 1..Len(s) : \A v \in V : step[s[i]][v] \in V
  PROVE  Fold(step, start, s) \in V
<1>1. PICK f : IsFold(f, step, start, s, Len(s)) /\ Fold(step, start, s) = f[Len(s)]
  BY FoldOfValues
<1>2. f[0] = start /\ \A i \in 1..Len(s) : f[i] = step[s[i]][f[i - 1]]
  BY <1>1, FoldValues
<1> DEFINE S == {n \in Nat : n <= Len(s) => f[n] \in V}
<1>3. 0 \in S
  BY <1>2
<1>4. ASSUME NEW n \in Nat, n \in S PROVE n + 1 \in S
  <2> SUFFICES ASSUME n + 1 <= Len(s) PROVE f[n + 1] \in V
    OBVIOUS
  <2>1. n + 1 \in 1..Len(s) /\ n + 1 - 1 = n /\ f[n] \in V
    BY <1>4
  <2>2. f[n + 1] = step[s[n + 1]][f[n]]
    BY <1>2, <2>1
  <2> QED BY <2>1, <2>2
<1> HIDE DEF S
<1>5. Len(s) \in S
  BY <1>3, <1>4, Induction
<1> QED BY <1>1, <1>5 DEF S

\* Two functions that take the same steps on the elements fold them alike.
LEMMA FoldSame ==
  ASSUME NEW step, NEW other, NEW start, NEW E, NEW s \in Seq(E), \A i \in 1..Len(s) : step[s[i]] = other[s[i]]
  PROVE  Fold(step, start, s) = Fold(other, start, s)
<1>1. PICK f : IsFold(f, step, start, s, Len(s)) /\ Fold(step, start, s) = f[Len(s)]
  BY FoldOfValues
<1>2. PICK g : IsFold(g, other, start, s, Len(s)) /\ Fold(other, start, s) = g[Len(s)]
  BY FoldOfValues
<1>3. f[0] = start /\ \A i \in 1..Len(s) : f[i] = step[s[i]][f[i - 1]]
  BY <1>1, FoldValues
<1>4. g[0] = start /\ \A i \in 1..Len(s) : g[i] = step[s[i]][g[i - 1]]
  BY <1>2, FoldValues
<1>5. Alike(f, g, step, s, s, 0, Len(s))
  BY <1>3, <1>4 DEF Alike
<1>6. f[0 + Len(s)] = g[Len(s)]
  BY <1>5, SameValues
<1> QED BY <1>1, <1>2, <1>6

LEMMA FoldType ==
  ASSUME NEW V, NEW start \in V, NEW E, NEW step \in [E -> [V -> V]], NEW s \in Seq(E)
  PROVE  Fold(step, start, s) \in V
<1>1. ASSUME NEW i \in 1..Len(s), NEW v \in V PROVE step[s[i]][v] \in V
  OBVIOUS
<1> QED BY <1>1, FoldStays

-----------------------------------------------------------------------------
(* Sum *)

LEMMA AddType ==
  ASSUME NEW E, NEW weight \in [E -> Nat]
  PROVE  /\ Add(weight) \in [E -> [Nat -> Nat]]
         /\ \A e \in E, n \in Nat : Add(weight)[e][n] = n + weight[e]
BY DEF Add

LEMMA SumType == ASSUME NEW E, NEW weight \in [E -> Nat], NEW s \in Seq(E) PROVE Sum(weight, s) \in Nat
<1>1. 0 \in Nat
  OBVIOUS
<1> QED BY <1>1, AddType, FoldType DEF Sum

LEMMA SumEmpty == ASSUME NEW weight PROVE Sum(weight, <<>>) = 0
BY FoldEmpty DEF Sum

\* A sum that starts at n is larger by n.
LEMMA SumShift ==
  ASSUME NEW E, NEW weight \in [E -> Nat], NEW s \in Seq(E), NEW n \in Nat
  PROVE  Fold(Add(weight), n, s) = n + Sum(weight, s)
<1> DEFINE step == Add(weight)
<1>1. step \in [E -> [Nat -> Nat]] /\ \A e \in E, x \in Nat : step[e][x] = x + weight[e]
  BY AddType
<1> HIDE DEF step
<1>2. PICK f : IsFold(f, step, n, s, Len(s)) /\ Fold(step, n, s) = f[Len(s)]
  BY FoldOfValues
<1>3. PICK g : IsFold(g, step, 0, s, Len(s)) /\ Fold(step, 0, s) = g[Len(s)]
  BY FoldOfValues
<1>4. f[0] = n /\ \A i \in 1..Len(s) : f[i] = step[s[i]][f[i - 1]]
  BY <1>2, FoldValues
<1>5. g[0] = 0 /\ \A i \in 1..Len(s) : g[i] = step[s[i]][g[i - 1]]
  BY <1>3, FoldValues
<1> DEFINE S == {k \in Nat : k <= Len(s) => g[k] \in Nat /\ f[k] = n + g[k]}
<1>6. 0 \in S
  BY <1>4, <1>5
<1>7. ASSUME NEW k \in Nat, k \in S PROVE k + 1 \in S
  <2> SUFFICES ASSUME k + 1 <= Len(s) PROVE g[k + 1] \in Nat /\ f[k + 1] = n + g[k + 1]
    OBVIOUS
  <2>1. k + 1 \in 1..Len(s) /\ k + 1 - 1 = k /\ s[k + 1] \in E
    OBVIOUS
  <2>2. g[k] \in Nat /\ f[k] = n + g[k]
    BY <1>7
  <2>3. g[k + 1] = step[s[k + 1]][g[k]] /\ f[k + 1] = step[s[k + 1]][f[k]]
    BY <1>4, <1>5, <2>1
  <2>4. f[k] \in Nat /\ weight[s[k + 1]] \in Nat
    BY <2>1, <2>2
  <2>5. g[k + 1] = g[k] + weight[s[k + 1]] /\ f[k + 1] = f[k] + weight[s[k + 1]]
    BY <1>1, <2>1, <2>2, <2>3, <2>4
  <2> QED BY <2>2, <2>4, <2>5
<1> HIDE DEF S
<1>8. Len(s) \in S
  <2>1. \A k \in Nat : k \in S
    BY <1>6, <1>7, Induction
  <2> QED BY <2>1
<1> QED BY <1>2, <1>3, <1>8 DEF S, Sum, step

LEMMA SumConcat ==
  ASSUME NEW E, NEW weight \in [E -> Nat], NEW s \in Seq(E), NEW t \in Seq(E)
  PROVE  Sum(weight, s \o t) = Sum(weight, s) + Sum(weight, t)
<1>1. Sum(weight, s \o t) = Fold(Add(weight), Sum(weight, s), t)
  BY FoldConcat DEF Sum
<1> QED BY <1>1, SumShift, SumType

LEMMA SumAppend ==
  ASSUME NEW E, NEW weight \in [E -> Nat], NEW s \in Seq(E), NEW e \in E
  PROVE  Sum(weight, Append(s, e)) = Sum(weight, s) + weight[e]
<1>1. Sum(weight, Append(s, e)) = Add(weight)[e][Sum(weight, s)]
  BY FoldAppend DEF Sum
<1> QED BY <1>1, SumType, AddType

LEMMA SumTail ==
  ASSUME NEW E, NEW weight \in [E -> Nat], NEW s \in Seq(E), s # <<>>
  PROVE  Sum(weight, s) = weight[Head(s)] + Sum(weight, Tail(s))
<1>1. Head(s) \in E /\ Tail(s) \in Seq(E) /\ weight[Head(s)] \in Nat
  OBVIOUS
<1>2. Sum(weight, s) = Fold(Add(weight), Add(weight)[Head(s)][0], Tail(s))
  BY FoldTail DEF Sum
<1>3. ASSUME NEW e \in E PROVE Add(weight)[e][0] = weight[e]
  <2>1. Add(weight)[e][0] = 0 + weight[e]
    BY AddType
  <2> QED BY <2>1
<1> QED BY <1>1, <1>2, <1>3, SumShift

\* Elements without weight add nothing.
LEMMA SumZero ==
  ASSUME NEW E, NEW weight \in [E -> Nat], NEW s \in Seq(E), \A i \in 1..Len(s) : weight[s[i]] = 0
  PROVE  Sum(weight, s) = 0
<1>1. ASSUME NEW i \in 1..Len(s), NEW v \in {0} PROVE Add(weight)[s[i]][v] \in {0}
  <2>1. s[i] \in E /\ weight[s[i]] = 0
    OBVIOUS
  <2>2. ASSUME NEW e \in E PROVE Add(weight)[e][0] = 0 + weight[e]
    BY AddType
  <2> QED BY <2>1, <2>2
<1> QED BY <1>1, FoldStays DEF Sum
=============================================================================
