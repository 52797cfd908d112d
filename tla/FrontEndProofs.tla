--------------------------- MODULE FrontEndProofs ---------------------------
(***************************************************************************)
(* What holds of the chat of the terminal application, for every set of    *)
(* inputs, every script of them, every limit of the history and of the     *)
(* queue and any number of errors and restarts; of its keys and modes for  *)
(* any number of messages; of the text, menus and model of its editor; and *)
(* of any compilations, views and browsers of its skills.                  *)
(*                                                                         *)
(* The first part is about the operators on histories: a cut leaves a      *)
(* suffix that begins where a turn begins, a selection commutes with       *)
(* concatenation, and all of them keep a history well formed. The second   *)
(* part is the inductive invariant of the chat, in four parts, each kept   *)
(* with the help of the ones before it:                                    *)
(*   TypesOK   what every variable holds; every history is well formed     *)
(*   Order     an input is submitted once; whoever looks at an occupied    *)
(*             application finds a worker that has not freed it yet        *)
(*   Durable   what the rows and the log know of a turn at its place       *)
(*   Latest    what the history is while a turn adds to it, cuts it and    *)
(*             stores its row                                              *)
(* The last parts are about the keys (that a prefix belongs to the normal  *)
(* mode of its pane needs that the chat pane has no insert mode), about    *)
(* the text they edit, with its history, menus and model, and about skills *)
(* that are viewed and followed while they are compiled.                   *)
(***************************************************************************)
EXTENDS FrontEnds, SequenceFoldProofs, FiniteSetTheorems

-----------------------------------------------------------------------------
(* Histories: the end of a sequence *)

LEMMA SameSequence ==
  ASSUME NEW M, NEW s \in Seq(M), NEW t \in Seq(M), Len(s) = Len(t), \A k \in 1..Len(s) : s[k] = t[k]
  PROVE  s = t
<1>1. s = [k \in 1..Len(s) |-> s[k]] /\ t = [k \in 1..Len(t) |-> t[k]]
  OBVIOUS
<1> QED BY <1>1

LEMMA ConcatFacts ==
  ASSUME NEW M, NEW s \in Seq(M), NEW t \in Seq(M)
  PROVE  /\ s \o t \in Seq(M) /\ Len(s \o t) = Len(s) + Len(t)
         /\ Len(s) \in Nat /\ Len(t) \in Nat
         /\ \A k \in 1..Len(s) : (s \o t)[k] = s[k]
         /\ \A k \in 1..Len(t) : (s \o t)[Len(s) + k] = t[k]
         /\ \A k \in 1..Len(s \o t) : k \in 1..Len(s) \/ \E j \in 1..Len(t) : k = Len(s) + j
<1>1. ASSUME NEW k \in 1..Len(s \o t), k \notin 1..Len(s) PROVE k - Len(s) \in 1..Len(t) /\ k = Len(s) + (k - Len(s))
  BY <1>1
<1>2. \A k \in 1..Len(s \o t) : k \in 1..Len(s) \/ \E j \in 1..Len(t) : k = Len(s) + j
  BY <1>1
<1> QED BY <1>2

LEMMA FromFacts ==
  ASSUME NEW M, NEW s \in Seq(M), NEW i \in 1..(Len(s) + 1)
  PROVE  /\ From(s, i) \in Seq(M)
         /\ Len(From(s, i)) = Len(s) + 1 - i
         /\ \A j \in 1..Len(From(s, i)) : From(s, i)[j] = s[i + j - 1] /\ i + j - 1 \in 1..Len(s)
BY DEF From

LEMMA FromFrom ==
  ASSUME NEW M, NEW s \in Seq(M), NEW i \in 1..(Len(s) + 1), NEW j \in 1..(Len(From(s, i)) + 1)
  PROVE  i + j - 1 \in 1..(Len(s) + 1) /\ From(From(s, i), j) = From(s, i + j - 1)
<1> DEFINE u == From(s, i)
<1>1. u \in Seq(M) /\ Len(u) = Len(s) + 1 - i /\ \A k \in 1..Len(u) : u[k] = s[i + k - 1]
  BY FromFacts
<1>2. i + j - 1 \in 1..(Len(s) + 1)
  BY <1>1
<1> HIDE DEF u
<1>3. /\ From(u, j) \in Seq(M) /\ Len(From(u, j)) = Len(u) + 1 - j
      /\ \A k \in 1..Len(From(u, j)) : From(u, j)[k] = u[j + k - 1] /\ j + k - 1 \in 1..Len(u)
  <2>1. j \in 1..(Len(u) + 1)
    BY <1>1 DEF u
  <2> QED BY <1>1, <2>1, FromFacts
<1> DEFINE v == From(s, i + j - 1)
<1>4. /\ v \in Seq(M) /\ Len(v) = Len(s) + 1 - (i + j - 1)
      /\ \A k \in 1..Len(v) : v[k] = s[(i + j - 1) + k - 1]
  <2>1. i + j - 1 \in 1..(Len(s) + 1)
    BY <1>2
  <2> QED BY <2>1, FromFacts
<1> HIDE DEF v
<1>5. Len(From(u, j)) = Len(v)
  BY <1>1, <1>3, <1>4
<1>6. ASSUME NEW k \in 1..Len(v) PROVE From(u, j)[k] = v[k]
  <2>1. From(u, j)[k] = u[j + k - 1] /\ j + k - 1 \in 1..Len(u)
    BY <1>3, <1>5
  <2>2. u[j + k - 1] = s[i + (j + k - 1) - 1]
    BY <1>1, <2>1
  <2>3. i + (j + k - 1) - 1 = (i + j - 1) + k - 1 /\ v[k] = s[(i + j - 1) + k - 1]
    BY <1>4, <2>1
  <2> QED BY <2>1, <2>2, <2>3
<1>7. From(u, j) = v
  BY <1>3, <1>4, <1>5, <1>6, SameSequence
<1> QED BY <1>2, <1>7 DEF u, v

LEMMA FromAll == ASSUME NEW M, NEW s \in Seq(M) PROVE From(s, 1) = s
BY DEF From

LEMMA FromConcat ==
  ASSUME NEW M, NEW s \in Seq(M), NEW i \in 1..(Len(s) + 1)
  PROVE  /\ SubSeq(s, 1, i - 1) \in Seq(M) /\ s = SubSeq(s, 1, i - 1) \o From(s, i)
         /\ Len(SubSeq(s, 1, i - 1)) = i - 1
<1> DEFINE p == SubSeq(s, 1, i - 1)
           u == From(s, i)
<1>1. p \in Seq(M) /\ Len(p) = i - 1 /\ \A k \in 1..(i - 1) : p[k] = s[k]
  OBVIOUS
<1>2. u \in Seq(M) /\ Len(u) = Len(s) + 1 - i /\ \A k \in 1..Len(u) : u[k] = s[i + k - 1]
  BY FromFacts
<1> HIDE DEF p, u
<1>3. p \o u \in Seq(M) /\ Len(p \o u) = Len(s)
  BY <1>1, <1>2, ConcatFacts
<1>4. ASSUME NEW k \in 1..Len(p \o u) PROVE (p \o u)[k] = s[k]
  <2>1. CASE k \in 1..Len(p)
    BY <1>1, <1>2, <2>1, ConcatFacts
  <2>2. CASE \E j \in 1..Len(u) : k = Len(p) + j
    <3>1. PICK j \in 1..Len(u) : k = Len(p) + j
      BY <2>2
    <3>2. (p \o u)[k] = u[j]
      BY <1>1, <1>2, <3>1, ConcatFacts
    <3>3. u[j] = s[i + j - 1] /\ k = i + j - 1
      BY <1>1, <1>2, <3>1
    <3> QED BY <3>2, <3>3
  <2>3. k \in 1..Len(p) \/ \E j \in 1..Len(u) : k = Len(p) + j
    BY <1>1, <1>2, ConcatFacts
  <2> QED BY <2>1, <2>2, <2>3
<1>5. p \o u = s
  BY <1>3, <1>4, SameSequence
<1> QED BY <1>1, <1>5 DEF p, u

\* What is behind the first sequence of a concatenation.
LEMMA FromBehind ==
  ASSUME NEW M, NEW s \in Seq(M), NEW t \in Seq(M), NEW i \in 1..(Len(s) + 1)
  PROVE  i \in 1..(Len(s \o t) + 1) /\ From(s \o t, i) = From(s, i) \o t
<1> DEFINE u == s \o t
<1>1. u \in Seq(M) /\ Len(u) = Len(s) + Len(t) /\ i \in 1..(Len(u) + 1)
      /\ (\A k \in 1..Len(s) : u[k] = s[k]) /\ (\A k \in 1..Len(t) : u[Len(s) + k] = t[k])
  OBVIOUS
<1> HIDE DEF u
<1>2. /\ From(u, i) \in Seq(M) /\ Len(From(u, i)) = Len(u) + 1 - i
      /\ \A k \in 1..Len(From(u, i)) : From(u, i)[k] = u[i + k - 1]
  BY <1>1, FromFacts
<1> DEFINE v == From(s, i)
<1>3. v \in Seq(M) /\ Len(v) = Len(s) + 1 - i /\ \A k \in 1..Len(v) : v[k] = s[i + k - 1]
  BY FromFacts
<1> HIDE DEF v
<1>4. v \o t \in Seq(M) /\ Len(v \o t) = Len(v) + Len(t)
      /\ (\A k \in 1..Len(v) : (v \o t)[k] = v[k]) /\ (\A k \in 1..Len(t) : (v \o t)[Len(v) + k] = t[k])
  <2>1. v \in Seq(M)
    BY <1>3
  <2> QED BY <2>1, ConcatFacts
<1>5. ASSUME NEW k \in 1..Len(From(u, i)) PROVE From(u, i)[k] = (v \o t)[k]
  <2>1. CASE k \in 1..Len(v)
    <3>1. From(u, i)[k] = u[i + k - 1] /\ (v \o t)[k] = s[i + k - 1]
      BY <1>2, <1>3, <1>4, <2>1
    <3>2. i + k - 1 \in 1..Len(s)
      BY <1>3, <2>1
    <3> QED BY <1>1, <3>1, <3>2
  <2>2. CASE k > Len(v)
    <3>1. k - Len(v) \in 1..Len(t) /\ i + k - 1 = Len(s) + (k - Len(v)) /\ k = Len(v) + (k - Len(v))
      BY <1>1, <1>2, <1>3, <2>2
    <3>2. (v \o t)[Len(v) + (k - Len(v))] = t[k - Len(v)]
      BY <1>4, <3>1
    <3>3. u[Len(s) + (k - Len(v))] = t[k - Len(v)]
      BY <1>1, <3>1
    <3> QED BY <1>2, <3>1, <3>2, <3>3
  <2>3. Len(v) \in Nat /\ k \in Nat /\ k >= 1
    BY <1>1, <1>2, <1>3
  <2>4. k \in 1..Len(v) \/ k > Len(v)
    BY <2>3
  <2> QED BY <2>1, <2>2, <2>4
<1>6. From(u, i) = v \o t
  <2>1. Len(From(u, i)) = Len(v \o t)
    BY <1>1, <1>2, <1>3, <1>4
  <2> QED BY <1>2, <1>4, <1>5, <2>1, SameSequence
<1> QED BY <1>1, <1>6 DEF u, v

-----------------------------------------------------------------------------
(* Histories: the oldest turns are dropped *)

\* A nonempty set of positions has a greatest member.
LEMMA GreatestMember ==
  ASSUME NEW n \in Nat, NEW T, T \subseteq 1..n, T # {}
  PROVE  \E x \in T : \A y \in T : x >= y
<1> DEFINE D == {n - x : x \in T}
<1>1. D \subseteq Nat /\ D # {}
  <2>1. \A x \in T : x \in Nat /\ x <= n /\ n - x \in Nat
    OBVIOUS
  <2> QED BY <2>1
<1>2. PICK d \in D : \A e \in D : d <= e
  BY <1>1, LeastMember
<1>3. PICK x \in T : d = n - x
  BY <1>2
<1>4. ASSUME NEW y \in T PROVE x >= y
  <2>1. n - x <= n - y
    BY <1>2, <1>3
  <2> QED BY <2>1
<1> QED BY <1>4

LEMMA DropOldestIsFrom ==
  ASSUME NEW s \in Seq(Messages), s # <<>>, NEW fitting, fitting \subseteq Starts(s)
  PROVE  \E i \in Starts(s) : DropOldest(s, fitting) = From(s, i)
<1>1. Starts(s) \subseteq 1..Len(s) /\ 1 \in Starts(s) /\ Starts(s) \subseteq Nat
  BY DEF Starts
<1>2. CASE fitting = {}
  <2>1. \E x \in Starts(s) : \A y \in Starts(s) : x >= y
    BY <1>1, GreatestMember
  <2>2. Max(Starts(s)) \in Starts(s)
    BY <2>1 DEF Max
  <2> QED BY <1>2, <2>2 DEF DropOldest
<1>3. CASE fitting # {}
  <2>1. \E x \in fitting : \A y \in fitting : x <= y
    BY <1>1, <1>3, LeastMember
  <2>2. Min(fitting) \in fitting
    BY <2>1 DEF Min
  <2> QED BY <1>3, <2>2 DEF DropOldest
<1> QED BY <1>2, <1>3

LEMMA StrippedIsSame == ASSUME NEW s \in Seq(Messages), WellFormed(s) PROVE Stripped(s) = s
<1> DEFINE other == {i \in DOMAIN s : s[i].kind # "ret"}
<1>1. CASE s = <<>>
  BY <1>1 DEF Stripped
<1>2. CASE s # <<>>
  <2>1. 1 \in other /\ other \subseteq Nat /\ \A y \in other : 1 <= y
    <3>1. 1 \in DOMAIN s /\ DOMAIN s = 1..Len(s)
      BY <1>2
    <3>2. s[1].kind # "ret"
      BY <3>1 DEF WellFormed
    <3> QED BY <3>1, <3>2
  <2>2. Min(other) \in other /\ \A y \in other : Min(other) <= y
    <3>1. \E x \in other : \A y \in other : x <= y
      BY <2>1
    <3> QED BY <3>1 DEF Min
  <2>3. Stripped(s) = From(s, Min(other))
    BY <2>1 DEF Stripped
  <2> HIDE DEF other
  <2>4. Min(other) = 1
    <3>1. Min(other) <= 1 /\ 1 <= Min(other) /\ Min(other) \in Nat
      BY <2>1, <2>2
    <3> QED BY <3>1
  <2> QED BY <2>3, <2>4, FromAll
<1> QED BY <1>1, <1>2

\* Pruning and bounding leave the end of the history, from a place where a turn starts.
LEMMA PrunedIsFrom ==
  ASSUME NEW s \in Seq(Messages), WellFormed(s)
  PROVE  Pruned(s) = <<>> \/ \E i \in Starts(s) : Pruned(s) = From(s, i)
<1>1. Stripped(s) = s
  BY StrippedIsSame
<1>2. CASE TokenBudget = 0 \/ s = <<>>
  BY <1>1, <1>2 DEF Pruned
<1>3. CASE ~(TokenBudget = 0 \/ s = <<>>)
  <2> DEFINE fitting == {i \in Starts(s) : Tokens(From(s, i)) <= TokenBudget}
  <2>1. Pruned(s) = DropOldest(s, fitting)
    BY <1>1, <1>3 DEF Pruned
  <2>2. fitting \subseteq Starts(s)
    OBVIOUS
  <2> QED BY <1>3, <2>1, <2>2, DropOldestIsFrom
<1> QED BY <1>2, <1>3

LEMMA StartsOfFrom ==
  ASSUME NEW s \in Seq(Messages), NEW i \in Starts(s), NEW j \in Starts(From(s, i))
  PROVE  i + j - 1 \in Starts(s) /\ From(From(s, i), j) = From(s, i + j - 1)
<1>1. i \in 1..Len(s)
  BY DEF Starts
<1>2. j \in 1..Len(From(s, i)) /\ (j = 1 \/ From(s, i)[j].kind = "ask")
  <2>1. From(s, i) \in Seq(Messages)
    BY <1>1, FromFacts
  <2> QED BY <2>1 DEF Starts
<1>3. From(s, i)[j] = s[i + j - 1]
  <2>1. i \in 1..(Len(s) + 1)
    BY <1>1
  <2> QED BY <1>2, <2>1, FromFacts
<1>4. i + j - 1 \in 1..Len(s) /\ From(From(s, i), j) = From(s, i + j - 1)
  <2>1. j \in 1..(Len(From(s, i)) + 1) /\ i \in 1..(Len(s) + 1)
    BY <1>1, <1>2, FromFacts
  <2>2. From(From(s, i), j) = From(s, i + j - 1)
    BY <2>1, FromFrom
  <2>3. i + j - 1 \in 1..Len(s)
    BY <1>2, <2>1, FromFacts
  <2> QED BY <2>2, <2>3
<1>5. i + j - 1 = 1 \/ s[i + j - 1].kind = "ask"
  <2>1. CASE j = 1
    <3>1. i + j - 1 = i
      BY <1>1, <2>1
    <3>2. i = 1 \/ s[i].kind = "ask"
      BY DEF Starts
    <3> QED BY <3>1, <3>2
  <2> QED BY <1>2, <1>3, <2>1
<1> QED BY <1>4, <1>5 DEF Starts

LEMMA BoundedIsFrom ==
  ASSUME NEW s \in Seq(Messages), WellFormed(s)
  PROVE  Bounded(s) = <<>> \/ \E i \in Starts(s) : Bounded(s) = From(s, i)
<1>1. CASE Pruned(s) = <<>>
  BY <1>1 DEF Bounded
<1>2. CASE Pruned(s) # <<>>
  <2>1. PICK i \in Starts(s) : Pruned(s) = From(s, i)
    BY <1>2, PrunedIsFrom
  <2> DEFINE u == From(s, i)
             fitting == {j \in Starts(u) : Len(From(u, j)) <= MaxMessages}
  <2>2. u \in Seq(Messages) /\ u # <<>>
    BY <1>2, <2>1, FromFacts DEF Starts
  <2>3. Bounded(s) = DropOldest(u, fitting)
    BY <1>2, <2>1 DEF Bounded
  <2>4. fitting \subseteq Starts(u)
    OBVIOUS
  <2> HIDE DEF u, fitting
  <2>5. PICK j \in Starts(u) : DropOldest(u, fitting) = From(u, j)
    BY <2>2, <2>4, DropOldestIsFrom
  <2> QED BY <2>3, <2>5, StartsOfFrom DEF u
<1> QED BY <1>1, <1>2

-----------------------------------------------------------------------------
(* Histories: a return stays with its call *)

LEMMA FromIsWellFormed ==
  ASSUME NEW s \in Seq(Messages), WellFormed(s), NEW i \in Starts(s)
  PROVE  From(s, i) \in Seq(Messages) /\ WellFormed(From(s, i))
<1> DEFINE u == From(s, i)
<1>1. i \in 1..Len(s) /\ (i = 1 \/ s[i].kind = "ask")
  BY DEF Starts
<1>2. u \in Seq(Messages) /\ Len(u) = Len(s) + 1 - i /\ \A k \in 1..Len(u) : u[k] = s[i + k - 1]
  BY <1>1, FromFacts
<1> HIDE DEF u
<1>3. ASSUME NEW k \in DOMAIN u
      PROVE  /\ u[k].kind = "ret" => k > 1 /\ u[k-1].kind = "call" /\ u[k-1].of = u[k].of
             /\ u[k].kind = "call" => k < Len(u) /\ u[k+1].kind = "ret"
  <2> DEFINE m == i + k - 1
  <2>1. k \in 1..Len(u) /\ m \in DOMAIN s /\ u[k] = s[m]
    BY <1>1, <1>2
  <2>2. k > 1 => u[k-1] = s[m-1]
    <3>1. k > 1 => k - 1 \in 1..Len(u) /\ i + (k - 1) - 1 = m - 1
      BY <1>1, <1>2
    <3> QED BY <1>2, <3>1
  <2>3. k < Len(u) => u[k+1] = s[m+1]
    <3>1. k < Len(u) => k + 1 \in 1..Len(u) /\ i + (k + 1) - 1 = m + 1
      BY <1>1, <1>2
    <3> QED BY <1>2, <3>1
  <2>4. (m > 1 => k > 1 \/ (k = 1 /\ m = i)) /\ (m < Len(s) => k < Len(u))
    BY <1>1, <1>2
  <2> HIDE DEF m
  <2>5. /\ s[m].kind = "ret" => m > 1 /\ s[m-1].kind = "call" /\ s[m-1].of = s[m].of
        /\ s[m].kind = "call" => m < Len(s) /\ s[m+1].kind = "ret"
    BY <2>1 DEF WellFormed
  <2>6. s[m].kind = "ret" => k > 1
    BY <1>1, <2>4, <2>5
  <2>7. s[m].kind = "call" => k < Len(u)
    BY <2>4, <2>5
  <2> QED BY <2>1, <2>2, <2>3, <2>5, <2>6, <2>7
<1> QED BY <1>2, <1>3 DEF WellFormed, u

LEMMA BoundedIsWellFormed ==
  ASSUME NEW s \in Seq(Messages), WellFormed(s)
  PROVE  /\ Bounded(s) \in Seq(Messages) /\ WellFormed(Bounded(s))
         /\ Pruned(s) \in Seq(Messages) /\ WellFormed(Pruned(s))
<1>1. <<>> \in Seq(Messages) /\ WellFormed(<<>>)
  BY DEF WellFormed
<1> QED BY <1>1, BoundedIsFrom, PrunedIsFrom, FromIsWellFormed

LEMMA ConcatIsWellFormed ==
  ASSUME NEW s \in Seq(Messages), NEW t \in Seq(Messages), WellFormed(s), WellFormed(t)
  PROVE  s \o t \in Seq(Messages) /\ WellFormed(s \o t)
<1> DEFINE u == s \o t
<1>1. u \in Seq(Messages) /\ Len(u) = Len(s) + Len(t) /\ DOMAIN u = 1..Len(u)
      /\ (\A k \in 1..Len(s) : u[k] = s[k]) /\ (\A k \in 1..Len(t) : u[Len(s) + k] = t[k])
  OBVIOUS
<1> HIDE DEF u
<1>2. ASSUME NEW k \in DOMAIN u, k <= Len(s)
      PROVE  /\ u[k].kind = "ret" => k > 1 /\ u[k-1].kind = "call" /\ u[k-1].of = u[k].of
             /\ u[k].kind = "call" => k < Len(u) /\ u[k+1].kind = "ret"
  <2>1. k \in DOMAIN s /\ u[k] = s[k]
    BY <1>1, <1>2
  <2>2. ASSUME u[k].kind = "ret" PROVE k > 1 /\ u[k-1].kind = "call" /\ u[k-1].of = u[k].of
    <3>1. k > 1 /\ s[k-1].kind = "call" /\ s[k-1].of = s[k].of
      BY <2>1, <2>2 DEF WellFormed
    <3>2. u[k-1] = s[k-1]
      BY <1>1, <2>1, <3>1
    <3> QED BY <2>1, <3>1, <3>2
  <2>3. ASSUME u[k].kind = "call" PROVE k < Len(u) /\ u[k+1].kind = "ret"
    <3>1. k < Len(s) /\ s[k+1].kind = "ret"
      BY <2>1, <2>3 DEF WellFormed
    <3>2. u[k+1] = s[k+1] /\ k < Len(u)
      BY <1>1, <2>1, <3>1
    <3> QED BY <3>1, <3>2
  <2> QED BY <2>2, <2>3
<1>3. ASSUME NEW k \in 1..Len(t)
      PROVE  /\ u[Len(s) + k].kind = "ret" => /\ Len(s) + k > 1 /\ u[Len(s) + k - 1].kind = "call"
                                             /\ u[Len(s) + k - 1].of = u[Len(s) + k].of
             /\ u[Len(s) + k].kind = "call" => Len(s) + k < Len(u) /\ u[Len(s) + k + 1].kind = "ret"
  <2>1. u[Len(s) + k] = t[k] /\ k \in DOMAIN t
    BY <1>1
  <2>2. ASSUME t[k].kind = "ret"
        PROVE  Len(s) + k > 1 /\ u[Len(s) + k - 1].kind = "call" /\ u[Len(s) + k - 1].of = t[k].of
    <3>1. k > 1 /\ t[k-1].kind = "call" /\ t[k-1].of = t[k].of
      BY <2>1, <2>2 DEF WellFormed
    <3>2. k - 1 \in 1..Len(t) /\ Len(s) + (k - 1) = Len(s) + k - 1
      BY <3>1
    <3>3. u[Len(s) + k - 1] = t[k - 1]
      BY <1>1, <3>2
    <3> QED BY <3>1, <3>3
  <2>3. ASSUME t[k].kind = "call" PROVE Len(s) + k < Len(u) /\ u[Len(s) + k + 1].kind = "ret"
    <3>1. k < Len(t) /\ t[k+1].kind = "ret"
      BY <2>1, <2>3 DEF WellFormed
    <3>2. k + 1 \in 1..Len(t) /\ Len(s) + (k + 1) = Len(s) + k + 1
      BY <3>1
    <3>3. u[Len(s) + k + 1] = t[k + 1]
      BY <1>1, <3>2
    <3> QED BY <1>1, <3>1, <3>3
  <2> QED BY <2>1, <2>2, <2>3
<1>4. ASSUME NEW k \in DOMAIN u
      PROVE  /\ u[k].kind = "ret" => k > 1 /\ u[k-1].kind = "call" /\ u[k-1].of = u[k].of
             /\ u[k].kind = "call" => k < Len(u) /\ u[k+1].kind = "ret"
  <2>1. CASE k <= Len(s)
    BY <1>2, <2>1
  <2>2. CASE k \notin 1..Len(s)
    <3>1. PICK j \in 1..Len(t) : k = Len(s) + j
      BY <1>1, <2>2, ConcatFacts DEF u
    <3> QED BY <1>3, <3>1
  <2>3. k <= Len(s) \/ k \notin 1..Len(s)
    BY <1>1
  <2> QED BY <2>1, <2>2, <2>3
<1> QED BY <1>1, <1>4 DEF WellFormed, u

-----------------------------------------------------------------------------
(* Histories: selected messages *)

Choose(these) == [m \in Messages |-> [got \in Seq(Messages) |-> IF m \in these THEN Append(got, m) ELSE got]]

LEMMA ChooseType ==
  ASSUME NEW these
  PROVE  /\ Choose(these) \in [Messages -> [Seq(Messages) -> Seq(Messages)]]
         /\ \A m \in Messages, got \in Seq(Messages) :
               /\ m \in these => Choose(these)[m][got] = Append(got, m)
               /\ m \notin these => Choose(these)[m][got] = got
BY DEF Choose

LEMMA SelectedIsFold == ASSUME NEW these, NEW s PROVE Selected(s, these) = Fold(Choose(these), <<>>, s)
BY DEF Selected, Choose

\* The values a selection runs through.
Selection(f, s, these) ==
    /\ f[0] = <<>> /\ f[Len(s)] = Selected(s, these)
    /\ \A n \in 0..Len(s) : f[n] \in Seq(Messages)
    /\ \A n \in 1..Len(s) : f[n] = IF s[n] \in these THEN Append(f[n-1], s[n]) ELSE f[n-1]

LEMMA SelectionExists ==
  ASSUME NEW s \in Seq(Messages), NEW these PROVE \E f : Selection(f, s, these)
<1>1. PICK f : IsFold(f, Choose(these), <<>>, s, Len(s)) /\ Fold(Choose(these), <<>>, s) = f[Len(s)]
  BY FoldOfValues
<1>2. f[0] = <<>> /\ \A i \in 1..Len(s) : f[i] = Choose(these)[s[i]][f[i - 1]]
  BY <1>1, FoldValues
<1> DEFINE S == {n \in Nat : n <= Len(s) => f[n] \in Seq(Messages)}
<1>3. 0 \in S
  <2>1. f[0] = <<>> /\ <<>> \in Seq(Messages)
    BY <1>2
  <2> QED BY <2>1
<1>4. ASSUME NEW n \in Nat, n \in S PROVE n + 1 \in S
  <2> SUFFICES ASSUME n + 1 <= Len(s) PROVE f[n + 1] \in Seq(Messages)
    OBVIOUS
  <2>1. n + 1 \in 1..Len(s) /\ n + 1 - 1 = n /\ f[n] \in Seq(Messages) /\ s[n + 1] \in Messages
    BY <1>4
  <2>2. f[n + 1] = Choose(these)[s[n + 1]][f[n]]
    BY <1>2, <2>1
  <2> QED BY <2>1, <2>2, ChooseType
<1> HIDE DEF S
<1>5. \A n \in Nat : n \in S
  BY <1>3, <1>4, Induction
<1>6. \A n \in 0..Len(s) : f[n] \in Seq(Messages)
  BY <1>5 DEF S
<1>7. ASSUME NEW n \in 1..Len(s)
      PROVE  f[n] = IF s[n] \in these THEN Append(f[n-1], s[n]) ELSE f[n-1]
  <2>1. f[n] = Choose(these)[s[n]][f[n - 1]] /\ s[n] \in Messages /\ f[n-1] \in Seq(Messages)
    BY <1>2, <1>6
  <2> QED BY <2>1, ChooseType
<1> QED BY <1>1, <1>2, <1>6, <1>7, SelectedIsFold DEF Selection

LEMMA SelectedType ==
  ASSUME NEW s \in Seq(Messages), NEW these PROVE Selected(s, these) \in Seq(Messages)
BY SelectionExists DEF Selection

LEMMA SelectedEmpty == ASSUME NEW these PROVE Selected(<<>>, these) = <<>>
BY SelectedIsFold, FoldEmpty

LEMMA SelectedAppend ==
  ASSUME NEW s \in Seq(Messages), NEW m \in Messages, NEW these
  PROVE  Selected(Append(s, m), these) = IF m \in these THEN Append(Selected(s, these), m) ELSE Selected(s, these)
<1>1. Selected(Append(s, m), these) = Choose(these)[m][Selected(s, these)]
  BY FoldAppend, SelectedIsFold
<1> QED BY <1>1, SelectedType, ChooseType

LEMMA AppendBehind ==
  ASSUME NEW M, NEW s \in Seq(M), NEW t \in Seq(M), NEW m \in M
  PROVE  s \o Append(t, m) = Append(s \o t, m)
<1>1. /\ s \o Append(t, m) \in Seq(M) /\ Append(s \o t, m) \in Seq(M)
      /\ Len(s \o Append(t, m)) = Len(Append(s \o t, m))
  OBVIOUS
<1>2. ASSUME NEW k \in 1..Len(s \o Append(t, m)) PROVE (s \o Append(t, m))[k] = Append(s \o t, m)[k]
  OBVIOUS
<1> QED BY <1>1, <1>2, SameSequence

LEMMA SelectedConcat ==
  ASSUME NEW s \in Seq(Messages), NEW t \in Seq(Messages), NEW these
  PROVE  Selected(s \o t, these) = Selected(s, these) \o Selected(t, these)
<1> DEFINE step == Choose(these)
           a == Selected(s, these)
<1>1. Selected(s \o t, these) = Fold(step, a, t)
  BY FoldConcat, SelectedIsFold
<1>2. a \in Seq(Messages)
  BY SelectedType
<1>3. PICK f : Selection(f, t, these)
  BY SelectionExists
<1> HIDE DEF step, a
<1>4. PICK g : IsFold(g, step, a, t, Len(t)) /\ Fold(step, a, t) = g[Len(t)]
  BY FoldOfValues
<1>5. g[0] = a /\ \A i \in 1..Len(t) : g[i] = step[t[i]][g[i - 1]]
  BY <1>4, FoldValues
<1> DEFINE S == {n \in Nat : n <= Len(t) => g[n] = a \o f[n]}
<1>6. 0 \in S
  BY <1>2, <1>3, <1>5 DEF Selection
<1>7. ASSUME NEW n \in Nat, n \in S PROVE n + 1 \in S
  <2> SUFFICES ASSUME n + 1 <= Len(t) PROVE g[n + 1] = a \o f[n + 1]
    OBVIOUS
  <2>1. n + 1 \in 1..Len(t) /\ n \in 0..Len(t) /\ n + 1 - 1 = n /\ t[n + 1] \in Messages /\ g[n] = a \o f[n]
    BY <1>7
  <2>2. f[n] \in Seq(Messages) /\ f[n + 1] = IF t[n + 1] \in these THEN Append(f[n], t[n + 1]) ELSE f[n]
    BY <1>3, <2>1 DEF Selection
  <2>3. g[n] \in Seq(Messages)
    BY <1>2, <2>1, <2>2
  <2>4. g[n + 1] = IF t[n + 1] \in these THEN Append(g[n], t[n + 1]) ELSE g[n]
    <3>1. g[n + 1] = step[t[n + 1]][g[n + 1 - 1]]
      BY <1>5, <2>1
    <3>2. g[n + 1] = Choose(these)[t[n + 1]][g[n]]
      BY <2>1, <3>1 DEF step
    <3> QED BY <2>1, <2>3, <3>2, ChooseType
  <2>5. a \o Append(f[n], t[n + 1]) = Append(a \o f[n], t[n + 1])
    <3>1. a \in Seq(Messages) /\ f[n] \in Seq(Messages) /\ t[n + 1] \in Messages
      BY <1>2, <2>1, <2>2
    <3>2. \A x, y \in Seq(Messages), m \in Messages : x \o Append(y, m) = Append(x \o y, m)
      BY AppendBehind
    <3> QED BY <3>1, <3>2, Zenon
  <2> QED BY <2>1, <2>2, <2>4, <2>5
<1> HIDE DEF S
<1>8. Len(t) \in S
  BY <1>6, <1>7, Induction
<1>9. g[Len(t)] = a \o f[Len(t)]
  BY <1>8 DEF S
<1>10. f[Len(t)] = Selected(t, these)
  BY <1>3 DEF Selection
<1> QED BY <1>1, <1>4, <1>9, <1>10 DEF a

\* Two sets with the same elements of a sequence select alike.
LEMMA SelectedSame ==
  ASSUME NEW s \in Seq(Messages), NEW these, NEW those, \A i \in 1..Len(s) : s[i] \in these <=> s[i] \in those
  PROVE  Selected(s, these) = Selected(s, those)
<1>1. ASSUME NEW i \in 1..Len(s) PROVE Choose(these)[s[i]] = Choose(those)[s[i]]
  <2>1. s[i] \in Messages
    OBVIOUS
  <2> QED BY <2>1 DEF Choose
<1> QED BY <1>1, FoldSame, SelectedIsFold

LEMMA SelectedNone ==
  ASSUME NEW s \in Seq(Messages), NEW these, \A i \in 1..Len(s) : s[i] \notin these
  PROVE  Selected(s, these) = <<>>
<1>1. ASSUME NEW i \in 1..Len(s), NEW v \in {<<>>} PROVE Choose(these)[s[i]][v] \in {<<>>}
  <2>1. s[i] \in Messages /\ s[i] \notin these /\ v \in Seq(Messages)
    OBVIOUS
  <2> QED BY <2>1, ChooseType
<1> QED BY <1>1, FoldStays, SelectedIsFold

LEMMA SelectedAll ==
  ASSUME NEW s \in Seq(Messages), NEW these, \A i \in 1..Len(s) : s[i] \in these
  PROVE  Selected(s, these) = s
<1>1. PICK f : Selection(f, s, these)
  BY SelectionExists
<1> DEFINE S == {n \in Nat : n <= Len(s) => Len(f[n]) = n /\ \A k \in 1..n : f[n][k] = s[k]}
<1>2. 0 \in S
  BY <1>1 DEF Selection
<1>3. ASSUME NEW n \in Nat, n \in S PROVE n + 1 \in S
  <2> SUFFICES ASSUME n + 1 <= Len(s)
               PROVE  Len(f[n + 1]) = n + 1 /\ \A k \in 1..(n + 1) : f[n + 1][k] = s[k]
    OBVIOUS
  <2>1. n + 1 \in 1..Len(s) /\ n \in 0..Len(s) /\ n + 1 - 1 = n /\ s[n + 1] \in Messages
        /\ Len(f[n]) = n /\ \A k \in 1..n : f[n][k] = s[k]
    BY <1>3
  <2>2. f[n] \in Seq(Messages) /\ f[n + 1] = Append(f[n], s[n + 1])
    <3>1. s[n + 1] \in these
      BY <2>1
    <3>2. f[n + 1] = IF s[n + 1] \in these THEN Append(f[n + 1 - 1], s[n + 1]) ELSE f[n + 1 - 1]
      BY <1>1, <2>1 DEF Selection
    <3>3. f[n] \in Seq(Messages)
      BY <1>1, <2>1 DEF Selection
    <3> QED BY <2>1, <3>1, <3>2, <3>3
  <2> QED BY <2>1, <2>2
<1> HIDE DEF S
<1>4. Len(s) \in S
  BY <1>2, <1>3, Induction
<1>5. f[Len(s)] \in Seq(Messages) /\ f[Len(s)] = Selected(s, these)
  BY <1>1 DEF Selection
<1> QED BY <1>4, <1>5, SameSequence DEF S

\* What is selected again was selected before.
LEMMA SelectedTwice ==
  ASSUME NEW s \in Seq(Messages), NEW these, NEW those, those \subseteq these
  PROVE  Selected(Selected(s, these), those) = Selected(s, those)
<1>1. PICK f : Selection(f, s, these)
  BY SelectionExists
<1>2. PICK g : Selection(g, s, those)
  BY SelectionExists
<1> DEFINE S == {n \in Nat : n <= Len(s) => Selected(f[n], those) = g[n]}
<1>3. 0 \in S
  BY <1>1, <1>2, SelectedEmpty DEF Selection
<1>4. ASSUME NEW n \in Nat, n \in S PROVE n + 1 \in S
  <2> SUFFICES ASSUME n + 1 <= Len(s) PROVE Selected(f[n + 1], those) = g[n + 1]
    OBVIOUS
  <2>1. n + 1 \in 1..Len(s) /\ n \in 0..Len(s) /\ n + 1 - 1 = n /\ s[n + 1] \in Messages
        /\ Selected(f[n], those) = g[n]
    BY <1>4
  <2>2. f[n] \in Seq(Messages) /\ f[n + 1] = IF s[n + 1] \in these THEN Append(f[n], s[n + 1]) ELSE f[n]
    BY <1>1, <2>1 DEF Selection
  <2>3. g[n + 1] = IF s[n + 1] \in those THEN Append(g[n], s[n + 1]) ELSE g[n]
    BY <1>2, <2>1 DEF Selection
  <2>4. Selected(Append(f[n], s[n + 1]), those)
           = IF s[n + 1] \in those THEN Append(Selected(f[n], those), s[n + 1]) ELSE Selected(f[n], those)
    <3>1. f[n] \in Seq(Messages) /\ s[n + 1] \in Messages
      BY <2>1, <2>2
    <3>2. \A q \in Seq(Messages), m \in Messages :
             Selected(Append(q, m), those) = IF m \in those THEN Append(Selected(q, those), m) ELSE Selected(q, those)
      BY SelectedAppend
    <3> QED BY <3>1, <3>2, Zenon
  <2> QED BY <2>1, <2>2, <2>3, <2>4
<1> HIDE DEF S
<1>5. Len(s) \in S
  BY <1>3, <1>4, Induction
<1> QED BY <1>1, <1>2, <1>5 DEF S, Selection

\* What is selected has been there.
LEMMA SelectedIsOld ==
  ASSUME NEW s \in Seq(Messages), NEW these
  PROVE  \A i \in 1..Len(Selected(s, these)) : \E j \in 1..Len(s) : Selected(s, these)[i] = s[j]
<1> DEFINE Old == {m \in Messages : \E j \in 1..Len(s) : m = s[j]}
<1>1. ASSUME NEW i \in 1..Len(s), NEW v \in Seq(Old) PROVE Choose(these)[s[i]][v] \in Seq(Old)
  <2>1. s[i] \in Old /\ s[i] \in Messages /\ v \in Seq(Messages)
    OBVIOUS
  <2> HIDE DEF Old
  <2>2. Append(v, s[i]) \in Seq(Old)
    BY <2>1
  <2>3. Choose(these)[s[i]][v] = v \/ Choose(these)[s[i]][v] = Append(v, s[i])
    BY <2>1, ChooseType
  <2> QED BY <2>2, <2>3
<1>2. <<>> \in Seq(Old)
  OBVIOUS
<1> HIDE DEF Old
<1>3. Selected(s, these) \in Seq(Old)
  BY <1>1, <1>2, FoldStays, SelectedIsFold
<1>4. \A i \in 1..Len(Selected(s, these)) : Selected(s, these)[i] \in Old
  BY <1>3
<1> QED BY <1>4 DEF Old

\* Findings are no part of a call: without them the rest stays well formed.
LEMMA WithoutIsWellFormed ==
  ASSUME NEW s \in Seq(Messages), WellFormed(s), NEW task
  PROVE  Without(s, task) \in Seq(Messages) /\ WellFormed(Without(s, task))
<1> DEFINE these == {m \in Messages : ~(m.kind = "fed" /\ m.of = task)}
<1>1. Without(s, task) = Selected(s, these)
  BY DEF Without
<1>2. \A m \in Messages : m.kind # "fed" => m \in these
  OBVIOUS
<1>3. \A m \in Messages : m \notin these => m.kind = "fed"
  OBVIOUS
<1> HIDE DEF these
<1>4. PICK f : Selection(f, s, these)
  BY SelectionExists
<1> DEFINE Open(q, n) ==
               /\ \A i \in 1..Len(q) :
                     /\ q[i].kind = "ret" => i > 1 /\ q[i-1].kind = "call" /\ q[i-1].of = q[i].of
                     /\ q[i].kind = "call" /\ i < Len(q) => q[i+1].kind = "ret"
               /\ Len(q) > 0 /\ q[Len(q)].kind = "call" => n > 0 /\ s[n] = q[Len(q)]
               /\ n > 0 /\ s[n] \in these => Len(q) > 0 /\ q[Len(q)] = s[n]
           S == {n \in Nat : n <= Len(s) => Open(f[n], n)}
<1>5. 0 \in S
  BY <1>4 DEF Selection
<1>6. ASSUME NEW n \in Nat, n \in S PROVE n + 1 \in S
  <2> SUFFICES ASSUME n + 1 <= Len(s) PROVE Open(f[n + 1], n + 1)
    OBVIOUS
  <2> DEFINE q == f[n]
             m == s[n + 1]
  <2>1. n + 1 \in 1..Len(s) /\ n \in 0..Len(s) /\ n + 1 - 1 = n /\ m \in Messages /\ Open(q, n)
    BY <1>6
  <2>2. f[n + 1] = IF m \in these THEN Append(f[n + 1 - 1], m) ELSE f[n + 1 - 1]
    BY <1>4, <2>1 DEF Selection
  <2>3. f[n + 1] = IF m \in these THEN Append(q, m) ELSE q
    BY <2>1, <2>2
  <2>4. q \in Seq(Messages)
    BY <1>4, <2>1 DEF Selection
  <2>5. m.kind = "ret" => n > 0 /\ s[n].kind = "call" /\ s[n].of = m.of /\ s[n] \in these
    <3>1. m.kind = "ret" => n + 1 > 1 /\ s[n + 1 - 1].kind = "call" /\ s[n + 1 - 1].of = m.of
      <4>1. n + 1 \in DOMAIN s
        BY <2>1
      <4> DEFINE k == n + 1
      <4> HIDE DEF k
      <4>2. s[k].kind = "ret" => k > 1 /\ s[k - 1].kind = "call" /\ s[k - 1].of = s[k].of
        BY <4>1 DEF WellFormed, k
      <4> QED BY <4>2 DEF k
    <3>2. n > 0 => s[n] \in Messages
      BY <2>1
    <3> QED BY <1>2, <2>1, <3>1, <3>2
  <2>6. n > 0 /\ s[n].kind = "call" => m.kind = "ret"
    <3>1. n > 0 => n \in DOMAIN s
      BY <2>1
    <3> QED BY <3>1 DEF WellFormed
  <2>7. Len(q) \in Nat /\ Len(q) > 0 /\ q[Len(q)].kind = "call" => m.kind = "ret"
    BY <2>1, <2>6
  <2>8. m.kind = "ret" => Len(q) > 0 /\ q[Len(q)].kind = "call" /\ q[Len(q)].of = m.of
    BY <2>1, <2>5
  <2>9. CASE m \in these
    <3> DEFINE u == Append(q, m)
    <3>1. u \in Seq(Messages) /\ Len(u) = Len(q) + 1 /\ u[Len(q) + 1] = m /\ Len(q) \in Nat
          /\ \A i \in 1..Len(q) : u[i] = q[i]
      BY <2>1, <2>4
    <3> HIDE DEF u, q, m
    <3>2. ASSUME NEW i \in 1..Len(u)
          PROVE  /\ u[i].kind = "ret" => i > 1 /\ u[i-1].kind = "call" /\ u[i-1].of = u[i].of
                 /\ u[i].kind = "call" /\ i < Len(u) => u[i+1].kind = "ret"
      <4>1. CASE i = Len(q) + 1
        <5>1. u[i] = m /\ (Len(q) > 0 => u[i-1] = q[Len(q)])
          BY <3>1, <4>1
        <5> QED BY <2>8, <3>1, <4>1, <5>1
      <4>2. CASE i \in 1..Len(q)
        <5>1. u[i] = q[i] /\ (i > 1 => u[i-1] = q[i-1]) /\ (i < Len(q) => u[i+1] = q[i+1])
          BY <3>1, <4>2
        <5>2. i = Len(q) => u[i+1] = m
          BY <3>1
        <5>3. /\ q[i].kind = "ret" => i > 1 /\ q[i-1].kind = "call" /\ q[i-1].of = q[i].of
              /\ q[i].kind = "call" /\ i < Len(q) => q[i+1].kind = "ret"
          BY <2>1, <4>2
        <5>4. i < Len(q) \/ i = Len(q)
          BY <3>1, <4>2
        <5> QED BY <2>7, <3>1, <4>2, <5>1, <5>2, <5>3, <5>4
      <4> QED BY <3>1, <4>1, <4>2
    <3>3. u[Len(u)] = s[n + 1] /\ Len(u) > 0 /\ n + 1 > 0
      BY <3>1 DEF m
    <3>4. Open(u, n + 1)
      BY <3>2, <3>3
    <3> QED BY <2>3, <2>9, <3>4 DEF u
  <2>10. CASE m \notin these
    <3>1. m.kind = "fed" /\ f[n + 1] = q
      BY <1>3, <2>1, <2>3, <2>10
    <3>2. ~(Len(q) > 0 /\ q[Len(q)].kind = "call")
      BY <2>4, <2>7, <3>1
    <3> QED BY <2>1, <2>10, <3>1, <3>2
  <2> QED BY <2>9, <2>10
<1> HIDE DEF S
<1>7. Len(s) \in S /\ Len(s) \in Nat
  BY <1>5, <1>6, Induction
<1>8. Open(f[Len(s)], Len(s))
  BY <1>7 DEF S
<1> DEFINE w == f[Len(s)]
<1>9. w \in Seq(Messages) /\ w = Selected(s, these)
  BY <1>4 DEF Selection
<1>10. ~(Len(w) > 0 /\ w[Len(w)].kind = "call")
  <2>1. Len(s) > 0 => Len(s) \in DOMAIN s /\ ~(Len(s) < Len(s))
    OBVIOUS
  <2>2. Len(s) > 0 => s[Len(s)].kind # "call"
    BY <2>1 DEF WellFormed
  <2> QED BY <1>8, <2>2
<1> HIDE DEF w
<1>11. WellFormed(w)
  <2>1. DOMAIN w = 1..Len(w) /\ Len(w) \in Nat
    BY <1>9
  <2>2. \A n \in Nat : \A i \in 1..n : i < n \/ (i = n /\ n > 0)
    OBVIOUS
  <2> QED BY <1>8, <1>10, <2>1, <2>2 DEF WellFormed, w
<1> QED BY <1>1, <1>9, <1>11

-----------------------------------------------------------------------------
(* Histories: rows *)

Join == [row \in Seq(Messages) |-> [s \in Seq(Messages) |-> s \o row]]

LEMMA JoinedIsFold == ASSUME NEW q PROVE Joined(q) = Fold(Join, <<>>, q)
BY DEF Joined, Join

LEMMA JoinedEmpty == Joined(<<>>) = <<>>
BY JoinedIsFold, FoldEmpty

LEMMA JoinedType ==
  ASSUME NEW q \in Seq(Seq(Messages)), \A r \in DOMAIN q : WellFormed(q[r])
  PROVE  Joined(q) \in Seq(Messages) /\ WellFormed(Joined(q))
<1> DEFINE V == {s \in Seq(Messages) : WellFormed(s)}
<1>1. <<>> \in V
  BY DEF WellFormed
<1>2. ASSUME NEW r \in 1..Len(q), NEW s \in V PROVE Join[q[r]][s] \in V
  <2>1. q[r] \in Seq(Messages) /\ r \in DOMAIN q /\ s \in Seq(Messages) /\ WellFormed(s)
    OBVIOUS
  <2>2. Join[q[r]][s] = s \o q[r]
    BY <2>1 DEF Join
  <2>3. s \o q[r] \in Seq(Messages) /\ WellFormed(s \o q[r])
    BY <2>1, ConcatIsWellFormed
  <2> QED BY <2>2, <2>3
<1> HIDE DEF V
<1>3. Joined(q) \in V
  BY <1>1, <1>2, FoldStays, JoinedIsFold
<1> QED BY <1>3 DEF V

LEMMA JoinedAppend ==
  ASSUME NEW q \in Seq(Seq(Messages)), NEW row \in Seq(Messages), Joined(q) \in Seq(Messages)
  PROVE  Joined(Append(q, row)) = Joined(q) \o row
<1>1. Joined(Append(q, row)) = Join[row][Joined(q)]
  BY FoldAppend, JoinedIsFold
<1> QED BY <1>1 DEF Join

\* A history that ends well needs no repair.
LEMMA RepairedIsSame == ASSUME NEW s \in Seq(Messages), WellFormed(s) PROVE Repaired(s) = s
<1>1. ASSUME s # <<>> PROVE Last(s).kind # "call"
  <2>1. Len(s) \in DOMAIN s /\ ~(Len(s) < Len(s)) /\ Last(s) = s[Len(s)]
    BY <1>1 DEF Last
  <2> QED BY <2>1 DEF WellFormed
<1> QED BY <1>1 DEF Repaired

-----------------------------------------------------------------------------
(* What a model run brings *)

LEMMA MessageFacts ==
  ASSUME NEW which \in {"ask", "call", "ret", "say", "fed"}, NEW of \in Nat, NEW size \in Nat
  PROVE  /\ Message(which, of, size) \in Messages /\ Message(which, of, size).kind = which
         /\ Message(which, of, size).of = of /\ Message(which, of, size).size = size
BY DEF Message, Messages

\* One turn: a prompt and what follows it, all of it the turn's own.
OneTurn(s, t) ==
    /\ s \in Seq(Messages) /\ Len(s) > 0 /\ WellFormed(s)
    /\ \A i \in 1..Len(s) : s[i].of = t /\ s[i].kind # "fed" /\ (s[i].kind = "ask" <=> i = 1)

LEMMA ExchangeFacts == ASSUME NEW t \in Nat, NEW size \in Nat PROVE OneTurn(Exchange(t, size), t)
<1> DEFINE a == Message("ask", t, 1)
           b == Message("say", t, size)
<1>1. a \in Messages /\ a.kind = "ask" /\ a.of = t /\ b \in Messages /\ b.kind = "say" /\ b.of = t
  BY MessageFacts
<1> HIDE DEF a, b
<1>2. <<a, b>> \in Seq(Messages) /\ Len(<<a, b>>) = 2 /\ <<a, b>>[1] = a /\ <<a, b>>[2] = b
  BY <1>1
<1>3. \A i \in 1..2 : i = 1 \/ i = 2
  OBVIOUS
<1> DEFINE q == <<a, b>>
<1> HIDE DEF q
<1>4. OneTurn(q, t)
  BY <1>1, <1>2, <1>3 DEF OneTurn, WellFormed, q
<1> QED BY <1>4 DEF Exchange, q, a, b

LEMMA SanitizedFacts ==
  ASSUME NEW s \in Seq(Messages), NEW t, OneTurn(s, t) PROVE OneTurn(Sanitized(s), t)
<1> DEFINE u == Sanitized(s)
<1>1. ASSUME NEW i \in 1..Len(s) PROVE u[i] \in Messages /\ u[i].kind = s[i].kind /\ u[i].of = s[i].of
  <2>1. s[i] \in Messages /\ ResultCap + 1 \in Nat
    BY LimitsAreNumbers
  <2>2. u[i] = s[i] \/ u[i] = [s[i] EXCEPT !.size = ResultCap + 1]
    BY DEF Sanitized
  <2> QED BY <2>1, <2>2 DEF Messages
<1>2. u \in Seq(Messages) /\ Len(u) = Len(s)
  <2>1. DOMAIN u = 1..Len(s) /\ u = [i \in 1..Len(s) |-> u[i]]
    BY DEF Sanitized
  <2> HIDE DEF u
  <2> QED BY <1>1, <2>1
<1> HIDE DEF u
<1>3. \A i \in 1..Len(s) : i - 1 \in 1..Len(s) \/ ~(i > 1)
  OBVIOUS
<1>4. \A i \in 1..Len(s) : i + 1 \in 1..Len(s) \/ ~(i < Len(s))
  OBVIOUS
<1>5. WellFormed(u)
  <2>1. WellFormed(s) /\ DOMAIN s = 1..Len(s) /\ DOMAIN u = 1..Len(s)
    BY <1>2 DEF OneTurn
  <2> QED BY <1>1, <1>2, <1>3, <1>4, <2>1 DEF WellFormed
<1>6. OneTurn(u, t)
  BY <1>1, <1>2, <1>5 DEF OneTurn
<1> QED BY <1>6 DEF u

LEMMA AnsweredFacts ==
  ASSUME NEW t \in Nat, NEW outcome \in {"text", "long", "tools"} PROVE OneTurn(Answered(t, outcome), t)
<1>1. CASE outcome = "text"
  BY <1>1, ExchangeFacts DEF Answered
<1>2. CASE outcome = "long"
  BY <1>2, ExchangeFacts, LimitsAreNumbers DEF Answered
<1>3. CASE outcome = "tools"
  <2> DEFINE a == Message("ask", t, 1)
             b == Message("call", t, 1)
             c == Message("ret", t, TokenBudget)
             d == Message("say", t, 1)
  <2>1. /\ a \in Messages /\ a.kind = "ask" /\ a.of = t /\ b \in Messages /\ b.kind = "call" /\ b.of = t
        /\ c \in Messages /\ c.kind = "ret" /\ c.of = t /\ d \in Messages /\ d.kind = "say" /\ d.of = t
    BY MessageFacts, LimitsAreNumbers
  <2> HIDE DEF a, b, c, d
  <2> DEFINE q == <<a, b, c, d>>
  <2>2. /\ q \in Seq(Messages) /\ Len(q) = 4 /\ q[1] = a /\ q[2] = b /\ q[3] = c /\ q[4] = d
        /\ DOMAIN q = 1..4
    BY <2>1
  <2> HIDE DEF q
  <2>3. \A i \in 1..4 : i = 1 \/ i = 2 \/ i = 3 \/ i = 4
    OBVIOUS
  <2>4. WellFormed(q)
    BY <2>1, <2>2, <2>3 DEF WellFormed
  <2>5. OneTurn(q, t)
    BY <2>1, <2>2, <2>3, <2>4 DEF OneTurn
  <2>6. Answered(t, outcome) = Sanitized(q)
    BY <1>3 DEF Answered, q, a, b, c, d
  <2>7. q \in Seq(Messages)
    BY <2>2
  <2> QED BY <2>5, <2>6, <2>7, SanitizedFacts
<1> QED BY <1>1, <1>2, <1>3

-----------------------------------------------------------------------------
(* The types, in three parts: the threads, the screen and the histories *)

Places == {"none", "begin", "call", "model", "account", "extend", "bound", "number", "row", "record", "say",
           "finish", "over", "failed", "gone"}
Types == {"AgentInputAdded", "LLMActionEmitted", "AgentTurnRecorded", "LLMTextEmitted"}

ThreadsOK ==
    /\ at \in [Turns -> Places] /\ kind \in Scripts
    /\ heard \in [Turns -> Turns \cup {0}] /\ callbacks \in Turns \cup {0}
    /\ ordinal \in [Turns -> Nat] /\ log \in Seq(Types \X Turns) /\ faults \in Nat

ScreenOK ==
    /\ app \in {"up", "down"} /\ pending \in {"none", "resume"}
    /\ running \in BOOLEAN /\ abort \in BOOLEAN /\ finalized \in BOOLEAN /\ raced \in BOOLEAN /\ skipped \in BOOLEAN
    /\ queued \in Seq(Turns) /\ later \in Nat /\ next \in Nat
    /\ worker \in [Turns -> {"none", "polling", "over"}] /\ tracked \in [Turns -> BOOLEAN]

Good(s) == s \in Seq(Messages) /\ WellFormed(s)

\* All histories are well formed, and what a model run brought is one turn.
HistoriesOK ==
    /\ Good(history) /\ rows \in Seq(Seq(Messages)) /\ \A i \in DOMAIN rows : WellFormed(rows[i])
    /\ new \in [Turns -> Seq(Messages)] /\ kept \in [Turns -> Seq(Messages)] /\ sent \in [Turns -> Seq(Messages)]
    /\ \A t \in Turns : WellFormed(kept[t]) /\ WellFormed(sent[t]) /\ (new[t] = <<>> \/ OneTurn(new[t], t))

LEMMA TypeParts == ThreadsOK /\ ScreenOK /\ HistoriesOK => TypeOK /\ HistoryIsAccepted
BY DEF ThreadsOK, ScreenOK, HistoriesOK, Good, TypeOK, HistoryIsAccepted, Places, Types, Ends

LEMMA TurnFacts == ASSUME NEW t \in Turns PROVE t \in Nat /\ t # 0
BY InputsAssumption

LEMMA GoType ==
  ASSUME ThreadsOK, NEW t \in Turns, NEW there \in Places, Go(t, there)
  PROVE  at' \in [Turns -> Places] /\ at'[t] = there /\ \A u \in Turns \ {t} : at'[u] = at[u]
BY DEF Go, ThreadsOK

LEMMA PublishType ==
  ASSUME ThreadsOK, NEW t \in Turns, NEW there \in Places, NEW type \in Types, Publish(t, type, there)
  PROVE  log' \in Seq(Types \X Turns) /\ faults' \in Nat /\ (Go(t, there) \/ Go(t, "failed"))
<1>1. CASE log' = Append(log, <<type, t>>) /\ Go(t, there) /\ UNCHANGED faults
  <2>1. <<type, t>> \in Types \X Turns
    OBVIOUS
  <2> QED BY <1>1, <2>1 DEF ThreadsOK
<1>2. CASE faults' = faults + 1 /\ Go(t, "failed") /\ UNCHANGED log
  BY <1>2 DEF ThreadsOK
<1> QED BY <1>1, <1>2 DEF Publish

\* The step of a thread takes it, and no other, from a place to another.
LEMMA ThreadMoves ==
  ASSUME ThreadsOK, NEW t \in Turns, Step(t)
  PROVE  /\ Busy(t) /\ UNCHANGED <<kind, callbacks>>
         /\ \E there \in Places \ {"none"} : Go(t, there)
<1>1. CASE Begin(t)
  BY <1>1, PublishType DEF Begin, Busy, Places, Types
<1>2. CASE Call(t)
  BY <1>2 DEF Call, Busy, Places
<1>3. CASE Answer(t)
  BY <1>3 DEF Answer, Busy, Places
<1>4. CASE Account(t)
  BY <1>4, PublishType DEF Account, Busy, Places, Types
<1>5. CASE Extend(t)
  BY <1>5 DEF Extend, Busy, Places
<1>6. CASE Bound(t)
  BY <1>6 DEF Bound, Busy, Places
<1>7. CASE Number(t)
  BY <1>7 DEF Number, Busy, Places
<1>8. CASE Insert(t)
  BY <1>8 DEF Insert, Busy, Places
<1>9. CASE Record(t)
  BY <1>9, PublishType DEF Record, Busy, Places, Types
<1>10. CASE Say(t)
  BY <1>10, PublishType DEF Say, Busy, Places, Types
<1>11. CASE Command(t)
  BY <1>11 DEF Command, Busy, Places
<1> QED BY <1>1, <1>2, <1>3, <1>4, <1>5, <1>6, <1>7, <1>8, <1>9, <1>10, <1>11 DEF Step

LEMMA StepThreads == ASSUME ThreadsOK, HistoriesOK, NEW t \in Turns, Step(t) PROVE ThreadsOK'
<1>1. at' \in [Turns -> Places] /\ UNCHANGED <<kind, callbacks>>
  BY ThreadMoves, GoType
<1>2. heard' \in [Turns -> Turns \cup {0}]
  BY DEF Step, Begin, Call, Answer, Account, Extend, Bound, Number, Insert, Record, Say, Command, sessionVars, ThreadsOK
<1>3. ordinal' \in [Turns -> Nat]
  <2>1. Len(rows) + 1 \in Nat
    BY DEF HistoriesOK
  <2> QED BY <2>1 DEF Step, Begin, Call, Answer, Account, Extend, Bound, Number, Insert, Record, Say, Command,
                     sessionVars, ThreadsOK
<1>4. log' \in Seq(Types \X Turns) /\ faults' \in Nat
  <2>1. CASE Begin(t) \/ Account(t) \/ Record(t) \/ Say(t)
    BY <2>1, PublishType DEF Begin, Account, Record, Say, Places, Types
  <2>2. CASE ~(Begin(t) \/ Account(t) \/ Record(t) \/ Say(t))
    BY <2>2 DEF Step, Call, Answer, Extend, Bound, Number, Insert, Command, sessionVars, ThreadsOK
  <2> QED BY <2>1, <2>2
<1> QED BY <1>1, <1>2, <1>3, <1>4 DEF ThreadsOK

\* A command leaves a well-formed history.
LEMMA CommandKeeps ==
  ASSUME HistoriesOK, NEW t \in Turns, Command(t) PROVE Good(history')
<1>1. Good(history)
  BY DEF HistoriesOK
<1>2. CASE Goal(t)
  <2>1. OneTurn(Exchange(t, 1), t)
    BY TurnFacts, ExchangeFacts
  <2> QED BY <1>1, <1>2, <2>1, ConcatIsWellFormed DEF Goal, OneTurn, Good
<1>3. CASE Spawn(t)
  BY <1>1, <1>3 DEF Spawn
<1>4. ASSUME NEW task \in 1..t, Feed(t, task) PROVE Good(history')
  <2> DEFINE m == Message("fed", task, 1)
  <2>1. m \in Messages /\ m.kind = "fed"
    BY TurnFacts, MessageFacts
  <2> HIDE DEF m
  <2>2. Good(<<m>>)
    <3>1. <<m>> \in Seq(Messages) /\ DOMAIN <<m>> = 1..1 /\ <<m>>[1] = m
      BY <2>1
    <3>2. \A i \in 1..1 : i = 1
      OBVIOUS
    <3> QED BY <2>1, <3>1, <3>2 DEF Good, WellFormed
  <2>3. Append(history, m) = history \o <<m>>
    BY <1>1, <2>1 DEF Good
  <2>4. Good(Append(history, m))
    BY <1>1, <2>2, <2>3, ConcatIsWellFormed DEF Good
  <2>5. Good(Bounded(Append(history, m)))
    BY <2>4, BoundedIsWellFormed DEF Good
  <2> QED BY <1>1, <1>4, <2>5 DEF Feed, m
<1>5. ASSUME NEW task \in 1..t, Slice(task) PROVE Good(history')
  BY <1>1, <1>5, WithoutIsWellFormed DEF Slice, Good
<1> QED BY <1>2, <1>3, <1>4, <1>5 DEF Command

LEMMA AppendFacts ==
  ASSUME NEW S, NEW s \in Seq(S), NEW e \in S
  PROVE  /\ Append(s, e) \in Seq(S) /\ Len(Append(s, e)) = Len(s) + 1 /\ Len(s) \in Nat
         /\ DOMAIN Append(s, e) = 1..(Len(s) + 1) /\ Append(s, e)[Len(s) + 1] = e
         /\ \A i \in 1..Len(s) : Append(s, e)[i] = s[i]
         /\ \A i \in DOMAIN Append(s, e) : Append(s, e)[i] = e \/ (i \in DOMAIN s /\ Append(s, e)[i] = s[i])
OBVIOUS

LEMMA StepHistories == ASSUME ThreadsOK, HistoriesOK, NEW t \in Turns, Step(t) PROVE HistoriesOK'
<1> USE DEF HistoriesOK
<1>1. CASE Begin(t) \/ Account(t) \/ Number(t) \/ Record(t) \/ Say(t)
  BY <1>1 DEF Begin, Account, Number, Record, Say, sessionVars, Good
<1>2. CASE Call(t)
  <2>1. Good(Pruned(history))
    BY BoundedIsWellFormed DEF Good
  <2> QED BY <1>2, <2>1 DEF Call, Good
<1>3. CASE Answer(t)
  <2>1. PICK outcome \in Outcomes :
          new' = IF outcome \in {"text", "long", "tools"} THEN [new EXCEPT ![t] = Answered(t, outcome)] ELSE new
    BY <1>3 DEF Answer
  <2>2. outcome \in {"text", "long", "tools"} => OneTurn(Answered(t, outcome), t)
    BY TurnFacts, AnsweredFacts
  <2>3. OneTurn(Answered(t, outcome), t) => Answered(t, outcome) \in Seq(Messages)
    BY DEF OneTurn
  <2>4. new' \in [Turns -> Seq(Messages)] /\ \A u \in Turns : new'[u] = <<>> \/ OneTurn(new'[u], u)
    BY <2>1, <2>2, <2>3
  <2> QED BY <1>3, <2>4 DEF Answer, Good
<1>4. CASE Extend(t)
  <2>1. Good(new[t])
    BY DEF OneTurn, Good, WellFormed
  <2>2. Good(history \o new[t])
    BY <2>1, ConcatIsWellFormed DEF Good
  <2>3. Good(Bounded(history \o new[t]))
    BY <2>2, BoundedIsWellFormed DEF Good
  <2> QED BY <1>4, <2>2, <2>3 DEF Extend, Good
<1>5. CASE Bound(t)
  BY <1>5 DEF Bound, Good
<1>6. CASE Insert(t)
  <2>1. Good(new[t])
    BY DEF OneTurn, Good, WellFormed
  <2>2. rows' = Append(rows, new[t]) \/ rows' = rows
    BY <1>6 DEF Insert
  <2>3. CASE rows' = rows
    BY <1>6, <2>3 DEF Insert, Good
  <2>4. CASE rows' = Append(rows, new[t])
    <3>1. rows' \in Seq(Seq(Messages))
      BY <2>1, <2>4 DEF Good
    <3>2. \A i \in DOMAIN rows' : WellFormed(rows'[i])
      BY <2>1, <2>4, AppendFacts DEF Good
    <3> QED BY <1>6, <3>1, <3>2 DEF Insert, Good
  <2> QED BY <2>2, <2>3, <2>4
<1>7. CASE Command(t)
  <2>1. Good(history')
    BY <1>7, CommandKeeps
  <2> QED BY <1>7, <2>1 DEF Command, Good
<1> QED BY <1>1, <1>2, <1>3, <1>4, <1>5, <1>6, <1>7 DEF Step

-----------------------------------------------------------------------------
(* The types are kept *)

TypesOK == ThreadsOK /\ ScreenOK /\ HistoriesOK

LEMMA SubmitType ==
  ASSUME TypesOK, NEW t \in Turns, Submit(t)
  PROVE  /\ at' \in [Turns -> Places] /\ callbacks' \in Turns \cup {0}
         /\ running' \in BOOLEAN /\ abort' \in BOOLEAN /\ finalized' \in BOOLEAN /\ skipped' \in BOOLEAN
         /\ worker' \in [Turns -> {"none", "polling", "over"}]
<1>1. Go(t, "begin") /\ "begin" \in Places
  BY DEF Submit, Places
<1>2. at' \in [Turns -> Places]
  BY <1>1, GoType DEF TypesOK
<1> QED BY <1>2 DEF Submit, TypesOK, ScreenOK

LEMMA NextIsTurn == ASSUME TypesOK, next \in DOMAIN kind PROVE next \in Turns
BY InputsAssumption DEF TypesOK, ThreadsOK

LEMMA TypeTypes == ASSUME TypesOK, Type PROVE TypesOK'
<1>1. next \in Turns /\ next' \in Nat
  BY NextIsTurn DEF Type, TypesOK, ScreenOK
<1>2. HistoriesOK'
  BY DEF Type, sessionVars, HistoriesOK, TypesOK, Good
<1>3. CASE ~running /\ Submit(next) /\ raced' = (raced \/ later > 0) /\ UNCHANGED queued
  BY <1>1, <1>2, <1>3, SubmitType DEF Type, sessionVars, TypesOK, ThreadsOK, ScreenOK
<1>4. CASE /\ running /\ queued' = IF Len(queued) < QueueMax THEN Append(queued, next) ELSE queued
           /\ UNCHANGED <<abort, finalized, running, skipped, worker, callbacks, at, raced>>
  <2>1. queued' \in Seq(Turns)
    BY <1>1, <1>4 DEF TypesOK, ScreenOK
  <2> QED BY <1>1, <1>2, <1>4, <2>1 DEF Type, sessionVars, TypesOK, ThreadsOK, ScreenOK
<1> QED BY <1>3, <1>4 DEF Type

LEMMA DequeueTypes == ASSUME TypesOK, Dequeue PROVE TypesOK'
<1>1. HistoriesOK' /\ later' \in Nat
  BY DEF Dequeue, sessionVars, HistoriesOK, TypesOK, ScreenOK, Good
<1>2. CASE queued # <<>> /\ Submit(Head(queued)) /\ queued' = Tail(queued)
  <2>1. Head(queued) \in Turns /\ queued' \in Seq(Turns)
    BY <1>2 DEF TypesOK, ScreenOK
  <2> QED BY <1>1, <1>2, <2>1, SubmitType DEF Dequeue, sessionVars, TypesOK, ThreadsOK, ScreenOK
<1>3. CASE queued = <<>> /\ UNCHANGED <<queued, abort, finalized, running, skipped, worker, callbacks, at>>
  BY <1>1, <1>3 DEF Dequeue, sessionVars, TypesOK, ThreadsOK, ScreenOK
<1> QED BY <1>2, <1>3 DEF Dequeue

LEMMA AfterTurnTypes == ASSUME TypesOK, AfterTurn PROVE pending' \in {"none", "resume"} /\ app' \in {"up", "down"} /\ later' \in Nat /\ skipped' \in BOOLEAN
<1>1. pending' \in {"none", "resume"} /\ app' \in {"up", "down"} /\ later' \in Nat
  BY DEF AfterTurn, TypesOK, ScreenOK
<1>2. skipped' \in BOOLEAN
  BY Zenon DEF AfterTurn, TypesOK, ScreenOK
<1> QED BY <1>1, <1>2

LEMMA FinishTypes == ASSUME TypesOK, NEW t \in Turns, Finish(t) PROVE TypesOK'
<1>1. HistoriesOK'
  BY DEF Finish, sessionVars, HistoriesOK, TypesOK, Good
<1>2. Go(t, "over") /\ "over" \in Places
  BY DEF Finish, Places
<1>3. at' \in [Turns -> Places]
  BY <1>2, GoType DEF TypesOK
<1>4. CASE callbacks # 0 /\ tracked' = [tracked EXCEPT ![callbacks] = TRUE] /\ Finalize
  BY <1>1, <1>3, <1>4, AfterTurnTypes DEF Finish, Finalize, sessionVars, TypesOK, ThreadsOK, ScreenOK
<1>5. CASE UNCHANGED <<tracked, app, callbacks, running, later, pending, skipped>>
  BY <1>1, <1>3, <1>5 DEF Finish, sessionVars, TypesOK, ThreadsOK, ScreenOK
<1> QED BY <1>4, <1>5 DEF Finish

LEMMA ChunkTypes == ASSUME TypesOK, NEW t \in Turns, Chunk(t) PROVE TypesOK'
<1>1. HistoriesOK'
  BY DEF Chunk, sessionVars, HistoriesOK, TypesOK, Good
<1>2. CASE finalized' = TRUE /\ Finalize /\ UNCHANGED at
  BY <1>1, <1>2, AfterTurnTypes DEF Chunk, Finalize, sessionVars, TypesOK, ThreadsOK, ScreenOK
<1>3. CASE Go(t, "failed") /\ UNCHANGED <<app, callbacks, running, later, pending, finalized, skipped>>
  <2>1. at' \in [Turns -> Places]
    BY <1>3, GoType DEF TypesOK, Places
  <2> QED BY <1>1, <1>3, <2>1 DEF Chunk, sessionVars, TypesOK, ThreadsOK, ScreenOK
<1> QED BY <1>2, <1>3 DEF Chunk

LEMMA RestartTypes == ASSUME TypesOK, Restart PROVE TypesOK'
<1>1. history' = Joined(rows) /\ Good(history')
  <2>1. Good(Joined(rows))
    BY JoinedType DEF TypesOK, HistoriesOK, Good
  <2> QED BY <2>1, RepairedIsSame DEF Restart, Good
<1>2. HistoriesOK'
  BY <1>1 DEF Restart, HistoriesOK, TypesOK, Good
<1>3. at' \in [Turns -> Places]
  BY DEF Restart, TypesOK, ThreadsOK, Places
<1>4. ThreadsOK'
  BY <1>3 DEF Restart, TypesOK, ThreadsOK
<1>5. worker' \in [Turns -> {"none", "polling", "over"}]
  BY DEF Restart
<1>6. ScreenOK'
  <2>1. running' \in BOOLEAN /\ abort' \in BOOLEAN /\ finalized' \in BOOLEAN /\ raced' \in BOOLEAN /\ skipped' \in BOOLEAN
    BY Zenon DEF Restart, TypesOK, ScreenOK
  <2>2. queued' \in Seq(Turns) /\ later' \in Nat /\ next' \in Nat /\ tracked' \in [Turns -> BOOLEAN]
    BY DEF Restart, TypesOK, ScreenOK
  <2>3. app' \in {"up", "down"} /\ pending' \in {"none", "resume"}
    BY Zenon DEF Restart
  <2> QED BY <1>5, <2>1, <2>2, <2>3 DEF ScreenOK
<1> QED BY <1>2, <1>4, <1>6 DEF TypesOK

LEMMA TypesKept == ASSUME TypesOK, [Next]_vars PROVE TypesOK'
<1>1. CASE Type \/ Dequeue \/ Restart
  BY <1>1, TypeTypes, DequeueTypes, RestartTypes
<1>2. CASE Restore
  <2>1. Front(queued) \in Seq(Turns)
    BY <1>2 DEF Restore, Front, TypesOK, ScreenOK
  <2> QED BY <1>2, <2>1 DEF Restore, turnVars, sessionVars, TypesOK, ThreadsOK, ScreenOK, HistoriesOK, Good
<1>3. CASE Leave
  BY <1>3 DEF Leave, Exit, turnVars, sessionVars, TypesOK, ThreadsOK, ScreenOK, HistoriesOK, Good
<1>4. ASSUME NEW cmd \in {"escape", "resume"}, Interrupt(cmd) PROVE TypesOK'
  BY <1>4 DEF Interrupt, turnVars, sessionVars, TypesOK, ThreadsOK, ScreenOK, HistoriesOK, Good
<1>5. ASSUME NEW t \in Turns, Step(t), UNCHANGED uiVars PROVE TypesOK'
  BY <1>5, StepThreads, StepHistories DEF uiVars, TypesOK, ScreenOK
<1>6. ASSUME NEW t \in Turns, Finish(t) \/ Chunk(t) PROVE TypesOK'
  BY <1>6, FinishTypes, ChunkTypes
<1>7. ASSUME NEW t \in Turns, Finished(t) PROVE TypesOK'
  <2>1. HistoriesOK' /\ ThreadsOK'
    BY <1>7 DEF Finished, turnVars, sessionVars, TypesOK, ThreadsOK, HistoriesOK, Good
  <2>2. worker' \in [Turns -> {"none", "polling", "over"}]
    BY <1>7 DEF Finished, TypesOK, ScreenOK
  <2>4. running' \in BOOLEAN
    BY <1>7, Zenon DEF Finished, TypesOK, ScreenOK
  <2>5. later' \in Nat
    BY <1>7 DEF Finished, TypesOK, ScreenOK
  <2>3. running' \in BOOLEAN /\ later' \in Nat
    BY <2>4, <2>5
  <2> QED BY <1>7, <2>1, <2>2, <2>3 DEF Finished, TypesOK, ScreenOK
<1>8. ASSUME NEW t \in Turns, Broken(t) PROVE TypesOK'
  BY <1>8 DEF Broken, Exit, turnVars, sessionVars, TypesOK, ThreadsOK, ScreenOK, HistoriesOK, Good
<1>9. CASE UNCHANGED vars
  BY <1>9 DEF vars, uiVars, turnVars, sessionVars, TypesOK, ThreadsOK, ScreenOK, HistoriesOK, Good
<1> QED BY <1>1, <1>2, <1>3, <1>4, <1>5, <1>6, <1>7, <1>8, <1>9 DEF Next, User, Work, Thread

LEMMA InitTypes == Init => TypesOK
<1> SUFFICES ASSUME Init PROVE TypesOK
  OBVIOUS
<1>1. ThreadsOK
  <2>1. at \in [Turns -> Places] /\ heard \in [Turns -> Turns \cup {0}] /\ ordinal \in [Turns -> Nat]
    BY DEF Init, InitTurns, Places
  <2> QED BY <2>1 DEF Init, InitTurns, ThreadsOK
<1>4. ScreenOK
  <2>1. worker \in [Turns -> {"none", "polling", "over"}] /\ tracked \in [Turns -> BOOLEAN]
    BY DEF Init
  <2>2. running \in BOOLEAN /\ abort \in BOOLEAN /\ finalized \in BOOLEAN /\ raced \in BOOLEAN /\ skipped \in BOOLEAN
    BY Zenon DEF Init
  <2>3. queued \in Seq(Turns) /\ later \in Nat /\ next \in Nat
    BY DEF Init
  <2>4. app \in {"up", "down"} /\ pending \in {"none", "resume"}
    BY Zenon DEF Init
  <2> QED BY <2>1, <2>2, <2>3, <2>4 DEF ScreenOK
<1>2. Good(<<>>)
  BY DEF Good, WellFormed
<1>3. HistoriesOK
  BY <1>2 DEF Init, InitTurns, HistoriesOK, Good
<1> QED BY <1>1, <1>3, <1>4 DEF TypesOK

-----------------------------------------------------------------------------
(* Who runs, who polls and who waits *)

\* The workers that still have to free the application.
Live == {t \in Turns : worker[t] = "polling" /\ ~tracked[t]}

\* An input is submitted or queued once, and a worker belongs to it as long as it is neither.
Once ==
    /\ \A t \in Turns : at[t] = "none" <=> worker[t] = "none"
    /\ \A t \in Turns : at[t] # "none" => t < next /\ \A i \in 1..Len(queued) : queued[i] # t
    /\ \A i \in 1..Len(queued) : queued[i] < next
    /\ \A i, j \in 1..Len(queued) : queued[i] = queued[j] => i = j
    /\ \A t \in Turns : tracked[t] => at[t] # "none"
    /\ callbacks # 0 => at[callbacks] # "none"

\* Whoever looks at an occupied application finds a worker that will free it, and a queue that nobody
\* will empty was left by a deferred command.
Attended ==
    app = "up" => /\ running => \E t \in Turns : t \in Live
                  /\ queued # <<>> => running \/ later > 0 \/ skipped
                  /\ skipped => ~running /\ raced

\* As long as no turns raced, only the turn of the one live worker is busy, and _dequeue_next waits only
\* when there is none.
OneBusy == \A t, u \in Turns : Busy(t) /\ Busy(u) => t = u
OneLive ==
    /\ \A t \in Turns : Busy(t) => t \in Live
    /\ \A t, u \in Live : t = u
    /\ \A t \in Live : running /\ later = 0 /\ callbacks \in {0, t}
    /\ later <= 1
Solo == (abort => raced) /\ (pending # "none" => raced) /\ (~raced => OneBusy /\ (app = "up" => OneLive))

Order == Once /\ Attended /\ Solo

LEMMA SubmitShape ==
  ASSUME TypesOK, NEW t \in Turns, Submit(t)
  PROVE  /\ at'[t] = "begin" /\ worker'[t] = "polling" /\ callbacks' = t /\ ~abort' /\ running' /\ ~skipped'
         /\ \A u \in Turns \ {t} : at'[u] = at[u] /\ worker'[u] = worker[u]
<1>1. Go(t, "begin") /\ "begin" \in Places
  BY DEF Submit, Places
<1>2. at'[t] = "begin" /\ \A u \in Turns \ {t} : at'[u] = at[u]
  BY <1>1, GoType DEF TypesOK
<1> QED BY <1>2 DEF Submit, TypesOK, ScreenOK

\* An input that was neither submitted nor queued, or was the first of the queue, is submitted.
LEMMA SubmitKeeps ==
  ASSUME TypesOK, Order, NEW t \in Turns, Submit(t), at[t] = "none", UNCHANGED <<tracked, app, pending>>,
         next' \in Nat, t < next', next' >= next, later' \in Nat, raced' \in BOOLEAN, raced => raced',
         queued' \in Seq(Turns), \A i \in 1..Len(queued') : queued'[i] # t /\ queued'[i] < next',
         \A i, j \in 1..Len(queued') : queued'[i] = queued'[j] => i = j,
         \A i \in 1..Len(queued') : \E j \in 1..Len(queued) : queued'[i] = queued[j],
         ~raced' => later' = 0 /\ (app = "up" /\ \A u \in Turns : u \notin Live)
  PROVE  Order'
<1> USE SubmitShape
<1>1. t \in Live'
  BY DEF Order, Once, Live, TypesOK, ScreenOK
<1>2. Once'
  <2>1. t # 0 /\ next \in Nat /\ \A u \in Turns : u \in Nat
    BY TurnFacts DEF TypesOK, ScreenOK
  <2>2. \A u \in Turns : at'[u] = "none" <=> worker'[u] = "none"
    BY DEF Order, Once
  <2>3. ASSUME NEW u \in Turns, at'[u] # "none"
        PROVE  u < next' /\ \A i \in 1..Len(queued') : queued'[i] # u
    <3>1. CASE u = t
      BY <3>1
    <3>2. CASE u # t
      <4>1. u < next /\ \A j \in 1..Len(queued) : queued[j] # u
        BY <2>3, <3>2 DEF Order, Once
      <4>2. u < next'
        BY <2>1, <4>1
      <4> QED BY <4>1, <4>2
    <3> QED BY <3>1, <3>2
  <2>4. \A u \in Turns : tracked'[u] => at'[u] # "none"
    BY DEF Order, Once
  <2> QED BY <2>2, <2>3, <2>4 DEF Once
<1>3. Attended'
  BY <1>1 DEF Attended
<1>4. ASSUME ~raced' PROVE OneBusy' /\ (app' = "up" => OneLive')
  <2>1. ~raced /\ OneBusy /\ OneLive
    BY <1>4 DEF Order, Solo
  <2>2. \A u \in Turns : ~Busy(u)
    BY <1>4, <2>1 DEF OneLive
  <2>3. \A u \in Turns : Busy(u)' => u = t
    BY <2>2 DEF Busy
  <2>4. \A u \in Turns : u \in Live' => u = t
    BY <1>4 DEF Live
  <2>5. OneLive'
    BY <1>1, <1>4, <2>3, <2>4 DEF OneLive, Live
  <2> QED BY <2>3, <2>5 DEF OneBusy
<1>5. Solo'
  BY <1>4 DEF Order, Solo
<1> QED BY <1>2, <1>3, <1>5 DEF Order

LEMMA TypeKeeps == ASSUME TypesOK, Order, Type PROVE Order'
<1>1. next \in Turns /\ next' = next + 1 /\ next \in Nat /\ UNCHANGED <<tracked, app, later, pending>> /\ app = "up"
  BY NextIsTurn DEF Type, TypesOK, ScreenOK
<1>2. at[next] = "none" /\ \A i \in 1..Len(queued) : queued[i] \in Turns /\ queued[i] \in Nat /\ queued[i] # next
  BY <1>1, TurnFacts DEF Order, Once, TypesOK, ScreenOK
<1>3. CASE ~running /\ Submit(next) /\ raced' = (raced \/ later > 0) /\ UNCHANGED queued
  <2>1. raced' \in BOOLEAN /\ (raced => raced') /\ (~raced' => ~raced /\ ~(later > 0))
    BY <1>3, Zenon
  <2>2. later \in Nat /\ (~raced' => later = 0)
    BY <2>1 DEF TypesOK, ScreenOK
  <2>3. ~raced' => \A u \in Turns : u \notin Live
    BY <1>1, <1>3, <2>1 DEF Order, Solo, OneLive
  <2>4. queued \in Seq(Turns)
    BY DEF TypesOK, ScreenOK
  <2>5. \A i \in 1..Len(queued) : queued[i] < next'
    BY <1>1, <1>2 DEF Order, Once
  <2>6. \A i, j \in 1..Len(queued) : queued[i] = queued[j] => i = j
    BY DEF Order, Once
  <2> QED BY <1>1, <1>2, <1>3, <2>1, <2>2, <2>3, <2>4, <2>5, <2>6, SubmitKeeps
<1>4. CASE /\ running /\ queued' = IF Len(queued) < QueueMax THEN Append(queued, next) ELSE queued
           /\ UNCHANGED <<abort, finalized, running, skipped, worker, callbacks, at, raced>>
  <2>1. queued \in Seq(Turns) /\ Len(queued) \in Nat
    BY DEF TypesOK, ScreenOK
  <2>2. /\ \A i \in 1..Len(queued') : queued'[i] = next \/ (i \in 1..Len(queued) /\ queued'[i] = queued[i])
        /\ \A i \in 1..Len(queued') : queued'[i] = next => i = Len(queued) + 1
    BY <1>1, <1>2, <1>4, <2>1
  <2>3. Once'
    <3>1. \A i \in 1..Len(queued') : queued'[i] < next'
      BY <1>1, <1>2, <2>2 DEF Order, Once
    <3>2. \A i, j \in 1..Len(queued') : queued'[i] = queued'[j] => i = j
      BY <1>2, <2>2 DEF Order, Once
    <3>3. \A u \in Turns : at'[u] # "none" => u < next' /\ \A i \in 1..Len(queued') : queued'[i] # u
      BY <1>1, <1>2, <1>4, <2>2, TurnFacts DEF Order, Once
    <3> QED BY <1>1, <1>4, <3>1, <3>2, <3>3 DEF Order, Once
  <2>4. Attended'
    BY <1>1, <1>4 DEF Order, Attended, Live
  <2>5. Solo'
    BY <1>1, <1>4 DEF Order, Solo, OneBusy, OneLive, Live, Busy
  <2> QED BY <2>3, <2>4, <2>5 DEF Order
<1> QED BY <1>3, <1>4 DEF Type

LEMMA DequeueKeeps == ASSUME TypesOK, Order, Dequeue PROVE Order'
<1>1. UNCHANGED <<tracked, next, raced, app, pending>> /\ app = "up" /\ later > 0 /\ later' = later - 1
      /\ later \in Nat /\ later' \in Nat /\ next \in Nat
  BY DEF Dequeue, TypesOK, ScreenOK
<1>2. CASE queued # <<>> /\ Submit(Head(queued)) /\ queued' = Tail(queued)
  <2>1. /\ queued' \in Seq(Turns) /\ Len(queued') = Len(queued) - 1 /\ Len(queued) \in Nat \ {0}
        /\ \A i \in 1..Len(queued') : queued'[i] = queued[i + 1] /\ i + 1 \in 1..Len(queued)
        /\ Head(queued) = queued[1] /\ 1 \in 1..Len(queued) /\ Head(queued) \in Turns
    BY <1>2 DEF TypesOK, ScreenOK
  <2>2. at[Head(queued)] = "none" /\ Head(queued) < next
    BY <2>1 DEF Order, Once
  <2>3. \A i \in 1..Len(queued') : queued'[i] # Head(queued) /\ queued'[i] < next
    BY <2>1 DEF Order, Once
  <2>4. \A i, j \in 1..Len(queued') : queued'[i] = queued'[j] => i = j
    BY <2>1 DEF Order, Once
  <2>5. \A i \in 1..Len(queued') : \E j \in 1..Len(queued) : queued'[i] = queued[j]
    BY <2>1
  <2>6. ~raced => later' = 0 /\ \A u \in Turns : u \notin Live
    BY <1>1 DEF Order, Solo, OneLive
  <2>7. raced' \in BOOLEAN /\ (raced => raced')
    BY <1>1 DEF TypesOK, ScreenOK
  <2>8. next' \in Nat /\ next' >= next /\ Head(queued) < next'
        /\ \A i \in 1..Len(queued') : queued'[i] # Head(queued) /\ queued'[i] < next'
    BY <1>1, <2>2, <2>3
  <2>9. ~raced' => later' = 0 /\ (app = "up" /\ \A u \in Turns : u \notin Live)
    BY <1>1, <2>6
  <2> QED BY <1>1, <1>2, <2>1, <2>2, <2>4, <2>5, <2>7, <2>8, <2>9, SubmitKeeps
<1>3. CASE queued = <<>> /\ UNCHANGED <<queued, abort, finalized, running, skipped, worker, callbacks, at>>
  <2>1. Once'
    BY <1>1, <1>3 DEF Order, Once
  <2>2. Attended'
    BY <1>1, <1>3 DEF Order, Attended, Live
  <2>3. Solo'
    BY <1>1, <1>3 DEF Order, Solo, OneBusy, OneLive, Live, Busy
  <2> QED BY <2>1, <2>2, <2>3 DEF Order
<1> QED BY <1>2, <1>3 DEF Dequeue

LEMMA StepKeeps == ASSUME TypesOK, Order, NEW t \in Turns, Step(t), UNCHANGED uiVars PROVE Order'
<1>1. PICK there \in Places \ {"none"} : Go(t, there)
  BY ThreadMoves DEF TypesOK
<1>2. at'[t] # "none" /\ (\A u \in Turns \ {t} : at'[u] = at[u]) /\ Busy(t) /\ UNCHANGED callbacks
  BY <1>1, GoType, ThreadMoves DEF TypesOK
<1>3. at[t] # "none" /\ \A u \in Turns : Busy(u)' => Busy(u)
  BY <1>2 DEF Busy
<1>4. Live' = Live
  BY DEF uiVars, Live
<1>5. Once'
  <2>1. UNCHANGED <<worker, tracked, queued, next, callbacks>>
    BY <1>2 DEF uiVars
  <2>2. \A u \in Turns : at'[u] = "none" <=> at[u] = "none"
    BY <1>2, <1>3
  <2>3. (\A u \in Turns : at'[u] = "none" <=> worker'[u] = "none") /\ \A u \in Turns : tracked'[u] => at'[u] # "none"
    BY <2>1, <2>2 DEF Order, Once
  <2>4. callbacks' # 0 => at'[callbacks'] # "none"
    BY <2>1, <2>2 DEF Order, Once, TypesOK, ThreadsOK
  <2>5. \A u \in Turns : at'[u] # "none" => u < next' /\ \A i \in 1..Len(queued') : queued'[i] # u
    BY <2>1, <2>2 DEF Order, Once
  <2>6. /\ \A i \in 1..Len(queued') : queued'[i] < next'
        /\ \A i, j \in 1..Len(queued') : queued'[i] = queued'[j] => i = j
    BY <2>1 DEF Order, Once
  <2> QED BY <2>3, <2>4, <2>5, <2>6 DEF Once
<1>6. Attended'
  BY <1>4 DEF uiVars, Order, Attended
<1>7. Solo'
  BY <1>2, <1>3, <1>4 DEF uiVars, Order, Solo, OneBusy, OneLive
<1> QED BY <1>5, <1>6, <1>7 DEF Order

LEMMA RestoreKeeps == ASSUME TypesOK, Order, Restore PROVE Order'
<1>1. /\ Len(queued') = Len(queued) - 1 /\ Len(queued) \in Nat \ {0}
      /\ \A i \in 1..Len(queued') : queued'[i] = queued[i] /\ i \in 1..Len(queued)
  <2>1. queued \in Seq(Turns) /\ queued # <<>> /\ queued' = SubSeq(queued, 1, Len(queued) - 1)
    BY DEF Restore, Front, TypesOK, ScreenOK
  <2>2. Len(queued) \in Nat \ {0}
    BY <2>1
  <2> DEFINE n == Len(queued) - 1
  <2>3. n \in Nat /\ n <= Len(queued)
    BY <2>2
  <2>4. queued' = SubSeq(queued, 1, n)
    BY <2>1
  <2> HIDE DEF n
  <2>5. Len(queued') = n /\ \A i \in 1..n : queued'[i] = queued[i] /\ i \in 1..Len(queued)
    BY <2>1, <2>2, <2>3, <2>4
  <2> QED BY <2>2, <2>5 DEF n
<1>2. UNCHANGED <<at, worker, tracked, callbacks, next, app, running, later, raced, abort, pending, skipped>>
  BY DEF Restore, turnVars
<1>3. Once'
  BY <1>1, <1>2 DEF Order, Once
<1>4. Attended'
  BY <1>2 DEF Restore, Order, Attended, Live
<1>5. Solo'
  BY <1>2 DEF Order, Solo, OneBusy, OneLive, Live, Busy
<1> QED BY <1>3, <1>4, <1>5 DEF Order

\* The application ends, whatever else happened to a worker that had begun.
LEMMA DownKeeps ==
  ASSUME TypesOK, Order, app' = "down", UNCHANGED <<at, tracked, callbacks, next, queued, raced, abort, pending>>,
         \A t \in Turns : worker'[t] = "none" <=> worker[t] = "none"
  PROVE  Order'
<1>1. Once'
  BY DEF Order, Once
<1>2. Attended'
  BY DEF Attended
<1>3. Solo'
  BY DEF Order, Solo, OneBusy, Busy
<1> QED BY <1>1, <1>2, <1>3 DEF Order

LEMMA BrokenKeeps == ASSUME TypesOK, Order, NEW t \in Turns, Broken(t) PROVE Order'
<1>1. app' = "down" /\ UNCHANGED <<at, tracked, callbacks, next, queued, raced, abort, pending>>
  BY DEF Broken, Exit, turnVars
<1>2. \A u \in Turns : worker'[u] = "none" <=> worker[u] = "none"
  BY DEF Broken, TypesOK, ScreenOK
<1> QED BY <1>1, <1>2, DownKeeps

LEMMA LeaveKeeps == ASSUME TypesOK, Order, Leave PROVE Order'
<1>1. app' = "down" /\ UNCHANGED <<at, tracked, callbacks, next, queued, raced, abort, pending, worker>>
  BY DEF Leave, Exit, turnVars
<1> QED BY <1>1, DownKeeps

LEMMA InterruptKeeps == ASSUME TypesOK, Order, NEW cmd \in {"escape", "resume"}, Interrupt(cmd) PROVE Order'
<1>1. raced' /\ UNCHANGED <<at, worker, tracked, callbacks, next, app, running, later, queued, skipped>>
  BY DEF Interrupt, turnVars
<1>2. Once' /\ Attended'
  BY <1>1 DEF Order, Once, Attended, Live
<1> QED BY <1>1, <1>2 DEF Order, Solo

LEMMA FinishedKeeps == ASSUME TypesOK, Order, NEW t \in Turns, Finished(t) PROVE Order'
<1>1. /\ app = "up" /\ worker[t] = "polling" /\ at[t] = "over" /\ callbacks' = 0
      /\ worker'[t] = "over" /\ \A u \in Turns \ {t} : worker'[u] = worker[u]
      /\ UNCHANGED <<at, app, queued, abort, tracked, next, raced, pending, skipped>>
  BY DEF Finished, turnVars, TypesOK, ScreenOK
<1>2. \/ tracked[t] /\ UNCHANGED <<running, later>>
      \/ ~tracked[t] /\ running' = FALSE /\ later' = later + (IF queued = <<>> THEN 0 ELSE 1)
  BY DEF Finished
<1>3. later \in Nat
  BY DEF TypesOK, ScreenOK
<1>4. Once'
  BY <1>1 DEF Order, Once
<1>5. CASE tracked[t] /\ UNCHANGED <<running, later>>
  <2>1. \A u \in Turns : u \in Live' <=> u \in Live
    BY <1>1, <1>5 DEF Live
  <2>2. Attended'
    BY <1>1, <1>5, <2>1 DEF Order, Attended
  <2>3. Solo'
    <3>1. (abort' => raced') /\ (pending' # "none" => raced')
      BY <1>1 DEF Order, Solo
    <3>2. ~raced' => OneBusy'
      BY <1>1 DEF Order, Solo, OneBusy, Busy
    <3>3. ASSUME ~raced', app' = "up" PROVE OneLive'
      <4>1. OneLive /\ \A u \in Turns : Busy(u)' => Busy(u)
        BY <1>1, <3>3 DEF Order, Solo, Busy
      <4>2. \A u \in Live' : u \in Live
        BY <2>1 DEF Live
      <4> QED BY <1>1, <1>5, <2>1, <4>1, <4>2 DEF OneLive
    <3> QED BY <3>1, <3>2, <3>3 DEF Solo
  <2> QED BY <1>4, <2>2, <2>3 DEF Order
<1>6. CASE ~tracked[t] /\ running' = FALSE /\ later' = later + (IF queued = <<>> THEN 0 ELSE 1)
  <2>1. Attended'
    BY <1>1, <1>3, <1>6 DEF Order, Attended
  <2>2. Solo'
    <3>1. (abort' => raced') /\ (pending' # "none" => raced')
      BY <1>1 DEF Order, Solo
    <3>2. ~raced' => OneBusy'
      BY <1>1 DEF Order, Solo, OneBusy, Busy
    <3>3. ASSUME ~raced', app' = "up" PROVE OneLive'
      <4>1. OneLive /\ t \in Live
        BY <1>1, <1>6, <3>3 DEF Order, Solo, Live
      <4>2. later = 0 /\ \A u \in Live : u = t
        BY <4>1 DEF OneLive
      <4>3. \A u \in Turns : Busy(u)' => Busy(u) /\ u # t
        BY <1>1 DEF Busy
      <4>4. \A u \in Turns : ~Busy(u)'
        BY <4>1, <4>2, <4>3 DEF OneLive
      <4>5. \A u \in Live' : FALSE
        BY <1>1, <4>2 DEF Live
      <4>6. later' <= 1
        BY <1>6, <4>2
      <4> QED BY <4>4, <4>5, <4>6 DEF OneLive
    <3> QED BY <3>1, <3>2, <3>3 DEF Solo
  <2> QED BY <1>4, <2>1, <2>2 DEF Order
<1> QED BY <1>2, <1>5, <1>6

LEMMA FinalizeFacts ==
  ASSUME TypesOK, Order, app = "up", Finalize, UNCHANGED <<queued, raced>>
  PROVE  /\ callbacks' = 0 /\ ~running' /\ later \in Nat /\ pending' = "none" /\ Attended'
         /\ app' = "up" => later' <= later + 1
<1>1. /\ callbacks' = 0 /\ running' = FALSE /\ later \in Nat /\ pending' = "none"
      /\ pending # "none" => raced
      /\ app = "up" /\ (skipped => raced)
  BY DEF Finalize, AfterTurn, TypesOK, ScreenOK, Order, Attended, Solo
<1>2. CASE pending = "none" /\ later' = later + (IF queued = <<>> THEN 0 ELSE 1) /\ UNCHANGED <<app, skipped>>
  BY <1>1, <1>2 DEF Attended
<1>3. CASE app' = "down"
  BY <1>1, <1>3 DEF Attended
<1>4. CASE pending # "none" /\ skipped' = (queued # <<>>) /\ UNCHANGED <<app, later>>
  <2>1. (queued' # <<>> => skipped') /\ raced' /\ ~running'
    BY <1>1, <1>4, Zenon
  <2> QED BY <1>1, <1>4, <2>1 DEF Attended
<1> QED BY <1>2, <1>3, <1>4 DEF Finalize, AfterTurn

LEMMA FinishKeeps == ASSUME TypesOK, Order, NEW t \in Turns, Finish(t) PROVE Order'
<1>1. /\ at[t] = "finish" /\ at'[t] = "over" /\ \A u \in Turns \ {t} : at'[u] = at[u]
      /\ UNCHANGED <<worker, queued, next, raced, abort>>
  BY GoType DEF Finish, TypesOK, Places
<1>2. \A u \in Turns : (Busy(u)' => Busy(u) /\ u # t) /\ (at'[u] = "none" <=> at[u] = "none")
  BY <1>1 DEF Busy
<1>3. Busy(t) /\ OneBusy => OneBusy'
  BY <1>2 DEF OneBusy
<1>4. Busy(t) /\ (abort' => raced') /\ (pending # "none" => raced')
  BY <1>1 DEF Busy, Order, Solo
<1>5. CASE callbacks # 0 /\ app = "up" /\ tracked' = [tracked EXCEPT ![callbacks] = TRUE] /\ Finalize
  <2>1. callbacks \in Turns
    BY <1>5 DEF TypesOK, ThreadsOK
  <2>2. tracked'[callbacks] /\ \A u \in Turns : tracked'[u] => tracked[u] \/ u = callbacks
    BY <1>5, <2>1 DEF TypesOK, ScreenOK
  <2>3. \A u \in Turns : u \in Live' => u \in Live /\ u # callbacks
    BY <1>1, <1>5, <2>2 DEF Live, TypesOK, ScreenOK
  <2>4. Once'
    <3>1. \A u \in Turns : tracked'[u] => at'[u] # "none"
      BY <1>2, <2>2, <1>5 DEF Order, Once
    <3> QED BY <1>1, <1>2, <1>5, <3>1, FinalizeFacts DEF Order, Once
  <2>5. Attended' /\ pending' = "none"
    BY <1>1, <1>5, FinalizeFacts
  <2>6. ASSUME ~raced' PROVE OneBusy' /\ (app' = "up" => OneLive')
    <3>1. OneBusy /\ OneLive
      BY <1>1, <1>5, <2>6 DEF Order, Solo
    <3>2. callbacks = t /\ later = 0 /\ t \in Live /\ \A u \in Live : u = t
      BY <1>4, <1>5, <3>1, TurnFacts DEF OneLive
    <3>3. \A u \in Turns : u \notin Live'
      BY <2>3, <3>2
    <3>4. \A u \in Turns : ~Busy(u)'
      BY <1>2, <3>1, <3>2 DEF OneLive
    <3>5. app' = "up" => later' <= 1
      BY <1>1, <1>5, <3>2, FinalizeFacts
    <3> QED BY <1>3, <1>4, <3>1, <3>3, <3>4, <3>5 DEF OneLive, Live
  <2> QED BY <1>4, <2>4, <2>5, <2>6 DEF Order, Solo
<1>6. CASE UNCHANGED <<tracked, app, callbacks, running, later, pending, skipped>>
  <2>1. \A u \in Turns : u \in Live' <=> u \in Live
    BY <1>1, <1>6 DEF Live
  <2>2. Once'
    BY <1>1, <1>2, <1>6 DEF Order, Once, TypesOK, ThreadsOK
  <2>3. Attended'
    BY <1>1, <1>6, <2>1 DEF Order, Attended
  <2>4. ASSUME ~raced' PROVE OneBusy' /\ (app' = "up" => OneLive')
    <3>1. OneBusy /\ (app = "up" => OneLive)
      BY <1>1, <2>4 DEF Order, Solo
    <3>2. \A u \in Live' : u \in Live
      BY <2>1 DEF Live
    <3> QED BY <1>2, <1>3, <1>4, <1>6, <2>1, <3>1, <3>2 DEF OneLive
  <2> QED BY <1>4, <1>6, <2>2, <2>3, <2>4 DEF Order, Solo
<1> QED BY <1>5, <1>6 DEF Finish

LEMMA ChunkKeeps == ASSUME TypesOK, Order, NEW t \in Turns, Chunk(t) PROVE Order'
<1>1. UNCHANGED <<worker, tracked, queued, next, raced, abort>> /\ at[t] = "model"
  BY DEF Chunk
<1>2. Live' = Live
  BY <1>1 DEF Live
<1>3. CASE app = "up" /\ abort /\ Finalize /\ UNCHANGED at
  <2>1. raced' /\ Once'
    BY <1>1, <1>3, FinalizeFacts DEF Order, Once, Solo
  <2>2. Attended' /\ pending' = "none"
    BY <1>1, <1>3, FinalizeFacts
  <2> QED BY <1>1, <2>1, <2>2 DEF Order, Solo
<1>4. CASE app = "down" /\ Go(t, "failed") /\ UNCHANGED <<app, callbacks, running, later, pending, finalized, skipped>>
  <2>1. at'[t] = "failed" /\ \A u \in Turns \ {t} : at'[u] = at[u]
    BY <1>4, GoType DEF TypesOK, Places
  <2>2. \A u \in Turns : (Busy(u)' => Busy(u)) /\ (at'[u] = "none" <=> at[u] = "none")
    BY <1>1, <2>1 DEF Busy
  <2>3. Once'
    BY <1>1, <1>4, <2>2 DEF Order, Once, TypesOK, ThreadsOK
  <2>4. Attended' /\ Solo'
    BY <1>1, <1>4, <2>2 DEF Order, Attended, Solo, OneBusy
  <2> QED BY <2>3, <2>4 DEF Order
<1> QED BY <1>3, <1>4 DEF Chunk

LEMMA RestartKeeps == ASSUME TypesOK, Order, Restart PROVE Order'
<1>1. \A u \in Turns : /\ at'[u] = "none" <=> at[u] = "none"
                       /\ worker'[u] = "none" <=> at[u] = "none"
                       /\ worker'[u] # "polling" /\ ~Busy(u)'
  BY DEF Restart, Busy
<1>2. /\ app' = "up" /\ running' = FALSE /\ queued' = <<>> /\ later' = 0 /\ abort' = FALSE /\ callbacks' = 0
      /\ pending' = "none" /\ skipped' = FALSE
      /\ UNCHANGED <<tracked, next, raced>>
  BY DEF Restart
<1>3. Once'
  BY <1>1, <1>2 DEF Order, Once
<1>4. Attended' /\ Solo'
  BY <1>1, <1>2 DEF Attended, Solo, OneBusy, OneLive, Live
<1> QED BY <1>3, <1>4 DEF Order

LEMMA OrderKept == ASSUME TypesOK, Order, [Next]_vars PROVE Order'
<1>1. CASE UNCHANGED vars
  <2>1. UNCHANGED <<at, worker, tracked, callbacks, next, app, running, later, raced, abort, queued, pending, skipped>>
    BY <1>1 DEF vars, uiVars, turnVars
  <2> QED BY <2>1 DEF Order, Once, Attended, Solo, OneBusy, OneLive, Live, Busy
<1>2. CASE Next
  BY <1>2, TypeKeeps, DequeueKeeps, StepKeeps, RestoreKeeps, BrokenKeeps, LeaveKeeps, InterruptKeeps, FinishedKeeps,
     FinishKeeps, ChunkKeeps, RestartKeeps DEF Next, User, Work, Thread
<1> QED BY <1>1, <1>2

LEMMA InitOrder == Init => Order
<1> SUFFICES ASSUME Init PROVE Order
  OBVIOUS
<1>1. /\ \A t \in Turns : at[t] = "none" /\ worker[t] = "none" /\ ~tracked[t] /\ ~Busy(t)
      /\ callbacks = 0 /\ queued = <<>> /\ later = 0 /\ ~abort /\ ~running /\ ~skipped /\ pending = "none"
  BY DEF Init, InitTurns, Busy
<1> QED BY <1>1 DEF Order, Once, Attended, Solo, OneBusy, OneLive, Live

LEMMA OrderIsInvariant == Spec => [](TypesOK /\ Order)
<1>1. Init => TypesOK /\ Order
  BY InitTypes, InitOrder
<1>2. (TypesOK /\ Order) /\ [Next]_vars => (TypesOK /\ Order)'
  BY TypesKept, OrderKept
<1> QED BY <1>1, <1>2, PTL DEF Spec

\* Two turns work at once only after an interruption, or when an input was typed between the end of a turn
\* and _dequeue_next: the gate of action_submit_editor (_worker_running) lets no other through.
THEOREM TurnsRunAlone == Spec => []OneTurnUnlessRaced
<1>1. ASSUME Order PROVE OneTurnUnlessRaced
  <2> DEFINE B == {t \in Turns : Busy(t)}
  <2>1. ASSUME ~raced PROVE Cardinality(B) <= 1
    <3>1. \A t, u \in B : t = u
      BY <1>1, <2>1 DEF Order, Solo, OneBusy
    <3>2. CASE B = {}
      BY <3>2, FS_EmptySet
    <3>3. CASE B # {}
      <4>1. PICK t \in B : B = {t}
        BY <3>1, <3>3
      <4>2. Cardinality(B) = 1
        BY <4>1, FS_Singleton
      <4> QED BY <4>2
    <3> QED BY <3>2, <3>3
  <2> QED BY <2>1 DEF OneTurnUnlessRaced
<1> QED BY <1>1, OrderIsInvariant, PTL

\* An occupied application has a worker that still polls, and a queued input one that will take it out, or
\* it was left behind by a deferred command: no other of the places that clear _worker_running does so.
THEOREM AppComesBack == Spec => []ComesBack
<1>1. Order => ComesBack
  BY DEF Order, Attended, Live, ComesBack
<1> QED BY <1>1, OrderIsInvariant, PTL

-----------------------------------------------------------------------------
(* What the rows and the log know of the answers *)

Filled == {"account", "extend", "bound", "number", "row", "record", "say", "finish"}
Ripe == {"record", "say", "finish"}
Told == {"finish"} \cup Ends
Stored == Ripe \cup Ends

\* From where its model run answered, a turn has messages; a row holds those of a turn that is past its
\* insertion; the turn is recorded before its answer is announced.
Durable ==
    /\ AnswersAreDurable
    /\ \A t \in Turns : at[t] \in Filled => new[t] # <<>>
    /\ \A r \in DOMAIN rows : \E t \in Turns : rows[r] = new[t] /\ new[t] # <<>> /\ at[t] \in Stored
    /\ \A t \in Turns : at[t] \in Ripe => \E r \in DOMAIN rows : rows[r] = new[t]
    /\ \A t \in Turns : at[t] = "say" => \E j \in DOMAIN log : log[j] = <<"AgentTurnRecorded", t>>
    /\ \A i \in DOMAIN log : log[i][1] = "LLMTextEmitted" => at[log[i][2]] \in Told

LEMMA LogFacts == ASSUME TypesOK PROVE \A i \in DOMAIN log : log[i][1] \in Types /\ log[i][2] \in Turns /\ i \in Nat
BY DEF TypesOK, ThreadsOK

LEMMA NewIsOwn == ASSUME TypesOK, NEW t \in Turns, new[t] # <<>> PROVE new[t][1].of = t
BY DEF TypesOK, HistoriesOK, OneTurn

\* A step that inserts no row and announces no answer
Quietly ==
    /\ UNCHANGED rows
    /\ \A u \in Turns : at[u] # "model" => new'[u] = new[u]
    /\ \A u \in Turns : at'[u] \in Filled => at[u] \in Filled \/ new'[u] # <<>>
    /\ \A u \in Turns : at[u] \in Stored => at'[u] \in Stored
    /\ \A u \in Turns : at'[u] \in Ripe => at[u] \in Ripe
    /\ \A u \in Turns : at'[u] = "say" => at[u] = "say" \/ \E j \in DOMAIN log' : log'[j] = <<"AgentTurnRecorded", u>>
    /\ \A u \in Turns : at[u] \in Told => at'[u] \in Told
    /\ \A i \in DOMAIN log : i \in DOMAIN log' /\ log'[i] = log[i]
    /\ \A i \in DOMAIN log' : i \in DOMAIN log \/ log'[i][1] # "LLMTextEmitted"

LEMMA QuietIsDurable == ASSUME TypesOK, Durable, Quietly PROVE Durable'
<1>1. \A i \in DOMAIN log : log[i][1] \in Types /\ log[i][2] \in Turns /\ i \in Nat
  BY LogFacts
<1>2. \A t \in Turns : (at[t] \in Stored \/ at[t] \in Filled \/ at[t] \in Told) => at[t] # "model"
  BY DEF Stored, Filled, Told, Ripe, Ends
<1>3. \A t \in Turns : at'[t] \in Filled => new'[t] # <<>>
  BY <1>2 DEF Durable, Quietly
<1>4. \A r \in DOMAIN rows' : \E t \in Turns : rows'[r] = new'[t] /\ new'[t] # <<>> /\ at'[t] \in Stored
  BY <1>2 DEF Durable, Quietly
<1>5. \A t \in Turns : at'[t] \in Ripe => \E r \in DOMAIN rows' : rows'[r] = new'[t]
  <2>1. \A t \in Turns : at[t] \in Ripe => at[t] # "model"
    BY DEF Ripe
  <2> QED BY <2>1 DEF Durable, Quietly
<1>6. \A t \in Turns : at'[t] = "say" => \E j \in DOMAIN log' : log'[j] = <<"AgentTurnRecorded", t>>
  BY DEF Durable, Quietly
<1>7. ASSUME NEW i \in DOMAIN log', log'[i][1] = "LLMTextEmitted"
      PROVE  /\ at'[log'[i][2]] \in Told
             /\ \E j \in 1..(i-1) : log'[j] = <<"AgentTurnRecorded", log'[i][2]>>
             /\ \E r \in DOMAIN rows' : rows'[r] = new'[log'[i][2]]
  <2>1. i \in DOMAIN log /\ log'[i] = log[i] /\ log[i][2] \in Turns /\ at[log[i][2]] \in Told /\ i \in Nat
    BY <1>1, <1>7 DEF Quietly, Durable
  <2>2. PICK j \in 1..(i-1) : log[j] = <<"AgentTurnRecorded", log[i][2]>>
    BY <1>7, <2>1 DEF Durable, AnswersAreDurable
  <2>3. j \in DOMAIN log
    BY <2>1, <2>2 DEF TypesOK, ThreadsOK
  <2>4. PICK r \in DOMAIN rows : rows[r] = new[log[i][2]]
    BY <1>7, <2>1 DEF Durable, AnswersAreDurable
  <2>5. new'[log[i][2]] = new[log[i][2]] /\ at'[log[i][2]] \in Told
    BY <1>2, <2>1 DEF Quietly
  <2> QED BY <2>1, <2>2, <2>3, <2>4, <2>5 DEF Quietly
<1>8. \A r, q \in DOMAIN rows' : rows'[r][1].of = rows'[q][1].of => r = q
  BY DEF Durable, AnswersAreDurable, Quietly
<1> QED BY <1>3, <1>4, <1>5, <1>6, <1>7, <1>8 DEF Durable, AnswersAreDurable

\* A thread goes from place to place, and writes at most an event that is no announcement.
LEMMA PublishQuietly ==
  ASSUME TypesOK, NEW t \in Turns, NEW type \in Types \ {"LLMTextEmitted"}, NEW there \in Places, Publish(t, type, there),
         UNCHANGED <<rows, new>>, at[t] \notin Ends, there \in Filled => at[t] \in Filled,
         at[t] \in Stored => there \in Stored, there \in Ripe => at[t] \in Ripe, at[t] # "finish",
         there = "say" => type = "AgentTurnRecorded"
  PROVE  Quietly
<1>1. CASE log' = Append(log, <<type, t>>) /\ Go(t, there)
  <2>1. at'[t] = there /\ \A u \in Turns \ {t} : at'[u] = at[u]
    BY <1>1, GoType DEF TypesOK
  <2>2. <<type, t>> \in Types \X Turns /\ log \in Seq(Types \X Turns)
    BY DEF TypesOK, ThreadsOK
  <2>3. /\ \A i \in DOMAIN log : i \in DOMAIN log' /\ log'[i] = log[i]
        /\ \A i \in DOMAIN log' : i \in DOMAIN log \/ log'[i] = <<type, t>>
        /\ Len(log) + 1 \in DOMAIN log' /\ log'[Len(log) + 1] = <<type, t>>
    BY <1>1, <2>2, AppendFacts
  <2>4. \A u \in Turns : at'[u] = "say" => at[u] = "say" \/ \E j \in DOMAIN log' : log'[j] = <<"AgentTurnRecorded", u>>
    BY <2>1, <2>3
  <2> QED BY <2>1, <2>3, <2>4 DEF Quietly, Told
<1>2. CASE log' = log /\ Go(t, "failed")
  <2>1. at'[t] = "failed" /\ \A u \in Turns \ {t} : at'[u] = at[u]
    BY <1>2, GoType DEF TypesOK, Places
  <2> QED BY <1>2, <2>1 DEF Quietly, Told, Stored, Ends, Filled, Ripe
<1> QED BY <1>1, <1>2 DEF Publish

LEMMA GoQuietly ==
  ASSUME TypesOK, NEW t \in Turns, NEW there \in Places \ {"say"}, Go(t, there), UNCHANGED <<rows, log>>,
         \A u \in Turns : new'[u] = new[u] \/ (u = t /\ at[t] = "model"),
         there \in Filled => at[t] \in Filled \/ new'[t] # <<>>, at[t] \in Stored => there \in Stored,
         there \in Ripe => at[t] \in Ripe, at[t] \in Told => there \in Told
  PROVE  Quietly
<1>1. at'[t] = there /\ \A u \in Turns \ {t} : at'[u] = at[u]
  BY GoType DEF TypesOK
<1> QED BY <1>1 DEF Quietly

LEMMA StepDurable == ASSUME TypesOK, TypesOK', Durable, NEW t \in Turns, Step(t) PROVE Durable'
<1> USE DEF Filled, Ripe, Told, Stored, Ends, Places, Types
<1>1. CASE Begin(t)
  <2>1. Publish(t, "AgentInputAdded", "call") /\ at[t] = "begin" /\ UNCHANGED <<rows, new>>
    BY <1>1 DEF Begin
  <2>2. Quietly
    BY <2>1, PublishQuietly
  <2> QED BY <2>2, QuietIsDurable
<1>2. CASE Call(t) \/ Command(t)
  <2>1. PICK there \in {"model", "over"} : Go(t, there)
    BY <1>2 DEF Call, Command
  <2>2. at[t] \in {"call", "begin"} /\ UNCHANGED <<rows, log, new>>
    BY <1>2 DEF Call, Command
  <2>3. Quietly
    BY <2>1, <2>2, GoQuietly
  <2> QED BY <2>3, QuietIsDurable
<1>3. CASE Answer(t)
  <2>1. PICK outcome \in Outcomes :
          /\ new' = IF outcome \in {"text", "long", "tools"} THEN [new EXCEPT ![t] = Answered(t, outcome)] ELSE new
          /\ Go(t, CASE outcome = "caught" -> "over" [] outcome = "raised" -> "failed" [] OTHER -> "account")
    BY <1>3 DEF Answer
  <2>2. at[t] = "model" /\ UNCHANGED <<rows, log>>
    BY <1>3 DEF Answer
  <2>3. outcome \in {"text", "long", "tools", "caught", "raised"}
    BY InputsAssumption
  <2>4. CASE outcome \in {"text", "long", "tools"}
    <3>1. OneTurn(Answered(t, outcome), t)
      BY <2>4, TurnFacts, AnsweredFacts
    <3>2. Answered(t, outcome) # <<>>
      BY <3>1 DEF OneTurn
    <3>3. new'[t] # <<>> /\ (\A u \in Turns \ {t} : new'[u] = new[u]) /\ Go(t, "account")
      BY <2>1, <2>4, <3>2 DEF TypesOK, HistoriesOK
    <3>4. Quietly
      BY <2>2, <3>3, GoQuietly
    <3> QED BY <3>4, QuietIsDurable
  <2>5. CASE outcome \in {"caught", "raised"}
    <3>1. new' = new /\ (Go(t, "over") \/ Go(t, "failed"))
      BY <2>1, <2>5
    <3>2. Quietly
      BY <2>2, <3>1, GoQuietly
    <3> QED BY <3>2, QuietIsDurable
  <2> QED BY <2>3, <2>4, <2>5
<1>4. CASE Account(t)
  <2>1. Publish(t, "LLMActionEmitted", "extend") /\ at[t] = "account" /\ UNCHANGED <<rows, new>>
    BY <1>4 DEF Account
  <2>2. Quietly
    BY <2>1, PublishQuietly
  <2> QED BY <2>2, QuietIsDurable
<1>5. CASE Extend(t) \/ Bound(t) \/ Number(t)
  <2>1. PICK there \in {"bound", "number", "row"} : Go(t, there)
    BY <1>5 DEF Extend, Bound, Number
  <2>2. at[t] \in {"extend", "bound", "number"} /\ UNCHANGED <<rows, log, new>>
    BY <1>5 DEF Extend, Bound, Number, sessionVars
  <2>3. Quietly
    BY <2>1, <2>2, GoQuietly
  <2> QED BY <2>3, QuietIsDurable
<1>6. CASE Insert(t)
  <2>1. at[t] = "row" /\ UNCHANGED <<new, log>>
    BY <1>6 DEF Insert
  <2>2. CASE UNCHANGED rows /\ Go(t, "failed")
    <3>1. Quietly
      BY <2>1, <2>2, GoQuietly
    <3> QED BY <3>1, QuietIsDurable
  <2>3. CASE rows' = Append(rows, new[t]) /\ Go(t, "record")
    <3>1. at'[t] = "record" /\ \A u \in Turns \ {t} : at'[u] = at[u]
      BY <2>3, GoType DEF TypesOK
    <3>2. new[t] # <<>> /\ new[t] \in Seq(Messages) /\ rows \in Seq(Seq(Messages))
      BY <2>1 DEF Durable, TypesOK, HistoriesOK
    <3>3. /\ \A r \in DOMAIN rows : r \in DOMAIN rows' /\ rows'[r] = rows[r]
          /\ \A r \in DOMAIN rows' : (r \in DOMAIN rows /\ rows'[r] = rows[r]) \/ (r = Len(rows) + 1 /\ rows'[r] = new[t])
          /\ Len(rows) + 1 \in DOMAIN rows' /\ rows'[Len(rows) + 1] = new[t]
      BY <2>3, <3>2
    <3>4. \A u \in Turns : at'[u] \in Filled => new'[u] # <<>>
      BY <2>1, <3>1, <3>2 DEF Durable
    <3>5. \A r \in DOMAIN rows' : \E u \in Turns : rows'[r] = new'[u] /\ new'[u] # <<>> /\ at'[u] \in Stored
      <4>1. \A u \in Turns : at[u] \in Stored => at'[u] \in Stored
        BY <3>1
      <4>2. ASSUME NEW r \in DOMAIN rows', r \in DOMAIN rows, rows'[r] = rows[r]
            PROVE  \E u \in Turns : rows'[r] = new'[u] /\ new'[u] # <<>> /\ at'[u] \in Stored
        BY <2>1, <4>1, <4>2 DEF Durable
      <4>3. at'[t] \in Stored /\ new' = new
        BY <2>1, <3>1
      <4> QED BY <3>2, <3>3, <4>2, <4>3
    <3>6. \A u \in Turns : at'[u] \in Ripe => \E r \in DOMAIN rows' : rows'[r] = new'[u]
      BY <2>1, <3>1, <3>3 DEF Durable
    <3>7. \A u \in Turns : at'[u] = "say" => \E j \in DOMAIN log' : log'[j] = <<"AgentTurnRecorded", u>>
      BY <2>1, <3>1 DEF Durable
    <3>8. \A i \in DOMAIN log' : log'[i][1] = "LLMTextEmitted" => at'[log'[i][2]] \in Told
      BY <2>1, <3>1, LogFacts DEF Durable
    <3>9. \A i \in DOMAIN log' : log'[i][1] = "LLMTextEmitted" =>
            /\ \E j \in 1..(i-1) : log'[j] = <<"AgentTurnRecorded", log'[i][2]>>
            /\ \E r \in DOMAIN rows' : rows'[r] = new'[log'[i][2]]
      <4>1. ASSUME NEW i \in DOMAIN log, log[i][1] = "LLMTextEmitted" PROVE \E r \in DOMAIN rows' : rows'[r] = new[log[i][2]]
        <5>1. PICK r \in DOMAIN rows : rows[r] = new[log[i][2]]
          BY <4>1 DEF Durable, AnswersAreDurable
        <5> QED BY <3>3, <5>1
      <4> QED BY <2>1, <4>1 DEF Durable, AnswersAreDurable
    <3>10. \A r \in DOMAIN rows : rows[r][1].of # t
      <4>1. ASSUME NEW r \in DOMAIN rows PROVE rows[r][1].of # t
        <5>1. PICK u \in Turns : rows[r] = new[u] /\ new[u] # <<>> /\ at[u] \in Stored
          BY DEF Durable
        <5>2. u # t /\ new[u][1].of = u
          BY <2>1, <5>1, NewIsOwn
        <5> QED BY <5>1, <5>2
      <4> QED BY <4>1
    <3>11. \A r, q \in DOMAIN rows' : rows'[r][1].of = rows'[q][1].of => r = q
      <4>1. new[t][1].of = t
        BY <3>2, NewIsOwn
      <4> QED BY <3>3, <3>10, <4>1 DEF Durable, AnswersAreDurable
    <3> QED BY <3>4, <3>5, <3>6, <3>7, <3>8, <3>9, <3>11 DEF Durable, AnswersAreDurable
  <2> QED BY <1>6, <2>2, <2>3 DEF Insert
<1>7. CASE Record(t)
  <2>1. Publish(t, "AgentTurnRecorded", "say") /\ at[t] = "record" /\ UNCHANGED <<rows, new>>
    BY <1>7 DEF Record
  <2>2. Quietly
    BY <2>1, PublishQuietly
  <2> QED BY <2>2, QuietIsDurable
<1>8. CASE Say(t)
  <2>1. at[t] = "say" /\ UNCHANGED <<rows, new>>
    BY <1>8 DEF Say
  <2>2. CASE UNCHANGED log /\ Go(t, "failed")
    <3>1. Quietly
      BY <2>1, <2>2, GoQuietly
    <3> QED BY <3>1, QuietIsDurable
  <2>3. CASE log' = Append(log, <<"LLMTextEmitted", t>>) /\ Go(t, "finish")
    <3>1. at'[t] = "finish" /\ \A u \in Turns \ {t} : at'[u] = at[u]
      BY <2>3, GoType DEF TypesOK
    <3>2. <<"LLMTextEmitted", t>> \in Types \X Turns /\ log \in Seq(Types \X Turns)
      BY DEF TypesOK, ThreadsOK
    <3>3. /\ \A i \in DOMAIN log : i \in DOMAIN log' /\ log'[i] = log[i]
          /\ \A i \in DOMAIN log' : (i \in DOMAIN log /\ log'[i] = log[i])
                                    \/ (i = Len(log) + 1 /\ log'[i] = <<"LLMTextEmitted", t>>)
          /\ DOMAIN log = 1..Len(log) /\ Len(log) \in Nat
      BY <2>3, <3>2
    <3>4. \A u \in Turns : at'[u] \in Filled => new'[u] # <<>>
      BY <2>1, <3>1 DEF Durable
    <3>5. \A r \in DOMAIN rows' : \E u \in Turns : rows'[r] = new'[u] /\ new'[u] # <<>> /\ at'[u] \in Stored
      <4>1. \A u \in Turns : at[u] \in Stored => at'[u] \in Stored
        BY <3>1
      <4> QED BY <2>1, <4>1 DEF Durable
    <3>6. \A u \in Turns : at'[u] \in Ripe => \E r \in DOMAIN rows' : rows'[r] = new'[u]
      BY <2>1, <3>1 DEF Durable
    <3>7. ASSUME NEW u \in Turns, at'[u] = "say"
          PROVE  \E j \in DOMAIN log' : log'[j] = <<"AgentTurnRecorded", u>>
      <4>1. at[u] = "say"
        BY <3>1, <3>7
      <4>2. PICK j \in DOMAIN log : log[j] = <<"AgentTurnRecorded", u>>
        BY <4>1 DEF Durable
      <4> QED BY <3>3, <4>2
    <3>8. \A i \in DOMAIN log' : log'[i][1] = "LLMTextEmitted" => at'[log'[i][2]] \in Told
      BY <3>1, <3>3, LogFacts DEF Durable
    <3>9. ASSUME NEW i \in DOMAIN log', log'[i][1] = "LLMTextEmitted"
          PROVE  /\ \E j \in 1..(i-1) : log'[j] = <<"AgentTurnRecorded", log'[i][2]>>
                 /\ \E r \in DOMAIN rows' : rows'[r] = new'[log'[i][2]]
      <4>1. CASE i \in DOMAIN log /\ log'[i] = log[i]
        <5>1. \A j \in 1..(i-1) : j \in DOMAIN log
          BY <3>3, <4>1
        <5>2. /\ \E j \in 1..(i-1) : log[j] = <<"AgentTurnRecorded", log[i][2]>>
              /\ \E r \in DOMAIN rows : rows[r] = new[log[i][2]]
          BY <3>9, <4>1 DEF Durable, AnswersAreDurable
        <5>3. PICK j \in 1..(i-1) : log[j] = <<"AgentTurnRecorded", log[i][2]>>
          BY <5>2
        <5>4. log'[j] = <<"AgentTurnRecorded", log'[i][2]>>
          BY <3>3, <4>1, <5>1, <5>3
        <5> QED BY <2>1, <4>1, <5>2, <5>4
      <4>2. CASE i = Len(log) + 1 /\ log'[i] = <<"LLMTextEmitted", t>>
        <5>1. PICK j \in DOMAIN log : log[j] = <<"AgentTurnRecorded", t>>
          BY <2>1 DEF Durable
        <5>2. j \in 1..(i-1) /\ log'[j] = <<"AgentTurnRecorded", t>>
          BY <3>3, <4>2, <5>1
        <5>3. \E r \in DOMAIN rows : rows[r] = new[t]
          BY <2>1 DEF Durable
        <5> QED BY <2>1, <4>2, <5>2, <5>3
      <4> QED BY <3>3, <4>1, <4>2
    <3>10. \A r, q \in DOMAIN rows' : rows'[r][1].of = rows'[q][1].of => r = q
      BY <2>1 DEF Durable, AnswersAreDurable
    <3> QED BY <3>4, <3>5, <3>6, <3>7, <3>8, <3>9, <3>10 DEF Durable, AnswersAreDurable
  <2> QED BY <1>8, <2>2, <2>3 DEF Say, Publish
<1> QED BY <1>1, <1>2, <1>3, <1>4, <1>5, <1>6, <1>7, <1>8 DEF Step

LEMMA DurableKept == ASSUME TypesOK, TypesOK', Order, Durable, [Next]_vars PROVE Durable'
<1> USE DEF Filled, Ripe, Told, Stored, Ends, Places
<1>1. ASSUME NEW t \in Turns, Step(t) PROVE Durable'
  BY <1>1, StepDurable
<1>2. ASSUME NEW t \in Turns, Submit(t), at[t] = "none", UNCHANGED <<rows, log, new>> PROVE Durable'
  <2>1. Go(t, "begin")
    BY <1>2 DEF Submit
  <2>2. Quietly
    BY <1>2, <2>1, GoQuietly
  <2> QED BY <2>2, QuietIsDurable
<1>3. CASE UNCHANGED <<at, rows, log, new>>
  <2>1. Quietly
    BY <1>3 DEF Quietly
  <2> QED BY <2>1, QuietIsDurable
<1>4. CASE Type
  <2>1. UNCHANGED <<rows, log, new>> /\ (UNCHANGED at \/ Submit(next)) /\ next \in Turns
    BY <1>4, NextIsTurn DEF Type, sessionVars
  <2>2. at[next] = "none"
    BY <2>1, TurnFacts DEF Order, Once
  <2> QED BY <1>2, <1>3, <2>1, <2>2
<1>5. CASE Dequeue
  <2>1. UNCHANGED <<rows, log, new>> /\ (UNCHANGED at \/ (queued # <<>> /\ Submit(Head(queued))))
    BY <1>5 DEF Dequeue, sessionVars
  <2>2. ASSUME queued # <<>> PROVE Head(queued) \in Turns /\ at[Head(queued)] = "none"
    <3>1. Head(queued) = queued[1] /\ 1 \in 1..Len(queued) /\ queued[1] \in Turns
      BY <2>2 DEF TypesOK, ScreenOK
    <3> QED BY <3>1 DEF Order, Once
  <2> QED BY <1>2, <1>3, <2>1, <2>2
<1>6. ASSUME NEW t \in Turns, Finish(t) PROVE Durable'
  <2>1. Go(t, "over") /\ at[t] = "finish" /\ UNCHANGED <<rows, log, new>>
    BY <1>6 DEF Finish, sessionVars
  <2>2. Quietly
    BY <2>1, GoQuietly
  <2> QED BY <2>2, QuietIsDurable
<1>7. ASSUME NEW t \in Turns, Chunk(t) PROVE Durable'
  <2>1. (UNCHANGED at \/ Go(t, "failed")) /\ at[t] = "model" /\ UNCHANGED <<rows, log, new>>
    BY <1>7 DEF Chunk, sessionVars
  <2>2. Go(t, "failed") => Quietly
    BY <2>1, GoQuietly
  <2> QED BY <1>3, <2>1, <2>2, QuietIsDurable
<1>8. CASE Restart
  <2>1. (\A t \in Turns : at'[t] = IF at[t] \in {"none", "over"} THEN at[t] ELSE "gone") /\ UNCHANGED <<rows, log, new>>
    BY <1>8 DEF Restart
  <2>2. Quietly
    BY <2>1 DEF Quietly
  <2> QED BY <2>2, QuietIsDurable
<1>9. ASSUME NEW t \in Turns, Finished(t) \/ Broken(t) PROVE UNCHANGED <<at, rows, log, new>>
  BY <1>9 DEF Finished, Broken, turnVars, sessionVars
<1>10. CASE Restore \/ Leave \/ UNCHANGED vars
  <2>1. UNCHANGED <<at, rows, log, new>>
    BY <1>10 DEF Restore, Leave, vars, turnVars, sessionVars
  <2> QED BY <1>3, <2>1
<1>11. ASSUME NEW cmd \in {"escape", "resume"}, Interrupt(cmd) PROVE UNCHANGED <<at, rows, log, new>>
  BY <1>11 DEF Interrupt, turnVars, sessionVars
<1> QED BY <1>1, <1>3, <1>4, <1>5, <1>6, <1>7, <1>8, <1>9, <1>10, <1>11 DEF Next, User, Work, Thread

LEMMA InitDurable == Init => Durable
<1> SUFFICES ASSUME Init PROVE Durable
  OBVIOUS
<1>1. (\A t \in Turns : at[t] = "none") /\ log = <<>> /\ rows = <<>>
  BY DEF Init, InitTurns
<1> QED BY <1>1 DEF Durable, AnswersAreDurable, Filled, Ripe

\* An answer the log announced is in a row, its turn recorded before, and no turn has two rows, whatever
\* threads insert side by side, errors refuse and restarts cut off (append_session_messages).
THEOREM AnswersStayDurable == Spec => []AnswersAreDurable
<1>1. Init => TypesOK /\ Order /\ Durable
  BY InitTypes, InitOrder, InitDurable
<1>2. (TypesOK /\ Order /\ Durable) /\ [Next]_vars => (TypesOK /\ Order /\ Durable)'
  BY TypesKept, OrderKept, DurableKept
<1>3. Durable => AnswersAreDurable
  BY DEF Durable
<1> QED BY <1>1, <1>2, <1>3, PTL DEF Spec

-----------------------------------------------------------------------------
(* What is left of a history behind a cut *)

\* q is what is left of s, from some place on.
Suffix(s, q) == \E i \in 1..(Len(s) + 1) : q = From(s, i)

LEMMA SuffixOfSuffix ==
  ASSUME NEW M, NEW s \in Seq(M), NEW q, NEW r, Suffix(s, q), Suffix(q, r) PROVE Suffix(s, r)
<1>1. PICK i \in 1..(Len(s) + 1) : q = From(s, i)
  BY DEF Suffix
<1>2. PICK j \in 1..(Len(q) + 1) : r = From(q, j)
  BY DEF Suffix
<1>3. i + j - 1 \in 1..(Len(s) + 1) /\ r = From(s, i + j - 1)
  BY <1>1, <1>2, FromFrom
<1> QED BY <1>3 DEF Suffix

LEMMA SuffixEmpty == ASSUME NEW M, NEW s \in Seq(M) PROVE Suffix(s, <<>>)
<1>1. Len(s) + 1 \in 1..(Len(s) + 1)
  OBVIOUS
<1>2. From(s, Len(s) + 1) \in Seq(M) /\ Len(From(s, Len(s) + 1)) = 0
  BY <1>1, FromFacts
<1> QED BY <1>1, <1>2 DEF Suffix

LEMMA SuffixBehind ==
  ASSUME NEW M, NEW s \in Seq(M), NEW t \in Seq(M), NEW q, Suffix(s, q) PROVE Suffix(s \o t, q \o t)
BY FromBehind DEF Suffix

\* The second of two sequences is left of both.
LEMMA SuffixPast == ASSUME NEW M, NEW s \in Seq(M), NEW t \in Seq(M) PROVE Suffix(s \o t, t)
<1>1. Len(s) + 1 \in 1..(Len(s) + 1) /\ Len(s) \in Nat
  OBVIOUS
<1>2. Len(s) + 1 \in 1..(Len(s \o t) + 1) /\ From(s \o t, Len(s) + 1) = From(s, Len(s) + 1) \o t
  BY <1>1, FromBehind
<1>3. From(s, Len(s) + 1) = <<>>
  <2>1. From(s, Len(s) + 1) \in Seq(M) /\ Len(From(s, Len(s) + 1)) = 0
    BY <1>1, FromFacts
  <2> QED BY <2>1
<1>4. <<>> \o t = t
  <2>1. <<>> \in Seq(M) /\ Len(<<>>) = 0 /\ <<>> \o t \in Seq(M) /\ Len(<<>> \o t) = Len(t)
    OBVIOUS
  <2>2. \A k \in 1..Len(t) : (<<>> \o t)[0 + k] = t[k] /\ 0 + k = k
    BY <2>1, ConcatFacts
  <2> QED BY <2>1, <2>2, SameSequence
<1> QED BY <1>2, <1>3, <1>4 DEF Suffix

LEMMA SuffixMembers ==
  ASSUME NEW M, NEW s \in Seq(M), NEW q, Suffix(s, q)
  PROVE  q \in Seq(M) /\ \A j \in 1..Len(q) : \E k \in 1..Len(s) : q[j] = s[k]
<1>1. PICK i \in 1..(Len(s) + 1) : q = From(s, i)
  BY DEF Suffix
<1>2. q \in Seq(M) /\ \A j \in 1..Len(q) : q[j] = s[i + j - 1] /\ i + j - 1 \in 1..Len(s)
  BY <1>1, FromFacts
<1> QED BY <1>2

\* What is selected of the rest is the rest of what is selected.
LEMMA SuffixSelected ==
  ASSUME NEW s \in Seq(Messages), NEW q, Suffix(s, q), NEW these
  PROVE  Suffix(Selected(s, these), Selected(q, these))
<1>1. PICK i \in 1..(Len(s) + 1) : q = From(s, i)
  BY DEF Suffix
<1> DEFINE p == SubSeq(s, 1, i - 1)
<1>2. p \in Seq(Messages) /\ q \in Seq(Messages) /\ s = p \o q
  BY <1>1, FromConcat, FromFacts
<1> HIDE DEF p
<1>3. Selected(s, these) = Selected(p, these) \o Selected(q, these)
  BY <1>2, SelectedConcat
<1> QED BY <1>2, <1>3, SelectedType, SuffixPast

LEMMA StartIsPlace == ASSUME NEW s \in Seq(Messages), NEW i \in Starts(s) PROVE i \in 1..(Len(s) + 1)
BY DEF Starts

LEMMA BoundedIsSuffix == ASSUME NEW s \in Seq(Messages), WellFormed(s) PROVE Suffix(s, Bounded(s))
<1>1. CASE Bounded(s) = <<>>
  BY <1>1, SuffixEmpty
<1>2. ASSUME NEW i \in Starts(s), Bounded(s) = From(s, i) PROVE Suffix(s, Bounded(s))
  BY <1>2, StartIsPlace DEF Suffix
<1> QED BY <1>1, <1>2, BoundedIsFrom

\* A bound keeps the last turn whole, or nothing.
LEMMA BoundedKeepsLast ==
  ASSUME NEW p \in Seq(Messages), NEW t, NEW e, OneTurn(e, t), WellFormed(p \o e)
  PROVE  Bounded(p \o e) = <<>> \/ \E q : Suffix(p, q) /\ Bounded(p \o e) = q \o e
<1> DEFINE s == p \o e
<1>1. e \in Seq(Messages) /\ s \in Seq(Messages) /\ Len(s) = Len(p) + Len(e) /\ Len(p) \in Nat /\ Len(e) \in Nat
      /\ \A k \in 1..Len(e) : s[Len(p) + k] = e[k]
  BY ConcatFacts DEF OneTurn
<1>2. ASSUME NEW i \in Starts(s) PROVE i \in 1..(Len(p) + 1)
  <2> HIDE DEF s
  <2>1. i \in 1..Len(s) /\ (i = 1 \/ s[i].kind = "ask")
    BY <1>1 DEF Starts
  <2>2. ASSUME i > Len(p) + 1 PROVE FALSE
    <3>1. i - Len(p) \in 1..Len(e) /\ Len(p) + (i - Len(p)) = i /\ i - Len(p) # 1 /\ i # 1
      BY <1>1, <2>1, <2>2
    <3>2. s[i] = e[i - Len(p)]
      BY <1>1, <3>1
    <3>3. e[i - Len(p)].kind # "ask"
      BY <3>1 DEF OneTurn
    <3> QED BY <2>1, <3>1, <3>2, <3>3
  <2> QED BY <1>1, <2>1, <2>2
<1>3. ASSUME NEW i \in Starts(s), Bounded(s) = From(s, i) PROVE \E q : Suffix(p, q) /\ Bounded(s) = q \o e
  <2>1. i \in 1..(Len(p) + 1) /\ From(s, i) = From(p, i) \o e
    BY <1>1, <1>2, FromBehind
  <2>2. Suffix(p, From(p, i))
    BY <2>1 DEF Suffix
  <2> QED BY <1>3, <2>1, <2>2
<1> QED BY <1>1, <1>3, BoundedIsFrom

-----------------------------------------------------------------------------
(* The history and the rows *)

Early == {"none", "begin", "call", "model", "account", "extend"}
Storing == {"bound", "number", "row"}

\* The history ends in the messages of a turn, and has none of them before.
EndsIn(s, t) ==
    \E p \in Seq(Messages) : s = p \o new[t] /\ \A i \in 1..Len(p) : p[i].of = t => p[i].kind = "fed"

Latest ==
    ~raced /\ faults = 0 =>
        /\ Suffix(Joined(rows), Selected(history, Recorded))
        /\ \A i \in 1..Len(history) : history[i].kind # "fed" => history[i].of \in Turns /\ at[history[i].of] \notin Early
        /\ \A t \in Turns : at[t] \in Storing => history = <<>> \/ EndsIn(history, t)
        /\ \A t \in Turns : at[t] = "bound" => kept[t] = Bounded(history)

LEMMA RecordedFacts ==
  ASSUME TypesOK, Durable, NEW m \in Recorded
  PROVE  m \in Messages /\ m.kind # "fed" /\ m.of \in Turns /\ at[m.of] \in Stored
<1>1. PICK r \in DOMAIN rows : rows[r][1].of = m.of
  BY DEF Recorded
<1>2. PICK t \in Turns : rows[r] = new[t] /\ new[t] # <<>> /\ at[t] \in Stored
  BY DEF Durable
<1>3. m.of = t
  BY <1>1, <1>2, NewIsOwn
<1> QED BY <1>2, <1>3 DEF Recorded

LEMMA HistoryTypes ==
  ASSUME TypesOK
  PROVE  /\ history \in Seq(Messages) /\ WellFormed(history) /\ Joined(rows) \in Seq(Messages)
         /\ Selected(history, Recorded) \in Seq(Messages) /\ rows \in Seq(Seq(Messages))
BY JoinedType, SelectedType DEF TypesOK, HistoriesOK, Good

\* Messages of turns without a row are not selected.
LEMMA UnrecordedAdded ==
  ASSUME TypesOK, NEW e \in Seq(Messages), \A i \in 1..Len(e) : e[i] \notin Recorded
  PROVE  history \o e \in Seq(Messages) /\ Selected(history \o e, Recorded) = Selected(history, Recorded)
<1>1. Selected(e, Recorded) = <<>>
  BY SelectedNone
<1>2. Selected(history \o e, Recorded) = Selected(history, Recorded) \o <<>>
  <2>1. history \in Seq(Messages)
    BY HistoryTypes
  <2>2. Selected(history \o e, Recorded) = Selected(history, Recorded) \o Selected(e, Recorded)
    BY <2>1, SelectedConcat
  <2> QED BY <1>1, <2>2
<1>3. history \o e \in Seq(Messages)
  BY HistoryTypes
<1> QED BY <1>2, <1>3, HistoryTypes

\* A history that replaces another, of the same rows
LEMMA LatestOfRest ==
  ASSUME TypesOK, NEW s \in Seq(Messages), Suffix(Joined(rows), Selected(s, Recorded)), NEW q, Suffix(s, q)
  PROVE  Suffix(Joined(rows), Selected(q, Recorded))
<1>1. Suffix(Selected(s, Recorded), Selected(q, Recorded))
  BY SuffixSelected
<1> QED BY <1>1, HistoryTypes, SuffixOfSuffix

\* A step that leaves the history, the rows and what is about to be stored
LEMMA QuietIsLatest ==
  ASSUME TypesOK, Latest, UNCHANGED <<history, rows>>, raced => raced', faults' = 0 => faults = 0,
         \A u \in Turns : at[u] \notin Early => at'[u] \notin Early,
         \A u \in Turns : at'[u] \in Storing => at[u] \in Storing /\ new'[u] = new[u],
         \A u \in Turns : at'[u] = "bound" => at[u] = "bound" /\ kept'[u] = kept[u]
  PROVE  Latest'
<1> SUFFICES ASSUME ~raced', faults' = 0
             PROVE  /\ Suffix(Joined(rows'), Selected(history', Recorded'))
                    /\ \A i \in 1..Len(history') : history'[i].kind # "fed" =>
                         history'[i].of \in Turns /\ at'[history'[i].of] \notin Early
                    /\ \A t \in Turns : at'[t] \in Storing => history' = <<>> \/ EndsIn(history, t)'
                    /\ \A t \in Turns : at'[t] = "bound" => kept'[t] = Bounded(history')
  BY DEF Latest
<1>1. ~raced /\ faults = 0
  OBVIOUS
<1>2. Suffix(Joined(rows'), Selected(history', Recorded'))
  BY <1>1 DEF Latest, Recorded
<1>3. ASSUME NEW t \in Turns, at'[t] \in Storing PROVE history' = <<>> \/ EndsIn(history, t)'
  BY <1>1, <1>3 DEF Latest, EndsIn
<1>4. \A i \in 1..Len(history') : history'[i].kind # "fed" => history'[i].of \in Turns /\ at'[history'[i].of] \notin Early
  BY <1>1 DEF Latest
<1>5. \A t \in Turns : at'[t] = "bound" => kept'[t] = Bounded(history')
  BY <1>1 DEF Latest
<1> QED BY <1>2, <1>3, <1>4, <1>5

\* A turn that runs alone replaces the history by one whose messages are of turns that are far enough.
LEMMA ReplacedIsLatest ==
  ASSUME TypesOK, Order, Latest, NEW t \in Turns, Busy(t), ~raced', faults' = 0, UNCHANGED <<rows, raced, faults>>,
         \A u \in Turns \ {t} : at'[u] = at[u],
         at[t] \notin Early => at'[t] \notin Early,
         Suffix(Joined(rows), Selected(history', Recorded)),
         \A i \in 1..Len(history') : history'[i].kind # "fed" =>
            \/ \E j \in 1..Len(history) : history'[i] = history[j]
            \/ history'[i].of = t /\ at'[t] \notin Early,
         at'[t] \in Storing => history' = <<>> \/ EndsIn(history, t)',
         at'[t] = "bound" => kept'[t] = Bounded(history')
  PROVE  Latest'
<1>1. ~raced /\ faults = 0 /\ \A u \in Turns \ {t} : ~Busy(u)
  BY DEF Order, Solo, OneBusy
<1>2. \A u \in Turns \ {t} : at'[u] \notin Storing
  BY <1>1 DEF Busy, Storing
<1>3. Recorded' = Recorded
  BY DEF Recorded
<1>4. ASSUME NEW i \in 1..Len(history'), history'[i].kind # "fed"
      PROVE  history'[i].of \in Turns /\ at'[history'[i].of] \notin Early
  <2>1. CASE history'[i].of = t /\ at'[t] \notin Early
    BY <2>1
  <2>2. ASSUME NEW j \in 1..Len(history), history'[i] = history[j] PROVE history'[i].of \in Turns /\ at'[history'[i].of] \notin Early
    <3>1. history[j].of \in Turns /\ at[history[j].of] \notin Early
      BY <1>1, <1>4, <2>2 DEF Latest
    <3> QED BY <2>2, <3>1
  <2> QED BY <1>4, <2>1, <2>2
<1>5. Suffix(Joined(rows'), Selected(history', Recorded'))
  BY <1>3
<1>6. \A u \in Turns : at'[u] \in Storing => history' = <<>> \/ EndsIn(history, u)'
  BY <1>2
<1>7. \A u \in Turns : at'[u] = "bound" => kept'[u] = Bounded(history')
  BY <1>2 DEF Storing
<1> QED BY <1>4, <1>5, <1>6, <1>7 DEF Latest

\* The messages of an early turn, and findings, have no row.
LEMMA EarlyUnrecorded ==
  ASSUME TypesOK, Durable, NEW t \in Turns, at[t] \in Early \cup Storing, NEW m, m.of = t \/ m.kind = "fed"
  PROVE  m \notin Recorded
BY RecordedFacts DEF Early, Storing, Stored, Ripe, Ends

LEMMA CommandLatest ==
  ASSUME TypesOK, TypesOK', Order, Durable, Latest, NEW t \in Turns, Command(t), UNCHANGED uiVars PROVE Latest'
<1> SUFFICES ASSUME ~raced', faults' = 0 PROVE Latest'
  BY DEF Latest
<1>1. at[t] = "begin" /\ Go(t, "over") /\ UNCHANGED <<rows, raced, faults>>
  BY DEF Command, uiVars
<1>2. at'[t] = "over" /\ \A u \in Turns \ {t} : at'[u] = at[u]
  BY <1>1, GoType DEF TypesOK, Places
<1>3. ~raced /\ faults = 0 /\ Busy(t)
  BY <1>1 DEF Busy
<1>4. Suffix(Joined(rows), Selected(history, Recorded))
  BY <1>3 DEF Latest
<1>5. /\ at'[t] \notin Early /\ at'[t] \notin Storing /\ at'[t] # "bound" /\ at[t] \in Early
  BY <1>1, <1>2 DEF Early, Storing
<1>6. history \in Seq(Messages) /\ WellFormed(history) /\ Joined(rows) \in Seq(Messages)
  BY HistoryTypes
<1>7. ASSUME Suffix(Joined(rows), Selected(history', Recorded)),
             \A i \in 1..Len(history') : history'[i].kind # "fed" =>
                \/ \E j \in 1..Len(history) : history'[i] = history[j]
                \/ history'[i].of = t
      PROVE  Latest'
  BY <1>1, <1>2, <1>3, <1>5, <1>7, ReplacedIsLatest
<1>8. CASE UNCHANGED history
  BY <1>4, <1>7, <1>8
<1>9. CASE Goal(t)
  <2> DEFINE e == Exchange(t, 1)
  <2>1. OneTurn(e, t) /\ e \in Seq(Messages)
    <3>1. OneTurn(e, t)
      BY TurnFacts, ExchangeFacts
    <3> HIDE DEF e
    <3> QED BY <3>1 DEF OneTurn
  <2>2. \A i \in 1..Len(e) : e[i].of = t
    BY <2>1 DEF OneTurn
  <2>3. history' = history \o e
    BY <1>9 DEF Goal
  <2> HIDE DEF e
  <2>4. \A i \in 1..Len(e) : e[i] \notin Recorded
    BY <1>5, <2>2, EarlyUnrecorded
  <2>5. Selected(history', Recorded) = Selected(history, Recorded)
    BY <2>1, <2>3, <2>4, UnrecordedAdded
  <2>6. \A i \in 1..Len(history') : (\E j \in 1..Len(history) : history'[i] = history[j]) \/ history'[i].of = t
    <3>1. \A i \in 1..Len(history') : i \in 1..Len(history) \/ \E j \in 1..Len(e) : i = Len(history) + j
      BY <1>6, <2>1, <2>3, ConcatFacts
    <3>2. (\A i \in 1..Len(history) : history'[i] = history[i]) /\ \A j \in 1..Len(e) : history'[Len(history) + j] = e[j]
      BY <1>6, <2>1, <2>3, ConcatFacts
    <3> QED BY <2>2, <3>1, <3>2
  <2> QED BY <1>4, <1>7, <2>5, <2>6
<1>10. ASSUME NEW task \in 1..t, Feed(t, task) PROVE Latest'
  <2> DEFINE m == Message("fed", task, 1)
             e == <<m>>
  <2>1. m \in Messages /\ m.kind = "fed"
    BY TurnFacts, MessageFacts
  <2>2. history' = history \/ history' = Bounded(Append(history, m))
    BY <1>10 DEF Feed
  <2> HIDE DEF m
  <2>3. e \in Seq(Messages) /\ Len(e) = 1 /\ e[1] = m /\ Append(history, m) = history \o e
    BY <1>6, <2>1
  <2>4. \A i \in 1..Len(e) : e[i] = m
    BY <2>3
  <2> HIDE DEF e
  <2>5. \A i \in 1..Len(e) : e[i] \notin Recorded
    BY <1>5, <2>1, <2>4, EarlyUnrecorded
  <2>6. history \o e \in Seq(Messages) /\ Selected(history \o e, Recorded) = Selected(history, Recorded)
    BY <2>3, <2>5, UnrecordedAdded
  <2>7. WellFormed(history \o e)
    <3>1. WellFormed(e)
      <4>1. DOMAIN e = 1..Len(e)
        BY <2>3
      <4> QED BY <2>1, <2>4, <4>1 DEF WellFormed
    <3> QED BY <1>6, <2>3, <3>1, ConcatIsWellFormed
  <2>8. Suffix(history \o e, Bounded(history \o e))
    BY <2>6, <2>7, BoundedIsSuffix
  <2>9. CASE history' = Bounded(history \o e)
    <3>1. Suffix(Joined(rows), Selected(history', Recorded))
      BY <1>4, <2>6, <2>8, <2>9, LatestOfRest
    <3>2. \A i \in 1..Len(history') : \E k \in 1..Len(history \o e) : history'[i] = (history \o e)[k]
      <4> DEFINE u == history \o e
      <4>1. Suffix(u, history') /\ u \in Seq(Messages)
        BY <2>6, <2>8, <2>9
      <4> HIDE DEF u
      <4>2. \A i \in 1..Len(history') : \E k \in 1..Len(u) : history'[i] = u[k]
        BY <4>1, SuffixMembers
      <4> QED BY <4>2 DEF u
    <3>3. \A k \in 1..Len(history \o e) :
            (\E j \in 1..Len(history) : (history \o e)[k] = history[j]) \/ (history \o e)[k] = m
      <4>1. \A k \in 1..Len(history \o e) : k \in 1..Len(history) \/ \E j \in 1..Len(e) : k = Len(history) + j
        BY <1>6, <2>3, ConcatFacts
      <4>2. /\ \A k \in 1..Len(history) : (history \o e)[k] = history[k]
            /\ \A j \in 1..Len(e) : (history \o e)[Len(history) + j] = e[j]
        BY <1>6, <2>3, ConcatFacts
      <4> QED BY <2>4, <4>1, <4>2
    <3>4. \A i \in 1..Len(history') : history'[i].kind # "fed" => \E j \in 1..Len(history) : history'[i] = history[j]
      BY <2>1, <3>2, <3>3
    <3> QED BY <1>7, <3>1, <3>4
  <2> QED BY <1>8, <2>2, <2>3, <2>9
<1>11. ASSUME NEW task \in 1..t, Slice(task) PROVE Latest'
  <2> DEFINE these == {m \in Messages : ~(m.kind = "fed" /\ m.of = task)}
  <2>1. history' = Selected(history, these)
    BY <1>11 DEF Slice, Without
  <2>2. Recorded \subseteq these
    BY DEF Recorded
  <2> HIDE DEF these
  <2>3. Selected(history', Recorded) = Selected(history, Recorded)
    BY <1>6, <2>1, <2>2, SelectedTwice
  <2>4. \A i \in 1..Len(history') : \E j \in 1..Len(history) : history'[i] = history[j]
    BY <1>6, <2>1, SelectedIsOld
  <2> QED BY <1>4, <1>7, <2>3, <2>4
<1>12. ASSUME Spawn(t) PROVE Latest'
  BY <1>8, <1>12 DEF Spawn
<1> QED BY <1>9, <1>10, <1>11, <1>12 DEF Command

LEMMA ExtendLatest ==
  ASSUME TypesOK, Order, Durable, Latest, NEW t \in Turns, Extend(t), UNCHANGED uiVars PROVE Latest'
<1> SUFFICES ASSUME ~raced', faults' = 0 PROVE Latest'
  BY DEF Latest
<1>1. /\ at[t] = "extend" /\ Go(t, "bound") /\ UNCHANGED <<new, rows, raced, faults>> /\ history' = history \o new[t]
      /\ kept' = [kept EXCEPT ![t] = Bounded(history \o new[t])]
  BY DEF Extend, uiVars
<1>2. at'[t] = "bound" /\ \A u \in Turns \ {t} : at'[u] = at[u]
  BY <1>1, GoType DEF TypesOK, Places
<1>3. ~raced /\ faults = 0 /\ Busy(t) /\ at[t] \in Early /\ at'[t] \notin Early
  BY <1>1, <1>2 DEF Busy, Early
<1>4. OneTurn(new[t], t) /\ new[t] \in Seq(Messages) /\ history \in Seq(Messages)
  BY <1>1, HistoryTypes DEF Durable, Filled, TypesOK, HistoriesOK, OneTurn
<1>5. \A i \in 1..Len(new[t]) : new[t][i] \notin Recorded /\ new[t][i].of = t
  BY <1>3, <1>4, EarlyUnrecorded DEF OneTurn
<1>6. Selected(history', Recorded) = Selected(history, Recorded)
  BY <1>1, <1>4, <1>5, UnrecordedAdded
<1>7. Suffix(Joined(rows), Selected(history', Recorded))
  BY <1>3, <1>6 DEF Latest
<1>8. \A i \in 1..Len(history') : (\E j \in 1..Len(history) : history'[i] = history[j]) \/ history'[i].of = t
  <2>1. \A i \in 1..Len(history') : i \in 1..Len(history) \/ \E j \in 1..Len(new[t]) : i = Len(history) + j
    BY <1>1, <1>4, ConcatFacts
  <2>2. /\ \A i \in 1..Len(history) : history'[i] = history[i]
        /\ \A j \in 1..Len(new[t]) : history'[Len(history) + j] = new[t][j]
    BY <1>1, <1>4, ConcatFacts
  <2> QED BY <1>5, <2>1, <2>2
<1>9. EndsIn(history, t)'
  <2>1. \A i \in 1..Len(history) : history[i].of = t => history[i].kind = "fed"
    BY <1>3 DEF Latest
  <2> QED BY <1>1, <1>4, <2>1 DEF EndsIn
<1>10. kept'[t] = Bounded(history')
  BY <1>1 DEF TypesOK, HistoriesOK
<1> QED BY <1>1, <1>2, <1>3, <1>7, <1>8, <1>9, <1>10, ReplacedIsLatest

LEMMA BoundLatest ==
  ASSUME TypesOK, Order, Durable, Latest, NEW t \in Turns, Bound(t), UNCHANGED uiVars PROVE Latest'
<1> SUFFICES ASSUME ~raced', faults' = 0 PROVE Latest'
  BY DEF Latest
<1>1. at[t] = "bound" /\ Go(t, "number") /\ UNCHANGED <<new, rows, raced, faults>> /\ history' = kept[t]
  BY DEF Bound, uiVars
<1>2. at'[t] = "number" /\ \A u \in Turns \ {t} : at'[u] = at[u]
  BY <1>1, GoType DEF TypesOK, Places
<1>3. ~raced /\ faults = 0 /\ Busy(t) /\ at'[t] \notin Early /\ at'[t] # "bound" /\ at[t] \in Storing
  BY <1>1, <1>2 DEF Busy, Early, Storing
<1>4. /\ history' = Bounded(history) /\ history \in Seq(Messages) /\ WellFormed(history)
      /\ Suffix(Joined(rows), Selected(history, Recorded)) /\ (history = <<>> \/ EndsIn(history, t))
  BY <1>1, <1>3, HistoryTypes DEF Latest
<1>5. Suffix(history, history')
  BY <1>4, BoundedIsSuffix
<1>6. Suffix(Joined(rows), Selected(history', Recorded))
  BY <1>4, <1>5, LatestOfRest
<1>7. \A i \in 1..Len(history') : \E j \in 1..Len(history) : history'[i] = history[j]
  BY <1>4, <1>5, SuffixMembers
<1>8. history' = <<>> \/ EndsIn(history, t)'
  <2>1. CASE history = <<>>
    <3>1. PICK i \in 1..(Len(history) + 1) : history' = From(history, i)
      BY <1>5 DEF Suffix
    <3>2. Len(history) = 0 /\ history' \in Seq(Messages) /\ Len(history') = Len(history) + 1 - i
      BY <1>4, <2>1, <3>1, FromFacts
    <3> QED BY <3>1, <3>2
  <2>2. CASE EndsIn(history, t)
    <3>1. PICK p \in Seq(Messages) : history = p \o new[t] /\ \A i \in 1..Len(p) : p[i].of = t => p[i].kind = "fed"
      BY <2>2 DEF EndsIn
    <3>2. OneTurn(new[t], t)
      BY <1>1 DEF Durable, Filled, TypesOK, HistoriesOK
    <3>3. ASSUME NEW q, Suffix(p, q), history' = q \o new[t] PROVE EndsIn(history, t)'
      <4>1. q \in Seq(Messages) /\ \A j \in 1..Len(q) : \E k \in 1..Len(p) : q[j] = p[k]
        BY <3>1, <3>3, SuffixMembers
      <4>2. \A j \in 1..Len(q) : q[j].of = t => q[j].kind = "fed"
        BY <3>1, <4>1
      <4> QED BY <1>1, <3>3, <4>1, <4>2 DEF EndsIn
    <3> QED BY <1>4, <3>1, <3>2, <3>3, BoundedKeepsLast
  <2> QED BY <1>4, <2>1, <2>2
<1> QED BY <1>1, <1>2, <1>3, <1>6, <1>7, <1>8, ReplacedIsLatest

LEMMA InsertLatest ==
  ASSUME TypesOK, Order, Durable, Latest, NEW t \in Turns, UNCHANGED <<raced, faults, history, new>>,
         at[t] = "row", rows' = Append(rows, new[t]), Go(t, "record")
  PROVE Latest'
<1> SUFFICES ASSUME ~raced', faults' = 0 PROVE Latest'
  BY DEF Latest
<1>1. at'[t] = "record" /\ \A u \in Turns \ {t} : at'[u] = at[u]
  BY GoType DEF TypesOK, Places
<1>2. ~raced /\ faults = 0 /\ Busy(t) /\ at[t] \in Storing
  BY DEF Busy, Storing
<1>3. \A u \in Turns \ {t} : ~Busy(u)
  BY <1>2 DEF Order, Solo, OneBusy
<1>4. \A u \in Turns : at'[u] \notin Storing
  BY <1>1, <1>3 DEF Busy, Storing
<1>5. OneTurn(new[t], t) /\ new[t] \in Seq(Messages) /\ new[t] # <<>> /\ new[t][1].of = t
  <2>1. new[t] # <<>>
    BY DEF Durable, Filled
  <2>2. OneTurn(new[t], t)
    BY <2>1 DEF TypesOK, HistoriesOK
  <2>3. new[t] \in Seq(Messages)
    BY <2>2 DEF OneTurn
  <2> QED BY <2>1, <2>2, <2>3, NewIsOwn
<1>6. /\ history \in Seq(Messages) /\ Joined(rows) \in Seq(Messages) /\ rows \in Seq(Seq(Messages))
      /\ Suffix(Joined(rows), Selected(history, Recorded)) /\ (history = <<>> \/ EndsIn(history, t))
  BY <1>2, HistoryTypes DEF Latest
<1>7. Joined(rows') = Joined(rows) \o new[t]
  BY <1>5, <1>6, JoinedAppend
<1>8. ASSUME NEW m \in Messages PROVE m \in Recorded' <=> m \in Recorded \/ (m.kind # "fed" /\ m.of = t)
  <2>1. \A r \in DOMAIN rows' : (r \in DOMAIN rows /\ rows'[r] = rows[r]) \/ rows'[r] = new[t]
    BY <1>5, <1>6
  <2>2. Len(rows) + 1 \in DOMAIN rows' /\ rows'[Len(rows) + 1] = new[t]
        /\ \A r \in DOMAIN rows : r \in DOMAIN rows' /\ rows'[r] = rows[r]
    BY <1>5, <1>6
  <2> QED BY <1>5, <2>1, <2>2 DEF Recorded
<1>9. Suffix(Joined(rows'), Selected(history', Recorded'))
  <2>1. CASE history = <<>>
    <3>1. Selected(history', Recorded') = <<>>
      BY <2>1, SelectedEmpty
    <3>2. Joined(rows) \o new[t] \in Seq(Messages)
      BY <1>5, <1>6
    <3> QED BY <1>7, <3>1, <3>2, SuffixEmpty
  <2>2. CASE EndsIn(history, t)
    <3>1. PICK p \in Seq(Messages) : history = p \o new[t] /\ \A i \in 1..Len(p) : p[i].of = t => p[i].kind = "fed"
      BY <2>2 DEF EndsIn
    <3>2. \A i \in 1..Len(p) : p[i] \in Messages /\ (p[i] \in Recorded' <=> p[i] \in Recorded)
      <4>1. \A i \in 1..Len(p) : p[i] \in Messages
        BY <3>1
      <4> QED BY <1>8, <3>1, <4>1
    <3>3. Selected(p, Recorded') = Selected(p, Recorded)
      BY <3>1, <3>2, SelectedSame
    <3>4. \A i \in 1..Len(new[t]) : new[t][i] \in Messages /\ new[t][i].of = t /\ new[t][i].kind # "fed"
      BY <1>5 DEF OneTurn
    <3>5. Selected(new[t], Recorded') = new[t]
      <4>1. \A i \in 1..Len(new[t]) : new[t][i] \in Recorded'
        BY <1>8, <3>4
      <4> QED BY <1>5, <4>1, SelectedAll
    <3>6. Selected(new[t], Recorded) = <<>>
      <4>1. \A i \in 1..Len(new[t]) : new[t][i] \notin Recorded
        BY <1>2, <3>4, EarlyUnrecorded
      <4> QED BY <1>5, <4>1, SelectedNone
    <3>7. Selected(history, Recorded) = Selected(p, Recorded)
      <4>1. Selected(history, Recorded) = Selected(p, Recorded) \o <<>>
        <5>1. Selected(p \o new[t], Recorded) = Selected(p, Recorded) \o Selected(new[t], Recorded)
          BY <1>5, <3>1, SelectedConcat
        <5> QED BY <3>1, <3>6, <5>1
      <4> QED BY <3>1, <4>1, SelectedType
    <3>8. Selected(history', Recorded') = Selected(history, Recorded) \o new[t]
      <4>1. \A these : Selected(p \o new[t], these) = Selected(p, these) \o Selected(new[t], these)
        BY <1>5, <3>1, SelectedConcat
      <4>2. Selected(p \o new[t], Recorded') = Selected(p, Recorded') \o Selected(new[t], Recorded')
        BY <4>1
      <4>3. history' = p \o new[t]
        BY <3>1
      <4> QED BY <3>3, <3>5, <3>7, <4>2, <4>3
    <3> QED BY <1>5, <1>6, <1>7, <3>8, SuffixBehind
  <2> QED BY <1>6, <2>1, <2>2
<1>10. \A i \in 1..Len(history') : history'[i].kind # "fed" => history'[i].of \in Turns /\ at'[history'[i].of] \notin Early
  <2>1. \A u \in Turns : at[u] \notin Early => at'[u] \notin Early
    BY <1>1 DEF Early
  <2> QED BY <1>2, <2>1 DEF Latest
<1>11. \A u \in Turns : at'[u] # "bound"
  BY <1>4 DEF Storing
<1> QED BY <1>4, <1>9, <1>10, <1>11 DEF Latest

LEMMA PlaceLatest ==
  ASSUME TypesOK, Latest, NEW t \in Turns, NEW there \in Places, Go(t, there), UNCHANGED <<history, rows, faults, raced>>,
         at[t] \notin Early => there \notin Early,
         there \in Storing => at[t] \in Storing /\ new'[t] = new[t],
         there = "bound" => at[t] = "bound" /\ kept'[t] = kept[t],
         \A u \in Turns \ {t} : new'[u] = new[u] /\ kept'[u] = kept[u]
  PROVE  Latest'
<1>1. at'[t] = there /\ \A u \in Turns \ {t} : at'[u] = at[u]
  BY GoType DEF TypesOK
<1>2. \A u \in Turns : at[u] \notin Early => at'[u] \notin Early
  BY <1>1
<1>3. \A u \in Turns : at'[u] \in Storing => at[u] \in Storing /\ new'[u] = new[u]
  BY <1>1
<1>4. \A u \in Turns : at'[u] = "bound" => at[u] = "bound" /\ kept'[u] = kept[u]
  BY <1>1
<1> QED BY <1>2, <1>3, <1>4, QuietIsLatest

\* An error or a restart has come between.
LEMMA FaultIsLatest == ASSUME TypesOK, faults' = faults + 1 PROVE Latest'
<1>1. faults' # 0
  BY DEF TypesOK, ThreadsOK
<1> QED BY <1>1 DEF Latest

LEMMA PublishLatest ==
  ASSUME TypesOK, Latest, NEW t \in Turns, NEW type, NEW there \in Places \ Storing, Publish(t, type, there),
         UNCHANGED <<history, rows, raced, new, kept>>, at[t] \notin Early => there \notin Early
  PROVE  Latest'
<1>1. CASE Go(t, there) /\ UNCHANGED faults
  <2>1. there # "bound" /\ there \notin Storing
    BY DEF Storing
  <2> QED BY <1>1, <2>1, PlaceLatest
<1>2. CASE faults' = faults + 1
  BY <1>2, FaultIsLatest
<1> QED BY <1>1, <1>2 DEF Publish

LEMMA StepLatest ==
  ASSUME TypesOK, TypesOK', Order, Durable, Latest, NEW t \in Turns, Step(t), UNCHANGED uiVars PROVE Latest'
<1> USE DEF Early, Storing, Places
<1>1. raced' = raced
  BY DEF uiVars
<1>2. CASE Begin(t)
  <2>1. Publish(t, "AgentInputAdded", "call") /\ at[t] = "begin" /\ UNCHANGED <<history, rows, new, kept>>
    BY <1>2 DEF Begin
  <2> QED BY <1>1, <2>1, PublishLatest
<1>3. CASE Account(t)
  <2>1. Publish(t, "LLMActionEmitted", "extend") /\ at[t] = "account" /\ UNCHANGED <<history, rows, new, kept>>
    BY <1>3 DEF Account
  <2> QED BY <1>1, <2>1, PublishLatest
<1>4. CASE Record(t)
  <2>1. Publish(t, "AgentTurnRecorded", "say") /\ at[t] = "record" /\ UNCHANGED <<history, rows, new, kept>>
    BY <1>4 DEF Record
  <2> QED BY <1>1, <2>1, PublishLatest
<1>5. CASE Say(t)
  <2>1. Publish(t, "LLMTextEmitted", "finish") /\ at[t] = "say" /\ UNCHANGED <<history, rows, new, kept>>
    BY <1>5 DEF Say
  <2> QED BY <1>1, <2>1, PublishLatest
<1>6. CASE Call(t)
  <2>1. Go(t, "model") /\ at[t] = "call" /\ UNCHANGED <<history, rows, faults, new, kept>>
    BY <1>6 DEF Call
  <2> QED BY <1>1, <2>1, PlaceLatest
<1>7. CASE Answer(t)
  <2>1. PICK there \in {"over", "failed", "account"} : Go(t, there)
    BY <1>7 DEF Answer
  <2>2. at[t] = "model" /\ UNCHANGED <<history, rows, faults, kept>>
    BY <1>7 DEF Answer
  <2>3. \A u \in Turns \ {t} : new'[u] = new[u] /\ kept'[u] = kept[u]
    BY <1>7 DEF Answer, TypesOK, HistoriesOK
  <2> QED BY <1>1, <2>1, <2>2, <2>3, PlaceLatest
<1>8. CASE Extend(t)
  BY <1>8, ExtendLatest
<1>9. CASE Bound(t)
  BY <1>9, BoundLatest
<1>10. CASE Number(t)
  <2>1. Go(t, "row") /\ at[t] = "number" /\ UNCHANGED <<history, rows, faults, new, kept>>
    BY <1>10 DEF Number, sessionVars
  <2> QED BY <1>1, <2>1, PlaceLatest
<1>11. CASE Insert(t)
  <2>1. at[t] = "row" /\ UNCHANGED <<history, new, kept>>
    BY <1>11 DEF Insert
  <2>2. CASE rows' = Append(rows, new[t]) /\ Go(t, "record") /\ UNCHANGED faults
    BY <1>1, <2>1, <2>2, InsertLatest
  <2>3. CASE Go(t, "failed") /\ UNCHANGED <<rows, faults>>
    BY <1>1, <2>1, <2>3, PlaceLatest
  <2>4. CASE faults' = faults + 1
    BY <2>4, FaultIsLatest
  <2> QED BY <1>11, <2>2, <2>3, <2>4 DEF Insert
<1>12. CASE Command(t)
  BY <1>12, CommandLatest
<1> QED BY <1>2, <1>3, <1>4, <1>5, <1>6, <1>7, <1>8, <1>9, <1>10, <1>11, <1>12 DEF Step

LEMMA LatestKept == ASSUME TypesOK, TypesOK', Order, Durable, Latest, [Next]_vars PROVE Latest'
<1> USE DEF Early, Storing, Places
<1>1. ASSUME NEW t \in Turns, Step(t), UNCHANGED uiVars PROVE Latest'
  BY <1>1, StepLatest
<1>2. ASSUME UNCHANGED <<at, history, rows, faults, new, kept>>, raced => raced' PROVE Latest'
  BY <1>2, QuietIsLatest
<1>3. ASSUME NEW t \in Turns, Submit(t), at[t] = "none", UNCHANGED <<history, rows, faults, new, kept>>, raced => raced'
      PROVE  Latest'
  <2>1. Go(t, "begin")
    BY <1>3 DEF Submit
  <2>2. at'[t] = "begin" /\ \A u \in Turns \ {t} : at'[u] = at[u]
    BY <2>1, GoType DEF TypesOK
  <2>3. \A u \in Turns : at[u] \notin Early => at'[u] \notin Early
    BY <1>3, <2>2
  <2>4. \A u \in Turns : at'[u] \in Storing => at[u] \in Storing
    BY <2>2
  <2>5. \A u \in Turns : at'[u] = "bound" => at[u] = "bound"
    BY <2>2
  <2> QED BY <1>3, <2>3, <2>4, <2>5, QuietIsLatest
<1>4. CASE Type
  <2>1. UNCHANGED <<history, rows, faults, new, kept>> /\ (UNCHANGED at \/ Submit(next)) /\ next \in Turns
    BY <1>4, NextIsTurn DEF Type, sessionVars
  <2>2. at[next] = "none"
    BY <2>1, TurnFacts DEF Order, Once
  <2>3. raced => raced'
    BY <1>4 DEF Type
  <2> QED BY <1>2, <1>3, <2>1, <2>2, <2>3
<1>5. CASE Dequeue
  <2>1. /\ UNCHANGED <<history, rows, faults, new, kept, raced>>
        /\ UNCHANGED at \/ (queued # <<>> /\ Submit(Head(queued)))
    BY <1>5 DEF Dequeue, sessionVars
  <2>2. ASSUME queued # <<>> PROVE Head(queued) \in Turns /\ at[Head(queued)] = "none"
    <3>1. Head(queued) = queued[1] /\ 1 \in 1..Len(queued) /\ queued[1] \in Turns
      BY <2>2 DEF TypesOK, ScreenOK
    <3> QED BY <3>1 DEF Order, Once
  <2> QED BY <1>2, <1>3, <2>1, <2>2
<1>6. ASSUME NEW t \in Turns, Finish(t) PROVE Latest'
  <2>1. Go(t, "over") /\ at[t] = "finish" /\ UNCHANGED <<history, rows, faults, new, kept, raced>>
    BY <1>6 DEF Finish, sessionVars
  <2> QED BY <2>1, PlaceLatest
<1>7. ASSUME NEW t \in Turns, Chunk(t) PROVE Latest'
  <2>1. (UNCHANGED at \/ Go(t, "failed")) /\ at[t] = "model" /\ UNCHANGED <<history, rows, faults, new, kept, raced>>
    BY <1>7 DEF Chunk, sessionVars
  <2>2. Go(t, "failed") => Latest'
    BY <2>1, PlaceLatest
  <2> QED BY <1>2, <2>1, <2>2
<1>8. CASE Restart
  BY <1>8, FaultIsLatest DEF Restart
<1>9. ASSUME NEW t \in Turns, Finished(t) \/ Broken(t) PROVE Latest'
  <2>1. UNCHANGED <<at, history, rows, faults, new, kept, raced>>
    BY <1>9 DEF Finished, Broken, turnVars, sessionVars
  <2> QED BY <1>2, <2>1
<1>10. CASE Restore \/ Leave \/ UNCHANGED vars
  <2>1. UNCHANGED <<at, history, rows, faults, new, kept, raced>>
    BY <1>10 DEF Restore, Leave, vars, uiVars, turnVars, sessionVars
  <2> QED BY <1>2, <2>1
<1>11. ASSUME NEW cmd \in {"escape", "resume"}, Interrupt(cmd) PROVE Latest'
  <2>1. UNCHANGED <<at, history, rows, faults, new, kept>> /\ raced'
    BY <1>11 DEF Interrupt, turnVars, sessionVars
  <2> QED BY <1>2, <2>1
<1> QED BY <1>1, <1>4, <1>5, <1>6, <1>7, <1>8, <1>9, <1>10, <1>11 DEF Next, User, Work, Thread

LEMMA InitLatest == Init => Latest
<1> SUFFICES ASSUME Init PROVE Latest
  OBVIOUS
<1>1. history = <<>> /\ rows = <<>> /\ \A t \in Turns : at[t] = "none"
  BY DEF Init, InitTurns
<1>2. Suffix(Joined(rows), Selected(history, Recorded))
  <2>1. Joined(rows) = <<>> /\ Selected(history, Recorded) = <<>> /\ <<>> \in Seq(Messages)
    BY <1>1, JoinedEmpty, SelectedEmpty
  <2> QED BY <2>1, SuffixEmpty
<1> QED BY <1>1, <1>2 DEF Latest, Storing

\* What the agent is given is well formed, and the newest that is recorded: as long as no turns raced and
\* neither an error nor a restart came between, the recorded turns of the history are the latest rows, in
\* their order (history.extend, _bounded_pydantic_messages and append_session_messages).
THEOREM HistoryStaysSound == Spec => []HistoryIsSound
<1>1. Init => TypesOK /\ Order /\ Durable /\ Latest
  BY InitTypes, InitOrder, InitDurable, InitLatest
<1>2. (TypesOK /\ Order /\ Durable /\ Latest) /\ [Next]_vars => (TypesOK /\ Order /\ Durable /\ Latest)'
  BY TypesKept, OrderKept, DurableKept, LatestKept
<1>3. TypesOK /\ Latest => HistoryIsSound
  BY TypeParts DEF TypesOK, Latest, HistoryIsSound, HistoryIsLatest, Suffix
<1> QED BY <1>1, <1>2, <1>3, PTL DEF Spec

-----------------------------------------------------------------------------
(* Keys and modes.                                                                             *)
KeyTypes ==
    /\ enabled \in BOOLEAN /\ counting \in BOOLEAN /\ initial \in {"insert", "normal"}
    /\ pane \in {"input", "chat"} /\ mode \in {"insert", "normal", "visual"}
    /\ awaited \in {"", "d", "c", "g"}

\* ModesFitPanes, in two parts.
ModesFit ==
    /\ pane = "chat" => enabled /\ mode # "insert" /\ (mode = "visual" => selection # <<>>)
    /\ ~enabled => pane = "input" /\ mode = "insert"
SelectionFits ==
    /\ messages \in Nat
    /\ selection # <<>> => selection \in (1..messages) \X (1..messages)

\* PrefixesStay, in two parts.
PrefixBegun == awaited # "" \/ counting => begun = <<pane, mode>> /\ mode = "normal"
PrefixFits == awaited # "" => awaited \in (IF pane = "input" THEN {"d", "c"} ELSE {"g"})

KeyInv == KeyTypes /\ ModesFit /\ SelectionFits /\ PrefixBegun /\ PrefixFits

LEMMA KeyInvFits == KeyInv => Vim!ModesFitPanes /\ Vim!PrefixesStay
<1> SUFFICES ASSUME KeyInv PROVE Vim!ModesFitPanes /\ Vim!PrefixesStay
  OBVIOUS
<1>1. Vim!ModesFitPanes
  BY DEF KeyInv, ModesFit, SelectionFits, Vim!ModesFitPanes
<1>2. awaited # "" \/ counting => begun = <<pane, mode>> /\ mode = "normal"
  BY DEF KeyInv, PrefixBegun
<1>3. awaited \in (IF pane = "input" THEN {"", "d", "c"} ELSE {"", "g"})
  BY DEF KeyInv, KeyTypes, PrefixFits
<1> QED BY <1>1, <1>2, <1>3 DEF Vim!PrefixesStay

LEMMA InitKeyInv == Vim!Init => KeyInv
<1> SUFFICES ASSUME Vim!Init PROVE KeyInv
  OBVIOUS
<1>1. KeyTypes /\ ModesFit
  BY DEF Vim!Init, KeyTypes, ModesFit
<1>2. messages = 0 /\ selection = <<>>
  BY DEF Vim!Init
<1>3. SelectionFits
  BY <1>2 DEF SelectionFits
<1>4. PrefixBegun /\ PrefixFits
  BY DEF Vim!Init, PrefixBegun, PrefixFits
<1> QED BY <1>1, <1>3, <1>4 DEF KeyInv

\* The keys of the input pane.
LEMMA InputStep == ASSUME KeyInv, NEW k \in Vim!Keys, Vim!InputKey(k) PROVE KeyInv'
<1> USE DEF KeyInv, KeyTypes, ModesFit, SelectionFits, PrefixBegun, PrefixFits, Vim!InputKey, Vim!Is, Vim!Reset, Vim!To, Vim!Swallow, Vim!screen
<1>1. CASE mode = "insert"
  <2>1. KeyTypes'
    BY <1>1 DEF Vim!InsertKey
  <2>2. ModesFit'
    BY <1>1 DEF Vim!InsertKey
  <2>3. SelectionFits'
    BY <1>1 DEF Vim!InsertKey
  <2>4. PrefixBegun'
    BY <1>1 DEF Vim!InsertKey
  <2>5. PrefixFits'
    BY <1>1 DEF Vim!InsertKey
  <2> QED BY <2>1, <2>2, <2>3, <2>4, <2>5
<1>2. CASE mode = "visual"
  <2>1. KeyTypes'
    BY <1>2 DEF Vim!InputVisualKey
  <2>2. ModesFit'
    BY <1>2 DEF Vim!InputVisualKey
  <2>3. SelectionFits'
    BY <1>2 DEF Vim!InputVisualKey
  <2>4. PrefixBegun'
    BY <1>2 DEF Vim!InputVisualKey
  <2>5. PrefixFits'
    BY <1>2 DEF Vim!InputVisualKey
  <2> QED BY <2>1, <2>2, <2>3, <2>4, <2>5
<1>3. CASE mode = "normal" /\ Vim!Prefix(k)
  <2>1. KeyTypes'
    BY <1>3 DEF Vim!Prefix, Vim!Count
  <2>2. ModesFit'
    BY <1>3 DEF Vim!Prefix, Vim!Count
  <2>3. SelectionFits'
    BY <1>3 DEF Vim!Prefix, Vim!Count
  <2>4. PrefixBegun'
    BY <1>3 DEF Vim!Prefix, Vim!Count
  <2>5. PrefixFits'
    BY <1>3 DEF Vim!Prefix, Vim!Count
  <2> QED BY <2>1, <2>2, <2>3, <2>4, <2>5
<1>4. CASE mode = "normal" /\ Vim!Operate(k)
  <2>1. KeyTypes'
    BY <1>4 DEF Vim!Operate
  <2>2. ModesFit'
    BY <1>4 DEF Vim!Operate
  <2>3. SelectionFits'
    BY <1>4 DEF Vim!Operate
  <2>4. PrefixBegun'
    BY <1>4 DEF Vim!Operate
  <2>5. PrefixFits'
    BY <1>4 DEF Vim!Operate
  <2> QED BY <2>1, <2>2, <2>3, <2>4, <2>5
<1>5. CASE mode = "normal" /\ awaited \notin {"d", "c"} /\ Vim!InputCommand(k)
  <2>1. KeyTypes'
    BY <1>5 DEF Vim!InputCommand, Vim!Await, Vim!Consume, Vim!Motion
  <2>2. ModesFit'
    BY <1>5 DEF Vim!InputCommand, Vim!Await, Vim!Consume, Vim!Motion
  <2>3. SelectionFits'
    BY <1>5 DEF Vim!InputCommand, Vim!Await, Vim!Consume, Vim!Motion
  <2>4. PrefixBegun'
    BY <1>5 DEF Vim!InputCommand, Vim!Await, Vim!Consume, Vim!Motion
  <2>5. PrefixFits'
    BY <1>5 DEF Vim!InputCommand, Vim!Await, Vim!Consume, Vim!Motion
  <2> QED BY <2>1, <2>2, <2>3, <2>4, <2>5
<1> QED BY <1>1, <1>2, <1>3, <1>4, <1>5 DEF Vim!InputNormalKey

LEMMA LastIsOne == ASSUME messages \in Nat, messages > 0 PROVE messages \in 1..messages
  OBVIOUS

\* An extended selection is still a pair of messages.
LEMMA Stretched ==
  ASSUME selection # <<>>, selection \in (1..messages) \X (1..messages), Vim!Extend \/ UNCHANGED selection
  PROVE  selection' # <<>> /\ selection' \in (1..messages) \X (1..messages)
<1>1. CASE Vim!Extend
  <2>1. PICK head \in 1..messages : selection' = <<selection[1], head>>
    BY <1>1 DEF Vim!Extend
  <2>2. selection[1] \in 1..messages
    OBVIOUS
  <2>3. <<selection[1], head>> # <<>>
    OBVIOUS
  <2> QED BY <2>1, <2>2, <2>3
<1>2. CASE UNCHANGED selection
  BY <1>2
<1> QED BY <1>1, <1>2

\* The keys of the chat pane.
LEMMA ChatStep == ASSUME KeyInv, NEW k \in Vim!Keys, Vim!ChatKey(k) PROVE KeyInv'
<1> USE DEF KeyInv, KeyTypes, ModesFit, SelectionFits, PrefixBegun, PrefixFits, Vim!ChatKey, Vim!Is, Vim!Reset, Vim!To, Vim!Swallow
<1>1. CASE mode = "visual" /\ Vim!ExitVisual
  <2>1. KeyTypes'
    BY <1>1 DEF Vim!ExitVisual
  <2>2. ModesFit'
    BY <1>1 DEF Vim!ExitVisual
  <2>3. SelectionFits'
    BY <1>1 DEF Vim!ExitVisual
  <2>4. PrefixBegun'
    BY <1>1 DEF Vim!ExitVisual
  <2>5. PrefixFits'
    BY <1>1 DEF Vim!ExitVisual
  <2> QED BY <2>1, <2>2, <2>3, <2>4, <2>5
<1>2. CASE mode = "visual" /\ selection # <<>> /\ Vim!Swallow /\ (Vim!Extend \/ UNCHANGED selection)
  <2>1. KeyTypes'
    BY <1>2 DEF Vim!Extend
  <2>2. ModesFit'
    <3>1. selection' # <<>>
      BY <1>2, Stretched
    <3> QED BY <1>2, <3>1
  <2>3. SelectionFits'
    <3>1. selection' \in (1..messages) \X (1..messages)
      BY <1>2, Stretched
    <3> QED BY <3>1
  <2>4. PrefixBegun'
    BY <1>2 DEF Vim!Extend
  <2>5. PrefixFits'
    BY <1>2 DEF Vim!Extend
  <2> QED BY <2>1, <2>2, <2>3, <2>4, <2>5
<1>3. CASE mode = "normal" /\ Vim!Still(Vim!Prefix(k))
  <2>1. KeyTypes'
    BY <1>3 DEF Vim!Still, Vim!Prefix, Vim!Count
  <2>2. ModesFit'
    BY <1>3 DEF Vim!Still, Vim!Prefix, Vim!Count
  <2>3. SelectionFits'
    BY <1>3 DEF Vim!Still, Vim!Prefix, Vim!Count
  <2>4. PrefixBegun'
    BY <1>3 DEF Vim!Still, Vim!Prefix, Vim!Count
  <2>5. PrefixFits'
    BY <1>3 DEF Vim!Still, Vim!Prefix, Vim!Count
  <2> QED BY <2>1, <2>2, <2>3, <2>4, <2>5
<1>4. CASE mode = "normal" /\ Vim!Still(Vim!Discard)
  <2>1. KeyTypes'
    BY <1>4 DEF Vim!Still, Vim!Discard
  <2>2. ModesFit'
    BY <1>4 DEF Vim!Still, Vim!Discard
  <2>3. SelectionFits'
    BY <1>4 DEF Vim!Still, Vim!Discard
  <2>4. PrefixBegun'
    BY <1>4 DEF Vim!Still, Vim!Discard
  <2>5. PrefixFits'
    BY <1>4 DEF Vim!Still, Vim!Discard
  <2> QED BY <2>1, <2>2, <2>3, <2>4, <2>5
<1>5. CASE mode = "normal" /\ awaited # "g" /\ messages > 0 /\ Vim!To("visual") /\ selection' = <<messages, messages>>
  <2>1. KeyTypes'
    BY <1>5
  <2>2. ModesFit'
    BY <1>5
  <2>3. SelectionFits'
    <3>1. messages \in Nat /\ messages > 0 /\ messages' = messages
      BY <1>5
    <3>2. messages \in 1..messages
      BY <3>1, LastIsOne
    <3> QED BY <1>5, <3>1, <3>2
  <2>4. PrefixBegun'
    BY <1>5
  <2>5. PrefixFits'
    BY <1>5
  <2> QED BY <2>1, <2>2, <2>3, <2>4, <2>5
<1>6. CASE mode = "normal" /\ awaited # "g" /\ Vim!FocusInput /\ UNCHANGED selection
  <2>1. KeyTypes'
    BY <1>6 DEF Vim!FocusInput
  <2>2. ModesFit'
    BY <1>6 DEF Vim!FocusInput
  <2>3. SelectionFits'
    BY <1>6 DEF Vim!FocusInput
  <2>4. PrefixBegun'
    BY <1>6 DEF Vim!FocusInput
  <2>5. PrefixFits'
    BY <1>6 DEF Vim!FocusInput
  <2> QED BY <2>1, <2>2, <2>3, <2>4, <2>5
<1>7. CASE mode = "normal" /\ awaited # "g" /\ (Vim!Still(Vim!Await("g")) \/ Vim!Still(Vim!To(mode)) \/ Vim!Still(Vim!Consume) \/ Vim!Still(Vim!Swallow))
  <2>1. KeyTypes'
    BY <1>7 DEF Vim!Still, Vim!Await, Vim!Consume
  <2>2. ModesFit'
    BY <1>7 DEF Vim!Still, Vim!Await, Vim!Consume
  <2>3. SelectionFits'
    BY <1>7 DEF Vim!Still, Vim!Await, Vim!Consume
  <2>4. PrefixBegun'
    BY <1>7 DEF Vim!Still, Vim!Await, Vim!Consume
  <2>5. PrefixFits'
    BY <1>7 DEF Vim!Still, Vim!Await, Vim!Consume
  <2> QED BY <2>1, <2>2, <2>3, <2>4, <2>5
<1>8. mode # "insert" /\ pane = "chat"
  OBVIOUS
<1>9. CASE mode = "visual"
  BY <1>1, <1>2, <1>9 DEF Vim!ChatVisualKey
<1>10. CASE mode = "normal"
  BY <1>3, <1>4, <1>5, <1>6, <1>7, <1>10 DEF Vim!ChatNormalKey, Vim!ChatCommand
<1> QED BY <1>8, <1>9, <1>10

\* What the application does beside the keys of the panes.
LEMMA AppStep ==
  ASSUME KeyInv, Vim!ToggleVim \/ Vim!CyclePane \/ Vim!Message \/ Vim!Menu \/ Vim!ToggleHelp \/ Vim!Escape
  PROVE  KeyInv'
<1> USE DEF KeyInv, KeyTypes, ModesFit, SelectionFits, PrefixBegun, PrefixFits, Vim!Is, Vim!Reset, Vim!state
<1>1. CASE Vim!ToggleVim
  <2>1. KeyTypes'
    BY <1>1 DEF Vim!ToggleVim
  <2>2. ModesFit'
    BY <1>1 DEF Vim!ToggleVim
  <2>3. SelectionFits'
    BY <1>1 DEF Vim!ToggleVim
  <2>4. PrefixBegun'
    BY <1>1 DEF Vim!ToggleVim
  <2>5. PrefixFits'
    BY <1>1 DEF Vim!ToggleVim
  <2> QED BY <2>1, <2>2, <2>3, <2>4, <2>5
<1>2. CASE Vim!CyclePane
  <2>1. KeyTypes'
    BY <1>2 DEF Vim!CyclePane
  <2>2. ModesFit'
    BY <1>2 DEF Vim!CyclePane
  <2>3. SelectionFits'
    BY <1>2 DEF Vim!CyclePane
  <2>4. PrefixBegun'
    BY <1>2 DEF Vim!CyclePane
  <2>5. PrefixFits'
    BY <1>2 DEF Vim!CyclePane
  <2> QED BY <2>1, <2>2, <2>3, <2>4, <2>5
<1>3. CASE Vim!Message
  <2>1. KeyTypes'
    BY <1>3 DEF Vim!Message
  <2>2. ModesFit'
    BY <1>3 DEF Vim!Message
  <2>3. SelectionFits'
    <3>1. messages \in Nat /\ messages' = messages + 1 /\ UNCHANGED selection
      BY <1>3 DEF Vim!Message
    <3>2. selection # <<>> => selection \in (1..messages) \X (1..messages)
      OBVIOUS
    <3> HIDE DEF KeyInv, KeyTypes, ModesFit, PrefixBegun, PrefixFits
    <3> QED BY <3>1, <3>2
  <2>4. PrefixBegun'
    BY <1>3 DEF Vim!Message
  <2>5. PrefixFits'
    BY <1>3 DEF Vim!Message
  <2> QED BY <2>1, <2>2, <2>3, <2>4, <2>5
<1>4. CASE Vim!Menu \/ Vim!ToggleHelp \/ Vim!Escape
  <2>1. KeyTypes'
    BY <1>4 DEF Vim!Menu, Vim!ToggleHelp, Vim!Escape
  <2>2. ModesFit'
    BY <1>4 DEF Vim!Menu, Vim!ToggleHelp, Vim!Escape
  <2>3. SelectionFits'
    BY <1>4 DEF Vim!Menu, Vim!ToggleHelp, Vim!Escape
  <2>4. PrefixBegun'
    BY <1>4 DEF Vim!Menu, Vim!ToggleHelp, Vim!Escape
  <2>5. PrefixFits'
    BY <1>4 DEF Vim!Menu, Vim!ToggleHelp, Vim!Escape
  <2> QED BY <2>1, <2>2, <2>3, <2>4, <2>5
<1> QED BY <1>1, <1>2, <1>3, <1>4

\* The types, the modes and the prefixes are kept by every step, whatever is pressed where.
THEOREM KeyInductive == KeyInv /\ [Vim!Next]_(Vim!vars) => KeyInv'
<1> SUFFICES ASSUME KeyInv, [Vim!Next]_(Vim!vars) PROVE KeyInv'
  OBVIOUS
<1>1. CASE \E k \in Vim!Keys : Vim!Key(k)
  BY <1>1, InputStep, ChatStep DEF Vim!Key
<1>2. CASE Vim!ToggleVim \/ Vim!CyclePane \/ Vim!Message \/ Vim!Menu \/ Vim!ToggleHelp \/ Vim!Escape
  BY <1>2, AppStep
<1>3. CASE UNCHANGED <<initial, Vim!state, selection, messages>>
  <2>1. KeyTypes'
    BY <1>3 DEF KeyInv, Vim!state, KeyTypes, ModesFit, SelectionFits, PrefixBegun, PrefixFits
  <2>2. ModesFit'
    BY <1>3 DEF KeyInv, Vim!state, KeyTypes, ModesFit, SelectionFits, PrefixBegun, PrefixFits
  <2>3. SelectionFits'
    BY <1>3 DEF KeyInv, Vim!state, KeyTypes, ModesFit, SelectionFits, PrefixBegun, PrefixFits
  <2>4. PrefixBegun'
    BY <1>3 DEF KeyInv, Vim!state, KeyTypes, ModesFit, SelectionFits, PrefixBegun, PrefixFits
  <2>5. PrefixFits'
    BY <1>3 DEF KeyInv, Vim!state, KeyTypes, ModesFit, SelectionFits, PrefixBegun, PrefixFits
  <2> QED BY <2>1, <2>2, <2>3, <2>4, <2>5 DEF KeyInv
<1>4. CASE \E widget \in {"input", "chat"} : Vim!Click(widget)
  BY <1>3, <1>4 DEF Vim!Click
<1>5. CASE UNCHANGED Vim!vars
  BY <1>3, <1>5 DEF Vim!vars, Vim!screen
<1> QED BY <1>1, <1>2, <1>4, <1>5 DEF Vim!Next

\* The keys of the terminal application are modal: no illegal mode, and no operator or count that
\* reaches another pane, for a chat of any length.
THEOREM KeysStayModal == Vim!Spec => [](Vim!ModesFitPanes /\ Vim!PrefixesStay) /\ []KeysAreModal
<1>1. Vim!ModesFitPanes /\ Vim!PrefixesStay => KeysAreModal
  BY DEF KeysAreModal
<1> QED BY <1>1, KeyInvFits, InitKeyInv, KeyInductive, PTL DEF Vim!Spec

-----------------------------------------------------------------------------
(* The text of the editor. *)

\* What the editor holds; that a place in the history is in it, and a draft the one it was left with.
EditorTypes == past \in Seq(Texts \cup {Tui!Empty}) /\ {text, draft} \subseteq Texts \cup {Tui!Empty} /\ index \in Int /\ index >= -1
EditorInv == EditorTypes /\ Tui!DraftIsKept /\ Tui!MenusAreTold /\ Tui!ModelIsServed

LEMMA EditorInit == Tui!Init => EditorInv
BY DEF Tui!Init, EditorInv, EditorTypes, Tui!DraftIsKept, Tui!MenusAreTold, Tui!ModelIsServed

\* What a submitted text leaves.
LEMMA RememberKeeps ==
  ASSUME Tui!HistoryAssumption, EditorInv, Tui!Remember
  PROVE  EditorTypes' /\ Tui!DraftIsKept' /\ (UNCHANGED <<choosing, picking>> => Tui!MenusAreTold')
<1>1. /\ past \in Seq(Texts \cup {Tui!Empty}) /\ text \in Texts \cup {Tui!Empty}
      /\ past' = SubSeq(<<text>> \o past, 1, IF Len(past) < HistoryMax THEN Len(past) + 1 ELSE HistoryMax)
      /\ index' = -1 /\ draft' = Tui!Empty /\ before' = Tui!Empty /\ text' = Tui!Empty /\ menu' = "none"
  BY DEF EditorInv, EditorTypes, Tui!Remember, Tui!LeaveHistory
<1>2. <<text>> \o past \in Seq(Texts \cup {Tui!Empty}) /\ Len(<<text>> \o past) = Len(past) + 1 /\ Len(past) \in Nat
  BY <1>1
<1>3. past' \in Seq(Texts \cup {Tui!Empty}) /\ Len(past') \in Nat
  <2> DEFINE until == IF Len(past) < HistoryMax THEN Len(past) + 1 ELSE HistoryMax
             joined == <<text>> \o past
  <2>1. until \in 0..Len(joined) /\ joined \in Seq(Texts \cup {Tui!Empty})
    BY <1>2 DEF Tui!HistoryAssumption
  <2>2. past' = SubSeq(joined, 1, until)
    BY <1>1
  <2> HIDE DEF until, joined
  <2> QED BY <2>1, <2>2
<1> QED BY <1>1, <1>3 DEF EditorTypes, Tui!DraftIsKept, Tui!MenusAreTold

LEMMA ServeKeeps == ASSUME EditorInv, Tui!Serve PROVE Tui!ModelIsServed'
BY DEF EditorInv, Tui!Serve, Tui!ModelIsServed, Tui!Configured

\* A step that leaves the history alone.
LEMMA HistoryKept ==
  ASSUME EditorInv, Tui!KeepHistory, text' \in Texts \cup {Tui!Empty} PROVE EditorTypes' /\ Tui!DraftIsKept'
BY DEF EditorInv, EditorTypes, Tui!KeepHistory, Tui!DraftIsKept

LEMMA ModelKept == ASSUME EditorInv, UNCHANGED <<served, header>>, up, Tui!ModelIsServed PROVE Tui!ModelIsServed'
BY DEF Tui!ModelIsServed, Tui!Configured

LEMMA EditorStep == ASSUME Tui!HistoryAssumption, EditorInv, Tui!Next PROVE EditorInv'
<1> USE DEF Tui!models, Tui!menus, Tui!editor
<1>0. up /\ Tui!ModelIsServed /\ Tui!MenusAreTold /\ text \in Texts \cup {Tui!Empty}
  BY DEF Tui!Next, EditorInv, EditorTypes
<1>1. CASE Tui!Key
  BY <1>0, <1>1, ModelKept DEF Tui!Key, Tui!LeaveHistory, Tui!Refresh, Tui!Completions, EditorInv, EditorTypes, Tui!DraftIsKept, Tui!MenusAreTold
<1>2. CASE Tui!Insert
  BY <1>0, <1>2, ModelKept, HistoryKept DEF Tui!Insert, EditorInv, Tui!MenusAreTold
<1>3. CASE Tui!Up
  <2>1. EditorTypes' /\ Tui!DraftIsKept'
    BY <1>3 DEF Tui!Up, EditorInv, EditorTypes, Tui!DraftIsKept
  <2> QED BY <1>0, <1>3, <2>1, ModelKept DEF Tui!Up, EditorInv, Tui!MenusAreTold
<1>4. CASE Tui!Down
  <2>1. draft \in Texts \cup {Tui!Empty}
    BY DEF EditorInv, EditorTypes
  <2>2. EditorTypes' /\ Tui!DraftIsKept'
    BY <1>4, <2>1 DEF Tui!Down, Tui!LeaveHistory, EditorInv, EditorTypes, Tui!DraftIsKept
  <2> QED BY <1>0, <1>4, <2>2, ModelKept DEF Tui!Down, EditorInv, Tui!MenusAreTold
<1>5. CASE Tui!Submit
  BY <1>0, <1>5, ModelKept, RememberKeeps, ServeKeeps DEF Tui!Submit, EditorInv
<1>6. CASE Tui!Restore
  BY <1>0, <1>6, ModelKept, HistoryKept DEF Tui!Restore, Tui!Refresh, Tui!Completions, EditorInv, Tui!MenusAreTold
<1>7. CASE Tui!Dequeue
  BY <1>0, <1>7, ServeKeeps, HistoryKept DEF Tui!Dequeue, EditorInv, Tui!MenusAreTold
<1>8. CASE Tui!TurnEnds
  BY <1>0, <1>8, ModelKept, HistoryKept DEF Tui!TurnEnds, Tui!KeepHistory, EditorInv, Tui!MenusAreTold
<1>9. CASE Tui!Complete
  BY <1>0, <1>9, ModelKept, HistoryKept DEF Tui!Complete, Tui!Completions, Tui!KeepHistory, EditorInv, Tui!MenusAreTold
<1>10. CASE Tui!Accept
  BY <1>0, <1>10, ModelKept, HistoryKept DEF Tui!Accept, EditorInv, Tui!MenusAreTold
<1>11. CASE Tui!Selector
  BY <1>0, <1>11, ModelKept, HistoryKept DEF Tui!Selector, EditorInv, Tui!MenusAreTold
<1>12. CASE Tui!Picker
  BY <1>0, <1>12, ModelKept, HistoryKept DEF Tui!Picker, Tui!Refresh, Tui!Completions, EditorInv, Tui!MenusAreTold, Tui!ModelIsServed, Tui!Configured
<1>13. CASE Tui!Select
  <2>1. menu' = "none" /\ Tui!KeepHistory /\ text' \in Texts \cup {Tui!Empty}
        /\ UNCHANGED <<served, header>>
    BY <1>0, <1>13 DEF Tui!Select, Tui!LoadSession
  <2> QED BY <1>0, <2>1, HistoryKept, ModelKept DEF EditorInv, Tui!MenusAreTold
<1>14. CASE Tui!Dismiss
  BY <1>0, <1>14, ModelKept, HistoryKept DEF Tui!Dismiss, Tui!KeepHistory, EditorInv, Tui!MenusAreTold
<1>15. CASE \E step \in {-1, 1} : Tui!CycleModel(step)
  BY <1>0, <1>15, ModelKept, HistoryKept DEF Tui!CycleModel, Tui!KeepHistory, EditorInv, Tui!MenusAreTold
<1> QED BY <1>1, <1>2, <1>3, <1>4, <1>5, <1>6, <1>7, <1>8, <1>9, <1>10, <1>11, <1>12, <1>13, <1>14, <1>15 DEF Tui!Next

\* Whatever keys, bindings, clicks and turns come between, for any texts, models and lengths of the
\* history and of the queue: a place in the history is in it and comes with the draft that was left,
\* what a click takes for a model or a session is one, and the model in the header serves the turn
\* (VimTextArea's history, _on_key, on_option_list_option_selected, _chat_worker of tui.py).
THEOREM InputStaysKept ==
  ASSUME Tui!HistoryAssumption
  PROVE  Tui!Spec => [](Tui!DraftIsKept /\ Tui!MenusAreTold /\ Tui!ModelIsServed) /\ []InputIsKept
<1>1. EditorInv /\ UNCHANGED Tui!vars => EditorInv'
  BY DEF Tui!vars, Tui!editor, Tui!menus, Tui!models, EditorInv, EditorTypes, Tui!DraftIsKept, Tui!MenusAreTold,
         Tui!ModelIsServed, Tui!Configured
<1>2. EditorInv => (Tui!DraftIsKept /\ Tui!MenusAreTold /\ Tui!ModelIsServed) /\ InputIsKept
  BY DEF EditorInv, InputIsKept
<1> QED BY <1>1, <1>2, EditorInit, EditorStep, PTL DEF Tui!Spec

-----------------------------------------------------------------------------
(* Skills that are viewed while they are compiled. *)

\* The file a thread is at, by what it has to do.
Least(S) == CHOOSE f \in S : \A g \in S : f <= g
Compiles == {"parse", "extract", "store", "reject"}
Versions == [text : Nat, sound : BOOLEAN]
Bundles == [of : Nat, status : {"none", "full", "rejected"}]
Stamps == Nat \X (Files \cup {0})
Lookups == [at : {"none", "load", "fill", "serve"}, file : Files \cup {0}, key : Stamps, found : Bundles]
Points == Compiles \cup {"none", "mark", "spawned", "stat", "raised", "write", "report", "announce", "over"}
Compilations == [at : Points, todo : SUBSET Files, key : Stamps, text : Versions, out : Bundles]

\* A thread between the reading and the writing of a cache entry has a file, and that file's key, and
\* the bundle it is about to store is that of the text it has read.
Fits(r) ==
    /\ r.at \in Compiles => r.todo # {} /\ r.key[2] = Least(r.todo)
    /\ r.at = "store" => r.out.of = r.text.text

\* At a file that its process has settled, it has the file's key and text as they are.
Knows(r, f) == r.key = Views!Key(f) /\ (r.at # "parse" => r.text = disk[f])

ViewTypes ==
    /\ disk \in [Files -> Versions] /\ json \in [Files -> Bundles] /\ edits \in Nat
    /\ cache = [p \in Views!Procs |-> cache[p]] /\ \A p \in Views!Procs : \A k \in DOMAIN cache[p] : cache[p][k] \in Bundles
    /\ settled \in [Views!Procs -> [Files -> BOOLEAN]]
    /\ thread \in [ViewThreads -> Compilations]
    /\ view \in [Views!Procs -> Lookups]
ViewFits(p) == view[p].at \in {"load", "fill"} => view[p].file \in Files /\ view[p].key[2] = view[p].file
Settled(p, f) ==
    settled[p][f] =>
        /\ Views!Key(f) \in DOMAIN cache[p] /\ cache[p][Views!Key(f)].of = disk[f].text
        /\ \A t \in ViewThreads : t.proc = p /\ thread[t].at \in Compiles /\ Least(thread[t].todo) = f => Knows(thread[t], f)
        /\ ~(view[p].at \in {"load", "fill"} /\ view[p].file = f)
ViewInv ==
    /\ ViewTypes
    /\ \A t \in ViewThreads : Fits(thread[t])
    /\ \A p \in Views!Procs : ViewFits(p) /\ \A f \in Files : Settled(p, f)

LEMMA LeastIsIn == ASSUME Views!BundlesAssumption, NEW S \in SUBSET Files, S # {} PROVE Least(S) \in S
<1>1. S \subseteq Nat
  BY DEF Views!BundlesAssumption
<1>2. PICK f \in S : \A g \in S : f <= g
  BY <1>1, LeastMember
<1> QED BY <1>2 DEF Least

LEMMA CurrentIsLeast == \A t : Views!Current(t) = Least(thread[t].todo)
BY DEF Views!Current, Least

LEMMA ProcOfThread == \A t \in ViewThreads : t.proc \in Views!Procs
BY DEF Views!Procs

LEMMA NoBundleIsTyped == Views!NoBundle \in Bundles
BY DEF Views!NoBundle, Bundles

LEMMA IdleIsTyped == Views!IdleThread \in Compilations /\ Views!IdleThread.at = "none"
<1>1. <<0, 0>> \in Stamps /\ [text |-> 0, sound |-> FALSE] \in Versions
  BY DEF Stamps, Versions
<1> QED BY <1>1, NoBundleIsTyped DEF Views!IdleThread, Compilations, Points

LEMMA IdleViewIsTyped == Views!IdleView \in Lookups /\ Views!IdleView.at = "none"
<1>1. <<0, 0>> \in Stamps
  BY DEF Stamps
<1> QED BY <1>1, NoBundleIsTyped DEF Views!IdleView, Lookups

LEMMA ViewInit == Views!Init => ViewInv
<1> SUFFICES ASSUME Views!Init PROVE ViewInv
  OBVIOUS
<1>1. /\ disk = [f \in Files |-> [text |-> 1, sound |-> TRUE]] /\ json = [f \in Files |-> Views!NoBundle] /\ edits = 0
      /\ cache = [p \in Views!Procs |-> <<>>] /\ settled = [p \in Views!Procs |-> [f \in Files |-> FALSE]]
      /\ thread = [t \in ViewThreads |-> Views!IdleThread] /\ view = [p \in Views!Procs |-> Views!IdleView]
  BY DEF Views!Init
<1>2. /\ Views!NoBundle \in Bundles /\ Views!IdleThread \in Compilations /\ Views!IdleThread.at = "none"
      /\ Views!IdleView \in Lookups /\ Views!IdleView.at = "none"
  BY NoBundleIsTyped, IdleIsTyped, IdleViewIsTyped
<1>3. ViewTypes
  <2>1. cache = [p \in Views!Procs |-> cache[p]] /\ \A p \in Views!Procs : DOMAIN cache[p] = {}
    BY <1>1
  <2> QED BY <1>1, <1>2, <2>1 DEF ViewTypes, Versions
<1> QED BY <1>1, <1>2, <1>3 DEF ViewInv, Fits, ViewFits, Settled, Compiles

LEMMA ViewFacts ==
  ASSUME ViewInv, NEW t \in ViewThreads
  PROVE  thread[t] \in Compilations /\ Fits(thread[t]) /\ t.proc \in Views!Procs
BY ProcOfThread DEF ViewInv, ViewTypes

\* A step of a thread that leaves files, caches and views alone.
LEMMA CompilationMoves ==
  ASSUME ViewInv, NEW t \in ViewThreads, NEW r \in Compilations, thread' = [thread EXCEPT ![t] = r], Fits(r),
         UNCHANGED <<disk, cache, view, settled, edits>>, json' \in [Files -> Bundles],
         \A f \in Files : settled[t.proc][f] /\ r.at \in Compiles /\ Least(r.todo) = f => Knows(r, f)
  PROVE  ViewInv'
<1>1. ViewTypes'
  BY DEF ViewInv, ViewTypes
<1>2. thread'[t] = r /\ \A u \in ViewThreads : u # t => thread'[u] = thread[u]
  BY DEF ViewInv, ViewTypes
<1>3. \A u \in ViewThreads : Fits(thread[u])'
  BY <1>2 DEF ViewInv, Fits
<1>4. \A p \in Views!Procs : ViewFits(p)'
  BY DEF ViewInv, ViewFits
<1>5. ASSUME NEW p \in Views!Procs, NEW f \in Files, settled[p][f] PROVE Settled(p, f)'
  <2>1. Settled(p, f)
    BY DEF ViewInv
  <2>2. Views!Key(f)' = Views!Key(f)
    BY DEF Views!Key
  <2>3. ASSUME NEW u \in ViewThreads, u.proc = p, thread'[u].at \in Compiles, Least(thread'[u].todo) = f
        PROVE  thread'[u].key = Views!Key(f) /\ (thread'[u].at # "parse" => thread'[u].text = disk[f])
    <3>1. CASE u = t
      BY <1>2, <1>5, <2>3, <3>1 DEF Knows
    <3>2. CASE u # t
      BY <1>2, <1>5, <2>1, <2>3, <3>2 DEF Settled, Knows
    <3> QED BY <3>1, <3>2
  <2> QED BY <1>5, <2>1, <2>2, <2>3 DEF Settled, Knows
<1>6. \A p \in Views!Procs, f \in Files : Settled(p, f)'
  BY <1>5 DEF Settled
<1> QED BY <1>1, <1>3, <1>4, <1>6 DEF ViewInv

LEMMA KeyIsStamp == ASSUME ViewInv, NEW f \in Files PROVE Views!Key(f) \in Stamps /\ Views!Key(f)[2] = f
BY DEF ViewInv, ViewTypes, Versions, Stamps, Views!Key

\* The steps of a compilation that touch neither cache nor file: one record of a thread.
LEMMA CompilationStep ==
  ASSUME Views!BundlesAssumption, ViewInv, NEW t \in ViewThreads,
         \/ Views!Ask(t) \/ Views!Mark(t) \/ Views!Spawned(t) \/ Views!Stat(t) \/ Views!Parse(t) \/ Views!Extract(t)
         \/ Views!Write(t) \/ Views!Report(t) \/ Views!Finally(t) \/ Views!Announce(t)
  PROVE  ViewInv'
<1> DEFINE r == thread[t]
           p == t.proc
           f == Least(r.todo)
<1>1. /\ r \in Compilations /\ Fits(r) /\ p \in Views!Procs /\ thread \in [ViewThreads -> Compilations]
      /\ json \in [Files -> Bundles] /\ disk \in [Files -> Versions]
      /\ \A g \in Files : Settled(p, g)
  BY ViewFacts DEF ViewInv, ViewTypes
<1>2. Views!Current(t) = f /\ (r.todo # {} => f \in Files)
  BY <1>1, CurrentIsLeast, LeastIsIn DEF Compilations, Points, Compiles
<1>3. \A g \in Files : settled[p][g] /\ r.at \in Compiles /\ f = g => Knows(r, g)
  BY <1>1 DEF Settled
<1>4. ASSUME NEW there \in Points, Views!Goto(t, there), there \notin Compiles, UNCHANGED <<disk, cache, view, settled, edits>>,
             json' \in [Files -> Bundles]
      PROVE  ViewInv'
  <2>1. thread' = [thread EXCEPT ![t] = [r EXCEPT !.at = there]]
    BY <1>1, <1>4 DEF Views!Goto
  <2>2. [r EXCEPT !.at = there] \in Compilations /\ [r EXCEPT !.at = there].at = there
    BY <1>1 DEF Compilations, Points, Compiles
  <2>3. Fits([r EXCEPT !.at = there])
    BY <1>4, <2>2 DEF Fits, Compiles
  <2> QED BY <1>4, <2>1, <2>2, <2>3, CompilationMoves
<1>5. CASE Views!Ask(t)
  <2> DEFINE first == IF Views!Web(t) /\ t.kind = "batch" THEN "mark" ELSE "spawned"
             choice == IF t.kind = "single" THEN {{g} : g \in Views!Present} ELSE {Views!Present}
  <2>0. PICK todo \in choice : thread' = [thread EXCEPT ![t] = [Views!IdleThread EXCEPT !.todo = todo, !.at = first]]
    BY <1>5 DEF Views!Ask
  <2>1. first \in {"mark", "spawned"} /\ todo \subseteq Files
    BY DEF Views!Present
  <2> HIDE DEF first, choice
  <2> DEFINE q == [Views!IdleThread EXCEPT !.todo = todo, !.at = first]
  <2>2. q \in Compilations /\ q.at \notin Compiles
    BY <2>1, IdleIsTyped DEF Compilations, Points, Compiles
  <2>3. Fits(q)
    BY <2>2 DEF Fits, Compiles
  <2>4. UNCHANGED <<disk, cache, view, settled, edits, json>>
    BY <1>5 DEF Views!Ask, Views!inert, Views!views
  <2> QED BY <1>1, <2>0, <2>2, <2>3, <2>4, CompilationMoves
<1>6. CASE Views!Mark(t) \/ Views!Spawned(t) \/ Views!Finally(t) \/ Views!Announce(t)
  <2>1. UNCHANGED <<disk, cache, view, settled, edits, json>>
    BY <1>6 DEF Views!Mark, Views!Spawned, Views!Finally, Views!Announce, Views!inert, Views!views
  <2>2. \E there \in {"spawned", "stat", "announce", "over", "none"} : Views!Goto(t, there)
    BY <1>6 DEF Views!Mark, Views!Spawned, Views!Finally, Views!Announce
  <2> QED BY <1>1, <1>4, <2>1, <2>2 DEF Points, Compiles
<1>7. CASE Views!Stat(t)
  <2> DEFINE q == [r EXCEPT !.at = "parse", !.key = Views!Key(f)]
  <2>1. r.todo # {} /\ thread' = [thread EXCEPT ![t].at = "parse", ![t].key = Views!Key(f)]
        /\ UNCHANGED <<disk, cache, view, settled, edits, json>>
    BY <1>2, <1>7 DEF Views!Stat, Views!inert, Views!views
  <2>2. Views!Key(f) \in Stamps /\ Views!Key(f)[2] = f
    BY <1>2, <2>1, KeyIsStamp
  <2>3. q \in Compilations /\ q.at = "parse" /\ q.todo = r.todo /\ q.key = Views!Key(f)
    BY <1>1, <2>2 DEF Compilations, Points, Compiles
  <2>4. thread' = [thread EXCEPT ![t] = q]
    BY <1>1, <2>1
  <2>5. Fits(q) /\ \A g \in Files : settled[p][g] /\ q.at \in Compiles /\ Least(q.todo) = g => Knows(q, g)
    BY <2>1, <2>2, <2>3 DEF Fits, Knows
  <2> HIDE DEF q
  <2> QED BY <1>1, <2>1, <2>3, <2>4, <2>5, CompilationMoves
<1>8. CASE Views!Parse(t)
  <2>1. r.at = "parse" /\ UNCHANGED <<disk, cache, view, settled, edits, json>>
    BY <1>8 DEF Views!Parse, Views!views
  <2>2. r.todo # {} /\ f \in Files /\ r.key[2] = f /\ disk[f] \in Versions
    BY <1>1, <1>2, <2>1 DEF Fits, Compiles
  <2>3. CASE Views!Goto(t, "raised")
    BY <1>1, <1>4, <2>1, <2>3 DEF Points, Compiles
  <2>4. ASSUME NEW there \in {"extract", "reject"}, thread' = [thread EXCEPT ![t].at = there, ![t].text = disk[f]]
        PROVE  ViewInv'
    <3> DEFINE q == [r EXCEPT !.at = there, !.text = disk[f]]
    <3>1. q \in Compilations /\ q.at = there /\ q.todo = r.todo /\ q.key = r.key /\ q.text = disk[f]
      BY <1>1, <2>2 DEF Compilations, Points, Compiles
    <3>2. thread' = [thread EXCEPT ![t] = q]
      BY <1>1, <2>4
    <3>3. Fits(q) /\ \A g \in Files : settled[p][g] /\ q.at \in Compiles /\ Least(q.todo) = g => Knows(q, g)
      BY <1>3, <2>1, <2>2, <3>1 DEF Fits, Knows, Compiles
    <3> HIDE DEF q
    <3> QED BY <1>1, <2>1, <3>1, <3>2, <3>3, CompilationMoves
  <2> QED BY <1>2, <1>8, <2>3, <2>4 DEF Views!Parse
<1>9. CASE Views!Extract(t)
  <2>1. r.at = "extract" /\ UNCHANGED <<disk, cache, view, settled, edits, json>>
    BY <1>9 DEF Views!Extract, Views!views
  <2>2. CASE Views!Goto(t, "raised")
    BY <1>1, <1>4, <2>1, <2>2 DEF Points, Compiles
  <2>3. ASSUME NEW status \in {"full", "rejected"},
               thread' = [thread EXCEPT ![t].at = "store", ![t].out = [of |-> r.text.text, status |-> status]]
        PROVE  ViewInv'
    <3> DEFINE out == [of |-> r.text.text, status |-> status]
               q == [r EXCEPT !.at = "store", !.out = out]
    <3>1. out \in Bundles /\ out.of = r.text.text
      BY <1>1 DEF Compilations, Versions, Bundles
    <3>2. q \in Compilations /\ q.at = "store" /\ q.todo = r.todo /\ q.key = r.key /\ q.text = r.text /\ q.out = out
      BY <1>1, <3>1 DEF Compilations, Points, Compiles
    <3>3. thread' = [thread EXCEPT ![t] = q]
      BY <1>1, <2>3
    <3>4. Fits(q) /\ \A g \in Files : settled[p][g] /\ q.at \in Compiles /\ Least(q.todo) = g => Knows(q, g)
      BY <1>1, <1>3, <2>1, <3>1, <3>2 DEF Fits, Knows, Compiles
    <3> HIDE DEF q, out
    <3> QED BY <1>1, <2>1, <3>2, <3>3, <3>4, CompilationMoves
  <2> QED BY <1>9, <2>2, <2>3 DEF Views!Extract
<1>10. CASE Views!Write(t)
  <2>1. UNCHANGED <<disk, cache, view, settled, edits>> /\ Views!Goto(t, "report")
    BY <1>10 DEF Views!Write, Views!views
  <2>2. json' \in [Files -> Bundles]
    BY <1>1, <1>10, NoBundleIsTyped DEF Views!Write, Compilations
  <2> QED BY <1>4, <2>1, <2>2 DEF Points, Compiles
<1>11. CASE Views!Report(t)
  <2> DEFINE q == [Views!IdleThread EXCEPT !.at = "stat", !.todo = r.todo \ {Views!Current(t)}]
  <2>1. thread' = [thread EXCEPT ![t] = q] /\ UNCHANGED <<disk, cache, view, settled, edits, json>>
    BY <1>11 DEF Views!Report, Views!inert, Views!views
  <2>2. r.todo \ {Views!Current(t)} \in SUBSET Files
    BY <1>1 DEF Compilations, Points, Compiles
  <2>3. q \in Compilations /\ q.at = "stat"
    BY <2>2, IdleIsTyped DEF Compilations, Points, Compiles
  <2>4. Fits(q)
    BY <2>3 DEF Fits, Compiles
  <2> HIDE DEF q
  <2> QED BY <1>1, <2>1, <2>3, <2>4, CompilationMoves DEF Compiles
<1> QED BY <1>5, <1>6, <1>7, <1>8, <1>9, <1>10, <1>11

\* An entry that is put into a cache is in it, and every other entry is what it was.
LEMMA PutPuts ==
  ASSUME ViewTypes, NEW p \in Views!Procs, NEW k, NEW bundle \in Bundles, Views!Put(p, k, bundle)
  PROVE  /\ cache' = [q \in Views!Procs |-> cache'[q]]
         /\ \A q \in Views!Procs : \A l \in DOMAIN cache'[q] : cache'[q][l] \in Bundles
         /\ k \in DOMAIN cache'[p] /\ cache'[p][k] = bundle
         /\ \A l \in DOMAIN cache[p] : l # k => l \in DOMAIN cache'[p] /\ cache'[p][l] = cache[p][l]
         /\ \A q \in Views!Procs : q # p => cache'[q] = cache[q]
<1> DEFINE entries == [l \in DOMAIN cache[p] \cup {k} |-> IF l = k THEN bundle ELSE cache[p][l]]
<1>1. cache = [q \in Views!Procs |-> cache[q]] /\ cache' = [cache EXCEPT ![p] = entries]
  BY DEF ViewTypes, Views!Put
<1>2. cache' = [q \in Views!Procs |-> IF q = p THEN entries ELSE cache[q]]
  BY <1>1
<1>3. cache'[p] = entries /\ \A q \in Views!Procs : q # p => cache'[q] = cache[q]
  BY <1>2
<1>4. cache' = [q \in Views!Procs |-> cache'[q]]
  BY <1>2
<1>5. DOMAIN entries = DOMAIN cache[p] \cup {k} /\ \A l \in DOMAIN entries : entries[l] = IF l = k THEN bundle ELSE cache[p][l]
  OBVIOUS
<1> HIDE DEF entries
<1>6. \A q \in Views!Procs : \A l \in DOMAIN cache[q] : cache[q][l] \in Bundles
  BY DEF ViewTypes
<1>7. ASSUME NEW q \in Views!Procs, NEW l \in DOMAIN cache'[q] PROVE cache'[q][l] \in Bundles
  BY <1>3, <1>5, <1>6, <1>7
<1>8. k \in DOMAIN cache'[p] /\ cache'[p][k] = bundle
  BY <1>3, <1>5
<1>9. \A l \in DOMAIN cache[p] : l # k => l \in DOMAIN cache'[p] /\ cache'[p][l] = cache[p][l]
  BY <1>3, <1>5
<1> QED BY <1>3, <1>4, <1>7, <1>8, <1>9

\* A thread puts an entry and is through with it: the file is settled, or it is not; nothing else is.
LEMMA CompilationPuts ==
  ASSUME Views!BundlesAssumption, ViewInv, NEW t \in ViewThreads, NEW r \in Compilations, r.at \notin Compiles,
         thread' = [thread EXCEPT ![t] = r],
         NEW bundle \in Bundles, Views!Put(t.proc, thread[t].key, bundle), thread[t].at \in Compiles,
         NEW yes \in BOOLEAN, settled' = [settled EXCEPT ![t.proc][Least(thread[t].todo)] = yes],
         UNCHANGED <<disk, json, view, edits>>,
         yes => /\ thread[t].key = Views!Key(Least(thread[t].todo)) /\ bundle.of = disk[Least(thread[t].todo)].text
                /\ ~Views!Meets(t, Least(thread[t].todo))
  PROVE  ViewInv'
<1> DEFINE p == t.proc
           g == Least(thread[t].todo)
           k == thread[t].key
<1>1. /\ ViewTypes /\ p \in Views!Procs /\ thread[t] \in Compilations /\ Fits(thread[t])
      /\ \A u \in ViewThreads : Fits(thread[u])
      /\ \A q \in Views!Procs : ViewFits(q) /\ \A f \in Files : Settled(q, f)
  BY ViewFacts DEF ViewInv
<1>2. g \in Files /\ k[2] = g
  BY <1>1, LeastIsIn DEF Fits, Compilations
<1>3. /\ cache' = [q \in Views!Procs |-> cache'[q]]
      /\ \A q \in Views!Procs : \A l \in DOMAIN cache'[q] : cache'[q][l] \in Bundles
      /\ k \in DOMAIN cache'[p] /\ cache'[p][k] = bundle
      /\ \A l \in DOMAIN cache[p] : l # k => l \in DOMAIN cache'[p] /\ cache'[p][l] = cache[p][l]
      /\ \A q \in Views!Procs : q # p => cache'[q] = cache[q]
  BY <1>1, PutPuts
<1>4. thread'[t] = r /\ \A u \in ViewThreads : u # t => thread'[u] = thread[u]
  BY <1>1 DEF ViewTypes
<1>5. /\ settled' \in [Views!Procs -> [Files -> BOOLEAN]] /\ settled'[p][g] = yes
      /\ \A q \in Views!Procs, f \in Files : <<q, f>> # <<p, g>> => settled'[q][f] = settled[q][f]
  BY <1>1, <1>2 DEF ViewTypes
<1>6. ViewTypes'
  BY <1>1, <1>3, <1>5 DEF ViewTypes
<1>7. \A u \in ViewThreads : Fits(thread[u])'
  BY <1>1, <1>4 DEF Fits, Compiles
<1>8. \A q \in Views!Procs : ViewFits(q)'
  BY <1>1 DEF ViewFits
<1>9. ASSUME NEW q \in Views!Procs, NEW f \in Files, settled'[q][f] PROVE Settled(q, f)'
  <2>1. Views!Key(f)' = Views!Key(f) /\ Views!Key(f)[2] = f
    BY DEF Views!Key
  <2>2. CASE q = p /\ f = g
    <3>1. yes /\ k = Views!Key(f) /\ bundle.of = disk[f].text /\ ~Views!Meets(t, f)
      BY <1>5, <1>9, <2>2
    <3>2. \A u \in ViewThreads : u # t /\ u.proc = p /\ thread[u].at \in Compiles => Least(thread[u].todo) # f
      BY <3>1, CurrentIsLeast DEF Views!Meets, Compiles
    <3>3. ~(view[p].at \in {"load", "fill"} /\ view[p].file = f)
      BY <3>1 DEF Views!Meets
    <3>4. ASSUME NEW u \in ViewThreads, u.proc = q, thread'[u].at \in Compiles, Least(thread'[u].todo) = f PROVE FALSE
      BY <1>4, <2>2, <3>2, <3>4
    <3> QED BY <1>3, <2>1, <2>2, <3>1, <3>3, <3>4 DEF Settled
  <2>3. CASE ~(q = p /\ f = g)
    <3>1. settled[q][f] /\ Settled(q, f)
      BY <1>1, <1>5, <1>9, <2>3
    <3>2. Views!Key(f) \in DOMAIN cache'[q] /\ cache'[q][Views!Key(f)] = cache[q][Views!Key(f)]
      BY <1>2, <1>3, <2>1, <2>3, <3>1 DEF Settled
    <3>3. ASSUME NEW u \in ViewThreads, u.proc = q, thread'[u].at \in Compiles, Least(thread'[u].todo) = f
          PROVE  thread'[u].key = Views!Key(f) /\ (thread'[u].at # "parse" => thread'[u].text = disk[f])
      <4>1. u # t /\ thread'[u] = thread[u]
        BY <1>4, <3>3
      <4> QED BY <3>1, <3>3, <4>1 DEF Settled, Knows
    <3> QED BY <2>1, <3>1, <3>2, <3>3 DEF Settled, Knows
  <2> QED BY <2>2, <2>3
<1>10. \A q \in Views!Procs, f \in Files : Settled(q, f)'
  BY <1>9 DEF Settled
<1> QED BY <1>6, <1>7, <1>8, <1>10 DEF ViewInv

LEMMA StoreStep ==
  ASSUME Views!BundlesAssumption, ViewInv, NEW t \in ViewThreads, Views!Store(t) \/ Views!Reject(t) PROVE ViewInv'
<1> DEFINE r == thread[t]
           g == Least(r.todo)
           p == t.proc
<1>1. r \in Compilations /\ Fits(r) /\ p \in Views!Procs /\ Views!Current(t) = g /\ thread \in [ViewThreads -> Compilations]
  BY ViewFacts, CurrentIsLeast DEF ViewInv, ViewTypes
<1>2. CASE Views!Store(t)
  <2> DEFINE q == [r EXCEPT !.at = "write"]
             yes == r.key = Views!Key(g) /\ r.text = disk[g] /\ ~Views!Meets(t, g)
  <2>1. r.at = "store" /\ Views!Put(p, r.key, r.out) /\ settled' = [settled EXCEPT ![p][g] = yes]
        /\ Views!Goto(t, "write") /\ UNCHANGED <<disk, json, view, edits>>
    BY <1>1, <1>2 DEF Views!Store, Views!views
  <2>2. q \in Compilations /\ q.at \notin Compiles /\ thread' = [thread EXCEPT ![t] = q]
    BY <1>1, <2>1 DEF Views!Goto, Compilations, Points, Compiles
  <2>3. r.out \in Bundles /\ r.out.of = r.text.text /\ r.at \in Compiles
    BY <1>1, <2>1 DEF Fits, Compiles, Compilations
  <2>4. yes \in BOOLEAN /\ (yes => r.key = Views!Key(g) /\ r.out.of = disk[g].text /\ ~Views!Meets(t, g))
    BY <2>3
  <2> HIDE DEF q, yes
  <2> QED BY <2>1, <2>2, <2>3, <2>4, CompilationPuts
<1>3. CASE Views!Reject(t)
  <2> DEFINE out == [of |-> 0, status |-> "rejected"]
             q == [r EXCEPT !.at = "report", !.out = out]
  <2>1. r.at = "reject" /\ Views!Put(p, r.key, [of |-> r.text.text, status |-> "rejected"])
        /\ settled' = [settled EXCEPT ![p][g] = FALSE]
        /\ thread' = [thread EXCEPT ![t].at = "report", ![t].out = out] /\ UNCHANGED <<disk, json, view, edits>>
    BY <1>1, <1>3 DEF Views!Reject, Views!views
  <2>2. q \in Compilations /\ q.at \notin Compiles /\ thread' = [thread EXCEPT ![t] = q]
    BY <1>1, <2>1 DEF Compilations, Bundles, Points, Compiles
  <2>3. r.at \in Compiles /\ [of |-> r.text.text, status |-> "rejected"] \in Bundles
    BY <1>1, <2>1 DEF Compiles, Compilations, Versions, Bundles
  <2> HIDE DEF q, out
  <2> QED BY <2>1, <2>2, <2>3, CompilationPuts
<1> QED BY <1>2, <1>3

\* A step that only changes what a view is at: it does not begin to load a file that is settled.
LEMMA ViewMoves ==
  ASSUME ViewInv, NEW p \in Views!Procs, NEW v \in Lookups, view' = [view EXCEPT ![p] = v],
         UNCHANGED <<disk, json, cache, thread, settled, edits>>,
         v.at \in {"load", "fill"} => v.file \in Files /\ v.key[2] = v.file /\ ~settled[p][v.file]
  PROVE  ViewInv'
<1>1. /\ ViewTypes /\ \A q \in Views!Procs : ViewFits(q) /\ \A f \in Files : Settled(q, f)
      /\ \A t \in ViewThreads : Fits(thread[t])
  BY DEF ViewInv
<1>2. view'[p] = v /\ \A q \in Views!Procs : q # p => view'[q] = view[q]
  BY <1>1 DEF ViewTypes
<1>3. ViewTypes' /\ \A t \in ViewThreads : Fits(thread[t])'
  BY <1>1 DEF ViewTypes, Fits
<1>4. \A q \in Views!Procs : ViewFits(q)'
  BY <1>1, <1>2 DEF ViewFits
<1>5. ASSUME NEW q \in Views!Procs, NEW f \in Files, settled[q][f] PROVE Settled(q, f)'
  <2>1. Views!Key(f)' = Views!Key(f) /\ Settled(q, f)
    BY <1>1 DEF Views!Key
  <2>2. ~(view'[q].at \in {"load", "fill"} /\ view'[q].file = f)
    BY <1>2, <1>5, <2>1 DEF Settled
  <2> QED BY <1>5, <2>1, <2>2 DEF Settled, Knows
<1>6. \A q \in Views!Procs, f \in Files : Settled(q, f)'
  BY <1>5 DEF Settled
<1> QED BY <1>3, <1>4, <1>6 DEF ViewInv

LEMMA LookStep == ASSUME ViewInv, NEW f \in Files, NEW p \in Viewers, Views!Look(p, f) PROVE ViewInv'
<1>1. /\ p \in Views!Procs /\ Settled(p, f) /\ Views!Key(f) \in Stamps /\ Views!Key(f)[2] = f
      /\ Views!NoBundle \in Bundles /\ UNCHANGED <<disk, json, cache, thread, settled, edits>>
  BY KeyIsStamp, NoBundleIsTyped DEF ViewInv, Views!Procs, Views!Look
<1>2. CASE Views!Key(f) \in DOMAIN cache[p]
  <2> DEFINE v == [at |-> "serve", file |-> f, key |-> Views!Key(f), found |-> cache[p][Views!Key(f)]]
  <2>1. view' = [view EXCEPT ![p] = v]
    BY <1>2 DEF Views!Look
  <2>2. v \in Lookups /\ v.at = "serve"
    BY <1>1, <1>2 DEF Lookups, ViewInv, ViewTypes
  <2> HIDE DEF v
  <2> QED BY <1>1, <2>1, <2>2, ViewMoves
<1>3. CASE Views!Key(f) \notin DOMAIN cache[p]
  <2> DEFINE v == [at |-> "load", file |-> f, key |-> Views!Key(f), found |-> Views!NoBundle]
  <2>1. view' = [view EXCEPT ![p] = v]
    BY <1>3 DEF Views!Look
  <2>2. v \in Lookups /\ v.key[2] = v.file /\ v.file = f
    BY <1>1 DEF Lookups
  <2>3. ~settled[p][f]
    BY <1>1, <1>3 DEF Settled
  <2> HIDE DEF v
  <2> QED BY <1>1, <2>1, <2>2, <2>3, ViewMoves
<1> QED BY <1>2, <1>3

LEMMA LoadStep == ASSUME ViewInv, NEW p \in Viewers, Views!Load(p) \/ Views!Serve(p) PROVE ViewInv'
<1> DEFINE w == view[p]
<1>1. /\ p \in Views!Procs /\ w \in Lookups /\ ViewFits(p) /\ \A f \in Files : Settled(p, f)
      /\ view \in [Views!Procs -> Lookups] /\ json \in [Files -> Bundles]
      /\ UNCHANGED <<disk, json, cache, thread, settled, edits>>
  BY DEF ViewInv, ViewTypes, Views!Procs, Views!Load, Views!Serve
<1>2. CASE Views!Load(p)
  <2> DEFINE there == IF json[w.file] = Views!NoBundle THEN "serve" ELSE "fill"
             v == [w EXCEPT !.at = there, !.found = json[w.file]]
  <2>1. w.at = "load" /\ view' = [view EXCEPT ![p] = v]
    BY <1>1, <1>2 DEF Views!Load
  <2>2. w.file \in Files /\ w.key[2] = w.file /\ ~settled[p][w.file]
    BY <1>1, <2>1 DEF ViewFits, Settled
  <2>3. there \in {"serve", "fill"} /\ json[w.file] \in Bundles
    BY <1>1, <2>2
  <2> HIDE DEF there
  <2>4. v \in Lookups /\ v.file = w.file /\ v.key = w.key
    BY <1>1, <2>3 DEF Lookups
  <2> HIDE DEF v
  <2> QED BY <1>1, <2>1, <2>2, <2>4, ViewMoves
<1>3. CASE Views!Serve(p)
  <2>1. Views!IdleView \in Lookups /\ Views!IdleView.at = "none"
    BY IdleViewIsTyped
  <2> QED BY <1>1, <1>3, <2>1, ViewMoves DEF Views!Serve
<1> QED BY <1>2, <1>3

\* What a view loaded is put under the key of its file as it was: the file is not settled.
LEMMA FillStep == ASSUME ViewInv, NEW p \in Viewers, Views!Fill(p) PROVE ViewInv'
<1> DEFINE w == view[p]
           k == w.key
           v == [w EXCEPT !.at = "serve"]
<1>1. /\ p \in Views!Procs /\ w \in Lookups /\ ViewFits(p) /\ ViewTypes
      /\ \A q \in Views!Procs : ViewFits(q) /\ \A f \in Files : Settled(q, f)
      /\ \A t \in ViewThreads : Fits(thread[t])
      /\ UNCHANGED <<disk, json, thread, settled, edits>>
  BY DEF ViewInv, ViewTypes, Views!Procs, Views!Fill
<1>2. w.at = "fill" /\ Views!Put(p, k, w.found) /\ view' = [view EXCEPT ![p] = v]
  BY <1>1 DEF Views!Fill, ViewTypes
<1>3. w.file \in Files /\ k[2] = w.file /\ ~settled[p][w.file] /\ w.found \in Bundles
  BY <1>1, <1>2 DEF ViewFits, Settled, Lookups
<1>4. /\ cache' = [q \in Views!Procs |-> cache'[q]]
      /\ \A q \in Views!Procs : \A l \in DOMAIN cache'[q] : cache'[q][l] \in Bundles
      /\ \A l \in DOMAIN cache[p] : l # k => l \in DOMAIN cache'[p] /\ cache'[p][l] = cache[p][l]
      /\ \A q \in Views!Procs : q # p => cache'[q] = cache[q]
  BY <1>1, <1>2, <1>3, PutPuts
<1>5. v \in Lookups /\ v.at = "serve"
  BY <1>1 DEF Lookups
<1>6. view' \in [Views!Procs -> Lookups] /\ view'[p] = v /\ \A q \in Views!Procs : q # p => view'[q] = view[q]
  BY <1>1, <1>2, <1>5 DEF ViewTypes
<1> HIDE DEF v
<1>7. ViewTypes' /\ \A t \in ViewThreads : Fits(thread[t])'
  BY <1>1, <1>4, <1>6 DEF ViewTypes, Fits
<1>8. \A q \in Views!Procs : ViewFits(q)'
  BY <1>1, <1>5, <1>6 DEF ViewFits
<1>9. ASSUME NEW q \in Views!Procs, NEW f \in Files, settled[q][f] PROVE Settled(q, f)'
  <2>1. Views!Key(f)' = Views!Key(f) /\ Views!Key(f)[2] = f /\ Settled(q, f)
    BY <1>1 DEF Views!Key
  <2>2. ~(view'[q].at \in {"load", "fill"} /\ view'[q].file = f)
    BY <1>5, <1>6, <1>9, <2>1 DEF Settled
  <2>3. q = p => Views!Key(f) # k
    BY <1>3, <1>9, <2>1
  <2>4. Views!Key(f) \in DOMAIN cache'[q] /\ cache'[q][Views!Key(f)] = cache[q][Views!Key(f)]
    BY <1>4, <1>9, <2>1, <2>3 DEF Settled
  <2> QED BY <1>1, <1>9, <2>1, <2>2, <2>4 DEF Settled, Knows
<1>10. \A q \in Views!Procs, f \in Files : Settled(q, f)'
  BY <1>1, <1>9 DEF Settled
<1> QED BY <1>7, <1>8, <1>10 DEF ViewInv

\* An edit settles nothing and unsettles its file; what is known of the others is about their keys.
LEMMA ManageStep == ASSUME ViewInv, NEW f \in Files, Views!Manage(f) PROVE ViewInv'
<1>1. /\ ViewTypes /\ \A q \in Views!Procs : ViewFits(q) /\ \A g \in Files : Settled(q, g)
      /\ \A t \in ViewThreads : Fits(thread[t])
      /\ UNCHANGED <<cache, thread, view>> /\ edits' = edits + 1
  BY DEF ViewInv, Views!Manage, Views!views
<1>2. PICK d \in Versions : disk' = [disk EXCEPT ![f] = d]
  <2>1. edits + 2 \in Nat
    BY <1>1 DEF ViewTypes
  <2>2. \A sound \in BOOLEAN : [text |-> edits + 2, sound |-> sound] \in Versions /\ [text |-> 0, sound |-> FALSE] \in Versions
    BY <2>1 DEF Versions
  <2> QED BY <2>2 DEF Views!Manage
<1>3. json' \in [Files -> Bundles]
  BY <1>1, NoBundleIsTyped DEF Views!Manage, ViewTypes
<1>4. settled' = [q \in Views!Procs |-> [settled[q] EXCEPT ![f] = FALSE]]
  BY DEF Views!Manage
<1>5. /\ settled' \in [Views!Procs -> [Files -> BOOLEAN]]
      /\ \A q \in Views!Procs : ~settled'[q][f] /\ \A g \in Files : g # f => settled'[q][g] = settled[q][g]
  BY <1>1, <1>4 DEF ViewTypes
<1>6. disk' \in [Files -> Versions] /\ \A g \in Files : g # f => disk'[g] = disk[g]
  BY <1>1, <1>2 DEF ViewTypes
<1>7. ViewTypes'
  BY <1>1, <1>3, <1>5, <1>6 DEF ViewTypes
<1>8. (\A t \in ViewThreads : Fits(thread[t])') /\ (\A q \in Views!Procs : ViewFits(q)')
  BY <1>1 DEF Fits, ViewFits
<1>9. ASSUME NEW q \in Views!Procs, NEW g \in Files, settled'[q][g] PROVE Settled(q, g)'
  <2>1. g # f /\ settled[q][g] /\ Settled(q, g) /\ disk'[g] = disk[g]
    BY <1>1, <1>5, <1>6, <1>9
  <2>2. Views!Key(g)' = Views!Key(g)
    BY <2>1 DEF Views!Key
  <2> QED BY <1>1, <2>1, <2>2 DEF Settled, Knows
<1>10. \A q \in Views!Procs, g \in Files : Settled(q, g)'
  BY <1>9 DEF Settled
<1> QED BY <1>7, <1>8, <1>10 DEF ViewInv

LEMMA ViewKept == ASSUME ViewInv, UNCHANGED <<disk, json, cache, thread, view, settled, edits>> PROVE ViewInv'
BY DEF ViewInv, ViewTypes, Fits, ViewFits, Settled, Knows, Views!Key

LEMMA ViewStep == ASSUME Views!BundlesAssumption, ViewInv, [Views!Next]_(Views!vars) PROVE ViewInv'
<1>1. ASSUME NEW f \in Files, Views!Manage(f) \/ \E p \in Viewers : Views!Look(p, f) PROVE ViewInv'
  BY <1>1, ManageStep, LookStep
<1>2. ASSUME NEW t \in ViewThreads, Views!Ask(t) \/ Views!Compile(t) PROVE ViewInv'
  BY <1>2, CompilationStep, StoreStep DEF Views!Compile
<1>3. ASSUME NEW p \in Viewers, Views!View(p) PROVE ViewInv'
  BY <1>3, LoadStep, FillStep DEF Views!View
<1>4. CASE UNCHANGED Views!vars
  BY <1>4, ViewKept DEF Views!vars
<1>5. CASE \E c \in {} : Views!Connect(c) \/ Views!Stream(c) \/ Views!Disconnect(c)
  BY <1>5
<1> QED BY <1>1, <1>2, <1>3, <1>4, <1>5 DEF Views!Next

LEMMA ViewsAreFresh == ViewInv => Views!FreshUntilEdited
BY DEF ViewInv, Settled, Views!FreshUntilEdited

-----------------------------------------------------------------------------
(* Browsers that follow a compilation. *)

Signals == {"idle", "progress", "compiled", "done"}
Tabs == [at : {"off", "subscribed", "open"}, shows : Signals, queue : Seq(Signals)]
FollowTypes ==
    /\ disk \in [Files -> Versions] /\ edits \in Nat
    /\ thread \in [FollowThreads -> Compilations]
    /\ compiling \in [Follows!Procs -> BOOLEAN]
    /\ client \in [Followers -> Tabs] /\ listening \subseteq Followers

\* Only a batch of the server is marked before it is spawned, only the server announces an end, and a
\* file is compiled while there is one.
Marks(t, r) ==
    /\ r.at \in Compiles => r.todo # {}
    /\ r.at = "mark" => Follows!Web(t) /\ t.kind = "batch"
    /\ r.at = "announce" => Follows!Web(t)

\* The flag is up only while a batch of the server is at work; what a browser that listens was last
\* sent is the end, or some compilation of the server has its end still to announce.
FlagHasBatch ==
    "web" \in Follows!Procs /\ compiling["web"] =>
        \E t \in FollowThreads : /\ Follows!Web(t) /\ t.kind = "batch"
                                 /\ thread[t].at \notin {"none", "announce", "over"}
UnderWay == \E t \in FollowThreads : Follows!Web(t) /\ thread[t].at # "none"
LastSent(r) == IF r.queue = <<>> THEN r.shows ELSE r.queue[Len(r.queue)]
FollowInv ==
    /\ FollowTypes /\ FlagHasBatch
    /\ \A t \in FollowThreads : Marks(t, thread[t])
    /\ \A c \in listening : LastSent(client[c]) \in {"idle", "done"} \/ UnderWay

LEMMA FollowIdle == Follows!IdleThread \in Compilations /\ Follows!IdleThread.at = "none"
<1>1. <<0, 0>> \in Stamps /\ [text |-> 0, sound |-> FALSE] \in Versions /\ Follows!NoBundle \in Bundles
  BY DEF Stamps, Versions, Bundles, Follows!NoBundle
<1> QED BY <1>1 DEF Follows!IdleThread, Compilations, Points

LEMMA FollowInit == Follows!Init => FollowInv
<1> SUFFICES ASSUME Follows!Init PROVE FollowInv
  OBVIOUS
<1>1. /\ disk = [f \in Files |-> [text |-> 1, sound |-> TRUE]] /\ edits = 0
      /\ thread = [t \in FollowThreads |-> Follows!IdleThread]
      /\ compiling = [p \in Follows!Procs |-> FALSE]
      /\ client = [c \in Followers |-> [at |-> "off", shows |-> "idle", queue |-> <<>>]] /\ listening = {}
  BY DEF Follows!Init
<1>2. [at |-> "off", shows |-> "idle", queue |-> <<>>] \in Tabs
  BY DEF Tabs, Signals
<1>3. FollowTypes
  BY <1>1, <1>2, FollowIdle DEF FollowTypes, Versions
<1> QED BY <1>1, <1>3, FollowIdle DEF FollowInv, FlagHasBatch, Marks, Compiles

\* What a publication leaves of a browser that still listens: the last event.
LEMMA PublishSends ==
  ASSUME Follows!BundlesAssumption, client \in [Followers -> Tabs], listening \subseteq Followers,
         NEW happened \in Seq(Signals), happened # <<>>, Follows!Publish(happened)
  PROVE  /\ client' \in [Followers -> Tabs] /\ listening' \subseteq listening
         /\ \A c \in listening' : LastSent(client'[c]) = happened[Len(happened)]
<1> DEFINE room(c) == EventsMax - Len(client[c].queue)
           fitting(c) == {i \in DOMAIN happened : i <= room(c)}
           piece(c) == [i \in fitting(c) |-> happened[i]]
<1>1. /\ client' = [c \in Followers |-> IF c \in listening THEN [client[c] EXCEPT !.queue = @ \o piece(c)] ELSE client[c]]
      /\ listening' = {c \in listening : Len(happened) <= room(c)}
  BY DEF Follows!Publish
<1>2. ASSUME NEW c \in Followers
      PROVE  /\ client[c] \in Tabs /\ client[c].queue \in Seq(Signals) /\ room(c) \in Int
             /\ piece(c) \in Seq(Signals)
             /\ Len(happened) <= room(c) => piece(c) = happened
  <2>1. client[c] \in Tabs /\ client[c].queue \in Seq(Signals) /\ room(c) \in Int
    BY DEF Tabs, Follows!BundlesAssumption
  <2> DEFINE n == IF room(c) < 0 THEN 0 ELSE IF room(c) < Len(happened) THEN room(c) ELSE Len(happened)
  <2>2. n \in Nat /\ n <= Len(happened) /\ fitting(c) = 1..n
    BY <2>1
  <2>3. piece(c) = [i \in 1..n |-> happened[i]]
    BY <2>2
  <2>4. Len(happened) <= room(c) => n = Len(happened)
    BY <2>1
  <2> HIDE DEF n, piece
  <2>5. piece(c) \in Seq(Signals)
    BY <2>2, <2>3
  <2>6. happened = [i \in 1..Len(happened) |-> happened[i]]
    OBVIOUS
  <2> QED BY <2>1, <2>3, <2>4, <2>5, <2>6
<1> HIDE DEF room, piece
<1>3. ASSUME NEW c \in listening
      PROVE  /\ client'[c] = [client[c] EXCEPT !.queue = client[c].queue \o piece(c)]
             /\ client'[c] \in Tabs /\ client'[c].queue = client[c].queue \o piece(c)
  <2>1. c \in Followers /\ client[c] \in Tabs /\ client[c].queue \in Seq(Signals) /\ piece(c) \in Seq(Signals)
    BY <1>2
  <2>2. client'[c] = [client[c] EXCEPT !.queue = client[c].queue \o piece(c)]
    BY <1>1, <2>1
  <2>3. client[c].queue \o piece(c) \in Seq(Signals)
    BY <2>1
  <2> QED BY <2>1, <2>2, <2>3 DEF Tabs
<1>4. client' \in [Followers -> Tabs]
  BY <1>1, <1>2, <1>3
<1>5. ASSUME NEW c \in listening' PROVE LastSent(client'[c]) = happened[Len(happened)]
  <2>1. c \in listening /\ piece(c) = happened /\ client[c].queue \in Seq(Signals)
    BY <1>1, <1>2
  <2>2. client'[c].queue = client[c].queue \o happened
    BY <1>3, <2>1
  <2>3. /\ client'[c].queue \in Seq(Signals) /\ Len(client'[c].queue) = Len(client[c].queue) + Len(happened)
        /\ Len(happened) > 0
    BY <2>1, <2>2
  <2>4. client'[c].queue[Len(client'[c].queue)] = happened[Len(happened)]
    BY <2>1, <2>2, <2>3
  <2>5. client'[c].queue # <<>>
    BY <2>3
  <2> QED BY <2>4, <2>5 DEF LastSent
<1> QED BY <1>1, <1>4, <1>5

\* A step of a compilation: what its thread is then at, what it says to those who listen, and the flag.
LEMMA FollowMoves ==
  ASSUME Follows!BundlesAssumption, FollowInv, NEW t \in FollowThreads, NEW r \in Compilations, Marks(t, r),
         thread' = [thread EXCEPT ![t] = r], UNCHANGED <<disk, edits>>,
         NEW yes \in BOOLEAN, compiling' = [compiling EXCEPT ![t.proc] = yes],
         \/ yes /\ t.kind = "batch" /\ r.at \notin {"none", "announce", "over"}
         \/ ~yes
         \/ /\ yes = compiling[t.proc]
            /\ \/ t.kind # "batch" \/ thread[t].at \in {"none", "announce", "over"}
               \/ r.at \notin {"none", "announce", "over"},
         \/ UNCHANGED <<client, listening>> /\ (Follows!Web(t) => r.at # "none")
         \/ /\ Follows!Web(t)
            /\ \E happened \in Seq(Signals) : /\ happened # <<>> /\ Follows!Publish(happened)
                                              /\ r.at = "none" => happened[Len(happened)] = "done"
  PROVE  FollowInv'
<1>1. /\ FollowTypes /\ FlagHasBatch /\ \A u \in FollowThreads : Marks(u, thread[u])
      /\ \A c \in listening : LastSent(client[c]) \in {"idle", "done"} \/ UnderWay
  BY DEF FollowInv
<1>2. thread' \in [FollowThreads -> Compilations] /\ thread'[t] = r /\ \A u \in FollowThreads : u # t => thread'[u] = thread[u]
  BY <1>1 DEF FollowTypes
<1>3. \A u \in FollowThreads : Marks(u, thread'[u])
  BY <1>1, <1>2
<1>4. t.proc \in Follows!Procs /\ compiling' \in [Follows!Procs -> BOOLEAN] /\ compiling'[t.proc] = yes
      /\ \A p \in Follows!Procs : p # t.proc => compiling'[p] = compiling[p]
  BY <1>1 DEF FollowTypes, Follows!Procs
<1>5. ASSUME "web" \in Follows!Procs, compiling'["web"]
      PROVE  \E u \in FollowThreads : Follows!Web(u) /\ u.kind = "batch" /\ thread'[u].at \notin {"none", "announce", "over"}
  <2>1. CASE Follows!Web(t) /\ t.kind = "batch" /\ r.at \notin {"none", "announce", "over"}
    BY <1>2, <2>1
  <2>2. CASE ~(Follows!Web(t) /\ t.kind = "batch" /\ r.at \notin {"none", "announce", "over"})
    <3>1. compiling["web"]
      BY <1>4, <1>5, <2>2 DEF Follows!Web
    <3>2. PICK u \in FollowThreads : Follows!Web(u) /\ u.kind = "batch" /\ thread[u].at \notin {"none", "announce", "over"}
      BY <1>1, <1>5, <3>1 DEF FlagHasBatch
    <3>3. u # t
      BY <1>4, <1>5, <2>2, <3>2 DEF Follows!Web
    <3> QED BY <1>2, <3>2, <3>3
  <2> QED BY <2>1, <2>2
<1>6. CASE UNCHANGED <<client, listening>> /\ (Follows!Web(t) => r.at # "none")
  <2>1. UnderWay => UnderWay'
    BY <1>2, <1>6 DEF UnderWay, Follows!Web
  <2>2. FollowTypes'
    BY <1>1, <1>2, <1>4, <1>6 DEF FollowTypes
  <2>3. \A c \in listening' : LastSent(client'[c]) \in {"idle", "done"} \/ UnderWay'
    BY <1>1, <1>6, <2>1
  <2> QED BY <1>3, <1>5, <2>2, <2>3 DEF FollowInv, FlagHasBatch, Follows!Web, Marks, LastSent
<1>7. ASSUME Follows!Web(t), NEW happened \in Seq(Signals), happened # <<>>, Follows!Publish(happened),
             r.at = "none" => happened[Len(happened)] = "done"
      PROVE  FollowInv'
  <2>1. /\ client' \in [Followers -> Tabs] /\ listening' \subseteq listening
        /\ \A c \in listening' : LastSent(client'[c]) = happened[Len(happened)]
    BY <1>1, <1>7, PublishSends DEF FollowTypes
  <2>2. FollowTypes'
    BY <1>1, <1>2, <1>4, <2>1 DEF FollowTypes
  <2>3. r.at # "none" => UnderWay'
    BY <1>2, <1>7 DEF UnderWay, Follows!Web
  <2>4. \A c \in listening' : LastSent(client'[c]) \in {"idle", "done"} \/ UnderWay'
    BY <1>7, <2>1, <2>3
  <2> QED BY <1>3, <1>5, <2>2, <2>4 DEF FollowInv, FlagHasBatch, Follows!Web, Marks, LastSent
<1> QED BY <1>6, <1>7

LEMMA FollowThread ==
  ASSUME Follows!BundlesAssumption, FollowInv, NEW t \in FollowThreads, Follows!Ask(t) \/ Follows!Compile(t)
  PROVE  FollowInv'
<1> DEFINE r == thread[t]
           p == t.proc
<1>1. /\ r \in Compilations /\ Marks(t, r) /\ p \in Follows!Procs /\ thread \in [FollowThreads -> Compilations]
      /\ disk \in [Files -> Versions] /\ compiling \in [Follows!Procs -> BOOLEAN] /\ compiling[p] \in BOOLEAN
      /\ compiling = [compiling EXCEPT ![p] = compiling[p]]
  BY DEF FollowInv, FollowTypes, Follows!Procs
<1>2. r.todo \in SUBSET Files /\ (r.todo # {} => Follows!Current(t) \in Files)
  <2>1. r.todo \in SUBSET Files /\ Files \subseteq Nat
    BY <1>1 DEF Compilations, Points, Compiles, Follows!BundlesAssumption
  <2>2. CASE r.todo # {}
    <3>1. r.todo \subseteq Nat
      BY <2>1
    <3>2. PICK f \in r.todo : \A g \in r.todo : f <= g
      BY <2>2, <3>1, LeastMember
    <3> QED BY <2>1, <3>2 DEF Follows!Current
  <2> QED BY <2>1, <2>2
\* A step to another place that tells nobody and leaves the flag.
<1>3. ASSUME NEW q \in Compilations, Marks(t, q), q.at # "none", thread' = [thread EXCEPT ![t] = q],
             q.at \notin {"announce", "over"}, UNCHANGED <<disk, edits, compiling, client, listening>>
      PROVE  FollowInv'
  BY <1>1, <1>3, FollowMoves
<1>4. CASE Follows!Ask(t)
  <2> DEFINE first == IF Follows!Web(t) /\ t.kind = "batch" THEN "mark" ELSE "spawned"
             choice == IF t.kind = "single" THEN {{g} : g \in Follows!Present} ELSE {Follows!Present}
  <2>0. PICK todo \in choice : thread' = [thread EXCEPT ![t] = [Follows!IdleThread EXCEPT !.todo = todo, !.at = first]]
    BY <1>4 DEF Follows!Ask
  <2>1. first \in {"mark", "spawned"} /\ todo \subseteq Files /\ (first = "mark" => Follows!Web(t) /\ t.kind = "batch")
    BY DEF Follows!Present
  <2> HIDE DEF first, choice
  <2> DEFINE q == [Follows!IdleThread EXCEPT !.todo = todo, !.at = first]
  <2>2. q \in Compilations /\ q.at = first
    BY <2>1, FollowIdle DEF Compilations, Points, Compiles
  <2>3. Marks(t, q)
    BY <2>1, <2>2 DEF Marks, Compiles
  <2>4. thread' = [thread EXCEPT ![t] = q] /\ UNCHANGED <<disk, edits, compiling, client, listening>>
    BY <1>4, <2>0 DEF Follows!Ask, Follows!inert, Follows!browsers
  <2> HIDE DEF q
  <2> QED BY <1>3, <2>1, <2>2, <2>3, <2>4
<1>5. ASSUME NEW there \in Points, there \notin Compiles \cup {"mark"}, there = "announce" => Follows!Web(t)
      PROVE  LET q == [r EXCEPT !.at = there] IN q \in Compilations /\ q.at = there /\ Marks(t, q)
  <2> DEFINE q == [r EXCEPT !.at = there]
  <2>1. q \in Compilations /\ q.at = there
    BY <1>1 DEF Compilations, Points, Compiles
  <2> QED BY <1>5, <2>1 DEF Marks
<1>6. ASSUME NEW there, Follows!Goto(t, there) PROVE thread' = [thread EXCEPT ![t] = [r EXCEPT !.at = there]]
  BY <1>1, <1>6 DEF Follows!Goto
<1>7. CASE Follows!Mark(t)
  <2>1. /\ r.at = "mark" /\ Follows!Goto(t, "spawned") /\ compiling' = [compiling EXCEPT ![p] = TRUE]
        /\ UNCHANGED <<disk, edits, client, listening>>
    BY <1>7 DEF Follows!Mark, Follows!inert, Follows!browsers
  <2>2. t.kind = "batch"
    BY <1>1, <2>1 DEF Marks
  <2>3. "spawned" \in Points /\ "spawned" \notin Compiles \cup {"mark"}
    BY DEF Points, Compiles
  <2> QED BY <1>1, <1>5, <1>6, <2>1, <2>2, <2>3, FollowMoves
<1>8. CASE Follows!Spawned(t)
  <2> DEFINE yes == compiling[p] \/ t.kind = "batch"
  <2>1. /\ Follows!Goto(t, "stat") /\ compiling' = [compiling EXCEPT ![p] = yes] /\ UNCHANGED <<disk, edits>>
        /\ IF Follows!Web(t) THEN Follows!Publish(<<"progress">>) ELSE UNCHANGED <<client, listening>>
    BY <1>1, <1>8 DEF Follows!Spawned, Follows!inert, Follows!browsers
  <2>2. "stat" \in Points /\ "stat" \notin Compiles \cup {"mark"} /\ yes \in BOOLEAN
    BY <1>1 DEF Points, Compiles
  <2>3. <<"progress">> \in Seq(Signals) /\ <<"progress">> # <<>>
    BY DEF Signals
  <2>4. (yes /\ t.kind = "batch") \/ yes = compiling[p]
    BY <1>1
  <2> HIDE DEF yes
  <2> DEFINE q == [r EXCEPT !.at = "stat"]
  <2>5. q \in Compilations /\ q.at = "stat" /\ Marks(t, q) /\ thread' = [thread EXCEPT ![t] = q]
    BY <1>5, <1>6, <2>1, <2>2
  <2> HIDE DEF q
  <2>6. CASE Follows!Web(t)
    BY <1>1, <2>1, <2>2, <2>3, <2>4, <2>5, <2>6, FollowMoves
  <2>7. CASE ~Follows!Web(t)
    BY <1>1, <2>1, <2>2, <2>4, <2>5, <2>7, FollowMoves
  <2> QED BY <2>6, <2>7
<1>9. CASE Follows!Stat(t)
  <2> DEFINE f == Follows!Current(t)
             q == [r EXCEPT !.at = "parse", !.key = Follows!Key(f)]
  <2>1. r.todo # {} /\ thread' = [thread EXCEPT ![t].at = "parse", ![t].key = Follows!Key(f)]
        /\ UNCHANGED <<disk, edits, compiling, client, listening>>
    BY <1>9 DEF Follows!Stat, Follows!inert, Follows!browsers
  <2>2. Follows!Key(f) \in Stamps
    BY <1>1, <1>2, <2>1 DEF Follows!Key, Stamps, Versions
  <2>3. q \in Compilations /\ q.at = "parse" /\ q.todo = r.todo
    BY <1>1, <2>2 DEF Compilations, Points, Compiles
  <2>4. thread' = [thread EXCEPT ![t] = q]
    BY <1>1, <2>1
  <2>5. Marks(t, q)
    BY <2>1, <2>3 DEF Marks
  <2> HIDE DEF q
  <2> QED BY <1>3, <2>1, <2>3, <2>4, <2>5
<1>10. CASE Follows!Parse(t)
  <2> DEFINE f == Follows!Current(t)
  <2>1. r.at = "parse" /\ UNCHANGED <<disk, edits, compiling, client, listening>>
    BY <1>10 DEF Follows!Parse, Follows!browsers
  <2>2. r.todo # {} /\ disk[f] \in Versions
    BY <1>1, <1>2, <2>1 DEF Marks, Compiles
  <2>3. CASE Follows!Goto(t, "raised")
    <3>1. "raised" \in Points /\ "raised" \notin Compiles \cup {"mark"}
      BY DEF Points, Compiles
    <3> QED BY <1>3, <1>5, <1>6, <2>1, <2>3, <3>1
  <2>4. ASSUME NEW there \in {"extract", "reject"}, thread' = [thread EXCEPT ![t].at = there, ![t].text = disk[f]]
        PROVE  FollowInv'
    <3> DEFINE q == [r EXCEPT !.at = there, !.text = disk[f]]
    <3>1. q \in Compilations /\ q.at = there /\ q.todo = r.todo
      BY <1>1, <2>2 DEF Compilations, Points, Compiles
    <3>2. thread' = [thread EXCEPT ![t] = q]
      BY <1>1, <2>4
    <3>3. Marks(t, q)
      BY <2>2, <3>1 DEF Marks
    <3> HIDE DEF q
    <3> QED BY <1>3, <2>1, <3>1, <3>2, <3>3
  <2> QED BY <1>10, <2>3, <2>4 DEF Follows!Parse
<1>11. CASE Follows!Extract(t)
  <2>1. r.at = "extract" /\ UNCHANGED <<disk, edits, compiling, client, listening>>
    BY <1>11 DEF Follows!Extract, Follows!browsers
  <2>2. CASE Follows!Goto(t, "raised")
    <3>1. "raised" \in Points /\ "raised" \notin Compiles \cup {"mark"}
      BY DEF Points, Compiles
    <3> QED BY <1>3, <1>5, <1>6, <2>1, <2>2, <3>1
  <2>3. ASSUME NEW status \in {"full", "rejected"},
               thread' = [thread EXCEPT ![t].at = "store", ![t].out = [of |-> r.text.text, status |-> status]]
        PROVE  FollowInv'
    <3> DEFINE out == [of |-> r.text.text, status |-> status]
               q == [r EXCEPT !.at = "store", !.out = out]
    <3>1. out \in Bundles
      BY <1>1 DEF Compilations, Versions, Bundles
    <3>2. q \in Compilations /\ q.at = "store" /\ q.todo = r.todo
      BY <1>1, <3>1 DEF Compilations, Points, Compiles
    <3>3. thread' = [thread EXCEPT ![t] = q]
      BY <1>1, <2>3
    <3>4. Marks(t, q)
      BY <1>1, <2>1, <3>2 DEF Marks, Compiles
    <3> HIDE DEF q, out
    <3> QED BY <1>3, <2>1, <3>2, <3>3, <3>4
  <2> QED BY <1>11, <2>2, <2>3 DEF Follows!Extract
<1>12. CASE Follows!Store(t) \/ Follows!Write(t)
  <2>1. UNCHANGED <<disk, edits, compiling, client, listening>> /\ \E there \in {"write", "report"} : Follows!Goto(t, there)
    BY <1>12 DEF Follows!Store, Follows!Write, Follows!browsers
  <2>2. {"write", "report"} \subseteq Points /\ \A there \in {"write", "report"} : there \notin Compiles \cup {"mark"}
    BY DEF Points, Compiles
  <2> QED BY <1>3, <1>5, <1>6, <2>1, <2>2
<1>13. CASE Follows!Reject(t)
  <2> DEFINE out == [of |-> 0, status |-> "rejected"]
             q == [r EXCEPT !.at = "report", !.out = out]
  <2>1. thread' = [thread EXCEPT ![t].at = "report", ![t].out = out] /\ UNCHANGED <<disk, edits, compiling, client, listening>>
    BY <1>13 DEF Follows!Reject, Follows!browsers
  <2>2. q \in Compilations /\ q.at = "report" /\ thread' = [thread EXCEPT ![t] = q]
    BY <1>1, <2>1 DEF Compilations, Bundles, Points, Compiles
  <2>3. Marks(t, q)
    BY <2>2 DEF Marks, Compiles
  <2> HIDE DEF q, out
  <2> QED BY <1>3, <2>1, <2>2, <2>3
<1>14. CASE Follows!Report(t)
  <2> DEFINE q == [Follows!IdleThread EXCEPT !.at = "stat", !.todo = r.todo \ {Follows!Current(t)}]
             told == IF t.kind = "single" THEN <<"compiled">> ELSE <<"compiled", "progress">>
  <2>1. /\ thread' = [thread EXCEPT ![t] = q] /\ UNCHANGED <<disk, edits, compiling>>
        /\ IF Follows!Web(t) THEN Follows!Publish(told) ELSE UNCHANGED <<client, listening>>
    BY <1>14 DEF Follows!Report, Follows!inert, Follows!browsers
  <2>2. r.todo \ {Follows!Current(t)} \in SUBSET Files
    BY <1>2
  <2>3. q \in Compilations /\ q.at = "stat"
    BY <2>2, FollowIdle DEF Compilations, Points, Compiles
  <2>4. Marks(t, q)
    BY <2>3 DEF Marks, Compiles
  <2>5. told \in Seq(Signals) /\ told # <<>>
    <3>1. <<"compiled">> \in Seq(Signals) /\ <<"compiled">> # <<>>
      BY DEF Signals
    <3>2. <<"compiled", "progress">> \in Seq(Signals) /\ <<"compiled", "progress">> # <<>>
      BY DEF Signals
    <3> QED BY <3>1, <3>2
  <2> HIDE DEF q, told
  <2>6. CASE Follows!Web(t)
    BY <1>1, <2>1, <2>3, <2>4, <2>5, <2>6, FollowMoves
  <2>7. CASE ~Follows!Web(t)
    BY <1>3, <2>1, <2>3, <2>4, <2>7
  <2> QED BY <2>6, <2>7
<1>15. CASE Follows!Finally(t)
  <2> DEFINE there == IF Follows!Web(t) THEN "announce" ELSE "over"
             yes == compiling[p] /\ t.kind = "single"
             q == [r EXCEPT !.at = there]
  <2>1. /\ Follows!Goto(t, there) /\ compiling' = [compiling EXCEPT ![p] = yes] /\ UNCHANGED <<disk, edits, client, listening>>
    BY <1>1, <1>15 DEF Follows!Finally, Follows!inert, Follows!browsers
  <2>2. there \in Points /\ there \notin Compiles \cup {"mark"} /\ there \in {"announce", "over"} /\ yes \in BOOLEAN
        /\ (there = "announce" => Follows!Web(t))
    BY <1>1 DEF Points, Compiles
  <2>3. ~yes \/ (yes = compiling[p] /\ t.kind # "batch")
    BY <1>1
  <2> HIDE DEF there, yes
  <2>4. q \in Compilations /\ q.at = there /\ Marks(t, q) /\ thread' = [thread EXCEPT ![t] = q]
    BY <1>5, <1>6, <2>1, <2>2
  <2> HIDE DEF q
  <2> QED BY <1>1, <2>1, <2>2, <2>3, <2>4, FollowMoves
<1>16. CASE Follows!Announce(t)
  <2> DEFINE q == [r EXCEPT !.at = "none"]
  <2>1. r.at = "announce" /\ Follows!Publish(<<"done">>) /\ Follows!Goto(t, "none") /\ UNCHANGED <<disk, edits, compiling>>
    BY <1>16 DEF Follows!Announce, Follows!inert
  <2>2. "none" \in Points /\ "none" \notin Compiles \cup {"mark"}
    BY DEF Points, Compiles
  <2>3. q \in Compilations /\ q.at = "none" /\ Marks(t, q) /\ thread' = [thread EXCEPT ![t] = q]
    BY <1>5, <1>6, <2>1, <2>2
  <2>4. <<"done">> \in Seq(Signals) /\ <<"done">> # <<>> /\ <<"done">>[Len(<<"done">>)] = "done"
    BY DEF Signals
  <2>5. Follows!Web(t)
    BY <1>1, <2>1 DEF Marks
  <2> HIDE DEF q
  <2> QED BY <1>1, <2>1, <2>3, <2>4, <2>5, FollowMoves
<1> QED BY <1>4, <1>7, <1>8, <1>9, <1>10, <1>11, <1>12, <1>13, <1>14, <1>15, <1>16 DEF Follows!Compile

\* A step of a browser.
LEMMA FollowClient ==
  ASSUME Follows!BundlesAssumption, FollowInv, NEW c \in Followers,
         Follows!Connect(c) \/ Follows!Stream(c) \/ Follows!Disconnect(c)
  PROVE  FollowInv'
<1>1. /\ FollowTypes /\ FlagHasBatch /\ client \in [Followers -> Tabs] /\ client[c] \in Tabs /\ listening \subseteq Followers
      /\ \A b \in listening : LastSent(client[b]) \in {"idle", "done"} \/ UnderWay
      /\ \A t \in FollowThreads : Marks(t, thread[t])
  BY DEF FollowInv, FollowTypes
<1>2. UNCHANGED <<disk, edits, thread, compiling>>
  BY DEF Follows!Connect, Follows!Stream, Follows!Snapshot, Follows!Receive, Follows!Disconnect, Follows!inert
<1>3. ASSUME NEW tab \in Tabs, client' = [client EXCEPT ![c] = tab], listening' \subseteq listening \cup {c},
             c \in listening' => LastSent(tab) \in {"idle", "done"} \/ UnderWay
      PROVE  FollowInv'
  <2>1. client' \in [Followers -> Tabs] /\ client'[c] = tab /\ \A b \in Followers : b # c => client'[b] = client[b]
    BY <1>1, <1>3
  <2>2. FollowTypes' /\ (UnderWay <=> UnderWay') /\ FlagHasBatch'
    BY <1>1, <1>2, <1>3, <2>1 DEF FollowTypes, UnderWay, FlagHasBatch, Follows!Web
  <2>3. \A b \in listening' : LastSent(client'[b]) \in {"idle", "done"} \/ UnderWay'
    BY <1>1, <1>3, <2>1, <2>2
  <2> QED BY <1>1, <1>2, <2>2, <2>3 DEF FollowInv, Marks, LastSent, Follows!Web
<1>4. CASE Follows!Connect(c)
  <2> DEFINE tab == [at |-> "subscribed", shows |-> "idle", queue |-> <<>>]
  <2>1. client' = [client EXCEPT ![c] = tab] /\ listening' = listening \cup {c}
    BY <1>4 DEF Follows!Connect
  <2>2. tab \in Tabs /\ LastSent(tab) = "idle"
    BY DEF Tabs, Signals, LastSent
  <2> HIDE DEF tab
  <2> QED BY <1>3, <2>1, <2>2
<1>5. CASE Follows!Snapshot(c)
  <2> DEFINE sees == IF compiling["web"] THEN "progress" ELSE client[c].shows
             tab == [client[c] EXCEPT !.at = "open", !.shows = sees]
  <2>1. client' = [client EXCEPT ![c] = tab] /\ listening' = listening
    BY <1>1, <1>5 DEF Follows!Snapshot
  <2>2. sees \in Signals /\ client[c].queue \in Seq(Signals)
    BY <1>1 DEF Tabs, Signals
  <2>3. tab \in Tabs /\ tab.queue = client[c].queue /\ tab.shows = sees
    BY <1>1, <2>2 DEF Tabs
  <2>4. "web" \in Follows!Procs
    BY DEF Follows!BundlesAssumption, Follows!Procs
  <2>5. compiling["web"] => UnderWay
    BY <1>1, <2>4 DEF FlagHasBatch, UnderWay
  <2>6. ~compiling["web"] => LastSent(tab) = LastSent(client[c])
    BY <2>3 DEF LastSent
  <2> HIDE DEF tab, sees
  <2> QED BY <1>1, <1>3, <2>1, <2>3, <2>5, <2>6
<1>6. CASE Follows!Receive(c)
  <2> DEFINE q == client[c].queue
             tab == [client[c] EXCEPT !.queue = Tail(q), !.shows = Head(q)]
  <2>1. q # <<>> /\ q \in Seq(Signals) /\ client' = [client EXCEPT ![c] = tab] /\ listening' = listening
    BY <1>1, <1>6 DEF Follows!Receive, Tabs
  <2> HIDE DEF q
  <2>2. Tail(q) \in Seq(Signals) /\ Head(q) \in Signals /\ Len(q) \in Nat /\ Len(q) > 0 /\ Len(Tail(q)) = Len(q) - 1
        /\ \A i \in 1..Len(Tail(q)) : Tail(q)[i] = q[i + 1]
    BY <2>1
  <2>3. tab \in Tabs /\ tab.queue = Tail(q) /\ tab.shows = Head(q)
    BY <1>1, <2>2 DEF Tabs
  <2>6. Len(Tail(q)) = 0 <=> Tail(q) = <<>>
    <3>1. \A s \in Seq(Signals) : Len(s) = 0 <=> s = <<>>
      OBVIOUS
    <3> QED BY <2>2, <3>1
  <2>4. LastSent(tab) = q[Len(q)]
    <3>1. CASE Len(q) = 1
      <4>1. Tail(q) = <<>> /\ Head(q) = q[1]
        BY <2>1, <2>2, <2>6, <3>1
      <4> QED BY <2>3, <3>1, <4>1 DEF LastSent
    <3>2. CASE Len(q) # 1
      <4>1. Len(Tail(q)) # 0 /\ Len(q) - 1 \in 1..Len(Tail(q))
        BY <2>2, <3>2
      <4>3. Tail(q) # <<>>
        BY <2>6, <4>1, Zenon
      <4>2. Tail(q)[Len(Tail(q))] = q[Len(q)]
        BY <2>1, <2>2, <4>1
      <4> QED BY <2>3, <4>2, <4>3 DEF LastSent
    <3> QED BY <3>1, <3>2
  <2>5. LastSent(client[c]) = q[Len(q)]
    BY <2>1 DEF LastSent, q
  <2> HIDE DEF tab
  <2> QED BY <1>1, <1>3, <2>1, <2>3, <2>4, <2>5
<1>7. CASE Follows!Disconnect(c)
  <2> DEFINE tab == [at |-> "off", shows |-> "idle", queue |-> <<>>]
  <2>1. client' = [client EXCEPT ![c] = tab] /\ listening' = listening \ {c}
    BY <1>7 DEF Follows!Disconnect
  <2>2. tab \in Tabs
    BY DEF Tabs, Signals
  <2> HIDE DEF tab
  <2> QED BY <1>3, <2>1, <2>2
<1> QED BY <1>4, <1>5, <1>6, <1>7 DEF Follows!Stream

LEMMA FollowManage == ASSUME FollowInv, NEW f \in Files, Follows!Manage(f) PROVE FollowInv'
<1>1. FollowTypes /\ UNCHANGED <<compiling, thread, client, listening>> /\ edits' = edits + 1
  BY DEF FollowInv, Follows!Manage, Follows!browsers
<1>2. PICK d \in Versions : disk' = [disk EXCEPT ![f] = d]
  <2>1. edits + 2 \in Nat
    BY <1>1 DEF FollowTypes
  <2>2. \A sound \in BOOLEAN : [text |-> edits + 2, sound |-> sound] \in Versions /\ [text |-> 0, sound |-> FALSE] \in Versions
    BY <2>1 DEF Versions
  <2> QED BY <2>2 DEF Follows!Manage
<1>3. FollowTypes'
  BY <1>1, <1>2 DEF FollowTypes
<1> QED BY <1>1, <1>3 DEF FollowInv, FlagHasBatch, UnderWay, Marks, LastSent, Follows!Web

LEMMA FollowStep == ASSUME Follows!BundlesAssumption, FollowInv, [Follows!Next]_(Follows!vars) PROVE FollowInv'
<1>1. ASSUME NEW t \in FollowThreads, Follows!Ask(t) \/ Follows!Compile(t) PROVE FollowInv'
  BY <1>1, FollowThread
<1>2. ASSUME NEW c \in Followers, Follows!Connect(c) \/ Follows!Stream(c) \/ Follows!Disconnect(c) PROVE FollowInv'
  BY <1>2, FollowClient
<1>3. CASE UNCHANGED Follows!vars
  BY <1>3 DEF Follows!vars, FollowInv, FollowTypes, FlagHasBatch, UnderWay, Marks, LastSent, Follows!Web
<1> QED BY <1>1, <1>2, <1>3, FollowManage DEF Follows!Next

LEMMA FollowersAreTold == FollowInv => Follows!EndIsShown
BY DEF FollowInv, UnderWay, LastSent, Follows!EndIsShown

\* Whatever the edits, threads, views and browsers: a file that a process compiled as it is stays the
\* one its views give, until it is edited (bundle_for_skill, compile_skill); and a browser that has read
\* what it was sent shows no compilation that is over (stream_compilation, publish_compile_event).
THEOREM SkillViewsStayTrue ==
  ASSUME Views!BundlesAssumption, Follows!BundlesAssumption
  PROVE  /\ Views!Spec => []Views!FreshUntilEdited
         /\ Follows!Spec => []Follows!EndIsShown
         /\ Views!Spec /\ [](subject = "views") => []SkillViewsAreTrue
         /\ Follows!Spec /\ [](subject = "follows") => []SkillViewsAreTrue
<1>1. Views!FreshUntilEdited /\ subject = "views" => SkillViewsAreTrue
  BY DEF SkillViewsAreTrue
<1>2. Follows!EndIsShown /\ subject = "follows" => SkillViewsAreTrue
  BY DEF SkillViewsAreTrue
<1>3. Views!Spec => []Views!FreshUntilEdited
  BY ViewInit, ViewStep, ViewsAreFresh, PTL DEF Views!Spec
<1>4. Follows!Spec => []Follows!EndIsShown
  BY FollowInit, FollowStep, FollowersAreTold, PTL DEF Follows!Spec
<1> QED BY <1>1, <1>2, <1>3, <1>4, PTL
=============================================================================
