------------------------------- MODULE SetFacts -------------------------------
(***************************************************************************)
(* Facts about sets of numbers and finite sets that the proofs share: the  *)
(* least and the greatest member, induction over the parts of a finite     *)
(* set, and what MapThenSumSet computes.                                   *)
(*                                                                         *)
(* The sum of the community modules is a recursive function, chosen among  *)
(* those that satisfy its equation.  That one exists is proved here, by a  *)
(* table of the sums over all parts, built up by their size.               *)
(***************************************************************************)
EXTENDS Integers, FiniteSets, FiniteSetsExt, FiniteSetTheorems,
        WellFoundedInduction, TLAPS

\* A set of natural numbers has a least member.
LEMMA LeastOf ==
    ASSUME NEW S \in SUBSET Nat, S # {}
    PROVE  \E n \in S : \A m \in S : n <= m
  <1>. DEFINE R == {ss \in Nat \X Nat : ss[1] < ss[2]}
  <1>1. R = OpToRel(<, Nat)
    BY DEF OpToRel
  <1>2. IsWellFoundedOn(R, Nat)
    BY <1>1, NatLessThanWellFounded
  <1>3. \A m, n \in Nat : ~(<<m, n>> \in R) => n <= m
    OBVIOUS
  <1>. HIDE DEF R
  <1>4. PICK n \in S : \A m \in S : ~(<<m, n>> \in R)
    BY <1>2, WFMin
  <1>. QED
    BY <1>3, <1>4

\* A bounded set of integers has a greatest member.
LEMMA MaxOf ==
    ASSUME NEW S \in SUBSET Int, S # {}, NEW b \in Int, \A x \in S : x <= b
    PROVE  Max(S) \in S /\ Max(S) \in Int /\ \A x \in S : x <= Max(S)
  <1>. DEFINE D == {b - x : x \in S}
  <1>1. D \in SUBSET Nat /\ D # {}
    <2>1. \A x \in S : b - x \in Nat
      OBVIOUS
    <2>. QED
      BY <2>1
  <1>2. PICK d \in D : \A e \in D : d <= e
    BY <1>1, LeastOf
  <1>3. PICK x \in S : d = b - x
    BY <1>2
  <1>4. \A y \in S : x >= y
    <2>. TAKE y \in S
    <2>1. b - y \in D
      OBVIOUS
    <2>2. b - x <= b - y /\ x \in Int /\ y \in Int
      BY <2>1, <1>2, <1>3
    <2>. QED
      BY <2>2
  <1>5. Max(S) \in S /\ \A y \in S : Max(S) >= y
    BY <1>3, <1>4 DEF Max
  <1>. QED
    BY <1>5

\* Min is the least member.
LEMMA MinOf ==
    ASSUME NEW S \in SUBSET Nat, S # {}
    PROVE  Min(S) \in S /\ Min(S) \in Nat /\ \A x \in S : Min(S) <= x
  <1>1. PICK n \in S : \A m \in S : n <= m
    BY LeastOf
  <1>2. Min(S) \in S /\ \A x \in S : Min(S) <= x
    BY <1>1 DEF Min
  <1>. QED
    BY <1>2

\* A set of integers that is bounded below has a least member.
LEMMA MinAbove ==
    ASSUME NEW S \in SUBSET Int, S # {}, NEW b \in Int, \A x \in S : b <= x
    PROVE  Min(S) \in S /\ Min(S) \in Int /\ \A x \in S : Min(S) <= x
  <1>. DEFINE D == {x - b : x \in S}
  <1>1. D \in SUBSET Nat /\ D # {}
    <2>1. \A x \in S : x - b \in Nat
      OBVIOUS
    <2>. QED
      BY <2>1
  <1>2. PICK n \in D : \A m \in D : n <= m
    BY <1>1, LeastOf
  <1>3. PICK y \in S : n = y - b
    BY <1>2
  <1>4. \A x \in S : y <= x
    <2>. TAKE x \in S
    <2>1. n <= x - b
      BY <1>2
    <2>. QED
      BY <1>3, <2>1
  <1>. QED
    BY <1>4 DEF Min

\* The greater and the lesser of two.
LEMMA MaxPair ==
    ASSUME NEW a \in Int, NEW b \in Int
    PROVE  /\ Max({a, b}) = IF a <= b THEN b ELSE a
           /\ Min({a, b}) = IF a <= b THEN a ELSE b
  <1>1. Max({a, b}) \in {a, b} /\ \A y \in {a, b} : Max({a, b}) >= y
    <2>1. \E x \in {a, b} : \A y \in {a, b} : x >= y
      OBVIOUS
    <2>. QED
      BY <2>1 DEF Max
  <1>2. Min({a, b}) \in {a, b} /\ \A y \in {a, b} : Min({a, b}) <= y
    <2>1. \E x \in {a, b} : \A y \in {a, b} : x <= y
      OBVIOUS
    <2>. QED
      BY <2>1 DEF Min
  <1>. QED
    BY <1>1, <1>2

\* Induction over the parts of a finite set.
LEMMA PartInduction ==
    ASSUME NEW S, IsFiniteSet(S), NEW P \in SUBSET (SUBSET S),
           \A s \in SUBSET S : (\A t \in SUBSET s : t # s => t \in P) => s \in P
    PROVE  P = SUBSET S
  <1>. DEFINE Bad == {Cardinality(s) : s \in (SUBSET S) \ P}
  <1>. SUFFICES ASSUME (SUBSET S) \ P # {} PROVE FALSE
    OBVIOUS
  <1>1. \A s \in SUBSET S : IsFiniteSet(s) /\ Cardinality(s) \in Nat
    BY FS_Subset, FS_CardinalityType
  <1>2. Bad \in SUBSET Nat /\ Bad # {}
    BY <1>1
  <1>3. PICK n \in Bad : \A m \in Bad : n <= m
    BY <1>2, LeastOf
  <1>4. PICK s \in (SUBSET S) \ P : n = Cardinality(s)
    BY <1>3
  <1>5. ASSUME NEW t \in SUBSET s, t # s PROVE t \in P
    <2>1. Cardinality(t) < Cardinality(s) /\ t \in SUBSET S
      BY <1>1, <1>5, FS_Subset
    <2>2. CASE t \notin P
      <3>1. Cardinality(t) \in Bad
        BY <2>1, <2>2
      <3>. QED
        BY <1>1, <1>3, <1>4, <2>1, <3>1
    <2>. QED
      BY <2>2
  <1>. QED
    BY <1>4, <1>5

-----------------------------------------------------------------------------
(* Sums.                                                                   *)

\* The sum of w over S.
Sum(w, S) == MapThenSumSet(LAMBDA b : w[b], S)

\* One step of the sum over the part s of S, from the table g.
Unfold(w, g, s) == IF s = {} THEN 0 ELSE LET x == CHOOSE x \in s : TRUE IN w[x] + g[s \ {x}]

\* A table of the sums over all parts of S.
IsTable(w, g, S) == \A s \in SUBSET S : g[s] = Unfold(w, g, s)

\* Such tables exist, by induction on the size of the parts.
LEMMA Tables ==
    ASSUME NEW w, NEW S, IsFiniteSet(S), \A x \in S : w[x] \in Nat
    PROVE  \E g \in [SUBSET S -> Nat] : IsTable(w, g, S)
  <1>. DEFINE Good(n) == \E g \in [SUBSET S -> Nat] : \A s \in SUBSET S :
                            Cardinality(s) <= n => g[s] = Unfold(w, g, s)
              Bad == {n \in Nat : ~Good(n)}
  <1>1. \A s \in SUBSET S : IsFiniteSet(s) /\ Cardinality(s) \in Nat /\ Cardinality(s) <= Cardinality(S)
    BY FS_Subset, FS_CardinalityType
  <1>2. \A s \in SUBSET S : s # {} =>
           LET x == CHOOSE x \in s : TRUE IN
           x \in S /\ s \ {x} \in SUBSET S /\ Cardinality(s \ {x}) = Cardinality(s) - 1
    BY <1>1, FS_RemoveElement
  <1>3. \A s \in SUBSET S : Cardinality(s) = 0 => s = {}
    BY <1>1, FS_EmptySet
  <1>4. ASSUME NEW g \in [SUBSET S -> Nat], NEW s \in SUBSET S PROVE Unfold(w, g, s) \in Nat
    BY <1>2 DEF Unfold
  <1>5. Good(0)
    <2>1. [s \in SUBSET S |-> 0] \in [SUBSET S -> Nat]
      OBVIOUS
    <2>2. \A s \in SUBSET S : Cardinality(s) <= 0 => s = {}
      BY <1>1, <1>3
    <2>3. \A s \in SUBSET S : Cardinality(s) <= 0 =>
             [t \in SUBSET S |-> 0][s] = Unfold(w, [t \in SUBSET S |-> 0], s)
      BY <2>2 DEF Unfold
    <2>. QED
      BY <2>1, <2>3
  <1>6. ASSUME NEW n \in Nat, Good(n) PROVE Good(n + 1)
    <2>1. PICK g \in [SUBSET S -> Nat] : \A s \in SUBSET S :
              Cardinality(s) <= n => g[s] = Unfold(w, g, s)
      BY <1>6
    <2>. DEFINE h == [s \in SUBSET S |-> Unfold(w, g, s)]
    <2>2. h \in [SUBSET S -> Nat]
      BY <1>4
    <2>3. ASSUME NEW s \in SUBSET S, Cardinality(s) <= n + 1 PROVE h[s] = Unfold(w, h, s)
      <3>1. CASE s = {}
        BY <3>1 DEF Unfold
      <3>2. CASE s # {}
        <4>. DEFINE x == CHOOSE x \in s : TRUE
        <4>1. s \ {x} \in SUBSET S /\ Cardinality(s \ {x}) <= n
          BY <3>2, <2>3, <1>1, <1>2
        <4>2. h[s \ {x}] = g[s \ {x}]
          BY <4>1, <2>1
        <4>. QED
          BY <3>2, <4>2 DEF Unfold
      <3>. QED
        BY <3>1, <3>2
    <2>. HIDE DEF h
    <2>. QED
      BY <2>2, <2>3
  <1>7. Bad = {}
    <2>. SUFFICES ASSUME Bad # {} PROVE FALSE
      OBVIOUS
    <2>. HIDE DEF Good
    <2>1. PICK n \in Bad : \A m \in Bad : n <= m
      BY LeastOf
    <2>2. n \in Nat /\ ~Good(n) /\ n # 0
      BY <1>5
    <2>3. n - 1 \in Nat /\ n - 1 \notin Bad /\ n = (n - 1) + 1
      BY <2>1, <2>2
    <2>. QED
      BY <2>2, <2>3, <1>6
  <1>8. Good(Cardinality(S))
    BY <1>1, <1>7
  <1>9. PICK g \in [SUBSET S -> Nat] : \A s \in SUBSET S : g[s] = Unfold(w, g, s)
    BY <1>1, <1>8
  <1>. QED
    BY <1>9 DEF IsTable

\* There is one sum, whatever larger set a table is for.
LEMMA TablesAgree ==
    ASSUME NEW w, NEW S, IsFiniteSet(S), \A x \in S : w[x] \in Nat,
           NEW T \in SUBSET S, NEW g, NEW h,
           IsTable(w, g, S),
           IsTable(w, h, T)
    PROVE  \A s \in SUBSET T : g[s] = h[s] /\ g[s] \in Nat
  <1>. DEFINE P == {s \in SUBSET T : g[s] = h[s] /\ g[s] \in Nat}
  <1>1. IsFiniteSet(T)
    BY FS_Subset
  <1>2. ASSUME NEW s \in SUBSET T, \A t \in SUBSET s : t # s => t \in P PROVE s \in P
    <2>1. CASE s = {}
      <3>1. s \in SUBSET S
        OBVIOUS
      <3>2. g[s] = 0 /\ h[s] = 0
        BY <2>1, <3>1 DEF Unfold, IsTable
      <3>. QED
        BY <3>2
    <2>2. CASE s # {}
      <3>. DEFINE x == CHOOSE x \in s : TRUE
      <3>1. x \in s
        BY <2>2
      <3>2. s \ {x} \in P /\ w[x] \in Nat
        BY <1>2, <3>1
      <3>3. g[s] = w[x] + g[s \ {x}] /\ h[s] = w[x] + h[s \ {x}]
        BY <2>2 DEF Unfold, IsTable
      <3>. HIDE DEF x
      <3>. QED
        BY <3>2, <3>3
    <2>. QED
      BY <2>1, <2>2
  <1>3. P = SUBSET T
    <2>. HIDE DEF P
    <2>1. P \in SUBSET (SUBSET T)
      BY DEF P
    <2>. QED
      BY <1>1, <1>2, <2>1, PartInduction
  <1>. QED
    BY <1>3

\* What MapThenSumSet computes is in a table: its recursive function exists.
LEMMA SumTable ==
    ASSUME NEW w, NEW S, IsFiniteSet(S), \A x \in S : w[x] \in Nat
    PROVE  \E g : /\ IsTable(w, g, S)
                  /\ Sum(w, S) = g[S]
  <1>. DEFINE T == CHOOSE g : g = [s \in SUBSET S |-> Unfold(w, g, s)]
  <1>0. \E g : g = [s \in SUBSET S |-> Unfold(w, g, s)]
    <2>1. PICK g \in [SUBSET S -> Nat] : IsTable(w, g, S)
      BY Tables
    <2>2. g = [s \in SUBSET S |-> Unfold(w, g, s)]
      BY <2>1 DEF IsTable
    <2>. QED
      BY <2>2
  <1>1. T = [s \in SUBSET S |-> Unfold(w, T, s)]
    BY <1>0
  <1>2. Sum(w, S) = T[S]
    BY DEF Sum, MapThenSumSet, MapThenFoldSet, Unfold
  <1>. HIDE DEF T
  <1>3. IsTable(w, T, S)
    BY <1>1 DEF IsTable
  <1>. QED
    BY <1>2, <1>3

\* A sum is a natural number, the empty one is zero, and any summand may be the
\* last one.
LEMMA SumRemove ==
    ASSUME NEW w, NEW S, IsFiniteSet(S), \A x \in S : w[x] \in Nat
    PROVE  /\ Sum(w, S) \in Nat
           /\ S = {} => Sum(w, S) = 0
           /\ \A x \in S : Sum(w, S) = w[x] + Sum(w, S \ {x})
  <1>1. PICK g : /\ IsTable(w, g, S)
                 /\ Sum(w, S) = g[S]
    BY SumTable
  <1>2. ASSUME NEW s \in SUBSET S PROVE Sum(w, s) = g[s] /\ Sum(w, s) \in Nat
    <2>1. IsFiniteSet(s) /\ \A x \in s : w[x] \in Nat
      BY FS_Subset
    <2>2. PICK h : IsTable(w, h, s) /\ Sum(w, s) = h[s]
      BY <2>1, SumTable
    <2>3. \A t \in SUBSET s : g[t] = h[t] /\ g[t] \in Nat
      BY <1>1, <2>2, TablesAgree
    <2>. QED
      BY <2>2, <2>3
  <1>. DEFINE P == {s \in SUBSET S : \A x \in s : Sum(w, s) = w[x] + Sum(w, s \ {x})}
  <1>3. ASSUME NEW s \in SUBSET S, \A t \in SUBSET s : t # s => t \in P PROVE s \in P
    <2>. SUFFICES ASSUME NEW x \in s PROVE Sum(w, s) = w[x] + Sum(w, s \ {x})
      OBVIOUS
    <2>. DEFINE c == CHOOSE c \in s : TRUE
    <2>1. c \in s
      OBVIOUS
    <2>2. Sum(w, s) = w[c] + Sum(w, s \ {c})
      <3>1. g[s] = w[c] + g[s \ {c}]
        BY <1>1 DEF Unfold, IsTable
      <3>. QED
        BY <3>1, <1>2
    <2>. HIDE DEF c
    <2>3. CASE x = c
      BY <2>2, <2>3
    <2>4. CASE x # c
      <3>1. s \ {c} \in P /\ s \ {x} \in P
        BY <1>3, <2>1
      <3>2. x \in s \ {c} /\ c \in s \ {x} /\ (s \ {c}) \ {x} = (s \ {x}) \ {c}
        BY <2>1, <2>4
      <3>3. /\ Sum(w, s \ {c}) = w[x] + Sum(w, (s \ {c}) \ {x})
            /\ Sum(w, s \ {x}) = w[c] + Sum(w, (s \ {c}) \ {x})
        BY <3>1, <3>2
      <3>4. w[x] \in Nat /\ w[c] \in Nat /\ Sum(w, (s \ {c}) \ {x}) \in Nat
        BY <2>1, <1>2
      <3>. QED
        BY <2>2, <3>3, <3>4
    <2>. QED
      BY <2>3, <2>4
  <1>4. P = SUBSET S
    <2>. HIDE DEF P
    <2>1. P \in SUBSET (SUBSET S)
      BY DEF P
    <2>. QED
      BY <1>3, <2>1, PartInduction
  <1>5. S \in P
    BY <1>4
  <1>6. S = {} => Sum(w, S) = 0
    BY <1>1 DEF Unfold, IsTable
  <1>. QED
    BY <1>2, <1>5, <1>6

\* A sum is that of a part and that of the rest.
LEMMA SumUnion ==
    ASSUME NEW w, NEW S, IsFiniteSet(S), \A x \in S : w[x] \in Nat,
           NEW T \in SUBSET S
    PROVE  /\ Sum(w, S) = Sum(w, T) + Sum(w, S \ T)
           /\ Sum(w, T) \in Nat /\ Sum(w, S \ T) \in Nat
  <1>. DEFINE P == {t \in SUBSET T : Sum(w, S) = Sum(w, t) + Sum(w, S \ t)}
  <1>1. \A t \in SUBSET S : IsFiniteSet(t) /\ (\A x \in t : w[x] \in Nat) /\ Sum(w, t) \in Nat
    BY FS_Subset, SumRemove
  <1>2. ASSUME NEW t \in SUBSET T, \A u \in SUBSET t : u # t => u \in P PROVE t \in P
    <2>1. CASE t = {}
      <3>1. Sum(w, t) = 0 /\ S \ t = S
        BY <2>1, <1>1, SumRemove
      <3>2. Sum(w, S) \in Nat
        BY <1>1
      <3>. QED
        BY <3>1, <3>2
    <2>2. CASE t # {}
      <3>1. PICK x \in t : TRUE
        BY <2>2
      <3>2. t \ {x} \in P
        BY <1>2
      <3>3. Sum(w, t) = w[x] + Sum(w, t \ {x})
        BY <1>1, SumRemove
      <3>4. x \in S \ (t \ {x}) /\ (S \ (t \ {x})) \ {x} = S \ t /\ S \ (t \ {x}) \in SUBSET S
        OBVIOUS
      <3>5. Sum(w, S \ (t \ {x})) = w[x] + Sum(w, S \ t)
        BY <1>1, <3>4, SumRemove
      <3>6. w[x] \in Nat /\ Sum(w, S \ t) \in Nat /\ Sum(w, t \ {x}) \in Nat
        BY <1>1
      <3>. QED
        BY <3>2, <3>3, <3>5, <3>6
    <2>. QED
      BY <2>1, <2>2
  <1>3. P = SUBSET T
    <2>. HIDE DEF P
    <2>1. P \in SUBSET (SUBSET T) /\ IsFiniteSet(T)
      BY FS_Subset DEF P
    <2>. QED
      BY <1>2, <2>1, PartInduction
  <1>. QED
    BY <1>1, <1>3

\* Weights that agree on a set have the same sum.
LEMMA SumSame ==
    ASSUME NEW w, NEW v, NEW S, IsFiniteSet(S),
           \A x \in S : w[x] \in Nat /\ v[x] = w[x]
    PROVE  Sum(v, S) = Sum(w, S)
  <1>. DEFINE P == {s \in SUBSET S : Sum(v, s) = Sum(w, s)}
  <1>1. \A s \in SUBSET S : IsFiniteSet(s) /\ \A x \in s : w[x] \in Nat /\ v[x] \in Nat
    BY FS_Subset
  <1>2. ASSUME NEW s \in SUBSET S, \A t \in SUBSET s : t # s => t \in P PROVE s \in P
    <2>1. CASE s = {}
      BY <2>1, <1>1, SumRemove
    <2>2. CASE s # {}
      <3>1. PICK x \in s : TRUE
        BY <2>2
      <3>2. s \ {x} \in P
        BY <1>2
      <3>3. Sum(v, s) = v[x] + Sum(v, s \ {x}) /\ Sum(w, s) = w[x] + Sum(w, s \ {x})
        BY <1>1, SumRemove
      <3>. QED
        BY <3>2, <3>3
    <2>. QED
      BY <2>1, <2>2
  <1>3. P = SUBSET S
    <2>. HIDE DEF P
    <2>1. P \in SUBSET (SUBSET S)
      BY DEF P
    <2>. QED
      BY <1>2, <2>1, PartInduction
  <1>. QED
    BY <1>3
=============================================================================
