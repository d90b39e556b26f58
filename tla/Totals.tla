-------------------------------- MODULE Totals --------------------------------
(***************************************************************************)
(* Lemmas about totals and extrema of finite sets.  The induction theorems *)
(* of the library take an operator; here the induction is over membership  *)
(* in a set, so that a lemma can be cited like any other.                  *)
(***************************************************************************)
EXTENDS FiniteSetsExt, TLAPS, FiniteSetTheorems, WellFoundedInduction

\* A nonempty set of naturals has a least element.
LEMMA LeastNatural ==
  ASSUME NEW S \in SUBSET Nat, S # {}
  PROVE  \E n \in S : \A m \in S : n <= m
<1> DEFINE Below == {0..n : n \in S}
<1>1. Below \subseteq FiniteSubsetsOf(Nat) /\ Below # {}
  <2>1. ASSUME NEW n \in S PROVE 0..n \in FiniteSubsetsOf(Nat)
    <3>1. n \in Int /\ 0 \in Int /\ 0..n \subseteq Nat
      OBVIOUS
    <3>2. QED
      BY <3>1, FS_Interval DEF FiniteSubsetsOf
  <2>2. QED
    BY <2>1
<1>2. PICK b \in Below : \A d \in Below : <<d, b>> \notin StrictSubsetOrdering(Nat)
  <2> HIDE DEF Below
  <2> QED BY <1>1, WFMin, FS_StrictSubsetOrderingWellFounded
<1>3. PICK x \in S : b = 0..x
  OBVIOUS
<1>4. ASSUME NEW y \in S, y < x PROVE FALSE
  <2>1. 0..y \in Below /\ 0..y \subseteq 0..x /\ x \notin 0..y /\ x \in 0..x
    BY <1>4
  <2>2. <<0..y, 0..x>> \in StrictSubsetOrdering(Nat)
    BY <2>1 DEF StrictSubsetOrdering
  <2>3. QED
    BY <1>2, <1>3, <2>1, <2>2
<1>5. QED
  BY <1>3, <1>4

\* Induction over the naturals: what contains 0 and every successor is everything.
LEMMA Counting ==
  ASSUME NEW T, 0 \in T, \A n \in Nat : n \in T => n + 1 \in T
  PROVE  Nat \subseteq T
<1> DEFINE Bad == Nat \ T
<1> SUFFICES ASSUME Bad # {} PROVE FALSE
  OBVIOUS
<1>1. PICK n \in Bad : \A m \in Bad : n <= m
  <2>1. Bad \in SUBSET Nat OBVIOUS
  <2> HIDE DEF Bad
  <2> QED BY <2>1, LeastNatural
<1>2. n # 0 /\ n - 1 \in Nat /\ n - 1 \notin Bad
  BY <1>1
<1>3. n - 1 \in T /\ (n - 1) + 1 = n
  BY <1>2
<1> QED
  BY <1>1, <1>2, <1>3

\* Induction over the subsets of a finite set, one element removed at a time.
LEMMA Removing ==
  ASSUME NEW S, IsFiniteSet(S), NEW T,
         \A s \in SUBSET S : (\A x \in s : s \ {x} \in T) => s \in T
  PROVE  SUBSET S \subseteq T
<1> DEFINE Bad == {s \in SUBSET S : s \notin T}
<1> SUFFICES ASSUME Bad # {} PROVE FALSE
  OBVIOUS
<1>1. Bad \subseteq FiniteSubsetsOf(S)
  BY FS_Subset DEF FiniteSubsetsOf
<1>2. PICK b \in Bad : \A d \in Bad : <<d, b>> \notin StrictSubsetOrdering(S)
  <2> HIDE DEF Bad
  <2> QED BY <1>1, WFMin, FS_StrictSubsetOrderingWellFounded
<1>3. PICK x \in b : b \ {x} \notin T
  BY <1>2
<1>4. b \ {x} \in Bad
  BY <1>2, <1>3
<1>5. <<b \ {x}, b>> \in StrictSubsetOrdering(S)
  BY <1>2, <1>3 DEF StrictSubsetOrdering
<1> QED
  BY <1>2, <1>4, <1>5

(***************************************************************************)
(* Extrema: what Min and Max return is an element.                         *)
(***************************************************************************)
\* A nonempty set of naturals contains its minimum.
LEMMA MinIsElement ==
  ASSUME NEW S \in SUBSET Nat, S # {}
  PROVE  Min(S) \in S /\ \A n \in S : Min(S) <= n
BY LeastNatural DEF Min

\* A nonempty set of naturals with an upper bound contains its maximum.
LEMMA MaxIsElement ==
  ASSUME NEW N \in Nat, NEW S \in SUBSET (0..N), S # {}
  PROVE  Max(S) \in S /\ \A n \in S : n <= Max(S)
<1> DEFINE T == {n \in 0..N : N - n \in S}
<1>1. T \in SUBSET Nat /\ T # {}
  <2>1. PICK x \in S : x \in 0..N
    OBVIOUS
  <2>2. N - x \in 0..N /\ N - (N - x) = x
    BY <2>1
  <2>3. N - x \in T
    BY <2>1, <2>2
  <2>4. T \subseteq 0..N
    OBVIOUS
  <2>5. 0..N \subseteq Nat
    OBVIOUS
  <2> HIDE DEF T
  <2> QED
    BY <2>3, <2>4, <2>5
<1>2. PICK least \in T : \A n \in T : least <= n
  <2> HIDE DEF T
  <2> QED BY <1>1, LeastNatural
<1>3. \A y \in S : N - y \in T
  OBVIOUS
<1>4. \A y \in S : N - least >= y
  BY <1>2, <1>3
<1>5. QED
  BY <1>2, <1>4 DEF Max

(***************************************************************************)
(* Quotients: d \div n counts the whole n in d.                            *)
(***************************************************************************)
LEMMA Quotient ==
  ASSUME NEW d \in Nat, NEW n \in Nat \ {0}
  PROVE  /\ d \div n \in Nat /\ (d \div n) * n \in Nat
         /\ (d \div n) * n <= d /\ d < (d \div n) * n + n
<1>1. n \in Nat /\ n > 0 OBVIOUS
<1>2. d \div n \in Nat BY <1>1
<1>3. d % n \in 0 .. (n - 1) BY <1>1
<1>4. d = n * (d \div n) + (d % n) BY <1>1
<1>5. (d \div n) * n \in Nat BY <1>1, <1>2
<1>6. (d \div n) * n = n * (d \div n) BY <1>1, <1>2
<1> QED BY <1>1, <1>2, <1>3, <1>4, <1>5, <1>6

\* The multiples of n grow with their count.
LEMMA Multiples ==
  ASSUME NEW a \in Nat, NEW b \in Nat, NEW n \in Nat, a < b
  PROVE  a * n + n <= b * n
OBVIOUS

(***************************************************************************)
(* Totals: SumFunctionOnSet, unfolded once and for all.                    *)
(***************************************************************************)
Chosen(s) == CHOOSE x \in s : TRUE
StepOf(f, g, s) == IF s = {} THEN 0 ELSE f[Chosen(s)] + g[s \ {Chosen(s)}]
FoldOf(f, S) == CHOOSE g : g = [s \in SUBSET S |-> StepOf(f, g, s)]

\* What the community modules' fold computes.
LEMMA SumIsFold ==
  ASSUME NEW S, NEW f
  PROVE  SumFunctionOnSet(f, S) = FoldOf(f, S)[S]
BY DEF SumFunctionOnSet, FoldFunctionOnSet, MapThenFoldSet, FoldOf, StepOf, Chosen

\* A recursion over the subsets of a finite set has a solution: the one that is
\* right for n elements gives the one that is right for n + 1.
LEMMA FoldExists ==
  ASSUME NEW S, IsFiniteSet(S), NEW f, \A x \in S : f[x] \in Int
  PROVE  FoldOf(f, S) = [s \in SUBSET S |-> StepOf(f, FoldOf(f, S), s)]
<1> DEFINE Right(g, n) == \A s \in SUBSET S : Cardinality(s) <= n => g[s] = StepOf(f, g, s)
           T == {n \in Nat : \E g \in [SUBSET S -> Int] : Right(g, n)}
<1>1. \A s \in SUBSET S : IsFiniteSet(s) /\ Cardinality(s) \in Nat /\ Cardinality(s) <= Cardinality(S)
  BY FS_Subset, FS_CardinalityType
<1>2. \A s \in SUBSET S : s # {} =>
         /\ Chosen(s) \in s /\ s \ {Chosen(s)} \in SUBSET S
         /\ Cardinality(s \ {Chosen(s)}) = Cardinality(s) - 1
  <2> SUFFICES ASSUME NEW s \in SUBSET S, s # {}
               PROVE  /\ Chosen(s) \in s /\ s \ {Chosen(s)} \in SUBSET S
                      /\ Cardinality(s \ {Chosen(s)}) = Cardinality(s) - 1
    OBVIOUS
  <2>1. Chosen(s) \in s BY DEF Chosen
  <2>2. QED BY <1>1, <2>1, FS_RemoveElement
<1>3. \A g \in [SUBSET S -> Int] : \A s \in SUBSET S : StepOf(f, g, s) \in Int
  <2> SUFFICES ASSUME NEW g \in [SUBSET S -> Int], NEW s \in SUBSET S PROVE StepOf(f, g, s) \in Int
    OBVIOUS
  <2>1. CASE s = {} BY <2>1 DEF StepOf
  <2>2. CASE s # {}
    <3>1. f[Chosen(s)] \in Int /\ g[s \ {Chosen(s)}] \in Int BY <1>2, <2>2
    <3>2. QED BY <2>2, <3>1 DEF StepOf
  <2>3. QED BY <2>1, <2>2
<1>4. 0 \in T
  <2> DEFINE g == [s \in SUBSET S |-> 0]
  <2>1. g \in [SUBSET S -> Int] OBVIOUS
  <2>2. ASSUME NEW s \in SUBSET S, Cardinality(s) <= 0 PROVE g[s] = StepOf(f, g, s)
    <3>1. s = {} BY <1>1, <2>2, FS_EmptySet
    <3>2. QED BY <3>1 DEF StepOf
  <2> HIDE DEF g
  <2>3. QED BY <2>1, <2>2
<1>5. ASSUME NEW n \in Nat, n \in T PROVE n + 1 \in T
  <2>1. PICK g \in [SUBSET S -> Int] : Right(g, n) BY <1>5
  <2> DEFINE h == [s \in SUBSET S |-> StepOf(f, g, s)]
  <2>2. h \in [SUBSET S -> Int] BY <1>3
  <2>3. ASSUME NEW s \in SUBSET S, Cardinality(s) <= n + 1 PROVE h[s] = StepOf(f, h, s)
    <3>1. CASE s = {} BY <3>1 DEF StepOf
    <3>2. CASE s # {}
      <4> DEFINE r == s \ {Chosen(s)}
      <4>1. r \in SUBSET S /\ Cardinality(r) <= n BY <1>1, <1>2, <2>3, <3>2
      <4>2. g[r] = StepOf(f, g, r) BY <2>1, <4>1
      <4>3. h[r] = g[r] BY <4>1, <4>2
      <4>4. h[s] = StepOf(f, g, s) OBVIOUS
      <4> HIDE DEF h
      <4>5. QED BY <3>2, <4>3, <4>4 DEF StepOf
    <3>3. QED BY <3>1, <3>2
  <2> HIDE DEF h
  <2>4. Right(h, n + 1) BY <2>3
  <2>5. QED BY <2>2, <2>4
<1>6. Cardinality(S) \in T
  <2> HIDE DEF T
  <2>1. Nat \subseteq T BY <1>4, <1>5, Counting
  <2>2. QED BY <2>1, FS_CardinalityType
<1>7. PICK g \in [SUBSET S -> Int] : Right(g, Cardinality(S)) BY <1>6
<1>8. g = [s \in SUBSET S |-> StepOf(f, g, s)]
  <2>1. \A s \in SUBSET S : g[s] = StepOf(f, g, s) BY <1>1, <1>7
  <2>2. QED BY <2>1
<1>9. FoldOf(f, S) = [s \in SUBSET S |-> StepOf(f, FoldOf(f, S), s)]
  BY <1>8 DEF FoldOf
<1> QED BY <1>9

\* Its values are integers.
LEMMA FoldType ==
  ASSUME NEW S, IsFiniteSet(S), NEW f, \A x \in S : f[x] \in Int
  PROVE  \A s \in SUBSET S : FoldOf(f, S)[s] \in Int
<1> DEFINE F == FoldOf(f, S)
           U == {s \in SUBSET S : F[s] \in Int}
<1>1. F = [s \in SUBSET S |-> StepOf(f, F, s)] BY FoldExists
<1> HIDE DEF F
<1>2. ASSUME NEW s \in SUBSET S, \A x \in s : s \ {x} \in U PROVE s \in U
  <2>1. F[s] = StepOf(f, F, s) BY <1>1
  <2>2. CASE s = {} BY <2>1, <2>2 DEF StepOf
  <2>3. CASE s # {}
    <3>1. Chosen(s) \in s /\ f[Chosen(s)] \in Int BY <2>3 DEF Chosen
    <3>2. F[s \ {Chosen(s)}] \in Int BY <1>2, <3>1
    <3>3. QED BY <2>1, <2>3, <3>1, <3>2 DEF StepOf
  <2>4. QED BY <2>2, <2>3
<1> HIDE DEF U
<1>3. SUBSET S \subseteq U BY <1>2, Removing
<1> QED BY <1>3 DEF U, F

\* The same recursion over a smaller set has the same values.
LEMMA FoldsAgree ==
  ASSUME NEW S, IsFiniteSet(S), NEW R \in SUBSET S, NEW f, NEW h,
         \A x \in S : f[x] \in Int, \A x \in R : h[x] = f[x]
  PROVE  \A s \in SUBSET R : FoldOf(f, S)[s] = FoldOf(h, R)[s]
<1> DEFINE F == FoldOf(f, S)
           H == FoldOf(h, R)
           T == {s \in SUBSET R : F[s] = H[s]}
<1>1. IsFiniteSet(R) BY FS_Subset
<1>2. F = [s \in SUBSET S |-> StepOf(f, F, s)] BY FoldExists
<1>3. H = [s \in SUBSET R |-> StepOf(h, H, s)]
  <2>1. \A x \in R : h[x] \in Int OBVIOUS
  <2>2. QED BY <1>1, <2>1, FoldExists
<1> HIDE DEF F, H
<1>4. ASSUME NEW s \in SUBSET R, \A x \in s : s \ {x} \in T PROVE s \in T
  <2>1. F[s] = StepOf(f, F, s) /\ H[s] = StepOf(h, H, s)
    <3>1. s \in SUBSET S OBVIOUS
    <3>2. QED BY <1>2, <1>3, <3>1
  <2>2. CASE s = {} BY <2>1, <2>2 DEF StepOf
  <2>3. CASE s # {}
    <3>1. Chosen(s) \in s BY <2>3 DEF Chosen
    <3>2. F[s \ {Chosen(s)}] = H[s \ {Chosen(s)}] /\ h[Chosen(s)] = f[Chosen(s)]
      BY <1>4, <3>1
    <3>3. QED BY <2>1, <2>3, <3>2 DEF StepOf
  <2>4. QED BY <2>2, <2>3
<1> HIDE DEF T
<1>5. SUBSET R \subseteq T BY <1>1, <1>4, Removing
<1> QED BY <1>5 DEF T, F, H

\* The total over nothing is 0.
LEMMA SumOfNone == ASSUME NEW f PROVE SumFunctionOnSet(f, {}) = 0
<1>1. IsFiniteSet({}) BY FS_EmptySet
<1>2. FoldOf(f, {}) = [s \in SUBSET {} |-> StepOf(f, FoldOf(f, {}), s)]
  BY <1>1, FoldExists
<1>3. FoldOf(f, {})[{}] = StepOf(f, FoldOf(f, {}), {}) BY <1>2
<1> QED BY <1>3, SumIsFold DEF StepOf

LEMMA SumType ==
  ASSUME NEW S, IsFiniteSet(S), NEW f, \A x \in S : f[x] \in Int
  PROVE  SumFunctionOnSet(f, S) \in Int
BY FoldType, SumIsFold

\* Totals depend on the summands alone.
LEMMA SumOfEquals ==
  ASSUME NEW S, IsFiniteSet(S), NEW f, NEW h, \A x \in S : f[x] \in Int, \A x \in S : h[x] = f[x]
  PROVE  SumFunctionOnSet(h, S) = SumFunctionOnSet(f, S)
<1>1. S \in SUBSET S OBVIOUS
<1>2. \A s \in SUBSET S : FoldOf(f, S)[s] = FoldOf(h, S)[s] BY <1>1, FoldsAgree
<1> QED BY <1>1, <1>2, SumIsFold

\* A total is any one of its summands and the total of the others.
LEMMA SumWithout ==
  ASSUME NEW S, IsFiniteSet(S), NEW f, \A x \in S : f[x] \in Int, NEW x \in S
  PROVE  SumFunctionOnSet(f, S) = f[x] + SumFunctionOnSet(f, S \ {x})
<1> DEFINE Sum(s) == SumFunctionOnSet(f, s)
           T == {s \in SUBSET S : \A y \in s : Sum(s) = f[y] + Sum(s \ {y})}
<1>1. \A s \in SUBSET S : IsFiniteSet(s) /\ Sum(s) \in Int
  <2> SUFFICES ASSUME NEW s \in SUBSET S PROVE IsFiniteSet(s) /\ Sum(s) \in Int
    OBVIOUS
  <2>1. IsFiniteSet(s) BY FS_Subset
  <2>2. QED BY <2>1, SumType
<1>2. ASSUME NEW s \in SUBSET S, s # {}
      PROVE  Chosen(s) \in s /\ Sum(s) = f[Chosen(s)] + Sum(s \ {Chosen(s)})
  <2> DEFINE r == s \ {Chosen(s)}
  <2>1. Chosen(s) \in s BY <1>2 DEF Chosen
  <2>2. IsFiniteSet(s) /\ r \in SUBSET s BY <1>1
  <2>3. FoldOf(f, s) = [t \in SUBSET s |-> StepOf(f, FoldOf(f, s), t)]
    BY <2>2, FoldExists
  <2>4. FoldOf(f, s)[s] = StepOf(f, FoldOf(f, s), s) BY <2>3
  <2>5. FoldOf(f, s)[r] = FoldOf(f, r)[r] BY <2>2, FoldsAgree
  <2>6. QED BY <1>2, <2>1, <2>4, <2>5, SumIsFold DEF StepOf
<1> HIDE DEF Sum
<1>3. ASSUME NEW s \in SUBSET S, \A y \in s : s \ {y} \in T PROVE s \in T
  <2> SUFFICES ASSUME NEW y \in s PROVE Sum(s) = f[y] + Sum(s \ {y})
    OBVIOUS
  <2> DEFINE p == Chosen(s)
  <2>1. p \in s /\ Sum(s) = f[p] + Sum(s \ {p}) BY <1>2
  <2> HIDE DEF p
  <2>2. CASE y = p BY <2>1, <2>2
  <2>3. CASE y # p
    <3>1. Sum(s \ {p}) = f[y] + Sum((s \ {p}) \ {y}) BY <1>3, <2>1, <2>3
    <3>2. Sum(s \ {y}) = f[p] + Sum((s \ {y}) \ {p}) BY <1>3, <2>1, <2>3
    <3> DEFINE rest == Sum((s \ {p}) \ {y})
    <3>3. (s \ {y}) \ {p} = (s \ {p}) \ {y} /\ (s \ {p}) \ {y} \in SUBSET S OBVIOUS
    <3>4. f[p] \in Int /\ f[y] \in Int /\ rest \in Int
      BY <1>1, <2>1, <3>3
    <3>5. Sum(s) = f[p] + (f[y] + rest) BY <2>1, <3>1
    <3>6. Sum(s \ {y}) = f[p] + rest BY <3>2, <3>3
    <3> HIDE DEF rest
    <3>7. QED BY <3>4, <3>5, <3>6
  <2>4. QED BY <2>2, <2>3
<1> HIDE DEF T
<1>4. SUBSET S \subseteq T BY <1>3, Removing
<1>5. S \in T BY <1>4
<1> QED BY <1>5 DEF T, Sum

\* Adding an element adds its summand.
LEMMA SumWith ==
  ASSUME NEW S, IsFiniteSet(S), NEW x, x \notin S, NEW f, \A y \in S \cup {x} : f[y] \in Int
  PROVE  SumFunctionOnSet(f, S \cup {x}) = f[x] + SumFunctionOnSet(f, S)
<1>1. IsFiniteSet(S \cup {x}) BY FS_AddElement
<1>2. (S \cup {x}) \ {x} = S OBVIOUS
<1>3. SumFunctionOnSet(f, S \cup {x}) = f[x] + SumFunctionOnSet(f, (S \cup {x}) \ {x})
  BY <1>1, SumWithout
<1> QED BY <1>2, <1>3

\* Totals of smaller summands are smaller.
LEMMA SumMonotone ==
  ASSUME NEW S, IsFiniteSet(S), NEW f, NEW g,
         \A x \in S : f[x] \in Int /\ g[x] \in Int /\ f[x] <= g[x]
  PROVE  SumFunctionOnSet(f, S) <= SumFunctionOnSet(g, S)
<1> DEFINE F(s) == SumFunctionOnSet(f, s)
           G(s) == SumFunctionOnSet(g, s)
           T == {s \in SUBSET S : F(s) <= G(s)}
<1>1. ASSUME NEW s \in SUBSET S, NEW x \in s
      PROVE  /\ F(s) = f[x] + F(s \ {x}) /\ G(s) = g[x] + G(s \ {x})
             /\ F(s \ {x}) \in Int /\ G(s \ {x}) \in Int
  <2>1. IsFiniteSet(s) /\ IsFiniteSet(s \ {x}) BY FS_Subset
  <2>2. \A y \in s : f[y] \in Int /\ g[y] \in Int OBVIOUS
  <2>3. F(s) = f[x] + F(s \ {x}) BY <2>1, <2>2, SumWithout
  <2>4. G(s) = g[x] + G(s \ {x}) BY <2>1, <2>2, SumWithout
  <2>5. F(s \ {x}) \in Int /\ G(s \ {x}) \in Int BY <2>1, <2>2, SumType
  <2>6. QED BY <2>3, <2>4, <2>5
<1>2. F({}) = 0 /\ G({}) = 0 BY SumOfNone
<1> HIDE DEF F, G
<1>3. ASSUME NEW s \in SUBSET S, \A x \in s : s \ {x} \in T PROVE s \in T
  <2>1. CASE s = {} BY <1>2, <2>1
  <2>2. CASE s # {}
    <3>1. PICK x \in s : TRUE BY <2>2
    <3>2. F(s \ {x}) <= G(s \ {x}) BY <1>3, <3>1
    <3>3. f[x] \in Int /\ g[x] \in Int /\ f[x] <= g[x] BY <3>1
    <3>4. F(s) <= G(s) BY <1>1, <3>1, <3>2, <3>3
    <3>5. QED BY <3>4
  <2>3. QED BY <2>1, <2>2
<1> HIDE DEF T
<1>4. SUBSET S \subseteq T BY <1>3, Removing
<1>5. S \in T BY <1>4
<1> QED BY <1>5 DEF T, F, G

\* A total of naturals is at least that of any part.
LEMMA SumOfPart ==
  ASSUME NEW S, IsFiniteSet(S), NEW R \in SUBSET S, NEW f, \A x \in S : f[x] \in Nat
  PROVE  SumFunctionOnSet(f, R) <= SumFunctionOnSet(f, S)
<1> DEFINE F(s) == SumFunctionOnSet(f, s)
           T == {s \in SUBSET S : R \subseteq s => F(R) <= F(s)}
<1>1. ASSUME NEW s \in SUBSET S, NEW x \in s
      PROVE  F(s) = f[x] + F(s \ {x}) /\ F(s \ {x}) \in Int
  <2>1. IsFiniteSet(s) /\ IsFiniteSet(s \ {x}) BY FS_Subset
  <2>2. \A y \in s : f[y] \in Int OBVIOUS
  <2>3. F(s) = f[x] + F(s \ {x}) BY <2>1, <2>2, SumWithout
  <2>4. F(s \ {x}) \in Int BY <2>1, <2>2, SumType
  <2>5. QED BY <2>3, <2>4
<1>2. F(R) \in Int
  <2>1. IsFiniteSet(R) /\ \A y \in R : f[y] \in Int BY FS_Subset
  <2>2. QED BY <2>1, SumType
<1> HIDE DEF F
<1>3. ASSUME NEW s \in SUBSET S, \A x \in s : s \ {x} \in T PROVE s \in T
  <2> SUFFICES ASSUME R \subseteq s PROVE F(R) <= F(s)
    OBVIOUS
  <2>1. CASE s = R BY <1>2, <2>1
  <2>2. CASE s # R
    <3>1. PICK x \in s : x \notin R BY <2>2
    <3>2. F(R) <= F(s \ {x}) BY <1>3, <3>1
    <3>3. f[x] \in Nat BY <3>1
    <3>4. QED BY <1>1, <1>2, <3>1, <3>2, <3>3
  <2>3. QED BY <2>1, <2>2
<1> HIDE DEF T
<1>4. SUBSET S \subseteq T BY <1>3, Removing
<1>5. S \in T BY <1>4
<1> QED BY <1>5 DEF T, F

\* Changing one summand changes the total by as much.
LEMMA SumChanged ==
  ASSUME NEW S, IsFiniteSet(S), NEW f, NEW g, NEW x \in S,
         \A y \in S : f[y] \in Int /\ g[y] \in Int, \A y \in S \ {x} : g[y] = f[y]
  PROVE  SumFunctionOnSet(g, S) = SumFunctionOnSet(f, S) - f[x] + g[x]
<1> DEFINE R == S \ {x}
<1>1. IsFiniteSet(R) BY FS_RemoveElement
<1>2. SumFunctionOnSet(f, S) = f[x] + SumFunctionOnSet(f, R) BY SumWithout
<1>3. SumFunctionOnSet(g, S) = g[x] + SumFunctionOnSet(g, R) BY SumWithout
<1>4. SumFunctionOnSet(g, R) = SumFunctionOnSet(f, R) BY <1>1, SumOfEquals
<1>5. SumFunctionOnSet(f, R) \in Int BY <1>1, SumType
<1> QED BY <1>2, <1>3, <1>4, <1>5

\* What a function takes from a finite set is finite.
LEMMA FiniteImage ==
  ASSUME NEW S, IsFiniteSet(S), NEW k
  PROVE  IsFiniteSet({k[x] : x \in S})
<1> DEFINE I == {k[x] : x \in S}
           h == [x \in S |-> k[x]]
<1>1. h \in Surjection(S, I) BY DEF Surjection
<1> HIDE DEF h, I
<1>2. IsFiniteSet(I) BY <1>1, FS_Surjection
<1> QED BY <1>2 DEF I

\* Counting every value of k once, at no more than one of its arguments' summands.
LEMMA SumOfImage ==
  ASSUME NEW S, IsFiniteSet(S), NEW k, NEW f, NEW g,
         \A x \in S : f[x] \in Nat /\ g[k[x]] = f[x]
  PROVE  SumFunctionOnSet(g, {k[x] : x \in S}) <= SumFunctionOnSet(f, S)
<1> DEFINE Image(s) == {k[x] : x \in s}
           F(s) == SumFunctionOnSet(f, s)
           G(s) == SumFunctionOnSet(g, s)
           T == {s \in SUBSET S : G(Image(s)) <= F(s)}
<1>1. ASSUME NEW s \in SUBSET S
      PROVE  /\ IsFiniteSet(s) /\ IsFiniteSet(Image(s))
             /\ \A y \in Image(s) : g[y] \in Int
             /\ F(s) \in Int /\ G(Image(s)) \in Int
  <2>1. IsFiniteSet(s) BY FS_Subset
  <2>2. IsFiniteSet(Image(s)) BY <2>1, FiniteImage
  <2>3. \A y \in Image(s) : g[y] \in Int OBVIOUS
  <2>4. \A y \in s : f[y] \in Int OBVIOUS
  <2>5. F(s) \in Int BY <2>1, <2>4, SumType
  <2> HIDE DEF Image
  <2>6. G(Image(s)) \in Int BY <2>2, <2>3, SumType
  <2> QED BY <2>1, <2>2, <2>3, <2>5, <2>6
<1>2. G(Image({})) <= F({})
  <2>1. Image({}) = {} OBVIOUS
  <2>2. G({}) = 0 /\ F({}) = 0 BY SumOfNone
  <2> HIDE DEF F, G, Image
  <2> QED BY <2>1, <2>2
<1>3. ASSUME NEW s \in SUBSET S, NEW x \in s, G(Image(s \ {x})) <= F(s \ {x})
      PROVE  G(Image(s)) <= F(s)
  <2>1. IsFiniteSet(s) /\ \A y \in s : f[y] \in Int BY <1>1
  <2>2. F(s) = f[x] + F(s \ {x}) BY <2>1, SumWithout
  <2>3. f[x] \in Nat /\ g[k[x]] = f[x] OBVIOUS
  <2>4. Image(s) = Image(s \ {x}) \cup {k[x]} OBVIOUS
  <2>5. /\ IsFiniteSet(Image(s \ {x})) /\ F(s \ {x}) \in Int /\ G(Image(s \ {x})) \in Int
        /\ \A y \in Image(s \ {x}) : g[y] \in Int
    BY <1>1
  <2> HIDE DEF Image, F
  <2>6. CASE k[x] \in Image(s \ {x})
    <3>1. Image(s) = Image(s \ {x}) BY <2>4, <2>6
    <3> HIDE DEF G
    <3> QED BY <1>3, <2>2, <2>3, <2>5, <3>1
  <2>7. CASE k[x] \notin Image(s \ {x})
    <3>1. \A y \in Image(s \ {x}) \cup {k[x]} : g[y] \in Int BY <2>3, <2>5
    <3>2. IsFiniteSet(Image(s \ {x})) BY <2>5
    <3> DEFINE v == k[x]
               I == Image(s \ {x})
    <3>3. v \notin I /\ IsFiniteSet(I) /\ \A y \in I \cup {v} : g[y] \in Int
      BY <2>7, <3>1, <3>2
    <3>4. G(I \cup {v}) = g[v] + G(I)
      <4> HIDE DEF I, v
      <4> QED BY ONLY <3>3, SumWith
    <3>5. G(Image(s \ {x}) \cup {k[x]}) = g[k[x]] + G(Image(s \ {x})) BY <3>4
    <3> HIDE DEF I, v
    <3> HIDE DEF G
    <3> QED BY <1>3, <2>2, <2>3, <2>4, <2>5, <3>5
  <2> QED BY <2>6, <2>7
<1> HIDE DEF F, G, Image
<1>4. ASSUME NEW s \in SUBSET S, \A x \in s : s \ {x} \in T PROVE s \in T
  <2>1. CASE s = {} BY <1>2, <2>1
  <2>2. CASE s # {}
    <3>1. PICK x \in s : TRUE BY <2>2
    <3> QED BY <1>3, <1>4, <3>1
  <2> QED BY <2>1, <2>2
<1> HIDE DEF T
<1>5. SUBSET S \subseteq T BY <1>4, Removing
<1>6. S \in T BY <1>5
<1> QED BY <1>6 DEF T, F, G, Image
================================================================================
