---------------------------- MODULE FoldTheorems ----------------------------
(***************************************************************************)
(* Lemmas about natural numbers and folds, in first-order form: the set of *)
(* the elements that have a property stands for the property, and the      *)
(* function of a step for the operator that is folded.                     *)
(***************************************************************************)
EXTENDS Integers, FiniteSetsExt, SequencesExt, FiniteSetTheorems,
        WellFoundedInduction, TLAPS

LEMMA Least == ASSUME NEW T, T \subseteq Nat, T # {} PROVE \E x \in T : \A y \in T : x <= y
<1> DEFINE R == {ss \in Nat \X Nat : ss[1] < ss[2]}
<1>1. IsWellFoundedOn(R, Nat)
  BY NatLessThanWellFounded DEF OpToRel
<1>2. \A x, y \in Nat : y < x => <<y, x>> \in R
  OBVIOUS
<1> HIDE DEF R
<1>3. PICK x \in T : \A y \in T : ~(<<y, x>> \in R)
  BY <1>1, WFMin
<1>4. \A y \in T : ~(y < x)
  BY <1>2, <1>3
<1> QED BY <1>4

\* Induction.
LEMMA FromZero ==
  ASSUME NEW S, 0 \in S, \A n \in Nat : n \in S => n + 1 \in S
  PROVE  Nat \subseteq S
<1> SUFFICES ASSUME Nat \ S # {} PROVE FALSE
  OBVIOUS
<1>1. PICK n \in Nat \ S : \A y \in Nat \ S : n <= y
  BY Least, Nat \ S \subseteq Nat
<1>2. n - 1 \in Nat /\ n - 1 \notin S
  BY <1>1
<1> QED BY <1>1, <1>2

LEMMA FromZeroTo ==
  ASSUME NEW n \in Nat, NEW S, 0 \in S, \A m \in 1..n : m - 1 \in S => m \in S
  PROVE  0..n \subseteq S
<1> DEFINE T == {m \in Nat : m <= n => m \in S}
<1>1. 0 \in T
  OBVIOUS
<1>2. ASSUME NEW m \in Nat, m \in T PROVE m + 1 \in T
  <2>1. CASE m + 1 <= n
    <3>1. m \in S /\ m + 1 \in 1..n /\ (m + 1) - 1 = m
      BY <1>2, <2>1
    <3>2. m + 1 \in S
      BY <3>1
    <3> QED BY <3>2
  <2>2. CASE ~(m + 1 <= n)
    BY <2>2
  <2> QED BY <2>1, <2>2
<1> HIDE DEF T
<1>3. Nat \subseteq T
  BY <1>1, <1>2, FromZero
<1> QED BY <1>3 DEF T

LEMMA MaxIs ==
  ASSUME NEW S, S \subseteq Nat, NEW m \in S, \A y \in S : m >= y
  PROVE  Max(S) = m
<1>1. \E x \in S : \A y \in S : x >= y
  OBVIOUS
<1>2. Max(S) \in S /\ \A y \in S : Max(S) >= y
  BY <1>1, Zenon DEF Max
<1>3. Max(S) \in Nat /\ m \in Nat /\ Max(S) >= m /\ m >= Max(S)
  BY <1>2
<1> QED BY <1>3

LEMMA MinIs ==
  ASSUME NEW S, S \subseteq Nat, NEW m \in S, \A y \in S : m <= y
  PROVE  Min(S) = m
<1>1. \E x \in S : \A y \in S : x =< y
  OBVIOUS
<1>2. Min(S) \in S /\ \A y \in S : Min(S) =< y
  BY <1>1, Zenon DEF Min
<1>3. Min(S) \in Nat /\ m \in Nat /\ Min(S) <= m /\ m <= Min(S)
  BY <1>2
<1> QED BY <1>3

\* A set of natural numbers with a bound has a greatest one.
LEMMA Greatest ==
  ASSUME NEW n \in Nat, NEW S, S \subseteq 0..n, S # {}
  PROVE  Max(S) \in S /\ \A y \in S : y <= Max(S)
<1> DEFINE T == {t \in Nat : n - t \in S}
<1>1. PICK t \in T : \A y \in T : t <= y
  <2>1. PICK x \in S : x \in 0..n
    OBVIOUS
  <2>2. n - x \in Nat /\ n - (n - x) = x
    BY <2>1
  <2>3. n - x \in T /\ T \subseteq Nat
    BY <2>1, <2>2
  <2> HIDE DEF T
  <2> QED BY <2>3, Least
<1>2. \A y \in S : y \in Int /\ n - y \in T
  <2> SUFFICES ASSUME NEW y \in S PROVE y \in Int /\ n - y \in T
    OBVIOUS
  <2>1. y \in 0..n
    OBVIOUS
  <2>2. n - y \in Nat /\ n - (n - y) = y
    BY <2>1
  <2> QED BY <2>2
<1>3. n - t \in S /\ t \in Nat
  BY <1>1
<1>4. \A y \in S : n - t >= y
  <2> HIDE DEF T
  <2> QED BY <1>1, <1>2, <1>3
<1>5. Max(S) = n - t
  <2>1. S \subseteq Nat
    OBVIOUS
  <2> QED BY <1>3, <1>4, <2>1, MaxIs
<1> QED BY <1>2, <1>3, <1>4, <1>5

-----------------------------------------------------------------------------
(* A fold from the left over a sequence of n elements: step[<<x, m>>] is    *)
(* what the operator makes of x and the m-th element.                       *)

StepFunctions(n, X) == [X \X (1..n) -> X]

\* The recursive definition of MapThenFoldSet.
IsFold(n, X, base, step, f) ==
  /\ f \in [SUBSET (1..n) -> X]
  /\ \A s \in SUBSET (1..n) :
       f[s] = IF s = {} THEN base ELSE step[<<f[s \ {Max(s)}], Max(s)>>]

\* The same of a function of which it is not known yet what its values are.
FollowsFold(n, X, base, step, g) ==
  /\ g[{}] = base
  /\ \A s \in SUBSET (1..n) :
       s # {} /\ g[s \ {Max(s)}] \in X => g[s] = step[<<g[s \ {Max(s)}], Max(s)>>]

\* The intermediate results, element by element.
IsTrace(n, X, base, step, result, t) ==
  /\ t \in [0..n -> X]
  /\ t[0] = base /\ t[n] = result
  /\ \A m \in 1..n : t[m] = step[<<t[m - 1], m>>]

LEMMA MaxBelow ==
  ASSUME NEW n \in Nat, NEW s \in SUBSET (1..n), s # {}
  PROVE  Max(s) \in 1..n /\ s \ {Max(s)} \in SUBSET (1..n)
<1>1. s \subseteq 0..n
  OBVIOUS
<1>2. Max(s) \in s
  BY <1>1, Greatest
<1> QED BY <1>2

LEMMA FoldDefined ==
  ASSUME NEW n \in Nat, NEW X, NEW base \in X, NEW step \in StepFunctions(n, X)
  PROVE  \E f : IsFold(n, X, base, step, f)
<1> USE DEF StepFunctions
<1> DEFINE Good(m, f) ==
             /\ f \in [SUBSET (1..m) -> X]
             /\ \A s \in SUBSET (1..m) :
                  f[s] = IF s = {} THEN base ELSE step[<<f[s \ {Max(s)}], Max(s)>>]
           S == {m \in 0..n : \E f : Good(m, f)}
<1>1. 0 \in S
  <2>1. SUBSET (1..0) = {{}}
    OBVIOUS
  <2> DEFINE f == [s \in SUBSET (1..0) |-> base]
  <2>2. f \in [SUBSET (1..0) -> X] /\ \A s \in SUBSET (1..0) : s = {} /\ f[s] = base
    BY <2>1
  <2> HIDE DEF f
  <2>3. Good(0, f)
    BY <2>2
  <2> HIDE DEF Good
  <2> QED BY <2>3
<1>2. ASSUME NEW m \in 1..n, m - 1 \in S PROVE m \in S
  <2>1. PICK f : Good(m - 1, f)
    BY <1>2
  <2> DEFINE g == [s \in SUBSET (1..m) |->
                    IF m \in s THEN step[<<f[s \ {m}], m>>] ELSE f[s]]
  <2>2. \A s \in SUBSET (1..m) : m \notin s => s \in SUBSET (1..(m - 1))
    OBVIOUS
  <2>3. \A s \in SUBSET (1..m) : s \ {m} \in SUBSET (1..(m - 1))
    OBVIOUS
  <2>4. g \in [SUBSET (1..m) -> X]
    BY <2>1, <2>2, <2>3
  <2>5. ASSUME NEW s \in SUBSET (1..m)
        PROVE  g[s] = IF s = {} THEN base ELSE step[<<g[s \ {Max(s)}], Max(s)>>]
    <3>1. CASE m \in s
      <4>1. Max(s) = m
        <5>1. s \subseteq Nat /\ \A y \in s : m >= y
          OBVIOUS
        <5> QED BY <3>1, <5>1, MaxIs
      <4>2. s \ {m} \in SUBSET (1..m) /\ g[s \ {m}] = f[s \ {m}]
        OBVIOUS
      <4> QED BY <3>1, <4>1, <4>2
    <3>2. CASE m \notin s
      <4>1. s \ {Max(s)} \in SUBSET (1..m) /\ m \notin s \ {Max(s)}
        BY <3>2
      <4>2. g[s] = f[s] /\ g[s \ {Max(s)}] = f[s \ {Max(s)}]
        BY <3>2, <4>1
      <4>3. s \in SUBSET (1..(m - 1))
        BY <2>2, <3>2
      <4> QED BY <2>1, <4>2, <4>3
    <3> QED BY <3>1, <3>2
  <2>6. Good(m, g)
    BY <2>4, <2>5
  <2> HIDE DEF g, Good
  <2> QED BY <2>6
<1> HIDE DEF S
<1>3. n \in S
  BY <1>1, <1>2, FromZeroTo
<1> QED BY <1>3 DEF S, IsFold

\* Whatever satisfies it goes through the sequence element by element.
LEMMA FoldTrace ==
  ASSUME NEW n \in Nat, NEW X, NEW base \in X, NEW step \in StepFunctions(n, X),
         NEW g, FollowsFold(n, X, base, step, g)
  PROVE  \E t : IsTrace(n, X, base, step, g[1..n], t)
<1> USE DEF StepFunctions, FollowsFold
<1> DEFINE t == [m \in 0..n |-> g[1..m]]
           S == {m \in 0..n : t[m] \in X}
<1>1. t[0] = base
  <2>1. 1..0 = {}
    OBVIOUS
  <2> QED BY <2>1
<1>2. ASSUME NEW m \in 1..n, t[m - 1] \in X PROVE t[m] = step[<<t[m - 1], m>>]
  <2>1. Max(1..m) = m
    <3>1. 1..m \subseteq Nat /\ m \in 1..m /\ \A y \in 1..m : m >= y
      OBVIOUS
    <3> QED BY <3>1, MaxIs
  <2>2. (1..m) \ {m} = 1..(m - 1) /\ 1..m \in SUBSET (1..n) /\ 1..m # {}
    OBVIOUS
  <2>3. t[m] = g[1..m] /\ t[m - 1] = g[1..(m - 1)]
    OBVIOUS
  <2> QED BY <1>2, <2>1, <2>2, <2>3
<1>3. 0 \in S
  BY <1>1
<1>4. ASSUME NEW m \in 1..n, m - 1 \in S PROVE m \in S
  <2>1. t[m] = step[<<t[m - 1], m>>]
    BY <1>2, <1>4
  <2> QED BY <1>4, <2>1
<1>5. 0..n \subseteq S
  <2> HIDE DEF S
  <2> QED BY <1>3, <1>4, FromZeroTo
<1>6. t \in [0..n -> X]
  BY <1>5
<1>7. \A m \in 1..n : t[m] = step[<<t[m - 1], m>>]
  BY <1>2, <1>6
<1>8. t[n] = g[1..n]
  OBVIOUS
<1> HIDE DEF t
<1> QED BY <1>1, <1>6, <1>7, <1>8 DEF IsTrace

-----------------------------------------------------------------------------
(* A fold over a finite set, whose elements come in the order of CHOOSE.    *)

Chosen(s) == CHOOSE x \in s : TRUE

\* What follows the recursive definition is the only function that does.
LEMMA SetFoldValue ==
  ASSUME NEW S, IsFiniteSet(S), NEW value, NEW g, g[{}] = value[{}],
         \A s \in SUBSET S : s # {} /\ g[s \ {Chosen(s)}] = value[s \ {Chosen(s)}]
                                => g[s] = value[s]
  PROVE  g[S] = value[S]
<1> DEFINE N == {n \in Nat : \A s \in SUBSET S : Cardinality(s) = n => g[s] = value[s]}
<1>1. \A s \in SUBSET S : IsFiniteSet(s) /\ Cardinality(s) \in Nat
  BY FS_Subset, FS_CardinalityType
<1>2. 0 \in N
  BY <1>1, FS_EmptySet
<1>3. ASSUME NEW n \in Nat, n \in N PROVE n + 1 \in N
  <2> SUFFICES ASSUME NEW s \in SUBSET S, Cardinality(s) = n + 1 PROVE g[s] = value[s]
    BY <1>3
  <2>1. s # {}
    <3>1. Cardinality({}) = 0 /\ n + 1 # 0
      BY FS_EmptySet
    <3> QED BY <3>1
  <2>2. Chosen(s) \in s
    BY <2>1 DEF Chosen
  <2>3. Cardinality(s \ {Chosen(s)}) = n
    <3>1. Cardinality(s \ {Chosen(s)}) = Cardinality(s) - 1
      BY <1>1, <2>2, FS_RemoveElement
    <3> QED BY <3>1
  <2>4. s \ {Chosen(s)} \in SUBSET S
    OBVIOUS
  <2> QED BY <1>3, <2>1, <2>3, <2>4
<1> HIDE DEF N
<1>4. Nat \subseteq N
  BY <1>2, <1>3, FromZero
<1>5. Cardinality(S) \in N
  BY <1>1, <1>4
<1> QED BY <1>5 DEF N

SumOf(vec, S) == FoldSet(LAMBDA l, sum : sum + vec[l], 0, S)

\* A sum that grows with each element by what belongs to it.
AddsUp(S, vec, value) ==
  /\ value \in [SUBSET S -> Nat] /\ value[{}] = 0
  /\ \A s \in SUBSET S : \A x \in s : value[s] = value[s \ {x}] + vec[x]

LEMMA SumOver ==
  ASSUME NEW S, IsFiniteSet(S), NEW vec, NEW value, AddsUp(S, vec, value)
  PROVE  SumOf(vec, S) = value[S]
<1> USE DEF AddsUp
<1> DEFINE g == CHOOSE g : g = [s \in SUBSET S |->
                  IF s = {} THEN 0 ELSE g[s \ {Chosen(s)}] + vec[Chosen(s)]]
<1>1. SumOf(vec, S) = g[S]
  BY DEF SumOf, FoldSet, MapThenFoldSet, Chosen
<1>2. \A s \in SUBSET S : s # {} => Chosen(s) \in s
  BY DEF Chosen
<1>3. value = [s \in SUBSET S |->
                 IF s = {} THEN 0 ELSE value[s \ {Chosen(s)}] + vec[Chosen(s)]]
  <2>1. ASSUME NEW s \in SUBSET S
        PROVE  value[s] = IF s = {} THEN 0 ELSE value[s \ {Chosen(s)}] + vec[Chosen(s)]
    BY <1>2
  <2> QED BY <2>1
<1>4. g = [s \in SUBSET S |->
             IF s = {} THEN 0 ELSE g[s \ {Chosen(s)}] + vec[Chosen(s)]]
  BY <1>3
<1> HIDE DEF g
<1>5. g[{}] = value[{}]
  BY <1>4
<1>6. \A s \in SUBSET S : s # {} /\ g[s \ {Chosen(s)}] = value[s \ {Chosen(s)}]
                           => g[s] = value[s]
  <2> SUFFICES ASSUME NEW s \in SUBSET S, s # {},
                      g[s \ {Chosen(s)}] = value[s \ {Chosen(s)}]
               PROVE  g[s] = value[s]
    OBVIOUS
  <2>1. g[s] = g[s \ {Chosen(s)}] + vec[Chosen(s)]
    BY <1>4
  <2>2. value[s] = value[s \ {Chosen(s)}] + vec[Chosen(s)]
    BY <1>2
  <2> QED BY <2>1, <2>2
<1> QED BY <1>1, <1>5, <1>6, SetFoldValue

=============================================================================
