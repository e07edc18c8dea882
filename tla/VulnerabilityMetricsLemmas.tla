--------------------- MODULE VulnerabilityMetricsLemmas ---------------------
(***************************************************************************)
(* What the folds of VulnerabilityMetrics compute: the parser of           *)
(* --target-labels, the score of a match and the sum of a manifest's       *)
(* summary series, for every input.                                        *)
(***************************************************************************)
EXTENDS VulnerabilityMetrics, FiniteSetTheorems, FoldTheorems

(* The parser.                                                              *)

Distinct(s) == \A i, j \in DOMAIN s : s[i] = s[j] => i = j

\* Sequences without repetitions.
Lists(T) == {s \in Seq(T) : Distinct(s)}

LEMMA AppendFacts ==
  ASSUME NEW T, NEW l \in Seq(T), NEW i \in T, NEW n, n = Len(l)
  PROVE  /\ n \in Nat /\ Append(l, i) \in Seq(T) /\ DOMAIN l = 1..n
         /\ DOMAIN Append(l, i) = 1..(n + 1) /\ Append(l, i)[n + 1] = i
         /\ \A j \in 1..n : Append(l, i)[j] = l[j]
OBVIOUS

LEMMA Appending ==
  ASSUME NEW T, NEW l \in Lists(T), NEW i \in T
  PROVE  LET r == IF Contains(l, i) THEN l ELSE Append(l, i)
         IN  r \in Lists(T) /\ ToSet(r) = ToSet(l) \cup {i}
<1>1. DOMAIN l = 1..Len(l) /\ Len(l) \in Nat /\ l \in Seq(T) /\ Distinct(l)
  BY DEF Lists
<1>2. Contains(l, i) <=> i \in ToSet(l)
  BY <1>1 DEF Contains, ToSet
<1>3. CASE Contains(l, i)
  BY <1>2, <1>3
<1>4. CASE ~Contains(l, i)
  <2> DEFINE r == Append(l, i)
             n == Len(l)
  <2>1. /\ n \in Nat /\ r \in Seq(T) /\ DOMAIN l = 1..n
        /\ DOMAIN r = 1..(n + 1) /\ r[n + 1] = i
        /\ \A j \in 1..n : r[j] = l[j]
    BY <1>1, AppendFacts
  <2>4. \A j \in 1..n : l[j] # i
    BY <1>4 DEF Contains
  <2>5. 1..(n + 1) = (1..n) \cup {n + 1}
    BY <2>1
  <2> HIDE DEF r, n
  <2>6. ToSet(r) = ToSet(l) \cup {i}
    BY <2>1, <2>5 DEF ToSet
  <2>7. Distinct(r)
    BY <1>1, <2>1, <2>4, <2>5 DEF Distinct
  <2> QED BY <1>4, <2>1, <2>6, <2>7 DEF Lists, r
<1> QED BY <1>3, <1>4

\* AppendIfNotExists keeps a list free of repetitions and adds all items.
LEMMA AppendsMissing ==
  ASSUME NEW T, NEW base \in Lists(T), NEW items \in Seq(T)
  PROVE  /\ AppendIfNotExists(base, items) \in Lists(T)
         /\ ToSet(AppendIfNotExists(base, items)) = ToSet(base) \cup ToSet(items)
<1> DEFINE n == Len(items)
           Op(l, i) == IF Contains(l, i) THEN l ELSE Append(l, i)
           step == [p \in Lists(T) \X (1..n) |-> Op(p[1], items[p[2]])]
<1>1. n \in Nat /\ DOMAIN items = 1..n /\ \A m \in 1..n : items[m] \in T
  OBVIOUS
<1>2. step \in StepFunctions(n, Lists(T))
  BY <1>1, Appending DEF StepFunctions
<1>3. \A l \in Lists(T) : \A m \in 1..n : step[<<l, m>>] = Op(l, items[m])
  OBVIOUS
<1> DEFINE g == CHOOSE g : g = [s \in SUBSET DOMAIN items |->
                  IF s = {} THEN base ELSE Op(g[s \ {Max(s)}], items[Max(s)])]
<1>4. AppendIfNotExists(base, items) = g[1..n]
  BY <1>1 DEF AppendIfNotExists, FoldLeft, MapThenFoldSet
<1> HIDE DEF step, Op, n
<1>5. PICK f : IsFold(n, Lists(T), base, step, f)
  BY <1>1, <1>2, FoldDefined
<1>6. f = [s \in SUBSET DOMAIN items |->
             IF s = {} THEN base ELSE Op(f[s \ {Max(s)}], items[Max(s)])]
  <2>1. ASSUME NEW s \in SUBSET (1..n)
        PROVE  f[s] = IF s = {} THEN base ELSE Op(f[s \ {Max(s)}], items[Max(s)])
    BY <1>1, <1>3, <1>5, MaxBelow DEF IsFold
  <2> QED BY <1>1, <1>5, <2>1 DEF IsFold
<1>7. g = [s \in SUBSET DOMAIN items |->
             IF s = {} THEN base ELSE Op(g[s \ {Max(s)}], items[Max(s)])]
  BY <1>6
<1> HIDE DEF g
<1>8. FollowsFold(n, Lists(T), base, step, g)
  BY <1>1, <1>3, <1>7, MaxBelow DEF FollowsFold
<1>9. PICK t : IsTrace(n, Lists(T), base, step, g[1..n], t)
  BY <1>1, <1>2, <1>8, FoldTrace
<1> DEFINE S == {m \in 0..n : ToSet(t[m]) = ToSet(base) \cup {items[j] : j \in 1..m}}
<1>10. 0 \in S
  BY <1>1, <1>9 DEF IsTrace
<1>11. ASSUME NEW m \in 1..n, m - 1 \in S PROVE m \in S
  <2>1. m - 1 \in 0..n /\ m \in 0..n
    BY <1>1
  <2>2. t[m - 1] \in Lists(T) /\ t[m] = Op(t[m - 1], items[m]) /\ items[m] \in T
    BY <1>1, <1>3, <1>9, <2>1 DEF IsTrace
  <2>3. ToSet(t[m]) = ToSet(t[m - 1]) \cup {items[m]}
    BY <2>2, Appending DEF Op
  <2>4. 1..m = (1..(m - 1)) \cup {m}
    OBVIOUS
  <2> QED BY <1>11, <2>1, <2>3, <2>4
<1>12. n \in S
  <2> HIDE DEF S
  <2> QED BY <1>1, <1>10, <1>11, FromZeroTo
<1>13. ToSet(items) = {items[j] : j \in 1..n}
  BY <1>1 DEF ToSet
<1> QED BY <1>1, <1>4, <1>9, <1>12, <1>13 DEF IsTrace

LEMMA KnownLabels ==
  /\ DOMAIN MetricLabels = 1..5 /\ Len(MetricLabels) = 5
  /\ ToSet(MetricLabels) = {"scanner", "report_name", "image", "severity", "vulnerability_id"}
  /\ \A i : Contains(MetricLabels, i) <=> i \in ToSet(MetricLabels)
<1>1. DOMAIN MetricLabels = 1..5 /\ Len(MetricLabels) = 5
  BY DEF MetricLabels
<1>2. 1..5 = {1, 2, 3, 4, 5}
  OBVIOUS
<1>3. /\ MetricLabels[1] = "scanner" /\ MetricLabels[2] = "report_name"
      /\ MetricLabels[3] = "image" /\ MetricLabels[4] = "severity"
      /\ MetricLabels[5] = "vulnerability_id"
  BY DEF MetricLabels
<1>4. ToSet(MetricLabels) = {"scanner", "report_name", "image", "severity", "vulnerability_id"}
  BY <1>1, <1>2, <1>3 DEF ToSet
<1>5. \A i : Contains(MetricLabels, i) <=> i \in ToSet(MetricLabels)
  BY <1>1, Zenon DEF Contains, ToSet
<1> QED BY <1>1, <1>4, <1>5

LEMMA LabelsOf ==
  ASSUME NEW T, ToSet(MetricLabels) \subseteq T PROVE MetricLabels \in Seq(T)
<1>1. {"scanner", "report_name", "image", "severity", "vulnerability_id"} \subseteq T
  BY KnownLabels
<1>2. ASSUME NEW a \in T, NEW b \in T, NEW c \in T, NEW d \in T, NEW e \in T
      PROVE  <<a, b, c, d, e>> \in Seq(T)
  OBVIOUS
<1> QED BY <1>1, <1>2 DEF MetricLabels

LEMMA SingletonFacts ==
  ASSUME NEW T, NEW i \in T PROVE <<i>> \in Seq(T) /\ ToSet(<<i>>) = {i}
<1>1. <<i>> \in Seq(T) /\ DOMAIN <<i>> = {1} /\ <<i>>[1] = i
  OBVIOUS
<1> QED BY <1>1 DEF ToSet

\* One item of the flag.
ParseItem(l, i) ==
  CASE l # None /\ i = "all"                 -> AppendIfNotExists(l, MetricLabels)
    [] l # None /\ Contains(MetricLabels, i) -> AppendIfNotExists(l, <<i>>)
    [] OTHER                                 -> None

LEMMA ItemTyped ==
  ASSUME NEW T, None \notin Seq(T), MetricLabels \in Seq(T), NEW i \in T,
         NEW l \in Lists(T) \cup {None}
  PROVE  ParseItem(l, i) \in Lists(T) \cup {None}
<1>1. l # None => l \in Lists(T)
  OBVIOUS
<1>2. <<i>> \in Seq(T)
  OBVIOUS
<1>3. l # None => /\ AppendIfNotExists(l, MetricLabels) \in Lists(T)
                  /\ AppendIfNotExists(l, <<i>>) \in Lists(T)
  BY <1>1, <1>2, AppendsMissing, Zenon
<1>4. ~(i = "all" /\ Contains(MetricLabels, i))
  BY KnownLabels
<1> QED BY <1>3, <1>4 DEF ParseItem

\* What the items that were looked at so far ask for.
Asked(I) ==
  IF "all" \in I THEN ToSet(MetricLabels) ELSE I

LEMMA ItemParsed ==
  ASSUME NEW T, None \notin Seq(T), MetricLabels \in Seq(T), NEW i \in T,
         NEW l \in Lists(T) \cup {None}, NEW I,
         IF I \subseteq ToSet(MetricLabels) \cup {"all"}
         THEN l \in Lists(T) /\ ToSet(l) = Asked(I) ELSE l = None
  PROVE  /\ ParseItem(l, i) \in Lists(T) \cup {None}
         /\ IF I \cup {i} \subseteq ToSet(MetricLabels) \cup {"all"}
            THEN ParseItem(l, i) \in Lists(T) /\ ToSet(ParseItem(l, i)) = Asked(I \cup {i})
            ELSE ParseItem(l, i) = None
<1> DEFINE K == ToSet(MetricLabels)
<1>1. "all" \notin K /\ (Contains(MetricLabels, i) <=> i \in K)
  BY KnownLabels
<1>2. l \in Lists(T) => l # None
  BY DEF Lists
<1> HIDE DEF K
<1>3. CASE l = None
  <2>1. ParseItem(l, i) = None
    BY <1>3 DEF ParseItem
  <2>2. ~(I \subseteq K \cup {"all"})
    BY <1>2, <1>3 DEF K
  <2> QED BY <2>1, <2>2 DEF K
<1>4. CASE l # None /\ i = "all"
  <2>1. ParseItem(l, i) = AppendIfNotExists(l, MetricLabels)
    BY <1>1, <1>4 DEF ParseItem
  <2>2. l \in Lists(T) /\ I \subseteq K \cup {"all"} /\ ToSet(l) = Asked(I)
    BY <1>4 DEF K
  <2>3. ParseItem(l, i) \in Lists(T) /\ ToSet(ParseItem(l, i)) = Asked(I) \cup K
    BY <2>1, <2>2, AppendsMissing DEF K
  <2>4. Asked(I) \cup K = Asked(I \cup {i})
    BY <1>4, <2>2 DEF Asked, K
  <2> QED BY <1>4, <2>2, <2>3, <2>4 DEF K
<1>5. CASE l # None /\ i # "all" /\ i \in K
  <2>1. ParseItem(l, i) = AppendIfNotExists(l, <<i>>)
    BY <1>1, <1>5 DEF ParseItem
  <2>2. l \in Lists(T) /\ I \subseteq K \cup {"all"} /\ ToSet(l) = Asked(I)
    BY <1>5 DEF K
  <2>3. ParseItem(l, i) \in Lists(T) /\ ToSet(ParseItem(l, i)) = Asked(I) \cup {i}
    <3> DEFINE one == <<i>>
    <3>1. one \in Seq(T) /\ ToSet(one) = {i}
      BY SingletonFacts
    <3> HIDE DEF one
    <3>2. ParseItem(l, i) = AppendIfNotExists(l, one)
      BY <2>1 DEF one
    <3> QED BY <2>2, <3>1, <3>2, AppendsMissing
  <2>4. Asked(I) \cup {i} = Asked(I \cup {i})
    BY <1>5 DEF Asked, K
  <2> QED BY <1>5, <2>2, <2>3, <2>4 DEF K
<1>6. CASE l # None /\ i # "all" /\ i \notin K
  <2>1. ParseItem(l, i) = None
    BY <1>1, <1>6 DEF ParseItem
  <2> QED BY <1>6, <2>1 DEF K
<1> QED BY <1>3, <1>4, <1>5, <1>6

\* The flag is what its items ask for, each label once, and the report name; an
\* item that is not known makes it an error.
LEMMA FlagParsed ==
  ASSUME NEW T, None \notin Seq(T), MetricLabels \in Seq(T), NEW items \in Seq(T)
  PROVE  IF ToSet(items) \subseteq ToSet(MetricLabels) \cup {"all"}
         THEN /\ Parsed(items) \in Lists(T)
              /\ ToSet(Parsed(items)) = Asked(ToSet(items)) \cup {"report_name"}
         ELSE Parsed(items) = None
<1> DEFINE n == Len(items)
           X == Lists(T) \cup {None}
           step == [p \in X \X (1..n) |-> ParseItem(p[1], items[p[2]])]
           Seen(m) == {items[j] : j \in 1..m}
           Fits(I, l) == IF I \subseteq ToSet(MetricLabels) \cup {"all"}
                         THEN l \in Lists(T) /\ ToSet(l) = Asked(I) ELSE l = None
<1>1. n \in Nat /\ DOMAIN items = 1..n /\ \A m \in 1..n : items[m] \in T
  OBVIOUS
<1>2. << >> \in Lists(T) /\ ToSet(<< >>) = {}
  <2>1. << >> \in Seq(T) /\ DOMAIN << >> = {}
    OBVIOUS
  <2> QED BY <2>1 DEF Lists, Distinct, ToSet
<1>3. \A I : \A l \in X : \A i \in T :
        Fits(I, l) => Fits(I \cup {i}, ParseItem(l, i))
  BY ItemParsed
<1>4. step \in StepFunctions(n, X)
  <2>1. \A l \in X : \A m \in 1..n : ParseItem(l, items[m]) \in X
    BY <1>1, ItemTyped
  <2> QED BY <2>1 DEF StepFunctions
<1>5. \A l \in X : \A m \in 1..n : step[<<l, m>>] = ParseItem(l, items[m])
  OBVIOUS
<1> DEFINE g == CHOOSE g : g = [s \in SUBSET DOMAIN items |->
                  IF s = {} THEN << >> ELSE ParseItem(g[s \ {Max(s)}], items[Max(s)])]
<1>6. Parsed(items) = IF g[1..n] = None THEN None ELSE WithReportName(g[1..n])
  BY <1>1 DEF Parsed, FoldLeft, MapThenFoldSet, ParseItem
<1> HIDE DEF step, n, X, Fits
<1>7. PICK f : IsFold(n, X, << >>, step, f)
  BY <1>1, <1>2, <1>4, FoldDefined DEF X
<1>8. f = [s \in SUBSET DOMAIN items |->
             IF s = {} THEN << >> ELSE ParseItem(f[s \ {Max(s)}], items[Max(s)])]
  <2>1. ASSUME NEW s \in SUBSET (1..n)
        PROVE  f[s] = IF s = {} THEN << >> ELSE ParseItem(f[s \ {Max(s)}], items[Max(s)])
    BY <1>1, <1>5, <1>7, MaxBelow DEF IsFold
  <2> QED BY <1>1, <1>7, <2>1 DEF IsFold
<1>9. g = [s \in SUBSET DOMAIN items |->
             IF s = {} THEN << >> ELSE ParseItem(g[s \ {Max(s)}], items[Max(s)])]
  BY <1>8
<1> HIDE DEF g
<1>10. FollowsFold(n, X, << >>, step, g)
  BY <1>1, <1>5, <1>9, MaxBelow DEF FollowsFold
<1>11. PICK t : IsTrace(n, X, << >>, step, g[1..n], t)
  BY <1>1, <1>2, <1>4, <1>10, FoldTrace DEF X
<1> DEFINE S == {m \in 0..n : Fits(Seen(m), t[m])}
<1>12. 0 \in S
  BY <1>1, <1>2, <1>11 DEF IsTrace, Fits, Asked
<1>13. ASSUME NEW m \in 1..n, m - 1 \in S PROVE m \in S
  <2>1. m - 1 \in 0..n /\ m \in 0..n
    BY <1>1
  <2>2. t[m - 1] \in X /\ t[m] = ParseItem(t[m - 1], items[m]) /\ items[m] \in T
    BY <1>1, <1>5, <1>11, <2>1 DEF IsTrace
  <2>3. Fits(Seen(m - 1) \cup {items[m]}, t[m])
    BY <1>3, <1>13, <2>2
  <2>4. Seen(m) = Seen(m - 1) \cup {items[m]}
    <3>1. 1..m = (1..(m - 1)) \cup {m}
      OBVIOUS
    <3> QED BY <3>1
  <2> QED BY <2>1, <2>3, <2>4
<1>14. n \in S
  <2> HIDE DEF S, Seen
  <2>1. 0..n \subseteq S
    BY <1>1, <1>12, <1>13, FromZeroTo
  <2> QED BY <1>1, <2>1
<1>15. ToSet(items) = Seen(n)
  BY <1>1 DEF ToSet
<1>16. Fits(ToSet(items), g[1..n])
  BY <1>11, <1>14, <1>15 DEF IsTrace
<1> DEFINE chosen == g[1..n]
<1>17. CASE ToSet(items) \subseteq ToSet(MetricLabels) \cup {"all"}
  <2>1. chosen \in Lists(T) /\ ToSet(chosen) = Asked(ToSet(items)) /\ chosen # None
    BY <1>16, <1>17 DEF Fits, Lists
  <2> DEFINE one == <<"report_name">>
  <2>2. one \in Seq(T) /\ ToSet(one) = {"report_name"}
    <3>1. MetricLabels[2] = "report_name" /\ MetricLabels[2] \in T
      BY KnownLabels DEF MetricLabels
    <3> QED BY <3>1, SingletonFacts
  <2>3. Parsed(items) = AppendIfNotExists(chosen, one)
    BY <1>6, <2>1 DEF WithReportName
  <2> HIDE DEF one, chosen
  <2> QED BY <1>17, <2>1, <2>2, <2>3, AppendsMissing
<1>18. CASE ~(ToSet(items) \subseteq ToSet(MetricLabels) \cup {"all"})
  BY <1>6, <1>16, <1>18 DEF Fits
<1> QED BY <1>17, <1>18

LEMMA DistinctCounted ==
  ASSUME NEW T, NEW l \in Lists(T) PROVE Cardinality(ToSet(l)) = Len(l)
<1> DEFINE n == Len(l)
           f == [i \in 1..n |-> l[i]]
<1>1. n \in Nat /\ DOMAIN l = 1..n /\ Distinct(l)
  BY DEF Lists
<1>2. f \in Bijection(1..n, ToSet(l))
  BY <1>1 DEF Bijection, Injection, Surjection, IsInjective, Distinct, ToSet
<1> HIDE DEF f, n
<1>3. IsFiniteSet(1..n) /\ Cardinality(1..n) = n
  <2>1. IsFiniteSet(1..n) /\ Cardinality(1..n) = IF 1 > n THEN 0 ELSE n - 1 + 1
    BY <1>1, FS_Interval
  <2> QED BY <1>1, <2>1
<1> QED BY <1>2, <1>3, FS_Bijection DEF ExistsBijection, n

-----------------------------------------------------------------------------
(* The score of a match.                                                    *)

Bests == [score : Nat, highest : Nat, final : BOOLEAN]

\* One turn of the loop over the entries.
ScoreStep(best, entry) ==
  CASE best.final                         -> best
    [] ~best.final /\ entry.version = PreferredVersion
         -> [best EXCEPT !.score = entry.score, !.final = TRUE]
    [] ~best.final /\ entry.version # PreferredVersion
         -> IF entry.version > best.highest
            THEN [best EXCEPT !.score = entry.score, !.highest = entry.version]
            ELSE best

\* The i-th entry is the first of those up to m of version v.
FirstOf(cvss, m, v, i) ==
  /\ i \in 1..m /\ cvss[i].version = v
  /\ \A j \in 1..m : cvss[j].version = v => i <= j

ScoredTo(cvss, m, best) ==
  IF \E j \in 1..m : cvss[j].version = PreferredVersion
  THEN /\ best.final
       /\ \E i : FirstOf(cvss, m, PreferredVersion, i) /\ best.score = cvss[i].score
  ELSE /\ ~best.final
       /\ \A j \in 1..m : cvss[j].version <= best.highest
       /\ IF best.highest = 0 THEN best.score = 0
          ELSE \E i : FirstOf(cvss, m, best.highest, i) /\ best.score = cvss[i].score

LEMMA StepTyped ==
  ASSUME NEW best \in Bests, NEW entry \in Entries PROVE ScoreStep(best, entry) \in Bests
BY DEF ScoreStep, Bests, Entries

LEMMA FirstKept ==
  ASSUME NEW cvss, NEW m \in Nat, NEW v, NEW i, FirstOf(cvss, m, v, i)
  PROVE  FirstOf(cvss, m + 1, v, i)
<1>1. 1..(m + 1) = (1..m) \cup {m + 1}
  OBVIOUS
<1> QED BY <1>1 DEF FirstOf

LEMMA FirstNew ==
  ASSUME NEW cvss, NEW m \in Nat, NEW v, cvss[m + 1].version = v,
         \A j \in 1..m : cvss[j].version # v
  PROVE  FirstOf(cvss, m + 1, v, m + 1)
<1>1. 1..(m + 1) = (1..m) \cup {m + 1}
  OBVIOUS
<1> QED BY <1>1 DEF FirstOf

LEMMA ScoreStepped ==
  ASSUME NEW cvss, NEW m \in Nat, NEW best \in Bests, ScoredTo(cvss, m, best),
         \A j \in 1..(m + 1) : cvss[j] \in Entries
  PROVE  ScoredTo(cvss, m + 1, ScoreStep(best, cvss[m + 1]))
<1> DEFINE e == cvss[m + 1]
           new == ScoreStep(best, e)
<1>1. 1..(m + 1) = (1..m) \cup {m + 1}
  OBVIOUS
<1>2. /\ e \in Entries /\ e.version \in Nat /\ best.highest \in Nat
      /\ \A j \in 1..m : cvss[j].version \in Nat
  BY <1>1 DEF Entries, Bests
<1>3. PreferredVersion # 0
  BY DEF PreferredVersion
<1> HIDE DEF e
<1>4. CASE best.final
  <2>1. new = best
    BY <1>4 DEF ScoreStep
  <2>2. \E j \in 1..m : cvss[j].version = PreferredVersion
    BY <1>4 DEF ScoredTo
  <2>3. PICK i : FirstOf(cvss, m, PreferredVersion, i) /\ best.score = cvss[i].score
    BY <2>2 DEF ScoredTo
  <2>4. FirstOf(cvss, m + 1, PreferredVersion, i)
    BY <2>3, FirstKept
  <2> QED BY <1>1, <1>4, <2>1, <2>2, <2>3, <2>4 DEF ScoredTo, e
<1>5. CASE ~best.final /\ e.version = PreferredVersion
  <2>1. new.final /\ new.score = e.score
    BY <1>5 DEF ScoreStep, Bests
  <2>2. \A j \in 1..m : cvss[j].version # PreferredVersion
    BY <1>5 DEF ScoredTo
  <2>3. FirstOf(cvss, m + 1, PreferredVersion, m + 1)
    BY <1>5, <2>2, FirstNew DEF e
  <2> QED BY <1>1, <1>5, <2>1, <2>3 DEF ScoredTo, e
<1>6. CASE ~best.final /\ e.version # PreferredVersion
  <2>1. ~\E j \in 1..(m + 1) : cvss[j].version = PreferredVersion
    BY <1>1, <1>6 DEF ScoredTo, e
  <2>2. \A j \in 1..m : cvss[j].version <= best.highest
    BY <1>6 DEF ScoredTo
  <2>3. CASE e.version > best.highest
    <3>1. ~new.final /\ new.score = e.score /\ new.highest = e.version
      BY <1>6, <2>3 DEF ScoreStep, Bests
    <3>2. \A j \in 1..m : cvss[j].version # e.version
      BY <1>2, <2>2, <2>3
    <3>3. FirstOf(cvss, m + 1, e.version, m + 1)
      BY <3>2, FirstNew DEF e
    <3>4. \A j \in 1..(m + 1) : cvss[j].version <= e.version
      BY <1>1, <1>2, <2>2, <2>3 DEF e
    <3>5. e.version # 0
      BY <1>2, <2>3
    <3> QED BY <2>1, <3>1, <3>3, <3>4, <3>5 DEF ScoredTo, e
  <2>4. CASE ~(e.version > best.highest)
    <3>1. new = best
      BY <1>6, <2>4 DEF ScoreStep
    <3>2. \A j \in 1..(m + 1) : cvss[j].version <= best.highest
      BY <1>1, <1>2, <2>2, <2>4 DEF e
    <3>3. IF best.highest = 0 THEN best.score = 0
          ELSE \E i : FirstOf(cvss, m, best.highest, i) /\ best.score = cvss[i].score
      BY <1>6 DEF ScoredTo
    <3>4. IF best.highest = 0 THEN best.score = 0
          ELSE \E i : FirstOf(cvss, m + 1, best.highest, i) /\ best.score = cvss[i].score
      BY <3>3, FirstKept
    <3> QED BY <1>6, <2>1, <3>1, <3>2, <3>4 DEF ScoredTo, e
  <2> QED BY <2>3, <2>4
<1> QED BY <1>4, <1>5, <1>6 DEF e

NoBest == [score |-> 0, highest |-> 0, final |-> FALSE]

LEMMA BestScored ==
  ASSUME NEW cvss \in Seq(Entries)
  PROVE  \E best \in Bests : BestScore(cvss) = best.score /\ ScoredTo(cvss, Len(cvss), best)
<1> DEFINE n == Len(cvss)
           step == [p \in Bests \X (1..n) |-> ScoreStep(p[1], cvss[p[2]])]
<1>1. n \in Nat /\ DOMAIN cvss = 1..n /\ \A m \in 1..n : cvss[m] \in Entries
  OBVIOUS
<1>2. NoBest \in Bests
  BY DEF NoBest, Bests
<1>3. step \in StepFunctions(n, Bests)
  <2>1. \A best \in Bests : \A m \in 1..n : ScoreStep(best, cvss[m]) \in Bests
    BY <1>1, StepTyped
  <2> QED BY <2>1 DEF StepFunctions
<1>4. \A best \in Bests : \A m \in 1..n : step[<<best, m>>] = ScoreStep(best, cvss[m])
  OBVIOUS
<1> DEFINE g == CHOOSE g : g = [s \in SUBSET DOMAIN cvss |->
                  IF s = {} THEN NoBest ELSE ScoreStep(g[s \ {Max(s)}], cvss[Max(s)])]
<1>5. BestScore(cvss) = g[1..n].score
  BY <1>1 DEF BestScore, FoldLeft, MapThenFoldSet, ScoreStep, NoBest
<1> HIDE DEF step, n
<1>6. PICK f : IsFold(n, Bests, NoBest, step, f)
  BY <1>1, <1>2, <1>3, FoldDefined
<1>7. f = [s \in SUBSET DOMAIN cvss |->
             IF s = {} THEN NoBest ELSE ScoreStep(f[s \ {Max(s)}], cvss[Max(s)])]
  <2>1. ASSUME NEW s \in SUBSET (1..n)
        PROVE  f[s] = IF s = {} THEN NoBest ELSE ScoreStep(f[s \ {Max(s)}], cvss[Max(s)])
    BY <1>1, <1>4, <1>6, MaxBelow DEF IsFold
  <2> QED BY <1>1, <1>6, <2>1 DEF IsFold
<1>8. g = [s \in SUBSET DOMAIN cvss |->
             IF s = {} THEN NoBest ELSE ScoreStep(g[s \ {Max(s)}], cvss[Max(s)])]
  BY <1>7
<1> HIDE DEF g
<1>9. FollowsFold(n, Bests, NoBest, step, g)
  BY <1>1, <1>4, <1>8, MaxBelow DEF FollowsFold
<1>10. PICK t : IsTrace(n, Bests, NoBest, step, g[1..n], t)
  BY <1>1, <1>2, <1>3, <1>9, FoldTrace
<1> DEFINE S == {m \in 0..n : ScoredTo(cvss, m, t[m])}
<1>11. 0 \in S
  <2>1. t[0] = NoBest /\ 1..0 = {}
    BY <1>10 DEF IsTrace
  <2> QED BY <1>1, <2>1 DEF ScoredTo, NoBest
<1>12. ASSUME NEW m \in 1..n, m - 1 \in S PROVE m \in S
  <2>1. m - 1 \in Nat /\ m - 1 \in 0..n /\ m \in 0..n /\ (m - 1) + 1 = m
    BY <1>1
  <2>2. t[m - 1] \in Bests /\ t[m] = ScoreStep(t[m - 1], cvss[m])
    BY <1>1, <1>4, <1>10, <2>1 DEF IsTrace
  <2>3. \A j \in 1..m : cvss[j] \in Entries
    BY <1>1
  <2>4. ScoredTo(cvss, (m - 1) + 1, ScoreStep(t[m - 1], cvss[(m - 1) + 1]))
    BY <1>12, <2>1, <2>2, <2>3, ScoreStepped
  <2> QED BY <2>1, <2>2, <2>4
<1>13. n \in S
  <2> HIDE DEF S
  <2>1. 0..n \subseteq S
    BY <1>1, <1>11, <1>12, FromZeroTo
  <2> QED BY <1>1, <2>1
<1>14. t[n] = g[1..n] /\ t[n] \in Bests
  BY <1>1, <1>10 DEF IsTrace
<1> QED BY <1>5, <1>13, <1>14 DEF n

\* The loop over the scores computes what the comment on it says.
LEMMA PreferredFirst ==
  ASSUME NEW v, v.cvss \in Seq(Entries)
  PROVE  Score("kubescape", v) = ReferenceScore("kubescape", v)
<1> DEFINE cvss == v.cvss
           n == Len(cvss)
           Known == {i \in DOMAIN cvss : cvss[i].version # 0}
           Best == IF \E i \in Known : cvss[i].version = PreferredVersion
                   THEN PreferredVersion ELSE Max({cvss[i].version : i \in Known})
           Preferred == Min({i \in Known : cvss[i].version = Best})
<1>1. n \in Nat /\ DOMAIN cvss = 1..n /\ \A m \in 1..n : cvss[m].version \in Nat
  <2>1. n \in Nat /\ DOMAIN cvss = 1..n /\ \A m \in 1..n : cvss[m] \in Entries
    OBVIOUS
  <2> QED BY <2>1 DEF Entries
<1>2. PICK best \in Bests : BestScore(cvss) = best.score /\ ScoredTo(cvss, n, best)
  BY BestScored
<1>3. Score("kubescape", v) = best.score
  BY <1>2 DEF Score
<1>4. ReferenceScore("kubescape", v) = IF Known = {} THEN 0 ELSE cvss[Preferred].score
  BY DEF ReferenceScore
<1>5. PreferredVersion # 0
  BY DEF PreferredVersion
<1> HIDE DEF cvss, n
<1>6. ASSUME NEW i, FirstOf(cvss, n, Best, i), Best # 0 PROVE Known # {} /\ cvss[Preferred] = cvss[i]
  <2> DEFINE S == {j \in Known : cvss[j].version = Best}
  <2> HIDE DEF Best
  <2>1. i \in S /\ S \subseteq Nat /\ \A j \in S : i <= j
    BY <1>1, <1>6 DEF FirstOf
  <2> HIDE DEF S
  <2>2. Min(S) = i
    BY <2>1, MinIs
  <2> QED BY <2>1, <2>2 DEF S
<1>7. CASE \E j \in 1..n : cvss[j].version = PreferredVersion
  <2>1. PICK i : FirstOf(cvss, n, PreferredVersion, i) /\ best.score = cvss[i].score
    BY <1>2, <1>7 DEF ScoredTo
  <2>2. Best = PreferredVersion
    BY <1>1, <1>5, <1>7
  <2> HIDE DEF Best, Preferred, Known
  <2>3. Known # {} /\ cvss[Preferred] = cvss[i]
    BY <1>5, <1>6, <2>1, <2>2
  <2> QED BY <1>3, <1>4, <2>1, <2>3
<1>8. CASE ~\E j \in 1..n : cvss[j].version = PreferredVersion
  <2>1. /\ \A j \in 1..n : cvss[j].version <= best.highest
        /\ IF best.highest = 0 THEN best.score = 0
           ELSE \E i : FirstOf(cvss, n, best.highest, i) /\ best.score = cvss[i].score
    BY <1>2, <1>8 DEF ScoredTo
  <2>2. CASE best.highest = 0
    <3>1. Known = {}
      BY <1>1, <2>1, <2>2
    <3> QED BY <1>3, <1>4, <2>1, <2>2, <3>1
  <2>3. CASE best.highest # 0
    <3>1. PICK i : FirstOf(cvss, n, best.highest, i) /\ best.score = cvss[i].score
      BY <2>1, <2>3
    <3> DEFINE V == {cvss[j].version : j \in Known}
    <3>2. best.highest \in V /\ V \subseteq Nat /\ \A y \in V : best.highest >= y
      BY <1>1, <2>1, <2>3, <3>1 DEF FirstOf
    <3>3. Max(V) = best.highest
      <4> HIDE DEF V
      <4> QED BY <3>2, MaxIs
    <3>4. Best = best.highest
      BY <1>1, <1>8, <3>3
    <3> HIDE DEF Best, Preferred, Known, V
    <3>5. Known # {} /\ cvss[Preferred] = cvss[i]
      BY <1>6, <2>3, <3>1, <3>4
    <3> QED BY <1>3, <1>4, <3>1, <3>5
  <2> QED BY <2>2, <2>3
<1> QED BY <1>7, <1>8

LEMMA ScoreIsReference ==
  ASSUME NEW k \in Scanners, NEW v, v.cvss \in Seq(Entries)
  PROVE  Score(k, v) = ReferenceScore(k, v)
<1>1. CASE k = "kubescape"
  BY <1>1, PreferredFirst
<1>2. CASE k = "trivy"
  BY <1>2 DEF Score, ReferenceScore
<1> QED BY <1>1, <1>2 DEF Scanners

-----------------------------------------------------------------------------
(* The sum of the summary series of a manifest.                             *)

CountedIn(vulns, s) == {i \in DOMAIN vulns : \E l \in s : l.severity = CountedAs(vulns[i].severity)}

\* The series S are of different severities, one for each that kubescape
\* publishes, and the value vec gives each is the number of its vulnerabilities.
CountsEach(S, vec, vulns) ==
  /\ {l.severity : l \in S} = Severities["kubescape"]
  /\ \A l, o \in S : l.severity = o.severity => l = o
  /\ \A l \in S : vec[l] = Cardinality({i \in DOMAIN vulns :
                                          CountedAs(vulns[i].severity) = l.severity})

\* Such series count every vulnerability once.
LEMMA CountsAddUp ==
  ASSUME NEW S, NEW vec, NEW vulns, NEW L \in Nat, DOMAIN vulns = 1..L,
         CountsEach(S, vec, vulns)
  PROVE  SumOf(vec, S) = L
<1> USE DEF CountsEach
<1> DEFINE value == [s \in SUBSET S |-> Cardinality(CountedIn(vulns, s))]
<1>1. IsFiniteSet(S)
  <2> DEFINE f == [l \in S |-> l.severity]
             K == Severities["kubescape"]
  <2>1. f \in Injection(S, K)
    BY DEF Injection, IsInjective
  <2>2. IsFiniteSet(K)
    BY SeverityAssumption DEF Scanners
  <2> HIDE DEF f, K
  <2> QED BY <2>1, <2>2, FS_Injection
<1>2. \A I : I \subseteq 1..L => IsFiniteSet(I) /\ Cardinality(I) \in Nat
  <2>1. IsFiniteSet(1..L)
    BY FS_Interval
  <2> QED BY <2>1, FS_Subset, FS_CardinalityType
<1>3. \A s : CountedIn(vulns, s) \subseteq 1..L
  BY DEF CountedIn
<1>4. value \in [SUBSET S -> Nat]
  BY <1>2, <1>3
<1>5. value[{}] = 0
  BY FS_EmptySet DEF CountedIn
<1>6. \A s \in SUBSET S : \A x \in s : value[s] = value[s \ {x}] + vec[x]
  <2> SUFFICES ASSUME NEW s \in SUBSET S, NEW x \in s PROVE value[s] = value[s \ {x}] + vec[x]
    OBVIOUS
  <2> DEFINE A == CountedIn(vulns, s \ {x})
             B == {i \in DOMAIN vulns : CountedAs(vulns[i].severity) = x.severity}
  <2>1. CountedIn(vulns, s) = A \cup B
    BY DEF CountedIn
  <2>2. A \cap B = {}
    BY DEF CountedIn
  <2>3. vec[x] = Cardinality(B) /\ A \subseteq 1..L /\ B \subseteq 1..L
    BY <1>3
  <2>4. value[s] = Cardinality(A \cup B) /\ value[s \ {x}] = Cardinality(A)
    BY <2>1
  <2> HIDE DEF A, B, value
  <2>5. IsFiniteSet(A) /\ IsFiniteSet(B) /\ Cardinality(A) \in Nat /\ Cardinality(B) \in Nat
    BY <1>2, <2>3
  <2>6. Cardinality(A \cup B) = Cardinality(A) + Cardinality(B) - Cardinality({})
    BY <2>2, <2>5, FS_Union
  <2>7. Cardinality(A \cup B) = Cardinality(A) + Cardinality(B)
    BY <2>5, <2>6, FS_EmptySet
  <2> QED BY <2>3, <2>4, <2>7
<1>7. value[S] = L
  <2>1. \A i \in 1..L : CountedAs(vulns[i].severity) \in Severities["kubescape"]
    BY SeverityAssumption DEF CountedAs, Scanners
  <2>2. CountedIn(vulns, S) = 1..L
    BY <2>1 DEF CountedIn
  <2>3. Cardinality(1..L) = L
    <3>1. Cardinality(1..L) = IF 1 > L THEN 0 ELSE L - 1 + 1
      BY FS_Interval
    <3> QED BY <3>1
  <2> QED BY <2>2, <2>3
<1> HIDE DEF value
<1>8. SumOf(vec, S) = value[S]
  <2>1. AddsUp(S, vec, value)
    BY <1>4, <1>5, <1>6 DEF AddsUp
  <2> QED BY <1>1, <2>1, SumOver
<1> QED BY <1>7, <1>8

=============================================================================
