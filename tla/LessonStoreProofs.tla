------------------------- MODULE LessonStoreProofs --------------------------
(* What stands in the lesson store, for every set of lessons, groups and runs, *)
(* every order of calls and every crash: an inductive invariant over the log   *)
(* of deltas and the rows of lesson, and what follows from it. The log is read *)
(* by a recursive function on its positions, so what it rebuilds is proved by  *)
(* the least position at which it would go wrong.                              *)
EXTENDS LessonStores, SumTheorems, SequenceTheorems

-----------------------------------------------------------------------------
(* Numbers in order.                                                       *)

Increasing(s) == \A i, j \in DOMAIN s : i < j => s[i] < s[j]

LEMMA OrderExists ==
  ASSUME NEW S \in SUBSET Nat, IsFiniteSet(S)
  PROVE  \E s \in [1 .. Cardinality(S) -> S] : Increasing(s)
  <1> DEFINE Ordered(T) == \E s \in [1 .. Cardinality(T) -> T] : Increasing(s)
             bad == {n \in Nat : \E T \in SUBSET Nat : IsFiniteSet(T) /\ Cardinality(T) = n /\ ~Ordered(T)}
  <1>1. SUFFICES ASSUME ~Ordered(S) PROVE FALSE
    OBVIOUS
  <1>2. bad # {}
    BY <1>1, FS_CardinalityType
  <1>3. PICK m \in bad : \A k \in bad : m <= k
    BY <1>2, LeastOfSome
  <1>4. PICK T \in SUBSET Nat : IsFiniteSet(T) /\ Cardinality(T) = m /\ ~Ordered(T)
    BY <1>3
  <1>5. CASE T = {}
    <2> DEFINE none == [i \in 1 .. 0 |-> 0]
    <2>1. Cardinality(T) = 0
      BY <1>5, FS_EmptySet
    <2>2. none \in [1 .. 0 -> T] /\ Increasing(none)
      BY DEF Increasing
    <2> QED  BY <1>4, <2>1, <2>2
  <1>6. CASE T # {}
    <2>1. PICK x \in T : \A y \in T : x <= y
      BY <1>6, LeastOfSome
    <2> DEFINE U == T \ {x}
    <2>2. IsFiniteSet(U) /\ Cardinality(U) = m - 1 /\ m - 1 \in Nat /\ U \in SUBSET Nat
      <3>1. IsFiniteSet(U) /\ Cardinality(U) = m - 1
        BY <1>4, <2>1, FS_RemoveElement
      <3>2. Cardinality(U) \in Nat
        BY <3>1, FS_CardinalityType
      <3> QED  BY <3>1, <3>2
    <2> HIDE DEF U
    <2>3. Ordered(U)
      <3>1. m - 1 \notin bad
        BY <1>3, <2>2
      <3> QED  BY <2>2, <3>1
    <2>4. PICK s \in [1 .. m - 1 -> U] : Increasing(s)
      BY <2>2, <2>3
    <2> DEFINE t == [i \in 1 .. m |-> IF i = 1 THEN x ELSE s[i - 1]]
    <2>5. \A i \in 1 .. m : i # 1 => i - 1 \in 1 .. m - 1 /\ s[i - 1] \in U
      BY <1>3, <2>2, <2>4
    <2>6. t \in [1 .. m -> T]
      BY <2>1, <2>5 DEF U
    <2>7. ASSUME NEW i \in 1 .. m, NEW j \in 1 .. m, i < j PROVE t[i] < t[j]
      <3>1. j # 1 /\ t[j] = s[j - 1] /\ s[j - 1] \in U
        BY <2>5, <2>7
      <3>2. CASE i = 1
        <4>1. t[i] = x /\ s[j - 1] \in T /\ s[j - 1] # x
          BY <3>1, <3>2 DEF U
        <4>2. x <= s[j - 1] /\ x \in Nat /\ s[j - 1] \in Nat
          BY <1>4, <2>1, <4>1
        <4> QED  BY <3>1, <4>1, <4>2
      <3>3. CASE i # 1
        <4>1. i - 1 \in 1 .. m - 1 /\ j - 1 \in 1 .. m - 1 /\ i - 1 < j - 1 /\ t[i] = s[i - 1]
          BY <2>5, <2>7, <3>1, <3>3
        <4>2. s[i - 1] < s[j - 1]
          BY <2>4, <4>1 DEF Increasing
        <4> QED  BY <3>1, <4>1, <4>2
      <3> QED  BY <3>2, <3>3
    <2>8. Increasing(t)
      BY <2>6, <2>7 DEF Increasing
    <2> QED  BY <1>4, <2>6, <2>8
  <1> QED  BY <1>5, <1>6

\* Every number of the set, once.
LEMMA InOrderOf ==
  ASSUME NEW S \in SUBSET Nat, IsFiniteSet(S)
  PROVE  LET s == InOrder(S) IN
         /\ s \in [1 .. Cardinality(S) -> S] /\ s \in Seq(S)
         /\ Len(s) = Cardinality(S) /\ Cardinality(S) \in Nat
         /\ \A i, j \in 1 .. Cardinality(S) : i # j => s[i] # s[j]
         /\ \A x \in S : \E i \in 1 .. Cardinality(S) : s[i] = x
  <1> DEFINE s == InOrder(S)
             n == Cardinality(S)
  <1>1. n \in Nat
    BY FS_CardinalityType
  <1>2. s \in [1 .. n -> S] /\ Increasing(s)
    BY OrderExists DEF InOrder, Increasing
  <1>3. \A i, j \in 1 .. n : i # j => s[i] # s[j]
    <2>1. \A i, j \in 1 .. n : i < j => s[i] < s[j]
      BY <1>2 DEF Increasing
    <2>2. \A i \in 1 .. n : s[i] \in Nat
      BY <1>2
    <2>3. \A i, j \in 1 .. n : i # j => i < j \/ j < i
      OBVIOUS
    <2> QED  BY <2>1, <2>2, <2>3
  <1>4. s \in Injection(1 .. n, S)
    BY <1>2, <1>3 DEF Injection, IsInjective
  <1>5. Cardinality(1 .. n) = n
    BY <1>1, FS_Interval
  <1>6. s \in Surjection(1 .. n, S)
    BY <1>4, <1>5, FS_Injection
  <1>7. \A x \in S : \E i \in 1 .. n : s[i] = x
    BY <1>6 DEF Surjection
  <1>8. s \in Seq(S) /\ Len(s) = n
    BY <1>1, <1>2
  <1> QED  BY <1>1, <1>2, <1>3, <1>7, <1>8

-----------------------------------------------------------------------------
(* The fold of a log, one delta after the other.                           *)

IsRebuilt(l, s, g) ==
  g = [n \in 0 .. Len(s) |-> IF n = 0 THEN None ELSE FoldDelta(l, g[n - 1], s[n])]

\* The recursion at one position.
FoldsAt(l, s, g, n) == g[n] = IF n = 0 THEN None ELSE FoldDelta(l, g[n - 1], s[n])

LEMMA RebuiltExists ==
  ASSUME NEW l, NEW s, Len(s) \in Nat
  PROVE  \E g : IsRebuilt(l, s, g)
  <1> DEFINE Good(m) == \E g : g = [n \in 0 .. m |-> g[n]] /\ \A n \in 0 .. m : FoldsAt(l, s, g, n)
             bad == {m \in Nat : ~Good(m)}
  <1>1. bad = {}
    <2>1. SUFFICES ASSUME bad # {} PROVE FALSE
      OBVIOUS
    <2>2. PICK m \in bad : \A k \in bad : m <= k
      BY <2>1, LeastOfSome
    <2>3. CASE m = 0
      <3> DEFINE g == [n \in 0 .. 0 |-> None]
      <3>1. g = [n \in 0 .. 0 |-> g[n]] /\ \A n \in 0 .. 0 : FoldsAt(l, s, g, n)
        BY DEF FoldsAt
      <3> QED  BY <2>2, <2>3, <3>1
    <2>4. CASE m # 0
      <3>1. m - 1 \in Nat /\ m - 1 \notin bad
        BY <2>2, <2>4
      <3>2. PICK g : g = [n \in 0 .. m - 1 |-> g[n]] /\ \A n \in 0 .. m - 1 : FoldsAt(l, s, g, n)
        BY <3>1
      <3> DEFINE h == [n \in 0 .. m |-> IF n = m THEN FoldDelta(l, g[m - 1], s[m]) ELSE g[n]]
      <3>3. \A n \in 0 .. m : FoldsAt(l, s, h, n)
        <4> TAKE n \in 0 .. m
        <4>1. CASE n = m
          <5>1. h[n] = FoldDelta(l, g[m - 1], s[m]) /\ h[n - 1] = g[m - 1]
            BY <2>4, <4>1
          <5> HIDE DEF h
          <5> QED  BY <2>4, <4>1, <5>1 DEF FoldsAt
        <4>2. CASE n # m
          <5>1. n \in 0 .. m - 1 /\ h[n] = g[n] /\ (n # 0 => h[n - 1] = g[n - 1])
            BY <4>2
          <5> HIDE DEF h
          <5> QED  BY <3>2, <5>1 DEF FoldsAt
        <4> QED  BY <4>1, <4>2
      <3>4. h = [n \in 0 .. m |-> h[n]]
        OBVIOUS
      <3> HIDE DEF h
      <3> QED  BY <2>2, <3>3, <3>4
    <2> QED  BY <2>3, <2>4
  <1>2. PICK g : g = [n \in 0 .. Len(s) |-> g[n]] /\ \A n \in 0 .. Len(s) : FoldsAt(l, s, g, n)
    BY <1>1
  <1>3. [n \in 0 .. Len(s) |-> g[n]] = [n \in 0 .. Len(s) |-> IF n = 0 THEN None ELSE FoldDelta(l, g[n - 1], s[n])]
    BY <1>2 DEF FoldsAt
  <1>4. IsRebuilt(l, s, g)
    BY <1>2, <1>3 DEF IsRebuilt
  <1> QED  BY <1>4

\* Two logs with the same beginning are rebuilt alike up to its end.
LEMMA RebuiltAlike ==
  ASSUME NEW l, NEW s, NEW t, NEW g, NEW h, IsRebuilt(l, s, g), IsRebuilt(l, t, h),
         Len(s) \in Nat, Len(t) \in Nat, NEW n \in 0 .. Len(s), n <= Len(t),
         \A i \in 1 .. n : s[i] = t[i]
  PROVE  g[n] = h[n]
  <1> DEFINE bad == {k \in Nat : k <= n /\ g[k] # h[k]}
  <1>1. SUFFICES ASSUME bad # {} PROVE FALSE
    OBVIOUS
  <1>2. PICK m \in bad : \A k \in bad : m <= k
    BY <1>1, LeastOfSome
  <1>3. m \in 0 .. Len(s) /\ m \in 0 .. Len(t) /\ g[m] # h[m]
    BY <1>2
  <1>4. g[m] = (IF m = 0 THEN None ELSE FoldDelta(l, g[m - 1], s[m]))
    BY <1>3 DEF IsRebuilt
  <1>5. h[m] = (IF m = 0 THEN None ELSE FoldDelta(l, h[m - 1], t[m]))
    BY <1>3 DEF IsRebuilt
  <1>6. CASE m = 0
    BY <1>3, <1>4, <1>5, <1>6
  <1>7. CASE m # 0
    <2>1. m - 1 \in Nat /\ m - 1 \notin bad /\ m - 1 <= n
      BY <1>2, <1>7
    <2>2. g[m - 1] = h[m - 1] /\ s[m] = t[m]
      BY <1>2, <1>7, <2>1
    <2> QED  BY <1>3, <1>4, <1>5, <1>7, <2>2
  <1> QED  BY <1>6, <1>7

LEMMA ReplayIsRebuilt ==
  ASSUME NEW l, NEW s, Len(s) \in Nat
  PROVE  \E g : IsRebuilt(l, s, g) /\ replayLesson(l, s) = g[Len(s)]
  <1> DEFINE g == CHOOSE g : IsRebuilt(l, s, g)
  <1>1. IsRebuilt(l, s, g)
    BY RebuiltExists
  <1>2. replayLesson(l, s) = g[Len(s)]
    BY DEF replayLesson, IsRebuilt
  <1> QED  BY <1>1, <1>2

\* The log up to position n.
Upto(s, n) == SubSeq(s, 1, n)

LEMMA UptoIs ==
  ASSUME NEW D, NEW s \in Seq(D), NEW n \in 0 .. Len(s)
  PROVE  /\ Upto(s, n) \in Seq(D) /\ Len(Upto(s, n)) = n
         /\ \A i \in 1 .. n : Upto(s, n)[i] = s[i]
         /\ n = Len(s) => Upto(s, n) = s
  <1>1. \A i \in 1 .. n : s[i] \in D
    BY ElementOfSeq
  <1>2. Upto(s, n) \in Seq(D) /\ Len(Upto(s, n)) = n /\ \A i \in 1 .. n : Upto(s, n)[i] = s[i]
    BY <1>1, SubSeqProperties DEF Upto
  <1>3. n = Len(s) => Upto(s, n) = s
    BY SubSeqFull DEF Upto
  <1> QED  BY <1>2, <1>3

\* Only what a log says up to a position counts for what it rebuilds there.
LEMMA ReplaySame ==
  ASSUME NEW D, NEW s \in Seq(D), NEW t \in Seq(D), NEW l, NEW n \in 0 .. Len(s), n <= Len(t),
         \A i \in 1 .. n : s[i] = t[i]
  PROVE  replayLesson(l, Upto(s, n)) = replayLesson(l, Upto(t, n))
  <1>1. Upto(s, n) = Upto(t, n)
    BY UptoIs, SeqEqual
  <1> QED  BY <1>1

LEMMA ReplayNone ==
  ASSUME NEW D, NEW s \in Seq(D), NEW l
  PROVE  replayLesson(l, Upto(s, 0)) = None
  <1>1. Len(s) \in Nat /\ 0 \in 0 .. Len(s)
    OBVIOUS
  <1>2. Len(Upto(s, 0)) = 0
    BY <1>1, UptoIs
  <1>3. PICK g : IsRebuilt(l, Upto(s, 0), g) /\ replayLesson(l, Upto(s, 0)) = g[Len(Upto(s, 0))]
    <2>1. Len(Upto(s, 0)) \in Nat
      BY <1>2
    <2> QED  BY <2>1, ReplayIsRebuilt
  <1> QED  BY <1>2, <1>3 DEF IsRebuilt

LEMMA ReplayStep ==
  ASSUME NEW D, NEW s \in Seq(D), NEW l, NEW n \in 1 .. Len(s)
  PROVE  replayLesson(l, Upto(s, n)) = FoldDelta(l, replayLesson(l, Upto(s, n - 1)), s[n])
  <1>1. /\ Len(Upto(s, n)) = n /\ Len(Upto(s, n - 1)) = n - 1 /\ n \in Nat /\ n - 1 \in Nat
        /\ \A i \in 1 .. n : Upto(s, n)[i] = s[i]
        /\ \A i \in 1 .. n - 1 : Upto(s, n - 1)[i] = Upto(s, n)[i]
    BY UptoIs
  <1>2. PICK g : IsRebuilt(l, Upto(s, n), g) /\ replayLesson(l, Upto(s, n)) = g[n]
    BY <1>1, ReplayIsRebuilt
  <1>3. PICK h : IsRebuilt(l, Upto(s, n - 1), h) /\ replayLesson(l, Upto(s, n - 1)) = h[n - 1]
    BY <1>1, ReplayIsRebuilt
  <1>4. h[n - 1] = g[n - 1]
    BY <1>1, <1>2, <1>3, RebuiltAlike
  <1>5. g[n] = FoldDelta(l, g[n - 1], s[n])
    BY <1>1, <1>2 DEF IsRebuilt
  <1> QED  BY <1>2, <1>3, <1>4, <1>5
-----------------------------------------------------------------------------
(* One delta.                                                              *)

LEMMA NoneIs ==
  /\ None \notin Row /\ None \notin ReplayedRow /\ None \notin Lessons /\ None \notin Groups
  /\ None \notin Runs \X Triggers
  BY LessonAssumption

\* A row is promoted or quarantined, never both.
LEMMA OneVerdict ==
  ASSUME NEW row, row.helpful \in Nat, row.harmful \in Nat
  PROVE  ~(Promotes(row) /\ Quarantines(row))
  <1>1. SUFFICES ASSUME Promotes(row), Quarantines(row) PROVE FALSE
    OBVIOUS
  <1>2. PICK h \in Nat, k \in Nat : h = row.helpful /\ k = row.harmful
    OBVIOUS
  <1>3. 2 * h - (h + k) > 0
    BY <1>1, <1>2 DEF Promotes, WilsonAbove, Samples
  <1>4. 9 * (h + k) - 20 * h > 0
    BY <1>1, <1>2 DEF Quarantines, WilsonBelow, Samples
  <1> QED  BY <1>3, <1>4

LEMMA RulesEffect ==
  ASSUME NEW row \in ReplayedRow
  PROVE  LET new == foldStatusRules(row) IN
         /\ new \in ReplayedRow
         /\ new.helpful = row.helpful /\ new.harmful = row.harmful /\ new.group = row.group
         /\ new.status = IF Promotes(row) THEN "active"
                         ELSE IF Quarantines(row) THEN "quarantined" ELSE row.status
  <1>1. row.helpful \in Nat /\ row.harmful \in Nat
    BY DEF ReplayedRow
  <1>2. ~(Promotes(row) /\ Quarantines(row))
    BY <1>1, OneVerdict
  <1>3. CASE Promotes(row)
    <2>1. foldStatusRules(row) = [row EXCEPT !.status = "active"]
      BY <1>2, <1>3 DEF foldStatusRules
    <2> QED  BY <1>3, <2>1 DEF ReplayedRow, Statuses
  <1>4. CASE Quarantines(row)
    <2>1. foldStatusRules(row) = [row EXCEPT !.status = "quarantined"]
      BY <1>2, <1>4 DEF foldStatusRules
    <2> QED  BY <1>2, <1>4, <2>1 DEF ReplayedRow, Statuses
  <1>5. CASE ~Promotes(row) /\ ~Quarantines(row)
    <2>1. foldStatusRules(row) = row
      BY <1>5 DEF foldStatusRules
    <2> QED  BY <1>5, <2>1 DEF ReplayedRow
  <1> QED  BY <1>3, <1>4, <1>5

\* A delta of another lesson that moves nothing here.
LEMMA FoldOther ==
  ASSUME NEW l, NEW row, NEW d, d.lesson # l, d.target # l \/ row = None
  PROVE  FoldDelta(l, row, d) = row
  BY DEF FoldDelta

LEMMA FoldCreate ==
  ASSUME NEW l, NEW row, NEW d, d.lesson = l, d.type = "CREATE"
  PROVE  FoldDelta(l, row, d) = [status |-> "candidate", group |-> d.group, helpful |-> 0, harmful |-> 0]
  BY DEF FoldDelta

LEMMA DeltaMoves == ASSUME NEW d \in Delta PROVE d.helpful \in Nat /\ d.harmful \in Nat
  BY DEF Delta

LEMMA AddedTo ==
  ASSUME NEW row \in ReplayedRow, NEW d \in Delta
  PROVE  LET new == [row EXCEPT !.helpful = @ + d.helpful, !.harmful = @ + d.harmful] IN
         /\ new \in ReplayedRow /\ new.group = row.group /\ new.status = row.status
         /\ new.helpful = row.helpful + d.helpful /\ new.harmful = row.harmful + d.harmful
  <1>1. PICK h \in Nat, k \in Nat : h = row.helpful + d.helpful /\ k = row.harmful + d.harmful
    <2>1. row.helpful \in Nat /\ row.harmful \in Nat
      BY DEF ReplayedRow
    <2> QED  BY <2>1, DeltaMoves
  <1> DEFINE new == [row EXCEPT !.helpful = h, !.harmful = k]
  <1>2. new = [row EXCEPT !.helpful = @ + d.helpful, !.harmful = @ + d.harmful]
    BY <1>1
  <1>3. new \in ReplayedRow /\ new.group = row.group /\ new.status = row.status
          /\ new.helpful = h /\ new.harmful = k
    BY DEF ReplayedRow
  <1> HIDE DEF new
  <1> QED  BY <1>1, <1>2, <1>3

\* What a mark leaves, before the status rules.
Marked(row, d) == [row EXCEPT !.helpful = @ + d.helpful, !.harmful = @ + d.harmful]

LEMMA FoldMark ==
  ASSUME NEW l, NEW row \in ReplayedRow, NEW d \in Delta, d.lesson = l, d.type \in Marks
  PROVE  LET new == FoldDelta(l, row, d) IN
         /\ new \in ReplayedRow /\ new.group = row.group
         /\ new.helpful = row.helpful + d.helpful /\ new.harmful = row.harmful + d.harmful
         /\ Marked(row, d) \in ReplayedRow
         /\ new.status = IF Promotes(Marked(row, d)) THEN "active"
                         ELSE IF Quarantines(Marked(row, d)) THEN "quarantined" ELSE row.status
  <1>1. row # None /\ d.type # "CREATE"
    BY NoneIs DEF Marks
  <1>2. FoldDelta(l, row, d) = foldStatusRules(Marked(row, d))
    <2>1. d.type # "QUARANTINE" /\ d.type # "RETIRE" /\ d.type # "MERGE_INTO"
      BY DEF Marks
    <2> QED  BY <1>1, <2>1 DEF FoldDelta, Marked
  <1>3. /\ Marked(row, d) \in ReplayedRow /\ Marked(row, d).group = row.group
        /\ Marked(row, d).helpful = row.helpful + d.helpful /\ Marked(row, d).harmful = row.harmful + d.harmful
        /\ Marked(row, d).status = row.status
    BY AddedTo DEF Marked
  <1> QED  BY <1>2, <1>3, RulesEffect

\* What a delta of the lesson itself does to its status, if it is no mark.
LEMMA FoldOwn ==
  ASSUME NEW l, NEW row \in ReplayedRow, NEW d \in Delta, d.lesson = l,
         d.type \notin Marks, d.type # "CREATE"
  PROVE  LET new == FoldDelta(l, row, d) IN
         /\ new \in ReplayedRow /\ new.group = row.group
         /\ d.type # "MERGE_INTO" => new.helpful = row.helpful /\ new.harmful = row.harmful
         /\ d.type = "MERGE_INTO" => new.helpful = 0 /\ new.harmful = 0
         /\ d.type = "EDIT" => new.status = row.status
         /\ d.type = "QUARANTINE" => new.status = "quarantined"
         /\ d.type \in {"RETIRE", "MERGE_INTO"} => new.status = "retired"
  <1>1. row # None /\ d.type \in {"EDIT", "QUARANTINE", "RETIRE", "MERGE_INTO"}
    BY NoneIs DEF Delta, DeltaTypes
  <1>2. CASE d.type = "EDIT"
    <2>1. FoldDelta(l, row, d) = row
      BY <1>1, <1>2 DEF FoldDelta
    <2> QED  BY <1>2, <2>1
  <1>3. CASE d.type = "QUARANTINE"
    <2>1. FoldDelta(l, row, d) = [row EXCEPT !.status = "quarantined"]
      BY <1>1, <1>3 DEF FoldDelta, Marks
    <2> QED  BY <1>3, <2>1 DEF ReplayedRow, Statuses
  <1>4. CASE d.type = "RETIRE"
    <2>1. FoldDelta(l, row, d) = [row EXCEPT !.status = "retired"]
      BY <1>1, <1>4 DEF FoldDelta, Marks
    <2> QED  BY <1>4, <2>1 DEF ReplayedRow, Statuses
  <1>5. CASE d.type = "MERGE_INTO"
    <2> DEFINE new == [row EXCEPT !.status = "retired", !.helpful = 0, !.harmful = 0]
    <2>1. FoldDelta(l, row, d) = new
      BY <1>1, <1>5 DEF FoldDelta, Marks
    <2>2. new \in ReplayedRow /\ new.status = "retired" /\ new.group = row.group
            /\ new.helpful = 0 /\ new.harmful = 0
      BY DEF ReplayedRow, Statuses
    <2> HIDE DEF new
    <2> QED  BY <1>5, <2>1, <2>2
  <1>6. d.type = "EDIT" \/ d.type = "QUARANTINE" \/ d.type = "RETIRE" \/ d.type = "MERGE_INTO"
    BY <1>1
  <1> QED  BY <1>2, <1>3, <1>4, <1>5, <1>6

\* A lesson that another is merged into.
LEMMA FoldTarget ==
  ASSUME NEW l, NEW row \in ReplayedRow, NEW d \in Delta, d.lesson # l, d.target = l
  PROVE  LET new == FoldDelta(l, row, d) IN
         /\ new \in ReplayedRow /\ new.group = row.group /\ new.status = row.status
         /\ new.helpful = row.helpful + d.helpful /\ new.harmful = row.harmful + d.harmful
  <1>1. FoldDelta(l, row, d) = [row EXCEPT !.helpful = @ + d.helpful, !.harmful = @ + d.harmful]
    BY NoneIs DEF FoldDelta
  <1> QED  BY <1>1, AddedTo

-----------------------------------------------------------------------------
(* Logs that a store may write.                                            *)

LEMMA LogFollows ==
  ASSUME NEW s \in Seq(Delta), IsLog(s), NEW n \in 1 .. Len(s)
  PROVE  s[n] \in Delta /\ Follows(s[n], Upto(s, n - 1))
  BY ElementOfSeq, LenProperties DEF IsLog, Upto

\* A log goes on with deltas that follow it.
LEMMA LogGrows ==
  ASSUME NEW s \in Seq(Delta), IsLog(s), NEW t \in Seq(Delta), Len(s) <= Len(t),
         \A i \in 1 .. Len(s) : t[i] = s[i],
         \A n \in Len(s) + 1 .. Len(t) : Follows(t[n], Upto(t, n - 1))
  PROVE  IsLog(t)
  <1>1. Len(s) \in Nat /\ Len(t) \in Nat /\ DOMAIN t = 1 .. Len(t)
    BY LenProperties
  <1>2. ASSUME NEW n \in 1 .. Len(t) PROVE Follows(t[n], Upto(t, n - 1))
    <2>1. CASE n \in 1 .. Len(s)
      <3>1. n - 1 \in 0 .. Len(s) /\ n - 1 \in 0 .. Len(t)
        BY <1>1, <2>1
      <3>2. \A i \in 1 .. n - 1 : t[i] = s[i]
        BY <1>1, <2>1
      <3>3. Upto(t, n - 1) = Upto(s, n - 1)
        BY <3>1, <3>2, UptoIs, SeqEqual
      <3> QED  BY <2>1, <3>3, LogFollows
    <2>2. CASE n \notin 1 .. Len(s)
      BY <1>1, <2>2
    <2> QED  BY <2>1, <2>2
  <1> QED  BY <1>1, <1>2 DEF IsLog, Upto

LEMMA FoldType ==
  ASSUME NEW l, NEW row \in ReplayedRow \cup {None}, NEW d \in Delta,
         d.type = "CREATE" => d.group # None
  PROVE  FoldDelta(l, row, d) \in ReplayedRow \cup {None}
  <1>1. CASE d.lesson = l /\ d.type = "CREATE"
    <2>1. d.group \in Groups
      BY <1>1 DEF Delta
    <2> QED  BY <1>1, <2>1, FoldCreate DEF ReplayedRow, Statuses
  <1>2. CASE ~(d.lesson = l /\ d.type = "CREATE") /\ row = None
    BY <1>2 DEF FoldDelta
  <1>3. CASE d.lesson = l /\ d.type # "CREATE" /\ row # None
    <2>1. row \in ReplayedRow
      BY <1>3
    <2> QED  BY <1>3, <2>1, FoldMark, FoldOwn
  <1>4. CASE d.lesson # l /\ row # None
    <2>1. row \in ReplayedRow
      BY <1>4
    <2> QED  BY <1>4, <2>1, FoldTarget, FoldOther
  <1> QED  BY <1>1, <1>2, <1>3, <1>4

LEMMA ReplayType ==
  ASSUME NEW s \in Seq(Delta), IsLog(s), NEW l, NEW n \in 0 .. Len(s)
  PROVE  replayLesson(l, Upto(s, n)) \in ReplayedRow \cup {None}
  <1> DEFINE At(k) == replayLesson(l, Upto(s, k))
             bad == {k \in Nat : k <= n /\ At(k) \notin ReplayedRow \cup {None}}
  <1>1. SUFFICES ASSUME bad # {} PROVE FALSE
    OBVIOUS
  <1>2. PICK m \in bad : \A k \in bad : m <= k
    BY <1>1, LeastOfSome
  <1>3. m # 0
    BY <1>2, ReplayNone
  <1>4. m \in 1 .. Len(s) /\ m - 1 \in Nat /\ m - 1 <= n /\ ~(m <= m - 1)
    BY <1>2, <1>3
  <1>5. At(m - 1) \in ReplayedRow \cup {None}
    BY <1>2, <1>4
  <1>6. s[m] \in Delta /\ Follows(s[m], Upto(s, m - 1)) /\ At(m) = FoldDelta(l, At(m - 1), s[m])
    BY <1>4, LogFollows, ReplayStep
  <1>7. s[m].type = "CREATE" => s[m].group # None
    BY <1>6 DEF Follows
  <1> HIDE DEF At
  <1> QED  BY <1>2, <1>5, <1>6, <1>7, FoldType

Gone == {"retired", "quarantined"}

\* No delta of a lesson that is there makes it selectable again.
LEMMA FoldGone ==
  ASSUME NEW l, NEW row \in ReplayedRow, row.status \in Gone, NEW d \in Delta,
         d.lesson = l => d.type # "CREATE"
  PROVE  FoldDelta(l, row, d) \in ReplayedRow /\ FoldDelta(l, row, d).status \in Gone
  <1>1. CASE d.lesson = l /\ d.type \in Marks
    <2>1. ~Promotes(Marked(row, d))
      <3>1. Marked(row, d).status = row.status
        BY AddedTo DEF Marked
      <3> QED  BY <3>1 DEF Promotes, Gone
    <2> QED  BY <1>1, <2>1, FoldMark DEF Gone
  <1>2. CASE d.lesson = l /\ d.type \notin Marks
    <2>1. d.type \in {"EDIT", "QUARANTINE", "RETIRE", "MERGE_INTO"}
      BY <1>2 DEF Delta, DeltaTypes
    <2> QED  BY <1>2, <2>1, FoldOwn DEF Gone
  <1>3. CASE d.lesson # l
    BY <1>3, FoldTarget, FoldOther
  <1> QED  BY <1>1, <1>2, <1>3

LEMMA RetiredStaysGone ==
  ASSUME NEW s \in Seq(Delta), IsLog(s), NEW i \in 1 .. Len(s), s[i].type = "RETIRE",
         NEW n \in i .. Len(s)
  PROVE  LET row == replayLesson(s[i].lesson, Upto(s, n))
         IN row \in ReplayedRow /\ row.status \in Gone
  <1> DEFINE l == s[i].lesson
             At(k) == replayLesson(l, Upto(s, k))
             bad == {k \in Nat : i <= k /\ k <= n /\ ~(At(k) \in ReplayedRow /\ At(k).status \in Gone)}
  <1>1. SUFFICES ASSUME bad # {} PROVE FALSE
    OBVIOUS
  <1>2. PICK m \in bad : \A k \in bad : m <= k
    BY <1>1, LeastOfSome
  <1>3. m \in 1 .. Len(s) /\ m - 1 \in Nat /\ ~(m <= m - 1)
    BY <1>2
  <1>4. s[m] \in Delta /\ Follows(s[m], Upto(s, m - 1)) /\ At(m) = FoldDelta(l, At(m - 1), s[m])
    BY <1>3, LogFollows, ReplayStep
  <1>5. At(m - 1) \in ReplayedRow \cup {None}
    BY <1>3, ReplayType
  <1>6. s[m].lesson = l /\ s[m].type # "CREATE" => At(m - 1) # None
    BY <1>4 DEF Follows
  <1>7. s[m].lesson = l /\ s[m].type = "CREATE" => At(m - 1) = None
    BY <1>4 DEF Follows
  <1> HIDE DEF At
  <1>8. CASE m = i
    BY <1>2, <1>4, <1>5, <1>6, <1>8, FoldOwn DEF Gone, Marks
  <1>9. CASE m # i
    <2>1. At(m - 1) \in ReplayedRow /\ At(m - 1).status \in Gone
      BY <1>2, <1>3, <1>9
    <2> QED  BY <1>2, <1>4, <1>7, <2>1, FoldGone, NoneIs
  <1> QED  BY <1>8, <1>9

-----------------------------------------------------------------------------
(* A log conserves credit.                                                 *)

LEMMA WorthIsInt ==
  ASSUME NEW row \in ReplayedRow \cup {None}
  PROVE  Worth(row) \in Int
  BY NoneIs DEF ReplayedRow, Worth, Samples

LibraryWorth(s, n) ==
  SumFunctionOnSet([l \in Lessons |-> Worth(replayLesson(l, Upto(s, n)))], Lessons)

MarksUpto(s, n) == {i \in 1 .. n : IsMark(s[i])}

MarkWorth(s, n) == SumFunctionOnSet([i \in MarksUpto(s, n) |-> s[i].helpful + s[i].harmful], MarksUpto(s, n))

LEMMA MarkWorthStep ==
  ASSUME NEW s \in Seq(Delta), NEW n \in 1 .. Len(s)
  PROVE  /\ MarkWorth(s, n - 1) \in Int
         /\ MarkWorth(s, n) = MarkWorth(s, n - 1) + (IF IsMark(s[n]) THEN s[n].helpful + s[n].harmful ELSE 0)
  <1> DEFINE S == MarksUpto(s, n - 1)
             T == MarksUpto(s, n)
             f == [i \in S |-> s[i].helpful + s[i].harmful]
             g == [i \in T |-> s[i].helpful + s[i].harmful]
  <1>1. IsFiniteSet(S) /\ S \subseteq T
    <2>1. IsFiniteSet(1 .. n - 1) /\ S \in SUBSET (1 .. n - 1)
      BY FS_Interval DEF MarksUpto
    <2> QED  BY <2>1, FS_Subset DEF MarksUpto
  <1>2. \A i \in 1 .. Len(s) : s[i].helpful + s[i].harmful \in Int
    BY ElementOfSeq, DeltaMoves
  <1>3. \A i \in S : f[i] \in Int /\ g[i] = f[i]
    BY <1>1, <1>2 DEF MarksUpto
  <1>4. SumFunctionOnSet(f, S) \in Int
    BY <1>1, <1>3, SumType
  <1>5. CASE IsMark(s[n])
    <2>1. T = S \cup {n} /\ n \notin S
      BY <1>5 DEF MarksUpto
    <2>2. g[n] = s[n].helpful + s[n].harmful /\ g[n] \in Int
      BY <1>2, <2>1
    <2> HIDE DEF S, T, f, g
    <2>3. (\A i \in S : f[i] \in Int /\ g[i] = f[i]) /\ IsFiniteSet(S) /\ g[n] \in Int
      BY <1>1, <1>3, <2>2
    <2>4. SumFunctionOnSet(g, T) = SumFunctionOnSet(f, S) + g[n]
      BY <2>1, <2>3, SumAdd
    <2> QED  BY <1>4, <1>5, <2>2, <2>4 DEF MarkWorth, S, T, f, g
  <1>6. CASE ~IsMark(s[n])
    <2>1. T = S
      BY <1>6 DEF MarksUpto
    <2> QED  BY <1>4, <1>6, <2>1 DEF MarkWorth
  <1> QED  BY <1>5, <1>6

\* One row that changes changes the sum by as much.
LEMMA OneRowChanges ==
  ASSUME NEW f, NEW g, \A l \in Lessons : f[l] \in Int /\ g[l] \in Int, NEW x \in Lessons,
         \A l \in Lessons \ {x} : g[l] = f[l]
  PROVE  /\ SumFunctionOnSet(f, Lessons) \in Int
         /\ SumFunctionOnSet(g, Lessons) = SumFunctionOnSet(f, Lessons) + (g[x] - f[x])
  <1>1. IsFiniteSet(Lessons) /\ Lessons \cup {x} = Lessons
    BY LessonAssumption
  <1>2. (\A l \in Lessons : f[l] \in Int) /\ g[x] \in Int
    OBVIOUS
  <1>3. SumFunctionOnSet(g, Lessons \cup {x})
          = SumFunctionOnSet(f, Lessons) + (g[x] - (IF x \in Lessons THEN f[x] ELSE 0))
    BY <1>1, <1>2, SumUpdate
  <1>4. SumFunctionOnSet(f, Lessons) \in Int
    BY <1>1, <1>2, SumType
  <1> QED  BY <1>1, <1>3, <1>4

LEMMA LibraryWorthStep ==
  ASSUME NEW s \in Seq(Delta), IsLog(s), NEW n \in 1 .. Len(s)
  PROVE  /\ LibraryWorth(s, n - 1) \in Int
         /\ LibraryWorth(s, n) = LibraryWorth(s, n - 1)
                                  + (IF IsMark(s[n]) THEN s[n].helpful + s[n].harmful ELSE 0)
  <1> DEFINE Before(l) == replayLesson(l, Upto(s, n - 1))
             After(l) == replayLesson(l, Upto(s, n))
             d == s[n]
             x == d.lesson
             y == d.target
             f == [l \in Lessons |-> Worth(Before(l))]
             g == [l \in Lessons |-> Worth(After(l))]
  <1>1. d \in Delta /\ x \in Lessons /\ d.helpful \in Nat /\ d.harmful \in Nat
    BY LogFollows DEF Delta
  <1>2. Follows(d, Upto(s, n - 1))
    BY LogFollows
  <1>3. \A l : After(l) = FoldDelta(l, Before(l), d)
    BY ReplayStep
  <1>4. \A l : Before(l) \in ReplayedRow \cup {None} /\ After(l) \in ReplayedRow \cup {None}
    <2>1. n \in 0 .. Len(s) /\ n - 1 \in 0 .. Len(s)
      OBVIOUS
    <2> QED  BY <2>1, ReplayType
  <1>5. /\ IF d.type = "CREATE" THEN Before(x) = None /\ d.group # None ELSE Before(x) # None
        /\ d.type # "MERGE_INTO" => y = None
        /\ d.type = "MERGE_INTO" =>
             /\ y \in Lessons \ {x} /\ Before(y) # None
             /\ d.helpful = Before(x).helpful /\ d.harmful = Before(x).harmful
    BY <1>2 DEF Follows
  <1> HIDE DEF Before, After, d, x, y
  <1>6. \A l \in Lessons : f[l] \in Int /\ g[l] \in Int
    BY <1>4, WorthIsInt
  <1>7. \A l \in Lessons : l # x /\ l # y => g[l] = f[l]
    BY <1>1, <1>3, FoldOther DEF x, y
  <1>8. CASE d.type = "MERGE_INTO"
    <2> DEFINE h == [f EXCEPT ![x] = 0]
               gain == d.helpful + d.harmful
    <2>1. gain \in Int /\ f[x] = gain
      BY <1>1, <1>4, <1>5, <1>8 DEF Worth, Samples
    <2>2. g[x] = 0
      <3>1. Before(x) \in ReplayedRow
        BY <1>4, <1>5, <1>8
      <3>2. After(x) \in ReplayedRow /\ After(x).helpful = 0 /\ After(x).harmful = 0
        BY <1>1, <1>3, <1>8, <3>1, FoldOwn DEF Marks, x
      <3> QED  BY <1>1, <3>2, NoneIs DEF Worth, Samples
    <2>3. y \in Lessons /\ y # x /\ g[y] = f[y] + gain
      <3>1. Before(y) \in ReplayedRow /\ y \in Lessons /\ y # x
        BY <1>4, <1>5, <1>8
      <3>2. /\ After(y) \in ReplayedRow
            /\ After(y).helpful = Before(y).helpful + d.helpful
            /\ After(y).harmful = Before(y).harmful + d.harmful
        BY <1>1, <1>3, <3>1, FoldTarget DEF x, y
      <3>3. Before(y).helpful \in Nat /\ Before(y).harmful \in Nat /\ Before(y) # None /\ After(y) # None
        BY <3>1, <3>2, NoneIs DEF ReplayedRow
      <3> QED  BY <1>1, <3>1, <3>2, <3>3 DEF Worth, Samples
    <2>4. \A l \in Lessons \ {x} : h[l] = f[l]
      OBVIOUS
    <2>5. h[x] = 0 /\ \A l \in Lessons : h[l] \in Int
      BY <1>1, <1>6
    <2>6. \A l \in Lessons \ {y} : g[l] = h[l]
      BY <1>1, <1>7, <2>2, <2>4, <2>5
    <2>7. h[y] = f[y]
      BY <2>3, <2>4
    <2> HIDE DEF h, f, g
    <2>8. /\ SumFunctionOnSet(f, Lessons) \in Int
          /\ SumFunctionOnSet(h, Lessons) = SumFunctionOnSet(f, Lessons) + (h[x] - f[x])
      BY <1>1, <1>6, <2>4, <2>5, OneRowChanges
    <2>9. SumFunctionOnSet(g, Lessons) = SumFunctionOnSet(h, Lessons) + (g[y] - h[y])
      BY <1>6, <2>3, <2>5, <2>6, OneRowChanges
    <2>10. f[y] \in Int
      BY <1>6, <2>3
    <2>11. SumFunctionOnSet(g, Lessons) = SumFunctionOnSet(f, Lessons)
      BY <2>1, <2>3, <2>5, <2>7, <2>8, <2>9, <2>10
    <2>12. ~IsMark(d)
      BY <1>8 DEF IsMark, Marks
    <2> QED  BY <2>8, <2>11, <2>12 DEF LibraryWorth, f, g, Before, After, d
  <1>9. CASE d.type # "MERGE_INTO"
    <2>1. y \notin Lessons
      BY <1>5, <1>9, NoneIs
    <2>2. \A l \in Lessons \ {x} : g[l] = f[l]
      BY <1>7, <2>1
    <2>3. g[x] - f[x] = IF IsMark(d) THEN d.helpful + d.harmful ELSE 0
      <3>1. CASE d.type = "CREATE"
        <4>1. After(x) = [status |-> "candidate", group |-> d.group, helpful |-> 0, harmful |-> 0]
          BY <1>3, <3>1, FoldCreate DEF x
        <4>2. f[x] = 0 /\ g[x] = 0 /\ ~IsMark(d)
          BY <1>1, <1>5, <3>1, <4>1 DEF Worth, Samples, IsMark, Marks
        <4> QED  BY <4>2
      <3>2. CASE d.type # "CREATE"
        <4>1. Before(x) \in ReplayedRow
          BY <1>4, <1>5, <3>2
        <4>2. /\ After(x) \in ReplayedRow
              /\ IsMark(d) => /\ After(x).helpful = Before(x).helpful + d.helpful
                              /\ After(x).harmful = Before(x).harmful + d.harmful
              /\ ~IsMark(d) => /\ After(x).helpful = Before(x).helpful
                               /\ After(x).harmful = Before(x).harmful
          BY <1>1, <1>3, <1>9, <3>2, <4>1, FoldMark, FoldOwn DEF IsMark, x
        <4>3. Before(x).helpful \in Nat /\ Before(x).harmful \in Nat /\ Before(x) # None /\ After(x) # None
          BY <4>1, <4>2, NoneIs DEF ReplayedRow
        <4> QED  BY <1>1, <4>2, <4>3 DEF Worth, Samples
      <3> QED  BY <3>1, <3>2
    <2> HIDE DEF f, g
    <2>4. /\ SumFunctionOnSet(f, Lessons) \in Int
          /\ SumFunctionOnSet(g, Lessons) = SumFunctionOnSet(f, Lessons) + (g[x] - f[x])
      BY <1>1, <1>6, <2>2, OneRowChanges
    <2> QED  BY <2>3, <2>4 DEF LibraryWorth, f, g, Before, After, d
  <1> QED  BY <1>8, <1>9

\* All counters together are all marks together, at any point of a log.
LEMMA LogConserves ==
  ASSUME NEW s \in Seq(Delta), IsLog(s), NEW n \in 0 .. Len(s)
  PROVE  LibraryWorth(s, n) = MarkWorth(s, n)
  <1> DEFINE bad == {k \in Nat : k <= n /\ LibraryWorth(s, k) # MarkWorth(s, k)}
  <1>1. SUFFICES ASSUME bad # {} PROVE FALSE
    OBVIOUS
  <1>2. PICK m \in bad : \A k \in bad : m <= k
    BY <1>1, LeastOfSome
  <1>3. CASE m = 0
    <2>1. MarkWorth(s, 0) = 0
      <3>1. MarksUpto(s, 0) = {}
        BY DEF MarksUpto
      <3> QED  BY <3>1, SumOfNone DEF MarkWorth
    <2> DEFINE f == [l \in Lessons |-> Worth(replayLesson(l, Upto(s, 0)))]
               zero == [l \in Lessons |-> 0]
    <2>2. \A l \in Lessons : f[l] = 0
      BY ReplayNone DEF Worth
    <2>3. SumFunctionOnSet(f, Lessons) = 0
      BY <2>2, SumOfZeros, LessonAssumption
    <2> QED  BY <1>2, <1>3, <2>1, <2>3 DEF LibraryWorth
  <1>4. CASE m # 0
    <2>1. m \in 1 .. Len(s) /\ m - 1 \in Nat /\ m - 1 <= n /\ m - 1 \notin bad
      BY <1>2, <1>4
    <2>2. LibraryWorth(s, m - 1) = MarkWorth(s, m - 1)
      BY <2>1
    <2> QED  BY <1>2, <2>1, <2>2, LibraryWorthStep, MarkWorthStep
  <1> QED  BY <1>3, <1>4

-----------------------------------------------------------------------------
(* Deltas appended to a log.                                               *)

\* The position that follows a log and part of what is appended to it.
LEMMA Joined ==
  ASSUME NEW s \in Seq(Delta), NEW ms \in Seq(Delta)
  PROVE  LET t == s \o ms IN
         /\ t \in Seq(Delta) /\ Len(s) \in Nat /\ Len(ms) \in Nat /\ Len(t) = Len(s) + Len(ms)
         /\ \A i \in 1 .. Len(s) : t[i] = s[i]
         /\ \A i \in 1 .. Len(ms) : t[Len(s) + i] = ms[i]
         /\ Upto(t, Len(s)) = s
         /\ Upto(t, Len(s) + Len(ms)) = t
  <1> DEFINE t == s \o ms
  <1>1. t \in Seq(Delta) /\ Len(s) \in Nat /\ Len(ms) \in Nat /\ Len(t) = Len(s) + Len(ms)
    BY ConcatProperties, LenProperties
  <1>2. \A i \in 1 .. Len(s) + Len(ms) : t[i] = IF i <= Len(s) THEN s[i] ELSE ms[i - Len(s)]
    BY ConcatProperties
  <1> HIDE DEF t
  <1>3. \A i \in 1 .. Len(s) : t[i] = s[i]
    BY <1>1, <1>2
  <1>4. \A i \in 1 .. Len(ms) : t[Len(s) + i] = ms[i]
    <2> TAKE i \in 1 .. Len(ms)
    <2>1. Len(s) + i \in 1 .. Len(s) + Len(ms) /\ ~(Len(s) + i <= Len(s)) /\ (Len(s) + i) - Len(s) = i
      BY <1>1
    <2> QED  BY <1>2, <2>1
  <1>5. Upto(t, Len(s)) = s
    <2>1. Len(s) \in 0 .. Len(t)
      BY <1>1
    <2>2. Upto(t, Len(s)) \in Seq(Delta) /\ Len(Upto(t, Len(s))) = Len(s)
            /\ \A i \in 1 .. Len(s) : Upto(t, Len(s))[i] = s[i]
      BY <1>1, <1>3, <2>1, UptoIs
    <2> QED  BY <2>2, SeqEqual
  <1>6. Upto(t, Len(s) + Len(ms)) = t
    <2>1. Len(t) \in 0 .. Len(t)
      BY <1>1
    <2> QED  BY <1>1, <2>1, UptoIs
  <1> QED  BY <1>1, <1>3, <1>4, <1>5, <1>6 DEF t

\* The lesson after k of the appended deltas.
After(s, ms, l, k) == replayLesson(l, Upto(s \o ms, Len(s) + k))

LEMMA AfterStep ==
  ASSUME NEW s \in Seq(Delta), NEW ms \in Seq(Delta), NEW l
  PROVE  /\ After(s, ms, l, 0) = replayLesson(l, s)
         /\ After(s, ms, l, Len(ms)) = replayLesson(l, s \o ms)
         /\ \A k \in 1 .. Len(ms) : After(s, ms, l, k) = FoldDelta(l, After(s, ms, l, k - 1), ms[k])
  <1> DEFINE t == s \o ms
  <1>1. /\ t \in Seq(Delta) /\ Len(s) \in Nat /\ Len(ms) \in Nat /\ Len(t) = Len(s) + Len(ms)
        /\ \A i \in 1 .. Len(ms) : t[Len(s) + i] = ms[i]
        /\ Upto(t, Len(s)) = s
        /\ Upto(t, Len(s) + Len(ms)) = t
    BY Joined
  <1> HIDE DEF t
  <1>2. After(s, ms, l, 0) = replayLesson(l, s) /\ After(s, ms, l, Len(ms)) = replayLesson(l, t)
    <2>1. Len(s) + 0 = Len(s)
      BY <1>1
    <2> QED  BY <1>1, <2>1 DEF After, t
  <1>3. ASSUME NEW k \in 1 .. Len(ms)
        PROVE  After(s, ms, l, k) = FoldDelta(l, After(s, ms, l, k - 1), ms[k])
    <2>1. Len(s) + k \in 1 .. Len(t) /\ (Len(s) + k) - 1 = Len(s) + (k - 1) /\ t[Len(s) + k] = ms[k]
      BY <1>1
    <2>2. replayLesson(l, Upto(t, Len(s) + k))
            = FoldDelta(l, replayLesson(l, Upto(t, (Len(s) + k) - 1)), t[Len(s) + k])
      BY <1>1, <2>1, ReplayStep
    <2> QED  BY <2>1, <2>2 DEF After, t
  <1> QED  BY <1>2, <1>3 DEF t

LEMMA JoinedIsLog ==
  ASSUME NEW s \in Seq(Delta), IsLog(s), NEW ms \in Seq(Delta),
         \A k \in 1 .. Len(ms) : Follows(ms[k], Upto(s \o ms, Len(s) + (k - 1)))
  PROVE  s \o ms \in Seq(Delta) /\ IsLog(s \o ms)
  <1> DEFINE t == s \o ms
  <1>1. /\ t \in Seq(Delta) /\ Len(s) \in Nat /\ Len(ms) \in Nat /\ Len(t) = Len(s) + Len(ms)
        /\ \A i \in 1 .. Len(s) : t[i] = s[i]
        /\ \A i \in 1 .. Len(ms) : t[Len(s) + i] = ms[i]
    BY Joined
  <1>2. \A k \in 1 .. Len(ms) : Follows(ms[k], Upto(t, Len(s) + (k - 1)))
    OBVIOUS
  <1> HIDE DEF t
  <1>3. ASSUME NEW n \in Len(s) + 1 .. Len(t) PROVE Follows(t[n], Upto(t, n - 1))
    <2>1. PICK k \in 1 .. Len(ms) : n = Len(s) + k
      <3>1. n - Len(s) \in 1 .. Len(ms) /\ n = Len(s) + (n - Len(s))
        BY <1>1
      <3> QED  BY <3>1
    <2>2. t[n] = ms[k] /\ n - 1 = Len(s) + (k - 1)
      BY <1>1, <2>1
    <2> QED  BY <1>2, <2>2
  <1>4. IsLog(t)
    <2>1. Len(s) <= Len(t)
      BY <1>1
    <2> QED  BY <1>1, <1>3, <2>1, LogGrows
  <1> QED  BY <1>1, <1>4 DEF t

\* One delta.
LEMMA AppendOne ==
  ASSUME NEW s \in Seq(Delta), IsLog(s), NEW d \in Delta, Follows(d, s)
  PROVE  LET t == Append(s, d) IN
         /\ t \in Seq(Delta) /\ IsLog(t) /\ Len(t) = Len(s) + 1 /\ t[Len(s) + 1] = d
         /\ \A i \in 1 .. Len(s) : t[i] = s[i]
         /\ \A l : replayLesson(l, t) = FoldDelta(l, replayLesson(l, s), d)
  <1> DEFINE ms == <<d>>
  <1>1. ms \in Seq(Delta) /\ Len(ms) = 1 /\ ms[1] = d /\ Append(s, d) = s \o ms
    BY AppendIsConcat
  <1> HIDE DEF ms
  <1>2. /\ Len(s) \in Nat /\ Upto(s \o ms, Len(s)) = s
        /\ Append(s, d) \in Seq(Delta) /\ Len(Append(s, d)) = Len(s) + 1 /\ Append(s, d)[Len(s) + 1] = d
        /\ \A i \in 1 .. Len(s) : Append(s, d)[i] = s[i]
    BY <1>1, Joined, AppendProperties
  <1>3. \A k \in 1 .. Len(ms) : Follows(ms[k], Upto(s \o ms, Len(s) + (k - 1)))
    <2> TAKE k \in 1 .. Len(ms)
    <2>1. k = 1 /\ Len(s) + (k - 1) = Len(s)
      BY <1>1, <1>2
    <2> QED  BY <1>1, <1>2, <2>1
  <1>4. IsLog(s \o ms)
    BY <1>1, <1>3, JoinedIsLog
  <1>5. ASSUME NEW l PROVE replayLesson(l, s \o ms) = FoldDelta(l, replayLesson(l, s), d)
    <2>1. 1 \in 1 .. Len(ms) /\ 1 - 1 = 0
      BY <1>1
    <2>2. After(s, ms, l, 1) = FoldDelta(l, After(s, ms, l, 0), d)
      BY <1>1, <2>1, AfterStep
    <2> QED  BY <1>1, <2>2, AfterStep
  <1> QED  BY <1>1, <1>2, <1>4, <1>5

-----------------------------------------------------------------------------
(* The marks of a validation.                                              *)

\* Marks of lessons that are there.
MarksFor(s, ms) ==
  /\ s \in Seq(Delta) /\ IsLog(s) /\ ms \in Seq(Delta)
  /\ \A i \in 1 .. Len(ms) : /\ ms[i].type \in Marks /\ ms[i].target = None
                            /\ replayLesson(ms[i].lesson, s) # None

Helping(ms, l, k) == [i \in 1 .. k |-> IF ms[i].lesson = l THEN ms[i].helpful ELSE 0]
Harming(ms, l, k) == [i \in 1 .. k |-> IF ms[i].lesson = l THEN ms[i].harmful ELSE 0]

LEMMA SumStep ==
  ASSUME NEW k \in Nat \ {0}, NEW f, NEW g, \A i \in 1 .. k - 1 : f[i] \in Nat /\ g[i] = f[i], g[k] \in Nat
  PROVE  /\ SumFunctionOnSet(f, 1 .. k - 1) \in Nat
         /\ SumFunctionOnSet(g, 1 .. k) = SumFunctionOnSet(f, 1 .. k - 1) + g[k]
  <1> DEFINE S == 1 .. k - 1
  <1>1. IsFiniteSet(S)
    <2>1. 1 \in Int /\ k - 1 \in Int
      OBVIOUS
    <2> QED  BY <2>1, FS_Interval
  <1>2. S \cup {k} = 1 .. k /\ k \notin S
    OBVIOUS
  <1>3. (\A i \in S : f[i] \in Int /\ g[i] = f[i]) /\ (\A i \in S : f[i] \in Nat) /\ g[k] \in Int
    OBVIOUS
  <1> HIDE DEF S
  <1>4. SumFunctionOnSet(g, S \cup {k}) = SumFunctionOnSet(f, S) + g[k]
    BY <1>1, <1>2, <1>3, SumAdd
  <1>5. SumFunctionOnSet(f, S) \in Nat
    BY <1>1, <1>3, SumNat
  <1> QED  BY <1>2, <1>4, <1>5 DEF S

LEMMA HelpingStep ==
  ASSUME NEW ms \in Seq(Delta), NEW l, NEW k \in 1 .. Len(ms)
  PROVE  /\ SumFunctionOnSet(Helping(ms, l, k - 1), 1 .. k - 1) \in Nat
         /\ SumFunctionOnSet(Harming(ms, l, k - 1), 1 .. k - 1) \in Nat
         /\ SumFunctionOnSet(Helping(ms, l, k), 1 .. k)
              = SumFunctionOnSet(Helping(ms, l, k - 1), 1 .. k - 1)
                + (IF ms[k].lesson = l THEN ms[k].helpful ELSE 0)
         /\ SumFunctionOnSet(Harming(ms, l, k), 1 .. k)
              = SumFunctionOnSet(Harming(ms, l, k - 1), 1 .. k - 1)
                + (IF ms[k].lesson = l THEN ms[k].harmful ELSE 0)
  <1>1. \A i \in 1 .. Len(ms) : ms[i].helpful \in Nat /\ ms[i].harmful \in Nat
    BY ElementOfSeq, DeltaMoves
  <1>2. k \in Nat \ {0} /\ \A i \in 1 .. k : i \in 1 .. Len(ms)
    OBVIOUS
  <1> DEFINE f == Helping(ms, l, k - 1)
             g == Helping(ms, l, k)
             u == Harming(ms, l, k - 1)
             v == Harming(ms, l, k)
  <1>3. /\ \A i \in 1 .. k - 1 : f[i] \in Nat /\ g[i] = f[i] /\ u[i] \in Nat /\ v[i] = u[i]
        /\ g[k] = (IF ms[k].lesson = l THEN ms[k].helpful ELSE 0) /\ g[k] \in Nat
        /\ v[k] = (IF ms[k].lesson = l THEN ms[k].harmful ELSE 0) /\ v[k] \in Nat
    BY <1>1, <1>2 DEF Helping, Harming
  <1> HIDE DEF f, g, u, v
  <1>4. /\ SumFunctionOnSet(f, 1 .. k - 1) \in Nat
        /\ SumFunctionOnSet(g, 1 .. k) = SumFunctionOnSet(f, 1 .. k - 1) + g[k]
    BY <1>2, <1>3, SumStep
  <1>5. /\ SumFunctionOnSet(u, 1 .. k - 1) \in Nat
        /\ SumFunctionOnSet(v, 1 .. k) = SumFunctionOnSet(u, 1 .. k - 1) + v[k]
    BY <1>2, <1>3, SumStep
  <1> QED  BY <1>3, <1>4, <1>5 DEF f, g, u, v

LEMMA MarksCount ==
  ASSUME NEW s, NEW ms, MarksFor(s, ms), NEW l \in Lessons, NEW k \in 0 .. Len(ms)
  PROVE  LET row == replayLesson(l, s)
             new == After(s, ms, l, k)
         IN /\ row = None => new = None
            /\ row # None =>
                 /\ row \in ReplayedRow /\ new \in ReplayedRow /\ new.group = row.group
                 /\ new.helpful = row.helpful + SumFunctionOnSet(Helping(ms, l, k), 1 .. k)
                 /\ new.harmful = row.harmful + SumFunctionOnSet(Harming(ms, l, k), 1 .. k)
  <1> DEFINE row == replayLesson(l, s)
             At(j) == After(s, ms, l, j)
             Counts(j) ==
               /\ row = None => At(j) = None
               /\ row # None =>
                    /\ At(j) \in ReplayedRow /\ At(j).group = row.group
                    /\ At(j).helpful = row.helpful + SumFunctionOnSet(Helping(ms, l, j), 1 .. j)
                    /\ At(j).harmful = row.harmful + SumFunctionOnSet(Harming(ms, l, j), 1 .. j)
             bad == {j \in Nat : j <= k /\ ~Counts(j)}
  <1>1. row \in ReplayedRow \cup {None}
    <2>1. Len(s) \in 0 .. Len(s) /\ Upto(s, Len(s)) = s
      BY UptoIs, LenProperties DEF MarksFor
    <2> QED  BY <2>1, ReplayType DEF MarksFor
  <1>2. SUFFICES ASSUME bad # {} PROVE FALSE
    BY <1>1
  <1>3. PICK m \in bad : \A j \in bad : m <= j
    BY <1>2, LeastOfSome
  <1>4. CASE m = 0
    <2>1. At(0) = row
      BY AfterStep DEF MarksFor
    <2>2. SumFunctionOnSet(Helping(ms, l, 0), 1 .. 0) = 0 /\ SumFunctionOnSet(Harming(ms, l, 0), 1 .. 0) = 0
      <3>1. 1 .. 0 = {}
        OBVIOUS
      <3> QED  BY <3>1, SumOfNone
    <2>3. row # None => row.helpful \in Nat /\ row.harmful \in Nat
      BY <1>1 DEF ReplayedRow
    <2> QED  BY <1>1, <1>3, <1>4, <2>1, <2>2, <2>3
  <1>5. CASE m # 0
    <2>1. m \in 1 .. Len(ms) /\ m - 1 \in Nat /\ m - 1 <= k /\ m - 1 \notin bad
      BY <1>3, <1>5
    <2>2. Counts(m - 1)
      BY <2>1
    <2> DEFINE d == ms[m]
    <2>3. /\ At(m) = FoldDelta(l, At(m - 1), d)
          /\ d \in Delta /\ d.type \in Marks /\ d.target = None /\ replayLesson(d.lesson, s) # None
      BY <2>1, AfterStep, ElementOfSeq DEF MarksFor
    <2>4. d.helpful \in Nat /\ d.harmful \in Nat /\ d.target # l
      BY <2>3, DeltaMoves, NoneIs
    <2>5. /\ SumFunctionOnSet(Helping(ms, l, m - 1), 1 .. m - 1) \in Nat
          /\ SumFunctionOnSet(Harming(ms, l, m - 1), 1 .. m - 1) \in Nat
          /\ SumFunctionOnSet(Helping(ms, l, m), 1 .. m)
               = SumFunctionOnSet(Helping(ms, l, m - 1), 1 .. m - 1)
                 + (IF d.lesson = l THEN d.helpful ELSE 0)
          /\ SumFunctionOnSet(Harming(ms, l, m), 1 .. m)
               = SumFunctionOnSet(Harming(ms, l, m - 1), 1 .. m - 1)
                 + (IF d.lesson = l THEN d.harmful ELSE 0)
      BY <2>1, HelpingStep DEF MarksFor
    <2>6. PICK a \in Nat, b \in Nat : /\ a = SumFunctionOnSet(Helping(ms, l, m - 1), 1 .. m - 1)
                                      /\ b = SumFunctionOnSet(Harming(ms, l, m - 1), 1 .. m - 1)
      BY <2>5
    <2> HIDE DEF At, d
    <2>7. CASE row = None
      <3>1. d.lesson # l /\ At(m - 1) = None
        BY <2>2, <2>3, <2>7
      <3> QED  BY <1>3, <2>3, <2>7, <3>1, FoldOther
    <2>8. CASE row # None
      <3>1. /\ At(m - 1) \in ReplayedRow /\ At(m - 1).group = row.group
            /\ At(m - 1).helpful = row.helpful + a /\ At(m - 1).harmful = row.harmful + b
            /\ row.helpful \in Nat /\ row.harmful \in Nat
        BY <1>1, <2>2, <2>6, <2>8 DEF ReplayedRow
      <3>2. CASE d.lesson = l
        <4>1. /\ At(m) \in ReplayedRow /\ At(m).group = row.group
              /\ At(m).helpful = At(m - 1).helpful + d.helpful /\ At(m).harmful = At(m - 1).harmful + d.harmful
          BY <2>3, <3>1, <3>2, FoldMark
        <4>2. PICK h \in Nat, e \in Nat, dh \in Nat, de \in Nat :
                h = row.helpful /\ e = row.harmful /\ dh = d.helpful /\ de = d.harmful
          BY <2>4, <3>1
        <4>3. (h + a) + dh = h + (a + dh) /\ (e + b) + de = e + (b + de)
          OBVIOUS
        <4>4. /\ At(m).helpful = row.helpful + SumFunctionOnSet(Helping(ms, l, m), 1 .. m)
              /\ At(m).harmful = row.harmful + SumFunctionOnSet(Harming(ms, l, m), 1 .. m)
          BY <2>5, <2>6, <3>1, <3>2, <4>1, <4>2, <4>3
        <4> QED  BY <1>3, <2>8, <4>1, <4>4
      <3>3. CASE d.lesson # l
        <4>1. At(m) = At(m - 1)
          BY <2>3, <2>4, <3>3, FoldOther
        <4> QED  BY <1>3, <2>5, <2>6, <2>8, <3>1, <3>3, <4>1
      <3> QED  BY <3>2, <3>3
    <2> QED  BY <2>7, <2>8
  <1> QED  BY <1>4, <1>5

LEMMA MarksAreLogged ==
  ASSUME NEW s, NEW ms, MarksFor(s, ms)
  PROVE  s \o ms \in Seq(Delta) /\ IsLog(s \o ms)
  <1>1. ASSUME NEW k \in 1 .. Len(ms) PROVE Follows(ms[k], Upto(s \o ms, Len(s) + (k - 1)))
    <2>1. /\ ms[k].type \in Marks /\ ms[k].target = None
          /\ replayLesson(ms[k].lesson, s) # None /\ ms[k].lesson \in Lessons
      <3>1. ms[k] \in Delta
        BY <1>1, ElementOfSeq DEF MarksFor
      <3>2. ms[k].lesson \in Lessons
        BY <3>1 DEF Delta
      <3> QED  BY <1>1, <3>2 DEF MarksFor
    <2>2. k - 1 \in 0 .. Len(ms)
      BY LenProperties DEF MarksFor
    <2>3. After(s, ms, ms[k].lesson, k - 1) \in ReplayedRow
      BY <2>1, <2>2, MarksCount
    <2>4. replayLesson(ms[k].lesson, Upto(s \o ms, Len(s) + (k - 1))) # None
      BY <2>3, NoneIs DEF After
    <2> QED  BY <2>1, <2>4 DEF Follows, Marks
  <1> QED  BY <1>1, JoinedIsLog DEF MarksFor

\* A lesson that one of the marks is for is folded once, one without a mark not at all.
LEMMA MarksFoldOnce ==
  ASSUME NEW s, NEW ms, MarksFor(s, ms), NEW l \in Lessons
  PROVE  LET row == replayLesson(l, s)
             new == replayLesson(l, s \o ms)
         IN /\ (\A i \in 1 .. Len(ms) : ms[i].lesson # l) => new = row
            /\ \A j \in 1 .. Len(ms) :
                 (\A i \in 1 .. Len(ms) : ms[i].lesson = l <=> i = j) => new = FoldDelta(l, row, ms[j])
  <1> DEFINE row == replayLesson(l, s)
             At(k) == After(s, ms, l, k)
  <1>1. /\ At(0) = row /\ At(Len(ms)) = replayLesson(l, s \o ms) /\ Len(ms) \in Nat
        /\ \A k \in 1 .. Len(ms) : At(k) = FoldDelta(l, At(k - 1), ms[k])
    <2>1. s \in Seq(Delta) /\ ms \in Seq(Delta)
      BY DEF MarksFor
    <2> QED  BY <2>1, AfterStep, LenProperties
  <1>2. \A k \in 1 .. Len(ms) : ms[k].lesson # l => At(k) = At(k - 1)
    BY <1>1, FoldOther, NoneIs DEF MarksFor
  <1> HIDE DEF At, row
  <1>3. ASSUME NEW p \in 0 .. Len(ms), NEW q \in p .. Len(ms),
               \A i \in p + 1 .. q : ms[i].lesson # l
        PROVE  At(q) = At(p)
    <2> DEFINE bad == {k \in Nat : p <= k /\ k <= q /\ At(k) # At(p)}
    <2>1. SUFFICES ASSUME bad # {} PROVE FALSE
      BY <1>1
    <2>2. PICK m \in bad : \A k \in bad : m <= k
      BY <2>1, LeastOfSome
    <2>3. m # p
      BY <2>2
    <2>4. m - 1 \in Nat /\ p <= m - 1 /\ m - 1 <= q /\ m - 1 \notin bad /\ m \in p + 1 .. q /\ m \in 1 .. Len(ms)
      BY <1>1, <2>2, <2>3
    <2>5. At(m - 1) = At(p) /\ At(m) = At(m - 1)
      BY <1>2, <1>3, <2>4
    <2> QED  BY <2>2, <2>5
  <1>4. ASSUME \A i \in 1 .. Len(ms) : ms[i].lesson # l PROVE At(Len(ms)) = row
    <2>1. 0 \in 0 .. Len(ms) /\ Len(ms) \in 0 .. Len(ms) /\ \A i \in 0 + 1 .. Len(ms) : ms[i].lesson # l
      BY <1>1, <1>4
    <2> QED  BY <1>1, <1>3, <2>1
  <1>5. ASSUME NEW j \in 1 .. Len(ms), \A i \in 1 .. Len(ms) : ms[i].lesson = l <=> i = j
        PROVE  At(Len(ms)) = FoldDelta(l, row, ms[j])
    <2>1. j - 1 \in 0 .. Len(ms) /\ 0 \in 0 .. Len(ms) /\ \A i \in 0 + 1 .. j - 1 : ms[i].lesson # l
      BY <1>1, <1>5
    <2>2. At(j - 1) = row
      BY <1>1, <1>3, <2>1
    <2>3. j \in 0 .. Len(ms) /\ Len(ms) \in j .. Len(ms) /\ \A i \in j + 1 .. Len(ms) : ms[i].lesson # l
      BY <1>1, <1>5
    <2>4. At(Len(ms)) = At(j)
      BY <1>3, <2>3
    <2> QED  BY <1>1, <2>2, <2>4
  <1> QED  BY <1>1, <1>4, <1>5 DEF row

-----------------------------------------------------------------------------
(* What the curator merges and retires.                                    *)

\* Merges of different lessons that are there into others that are and that stay.
MergesFor(s, ms) ==
  /\ s \in Seq(Delta) /\ IsLog(s) /\ ms \in Seq(Delta)
  /\ \A i \in 1 .. Len(ms) :
       /\ ms[i].type = "MERGE_INTO"
       /\ replayLesson(ms[i].lesson, s) # None
       /\ ms[i].helpful = replayLesson(ms[i].lesson, s).helpful
       /\ ms[i].harmful = replayLesson(ms[i].lesson, s).harmful
       /\ ms[i].target \in Lessons /\ replayLesson(ms[i].target, s) # None
  /\ \A i, j \in 1 .. Len(ms) : i # j => ms[i].lesson # ms[j].lesson
  /\ \A i, j \in 1 .. Len(ms) : ms[i].target # ms[j].lesson

IsMerged(ms, l, k) == \E i \in 1 .. k : ms[i].lesson = l

Into(ms, l, k) == {x \in Lessons : \E i \in 1 .. k : ms[i].lesson = x /\ ms[i].target = l}

HelpfulOf(s, S) == SumFunctionOnSet([x \in S |-> replayLesson(x, s).helpful], S)
HarmfulOf(s, S) == SumFunctionOnSet([x \in S |-> replayLesson(x, s).harmful], S)

LEMMA ReplayedNow ==
  ASSUME NEW s \in Seq(Delta), IsLog(s), NEW l
  PROVE  replayLesson(l, s) \in ReplayedRow \cup {None}
  <1>1. Len(s) \in 0 .. Len(s) /\ Upto(s, Len(s)) = s
    BY UptoIs, LenProperties
  <1> QED  BY <1>1, ReplayType

LEMMA CountersOf ==
  ASSUME NEW row \in ReplayedRow
  PROVE  row.helpful \in Nat /\ row.harmful \in Nat /\ row # None
  BY NoneIs DEF ReplayedRow

LEMMA HelpfulOfOneMore ==
  ASSUME NEW s \in Seq(Delta), IsLog(s), NEW S \in SUBSET Lessons, NEW x \in Lessons \ S,
         \A y \in S \cup {x} : replayLesson(y, s) # None
  PROVE  /\ HelpfulOf(s, S) \in Nat /\ HarmfulOf(s, S) \in Nat
         /\ HelpfulOf(s, S \cup {x}) = HelpfulOf(s, S) + replayLesson(x, s).helpful
         /\ HarmfulOf(s, S \cup {x}) = HarmfulOf(s, S) + replayLesson(x, s).harmful
  <1> DEFINE T == S \cup {x}
             f == [y \in S |-> replayLesson(y, s).helpful]
             g == [y \in T |-> replayLesson(y, s).helpful]
             u == [y \in S |-> replayLesson(y, s).harmful]
             v == [y \in T |-> replayLesson(y, s).harmful]
  <1>1. IsFiniteSet(S)
    BY LessonAssumption, FS_Subset
  <1>2. \A y \in T : replayLesson(y, s).helpful \in Nat /\ replayLesson(y, s).harmful \in Nat
    BY ReplayedNow, CountersOf
  <1>3. /\ \A y \in S : f[y] \in Nat /\ g[y] = f[y] /\ u[y] \in Nat /\ v[y] = u[y]
        /\ g[x] = replayLesson(x, s).helpful /\ v[x] = replayLesson(x, s).harmful
        /\ g[x] \in Int /\ v[x] \in Int
    BY <1>2
  <1> HIDE DEF f, g, u, v
  <1>4. /\ \A y \in S : f[y] \in Int /\ g[y] = f[y]
        /\ \A y \in S : u[y] \in Int /\ v[y] = u[y]
        /\ \A y \in S : f[y] \in Nat
        /\ \A y \in S : u[y] \in Nat
    BY <1>3
  <1>5. SumFunctionOnSet(g, S \cup {x}) = SumFunctionOnSet(f, S) + g[x]
    BY <1>1, <1>3, <1>4, SumAdd
  <1>6. SumFunctionOnSet(v, S \cup {x}) = SumFunctionOnSet(u, S) + v[x]
    BY <1>1, <1>3, <1>4, SumAdd
  <1>7. SumFunctionOnSet(f, S) \in Nat /\ SumFunctionOnSet(u, S) \in Nat
    BY <1>1, <1>4, SumNat
  <1> QED  BY <1>3, <1>5, <1>6, <1>7 DEF HelpfulOf, HarmfulOf, f, g, u, v

LEMMA MergesCount ==
  ASSUME NEW s, NEW ms, MergesFor(s, ms), NEW l \in Lessons, NEW k \in 0 .. Len(ms)
  PROVE  LET row == replayLesson(l, s)
             new == After(s, ms, l, k)
         IN /\ row = None => new = None
            /\ row # None =>
                 /\ row \in ReplayedRow /\ new \in ReplayedRow /\ new.group = row.group
                 /\ IsMerged(ms, l, k) => new.status = "retired" /\ new.helpful = 0 /\ new.harmful = 0
                 /\ ~IsMerged(ms, l, k) =>
                      /\ new.status = row.status
                      /\ new.helpful = row.helpful + HelpfulOf(s, Into(ms, l, k))
                      /\ new.harmful = row.harmful + HarmfulOf(s, Into(ms, l, k))
  <1> DEFINE row == replayLesson(l, s)
             At(j) == After(s, ms, l, j)
             Counts(j) ==
               /\ row = None => At(j) = None
               /\ row # None =>
                    /\ At(j) \in ReplayedRow /\ At(j).group = row.group
                    /\ IsMerged(ms, l, j) => At(j).status = "retired" /\ At(j).helpful = 0 /\ At(j).harmful = 0
                    /\ ~IsMerged(ms, l, j) =>
                         /\ At(j).status = row.status
                         /\ At(j).helpful = row.helpful + HelpfulOf(s, Into(ms, l, j))
                         /\ At(j).harmful = row.harmful + HarmfulOf(s, Into(ms, l, j))
             bad == {j \in Nat : j <= k /\ ~Counts(j)}
  <1>1. row \in ReplayedRow \cup {None}
    BY ReplayedNow DEF MergesFor
  <1>2. SUFFICES ASSUME bad # {} PROVE FALSE
    BY <1>1
  <1>3. PICK m \in bad : \A j \in bad : m <= j
    BY <1>2, LeastOfSome
  <1>4. CASE m = 0
    <2>1. At(0) = row
      BY AfterStep DEF MergesFor
    <2>2. HelpfulOf(s, Into(ms, l, 0)) = 0 /\ HarmfulOf(s, Into(ms, l, 0)) = 0 /\ ~IsMerged(ms, l, 0)
      <3>1. Into(ms, l, 0) = {} /\ ~IsMerged(ms, l, 0)
        BY DEF Into, IsMerged
      <3> QED  BY <3>1, SumOfNone DEF HelpfulOf, HarmfulOf
    <2>3. row # None => row.helpful \in Nat /\ row.harmful \in Nat
      BY <1>1, CountersOf
    <2> QED  BY <1>1, <1>3, <1>4, <2>1, <2>2, <2>3
  <1>5. CASE m # 0
    <2>1. m \in 1 .. Len(ms) /\ m - 1 \in Nat /\ m - 1 <= k /\ m - 1 \notin bad
      BY <1>3, <1>5
    <2>2. Counts(m - 1)
      BY <2>1
    <2> DEFINE d == ms[m]
               x == d.lesson
               old == Into(ms, l, m - 1)
    <2>3. /\ At(m) = FoldDelta(l, At(m - 1), d)
          /\ d \in Delta /\ d.type = "MERGE_INTO"
      BY <2>1, AfterStep, ElementOfSeq DEF MergesFor
    <2>4. /\ x \in Lessons /\ replayLesson(x, s) # None /\ d.target # x
          /\ d.helpful = replayLesson(x, s).helpful /\ d.harmful = replayLesson(x, s).harmful
      BY <2>1, <2>3 DEF MergesFor, Delta
    <2>5. \A i \in 1 .. m - 1 : ms[i].lesson # x /\ ms[i].target # x
      BY <2>1 DEF MergesFor
    <2>6. \A i \in 1 .. m - 1 : ms[i].lesson # d.target
      BY <2>1 DEF MergesFor
    <2>7. 1 .. m = (1 .. m - 1) \cup {m}
      BY <2>1
    <2>8. /\ IsMerged(ms, l, m) <=> IsMerged(ms, l, m - 1) \/ x = l
          /\ Into(ms, l, m) = old \cup (IF d.target = l THEN {x} ELSE {})
      BY <2>4, <2>7 DEF IsMerged, Into
    <2>9. x \notin old /\ old \in SUBSET Lessons /\ \A y \in old : replayLesson(y, s) # None
      BY <2>1, <2>5 DEF Into, MergesFor
    <2>10. /\ HelpfulOf(s, old) \in Nat /\ HarmfulOf(s, old) \in Nat
           /\ HelpfulOf(s, old \cup {x}) = HelpfulOf(s, old) + d.helpful
           /\ HarmfulOf(s, old \cup {x}) = HarmfulOf(s, old) + d.harmful
      <3>1. /\ s \in Seq(Delta) /\ IsLog(s) /\ x \in Lessons \ old
            /\ \A y \in old \cup {x} : replayLesson(y, s) # None
        BY <2>4, <2>9 DEF MergesFor
      <3> HIDE DEF old, x
      <3> QED  BY <2>4, <2>9, <3>1, HelpfulOfOneMore
    <2>11. PICK a \in Nat, b \in Nat, da \in Nat, db \in Nat :
             /\ a = HelpfulOf(s, old) /\ b = HarmfulOf(s, old) /\ da = d.helpful /\ db = d.harmful
      BY <2>3, <2>10, DeltaMoves
    <2> HIDE DEF At, d, x, old
    <2>12. CASE row = None
      <3>1. l # x /\ At(m - 1) = None
        BY <2>2, <2>4, <2>12
      <3> QED  BY <1>3, <2>3, <2>12, <3>1, FoldOther DEF x
    <2>13. CASE row # None
      <3>1. /\ At(m - 1) \in ReplayedRow /\ At(m - 1).group = row.group /\ row \in ReplayedRow
            /\ row.helpful \in Nat /\ row.harmful \in Nat
        BY <1>1, <2>2, <2>13, CountersOf
      <3>2. CASE x = l
        <4>1. IsMerged(ms, l, m)
          BY <2>8, <3>2
        <4>2. /\ At(m) \in ReplayedRow /\ At(m).group = At(m - 1).group /\ At(m).status = "retired"
              /\ At(m).helpful = 0 /\ At(m).harmful = 0
          BY <2>3, <3>1, <3>2, FoldOwn DEF Marks, x
        <4> QED  BY <1>3, <2>13, <3>1, <4>1, <4>2
      <3>3. CASE d.target = l
        <4>1. ~IsMerged(ms, l, m) /\ ~IsMerged(ms, l, m - 1) /\ x # l /\ Into(ms, l, m) = old \cup {x}
          BY <2>4, <2>6, <2>8, <3>3 DEF IsMerged
        <4>2. /\ At(m) \in ReplayedRow /\ At(m).group = row.group /\ At(m).status = At(m - 1).status
              /\ At(m).helpful = At(m - 1).helpful + d.helpful /\ At(m).harmful = At(m - 1).harmful + d.harmful
          BY <2>3, <3>1, <3>3, <4>1, FoldTarget DEF x
        <4>3. /\ At(m - 1).status = row.status
              /\ At(m - 1).helpful = row.helpful + a /\ At(m - 1).harmful = row.harmful + b
          BY <2>2, <2>11, <2>13, <4>1 DEF old
        <4>4. PICK h \in Nat, e \in Nat : h = row.helpful /\ e = row.harmful
          BY <3>1
        <4>5. (h + a) + da = h + (a + da) /\ (e + b) + db = e + (b + db)
          OBVIOUS
        <4>6. /\ At(m).helpful = row.helpful + HelpfulOf(s, Into(ms, l, m))
              /\ At(m).harmful = row.harmful + HarmfulOf(s, Into(ms, l, m))
          BY <2>10, <2>11, <4>1, <4>2, <4>3, <4>4, <4>5
        <4> QED  BY <1>3, <2>13, <4>1, <4>2, <4>3, <4>6
      <3>4. CASE x # l /\ d.target # l
        <4>1. At(m) = At(m - 1)
          BY <2>3, <3>4, FoldOther DEF x
        <4>2. (IsMerged(ms, l, m) <=> IsMerged(ms, l, m - 1)) /\ Into(ms, l, m) = Into(ms, l, m - 1)
          BY <2>8, <3>4 DEF old
        <4> QED  BY <1>3, <2>2, <4>1, <4>2
      <3> QED  BY <3>2, <3>3, <3>4
    <2> QED  BY <2>12, <2>13
  <1> QED  BY <1>4, <1>5

LEMMA MergesAreLogged ==
  ASSUME NEW s, NEW ms, MergesFor(s, ms)
  PROVE  s \o ms \in Seq(Delta) /\ IsLog(s \o ms)
  <1>1. ASSUME NEW k \in 1 .. Len(ms) PROVE Follows(ms[k], Upto(s \o ms, Len(s) + (k - 1)))
    <2> DEFINE d == ms[k]
    <2>1. k - 1 \in 0 .. Len(ms)
      BY LenProperties DEF MergesFor
    <2>2. /\ d.type = "MERGE_INTO" /\ replayLesson(d.lesson, s) # None
          /\ d.helpful = replayLesson(d.lesson, s).helpful /\ d.harmful = replayLesson(d.lesson, s).harmful
          /\ d.target \in Lessons \ {d.lesson} /\ replayLesson(d.target, s) # None
      BY DEF MergesFor
    <2>3. d.lesson \in Lessons
      <3>1. d \in Delta
        BY ElementOfSeq DEF MergesFor
      <3> QED  BY <3>1 DEF Delta
    <2>4. After(s, ms, d.target, k - 1) # None
      BY <2>1, <2>2, MergesCount, CountersOf
    <2>5. ~IsMerged(ms, d.lesson, k - 1) /\ Into(ms, d.lesson, k - 1) = {}
      BY <2>1 DEF IsMerged, Into, MergesFor
    <2>6. HelpfulOf(s, Into(ms, d.lesson, k - 1)) = 0 /\ HarmfulOf(s, Into(ms, d.lesson, k - 1)) = 0
      BY <2>5, SumOfNone DEF HelpfulOf, HarmfulOf
    <2> HIDE DEF d
    <2>7. /\ After(s, ms, d.lesson, k - 1) # None
          /\ After(s, ms, d.lesson, k - 1).helpful = d.helpful /\ After(s, ms, d.lesson, k - 1).harmful = d.harmful
      BY <2>1, <2>2, <2>3, <2>5, <2>6, MergesCount, CountersOf
    <2> QED  BY <2>2, <2>4, <2>7 DEF Follows, After, d
  <1> QED  BY <1>1, JoinedIsLog DEF MergesFor

\* Lessons that are there and retire.
RetiresFor(s, ms) ==
  /\ s \in Seq(Delta) /\ IsLog(s) /\ ms \in Seq(Delta)
  /\ \A i \in 1 .. Len(ms) : /\ ms[i].type = "RETIRE" /\ ms[i].target = None
                            /\ replayLesson(ms[i].lesson, s) # None

LEMMA RetiresCount ==
  ASSUME NEW s, NEW ms, RetiresFor(s, ms), NEW l \in Lessons, NEW k \in 0 .. Len(ms)
  PROVE  LET row == replayLesson(l, s)
             new == After(s, ms, l, k)
         IN /\ row = None => new = None
            /\ row # None =>
                 /\ row \in ReplayedRow /\ new \in ReplayedRow /\ new.group = row.group
                 /\ new.helpful = row.helpful /\ new.harmful = row.harmful
                 /\ new.status = IF IsMerged(ms, l, k) THEN "retired" ELSE row.status
  <1> DEFINE row == replayLesson(l, s)
             At(j) == After(s, ms, l, j)
             Counts(j) ==
               /\ row = None => At(j) = None
               /\ row # None =>
                    /\ At(j) \in ReplayedRow /\ At(j).group = row.group
                    /\ At(j).helpful = row.helpful /\ At(j).harmful = row.harmful
                    /\ At(j).status = IF IsMerged(ms, l, j) THEN "retired" ELSE row.status
             bad == {j \in Nat : j <= k /\ ~Counts(j)}
  <1>1. row \in ReplayedRow \cup {None}
    BY ReplayedNow DEF RetiresFor
  <1>2. SUFFICES ASSUME bad # {} PROVE FALSE
    BY <1>1
  <1>3. PICK m \in bad : \A j \in bad : m <= j
    BY <1>2, LeastOfSome
  <1>4. CASE m = 0
    <2>1. At(0) = row /\ ~IsMerged(ms, l, 0)
      BY AfterStep DEF RetiresFor, IsMerged
    <2> QED  BY <1>1, <1>3, <1>4, <2>1
  <1>5. CASE m # 0
    <2>1. m \in 1 .. Len(ms) /\ m - 1 \in Nat /\ m - 1 <= k /\ m - 1 \notin bad
      BY <1>3, <1>5
    <2>2. Counts(m - 1)
      BY <2>1
    <2> DEFINE d == ms[m]
    <2>3. /\ At(m) = FoldDelta(l, At(m - 1), d)
          /\ d \in Delta /\ d.type = "RETIRE" /\ d.target = None /\ replayLesson(d.lesson, s) # None
      BY <2>1, AfterStep, ElementOfSeq DEF RetiresFor
    <2>4. 1 .. m = (1 .. m - 1) \cup {m}
      BY <2>1
    <2>5. IsMerged(ms, l, m) <=> IsMerged(ms, l, m - 1) \/ d.lesson = l
      BY <2>4 DEF IsMerged
    <2> HIDE DEF At, d
    <2>6. CASE row = None
      <3>1. d.lesson # l /\ At(m - 1) = None
        BY <2>2, <2>3, <2>6
      <3> QED  BY <1>3, <2>3, <2>6, <3>1, FoldOther
    <2>7. CASE row # None
      <3>1. At(m - 1) \in ReplayedRow
        BY <2>2, <2>7
      <3>2. CASE d.lesson = l
        <4>1. /\ At(m) \in ReplayedRow /\ At(m).group = At(m - 1).group /\ At(m).status = "retired"
              /\ At(m).helpful = At(m - 1).helpful /\ At(m).harmful = At(m - 1).harmful
          BY <2>3, <3>1, <3>2, FoldOwn DEF Marks
        <4> QED  BY <1>3, <2>2, <2>5, <2>7, <3>2, <4>1
      <3>3. CASE d.lesson # l
        <4>1. At(m) = At(m - 1)
          BY <2>3, <3>3, FoldOther, NoneIs
        <4> QED  BY <1>3, <2>2, <2>5, <3>3, <4>1
      <3> QED  BY <3>2, <3>3
    <2> QED  BY <2>6, <2>7
  <1> QED  BY <1>4, <1>5

LEMMA RetiresAreLogged ==
  ASSUME NEW s, NEW ms, RetiresFor(s, ms)
  PROVE  s \o ms \in Seq(Delta) /\ IsLog(s \o ms)
  <1>1. ASSUME NEW k \in 1 .. Len(ms) PROVE Follows(ms[k], Upto(s \o ms, Len(s) + (k - 1)))
    <2>1. /\ ms[k].type = "RETIRE" /\ ms[k].target = None
          /\ replayLesson(ms[k].lesson, s) # None /\ ms[k].lesson \in Lessons
      <3>1. ms[k] \in Delta
        BY <1>1, ElementOfSeq DEF RetiresFor
      <3>2. ms[k].lesson \in Lessons
        BY <3>1 DEF Delta
      <3> QED  BY <1>1, <3>2 DEF RetiresFor
    <2>2. k - 1 \in 0 .. Len(ms)
      BY LenProperties DEF RetiresFor
    <2>3. After(s, ms, ms[k].lesson, k - 1) # None
      BY <2>1, <2>2, RetiresCount, CountersOf
    <2> QED  BY <2>1, <2>3 DEF Follows, After
  <1> QED  BY <1>1, JoinedIsLog DEF RetiresFor

-----------------------------------------------------------------------------
(* The inductive invariant.                                                *)

\* A receipt: who was given what, and whether its outcome was counted.
Receipt == [lesson: Lessons, injection: Runs \X Triggers, counted: BOOLEAN]

Phases == {"idle", "inject", "rules", "quarantine", "curate"}

Listed(l) == \E i \in 1 .. Len(todo) : todo[i] = l

StandingTypes ==
  /\ lessons \in [Lessons -> Row \cup {None}]
  /\ log \in Seq(Delta) /\ IsLog(log)
  /\ applications \in Seq(Receipt)
  /\ watermark \in 0 .. Len(log)
  /\ snapshot # None => snapshot.upto \in 0 .. Len(log)
  /\ at \in Phases /\ crashes \in Nat
  /\ chosen \subseteq Selectable /\ (at # "inject" => chosen = {})
  /\ at = "inject" => injection \in Runs \X Triggers
  /\ todo \in Seq(Lessons) /\ \A i \in 1 .. Len(todo) : Exists(todo[i])

\* The lessons whose rules are still to be applied.
TodoInv ==
  /\ \A i, j \in 1 .. Len(todo) : i # j => todo[i] # todo[j]
  /\ at \in {"rules", "quarantine"} <=> todo # <<>>
  /\ at = "quarantine" => Quarantines(lessons[todo[1]])

\* Row and fold.
Agrees(row, rebuilt) ==
  /\ row = None => rebuilt = None
  /\ row # None => /\ rebuilt \in ReplayedRow /\ rebuilt.group = row.group
                   /\ rebuilt.helpful = row.helpful /\ rebuilt.harmful = row.harmful

RowsInv == \A l \in Lessons : Agrees(lessons[l], replayLesson(l, log))

\* The status that the rules give a row.
Verdict(row) == IF Promotes(row) THEN "active" ELSE IF Quarantines(row) THEN "quarantined" ELSE row.status

StatusInv ==
  (crashes = 0 /\ MarksAreSingle) =>
    \A l \in Lessons : Exists(l) =>
      replayLesson(l, log).status = IF Listed(l) THEN Verdict(lessons[l]) ELSE lessons[l].status

SameReceipt(delta, receipt) == receipt.lesson = delta.lesson /\ receipt.injection = delta.injection

ReceiptsInv ==
  /\ \A j \in 1 .. Len(applications) : Exists(applications[j].lesson)
  /\ \A i, j \in 1 .. Len(applications) :
       i # j => ~(applications[i].lesson = applications[j].lesson
                  /\ applications[i].injection = applications[j].injection)

\* Every mark has a receipt of its own that is counted.
MarksInv ==
  /\ \A i \in 1 .. Len(log) : IsMark(log[i]) /\ log[i].injection # None =>
       \E j \in 1 .. Len(applications) : SameReceipt(log[i], applications[j]) /\ applications[j].counted
  /\ \A i, j \in 1 .. Len(log) :
       (i # j /\ IsMark(log[i]) /\ IsMark(log[j]) /\ log[i].injection # None)
         => ~(log[i].lesson = log[j].lesson /\ log[i].injection = log[j].injection)

\* A lesson that was given to a run and can still be selected has been counted as used.
PruneInv ==
  /\ \A j \in 1 .. Len(applications) :
       applications[j].lesson \in Selectable => lessons[applications[j].lesson].uses > 0
  /\ \A i \in 1 .. Len(log) : log[i].type = "RETIRE" =>
       /\ Exists(log[i].lesson) /\ log[i].lesson \notin Selectable
       /\ \A j \in 1 .. Len(applications) : applications[j].lesson # log[i].lesson

StandingInv == StandingTypes /\ TodoInv /\ RowsInv /\ StatusInv /\ ReceiptsInv /\ MarksInv /\ PruneInv

-----------------------------------------------------------------------------
(* Deltas that are neither marks nor merges.                               *)

LEMMA NewDeltaIs ==
  ASSUME NEW type \in DeltaTypes, NEW l \in Lessons
  PROVE  LET d == NewDelta(type, l) IN
         d \in Delta /\ d.type = type /\ d.lesson = l /\ d.target = None /\ d.injection = None
  BY DEF NewDelta, Delta

\* A log that goes on.
GoesOn(s, t) == Len(s) \in Nat /\ Len(t) \in Nat /\ Len(s) <= Len(t) /\ \A i \in 1 .. Len(s) : t[i] = s[i]

LEMMA OwnAppended ==
  ASSUME NEW s \in Seq(Delta), IsLog(s), NEW l \in Lessons, replayLesson(l, s) # None,
         NEW type \in {"EDIT", "QUARANTINE"}
  PROVE  LET t == Append(s, NewDelta(type, l))
             row == replayLesson(l, s)
             new == replayLesson(l, t)
         IN /\ t \in Seq(Delta) /\ IsLog(t) /\ GoesOn(s, t)
            /\ Len(t) = Len(s) + 1 /\ t[Len(s) + 1].type = type
            /\ \A x \in Lessons \ {l} : replayLesson(x, t) = replayLesson(x, s)
            /\ row \in ReplayedRow /\ new \in ReplayedRow /\ new.group = row.group
            /\ new.helpful = row.helpful /\ new.harmful = row.harmful
            /\ new.status = IF type = "EDIT" THEN row.status ELSE "quarantined"
  <1> DEFINE d == NewDelta(type, l)
             t == Append(s, d)
  <1>1. d \in Delta /\ d.type = type /\ d.lesson = l /\ d.target = None
    BY NewDeltaIs DEF DeltaTypes
  <1> HIDE DEF d
  <1>2. Follows(d, s)
    BY <1>1 DEF Follows
  <1>3. /\ t \in Seq(Delta) /\ IsLog(t) /\ Len(t) = Len(s) + 1 /\ t[Len(s) + 1] = d
        /\ \A i \in 1 .. Len(s) : t[i] = s[i]
        /\ \A x : replayLesson(x, t) = FoldDelta(x, replayLesson(x, s), d)
    BY <1>1, <1>2, AppendOne
  <1>4. Len(s) \in Nat /\ Len(t) \in Nat
    BY <1>3, LenProperties
  <1> HIDE DEF t
  <1>5. GoesOn(s, t)
    BY <1>3, <1>4 DEF GoesOn
  <1>6. \A x \in Lessons : x # l => replayLesson(x, t) = replayLesson(x, s)
    BY <1>1, <1>3, FoldOther, NoneIs
  <1>7. replayLesson(l, s) \in ReplayedRow
    BY ReplayedNow
  <1>8. type \notin Marks /\ type # "CREATE" /\ type # "MERGE_INTO"
    BY DEF Marks
  <1>9. /\ replayLesson(l, t) \in ReplayedRow /\ replayLesson(l, t).group = replayLesson(l, s).group
        /\ replayLesson(l, t).helpful = replayLesson(l, s).helpful
        /\ replayLesson(l, t).harmful = replayLesson(l, s).harmful
        /\ replayLesson(l, t).status = IF type = "EDIT" THEN replayLesson(l, s).status ELSE "quarantined"
    BY <1>1, <1>3, <1>7, <1>8, FoldOwn
  <1> QED  BY <1>1, <1>3, <1>5, <1>6, <1>7, <1>9 DEF d, t

LEMMA CreateAppended ==
  ASSUME NEW s \in Seq(Delta), IsLog(s), NEW l \in Lessons, replayLesson(l, s) = None, NEW g \in Groups
  PROVE  LET t == Append(s, [NewDelta("CREATE", l) EXCEPT !.group = g]) IN
         /\ t \in Seq(Delta) /\ IsLog(t) /\ GoesOn(s, t)
         /\ Len(t) = Len(s) + 1 /\ t[Len(s) + 1].type = "CREATE"
         /\ \A x \in Lessons \ {l} : replayLesson(x, t) = replayLesson(x, s)
         /\ replayLesson(l, t) = [status |-> "candidate", group |-> g, helpful |-> 0, harmful |-> 0]
  <1> DEFINE d == [NewDelta("CREATE", l) EXCEPT !.group = g]
             t == Append(s, d)
  <1>1. d \in Delta /\ d.type = "CREATE" /\ d.lesson = l /\ d.target = None /\ d.group = g
    BY DEF NewDelta, Delta, DeltaTypes
  <1> HIDE DEF d
  <1>2. Follows(d, s)
    BY <1>1, NoneIs DEF Follows
  <1>3. /\ t \in Seq(Delta) /\ IsLog(t) /\ Len(t) = Len(s) + 1 /\ t[Len(s) + 1] = d
        /\ \A i \in 1 .. Len(s) : t[i] = s[i]
        /\ \A x : replayLesson(x, t) = FoldDelta(x, replayLesson(x, s), d)
    BY <1>1, <1>2, AppendOne
  <1>4. Len(s) \in Nat /\ Len(t) \in Nat
    BY <1>3, LenProperties
  <1> HIDE DEF t
  <1>5. GoesOn(s, t)
    BY <1>3, <1>4 DEF GoesOn
  <1>6. \A x \in Lessons : x # l => replayLesson(x, t) = replayLesson(x, s)
    BY <1>1, <1>3, FoldOther, NoneIs
  <1>7. replayLesson(l, t) = [status |-> "candidate", group |-> g, helpful |-> 0, harmful |-> 0]
    BY <1>1, <1>3, FoldCreate
  <1> QED  BY <1>1, <1>3, <1>5, <1>6, <1>7 DEF d, t

-----------------------------------------------------------------------------
(* Steps that leave part of the store alone.                               *)

\* A log whose marks are single had single marks before.
LEMMA SingleBefore ==
  ASSUME StandingTypes, log' \in Seq(Delta), GoesOn(log, log'), MarksAreSingle'
  PROVE  MarksAreSingle
  <1>1. DOMAIN log = 1 .. Len(log) /\ DOMAIN log' = 1 .. Len(log')
    BY LenProperties DEF StandingTypes
  <1>2. \A i \in DOMAIN log : i \in DOMAIN log' /\ log'[i] = log[i]
    BY <1>1 DEF GoesOn
  <1> QED  BY <1>2 DEF MarksAreSingle

\* A delta that is no mark and retires nobody, and rows that keep their receipts.
LEMMA MarksSurvive ==
  ASSUME StandingTypes, MarksInv, GoesOn(log, log'), Len(log') = Len(log) + 1,
         log'[Len(log) + 1].type \notin Marks, UNCHANGED applications
  PROVE  MarksInv'
  <1>1. \A i \in 1 .. Len(log') : IsMark(log'[i]) => i \in 1 .. Len(log) /\ log'[i] = log[i]
    <2> SUFFICES ASSUME NEW i \in 1 .. Len(log'), IsMark(log'[i]) PROVE i \in 1 .. Len(log) /\ log'[i] = log[i]
      OBVIOUS
    <2>1. i = Len(log) + 1 \/ i \in 1 .. Len(log)
      BY DEF GoesOn
    <2> QED  BY <2>1 DEF IsMark, GoesOn
  <1>2. ASSUME NEW i \in 1 .. Len(log'), IsMark(log'[i]), log'[i].injection # None
        PROVE  \E j \in 1 .. Len(applications) : SameReceipt(log'[i], applications[j]) /\ applications[j].counted
    BY <1>1, <1>2 DEF MarksInv
  <1>3. ASSUME NEW i \in 1 .. Len(log'), NEW j \in 1 .. Len(log'), i # j,
               IsMark(log'[i]), IsMark(log'[j]), log'[i].injection # None
        PROVE  ~(log'[i].lesson = log'[j].lesson /\ log'[i].injection = log'[j].injection)
    BY <1>1, <1>3 DEF MarksInv
  <1> QED  BY <1>2, <1>3 DEF MarksInv, SameReceipt

\* Rows age: none disappears, none becomes selectable again, and no use is forgotten as
\* long as a lesson can be selected.
Ages(x) == Exists(x) =>
  /\ Exists(x)'
  /\ x \in Selectable' => x \in Selectable /\ lessons'[x].uses >= lessons[x].uses

\* What retires is retired already, or is not selectable and has no receipt.
RetiresUnused(i) ==
  \/ \E k \in 1 .. Len(log) : log[k] = log'[i]
  \/ \E x \in Lessons : /\ x = log'[i].lesson /\ Exists(x)' /\ x \notin Selectable'
                        /\ \A j \in 1 .. Len(applications) : applications[j].lesson # x

LEMMA PruneSurvives ==
  ASSUME StandingTypes, StandingTypes', ReceiptsInv, PruneInv, \A x \in Lessons : Ages(x),
         Len(applications') = Len(applications),
         \A j \in 1 .. Len(applications) : applications'[j].lesson = applications[j].lesson,
         \A i \in 1 .. Len(log') : log'[i].type = "RETIRE" => RetiresUnused(i)
  PROVE  PruneInv'
  <1>1. ASSUME NEW j \in 1 .. Len(applications'), applications'[j].lesson \in Selectable'
        PROVE  lessons'[applications'[j].lesson].uses > 0
    <2>1. PICK x \in Lessons : x = applications[j].lesson
      <3>1. applications[j] \in Receipt
        BY ElementOfSeq DEF StandingTypes
      <3> QED  BY <3>1 DEF Receipt
    <2>2. applications'[j].lesson = x /\ Exists(x)
      BY <2>1 DEF ReceiptsInv
    <2>3. x \in Selectable /\ lessons'[x].uses >= lessons[x].uses
      BY <1>1, <2>2 DEF Ages
    <2>4. lessons[x].uses > 0
      BY <2>1, <2>3 DEF PruneInv
    <2>5. lessons[x].uses \in Nat /\ lessons'[x].uses \in Nat
      <3>1. lessons[x] \in Row /\ lessons'[x] \in Row
        BY <1>1, <2>2 DEF StandingTypes, Exists, Selectable
      <3> QED  BY <3>1 DEF Row
    <2> QED  BY <2>2, <2>3, <2>4, <2>5
  <1>2. ASSUME NEW i \in 1 .. Len(log'), log'[i].type = "RETIRE"
        PROVE  \E x \in Lessons : /\ x = log'[i].lesson /\ Exists(x)' /\ x \notin Selectable'
                                 /\ \A j \in 1 .. Len(applications') : applications'[j].lesson # x
    <2>1. CASE \E k \in 1 .. Len(log) : log[k] = log'[i]
      <3>1. PICK k \in 1 .. Len(log) : log[k] = log'[i]
        BY <2>1
      <3>2. PICK x \in Lessons : x = log[k].lesson
        <4>1. log[k] \in Delta
          BY ElementOfSeq DEF StandingTypes
        <4> QED  BY <4>1 DEF Delta
      <3>3. Exists(x) /\ x \notin Selectable /\ \A j \in 1 .. Len(applications) : applications[j].lesson # x
        BY <1>2, <3>1, <3>2 DEF PruneInv
      <3>4. Exists(x)' /\ x \notin Selectable'
        BY <3>3 DEF Ages
      <3> QED  BY <3>1, <3>2, <3>3, <3>4
    <2>2. CASE ~\E k \in 1 .. Len(log) : log[k] = log'[i]
      BY <1>2, <2>2 DEF RetiresUnused
    <2> QED  BY <2>1, <2>2
  <1> QED  BY <1>1, <1>2 DEF PruneInv, Exists

\* Deltas that are appended and retire nobody.
LEMMA RetiresAreOld ==
  ASSUME GoesOn(log, log'), Len(log') = Len(log) + 1, log'[Len(log) + 1].type # "RETIRE"
  PROVE  \A i \in 1 .. Len(log') : log'[i].type = "RETIRE" => RetiresUnused(i)
  <1> SUFFICES ASSUME NEW i \in 1 .. Len(log'), log'[i].type = "RETIRE" PROVE RetiresUnused(i)
    OBVIOUS
  <1>1. i = Len(log) + 1 \/ i \in 1 .. Len(log)
    BY DEF GoesOn
  <1> QED  BY <1>1 DEF GoesOn, RetiresUnused

-----------------------------------------------------------------------------
LEMMA ExistsInLog ==
  ASSUME StandingTypes, RowsInv, NEW l \in Lessons
  PROVE  /\ Exists(l) => lessons[l] \in Row /\ replayLesson(l, log) \in ReplayedRow /\ replayLesson(l, log) # None
         /\ ~Exists(l) => replayLesson(l, log) = None
  BY NoneIs DEF StandingTypes, RowsInv, Agrees, Exists

LEMMA EditKeeps ==
  ASSUME StandingInv, NEW g \in Groups, EditLesson(g)
  PROVE  StandingInv'
  <1> DEFINE l == CHOOSE l \in Existing(g) : \A other \in Existing(g) : l <= other
  <1>1. l \in Lessons /\ Exists(l)
    <2>1. Existing(g) \in SUBSET Nat /\ Existing(g) # {}
      BY LessonAssumption DEF EditLesson, Existing, Selectable
    <2>2. \E x \in Existing(g) : \A other \in Existing(g) : x <= other
      BY <2>1, LeastOfSome
    <2>3. l \in Existing(g)
      BY <2>2
    <2> QED  BY <2>3 DEF Existing, Selectable
  <1>2. /\ log' = Append(log, NewDelta("EDIT", l))
        /\ lessons' = lessons /\ applications' = applications /\ snapshot' = snapshot
        /\ watermark' = watermark /\ at' = at /\ chosen' = chosen /\ injection' = injection
        /\ todo' = todo /\ crashes' = crashes
    BY DEF EditLesson, writer, spent
  <1> HIDE DEF l
  <1>3. /\ log' \in Seq(Delta) /\ IsLog(log') /\ GoesOn(log, log')
        /\ Len(log') = Len(log) + 1 /\ log'[Len(log) + 1].type = "EDIT"
        /\ \A x \in Lessons \ {l} : replayLesson(x, log') = replayLesson(x, log)
        /\ replayLesson(l, log) \in ReplayedRow /\ replayLesson(l, log') \in ReplayedRow
        /\ replayLesson(l, log').group = replayLesson(l, log).group
        /\ replayLesson(l, log').helpful = replayLesson(l, log).helpful
        /\ replayLesson(l, log').harmful = replayLesson(l, log).harmful
        /\ replayLesson(l, log').status = replayLesson(l, log).status
    <2>1. log \in Seq(Delta) /\ IsLog(log) /\ replayLesson(l, log) # None
      BY <1>1, ExistsInLog DEF StandingInv, StandingTypes
    <2> QED  BY <1>1, <1>2, <2>1, OwnAppended
  <1>4. StandingTypes'
    BY <1>2, <1>3 DEF StandingInv, StandingTypes, GoesOn, Selectable, Exists
  <1>5. TodoInv'
    BY <1>2 DEF StandingInv, TodoInv
  <1>6. RowsInv'
    <2>1. \A x \in Lessons : Agrees(lessons[x], replayLesson(x, log))
      BY DEF StandingInv, RowsInv
    <2>2. \A x \in Lessons \ {l} : Agrees(lessons'[x], replayLesson(x, log'))
      BY <1>2, <1>3, <2>1
    <2>3. Agrees(lessons'[l], replayLesson(l, log'))
      BY <1>1, <1>2, <1>3, <2>1 DEF Agrees, Exists
    <2> QED  BY <2>2, <2>3 DEF RowsInv
  <1>7. StatusInv'
    <2>1. MarksAreSingle' => MarksAreSingle
      BY <1>3, SingleBefore DEF StandingInv
    <2> QED  BY <1>2, <1>3, <2>1 DEF StandingInv, StatusInv, Listed, Exists
  <1>8. ReceiptsInv' /\ MarksInv'
    <2>1. MarksInv'
      BY <1>2, <1>3, MarksSurvive DEF StandingInv, Marks
    <2> QED  BY <1>2, <2>1 DEF StandingInv, ReceiptsInv, Exists
  <1>9. PruneInv'
    <2>1. \A x \in Lessons : Ages(x)
      BY <1>2 DEF Ages, Exists, Selectable, StandingInv, StandingTypes, Row
    <2> QED  BY <1>2, <1>3, <1>4, <2>1, RetiresAreOld, PruneSurvives DEF StandingInv
  <1> QED  BY <1>4, <1>5, <1>6, <1>7, <1>8, <1>9 DEF StandingInv

LEMMA ReceiptIs ==
  ASSUME StandingTypes
  PROVE  \A j \in 1 .. Len(applications) :
           /\ applications[j] \in Receipt /\ applications[j].lesson \in Lessons
           /\ applications[j].injection \in Runs \X Triggers
  <1>1. \A j \in 1 .. Len(applications) : applications[j] \in Receipt
    BY ElementOfSeq DEF StandingTypes
  <1> QED  BY <1>1 DEF Receipt

LEMMA CreateKeeps ==
  ASSUME StandingInv, NEW g \in Groups, CreateLesson(g)
  PROVE  StandingInv'
  <1> DEFINE created == [status |-> "candidate", group |-> g, helpful |-> 0, harmful |-> 0, uses |-> 0]
  <1>1. PICK l \in Lessons :
          /\ ~Exists(l)
          /\ log' = Append(log, [NewDelta("CREATE", l) EXCEPT !.group = g])
          /\ lessons' = [lessons EXCEPT ![l] = created]
    BY DEF CreateLesson
  <1>2. /\ applications' = applications /\ snapshot' = snapshot
        /\ watermark' = watermark /\ at' = at /\ chosen' = chosen /\ injection' = injection
        /\ todo' = todo /\ crashes' = crashes /\ at = "idle"
    BY DEF CreateLesson, writer, spent
  <1>3. /\ log' \in Seq(Delta) /\ IsLog(log') /\ GoesOn(log, log')
        /\ Len(log') = Len(log) + 1 /\ log'[Len(log) + 1].type = "CREATE"
        /\ \A x \in Lessons \ {l} : replayLesson(x, log') = replayLesson(x, log)
        /\ replayLesson(l, log') = [status |-> "candidate", group |-> g, helpful |-> 0, harmful |-> 0]
    <2>1. log \in Seq(Delta) /\ IsLog(log) /\ replayLesson(l, log) = None
      BY <1>1, ExistsInLog DEF StandingInv, StandingTypes
    <2> QED  BY <1>1, <2>1, CreateAppended
  <1>4. /\ lessons \in [Lessons -> Row \cup {None}] /\ created \in Row /\ created # None
        /\ todo = <<>>
    BY <1>2, NoneIs DEF StandingInv, StandingTypes, TodoInv, Row, Statuses
  <1>5. lessons'[l] = created /\ \A x \in Lessons \ {l} : lessons'[x] = lessons[x]
    BY <1>1, <1>4
  <1>6. lessons' \in [Lessons -> Row \cup {None}]
    BY <1>1, <1>4
  <1>7. created.status = "candidate" /\ created.group = g /\ created.helpful = 0 /\ created.harmful = 0
    OBVIOUS
  <1> HIDE DEF created
  <1>8. \A x \in Lessons : Exists(x) => x # l /\ lessons'[x] = lessons[x]
    BY <1>1, <1>5
  <1>9. StandingTypes'
    <2>1. \A x \in Selectable : x \in Selectable'
      BY <1>8 DEF Selectable, Exists
    <2> QED  BY <1>2, <1>3, <1>4, <1>6, <2>1, EmptySeq DEF StandingInv, StandingTypes, GoesOn
  <1>10. TodoInv'
    BY <1>2, <1>4 DEF StandingInv, TodoInv
  <1>11. RowsInv'
    <2>1. \A x \in Lessons : Agrees(lessons[x], replayLesson(x, log))
      BY DEF StandingInv, RowsInv
    <2>2. \A x \in Lessons \ {l} : Agrees(lessons'[x], replayLesson(x, log'))
      BY <1>3, <1>5, <2>1
    <2>3. replayLesson(l, log') \in ReplayedRow
      BY <1>3 DEF ReplayedRow, Statuses
    <2>4. Agrees(lessons'[l], replayLesson(l, log'))
      BY <1>3, <1>4, <1>5, <1>7, <2>3 DEF Agrees
    <2> QED  BY <2>2, <2>4 DEF RowsInv
  <1>12. StatusInv'
    <2>1. MarksAreSingle' => MarksAreSingle
      BY <1>3, SingleBefore DEF StandingInv
    <2>2. \A x : ~Listed(x) /\ ~Listed(x)'
      BY <1>2, <1>4 DEF Listed
    <2>3. SUFFICES ASSUME crashes = 0, MarksAreSingle, NEW x \in Lessons, Exists(x)'
          PROVE  replayLesson(x, log)' .status = lessons'[x].status
      BY <1>2, <2>1, <2>2 DEF StatusInv
    <2>4. CASE x = l
      BY <1>3, <1>5, <1>7, <2>4
    <2>5. CASE x # l
      <3>1. Exists(x)
        BY <1>5, <2>3, <2>5 DEF Exists
      <3> QED  BY <1>3, <1>5, <2>2, <2>3, <2>5, <3>1 DEF StandingInv, StatusInv
    <2> QED  BY <2>4, <2>5
  <1>13. ReceiptsInv' /\ MarksInv'
    <2>1. MarksInv'
      BY <1>2, <1>3, MarksSurvive DEF StandingInv, Marks
    <2>2. \A j \in 1 .. Len(applications) : applications[j].lesson \in Lessons
      BY ReceiptIs DEF StandingInv
    <2> QED  BY <1>2, <1>8, <2>1, <2>2 DEF StandingInv, ReceiptsInv, Exists
  <1>14. PruneInv'
    <2>1. \A x \in Lessons : Exists(x) => lessons[x].uses \in Nat
      BY DEF Exists, StandingInv, StandingTypes, Row
    <2>2. \A x \in Lessons : Ages(x)
      BY <1>8, <2>1 DEF Ages, Exists, Selectable
    <2> QED  BY <1>2, <1>3, <1>9, <2>2, RetiresAreOld, PruneSurvives DEF StandingInv
  <1> QED  BY <1>9, <1>10, <1>11, <1>12, <1>13, <1>14 DEF StandingInv

\* Steps that change neither a row nor a delta.
LEMMA QuietKeeps ==
  ASSUME StandingInv, UNCHANGED <<lessons, log, applications>>, StandingTypes', TodoInv',
         crashes' = 0 => crashes = 0 /\ todo' = todo
  PROVE  StandingInv'
  <1>1. RowsInv' /\ ReceiptsInv' /\ MarksInv' /\ PruneInv'
    BY DEF StandingInv, RowsInv, ReceiptsInv, MarksInv, PruneInv, SameReceipt, Exists, Selectable
  <1>2. StatusInv'
    BY DEF StandingInv, StatusInv, MarksAreSingle, Listed, Exists
  <1> QED  BY <1>1, <1>2 DEF StandingInv

LEMMA GrowOldKeeps ==
  ASSUME StandingInv, NEW l \in Lessons, GrowOld(l)
  PROVE  StandingInv'
  <1>1. UNCHANGED <<lessons, log, applications, snapshot, watermark, at, chosen, injection, todo, crashes>>
    BY DEF GrowOld, store, writer, spent
  <1>2. StandingTypes'
    BY <1>1 DEF StandingInv, StandingTypes, Selectable, Exists
  <1>3. TodoInv'
    BY <1>1 DEF StandingInv, TodoInv
  <1> QED  BY <1>1, <1>2, <1>3, QuietKeeps

LEMMA DecideKeeps ==
  ASSUME StandingInv, NEW r \in Runs, NEW t \in Triggers, Decide(r, t)
  PROVE  StandingInv'
  <1>1. /\ UNCHANGED <<lessons, log, applications, watermark, todo, crashes>>
        /\ at = "idle" /\ at' = "inject" /\ injection' = <<r, t>> /\ chosen' \subseteq Selectable
        /\ snapshot' = [upto |-> Len(log),
                        posterior |-> [l \in Selectable |-> <<lessons[l].helpful, lessons[l].harmful>>]]
    BY DEF Decide
  <1>2. snapshot'.upto \in 0 .. Len(log)
    BY <1>1, LenProperties DEF StandingInv, StandingTypes
  <1>3. StandingTypes'
    BY <1>1, <1>2 DEF StandingInv, StandingTypes, Selectable, Exists, Phases
  <1>4. TodoInv'
    BY <1>1 DEF StandingInv, TodoInv
  <1> QED  BY <1>1, <1>3, <1>4, QuietKeeps

LEMMA SkipKeeps ==
  ASSUME StandingInv, SkipCuration
  PROVE  StandingInv'
  <1>1. /\ UNCHANGED <<lessons, log, applications, snapshot, watermark, chosen, injection, todo, crashes>>
        /\ at = "curate" /\ at' = "idle"
    BY DEF SkipCuration, store, spent
  <1>2. StandingTypes'
    BY <1>1 DEF StandingInv, StandingTypes, Selectable, Exists, Phases
  <1>3. TodoInv'
    BY <1>1 DEF StandingInv, TodoInv
  <1> QED  BY <1>1, <1>2, <1>3, QuietKeeps

LEMMA CrashKeeps ==
  ASSUME StandingInv, Crash
  PROVE  StandingInv'
  <1>1. /\ UNCHANGED <<lessons, log, applications, snapshot, watermark>>
        /\ at' = "idle" /\ chosen' = {} /\ injection' = None /\ todo' = <<>> /\ crashes' = crashes + 1
    BY DEF Crash, store
  <1>2. crashes' \in Nat /\ crashes' # 0
    BY <1>1 DEF StandingInv, StandingTypes
  <1>3. StandingTypes'
    BY <1>1, <1>2, EmptySeq DEF StandingInv, StandingTypes, Selectable, Exists, Phases
  <1>4. TodoInv'
    BY <1>1 DEF StandingInv, TodoInv
  <1> QED  BY <1>1, <1>2, <1>3, <1>4, QuietKeeps

LEMMA RecordKeeps ==
  ASSUME StandingInv, NEW l \in Lessons, RecordApplication(l)
  PROVE  StandingInv'
  <1>1. /\ at = "inject" /\ l \in chosen /\ l \in Selectable /\ Exists(l) /\ injection \in Runs \X Triggers
        /\ UNCHANGED <<log, snapshot, watermark, todo, crashes>>
        /\ chosen' = chosen \ {l}
        /\ at' = (IF chosen = {l} THEN "idle" ELSE "inject")
        /\ injection' = (IF chosen = {l} THEN None ELSE injection)
    BY DEF RecordApplication, StandingInv, StandingTypes, spent, Selectable
  <1>2. todo = <<>> /\ \A x : ~Listed(x)
    BY <1>1 DEF StandingInv, TodoInv, Listed
  <1>3. TodoInv'
    BY <1>1, <1>2 DEF TodoInv
  <1>4. CASE AlreadyApplied(l)
    <2>1. UNCHANGED <<applications, lessons>>
      BY <1>4 DEF RecordApplication
    <2>2. StandingTypes'
      BY <1>1, <2>1 DEF StandingInv, StandingTypes, Selectable, Exists, Phases
    <2> QED  BY <1>1, <1>3, <2>1, <2>2, QuietKeeps
  <1>5. CASE ~AlreadyApplied(l)
    <2> DEFINE given == [lesson |-> l, injection |-> injection, counted |-> FALSE]
    <2>1. applications' = Append(applications, given) /\ lessons' = [lessons EXCEPT ![l].uses = @ + 1]
      BY <1>5 DEF RecordApplication
    <2>2. given \in Receipt /\ given.lesson = l /\ given.injection = injection
      BY <1>1 DEF Receipt
    <2>3. applications \in Seq(Receipt) /\ Len(applications) \in Nat /\ DOMAIN applications = 1 .. Len(applications)
      BY LenProperties DEF StandingInv, StandingTypes
    <2> HIDE DEF given
    <2>4. /\ applications' \in Seq(Receipt) /\ Len(applications') = Len(applications) + 1
          /\ \A j \in 1 .. Len(applications) : applications'[j] = applications[j]
          /\ applications'[Len(applications) + 1] = given
      BY <2>1, <2>2, <2>3, AppendProperties
    <2>5. lessons \in [Lessons -> Row \cup {None}] /\ lessons[l] \in Row
      BY <1>1 DEF StandingInv, StandingTypes, Exists
    <2>6. PICK n \in Nat : n = lessons[l].uses
      BY <2>5 DEF Row
    <2>7. [lessons[l] EXCEPT !.uses = n + 1] \in Row
      BY <2>5 DEF Row
    <2>8. lessons' = [lessons EXCEPT ![l] = [lessons[l] EXCEPT !.uses = n + 1]]
      BY <2>1, <2>5, <2>6
    <2>9. /\ lessons' \in [Lessons -> Row \cup {None}]
          /\ lessons'[l] = [lessons[l] EXCEPT !.uses = n + 1]
          /\ \A x \in Lessons \ {l} : lessons'[x] = lessons[x]
      BY <2>5, <2>7, <2>8
    <2>10. /\ lessons'[l] # None /\ lessons'[l].uses = n + 1
           /\ lessons'[l].status = lessons[l].status /\ lessons'[l].group = lessons[l].group
           /\ lessons'[l].helpful = lessons[l].helpful /\ lessons'[l].harmful = lessons[l].harmful
      BY <2>5, <2>7, <2>9, NoneIs DEF Row
    <2>11. \A x \in Lessons : /\ Exists(x) <=> Exists(x)'
                              /\ x \in Selectable <=> x \in Selectable'
                              /\ Exists(x) => lessons'[x].status = lessons[x].status
      BY <1>1, <2>9, <2>10 DEF Exists, Selectable
    <2>12. StandingTypes'
      <3>1. chosen' \subseteq Selectable' /\ (at' # "inject" => chosen' = {})
        BY <1>1, <2>11 DEF StandingInv, StandingTypes, Selectable
      <3> QED  BY <1>1, <1>2, <2>4, <2>9, <3>1 DEF StandingInv, StandingTypes, Phases
    <2>13. RowsInv'
      <3>1. \A x \in Lessons : Agrees(lessons[x], replayLesson(x, log))
        BY DEF StandingInv, RowsInv
      <3>2. \A x \in Lessons \ {l} : Agrees(lessons'[x], replayLesson(x, log))
        BY <2>9, <3>1
      <3>3. Agrees(lessons'[l], replayLesson(l, log))
        BY <1>1, <2>10, <3>1 DEF Agrees, Exists
      <3> QED  BY <1>1, <3>2, <3>3 DEF RowsInv
    <2>14. StatusInv'
      BY <1>1, <1>2, <2>11 DEF StandingInv, StatusInv, MarksAreSingle, Listed
    <2>15. \A j \in 1 .. Len(applications') : j = Len(applications) + 1 \/ j \in 1 .. Len(applications)
      BY <2>3, <2>4
    <2>16. ReceiptsInv'
      <3>1. \A j \in 1 .. Len(applications) : ~(applications[j].lesson = l /\ applications[j].injection = injection)
        BY <1>5, <2>3 DEF AlreadyApplied
      <3>2. ASSUME NEW j \in 1 .. Len(applications') PROVE Exists(applications[j].lesson)'
        <4>1. applications'[j].lesson \in Lessons /\ lessons[applications'[j].lesson] # None
          BY <1>1, <2>2, <2>4, <2>15, ReceiptIs DEF StandingInv, ReceiptsInv, Exists
        <4> QED  BY <2>9, <2>10, <4>1 DEF Exists
      <3>3. ASSUME NEW i \in 1 .. Len(applications'), NEW j \in 1 .. Len(applications'), i # j
            PROVE  ~(applications'[i].lesson = applications'[j].lesson
                      /\ applications'[i].injection = applications'[j].injection)
        BY <2>2, <2>4, <2>15, <3>1, <3>3 DEF StandingInv, ReceiptsInv
      <3> QED  BY <3>2, <3>3 DEF ReceiptsInv
    <2>17. MarksInv'
      <3>1. \A j \in 1 .. Len(applications) : j \in 1 .. Len(applications')
        BY <2>3, <2>4
      <3>2. ASSUME NEW i \in 1 .. Len(log), IsMark(log[i]), log[i].injection # None
            PROVE  \E j \in 1 .. Len(applications') :
                     SameReceipt(log[i], applications'[j]) /\ applications'[j].counted
        <4>1. PICK j \in 1 .. Len(applications) : SameReceipt(log[i], applications[j]) /\ applications[j].counted
          BY <3>2 DEF StandingInv, MarksInv
        <4>2. j \in 1 .. Len(applications') /\ applications'[j] = applications[j]
          BY <2>4, <3>1, <4>1
        <4> QED  BY <4>1, <4>2
      <3> QED  BY <1>1, <3>2 DEF StandingInv, MarksInv, SameReceipt
    <2>18. PruneInv'
      <3>1. ASSUME NEW j \in 1 .. Len(applications'), applications'[j].lesson \in Selectable'
            PROVE  lessons'[applications'[j].lesson].uses > 0
        <4>1. CASE applications'[j].lesson = l
          BY <2>6, <2>10, <4>1
        <4>2. CASE applications'[j].lesson # l
          <5>1. j \in 1 .. Len(applications) /\ applications'[j] = applications[j]
            BY <2>2, <2>4, <2>15, <4>2
          <5>2. applications[j].lesson \in Lessons
            BY <5>1, ReceiptIs DEF StandingInv
          <5> QED  BY <2>9, <2>11, <3>1, <4>2, <5>1, <5>2 DEF StandingInv, PruneInv
        <4> QED  BY <4>1, <4>2
      <3>2. ASSUME NEW i \in 1 .. Len(log), log[i].type = "RETIRE"
            PROVE  /\ lessons'[log[i].lesson] # None /\ log[i].lesson \notin Selectable'
                   /\ \A j \in 1 .. Len(applications') : applications'[j].lesson # log[i].lesson
        <4>1. PICK x \in Lessons : x = log[i].lesson
          <5>1. log[i] \in Delta
            BY ElementOfSeq DEF StandingInv, StandingTypes
          <5> QED  BY <5>1 DEF Delta
        <4>2. Exists(x) /\ x \notin Selectable /\ \A j \in 1 .. Len(applications) : applications[j].lesson # x
          BY <3>2, <4>1 DEF StandingInv, PruneInv
        <4>3. x # l
          BY <1>1, <4>2
        <4> QED  BY <2>2, <2>4, <2>9, <2>11, <2>15, <4>1, <4>2, <4>3 DEF Exists
      <3> QED  BY <1>1, <3>1, <3>2 DEF PruneInv, Exists
    <2> QED  BY <1>3, <2>12, <2>13, <2>14, <2>16, <2>17, <2>18 DEF StandingInv
  <1> QED  BY <1>4, <1>5

-----------------------------------------------------------------------------
(* Status rules.                                                           *)

LEMMA NextLists ==
  ASSUME StandingTypes, TodoInv, todo # <<>>, NextLesson
  PROVE  /\ Len(todo) \in Nat \ {0} /\ Head(todo) = todo[1] /\ todo[1] \in Lessons /\ Exists(todo[1])
         /\ Listed(todo[1])
         /\ todo' \in Seq(Lessons) /\ at' \in {"rules", "curate"} /\ (at' = "rules" <=> todo' # <<>>)
         /\ \A i, j \in 1 .. Len(todo') : i # j => todo'[i] # todo'[j]
         /\ \A x : Listed(x)' <=> Listed(x) /\ x # todo[1]
         /\ \A i \in 1 .. Len(todo') : Exists(todo'[i])
  <1>1. /\ todo \in Seq(Lessons) /\ todo' = Tail(todo) /\ at' = IF Len(todo) = 1 THEN "curate" ELSE "rules"
        /\ Len(todo) \in Nat \ {0} /\ Head(todo) = todo[1]
    BY EmptySeq DEF StandingTypes, NextLesson
  <1>2. /\ todo' \in Seq(Lessons) /\ Len(todo') = Len(todo) - 1
        /\ \A i \in 1 .. Len(todo') : todo'[i] = todo[i + 1]
    BY <1>1, HeadTailProperties
  <1>3. 1 \in 1 .. Len(todo) /\ todo[1] \in Lessons /\ Exists(todo[1]) /\ Listed(todo[1])
    <2>1. 1 \in 1 .. Len(todo)
      BY <1>1
    <2> QED  BY <1>1, <2>1, ElementOfSeq DEF StandingTypes, Listed
  <1>4. Len(todo) = 1 <=> todo' = <<>>
    <2>1. Len(todo') = 0 <=> todo' = <<>>
      BY <1>2, EmptySeq
    <2>2. Len(todo) = 1 <=> Len(todo') = 0
      BY <1>1, <1>2
    <2> QED  BY <2>1, <2>2
  <1>5. \A i \in 1 .. Len(todo') : i + 1 \in 1 .. Len(todo) /\ i + 1 # 1
    BY <1>1, <1>2
  <1>6. \A i \in 1 .. Len(todo) : i # 1 => i - 1 \in 1 .. Len(todo') /\ (i - 1) + 1 = i
    BY <1>1, <1>2
  <1>7. ASSUME NEW x PROVE Listed(x)' <=> Listed(x) /\ x # todo[1]
    <2>1. ASSUME Listed(x)' PROVE Listed(x) /\ x # todo[1]
      <3>1. PICK i \in 1 .. Len(todo') : todo'[i] = x
        BY <2>1 DEF Listed
      <3> QED  BY <1>2, <1>3, <1>5, <3>1 DEF Listed, TodoInv
    <2>2. ASSUME Listed(x), x # todo[1] PROVE Listed(x)'
      <3>1. PICK i \in 1 .. Len(todo) : todo[i] = x
        BY <2>2 DEF Listed
      <3>2. i - 1 \in 1 .. Len(todo') /\ todo'[i - 1] = x
        BY <1>2, <1>6, <2>2, <3>1
      <3> QED  BY <3>2 DEF Listed
    <2> QED  BY <2>1, <2>2
  <1>8. \A i, j \in 1 .. Len(todo') : i # j => todo'[i] # todo'[j]
    <2> SUFFICES ASSUME NEW i \in 1 .. Len(todo'), NEW j \in 1 .. Len(todo'), i # j
                 PROVE  todo'[i] # todo'[j]
      OBVIOUS
    <2>1. i + 1 # j + 1
      BY <1>2
    <2> QED  BY <1>2, <1>5, <2>1 DEF TodoInv
  <1>9. \A i \in 1 .. Len(todo') : Exists(todo'[i])
    <2> SUFFICES ASSUME NEW i \in 1 .. Len(todo') PROVE lessons[todo'[i]] # None
      BY DEF Exists
    <2> QED  BY <1>2, <1>5 DEF StandingTypes, Exists
  <1> QED  BY <1>1, <1>2, <1>3, <1>4, <1>7, <1>8, <1>9

\* The lesson at the head of the list gets the status that the rules give it.
LEMMA VerdictKeeps ==
  ASSUME StandingInv, at \in {"rules", "quarantine"}, NextLesson,
         lessons' = [lessons EXCEPT ![todo[1]].status = Verdict(lessons[todo[1]])],
         UNCHANGED <<log, applications, snapshot, watermark, chosen, injection, crashes>>
  PROVE  StandingInv'
  <1> DEFINE l == todo[1]
             v == Verdict(lessons[l])
  <1>1. /\ l \in Lessons /\ Exists(l) /\ Listed(l)
        /\ todo' \in Seq(Lessons) /\ at' \in {"rules", "curate"} /\ (at' = "rules" <=> todo' # <<>>)
        /\ \A i, j \in 1 .. Len(todo') : i # j => todo'[i] # todo'[j]
        /\ \A x : Listed(x)' <=> Listed(x) /\ x # l
        /\ \A i \in 1 .. Len(todo') : Exists(todo'[i])
    <2>1. todo # <<>>
      BY DEF StandingInv, TodoInv
    <2> QED  BY <2>1, NextLists DEF StandingInv
  <1>2. lessons \in [Lessons -> Row \cup {None}] /\ lessons[l] \in Row
    BY <1>1 DEF StandingInv, StandingTypes, Exists
  <1>3. v \in Statuses /\ (v \in {"candidate", "active"} => lessons[l].status \in {"candidate", "active"})
    BY <1>2 DEF Verdict, Row, Statuses, Promotes
  <1>4. lessons' = [lessons EXCEPT ![l] = [lessons[l] EXCEPT !.status = v]]
    BY <1>1, <1>2
  <1> HIDE DEF l, v
  <1>5. /\ [lessons[l] EXCEPT !.status = v] \in Row
        /\ [lessons[l] EXCEPT !.status = v].status = v
        /\ [lessons[l] EXCEPT !.status = v].group = lessons[l].group
        /\ [lessons[l] EXCEPT !.status = v].helpful = lessons[l].helpful
        /\ [lessons[l] EXCEPT !.status = v].harmful = lessons[l].harmful
        /\ [lessons[l] EXCEPT !.status = v].uses = lessons[l].uses
    BY <1>2, <1>3 DEF Row
  <1>6. /\ lessons' \in [Lessons -> Row \cup {None}] /\ lessons'[l] # None
        /\ lessons'[l].status = v /\ lessons'[l].group = lessons[l].group
        /\ lessons'[l].helpful = lessons[l].helpful /\ lessons'[l].harmful = lessons[l].harmful
        /\ lessons'[l].uses = lessons[l].uses
        /\ \A x \in Lessons \ {l} : lessons'[x] = lessons[x]
    BY <1>1, <1>2, <1>4, <1>5, NoneIs
  <1>7. \A x \in Lessons : Exists(x) <=> Exists(x)'
    BY <1>1, <1>6 DEF Exists
  <1>8. at # "inject" /\ at' # "inject" /\ chosen' = {}
    BY <1>1 DEF StandingInv, StandingTypes
  <1>9. StandingTypes'
    <2>1. \A i \in 1 .. Len(todo') : lessons'[todo'[i]] # None
      <3> SUFFICES ASSUME NEW i \in 1 .. Len(todo') PROVE lessons'[todo'[i]] # None
        OBVIOUS
      <3>1. todo'[i] \in Lessons /\ Exists(todo'[i])
        BY <1>1, ElementOfSeq
      <3>2. PICK x \in Lessons : x = todo'[i]
        BY <3>1
      <3> QED  BY <1>7, <3>1, <3>2 DEF Exists
    <2> QED  BY <1>1, <1>6, <1>8, <2>1 DEF StandingInv, StandingTypes, Phases, Exists
  <1>10. TodoInv'
    BY <1>1 DEF TodoInv
  <1>11. RowsInv'
    <2>1. \A x \in Lessons : Agrees(lessons[x], replayLesson(x, log))
      BY DEF StandingInv, RowsInv
    <2>2. \A x \in Lessons \ {l} : Agrees(lessons'[x], replayLesson(x, log))
      BY <1>6, <2>1
    <2>3. Agrees(lessons'[l], replayLesson(l, log))
      BY <1>1, <1>6, <2>1 DEF Agrees, Exists
    <2> QED  BY <2>2, <2>3 DEF RowsInv
  <1>12. StatusInv'
    <2>1. SUFFICES ASSUME crashes = 0, MarksAreSingle, NEW x \in Lessons, Exists(x)
          PROVE  replayLesson(x, log).status = IF Listed(x)' THEN Verdict(lessons'[x]) ELSE lessons'[x].status
      BY <1>7 DEF StatusInv, MarksAreSingle
    <2>2. replayLesson(x, log).status = IF Listed(x) THEN Verdict(lessons[x]) ELSE lessons[x].status
      BY <2>1 DEF StandingInv, StatusInv
    <2>3. CASE x = l
      BY <1>1, <1>6, <2>2, <2>3 DEF v
    <2>4. CASE x # l
      BY <1>1, <1>6, <2>2, <2>4
    <2> QED  BY <2>3, <2>4
  <1>13. ReceiptsInv' /\ MarksInv'
    <2>1. \A j \in 1 .. Len(applications) : applications[j].lesson \in Lessons
      BY ReceiptIs DEF StandingInv
    <2>2. ReceiptsInv'
      BY <1>7, <2>1 DEF StandingInv, ReceiptsInv, Exists
    <2>3. MarksInv'
      BY DEF StandingInv, MarksInv, SameReceipt
    <2> QED  BY <2>2, <2>3
  <1>14. PruneInv'
    <2>1. \A x \in Lessons : Ages(x)
      <3> SUFFICES ASSUME NEW x \in Lessons, Exists(x)
                   PROVE  x \in Selectable' => x \in Selectable /\ lessons'[x].uses >= lessons[x].uses
        BY <1>7 DEF Ages
      <3>1. lessons[x].uses \in Nat
        BY DEF Exists, StandingInv, StandingTypes, Row
      <3>2. CASE x = l
        <4>1. lessons'[x].status = v /\ lessons'[x].uses = lessons[x].uses
          BY <1>6, <3>2
        <4>2. x \in Selectable' => x \in Selectable
          BY <1>2, <1>3, <3>2, <4>1 DEF Selectable, Exists
        <4> QED  BY <3>1, <4>1, <4>2
      <3>3. CASE x # l
        <4>1. lessons'[x] = lessons[x]
          BY <1>6, <3>3
        <4>2. lessons'[x].uses >= lessons[x].uses
          BY <3>1, <4>1
        <4>3. x \in Selectable' => x \in Selectable
          BY <4>1 DEF Selectable, Exists
        <4> QED  BY <4>2, <4>3
      <3> QED  BY <3>2, <3>3
    <2>2. \A i \in 1 .. Len(log') : log'[i].type = "RETIRE" => RetiresUnused(i)
      BY DEF RetiresUnused
    <2> QED  BY <1>9, <2>1, <2>2, PruneSurvives DEF StandingInv
  <1> QED  BY <1>9, <1>10, <1>11, <1>12, <1>13, <1>14 DEF StandingInv

LEMMA SetQuarantinedKeeps ==
  ASSUME StandingInv, SetQuarantined
  PROVE  StandingInv'
  <1>1. /\ at = "quarantine" /\ NextLesson
        /\ lessons' = [lessons EXCEPT ![Head(todo)].status = "quarantined"]
        /\ UNCHANGED <<log, applications, snapshot, watermark, chosen, injection, crashes>>
    BY DEF SetQuarantined, spent
  <1>2. Head(todo) = todo[1] /\ todo[1] \in Lessons /\ Exists(todo[1])
    <2>1. todo # <<>>
      BY <1>1 DEF StandingInv, TodoInv
    <2> QED  BY <1>1, <2>1, NextLists DEF StandingInv
  <1>3. lessons[todo[1]].helpful \in Nat /\ lessons[todo[1]].harmful \in Nat
    <2>1. lessons[todo[1]] \in Row
      BY <1>2 DEF StandingInv, StandingTypes, Exists
    <2> QED  BY <2>1 DEF Row
  <1>4. Quarantines(lessons[todo[1]])
    BY <1>1 DEF StandingInv, TodoInv
  <1>5. Verdict(lessons[todo[1]]) = "quarantined"
    BY <1>3, <1>4, OneVerdict DEF Verdict
  <1> QED  BY <1>1, <1>2, <1>5, VerdictKeeps

LEMMA ApplyKeeps ==
  ASSUME StandingInv, ApplyStatusRules
  PROVE  StandingInv'
  <1> DEFINE l == todo[1]
  <1>1. /\ at = "rules" /\ Head(todo) = l /\ l \in Lessons /\ Exists(l) /\ Listed(l) /\ chosen = {}
        /\ UNCHANGED <<applications, snapshot, watermark, chosen, injection, crashes>>
    <2>1. at = "rules" /\ UNCHANGED <<applications, snapshot, watermark, chosen, injection, crashes>>
      BY DEF ApplyStatusRules, spent
    <2>2. todo \in Seq(Lessons) /\ todo # <<>> /\ chosen = {}
      BY <2>1 DEF StandingInv, StandingTypes, TodoInv
    <2>3. 1 \in 1 .. Len(todo) /\ Head(todo) = l
      BY <2>2, EmptySeq, LenProperties
    <2> QED  BY <2>1, <2>2, <2>3, ElementOfSeq DEF StandingInv, StandingTypes, Listed
  <1>2. lessons[l] \in Row /\ lessons[l].helpful \in Nat /\ lessons[l].harmful \in Nat
    <2>1. lessons[l] \in Row
      BY <1>1 DEF StandingInv, StandingTypes, Exists
    <2> QED  BY <2>1 DEF Row
  <1>3. CASE ~Quarantines(lessons[l])
    <2>1. /\ lessons' = [lessons EXCEPT ![l].status = IF Promotes(lessons[l]) THEN "active" ELSE @]
          /\ NextLesson /\ log' = log
      BY <1>1, <1>3 DEF ApplyStatusRules
    <2>2. [lessons EXCEPT ![l].status = IF Promotes(lessons[l]) THEN "active" ELSE @]
            = [lessons EXCEPT ![l].status = Verdict(lessons[l])]
      BY <1>1, <1>3 DEF Verdict, StandingInv, StandingTypes
    <2> QED  BY <1>1, <2>1, <2>2, VerdictKeeps
  <1>4. CASE Quarantines(lessons[l])
    <2>1. /\ log' = Append(log, NewDelta("QUARANTINE", l)) /\ at' = "quarantine"
          /\ lessons' = lessons /\ todo' = todo
      BY <1>1, <1>4 DEF ApplyStatusRules
    <2> HIDE DEF l
    <2>2. /\ log' \in Seq(Delta) /\ IsLog(log') /\ GoesOn(log, log')
          /\ Len(log') = Len(log) + 1 /\ log'[Len(log) + 1].type = "QUARANTINE"
          /\ \A x \in Lessons \ {l} : replayLesson(x, log') = replayLesson(x, log)
          /\ replayLesson(l, log) \in ReplayedRow /\ replayLesson(l, log') \in ReplayedRow
          /\ replayLesson(l, log').group = replayLesson(l, log).group
          /\ replayLesson(l, log').helpful = replayLesson(l, log).helpful
          /\ replayLesson(l, log').harmful = replayLesson(l, log).harmful
          /\ replayLesson(l, log').status = "quarantined"
      <3>1. log \in Seq(Delta) /\ IsLog(log) /\ replayLesson(l, log) # None
        BY <1>1, ExistsInLog DEF StandingInv, StandingTypes
      <3> QED  BY <1>1, <2>1, <3>1, OwnAppended
    <2>3. StandingTypes'
      <3>1. watermark \in 0 .. Len(log') /\ (snapshot # None => snapshot.upto \in 0 .. Len(log'))
        BY <2>2 DEF StandingInv, StandingTypes, GoesOn
      <3>2. \A i \in 1 .. Len(todo) : lessons[todo[i]] # None
        BY DEF StandingInv, StandingTypes, Exists
      <3> QED  BY <1>1, <2>1, <2>2, <3>1, <3>2 DEF StandingInv, StandingTypes, Exists, Phases
    <2>4. TodoInv'
      BY <1>1, <1>4, <2>1 DEF StandingInv, TodoInv, l
    <2>5. RowsInv'
      <3>1. \A x \in Lessons : Agrees(lessons[x], replayLesson(x, log))
        BY DEF StandingInv, RowsInv
      <3>2. \A x \in Lessons \ {l} : Agrees(lessons'[x], replayLesson(x, log'))
        BY <2>1, <2>2, <3>1
      <3>3. Agrees(lessons'[l], replayLesson(l, log'))
        BY <1>1, <2>1, <2>2, <3>1 DEF Agrees, Exists
      <3> QED  BY <3>2, <3>3 DEF RowsInv
    <2>6. StatusInv'
      <3>1. MarksAreSingle' => MarksAreSingle
        BY <2>2, SingleBefore DEF StandingInv
      <3>2. Verdict(lessons[l]) = "quarantined"
        BY <1>2, <1>4, OneVerdict DEF Verdict
      <3>3. SUFFICES ASSUME crashes = 0, MarksAreSingle, NEW x \in Lessons, Exists(x)
            PROVE  replayLesson(x, log') .status = IF Listed(x) THEN Verdict(lessons[x]) ELSE lessons[x].status
        BY <1>1, <2>1, <3>1 DEF StatusInv, Listed, Exists
      <3>4. CASE x = l
        BY <1>1, <2>2, <3>2, <3>4
      <3>5. CASE x # l
        BY <2>2, <3>3, <3>5 DEF StandingInv, StatusInv
      <3> QED  BY <3>4, <3>5
    <2>7. ReceiptsInv' /\ MarksInv'
      <3>1. MarksInv'
        BY <1>1, <2>2, MarksSurvive DEF StandingInv, Marks
      <3> QED  BY <1>1, <2>1, <3>1 DEF StandingInv, ReceiptsInv, Exists
    <2>8. PruneInv'
      <3>1. \A x \in Lessons : Ages(x)
        BY <2>1 DEF Ages, Exists, Selectable, StandingInv, StandingTypes, Row
      <3> QED  BY <1>1, <2>2, <2>3, <3>1, RetiresAreOld, PruneSurvives DEF StandingInv
    <2> QED  BY <2>3, <2>4, <2>5, <2>6, <2>7, <2>8 DEF StandingInv
  <1> QED  BY <1>3, <1>4

-----------------------------------------------------------------------------
(* The marks of a run.                                                     *)

LEMMA MarkForIs ==
  ASSUME NEW a \in Receipt, NEW weight \in Weights, NEW outcome
  PROVE  LET d == MarkFor(a, weight, outcome) IN
         /\ d \in Delta /\ d.type \in Marks /\ d.target = None
         /\ d.lesson = a.lesson /\ d.injection = a.injection
  <1> DEFINE helps == (outcome = "passed") = (weight > 0)
             type == IF helps THEN "MARK_HELPFUL" ELSE "MARK_HARMFUL"
             magnitude == IF weight > 0 THEN weight ELSE -weight
             h == IF helps THEN magnitude ELSE 0
             k == IF helps THEN 0 ELSE magnitude
  <1>1. magnitude \in Nat
    <2>1. weight \in Int
      BY LessonAssumption
    <2> QED  BY <2>1
  <1>2. h \in Nat /\ k \in Nat
    BY <1>1
  <1>3. type \in Marks /\ type \in DeltaTypes
    BY DEF Marks, DeltaTypes
  <1>4. a.lesson \in Lessons /\ a.injection \in Runs \X Triggers
    BY DEF Receipt
  <1>5. MarkFor(a, weight, outcome)
          = [NewDelta(type, a.lesson) EXCEPT !.helpful = h, !.harmful = k, !.injection = a.injection]
    BY DEF MarkFor
  <1> HIDE DEF type, h, k
  <1>6. MarkFor(a, weight, outcome)
          = [type |-> type, lesson |-> a.lesson, group |-> None, helpful |-> h, harmful |-> k,
             target |-> None, injection |-> a.injection]
    BY <1>5 DEF NewDelta
  <1> QED  BY <1>2, <1>3, <1>4, <1>6 DEF Delta

LEMMA CountedIs ==
  ASSUME NEW a \in Receipt, NEW r
  PROVE  LET b == [a EXCEPT !.counted = @ \/ IsPending(a, r)] IN
         /\ b \in Receipt /\ b.lesson = a.lesson /\ b.injection = a.injection
         /\ (a.counted => b.counted) /\ (IsPending(a, r) => b.counted)
  <1> DEFINE c == a.counted \/ IsPending(a, r)
  <1>1. c \in BOOLEAN
    OBVIOUS
  <1>2. [a EXCEPT !.counted = @ \/ IsPending(a, r)] = [a EXCEPT !.counted = c]
    OBVIOUS
  <1>3. (a.counted => c) /\ (IsPending(a, r) => c)
    OBVIOUS
  <1> HIDE DEF c
  <1>4. /\ [a EXCEPT !.counted = c] \in Receipt /\ [a EXCEPT !.counted = c].counted = c
        /\ [a EXCEPT !.counted = c].lesson = a.lesson /\ [a EXCEPT !.counted = c].injection = a.injection
    BY <1>1 DEF Receipt
  <1> QED  BY <1>2, <1>3, <1>4

\* What the marks say of a lesson.
LEMMA HelpedIs ==
  ASSUME NEW ms \in Seq(Delta), NEW l
  PROVE  /\ Helped(ms, l) = SumFunctionOnSet(Helping(ms, l, Len(ms)), 1 .. Len(ms)) /\ Helped(ms, l) \in Nat
         /\ Harmed(ms, l) = SumFunctionOnSet(Harming(ms, l, Len(ms)), 1 .. Len(ms)) /\ Harmed(ms, l) \in Nat
  <1>1. DOMAIN ms = 1 .. Len(ms) /\ Len(ms) \in Nat
    BY LenProperties
  <1>2. IsFiniteSet(1 .. Len(ms))
    <2>1. 1 \in Int /\ Len(ms) \in Int
      BY <1>1
    <2> QED  BY <2>1, FS_Interval
  <1>3. \A i \in 1 .. Len(ms) : ms[i].helpful \in Nat /\ ms[i].harmful \in Nat
    BY ElementOfSeq, DeltaMoves
  <1> DEFINE f == Helping(ms, l, Len(ms))
             g == Harming(ms, l, Len(ms))
  <1>4. \A i \in 1 .. Len(ms) : f[i] \in Nat
    BY <1>3 DEF Helping
  <1>5. \A i \in 1 .. Len(ms) : g[i] \in Nat
    BY <1>3 DEF Harming
  <1>6. Helped(ms, l) = SumFunctionOnSet(f, 1 .. Len(ms)) /\ Harmed(ms, l) = SumFunctionOnSet(g, 1 .. Len(ms))
    BY <1>1 DEF Helped, Harmed, Helping, Harming
  <1> HIDE DEF f, g
  <1>7. SumFunctionOnSet(f, 1 .. Len(ms)) \in Nat
    BY <1>2, <1>4, SumNat
  <1>8. SumFunctionOnSet(g, 1 .. Len(ms)) \in Nat
    BY <1>2, <1>5, SumNat
  <1> QED  BY <1>6, <1>7, <1>8 DEF f, g

\* The marks of a run come from its receipts that are not counted, one from each.
MarksFrom(ms, p, r) ==
  /\ ms \in Seq(Delta) /\ p \in [1 .. Len(ms) -> 1 .. Len(applications)]
  /\ \A i, j \in 1 .. Len(ms) : i # j => p[i] # p[j]
  /\ \A i \in 1 .. Len(ms) :
       /\ IsPending(applications[p[i]], r)
       /\ ms[i].type \in Marks /\ ms[i].target = None
       /\ ms[i].lesson = applications[p[i]].lesson /\ ms[i].injection = applications[p[i]].injection

CountedNow(r) ==
  applications' = [i \in DOMAIN applications |->
    [applications[i] EXCEPT !.counted = @ \/ IsPending(applications[i], r)]]

RowsMarked(ms) ==
  lessons' = [l \in Lessons |->
    IF ~Exists(l) THEN None
    ELSE [lessons[l] EXCEPT !.helpful = @ + Helped(ms, l), !.harmful = @ + Harmed(ms, l)]]

LEMMA MarkRunEffect ==
  ASSUME StandingTypes, NEW r, NEW outcome, MarkRun(r, outcome)
  PROVE  \E ms, p :
           /\ MarksFrom(ms, p, r) /\ log' = log \o ms
           /\ RowsMarked(ms) /\ todo' = Affected(ms)
  <1> DEFINE P == {i \in DOMAIN applications : IsPending(applications[i], r)}
             p == InOrder(P)
             n == Cardinality(P)
  <1>1. DOMAIN applications = 1 .. Len(applications) /\ Len(applications) \in Nat
    BY LenProperties DEF StandingTypes
  <1>2. P \in SUBSET Nat /\ P \in SUBSET (1 .. Len(applications)) /\ IsFiniteSet(P)
    <2>1. P \in SUBSET (1 .. Len(applications)) /\ IsFiniteSet(1 .. Len(applications))
      <3>1. 1 \in Int /\ Len(applications) \in Int
        BY <1>1
      <3> QED  BY <1>1, <3>1, FS_Interval
    <2>2. IsFiniteSet(P)
      BY <2>1, FS_Subset
    <2> QED  BY <2>1, <2>2
  <1>3. PICK weights \in [DOMAIN p -> Weights] :
          LET marks == [i \in DOMAIN p |-> MarkFor(applications[p[i]], weights[i], outcome)]
          IN log' = log \o marks /\ RowsMarked(marks) /\ todo' = Affected(marks)
    BY DEF MarkRun, RowsMarked
  <1> DEFINE ms == [i \in DOMAIN p |-> MarkFor(applications[p[i]], weights[i], outcome)]
  <1>4. \A i \in P : IsPending(applications[i], r)
    OBVIOUS
  <1> HIDE DEF P
  <1>5. /\ p \in [1 .. n -> P] /\ n \in Nat /\ DOMAIN p = 1 .. n
        /\ \A i, j \in 1 .. n : i # j => p[i] # p[j]
    BY <1>2, InOrderOf
  <1> HIDE DEF p
  <1>6. \A i \in 1 .. n : p[i] \in P /\ applications[p[i]] \in Receipt /\ weights[i] \in Weights
    <2>1. \A i \in 1 .. n : p[i] \in P /\ p[i] \in 1 .. Len(applications)
      BY <1>2, <1>5
    <2>2. \A i \in 1 .. Len(applications) : applications[i] \in Receipt
      BY ReceiptIs
    <2> QED  BY <1>3, <1>5, <2>1, <2>2
  <1>7. \A i \in 1 .. n : /\ ms[i] \in Delta /\ ms[i].type \in Marks /\ ms[i].target = None
                          /\ ms[i].lesson = applications[p[i]].lesson
                          /\ ms[i].injection = applications[p[i]].injection
    BY <1>5, <1>6, MarkForIs
  <1>8. ms = [i \in 1 .. n |-> ms[i]]
    BY <1>5
  <1>9. log' = log \o ms /\ RowsMarked(ms) /\ todo' = Affected(ms)
    BY <1>3
  <1> HIDE DEF ms, n
  <1>10. ms \in Seq(Delta) /\ Len(ms) = n
    <2>1. ms \in [1 .. n -> Delta]
      BY <1>7, <1>8
    <2> QED  BY <1>5, <2>1
  <1>11. p \in [1 .. Len(ms) -> 1 .. Len(applications)]
    BY <1>2, <1>5, <1>10
  <1>12. MarksFrom(ms, p, r)
    BY <1>4, <1>5, <1>6, <1>7, <1>10, <1>11 DEF MarksFrom
  <1> QED  BY <1>9, <1>12

\* Where a receipt is found.
LEMMA ReceiptsCounted ==
  ASSUME StandingTypes, NEW r, CountedNow(r)
  PROVE  /\ applications' \in Seq(Receipt) /\ Len(applications') = Len(applications)
         /\ \A i \in 1 .. Len(applications) :
              /\ applications'[i].lesson = applications[i].lesson
              /\ applications'[i].injection = applications[i].injection
              /\ applications[i].counted => applications'[i].counted
              /\ IsPending(applications[i], r) => applications'[i].counted
  <1> DEFINE n == Len(applications)
             b(i) == [applications[i] EXCEPT !.counted = @ \/ IsPending(applications[i], r)]
  <1>1. DOMAIN applications = 1 .. n /\ n \in Nat
    BY LenProperties DEF StandingTypes
  <1>2. \A i \in 1 .. n : applications[i] \in Receipt
    BY ReceiptIs
  <1>3. \A i \in 1 .. n :
          /\ b(i) \in Receipt /\ b(i).lesson = applications[i].lesson
          /\ b(i).injection = applications[i].injection
          /\ applications[i].counted => b(i).counted
          /\ IsPending(applications[i], r) => b(i).counted
    BY <1>2, CountedIs
  <1>4. applications' = [i \in 1 .. n |-> b(i)]
    BY <1>1 DEF CountedNow
  <1> HIDE DEF b
  <1>5. applications' \in [1 .. n -> Receipt]
    BY <1>3, <1>4
  <1>6. applications' \in Seq(Receipt) /\ Len(applications') = n
    BY <1>1, <1>5
  <1>7. \A i \in 1 .. n : applications'[i] = b(i)
    BY <1>4
  <1> QED  BY <1>3, <1>6, <1>7

RowAdded(row, h, k) == [row EXCEPT !.helpful = @ + h, !.harmful = @ + k]

LEMMA RowAddedIs ==
  ASSUME NEW row \in Row, NEW h \in Nat, NEW k \in Nat
  PROVE  LET new == RowAdded(row, h, k) IN
         /\ new \in Row /\ new.status = row.status /\ new.group = row.group
         /\ new.uses = row.uses /\ row.uses \in Nat
         /\ new.helpful = row.helpful + h /\ new.harmful = row.harmful + k
  <1>1. PICK a \in Nat, b \in Nat : a = row.helpful + h /\ b = row.harmful + k
    BY DEF Row
  <1>2. RowAdded(row, h, k) = [row EXCEPT !.helpful = a, !.harmful = b]
    BY <1>1 DEF RowAdded
  <1>3. LET new == [row EXCEPT !.helpful = a, !.harmful = b] IN
        /\ new \in Row /\ new.status = row.status /\ new.group = row.group
        /\ new.uses = row.uses /\ row.uses \in Nat /\ new.helpful = a /\ new.harmful = b
    BY DEF Row
  <1> QED  BY <1>1, <1>2, <1>3

LEMMA RowMarkedIs ==
  ASSUME StandingTypes, NEW ms \in Seq(Delta), RowsMarked(ms)
  PROVE  /\ lessons' \in [Lessons -> Row \cup {None}]
         /\ \A l \in Lessons :
              /\ Exists(l)' <=> Exists(l)
              /\ Exists(l) => /\ lessons'[l].status = lessons[l].status /\ lessons'[l].group = lessons[l].group
                              /\ lessons'[l].uses = lessons[l].uses /\ lessons[l].uses \in Nat
                              /\ lessons'[l].helpful = lessons[l].helpful + Helped(ms, l)
                              /\ lessons'[l].harmful = lessons[l].harmful + Harmed(ms, l)
  <1>1. \A l \in Lessons : Exists(l) => lessons[l] \in Row
    BY DEF StandingTypes, Exists
  <1> DEFINE new(l) == [lessons[l] EXCEPT !.helpful = @ + Helped(ms, l), !.harmful = @ + Harmed(ms, l)]
  <1>3. \A l \in Lessons : Exists(l) =>
          /\ new(l) \in Row /\ new(l).status = lessons[l].status /\ new(l).group = lessons[l].group
          /\ new(l).uses = lessons[l].uses /\ lessons[l].uses \in Nat
          /\ new(l).helpful = lessons[l].helpful + Helped(ms, l)
          /\ new(l).harmful = lessons[l].harmful + Harmed(ms, l)
    <2> SUFFICES ASSUME NEW l \in Lessons, Exists(l)
                 PROVE  /\ new(l) \in Row /\ new(l).status = lessons[l].status /\ new(l).group = lessons[l].group
                        /\ new(l).uses = lessons[l].uses /\ lessons[l].uses \in Nat
                        /\ new(l).helpful = lessons[l].helpful + Helped(ms, l)
                        /\ new(l).harmful = lessons[l].harmful + Harmed(ms, l)
      OBVIOUS
    <2> DEFINE row == lessons[l]
               h == Helped(ms, l)
               k == Harmed(ms, l)
    <2>1. row \in Row /\ h \in Nat /\ k \in Nat
      BY <1>1, HelpedIs
    <2>2. new(l) = RowAdded(row, h, k)
      BY DEF RowAdded
    <2> HIDE DEF new, row, h, k
    <2>3. /\ RowAdded(row, h, k) \in Row
          /\ RowAdded(row, h, k).status = row.status /\ RowAdded(row, h, k).group = row.group
          /\ RowAdded(row, h, k).uses = row.uses /\ row.uses \in Nat
          /\ RowAdded(row, h, k).helpful = row.helpful + h
          /\ RowAdded(row, h, k).harmful = row.harmful + k
      BY <2>1, RowAddedIs
    <2> QED  BY <2>2, <2>3 DEF row, h, k
  <1>4. lessons' = [l \in Lessons |-> IF ~Exists(l) THEN None ELSE new(l)]
    BY DEF RowsMarked
  <1> HIDE DEF new
  <1>5. \A l \in Lessons : /\ ~Exists(l) => lessons'[l] = None
                           /\ Exists(l) => lessons'[l] = new(l) /\ new(l) # None
    BY <1>3, <1>4, NoneIs
  <1>6. lessons' \in [Lessons -> Row \cup {None}]
    BY <1>3, <1>4
  <1>7. \A l \in Lessons : lessons'[l] # None <=> Exists(l)
    BY <1>5
  <1> QED  BY <1>3, <1>5, <1>6, <1>7 DEF Exists

\* A lesson that one of the deltas is for.
Names(ms, l) == \E i \in 1 .. Len(ms) : ms[i].lesson = l

LEMMA AffectedIs ==
  ASSUME NEW ms \in Seq(Delta), NEW t, t = Affected(ms)
  PROVE  /\ t \in Seq(Lessons) /\ \A i, j \in 1 .. Len(t) : i # j => t[i] # t[j]
         /\ \A x : (\E i \in 1 .. Len(t) : t[i] = x) <=> Names(ms, x)
  <1> DEFINE T == {ms[i].lesson : i \in DOMAIN ms}
  <1>1. DOMAIN ms = 1 .. Len(ms)
    BY LenProperties
  <1>2. \A i \in 1 .. Len(ms) : ms[i].lesson \in Lessons
    <2>1. \A i \in 1 .. Len(ms) : ms[i] \in Delta
      BY ElementOfSeq
    <2> QED  BY <2>1 DEF Delta
  <1>3. T \in SUBSET Nat /\ T \in SUBSET Lessons /\ IsFiniteSet(T)
    <2>1. T \in SUBSET Lessons
      BY <1>1, <1>2
    <2> HIDE DEF T
    <2> QED  BY <2>1, LessonAssumption, FS_Subset
  <1>4. \A x : x \in T <=> Names(ms, x)
    BY <1>1 DEF Names
  <1>5. t = InOrder(T)
    BY DEF Affected
  <1> HIDE DEF T
  <1>6. /\ t \in [1 .. Len(t) -> T] /\ t \in Seq(T) /\ Len(t) \in Nat
        /\ \A i, j \in 1 .. Len(t) : i # j => t[i] # t[j]
        /\ \A x \in T : \E i \in 1 .. Len(t) : t[i] = x
    BY <1>3, <1>5, InOrderOf
  <1>7. t \in Seq(Lessons)
    BY <1>3, <1>6, SeqMonotonic
  <1> QED  BY <1>4, <1>6, <1>7

\* Rows with the same counters and status have the same verdict.
LEMMA SameVerdict ==
  ASSUME NEW row, NEW other, other.status = row.status, other.helpful = row.helpful, other.harmful = row.harmful
  PROVE  Verdict(other) = Verdict(row)
  BY DEF Verdict, Promotes, Quarantines, Samples

\* A position of a log that goes on is one of what was there or one of what was appended.
LEMMA JoinedPositions ==
  ASSUME NEW s \in Seq(Delta), NEW ms \in Seq(Delta)
  PROVE  /\ s \o ms \in Seq(Delta) /\ GoesOn(s, s \o ms) /\ Len(s) \in Nat /\ Len(ms) \in Nat
         /\ \A n \in 1 .. Len(s \o ms) :
              \/ n \in 1 .. Len(s) /\ (s \o ms)[n] = s[n]
              \/ \E k \in 1 .. Len(ms) : n = Len(s) + k /\ (s \o ms)[n] = ms[k]
         /\ \A k \in 1 .. Len(ms) : Len(s) + k \in 1 .. Len(s \o ms) /\ (s \o ms)[Len(s) + k] = ms[k]
  <1> DEFINE t == s \o ms
  <1>1. /\ t \in Seq(Delta) /\ Len(s) \in Nat /\ Len(ms) \in Nat /\ Len(t) = Len(s) + Len(ms)
        /\ \A i \in 1 .. Len(s) : t[i] = s[i]
        /\ \A i \in 1 .. Len(ms) : t[Len(s) + i] = ms[i]
    BY Joined
  <1> HIDE DEF t
  <1>2. GoesOn(s, t)
    BY <1>1 DEF GoesOn
  <1>3. ASSUME NEW n \in 1 .. Len(t), n \notin 1 .. Len(s)
        PROVE  \E k \in 1 .. Len(ms) : n = Len(s) + k /\ t[n] = ms[k]
    <2>1. n - Len(s) \in 1 .. Len(ms) /\ n = Len(s) + (n - Len(s))
      BY <1>1, <1>3
    <2> QED  BY <1>1, <2>1
  <1>4. \A k \in 1 .. Len(ms) : Len(s) + k \in 1 .. Len(t)
    BY <1>1
  <1> QED  BY <1>1, <1>2, <1>3, <1>4 DEF t

LEMMA RunMarksAreLogged ==
  ASSUME StandingTypes, RowsInv, ReceiptsInv, NEW ms, NEW p, NEW r, MarksFrom(ms, p, r)
  PROVE  MarksFor(log, ms)
  <1>1. ASSUME NEW i \in 1 .. Len(ms) PROVE replayLesson(ms[i].lesson, log) # None
    <2>1. p[i] \in 1 .. Len(applications) /\ ms[i].lesson = applications[p[i]].lesson
      BY <1>1 DEF MarksFrom
    <2>2. applications[p[i]].lesson \in Lessons /\ Exists(applications[p[i]].lesson)
      BY <2>1, ReceiptIs DEF ReceiptsInv
    <2> QED  BY <2>1, <2>2, ExistsInLog
  <1> QED  BY <1>1 DEF MarksFor, MarksFrom, StandingTypes

LEMMA MarkRunMarks ==
  ASSUME StandingTypes, ReceiptsInv, MarksInv, NEW ms, NEW p, NEW r, MarksFrom(ms, p, r),
         log' = log \o ms, CountedNow(r)
  PROVE  MarksInv'
  <1>1. log \in Seq(Delta) /\ ms \in Seq(Delta)
    BY DEF StandingTypes, MarksFrom
  <1>2. /\ Len(log) \in Nat /\ Len(ms) \in Nat
        /\ \A n \in 1 .. Len(log') :
             \/ n \in 1 .. Len(log) /\ log'[n] = log[n]
             \/ \E k \in 1 .. Len(ms) : n = Len(log) + k /\ log'[n] = ms[k]
    BY <1>1, JoinedPositions
  <1>3. /\ applications' \in Seq(Receipt) /\ Len(applications') = Len(applications)
        /\ \A i \in 1 .. Len(applications) :
             /\ applications'[i].lesson = applications[i].lesson
             /\ applications'[i].injection = applications[i].injection
             /\ applications[i].counted => applications'[i].counted
             /\ IsPending(applications[i], r) => applications'[i].counted
    BY ReceiptsCounted
  <1>4. \A k \in 1 .. Len(ms) : /\ p[k] \in 1 .. Len(applications) /\ SameReceipt(ms[k], applications[p[k]])
                                /\ IsPending(applications[p[k]], r)
    BY DEF MarksFrom, SameReceipt
  <1>5. ASSUME NEW i \in 1 .. Len(log'), IsMark(log'[i]), log'[i].injection # None
        PROVE  \E j \in 1 .. Len(applications') : SameReceipt(log'[i], applications'[j]) /\ applications'[j].counted
    <2>1. CASE i \in 1 .. Len(log) /\ log'[i] = log[i]
      <3>1. PICK j \in 1 .. Len(applications) : SameReceipt(log[i], applications[j]) /\ applications[j].counted
        BY <1>5, <2>1 DEF MarksInv
      <3>2. SameReceipt(log'[i], applications'[j]) /\ applications'[j].counted
        BY <1>3, <2>1, <3>1 DEF SameReceipt
      <3> QED  BY <1>3, <3>2
    <2>2. CASE \E k \in 1 .. Len(ms) : i = Len(log) + k /\ log'[i] = ms[k]
      <3>1. PICK k \in 1 .. Len(ms) : log'[i] = ms[k]
        BY <2>2
      <3>2. SameReceipt(log'[i], applications'[p[k]]) /\ applications'[p[k]].counted
        BY <1>3, <1>4, <3>1 DEF SameReceipt
      <3> QED  BY <1>3, <1>4, <3>2
    <2> QED  BY <1>2, <2>1, <2>2
  <1>6. ASSUME NEW i \in 1 .. Len(log), IsMark(log[i]), log[i].injection # None, NEW k \in 1 .. Len(ms)
        PROVE  ~(log[i].lesson = ms[k].lesson /\ log[i].injection = ms[k].injection)
    <2>1. PICK j \in 1 .. Len(applications) : SameReceipt(log[i], applications[j]) /\ applications[j].counted
      BY <1>6 DEF MarksInv
    <2>2. j # p[k]
      BY <1>4, <2>1 DEF IsPending
    <2>3. ~(applications[j].lesson = applications[p[k]].lesson
            /\ applications[j].injection = applications[p[k]].injection)
      BY <1>4, <2>2 DEF ReceiptsInv
    <2> QED  BY <1>4, <2>1, <2>3 DEF SameReceipt
  <1>7. ASSUME NEW i \in 1 .. Len(ms), NEW k \in 1 .. Len(ms), i # k
        PROVE  ~(ms[i].lesson = ms[k].lesson /\ ms[i].injection = ms[k].injection)
    <2>1. p[i] # p[k]
      BY <1>7 DEF MarksFrom
    <2>2. ~(applications[p[i]].lesson = applications[p[k]].lesson
            /\ applications[p[i]].injection = applications[p[k]].injection)
      BY <1>4, <2>1 DEF ReceiptsInv
    <2> QED  BY <1>4, <2>2 DEF SameReceipt
  <1>8. ASSUME NEW i \in 1 .. Len(log'), NEW j \in 1 .. Len(log'), i # j,
               IsMark(log'[i]), IsMark(log'[j]), log'[i].injection # None
        PROVE  ~(log'[i].lesson = log'[j].lesson /\ log'[i].injection = log'[j].injection)
    <2>1. CASE i \in 1 .. Len(log) /\ log'[i] = log[i]
      <3>1. CASE j \in 1 .. Len(log) /\ log'[j] = log[j]
        BY <1>8, <2>1, <3>1 DEF MarksInv
      <3>2. CASE \E k \in 1 .. Len(ms) : j = Len(log) + k /\ log'[j] = ms[k]
        <4>1. PICK k \in 1 .. Len(ms) : log'[j] = ms[k]
          BY <3>2
        <4> QED  BY <1>6, <1>8, <2>1, <4>1
      <3> QED  BY <1>2, <3>1, <3>2
    <2>2. CASE \E m \in 1 .. Len(ms) : i = Len(log) + m /\ log'[i] = ms[m]
      <3>1. PICK m \in 1 .. Len(ms) : i = Len(log) + m /\ log'[i] = ms[m]
        BY <2>2
      <3>2. CASE j \in 1 .. Len(log) /\ log'[j] = log[j]
        <4>1. SUFFICES ASSUME log'[i].lesson = log'[j].lesson, log'[i].injection = log'[j].injection
              PROVE  FALSE
          OBVIOUS
        <4>2. log[j].injection # None /\ IsMark(log[j])
          BY <1>8, <3>2, <4>1
        <4> QED  BY <1>6, <3>1, <3>2, <4>1, <4>2
      <3>3. CASE \E k \in 1 .. Len(ms) : j = Len(log) + k /\ log'[j] = ms[k]
        <4>1. PICK k \in 1 .. Len(ms) : j = Len(log) + k /\ log'[j] = ms[k]
          BY <3>3
        <4>2. m # k
          BY <1>8, <3>1, <4>1
        <4> QED  BY <1>7, <3>1, <4>1, <4>2
      <3> QED  BY <1>2, <3>2, <3>3
    <2> QED  BY <1>2, <2>1, <2>2
  <1>9. /\ \A i \in 1 .. Len(log') : IsMark(log'[i]) /\ log'[i].injection # None =>
             \E j \in 1 .. Len(applications') : SameReceipt(log'[i], applications'[j]) /\ applications'[j].counted
        /\ \A i, j \in 1 .. Len(log') :
             (i # j /\ IsMark(log'[i]) /\ IsMark(log'[j]) /\ log'[i].injection # None)
               => ~(log'[i].lesson = log'[j].lesson /\ log'[i].injection = log'[j].injection)
    BY <1>5, <1>8
  <1> QED  BY <1>9 DEF MarksInv, SameReceipt, IsMark

\* If no run marks a lesson twice, the fold goes the way of the row.
LEMMA MarkRunStatus ==
  ASSUME StandingInv, NEW ms, NEW p, NEW r, MarksFrom(ms, p, r), MarksFor(log, ms),
         log' = log \o ms, MarksAreSingle', RowsMarked(ms), crashes = 0, todo = <<>>,
         RowsInv', NEW l \in Lessons, Exists(l)
  PROVE  replayLesson(l, log') .status =
           IF Names(ms, l) THEN Verdict(lessons'[l]) ELSE lessons'[l].status
  <1>1. log \in Seq(Delta) /\ ms \in Seq(Delta) /\ StandingTypes
    BY DEF StandingInv, StandingTypes, MarksFrom
  <1>2. /\ Len(log) \in Nat /\ Len(ms) \in Nat /\ log' \in Seq(Delta) /\ GoesOn(log, log')
        /\ \A k \in 1 .. Len(ms) : Len(log) + k \in 1 .. Len(log') /\ log'[Len(log) + k] = ms[k]
    BY <1>1, JoinedPositions
  <1>3. MarksAreSingle
    BY <1>1, <1>2, SingleBefore
  <1>4. replayLesson(l, log).status = lessons[l].status
    <2>1. ~Listed(l)
      BY EmptySeq DEF Listed
    <2> QED  BY <1>3, <2>1 DEF StandingInv, StatusInv
  <1>5. /\ Exists(l)' /\ lessons'[l].status = lessons[l].status
    BY <1>1, RowMarkedIs
  <1>6. CASE ~Names(ms, l)
    <2>1. replayLesson(l, log') = replayLesson(l, log)
      BY <1>6, MarksFoldOnce DEF Names
    <2> QED  BY <1>4, <1>5, <1>6, <2>1
  <1>7. CASE Names(ms, l)
    <2>1. PICK j \in 1 .. Len(ms) : ms[j].lesson = l
      BY <1>7 DEF Names
    <2>2. ASSUME NEW a \in 1 .. Len(ms), NEW b \in 1 .. Len(ms), ms[a].lesson = l, ms[b].lesson = l, a < b
          PROVE FALSE
      <3>1. /\ Len(log) + a \in DOMAIN log' /\ Len(log) + b \in DOMAIN log' /\ Len(log) + a < Len(log) + b
            /\ log'[Len(log) + a] = ms[a] /\ log'[Len(log) + b] = ms[b]
        <4>1. DOMAIN log' = 1 .. Len(log')
          BY <1>2, LenProperties
        <4> QED  BY <1>2, <2>2, <4>1
      <3>2. \A i \in 1 .. Len(ms) : ms[i].injection # None /\ ms[i].injection[1] = r
        <4> SUFFICES ASSUME NEW i \in 1 .. Len(ms) PROVE ms[i].injection # None /\ ms[i].injection[1] = r
          OBVIOUS
        <4>1. p[i] \in 1 .. Len(applications) /\ ms[i].injection = applications[p[i]].injection
                /\ IsPending(applications[p[i]], r)
          BY DEF MarksFrom
        <4>2. applications[p[i]].injection \in Runs \X Triggers
          BY <1>1, <4>1, ReceiptIs
        <4> QED  BY <4>1, <4>2, NoneIs DEF IsPending
      <3>3. log'[Len(log) + a].injection[1] # log'[Len(log) + b].injection[1]
        <4>1. PICK u \in DOMAIN log', v \in DOMAIN log' :
                u < v /\ u = Len(log) + a /\ v = Len(log) + b /\ log'[u] = ms[a] /\ log'[v] = ms[b]
          BY <3>1
        <4>2. log'[u].lesson = log'[v].lesson /\ log'[u].injection # None /\ log'[v].injection # None
          BY <2>2, <3>2, <4>1
        <4>3. log'[u].injection[1] # log'[v].injection[1]
          BY <4>1, <4>2 DEF MarksAreSingle
        <4> QED  BY <4>1, <4>3
      <3> QED  BY <3>1, <3>2, <3>3
    <2>3. \A i \in 1 .. Len(ms) : ms[i].lesson = l <=> i = j
      <3> SUFFICES ASSUME NEW i \in 1 .. Len(ms), ms[i].lesson = l, i # j PROVE FALSE
        BY <2>1
      <3>1. i < j \/ j < i
        OBVIOUS
      <3> QED  BY <2>1, <2>2, <3>1
    <2> DEFINE row == replayLesson(l, log)
               d == ms[j]
               new == replayLesson(l, log')
    <2>4. new = FoldDelta(l, row, d)
      BY <2>3, MarksFoldOnce
    <2>5. row \in ReplayedRow /\ d \in Delta /\ d.lesson = l /\ d.type \in Marks
      BY <1>1, <2>1, ElementOfSeq, ExistsInLog DEF StandingInv, MarksFor
    <2>6. new.helpful = lessons'[l].helpful /\ new.harmful = lessons'[l].harmful
      BY <1>5 DEF RowsInv, Agrees, Exists
    <2> HIDE DEF row, d, new
    <2>7. /\ new.helpful = row.helpful + d.helpful /\ new.harmful = row.harmful + d.harmful
          /\ new.status = IF Promotes(Marked(row, d)) THEN "active"
                          ELSE IF Quarantines(Marked(row, d)) THEN "quarantined" ELSE row.status
      BY <2>4, <2>5, FoldMark
    <2>8. /\ Marked(row, d).helpful = row.helpful + d.helpful
          /\ Marked(row, d).harmful = row.harmful + d.harmful
          /\ Marked(row, d).status = row.status
      BY <2>5, AddedTo DEF Marked
    <2>9. row.status = lessons'[l].status
      BY <1>4, <1>5 DEF row
    <2>10. new.status = Verdict(Marked(row, d))
      BY <2>7, <2>8 DEF Verdict
    <2>11. Verdict(Marked(row, d)) = Verdict(lessons'[l])
      BY <2>6, <2>7, <2>8, <2>9, SameVerdict
    <2> QED  BY <1>7, <2>10, <2>11 DEF new
  <1> QED  BY <1>6, <1>7

LEMMA MarkRunKeeps ==
  ASSUME StandingInv, NEW r \in Runs, NEW outcome, MarkRun(r, outcome)
  PROVE  StandingInv'
  <1>1. PICK ms, p : /\ MarksFrom(ms, p, r) /\ log' = log \o ms
                     /\ RowsMarked(ms) /\ todo' = Affected(ms)
    BY MarkRunEffect DEF StandingInv
  <1>2. /\ at = "idle" /\ at' = (IF todo' = <<>> THEN "curate" ELSE "rules") /\ CountedNow(r)
        /\ UNCHANGED <<snapshot, watermark, chosen, injection, crashes>>
    BY DEF MarkRun, CountedNow
  <1>3. StandingTypes /\ RowsInv /\ ReceiptsInv /\ MarksInv /\ todo = <<>> /\ chosen = {}
    BY <1>2 DEF StandingInv, StandingTypes, TodoInv
  <1>4. MarksFor(log, ms) /\ ms \in Seq(Delta) /\ log \in Seq(Delta)
    BY <1>1, <1>3, RunMarksAreLogged DEF MarksFrom, StandingTypes
  <1>5. log' \in Seq(Delta) /\ IsLog(log') /\ GoesOn(log, log')
    BY <1>1, <1>4, MarksAreLogged, JoinedPositions
  <1>6. /\ lessons' \in [Lessons -> Row \cup {None}]
        /\ \A l \in Lessons :
             /\ Exists(l)' <=> Exists(l)
             /\ Exists(l) => /\ lessons'[l].status = lessons[l].status /\ lessons'[l].group = lessons[l].group
                             /\ lessons'[l].uses = lessons[l].uses /\ lessons[l].uses \in Nat
                             /\ lessons'[l].helpful = lessons[l].helpful + Helped(ms, l)
                             /\ lessons'[l].harmful = lessons[l].harmful + Harmed(ms, l)
    BY <1>1, <1>3, <1>4, RowMarkedIs
  <1>7. /\ applications' \in Seq(Receipt) /\ Len(applications') = Len(applications)
        /\ \A i \in 1 .. Len(applications) :
             /\ applications'[i].lesson = applications[i].lesson
             /\ applications'[i].injection = applications[i].injection
    BY <1>2, <1>3, ReceiptsCounted
  <1>8. /\ todo' \in Seq(Lessons) /\ \A i, j \in 1 .. Len(todo') : i # j => todo'[i] # todo'[j]
        /\ \A x : Listed(x)' <=> Names(ms, x)
    <2>1. PICK t : t = Affected(ms)
      OBVIOUS
    <2>2. /\ t \in Seq(Lessons) /\ \A i, j \in 1 .. Len(t) : i # j => t[i] # t[j]
          /\ \A x : (\E i \in 1 .. Len(t) : t[i] = x) <=> Names(ms, x)
      BY <1>4, <2>1, AffectedIs
    <2>3. todo' = t
      BY <1>1, <2>1
    <2> QED  BY <2>2, <2>3 DEF Listed
  <1>9. \A i \in 1 .. Len(ms) : ms[i].lesson \in Lessons /\ Exists(ms[i].lesson)
    <2> SUFFICES ASSUME NEW i \in 1 .. Len(ms) PROVE ms[i].lesson \in Lessons /\ Exists(ms[i].lesson)
      OBVIOUS
    <2>1. p[i] \in 1 .. Len(applications) /\ ms[i].lesson = applications[p[i]].lesson
      BY <1>1 DEF MarksFrom
    <2> QED  BY <1>3, <2>1, ReceiptIs DEF ReceiptsInv
  <1>10. StandingTypes'
    <2>1. watermark \in 0 .. Len(log') /\ (snapshot # None => snapshot.upto \in 0 .. Len(log'))
      BY <1>3, <1>5 DEF StandingTypes, GoesOn
    <2>2. \A i \in 1 .. Len(todo') : lessons'[todo'[i]] # None
      <3> SUFFICES ASSUME NEW i \in 1 .. Len(todo') PROVE lessons'[todo'[i]] # None
        OBVIOUS
      <3>1. PICK k \in 1 .. Len(ms) : ms[k].lesson = todo'[i]
        <4>2. PICK x : x = todo'[i]
          OBVIOUS
        <4>3. Listed(x)'
          BY <4>2 DEF Listed
        <4> QED  BY <1>8, <4>2, <4>3 DEF Names
      <3>2. PICK x \in Lessons : x = ms[k].lesson /\ Exists(x)
        BY <1>9
      <3> QED  BY <1>6, <3>1, <3>2 DEF Exists
    <2> QED  BY <1>2, <1>3, <1>5, <1>6, <1>7, <1>8, <2>1, <2>2 DEF StandingTypes, Phases, Exists
  <1>11. TodoInv'
    BY <1>2, <1>8 DEF TodoInv
  <1>12. RowsInv'
    <2>1. ASSUME NEW l \in Lessons PROVE Agrees(lessons'[l], replayLesson(l, log'))
      <3> DEFINE row == replayLesson(l, log)
                 new == replayLesson(l, log')
      <3>1. Len(ms) \in 0 .. Len(ms)
        BY <1>4, LenProperties
      <3>2. After(log, ms, l, Len(ms)) = new
        BY <1>1, <1>4, AfterStep
      <3>3. /\ row = None => new = None
            /\ row # None =>
                 /\ row \in ReplayedRow /\ new \in ReplayedRow /\ new.group = row.group
                 /\ new.helpful = row.helpful + Helped(ms, l)
                 /\ new.harmful = row.harmful + Harmed(ms, l)
        BY <1>4, <3>1, <3>2, MarksCount, HelpedIs
      <3>4. Agrees(lessons[l], row)
        BY <1>3 DEF RowsInv
      <3>5. /\ Exists(l)' <=> Exists(l)
            /\ Exists(l) => /\ lessons'[l].group = lessons[l].group
                            /\ lessons'[l].helpful = lessons[l].helpful + Helped(ms, l)
                            /\ lessons'[l].harmful = lessons[l].harmful + Harmed(ms, l)
        BY <1>6
      <3>6. lessons[l] # None => row # None
        BY <3>4, NoneIs DEF Agrees
      <3> HIDE DEF row, new
      <3>7. CASE lessons[l] = None
        BY <3>3, <3>4, <3>5, <3>7 DEF Agrees, Exists, new
      <3>8. CASE lessons[l] # None
        BY <3>3, <3>4, <3>5, <3>6, <3>8 DEF Agrees, Exists, new
      <3> QED  BY <3>7, <3>8 DEF new
    <2> QED  BY <2>1 DEF RowsInv
  <1>13. StatusInv'
    <2>1. SUFFICES ASSUME crashes = 0, MarksAreSingle', NEW l \in Lessons, Exists(l)
          PROVE  replayLesson(l, log').status = IF Listed(l)' THEN Verdict(lessons'[l]) ELSE lessons'[l].status
      BY <1>2, <1>6 DEF StatusInv
    <2>2. replayLesson(l, log') .status =
            IF Names(ms, l) THEN Verdict(lessons'[l]) ELSE lessons'[l].status
      <3>1. /\ MarksFrom(ms, p, r) /\ MarksFor(log, ms) /\ log' = log \o ms /\ MarksAreSingle' /\ RowsMarked(ms)
            /\ crashes = 0 /\ todo = <<>> /\ RowsInv' /\ Exists(l)
        BY <1>1, <1>3, <1>4, <1>12, <2>1
      <3> QED  BY <3>1, MarkRunStatus
    <2> QED  BY <1>8, <2>2
  <1>14. ReceiptsInv'
    <2>1. \A j \in 1 .. Len(applications) : lessons'[applications'[j].lesson] # None
      <3> SUFFICES ASSUME NEW j \in 1 .. Len(applications) PROVE lessons'[applications'[j].lesson] # None
        OBVIOUS
      <3>1. PICK x \in Lessons : x = applications[j].lesson /\ Exists(x)
        BY <1>3, ReceiptIs DEF ReceiptsInv
      <3> QED  BY <1>6, <1>7, <3>1 DEF Exists
    <2>2. \A i, j \in 1 .. Len(applications) :
            i # j => ~(applications'[i].lesson = applications'[j].lesson
                       /\ applications'[i].injection = applications'[j].injection)
      BY <1>3, <1>7 DEF ReceiptsInv
    <2> QED  BY <1>7, <2>1, <2>2 DEF ReceiptsInv, Exists
  <1>15. MarksInv'
    BY <1>1, <1>2, <1>3, MarkRunMarks
  <1>16. PruneInv'
    <2>1. ASSUME NEW x \in Lessons PROVE Ages(x)
      <3>1. Exists(x) => lessons'[x].uses >= lessons[x].uses
        BY <1>6
      <3>2. x \in Selectable' => x \in Selectable
        BY <1>6 DEF Selectable, Exists
      <3> QED  BY <1>6, <3>1, <3>2 DEF Ages
    <2>2. ASSUME NEW i \in 1 .. Len(log'), log'[i].type = "RETIRE" PROVE RetiresUnused(i)
      <3>1. \/ i \in 1 .. Len(log) /\ log'[i] = log[i]
            \/ \E k \in 1 .. Len(ms) : log'[i] = ms[k]
        BY <1>1, <1>4, JoinedPositions
      <3>2. \A k \in 1 .. Len(ms) : ms[k].type # "RETIRE"
        BY <1>4 DEF MarksFor, Marks
      <3>3. i \in 1 .. Len(log) /\ log'[i] = log[i]
        BY <2>2, <3>1, <3>2
      <3> QED  BY <3>3 DEF RetiresUnused
    <2> QED  BY <1>3, <1>7, <1>10, <2>1, <2>2, PruneSurvives DEF StandingInv
  <1> QED  BY <1>10, <1>11, <1>12, <1>13, <1>14, <1>15, <1>16 DEF StandingInv

-----------------------------------------------------------------------------
(* The lesson that absorbs the others of its group.                        *)

Beats(l, other) ==
  \/ Samples(lessons[l]) > Samples(lessons[other])
  \/ Samples(lessons[l]) = Samples(lessons[other]) /\ l < other

\* Of lessons with samples, one beats all others.
LEMMA BestExists ==
  ASSUME NEW S \in SUBSET Nat, IsFiniteSet(S), S # {}, \A l \in S : Samples(lessons[l]) \in Nat
  PROVE  \E l \in S : \A other \in S \ {l} : Beats(l, other)
  <1> DEFINE HasBest(T) == \E l \in T : \A other \in T \ {l} : Beats(l, other)
             bad == {n \in Nat : \E T \in SUBSET S : T # {} /\ IsFiniteSet(T) /\ Cardinality(T) = n /\ ~HasBest(T)}
  <1>1. SUFFICES ASSUME ~HasBest(S) PROVE FALSE
    OBVIOUS
  <1>2. bad # {}
    BY <1>1, FS_CardinalityType
  <1>3. PICK m \in bad : \A k \in bad : m <= k
    BY <1>2, LeastOfSome
  <1>4. PICK T \in SUBSET S : T # {} /\ IsFiniteSet(T) /\ Cardinality(T) = m /\ ~HasBest(T)
    BY <1>3
  <1>5. PICK x \in T : TRUE
    BY <1>4
  <1> DEFINE U == T \ {x}
  <1>6. CASE U = {}
    BY <1>4, <1>5, <1>6
  <1>7. CASE U # {}
    <2>1. IsFiniteSet(U) /\ Cardinality(U) = m - 1 /\ m - 1 \in Nat /\ U \in SUBSET S
      <3>1. IsFiniteSet(U) /\ Cardinality(U) = m - 1
        BY <1>4, <1>5, FS_RemoveElement
      <3>2. Cardinality(U) \in Nat
        BY <3>1, FS_CardinalityType
      <3> QED  BY <3>1, <3>2
    <2>2. HasBest(U)
      <3>1. m - 1 \notin bad
        BY <1>3, <2>1
      <3> QED  BY <1>7, <2>1, <3>1
    <2>3. PICK b \in U : \A other \in U \ {b} : Beats(b, other)
      BY <2>2
    <2>4. \A l \in T : Samples(lessons[l]) \in Nat /\ l \in Nat
      BY <1>4
    <2>5. b \in T /\ x \in T /\ b # x /\ \A l \in T : l = x \/ l \in U
      BY <2>3
    <2> HIDE DEF U
    <2>6. CASE Beats(b, x)
      <3>1. \A other \in T \ {b} : Beats(b, other)
        BY <2>3, <2>5, <2>6
      <3> QED  BY <1>4, <2>5, <3>1
    <2>7. CASE ~Beats(b, x)
      <3>1. Beats(x, b)
        BY <2>4, <2>5, <2>7 DEF Beats
      <3>2. ASSUME NEW other \in T \ {x} PROVE Beats(x, other)
        <4>1. CASE other = b
          BY <3>1, <4>1
        <4>2. CASE other # b
          <5>1. Beats(b, other) /\ other \in T
            BY <2>3, <2>5, <3>2, <4>2
          <5> QED  BY <2>4, <2>5, <3>1, <5>1 DEF Beats
        <4> QED  BY <4>1, <4>2
      <3> QED  BY <1>4, <2>5, <3>2
    <2> QED  BY <2>6, <2>7
  <1> QED  BY <1>6, <1>7

LEMMA SelectableIs ==
  ASSUME StandingTypes, NEW l \in Selectable
  PROVE  /\ l \in Lessons /\ Exists(l) /\ lessons[l] \in Row /\ lessons[l].group \in Groups
         /\ lessons[l].helpful \in Nat /\ lessons[l].harmful \in Nat /\ lessons[l].uses \in Nat
         /\ Samples(lessons[l]) \in Nat
  <1>1. l \in Lessons /\ Exists(l) /\ lessons[l] \in Row
    BY DEF StandingTypes, Exists, Selectable
  <1> QED  BY <1>1 DEF Row, Samples

LEMMA AbsorberIs ==
  ASSUME StandingTypes, NEW l \in Selectable
  PROVE  LET g == lessons[l].group IN
         /\ Absorber(g) \in Selectable /\ lessons[Absorber(g)].group = g
         /\ Absorbed(g) = {x \in Selectable : lessons[x].group = g /\ x # Absorber(g)}
  <1> DEFINE g == lessons[l].group
             S == Existing(g)
  <1>1. l \in S /\ S \in SUBSET Selectable /\ \A x \in S : lessons[x].group = g
    BY DEF Existing
  <1>2. S \in SUBSET Nat /\ IsFiniteSet(S)
    <2>1. S \in SUBSET Lessons
      BY <1>1 DEF Selectable
    <2> HIDE DEF S
    <2> QED  BY <2>1, LessonAssumption, FS_Subset
  <1>3. \A x \in S : Samples(lessons[x]) \in Nat
    BY <1>1, SelectableIs
  <1> HIDE DEF S
  <1>4. \E b \in S : \A other \in S \ {b} : Beats(b, other)
    BY <1>1, <1>2, <1>3, BestExists
  <1>5. Absorber(g) = CHOOSE b \in S : \A other \in S \ {b} : Beats(b, other)
    BY DEF Absorber, Beats, S
  <1>6. Absorber(g) \in S
    BY <1>4, <1>5
  <1>7. Absorbed(g) = S \ {Absorber(g)}
    BY <1>1 DEF Absorbed, S
  <1>8. S = {x \in Selectable : lessons[x].group = g}
    BY DEF S, Existing
  <1>9. Absorbed(g) = {x \in Selectable : lessons[x].group = g /\ x # Absorber(g)}
    BY <1>7, <1>8
  <1> QED  BY <1>1, <1>6, <1>9

\* All lessons that are absorbed.
AllAbsorbed == UNION {Absorbed(g) : g \in Groups}

LEMMA AllAbsorbedIs ==
  ASSUME StandingTypes
  PROVE  /\ AllAbsorbed \in SUBSET Selectable
         /\ \A l \in Selectable : /\ l \in AllAbsorbed <=> l # Absorber(lessons[l].group)
                                  /\ l \in AllAbsorbed <=> l \in Absorbed(lessons[l].group)
                                  /\ Absorber(lessons[l].group) \in Selectable \ AllAbsorbed
  <1>1. ASSUME NEW g \in Groups, NEW l \in Absorbed(g)
        PROVE  l \in Selectable /\ lessons[l].group = g
    BY DEF Absorbed, Existing
  <1>2. AllAbsorbed \in SUBSET Selectable
    BY <1>1 DEF AllAbsorbed
  <1>3. ASSUME NEW l \in Selectable
        PROVE  /\ l \in AllAbsorbed <=> l \in Absorbed(lessons[l].group)
               /\ l \in AllAbsorbed <=> l # Absorber(lessons[l].group)
    <2>1. lessons[l].group \in Groups
      BY SelectableIs
    <2>2. l \in AllAbsorbed <=> l \in Absorbed(lessons[l].group)
      BY <1>1, <2>1 DEF AllAbsorbed
    <2>3. l \in Absorbed(lessons[l].group) <=> l # Absorber(lessons[l].group)
      BY AbsorberIs
    <2> QED  BY <2>2, <2>3
  <1>4. ASSUME NEW l \in Selectable PROVE Absorber(lessons[l].group) \in Selectable \ AllAbsorbed
    <2>1. PICK b \in Selectable : b = Absorber(lessons[l].group) /\ lessons[b].group = lessons[l].group
      BY AbsorberIs
    <2>2. b = Absorber(lessons[b].group)
      BY <2>1
    <2> QED  BY <1>3, <2>1, <2>2
  <1> QED  BY <1>2, <1>3, <1>4

-----------------------------------------------------------------------------
(* The rows after the merges.                                              *)

UsesOf(S) == SumFunctionOnSet([x \in S |-> lessons[x].uses], S)
HelpfulIn(S) == SumFunctionOnSet([x \in S |-> lessons[x].helpful], S)
HarmfulIn(S) == SumFunctionOnSet([x \in S |-> lessons[x].harmful], S)

LEMMA SumsOfRows ==
  ASSUME StandingTypes, NEW S \in SUBSET Selectable
  PROVE  HelpfulIn(S) \in Nat /\ HarmfulIn(S) \in Nat /\ UsesOf(S) \in Nat
  <1> DEFINE f == [x \in S |-> lessons[x].helpful]
             g == [x \in S |-> lessons[x].harmful]
             h == [x \in S |-> lessons[x].uses]
  <1>1. IsFiniteSet(S)
    <2>1. S \in SUBSET Lessons
      BY DEF Selectable
    <2> QED  BY <2>1, LessonAssumption, FS_Subset
  <1>2. \A x \in S : f[x] \in Nat
    BY SelectableIs
  <1>3. \A x \in S : g[x] \in Nat
    BY SelectableIs
  <1>4. \A x \in S : h[x] \in Nat
    BY SelectableIs
  <1> HIDE DEF f, g, h
  <1>5. SumFunctionOnSet(f, S) \in Nat
    BY <1>1, <1>2, SumNat
  <1>6. SumFunctionOnSet(g, S) \in Nat
    BY <1>1, <1>3, SumNat
  <1>7. SumFunctionOnSet(h, S) \in Nat
    BY <1>1, <1>4, SumNat
  <1> QED  BY <1>5, <1>6, <1>7 DEF f, g, h, HelpfulIn, HarmfulIn, UsesOf

\* A row that takes over what others have.
TakesOver(row, h, k, u) == [row EXCEPT !.helpful = @ + h, !.harmful = @ + k, !.uses = @ + u]

LEMMA TakesOverIs ==
  ASSUME NEW row \in Row, NEW h \in Nat, NEW k \in Nat, NEW u \in Nat
  PROVE  LET new == TakesOver(row, h, k, u) IN
         /\ new \in Row /\ new.status = row.status /\ new.group = row.group
         /\ new.helpful = row.helpful + h /\ new.harmful = row.harmful + k
         /\ new.uses >= row.uses /\ row.uses \in Nat /\ new.uses \in Nat
  <1>1. PICK a \in Nat, b \in Nat, c \in Nat : a = row.helpful + h /\ b = row.harmful + k /\ c = row.uses + u
    BY DEF Row
  <1>2. TakesOver(row, h, k, u) = [row EXCEPT !.helpful = a, !.harmful = b, !.uses = c]
    BY <1>1 DEF TakesOver
  <1>3. LET new == [row EXCEPT !.helpful = a, !.harmful = b, !.uses = c] IN
        /\ new \in Row /\ new.status = row.status /\ new.group = row.group
        /\ new.helpful = a /\ new.harmful = b /\ new.uses = c /\ row.uses \in Nat
    BY DEF Row
  <1>4. c >= row.uses
    <2>1. row.uses \in Nat
      BY DEF Row
    <2> QED  BY <1>1, <2>1
  <1> QED  BY <1>1, <1>2, <1>3, <1>4

LEMMA MergedIs ==
  ASSUME StandingTypes, NEW l \in Lessons, Exists(l)
  PROVE  LET row == lessons[l]
             new == Merged(l)
             others == Absorbed(row.group)
         IN /\ row \in Row /\ new \in Row /\ new.group = row.group
            /\ l \notin Selectable => new = row
            /\ l \in AllAbsorbed => new.status = "retired" /\ new.helpful = 0 /\ new.harmful = 0
            /\ l \in Selectable \ AllAbsorbed =>
                 /\ others \in SUBSET Selectable
                 /\ new.status = row.status /\ new.uses >= row.uses
                 /\ new.helpful = row.helpful + HelpfulIn(others)
                 /\ new.harmful = row.harmful + HarmfulIn(others)
  <1> DEFINE row == lessons[l]
             new == Merged(l)
             others == Absorbed(row.group)
  <1>1. row \in Row
    BY DEF StandingTypes, Exists
  <1>2. CASE l \notin Selectable
    <2>1. l \notin others
      BY <1>2 DEF Absorbed, Existing
    <2>2. new = row
      BY <1>2, <2>1 DEF Merged
    <2> QED  BY <1>1, <1>2, <2>2, AllAbsorbedIs
  <1>3. CASE l \in AllAbsorbed
    <2>1. l \in Selectable /\ l \in others
      BY <1>3, AllAbsorbedIs
    <2>2. new = [row EXCEPT !.helpful = 0, !.harmful = 0, !.uses = 0, !.status = "retired"]
      BY <2>1 DEF Merged
    <2> HIDE DEF new, row
    <2>3. LET gone == [row EXCEPT !.helpful = 0, !.harmful = 0, !.uses = 0, !.status = "retired"] IN
          gone \in Row /\ gone.group = row.group /\ gone.status = "retired" /\ gone.helpful = 0 /\ gone.harmful = 0
      BY <1>1 DEF Row, Statuses
    <2> QED  BY <1>1, <1>3, <2>1, <2>2, <2>3 DEF new, row
  <1>4. CASE l \in Selectable \ AllAbsorbed
    <2>1. l \in Selectable /\ l \notin others
      BY <1>4, AllAbsorbedIs
    <2>2. new = [row EXCEPT !.helpful = @ + HelpfulIn(others), !.harmful = @ + HarmfulIn(others),
                            !.uses = @ + UsesOf(others)]
      BY <2>1 DEF Merged, Total, HelpfulIn, HarmfulIn, UsesOf
    <2>3. others \in SUBSET Selectable
      BY <2>1, AbsorberIs
    <2> DEFINE h == HelpfulIn(others)
               k == HarmfulIn(others)
               u == UsesOf(others)
    <2>4. h \in Nat /\ k \in Nat /\ u \in Nat
      BY <2>3, SumsOfRows
    <2>5. new = TakesOver(row, h, k, u)
      BY <2>2 DEF TakesOver
    <2> HIDE DEF h, k, u, new, row, others
    <2>6. /\ TakesOver(row, h, k, u) \in Row /\ TakesOver(row, h, k, u).status = row.status
          /\ TakesOver(row, h, k, u).group = row.group
          /\ TakesOver(row, h, k, u).helpful = row.helpful + h /\ TakesOver(row, h, k, u).harmful = row.harmful + k
          /\ TakesOver(row, h, k, u).uses >= row.uses
      BY <1>1, <2>4, TakesOverIs
    <2> QED  BY <1>1, <1>4, <2>3, <2>5, <2>6 DEF h, k, new, row, others
  <1> QED  BY <1>2, <1>3, <1>4

\* Deltas that are appended and are no marks.
LEMMA OldMarksSurvive ==
  ASSUME MarksInv, UNCHANGED applications,
         \A i \in 1 .. Len(log') : IsMark(log'[i]) => i \in 1 .. Len(log) /\ log'[i] = log[i]
  PROVE  MarksInv'
  <1>2. ASSUME NEW i \in 1 .. Len(log'), IsMark(log'[i]), log'[i].injection # None
        PROVE  \E j \in 1 .. Len(applications) : SameReceipt(log'[i], applications[j]) /\ applications[j].counted
    BY <1>2 DEF MarksInv
  <1>3. ASSUME NEW i \in 1 .. Len(log'), NEW j \in 1 .. Len(log'), i # j,
               IsMark(log'[i]), IsMark(log'[j]), log'[i].injection # None
        PROVE  ~(log'[i].lesson = log'[j].lesson /\ log'[i].injection = log'[j].injection)
    BY <1>3 DEF MarksInv
  <1> QED  BY <1>2, <1>3 DEF MarksInv, SameReceipt

-----------------------------------------------------------------------------
(* What the curator appends.                                               *)

LEMMA MergeDeltaIs ==
  ASSUME StandingTypes, NEW l \in AllAbsorbed
  PROVE  LET d == MergeDelta(l) IN
         /\ d \in Delta /\ d.type = "MERGE_INTO" /\ d.lesson = l
         /\ d.helpful = lessons[l].helpful /\ d.harmful = lessons[l].harmful /\ d.injection = None
         /\ d.target = Absorber(lessons[l].group) /\ d.target \in Selectable \ AllAbsorbed
  <1>1. l \in Selectable
    BY AllAbsorbedIs
  <1>2. Absorber(lessons[l].group) \in Selectable \ AllAbsorbed
    BY <1>1, AllAbsorbedIs
  <1>3. /\ l \in Lessons /\ Absorber(lessons[l].group) \in Lessons
        /\ lessons[l].helpful \in Nat /\ lessons[l].harmful \in Nat
    BY <1>1, <1>2, SelectableIs
  <1> DEFINE t == Absorber(lessons[l].group)
             h == lessons[l].helpful
             k == lessons[l].harmful
  <1>4. MergeDelta(l) = [NewDelta("MERGE_INTO", l) EXCEPT !.target = t, !.helpful = h, !.harmful = k]
    BY DEF MergeDelta
  <1>5. /\ l \in Lessons /\ t \in Lessons /\ h \in Nat /\ k \in Nat
        /\ t = Absorber(lessons[l].group) /\ t \in Selectable \ AllAbsorbed
        /\ h = lessons[l].helpful /\ k = lessons[l].harmful
    BY <1>2, <1>3
  <1> HIDE DEF t, h, k
  <1>6. MergeDelta(l) = [type |-> "MERGE_INTO", lesson |-> l, group |-> None, helpful |-> h,
                         harmful |-> k, target |-> t, injection |-> None]
    BY <1>4 DEF NewDelta
  <1>7. MergeDelta(l) \in Delta
    BY <1>5, <1>6 DEF Delta, DeltaTypes
  <1> QED  BY <1>5, <1>6, <1>7

\* A merge of every lesson that is absorbed, once.
IsMerges(ms) ==
  /\ ms \in Seq(Delta)
  /\ \A i \in 1 .. Len(ms) : ms[i].lesson \in AllAbsorbed /\ ms[i] = MergeDelta(ms[i].lesson)
  /\ \A i, j \in 1 .. Len(ms) : i # j => ms[i].lesson # ms[j].lesson
  /\ \A l : Names(ms, l) <=> l \in AllAbsorbed

\* A retirement of every lesson that is pruned.
IsPrunings(rs) ==
  /\ rs \in Seq(Delta)
  /\ \A i \in 1 .. Len(rs) : /\ rs[i].type = "RETIRE" /\ rs[i].target = None
                            /\ rs[i].lesson \in Lessons /\ Prunable(rs[i].lesson)
  /\ \A l \in Lessons : Names(rs, l) <=> Prunable(l)

RowsCurated ==
  lessons' = [l \in Lessons |->
    IF ~Exists(l) THEN None
    ELSE IF Prunable(l) THEN [Merged(l) EXCEPT !.status = "retired"] ELSE Merged(l)]

LEMMA CurateEffect ==
  ASSUME StandingTypes, Curate
  PROVE  \E ms, rs : IsMerges(ms) /\ IsPrunings(rs) /\ log' = (log \o ms) \o rs /\ RowsCurated
  <1> DEFINE A == AllAbsorbed
             P == {l \in Lessons : Prunable(l)}
             absorbed == InOrder(A)
             pruned == InOrder(P)
             ms == [i \in DOMAIN absorbed |-> MergeDelta(absorbed[i])]
             rs == [i \in DOMAIN pruned |-> NewDelta("RETIRE", pruned[i])]
             n == Cardinality(A)
             m == Cardinality(P)
  <1>1. log' = (log \o ms) \o rs /\ RowsCurated
    BY DEF Curate, RowsCurated, AllAbsorbed
  <1>2. A \in SUBSET Nat /\ IsFiniteSet(A) /\ P \in SUBSET Nat /\ IsFiniteSet(P)
    <2>1. A \in SUBSET Lessons
      BY AllAbsorbedIs DEF Selectable
    <2>2. P \in SUBSET Lessons
      OBVIOUS
    <2> HIDE DEF A, P
    <2> QED  BY <2>1, <2>2, LessonAssumption, FS_Subset
  <1>3. \A l \in P : l \in Lessons /\ Prunable(l)
    OBVIOUS
  <1>4. \A l \in Lessons : l \in P <=> Prunable(l)
    OBVIOUS
  <1> HIDE DEF P
  <1>5. /\ absorbed \in [1 .. n -> A] /\ n \in Nat /\ DOMAIN absorbed = 1 .. n
        /\ \A i, j \in 1 .. n : i # j => absorbed[i] # absorbed[j]
        /\ \A x \in A : \E i \in 1 .. n : absorbed[i] = x
    BY <1>2, InOrderOf
  <1>6. /\ pruned \in [1 .. m -> P] /\ m \in Nat /\ DOMAIN pruned = 1 .. m
        /\ \A x \in P : \E i \in 1 .. m : pruned[i] = x
    BY <1>2, InOrderOf
  <1> HIDE DEF absorbed, pruned
  <1>7. IsMerges(ms)
    <2>1. \A i \in 1 .. n : absorbed[i] \in AllAbsorbed /\ ms[i] = MergeDelta(absorbed[i])
      BY <1>5
    <2>2. \A i \in 1 .. n : ms[i] \in Delta /\ ms[i].lesson = absorbed[i]
      BY <2>1, MergeDeltaIs
    <2>3. ms = [i \in 1 .. n |-> ms[i]]
      BY <1>5
    <2> HIDE DEF ms, n, A
    <2>4. ms \in [1 .. n -> Delta]
      BY <2>2, <2>3
    <2>5. ms \in Seq(Delta) /\ Len(ms) = n
      BY <1>5, <2>4
    <2>6. \A l : Names(ms, l) <=> l \in AllAbsorbed
      BY <1>5, <2>1, <2>2, <2>5 DEF Names, A
    <2> QED  BY <1>5, <2>1, <2>2, <2>5, <2>6 DEF IsMerges
  <1>8. IsPrunings(rs)
    <2>1. \A i \in 1 .. m : pruned[i] \in Lessons /\ Prunable(pruned[i]) /\ rs[i] = NewDelta("RETIRE", pruned[i])
      BY <1>3, <1>6
    <2>2. \A i \in 1 .. m : /\ rs[i] \in Delta /\ rs[i].lesson = pruned[i]
                            /\ rs[i].type = "RETIRE" /\ rs[i].target = None
      BY <2>1, NewDeltaIs DEF DeltaTypes
    <2>3. rs = [i \in 1 .. m |-> rs[i]]
      BY <1>6
    <2> HIDE DEF rs, m
    <2>4. rs \in [1 .. m -> Delta]
      BY <2>2, <2>3
    <2>5. rs \in Seq(Delta) /\ Len(rs) = m
      BY <1>6, <2>4
    <2>6. \A l \in Lessons : Names(rs, l) <=> Prunable(l)
      BY <1>4, <1>6, <2>1, <2>2, <2>5 DEF Names
    <2> QED  BY <2>1, <2>2, <2>5, <2>6 DEF IsPrunings
  <1> QED  BY <1>1, <1>7, <1>8

LEMMA MergesAreFor ==
  ASSUME StandingTypes, RowsInv, NEW ms, IsMerges(ms)
  PROVE  MergesFor(log, ms)
  <1>1. ASSUME NEW i \in 1 .. Len(ms)
        PROVE  /\ ms[i].lesson \in AllAbsorbed /\ ms[i].type = "MERGE_INTO"
               /\ replayLesson(ms[i].lesson, log) # None
               /\ ms[i].helpful = replayLesson(ms[i].lesson, log).helpful
               /\ ms[i].harmful = replayLesson(ms[i].lesson, log).harmful
               /\ ms[i].target \in Lessons /\ replayLesson(ms[i].target, log) # None
               /\ ms[i].target \notin AllAbsorbed
    <2>1. PICK l \in AllAbsorbed : l = ms[i].lesson /\ ms[i] = MergeDelta(l)
      BY <1>1 DEF IsMerges
    <2>2. /\ ms[i].type = "MERGE_INTO" /\ ms[i].helpful = lessons[l].helpful /\ ms[i].harmful = lessons[l].harmful
          /\ ms[i].target \in Selectable \ AllAbsorbed
      BY <2>1, MergeDeltaIs
    <2>3. l \in Selectable
      BY AllAbsorbedIs
    <2>4. l \in Lessons /\ Exists(l) /\ ms[i].target \in Lessons /\ Exists(ms[i].target)
      BY <2>2, <2>3, SelectableIs
    <2>5. replayLesson(l, log) # None /\ replayLesson(ms[i].target, log) # None
      BY <2>4, ExistsInLog
    <2>6. replayLesson(l, log).helpful = lessons[l].helpful /\ replayLesson(l, log).harmful = lessons[l].harmful
      BY <2>4 DEF RowsInv, Agrees, Exists
    <2> QED  BY <2>1, <2>2, <2>4, <2>5, <2>6
  <1>2. \A i, j \in 1 .. Len(ms) : i # j => ms[i].lesson # ms[j].lesson
    BY DEF IsMerges
  <1>3. \A i, j \in 1 .. Len(ms) : ms[i].target # ms[j].lesson
    BY <1>1
  <1>4. log \in Seq(Delta) /\ IsLog(log) /\ ms \in Seq(Delta)
    BY DEF StandingTypes, IsMerges
  <1> QED  BY <1>1, <1>2, <1>3, <1>4 DEF MergesFor

\* The fold of the merges is the merged row.
LEMMA MergedInLog ==
  ASSUME StandingTypes, RowsInv, NEW ms, IsMerges(ms), MergesFor(log, ms), NEW l \in Lessons
  PROVE  LET new == replayLesson(l, log \o ms)
             row == replayLesson(l, log)
         IN /\ ~Exists(l) => new = None
            /\ Exists(l) => /\ new \in ReplayedRow /\ new.group = lessons[l].group
                            /\ new.helpful = Merged(l).helpful /\ new.harmful = Merged(l).harmful
                            /\ row.status = lessons[l].status => new.status = Merged(l).status
  <1> DEFINE new == replayLesson(l, log \o ms)
             row == replayLesson(l, log)
             n == Len(ms)
  <1>1. n \in 0 .. n /\ After(log, ms, l, n) = new
    BY AfterStep, LenProperties DEF MergesFor
  <1>2. IsMerged(ms, l, n) <=> l \in AllAbsorbed
    BY DEF IsMerges, IsMerged, Names
  <1>3. /\ row = None => new = None
        /\ row # None =>
             /\ row \in ReplayedRow /\ new \in ReplayedRow /\ new.group = row.group
             /\ IsMerged(ms, l, n) => new.status = "retired" /\ new.helpful = 0 /\ new.harmful = 0
             /\ ~IsMerged(ms, l, n) =>
                  /\ new.status = row.status
                  /\ new.helpful = row.helpful + HelpfulOf(log, Into(ms, l, n))
                  /\ new.harmful = row.harmful + HarmfulOf(log, Into(ms, l, n))
    BY <1>1, MergesCount
  <1>4. Agrees(lessons[l], row)
    BY DEF RowsInv
  <1>5. Into(ms, l, n) = {x \in AllAbsorbed : Absorber(lessons[x].group) = l}
    <2>1. ASSUME NEW i \in 1 .. n
          PROVE  ms[i].lesson \in AllAbsorbed /\ ms[i].target = Absorber(lessons[ms[i].lesson].group)
      <3>1. PICK x \in AllAbsorbed : x = ms[i].lesson /\ ms[i] = MergeDelta(x)
        BY <2>1 DEF IsMerges
      <3> QED  BY <3>1, MergeDeltaIs
    <2>2. \A x \in AllAbsorbed : \E i \in 1 .. n : ms[i].lesson = x
      BY DEF IsMerges, Names
    <2>3. AllAbsorbed \in SUBSET Lessons
      BY AllAbsorbedIs DEF Selectable
    <2> QED  BY <2>1, <2>2, <2>3 DEF Into
  <1> HIDE DEF new, row, n
  <1>6. CASE ~Exists(l)
    BY <1>3, <1>4, <1>6 DEF Agrees, Exists, new
  <1>7. CASE Exists(l)
    <2>1. /\ row \in ReplayedRow /\ row # None /\ row.group = lessons[l].group
          /\ row.helpful = lessons[l].helpful /\ row.harmful = lessons[l].harmful
          /\ row.helpful \in Nat /\ row.harmful \in Nat
      BY <1>4, <1>7, CountersOf DEF Agrees, Exists
    <2> DEFINE others == Absorbed(lessons[l].group)
    <2>2. /\ l \notin Selectable => Merged(l) = lessons[l]
          /\ l \in AllAbsorbed => Merged(l).status = "retired" /\ Merged(l).helpful = 0 /\ Merged(l).harmful = 0
          /\ l \in Selectable \ AllAbsorbed =>
               /\ others \in SUBSET Selectable
               /\ Merged(l).status = lessons[l].status
               /\ Merged(l).helpful = lessons[l].helpful + HelpfulIn(others)
               /\ Merged(l).harmful = lessons[l].harmful + HarmfulIn(others)
      BY <1>7, MergedIs
    <2>3. CASE l \in AllAbsorbed
      BY <1>2, <1>3, <1>7, <2>1, <2>2, <2>3 DEF new, row
    <2>4. CASE l \notin Selectable
      <3>1. l \notin AllAbsorbed
        BY <2>4, AllAbsorbedIs
      <3>2. Into(ms, l, n) = {}
        <4>1. \A x \in AllAbsorbed : Absorber(lessons[x].group) \in Selectable
          BY AllAbsorbedIs
        <4> QED  BY <1>5, <2>4, <4>1
      <3>3. HelpfulOf(log, Into(ms, l, n)) = 0 /\ HarmfulOf(log, Into(ms, l, n)) = 0
        BY <3>2, SumOfNone DEF HelpfulOf, HarmfulOf
      <3> QED  BY <1>2, <1>3, <1>7, <2>1, <2>2, <2>4, <3>1, <3>3 DEF new, row
    <2>5. CASE l \in Selectable \ AllAbsorbed
      <3>1. others = {x \in Selectable : lessons[x].group = lessons[l].group /\ x # l}
        <4>1. l = Absorber(lessons[l].group)
          BY <2>5, AllAbsorbedIs
        <4> QED  BY <2>5, <4>1, AbsorberIs
      <3>2. Into(ms, l, n) = others
        <4>1. ASSUME NEW x \in AllAbsorbed, Absorber(lessons[x].group) = l PROVE x \in others
          <5>1. x \in Selectable /\ lessons[l].group = lessons[x].group
            BY <4>1, AllAbsorbedIs, AbsorberIs
          <5> QED  BY <2>5, <3>1, <4>1, <5>1
        <4>2. ASSUME NEW x \in others PROVE x \in AllAbsorbed /\ Absorber(lessons[x].group) = l
          <5>1. x \in Selectable /\ lessons[x].group = lessons[l].group /\ x # l
            BY <3>1, <4>2
          <5>2. l = Absorber(lessons[l].group)
            BY <2>5, AllAbsorbedIs
          <5> QED  BY <5>1, <5>2, AllAbsorbedIs
        <4> QED  BY <1>5, <4>1, <4>2
      <3> HIDE DEF others
      <3>3. HelpfulOf(log, others) = HelpfulIn(others) /\ HarmfulOf(log, others) = HarmfulIn(others)
        <4>1. \A x \in others : /\ replayLesson(x, log).helpful = lessons[x].helpful
                                /\ replayLesson(x, log).harmful = lessons[x].harmful
          <5> SUFFICES ASSUME NEW x \in others
                       PROVE  /\ replayLesson(x, log).helpful = lessons[x].helpful
                              /\ replayLesson(x, log).harmful = lessons[x].harmful
            OBVIOUS
          <5>1. x \in Lessons /\ Exists(x)
            BY <2>2, <2>5, SelectableIs
          <5> QED  BY <5>1 DEF RowsInv, Agrees, Exists
        <4>2. /\ [x \in others |-> replayLesson(x, log).helpful] = [x \in others |-> lessons[x].helpful]
              /\ [x \in others |-> replayLesson(x, log).harmful] = [x \in others |-> lessons[x].harmful]
          BY <4>1
        <4> QED  BY <4>2 DEF HelpfulOf, HarmfulOf, HelpfulIn, HarmfulIn
      <3> QED  BY <1>2, <1>3, <1>7, <2>1, <2>2, <2>5, <3>2, <3>3 DEF new, row
    <2> QED  BY <2>3, <2>4, <2>5
  <1> QED  BY <1>6, <1>7

LEMMA PruningsAreFor ==
  ASSUME NEW b \in Seq(Delta), IsLog(b), NEW rs, IsPrunings(rs), \A l \in Lessons : Exists(l) => replayLesson(l, b) # None
  PROVE  RetiresFor(b, rs)
  BY DEF RetiresFor, IsPrunings, Prunable

\* A row that is retired.
LEMMA RetiredIs ==
  ASSUME NEW row \in Row
  PROVE  LET new == [row EXCEPT !.status = "retired"] IN
         /\ new \in Row /\ new.status = "retired" /\ new.group = row.group
         /\ new.helpful = row.helpful /\ new.harmful = row.harmful /\ new.uses = row.uses
  BY DEF Row, Statuses

LEMMA RowCuratedIs ==
  ASSUME StandingTypes, RowsCurated
  PROVE  /\ lessons' \in [Lessons -> Row \cup {None}]
         /\ \A l \in Lessons :
              /\ Exists(l)' <=> Exists(l)
              /\ Exists(l) =>
                   /\ lessons'[l].group = lessons[l].group
                   /\ lessons'[l].helpful = Merged(l).helpful /\ lessons'[l].harmful = Merged(l).harmful
                   /\ lessons'[l].uses = Merged(l).uses
                   /\ lessons'[l].status = IF Prunable(l) THEN "retired" ELSE Merged(l).status
  <1> DEFINE new(l) == IF Prunable(l) THEN [Merged(l) EXCEPT !.status = "retired"] ELSE Merged(l)
  <1>1. ASSUME NEW l \in Lessons, Exists(l)
        PROVE  /\ new(l) \in Row /\ new(l).group = lessons[l].group
               /\ new(l).helpful = Merged(l).helpful /\ new(l).harmful = Merged(l).harmful
               /\ new(l).uses = Merged(l).uses
               /\ new(l).status = IF Prunable(l) THEN "retired" ELSE Merged(l).status
    <2>1. PICK row \in Row : row = Merged(l) /\ row.group = lessons[l].group
      BY <1>1, MergedIs
    <2>2. CASE Prunable(l)
      <3>1. new(l) = [row EXCEPT !.status = "retired"]
        BY <2>1, <2>2
      <3> HIDE DEF new
      <3>2. new(l) \in Row /\ new(l).status = "retired" /\ new(l).group = row.group
             /\ new(l).helpful = row.helpful /\ new(l).harmful = row.harmful /\ new(l).uses = row.uses
        BY <3>1, RetiredIs
      <3> QED  BY <2>1, <2>2, <3>2
    <2>3. CASE ~Prunable(l)
      <3>1. new(l) = row
        BY <2>1, <2>3
      <3> HIDE DEF new
      <3> QED  BY <2>1, <2>3, <3>1
    <2> QED  BY <2>2, <2>3
  <1>2. lessons' = [l \in Lessons |-> IF ~Exists(l) THEN None ELSE new(l)]
    BY DEF RowsCurated
  <1> HIDE DEF new
  <1>3. \A l \in Lessons : /\ ~Exists(l) => lessons'[l] = None
                           /\ Exists(l) => lessons'[l] = new(l) /\ new(l) # None
    BY <1>1, <1>2, NoneIs
  <1>4. lessons' \in [Lessons -> Row \cup {None}]
    BY <1>1, <1>2
  <1>5. \A l \in Lessons : lessons'[l] # None <=> Exists(l)
    BY <1>3
  <1> QED  BY <1>1, <1>3, <1>4, <1>5 DEF Exists

\* What the curator prunes could be selected, is not absorbed and was never given to a run.
LEMMA PrunedWas ==
  ASSUME StandingTypes, PruneInv, NEW l \in Lessons, Prunable(l)
  PROVE  /\ Exists(l) /\ l \in Selectable
         /\ \A j \in 1 .. Len(applications) : applications[j].lesson # l
  <1>1. Exists(l) /\ Merged(l).status = "candidate" /\ Merged(l).uses = 0
    BY DEF Prunable
  <1>2. /\ lessons[l] \in Row /\ Merged(l) \in Row
        /\ l \notin Selectable => Merged(l) = lessons[l]
        /\ l \in AllAbsorbed => Merged(l).status = "retired"
        /\ l \in Selectable \ AllAbsorbed => Merged(l).uses >= lessons[l].uses
    BY <1>1, MergedIs
  <1>3. l \in Selectable \ AllAbsorbed
    <2>1. CASE l \notin Selectable
      BY <1>1, <1>2, <2>1 DEF Selectable
    <2> QED  BY <1>1, <1>2, <2>1
  <1>4. lessons[l].uses \in Nat /\ ~(lessons[l].uses > 0)
    BY <1>1, <1>2, <1>3 DEF Row
  <1> QED  BY <1>1, <1>3, <1>4 DEF PruneInv

LEMMA CurateKeeps ==
  ASSUME StandingInv, Curate
  PROVE  StandingInv'
  <1>1. PICK ms, rs : IsMerges(ms) /\ IsPrunings(rs) /\ log' = (log \o ms) \o rs /\ RowsCurated
    BY CurateEffect DEF StandingInv
  <1>2. /\ at = "curate" /\ at' = "idle" /\ watermark' = Len(log)
        /\ UNCHANGED <<applications, snapshot, chosen, injection, todo, crashes>>
    BY DEF Curate, spent
  <1>3. StandingTypes /\ RowsInv /\ ReceiptsInv /\ MarksInv /\ PruneInv /\ todo = <<>> /\ chosen = {}
    BY <1>2 DEF StandingInv, StandingTypes, TodoInv
  <1> DEFINE b == log \o ms
  <1>4. MergesFor(log, ms) /\ ms \in Seq(Delta) /\ log \in Seq(Delta) /\ rs \in Seq(Delta)
    BY <1>1, <1>3, MergesAreFor DEF IsMerges, IsPrunings, StandingTypes
  <1>5. b \in Seq(Delta) /\ IsLog(b)
    BY <1>4, MergesAreLogged
  <1>6. ASSUME NEW l \in Lessons
        PROVE  /\ ~Exists(l) => replayLesson(l, b) = None
               /\ Exists(l) =>
                    /\ replayLesson(l, b) \in ReplayedRow /\ replayLesson(l, b) # None
                    /\ replayLesson(l, b).group = lessons[l].group
                    /\ replayLesson(l, b).helpful = Merged(l).helpful
                    /\ replayLesson(l, b).harmful = Merged(l).harmful
                    /\ replayLesson(l, log).status = lessons[l].status =>
                         replayLesson(l, b).status = Merged(l).status
    BY <1>1, <1>3, <1>4, MergedInLog, NoneIs
  <1>7. b \o rs = log'
    BY <1>1
  <1>8. /\ GoesOn(log, b) /\ Len(log) \in Nat
        /\ \A n \in 1 .. Len(b) : \/ n \in 1 .. Len(log) /\ b[n] = log[n]
                                  \/ \E k \in 1 .. Len(ms) : b[n] = ms[k]
    BY <1>4, JoinedPositions
  <1> HIDE DEF b
  <1>9. RetiresFor(b, rs)
    BY <1>1, <1>5, <1>6, PruningsAreFor
  <1>10. log' \in Seq(Delta) /\ IsLog(log')
    BY <1>7, <1>9, RetiresAreLogged
  <1>11. /\ GoesOn(b, log')
         /\ \A n \in 1 .. Len(log') : \/ n \in 1 .. Len(b) /\ log'[n] = b[n]
                                      \/ \E k \in 1 .. Len(rs) : log'[n] = rs[k]
    <2>1. /\ GoesOn(b, b \o rs)
          /\ \A n \in 1 .. Len(b \o rs) : \/ n \in 1 .. Len(b) /\ (b \o rs)[n] = b[n]
                                         \/ \E k \in 1 .. Len(rs) : (b \o rs)[n] = rs[k]
      BY <1>4, <1>5, JoinedPositions
    <2> QED  BY <1>7, <2>1
  <1>12. GoesOn(log, log')
    BY <1>8, <1>11 DEF GoesOn
  <1>13. ASSUME NEW n \in 1 .. Len(log')
         PROVE  \/ n \in 1 .. Len(log) /\ log'[n] = log[n]
                \/ \E k \in 1 .. Len(ms) : log'[n] = ms[k]
                \/ \E k \in 1 .. Len(rs) : log'[n] = rs[k]
    BY <1>8, <1>11
  <1>14. /\ lessons' \in [Lessons -> Row \cup {None}]
         /\ \A l \in Lessons :
              /\ Exists(l)' <=> Exists(l)
              /\ Exists(l) =>
                   /\ lessons'[l].group = lessons[l].group
                   /\ lessons'[l].helpful = Merged(l).helpful /\ lessons'[l].harmful = Merged(l).harmful
                   /\ lessons'[l].uses = Merged(l).uses
                   /\ lessons'[l].status = IF Prunable(l) THEN "retired" ELSE Merged(l).status
    BY <1>1, <1>3, RowCuratedIs
  <1>15. ASSUME NEW l \in Lessons
         PROVE  LET new == replayLesson(l, log') IN
                /\ ~Exists(l) => new = None
                /\ Exists(l) => /\ new \in ReplayedRow /\ new.group = lessons[l].group
                                /\ new.helpful = Merged(l).helpful /\ new.harmful = Merged(l).harmful
                                /\ new.status = IF Prunable(l) THEN "retired" ELSE replayLesson(l, b).status
    <2>1. Len(rs) \in 0 .. Len(rs) /\ After(b, rs, l, Len(rs)) = replayLesson(l, log')
      <3>1. Len(rs) \in 0 .. Len(rs) /\ After(b, rs, l, Len(rs)) = replayLesson(l, b \o rs)
        BY <1>4, <1>5, AfterStep, LenProperties
      <3> QED  BY <1>7, <3>1
    <2>2. IsMerged(rs, l, Len(rs)) <=> Prunable(l)
      BY <1>1 DEF IsPrunings, IsMerged, Names
    <2> DEFINE row == replayLesson(l, b)
               new == replayLesson(l, log')
    <2>3. /\ row = None => new = None
          /\ row # None =>
               /\ row \in ReplayedRow /\ new \in ReplayedRow /\ new.group = row.group
               /\ new.helpful = row.helpful /\ new.harmful = row.harmful
               /\ new.status = IF IsMerged(rs, l, Len(rs)) THEN "retired" ELSE row.status
      BY <1>9, <2>1, RetiresCount
    <2> QED  BY <1>6, <2>2, <2>3
  <1>16. StandingTypes'
    <2>1. Len(log) \in 0 .. Len(log') /\ (snapshot # None => snapshot.upto \in 0 .. Len(log'))
      BY <1>3, <1>12 DEF StandingTypes, GoesOn
    <2> QED  BY <1>2, <1>3, <1>10, <1>14, <2>1, EmptySeq DEF StandingTypes, Phases
  <1>17. TodoInv'
    BY <1>2, <1>3 DEF StandingInv, TodoInv
  <1>18. RowsInv'
    <2>1. ASSUME NEW l \in Lessons PROVE Agrees(lessons'[l], replayLesson(l, log'))
      <3>1. CASE Exists(l)
        BY <1>14, <1>15, <3>1 DEF Agrees, Exists
      <3>2. CASE ~Exists(l)
        BY <1>14, <1>15, <3>2 DEF Agrees, Exists
      <3> QED  BY <3>1, <3>2
    <2> QED  BY <2>1 DEF RowsInv
  <1>19. StatusInv'
    <2>1. MarksAreSingle' => MarksAreSingle
      BY <1>3, <1>10, <1>12, SingleBefore
    <2>2. \A x : ~Listed(x) /\ ~Listed(x)'
      BY <1>2, <1>3, EmptySeq DEF Listed
    <2>3. SUFFICES ASSUME crashes = 0, MarksAreSingle, NEW l \in Lessons, Exists(l)
          PROVE  replayLesson(l, log') .status = lessons'[l].status
      BY <1>2, <1>14, <2>1, <2>2 DEF StatusInv
    <2>4. replayLesson(l, log).status = lessons[l].status
      BY <2>2, <2>3 DEF StandingInv, StatusInv
    <2>5. replayLesson(l, b).status = Merged(l).status
      BY <1>6, <2>3, <2>4
    <2> QED  BY <1>14, <1>15, <2>3, <2>5
  <1>20. ReceiptsInv'
    <2>1. \A j \in 1 .. Len(applications) : lessons'[applications[j].lesson] # None
      <3> SUFFICES ASSUME NEW j \in 1 .. Len(applications) PROVE lessons'[applications[j].lesson] # None
        OBVIOUS
      <3>1. PICK x \in Lessons : x = applications[j].lesson /\ Exists(x)
        BY <1>3, ReceiptIs DEF ReceiptsInv
      <3> QED  BY <1>14, <3>1 DEF Exists
    <2> QED  BY <1>2, <1>3, <2>1 DEF ReceiptsInv, Exists
  <1>21. MarksInv'
    <2>1. \A k \in 1 .. Len(ms) : ms[k].type = "MERGE_INTO"
      BY <1>4 DEF MergesFor
    <2>2. \A k \in 1 .. Len(rs) : rs[k].type = "RETIRE"
      BY <1>1 DEF IsPrunings
    <2>3. ASSUME NEW i \in 1 .. Len(log'), IsMark(log'[i]) PROVE i \in 1 .. Len(log) /\ log'[i] = log[i]
      BY <1>13, <2>1, <2>2, <2>3 DEF IsMark, Marks
    <2> QED  BY <1>2, <1>3, <2>3, OldMarksSurvive
  <1>22. PruneInv'
    <2>1. ASSUME NEW x \in Lessons PROVE Ages(x)
      <3>1. SUFFICES ASSUME Exists(x), x \in Selectable'
            PROVE  x \in Selectable /\ lessons'[x].uses >= lessons[x].uses
        BY <1>14 DEF Ages
      <3>2. lessons'[x].status \in {"candidate", "active"}
        BY <3>1 DEF Selectable
      <3>3. Merged(x).status \in {"candidate", "active"} /\ lessons'[x].uses = Merged(x).uses
        BY <1>14, <3>1, <3>2
      <3>4. /\ x \notin Selectable => Merged(x) = lessons[x]
            /\ x \in AllAbsorbed => Merged(x).status = "retired"
            /\ x \in Selectable \ AllAbsorbed => Merged(x).uses >= lessons[x].uses
        BY <1>3, <3>1, MergedIs
      <3>5. x \in Selectable
        BY <3>1, <3>3, <3>4 DEF Selectable
      <3> QED  BY <3>3, <3>4, <3>5
    <2>2. ASSUME NEW i \in 1 .. Len(log'), log'[i].type = "RETIRE" PROVE RetiresUnused(i)
      <3>1. CASE i \in 1 .. Len(log) /\ log'[i] = log[i]
        BY <3>1 DEF RetiresUnused
      <3>2. CASE \E k \in 1 .. Len(ms) : log'[i] = ms[k]
        BY <1>4, <2>2, <3>2 DEF MergesFor
      <3>3. CASE \E k \in 1 .. Len(rs) : log'[i] = rs[k]
        <4>1. PICK x \in Lessons : x = log'[i].lesson /\ Prunable(x)
          BY <1>1, <3>3 DEF IsPrunings
        <4>2. Exists(x) /\ \A j \in 1 .. Len(applications) : applications[j].lesson # x
          BY <1>3, <4>1, PrunedWas
        <4>3. Exists(x)' /\ lessons'[x].status = "retired"
          BY <1>14, <4>1, <4>2
        <4>4. x \notin Selectable'
          BY <4>3 DEF Selectable
        <4> QED  BY <4>1, <4>2, <4>3, <4>4 DEF RetiresUnused
      <3> QED  BY <1>13, <3>1, <3>2, <3>3
    <2> QED  BY <1>2, <1>3, <1>16, <2>1, <2>2, PruneSurvives
  <1> QED  BY <1>16, <1>17, <1>18, <1>19, <1>20, <1>21, <1>22 DEF StandingInv

-----------------------------------------------------------------------------
(* The store that earlier runs left.                                       *)

LEMMA LeftIs ==
  ASSUME NEW history \in Histories, NEW l \in Lessons
  PROVE  LET row == replayLesson(l, history)
             left == RowLeftBy(l, history)
         IN /\ history \in Seq(Delta) /\ IsLog(history)
            /\ row = None => left = None
            /\ row # None => /\ row \in ReplayedRow /\ left \in Row /\ left # None
                             /\ left.status = row.status /\ left.group = row.group
                             /\ left.helpful = row.helpful /\ left.harmful = row.harmful
  <1> DEFINE row == replayLesson(l, history)
             left == RowLeftBy(l, history)
             n == Cardinality(MarksOf(l, history))
  <1>1. history \in Seq(Delta) /\ IsLog(history)
    BY LessonAssumption DEF IsHistory
  <1>2. row \in ReplayedRow \cup {None}
    BY <1>1, ReplayedNow
  <1>3. n \in Nat
    <2>1. DOMAIN history = 1 .. Len(history) /\ Len(history) \in Nat
      BY <1>1, LenProperties
    <2>2. IsFiniteSet(1 .. Len(history))
      <3>1. 1 \in Int /\ Len(history) \in Int
        BY <2>1
      <3> QED  BY <3>1, FS_Interval
    <2>3. MarksOf(l, history) \in SUBSET (1 .. Len(history))
      BY <2>1 DEF MarksOf
    <2> QED  BY <2>2, <2>3, FS_Subset, FS_CardinalityType
  <1>4. left = IF row = None THEN None
               ELSE [status |-> row.status, group |-> row.group, helpful |-> row.helpful,
                     harmful |-> row.harmful, uses |-> n]
    BY DEF RowLeftBy
  <1> HIDE DEF row, left, n
  <1>5. row # None => left \in Row
    BY <1>2, <1>3, <1>4 DEF ReplayedRow, Row
  <1> QED  BY <1>1, <1>2, <1>4, <1>5, NoneIs DEF row, left

LEMMA InitInv == Init => StandingInv
  <1> SUFFICES ASSUME Init PROVE StandingInv
    OBVIOUS
  <1>1. PICK history \in Histories : log = history /\ lessons = [l \in Lessons |-> RowLeftBy(l, history)]
    BY DEF Init
  <1>2. /\ applications = <<>> /\ snapshot = None /\ watermark = Len(log)
        /\ at = "idle" /\ chosen = {} /\ todo = <<>> /\ crashes = 0
    BY DEF Init
  <1>3. log \in Seq(Delta) /\ IsLog(log) /\ \A i \in DOMAIN log : log[i].injection = None
    BY <1>1, LessonAssumption DEF IsHistory
  <1>4. Len(log) \in Nat /\ DOMAIN log = 1 .. Len(log)
    BY <1>3, LenProperties
  <1>5. \A l \in Lessons :
          /\ replayLesson(l, log) = None => lessons[l] = None
          /\ replayLesson(l, log) # None =>
               /\ replayLesson(l, log) \in ReplayedRow /\ lessons[l] \in Row /\ lessons[l] # None
               /\ lessons[l].status = replayLesson(l, log).status
               /\ lessons[l].group = replayLesson(l, log).group
               /\ lessons[l].helpful = replayLesson(l, log).helpful
               /\ lessons[l].harmful = replayLesson(l, log).harmful
    BY <1>1, LeftIs
  <1>6. lessons \in [Lessons -> Row \cup {None}]
    <2>1. lessons = [l \in Lessons |-> lessons[l]]
      BY <1>1
    <2> QED  BY <1>5, <2>1
  <1>7. StandingTypes
    BY <1>2, <1>3, <1>4, <1>6, EmptySeq DEF StandingTypes, Phases
  <1>8. TodoInv
    BY <1>2, EmptySeq DEF TodoInv
  <1>9. RowsInv
    BY <1>5 DEF RowsInv, Agrees
  <1>10. StatusInv
    BY <1>2, <1>5, EmptySeq DEF StatusInv, Listed, Exists
  <1>11. ReceiptsInv /\ MarksInv
    BY <1>2, <1>3, <1>4, EmptySeq DEF ReceiptsInv, MarksInv
  <1>12. PruneInv
    <2>1. ASSUME NEW i \in 1 .. Len(log), log[i].type = "RETIRE"
          PROVE  Exists(log[i].lesson) /\ log[i].lesson \notin Selectable
      <3>1. PICK l \in Lessons : l = log[i].lesson
        <4>1. log[i] \in Delta
          BY <1>3, ElementOfSeq
        <4> QED  BY <4>1 DEF Delta
      <3>2. Len(log) \in i .. Len(log) /\ Upto(log, Len(log)) = log
        <4>1. Len(log) \in 0 .. Len(log) /\ Len(log) \in i .. Len(log)
          BY <1>4
        <4> QED  BY <1>3, <4>1, UptoIs
      <3>3. replayLesson(l, log) \in ReplayedRow /\ replayLesson(l, log).status \in Gone
        BY <1>3, <2>1, <3>1, <3>2, RetiredStaysGone
      <3>4. lessons[l] # None /\ lessons[l].status \in Gone
        BY <1>5, <3>3, NoneIs
      <3> QED  BY <3>1, <3>4 DEF Exists, Selectable, Gone
    <2> QED  BY <1>2, <2>1, EmptySeq DEF PruneInv
  <1> QED  BY <1>7, <1>8, <1>9, <1>10, <1>11, <1>12 DEF StandingInv

-----------------------------------------------------------------------------

LEMMA NextKeeps == StandingInv /\ [Next]_vars => StandingInv'
  <1> SUFFICES ASSUME StandingInv, [Next]_vars PROVE StandingInv'
    OBVIOUS
  <1>1. ASSUME NEW g \in Groups, EditLesson(g) PROVE StandingInv'
    BY <1>1, EditKeeps
  <1>2. ASSUME NEW g \in Groups, CreateLesson(g) PROVE StandingInv'
    BY <1>2, CreateKeeps
  <1>3. ASSUME NEW l \in Lessons, GrowOld(l) PROVE StandingInv'
    BY <1>3, GrowOldKeeps
  <1>4. ASSUME NEW l \in Lessons, RecordApplication(l) PROVE StandingInv'
    BY <1>4, RecordKeeps
  <1>5. ASSUME NEW r \in Runs, NEW t \in Triggers, Decide(r, t) PROVE StandingInv'
    BY <1>5, DecideKeeps
  <1>6. ASSUME NEW r \in Runs, NEW outcome \in {"passed", "failed"}, MarkRun(r, outcome) PROVE StandingInv'
    BY <1>6, MarkRunKeeps
  <1>7. CASE ApplyStatusRules
    BY <1>7, ApplyKeeps
  <1>8. CASE SetQuarantined
    BY <1>8, SetQuarantinedKeeps
  <1>9. CASE Curate
    BY <1>9, CurateKeeps
  <1>10. CASE SkipCuration
    BY <1>10, SkipKeeps
  <1>11. CASE Crash
    BY <1>11, CrashKeeps
  <1>12. CASE UNCHANGED vars
    <2>1. UNCHANGED <<lessons, log, applications, snapshot, watermark, at, chosen, injection, todo, crashes>>
      BY <1>12 DEF vars, store, writer, spent
    <2>2. StandingTypes'
      BY <2>1 DEF StandingInv, StandingTypes, Selectable, Exists
    <2>3. TodoInv'
      BY <2>1 DEF StandingInv, TodoInv
    <2> QED  BY <2>1, <2>2, <2>3, QuietKeeps
  <1> QED  BY <1>1, <1>2, <1>3, <1>4, <1>5, <1>6, <1>7, <1>8, <1>9, <1>10, <1>11, <1>12 DEF Next

\* The invariant holds of the whole store: steps of the credit ledger touch nothing of it.
THEOREM StandingHolds == StoresSpec => []StandingInv
  <1>1. StoresInit => StandingInv
    BY InitInv DEF StoresInit
  <1>2. StandingInv /\ [StoresNext]_storesVars => StandingInv'
    <2>1. [StoresNext]_storesVars => [Next]_vars
      BY DEF StoresNext, StandingStep, CreditStep, storesVars
    <2> QED  BY <2>1, NextKeeps
  <1> QED  BY <1>1, <1>2, PTL DEF StoresSpec

\* Whatever is injected, validated, merged, pruned or cut off, the fold of the log
\* rebuilds the counters of every lesson, and, once a call has ended and none was cut
\* off, its status, unless a run marked a lesson twice (replayLesson against the rows of
\* lesson, lesson-store.ts).
THEOREM StoreReplaysHolds == StoresSpec => []StoreReplays
  <1>1. StandingInv => StoreReplays
    <2> SUFFICES ASSUME StandingInv, NEW l \in Lessons
                 PROVE  LET rebuilt == replayLesson(l, log)
                        IN IF ~Exists(l) THEN rebuilt = None
                           ELSE /\ rebuilt # None
                                /\ rebuilt.helpful = lessons[l].helpful /\ rebuilt.harmful = lessons[l].harmful
                                /\ (at = "idle" /\ crashes = 0 /\ MarksAreSingle) =>
                                     rebuilt.status = lessons[l].status
      BY DEF StoreReplays
    <2>1. Agrees(lessons[l], replayLesson(l, log))
      BY DEF StandingInv, RowsInv
    <2>2. at = "idle" => ~Listed(l)
      BY EmptySeq DEF StandingInv, TodoInv, Listed
    <2>3. (at = "idle" /\ crashes = 0 /\ MarksAreSingle /\ Exists(l)) =>
            replayLesson(l, log).status = lessons[l].status
      BY <2>2 DEF StandingInv, StatusInv
    <2> QED  BY <2>1, <2>3, NoneIs DEF Agrees, Exists
  <1> QED  BY <1>1, StandingHolds, PTL

\* Every injection is counted once, no merge loses a mark, and nothing that a run was
\* given is pruned (lesson-store.ts, applyValidationOutcome and curate).
THEOREM CreditIsKeptHolds == StoresSpec => []CreditIsKept
  <1>1. StandingInv => CreditIsKept
    <2> SUFFICES ASSUME StandingInv PROVE CreditIsKept
      OBVIOUS
    <2>1. DOMAIN log = 1 .. Len(log) /\ Len(log) \in Nat /\ Len(log) \in 0 .. Len(log)
      BY LenProperties DEF StandingInv, StandingTypes
    <2>2. PrunedWasUnused
      <3>1. DOMAIN applications = 1 .. Len(applications)
        BY LenProperties DEF StandingInv, StandingTypes
      <3> QED  BY <2>1, <3>1 DEF StandingInv, PruneInv, PrunedWasUnused
    <2>3. \A i, j \in DOMAIN log :
            (i < j /\ IsMark(log[i]) /\ IsMark(log[j]) /\ log[i].injection # None)
              => <<log[i].lesson, log[i].injection>> # <<log[j].lesson, log[j].injection>>
      BY <2>1 DEF StandingInv, MarksInv
    <2>4. LibraryWorth(log, Len(log)) = MarkWorth(log, Len(log))
      BY <2>1, LogConserves DEF StandingInv, StandingTypes
    <2>5. Upto(log, Len(log)) = log
      BY <2>1, UptoIs DEF StandingInv, StandingTypes
    <2>6. \A l \in Lessons : Worth(lessons[l]) = Worth(replayLesson(l, log))
      BY NoneIs DEF StandingInv, RowsInv, Agrees, Worth, Samples
    <2>7. Total(Lessons, Worth) = LibraryWorth(log, Len(log))
      <3>1. [l \in Lessons |-> Worth(lessons[l])] = [l \in Lessons |-> Worth(replayLesson(l, log))]
        BY <2>6
      <3> QED  BY <2>5, <3>1 DEF Total, LibraryWorth
    <2>8. {i \in DOMAIN log : IsMark(log[i])} = MarksUpto(log, Len(log))
      BY <2>1 DEF MarksUpto
    <2>9. MarksAreKept
      BY <2>3, <2>4, <2>7, <2>8 DEF MarksAreKept, MarkWorth
    <2> QED  BY <2>2, <2>9 DEF CreditIsKept
  <1> QED  BY <1>1, StandingHolds, PTL

-----------------------------------------------------------------------------
(* What the deltas of credit move, summed by lesson and by receipt.         *)

Moving(s, a, type) == {k \in DOMAIN s : s[k].arm = a /\ s[k].type = type}

MarkWeights(s) == [k \in DOMAIN s |-> WeightOf(s[k])]

LEMMA WeightIs == ASSUME NEW delta \in DeltaRow PROVE WeightOf(delta) \in Nat
  BY CreditAssumption DEF DeltaRow, WeightOf

LEMMA JoinedSeq ==
  ASSUME NEW S, NEW s \in Seq(S), NEW t \in Seq(S)
  PROVE  /\ s \o t \in Seq(S) /\ Len(s \o t) = Len(s) + Len(t) /\ Len(s) \in Nat /\ Len(t) \in Nat
         /\ DOMAIN (s \o t) = 1 .. Len(s) + Len(t) /\ DOMAIN s = 1 .. Len(s) /\ DOMAIN t = 1 .. Len(t)
         /\ \A k \in 1 .. Len(s) : (s \o t)[k] = s[k]
         /\ \A k \in 1 .. Len(t) : (s \o t)[Len(s) + k] = t[k]
  <1>1. s \o t \in Seq(S) /\ Len(s \o t) = Len(s) + Len(t)
    BY ConcatProperties
  <1>2. Len(s) \in Nat /\ Len(t) \in Nat /\ DOMAIN s = 1 .. Len(s) /\ DOMAIN t = 1 .. Len(t)
    BY LenProperties
  <1>3. DOMAIN (s \o t) = 1 .. Len(s \o t)
    BY <1>1, LenProperties
  <1>4. \A k \in 1 .. Len(s) + Len(t) : (s \o t)[k] = IF k <= Len(s) THEN s[k] ELSE t[k - Len(s)]
    BY ConcatProperties
  <1>5. \A k \in 1 .. Len(t) : Len(s) + k \in 1 .. Len(s) + Len(t) /\ ~(Len(s) + k <= Len(s)) /\ (Len(s) + k) - Len(s) = k
    BY <1>2
  <1>6. \A k \in 1 .. Len(s) : k \in 1 .. Len(s) + Len(t) /\ k <= Len(s)
    BY <1>2
  <1> QED  BY <1>1, <1>2, <1>3, <1>4, <1>5, <1>6

LEMMA MovingIs ==
  ASSUME NEW s \in Seq(DeltaRow), NEW a, NEW type
  PROVE  /\ Moving(s, a, type) \in SUBSET (DOMAIN s) /\ IsFiniteSet(DOMAIN s) /\ IsFiniteSet(Moving(s, a, type))
         /\ \A k \in DOMAIN s : MarkWeights(s)[k] \in Nat /\ MarkWeights(s)[k] = WeightOf(s[k])
         /\ MovedBy(s, a, type) = SumFunctionOnSet(MarkWeights(s), Moving(s, a, type))
         /\ MovedBy(s, a, type) \in Nat
  <1>1. DOMAIN s = 1 .. Len(s) /\ Len(s) \in Nat /\ \A k \in DOMAIN s : s[k] \in DeltaRow
    BY LenProperties
  <1>2. IsFiniteSet(DOMAIN s)
    BY <1>1, FS_Interval
  <1>3. Moving(s, a, type) \in SUBSET (DOMAIN s) /\ IsFiniteSet(Moving(s, a, type))
    BY <1>2, FS_Subset DEF Moving
  <1>4. \A k \in DOMAIN s : MarkWeights(s)[k] \in Nat /\ MarkWeights(s)[k] = WeightOf(s[k])
    BY <1>1, WeightIs DEF MarkWeights
  <1>5. MovedBy(s, a, type) = SumFunctionOnSet(MarkWeights(s), Moving(s, a, type))
    BY DEF MovedBy, MarkWeights, Moving
  <1>6. SumFunctionOnSet(MarkWeights(s), Moving(s, a, type)) \in Nat
    <2>1. \A k \in Moving(s, a, type) : MarkWeights(s)[k] \in Nat
      BY <1>3, <1>4
    <2> QED  BY <1>3, <2>1, SumNat
  <1> QED  BY <1>2, <1>3, <1>4, <1>5, <1>6

LEMMA MovedByNone ==
  ASSUME NEW s, NEW a, NEW type, Moving(s, a, type) = {}
  PROVE  MovedBy(s, a, type) = 0
  <1>1. MovedBy(s, a, type) = SumFunctionOnSet(MarkWeights(s), {})
    BY DEF MovedBy, MarkWeights, Moving
  <1> QED  BY <1>1, SumOfNone

LEMMA MovedByJoined ==
  ASSUME NEW s \in Seq(DeltaRow), NEW t \in Seq(DeltaRow), NEW a, NEW type
  PROVE  MovedBy(s \o t, a, type) = MovedBy(s, a, type) + MovedBy(t, a, type)
  <1>1. PICK j : j = s \o t
    OBVIOUS
  <1>2. /\ j \in Seq(DeltaRow) /\ Len(s) \in Nat /\ Len(t) \in Nat
        /\ DOMAIN j = 1 .. Len(s) + Len(t) /\ DOMAIN s = 1 .. Len(s) /\ DOMAIN t = 1 .. Len(t)
        /\ \A k \in 1 .. Len(s) : j[k] = s[k]
        /\ \A k \in 1 .. Len(t) : j[Len(s) + k] = t[k]
    BY <1>1, JoinedSeq
  <1> DEFINE S == Moving(s, a, type)
             T == Moving(t, a, type)
             U == {k \in Moving(j, a, type) : k > Len(s)}
             back == [k \in U |-> k - Len(s)]
  <1>3. Moving(j, a, type) = S \cup U /\ S \cap U = {}
    <2>1. \A k \in DOMAIN j : k \in DOMAIN s \/ k > Len(s)
      BY <1>2
    <2>2. \A k \in DOMAIN s : k \in DOMAIN j /\ ~(k > Len(s))
      BY <1>2
    <2> QED  BY <1>2, <2>1, <2>2 DEF Moving
  <1>4. /\ IsFiniteSet(S) /\ IsFiniteSet(T) /\ IsFiniteSet(Moving(j, a, type))
        /\ S \subseteq DOMAIN s /\ T \subseteq DOMAIN t
        /\ \A k \in DOMAIN j : MarkWeights(j)[k] \in Nat /\ MarkWeights(j)[k] = WeightOf(j[k])
        /\ \A k \in DOMAIN s : MarkWeights(s)[k] \in Nat /\ MarkWeights(s)[k] = WeightOf(s[k])
        /\ \A k \in DOMAIN t : MarkWeights(t)[k] \in Nat /\ MarkWeights(t)[k] = WeightOf(t[k])
        /\ MovedBy(j, a, type) = SumFunctionOnSet(MarkWeights(j), Moving(j, a, type))
        /\ MovedBy(s, a, type) = SumFunctionOnSet(MarkWeights(s), S)
        /\ MovedBy(t, a, type) = SumFunctionOnSet(MarkWeights(t), T)
    BY <1>2, MovingIs
  <1>5. IsFiniteSet(U) /\ U \subseteq DOMAIN j
    BY <1>4, FS_Subset DEF Moving
  <1>6. S \subseteq DOMAIN j
    BY <1>2, <1>4
  <1>7. SumFunctionOnSet(MarkWeights(j), S \cup U)
          = SumFunctionOnSet(MarkWeights(j), S) + SumFunctionOnSet(MarkWeights(j), U)
    <2>1. \A k \in S \cup U : MarkWeights(j)[k] \in Int
      BY <1>4, <1>5, <1>6
    <2> HIDE DEF S, U
    <2> QED  BY <1>3, <1>4, <1>5, <2>1, SumUnion
  <1>8. SumFunctionOnSet(MarkWeights(j), S) = SumFunctionOnSet(MarkWeights(s), S)
    <2>1. \A k \in S : MarkWeights(s)[k] \in Int /\ MarkWeights(j)[k] = MarkWeights(s)[k]
      BY <1>2, <1>4, <1>6
    <2> HIDE DEF S
    <2> QED  BY <1>4, <2>1, SumSame
  <1>9. SumFunctionOnSet(MarkWeights(t), T) = SumFunctionOnSet(MarkWeights(j), U)
    <2>1. \A k \in U : k \in DOMAIN j /\ k - Len(s) \in DOMAIN t /\ j[k] = t[k - Len(s)]
      <3> SUFFICES ASSUME NEW k \in U PROVE k \in DOMAIN j /\ k - Len(s) \in DOMAIN t /\ j[k] = t[k - Len(s)]
        OBVIOUS
      <3>1. k \in 1 .. Len(s) + Len(t) /\ k > Len(s)
        BY <1>2, <1>5
      <3>2. k - Len(s) \in 1 .. Len(t) /\ Len(s) + (k - Len(s)) = k
        BY <1>2, <3>1
      <3> QED  BY <1>2, <3>1, <3>2
    <2>2. \A k \in U : MarkWeights(j)[k] \in Int /\ back[k] \in T
      BY <1>4, <2>1 DEF Moving
    <2>3. \A x \in T : \E k \in U : MarkWeights(t)[x] = MarkWeights(j)[k] /\ {u \in U : back[u] = x} = {k}
      <3> SUFFICES ASSUME NEW x \in T
                   PROVE  \E k \in U : MarkWeights(t)[x] = MarkWeights(j)[k] /\ {u \in U : back[u] = x} = {k}
        OBVIOUS
      <3>1. x \in 1 .. Len(t)
        BY <1>2, <1>4
      <3>2. Len(s) + x \in DOMAIN j /\ Len(s) + x > Len(s) /\ j[Len(s) + x] = t[x] /\ (Len(s) + x) - Len(s) = x
        BY <1>2, <3>1
      <3>3. Len(s) + x \in U
        BY <3>2 DEF Moving
      <3>4. \A u \in U : u - Len(s) = x => u = Len(s) + x
        BY <1>2, <1>5
      <3>5. {u \in U : back[u] = x} = {Len(s) + x}
        BY <3>2, <3>3, <3>4
      <3>6. MarkWeights(t)[x] = MarkWeights(j)[Len(s) + x]
        BY <1>2, <1>4, <3>1, <3>2
      <3> QED  BY <3>3, <3>5, <3>6
    <2>4. IsFiniteSet(T) /\ IsFiniteSet(U)
      BY <1>4, <1>5
    <2> HIDE DEF U, T, back
    <2>5. PICK f, g : f = MarkWeights(j) /\ g = MarkWeights(t)
      OBVIOUS
    <2>6. (\A k \in U : f[k] \in Int /\ back[k] \in T)
          /\ (\A x \in T : \E k \in U : g[x] = f[k] /\ {u \in U : back[u] = x} = {k})
      BY <2>2, <2>3, <2>5
    <2>7. SumFunctionOnSet(g, T) = SumFunctionOnSet(f, U)
      BY <2>4, <2>6, SumRenamed
    <2> QED  BY <2>5, <2>7
  <1> HIDE DEF S, T, U
  <1> QED  BY <1>1, <1>3, <1>4, <1>7, <1>8, <1>9

Credits(s) == {k \in DOMAIN s : IsCredit(s[k])}

ByReceipt(s, i) == {k \in Credits(s) : s[k].receipt = i}

\* What is credited to lessons is what is credited for receipts.
LEMMA CreditsAddUp ==
  ASSUME NEW s \in Seq(DeltaRow), NEW A, IsFiniteSet(A), \A k \in Credits(s) : s[k].arm \in A,
         NEW R, IsFiniteSet(R), \A k \in Credits(s) : s[k].receipt \in R
  PROVE  SumFunctionOnSet([a \in A |-> MovedBy(s, a, "MARK_HELPFUL") + MovedBy(s, a, "MARK_HARMFUL")], A)
           = SumFunctionOnSet([i \in R |-> SumFunctionOnSet(MarkWeights(s), ByReceipt(s, i))], R)
  <1> DEFINE C == Credits(s)
             W == MarkWeights(s)
             arms == [k \in C |-> s[k].arm]
             ofs == [k \in C |-> s[k].receipt]
             byArm == [a \in A |-> SumFunctionOnSet(W, {k \in C : arms[k] = a})]
             byReceipt == [i \in R |-> SumFunctionOnSet(W, {k \in C : ofs[k] = i})]
  <1>1. IsFiniteSet(DOMAIN s) /\ \A k \in DOMAIN s : W[k] \in Int
    BY MovingIs
  <1>2. IsFiniteSet(C) /\ (\A k \in C : W[k] \in Int) /\ (\A k \in C : arms[k] \in A) /\ (\A k \in C : ofs[k] \in R)
    BY <1>1, FS_Subset DEF Credits
  <1>3. SumFunctionOnSet(byArm, A) = SumFunctionOnSet(W, C)
    <2> HIDE DEF C, W, arms
    <2> QED  BY <1>2, SumPartition
  <1>4. SumFunctionOnSet(byReceipt, R) = SumFunctionOnSet(W, C)
    <2> HIDE DEF C, W, ofs
    <2> QED  BY <1>2, SumPartition
  <1>5. byReceipt = [i \in R |-> SumFunctionOnSet(MarkWeights(s), ByReceipt(s, i))]
    <2>1. \A i : {k \in C : ofs[k] = i} = ByReceipt(s, i)
      BY DEF ByReceipt
    <2> QED  BY <2>1
  <1>6. byArm = [a \in A |-> MovedBy(s, a, "MARK_HELPFUL") + MovedBy(s, a, "MARK_HARMFUL")]
    <2> SUFFICES ASSUME NEW a \in A
                 PROVE  byArm[a] = MovedBy(s, a, "MARK_HELPFUL") + MovedBy(s, a, "MARK_HARMFUL")
      OBVIOUS
    <2> DEFINE H == Moving(s, a, "MARK_HELPFUL")
               B == Moving(s, a, "MARK_HARMFUL")
    <2>1. {k \in C : arms[k] = a} = H \cup B /\ H \cap B = {}
      BY DEF Moving, Credits, IsCredit
    <2>2. IsFiniteSet(H) /\ IsFiniteSet(B) /\ H \subseteq DOMAIN s /\ B \subseteq DOMAIN s
          /\ MovedBy(s, a, "MARK_HELPFUL") = SumFunctionOnSet(W, H)
          /\ MovedBy(s, a, "MARK_HARMFUL") = SumFunctionOnSet(W, B)
      BY MovingIs
    <2>3. \A k \in H \cup B : W[k] \in Int
      BY <1>1, <2>2
    <2>4. SumFunctionOnSet(W, H \cup B) = SumFunctionOnSet(W, H) + SumFunctionOnSet(W, B)
      <3> HIDE DEF H, B, W
      <3> QED  BY <2>1, <2>2, <2>3, SumUnion
    <2>5. byArm[a] = SumFunctionOnSet(W, {k \in C : arms[k] = a})
      OBVIOUS
    <2> HIDE DEF H, B, W, C, arms
    <2> QED  BY <2>1, <2>2, <2>4, <2>5
  <1> QED  BY <1>3, <1>4, <1>5, <1>6

-----------------------------------------------------------------------------
(* The invariant of the ledger of credit, in parts.                         *)

IsReceipt(r) ==
  r \in [arm: Arms, run: {r.run}, trigger: {r.trigger}, decision: Nat,
         outcome: {"pending", "passed", "failed"}, resolvedIn: Nat]

LedgerTypes ==
  /\ library \in [DOMAIN library -> LibraryRow] /\ DOMAIN library \subseteq Arms
  /\ lessonDeltas \in Seq(DeltaRow)
  /\ receipts \in Seq(Range(receipts)) /\ decisionLog \in Seq(Range(decisionLog)) /\ replays \in Nat
  /\ \A i \in DOMAIN receipts : IsReceipt(receipts[i]) /\ receipts[i].decision \in 0 .. Len(decisionLog)
  /\ \A d \in DOMAIN decisionLog :
       /\ decisionLog[d].upto \in 0 .. Len(lessonDeltas)
       /\ \A a \in DOMAIN decisionLog[d].candidates : decisionLog[d].candidates[a].propensity \in 0 .. One

\* A mark is of before credits were weighted, or weighs one when the outcome alone decided.
IsWeighed(mark) ==
  \/ mark.weight = Nothing
  \/ mark.weight = One /\ mark.estimator # "ratio-lift@1"
  \/ mark.weight \in Nat \ {0} /\ mark.estimator = "ratio-lift@1"

\* Every mark is of a resolved receipt, and no two are of the same one.
LedgerMarks ==
  /\ \A k \in Credits(lessonDeltas) :
       /\ MarksReceipt(lessonDeltas[k], receipts)
       /\ IsWeighed(lessonDeltas[k]) /\ lessonDeltas[k].prior = Nothing
  /\ \A j, k \in Credits(lessonDeltas) : j # k => lessonDeltas[j].receipt # lessonDeltas[k].receipt

LEMMA MarksOfReceiptAre ==
  ASSUME NEW i PROVE MarksOfReceipt(i) = ByReceipt(lessonDeltas, i)
  BY DEF MarksOfReceipt, ByReceipt, Credits

LEMMA OneMark ==
  ASSUME LedgerMarks, NEW i
  PROVE  MarksOfReceipt(i) = {} \/ \E k \in Credits(lessonDeltas) : MarksOfReceipt(i) = {k}
  <1>1. \A j, k \in MarksOfReceipt(i) : j \in Credits(lessonDeltas) /\ j = k
    BY DEF LedgerMarks, MarksOfReceipt, Credits
  <1> QED  BY <1>1

LEMMA MaxOfOne == ASSUME NEW k \in Int PROVE Max({k}) = k
  <1>1. \A x \in {k} : x = k /\ \A y \in {k} : x >= y
    OBVIOUS
  <1> QED  BY <1>1 DEF Max

FieldOf(i, field) == accumulate(i)[field]

\* What the report takes a receipt for is what its mark weighs.
LEMMA AccumulateIs ==
  ASSUME LedgerTypes, LedgerMarks, NEW i
  PROVE  /\ accumulate(i).uniformFallback \in Int /\ accumulate(i).legacy \in Int
         /\ accumulate(i).weights \in Int
         /\ accumulate(i).receipts \in Int /\ accumulate(i).gated \in Int /\ accumulate(i).ratioLift \in Int
         /\ accumulate(i).signFlips \in Int /\ accumulate(i).errors \in Int
         /\ SumFunctionOnSet(MarkWeights(lessonDeltas), ByReceipt(lessonDeltas, i))
              = One * (accumulate(i).uniformFallback + accumulate(i).legacy) + accumulate(i).weights
  <1> DEFINE acc == accumulate(i)
             Claim == /\ acc.uniformFallback \in Int /\ acc.legacy \in Int /\ acc.weights \in Int
                      /\ acc.receipts \in Int /\ acc.gated \in Int /\ acc.ratioLift \in Int
                      /\ acc.signFlips \in Int /\ acc.errors \in Int
  <1>1. MarksOfReceipt(i) = ByReceipt(lessonDeltas, i)
    BY MarksOfReceiptAre
  <1>2. One \in Nat \ {0} /\ Nothing \notin Int
    BY CreditAssumption
  <1>3. CASE MarksOfReceipt(i) = {}
    <2>1. Claim /\ acc.uniformFallback = 0 /\ acc.legacy = 0 /\ acc.weights = 0
      BY <1>3 DEF accumulate, Once
    <2>2. SumFunctionOnSet(MarkWeights(lessonDeltas), ByReceipt(lessonDeltas, i)) = 0
      BY <1>1, <1>3, SumOfNone
    <2> HIDE DEF acc
    <2> QED  BY <1>2, <2>1, <2>2 DEF acc
  <1>4. ASSUME NEW k \in Credits(lessonDeltas), MarksOfReceipt(i) = {k}
        PROVE  Claim /\ SumFunctionOnSet(MarkWeights(lessonDeltas), ByReceipt(lessonDeltas, i))
                          = One * (acc.uniformFallback + acc.legacy) + acc.weights
    <2>1. k \in DOMAIN lessonDeltas /\ k \in Int /\ Max(MarksOfReceipt(i)) = k /\ MarksOfReceipt(i) # {}
      <3>1. k \in DOMAIN lessonDeltas /\ k \in Int
        BY LenProperties DEF Credits, LedgerTypes
      <3> QED  BY <1>4, <3>1, MaxOfOne
    <2>2. PICK mark \in DeltaRow : mark = lessonDeltas[k]
      BY <2>1 DEF LedgerTypes
    <2>3. IsWeighed(mark)
      BY <2>2 DEF LedgerMarks
    <2>4. PICK signed : signed = Signed(mark, receipts[i].outcome)
      OBVIOUS
    <2>5. signed = mark.weight \/ signed = -mark.weight
      BY <2>4 DEF Signed
    <2> DEFINE old == mark.weight = Nothing
               ratio == ~old /\ mark.estimator = "ratio-lift@1"
    <2>6. /\ acc.receipts = 1 /\ acc.gated = 0 /\ acc.legacy = Once(old)
          /\ acc.uniformFallback = Once(~old /\ ~ratio) /\ acc.ratioLift = Once(ratio)
          /\ acc.signFlips = Once(ratio /\ signed < 0)
          /\ acc.errors = IF ratio THEN Distance(signed, One) ELSE 0
          /\ acc.weights = IF ratio THEN Distance(signed, 0) ELSE 0
      BY <2>1, <2>2, <2>4 DEF accumulate, Once
    <2> HIDE DEF acc
    <2>7. mark.weight # Nothing => mark.weight \in Nat
      BY <2>2 DEF DeltaRow
    <2>8. ratio => signed \in Int
      BY <2>5, <2>7
    <2>9. Claim
      BY <1>2, <2>6, <2>8 DEF Once, Distance
    <2>10. One * (acc.uniformFallback + acc.legacy) + acc.weights = WeightOf(mark)
      <3>1. CASE old
        <4>1. acc.legacy = 1 /\ acc.uniformFallback = 0 /\ acc.weights = 0 /\ WeightOf(mark) = One
          BY <2>6, <3>1 DEF Once, WeightOf
        <4> QED  BY <1>2, <4>1
      <3>2. CASE ~old /\ mark.estimator # "ratio-lift@1"
        <4>1. acc.legacy = 0 /\ acc.uniformFallback = 1 /\ acc.weights = 0 /\ WeightOf(mark) = mark.weight
          BY <2>6, <3>2 DEF Once, WeightOf
        <4>2. mark.weight = One
          BY <2>3, <3>2 DEF IsWeighed
        <4> QED  BY <1>2, <4>1, <4>2
      <3>3. CASE ratio
        <4>1. acc.legacy = 0 /\ acc.uniformFallback = 0 /\ acc.weights = Distance(signed, 0)
              /\ WeightOf(mark) = mark.weight
          BY <2>6, <3>3 DEF Once, WeightOf
        <4>2. Distance(signed, 0) = mark.weight /\ mark.weight \in Nat
          BY <2>5, <2>7, <3>3 DEF Distance
        <4> QED  BY <1>2, <4>1, <4>2
      <3> QED  BY <3>1, <3>2, <3>3
    <2>11. SumFunctionOnSet(MarkWeights(lessonDeltas), ByReceipt(lessonDeltas, i)) = WeightOf(mark)
      <3>1. MarkWeights(lessonDeltas)[k] = WeightOf(mark)
        BY <2>1, <2>2 DEF MarkWeights
      <3>2. WeightOf(mark) \in Int
        BY WeightIs
      <3>3. PICK f : f = MarkWeights(lessonDeltas)
        OBVIOUS
      <3>4. SumFunctionOnSet(f, {k}) = f[k]
        BY <3>1, <3>2, <3>3, SumOfOne
      <3> QED  BY <1>1, <1>4, <3>1, <3>3, <3>4
    <2> QED  BY <2>9, <2>10, <2>11
  <1> QED  BY <1>3, <1>4, OneMark

LEMMA ResolvedIsFinite ==
  ASSUME LedgerTypes
  PROVE  IsFiniteSet(ResolvedReceipts) /\ IsFiniteSet(DOMAIN receipts) /\ IsFiniteSet(DOMAIN library)
         /\ DOMAIN receipts = 1 .. Len(receipts) /\ Len(receipts) \in Nat
         /\ DOMAIN decisionLog = 1 .. Len(decisionLog) /\ Len(decisionLog) \in Nat
  <1>1. DOMAIN receipts = 1 .. Len(receipts) /\ Len(receipts) \in Nat
        /\ DOMAIN decisionLog = 1 .. Len(decisionLog) /\ Len(decisionLog) \in Nat
    BY LenProperties DEF LedgerTypes
  <1>2. IsFiniteSet(DOMAIN receipts)
    BY <1>1, FS_Interval
  <1>3. IsFiniteSet(DOMAIN library)
    BY CreditAssumption, FS_Subset DEF LedgerTypes
  <1> QED  BY <1>1, <1>2, <1>3, FS_Subset DEF ResolvedReceipts

LEMMA FieldsAreInt ==
  ASSUME LedgerTypes, LedgerMarks, NEW i, NEW field \in FidelityFields
  PROVE  accumulate(i)[field] \in Int
  <1>1. /\ accumulate(i).uniformFallback \in Int /\ accumulate(i).legacy \in Int
        /\ accumulate(i).weights \in Int
        /\ accumulate(i).receipts \in Int /\ accumulate(i).gated \in Int /\ accumulate(i).ratioLift \in Int
        /\ accumulate(i).signFlips \in Int /\ accumulate(i).errors \in Int
    BY AccumulateIs
  <1>2. PICK acc : acc = accumulate(i)
    OBVIOUS
  <1>3. /\ acc["uniformFallback"] \in Int /\ acc["legacy"] \in Int /\ acc["weights"] \in Int
        /\ acc["receipts"] \in Int /\ acc["gated"] \in Int /\ acc["ratioLift"] \in Int
        /\ acc["signFlips"] \in Int /\ acc["errors"] \in Int
    BY <1>1, <1>2
  <1> QED  BY <1>2, <1>3 DEF FidelityFields

\* What the report adds up for a field.
FieldSum(field, S) == SumFunctionOnSet([i \in S |-> accumulate(i)[field]], S)

LEMMA StrataAddUp ==
  ASSUME LedgerTypes, LedgerMarks, NEW field \in FidelityFields
  PROVE  CreditFidelity.overall[field]
           = TotalOf([s \in DOMAIN CreditFidelity.strata |-> CreditFidelity.strata[s][field]])
  <1> DEFINE R == ResolvedReceipts
             stratum == [i \in R |-> StratumOf(receipts[i])]
             T == {StratumOf(receipts[i]) : i \in R}
             values == [i \in R |-> accumulate(i)[field]]
             groups == [s \in T |-> SumFunctionOnSet(values, {i \in R : stratum[i] = s})]
  <1>1. IsFiniteSet(R) /\ IsFiniteSet(T)
    <2>1. T = {stratum[i] : i \in R}
      OBVIOUS
    <2>2. IsFiniteSet(R)
      BY ResolvedIsFinite
    <2>3. stratum \in Surjection(R, T)
      BY <2>1 DEF Surjection
    <2> HIDE DEF R, T, stratum
    <2> QED  BY <2>2, <2>3, FS_Surjection
  <1>2. \A i \in R : values[i] \in Int /\ stratum[i] \in T
    BY FieldsAreInt
  <1>3. SumFunctionOnSet(groups, T) = SumFunctionOnSet(values, R)
    <2> HIDE DEF R, T, values, stratum
    <2> QED  BY <1>1, <1>2, SumPartition
  <1>4. \A s \in T : {i \in R : stratum[i] = s} = {i \in R : StratumOf(receipts[i]) = s}
    OBVIOUS
  <1>5. \A s \in T : groups[s] = FidelityOf({i \in R : StratumOf(receipts[i]) = s})[field]
    <2> SUFFICES ASSUME NEW s \in T
                 PROVE  groups[s] = FidelityOf({i \in R : StratumOf(receipts[i]) = s})[field]
      OBVIOUS
    <2> DEFINE G == {i \in R : StratumOf(receipts[i]) = s}
               part == [i \in G |-> accumulate(i)[field]]
    <2>1. FidelityOf(G)[field] = SumFunctionOnSet(part, G)
      BY DEF FidelityOf
    <2>2. IsFiniteSet(G) /\ \A i \in G : part[i] \in Int /\ values[i] = part[i]
      BY <1>1, FS_Subset, FieldsAreInt
    <2>3. SumFunctionOnSet(values, G) = SumFunctionOnSet(part, G)
      <3> HIDE DEF G, values, part
      <3> QED  BY <2>2, SumSame
    <2>4. groups[s] = SumFunctionOnSet(values, G)
      BY <1>4
    <2> QED  BY <2>1, <2>3, <2>4
  <1>6. CreditFidelity.strata = [s \in T |-> FidelityOf({i \in R : StratumOf(receipts[i]) = s})]
        /\ CreditFidelity.overall = FidelityOf(R)
    BY DEF CreditFidelity
  <1>7. FidelityOf(R)[field] = SumFunctionOnSet(values, R)
    BY DEF FidelityOf
  <1> HIDE DEF R, T, values
  <1>8. DOMAIN CreditFidelity.strata = T
    BY <1>6
  <1>9. [s \in DOMAIN CreditFidelity.strata |-> CreditFidelity.strata[s][field]] = groups
    BY <1>5, <1>6, <1>8
  <1>10. TotalOf(groups) = SumFunctionOnSet(groups, T)
    BY DEF TotalOf
  <1> QED  BY <1>3, <1>6, <1>7, <1>9, <1>10

LEMMA OverallIs ==
  /\ CreditFidelity.overall.uniformFallback = FieldSum("uniformFallback", ResolvedReceipts)
  /\ CreditFidelity.overall.legacy = FieldSum("legacy", ResolvedReceipts)
  /\ CreditFidelity.overall.weights = FieldSum("weights", ResolvedReceipts)
  <1>1. CreditFidelity.overall = FidelityOf(ResolvedReceipts)
    BY DEF CreditFidelity
  <1>2. \A field \in FidelityFields : FidelityOf(ResolvedReceipts)[field] = FieldSum(field, ResolvedReceipts)
    BY DEF FidelityOf, FieldSum
  <1>3. FidelityOf(ResolvedReceipts)["uniformFallback"] = FieldSum("uniformFallback", ResolvedReceipts)
        /\ FidelityOf(ResolvedReceipts)["legacy"] = FieldSum("legacy", ResolvedReceipts)
        /\ FidelityOf(ResolvedReceipts)["weights"] = FieldSum("weights", ResolvedReceipts)
    BY <1>2 DEF FidelityFields
  <1> QED  BY <1>1, <1>3

LEMMA MovementHolds ==
  ASSUME LedgerTypes, LedgerMarks, AgreesWith(library, lessonDeltas)
  PROVE  MovementIsReported
  <1> DEFINE R == ResolvedReceipts
             A == DOMAIN library
             samples == [a \in A |-> SamplesOf(library[a])]
             moved == [a \in A |-> MovedBy(lessonDeltas, a, "MARK_HELPFUL") + MovedBy(lessonDeltas, a, "MARK_HARMFUL")]
             weighed == [i \in R |-> SumFunctionOnSet(MarkWeights(lessonDeltas), ByReceipt(lessonDeltas, i))]
             uniform == [i \in R |-> accumulate(i).uniformFallback]
             legacy == [i \in R |-> accumulate(i).legacy]
             weights == [i \in R |-> accumulate(i).weights]
             plain == [i \in R |-> accumulate(i).uniformFallback + accumulate(i).legacy]
  <1>1. IsFiniteSet(R) /\ IsFiniteSet(A) /\ One \in Int
    BY ResolvedIsFinite, CreditAssumption
  <1>2. samples = moved
    BY DEF AgreesWith, Rebuilt, SamplesOf
  <1>3. SumFunctionOnSet(moved, A) = SumFunctionOnSet(weighed, R)
    <2>1. \A k \in Credits(lessonDeltas) : lessonDeltas[k].arm \in A /\ lessonDeltas[k].receipt \in R
      BY DEF Credits, LedgerMarks, MarksReceipt, ResolvedReceipts, AgreesWith, Rebuilt
    <2>2. lessonDeltas \in Seq(DeltaRow)
      BY DEF LedgerTypes
    <2> HIDE DEF A, R
    <2> QED  BY <1>1, <2>1, <2>2, CreditsAddUp
  <1>4. \A i \in R : /\ uniform[i] \in Int /\ legacy[i] \in Int /\ weights[i] \in Int /\ plain[i] \in Int
                     /\ plain[i] = 1 * uniform[i] + legacy[i]
                     /\ weighed[i] = One * plain[i] + weights[i]
    BY AccumulateIs
  <1>5. SumFunctionOnSet(plain, R) = 1 * SumFunctionOnSet(uniform, R) + SumFunctionOnSet(legacy, R)
    <2>1. PICK one \in Int : one = 1
      OBVIOUS
    <2>2. \A i \in R : uniform[i] \in Int /\ legacy[i] \in Int /\ plain[i] = one * uniform[i] + legacy[i]
      BY <1>4, <2>1
    <2> HIDE DEF R, plain, uniform, legacy
    <2>3. SumFunctionOnSet(plain, R) = one * SumFunctionOnSet(uniform, R) + SumFunctionOnSet(legacy, R)
      BY <1>1, <2>2, SumLinear
    <2> QED  BY <2>1, <2>3
  <1>6. SumFunctionOnSet(weighed, R) = One * SumFunctionOnSet(plain, R) + SumFunctionOnSet(weights, R)
    <2> HIDE DEF R, plain, weighed, weights
    <2> QED  BY <1>1, <1>4, SumLinear
  <1>7. SumFunctionOnSet(uniform, R) \in Int /\ SumFunctionOnSet(legacy, R) \in Int
        /\ SumFunctionOnSet(weights, R) \in Int
    <2> HIDE DEF R, uniform, legacy, weights
    <2> QED  BY <1>1, <1>4, SumType
  <1>8. /\ CreditFidelity.overall.uniformFallback = SumFunctionOnSet(uniform, R)
        /\ CreditFidelity.overall.legacy = SumFunctionOnSet(legacy, R)
        /\ CreditFidelity.overall.weights = SumFunctionOnSet(weights, R)
    <2>1. uniform = [i \in R |-> accumulate(i)["uniformFallback"]]
          /\ legacy = [i \in R |-> accumulate(i)["legacy"]] /\ weights = [i \in R |-> accumulate(i)["weights"]]
      OBVIOUS
    <2> HIDE DEF uniform, legacy, weights
    <2> QED  BY <2>1, OverallIs DEF FieldSum
  <1>9. TotalOf([a \in DOMAIN library |-> SamplesOf(library[a])]) = SumFunctionOnSet(samples, A)
    BY DEF TotalOf
  <1>10. TotalOf([a \in DOMAIN library |-> SamplesOf(library[a])])
           = One * (CreditFidelity.overall.uniformFallback + CreditFidelity.overall.legacy)
               + CreditFidelity.overall.weights
    <2> HIDE DEF uniform, legacy, weights, plain, weighed, samples, moved
    <2>1. PICK u \in Int, l \in Int, w \in Int : u = SumFunctionOnSet(uniform, R)
            /\ l = SumFunctionOnSet(legacy, R) /\ w = SumFunctionOnSet(weights, R)
      BY <1>7
    <2>2. SumFunctionOnSet(plain, R) = u + l
      BY <1>5, <2>1
    <2> QED  BY <1>2, <1>3, <1>6, <1>8, <1>9, <2>1, <2>2
  <1> QED  BY <1>10, StrataAddUp DEF MovementIsReported

-----------------------------------------------------------------------------
(* What a log says, with a delta more or with the marks of a run.            *)

LEMMA MinIs ==
  ASSUME NEW S \in SUBSET Nat, NEW m \in S, \A k \in S : m <= k
  PROVE  Min(S) = m
  <1>1. \A x \in S : (\A y \in S : x <= y) => x = m
    OBVIOUS
  <1> QED  BY <1>1 DEF Min

Claims(s, a) == {k \in DOMAIN s : s[k].arm = a /\ s[k].prior # Nothing}

LEMMA FirstPriorIs ==
  ASSUME NEW s \in Seq(DeltaRow), NEW a
  PROVE  /\ Claims(s, a) = {} => FirstPrior(s, a) = Nothing
         /\ \A m \in Claims(s, a) : (\A k \in Claims(s, a) : m <= k) => FirstPrior(s, a) = s[m].prior
         /\ Claims(s, a) # {} => \E m \in Claims(s, a) : \A k \in Claims(s, a) : m <= k
         /\ Claims(s, a) # {} => FirstPrior(s, a) # Nothing
  <1>1. DOMAIN s = 1 .. Len(s) /\ Len(s) \in Nat
    BY LenProperties
  <1>2. Claims(s, a) \in SUBSET Nat
    BY <1>1 DEF Claims
  <1>3. FirstPrior(s, a) = IF Claims(s, a) = {} THEN Nothing ELSE s[Min(Claims(s, a))].prior
    BY DEF FirstPrior, Claims
  <1>4. \A m \in Claims(s, a) : (\A k \in Claims(s, a) : m <= k) => Min(Claims(s, a)) = m
    BY <1>2, MinIs
  <1>5. Claims(s, a) # {} => \E m \in Claims(s, a) : \A k \in Claims(s, a) : m <= k
    BY <1>2, LeastOfSome
  <1>6. \A m \in Claims(s, a) : s[m].prior # Nothing
    BY DEF Claims
  <1> QED  BY <1>3, <1>4, <1>5, <1>6

LEMMA SamePriors ==
  ASSUME NEW s \in Seq(DeltaRow), NEW t \in Seq(DeltaRow), NEW a, Claims(t, a) = Claims(s, a),
         \A k \in Claims(s, a) : t[k] = s[k]
  PROVE  FirstPrior(t, a) = FirstPrior(s, a)
  <1>1. CASE Claims(s, a) = {}
    BY <1>1, FirstPriorIs
  <1>2. CASE Claims(s, a) # {}
    <2>1. PICK m \in Claims(s, a) : \A k \in Claims(s, a) : m <= k
      BY <1>2, FirstPriorIs
    <2> QED  BY <2>1, FirstPriorIs
  <1> QED  BY <1>1, <1>2

ArmsOf(s) == {s[k].arm : k \in DOMAIN s}

LEMMA RebuiltIs ==
  ASSUME NEW rows, NEW s
  PROVE  AgreesWith(rows, s) <=>
           /\ DOMAIN rows = ArmsOf(s)
           /\ \A a \in DOMAIN rows : /\ rows[a].helpful = MovedBy(s, a, "MARK_HELPFUL")
                                     /\ rows[a].harmful = MovedBy(s, a, "MARK_HARMFUL")
                                     /\ rows[a].prior = FirstPrior(s, a)
  BY DEF AgreesWith, Rebuilt, ArmsOf

\* A log that goes on with other deltas.
LEMMA JoinedLog ==
  ASSUME NEW s \in Seq(DeltaRow), NEW t \in Seq(DeltaRow)
  PROVE  /\ s \o t \in Seq(DeltaRow) /\ Len(s) \in Nat /\ Len(t) \in Nat /\ Len(s \o t) = Len(s) + Len(t)
         /\ \A k \in DOMAIN s : k \in DOMAIN (s \o t) /\ (s \o t)[k] = s[k]
         /\ \A k \in DOMAIN t : Len(s) + k \in DOMAIN (s \o t) /\ (s \o t)[Len(s) + k] = t[k]
         /\ \A k \in DOMAIN (s \o t) : k \in DOMAIN s \/ \E m \in DOMAIN t : k = Len(s) + m
         /\ ArmsOf(s \o t) = ArmsOf(s) \cup ArmsOf(t)
  <1>1. PICK j : j = s \o t
    OBVIOUS
  <1>2. /\ j \in Seq(DeltaRow) /\ Len(s) \in Nat /\ Len(t) \in Nat /\ Len(j) = Len(s) + Len(t)
        /\ DOMAIN j = 1 .. Len(s) + Len(t) /\ DOMAIN s = 1 .. Len(s) /\ DOMAIN t = 1 .. Len(t)
        /\ \A k \in 1 .. Len(s) : j[k] = s[k]
        /\ \A k \in 1 .. Len(t) : j[Len(s) + k] = t[k]
    BY <1>1, JoinedSeq
  <1>3. \A k \in DOMAIN s : k \in DOMAIN j /\ j[k] = s[k]
    BY <1>2
  <1>4. \A k \in DOMAIN t : Len(s) + k \in DOMAIN j /\ j[Len(s) + k] = t[k]
    BY <1>2
  <1>5. \A k \in DOMAIN j : k \in DOMAIN s \/ \E m \in DOMAIN t : k = Len(s) + m
    <2> SUFFICES ASSUME NEW k \in DOMAIN j, k \notin DOMAIN s PROVE \E m \in DOMAIN t : k = Len(s) + m
      OBVIOUS
    <2>1. k - Len(s) \in DOMAIN t /\ k = Len(s) + (k - Len(s))
      BY <1>2
    <2> QED  BY <2>1
  <1>6. ArmsOf(j) = ArmsOf(s) \cup ArmsOf(t)
    <2>1. ArmsOf(s) \subseteq ArmsOf(j)
      BY <1>3 DEF ArmsOf
    <2>2. ArmsOf(t) \subseteq ArmsOf(j)
      BY <1>4 DEF ArmsOf
    <2>3. ArmsOf(j) \subseteq ArmsOf(s) \cup ArmsOf(t)
      BY <1>3, <1>4, <1>5 DEF ArmsOf
    <2> QED  BY <2>1, <2>2, <2>3
  <1> QED  BY <1>1, <1>2, <1>3, <1>4, <1>5, <1>6

\* Deltas without a prior claim nothing.
LEMMA JoinedPriors ==
  ASSUME NEW s \in Seq(DeltaRow), NEW t \in Seq(DeltaRow), \A k \in DOMAIN t : t[k].prior = Nothing, NEW a
  PROVE  FirstPrior(s \o t, a) = FirstPrior(s, a)
  <1>1. PICK j : j = s \o t
    OBVIOUS
  <1>2. /\ j \in Seq(DeltaRow)
        /\ \A k \in DOMAIN s : k \in DOMAIN j /\ j[k] = s[k]
        /\ \A k \in DOMAIN t : Len(s) + k \in DOMAIN j /\ j[Len(s) + k] = t[k]
        /\ \A k \in DOMAIN j : k \in DOMAIN s \/ \E m \in DOMAIN t : k = Len(s) + m
    BY <1>1, JoinedLog
  <1>3. Claims(j, a) = Claims(s, a) /\ \A k \in Claims(s, a) : j[k] = s[k]
    BY <1>2 DEF Claims
  <1> QED  BY <1>1, <1>2, <1>3, SamePriors

\* One more delta, which credits nothing.
LEMMA AppendedDelta ==
  ASSUME NEW s \in Seq(DeltaRow), NEW e \in DeltaRow, ~IsCredit(e)
  PROVE  /\ Append(s, e) \in Seq(DeltaRow) /\ Len(Append(s, e)) = Len(s) + 1 /\ Len(s) \in Nat
         /\ \A k \in DOMAIN s : k \in DOMAIN Append(s, e) /\ Append(s, e)[k] = s[k]
         /\ Credits(Append(s, e)) = Credits(s)
         /\ ArmsOf(Append(s, e)) = ArmsOf(s) \cup {e.arm}
         /\ \A a : /\ MovedBy(Append(s, e), a, "MARK_HELPFUL") = MovedBy(s, a, "MARK_HELPFUL")
                   /\ MovedBy(Append(s, e), a, "MARK_HARMFUL") = MovedBy(s, a, "MARK_HARMFUL")
                   /\ FirstPrior(Append(s, e), a)
                        = IF a = e.arm THEN Adopted(FirstPrior(s, a), e.prior) ELSE FirstPrior(s, a)
  <1>1. PICK t \in Seq(DeltaRow) : t = <<e>>
    <2>1. <<e>> \in Seq(DeltaRow)
      OBVIOUS
    <2> QED  BY <2>1
  <1>2. Len(t) = 1 /\ DOMAIN t = {1} /\ t[1] = e
    BY <1>1
  <1>3. Append(s, e) = s \o t
    BY <1>1, <1>2
  <1>4. PICK j : j = s \o t
    OBVIOUS
  <1>5. /\ j \in Seq(DeltaRow) /\ Len(s) \in Nat /\ Len(t) \in Nat /\ Len(j) = Len(s) + Len(t)
        /\ \A k \in DOMAIN s : k \in DOMAIN j /\ j[k] = s[k]
        /\ \A k \in DOMAIN t : Len(s) + k \in DOMAIN j /\ j[Len(s) + k] = t[k]
        /\ \A k \in DOMAIN j : k \in DOMAIN s \/ \E m \in DOMAIN t : k = Len(s) + m
        /\ ArmsOf(j) = ArmsOf(s) \cup ArmsOf(t)
    BY <1>4, JoinedLog
  <1>6. Len(s) + 1 \in DOMAIN j /\ j[Len(s) + 1] = e /\ (\A k \in DOMAIN j : k \in DOMAIN s \/ k = Len(s) + 1)
    BY <1>2, <1>5
  <1>7. DOMAIN s = 1 .. Len(s)
    BY LenProperties
  <1>8. Credits(j) = Credits(s)
    BY <1>5, <1>6 DEF Credits
  <1>9. ArmsOf(j) = ArmsOf(s) \cup {e.arm}
    BY <1>2, <1>5 DEF ArmsOf
  <1>10. ASSUME NEW a, NEW type \in {"MARK_HELPFUL", "MARK_HARMFUL"}
         PROVE  MovedBy(j, a, type) = MovedBy(s, a, type)
    <2>1. Moving(t, a, type) = {}
      BY <1>2 DEF Moving, IsCredit
    <2>2. MovedBy(t, a, type) = 0
      BY <2>1, MovedByNone
    <2>3. MovedBy(s, a, type) \in Nat
      BY MovingIs
    <2> QED  BY <1>4, <2>2, <2>3, MovedByJoined
  <1>11. ASSUME NEW a
         PROVE  FirstPrior(j, a) = IF a = e.arm THEN Adopted(FirstPrior(s, a), e.prior) ELSE FirstPrior(s, a)
    <2>1. CASE a # e.arm \/ e.prior = Nothing
      <3>1. Claims(j, a) = Claims(s, a) /\ \A k \in Claims(s, a) : j[k] = s[k]
        BY <1>5, <1>6, <2>1 DEF Claims
      <3>2. FirstPrior(j, a) = FirstPrior(s, a)
        BY <1>5, <3>1, SamePriors
      <3> QED  BY <2>1, <3>2 DEF Adopted
    <2>2. CASE a = e.arm /\ e.prior # Nothing
      <3>1. Claims(j, a) = Claims(s, a) \cup {Len(s) + 1} /\ \A k \in Claims(s, a) : j[k] = s[k] /\ k <= Len(s) + 1
        BY <1>5, <1>6, <1>7, <2>2 DEF Claims
      <3>2. CASE Claims(s, a) = {}
        <4>1. FirstPrior(s, a) = Nothing
          BY <3>2, FirstPriorIs
        <4>2. FirstPrior(j, a) = j[Len(s) + 1].prior
          <5>1. Len(s) + 1 \in Claims(j, a) /\ \A k \in Claims(j, a) : Len(s) + 1 <= k
            BY <1>5, <3>1, <3>2
          <5> QED  BY <1>5, <5>1, FirstPriorIs
        <4> QED  BY <1>6, <2>2, <4>1, <4>2 DEF Adopted
      <3>3. CASE Claims(s, a) # {}
        <4>1. PICK m \in Claims(s, a) : \A k \in Claims(s, a) : m <= k
          BY <3>3, FirstPriorIs
        <4>2. FirstPrior(s, a) = s[m].prior /\ FirstPrior(s, a) # Nothing
          BY <3>3, <4>1, FirstPriorIs
        <4>3. m \in Claims(j, a) /\ \A k \in Claims(j, a) : m <= k
          BY <3>1, <4>1
        <4>4. FirstPrior(j, a) = j[m].prior
          BY <1>5, <4>3, FirstPriorIs
        <4> QED  BY <2>2, <3>1, <4>2, <4>4 DEF Adopted
      <3> QED  BY <3>2, <3>3
    <2> QED  BY <2>1, <2>2
  <1> QED  BY <1>2, <1>3, <1>4, <1>5, <1>8, <1>9, <1>10, <1>11

-----------------------------------------------------------------------------
(* The replay that is under way, and the inductive invariant.                *)

\* What was selected is what the library holds.
SelectionStands ==
  LET candidates == replay.selection.candidates
  IN /\ DOMAIN candidates = CandidatesOf(replay.trace)
     /\ \A a \in DOMAIN candidates :
          /\ candidates[a].posterior = candidateParams(library[a], priorCalibration(library))
          /\ candidates[a].propensity \in 0 .. One
     /\ replay.selection.selected \subseteq DOMAIN candidates

ReplayInv ==
  /\ replay = [at |-> replay.at, trace |-> replay.trace, proposed |-> replay.proposed,
               selection |-> replay.selection, decision |-> replay.decision, injecting |-> replay.injecting]
  /\ replay.at \in {"idle", "create", "select", "decide", "inject"}
  /\ replay.at # "idle" => replay.trace \in Traces
  /\ replay.at = "create" => replay.proposed \in Nat /\ replay.proposed < Len(replay.trace.proposals)
  /\ replay.at = "decide" => SelectionStands
  /\ replay.at = "inject" => /\ replay.decision \in DOMAIN decisionLog
                             /\ replay.injecting \subseteq DOMAIN library

\* A receipt is resolved by a replay that has ended.
ResolvedEarlier ==
  \A i \in ResolvedReceipts :
    receipts[i].resolvedIn \in 0 .. replays /\ (replay.at # "idle" => receipts[i].resolvedIn < replays)

ReceiptsOfLibrary == \A i \in DOMAIN receipts : receipts[i].arm \in DOMAIN library

DecisionsStand == \A d \in DOMAIN decisionLog : Reproducible(decisionLog[d])

LedgerInv ==
  /\ LedgerTypes /\ ReceiptsOfLibrary /\ AgreesWith(library, lessonDeltas) /\ LedgerMarks
  /\ ReplayInv /\ ResolvedEarlier /\ CreditsAreContrasts /\ DecisionsStand

-----------------------------------------------------------------------------
(* What the steps have in common.                                            *)

\* The rows of the store are left alone.
RowsStay == UNCHANGED <<library, lessonDeltas, decisionLog, receipts>>

LEMMA RowsStayKeeps ==
  ASSUME LedgerInv, RowsStay, replays' \in Nat
  PROVE  /\ LedgerTypes' /\ ReceiptsOfLibrary' /\ AgreesWith(library, lessonDeltas)' /\ LedgerMarks'
         /\ CreditsAreContrasts' /\ DecisionsStand' /\ ResolvedReceipts' = ResolvedReceipts
  <1>1. LedgerTypes'
    BY DEF LedgerInv, LedgerTypes, RowsStay
  <1>2. ReceiptsOfLibrary' /\ AgreesWith(library, lessonDeltas)'
    BY DEF LedgerInv, ReceiptsOfLibrary, RowsStay
  <1>3. LedgerMarks'
    BY DEF LedgerInv, LedgerMarks, RowsStay
  <1>4. ResolvedReceipts' = ResolvedReceipts
    BY DEF ResolvedReceipts, RowsStay
  <1>5. CreditsAreContrasts'
    <2> SUFFICES ASSUME NEW i \in ResolvedReceipts', Propensity(receipts[i])' \in 1 .. One - 1
                 PROVE  CreditIsContrast(i)'
      BY DEF CreditsAreContrasts
    <2>1. Propensity(receipts[i])' = Propensity(receipts[i])
      BY DEF Propensity, RowsStay
    <2>2. CreditIsContrast(i)
      BY <1>4, <2>1 DEF LedgerInv, CreditsAreContrasts
    <2>3. PastOf(i)' = PastOf(i) /\ MarksOfReceipt(i)' = MarksOfReceipt(i)
      BY DEF PastOf, MarksOfReceipt, RowsStay
    <2>4. {d \in PastOf(i) : receipts[i].arm \in decisionLog[d].selected}'
            = {d \in PastOf(i) : receipts[i].arm \in decisionLog[d].selected}
      BY <2>3 DEF RowsStay
    <2>5. receipts' = receipts /\ lessonDeltas' = lessonDeltas
      BY DEF RowsStay
    <2> QED  BY <2>1, <2>2, <2>3, <2>4, <2>5 DEF CreditIsContrast
  <1>6. DecisionsStand'
    BY DEF LedgerInv, DecisionsStand, Reproducible, RowsStay
  <1> QED  BY <1>1, <1>2, <1>3, <1>4, <1>5, <1>6

\* The log only goes on.
LogGoesOn ==
  /\ lessonDeltas \in Seq(DeltaRow) /\ lessonDeltas' \in Seq(DeltaRow) /\ Len(lessonDeltas) <= Len(lessonDeltas')
  /\ \A k \in DOMAIN lessonDeltas : k \in DOMAIN lessonDeltas' /\ lessonDeltas'[k] = lessonDeltas[k]

LEMMA ReproducibleStays ==
  ASSUME LogGoesOn, NEW decision, decision.upto \in 0 .. Len(lessonDeltas), Reproducible(decision)
  PROVE  Reproducible(decision)'
  <1>1. SubSeq(lessonDeltas', 1, decision.upto) = SubSeq(lessonDeltas, 1, decision.upto)
    <2>1. DOMAIN lessonDeltas = 1 .. Len(lessonDeltas) /\ Len(lessonDeltas) \in Nat /\ Len(lessonDeltas') \in Nat
      BY LenProperties DEF LogGoesOn
    <2>2. PICK n \in Nat : n = decision.upto
      BY <2>1
    <2>3. \A k \in 1 .. n : lessonDeltas'[k] = lessonDeltas[k]
      BY <2>1, <2>2 DEF LogGoesOn
    <2>4. SubSeq(lessonDeltas', 1, n) = [k \in 1 .. n |-> lessonDeltas'[k]]
      BY <2>1, <2>2, SubSeqProperties DEF LogGoesOn
    <2>5. SubSeq(lessonDeltas, 1, n) = [k \in 1 .. n |-> lessonDeltas[k]]
      BY <2>1, <2>2, SubSeqProperties DEF LogGoesOn
    <2> QED  BY <2>2, <2>3, <2>4, <2>5
  <1> QED  BY <1>1 DEF Reproducible

\* The past of a receipt, and the credit for it, do not change once it is resolved.
LEMMA ContrastStays ==
  ASSUME LedgerTypes, NEW i \in ResolvedReceipts, receipts[i].decision # 0,
         DOMAIN decisionLog \subseteq DOMAIN decisionLog',
         0 \notin DOMAIN decisionLog',
         \A d \in DOMAIN decisionLog : decisionLog'[d] = decisionLog[d],
         DOMAIN receipts \subseteq DOMAIN receipts', receipts'[i] = receipts[i],
         \A j \in DOMAIN receipts : receipts'[j] # receipts[j] =>
           ~Resolved(receipts[j]) /\ ~(receipts'[j].resolvedIn < receipts[i].resolvedIn),
         \A j \in DOMAIN receipts' \ DOMAIN receipts : ~Resolved(receipts'[j]),
         MarksOfReceipt(i)' = MarksOfReceipt(i),
         \A k \in MarksOfReceipt(i) : lessonDeltas'[k] = lessonDeltas[k]
  PROVE  Propensity(receipts[i])' = Propensity(receipts[i]) /\ (CreditIsContrast(i) => CreditIsContrast(i)')
  <1>1. i \in DOMAIN receipts /\ receipts[i].decision \in DOMAIN decisionLog /\ Resolved(receipts[i])
    BY ResolvedIsFinite DEF ResolvedReceipts, LedgerTypes
  <1>2. decisionLog'[receipts[i].decision] = decisionLog[receipts[i].decision]
    BY <1>1
  <1>3. Propensity(receipts[i])' = Propensity(receipts[i])
    BY <1>1, <1>2 DEF Propensity
  <1>4. PastOf(i)' = PastOf(i)
    <2>1. ASSUME NEW d \in PastOf(i) PROVE d \in PastOf(i)'
      <3>1. PICK j \in DOMAIN receipts : /\ receipts[j].decision = d /\ receipts[j].outcome = receipts[i].outcome
                                         /\ receipts[j].resolvedIn < receipts[i].resolvedIn
        BY <2>1 DEF PastOf
      <3>2. receipts'[j] = receipts[j]
        BY <1>1, <3>1 DEF Resolved
      <3> QED  BY <1>2, <2>1, <3>1, <3>2 DEF PastOf
    <2>2. ASSUME NEW d \in PastOf(i)' PROVE d \in PastOf(i)
      <3>1. PICK j \in DOMAIN receipts' : /\ receipts'[j].decision = d /\ receipts'[j].outcome = receipts[i].outcome
                                          /\ receipts'[j].resolvedIn < receipts[i].resolvedIn
        BY <2>2 DEF PastOf
      <3>2. j \in DOMAIN receipts /\ receipts'[j] = receipts[j]
        BY <1>1, <3>1 DEF Resolved
      <3>3. d \in DOMAIN decisionLog
        <4>1. d \in 0 .. Len(decisionLog)
          BY <3>1, <3>2 DEF LedgerTypes
        <4>2. DOMAIN decisionLog = 1 .. Len(decisionLog) /\ Len(decisionLog) \in Nat
          BY ResolvedIsFinite
        <4>3. d \in DOMAIN decisionLog'
          BY <2>2 DEF PastOf
        <4> QED  BY <4>1, <4>2, <4>3
      <3> QED  BY <1>2, <2>2, <3>1, <3>2, <3>3 DEF PastOf
    <2> QED  BY <2>1, <2>2
  <1>5. {d \in PastOf(i) : receipts[i].arm \in decisionLog[d].selected}'
          = {d \in PastOf(i) : receipts[i].arm \in decisionLog[d].selected}
    <2>1. \A d \in PastOf(i) : decisionLog'[d] = decisionLog[d]
      BY DEF PastOf
    <2> QED  BY <1>4, <2>1
  <1>6. \A k \in MarksOfReceipt(i) : Signed(lessonDeltas'[k], receipts'[i].outcome)
                                       = Signed(lessonDeltas[k], receipts[i].outcome)
    OBVIOUS
  <1>7. CreditIsContrast(i) => CreditIsContrast(i)'
    BY <1>3, <1>4, <1>5, <1>6 DEF CreditIsContrast
  <1> QED  BY <1>3, <1>7

-----------------------------------------------------------------------------
(* The steps.                                                                *)

LEMMA LedgerInit == CreditInit => LedgerInv
  <1> SUFFICES ASSUME CreditInit PROVE LedgerInv
    OBVIOUS
  <1>1. PICK legacy \in Legacies : library = legacy.library /\ lessonDeltas = legacy.deltas /\ receipts = legacy.receipts
    BY DEF CreditInit
  <1>2. decisionLog = <<>> /\ replays = 0 /\ replay = NoReplay
    BY DEF CreditInit
  <1>3. /\ library \in [DOMAIN library -> LibraryRow] /\ lessonDeltas \in Seq(DeltaRow)
        /\ AgreesWith(library, lessonDeltas) /\ receipts \in Seq(Range(receipts))
        /\ \A receipt \in Range(receipts) :
             receipt \in [arm: DOMAIN library, run: {receipt.run}, trigger: {receipt.trigger}, decision: {0},
                          outcome: {"pending", "passed", "failed"}, resolvedIn: {0}]
        /\ \A j, k \in DOMAIN lessonDeltas : IsCredit(lessonDeltas[j]) =>
             /\ MarksReceipt(lessonDeltas[j], receipts)
             /\ lessonDeltas[j].weight = Nothing /\ lessonDeltas[j].prior = Nothing
             /\ (k # j /\ IsCredit(lessonDeltas[k])) => lessonDeltas[k].receipt # lessonDeltas[j].receipt
    BY <1>1, LegacyAssumption
  <1>4. DOMAIN library \subseteq Arms
    <2>1. DOMAIN library = ArmsOf(lessonDeltas)
      BY <1>3, RebuiltIs
    <2>2. \A k \in DOMAIN lessonDeltas : lessonDeltas[k] \in DeltaRow
      BY <1>3
    <2> QED  BY <2>1, <2>2 DEF ArmsOf, DeltaRow
  <1>5. \A i \in DOMAIN receipts :
          receipts[i] \in [arm: DOMAIN library, run: {receipts[i].run}, trigger: {receipts[i].trigger},
                           decision: {0}, outcome: {"pending", "passed", "failed"}, resolvedIn: {0}]
    BY <1>3 DEF Range
  <1>6. \A i \in DOMAIN receipts : /\ IsReceipt(receipts[i]) /\ receipts[i].arm \in DOMAIN library
                                   /\ receipts[i].decision = 0 /\ receipts[i].resolvedIn = 0
    BY <1>4, <1>5 DEF IsReceipt
  <1>7. Len(decisionLog) = 0 /\ DOMAIN decisionLog = {} /\ decisionLog \in Seq(Range(decisionLog))
    BY <1>2 DEF Range
  <1>8. LedgerTypes
    BY <1>2, <1>3, <1>4, <1>6, <1>7 DEF LedgerTypes
  <1>9. LedgerMarks
    BY <1>3 DEF LedgerMarks, Credits, IsWeighed
  <1>10. ReplayInv
    BY <1>2 DEF ReplayInv, NoReplay
  <1>11. ResolvedEarlier
    BY <1>2, <1>6 DEF ResolvedEarlier, ResolvedReceipts, NoReplay
  <1>12. CreditsAreContrasts
    <2>1. \A i \in ResolvedReceipts : Propensity(receipts[i]) = 0
      BY <1>6 DEF ResolvedReceipts, Propensity
    <2>2. 0 \notin 1 .. One - 1
      BY CreditAssumption
    <2> QED  BY <2>1, <2>2 DEF CreditsAreContrasts
  <1> QED  BY <1>3, <1>6, <1>7, <1>8, <1>9, <1>10, <1>11, <1>12 DEF LedgerInv, ReceiptsOfLibrary, DecisionsStand

LEMMA LedgerStart ==
  ASSUME LedgerInv, NEW trace \in Traces, StartReplay(trace)
  PROVE  LedgerInv'
  <1>1. RowsStay /\ replays' = replays + 1 /\ replays \in Nat
    BY DEF StartReplay, RowsStay, LedgerInv, LedgerTypes
  <1>2. replay' = [at |-> "create", trace |-> trace, proposed |-> 0, selection |-> Nothing,
                   decision |-> 0, injecting |-> {}]
    BY DEF StartReplay, NoReplay
  <1>3. Len(trace.proposals) \in Nat /\ 0 < Len(trace.proposals)
    <2>1. trace.proposals # <<>> /\ trace.proposals \in Seq(Range(trace.proposals))
      BY CreditAssumption
    <2> QED  BY <2>1, LenProperties, EmptySeq
  <1>4. ReplayInv'
    BY <1>2, <1>3 DEF ReplayInv
  <1>5. ResolvedReceipts' = ResolvedReceipts /\ receipts' = receipts
    BY <1>1, RowsStayKeeps DEF RowsStay
  <1>6. ResolvedEarlier'
    BY <1>1, <1>5 DEF ResolvedEarlier, LedgerInv
  <1>7. replays' \in Nat
    BY <1>1
  <1> QED  BY <1>1, <1>4, <1>6, <1>7, RowsStayKeeps DEF LedgerInv

LEMMA LedgerCut ==
  ASSUME LedgerInv, CutReplay
  PROVE  LedgerInv'
  <1>1. RowsStay /\ replays' = replays /\ replays \in Nat
    BY DEF CutReplay, RowsStay, creditRows, LedgerInv, LedgerTypes
  <1>2. ReplayInv'
    BY DEF CutReplay, ReplayInv, NoReplay
  <1>3. ResolvedReceipts' = ResolvedReceipts /\ receipts' = receipts
    BY <1>1, RowsStayKeeps DEF RowsStay
  <1>4. replay'.at = "idle"
    BY DEF CutReplay, NoReplay
  <1>5. ResolvedEarlier'
    BY <1>1, <1>3, <1>4 DEF ResolvedEarlier, LedgerInv
  <1> QED  BY <1>1, <1>2, <1>5, RowsStayKeeps DEF LedgerInv

LEMMA LedgerSelect ==
  ASSUME LedgerInv, SelectWithDecision
  PROVE  LedgerInv'
  <1>1. RowsStay /\ replays' = replays /\ replays \in Nat
    BY DEF SelectWithDecision, RowsStay, creditRows, LedgerInv, LedgerTypes
  <1> DEFINE arms == CandidatesOf(replay.trace)
             gamma == priorCalibration(library)
  <1>2. PICK share \in {One} \cup Shares, drawn \in SUBSET arms :
          replay' = [replay EXCEPT !.at = "decide",
            !.selection = [candidates |-> [a \in arms |-> Candidate(a, gamma, share, replay.trace)],
                           selected |-> drawn]]
    BY DEF SelectWithDecision
  <1>3. replay.at = "select" /\ replay.trace \in Traces
    BY DEF SelectWithDecision, LedgerInv, ReplayInv
  <1>4. share \in 0 .. One
    BY CreditAssumption
  <1>5. PICK often : often = [candidates |-> [a \in arms |-> Candidate(a, gamma, share, replay.trace)],
                               selected |-> drawn]
    OBVIOUS
  <1>6. replay' = [at |-> "decide", trace |-> replay.trace, proposed |-> replay.proposed,
                   selection |-> often, decision |-> replay.decision, injecting |-> replay.injecting]
    BY <1>2, <1>5 DEF LedgerInv, ReplayInv
  <1>7. SelectionStands'
    <2>1. library' = library /\ CandidatesOf(replay.trace)' = arms /\ replay'.selection = often
      BY <1>1, <1>6 DEF RowsStay, CandidatesOf
    <2>2. often.candidates = [a \in arms |-> Candidate(a, gamma, share, replay.trace)] /\ often.selected = drawn
      BY <1>5
    <2>3. \A a \in arms : /\ often.candidates[a].posterior = candidateParams(library[a], gamma)
                          /\ often.candidates[a].propensity = share
      BY <2>2 DEF Candidate
    <2>4. DOMAIN often.candidates = arms
      BY <2>2
    <2> HIDE DEF arms, gamma
    <2> QED  BY <1>4, <2>1, <2>2, <2>3, <2>4 DEF SelectionStands, gamma
  <1>8. ReplayInv'
    BY <1>3, <1>6, <1>7 DEF ReplayInv
  <1>9. ResolvedReceipts' = ResolvedReceipts /\ receipts' = receipts
    BY <1>1, RowsStayKeeps DEF RowsStay
  <1>10. ResolvedEarlier'
    BY <1>1, <1>3, <1>6, <1>9 DEF ResolvedEarlier, LedgerInv
  <1> QED  BY <1>1, <1>8, <1>10, RowsStayKeeps DEF LedgerInv

LEMMA LedgerCreate ==
  ASSUME LedgerInv, CreateOrMerge
  PROVE  LedgerInv'
  <1> DEFINE proposals == replay.trace.proposals
             proposal == proposals[replay.proposed + 1]
             prior == normalizePrior(proposal.prior)
             known == proposal.arm \in DOMAIN library
             created == [LessonDelta(IF known THEN "EDIT" ELSE "CREATE", proposal.arm) EXCEPT !.prior = prior]
  <1>1. /\ replay.at = "create" /\ replay.trace \in Traces
        /\ replay.proposed \in Nat /\ replay.proposed < Len(proposals)
    BY DEF CreateOrMerge, LedgerInv, ReplayInv
  <1>2. /\ proposals \in Seq(Range(proposals)) /\ Len(proposals) \in Nat /\ DOMAIN proposals = 1 .. Len(proposals)
        /\ \A p \in Range(proposals) : IsProposal(p)
    BY <1>1, CreditAssumption, LenProperties
  <1>3. IsProposal(proposal)
    <2>1. replay.proposed + 1 \in DOMAIN proposals
      BY <1>1, <1>2
    <2> QED  BY <1>2, <2>1 DEF Range
  <1>4. PICK arm \in Arms : arm = proposal.arm
    BY <1>3 DEF IsProposal
  <1>5. prior \in Priors
    <2>1. PICK claimed : claimed = proposal.prior
      OBVIOUS
    <2>2. claimed # Nothing => claimed.strength \in Int \cup {Nothing}
      BY <1>3, <2>1 DEF IsProposal
    <2>3. normalizePrior(claimed) \in Priors
      BY <2>2 DEF normalizePrior, Priors, DefaultStrength, MaxStrength
    <2> QED  BY <2>1, <2>3
  <1> HIDE DEF prior
  <1>6. PICK e \in DeltaRow : e = created /\ e.arm = arm /\ e.prior = prior /\ ~IsCredit(e)
    <2> DEFINE type == IF known THEN "EDIT" ELSE "CREATE"
    <2>1. created = [type |-> type, arm |-> arm, prior |-> prior, receipt |-> 0, weight |-> Nothing,
                     estimator |-> Nothing]
      BY <1>4 DEF LessonDelta
    <2>2. type \in {"EDIT", "CREATE"}
      OBVIOUS
    <2> HIDE DEF type, created
    <2>3. created \in DeltaRow /\ created.arm = arm /\ created.prior = prior /\ created.type = type
      BY <1>5, <2>1, <2>2 DEF DeltaRow
    <2> QED  BY <2>2, <2>3 DEF IsCredit
  <1>7. /\ lessonDeltas' = Append(lessonDeltas, e)
        /\ library' = [a \in DOMAIN library \cup {arm} |->
             IF a # arm THEN library[a]
             ELSE IF known THEN [library[a] EXCEPT !.prior = Adopted(@, prior)]
             ELSE [helpful |-> 0, harmful |-> 0, uses |-> 0, prior |-> prior]]
        /\ replay' = [replay EXCEPT !.proposed = @ + 1,
                        !.at = IF replay.proposed + 1 = Len(proposals) THEN "select" ELSE @]
        /\ decisionLog' = decisionLog /\ receipts' = receipts /\ replays' = replays
    BY <1>4, <1>6 DEF CreateOrMerge, prior
  <1>8. /\ lessonDeltas \in Seq(DeltaRow) /\ library \in [DOMAIN library -> LibraryRow]
        /\ DOMAIN library \subseteq Arms
    BY DEF LedgerInv, LedgerTypes
  <1>9. /\ lessonDeltas' \in Seq(DeltaRow) /\ Len(lessonDeltas') = Len(lessonDeltas) + 1 /\ Len(lessonDeltas) \in Nat
        /\ \A k \in DOMAIN lessonDeltas : k \in DOMAIN lessonDeltas' /\ lessonDeltas'[k] = lessonDeltas[k]
        /\ Credits(lessonDeltas') = Credits(lessonDeltas)
        /\ ArmsOf(lessonDeltas') = ArmsOf(lessonDeltas) \cup {arm}
        /\ \A a : /\ MovedBy(lessonDeltas', a, "MARK_HELPFUL") = MovedBy(lessonDeltas, a, "MARK_HELPFUL")
                  /\ MovedBy(lessonDeltas', a, "MARK_HARMFUL") = MovedBy(lessonDeltas, a, "MARK_HARMFUL")
                  /\ FirstPrior(lessonDeltas', a)
                       = IF a = arm THEN Adopted(FirstPrior(lessonDeltas, a), prior)
                         ELSE FirstPrior(lessonDeltas, a)
    <2>1. PICK s \in Seq(DeltaRow) : s = lessonDeltas
      BY <1>8
    <2>2. ~IsCredit(e) /\ e.arm = arm /\ e.prior = prior
      BY <1>6
    <2>3. /\ Append(s, e) \in Seq(DeltaRow) /\ Len(Append(s, e)) = Len(s) + 1 /\ Len(s) \in Nat
          /\ \A k \in DOMAIN s : k \in DOMAIN Append(s, e) /\ Append(s, e)[k] = s[k]
          /\ Credits(Append(s, e)) = Credits(s)
          /\ ArmsOf(Append(s, e)) = ArmsOf(s) \cup {e.arm}
          /\ \A a : /\ MovedBy(Append(s, e), a, "MARK_HELPFUL") = MovedBy(s, a, "MARK_HELPFUL")
                    /\ MovedBy(Append(s, e), a, "MARK_HARMFUL") = MovedBy(s, a, "MARK_HARMFUL")
                    /\ FirstPrior(Append(s, e), a)
                         = IF a = e.arm THEN Adopted(FirstPrior(s, a), e.prior) ELSE FirstPrior(s, a)
      BY <2>2, AppendedDelta
    <2>4. PICK t : t = Append(s, e)
      OBVIOUS
    <2>5. lessonDeltas' = t
      BY <1>7, <2>1, <2>4
    <2> QED  BY <2>1, <2>2, <2>3, <2>4, <2>5
  <1>10. /\ DOMAIN library = ArmsOf(lessonDeltas)
         /\ \A a \in DOMAIN library : /\ library[a].helpful = MovedBy(lessonDeltas, a, "MARK_HELPFUL")
                                      /\ library[a].harmful = MovedBy(lessonDeltas, a, "MARK_HARMFUL")
                                      /\ library[a].prior = FirstPrior(lessonDeltas, a)
    BY RebuiltIs DEF LedgerInv
  <1>11. DOMAIN library' = DOMAIN library \cup {arm}
    BY <1>7
  <1>12. known <=> arm \in DOMAIN library
    BY <1>4
  <1>13. \A a \in DOMAIN library \ {arm} : library'[a] = library[a]
    BY <1>7
  <1>16. library'[arm] \in LibraryRow
         /\ library'[arm].helpful = MovedBy(lessonDeltas', arm, "MARK_HELPFUL")
         /\ library'[arm].harmful = MovedBy(lessonDeltas', arm, "MARK_HARMFUL")
         /\ library'[arm].prior = FirstPrior(lessonDeltas', arm)
    <2>1. CASE known
      <3>1. library[arm] \in LibraryRow
        BY <1>8, <1>12, <2>1
      <3>2. library'[arm] = [library[arm] EXCEPT !.prior = Adopted(library[arm].prior, prior)]
        BY <1>7, <2>1
      <3>3. library'[arm] \in LibraryRow /\ library'[arm].helpful = library[arm].helpful
            /\ library'[arm].harmful = library[arm].harmful /\ library'[arm].prior = Adopted(library[arm].prior, prior)
        <4>1. library[arm].prior \in Priors /\ Adopted(library[arm].prior, prior) \in Priors
          BY <1>5, <3>1 DEF LibraryRow, Adopted
        <4>2. PICK v \in Priors : v = Adopted(library[arm].prior, prior)
          BY <4>1
        <4> QED  BY <3>1, <3>2, <4>2 DEF LibraryRow
      <3>4. library'[arm].helpful = MovedBy(lessonDeltas', arm, "MARK_HELPFUL")
            /\ library'[arm].harmful = MovedBy(lessonDeltas', arm, "MARK_HARMFUL")
            /\ library'[arm].prior = FirstPrior(lessonDeltas', arm)
        BY <1>9, <1>10, <1>12, <2>1, <3>3
      <3> QED  BY <3>3, <3>4
    <2>2. CASE ~known
      <3>1. library'[arm] = [helpful |-> 0, harmful |-> 0, uses |-> 0, prior |-> prior]
        BY <1>7, <2>2
      <3>2. library'[arm] \in LibraryRow
        BY <1>5, <3>1 DEF LibraryRow
      <3>3. arm \notin ArmsOf(lessonDeltas)
        BY <1>10, <1>12, <2>2
      <3>4. Moving(lessonDeltas, arm, "MARK_HELPFUL") = {} /\ Moving(lessonDeltas, arm, "MARK_HARMFUL") = {}
            /\ Claims(lessonDeltas, arm) = {}
        BY <3>3 DEF Moving, Claims, ArmsOf
      <3>5. MovedBy(lessonDeltas, arm, "MARK_HELPFUL") = 0 /\ MovedBy(lessonDeltas, arm, "MARK_HARMFUL") = 0
        BY <3>4, MovedByNone
      <3>6. FirstPrior(lessonDeltas, arm) = Nothing
        BY <1>8, <3>4, FirstPriorIs
      <3> QED  BY <1>9, <3>1, <3>2, <3>5, <3>6 DEF Adopted
    <2> QED  BY <2>1, <2>2
  <1>17. AgreesWith(library, lessonDeltas)'
    <2>1. DOMAIN library' = ArmsOf(lessonDeltas')
      BY <1>9, <1>10, <1>11
    <2>2. \A a \in DOMAIN library' : /\ library'[a].helpful = MovedBy(lessonDeltas', a, "MARK_HELPFUL")
                                     /\ library'[a].harmful = MovedBy(lessonDeltas', a, "MARK_HARMFUL")
                                     /\ library'[a].prior = FirstPrior(lessonDeltas', a)
      BY <1>9, <1>10, <1>11, <1>13, <1>16
    <2>3. AgreesWith(library', lessonDeltas')
      BY <2>1, <2>2, RebuiltIs
    <2> QED  BY <2>3
  <1>18. LedgerTypes'
    <2>1. library' \in [DOMAIN library' -> LibraryRow]
      <3>1. \A a \in DOMAIN library' : library'[a] \in LibraryRow
        BY <1>8, <1>11, <1>13, <1>16
      <3>2. library' = [a \in DOMAIN library' |-> library'[a]]
        BY <1>7
      <3> QED  BY <3>1, <3>2
    <2>2. DOMAIN library' \subseteq Arms
      BY <1>8, <1>11
    <2>3. \A d \in DOMAIN decisionLog : decisionLog[d].upto \in 0 .. Len(lessonDeltas')
      BY <1>9 DEF LedgerInv, LedgerTypes
    <2> QED  BY <1>7, <1>9, <2>1, <2>2, <2>3 DEF LedgerInv, LedgerTypes
  <1>19. ReceiptsOfLibrary'
    BY <1>7, <1>11 DEF LedgerInv, ReceiptsOfLibrary
  <1>20. LedgerMarks'
    <2>1. \A k \in Credits(lessonDeltas) : lessonDeltas'[k] = lessonDeltas[k]
      BY <1>9 DEF Credits
    <2>2. LedgerMarks
      BY DEF LedgerInv
    <2>3. \A k \in Credits(lessonDeltas') : k \in Credits(lessonDeltas) /\ lessonDeltas'[k] = lessonDeltas[k]
      BY <1>9, <2>1
    <2>4. receipts' = receipts
      BY <1>7
    <2> QED  BY <2>2, <2>3, <2>4 DEF LedgerMarks
  <1>21. ReplayInv'
    <2> DEFINE next == IF replay.proposed + 1 = Len(proposals) THEN "select" ELSE "create"
    <2>1. replay' = [at |-> next, trace |-> replay.trace, proposed |-> replay.proposed + 1,
                     selection |-> replay.selection, decision |-> replay.decision, injecting |-> replay.injecting]
      BY <1>1, <1>7 DEF LedgerInv, ReplayInv
    <2>2. next = "select" \/ (next = "create" /\ replay.proposed + 1 \in Nat /\ replay.proposed + 1 < Len(proposals))
      BY <1>1, <1>2
    <2> HIDE DEF next
    <2> QED  BY <1>1, <2>1, <2>2 DEF ReplayInv
  <1>22. ResolvedReceipts' = ResolvedReceipts
    BY <1>7 DEF ResolvedReceipts
  <1>23. ResolvedEarlier'
    BY <1>1, <1>7, <1>22 DEF ResolvedEarlier, LedgerInv
  <1>24. CreditsAreContrasts'
    <2> SUFFICES ASSUME NEW i \in ResolvedReceipts, Propensity(receipts[i])' \in 1 .. One - 1
                 PROVE  CreditIsContrast(i)'
      BY <1>22 DEF CreditsAreContrasts
    <2>1. Propensity(receipts[i])' = Propensity(receipts[i])
      BY <1>7 DEF Propensity
    <2>2. receipts[i].decision # 0
      <3>1. Propensity(receipts[i]) \in 1 .. One - 1 /\ One \in Nat
        BY <2>1, CreditAssumption
      <3>2. Propensity(receipts[i]) # 0
        BY <3>1
      <3> QED  BY <3>2 DEF Propensity
    <2>3. CreditIsContrast(i)
      BY <2>1 DEF LedgerInv, CreditsAreContrasts
    <2>4. MarksOfReceipt(i)' = MarksOfReceipt(i) /\ \A k \in MarksOfReceipt(i) : lessonDeltas'[k] = lessonDeltas[k]
      <3>1. \A k \in Credits(lessonDeltas) : lessonDeltas'[k] = lessonDeltas[k]
        BY <1>9 DEF Credits
      <3>2. MarksOfReceipt(i) = ByReceipt(lessonDeltas, i)
        BY MarksOfReceiptAre
      <3>3. MarksOfReceipt(i)' = ByReceipt(lessonDeltas', i)
        BY DEF MarksOfReceipt, ByReceipt, Credits
      <3>4. ByReceipt(lessonDeltas', i) = ByReceipt(lessonDeltas, i)
        BY <1>9, <3>1 DEF ByReceipt
      <3> QED  BY <3>1, <3>2, <3>3, <3>4 DEF ByReceipt
    <2>5. LedgerTypes /\ 0 \notin DOMAIN decisionLog
      BY ResolvedIsFinite DEF LedgerInv
    <2> QED  BY <1>7, <2>2, <2>3, <2>4, <2>5, ContrastStays
  <1>25. DecisionsStand'
    <2>1. LogGoesOn
      BY <1>8, <1>9 DEF LogGoesOn
    <2> SUFFICES ASSUME NEW d \in DOMAIN decisionLog PROVE Reproducible(decisionLog[d])'
      BY <1>7 DEF DecisionsStand
    <2>2. PICK decision : decision = decisionLog[d]
      OBVIOUS
    <2>3. Reproducible(decision) /\ decision.upto \in 0 .. Len(lessonDeltas)
      BY <2>2 DEF LedgerInv, DecisionsStand, LedgerTypes
    <2>4. Reproducible(decision)'
      BY <2>1, <2>3, ReproducibleStays
    <2>5. decisionLog'[d] = decision
      BY <1>7, <2>2
    <2> QED  BY <2>4, <2>5 DEF Reproducible
  <1> QED  BY <1>17, <1>18, <1>19, <1>20, <1>21, <1>23, <1>24, <1>25 DEF LedgerInv

\* Rows that agree give the same posteriors.
LEMMA SamePosteriors ==
  ASSUME NEW rows, NEW others, DOMAIN others = DOMAIN rows,
         \A a \in DOMAIN rows : /\ others[a].helpful = rows[a].helpful /\ others[a].harmful = rows[a].harmful
                                /\ others[a].prior = rows[a].prior
  PROVE  /\ priorCalibration(others) = priorCalibration(rows)
         /\ \A gamma : \A a \in DOMAIN rows : candidateParams(others[a], gamma) = candidateParams(rows[a], gamma)
  <1>1. \A a \in DOMAIN rows : SamplesOf(others[a]) = SamplesOf(rows[a]) /\ Agreement(others[a]) = Agreement(rows[a])
    BY DEF SamplesOf, Agreement
  <1>2. Judging(others) = Judging(rows) /\ Judging(rows) \subseteq DOMAIN rows
    BY <1>1 DEF Judging
  <1>3. [a \in Judging(others) |-> Agreement(others[a])] = [a \in Judging(rows) |-> Agreement(rows[a])]
    BY <1>1, <1>2
  <1>4. priorCalibration(others) = priorCalibration(rows)
    BY <1>2, <1>3 DEF priorCalibration
  <1>5. \A gamma : \A a \in DOMAIN rows : candidateParams(others[a], gamma) = candidateParams(rows[a], gamma)
    BY DEF candidateParams
  <1> QED  BY <1>4, <1>5

LEMMA DecidedIsReproducible ==
  ASSUME LedgerInv, NEW decision, decision.upto = Len(lessonDeltas),
         LET candidates == decision.candidates
         IN /\ DOMAIN candidates = {a \in DOMAIN library : ArmClass[a] \in ClassesFor(decision.class, decision.scope)}
            /\ \A a \in DOMAIN candidates :
                 candidates[a].posterior = candidateParams(library[a], priorCalibration(library))
  PROVE  Reproducible(decision)
  <1>1. lessonDeltas \in Seq(DeltaRow) /\ AgreesWith(library, lessonDeltas)
    BY DEF LedgerInv, LedgerTypes
  <1>2. SubSeq(lessonDeltas, 1, decision.upto) = lessonDeltas
    <2>1. PICK s \in Seq(DeltaRow) : s = lessonDeltas
      BY <1>1
    <2>2. Len(s) \in Nat /\ DOMAIN s = 1 .. Len(s) /\ s = [k \in 1 .. Len(s) |-> s[k]]
      BY LenProperties
    <2>3. SubSeq(s, 1, Len(s)) = [k \in 1 .. Len(s) |-> s[k]]
      BY <2>2, SubSeqProperties
    <2> QED  BY <2>1, <2>2, <2>3
  <1>3. PICK rows : rows = Rebuilt(lessonDeltas)
    OBVIOUS
  <1>4. DOMAIN rows = DOMAIN library /\ \A a \in DOMAIN library :
          /\ rows[a].helpful = library[a].helpful /\ rows[a].harmful = library[a].harmful
          /\ rows[a].prior = library[a].prior
    BY <1>1, <1>3 DEF AgreesWith
  <1>5. PICK held : held = library
    OBVIOUS
  <1>6. /\ priorCalibration(rows) = priorCalibration(held)
        /\ \A gamma : \A a \in DOMAIN held : candidateParams(rows[a], gamma) = candidateParams(held[a], gamma)
    BY <1>4, <1>5, SamePosteriors
  <1> DEFINE scoped == {a \in DOMAIN rows : ArmClass[a] \in ClassesFor(decision.class, decision.scope)}
  <1>7. DOMAIN decision.candidates = scoped
    BY <1>4
  <1>8. \A a \in scoped : decision.candidates[a].posterior = candidateParams(rows[a], priorCalibration(rows))
    <2> SUFFICES ASSUME NEW a \in scoped
                 PROVE  decision.candidates[a].posterior = candidateParams(rows[a], priorCalibration(rows))
      OBVIOUS
    <2>1. a \in DOMAIN held /\ a \in DOMAIN decision.candidates
      BY <1>4, <1>5, <1>7
    <2>2. decision.candidates[a].posterior = candidateParams(held[a], priorCalibration(held))
      BY <1>5, <2>1
    <2> QED  BY <1>6, <2>1, <2>2
  <1> QED  BY <1>2, <1>3, <1>7, <1>8 DEF Reproducible

LEMMA LedgerDecide ==
  ASSUME LedgerInv, RecordDecision
  PROVE  LedgerInv'
  <1> DEFINE row == [run |-> replay.trace.run, class |-> replay.trace.class, scope |-> replay.trace.scope,
                     candidates |-> replay.selection.candidates, selected |-> replay.selection.selected,
                     nullArm |-> DOMAIN replay.selection.candidates = {}, upto |-> Len(lessonDeltas)]
             n == Len(decisionLog)
  <1>1. PICK decision : decision = row
    OBVIOUS
  <1>2. /\ decisionLog' = Append(decisionLog, decision)
        /\ replay' = [replay EXCEPT !.at = "inject", !.decision = n + 1,
                                    !.injecting = replay.selection.selected]
        /\ library' = library /\ lessonDeltas' = lessonDeltas /\ receipts' = receipts /\ replays' = replays
    BY <1>1 DEF RecordDecision
  <1>3. replay.at = "decide" /\ replay.trace \in Traces /\ SelectionStands
    BY DEF RecordDecision, LedgerInv, ReplayInv
  <1>4. /\ decision.class = replay.trace.class /\ decision.scope = replay.trace.scope
        /\ decision.candidates = replay.selection.candidates /\ decision.upto = Len(lessonDeltas)
    BY <1>1
  <1>5. /\ n \in Nat /\ DOMAIN decisionLog = 1 .. n
        /\ DOMAIN decisionLog' = 1 .. n + 1 /\ Len(decisionLog') = n + 1
        /\ decisionLog'[n + 1] = decision /\ \A d \in 1 .. n : decisionLog'[d] = decisionLog[d]
        /\ decisionLog' \in Seq(Range(decisionLog'))
    <2>1. PICK S, s : S = Range(decisionLog) \cup {decision} /\ s = decisionLog
      OBVIOUS
    <2>2. s \in Seq(S) /\ decision \in S
      <3>1. decisionLog \in Seq(Range(decisionLog)) /\ Range(decisionLog) \subseteq S
        BY <2>1 DEF LedgerInv, LedgerTypes
      <3> QED  BY <2>1, <3>1
    <2>3. PICK t : t = Append(s, decision)
      OBVIOUS
    <2>4. /\ t \in Seq(S) /\ Len(t) = Len(s) + 1 /\ Len(s) \in Nat /\ DOMAIN s = 1 .. Len(s)
          /\ DOMAIN t = 1 .. Len(s) + 1
          /\ t[Len(s) + 1] = decision /\ \A d \in 1 .. Len(s) : t[d] = s[d]
      BY <2>2, <2>3, AppendProperties, LenProperties
    <2>5. t \in Seq(Range(t))
      <3>1. \A d \in 1 .. Len(t) : t[d] \in Range(t)
        BY <2>4 DEF Range
      <3>2. t = [d \in 1 .. Len(t) |-> t[d]] /\ Len(t) \in Nat
        BY <2>4
      <3> QED  BY <3>1, <3>2
    <2> QED  BY <1>2, <2>1, <2>3, <2>4, <2>5
  <1>6. replay' = [at |-> "inject", trace |-> replay.trace, proposed |-> replay.proposed,
                   selection |-> replay.selection, decision |-> n + 1, injecting |-> replay.selection.selected]
    <2>1. PICK often : often = replay.selection.selected
      OBVIOUS
    <2> QED  BY <1>2, <2>1 DEF LedgerInv, ReplayInv
  <1>7. ReplayInv'
    <2>1. replay.selection.selected \subseteq DOMAIN library
      BY <1>3 DEF SelectionStands, CandidatesOf
    <2>2. n + 1 \in DOMAIN decisionLog'
      BY <1>5
    <2> QED  BY <1>2, <1>3, <1>6, <2>1, <2>2 DEF ReplayInv
  <1>8. LedgerTypes'
    <2>1. \A a \in DOMAIN decision.candidates : decision.candidates[a].propensity \in 0 .. One
      BY <1>3, <1>4 DEF SelectionStands
    <2>2. Len(lessonDeltas) \in Nat
      BY LenProperties DEF LedgerInv, LedgerTypes
    <2>3. \A d \in DOMAIN decisionLog' :
            /\ decisionLog'[d].upto \in 0 .. Len(lessonDeltas)
            /\ \A a \in DOMAIN decisionLog'[d].candidates : decisionLog'[d].candidates[a].propensity \in 0 .. One
      <3> SUFFICES ASSUME NEW d \in 1 .. n + 1
                   PROVE  /\ decisionLog'[d].upto \in 0 .. Len(lessonDeltas)
                          /\ \A a \in DOMAIN decisionLog'[d].candidates :
                               decisionLog'[d].candidates[a].propensity \in 0 .. One
        BY <1>5
      <3>1. CASE d = n + 1
        BY <1>4, <1>5, <2>1, <2>2, <3>1
      <3>2. CASE d # n + 1
        <4>1. d \in DOMAIN decisionLog /\ decisionLog'[d] = decisionLog[d]
          BY <1>5, <3>2
        <4> QED  BY <4>1 DEF LedgerInv, LedgerTypes
      <3> QED  BY <3>1, <3>2
    <2>4. \A i \in DOMAIN receipts : receipts[i].decision \in 0 .. Len(decisionLog')
      BY <1>5 DEF LedgerInv, LedgerTypes
    <2> QED  BY <1>2, <1>5, <2>3, <2>4 DEF LedgerInv, LedgerTypes
  <1>9. AgreesWith(library, lessonDeltas)' /\ LedgerMarks' /\ ReceiptsOfLibrary'
    BY <1>2 DEF LedgerInv, LedgerMarks, ReceiptsOfLibrary
  <1>10. ResolvedReceipts' = ResolvedReceipts
    BY <1>2 DEF ResolvedReceipts
  <1>11. ResolvedEarlier'
    BY <1>2, <1>3, <1>6, <1>10 DEF ResolvedEarlier, LedgerInv
  <1>12. CreditsAreContrasts'
    <2> SUFFICES ASSUME NEW i \in ResolvedReceipts, Propensity(receipts[i])' \in 1 .. One - 1
                 PROVE  CreditIsContrast(i)'
      BY <1>10 DEF CreditsAreContrasts
    <2>1. receipts[i].decision # 0
      <3>1. Propensity(receipts[i])' # 0
        BY CreditAssumption
      <3> QED  BY <1>2, <3>1 DEF Propensity
    <2>2. MarksOfReceipt(i)' = MarksOfReceipt(i)
      BY <1>2 DEF MarksOfReceipt
    <2>3. LedgerTypes /\ 0 \notin DOMAIN decisionLog' /\ DOMAIN decisionLog \subseteq DOMAIN decisionLog'
          /\ \A d \in DOMAIN decisionLog : decisionLog'[d] = decisionLog[d]
      BY <1>5 DEF LedgerInv
    <2>4. Propensity(receipts[i])' = Propensity(receipts[i]) /\ (CreditIsContrast(i) => CreditIsContrast(i)')
      BY <1>2, <2>1, <2>2, <2>3, ContrastStays
    <2> QED  BY <2>4 DEF LedgerInv, CreditsAreContrasts
  <1>13. DecisionsStand'
    <2>1. Reproducible(decision)
      <3>1. DOMAIN decision.candidates
              = {a \in DOMAIN library : ArmClass[a] \in ClassesFor(decision.class, decision.scope)}
        BY <1>3, <1>4 DEF SelectionStands, CandidatesOf
      <3>2. \A a \in DOMAIN decision.candidates :
              decision.candidates[a].posterior = candidateParams(library[a], priorCalibration(library))
        BY <1>3, <1>4 DEF SelectionStands
      <3> QED  BY <1>4, <3>1, <3>2, DecidedIsReproducible
    <2> SUFFICES ASSUME NEW d \in 1 .. n + 1 PROVE Reproducible(decisionLog[d])'
      BY <1>5 DEF DecisionsStand
    <2>2. PICK recorded : recorded = decisionLog'[d]
      OBVIOUS
    <2>3. Reproducible(recorded)
      <3>1. CASE d = n + 1
        BY <1>5, <2>1, <2>2, <3>1
      <3>2. CASE d # n + 1
        <4>1. d \in DOMAIN decisionLog /\ decisionLog'[d] = decisionLog[d]
          BY <1>5, <3>2
        <4> QED  BY <2>2, <4>1 DEF LedgerInv, DecisionsStand
      <3> QED  BY <3>1, <3>2
    <2> QED  BY <1>2, <2>2, <2>3 DEF Reproducible
  <1> QED  BY <1>7, <1>8, <1>9, <1>11, <1>12, <1>13 DEF LedgerInv

LEMMA LedgerInject ==
  ASSUME LedgerInv, NEW arm \in Arms, Inject(arm)
  PROVE  LedgerInv'
  <1> DEFINE n == Len(receipts)
  <1>1. /\ replay.at = "inject" /\ arm \in replay.injecting /\ replay.trace \in Traces
        /\ arm \in DOMAIN library /\ replay.decision \in DOMAIN decisionLog
    BY DEF Inject, LedgerInv, ReplayInv
  <1>2. lessonDeltas' = lessonDeltas /\ decisionLog' = decisionLog /\ replays' = replays /\ replays \in Nat
    BY DEF Inject, LedgerInv, LedgerTypes
  <1>3. replay' = [at |-> "inject", trace |-> replay.trace, proposed |-> replay.proposed,
                   selection |-> replay.selection, decision |-> replay.decision,
                   injecting |-> replay.injecting \ {arm}]
    BY <1>1 DEF Inject, LedgerInv, ReplayInv
  <1>4. CASE Injected(arm, replay.trace)
    <2>1. RowsStay
      BY <1>2, <1>4 DEF Inject, RowsStay
    <2>2. ReplayInv'
      BY <1>1, <1>3, <2>1 DEF ReplayInv, RowsStay, LedgerInv
    <2>3. ResolvedReceipts' = ResolvedReceipts /\ receipts' = receipts
      BY <1>2, <2>1, RowsStayKeeps DEF RowsStay
    <2>4. ResolvedEarlier'
      BY <1>1, <1>2, <1>3, <2>3 DEF ResolvedEarlier, LedgerInv
    <2> QED  BY <1>2, <2>1, <2>2, <2>4, RowsStayKeeps DEF LedgerInv
  <1>5. CASE ~Injected(arm, replay.trace)
    <2> DEFINE r == [arm |-> arm, run |-> replay.trace.run, trigger |-> replay.trace.trigger,
                     decision |-> replay.decision, outcome |-> "pending", resolvedIn |-> 0]
    <2>1. receipts' = Append(receipts, r) /\ library' = [library EXCEPT ![arm].uses = @ + 1]
      BY <1>5 DEF Inject
    <2>2. n \in Nat /\ DOMAIN receipts = 1 .. n /\ DOMAIN decisionLog = 1 .. Len(decisionLog) /\ Len(decisionLog) \in Nat
          /\ receipts \in Seq(Range(receipts))
      BY ResolvedIsFinite DEF LedgerInv, LedgerTypes
    <2>3. IsReceipt(r) /\ r.arm = arm /\ r.decision = replay.decision /\ ~Resolved(r)
      <3>1. replay.decision \in Nat
        BY <1>1, <2>2
      <3> QED  BY <3>1 DEF IsReceipt, Resolved
    <2>4. PICK given : given = r
      OBVIOUS
    <2> HIDE DEF r
    <2>5. /\ DOMAIN receipts' = 1 .. n + 1 /\ receipts' \in Seq(Range(receipts'))
          /\ receipts'[n + 1] = given /\ \A i \in 1 .. n : receipts'[i] = receipts[i]
      <3>1. PICK S, s : S = Range(receipts) \cup {given} /\ s = receipts
        OBVIOUS
      <3>2. s \in Seq(S) /\ given \in S
        <4>1. Range(receipts) \subseteq S
          BY <3>1
        <4> QED  BY <2>2, <3>1, <4>1
      <3>3. PICK t : t = Append(s, given)
        OBVIOUS
      <3>4. /\ t \in Seq(S) /\ Len(t) = Len(s) + 1 /\ Len(s) \in Nat /\ DOMAIN s = 1 .. Len(s)
            /\ DOMAIN t = 1 .. Len(s) + 1
            /\ t[Len(s) + 1] = given /\ \A d \in 1 .. Len(s) : t[d] = s[d]
        BY <3>2, <3>3, AppendProperties, LenProperties
      <3>5. t \in Seq(Range(t))
        <4>1. \A d \in 1 .. Len(t) : t[d] \in Range(t)
          BY <3>4 DEF Range
        <4>2. t = [d \in 1 .. Len(t) |-> t[d]] /\ Len(t) \in Nat
          BY <3>4
        <4> QED  BY <4>1, <4>2
      <3> QED  BY <2>1, <2>4, <3>1, <3>3, <3>4, <3>5
    <2>6. /\ DOMAIN library' = DOMAIN library /\ library' \in [DOMAIN library' -> LibraryRow]
          /\ \A a \in DOMAIN library : /\ library'[a].helpful = library[a].helpful
                                       /\ library'[a].harmful = library[a].harmful
                                       /\ library'[a].prior = library[a].prior
      <3>1. library \in [DOMAIN library -> LibraryRow]
        BY DEF LedgerInv, LedgerTypes
      <3>2. PICK row \in LibraryRow : row = library[arm]
        BY <1>1, <3>1
      <3>3. row.uses + 1 \in Nat
        BY <3>2 DEF LibraryRow
      <3>4. PICK used : used = [row EXCEPT !.uses = row.uses + 1]
        OBVIOUS
      <3>5. used \in LibraryRow /\ used.helpful = row.helpful /\ used.harmful = row.harmful /\ used.prior = row.prior
        BY <3>2, <3>3, <3>4 DEF LibraryRow
      <3>6. library' = [library EXCEPT ![arm] = used]
        BY <2>1, <3>2, <3>4
      <3> QED  BY <1>1, <3>1, <3>2, <3>5, <3>6
    <2>7. LedgerTypes'
      <3>1. DOMAIN library' \subseteq Arms
        BY <2>6 DEF LedgerInv, LedgerTypes
      <3>2. \A i \in DOMAIN receipts' : IsReceipt(receipts'[i]) /\ receipts'[i].decision \in 0 .. Len(decisionLog)
        <4> SUFFICES ASSUME NEW i \in 1 .. n + 1
                     PROVE  IsReceipt(receipts'[i]) /\ receipts'[i].decision \in 0 .. Len(decisionLog)
          BY <2>5
        <4>1. CASE i = n + 1
          BY <1>1, <2>2, <2>3, <2>4, <2>5, <4>1
        <4>2. CASE i # n + 1
          <5>1. i \in DOMAIN receipts /\ receipts'[i] = receipts[i]
            BY <2>2, <2>5, <4>2
          <5> QED  BY <5>1 DEF LedgerInv, LedgerTypes
        <4> QED  BY <4>1, <4>2
      <3> QED  BY <1>2, <2>5, <2>6, <3>1, <3>2 DEF LedgerInv, LedgerTypes
    <2>8. ReceiptsOfLibrary'
      <3> SUFFICES ASSUME NEW i \in 1 .. n + 1 PROVE receipts'[i].arm \in DOMAIN library'
        BY <2>5 DEF ReceiptsOfLibrary
      <3>1. CASE i = n + 1
        BY <1>1, <2>3, <2>4, <2>5, <2>6, <3>1
      <3>2. CASE i # n + 1
        <4>1. i \in DOMAIN receipts /\ receipts'[i] = receipts[i]
          BY <2>2, <2>5, <3>2
        <4> QED  BY <2>6, <4>1 DEF LedgerInv, ReceiptsOfLibrary
      <3> QED  BY <3>1, <3>2
    <2>9. AgreesWith(library, lessonDeltas)'
      BY <1>2, <2>6 DEF LedgerInv, AgreesWith
    <2>10. \A i \in DOMAIN receipts : i \in DOMAIN receipts' /\ receipts'[i] = receipts[i]
      BY <2>2, <2>5
    <2>11. \A i \in DOMAIN receipts' : i \in DOMAIN receipts \/ ~Resolved(receipts'[i])
      <3> SUFFICES ASSUME NEW i \in 1 .. n + 1, i \notin DOMAIN receipts PROVE ~Resolved(receipts'[i])
        BY <2>5
      <3>1. i = n + 1
        BY <2>2
      <3> QED  BY <2>3, <2>4, <2>5, <3>1
    <2>12. ResolvedReceipts' = ResolvedReceipts
      BY <2>10, <2>11 DEF ResolvedReceipts
    <2>13. LedgerMarks'
      <3>1. LedgerMarks
        BY DEF LedgerInv
      <3>2. \A k \in Credits(lessonDeltas) : MarksReceipt(lessonDeltas[k], receipts')
        BY <2>10, <3>1 DEF LedgerMarks, MarksReceipt
      <3> QED  BY <1>2, <3>1, <3>2 DEF LedgerMarks
    <2>14. ReplayInv'
      BY <1>1, <1>2, <1>3, <2>6 DEF ReplayInv, LedgerInv
    <2>15. ResolvedEarlier'
      <3>1. \A i \in ResolvedReceipts : receipts'[i] = receipts[i]
        BY <2>10 DEF ResolvedReceipts
      <3> QED  BY <1>1, <1>2, <1>3, <2>12, <3>1 DEF ResolvedEarlier, LedgerInv
    <2>16. CreditsAreContrasts'
      <3> SUFFICES ASSUME NEW i \in ResolvedReceipts, Propensity(receipts[i])' \in 1 .. One - 1
                   PROVE  CreditIsContrast(i)'
        BY <2>12 DEF CreditsAreContrasts
      <3>1. receipts'[i] = receipts[i]
        BY <2>10 DEF ResolvedReceipts
      <3>2. receipts[i].decision # 0
        <4>1. Propensity(receipts[i])' # 0
          BY CreditAssumption
        <4> QED  BY <3>1, <4>1 DEF Propensity
      <3>3. MarksOfReceipt(i)' = MarksOfReceipt(i)
        BY <1>2 DEF MarksOfReceipt
      <3>4. LedgerTypes /\ 0 \notin DOMAIN decisionLog' /\ DOMAIN decisionLog \subseteq DOMAIN decisionLog'
            /\ DOMAIN receipts \subseteq DOMAIN receipts'
        BY <1>2, <2>2, <2>10 DEF LedgerInv
      <3>5. Propensity(receipts[i])' = Propensity(receipts[i]) /\ (CreditIsContrast(i) => CreditIsContrast(i)')
        BY <1>2, <2>10, <2>11, <3>1, <3>2, <3>3, <3>4, ContrastStays
      <3> QED  BY <3>5 DEF LedgerInv, CreditsAreContrasts
    <2>17. DecisionsStand'
      BY <1>2 DEF LedgerInv, DecisionsStand, Reproducible
    <2> QED  BY <2>7, <2>8, <2>9, <2>13, <2>14, <2>15, <2>16, <2>17 DEF LedgerInv
  <1> QED  BY <1>4, <1>5

-----------------------------------------------------------------------------
(* The marks of a run.                                                       *)

LEMMA Quotient ==
  ASSUME NEW a \in Nat, NEW e \in Nat \ {0}
  PROVE  a \div e \in Nat /\ (a >= e => a \div e >= 1) /\ (a < e => a \div e = 0)
  OBVIOUS

LEMMA Positive ==
  ASSUME NEW a \in Nat \ {0}, NEW b \in Nat \ {0}
  PROVE  a * b \in Nat \ {0}
  OBVIOUS

\* The sign of the hindsight ratio.
LEMMA RatioLiftSign ==
  ASSUME NEW k \in Nat, NEW n \in Nat, NEW share \in 1 .. One - 1
  PROVE  LET credit == RatioLift(k, n, share)
             found == (k + 1) * One
             expected == (n + 2) * share
         IN /\ credit.weight \in Int /\ credit.estimator = "ratio-lift@1"
            /\ found \in Int /\ expected \in Int
            /\ found > expected => credit.weight > 0
            /\ found = expected => credit.weight = 0
            /\ found < expected => credit.weight < 0
  <1>1. One \in Nat \ {0}
    BY CreditAssumption
  <1>2. PICK found \in Nat \ {0} : found = (k + 1) * One
    BY <1>1, Positive
  <1>3. PICK expected \in Nat \ {0} : expected = (n + 2) * share
    <2>1. share \in Nat \ {0} /\ n + 2 \in Nat \ {0}
      BY <1>1
    <2> QED  BY <2>1, Positive
  <1>4. PICK gap \in Nat : gap = Distance(found, expected) /\ (gap = 0 <=> found = expected)
    <2>1. Distance(found, expected) \in Nat /\ (Distance(found, expected) = 0 <=> found = expected)
      BY DEF Distance
    <2> QED  BY <2>1
  <1>5. PICK scaled \in Nat : scaled = gap * One /\ (gap # 0 => scaled >= 1) /\ (gap = 0 => scaled = 0)
    <2>1. gap # 0 => gap * One \in Nat \ {0}
      BY <1>1, Positive
    <2>2. gap = 0 => gap * One = 0
      BY <1>1
    <2> QED  BY <2>1, <2>2
  <1>6. PICK a \in Nat : a = scaled + expected - 1
    OBVIOUS
  <1>7. PICK size \in Nat : size = a \div expected /\ (gap # 0 => size >= 1) /\ (gap = 0 => size = 0)
    <2>1. gap # 0 => a >= expected
      BY <1>5, <1>6
    <2>2. gap = 0 => a < expected
      BY <1>5, <1>6
    <2> QED  BY <2>1, <2>2, Quotient
  <1>8. RatioLift(k, n, share)
          = [weight |-> Clipped(IF found < expected THEN -size ELSE size), estimator |-> "ratio-lift@1"]
    BY <1>2, <1>3, <1>4, <1>5, <1>6, <1>7 DEF RatioLift
  <1>9. PICK raw \in Int : raw = IF found < expected THEN -size ELSE size
    OBVIOUS
  <1>10. /\ found > expected => raw > 0
         /\ found = expected => raw = 0
         /\ found < expected => raw < 0
    BY <1>4, <1>7, <1>9
  <1>11. PICK most \in Nat \ {0} : most = MaxWeight * One
    BY <1>1 DEF MaxWeight
  <1>12. /\ Clipped(raw) \in Int
         /\ raw > 0 => Clipped(raw) > 0
         /\ raw = 0 => Clipped(raw) = 0
         /\ raw < 0 => Clipped(raw) < 0
    BY <1>1, <1>11 DEF Clipped
  <1>13. RatioLift(k, n, share).weight = Clipped(raw) /\ RatioLift(k, n, share).estimator = "ratio-lift@1"
    BY <1>8, <1>9
  <1> QED  BY <1>2, <1>3, <1>10, <1>12, <1>13

\* The decisions that had come out so far, and those of them that chose a lesson.
ChosenOf(arm, past) == {d \in past : arm \in decisionLog[d].selected}

LEMMA PropensityIs ==
  ASSUME LedgerTypes, NEW i \in DOMAIN receipts
  PROVE  /\ Propensity(receipts[i]) \in 0 .. One
         /\ Propensity(receipts[i]) # 0 => receipts[i].decision \in DOMAIN decisionLog
  <1>1. receipts[i].decision \in 0 .. Len(decisionLog) /\ DOMAIN decisionLog = 1 .. Len(decisionLog)
        /\ Len(decisionLog) \in Nat
    BY ResolvedIsFinite DEF LedgerTypes
  <1>2. receipts[i].decision # 0 => receipts[i].decision \in DOMAIN decisionLog
    BY <1>1
  <1>3. One \in Nat
    BY CreditAssumption
  <1> QED  BY <1>2, <1>3 DEF Propensity, LedgerTypes

LEMMA WeighingIs ==
  ASSUME LedgerTypes, NEW i \in DOMAIN receipts, NEW outcome
  PROVE  LET credit == InjectionWeight(receipts[i], outcome)
             share == Propensity(receipts[i])
             past == ResolvedDecisions(decisionLog[receipts[i].decision].class, outcome)
             found == (Cardinality(ChosenOf(receipts[i].arm, past)) + 1) * One
             expected == (Cardinality(past) + 2) * share
         IN /\ credit.weight \in Int
            /\ \/ credit.weight = One /\ credit.estimator = "uniform-fallback@1"
               \/ credit.estimator = "ratio-lift@1"
            /\ share \in 1 .. One - 1 =>
                 /\ Cardinality(past) < MinStratumDecisions \/ found > expected => credit.weight > 0
                 /\ ~(Cardinality(past) < MinStratumDecisions) /\ found = expected => credit.weight = 0
                 /\ ~(Cardinality(past) < MinStratumDecisions) /\ ~(found > expected) /\ found # expected =>
                      credit.weight < 0
  <1> DEFINE past == ResolvedDecisions(decisionLog[receipts[i].decision].class, outcome)
             often == ChosenOf(receipts[i].arm, past)
  <1>1. PICK share \in 0 .. One : share = Propensity(receipts[i])
    BY PropensityIs
  <1>2. PICK credit : credit = InjectionWeight(receipts[i], outcome)
    OBVIOUS
  <1>3. PICK n \in Nat, k \in Nat : n = Cardinality(past) /\ k = Cardinality(often)
    <2>1. IsFiniteSet(DOMAIN decisionLog)
      BY ResolvedIsFinite, FS_Interval
    <2>2. past \subseteq DOMAIN decisionLog /\ often \subseteq past
      BY DEF ResolvedDecisions, ChosenOf
    <2>3. IsFiniteSet(past) /\ IsFiniteSet(often)
      BY <2>1, <2>2, FS_Subset
    <2> QED  BY <2>3, FS_CardinalityType
  <1>4. One \in Nat \ {0} /\ MinStratumDecisions \in Nat
    BY CreditAssumption
  <1>5. CASE share = 0 \/ share = One
    <2>1. credit = Uniform
      BY <1>1, <1>2, <1>5 DEF InjectionWeight
    <2>2. share \notin 1 .. One - 1
      BY <1>4, <1>5
    <2> QED  BY <1>1, <1>2, <1>4, <2>1, <2>2 DEF Uniform
  <1>6. CASE share # 0 /\ share # One
    <2>1. share \in 1 .. One - 1
      BY <1>4, <1>6
    <2>2. credit = IF n < MinStratumDecisions THEN Uniform ELSE RatioLift(k, n, share)
      BY <1>1, <1>2, <1>3, <1>6 DEF InjectionWeight, ChosenOf
    <2>3. CASE n < MinStratumDecisions
      <3>1. credit.weight = One /\ credit.estimator = "uniform-fallback@1"
        BY <2>2, <2>3 DEF Uniform
      <3> QED  BY <1>1, <1>2, <1>3, <1>4, <2>3, <3>1
    <2>4. CASE ~(n < MinStratumDecisions)
      <3>1. credit = RatioLift(k, n, share)
        BY <2>2, <2>4
      <3>2. PICK found \in Int, expected \in Int : found = (k + 1) * One /\ expected = (n + 2) * share
        BY <1>4
      <3>3. /\ credit.weight \in Int /\ credit.estimator = "ratio-lift@1"
            /\ found > expected => credit.weight > 0
            /\ found = expected => credit.weight = 0
            /\ found < expected => credit.weight < 0
        BY <2>1, <3>1, <3>2, RatioLiftSign
      <3>4. ~(found > expected) /\ found # expected => found < expected
        OBVIOUS
      <3> QED  BY <1>1, <1>2, <1>3, <2>4, <3>2, <3>3, <3>4
    <2> QED  BY <2>3, <2>4
  <1> QED  BY <1>5, <1>6

LEMMA MarkIs ==
  ASSUME NEW i \in DOMAIN receipts, i \in Nat, receipts[i].arm \in Arms, NEW outcome,
         NEW credit, credit.weight \in Int \ {0},
         \/ credit.weight = One /\ credit.estimator = "uniform-fallback@1"
         \/ credit.estimator = "ratio-lift@1"
  PROVE  LET mark == Mark(i, credit, outcome)
         IN /\ mark \in DeltaRow /\ mark.receipt = i /\ mark.arm = receipts[i].arm
            /\ IsCredit(mark) /\ IsWeighed(mark) /\ mark.prior = Nothing
            /\ credit.weight > 0 => Signed(mark, outcome) > 0
            /\ credit.weight < 0 => Signed(mark, outcome) < 0
  <1>1. PICK w \in Int \ {0}, est \in {"uniform-fallback@1", "ratio-lift@1"} :
          w = credit.weight /\ est = credit.estimator /\ (est # "ratio-lift@1" => w = One)
    OBVIOUS
  <1>2. PICK size \in Nat \ {0} : size = Distance(w, 0) /\ (w > 0 => size = w) /\ (w < 0 => size = -w)
    <2>1. Distance(w, 0) \in Nat \ {0} /\ (w > 0 => Distance(w, 0) = w) /\ (w < 0 => Distance(w, 0) = -w)
      BY DEF Distance
    <2> QED  BY <2>1
  <1>3. PICK type \in {"MARK_HELPFUL", "MARK_HARMFUL"} :
          type = IF (outcome = "passed") = (w > 0) THEN "MARK_HELPFUL" ELSE "MARK_HARMFUL"
    OBVIOUS
  <1>4. PICK mark : mark = Mark(i, credit, outcome)
    OBVIOUS
  <1>5. mark = [type |-> type, arm |-> receipts[i].arm, prior |-> Nothing, receipt |-> i, weight |-> size,
                estimator |-> est]
    BY <1>1, <1>2, <1>3, <1>4 DEF Mark, LessonDelta
  <1>6. Nothing \notin Int /\ One \in Nat
    BY CreditAssumption
  <1>7. mark \in DeltaRow
    BY <1>5 DEF DeltaRow, Priors
  <1>8. IsCredit(mark) /\ mark.prior = Nothing /\ mark.receipt = i /\ mark.arm = receipts[i].arm
    BY <1>5 DEF IsCredit
  <1>9. IsWeighed(mark)
    <2>1. est # "ratio-lift@1" => size = One
      <3>1. est # "ratio-lift@1" => w = One /\ w > 0
        BY <1>1, <1>6
      <3> QED  BY <1>2, <3>1
    <2>2. mark.weight = size /\ mark.estimator = est
      BY <1>5
    <2> QED  BY <2>1, <2>2 DEF IsWeighed
  <1>10. (w > 0 => Signed(mark, outcome) = size) /\ (w < 0 => Signed(mark, outcome) = -size)
    <2>1. mark.weight = size /\ mark.type = type
      BY <1>5
    <2>2. type = "MARK_HELPFUL" <=> (outcome = "passed") = (w > 0)
      BY <1>3
    <2>3. w < 0 => ~(w > 0)
      OBVIOUS
    <2> QED  BY <2>1, <2>2, <2>3 DEF Signed
  <1>11. (w > 0 => Signed(mark, outcome) > 0) /\ (w < 0 => Signed(mark, outcome) < 0)
    BY <1>10
  <1> QED  BY <1>1, <1>4, <1>7, <1>8, <1>9, <1>11

CreditOf(i, outcome) == InjectionWeight(receipts[i], outcome).weight

\* One mark for each receipt that has a credit, in its direction.
IsMarking(ms, pending, outcome) ==
  /\ ms \in Seq(DeltaRow)
  /\ \A m \in DOMAIN ms :
       LET i == ms[m].receipt
       IN /\ i \in pending /\ ms[m].arm = receipts[i].arm
          /\ IsCredit(ms[m]) /\ IsWeighed(ms[m]) /\ ms[m].prior = Nothing
          /\ CreditOf(i, outcome) # 0
          /\ CreditOf(i, outcome) > 0 => Signed(ms[m], outcome) > 0
          /\ CreditOf(i, outcome) < 0 => Signed(ms[m], outcome) < 0
  /\ \A l, m \in DOMAIN ms : l # m => ms[l].receipt # ms[m].receipt
  /\ \A i \in pending : CreditOf(i, outcome) # 0 => \E m \in DOMAIN ms : ms[m].receipt = i

\* What a run that is told its outcome does.
Applied(ms, pending, outcome) ==
  /\ lessonDeltas' = lessonDeltas \o ms
  /\ library' = [a \in DOMAIN library |->
       [library[a] EXCEPT !.helpful = @ + MovedBy(ms, a, "MARK_HELPFUL"),
                          !.harmful = @ + MovedBy(ms, a, "MARK_HARMFUL")]]
  /\ receipts' = [i \in DOMAIN receipts |->
       IF i \in pending THEN [receipts[i] EXCEPT !.outcome = outcome, !.resolvedIn = replays]
       ELSE receipts[i]]
  /\ replay' = NoReplay /\ decisionLog' = decisionLog /\ replays' = replays

LEMMA AscendingOf ==
  ASSUME NEW S \in SUBSET Nat, IsFiniteSet(S)
  PROVE  LET s == Ascending(S) IN
         /\ s \in [1 .. Cardinality(S) -> S] /\ Cardinality(S) \in Nat
         /\ \A i, j \in 1 .. Cardinality(S) : i # j => s[i] # s[j]
         /\ \A x \in S : \E i \in 1 .. Cardinality(S) : s[i] = x
  <1>1. Ascending(S) = InOrder(S)
    BY DEF Ascending, InOrder
  <1> QED  BY <1>1, InOrderOf

LEMMA ApplyIs ==
  ASSUME LedgerInv, ApplyOutcome
  PROVE  /\ replay.at = "inject" /\ replay.trace \in Traces /\ replay.trace.outcome \in {"passed", "failed"}
         /\ \E ms : /\ IsMarking(ms, PendingReceipts(replay.trace.run), replay.trace.outcome)
                    /\ Applied(ms, PendingReceipts(replay.trace.run), replay.trace.outcome)
  <1> DEFINE pending == PendingReceipts(replay.trace.run)
             outcome == replay.trace.outcome
             P == {i \in pending : CreditOf(i, outcome) # 0}
             n == Cardinality(P)
             moving == Ascending(P)
             marks == [m \in DOMAIN moving |-> Mark(moving[m], InjectionWeight(receipts[moving[m]], outcome), outcome)]
  <1>1. replay.at = "inject" /\ replay.trace \in Traces
    BY DEF ApplyOutcome, LedgerInv, ReplayInv
  <1>2. outcome \in {"passed", "failed"}
    BY <1>1, CreditAssumption
  <1>3. LedgerTypes /\ IsFiniteSet(DOMAIN receipts) /\ DOMAIN receipts = 1 .. Len(receipts) /\ Len(receipts) \in Nat
    BY ResolvedIsFinite DEF LedgerInv
  <1>4. pending \subseteq DOMAIN receipts /\ P \in SUBSET Nat /\ IsFiniteSet(P) /\ P \subseteq pending
    BY <1>3, FS_Subset DEF PendingReceipts
  <1>5. /\ moving \in [1 .. n -> P] /\ n \in Nat
        /\ \A l, m \in 1 .. n : l # m => moving[l] # moving[m]
        /\ \A i \in P : \E m \in 1 .. n : moving[m] = i
    <2> HIDE DEF P
    <2> QED  BY <1>4, AscendingOf
  <1>6. DOMAIN marks = 1 .. n
    BY <1>5
  <1>7. ASSUME NEW m \in 1 .. n
        PROVE  /\ marks[m] \in DeltaRow /\ marks[m].receipt = moving[m] /\ marks[m].arm = receipts[moving[m]].arm
               /\ IsCredit(marks[m]) /\ IsWeighed(marks[m]) /\ marks[m].prior = Nothing
               /\ CreditOf(moving[m], outcome) > 0 => Signed(marks[m], outcome) > 0
               /\ CreditOf(moving[m], outcome) < 0 => Signed(marks[m], outcome) < 0
    <2>1. PICK i \in P : i = moving[m]
      BY <1>5
    <2>2. i \in DOMAIN receipts /\ i \in Nat /\ CreditOf(i, outcome) # 0
      BY <1>4
    <2>3. receipts[i].arm \in Arms
      <3>1. IsReceipt(receipts[i])
        BY <1>3, <2>2 DEF LedgerTypes
      <3> QED  BY <3>1 DEF IsReceipt
    <2>4. PICK credit : credit = InjectionWeight(receipts[i], outcome)
      OBVIOUS
    <2>5. credit.weight \in Int
          /\ \/ credit.weight = One /\ credit.estimator = "uniform-fallback@1"
             \/ credit.estimator = "ratio-lift@1"
      BY <1>3, <2>2, <2>4, WeighingIs
    <2>6. credit.weight \in Int \ {0} /\ credit.weight = CreditOf(i, outcome)
      BY <2>2, <2>4, <2>5 DEF CreditOf
    <2>7. marks[m] = Mark(i, credit, outcome)
      BY <1>6, <2>1, <2>4
    <2>8. PICK mark : mark = Mark(i, credit, outcome)
      OBVIOUS
    <2>9. /\ mark \in DeltaRow /\ mark.receipt = i /\ mark.arm = receipts[i].arm
          /\ IsCredit(mark) /\ IsWeighed(mark) /\ mark.prior = Nothing
          /\ credit.weight > 0 => Signed(mark, outcome) > 0
          /\ credit.weight < 0 => Signed(mark, outcome) < 0
      BY <2>2, <2>3, <2>5, <2>6, <2>8, MarkIs
    <2> HIDE DEF marks, moving, outcome
    <2> QED  BY <2>1, <2>6, <2>7, <2>8, <2>9
  <1>8. PICK ms : ms = marks
    OBVIOUS
  <1>9. ms \in Seq(DeltaRow) /\ DOMAIN ms = 1 .. n
    <2>1. ms \in [1 .. n -> DeltaRow]
      BY <1>6, <1>7, <1>8
    <2> QED  BY <1>5, <2>1
  <1>10. IsMarking(ms, pending, outcome)
    <2> HIDE DEF marks, moving, outcome, pending
    <2>1. \A m \in 1 .. n : moving[m] \in pending /\ CreditOf(moving[m], outcome) # 0
      BY <1>5
    <2>2. \A i \in pending : CreditOf(i, outcome) # 0 => i \in P
      OBVIOUS
    <2> HIDE DEF P, n
    <2> QED  BY <1>5, <1>7, <1>8, <1>9, <2>1, <2>2 DEF IsMarking
  <1>11. Applied(ms, pending, outcome)
    BY <1>8 DEF ApplyOutcome, Applied, CreditOf
  <1> QED  BY <1>1, <1>2, <1>10, <1>11

\* A row that was moved.
MovedRow(row, h, k) == [row EXCEPT !.helpful = @ + h, !.harmful = @ + k]

LEMMA MovedRowIs ==
  ASSUME NEW row \in LibraryRow, NEW h \in Nat, NEW k \in Nat
  PROVE  LET moved == MovedRow(row, h, k)
         IN moved \in LibraryRow /\ moved.helpful = row.helpful + h /\ moved.harmful = row.harmful + k
            /\ moved.prior = row.prior
  <1>1. PICK x \in Nat, y \in Nat : x = row.helpful + h /\ y = row.harmful + k
    BY DEF LibraryRow
  <1>2. MovedRow(row, h, k) = [helpful |-> x, harmful |-> y, uses |-> row.uses, prior |-> row.prior]
    <2>1. PICK added : added = [row EXCEPT !.helpful = x]
      OBVIOUS
    <2>2. added = [helpful |-> x, harmful |-> row.harmful, uses |-> row.uses, prior |-> row.prior]
      BY <2>1 DEF LibraryRow
    <2>3. MovedRow(row, h, k) = [added EXCEPT !.harmful = y]
      BY <1>1, <2>1, <2>2 DEF MovedRow
    <2> QED  BY <2>2, <2>3
  <1>3. row.uses \in Nat /\ row.prior \in Priors
    BY DEF LibraryRow
  <1> QED  BY <1>1, <1>2, <1>3 DEF LibraryRow

\* What telling a run its outcome leaves of the rows.
RowsApplied(ms, pending, outcome) ==
  /\ LogGoesOn
  /\ \A k \in DOMAIN lessonDeltas' : k \in DOMAIN lessonDeltas \/
       \E m \in DOMAIN ms : k = Len(lessonDeltas) + m /\ lessonDeltas'[k] = ms[m]
  /\ \A m \in DOMAIN ms : /\ Len(lessonDeltas) + m \in DOMAIN lessonDeltas'
                          /\ Len(lessonDeltas) + m \notin DOMAIN lessonDeltas
                          /\ lessonDeltas'[Len(lessonDeltas) + m] = ms[m]
  /\ \A l, m \in DOMAIN ms : Len(lessonDeltas) + l = Len(lessonDeltas) + m => l = m
  /\ DOMAIN library' = DOMAIN library /\ library' \in [DOMAIN library' -> LibraryRow]
  /\ AgreesWith(library, lessonDeltas)'
  /\ DOMAIN receipts' = DOMAIN receipts /\ receipts' \in Seq(Range(receipts'))
  /\ \A i \in DOMAIN receipts \ pending : receipts'[i] = receipts[i]
  /\ \A i \in DOMAIN receipts :
       /\ IsReceipt(receipts'[i]) /\ receipts'[i].arm = receipts[i].arm
       /\ receipts'[i].decision = receipts[i].decision
       /\ i \in pending => receipts'[i].outcome = outcome /\ receipts'[i].resolvedIn = replays

LEMMA AppliedRows ==
  ASSUME LedgerInv, NEW pending, pending \subseteq DOMAIN receipts, NEW outcome \in {"passed", "failed"},
         NEW ms, IsMarking(ms, pending, outcome), Applied(ms, pending, outcome)
  PROVE  RowsApplied(ms, pending, outcome)
  <1> DEFINE n == Len(lessonDeltas)
  <1>1. /\ lessonDeltas \in Seq(DeltaRow) /\ ms \in Seq(DeltaRow) /\ library \in [DOMAIN library -> LibraryRow]
        /\ DOMAIN receipts = 1 .. Len(receipts) /\ Len(receipts) \in Nat /\ replays \in Nat
        /\ \A i \in DOMAIN receipts : IsReceipt(receipts[i])
    BY ResolvedIsFinite DEF LedgerInv, LedgerTypes, IsMarking
  <1>2. PICK s, j : s = lessonDeltas /\ j = s \o ms
    OBVIOUS
  <1>3. /\ j \in Seq(DeltaRow) /\ Len(s) \in Nat /\ Len(ms) \in Nat /\ Len(j) = Len(s) + Len(ms)
        /\ \A k \in DOMAIN s : k \in DOMAIN j /\ j[k] = s[k]
        /\ \A k \in DOMAIN ms : Len(s) + k \in DOMAIN j /\ j[Len(s) + k] = ms[k]
        /\ \A k \in DOMAIN j : k \in DOMAIN s \/ \E m \in DOMAIN ms : k = Len(s) + m
        /\ ArmsOf(j) = ArmsOf(s) \cup ArmsOf(ms)
    BY <1>1, <1>2, JoinedLog
  <1>4. lessonDeltas' = j
    BY <1>2 DEF Applied
  <1>5. DOMAIN ms = 1 .. Len(ms) /\ DOMAIN s = 1 .. Len(s)
    BY <1>1, <1>2, LenProperties
  <1>6. LogGoesOn
    BY <1>1, <1>2, <1>3, <1>4 DEF LogGoesOn
  <1>7. \A k \in DOMAIN j : k \in DOMAIN s \/ \E m \in DOMAIN ms : k = Len(s) + m /\ j[k] = ms[m]
    BY <1>3
  <1>8. \A m \in DOMAIN ms : Len(s) + m \notin DOMAIN s
    BY <1>3, <1>5
  <1>9. \A l, m \in DOMAIN ms : Len(s) + l = Len(s) + m => l = m
    BY <1>3, <1>5
  <1>10. ASSUME NEW a \in DOMAIN library
         PROVE  /\ library'[a] \in LibraryRow
                /\ library'[a].helpful = MovedBy(j, a, "MARK_HELPFUL")
                /\ library'[a].harmful = MovedBy(j, a, "MARK_HARMFUL")
                /\ library'[a].prior = FirstPrior(j, a)
    <2>1. PICK h \in Nat, k \in Nat : h = MovedBy(ms, a, "MARK_HELPFUL") /\ k = MovedBy(ms, a, "MARK_HARMFUL")
      BY <1>1, MovingIs
    <2>2. PICK row \in LibraryRow : row = library[a]
      BY <1>1
    <2>3. library'[a] = MovedRow(row, h, k)
      BY <2>1, <2>2 DEF Applied, MovedRow
    <2>4. PICK moved : moved = MovedRow(row, h, k)
      OBVIOUS
    <2>5. moved \in LibraryRow /\ moved.helpful = row.helpful + h /\ moved.harmful = row.harmful + k
          /\ moved.prior = row.prior
      BY <2>4, MovedRowIs
    <2>6. /\ row.helpful = MovedBy(s, a, "MARK_HELPFUL") /\ row.harmful = MovedBy(s, a, "MARK_HARMFUL")
          /\ row.prior = FirstPrior(s, a)
      BY <1>2, <2>2, RebuiltIs DEF LedgerInv
    <2>7. MovedBy(j, a, "MARK_HELPFUL") = MovedBy(s, a, "MARK_HELPFUL") + h
      BY <1>1, <1>2, <2>1, MovedByJoined
    <2>8. MovedBy(j, a, "MARK_HARMFUL") = MovedBy(s, a, "MARK_HARMFUL") + k
      BY <1>1, <1>2, <2>1, MovedByJoined
    <2>9. FirstPrior(j, a) = FirstPrior(s, a)
      <3>1. \A m \in DOMAIN ms : ms[m].prior = Nothing
        BY DEF IsMarking
      <3>2. FirstPrior(s \o ms, a) = FirstPrior(s, a)
        BY <1>1, <1>2, <3>1, JoinedPriors
      <3> QED  BY <1>2, <3>2
    <2> QED  BY <2>3, <2>4, <2>5, <2>6, <2>7, <2>8, <2>9
  <1>11. DOMAIN library' = DOMAIN library /\ library' \in [DOMAIN library' -> LibraryRow]
    <2>1. library' = [a \in DOMAIN library |-> library'[a]]
      BY DEF Applied
    <2> QED  BY <1>10, <2>1
  <1>12. AgreesWith(library, lessonDeltas)'
    <2>1. DOMAIN library = ArmsOf(s)
      BY <1>2, RebuiltIs DEF LedgerInv
    <2>2. ArmsOf(ms) \subseteq DOMAIN library
      BY DEF ArmsOf, IsMarking, LedgerInv, ReceiptsOfLibrary
    <2>3. DOMAIN library' = ArmsOf(j)
      BY <1>3, <1>11, <2>1, <2>2
    <2>4. AgreesWith(library', j)
      BY <1>10, <1>11, <2>3, RebuiltIs
    <2> QED  BY <1>4, <2>4
  <1>13. ASSUME NEW i \in DOMAIN receipts
         PROVE  /\ i \notin pending => receipts'[i] = receipts[i]
                /\ IsReceipt(receipts'[i]) /\ receipts'[i].arm = receipts[i].arm
                /\ receipts'[i].decision = receipts[i].decision
                /\ i \in pending => receipts'[i].outcome = outcome /\ receipts'[i].resolvedIn = replays
    <2>1. PICK r : r = receipts[i] /\ IsReceipt(r)
      BY <1>1
    <2>2. CASE i \notin pending
      BY <2>1, <2>2 DEF Applied
    <2>3. CASE i \in pending
      <3>1. receipts'[i] = [r EXCEPT !.outcome = outcome, !.resolvedIn = replays]
        BY <2>1, <2>3 DEF Applied
      <3>2. r = [arm |-> r.arm, run |-> r.run, trigger |-> r.trigger, decision |-> r.decision,
                 outcome |-> r.outcome, resolvedIn |-> r.resolvedIn]
            /\ r.arm \in Arms /\ r.decision \in Nat
        BY <2>1 DEF IsReceipt
      <3>3. PICK counted : counted = [arm |-> r.arm, run |-> r.run, trigger |-> r.trigger, decision |-> r.decision,
                                     outcome |-> outcome, resolvedIn |-> replays]
        OBVIOUS
      <3>4. receipts'[i] = counted
        BY <3>1, <3>2, <3>3
      <3>5. IsReceipt(counted) /\ counted.arm = r.arm /\ counted.decision = r.decision
            /\ counted.outcome = outcome /\ counted.resolvedIn = replays
        BY <1>1, <3>2, <3>3 DEF IsReceipt
      <3> QED  BY <2>1, <2>3, <3>4, <3>5
    <2> QED  BY <2>2, <2>3
  <1>14. DOMAIN receipts' = DOMAIN receipts /\ receipts' \in Seq(Range(receipts'))
    <2>1. DOMAIN receipts' = 1 .. Len(receipts)
      BY <1>1 DEF Applied
    <2>2. receipts' = [i \in 1 .. Len(receipts) |-> receipts'[i]]
      BY <1>1 DEF Applied
    <2>3. \A i \in 1 .. Len(receipts) : receipts'[i] \in Range(receipts')
      BY <2>1 DEF Range
    <2> QED  BY <1>1, <2>1, <2>2, <2>3
  <1> QED  BY <1>2, <1>3, <1>4, <1>6, <1>7, <1>8, <1>9, <1>11, <1>12, <1>13, <1>14 DEF RowsApplied

\* The marks of the receipts that were counted before, and those of the receipts counted now.
MarksApplied(ms, pending, outcome) ==
  /\ LedgerMarks'
  /\ \A i \in ResolvedReceipts : MarksOfReceipt(i)' = MarksOfReceipt(i)
  /\ \A i \in pending : CreditOf(i, outcome) = 0 => MarksOfReceipt(i)' = {}
  /\ \A m \in DOMAIN ms : MarksOfReceipt(ms[m].receipt)' = {Len(lessonDeltas) + m}

LEMMA AppliedMarks ==
  ASSUME LedgerInv, NEW pending, pending \subseteq DOMAIN receipts, \A i \in pending : ~Resolved(receipts[i]),
         NEW outcome \in {"passed", "failed"},
         NEW ms, IsMarking(ms, pending, outcome), Applied(ms, pending, outcome)
  PROVE  MarksApplied(ms, pending, outcome)
  <1> DEFINE n == Len(lessonDeltas)
  <1>1. /\ \A k \in DOMAIN lessonDeltas : k \in DOMAIN lessonDeltas' /\ lessonDeltas'[k] = lessonDeltas[k]
        /\ \A k \in DOMAIN lessonDeltas' : k \in DOMAIN lessonDeltas \/
              \E m \in DOMAIN ms : k = n + m /\ lessonDeltas'[k] = ms[m]
        /\ \A m \in DOMAIN ms : n + m \in DOMAIN lessonDeltas' /\ n + m \notin DOMAIN lessonDeltas
                                /\ lessonDeltas'[n + m] = ms[m]
        /\ \A l, m \in DOMAIN ms : n + l = n + m => l = m
        /\ DOMAIN receipts' = DOMAIN receipts
        /\ \A i \in DOMAIN receipts \ pending : receipts'[i] = receipts[i]
        /\ \A i \in pending : receipts'[i].arm = receipts[i].arm /\ receipts'[i].outcome = outcome
    <2>1. RowsApplied(ms, pending, outcome)
      BY AppliedRows
    <2> QED  BY <2>1 DEF RowsApplied, LogGoesOn
  <1> HIDE DEF n
  <1>2. \A k \in Credits(lessonDeltas) : /\ MarksReceipt(lessonDeltas[k], receipts)
                                         /\ IsWeighed(lessonDeltas[k]) /\ lessonDeltas[k].prior = Nothing
    BY DEF LedgerInv, LedgerMarks
  <1>3. \A k \in Credits(lessonDeltas) :
          /\ lessonDeltas'[k] = lessonDeltas[k] /\ lessonDeltas[k].receipt \in DOMAIN receipts \ pending
          /\ k \in Credits(lessonDeltas') /\ MarksReceipt(lessonDeltas[k], receipts')
    BY <1>1, <1>2 DEF Credits, MarksReceipt
  <1>4. \A m \in DOMAIN ms :
          /\ ms[m].receipt \in pending /\ n + m \in Credits(lessonDeltas') /\ IsWeighed(ms[m])
          /\ ms[m].prior = Nothing /\ MarksReceipt(ms[m], receipts')
    BY <1>1 DEF IsMarking, Credits, MarksReceipt, Resolved
  <1>5. \A k \in Credits(lessonDeltas') : k \in Credits(lessonDeltas) \/
          \E m \in DOMAIN ms : k = n + m /\ lessonDeltas'[k] = ms[m]
    BY <1>1 DEF Credits
  <1>6. \A l, m \in DOMAIN ms : l # m => ms[l].receipt # ms[m].receipt
    BY DEF IsMarking
  <1>7. LedgerMarks'
    <2>1. ASSUME NEW k \in Credits(lessonDeltas')
          PROVE  /\ MarksReceipt(lessonDeltas'[k], receipts')
                 /\ IsWeighed(lessonDeltas'[k]) /\ lessonDeltas'[k].prior = Nothing
      BY <1>2, <1>3, <1>4, <1>5
    <2>2. ASSUME NEW j \in Credits(lessonDeltas'), NEW k \in Credits(lessonDeltas'), j # k
          PROVE  lessonDeltas'[j].receipt # lessonDeltas'[k].receipt
      <3>1. CASE j \in Credits(lessonDeltas) /\ k \in Credits(lessonDeltas)
        BY <1>3, <2>2, <3>1 DEF LedgerInv, LedgerMarks
      <3>2. CASE j \in Credits(lessonDeltas) /\ k \notin Credits(lessonDeltas)
        BY <1>3, <1>4, <1>5, <3>2
      <3>3. CASE j \notin Credits(lessonDeltas) /\ k \in Credits(lessonDeltas)
        BY <1>3, <1>4, <1>5, <3>3
      <3>4. CASE j \notin Credits(lessonDeltas) /\ k \notin Credits(lessonDeltas)
        BY <1>5, <1>6, <2>2, <3>4
      <3> QED  BY <3>1, <3>2, <3>3, <3>4
    <2> QED  BY <2>1, <2>2 DEF LedgerMarks
  <1>8. \A i : MarksOfReceipt(i)' = ByReceipt(lessonDeltas', i)
    BY DEF MarksOfReceipt, ByReceipt, Credits
  <1>9. ASSUME NEW i \in ResolvedReceipts PROVE MarksOfReceipt(i)' = MarksOfReceipt(i)
    <2>1. i \notin pending
      BY DEF ResolvedReceipts
    <2>2. ByReceipt(lessonDeltas', i) = ByReceipt(lessonDeltas, i)
      BY <1>3, <1>4, <1>5, <2>1 DEF ByReceipt
    <2> QED  BY <1>8, <2>2, MarksOfReceiptAre
  <1>10. ASSUME NEW i \in pending, CreditOf(i, outcome) = 0 PROVE MarksOfReceipt(i)' = {}
    <2>1. \A m \in DOMAIN ms : ms[m].receipt # i
      BY <1>10 DEF IsMarking
    <2>2. ByReceipt(lessonDeltas', i) = {}
      BY <1>3, <1>5, <2>1 DEF ByReceipt
    <2> QED  BY <1>8, <2>2
  <1>11. ASSUME NEW m \in DOMAIN ms PROVE MarksOfReceipt(ms[m].receipt)' = {n + m}
    <2>1. PICK i : i = ms[m].receipt
      OBVIOUS
    <2>2. ByReceipt(lessonDeltas', i) = {n + m}
      BY <1>1, <1>3, <1>4, <1>5, <1>6, <2>1 DEF ByReceipt
    <2>3. MarksOfReceipt(ms[m].receipt)' = ByReceipt(lessonDeltas', ms'[m'].receipt)
      BY DEF MarksOfReceipt, ByReceipt, Credits
    <2> QED  BY <2>1, <2>2, <2>3
  <1> QED  BY <1>7, <1>9, <1>10, <1>11 DEF n, MarksApplied

\* What was counted now is a contrast with what had come out before.
LEMMA NewContrast ==
  ASSUME LedgerInv, replay.at = "inject",
         NEW pending, pending \subseteq DOMAIN receipts, \A i \in pending : ~Resolved(receipts[i]),
         NEW outcome \in {"passed", "failed"},
         NEW ms, IsMarking(ms, pending, outcome), Applied(ms, pending, outcome),
         NEW i \in pending, Propensity(receipts[i]) \in 1 .. One - 1
  PROVE  CreditIsContrast(i)'
  <1>1. RowsApplied(ms, pending, outcome)
    BY AppliedRows
  <1>2. /\ DOMAIN receipts' = DOMAIN receipts /\ decisionLog' = decisionLog
        /\ \A j \in DOMAIN receipts \ pending : receipts'[j] = receipts[j]
        /\ \A j \in DOMAIN receipts : /\ receipts'[j].arm = receipts[j].arm
                                      /\ receipts'[j].decision = receipts[j].decision
                                      /\ j \in pending => /\ receipts'[j].outcome = outcome
                                                          /\ receipts'[j].resolvedIn = replays
        /\ \A m \in DOMAIN ms : lessonDeltas'[Len(lessonDeltas) + m] = ms[m]
    BY <1>1 DEF RowsApplied, Applied
  <1>3. LedgerTypes /\ i \in DOMAIN receipts /\ replays \in Nat
    BY DEF LedgerInv, LedgerTypes
  <1>4. /\ \A j \in pending : CreditOf(j, outcome) = 0 => MarksOfReceipt(j)' = {}
        /\ \A m \in DOMAIN ms : MarksOfReceipt(ms[m].receipt)' = {Len(lessonDeltas) + m}
    <2>1. MarksApplied(ms, pending, outcome)
      BY AppliedMarks
    <2> QED  BY <2>1 DEF MarksApplied
  <1> DEFINE past == ResolvedDecisions(decisionLog[receipts[i].decision].class, outcome)
             often == ChosenOf(receipts[i].arm, past)
  <1>5. PastOf(i)' = past
    <2>1. ASSUME NEW j \in DOMAIN receipts
          PROVE  (receipts'[j].outcome = outcome /\ receipts'[j].resolvedIn < replays)
                   <=> receipts[j].outcome = outcome
      <3>1. CASE j \in pending
        BY <1>2, <1>3, <3>1 DEF Resolved
      <3>2. CASE j \notin pending
        <4>1. receipts[j].outcome = outcome => j \in ResolvedReceipts
          BY DEF ResolvedReceipts, Resolved
        <4>2. receipts[j].outcome = outcome => receipts[j].resolvedIn < replays
          BY <4>1 DEF LedgerInv, ResolvedEarlier
        <4> QED  BY <1>2, <3>2, <4>2
      <3> QED  BY <3>1, <3>2
    <2>2. PICK was, now : was = receipts /\ now = receipts'
      OBVIOUS
    <2>3. PastOf(i)' = {d \in DOMAIN decisionLog :
                          /\ decisionLog[d].class = decisionLog[now[i].decision].class
                          /\ \E j \in DOMAIN now : /\ now[j].decision = d /\ now[j].outcome = now[i].outcome
                                                   /\ now[j].resolvedIn < now[i].resolvedIn}
      BY <1>2, <2>2 DEF PastOf
    <2>4. now[i].decision = was[i].decision /\ now[i].outcome = outcome /\ now[i].resolvedIn = replays
          /\ DOMAIN now = DOMAIN was
      BY <1>2, <1>3, <2>2
    <2>5. \A j \in DOMAIN was : /\ now[j].decision = was[j].decision
                                /\ (now[j].outcome = outcome /\ now[j].resolvedIn < replays) <=> was[j].outcome = outcome
      BY <1>2, <2>1, <2>2
    <2>6. past = {d \in DOMAIN decisionLog :
                    /\ decisionLog[d].class = decisionLog[was[i].decision].class
                    /\ \E j \in DOMAIN was : was[j].decision = d /\ was[j].outcome = outcome}
      BY <2>2 DEF ResolvedDecisions
    <2>7. ASSUME NEW d
          PROVE  (\E j \in DOMAIN now : /\ now[j].decision = d /\ now[j].outcome = now[i].outcome
                                        /\ now[j].resolvedIn < now[i].resolvedIn)
                   <=> \E j \in DOMAIN was : was[j].decision = d /\ was[j].outcome = outcome
      BY <2>4, <2>5
    <2> HIDE DEF past
    <2> QED  BY <2>3, <2>4, <2>6, <2>7
  <1>6. PICK credit : credit = CreditOf(i, outcome)
    OBVIOUS
  <1>7. PICK found, expected : found = (Cardinality(often) + 1) * One
                               /\ expected = (Cardinality(past) + 2) * Propensity(receipts[i])
    OBVIOUS
  <1>8. /\ credit \in Int
        /\ Cardinality(past) < MinStratumDecisions \/ found > expected => credit > 0
        /\ ~(Cardinality(past) < MinStratumDecisions) /\ found = expected => credit = 0
        /\ ~(Cardinality(past) < MinStratumDecisions) /\ ~(found > expected) /\ found # expected => credit < 0
    BY <1>3, <1>6, <1>7, WeighingIs DEF CreditOf
  <1>9. credit # 0 => \E m \in DOMAIN ms : ms[m].receipt = i
    BY <1>6 DEF IsMarking
  <1>10. ASSUME NEW m \in DOMAIN ms, ms[m].receipt = i
         PROVE  /\ MarksOfReceipt(i)' = {Len(lessonDeltas) + m}
                /\ lessonDeltas'[Len(lessonDeltas) + m] = ms[m]
                /\ credit > 0 => Signed(ms[m], outcome) > 0
                /\ credit < 0 => Signed(ms[m], outcome) < 0
    BY <1>2, <1>4, <1>6, <1>10 DEF IsMarking, MarksOfReceipt
  <1>11. Propensity(receipts[i])' = Propensity(receipts[i])
    BY <1>2, <1>3 DEF Propensity
  <1>12. {d \in PastOf(i) : receipts[i].arm \in decisionLog[d].selected}' = often
    BY <1>2, <1>3, <1>5 DEF ChosenOf
  <1> DEFINE marks == MarksOfReceipt(i)'
             IsCredited == \E k \in marks : marks = {k} /\ Signed(lessonDeltas'[k], outcome) > 0
             IsBlamed == \E k \in marks : marks = {k} /\ Signed(lessonDeltas'[k], outcome) < 0
  <1>13. credit > 0 => IsCredited
    <2> SUFFICES ASSUME credit > 0 PROVE IsCredited
      OBVIOUS
    <2>1. PICK m \in DOMAIN ms : ms[m].receipt = i
      BY <1>8, <1>9
    <2> QED  BY <1>10, <2>1
  <1>14. credit < 0 => IsBlamed
    <2> SUFFICES ASSUME credit < 0 PROVE IsBlamed
      OBVIOUS
    <2>1. PICK m \in DOMAIN ms : ms[m].receipt = i
      BY <1>8, <1>9
    <2> QED  BY <1>10, <2>1
  <1>15. credit = 0 => marks = {}
    BY <1>4, <1>6
  <1>16. CreditIsContrast(i)' =
           IF Cardinality(past) < MinStratumDecisions \/ found > expected
           THEN IsCredited ELSE IF found = expected THEN marks = {} ELSE IsBlamed
    <2>1. receipts'[i].outcome = outcome
      BY <1>2, <1>3
    <2> HIDE DEF past, often
    <2> QED  BY <1>5, <1>7, <1>11, <1>12, <2>1 DEF CreditIsContrast
  <1> HIDE DEF past, often, marks, IsCredited, IsBlamed
  <1> QED  BY <1>8, <1>13, <1>14, <1>15, <1>16

LEMMA LedgerApply ==
  ASSUME LedgerInv, ApplyOutcome
  PROVE  LedgerInv'
  <1>1. PICK pending, outcome, ms :
          /\ pending = PendingReceipts(replay.trace.run) /\ outcome = replay.trace.outcome
          /\ IsMarking(ms, pending, outcome) /\ Applied(ms, pending, outcome)
    BY ApplyIs
  <1>2. outcome \in {"passed", "failed"} /\ replay.at = "inject"
    BY <1>1, ApplyIs
  <1>3. pending \subseteq DOMAIN receipts /\ \A i \in pending : ~Resolved(receipts[i])
    BY <1>1 DEF PendingReceipts, Resolved
  <1>4. RowsApplied(ms, pending, outcome)
    BY <1>1, <1>2, <1>3, AppliedRows
  <1>5. /\ LedgerMarks'
        /\ \A i \in ResolvedReceipts : MarksOfReceipt(i)' = MarksOfReceipt(i)
    <2>1. MarksApplied(ms, pending, outcome)
      BY <1>1, <1>2, <1>3, AppliedMarks
    <2> QED  BY <2>1 DEF MarksApplied
  <1>6. /\ LogGoesOn
        /\ DOMAIN library' = DOMAIN library /\ library' \in [DOMAIN library' -> LibraryRow]
        /\ AgreesWith(library, lessonDeltas)'
        /\ DOMAIN receipts' = DOMAIN receipts /\ receipts' \in Seq(Range(receipts'))
        /\ \A i \in DOMAIN receipts \ pending : receipts'[i] = receipts[i]
        /\ \A i \in DOMAIN receipts :
             /\ IsReceipt(receipts'[i]) /\ receipts'[i].arm = receipts[i].arm
             /\ receipts'[i].decision = receipts[i].decision
             /\ i \in pending => receipts'[i].outcome = outcome /\ receipts'[i].resolvedIn = replays
    BY <1>4 DEF RowsApplied
  <1>7. replay' = NoReplay /\ decisionLog' = decisionLog /\ replays' = replays /\ replays \in Nat
    BY <1>1 DEF Applied, LedgerInv, LedgerTypes
  <1>8. LedgerTypes'
    <2>1. DOMAIN library' \subseteq Arms
      BY <1>6 DEF LedgerInv, LedgerTypes
    <2>2. \A d \in DOMAIN decisionLog : decisionLog[d].upto \in 0 .. Len(lessonDeltas')
      <3>1. Len(lessonDeltas) \in Nat /\ Len(lessonDeltas') \in Nat /\ Len(lessonDeltas) <= Len(lessonDeltas')
        BY <1>6, LenProperties DEF LogGoesOn
      <3> QED  BY <3>1 DEF LedgerInv, LedgerTypes
    <2>3. \A i \in DOMAIN receipts' : IsReceipt(receipts'[i]) /\ receipts'[i].decision \in 0 .. Len(decisionLog)
      BY <1>6 DEF LedgerInv, LedgerTypes
    <2>4. lessonDeltas' \in Seq(DeltaRow)
      BY <1>6 DEF LogGoesOn
    <2> QED  BY <1>6, <1>7, <2>1, <2>2, <2>3, <2>4 DEF LedgerInv, LedgerTypes
  <1>9. ReceiptsOfLibrary'
    BY <1>6 DEF LedgerInv, ReceiptsOfLibrary
  <1>10. ReplayInv'
    BY <1>7 DEF ReplayInv, NoReplay
  <1>11. \A i \in ResolvedReceipts' : (i \in ResolvedReceipts /\ receipts'[i] = receipts[i]) \/ i \in pending
    BY <1>6 DEF ResolvedReceipts
  <1>12. ResolvedEarlier'
    <2> SUFFICES ASSUME NEW i \in ResolvedReceipts' PROVE receipts'[i].resolvedIn \in 0 .. replays
      BY <1>7 DEF ResolvedEarlier, NoReplay
    <2>1. CASE i \in pending
      BY <1>3, <1>6, <1>7, <2>1
    <2>2. CASE i \notin pending
      BY <1>11, <2>2 DEF LedgerInv, ResolvedEarlier
    <2> QED  BY <2>1, <2>2
  <1>13. CreditsAreContrasts'
    <2> SUFFICES ASSUME NEW i \in ResolvedReceipts', Propensity(receipts[i])' \in 1 .. One - 1
                 PROVE  CreditIsContrast(i)'
      BY DEF CreditsAreContrasts
    <2>1. i \in DOMAIN receipts
      BY <1>6 DEF ResolvedReceipts
    <2>2. Propensity(receipts[i])' = Propensity(receipts[i])
      BY <1>6, <1>7, <2>1 DEF Propensity
    <2>3. CASE i \in pending
      BY <1>1, <1>2, <1>3, <2>2, <2>3, NewContrast
    <2>4. CASE i \notin pending
      <3>1. i \in ResolvedReceipts /\ receipts'[i] = receipts[i]
        BY <1>11, <2>4
      <3>2. receipts[i].decision # 0
        <4>1. Propensity(receipts[i]) # 0
          BY <2>2, CreditAssumption
        <4> QED  BY <4>1 DEF Propensity
      <3>3. LedgerTypes /\ 0 \notin DOMAIN decisionLog'
        BY <1>7, ResolvedIsFinite DEF LedgerInv
      <3>4. \A j \in DOMAIN receipts : receipts'[j] # receipts[j] =>
              ~Resolved(receipts[j]) /\ ~(receipts'[j].resolvedIn < receipts[i].resolvedIn)
        <4> SUFFICES ASSUME NEW j \in DOMAIN receipts, receipts'[j] # receipts[j]
                     PROVE  ~Resolved(receipts[j]) /\ ~(receipts'[j].resolvedIn < receipts[i].resolvedIn)
          OBVIOUS
        <4>1. j \in pending /\ receipts'[j].resolvedIn = replays
          BY <1>6
        <4>2. receipts[i].resolvedIn \in 0 .. replays
          BY <3>1 DEF LedgerInv, ResolvedEarlier
        <4> QED  BY <1>3, <1>7, <4>1, <4>2
      <3>5. MarksOfReceipt(i)' = MarksOfReceipt(i)
        BY <1>5, <3>1
      <3>6. \A k \in MarksOfReceipt(i) : lessonDeltas'[k] = lessonDeltas[k]
        BY <1>6 DEF LogGoesOn, MarksOfReceipt
      <3>7. CreditIsContrast(i) => CreditIsContrast(i)'
        BY <1>6, <1>7, <3>1, <3>2, <3>3, <3>4, <3>5, <3>6, ContrastStays
      <3> QED  BY <2>2, <3>1, <3>7 DEF LedgerInv, CreditsAreContrasts
    <2> QED  BY <2>3, <2>4
  <1>14. DecisionsStand'
    <2> SUFFICES ASSUME NEW d \in DOMAIN decisionLog PROVE Reproducible(decisionLog[d])'
      BY <1>7 DEF DecisionsStand
    <2>1. PICK decision : decision = decisionLog[d]
      OBVIOUS
    <2>2. Reproducible(decision) /\ decision.upto \in 0 .. Len(lessonDeltas)
      BY <2>1 DEF LedgerInv, DecisionsStand, LedgerTypes
    <2>3. Reproducible(decision)'
      BY <1>6, <2>2, ReproducibleStays
    <2> QED  BY <1>7, <2>1, <2>3 DEF Reproducible
  <1> QED  BY <1>5, <1>6, <1>8, <1>9, <1>10, <1>12, <1>13, <1>14 DEF LedgerInv

LEMMA LedgerNext == LedgerInv /\ [CreditNext]_creditVars => LedgerInv'
  <1> SUFFICES ASSUME LedgerInv, [CreditNext]_creditVars PROVE LedgerInv'
    OBVIOUS
  <1>1. CASE UNCHANGED creditVars
    <2>1. RowsStay /\ replays' = replays /\ replay' = replay /\ replays' \in Nat
      BY <1>1 DEF creditVars, creditRows, RowsStay, LedgerInv, LedgerTypes
    <2>2. ReplayInv'
      <3>1. SelectionStands' = SelectionStands
        BY <2>1 DEF SelectionStands, CandidatesOf, RowsStay
      <3> QED  BY <2>1, <3>1 DEF LedgerInv, ReplayInv, RowsStay
    <2>3. ResolvedEarlier'
      BY <2>1, RowsStayKeeps DEF LedgerInv, ResolvedEarlier, RowsStay
    <2> QED  BY <2>1, <2>2, <2>3, RowsStayKeeps DEF LedgerInv
  <1>2. ASSUME NEW trace \in Traces, StartReplay(trace) PROVE LedgerInv'
    BY <1>2, LedgerStart
  <1>3. ASSUME NEW arm \in Arms, Inject(arm) PROVE LedgerInv'
    BY <1>3, LedgerInject
  <1> QED  BY <1>1, <1>2, <1>3, LedgerCreate, LedgerSelect, LedgerDecide, LedgerApply, LedgerCut DEF CreditNext

\* The invariant holds of the whole store: steps of the standing of lessons touch
\* nothing of the credit ledger.
THEOREM LedgerHolds == StoresSpec => []LedgerInv
  <1>1. StoresInit => LedgerInv
    BY LedgerInit DEF StoresInit
  <1>2. LedgerInv /\ [StoresNext]_storesVars => LedgerInv'
    <2>1. [StoresNext]_storesVars => [CreditNext]_creditVars
      BY DEF StoresNext, StandingStep, CreditStep, storesVars
    <2> QED  BY <2>1, LedgerNext
  <1> QED  BY <1>1, <1>2, PTL DEF StoresSpec

\* Whatever is proposed, decided, injected, credited, replayed again or cut off: the
\* report on the recorded credits accounts for every movement of a counter, a credit
\* says how often the decisions that had come out before chose the lesson, and the log
\* of deltas gives back the posteriors of every decision (applyValidationOutcome and
\* recordDecision of lesson-store.ts, computeCreditFidelity of credit/fidelity.ts).
THEOREM CreditIsReadBackHolds == StoresSpec => []CreditIsReadBack
  <1>1. LedgerInv => CreditIsReadBack
    BY MovementHolds DEF LedgerInv, DecisionsStand, CreditIsReadBack
  <1> QED  BY <1>1, LedgerHolds, PTL

\* The rows of both halves are what lesson-store.ts writes: no receipt twice, no
\* checkpoint beyond the log, and only lessons that can be selected are chosen.
THEOREM StoresTypeOKHolds == StoresSpec => []StoresTypeOK
  <1>1. StandingInv => TypeOK
    <2> SUFFICES ASSUME StandingInv PROVE TypeOK
      OBVIOUS
    <2>1. /\ lessons \in [Lessons -> Row \cup {None}] /\ log \in Seq(Delta) /\ applications \in Seq(Receipt)
          /\ watermark \in 0 .. Len(log) /\ (snapshot # None => snapshot.upto \in 0 .. Len(log))
          /\ at \in Phases /\ chosen \subseteq Selectable /\ todo \in Seq(Lessons)
      BY DEF StandingInv, StandingTypes
    <2>2. Len(log) \in Nat /\ DOMAIN applications = 1 .. Len(applications) /\ Len(applications) \in Nat
      BY <2>1, LenProperties
    <2>3. ASSUME NEW i \in DOMAIN applications, NEW j \in DOMAIN applications, i < j
          PROVE  <<applications[i].lesson, applications[i].injection>>
                   # <<applications[j].lesson, applications[j].injection>>
      <3>1. i \in 1 .. Len(applications) /\ j \in 1 .. Len(applications) /\ i # j
        BY <2>2, <2>3
      <3> QED  BY <3>1 DEF StandingInv, ReceiptsInv
    <2>4. Range(todo) \subseteq Lessons
      BY <2>1 DEF Range
    <2> QED  BY <2>1, <2>2, <2>3, <2>4 DEF TypeOK, Phases
  <1>2. LedgerInv => CreditTypeOK
    <2> SUFFICES ASSUME LedgerInv PROVE CreditTypeOK
      OBVIOUS
    <2>1. Len(lessonDeltas) \in Nat
      BY LenProperties DEF LedgerInv, LedgerTypes
    <2> QED  BY <2>1 DEF LedgerInv, LedgerTypes, CreditTypeOK
  <1> QED  BY <1>1, <1>2, StandingHolds, LedgerHolds, PTL DEF StoresTypeOK

-----------------------------------------------------------------------------
(* What can be selected.                                                   *)

\* A step that makes no lesson selectable, and moves none to another group.
Narrows == \A l \in Lessons : l \in Selectable' => l \in Selectable /\ lessons'[l].group = lessons[l].group

LEMMA NarrowsAlternatives ==
  ASSUME Narrows, NEW g
  PROVE  Cardinality(Alternatives(g)') <= Cardinality(Alternatives(g))
  <1>1. Alternatives(g)' \subseteq Alternatives(g)
    BY DEF Narrows, Alternatives, Selectable
  <1>2. IsFiniteSet(Alternatives(g))
    <2>1. Alternatives(g) \in SUBSET Lessons
      BY DEF Alternatives, Selectable
    <2> QED  BY <2>1, LessonAssumption, FS_Subset
  <1> QED  BY <1>1, <1>2, FS_Subset

\* Steps that leave the rows alone.
LEMMA SameRowsNarrow ==
  ASSUME lessons' = lessons
  PROVE  Narrows
  BY DEF Narrows, Selectable, Exists

LEMMA StatusStepNarrows ==
  ASSUME StandingTypes, NEW l \in Lessons, Exists(l), NEW v,
         lessons' = [lessons EXCEPT ![l].status = v],
         v \in {"candidate", "active"} => lessons[l].status \in {"candidate", "active"}
  PROVE  Narrows
  <1>1. lessons \in [Lessons -> Row \cup {None}] /\ lessons[l] \in Row
    BY DEF StandingTypes, Exists
  <1>2. /\ lessons'[l].status = v /\ lessons'[l].group = lessons[l].group
        /\ \A x \in Lessons \ {l} : lessons'[x] = lessons[x]
    BY <1>1 DEF Row
  <1> SUFFICES ASSUME NEW x \in Lessons, x \in Selectable'
               PROVE  x \in Selectable /\ lessons'[x].group = lessons[x].group
    BY DEF Narrows
  <1>3. lessons'[x].status \in {"candidate", "active"} /\ lessons'[x] # None
    BY DEF Selectable, Exists
  <1>4. CASE x = l
    BY <1>2, <1>3, <1>4 DEF Selectable
  <1>5. CASE x # l
    BY <1>2, <1>3, <1>5 DEF Selectable, Exists
  <1> QED  BY <1>4, <1>5

LEMMA HeadIs ==
  ASSUME StandingInv, at \in {"rules", "quarantine"}
  PROVE  Head(todo) \in Lessons /\ Exists(Head(todo))
  <1>1. todo \in Seq(Lessons) /\ todo # <<>>
    BY DEF StandingInv, StandingTypes, TodoInv
  <1>2. 1 \in 1 .. Len(todo) /\ Head(todo) = todo[1]
    BY <1>1, EmptySeq, LenProperties
  <1> QED  BY <1>1, <1>2, ElementOfSeq DEF StandingInv, StandingTypes

LEMMA StepNarrows ==
  ASSUME StandingInv, [Next]_vars
  PROVE  Narrows \/ \E g \in Groups : CreateLesson(g)
  <1>1. ASSUME NEW g \in Groups, EditLesson(g) PROVE Narrows
    BY <1>1, SameRowsNarrow DEF EditLesson
  <1>2. ASSUME NEW l \in Lessons, GrowOld(l) PROVE Narrows
    BY <1>2, SameRowsNarrow DEF GrowOld, store
  <1>3. ASSUME NEW l \in Lessons, RecordApplication(l) PROVE Narrows
    <2>1. CASE AlreadyApplied(l)
      BY <1>3, <2>1, SameRowsNarrow DEF RecordApplication
    <2>2. CASE ~AlreadyApplied(l)
      <3>1. lessons' = [lessons EXCEPT ![l].uses = @ + 1]
        BY <1>3, <2>2 DEF RecordApplication
      <3>2. lessons \in [Lessons -> Row \cup {None}] /\ lessons[l] \in Row /\ Exists(l)
        BY <1>3 DEF RecordApplication, StandingInv, StandingTypes, Selectable, Exists
      <3>3. /\ lessons'[l].status = lessons[l].status /\ lessons'[l].group = lessons[l].group
            /\ \A x \in Lessons \ {l} : lessons'[x] = lessons[x]
        BY <3>1, <3>2 DEF Row
      <3> SUFFICES ASSUME NEW x \in Lessons, x \in Selectable'
                   PROVE  x \in Selectable /\ lessons'[x].group = lessons[x].group
        BY DEF Narrows
      <3>4. lessons'[x].status \in {"candidate", "active"} /\ lessons'[x] # None
        BY DEF Selectable, Exists
      <3>5. CASE x = l
        BY <3>2, <3>3, <3>4, <3>5 DEF Selectable
      <3>6. CASE x # l
        BY <3>3, <3>4, <3>6 DEF Selectable, Exists
      <3> QED  BY <3>5, <3>6
    <2> QED  BY <2>1, <2>2
  <1>4. ASSUME NEW r \in Runs, NEW t \in Triggers, Decide(r, t) PROVE Narrows
    BY <1>4, SameRowsNarrow DEF Decide
  <1>5. ASSUME NEW r \in Runs, NEW outcome \in {"passed", "failed"}, MarkRun(r, outcome) PROVE Narrows
    <2>1. PICK ms, p : MarksFrom(ms, p, r) /\ RowsMarked(ms)
      BY <1>5, MarkRunEffect DEF StandingInv
    <2>2. \A l \in Lessons :
            /\ Exists(l)' <=> Exists(l)
            /\ Exists(l) => lessons'[l].status = lessons[l].status /\ lessons'[l].group = lessons[l].group
      BY <2>1, RowMarkedIs DEF StandingInv, MarksFrom
    <2> QED  BY <2>2 DEF Narrows, Selectable
  <1>6. CASE ApplyStatusRules
    <2> DEFINE l == Head(todo)
    <2>1. l \in Lessons /\ Exists(l)
      BY <1>6, HeadIs DEF ApplyStatusRules
    <2>2. CASE Quarantines(lessons[l])
      BY <1>6, <2>2, SameRowsNarrow DEF ApplyStatusRules
    <2>3. CASE ~Quarantines(lessons[l])
      <3> DEFINE v == IF Promotes(lessons[l]) THEN "active" ELSE lessons[l].status
      <3>1. lessons' = [lessons EXCEPT ![l].status = IF Promotes(lessons[l]) THEN "active" ELSE @]
        BY <1>6, <2>3 DEF ApplyStatusRules
      <3>2. lessons' = [lessons EXCEPT ![l].status = v]
        BY <2>1, <3>1 DEF StandingInv, StandingTypes
      <3>3. v \in {"candidate", "active"} => lessons[l].status \in {"candidate", "active"}
        BY DEF Promotes
      <3> HIDE DEF v, l
      <3> QED  BY <2>1, <3>2, <3>3, StatusStepNarrows DEF StandingInv
    <2> QED  BY <2>2, <2>3
  <1>7. CASE SetQuarantined
    <2> DEFINE l == Head(todo)
    <2>1. l \in Lessons /\ Exists(l) /\ lessons' = [lessons EXCEPT ![l].status = "quarantined"]
      BY <1>7, HeadIs DEF SetQuarantined
    <2> HIDE DEF l
    <2> QED  BY <2>1, StatusStepNarrows DEF StandingInv
  <1>8. CASE Curate
    <2>1. RowsCurated
      BY <1>8, CurateEffect DEF StandingInv
    <2> SUFFICES ASSUME NEW x \in Lessons, x \in Selectable'
                 PROVE  x \in Selectable /\ lessons'[x].group = lessons[x].group
      BY DEF Narrows
    <2>2. /\ Exists(x) /\ lessons'[x].group = lessons[x].group
          /\ lessons'[x].status = IF Prunable(x) THEN "retired" ELSE Merged(x).status
      BY <2>1, RowCuratedIs DEF StandingInv, Selectable
    <2>3. lessons'[x].status \in {"candidate", "active"}
      BY DEF Selectable
    <2>4. x \notin Selectable => Merged(x) = lessons[x]
      BY <2>2, MergedIs DEF StandingInv
    <2> QED  BY <2>2, <2>3, <2>4 DEF Selectable
  <1>9. CASE SkipCuration
    BY <1>9, SameRowsNarrow DEF SkipCuration, store
  <1>10. CASE Crash
    BY <1>10, SameRowsNarrow DEF Crash, store
  <1>11. CASE UNCHANGED vars
    BY <1>11, SameRowsNarrow DEF vars, store
  <1> QED  BY <1>1, <1>2, <1>3, <1>4, <1>5, <1>6, <1>7, <1>8, <1>9, <1>10, <1>11 DEF Next

\* A new lesson is the only one of its group that can be selected.
LEMMA CreateIsAlone ==
  ASSUME StandingTypes, NEW h \in Groups, CreateLesson(h), NEW g \in Groups
  PROVE  Cardinality(Alternatives(g)') <= 1 \/ Cardinality(Alternatives(g)') <= Cardinality(Alternatives(g))
  <1> DEFINE created == [status |-> "candidate", group |-> h, helpful |-> 0, harmful |-> 0, uses |-> 0]
  <1>1. PICK l \in Lessons : ~Exists(l) /\ lessons' = [lessons EXCEPT ![l] = created]
    BY DEF CreateLesson
  <1>2. lessons'[l].group = h /\ \A x \in Lessons \ {l} : lessons'[x] = lessons[x]
    BY <1>1 DEF StandingTypes
  <1> HIDE DEF created
  <1>3. CASE g = h
    <2>1. Alternatives(h) = {}
      BY DEF CreateLesson, Existing, Alternatives
    <2>2. Alternatives(h)' \subseteq {l}
      BY <1>2, <2>1 DEF Alternatives, Selectable, Exists
    <2>3. IsFiniteSet({l}) /\ Cardinality({l}) = 1
      BY FS_Singleton
    <2> QED  BY <1>3, <2>2, <2>3, FS_Subset
  <1>4. CASE g # h
    <2>1. Alternatives(g)' \subseteq Alternatives(g)
      BY <1>2, <1>4 DEF Alternatives, Selectable, Exists
    <2>2. IsFiniteSet(Alternatives(g))
      <3>1. Alternatives(g) \in SUBSET Lessons
        BY DEF Alternatives, Selectable
      <3> QED  BY <3>1, LessonAssumption, FS_Subset
    <2> QED  BY <2>1, <2>2, FS_Subset
  <1> QED  BY <1>3, <1>4

\* No step of the store gives a group a second lesson that can be selected
\* (lesson-store.ts, createLesson against v_lesson_library).
THEOREM OneLessonPerGroupHolds == StoresSpec => OneLessonPerGroup
  <1>1. StandingInv /\ [StoresNext]_storesVars =>
          [\A g \in Groups : \/ Cardinality(Alternatives(g)') <= 1
                             \/ Cardinality(Alternatives(g)') <= Cardinality(Alternatives(g))]_vars
    <2> SUFFICES ASSUME StandingInv, [StoresNext]_storesVars, NEW g \in Groups
                 PROVE  \/ Cardinality(Alternatives(g)') <= 1
                        \/ Cardinality(Alternatives(g)') <= Cardinality(Alternatives(g))
      OBVIOUS
    <2>1. [Next]_vars
      BY DEF StoresNext, StandingStep, CreditStep, storesVars
    <2>2. CASE Narrows
      BY <2>2, NarrowsAlternatives
    <2>3. ASSUME NEW h \in Groups, CreateLesson(h)
          PROVE  \/ Cardinality(Alternatives(g)') <= 1
                 \/ Cardinality(Alternatives(g)') <= Cardinality(Alternatives(g))
      BY <2>3, CreateIsAlone DEF StandingInv
    <2> QED  BY <2>1, <2>2, <2>3, StepNarrows
  <1> QED  BY <1>1, StandingHolds, PTL DEF StoresSpec, OneLessonPerGroup
=============================================================================
