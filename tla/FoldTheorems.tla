---------------------------- MODULE FoldTheorems ----------------------------
(***************************************************************************)
(* What a loop over a list does, for lists of every length: the library's  *)
(* FoldLeft(Op, base, s) goes through one state after each element of s.   *)
(* Op is a constant of the module, for the provers cannot instantiate an   *)
(* operator that is a theorem's parameter: a module with a loop INSTANCEs  *)
(* this one WITH Op <- the body of the loop.                               *)
(***************************************************************************)
EXTENDS Integers, SequencesExt, FiniteSetTheorems, SequenceTheorems, TLAPS

CONSTANT Op(_, _)

\* The body of the loop leads from a state of S, by an element of E, to a state of S.
Closed(S, E) == \A x \in S, y \in E : Op(x, y) \in S

\* The states h of the loop: the base, and one after each element of s.
Steps(h, S, base, s) ==
  /\ h \in [0..Len(s) -> S]
  /\ h[0] = base
  /\ \A k \in 1..Len(s) : h[k] = Op(h[k - 1], s[k])

Folded(base, s) == FoldLeft(Op, base, s)

-----------------------------------------------------------------------------
(* Natural numbers                                                         *)

\* A set of natural numbers has a least element.
LEMMA Least ==
  ASSUME NEW T \in SUBSET Nat, T # {}
  PROVE  \E x \in T : \A y \in T : x <= y
<1>1. PICK F : F = {0..n : n \in T}
  OBVIOUS
<1>2. F \subseteq FiniteSubsetsOf(Nat) /\ F # {}
  <2>1. \A n \in Nat : 0..n \in FiniteSubsetsOf(Nat)
    BY FS_Interval DEF FiniteSubsetsOf
  <2> QED BY <1>1, <2>1
<1>3. PICK X \in F : \A Y \in F : ~(<<Y, X>> \in StrictSubsetOrdering(Nat))
  BY <1>2, FS_StrictSubsetOrderingWellFounded, WFMin
<1>4. PICK x \in T : X = 0..x
  BY <1>1
<1>5. ASSUME NEW y \in T, y < x PROVE FALSE
  <2>1. 0..y \in F
    BY <1>1
  <2>2. 0..y \subseteq X /\ 0..y # X /\ 0..y \in SUBSET Nat /\ X \in SUBSET Nat
    BY <1>4, <1>5
  <2>3. <<0..y, X>> \in StrictSubsetOrdering(Nat)
    BY <2>2 DEF StrictSubsetOrdering
  <2> QED BY <1>3, <2>1, <2>3
<1> QED BY <1>5

\* Induction, stated of a set of numbers: it holds them all if it holds 0 and, with a
\* number, the next one.
LEMMA SetInduction ==
  ASSUME NEW S, 0 \in S, \A n \in Nat : n \in S => n + 1 \in S
  PROVE  Nat \subseteq S
<1>1. SUFFICES ASSUME NEW n \in Nat, n \notin S PROVE FALSE
  OBVIOUS
<1>2. PICK m \in Nat \ S : \A k \in Nat \ S : m <= k
  BY <1>1, Least
<1>3. m # 0 /\ m - 1 \in Nat /\ m - 1 \in S
  BY <1>2
<1> QED BY <1>2, <1>3

\* The least of a set of natural numbers is one of them.
LEMMA MinIn ==
  ASSUME NEW T \in SUBSET Nat, T # {}
  PROVE  Min(T) \in T /\ \A y \in T : Min(T) <= y
<1>1. PICK x \in T : \A y \in T : x <= y
  BY Least
<1> QED BY <1>1 DEF Min

\* The last of the first k positions is their greatest.
LEMMA MaxLast ==
  ASSUME NEW k \in Nat, NEW t \in SUBSET (1..k), k \in t
  PROVE  Max(t) = k
<1>1. \A x \in t : x \in Int /\ k >= x
  OBVIOUS
<1>2. \A x \in t : (\A y \in t : x >= y) => x = k
  BY <1>1
<1> QED BY <1>1, <1>2 DEF Max

\* The greatest of some of the first n positions is one of them.
LEMMA MaxIn ==
  ASSUME NEW n \in Nat, NEW t \in SUBSET (1..n), t # {}
  PROVE  Max(t) \in t
<1>1. PICK T : T = {n - x : x \in t}
  OBVIOUS
<1>2. T \in SUBSET Nat /\ T # {}
  <2>1. \A x \in t : x \in Int /\ x <= n
    OBVIOUS
  <2>2. T # {}
    BY <1>1
  <2> QED BY <1>1, <2>1, <2>2
<1>3. PICK d \in T : \A e \in T : d <= e
  BY <1>2, Least
<1>4. PICK m \in t : d = n - m
  BY <1>1, <1>3
<1>5. \A x \in t : n - m <= n - x
  BY <1>1, <1>3, <1>4
<1>6. \A x \in t : m >= x
  BY <1>5
<1> QED BY <1>6 DEF Max

-----------------------------------------------------------------------------
(* The library's fold                                                      *)

\* FoldLeft is defined over the positions still to come: g gives the result for every
\* set t of the first k positions, F being Op as a function.
FoldsTo(g, k, base, F, s) ==
  \A t \in SUBSET (1..k) : g[t] = IF t = {} THEN base ELSE F[<<g[t \ {Max(t)}], s[Max(t)]>>]
FoldIn(k, S, base, F, s) == \E g : g \in [SUBSET (1..k) -> S] /\ FoldsTo(g, k, base, F, s)

\* There is such a g for one position more.
LEMMA FoldStep ==
  ASSUME NEW S, NEW E, NEW k \in Nat, NEW s, s[k+1] \in E, NEW base \in S, NEW F \in [S \X E -> S],
         FoldIn(k, S, base, F, s)
  PROVE  FoldIn(k + 1, S, base, F, s)
<1>2. PICK g : g \in [SUBSET (1..k) -> S] /\ FoldsTo(g, k, base, F, s)
  BY DEF FoldIn
<1>3. PICK h : h = [t \in SUBSET (1..(k+1)) |-> IF k+1 \in t THEN F[<<g[t \ {k+1}], s[k+1]>>] ELSE g[t]]
  OBVIOUS
<1>4. ASSUME NEW t \in SUBSET (1..(k+1)) PROVE t \ {k+1} \in SUBSET (1..k) /\ (k+1 \notin t => t \in SUBSET (1..k))
  OBVIOUS
<1>5. h \in [SUBSET (1..(k+1)) -> S]
  <2>2. ASSUME NEW t \in SUBSET (1..(k+1)) PROVE (IF k+1 \in t THEN F[<<g[t \ {k+1}], s[k+1]>>] ELSE g[t]) \in S
    BY <1>2, <1>4
  <2> QED BY <1>3, <2>2
<1>6. ASSUME NEW t \in SUBSET (1..(k+1))
      PROVE  h[t] = IF t = {} THEN base ELSE F[<<h[t \ {Max(t)}], s[Max(t)]>>]
  <2>1. CASE k+1 \in t
    <3>1. Max(t) = k+1
      BY <2>1, MaxLast
    <3>2. h[t \ {k+1}] = g[t \ {k+1}]
      BY <1>3, <1>4
    <3> QED BY <1>3, <2>1, <3>1, <3>2
  <2>2. CASE k+1 \notin t
    <3>1. h[t] = g[t] /\ t \in SUBSET (1..k)
      BY <1>3, <1>4, <2>2
    <3>2. h[t \ {Max(t)}] = g[t \ {Max(t)}]
      BY <1>3, <1>4, <3>1, <2>2
    <3> QED BY <3>1, <3>2, <1>2 DEF FoldsTo
  <2> QED BY <2>1, <2>2
<1>7. FoldsTo(h, k+1, base, F, s)
  BY <1>6 DEF FoldsTo
<1> QED BY <1>5, <1>7 DEF FoldIn

\* So there is one for every length.
LEMMA FoldExists ==
  ASSUME NEW S, NEW E, NEW n \in Nat, NEW s \in [1..n -> E], NEW base \in S, NEW F \in [S \X E -> S]
  PROVE  FoldIn(n, S, base, F, s)
<1> DEFINE Good == {k \in Nat : k <= n => FoldIn(k, S, base, F, s)}
<1>1. 0 \in Good
  <2>1. 1..0 = {}
    OBVIOUS
  <2>2. PICK g : g = [t \in SUBSET (1..0) |-> base]
    OBVIOUS
  <2>3. FoldsTo(g, 0, base, F, s)
    BY <2>1, <2>2 DEF FoldsTo
  <2>4. g \in [SUBSET (1..0) -> S]
    BY <2>2
  <2> QED BY <2>3, <2>4 DEF FoldIn
<1>2. ASSUME NEW k \in Nat, k \in Good PROVE k + 1 \in Good
  <2>1. SUFFICES ASSUME k + 1 <= n PROVE FoldIn(k+1, S, base, F, s)
    OBVIOUS
  <2>2. FoldIn(k, S, base, F, s) /\ s[k+1] \in E
    BY <1>2, <2>1
  <2> QED BY <2>2, FoldStep
<1>3. n \in Good
  <2> HIDE DEF Good
  <2> QED BY <1>1, <1>2, SetInduction
<1> QED BY <1>3

-----------------------------------------------------------------------------
(* What a loop does                                                        *)

\* A loop whose body is closed goes through one state after each element, and FoldLeft
\* is the last of them.
THEOREM FoldSteps ==
  ASSUME NEW S, NEW E, Closed(S, E),
         NEW base \in S, NEW s \in Seq(E)
  PROVE \E h : Steps(h, S, base, s) /\ Folded(base, s) = h[Len(s)]
<1> DEFINE n == Len(s)
           F == [p \in S \X E |-> Op(p[1], p[2])]
           Is(g) == g = [t \in SUBSET DOMAIN s |-> IF t = {} THEN base ELSE Op(g[t \ {Max(t)}], s[Max(t)])]
           iter == CHOOSE g : Is(g)
<1>0. Len(s) \in Nat /\ s \in [1..Len(s) -> E] /\ DOMAIN s = 1..Len(s)
  BY LenProperties
<1>1. F \in [S \X E -> S]
  BY DEF Closed
<1>2. FoldIn(Len(s), S, base, F, s)
  <2> HIDE DEF F
  <2> QED BY <1>0, <1>1, FoldExists
<1>3. PICK g : g \in [SUBSET (1..Len(s)) -> S] /\ FoldsTo(g, Len(s), base, F, s)
  BY <1>2 DEF FoldIn
<1>4. Is(g)
  <2>1. ASSUME NEW t \in SUBSET (1..Len(s))
        PROVE g[t] = IF t = {} THEN base ELSE Op(g[t \ {Max(t)}], s[Max(t)])
    <3>1. CASE t = {}
      BY <3>1, <1>3 DEF FoldsTo
    <3>2. CASE t # {}
      <4>1. Max(t) \in t
         BY <3>2, <1>0, MaxIn
      <4>2. t \ {Max(t)} \in SUBSET (1..Len(s))
         OBVIOUS
      <4>3. <<g[t \ {Max(t)}], s[Max(t)]>> \in S \X E
         BY <4>1, <4>2, <1>3, <1>0
      <4>4. g[t] = F[<<g[t \ {Max(t)}], s[Max(t)]>>]
         BY <3>2, <1>3 DEF FoldsTo
      <4> QED BY <4>3, <4>4, <3>2
    <3> QED BY <3>1, <3>2
  <2> QED BY <1>0, <1>3, <2>1
<1>5. Is(iter)
  BY <1>4
<1>6. Folded(base, s) = iter[DOMAIN s]
  BY DEF Folded, FoldLeft, MapThenFoldSet
<1> HIDE DEF iter
<1>7. \A t \in SUBSET (1..Len(s)) : iter[t] = IF t = {} THEN base ELSE Op(iter[t \ {Max(t)}], s[Max(t)])
  BY <1>0, <1>5
<1> DEFINE h == [k \in 0..Len(s) |-> iter[1..k]]
<1>8. h[0] = base
  <2>1. 1..0 = {} /\ {} \in SUBSET (1..Len(s)) /\ 0 \in 0..Len(s)
    BY <1>0
  <2> QED BY <2>1, <1>7
<1>9. ASSUME NEW k \in 1..Len(s) PROVE h[k] = Op(h[k-1], s[k])
  <2>0. k \in Nat /\ 1 <= k /\ k <= Len(s)
    BY <1>0
  <2>1. k \in Nat /\ k \in 1..k /\ (1..k) \in SUBSET (1..Len(s)) /\ (1..k) \ {k} = 1..(k-1) /\ 1..k # {}
    <3>1. \A i : i \in (1..k) \ {k} <=> i \in 1..(k-1)
      BY <2>0
    <3>2. (1..k) \ {k} = 1..(k-1)
      BY <3>1
    <3>3. 1..k \in SUBSET (1..Len(s))
      BY <2>0, <1>0
    <3>4. k \in 1..k
      BY <2>0
    <3> QED BY <2>0, <3>2, <3>3, <3>4
  <2>2. Max(1..k) = k
    BY <2>1, MaxLast
  <2>3. iter[1..k] = Op(iter[1..(k-1)], s[k])
    BY <2>1, <2>2, <1>7
  <2>4. k \in 0..Len(s) /\ k-1 \in 0..Len(s)
    BY <1>0
  <2> QED BY <2>3, <2>4
<1>10. h \in [0..Len(s) -> S]
  <2> DEFINE Good == {k \in Nat : k <= Len(s) => h[k] \in S}
  <2> HIDE DEF h
  <2>1. 0 \in Good
    BY <1>8
  <2>2. ASSUME NEW k \in Nat, k \in Good PROVE k + 1 \in Good
    <3>1. SUFFICES ASSUME k + 1 <= Len(s) PROVE h[k+1] \in S
      OBVIOUS
    <3>2. k + 1 \in 1..Len(s) /\ s[k+1] \in E /\ h[k] \in S
      BY <2>2, <3>1, <1>0
    <3>3. h[k+1] = Op(h[k], s[k+1])
      BY <3>2, <1>9, <1>0
    <3> QED BY <3>2, <3>3 DEF Closed
  <2>3. Nat \subseteq Good
    <3> HIDE DEF Good
    <3> QED BY <2>1, <2>2, SetInduction
  <2>4. \A k \in 0..Len(s) : h[k] \in S
    BY <2>3, <1>0
  <2> QED BY <2>4 DEF h
<1>11. h[Len(s)] = iter[DOMAIN s]
  BY <1>0
<1> HIDE DEF h
<1> QED BY <1>6, <1>8, <1>9, <1>10, <1>11 DEF Steps

\* What the body of a loop preserves holds of its result.
THEOREM FoldType ==
  ASSUME NEW S, NEW E, Closed(S, E), NEW base \in S, NEW s \in Seq(E)
  PROVE  Folded(base, s) \in S
<1>1. PICK h : Steps(h, S, base, s) /\ Folded(base, s) = h[Len(s)]
  BY FoldSteps
<1>2. Len(s) \in 0..Len(s)
  BY LenProperties
<1> QED BY <1>1, <1>2 DEF Steps

\* What one element of the list brings about and every later one preserves holds of the
\* result: T is what holds from element i on.
THEOREM FoldReaches ==
  ASSUME NEW S, NEW E, Closed(S, E), NEW base \in S, NEW s \in Seq(E),
         NEW T, Closed(T, E), NEW i \in 1..Len(s), \A x \in S : Op(x, s[i]) \in T
  PROVE  Folded(base, s) \in T
<1>1. PICK h : Steps(h, S, base, s) /\ Folded(base, s) = h[Len(s)]
  BY FoldSteps
<1>2. Len(s) \in Nat /\ i \in Nat /\ 1 <= i /\ i <= Len(s) /\ \A k \in 1..Len(s) : s[k] \in E
  BY LenProperties
<1> DEFINE Good == {k \in Nat : i <= k /\ k <= Len(s) => h[k] \in T}
<1>3. 0 \in Good
  BY <1>2
<1>4. ASSUME NEW k \in Nat, k \in Good PROVE k + 1 \in Good
  <2>1. SUFFICES ASSUME i <= k + 1, k + 1 <= Len(s) PROVE h[k + 1] \in T
    OBVIOUS
  <2>2. /\ k + 1 \in 1..Len(s) /\ k \in 0..Len(s) /\ k + 1 - 1 = k
        /\ s[k + 1] \in E /\ h[k + 1] = Op(h[k], s[k + 1]) /\ h[k] \in S
    BY <1>1, <1>2, <2>1 DEF Steps
  <2>3. CASE i = k + 1
    BY <2>2, <2>3
  <2>4. CASE i # k + 1
    <3>1. h[k] \in T
      BY <1>2, <1>4, <2>1, <2>4
    <3> QED BY <2>2, <3>1 DEF Closed
  <2> QED BY <2>3, <2>4
<1>5. Len(s) \in Good
  <2> HIDE DEF Good
  <2> QED BY <1>2, <1>3, <1>4, SetInduction
<1> QED BY <1>1, <1>2, <1>5
=============================================================================
