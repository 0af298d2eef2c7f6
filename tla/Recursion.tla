------------------------------ MODULE Recursion ------------------------------
(***************************************************************************)
(* Induction and recursion over the naturals as facts about sets and       *)
(* functions, and the folds and sums of the community modules.  The        *)
(* library's induction theorems take an operator as their parameter; these *)
(* follow from WFMin, which takes a set.                                   *)
(***************************************************************************)
EXTENDS Integers, Functions, FiniteSetsExt, WellFoundedInduction, FiniteSetTheorems, TLAPS

(* A smaller number and a greater one.                                     *)
Descents == {pair \in Nat \X Nat : pair[1] < pair[2]}

(* A set of naturals has a least element.                                  *)
LEMMA Least ==
    ASSUME NEW T \in SUBSET Nat, T # {}
    PROVE  \E x \in T : \A y \in T : x <= y
  <1>1. IsWellFoundedOn(Descents, Nat)
    BY NatLessThanWellFounded DEF OpToRel, Descents
  <1>2. PICK x \in T : \A y \in T : <<y, x>> \notin Descents
    BY <1>1, WFMin
  <1>3. ASSUME NEW y \in T PROVE x <= y
    <2>1. ~(y < x)
      BY <1>2 DEF Descents
    <2> QED
      BY <2>1
  <1> QED
    BY <1>3

(* A set of naturals with an upper bound has a greatest one.               *)
LEMMA Greatest ==
    ASSUME NEW T \in SUBSET Nat, T # {}, NEW top \in Nat, \A x \in T : x <= top
    PROVE  \E x \in T : \A y \in T : y <= x
  <1> DEFINE U == {top - x : x \in T}
  <1>1. U \in SUBSET Nat
    OBVIOUS
  <1>2. U # {}
    OBVIOUS
  <1> HIDE DEF U
  <1>3. PICK u \in U : \A v \in U : u <= v
    BY <1>1, <1>2, Least
  <1>4. PICK x \in T : u = top - x
    BY DEF U
  <1>5. ASSUME NEW y \in T PROVE y <= x
    <2>1. top - y \in U
      BY DEF U
    <2>2. top - x <= top - y /\ x \in Nat /\ y \in Nat
      BY <1>3, <1>4, <2>1
    <2> QED
      BY <2>2
  <1> QED
    BY <1>5

(* A set that contains 0 and the successors of its elements has them all.  *)
LEMMA Inductive ==
    ASSUME NEW T, 0 \in T, \A n \in Nat : n \in T => n + 1 \in T
    PROVE  \A n \in Nat : n \in T
  <1> DEFINE Out == Nat \ T
  <1>1. SUFFICES ASSUME Out # {} PROVE FALSE
    OBVIOUS
  <1>2. PICK n \in Out : \A y \in Out : n <= y
    <2>1. Out \in SUBSET Nat
      OBVIOUS
    <2> HIDE DEF Out
    <2> QED
      BY <1>1, <2>1, Least
  <1>3. n - 1 \in Nat /\ n - 1 \in T
    BY <1>2
  <1> QED
    BY <1>3

(* f takes n steps from c.                                                 *)
Follows(f, c, step, n) ==
    \A k \in 0 .. n : f[k] = IF k = 0 THEN c ELSE step[f[k - 1]]

(* The function that takes n steps from c exists.                          *)
LEMMA StepByStep ==
    ASSUME NEW S, NEW c \in S, NEW step \in [S -> S], NEW n \in Nat
    PROVE  \E f \in [0 .. n -> S] : Follows(f, c, step, n)
  <1> DEFINE T == {m \in Nat : \E f \in [0 .. m -> S] : Follows(f, c, step, m)}
  <1>1. 0 \in T
    <2>1. [k \in 0 .. 0 |-> c] \in [0 .. 0 -> S]
      OBVIOUS
    <2>2. Follows([k \in 0 .. 0 |-> c], c, step, 0)
      BY DEF Follows
    <2> QED
      BY <2>1, <2>2
  <1>2. ASSUME NEW m \in Nat, m \in T PROVE m + 1 \in T
    <2>1. PICK f \in [0 .. m -> S] : Follows(f, c, step, m)
      BY <1>2
    <2> DEFINE g == [k \in 0 .. m + 1 |-> IF k = m + 1 THEN step[f[m]] ELSE f[k]]
    <2>2. g \in [0 .. m + 1 -> S]
      OBVIOUS
    <2>3. ASSUME NEW k \in 0 .. m + 1 PROVE g[k] = IF k = 0 THEN c ELSE step[g[k - 1]]
      <3>1. CASE k = m + 1
        BY <3>1
      <3>2. CASE k # m + 1
        <4>1. f[k] = IF k = 0 THEN c ELSE step[f[k - 1]]
          BY <2>1, <3>2 DEF Follows
        <4> QED
          BY <3>2, <4>1
      <3> QED
        BY <3>1, <3>2
    <2>4. Follows(g, c, step, m + 1)
      BY <2>3 DEF Follows
    <2>5. \E h \in [0 .. m + 1 -> S] : Follows(h, c, step, m + 1)
      BY <2>2, <2>4
    <2> QED
      BY <2>5
  <1>3. n \in T
    <2> HIDE DEF T
    <2> QED
      BY <1>1, <1>2, Inductive
  <1> QED
    BY <1>3

(* So does the function whose k-th step is one of its own.                 *)
LEMMA StepsByIndex ==
    ASSUME NEW S, NEW c \in S, NEW n \in Nat, NEW step \in [1 .. n -> [S -> S]]
    PROVE  \E f \in [0 .. n -> S] : f[0] = c /\ \A k \in 1 .. n : f[k] = step[k][f[k - 1]]
  <1> DEFINE T == {m \in Nat : m <= n => \E f \in [0 .. m -> S] :
                      f[0] = c /\ \A k \in 1 .. m : f[k] = step[k][f[k - 1]]}
  <1>1. 0 \in T
    <2> DEFINE g == [k \in 0 .. 0 |-> c]
    <2>1. g \in [0 .. 0 -> S] /\ g[0] = c /\ 1 .. 0 = {}
      OBVIOUS
    <2> HIDE DEF g
    <2> QED
      BY <2>1
  <1>2. ASSUME NEW m \in Nat, m \in T PROVE m + 1 \in T
    <2> SUFFICES ASSUME m + 1 <= n
                 PROVE  \E f \in [0 .. m + 1 -> S] :
                            f[0] = c /\ \A k \in 1 .. m + 1 : f[k] = step[k][f[k - 1]]
      OBVIOUS
    <2>1. PICK f \in [0 .. m -> S] : f[0] = c /\ \A k \in 1 .. m : f[k] = step[k][f[k - 1]]
      BY <1>2
    <2> DEFINE g == [k \in 0 .. m + 1 |-> IF k = m + 1 THEN step[m + 1][f[m]] ELSE f[k]]
    <2>2. step[m + 1] \in [S -> S] /\ f[m] \in S
      OBVIOUS
    <2>3. g \in [0 .. m + 1 -> S] /\ g[0] = c
      BY <2>1, <2>2
    <2>4. ASSUME NEW k \in 1 .. m + 1 PROVE g[k] = step[k][g[k - 1]]
      BY <2>1, <2>4
    <2> HIDE DEF g
    <2> QED
      BY <2>3, <2>4
  <1>3. n \in T
    <2> HIDE DEF T
    <2> QED
      BY <1>1, <1>2, Inductive
  <1> QED
    BY <1>3

-----------------------------------------------------------------------------
(* Folds                                                                   *)

(* What FoldLeft is defined by: it takes the sets of indices apart from    *)
(* their greatest element on.                                              *)
FoldsLeft(iter, c, step, n) ==
    \A s \in SUBSET (1 .. n) :
        iter[s] = IF s = {} THEN c ELSE step[Max(s)][iter[s \ {Max(s)}]]

(* A set of some of the first numbers has a greatest element.              *)
LEMMA MaxIs ==
    ASSUME NEW n \in Nat, NEW s \in SUBSET (1 .. n), s # {}
    PROVE  Max(s) \in s /\ \A x \in s : x <= Max(s)
  <1>1. s \in SUBSET Nat /\ \A x \in s : x <= n
    OBVIOUS
  <1>2. \E x \in s : \A y \in s : x >= y
    BY <1>1, Greatest
  <1> QED
    BY <1>2 DEF Max

LEMMA MaxOfFirst ==
    ASSUME NEW n \in Nat \ {0}
    PROVE  Max(1 .. n) = n /\ (1 .. n) \ {n} = 1 .. n - 1
  <1>1. 1 .. n # {} /\ n \in 1 .. n /\ 1 .. n \in SUBSET (1 .. n) /\ n \in Nat
    OBVIOUS
  <1>2. Max(1 .. n) \in 1 .. n /\ n <= Max(1 .. n)
    BY <1>1, MaxIs
  <1> QED
    BY <1>2

HasFold(S, c, step, n) == \E iter \in [SUBSET (1 .. n) -> S] : FoldsLeft(iter, c, step, n)

(* That function exists.                                                   *)
LEMMA FoldsExist ==
    ASSUME NEW S, NEW c \in S, NEW n \in Nat, NEW step \in [1 .. n -> [S -> S]]
    PROVE  HasFold(S, c, step, n)
  <1> DEFINE T == {m \in Nat : m <= n => HasFold(S, c, step, m)}
  <1>1. 0 \in T
    <2>1. [s \in SUBSET (1 .. 0) |-> c] \in [SUBSET (1 .. 0) -> S]
      OBVIOUS
    <2>2. FoldsLeft([s \in SUBSET (1 .. 0) |-> c], c, step, 0)
      BY DEF FoldsLeft
    <2> QED
      BY <2>1, <2>2 DEF HasFold
  <1>2. ASSUME NEW m \in Nat, m \in T PROVE m + 1 \in T
    <2> SUFFICES ASSUME m + 1 <= n
                 PROVE  HasFold(S, c, step, m + 1)
      OBVIOUS
    <2>0. HasFold(S, c, step, m) /\ m + 1 \in Nat
      BY <1>2
    <2>1. PICK i \in [SUBSET (1 .. m) -> S] : FoldsLeft(i, c, step, m)
      BY <2>0 DEF HasFold
    <2> DEFINE j == [s \in SUBSET (1 .. m + 1) |->
                        IF m + 1 \in s THEN step[m + 1][i[s \ {m + 1}]] ELSE i[s]]
    <2>2. \A s \in SUBSET (1 .. m + 1) :
              s \ {m + 1} \in SUBSET (1 .. m) /\ (m + 1 \notin s => s \in SUBSET (1 .. m))
      OBVIOUS
    <2>3. step[m + 1] \in [S -> S]
      OBVIOUS
    <2>4. j \in [SUBSET (1 .. m + 1) -> S]
      BY <2>2, <2>3
    <2>5. ASSUME NEW s \in SUBSET (1 .. m + 1)
          PROVE  j[s] = IF s = {} THEN c ELSE step[Max(s)][j[s \ {Max(s)}]]
      <3>1. CASE m + 1 \in s
        <4>1. s # {} /\ Max(s) = m + 1
          <5> HIDE DEF T, j
          <5>1. Max(s) \in s /\ \A x \in s : x <= Max(s)
            BY <2>0, <3>1, MaxIs
          <5>2. Max(s) \in 1 .. m + 1
            BY <5>1
          <5> QED
            BY <3>1, <5>1, <5>2
        <4>2. j[s] = step[m + 1][i[s \ {m + 1}]] /\ j[s \ {m + 1}] = i[s \ {m + 1}]
          BY <2>2, <3>1
        <4> QED
          BY <4>1, <4>2
      <3>2. CASE m + 1 \notin s
        <4>1. s \in SUBSET (1 .. m) /\ j[s] = i[s]
          BY <2>2, <3>2
        <4>2. s # {} => Max(s) \in s /\ j[s \ {Max(s)}] = i[s \ {Max(s)}]
          <5>1. s # {} => Max(s) \in s
            <6> HIDE DEF T, j
            <6> QED
              BY <2>0, MaxIs
          <5> QED
            BY <2>2, <3>2, <5>1
        <4> QED
          BY <2>1, <4>1, <4>2 DEF FoldsLeft
      <3> QED
        BY <3>1, <3>2
    <2>6. FoldsLeft(j, c, step, m + 1)
      BY <2>5 DEF FoldsLeft
    <2> HIDE DEF j
    <2> QED
      BY <2>4, <2>6 DEF HasFold
  <1>3. n \in T
    <2> HIDE DEF T
    <2> QED
      BY <1>1, <1>2, Inductive
  <1> QED
    BY <1>3

(* It takes the steps one after the other.                                 *)
LEMMA FoldsByStep ==
    ASSUME NEW n \in Nat, NEW iter, NEW c, NEW step, FoldsLeft(iter, c, step, n)
    PROVE  iter[1 .. 0] = c /\ \A k \in 1 .. n : iter[1 .. k] = step[k][iter[1 .. k - 1]]
  <1>1. 1 .. 0 = {} /\ \A k \in 0 .. n : 1 .. k \in SUBSET (1 .. n)
    OBVIOUS
  <1>2. iter[1 .. 0] = c
    BY <1>1 DEF FoldsLeft
  <1>3. ASSUME NEW k \in 1 .. n PROVE iter[1 .. k] = step[k][iter[1 .. k - 1]]
    <2>1. 1 .. k # {} /\ 1 .. k \in SUBSET (1 .. n) /\ Max(1 .. k) = k /\ (1 .. k) \ {k} = 1 .. k - 1
      BY <1>1, MaxOfFirst
    <2>2. iter[1 .. k] = IF 1 .. k = {} THEN c
                         ELSE step[Max(1 .. k)][iter[(1 .. k) \ {Max(1 .. k)}]]
      BY <2>1 DEF FoldsLeft
    <2> QED
      BY <2>1, <2>2
  <1> QED
    BY <1>2, <1>3

-----------------------------------------------------------------------------
(* Sums                                                                    *)

(* g has the sum of f over each subset of S.                               *)
Sums(g, f, S) ==
    /\ g \in [SUBSET S -> Nat]
    /\ g[{}] = 0
    /\ \A T \in SUBSET S : \A x \in T : g[T] = f[x] + g[T \ {x}]

(* With one element more there is such a function too.                     *)
LEMMA SumsGrow ==
    ASSUME NEW S, NEW x \in S, NEW f, \A y \in S : f[y] \in Nat, NEW g, Sums(g, f, S \ {x})
    PROVE  \E h : Sums(h, f, S)
  <1> DEFINE R == S \ {x}
             h == [T \in SUBSET S |-> IF x \in T THEN f[x] + g[T \ {x}] ELSE g[T]]
  <1>1. /\ g \in [SUBSET R -> Nat] /\ g[{}] = 0
        /\ \A T \in SUBSET R : \A y \in T : g[T] = f[y] + g[T \ {y}]
    BY DEF Sums
  <1>2. \A T \in SUBSET S : T \ {x} \in SUBSET R /\ (x \notin T => T \in SUBSET R)
    OBVIOUS
  <1>3. \A T \in SUBSET S : h[T] = IF x \in T THEN f[x] + g[T \ {x}] ELSE g[T]
    OBVIOUS
  <1>4. h \in [SUBSET S -> Nat]
    BY <1>1, <1>2
  <1> HIDE DEF h
  <1>5. h[{}] = 0
    BY <1>1, <1>3
  <1>6. ASSUME NEW T \in SUBSET S, NEW y \in T PROVE h[T] = f[y] + h[T \ {y}]
    <2>0. f[x] \in Nat /\ f[y] \in Nat
      OBVIOUS
    <2>1. CASE x \notin T
      <3>1. h[T] = g[T] /\ h[T \ {y}] = g[T \ {y}]
        BY <1>3, <2>1
      <3> QED
        BY <1>1, <1>2, <2>1, <3>1
    <2>2. CASE y = x
      BY <1>3, <2>2
    <2>3. CASE x \in T /\ y # x
      <3>1. h[T] = f[x] + g[T \ {x}] /\ h[T \ {y}] = f[x] + g[(T \ {y}) \ {x}]
        BY <1>3, <2>3
      <3>2. T \ {x} \in SUBSET R /\ y \in T \ {x} /\ (T \ {x}) \ {y} = (T \ {y}) \ {x}
        BY <2>3
      <3>3. g[T \ {x}] = f[y] + g[(T \ {y}) \ {x}]
        BY <1>1, <3>2
      <3>4. g[T \ {x}] \in Nat /\ g[(T \ {y}) \ {x}] \in Nat
        BY <1>1, <3>2
      <3> QED
        BY <2>0, <3>1, <3>3, <3>4
    <2> QED
      BY <2>1, <2>2, <2>3
  <1>7. \A T \in SUBSET S : \A y \in T : h[T] = f[y] + h[T \ {y}]
    BY <1>6
  <1>8. Sums(h, f, S)
    BY ONLY <1>4, <1>5, <1>7 DEF Sums
  <1> QED
    BY <1>8

(* A set without one of its elements has one element less.                 *)
LEMMA OneLess ==
    ASSUME NEW R, IsFiniteSet(R), NEW x \in R, NEW n \in Nat, Cardinality(R) = n + 1
    PROVE  Cardinality(R \ {x}) = n
  <1>1. Cardinality(R \ {x}) = Cardinality(R) - 1
    BY FS_RemoveElement
  <1> QED
    BY <1>1

(* Every finite set has such a function: by induction on its size.         *)
LEMMA SumsExist ==
    ASSUME NEW S, IsFiniteSet(S), NEW f, \A x \in S : f[x] \in Nat
    PROVE  \E g : Sums(g, f, S)
  <1> DEFINE Summed == {n \in Nat : \A R \in SUBSET S :
                           Cardinality(R) = n => \E g : Sums(g, f, R)}
  <1>1. 0 \in Summed
    <2>1. ASSUME NEW R \in SUBSET S, Cardinality(R) = 0 PROVE \E g : Sums(g, f, R)
      <3>1. R = {}
        BY <2>1, FS_EmptySet, FS_Subset
      <3>2. Sums([T \in SUBSET R |-> 0], f, R)
        BY <3>1 DEF Sums
      <3> QED
        BY <3>2
    <2> QED
      BY <2>1
  <1>2. ASSUME NEW n \in Nat, n \in Summed PROVE n + 1 \in Summed
    <2>1. ASSUME NEW R \in SUBSET S, Cardinality(R) = n + 1 PROVE \E g : Sums(g, f, R)
      <3>1. IsFiniteSet(R) /\ R # {}
        BY <2>1, FS_EmptySet, FS_Subset
      <3>2. PICK x \in R : TRUE
        BY <3>1
      <3>3. Cardinality(R \ {x}) = n
        BY <2>1, <3>1, <3>2, OneLess
      <3>4. PICK g : Sums(g, f, R \ {x})
        <4>1. R \ {x} \in SUBSET S
          OBVIOUS
        <4> QED
          BY <1>2, <3>3, <4>1
      <3> QED
        BY <3>2, <3>4, SumsGrow
    <2> QED
      BY <2>1
  <1> HIDE DEF Summed
  <1>3. Cardinality(S) \in Summed
    <2>1. \A n \in Nat : n \in Summed
      BY <1>1, <1>2, Inductive
    <2> QED
      BY <2>1, FS_CardinalityType
  <1> QED
    BY <1>3 DEF Summed

(* SumFunction adds its argument up, in whatever order it picks.           *)
LEMMA SumIs ==
    ASSUME NEW S, IsFiniteSet(S), NEW f, DOMAIN f = S, NEW g, Sums(g, f, S)
    PROVE  SumFunction(f) = g[S]
  <1> DEFINE pick(s) == CHOOSE x \in s : TRUE
             iter[s \in SUBSET S] == IF s = {} THEN 0
                                     ELSE f[pick(s)] + iter[s \ {pick(s)}]
  <1>1. SumFunction(f) = iter[S]
    BY DEF SumFunction, SumFunctionOnSet, FoldFunctionOnSet, MapThenFoldSet
  <1>2. ASSUME NEW s \in SUBSET S, s # {} PROVE pick(s) \in s
    BY <1>2
  <1> HIDE DEF pick
  <1>3. \A s \in SUBSET S : g[s] = IF s = {} THEN 0 ELSE f[pick(s)] + g[s \ {pick(s)}]
    BY <1>2 DEF Sums
  <1>4. g = [s \in SUBSET S |-> IF s = {} THEN 0 ELSE f[pick(s)] + g[s \ {pick(s)}]]
    BY <1>3 DEF Sums
  <1>5. iter = [s \in SUBSET S |-> IF s = {} THEN 0 ELSE f[pick(s)] + iter[s \ {pick(s)}]]
    BY <1>4
  <1>6. \A s \in SUBSET S :
            iter[s] = IF s = {} THEN 0 ELSE f[pick(s)] + iter[s \ {pick(s)}]
    <2> HIDE DEF iter
    <2> QED
      BY <1>5
  <1> HIDE DEF iter
  <1> DEFINE Same == {n \in Nat : \A R \in SUBSET S : Cardinality(R) = n => iter[R] = g[R]}
  <1>7. 0 \in Same
    <2>1. ASSUME NEW R \in SUBSET S, Cardinality(R) = 0 PROVE iter[R] = g[R]
      <3>1. R = {}
        BY <2>1, FS_EmptySet, FS_Subset
      <3> QED
        BY <1>3, <1>6, <3>1
    <2> QED
      BY <2>1
  <1>8. ASSUME NEW n \in Nat, n \in Same PROVE n + 1 \in Same
    <2>1. ASSUME NEW R \in SUBSET S, Cardinality(R) = n + 1 PROVE iter[R] = g[R]
      <3>1. IsFiniteSet(R) /\ R # {}
        BY <2>1, FS_EmptySet, FS_Subset
      <3>2. pick(R) \in R
        BY <1>2, <3>1
      <3>3. Cardinality(R \ {pick(R)}) = n
        BY <2>1, <3>1, <3>2, OneLess
      <3>4. iter[R \ {pick(R)}] = g[R \ {pick(R)}]
        <4>1. R \ {pick(R)} \in SUBSET S
          OBVIOUS
        <4> QED
          BY <1>8, <3>3, <4>1
      <3> QED
        BY <1>3, <1>6, <3>1, <3>4
    <2> QED
      BY <2>1
  <1> HIDE DEF Same
  <1>9. Cardinality(S) \in Same
    <2>1. \A n \in Nat : n \in Same
      BY <1>7, <1>8, Inductive
    <2> QED
      BY <2>1, FS_CardinalityType
  <1> QED
    BY <1>1, <1>9 DEF Same

(* f is e and a value at x besides.                                        *)
Prolongs(f, e, S, x) ==
    /\ x \notin S /\ DOMAIN f = S \union {x} /\ DOMAIN e = S
    /\ f[x] \in Nat /\ \A y \in S : f[y] \in Nat /\ e[y] = f[y]

(* The sum of no numbers, and of one more.                                 *)
LEMMA SumNone == ASSUME NEW f, DOMAIN f = {} PROVE SumFunction(f) = 0
  <1>1. Sums([T \in SUBSET {} |-> 0], f, {})
    BY DEF Sums
  <1> QED
    BY <1>1, SumIs, FS_EmptySet

(* The sum of the values on S and of one more at x.                        *)
LEMMA SumMore ==
    ASSUME NEW S, IsFiniteSet(S), NEW x, NEW f, NEW e, Prolongs(f, e, S, x)
    PROVE  /\ SumFunction(e) \in Nat
           /\ SumFunction(f) = f[x] + SumFunction(e)
  <1> DEFINE U == S \union {x}
  <1>0. /\ x \notin S /\ DOMAIN f = U /\ DOMAIN e = S
        /\ \A y \in U : f[y] \in Nat
        /\ \A y \in S : e[y] = f[y]
    BY DEF Prolongs
  <1>1. IsFiniteSet(U)
    BY FS_AddElement
  <1>2. PICK g : Sums(g, f, U)
    BY <1>0, <1>1, SumsExist
  <1>3. SumFunction(f) = g[U]
    BY <1>0, <1>1, <1>2, SumIs
  <1> DEFINE h == [T \in SUBSET S |-> g[T]]
  <1>4. Sums(h, e, S)
    <2>1. h \in [SUBSET S -> Nat] /\ h[{}] = 0
      BY <1>2 DEF Sums
    <2>2. ASSUME NEW T \in SUBSET S, NEW y \in T PROVE h[T] = e[y] + h[T \ {y}]
      <3>1. g[T] = f[y] + g[T \ {y}]
        BY <1>2, <2>2 DEF Sums
      <3>2. h[T] = g[T] /\ h[T \ {y}] = g[T \ {y}] /\ e[y] = f[y]
        BY <1>0
      <3> QED
        BY <3>1, <3>2
    <2> QED
      BY <2>1, <2>2 DEF Sums
  <1>5. SumFunction(e) = g[S] /\ g[S] \in Nat
    <2>1. SumFunction(e) = h[S]
      BY <1>0, <1>4, SumIs
    <2>2. g[S] \in Nat
      BY <1>2 DEF Sums
    <2> QED
      BY <2>1, <2>2
  <1>6. g[U] = f[x] + g[S]
    <2>1. U \ {x} = S /\ x \in U
      BY <1>0
    <2>2. g[U] = f[x] + g[U \ {x}]
      BY <1>2, <2>1 DEF Sums
    <2> QED
      BY <2>1, <2>2
  <1> QED
    BY <1>3, <1>5, <1>6

(* s names the elements of S by those of A, and f by way of it is e.       *)
Renames(A, S, s, f, e) ==
    /\ IsFiniteSet(S) /\ s \in [A -> S]
    /\ \A a, c \in A : s[a] = s[c] => a = c
    /\ \A y \in S : \E a \in A : s[a] = y
    /\ DOMAIN f = S /\ \A y \in S : f[y] \in Nat
    /\ DOMAIN e = A /\ \A a \in A : e[a] = f[s[a]]

(* The sum does not depend on the names of what is added.                  *)
LEMMA SumRenamed ==
    ASSUME NEW A, NEW S, NEW s, NEW f, NEW e, Renames(A, S, s, f, e)
    PROVE  IsFiniteSet(A) /\ SumFunction(e) = SumFunction(f)
  <1> /\ IsFiniteSet(S) /\ s \in [A -> S]
      /\ \A a, c \in A : s[a] = s[c] => a = c
      /\ \A y \in S : \E a \in A : s[a] = y
      /\ DOMAIN f = S /\ \A y \in S : f[y] \in Nat
      /\ DOMAIN e = A /\ \A a \in A : e[a] = f[s[a]]
    BY DEF Renames
  <1> DEFINE Image(T) == {s[a] : a \in T}
             h == [T \in SUBSET A |-> 0]
  <1>1. IsFiniteSet(A)
    <2>1. s \in Injection(A, S)
      BY DEF Injection, IsInjective
    <2> QED
      BY <2>1, FS_Injection
  <1>2. PICK g : Sums(g, f, S)
    BY SumsExist
  <1>3. SumFunction(f) = g[S]
    BY <1>2, SumIs
  <1> DEFINE k == [T \in SUBSET A |-> g[Image(T)]]
  <1>4. Sums(k, e, A)
    <2>1. \A T \in SUBSET A : Image(T) \in SUBSET S
      OBVIOUS
    <2>2. k \in [SUBSET A -> Nat]
      <3> HIDE DEF Image
      <3>1. \A T \in SUBSET A : g[Image(T)] \in Nat
        BY <1>2, <2>1 DEF Sums
      <3> QED
        BY <3>1
    <2>3. k[{}] = 0
      <3>1. Image({}) = {} /\ {} \in SUBSET A
        OBVIOUS
      <3>2. g[{}] = 0
        BY <1>2 DEF Sums
      <3> HIDE DEF Image
      <3> QED
        BY <3>1, <3>2
    <2>4. ASSUME NEW T \in SUBSET A, NEW a \in T PROVE k[T] = e[a] + k[T \ {a}]
      <3>1. Image(T \ {a}) = Image(T) \ {s[a]} /\ s[a] \in Image(T)
        OBVIOUS
      <3>2. k[T] = g[Image(T)] /\ k[T \ {a}] = g[Image(T \ {a})] /\ T \ {a} \in SUBSET A
        OBVIOUS
      <3> HIDE DEF Image, k
      <3>3. g[Image(T)] = f[s[a]] + g[Image(T) \ {s[a]}]
        BY <1>2, <2>1, <3>1 DEF Sums
      <3> QED
        BY <3>1, <3>2, <3>3
    <2> HIDE DEF k
    <2> QED
      BY <2>2, <2>3, <2>4 DEF Sums
  <1>5. k[A] = g[S]
    <2>1. Image(A) = S
      OBVIOUS
    <2>2. k[A] = g[Image(A)]
      OBVIOUS
    <2> HIDE DEF k, Image
    <2> QED
      BY <2>1, <2>2
  <1> HIDE DEF k
  <1> QED
    BY <1>1, <1>3, <1>4, <1>5, SumIs

-----------------------------------------------------------------------------
(* Quotients and rests                                                     *)

(* Numbers less than n apart have different rests.                         *)
LEMMA RestsApart ==
    ASSUME NEW n \in Nat \ {0}, NEW j \in Int, NEW k \in Int, j < k, k < j + n
    PROVE  j % n # k % n
  <1>1. /\ j % n = j - n * (j \div n) /\ j \div n \in Int /\ j % n \in Int
        /\ k % n = k - n * (k \div n) /\ k \div n \in Int /\ k % n \in Int
    <2>1. j % n = j - n * (j \div n) /\ j \div n \in Int /\ j % n \in Int
      OBVIOUS
    <2>2. k % n = k - n * (k \div n) /\ k \div n \in Int /\ k % n \in Int
      OBVIOUS
    <2> QED
      BY <2>1, <2>2
  <1>2. SUFFICES ASSUME j % n = k % n PROVE FALSE
    OBVIOUS
  <1> DEFINE p == j \div n
             q == k \div n
  <1>3. k - j = n * q - n * p
    BY <1>1, <1>2
  <1> HIDE DEF p, q
  <1>4. p \in Int /\ q \in Int
    BY <1>1 DEF p, q
  <1>5. CASE q <= p
    <2>1. n * q <= n * p
      BY <1>4, <1>5
    <2> QED
      BY <1>3, <1>4, <2>1
  <1>6. CASE q >= p + 1
    <2>1. n * q >= n * (p + 1)
      BY <1>4, <1>6
    <2>2. n * (p + 1) = n * p + n
      BY <1>4
    <2> QED
      BY <1>3, <1>4, <2>1, <2>2
  <1> QED
    BY <1>4, <1>5, <1>6

(* Rests of numbers in reach, and of those just below zero.                *)
LEMMA Rests ==
    ASSUME NEW n \in Nat \ {0}, NEW j \in Int
    PROVE  /\ j \in 0 .. n - 1 => j % n = j
           /\ j \in -n .. -1 => j % n = j + n
  <1>1. j % n = j - n * (j \div n) /\ j \div n \in Int /\ j % n \in Int /\ 0 <= j % n /\ j % n < n
    <2>1. j % n = j - n * (j \div n) /\ j \div n \in Int
      OBVIOUS
    <2>2. j % n \in Int /\ 0 <= j % n /\ j % n < n
      OBVIOUS
    <2> QED
      BY <2>1, <2>2
  <1> DEFINE q == j \div n
             r == j % n
  <1>2. /\ q \in Int /\ r \in Int /\ r = j - n * q /\ 0 <= r /\ r < n
    BY <1>1
  <1> HIDE DEF q, r
  <1>3. \A k \in Int : k >= 1 => n * k >= n
    OBVIOUS
  <1>4. CASE q >= 1
    <2>1. n * q >= n
      BY <1>2, <1>3, <1>4
    <2> QED
      BY <1>2, <2>1 DEF r
  <1>5. CASE q = 0
    BY <1>2, <1>5 DEF r
  <1>6. CASE q = -1
    BY <1>2, <1>6 DEF r
  <1>7. CASE q <= -2
    <2>1. n * (-1 - q) >= n
      BY <1>2, <1>3, <1>7
    <2>2. n * (-1 - q) = -n - n * q
      BY <1>2
    <2>3. n * q \in Int
      BY <1>2
    <2> QED
      BY <1>2, <2>1, <2>2, <2>3 DEF r
  <1> QED
    BY <1>2, <1>4, <1>5, <1>6, <1>7

(* Division undoes multiplication.                                         *)
LEMMA Divides ==
    ASSUME NEW n \in Nat \ {0}, NEW k \in Int
    PROVE  (k * n) \div n = k
  <1> DEFINE j == k * n
  <1>1. j \in Int
    OBVIOUS
  <1> HIDE DEF j
  <1>2. j % n = j - n * (j \div n) /\ j \div n \in Int
    BY <1>1
  <1>3. j % n \in Int /\ 0 <= j % n /\ j % n < n
    BY <1>1
  <1> DEFINE q == j \div n
  <1>4. 0 <= j - n * q /\ j - n * q < n /\ q \in Int
    BY <1>2, <1>3
  <1> HIDE DEF q
  <1>5. j - n * q = n * (k - q)
    BY <1>4 DEF j
  <1>6. k - q \in Int /\ 0 <= n * (k - q) /\ n * (k - q) < n
    BY <1>4, <1>5
  <1> DEFINE d == k - q
  <1>7. d \in Int /\ 0 <= n * d /\ n * d < n
    BY <1>6
  <1> HIDE DEF d
  <1>8. CASE d >= 1
    <2>1. n * d >= n
      BY <1>7, <1>8
    <2> QED
      BY <1>7, <2>1
  <1>9. CASE d <= -1
    <2>1. n * d <= n * (-1)
      BY <1>7, <1>9
    <2>2. n * (-1) = -n
      OBVIOUS
    <2> QED
      BY <1>7, <2>1, <2>2
  <1>10. d = 0
    BY <1>7, <1>8, <1>9
  <1> QED
    BY <1>4, <1>10 DEF d, q, j

(* A number is a multiple and a rest.                                      *)
LEMMA DivMod ==
    ASSUME NEW n \in Nat \ {0}, NEW j \in Int
    PROVE  /\ j \div n \in Int /\ j % n \in 0 .. n - 1 /\ j = n * (j \div n) + (j % n)
           /\ j \in Nat => j \div n \in Nat
  <1>1. j % n = j - n * (j \div n) /\ j \div n \in Int
    OBVIOUS
  <1>2. j % n \in Int /\ 0 <= j % n /\ j % n < n
    OBVIOUS
  <1> DEFINE q == j \div n
             r == j % n
  <1>3. r = j - n * q /\ q \in Int /\ r \in Int /\ 0 <= r /\ r < n
    BY <1>1, <1>2
  <1> HIDE DEF q, r
  <1>4. n * q \in Int /\ j = n * q + r
    BY <1>3
  <1>5. j \in Nat => q >= 0
    <2> SUFFICES ASSUME j \in Nat, q <= -1 PROVE FALSE
      BY <1>3
    <2>1. n * q <= n * (-1)
      BY <1>3
    <2>2. n * (-1) = -n
      OBVIOUS
    <2> QED
      BY <1>3, <1>4, <2>1, <2>2
  <1>6. /\ q \in Int /\ r \in 0 .. n - 1 /\ j = n * q + r
        /\ j \in Nat => q \in Nat
    BY <1>3, <1>4, <1>5
  <1> QED
    BY <1>6 DEF q, r

(* There is one way to write it so.                                        *)
LEMMA DivModIs ==
    ASSUME NEW n \in Nat \ {0}, NEW q \in Int, NEW r \in 0 .. n - 1
    PROVE  (n * q + r) \div n = q /\ (n * q + r) % n = r
  <1> DEFINE j == n * q + r
             p == j \div n
             s == j % n
  <1>1. j \in Int
    OBVIOUS
  <1>2. p \in Int /\ s \in 0 .. n - 1 /\ j = n * p + s
    <2> HIDE DEF j
    <2> QED
      BY <1>1, DivMod
  <1> HIDE DEF p, s
  <1>3. n * (q - p) = s - r
    BY <1>2
  <1>4. CASE q - p >= 1
    <2>1. n * (q - p) >= n * 1
      BY <1>2, <1>4
    <2> QED
      BY <1>2, <1>3, <2>1
  <1>5. CASE q - p <= -1
    <2>1. n * (q - p) <= n * (-1)
      BY <1>2, <1>5
    <2>2. n * (-1) = -n
      OBVIOUS
    <2> QED
      BY <1>2, <1>3, <2>1, <2>2
  <1>6. p = q
    BY <1>2, <1>4, <1>5
  <1>7. s = r
    BY <1>2, <1>6
  <1> QED
    BY <1>6, <1>7 DEF p, s

==============================================================================
