---------------------- MODULE FreeListAllocatorProofs ----------------------
(***************************************************************************)
(* Theorems about FreeListAllocator, for every size of the buffer, every   *)
(* set of sizes and alignments asked for and every number of blocks, of an *)
(* allocator that finds the first node and is asked for whole words        *)
(* (WholeWords): with others a block may overlap its neighbours, which a   *)
(* run of MCFreeListAllocator shows.                                       *)
(*                                                                         *)
(* The argument.  The buffer is laid out in pieces: nodes of the list and  *)
(* blocks in use, none of which overlap (Tiled), each at least as large as *)
(* a node and of whole words, the nodes in the order of their addresses    *)
(* (Linked) and never touching (Joined).  The bytes of the pieces and what *)
(* was lost add up to the buffer (Ready).  Sections below say what sums    *)
(* over pieces are, that insert and remove keep a list in order, that a    *)
(* merge, a cut and a new piece keep the layout, that each operation does  *)
(* (FreeInv), and what the properties of the runs owe to it.               *)
(***************************************************************************)
EXTENDS MCFreeListAllocator, Recursion, FiniteSetTheorems, SequenceTheorems, TLAPS

-----------------------------------------------------------------------------
(* Bytes                                                                   *)

(* The bytes of the pieces of the buffer that start at S.                  *)
Bytes(m, S) == SumFunction([a \in S |-> m[a].blockSize])

Sized(m, S) == IsFiniteSet(S) /\ \A a \in S : m[a].blockSize \in Nat

(* No pieces have no bytes.                                                *)
LEMMA BytesNone == ASSUME NEW m PROVE Bytes(m, {}) = 0
  BY SumNone DEF Bytes

(* A piece more adds its size: Reallocate, and a block that was cut.       *)
LEMMA BytesMore ==
    ASSUME NEW m, NEW S, NEW x, x \notin S, Sized(m, S), m[x].blockSize \in Nat
    PROVE  Bytes(m, S) \in Nat /\ Bytes(m, S \union {x}) = m[x].blockSize + Bytes(m, S)
  <1> DEFINE f == [a \in S \union {x} |-> m[a].blockSize]
             e == [a \in S |-> m[a].blockSize]
  <1>1. Prolongs(f, e, S, x) /\ f[x] = m[x].blockSize
    BY DEF Sized, Prolongs
  <1>2. Bytes(m, S \union {x}) = SumFunction(f) /\ Bytes(m, S) = SumFunction(e)
    BY DEF Bytes
  <1> HIDE DEF f, e
  <1> QED
    BY <1>1, <1>2, SumMore DEF Sized

Without(R, S, x) == x \in S /\ R = S \ {x}

(* A piece less takes its size away: a block that is freed.                *)
LEMMA BytesLess ==
    ASSUME NEW m, NEW S, NEW R, NEW x, Sized(m, S), Without(R, S, x)
    PROVE  /\ Bytes(m, S) \in Nat /\ Bytes(m, R) \in Nat
           /\ Bytes(m, S) = m[x].blockSize + Bytes(m, R)
  <1>1. x \in S /\ R = S \ {x}
    BY DEF Without
  <1>2. IsFiniteSet(R) /\ m[x].blockSize \in Nat
    BY <1>1, FS_RemoveElement DEF Sized
  <1>3. Sized(m, R) /\ x \notin R /\ R \union {x} = S
    BY <1>1, <1>2 DEF Sized
  <1>4. Bytes(m, R) \in Nat /\ Bytes(m, R \union {x}) = m[x].blockSize + Bytes(m, R)
    BY <1>2, <1>3, BytesMore
  <1>5. Bytes(m, S) = m[x].blockSize + Bytes(m, R)
    BY <1>3, <1>4
  <1> QED
    BY <1>2, <1>4, <1>5

(* The bytes of finitely many pieces are a natural number.                 *)
LEMMA BytesNat == ASSUME NEW m, NEW S, Sized(m, S) PROVE Bytes(m, S) \in Nat
  <1>1. CASE S = {}
    BY <1>1, BytesNone
  <1>2. CASE S # {}
    <2>1. PICK x \in S : TRUE
      BY <1>2
    <2>2. Without(S \ {x}, S, x)
      BY <2>1 DEF Without
    <2> QED
      BY <2>2, BytesLess
  <1> QED
    BY <1>1, <1>2

(* Only the sizes of the pieces count, not their links.                    *)
LEMMA BytesSame ==
    ASSUME NEW m, NEW n, NEW S, \A a \in S : m[a].blockSize = n[a].blockSize
    PROVE  Bytes(m, S) = Bytes(n, S)
  BY DEF Bytes

Cells == [blockSize : Nat, padding : {0}, next : Nat \union {Null}]

(* b is the least element of N above a, or Null where there is none.       *)
Above(N, a, b) ==
    \/ b \in N /\ a < b /\ \A x \in N : a < x => b <= x
    \/ b = Null /\ \A x \in N : x <= a

(* A list that runs upwards through N.                                     *)
IsList(l) ==
    /\ DOMAIN l.mem \in SUBSET Nat /\ IsFiniteSet(DOMAIN l.mem)
    /\ l \in [head : Nat \union {Null}, mem : [DOMAIN l.mem -> Cells]]

Linked(l, N) ==
    /\ IsList(l)
    /\ N \subseteq DOMAIN l.mem
    /\ Above(N, Null, l.head)
    /\ \A a \in N : Above(N, a, l.mem[a].next)

(* s lists the elements of N upwards.                                      *)
Runs(s, N) ==
    /\ Len(s) \in Nat /\ s \in [1 .. Len(s) -> N]
    /\ \A i, j \in 1 .. Len(s) : i < j => s[i] < s[j]
    /\ \A x \in N : \E i \in 1 .. Len(s) : s[i] = x

(* The chain of a list visits its first k + 1 nodes in k steps.            *)
LEMMA NodesRun == ASSUME NEW l, NEW N, Linked(l, N) PROVE Runs(NodesOf(l), N)
  <1> DEFINE after(a) == IF a = Null THEN Null ELSE l.mem[a].next
             most == Cardinality(DOMAIN l.mem)
             chain[k \in 0 .. most] == IF k = 0 THEN l.head ELSE after(chain[k - 1])
             n == Cardinality({k \in 0 .. most - 1 : chain[k] # Null})
             S == N \union {Null}
             step == [a \in S |-> after(a)]
  <1>1. NodesOf(l) = [k \in 1 .. n |-> chain[k - 1]]
    BY DEF NodesOf
  <1>2. N \in SUBSET Nat /\ Null \notin N /\ IsFiniteSet(DOMAIN l.mem) /\ most \in Nat
    BY FS_CardinalityType DEF Linked, IsList, Null
  <1>3. l.head \in S /\ \A a \in N : after(a) \in S /\ Above(N, a, after(a))
    BY <1>2 DEF Linked, Above
  <1>4. step \in [S -> S] /\ \A a \in S : step[a] = after(a)
    BY <1>3
  <1> HIDE DEF step, after, most
  <1>5. chain = [k \in 0 .. most |-> IF k = 0 THEN l.head ELSE after(chain[k - 1])]
    <2>1. PICK f \in [0 .. most -> S] : Follows(f, l.head, step, most)
      BY <1>2, <1>3, <1>4, StepByStep
    <2>2. ASSUME NEW k \in 0 .. most
          PROVE  f[k] = IF k = 0 THEN l.head ELSE after(f[k - 1])
      <3>1. f[k] = IF k = 0 THEN l.head ELSE step[f[k - 1]]
        BY <2>1 DEF Follows
      <3>2. k # 0 => k - 1 \in 0 .. most
        BY <1>2
      <3> QED
        BY <1>4, <3>1, <3>2
    <2>3. f = [k \in 0 .. most |-> IF k = 0 THEN l.head ELSE after(f[k - 1])]
      BY <2>2
    <2> QED
      BY <2>3
  <1>6. \A k \in 0 .. most : chain[k] = IF k = 0 THEN l.head ELSE after(chain[k - 1])
    <2> HIDE DEF chain
    <2> QED
      BY <1>5
  <1> HIDE DEF chain, n
  <1> DEFINE Ends == {k \in Nat : k = most \/ (k < most /\ chain[k] = Null)}
  <1>7. PICK e \in Ends : \A k \in Ends : e <= k
    <2>1. Ends \in SUBSET Nat /\ most \in Ends
      BY <1>2
    <2> HIDE DEF Ends
    <2> QED
      BY <2>1, Least
  <1>8. e \in 0 .. most /\ (e < most => chain[e] = Null)
    BY <1>2, <1>7
  <1>9. \A k \in Nat : k < e => k \in 0 .. most /\ chain[k] # Null
    BY <1>2, <1>7, <1>8
  <1> HIDE DEF Ends
  <1>10. ASSUME NEW k \in Nat, k < e
         PROVE  /\ chain[k] \in N
                /\ k = 0 => Above(N, Null, chain[k])
                /\ k > 0 => Above(N, chain[k - 1], chain[k])
    <2> DEFINE T == {j \in Nat : j < e =>
                        /\ chain[j] \in N
                        /\ j = 0 => Above(N, Null, chain[j])
                        /\ j > 0 => Above(N, chain[j - 1], chain[j])}
    <2>1. 0 \in T
      <3>1. 0 < e => chain[0] = l.head /\ chain[0] # Null
        BY <1>6, <1>9
      <3> QED
        BY <1>3, <3>1 DEF Linked
    <2>2. ASSUME NEW j \in Nat, j \in T PROVE j + 1 \in T
      <3>1. SUFFICES ASSUME j + 1 < e
                     PROVE  chain[j + 1] \in N /\ Above(N, chain[j], chain[j + 1])
        OBVIOUS
      <3>2. chain[j] \in N /\ j + 1 \in 0 .. most /\ chain[j + 1] # Null
        BY <1>8, <1>9, <2>2, <3>1
      <3>3. chain[j + 1] = after(chain[j])
        BY <1>6, <3>2
      <3> QED
        BY <1>3, <3>2, <3>3
    <2> HIDE DEF T
    <2>3. \A j \in Nat : j \in T
      BY <2>1, <2>2, Inductive
    <2> QED
      BY <1>10, <2>3 DEF T
  <1> DEFINE Below(k) == {x \in N : x <= chain[k]}
  <1>11. ASSUME NEW k \in Nat, k < e
         PROVE  /\ \A j \in 0 .. k - 1 : chain[j] < chain[k]
                /\ \A x \in Below(k) : \E j \in 0 .. k : chain[j] = x
                /\ Cardinality(Below(k)) = k + 1
    <2> DEFINE Low(k1) == /\ \A j \in 0 .. k1 - 1 : chain[j] < chain[k1]
                          /\ \A x \in Below(k1) : \E j \in 0 .. k1 : chain[j] = x
                          /\ Cardinality(Below(k1)) = k1 + 1
               T == {j \in Nat : j < e => Low(j)}
    <2>1. 0 \in T
      <3>1. SUFFICES ASSUME 0 < e PROVE Low(0)
        OBVIOUS
      <3>2. chain[0] \in N /\ Above(N, Null, chain[0])
        BY <1>10, <3>1
      <3>3. Below(0) = {chain[0]}
        <4>1. /\ chain[0] \in Nat /\ chain[0] # Null
              /\ \A x \in N : x \in Nat /\ Null < x
          <5>1. chain[0] \in Nat /\ chain[0] # Null
            BY <1>2, <3>2
          <5>2. \A x \in N : x \in Nat
            BY <1>2
          <5>3. \A x \in Nat : Null < x
            BY DEF Null
          <5> QED
            BY <5>1, <5>2, <5>3
        <4>2. \A x \in N : chain[0] <= x
          BY <3>2, <4>1 DEF Above
        <4>3. \A x \in N : x <= chain[0] <=> x = chain[0]
          BY <4>1, <4>2
        <4> QED
          BY <3>2, <4>3
      <3>4. Cardinality(Below(0)) = 1
        BY <3>3, FS_Singleton
      <3> HIDE DEF Below
      <3>5. \A x \in Below(0) : \E j \in 0 .. 0 : chain[j] = x
        BY <3>3
      <3> QED
        BY <3>4, <3>5
    <2>2. ASSUME NEW j \in Nat, j \in T PROVE j + 1 \in T
      <3>1. SUFFICES ASSUME j + 1 < e PROVE Low(j + 1)
        OBVIOUS
      <3>2. Low(j) /\ j < e
        BY <1>8, <2>2, <3>1
      <3>3. chain[j] \in N /\ chain[j + 1] \in N /\ Above(N, chain[j], chain[j + 1])
        BY <1>10, <3>1, <3>2
      <3>4. /\ chain[j] < chain[j + 1] /\ chain[j] \in Nat /\ chain[j + 1] \in Nat
            /\ \A x \in N : chain[j] < x => chain[j + 1] <= x
        BY <1>2, <3>3 DEF Above
      <3>5. Below(j + 1) = Below(j) \union {chain[j + 1]} /\ chain[j + 1] \notin Below(j)
        <4>1. \A x \in N : x \in Nat
          BY <1>2
        <4>2. \A x \in N : x <= chain[j + 1] <=> (x <= chain[j] \/ x = chain[j + 1])
          BY <3>4, <4>1
        <4>3. ~(chain[j + 1] <= chain[j])
          BY <3>4
        <4> QED
          BY <3>3, <4>2, <4>3
      <3>6. IsFiniteSet(Below(j))
        BY <1>2, FS_Subset DEF Linked
      <3> HIDE DEF Below
      <3>7. Cardinality(Below(j + 1)) = j + 2
        <4>1. Cardinality(Below(j) \union {chain[j + 1]}) = Cardinality(Below(j)) + 1
          BY <3>5, <3>6, FS_AddElement
        <4>2. Cardinality(Below(j)) = j + 1
          BY <3>2
        <4>3. Cardinality(Below(j + 1)) = Cardinality(Below(j)) + 1
          BY <3>5, <4>1
        <4> QED
          BY <4>2, <4>3
      <3>8. ASSUME NEW i \in 0 .. j PROVE chain[i] < chain[j + 1]
        <4>1. i \in Nat /\ i < e /\ (i # j => i \in 0 .. j - 1)
          BY <1>8, <3>2
        <4>2. chain[i] \in Nat /\ (i # j => chain[i] < chain[j])
          BY <1>2, <1>10, <3>2, <4>1
        <4> QED
          BY <3>4, <4>2
      <3>9. ASSUME NEW x \in Below(j + 1) PROVE \E i \in 0 .. j + 1 : chain[i] = x
        BY <3>2, <3>5
      <3> QED
        BY <3>7, <3>8, <3>9
    <2> HIDE DEF T, Low
    <2>3. \A j \in Nat : j \in T
      BY <2>1, <2>2, Inductive
    <2>4. Low(k)
      BY <1>11, <2>3 DEF T
    <2> QED
      BY <2>4 DEF Low
  <1>12. ASSUME NEW x \in N PROVE \E j \in 0 .. e - 1 : chain[j] = x
    <2>1. CASE e = 0
      <3>1. most # 0
        BY <1>2, FS_EmptySet DEF Linked, most
      <3>2. l.head = Null
        BY <1>2, <1>6, <1>8, <2>1, <3>1
      <3> QED
        BY <1>2, <3>2 DEF Linked, Above, Null
    <2>2. CASE e > 0
      <3>1. PICK d \in Nat : d = e - 1 /\ d < e
        BY <1>8, <2>2
      <3>2. x \in Below(d)
        <4>1. CASE e < most
          <5>1. chain[e] = Null /\ chain[e] = after(chain[d]) /\ chain[d] \in N
            BY <1>6, <1>8, <1>10, <2>2, <3>1, <4>1
          <5> QED
            BY <1>2, <1>3, <5>1 DEF Above
        <4>2. CASE e = most
          <5>1. Cardinality(Below(d)) = most
            BY <1>2, <1>11, <3>1, <4>2
          <5>2. Below(d) \in SUBSET DOMAIN l.mem
            BY DEF Linked
          <5>3. Below(d) = DOMAIN l.mem
            <6> HIDE DEF Below
            <6> QED
              BY <1>2, <5>1, <5>2, FS_Subset DEF most
          <5> QED
            BY <5>3 DEF Linked
        <4> QED
          BY <1>2, <1>8, <4>1, <4>2
      <3> QED
        BY <1>11, <3>1, <3>2
    <2> QED
      BY <1>2, <1>8, <2>1, <2>2
  <1>13. n = e
    <2> DEFINE K == {k \in 0 .. most - 1 : chain[k] # Null}
               T == {k \in Nat : e <= k /\ k < most => chain[k] = Null}
    <2>1. 0 \in T
      BY <1>8
    <2>2. ASSUME NEW k \in Nat, k \in T PROVE k + 1 \in T
      <3>1. SUFFICES ASSUME e <= k + 1, k + 1 < most PROVE chain[k + 1] = Null
        OBVIOUS
      <3>2. CASE e = k + 1
        BY <1>8, <3>1, <3>2
      <3>3. CASE e <= k
        <4>1. chain[k] = Null /\ chain[k + 1] = after(chain[k])
          BY <1>2, <1>6, <2>2, <3>1, <3>3
        <4> QED
          BY <4>1 DEF after
      <3> QED
        BY <1>8, <3>1, <3>2, <3>3
    <2> HIDE DEF T
    <2>3. \A k \in Nat : k \in T
      BY <2>1, <2>2, Inductive
    <2>4. ASSUME NEW k \in 0 .. most - 1 PROVE chain[k] # Null <=> k < e
      <3>1. k \in Nat /\ k < most
        BY <1>2
      <3>2. k < e => chain[k] # Null
        BY <1>9, <3>1
      <3>3. e <= k => chain[k] = Null
        BY <2>3, <3>1 DEF T
      <3> QED
        BY <1>8, <3>1, <3>2, <3>3
    <2>5. K = 0 .. e - 1
      BY <1>2, <1>8, <2>4
    <2>6. Cardinality(0 .. e - 1) = e
      BY <1>8, FS_Interval
    <2>7. n = Cardinality(K)
      BY DEF n
    <2> HIDE DEF K
    <2> QED
      BY <2>5, <2>6, <2>7
  <1> DEFINE s == [k \in 1 .. e |-> chain[k - 1]]
  <1>14. NodesOf(l) = s
    BY <1>1, <1>13
  <1>15. s \in Seq(N) /\ Len(s) = e
    <2>1. \A k \in 1 .. e : chain[k - 1] \in N
      BY <1>8, <1>10
    <2> QED
      BY <1>8, <2>1
  <1>16. \A k \in 1 .. e : s[k] = chain[k - 1] /\ chain[k - 1] \in N
    BY <1>8, <1>10
  <1> HIDE DEF s
  <1>17. ASSUME NEW i \in 1 .. e, NEW j \in 1 .. e, i < j PROVE s[i] < s[j]
    <2>1. j - 1 \in Nat /\ j - 1 < e /\ i - 1 \in 0 .. (j - 1) - 1
      BY <1>8, <1>17
    <2>2. chain[i - 1] < chain[j - 1]
      BY <1>11, <2>1
    <2> QED
      BY <1>16, <2>2
  <1>18. ASSUME NEW x \in N PROVE \E i \in 1 .. e : s[i] = x
    <2>1. PICK j \in 0 .. e - 1 : chain[j] = x
      BY <1>12
    <2>2. j + 1 \in 1 .. e /\ (j + 1) - 1 = j
      BY <1>8
    <2> QED
      BY <1>16, <2>1, <2>2
  <1> QED
    BY <1>8, <1>14, <1>15, <1>17, <1>18 DEF Runs

(* What the tests of the operations come down to.                          *)
LEMMA RunsRange == ASSUME NEW s, NEW N, Runs(s, N) PROVE ToSet(s) = N /\ DOMAIN s = 1 .. Len(s)
  <1>1. DOMAIN s = 1 .. Len(s)
    BY DEF Runs
  <1> QED
    BY <1>1 DEF Runs, ToSet

(* The node before a node, and the last one.                               *)
LEMMA BeforeIs ==
    ASSUME NEW N \in SUBSET Nat, NEW s, Runs(s, N)
    PROVE  /\ \A k \in 1 .. Len(s) :
                  /\ Before(s, k) \in N \union {Null}
                  /\ Above(N, Before(s, k), s[k])
                  /\ s[k] \in N
           /\ Before(s, Len(s) + 1) \in N \union {Null}
           /\ Above(N, Before(s, Len(s) + 1), Null)
  <1>1. /\ Len(s) \in Nat
        /\ \A i \in 1 .. Len(s) : s[i] \in N
        /\ \A i, j \in 1 .. Len(s) : i < j => s[i] < s[j]
        /\ \A x \in N : \E i \in 1 .. Len(s) : s[i] = x
    BY DEF Runs
  <1>0. \A i \in 1 .. Len(s) : s[i] \in Nat
    BY <1>1
  <1>2. ASSUME NEW k \in 1 .. Len(s)
        PROVE  /\ Before(s, k) \in N \union {Null}
               /\ Above(N, Before(s, k), s[k])
               /\ s[k] \in N
    <2>1. s[k] \in N /\ \A i \in 1 .. Len(s) : i <= k => s[i] <= s[k]
      BY <1>0, <1>1
    <2>2. CASE k = 1
      <3>1. \A x \in N : s[k] <= x
        BY <1>0, <1>1, <2>2
      <3>2. Before(s, k) = Null /\ Null < s[k]
        BY <1>0, <2>2 DEF Before, Null
      <3> QED
        BY <2>1, <3>1, <3>2 DEF Above
    <2>3. CASE k # 1
      <3>1. k - 1 \in 1 .. Len(s) /\ Before(s, k) = s[k - 1]
        BY <1>0, <1>1, <2>3 DEF Before
      <3>2. s[k - 1] \in N /\ s[k - 1] < s[k]
        BY <1>0, <1>1, <3>1
      <3>3. ASSUME NEW x \in N, s[k - 1] < x PROVE s[k] <= x
        <4>1. PICK i \in 1 .. Len(s) : s[i] = x
          BY <1>0, <1>1
        <4>2. i > k - 1
          <5>1. ~(i < k - 1) /\ i # k - 1
            BY <1>0, <1>1, <3>1, <3>2, <3>3, <4>1
          <5> QED
            BY <1>0, <1>1, <5>1
        <4> QED
          BY <1>0, <1>1, <4>1, <4>2
      <3> QED
        BY <2>1, <3>1, <3>2, <3>3 DEF Above
    <2> QED
      BY <2>2, <2>3
  <1>3. /\ Before(s, Len(s) + 1) \in N \union {Null}
        /\ Above(N, Before(s, Len(s) + 1), Null)
    <2>1. CASE Len(s) = 0
      BY <1>0, <1>1, <2>1 DEF Before, Above
    <2>2. CASE Len(s) # 0
      <3>1. Len(s) \in 1 .. Len(s) /\ Before(s, Len(s) + 1) = s[Len(s)]
        BY <1>0, <1>1, <2>2 DEF Before
      <3>2. ASSUME NEW x \in N PROVE x <= s[Len(s)]
        <4>1. PICK i \in 1 .. Len(s) : s[i] = x
          BY <1>0, <1>1
        <4>2. i < Len(s) => s[i] < s[Len(s)]
          BY <1>0, <1>1, <3>1
        <4> QED
          BY <1>0, <1>1, <3>1, <4>1, <4>2
      <3> QED
        BY <1>0, <1>1, <3>1, <3>2 DEF Above
    <2> QED
      BY <2>1, <2>2
  <1> QED
    BY <1>2, <1>3

-----------------------------------------------------------------------------
(* Lists under insert and remove                                           *)

(* With a new element right above p, p is followed by it and it by what    *)
(* followed p; nothing else is followed by another.                        *)
LEMMA AboveInsert ==
    ASSUME NEW N \in SUBSET Nat, NEW new \in Nat \ N, NEW p \in N \union {Null},
           Above(N \union {new}, p, new)
    PROVE  /\ \A q : Above(N, p, q) => Above(N \union {new}, new, q)
           /\ \A a \in N \union {Null} : \A b :
                  a # p /\ Above(N, a, b) => Above(N \union {new}, a, b)
  <1>1. /\ new \in Int /\ new # Null /\ p \in Int /\ Null \in Int /\ Null \notin N
        /\ \A x \in N : x \in Int /\ Null < x
    BY DEF Null
  <1>2. p < new /\ \A x \in N : p < x => new < x
    BY <1>1 DEF Above
  <1>3. ASSUME NEW q, Above(N, p, q) PROVE Above(N \union {new}, new, q)
    <2>1. CASE q \in N
      BY <1>1, <1>2, <1>3, <2>1 DEF Above
    <2>2. CASE q = Null
      BY <1>1, <1>2, <1>3, <2>2 DEF Above
    <2> QED
      BY <1>3, <2>1, <2>2 DEF Above
  <1>4. ASSUME NEW a \in N \union {Null}, NEW b, a # p, Above(N, a, b)
        PROVE  Above(N \union {new}, a, b)
    <2>1. a \in Int /\ (p \in N \/ (p = Null /\ a \in N))
      BY <1>1, <1>4
    <2>2. CASE b \in N
      <3>1. b \in Int /\ a < b /\ \A x \in N : a < x => b <= x
        BY <1>1, <1>4, <2>2 DEF Above
      <3>2. a < new => b <= new
        BY <1>1, <1>2, <1>4, <2>1, <3>1
      <3> QED
        BY <2>2, <3>1, <3>2 DEF Above
    <2>3. CASE b = Null
      <3>1. \A x \in N : x <= a
        BY <1>1, <1>4, <2>3 DEF Above
      <3>2. new <= a
        BY <1>1, <1>2, <1>4, <2>1, <3>1
      <3> QED
        BY <2>3, <3>1, <3>2 DEF Above
    <2> QED
      BY <1>4, <2>2, <2>3 DEF Above
  <1> QED
    BY <1>3, <1>4

(* Without node, right above p, p is followed by what followed node;       *)
(* nothing else is followed by another.                                    *)
LEMMA AboveRemove ==
    ASSUME NEW N \in SUBSET Nat, NEW node \in N, NEW p \in N \union {Null},
           Above(N, p, node)
    PROVE  /\ \A q : Above(N, node, q) => Above(N \ {node}, p, q)
           /\ \A a \in N \union {Null} : \A b :
                  a # p /\ Above(N, a, b) => Above(N \ {node}, a, b)
  <1>1. /\ node \in Int /\ p \in Int /\ Null \in Int /\ Null \notin N
        /\ \A x \in N : x \in Int /\ Null < x
    BY DEF Null
  <1>2. p < node /\ \A x \in N : p < x => node <= x
    BY <1>1 DEF Above
  <1>3. ASSUME NEW q, Above(N, node, q) PROVE Above(N \ {node}, p, q)
    <2>1. CASE q \in N
      <3>1. q \in Int /\ node < q /\ \A x \in N : node < x => q <= x
        BY <1>1, <1>3, <2>1 DEF Above
      <3>2. \A x \in N \ {node} : p < x => q <= x
        BY <1>1, <1>2, <3>1
      <3> QED
        BY <1>1, <1>2, <2>1, <3>1, <3>2 DEF Above
    <2>2. CASE q = Null
      <3>1. \A x \in N : x <= node
        BY <1>1, <1>3, <2>2 DEF Above
      <3>2. \A x \in N \ {node} : x <= p
        BY <1>1, <1>2, <3>1
      <3> QED
        BY <2>2, <3>2 DEF Above
    <2> QED
      BY <1>3, <2>1, <2>2 DEF Above
  <1>4. ASSUME NEW a \in N \union {Null}, NEW b, a # p, Above(N, a, b)
        PROVE  Above(N \ {node}, a, b)
    <2>1. a \in Int /\ (p \in N \/ (p = Null /\ a \in N))
      BY <1>1, <1>4
    <2>2. CASE b \in N
      <3>1. b \in Int /\ a < b /\ \A x \in N : a < x => b <= x
        BY <1>1, <1>4, <2>2 DEF Above
      <3>2. b # node
        BY <1>1, <1>2, <1>4, <2>1, <3>1
      <3> QED
        BY <2>2, <3>1, <3>2 DEF Above
    <2>3. CASE b = Null
      BY <1>1, <1>4, <2>3 DEF Above
    <2> QED
      BY <1>4, <2>2, <2>3 DEF Above
  <1> QED
    BY <1>3, <1>4

(* A head and cells make a list.                                           *)
LEMMA ListIs ==
    ASSUME NEW D \in SUBSET Nat, IsFiniteSet(D), NEW m \in [D -> Cells],
           NEW h \in Nat \union {Null}, NEW l, l = [head |-> h, mem |-> m]
    PROVE  IsList(l) /\ l.head = h /\ l.mem = m /\ DOMAIN l.mem = D
  <1>1. l.head = h /\ l.mem = m /\ DOMAIN m = D
    OBVIOUS
  <1>2. l \in [head : Nat \union {Null}, mem : [D -> Cells]]
    OBVIOUS
  <1> QED
    BY <1>1, <1>2 DEF IsList

(* The parts of a list.                                                    *)
LEMMA ListParts ==
    ASSUME NEW l, IsList(l)
    PROVE  /\ DOMAIN l.mem \in SUBSET Nat /\ IsFiniteSet(DOMAIN l.mem)
           /\ l.mem \in [DOMAIN l.mem -> Cells] /\ l.head \in Nat \union {Null}
           /\ l = [head |-> l.head, mem |-> l.mem]
           /\ \A a \in DOMAIN l.mem : l.mem[a] \in Cells
  <1> PICK D : D = DOMAIN l.mem
    OBVIOUS
  <1>1. D \in SUBSET Nat /\ IsFiniteSet(D)
    BY DEF IsList
  <1>2. l \in [head : Nat \union {Null}, mem : [D -> Cells]]
    BY DEF IsList
  <1>3. l.mem \in [D -> Cells] /\ l.head \in Nat \union {Null}
    BY <1>2
  <1>4. l = [head |-> l.head, mem |-> l.mem]
    BY <1>2
  <1> QED
    BY <1>1, <1>3, <1>4

(* The fields of a cell; of the padding an allocator of whole words        *)
(* writes, nothing is left but 0.                                          *)
LEMMA CellParts ==
    ASSUME NEW c \in Cells
    PROVE  /\ c.blockSize \in Nat /\ c.padding = 0 /\ c.next \in Nat \union {Null}
           /\ c = [blockSize |-> c.blockSize, padding |-> 0, next |-> c.next]
  BY DEF Cells

(* Node makes a cell.                                                      *)
LEMMA NodeIs ==
    ASSUME NEW size \in Nat, NEW next \in Nat \union {Null}
    PROVE  /\ Node(size, next) \in Cells /\ Node(size, next).blockSize = size
           /\ Node(size, next).next = next
  BY DEF Node, Cells

(* Put writes the cell, and no other.                                      *)
LEMMA PutIs ==
    ASSUME NEW D, NEW m \in [D -> Cells], NEW a, NEW cell \in Cells
    PROVE  /\ Put(m, a, cell) \in [D \union {a} -> Cells]
           /\ Put(m, a, cell)[a] = cell
           /\ \A x \in D : x # a => Put(m, a, cell)[x] = m[x]
  BY DEF Put

(* The memory with the next of a cell changed.                             *)
Relinked(m, a, next) == [m EXCEPT ![a].next = next]

(* Setting the next of a cell changes no size.                             *)
LEMMA RelinkedIs ==
    ASSUME NEW D, NEW m \in [D -> Cells], NEW a \in D, NEW next \in Nat \union {Null}
    PROVE  /\ Relinked(m, a, next) \in [D -> Cells]
           /\ Relinked(m, a, next)[a].next = next
           /\ \A x \in D : /\ Relinked(m, a, next)[x].blockSize = m[x].blockSize
                           /\ x # a => Relinked(m, a, next)[x] = m[x]
  <1> DEFINE c == [m[a] EXCEPT !.next = next]
  <1>1. c \in Cells /\ c.next = next /\ c.blockSize = m[a].blockSize
    BY DEF Cells
  <1>2. Relinked(m, a, next) = [m EXCEPT ![a] = c]
    BY DEF Relinked
  <1> HIDE DEF c
  <1> QED
    BY <1>1, <1>2

Resized(m, a, size) == [m EXCEPT ![a].blockSize = size]

(* Setting the blockSize of a cell changes no link.                        *)
LEMMA ResizedIs ==
    ASSUME NEW D, NEW m \in [D -> Cells], NEW a \in D, NEW size \in Nat
    PROVE  /\ Resized(m, a, size) \in [D -> Cells]
           /\ Resized(m, a, size)[a].blockSize = size
           /\ \A x \in D : /\ Resized(m, a, size)[x].next = m[x].next
                           /\ x # a => Resized(m, a, size)[x] = m[x]
  <1> DEFINE c == [m[a] EXCEPT !.blockSize = size]
  <1>1. c \in Cells /\ c.next = m[a].next /\ c.blockSize = size
    BY DEF Cells
  <1>2. Resized(m, a, size) = [m EXCEPT ![a] = c]
    BY DEF Resized
  <1> HIDE DEF c
  <1> QED
    BY <1>1, <1>2

(* The pieces of l are those of k, and of another size at a.               *)
SizedAs(l, k, a, size) ==
    /\ DOMAIN k.mem = DOMAIN l.mem \union {a}
    /\ k.mem[a].blockSize = size
    /\ \A x \in DOMAIN l.mem : x # a => k.mem[x].blockSize = l.mem[x].blockSize

(* SinglyLinkedList::insert links a new node in where it belongs, and      *)
(* changes no other size.                                                  *)
LEMMA InsertIs ==
    ASSUME NEW l, NEW N, Linked(l, N), NEW new \in Nat \ N, NEW size \in Nat,
           NEW p \in N \union {Null}, Above(N \union {new}, p, new),
           NEW k, k = InsertNode(l, p, new, size)
    PROVE  Linked(k, N \union {new}) /\ SizedAs(l, k, new, size)
  <1> DEFINE D == DOMAIN l.mem
             q == IF p = Null THEN l.head ELSE l.mem[p].next
             m == IF p = Null THEN l.mem ELSE Relinked(l.mem, p, new)
  <1>1. /\ D \in SUBSET Nat /\ IsFiniteSet(D) /\ l.mem \in [D -> Cells]
        /\ l.head \in Nat \union {Null} /\ l = [head |-> l.head, mem |-> l.mem]
    BY ListParts DEF Linked
  <1>2. N \subseteq D /\ N \in SUBSET Nat /\ Null \notin N /\ new # Null
    BY <1>1 DEF Linked, Null
  <1>3. q \in Nat \union {Null} /\ Above(N, p, q)
    <2>1. CASE p = Null
      BY <1>1, <2>1 DEF Linked
    <2>2. CASE p # Null
      <3>1. l.mem[p] \in Cells
        BY <1>1, <1>2, <2>2
      <3> QED
        BY <2>2, <3>1, CellParts DEF Linked
    <2> QED
      BY <2>1, <2>2
  <1>4. k = [head |-> IF p = Null THEN new ELSE l.head, mem |-> Put(m, new, Node(size, q))]
    <2>1. CASE p = Null
      BY <2>1 DEF InsertNode
    <2>2. CASE p # Null
      <3>1. k = [l EXCEPT !.mem = Put(m, new, Node(size, q))]
        BY <2>2 DEF InsertNode, Relinked
      <3> HIDE DEF m, q
      <3> QED
        BY <1>1, <2>2, <3>1
    <2> QED
      BY <2>1, <2>2
  <1>5. /\ m \in [D -> Cells]
        /\ p # Null => m[p].next = new
        /\ \A x \in D : m[x].blockSize = l.mem[x].blockSize
        /\ \A x \in D : x # p => m[x] = l.mem[x]
    <2>1. CASE p = Null
      BY <1>1, <1>2, <2>1
    <2>2. CASE p # Null
      BY <1>1, <1>2, <2>2, RelinkedIs
    <2> QED
      BY <2>1, <2>2
  <1> HIDE DEF m, q
  <1>6. PICK f : f = Put(m, new, Node(size, q))
    OBVIOUS
  <1>7. /\ f \in [D \union {new} -> Cells]
        /\ f[new].next = q /\ f[new].blockSize = size
        /\ \A x \in D : x # new => f[x] = m[x]
    <2>1. PICK cell \in Cells : /\ cell = Node(size, q)
                                /\ cell.next = q /\ cell.blockSize = size
      BY <1>3, NodeIs
    <2>2. f = Put(m, new, cell)
      BY <1>6, <2>1
    <2> HIDE DEF D
    <2>3. m \in [D -> Cells]
      BY <1>5
    <2>4. /\ Put(m, new, cell) \in [D \union {new} -> Cells]
          /\ Put(m, new, cell)[new] = cell
          /\ \A x \in D : x # new => Put(m, new, cell)[x] = m[x]
      BY <2>1, <2>3 DEF Put
    <2> QED
      BY <2>1, <2>2, <2>4
  <1>8. D \union {new} \in SUBSET Nat /\ IsFiniteSet(D \union {new})
    BY <1>1, FS_AddElement
  <1>9. /\ IsList(k) /\ k.mem = f /\ DOMAIN k.mem = D \union {new}
        /\ k.head = IF p = Null THEN new ELSE l.head
    <2>1. (IF p = Null THEN new ELSE l.head) \in Nat \union {Null}
      BY <1>1
    <2> HIDE DEF D
    <2> QED
      BY <1>4, <1>6, <1>7, <1>8, <2>1, ListIs
  <1>10. SizedAs(l, k, new, size)
    BY <1>5, <1>7, <1>9 DEF SizedAs
  <1>11. Above(N \union {new}, Null, k.head)
    <2>1. p # Null => Above(N, Null, l.head)
      BY DEF Linked
    <2> QED
      BY <1>2, <1>9, <2>1, AboveInsert
  <1>12. ASSUME NEW a \in N \union {new} PROVE Above(N \union {new}, a, k.mem[a].next)
    <2>1. CASE a = new
      BY <1>2, <1>3, <1>7, <1>9, <2>1, AboveInsert
    <2>2. CASE a = p
      <3>1. k.mem[a] = m[p] /\ p # Null
        BY <1>2, <1>7, <1>9, <2>2
      <3> QED
        BY <1>5, <2>2, <3>1
    <2>3. CASE a # new /\ a # p
      <3>1. a \in N /\ k.mem[a] = l.mem[a]
        BY <1>2, <1>5, <1>7, <1>9, <2>3
      <3>2. Above(N, a, l.mem[a].next)
        BY <3>1 DEF Linked
      <3> QED
        BY <1>2, <2>3, <3>1, <3>2, AboveInsert
    <2> QED
      BY <2>1, <2>2, <2>3
  <1> QED
    BY <1>2, <1>9, <1>10, <1>11, <1>12 DEF Linked

(* The pieces of l are those of k.                                         *)
SameSizes(l, k) ==
    /\ DOMAIN k.mem = DOMAIN l.mem
    /\ \A x \in DOMAIN l.mem : k.mem[x].blockSize = l.mem[x].blockSize

(* SinglyLinkedList::remove takes a node out of the list, and changes no   *)
(* size.                                                                   *)
LEMMA RemoveIs ==
    ASSUME NEW l, NEW N, Linked(l, N), NEW node \in N,
           NEW p \in N \union {Null}, Above(N, p, node),
           NEW k, k = RemoveNode(l, p, node)
    PROVE  Linked(k, N \ {node}) /\ SameSizes(l, k)
  <1> DEFINE D == DOMAIN l.mem
             q == l.mem[node].next
             m == IF p = Null THEN l.mem ELSE Relinked(l.mem, p, q)
  <1>1. /\ D \in SUBSET Nat /\ IsFiniteSet(D) /\ l.mem \in [D -> Cells]
        /\ l.head \in Nat \union {Null} /\ l = [head |-> l.head, mem |-> l.mem]
    BY ListParts DEF Linked
  <1>2. N \subseteq D /\ N \in SUBSET Nat /\ Null \notin N
    BY <1>1 DEF Linked, Null
  <1>3. q \in Nat \union {Null} /\ Above(N, node, q)
    <2>1. l.mem[node] \in Cells
      BY <1>1, <1>2
    <2> QED
      BY <2>1, CellParts DEF Linked
  <1>4. k = [head |-> IF p = Null THEN q ELSE l.head, mem |-> m]
    <2>1. CASE p = Null
      <3>1. k = [l EXCEPT !.head = q]
        BY <2>1 DEF RemoveNode
      <3> HIDE DEF q
      <3> QED
        BY <1>1, <2>1, <3>1
    <2>2. CASE p # Null
      <3>1. k = [l EXCEPT !.mem = Relinked(@, p, q)]
        BY <2>2 DEF RemoveNode, Relinked
      <3> HIDE DEF q
      <3> QED
        BY <1>1, <2>2, <3>1
    <2> QED
      BY <2>1, <2>2
  <1>5. /\ m \in [D -> Cells]
        /\ p # Null => m[p].next = q
        /\ \A x \in D : m[x].blockSize = l.mem[x].blockSize
        /\ \A x \in D : x # p => m[x] = l.mem[x]
    <2>1. CASE p = Null
      BY <1>1, <1>2, <2>1
    <2>2. CASE p # Null
      <3> HIDE DEF q
      <3> QED
        BY <1>1, <1>2, <1>3, <2>2, RelinkedIs
    <2> QED
      BY <2>1, <2>2
  <1> HIDE DEF m, q
  <1>9. /\ IsList(k) /\ k.mem = m /\ DOMAIN k.mem = D
        /\ k.head = IF p = Null THEN q ELSE l.head
    <2>1. (IF p = Null THEN q ELSE l.head) \in Nat \union {Null}
      BY <1>1, <1>3
    <2> HIDE DEF D
    <2> QED
      BY <1>1, <1>4, <1>5, <2>1, ListIs
  <1>11. Above(N \ {node}, Null, k.head)
    <2>1. p # Null => Above(N, Null, l.head)
      BY DEF Linked
    <2> QED
      BY <1>2, <1>3, <1>9, <2>1, AboveRemove
  <1>12. ASSUME NEW a \in N \ {node} PROVE Above(N \ {node}, a, k.mem[a].next)
    <2>2. CASE a = p
      <3>1. k.mem[a].next = q
        BY <1>2, <1>5, <1>9, <2>2
      <3> QED
        BY <1>2, <1>3, <2>2, <3>1, AboveRemove
    <2>3. CASE a # p
      <3>1. k.mem[a] = l.mem[a]
        BY <1>2, <1>5, <1>9, <2>3
      <3>2. Above(N, a, l.mem[a].next)
        BY DEF Linked
      <3> QED
        BY <1>2, <2>3, <3>1, <3>2, AboveRemove
    <2> QED
      BY <2>2, <2>3
  <1> QED
    BY <1>2, <1>5, <1>9, <1>11, <1>12 DEF Linked, SameSizes

(* A list whose cells off N, and sizes, are written.                       *)
LEMMA LinkedSame ==
    ASSUME NEW l, NEW N, Linked(l, N), NEW k, IsList(k),
           N \subseteq DOMAIN k.mem, k.head = l.head,
           \A a \in N : k.mem[a].next = l.mem[a].next
    PROVE  Linked(k, N)
  BY DEF Linked

-----------------------------------------------------------------------------
(* The layout of the buffer                                                *)

Word(n) == n \in Nat /\ n % 8 = 0

(* Pieces that start at P lie in the buffer and do not overlap.            *)
Tiled(m, P, total) ==
    /\ Word(total)
    /\ \A a \in P : /\ Word(a) /\ Word(m[a].blockSize)
                    /\ NodeSize <= m[a].blockSize
                    /\ a + m[a].blockSize <= total
    /\ \A a, c \in P : a < c => a + m[a].blockSize <= c

(* The nodes N of the list, and headers H, cut the buffer up.              *)
Laid(l, N, H, total) ==
    /\ Linked(l, N)
    /\ H \subseteq DOMAIN l.mem /\ N \intersect H = {}
    /\ Tiled(l.mem, N \union H, total)

Touches(m, a, c) == a + m[a].blockSize = c

(* No two nodes touch.                                                     *)
Joined(m, N) == \A a, c \in N : ~Touches(m, a, c)

Heads(bs) == {b.at - HeaderSize : b \in bs}

(* Blocks have headers of their own, and fit in the pieces they head.      *)
Housed(m, bs) ==
    /\ \A b \in bs : /\ b.at \in Nat /\ HeaderSize <= b.at /\ b.size \in Nat
                     /\ b.size + HeaderSize <= m[b.at - HeaderSize].blockSize
    /\ \A b, c \in bs : b.at = c.at => b = c

Nodes == DOMAIN mem \ Heads(blocks)

(* The list l over the nodes N accounts for a buffer of total bytes.       *)
Ready(l, N, total) ==
    /\ Laid(l, N, Heads(blocks), total)
    /\ Joined(l.mem, N)
    /\ Housed(l.mem, blocks)
    /\ lost \in Nat /\ used = Bytes(l.mem, Heads(blocks))
    /\ used + lost + Bytes(l.mem, N) = total
    /\ total \in NodeSize .. MaxTotal
    /\ peak \in used .. total

FreeInv ==
    /\ reallocatable \in BOOLEAN /\ failed \in BOOLEAN /\ GrowthSuffices
    /\ Ready(list, Nodes, totalSize)

(* Sums, doubles and differences of whole words are whole words.           *)
LEMMA WordFacts ==
    /\ Word(0) /\ Word(8) /\ Word(16)
    /\ \A x, y : Word(x) /\ Word(y) => /\ Word(x + y) /\ Word(x * 2)
                                       /\ y <= x => Word(x - y)
  BY DEF Word

(* Sizes are natural numbers, and a list's cells finitely many.            *)
LEMMA LaidFacts ==
    ASSUME NEW l, NEW N, NEW H, NEW total, Laid(l, N, H, total)
    PROVE  /\ IsList(l) /\ N \in SUBSET Nat /\ H \in SUBSET Nat /\ total \in Nat
           /\ N \subseteq DOMAIN l.mem /\ H \subseteq DOMAIN l.mem /\ N \intersect H = {}
           /\ \A a \in DOMAIN l.mem : l.mem[a].blockSize \in Nat
           /\ Sized(l.mem, N) /\ Sized(l.mem, H)
           /\ \A a \in N \union H : /\ a \in Nat /\ l.mem[a].blockSize \in Nat
                                    /\ 16 <= l.mem[a].blockSize
                                    /\ a + l.mem[a].blockSize <= total
           /\ \A a, c \in N \union H : a < c => a + l.mem[a].blockSize <= c
  <1>1. /\ IsList(l) /\ N \subseteq DOMAIN l.mem /\ H \subseteq DOMAIN l.mem
        /\ N \intersect H = {} /\ DOMAIN l.mem \in SUBSET Nat
        /\ IsFiniteSet(DOMAIN l.mem)
    BY DEF Laid, Linked, IsList
  <1>2. \A a \in DOMAIN l.mem : l.mem[a].blockSize \in Nat
    BY <1>1, ListParts, CellParts
  <1>3. IsFiniteSet(N) /\ IsFiniteSet(H)
    BY <1>1, FS_Subset
  <1>4. Sized(l.mem, N) /\ Sized(l.mem, H)
    BY <1>1, <1>2, <1>3 DEF Sized
  <1>5. Tiled(l.mem, N \union H, total)
    BY DEF Laid
  <1> QED
    BY <1>1, <1>2, <1>4, <1>5 DEF Tiled, Word, NodeSize

(* A list whose node is resized runs through the same nodes.               *)
LEMMA ResizeIs ==
    ASSUME NEW l, NEW N, Linked(l, N), NEW a \in DOMAIN l.mem, NEW size \in Nat,
           NEW k, k = [l EXCEPT !.mem = Resized(@, a, size)]
    PROVE  Linked(k, N) /\ SizedAs(l, k, a, size)
  <1> DEFINE D == DOMAIN l.mem
             m == Resized(l.mem, a, size)
  <1>1. /\ D \in SUBSET Nat /\ IsFiniteSet(D) /\ l.mem \in [D -> Cells]
        /\ l.head \in Nat \union {Null} /\ l = [head |-> l.head, mem |-> l.mem]
    BY ListParts DEF Linked
  <1>2. k = [head |-> l.head, mem |-> m]
    <2> HIDE DEF m
    <2>1. k = [l EXCEPT !.mem = m]
      BY DEF m
    <2> QED
      BY <1>1, <2>1
  <1>3. /\ m \in [D -> Cells] /\ m[a].blockSize = size
        /\ \A x \in D : m[x].next = l.mem[x].next /\ (x # a => m[x] = l.mem[x])
    <2> PICK o : o = l.mem
      OBVIOUS
    <2>1. o \in [D -> Cells] /\ a \in D /\ m = Resized(o, a, size)
      BY <1>1
    <2> HIDE DEF D, m
    <2>2. /\ m \in [D -> Cells] /\ m[a].blockSize = size
          /\ \A x \in D : m[x].next = o[x].next /\ (x # a => m[x] = o[x])
      BY <2>1, ResizedIs
    <2> QED
      BY <2>2
  <1> HIDE DEF m
  <1>4. IsList(k) /\ k.head = l.head /\ k.mem = m /\ DOMAIN k.mem = D
    <2> HIDE DEF D
    <2> QED
      BY <1>1, <1>2, <1>3, ListIs
  <1>5. D = D \union {a}
    OBVIOUS
  <1>6. N \subseteq D
    BY DEF Linked
  <1>7. N \subseteq DOMAIN k.mem /\ \A x \in N : k.mem[x].next = l.mem[x].next
    BY <1>3, <1>4, <1>6
  <1>8. Linked(k, N)
    BY <1>4, <1>7, LinkedSame
  <1>9. SizedAs(l, k, a, size)
    BY <1>3, <1>4, <1>5 DEF SizedAs
  <1> QED
    BY <1>8, <1>9

(* A node takes in the piece above it.                                     *)
LEMMA TiledMerge ==
    ASSUME NEW m, NEW n, NEW P, NEW total, Tiled(m, P, total),
           NEW a \in P, NEW c \in P, Touches(m, a, c),
           n[a].blockSize = m[a].blockSize + m[c].blockSize,
           \A x \in P : x # a => n[x].blockSize = m[x].blockSize
    PROVE  Tiled(n, P \ {c}, total)
  <1>1. /\ total \in Nat /\ Word(total)
        /\ \A x \in P : /\ Word(x) /\ Word(m[x].blockSize) /\ 16 <= m[x].blockSize
                        /\ x + m[x].blockSize <= total
        /\ \A x, y \in P : x < y => x + m[x].blockSize <= y
    BY DEF Tiled, NodeSize, Word
  <1>2. \A x \in P : x \in Nat /\ m[x].blockSize \in Nat
    BY <1>1 DEF Word
  <1>3. a + m[a].blockSize = c
    BY DEF Touches
  <1>4. ASSUME NEW x \in P \ {c}
        PROVE  /\ Word(x) /\ Word(n[x].blockSize) /\ NodeSize <= n[x].blockSize
               /\ x + n[x].blockSize <= total
    <2>1. CASE x = a
      <3>1. Word(n[a].blockSize)
        BY <1>1, WordFacts
      <3>2. a + n[a].blockSize = c + m[c].blockSize /\ 16 <= n[a].blockSize
        BY <1>1, <1>2, <1>3
      <3> QED
        BY <1>1, <2>1, <3>1, <3>2 DEF NodeSize
    <2>2. CASE x # a
      BY <1>1, <2>2 DEF NodeSize
    <2> QED
      BY <2>1, <2>2
  <1>5. ASSUME NEW x \in P \ {c}, NEW y \in P \ {c}, x < y
        PROVE  x + n[x].blockSize <= y
    <2>1. CASE x = a
      <3>1. c <= y /\ c # y
        BY <1>1, <1>3, <1>5, <2>1
      <3>2. c + m[c].blockSize <= y
        BY <1>1, <1>2, <3>1
      <3> QED
        BY <1>2, <1>3, <2>1, <3>2
    <2>2. CASE x # a
      BY <1>1, <1>5, <2>2
    <2> QED
      BY <2>1, <2>2
  <1> QED
    BY <1>1, <1>4, <1>5 DEF Tiled

(* In n the piece a of m has taken in the piece c.                         *)
Absorbs(m, n, N, a, c) ==
    /\ Sized(m, N) /\ a \in N /\ c \in N /\ a # c
    /\ n[a].blockSize = m[a].blockSize + m[c].blockSize
    /\ \A x \in N : x # a => n[x].blockSize = m[x].blockSize

(* A merge loses no byte.                                                  *)
LEMMA BytesMerged ==
    ASSUME NEW m, NEW n, NEW N, NEW a, NEW c, Absorbs(m, n, N, a, c)
    PROVE  Bytes(n, N \ {c}) = Bytes(m, N)
  <1>0. /\ Sized(m, N) /\ a \in N /\ c \in N /\ a # c
        /\ n[a].blockSize = m[a].blockSize + m[c].blockSize
        /\ \A x \in N : x # a => n[x].blockSize = m[x].blockSize
    BY DEF Absorbs
  <1>1. PICK M : M = N \ {c} /\ Without(M, N, c)
    BY <1>0 DEF Without
  <1>2. PICK R : R = M \ {a} /\ Without(R, M, a)
    BY <1>0, <1>1 DEF Without
  <1>3. Bytes(m, N) = m[c].blockSize + Bytes(m, M) /\ Bytes(m, M) \in Nat
    <2>1. Sized(m, N) /\ Without(M, N, c)
      BY <1>0, <1>1
    <2> QED
      BY ONLY <2>1, BytesLess
  <1>4. a \in M /\ IsFiniteSet(M) /\ m[a].blockSize \in Nat /\ m[c].blockSize \in Nat
    BY <1>0, <1>1, FS_RemoveElement DEF Sized
  <1>5. Sized(m, M) /\ Sized(n, M)
    BY <1>0, <1>1, <1>4 DEF Sized
  <1>10. Without(R, M, a)
    BY <1>2
  <1>6. Bytes(m, M) = m[a].blockSize + Bytes(m, R) /\ Bytes(m, R) \in Nat
    BY <1>5, <1>10, BytesLess
  <1>7. Bytes(n, M) = n[a].blockSize + Bytes(n, R)
    BY <1>5, <1>10, BytesLess
  <1>8. Bytes(n, R) = Bytes(m, R)
    <2>1. \A x \in R : n[x].blockSize = m[x].blockSize
      BY <1>0, <1>1, <1>2
    <2> QED
      BY <2>1, BytesSame
  <1>9. Bytes(n, M) = Bytes(m, N)
    BY <1>0, <1>3, <1>4, <1>6, <1>7, <1>8
  <1> QED
    BY <1>1, <1>9

(* Node a takes in node c.                                                 *)
Merge(l, a, c) ==
    RemoveNode([l EXCEPT !.mem = Resized(@, a, l.mem[a].blockSize + l.mem[c].blockSize)], a, c)

Merged(l, k, N, M, H, total, a, size) ==
    /\ Laid(k, M, H, total)
    /\ Bytes(k.mem, M) = Bytes(l.mem, N)
    /\ DOMAIN k.mem = DOMAIN l.mem
    /\ k.mem[a].blockSize = size
    /\ \A x \in DOMAIN l.mem : x # a => k.mem[x].blockSize = l.mem[x].blockSize

(* A merge leaves a sound layout of the same bytes, with one node less.    *)
LEMMA MergeIs ==
    ASSUME NEW l, NEW N, NEW H, NEW total, Laid(l, N, H, total),
           NEW a \in N, NEW c \in N, Touches(l.mem, a, c),
           NEW k, k = Merge(l, a, c)
    PROVE  Merged(l, k, N, N \ {c}, H, total, a, l.mem[a].blockSize + l.mem[c].blockSize)
  <1> DEFINE size == l.mem[a].blockSize + l.mem[c].blockSize
             j == [l EXCEPT !.mem = Resized(@, a, size)]
  <1>1. /\ IsList(l) /\ N \in SUBSET Nat /\ H \in SUBSET Nat /\ total \in Nat
        /\ N \subseteq DOMAIN l.mem /\ H \subseteq DOMAIN l.mem /\ N \intersect H = {}
        /\ Sized(l.mem, N)
        /\ \A x \in N \union H : x \in Nat /\ l.mem[x].blockSize \in Nat
                                 /\ 16 <= l.mem[x].blockSize
        /\ \A x, y \in N \union H : x < y => x + l.mem[x].blockSize <= y
    BY LaidFacts
  <1>2. size \in Nat /\ c = a + l.mem[a].blockSize /\ a # c
    BY <1>1 DEF Touches
  <1>3. Above(N, a, c)
    <2>1. a < c /\ \A x \in N : a < x => c <= x
      BY <1>1, <1>2
    <2> QED
      BY <2>1 DEF Above
  <1>4. k = RemoveNode(j, a, c)
    BY DEF Merge
  <1> HIDE DEF size
  <1>5. Linked(j, N) /\ SizedAs(l, j, a, size)
    BY <1>1, <1>2, ResizeIs DEF Laid
  <1> HIDE DEF j
  <1>6. Linked(k, N \ {c}) /\ SameSizes(j, k)
    <2>1. a \in N \union {Null} /\ Linked(j, N)
      BY <1>5
    <2> QED
      BY ONLY c \in N, <1>3, <1>4, <2>1, RemoveIs
  <1>7. /\ DOMAIN k.mem = DOMAIN l.mem
        /\ k.mem[a].blockSize = size
        /\ \A x \in DOMAIN l.mem : x # a => k.mem[x].blockSize = l.mem[x].blockSize
    BY <1>1, <1>5, <1>6 DEF SizedAs, SameSizes
  <1>8. Laid(k, N \ {c}, H, total)
    <2>1. Tiled(k.mem, (N \union H) \ {c}, total)
      <3>1. Tiled(l.mem, N \union H, total)
        BY DEF Laid
      <3>2. \A x \in N \union H : x # a => k.mem[x].blockSize = l.mem[x].blockSize
        BY <1>1, <1>7
      <3> QED
        BY <1>7, <3>1, <3>2, TiledMerge DEF size
    <2>2. (N \union H) \ {c} = (N \ {c}) \union H
      BY <1>1
    <2> QED
      BY <1>1, <1>6, <1>7, <2>1, <2>2 DEF Laid
  <1>9. Bytes(k.mem, N \ {c}) = Bytes(l.mem, N)
    <2>1. \A x \in N : x # a => k.mem[x].blockSize = l.mem[x].blockSize
      BY <1>1, <1>7
    <2>2. k.mem[a].blockSize = l.mem[a].blockSize + l.mem[c].blockSize
      BY <1>7 DEF size
    <2>3. Absorbs(l.mem, k.mem, N, a, c)
      BY <1>1, <1>2, <2>1, <2>2 DEF Absorbs
    <2> QED
      BY <2>3, BytesMerged
  <1> QED
    BY <1>7, <1>8, <1>9 DEF Merged, size

-----------------------------------------------------------------------------
(* Coalescence                                                             *)

(* The two halves of Coalescence.                                          *)
Up(l, node) ==
    LET next == l.mem[node].next
    IN  IF next # Null /\ Touches(l.mem, node, next) THEN Merge(l, node, next) ELSE l

Down(l, p, node) ==
    IF p # Null /\ Touches(l.mem, p, node) THEN Merge(l, p, node) ELSE l

(* Coalescence joins upwards and then downwards.                           *)
LEMMA TwoHalves ==
    ASSUME NEW l, NEW p, NEW node
    PROVE  Coalescence(l, p, node) = Down(Up(l, node), p, node)
  BY DEF Coalescence, Up, Down, Merge, Resized, Touches

(* Only node touches others.                                               *)
AllButJoined(m, N, node) ==
    \A a, c \in N : Touches(m, a, c) => a = node \/ c = node

(* Nodes of l were joined, and node with others.                           *)
Gathered(l, k, N, M, H, total, node) ==
    /\ Laid(k, M, H, total) /\ M \subseteq N
    /\ Bytes(k.mem, M) = Bytes(l.mem, N)
    /\ DOMAIN k.mem = DOMAIN l.mem
    /\ \A x \in H : k.mem[x].blockSize = l.mem[x].blockSize
    /\ \E x \in M : l.mem[node].blockSize <= k.mem[x].blockSize

(* Where nothing is joined, nothing is lost.                               *)
LEMMA GatheredNone ==
    ASSUME NEW l, NEW N, NEW H, NEW total, Laid(l, N, H, total), NEW node \in N
    PROVE  Gathered(l, l, N, N, H, total, node)
  <1>1. l.mem[node].blockSize \in Nat
    BY LaidFacts
  <1>2. l.mem[node].blockSize <= l.mem[node].blockSize
    BY <1>1
  <1> QED
    BY <1>2 DEF Gathered

(* a and c touch, and k has them as one node.                              *)
MergeStep(l, k, N, H, total, a, c) ==
    /\ Laid(l, N, H, total) /\ a \in N /\ c \in N
    /\ Touches(l.mem, a, c) /\ k = Merge(l, a, c)

MergeDone(l, k, N, H, total, a, c) ==
    /\ Gathered(l, k, N, N \ {c}, H, total, a)
    /\ Gathered(l, k, N, N \ {c}, H, total, c)
    /\ k.mem[a].blockSize = l.mem[a].blockSize + l.mem[c].blockSize
    /\ \A x \in N : x # a => k.mem[x].blockSize = l.mem[x].blockSize
    /\ a < c

(* Where two nodes are joined, nothing is lost.                            *)
LEMMA GatheredMerge ==
    ASSUME NEW l, NEW k, NEW N, NEW H, NEW total, NEW a, NEW c,
           MergeStep(l, k, N, H, total, a, c)
    PROVE  MergeDone(l, k, N, H, total, a, c)
  <1>0. /\ Laid(l, N, H, total) /\ a \in N /\ c \in N
        /\ Touches(l.mem, a, c) /\ k = Merge(l, a, c)
    BY DEF MergeStep
  <1>1. Merged(l, k, N, N \ {c}, H, total, a, l.mem[a].blockSize + l.mem[c].blockSize)
    BY <1>0, MergeIs
  <1>2. /\ \A x \in N \union H : x \in DOMAIN l.mem /\ x \in Nat /\ l.mem[x].blockSize \in Nat
                                 /\ 16 <= l.mem[x].blockSize
        /\ N \intersect H = {}
    BY <1>0, LaidFacts
  <1>3. a < c
    BY <1>0, <1>2 DEF Touches
  <1>4. /\ a \in N \ {c} /\ l.mem[a].blockSize <= k.mem[a].blockSize
        /\ l.mem[c].blockSize <= k.mem[a].blockSize
    BY <1>0, <1>1, <1>2, <1>3 DEF Merged
  <1>5. \A x \in H : k.mem[x].blockSize = l.mem[x].blockSize
    BY <1>0, <1>1, <1>2 DEF Merged
  <1>6. /\ Gathered(l, k, N, N \ {c}, H, total, a)
        /\ Gathered(l, k, N, N \ {c}, H, total, c)
    BY <1>1, <1>4, <1>5 DEF Gathered, Merged
  <1> QED
    BY <1>0, <1>1, <1>2, <1>3, <1>6 DEF Merged, MergeDone

(* Node was joined with the one above it, and nothing else touches upwards. *)
Upper(l, k, N, M, H, total, node) ==
    /\ Gathered(l, k, N, M, H, total, node)
    /\ node \in M /\ l.mem[node].blockSize <= k.mem[node].blockSize
    /\ \A x \in N : x < node => x \in M /\ k.mem[x].blockSize = l.mem[x].blockSize
    /\ \A a, c \in M : Touches(k.mem, a, c) => c = node

(* The first half of Coalescence: afterwards only the node itself is       *)
(* touched.                                                                *)
LEMMA UpIs ==
    ASSUME NEW l, NEW N, NEW H, NEW total, Laid(l, N, H, total),
           NEW node \in N, AllButJoined(l.mem, N, node),
           NEW k, k = Up(l, node)
    PROVE  \E M : Upper(l, k, N, M, H, total, node)
  <1> DEFINE next == l.mem[node].next
  <1>1. /\ N \in SUBSET Nat
        /\ \A x \in N : l.mem[x].blockSize \in Nat /\ 16 <= l.mem[x].blockSize
        /\ \A x, y \in N : x < y => x + l.mem[x].blockSize <= y
    BY LaidFacts
  <1>2. Above(N, node, next) /\ Null \notin Nat
    BY DEF Laid, Linked, Null
  <1> HIDE DEF next
  <1>3. \A a, c \in N : Touches(l.mem, a, c) => a = node \/ c = node
    BY DEF AllButJoined
  <1>4. CASE next # Null /\ Touches(l.mem, node, next)
    <2>1. next \in N
      BY <1>2, <1>4 DEF Above
    <2>2. k = Merge(l, node, next)
      BY <1>4 DEF Up, next
    <2>3. /\ Gathered(l, k, N, N \ {next}, H, total, node)
          /\ k.mem[node].blockSize = l.mem[node].blockSize + l.mem[next].blockSize
          /\ \A x \in N : x # node => k.mem[x].blockSize = l.mem[x].blockSize
          /\ node < next
      <3>1. MergeStep(l, k, N, H, total, node, next)
        BY <1>4, <2>1, <2>2 DEF MergeStep
      <3>2. MergeDone(l, k, N, H, total, node, next)
        BY <3>1, GatheredMerge
      <3> QED
        BY <3>2 DEF MergeDone
    <2>4. next = node + l.mem[node].blockSize
      BY <1>4 DEF Touches
    <2>5. ASSUME NEW a \in N \ {next}, NEW c \in N \ {next}, Touches(k.mem, a, c)
          PROVE  c = node
      <3>1. CASE a = node
        <4>1. Touches(l.mem, next, c)
          BY <1>1, <2>1, <2>3, <2>4, <2>5, <3>1 DEF Touches
        <4>2. next # node
          BY <1>1, <2>1, <2>3
        <4> QED
          BY <1>3, <2>1, <4>1, <4>2
      <3>2. CASE a # node
        <4>1. Touches(l.mem, a, c)
          BY <2>3, <2>5, <3>2 DEF Touches
        <4> QED
          BY <1>3, <3>2, <4>1
      <3> QED
        BY <3>1, <3>2
    <2>6. node \in N \ {next} /\ l.mem[node].blockSize <= k.mem[node].blockSize
      BY <1>1, <2>1, <2>3
    <2>7. \A x \in N : x < node => x \in N \ {next} /\ k.mem[x].blockSize = l.mem[x].blockSize
      BY <1>1, <2>1, <2>3
    <2>8. Upper(l, k, N, N \ {next}, H, total, node)
      BY <2>3, <2>5, <2>6, <2>7 DEF Upper
    <2> QED
      BY <2>8
  <1>5. CASE ~(next # Null /\ Touches(l.mem, node, next))
    <2>1. k = l
      BY <1>5 DEF Up, next
    <2>2. ASSUME NEW a \in N, NEW c \in N, Touches(l.mem, a, c) PROVE c = node
      <3>1. CASE a = node
        <4>1. c = node + l.mem[node].blockSize /\ node < c
          BY <1>1, <2>2, <3>1 DEF Touches
        <4>2. next \in N /\ node < next /\ next <= c
          BY <1>1, <1>2, <4>1 DEF Above
        <4>3. next = c
          <5>1. next \in N /\ node \in N /\ (node < next => node + l.mem[node].blockSize <= next)
            BY <1>1, <4>2
          <5>2. next \in Nat /\ c \in Nat
            BY <1>1, <2>2, <4>2
          <5> QED
            BY ONLY <4>1, <4>2, <5>1, <5>2
        <4> QED
          BY <1>1, <1>2, <1>5, <2>2, <3>1, <4>2, <4>3
      <3> QED
        BY <1>3, <2>2, <3>1
    <2>3. Gathered(l, k, N, N, H, total, node)
      BY <2>1, GatheredNone
    <2>4. l.mem[node].blockSize <= k.mem[node].blockSize
      BY <1>1, <2>1
    <2>5. /\ \A x \in N : x < node => x \in N /\ k.mem[x].blockSize = l.mem[x].blockSize
          /\ \A a, c \in N : Touches(k.mem, a, c) => c = node
      BY <2>1, <2>2
    <2>6. Upper(l, k, N, N, H, total, node)
      BY <2>3, <2>4, <2>5 DEF Upper
    <2> QED
      BY <2>6
  <1> QED
    BY <1>4, <1>5

(* Coalescence joins a node with those that touch it.                      *)
LEMMA CoalescenceIs ==
    ASSUME NEW l, NEW N, NEW H, NEW total, Laid(l, N, H, total),
           NEW node \in N, AllButJoined(l.mem, N, node),
           NEW p \in N \union {Null}, Above(N, p, node),
           NEW k, k = Coalescence(l, p, node)
    PROVE  \E M : Gathered(l, k, N, M, H, total, node) /\ Joined(k.mem, M)
  <1>1. PICK j : j = Up(l, node)
    OBVIOUS
  <1>2. k = Down(j, p, node)
    BY <1>1, TwoHalves
  <1>3. PICK M : /\ Gathered(l, j, N, M, H, total, node)
                 /\ node \in M /\ l.mem[node].blockSize <= j.mem[node].blockSize
                 /\ \A x \in N : x < node => x \in M
                                    /\ j.mem[x].blockSize = l.mem[x].blockSize
                 /\ \A a, c \in M : Touches(j.mem, a, c) => c = node
    <2>1. PICK M : Upper(l, j, N, M, H, total, node)
      BY <1>1, UpIs
    <2> QED
      BY <2>1 DEF Upper
  <1>4. /\ Laid(j, M, H, total) /\ M \subseteq N
        /\ Bytes(j.mem, M) = Bytes(l.mem, N)
        /\ DOMAIN j.mem = DOMAIN l.mem
        /\ \A x \in H : j.mem[x].blockSize = l.mem[x].blockSize
    BY <1>3 DEF Gathered
  <1>5. /\ M \in SUBSET Nat
        /\ \A x \in M : j.mem[x].blockSize \in Nat /\ 16 <= j.mem[x].blockSize
        /\ \A x, y \in M : x < y => x + j.mem[x].blockSize <= y
    BY <1>4, LaidFacts
  <1>6. N \in SUBSET Nat /\ l.mem[node].blockSize \in Nat /\ Null \notin Nat
    BY LaidFacts DEF Null
  <1>7. CASE p # Null /\ Touches(j.mem, p, node)
    <2>1. p \in N /\ p < node /\ p \in M
      BY <1>3, <1>6, <1>7 DEF Above
    <2>2. k = Merge(j, p, node)
      BY <1>2, <1>7 DEF Down
    <2>3. /\ Gathered(j, k, M, M \ {node}, H, total, node)
          /\ k.mem[p].blockSize = j.mem[p].blockSize + j.mem[node].blockSize
          /\ \A x \in M : x # p => k.mem[x].blockSize = j.mem[x].blockSize
      <3>1. MergeStep(j, k, M, H, total, p, node)
        BY <1>3, <1>4, <1>7, <2>1, <2>2 DEF MergeStep
      <3>2. MergeDone(j, k, M, H, total, p, node)
        BY <3>1, GatheredMerge
      <3> QED
        BY <3>2 DEF MergeDone
    <2>4. PICK y \in M \ {node} : j.mem[node].blockSize <= k.mem[y].blockSize
      BY <2>3 DEF Gathered
    <2>5. k.mem[y].blockSize \in Nat
      <3>1. Laid(k, M \ {node}, H, total)
        BY <2>3 DEF Gathered
      <3> QED
        BY <3>1, LaidFacts
    <2>6. l.mem[node].blockSize <= k.mem[y].blockSize
      BY <1>3, <1>5, <1>6, <2>4, <2>5
    <2>7. Gathered(l, k, N, M \ {node}, H, total, node)
      BY <1>4, <2>3, <2>6 DEF Gathered
    <2>8. ASSUME NEW a \in M \ {node}, NEW c \in M \ {node}, Touches(k.mem, a, c)
          PROVE  FALSE
      <3>1. CASE a = p
        <4>1. Touches(j.mem, node, c)
          BY <1>3, <1>5, <1>7, <2>1, <2>3, <2>8, <3>1 DEF Touches
        <4> QED
          BY <1>3, <4>1
      <3>2. CASE a # p
        <4>1. Touches(j.mem, a, c)
          BY <2>3, <2>8, <3>2 DEF Touches
        <4> QED
          BY <1>3, <4>1
      <3> QED
        BY <3>1, <3>2
    <2>9. Joined(k.mem, M \ {node})
      BY <2>8 DEF Joined
    <2> QED
      BY <2>7, <2>9
  <1>8. CASE ~(p # Null /\ Touches(j.mem, p, node))
    <2>1. k = j
      BY <1>2, <1>8 DEF Down
    <2>2. ASSUME NEW a \in M, NEW c \in M, Touches(j.mem, a, c) PROVE FALSE
      <3>1. c = node
        BY <1>3, <2>2
      <3>2. a + j.mem[a].blockSize = node /\ a < node /\ a \in N
        BY <1>3, <1>4, <1>5, <2>2, <3>1 DEF Touches
      <3>3. p \in N /\ p < node /\ a <= p
        <4>1. p # Null
          BY <1>6, <3>2 DEF Above, Null
        <4> QED
          BY <1>6, <3>2, <4>1 DEF Above
      <3>4. p \in M
        BY <1>3, <3>3
      <3>5. a = p
        BY <1>5, <1>6, <3>2, <3>3, <3>4
      <3> QED
        BY <1>6, <1>8, <2>2, <3>1, <3>3, <3>5
    <2>3. Joined(k.mem, M)
      BY <2>1, <2>2 DEF Joined
    <2> QED
      BY <1>3, <2>1, <2>3
  <1> QED
    BY <1>7, <1>8

-----------------------------------------------------------------------------
(* A piece becomes a node                                                  *)

(* There is room for a piece at new, apart from those at P.                *)
RoomAt(m, P, total, new, size) ==
    /\ Word(total) /\ Word(new) /\ Word(size) /\ NodeSize <= size
    /\ new \notin P /\ new + size <= total
    /\ \A x \in P : x < new => x + m[x].blockSize <= new
    /\ \A x \in P : new < x => new + size <= x

Extended(l, k, N, H, total, new, size) ==
    /\ Laid(k, N \union {new}, H, total)
    /\ SizedAs(l, k, new, size)
    /\ Bytes(k.mem, N \union {new}) = size + Bytes(l.mem, N)

(* A piece where there is room for it overlaps no other.                   *)
LEMMA TiledMore ==
    ASSUME NEW m, NEW n, NEW P, NEW small, Tiled(m, P, small),
           NEW total, NEW new, NEW size, small <= total, RoomAt(m, P, total, new, size),
           n[new].blockSize = size, \A x \in P : n[x].blockSize = m[x].blockSize
    PROVE  Tiled(n, P \union {new}, total)
  <1>1. /\ small \in Nat /\ total \in Nat /\ new \in Nat /\ size \in Nat
        /\ \A x \in P : x \in Nat /\ m[x].blockSize \in Nat
    BY DEF Tiled, RoomAt, Word
  <1>2. ASSUME NEW x \in P \union {new}
        PROVE  /\ Word(x) /\ Word(n[x].blockSize) /\ NodeSize <= n[x].blockSize
               /\ x + n[x].blockSize <= total
    <2>1. CASE x = new
      BY <2>1 DEF RoomAt
    <2>2. CASE x \in P
      <3>1. /\ Word(x) /\ Word(m[x].blockSize) /\ NodeSize <= m[x].blockSize
            /\ x + m[x].blockSize <= small /\ n[x].blockSize = m[x].blockSize
        BY <2>2 DEF Tiled
      <3> QED
        BY <1>1, <2>2, <3>1
    <2> QED
      BY <2>1, <2>2
  <1>3. ASSUME NEW x \in P \union {new}, NEW y \in P \union {new}, x < y
        PROVE  x + n[x].blockSize <= y
    <2>1. CASE x \in P /\ y \in P
      BY <1>3, <2>1 DEF Tiled
    <2>2. CASE x = new /\ y \in P
      BY <1>3, <2>2 DEF RoomAt
    <2>3. CASE x \in P /\ y = new
      BY <1>3, <2>3 DEF RoomAt
    <2> QED
      BY <1>1, <1>3, <2>1, <2>2, <2>3
  <1> QED
    BY <1>2, <1>3 DEF Tiled, RoomAt

(* Inserting a node where there is room for it, as Free and Reallocate do. *)
LEMMA ExtendIs ==
    ASSUME NEW l, NEW N, NEW H, NEW small, Laid(l, N, H, small),
           NEW total, small <= total, NEW new, NEW size,
           RoomAt(l.mem, N \union H, total, new, size),
           NEW p \in N \union {Null}, Above(N \union {new}, p, new),
           NEW k, k = InsertNode(l, p, new, size)
    PROVE  Extended(l, k, N, H, total, new, size)
  <1>1. /\ N \subseteq DOMAIN l.mem /\ H \subseteq DOMAIN l.mem /\ N \intersect H = {}
        /\ Sized(l.mem, N) /\ Linked(l, N) /\ Tiled(l.mem, N \union H, small)
    BY LaidFacts DEF Laid
  <1>2. new \in Nat \ N /\ size \in Nat /\ new \notin H
    BY DEF RoomAt, Word
  <1>3. Linked(k, N \union {new}) /\ SizedAs(l, k, new, size)
    BY <1>1, <1>2, InsertIs
  <1>4. /\ k.mem[new].blockSize = size
        /\ \A x \in N \union H : k.mem[x].blockSize = l.mem[x].blockSize
    BY <1>1, <1>2, <1>3 DEF SizedAs
  <1>5. Tiled(k.mem, (N \union H) \union {new}, total)
    BY <1>1, <1>4, TiledMore
  <1>6. (N \union H) \union {new} = (N \union {new}) \union H
    OBVIOUS
  <1>7. Laid(k, N \union {new}, H, total)
    <2>1. H \subseteq DOMAIN k.mem /\ (N \union {new}) \intersect H = {}
      BY <1>1, <1>2, <1>3 DEF SizedAs
    <2> QED
      BY <1>3, <1>5, <1>6, <2>1 DEF Laid
  <1>8. Bytes(k.mem, N \union {new}) = size + Bytes(l.mem, N)
    <2>1. Sized(k.mem, N)
      BY <1>1, <1>4 DEF Sized
    <2>2. Bytes(k.mem, N \union {new}) = k.mem[new].blockSize + Bytes(k.mem, N)
      BY <1>2, <1>4, <2>1, BytesMore
    <2>3. Bytes(k.mem, N) = Bytes(l.mem, N)
      BY <1>4, BytesSame
    <2> QED
      BY <1>4, <2>2, <2>3
  <1> QED
    BY <1>3, <1>7, <1>8 DEF Extended

(* A new node is the only one that may touch others.                       *)
LEMMA OnlyNewTouches ==
    ASSUME NEW l, NEW k, NEW N, NEW H, NEW total, NEW new, NEW size,
           N \subseteq DOMAIN l.mem, new \notin N,
           Extended(l, k, N, H, total, new, size), Joined(l.mem, N)
    PROVE  AllButJoined(k.mem, N \union {new}, new)
  <1>1. ASSUME NEW a \in N, NEW c \in N, Touches(k.mem, a, c) PROVE FALSE
    <2>1. k.mem[a].blockSize = l.mem[a].blockSize
      BY DEF Extended, SizedAs
    <2>2. Touches(l.mem, a, c)
      BY <1>1, <2>1 DEF Touches
    <2> QED
      BY <2>2 DEF Joined
  <1> QED
    BY <1>1 DEF AllButJoined

-----------------------------------------------------------------------------
(* Find and Reallocate                                                     *)

(* Blocks in whole words, alignments of a word at most.                    *)
WholeWords ==
    /\ Policy = "FIND_FIRST"
    /\ \A size \in Sizes : size % 8 = 0
    /\ \A alignment \in Alignments : alignment <= 8
    /\ InitialSize % 8 = 0 /\ NodeSize <= InitialSize

FoundPlace(l, N, size, place) ==
    /\ place.found \in N \union {Null}
    /\ place.found = Null => \A a \in N : l.mem[a].blockSize < size + HeaderSize
    /\ place.found # Null =>
          /\ size + HeaderSize <= l.mem[place.found].blockSize
          /\ place.padding = HeaderSize
          /\ place.previous \in N \union {Null}
          /\ Above(N, place.previous, place.found)

(* The least of some numbers is one of them.                               *)
LEMMA MinIs ==
    ASSUME NEW S \in SUBSET Nat, S # {}
    PROVE  Min(S) \in S /\ \A x \in S : Min(S) <= x
  <1>1. \E x \in S : \A y \in S : x <= y
    BY Least
  <1> QED
    BY <1>1 DEF Min

(* In a node on a word, the padding is the header.                         *)
LEMMA PaddingIs ==
    ASSUME NEW base, Word(base)
    PROVE  PaddingAt(base, 8) = HeaderSize
  <1> DEFINE q == base \div 8
  <1>1. base \in Nat /\ q \in Nat /\ base = 8 * q
    BY DEF Word
  <1>2. CalculatePadding(base, 8) = 8
    BY <1>1 DEF CalculatePadding
  <1> QED
    BY <1>2 DEF PaddingAt, CalculatePaddingWithHeader, HeaderSize

(* FindFirst finds a node the block fits in and the node before it, or     *)
(* there is none.                                                          *)
LEMMA FindIs ==
    ASSUME Policy = "FIND_FIRST",
           NEW l, NEW N, Linked(l, N), \A a \in N : Word(a) /\ l.mem[a].blockSize \in Nat,
           NEW size \in Nat, NEW place, place = Find(l, size, 8)
    PROVE  FoundPlace(l, N, size, place)
  <1> PICK s : s = NodesOf(l)
    OBVIOUS
  <1>1. Runs(s, N) /\ N \in SUBSET Nat /\ Null \notin Nat
    BY NodesRun DEF Linked, IsList, Null
  <1>2. /\ Len(s) \in Nat /\ DOMAIN s = 1 .. Len(s)
        /\ \A k \in 1 .. Len(s) : s[k] \in N
        /\ \A x \in N : \E i \in 1 .. Len(s) : s[i] = x
    BY <1>1 DEF Runs
  <1>3. \A k \in 1 .. Len(s) : PaddingAt(s[k], 8) = HeaderSize
    BY <1>2, PaddingIs
  <1> PICK F : F = Fitting(l, s, size, 8)
    OBVIOUS
  <1>4. F = {k \in 1 .. Len(s) : l.mem[s[k]].blockSize >= size + HeaderSize}
    BY <1>2, <1>3 DEF Fitting
  <1>5. place = IF F = {} THEN NotFound(s)
                ELSE [found |-> s[Min(F)], padding |-> PaddingAt(s[Min(F)], 8),
                      previous |-> Before(s, Min(F))]
    BY DEF Find, FindFirst
  <1>6. CASE F = {}
    <2>1. place.found = Null
      BY <1>5, <1>6 DEF NotFound
    <2>2. ASSUME NEW a \in N PROVE l.mem[a].blockSize < size + HeaderSize
      <3>1. PICK i \in 1 .. Len(s) : s[i] = a
        BY <1>2
      <3>2. ~(l.mem[a].blockSize >= size + HeaderSize)
        BY <1>4, <1>6, <3>1
      <3> QED
        BY <3>2 DEF HeaderSize
    <2> QED
      BY <2>1, <2>2 DEF FoundPlace
  <1>7. CASE F # {}
    <2>1. PICK k \in F : k = Min(F)
      <3>1. F \in SUBSET Nat
        BY <1>4
      <3> QED
        BY <1>7, <3>1, MinIs
    <2>2. k \in 1 .. Len(s) /\ l.mem[s[k]].blockSize >= size + HeaderSize /\ s[k] \in N
      BY <1>2, <1>4, <2>1
    <2>3. /\ place.found = s[k] /\ place.padding = HeaderSize
          /\ place.previous = Before(s, k)
      BY <1>3, <1>5, <1>7, <2>1, <2>2
    <2>4. Before(s, k) \in N \union {Null} /\ Above(N, Before(s, k), s[k])
      BY <1>1, <2>2, BeforeIs
    <2>5. size + HeaderSize <= l.mem[s[k]].blockSize
      BY <2>2 DEF HeaderSize
    <2>6. s[k] # Null
      BY <1>1, <2>2
    <2> QED
      BY <2>2, <2>3, <2>4, <2>5, <2>6 DEF FoundPlace
  <1> QED
    BY <1>6, <1>7

(* Reallocate adds room, at the end and apart from all pieces.             *)
LEMMA ReallocateIs ==
    ASSUME NEW l, NEW N, NEW H, Laid(l, N, H, totalSize), Joined(l.mem, N),
           NEW size, Word(size), NodeSize <= size,
           NEW k, k = Reallocate(l, size)
    PROVE  \E M : /\ Laid(k, M, H, NewSize(size)) /\ Joined(k.mem, M)
                  /\ Bytes(k.mem, M) = Bytes(l.mem, N) + (NewSize(size) - totalSize)
                  /\ \A x \in H : k.mem[x].blockSize = l.mem[x].blockSize
                  /\ \E x \in M : size + HeaderSize <= k.mem[x].blockSize
  <1>1. /\ N \in SUBSET Nat /\ totalSize \in Nat /\ Linked(l, N)
        /\ N \subseteq DOMAIN l.mem /\ H \subseteq DOMAIN l.mem
        /\ \A a \in N \union H : /\ a \in Nat /\ l.mem[a].blockSize \in Nat
                                 /\ 16 <= l.mem[a].blockSize
                                 /\ a + l.mem[a].blockSize <= totalSize
        /\ Sized(l.mem, N)
    BY LaidFacts DEF Laid
  <1>2. Word(totalSize) /\ size \in Nat /\ 16 <= size
    BY DEF Laid, Tiled, Word, NodeSize
  <1> DEFINE total == NewSize(size)
             more == total - totalSize
             last == Before(NodesOf(l), Len(NodesOf(l)) + 1)
             g == InsertNode(l, last, totalSize, more)
  <1>3. /\ Word(total) /\ Word(more) /\ 16 <= more /\ more = totalSize + size * 2
        /\ total = totalSize + more /\ more \in Nat
    <2>1. total = (totalSize + size) * 2 /\ total = totalSize + (totalSize + size * 2)
      BY <1>1, <1>2 DEF NewSize
    <2>2. Word((totalSize + size) * 2) /\ Word(totalSize + size * 2)
      BY <1>2, WordFacts
    <2>3. more = totalSize + size * 2
      BY <1>1, <1>2, <2>1
    <2> HIDE DEF total, more
    <2> QED
      BY <1>1, <1>2, <2>1, <2>2, <2>3
  <1>4. last \in N \union {Null} /\ Above(N, last, Null)
    BY <1>1, NodesRun, BeforeIs
  <1>5. k = Coalescence(g, last, totalSize)
    BY DEF Reallocate
  <1> HIDE DEF total, more, last
  <1>6. totalSize \notin N \union H /\ \A x \in N \union H : x < totalSize
    BY <1>1
  <1>7. Above(N \union {totalSize}, last, totalSize)
    <2>1. last < totalSize /\ \A x \in N : x <= last
      BY <1>1, <1>4, <1>6 DEF Above, Null
    <2>2. \A x \in N \union {totalSize} : last < x => totalSize <= x
      <3>1. last \in Int
        BY <1>1, <1>4 DEF Null
      <3> QED
        BY <1>1, <2>1, <3>1
    <2> QED
      BY <2>1, <2>2 DEF Above
  <1>8. RoomAt(l.mem, N \union H, total, totalSize, more)
    <2>1. ASSUME NEW x \in N \union H
          PROVE  x + l.mem[x].blockSize <= totalSize /\ ~(totalSize < x)
      <3>1. x \in Nat /\ x < totalSize /\ x + l.mem[x].blockSize <= totalSize
        BY <1>1, <1>6
      <3> QED
        BY <1>1, <3>1
    <2>2. totalSize + more <= total
      BY <1>1, <1>3
    <2> QED
      BY <1>2, <1>3, <1>6, <2>1, <2>2 DEF RoomAt, NodeSize
  <1>9. Extended(l, g, N, H, total, totalSize, more)
    <2>1. totalSize <= total
      BY <1>1, <1>3
    <2> HIDE DEF g
    <2>2. g = InsertNode(l, last, totalSize, more)
      BY DEF g
    <2> QED
      BY <1>4, <1>7, <1>8, <2>1, <2>2, ExtendIs
  <1> HIDE DEF g
  <1>10. AllButJoined(g.mem, N \union {totalSize}, totalSize)
    BY <1>1, <1>6, <1>9, OnlyNewTouches
  <1>11. PICK M : Gathered(g, k, N \union {totalSize}, M, H, total, totalSize)
                  /\ Joined(k.mem, M)
    <2>1. Laid(g, N \union {totalSize}, H, total)
      BY <1>9 DEF Extended
    <2>2. last \in (N \union {totalSize}) \union {Null} /\ totalSize \in N \union {totalSize}
      BY <1>4
    <2> QED
      BY <1>5, <1>7, <1>10, <2>1, <2>2, CoalescenceIs
  <1>12. Laid(k, M, H, total)
    BY <1>11 DEF Gathered
  <1>13. Bytes(k.mem, M) = Bytes(l.mem, N) + more
    <2>1. Bytes(k.mem, M) = more + Bytes(l.mem, N)
      BY <1>9, <1>11 DEF Gathered, Extended
    <2>2. Bytes(l.mem, N) \in Nat
      BY <1>1, BytesNat
    <2> QED
      BY <1>3, <2>1, <2>2
  <1>14. \A x \in H : k.mem[x].blockSize = l.mem[x].blockSize
    BY <1>1, <1>6, <1>9, <1>11 DEF Gathered, Extended, SizedAs
  <1>15. \E x \in M : size + HeaderSize <= k.mem[x].blockSize
    <2>1. PICK x \in M : g.mem[totalSize].blockSize <= k.mem[x].blockSize
      BY <1>11 DEF Gathered
    <2>2. g.mem[totalSize].blockSize = more
      BY <1>9 DEF Extended, SizedAs
    <2>3. k.mem[x].blockSize \in Nat
      BY <1>12, LaidFacts
    <2>4. size + 8 <= k.mem[x].blockSize
      BY <1>1, <1>2, <1>3, <2>1, <2>2, <2>3
    <2> QED
      BY <2>4 DEF HeaderSize
  <1> QED
    BY <1>11, <1>12, <1>13, <1>14, <1>15 DEF total, more

-----------------------------------------------------------------------------
(* What is kept                                                            *)

KeptAs(k, n, M, H, total) ==
    /\ Laid(n, M, H, total)
    /\ DOMAIN n.mem = M \union H
    /\ \A x \in M \union H : n.mem[x].blockSize = k.mem[x].blockSize

(* What is forgotten after a step is read by nobody: the layout is the     *)
(* same.                                                                   *)
LEMMA KeptIs ==
    ASSUME NEW k, NEW M, NEW bs, NEW total, Laid(k, M, Heads(bs), total),
           NEW n, n = [head |-> k.head, mem |-> Kept(k, bs)]
    PROVE  KeptAs(k, n, M, Heads(bs), total)
  <1> PICK H : H = Heads(bs)
    OBVIOUS
  <1> DEFINE D == M \union H
             cell(a) == IF a \in M THEN k.mem[a] ELSE [k.mem[a] EXCEPT !.next = Null]
             m == [a \in D |-> cell(a)]
  <1>1. /\ IsList(k) /\ Linked(k, M) /\ M \in SUBSET Nat /\ H \in SUBSET Nat
        /\ M \subseteq DOMAIN k.mem /\ H \subseteq DOMAIN k.mem /\ M \intersect H = {}
        /\ Tiled(k.mem, D, total)
    <2>1. Laid(k, M, H, total)
      OBVIOUS
    <2>2. /\ IsList(k) /\ M \in SUBSET Nat /\ H \in SUBSET Nat
          /\ M \subseteq DOMAIN k.mem /\ H \subseteq DOMAIN k.mem /\ M \intersect H = {}
      BY ONLY <2>1, LaidFacts
    <2>3. Linked(k, M) /\ Tiled(k.mem, D, total)
      BY <2>1 DEF Laid
    <2> QED
      BY <2>2, <2>3
  <1>2. ToSet(NodesOf(k)) = M
    BY <1>1, NodesRun, RunsRange
  <1>3. n = [head |-> k.head, mem |-> m]
    BY <1>2 DEF Kept, Heads
  <1>4. /\ k.head \in Nat \union {Null} /\ IsFiniteSet(DOMAIN k.mem)
        /\ \A a \in D : k.mem[a] \in Cells
    BY <1>1, ListParts
  <1>5. \A a \in D : cell(a) \in Cells /\ cell(a).blockSize = k.mem[a].blockSize
    BY <1>4 DEF Cells
  <1>6. m \in [D -> Cells] /\ \A a \in D : m[a] = cell(a)
    BY <1>5
  <1>7. \A a \in M : m[a].next = k.mem[a].next
    OBVIOUS
  <1> HIDE DEF m, cell
  <1>8. D \in SUBSET Nat /\ IsFiniteSet(D)
    BY <1>1, <1>4, FS_Subset
  <1>9. IsList(n) /\ n.head = k.head /\ n.mem = m /\ DOMAIN n.mem = D
    <2> HIDE DEF D
    <2> QED
      BY <1>3, <1>4, <1>6, <1>8, ListIs
  <1>10. Linked(n, M)
    BY <1>1, <1>7, <1>9, LinkedSame
  <1>11. \A x \in D : n.mem[x].blockSize = k.mem[x].blockSize
    BY <1>5, <1>6, <1>9
  <1>12. Tiled(n.mem, D, total)
    BY <1>1, <1>11 DEF Tiled
  <1>13. Laid(n, M, H, total)
    BY <1>1, <1>9, <1>10, <1>12 DEF Laid
  <1> QED
    BY <1>9, <1>11, <1>13 DEF KeptAs

-----------------------------------------------------------------------------
(* Cutting a block                                                         *)

(* A piece is cut in two.                                                  *)
SplitSizes(m, n, P, node, size, rest) ==
    /\ node \in P /\ m[node].blockSize = size + rest
    /\ Word(size) /\ Word(rest) /\ NodeSize <= size /\ NodeSize <= rest
    /\ n[node].blockSize = size /\ n[node + size].blockSize = rest
    /\ \A x \in P : x # node => n[x].blockSize = m[x].blockSize

(* The two parts of a piece that was cut overlap nothing.                  *)
LEMMA TiledSplit ==
    ASSUME NEW m, NEW n, NEW P, NEW total, NEW node, NEW size, NEW rest,
           Tiled(m, P, total), SplitSizes(m, n, P, node, size, rest)
    PROVE  /\ Tiled(n, P \union {node + size}, total)
           /\ node + size \notin P /\ node < node + size
  <1> PICK new : new = node + size
    OBVIOUS
  <1>1. /\ Word(total) /\ total \in Nat
        /\ \A x \in P : /\ Word(x) /\ Word(m[x].blockSize) /\ 16 <= m[x].blockSize
                        /\ x + m[x].blockSize <= total
                        /\ x \in Nat /\ m[x].blockSize \in Nat
        /\ \A x, y \in P : x < y => x + m[x].blockSize <= y
    BY DEF Tiled, NodeSize, Word
  <1>2. /\ node \in P /\ m[node].blockSize = size + rest
        /\ Word(size) /\ Word(rest) /\ 16 <= size /\ 16 <= rest
        /\ size \in Nat /\ rest \in Nat
        /\ n[node].blockSize = size /\ n[new].blockSize = rest
        /\ \A x \in P : x # node => n[x].blockSize = m[x].blockSize
    BY DEF SplitSizes, NodeSize, Word
  <1>3. /\ new \in Nat /\ node < new /\ Word(new)
        /\ new + rest = node + m[node].blockSize
    BY <1>1, <1>2, WordFacts
  <1>4. ASSUME NEW x \in P, x > node PROVE new + rest <= x
    BY <1>1, <1>2, <1>3, <1>4
  <1>5. new \notin P
    BY <1>2, <1>3, <1>4
  <1>6. ASSUME NEW x \in P \union {new}
        PROVE  /\ Word(x) /\ Word(n[x].blockSize) /\ NodeSize <= n[x].blockSize
               /\ x + n[x].blockSize <= total
    <2>1. CASE x = new
      BY <1>1, <1>2, <1>3, <2>1 DEF NodeSize
    <2>2. CASE x = node
      BY <1>1, <1>2, <2>2 DEF NodeSize
    <2>3. CASE x \in P /\ x # node
      BY <1>1, <1>2, <2>3 DEF NodeSize
    <2> QED
      BY <2>1, <2>2, <2>3
  <1>7. ASSUME NEW x \in P \union {new}, NEW y \in P \union {new}, x < y
        PROVE  x + n[x].blockSize <= y
    <2>1. CASE x = new
      BY <1>1, <1>2, <1>3, <1>4, <1>7, <2>1
    <2>2. CASE x = node /\ y # new
      BY <1>1, <1>2, <1>3, <1>4, <1>7, <2>2
    <2>3. CASE x = node /\ y = new
      BY <1>1, <1>2, <1>3, <2>3
    <2>4. CASE x \in P /\ x # node /\ y # new
      BY <1>1, <1>2, <1>7, <2>4
    <2>5. CASE x \in P /\ x # node /\ y = new
      <3>1. x < node
        BY <1>1, <1>2, <1>3, <1>4, <1>7, <2>5
      <3>2. x + m[x].blockSize <= node
        BY <1>1, <1>2, <2>5, <3>1
      <3> QED
        BY <1>1, <1>2, <1>3, <2>5, <3>2
    <2> QED
      BY <2>1, <2>2, <2>3, <2>4, <2>5
  <1>8. Tiled(n, P \union {new}, total)
    BY <1>1, <1>6, <1>7 DEF Tiled
  <1> QED
    BY <1>3, <1>5, <1>8

(* A node that was cut in two loses the bytes of its first part.           *)
LEMMA BytesSplit ==
    ASSUME NEW m, NEW n, NEW N, NEW node, NEW size, NEW rest, Sized(m, N),
           SplitSizes(m, n, N, node, size, rest), node + size \notin N, node \in Nat
    PROVE  Bytes(m, N) = Bytes(n, (N \ {node}) \union {node + size}) + size
  <1> PICK R : R = N \ {node}
    OBVIOUS
  <1> PICK new : new = node + size
    OBVIOUS
  <1>1. /\ node \in N /\ m[node].blockSize = size + rest /\ n[new].blockSize = rest
        /\ size \in Nat /\ rest \in Nat
        /\ \A x \in R : n[x].blockSize = m[x].blockSize
    BY DEF SplitSizes, Word
  <1>2. Without(R, N, node)
    BY <1>1 DEF Without
  <1>3. Bytes(m, N) = size + rest + Bytes(m, R) /\ Bytes(m, R) \in Nat
    BY <1>1, <1>2, BytesLess
  <1>4. Bytes(n, R) = Bytes(m, R)
    BY <1>1, BytesSame
  <1>5. Sized(n, R) /\ new \notin R
    <2>1. IsFiniteSet(R)
      BY FS_RemoveElement DEF Sized
    <2> QED
      BY <1>1, <2>1 DEF Sized
  <1>6. Bytes(n, R \union {new}) = rest + Bytes(n, R)
    BY <1>1, <1>5, BytesMore
  <1> QED
    BY <1>1, <1>3, <1>4, <1>6

(* A block was cut from node, which became its header.                     *)
Cutting(l, k, N, M, H, total, node, size) ==
    /\ Laid(k, M, H \union {node}, total) /\ Joined(k.mem, M)
    /\ Bytes(l.mem, N) = Bytes(k.mem, M) + size
    /\ k.mem[node].blockSize = size
    /\ \A x \in H : k.mem[x].blockSize = l.mem[x].blockSize

(* The cell of a header is written.                                        *)
LEMMA HeaderIs ==
    ASSUME NEW l, NEW N, Linked(l, N), NEW node \in DOMAIN l.mem, node \notin N,
           NEW cell \in Cells, NEW k, k = [l EXCEPT !.mem = Put(@, node, cell)]
    PROVE  Linked(k, N) /\ SizedAs(l, k, node, cell.blockSize)
  <1> PICK D : D = DOMAIN l.mem
    OBVIOUS
  <1> DEFINE m == Put(l.mem, node, cell)
  <1>1. /\ D \in SUBSET Nat /\ IsFiniteSet(D) /\ l.mem \in [D -> Cells]
        /\ l.head \in Nat \union {Null} /\ l = [head |-> l.head, mem |-> l.mem]
    BY ListParts DEF Linked
  <1>2. k = [head |-> l.head, mem |-> m]
    <2> HIDE DEF m
    <2>1. k = [l EXCEPT !.mem = m]
      BY DEF m
    <2> QED
      BY <1>1, <2>1
  <1>3. D \union {node} = D
    OBVIOUS
  <1>4. /\ m \in [D -> Cells] /\ m[node] = cell
        /\ \A x \in D : x # node => m[x] = l.mem[x]
    BY <1>1, <1>3 DEF Put
  <1> HIDE DEF m
  <1>5. IsList(k) /\ k.head = l.head /\ k.mem = m /\ DOMAIN k.mem = D
    BY <1>1, <1>2, <1>4, ListIs
  <1>6. N \subseteq DOMAIN k.mem /\ \A x \in N : k.mem[x].next = l.mem[x].next
    BY <1>4, <1>5 DEF Linked
  <1>7. Linked(k, N)
    BY <1>5, <1>6, LinkedSame
  <1>8. SizedAs(l, k, node, cell.blockSize)
    BY <1>3, <1>4, <1>5 DEF SizedAs
  <1> QED
    BY <1>7, <1>8

(* What Allocate writes to the address of a header.                        *)
HeaderCell(j, node, size) ==
    [blockSize |-> size, padding |-> 0,
     next |-> IF node \in DOMAIN j.mem THEN j.mem[node].next ELSE Null]

(* What is written to a header is a cell.                                  *)
LEMMA HeaderCellIs ==
    ASSUME NEW j, IsList(j), NEW node, NEW size \in Nat
    PROVE  HeaderCell(j, node, size) \in Cells
           /\ HeaderCell(j, node, size).blockSize = size
  <1>1. node \in DOMAIN j.mem => j.mem[node].next \in Nat \union {Null}
    BY ListParts, CellParts
  <1> QED
    BY <1>1 DEF HeaderCell, Cells

(* The node is used whole.                                                 *)
LEMMA CutWhole ==
    ASSUME NEW l, NEW N, NEW H, NEW total, Laid(l, N, H, total), Joined(l.mem, N),
           NEW node \in N, NEW p \in N \union {Null}, Above(N, p, node),
           NEW j, j = RemoveNode(l, p, node),
           NEW k, k = [j EXCEPT !.mem = Put(@, node, HeaderCell(j, node, l.mem[node].blockSize))]
    PROVE  Cutting(l, k, N, N \ {node}, H, total, node, l.mem[node].blockSize)
  <1> PICK M : M = N \ {node}
    OBVIOUS
  <1>1. /\ Linked(l, N) /\ N \subseteq DOMAIN l.mem /\ H \subseteq DOMAIN l.mem
        /\ N \intersect H = {} /\ Sized(l.mem, N) /\ Tiled(l.mem, N \union H, total)
        /\ l.mem[node].blockSize \in Nat
    BY LaidFacts DEF Laid
  <1>2. Linked(j, M) /\ SameSizes(l, j)
    BY <1>1, RemoveIs
  <1>3. Linked(k, M) /\ SizedAs(j, k, node, l.mem[node].blockSize)
    <2>2. PICK cell \in Cells : cell = HeaderCell(j, node, l.mem[node].blockSize)
                                /\ cell.blockSize = l.mem[node].blockSize
      BY <1>1, <1>2, HeaderCellIs DEF Linked
    <2>1. node \in DOMAIN j.mem /\ node \notin M
      BY <1>1, <1>2 DEF SameSizes
    <2> QED
      BY <1>2, <2>1, <2>2, HeaderIs
  <1>4. /\ DOMAIN k.mem = DOMAIN l.mem
        /\ \A x \in DOMAIN l.mem : k.mem[x].blockSize = l.mem[x].blockSize
    BY <1>1, <1>2, <1>3 DEF SameSizes, SizedAs
  <1>5. Laid(k, M, H \union {node}, total)
    <2>1. N \union H = M \union (H \union {node}) /\ M \intersect (H \union {node}) = {}
          /\ H \union {node} \subseteq DOMAIN k.mem
      BY <1>1, <1>4
    <2>2. Tiled(k.mem, N \union H, total)
      BY <1>1, <1>4 DEF Tiled
    <2> QED
      BY <1>3, <2>1, <2>2 DEF Laid
  <1>6. Joined(k.mem, M)
    BY <1>1, <1>4 DEF Joined, Touches
  <1>7. Bytes(l.mem, N) = Bytes(k.mem, M) + l.mem[node].blockSize
    <2>1. Without(M, N, node)
      BY DEF Without
    <2>2. /\ Bytes(l.mem, N) = l.mem[node].blockSize + Bytes(l.mem, M)
          /\ Bytes(l.mem, M) \in Nat
      <3>1. Sized(l.mem, N)
        BY <1>1
      <3> QED
        BY ONLY <2>1, <3>1, BytesLess
    <2>3. Bytes(k.mem, M) = Bytes(l.mem, M)
      <3>1. \A x \in M : k.mem[x].blockSize = l.mem[x].blockSize
        BY <1>1, <1>4
      <3> QED
        BY <3>1, BytesSame
    <2> QED
      BY <1>1, <2>2, <2>3
  <1>8. \A x \in H : k.mem[x].blockSize = l.mem[x].blockSize
    BY <1>1, <1>4
  <1>9. k.mem[node].blockSize = l.mem[node].blockSize
    BY <1>1, <1>4
  <1> QED
    BY <1>5, <1>6, <1>7, <1>8, <1>9 DEF Cutting

(* The rest of the node becomes a node.                                    *)
LEMMA CutSplit ==
    ASSUME NEW l, NEW N, NEW H, NEW total, Laid(l, N, H, total), Joined(l.mem, N),
           NEW node \in N, NEW p \in N \union {Null}, Above(N, p, node),
           NEW size, NEW rest, Word(size), Word(rest),
           NodeSize <= size, NodeSize <= rest, l.mem[node].blockSize = size + rest,
           NEW i, i = InsertNode(l, node, node + size, rest),
           NEW j, j = RemoveNode(i, p, node),
           NEW k, k = [j EXCEPT !.mem = Put(@, node, HeaderCell(j, node, size))]
    PROVE  \E M : Cutting(l, k, N, M, H, total, node, size)
  <1> PICK new : new = node + size
    OBVIOUS
  <1> PICK M : M = (N \ {node}) \union {new}
    OBVIOUS
  <1>1. /\ Linked(l, N) /\ N \subseteq DOMAIN l.mem /\ H \subseteq DOMAIN l.mem
        /\ N \intersect H = {} /\ Sized(l.mem, N) /\ Tiled(l.mem, N \union H, total)
        /\ N \in SUBSET Nat
        /\ \A x \in N \union H : x \in Nat /\ l.mem[x].blockSize \in Nat
        /\ \A x, y \in N \union H : x < y => x + l.mem[x].blockSize <= y
    BY LaidFacts DEF Laid
  <1>2. /\ size \in Nat /\ rest \in Nat /\ 16 <= size /\ 16 <= rest
        /\ new \in Nat /\ node < new /\ node \in Nat
    BY <1>1 DEF Word, NodeSize
  <1>3. ASSUME NEW x \in N \union H, node < x PROVE new < x /\ new + rest <= x
    <2>1. node + l.mem[node].blockSize <= x /\ x \in Nat
      BY <1>1, <1>3
    <2> QED
      BY <1>2, <2>1
  <1>4. new \notin N \union H
    BY <1>2, <1>3
  <1>5. Above(N \union {new}, node, new)
    <2>1. \A x \in N \union {new} : node < x => new <= x
      BY <1>1, <1>2, <1>3
    <2> QED
      BY <1>2, <2>1 DEF Above
  <1>6. Linked(i, N \union {new}) /\ SizedAs(l, i, new, rest)
    <2>1. new \in Nat \ N /\ node \in N \union {Null}
      BY <1>2, <1>4
    <2> QED
      BY <1>1, <1>2, <1>5, <2>1, InsertIs
  <1>7. Above(N \union {new}, p, node)
    <2>1. node # Null /\ p \in Int /\ \A x \in N : p < x => node <= x
      BY <1>1, <1>2 DEF Above, Null
    <2>2. p < node
      BY <1>2, <2>1 DEF Above
    <2>3. \A x \in N \union {new} : p < x => node <= x
      BY <1>2, <2>1
    <2> QED
      BY <2>2, <2>3 DEF Above
  <1>8. Linked(j, M) /\ SameSizes(i, j)
    <2>1. M = (N \union {new}) \ {node}
      BY <1>2
    <2>2. p \in (N \union {new}) \union {Null} /\ node \in N \union {new}
      OBVIOUS
    <2> QED
      BY <1>6, <1>7, <2>1, <2>2, RemoveIs
  <1>9. Linked(k, M) /\ SizedAs(j, k, node, size)
    <2>1. node \in DOMAIN j.mem /\ node \notin M
      BY <1>1, <1>2, <1>6, <1>8 DEF SameSizes, SizedAs
    <2>2. PICK cell \in Cells : cell = HeaderCell(j, node, size) /\ cell.blockSize = size
      BY <1>2, <1>8, HeaderCellIs DEF Linked
    <2> QED
      BY <1>8, <2>1, <2>2, HeaderIs
  <1>10. /\ DOMAIN k.mem = DOMAIN l.mem \union {new}
         /\ k.mem[new].blockSize = rest /\ k.mem[node].blockSize = size
         /\ \A x \in DOMAIN l.mem : x # node /\ x # new
                => k.mem[x].blockSize = l.mem[x].blockSize
    <2>1. /\ DOMAIN i.mem = DOMAIN l.mem \union {new} /\ i.mem[new].blockSize = rest
          /\ \A x \in DOMAIN l.mem : x # new => i.mem[x].blockSize = l.mem[x].blockSize
      BY <1>6 DEF SizedAs
    <2>2. /\ DOMAIN j.mem = DOMAIN i.mem
          /\ \A x \in DOMAIN i.mem : j.mem[x].blockSize = i.mem[x].blockSize
      BY <1>8 DEF SameSizes
    <2>3. /\ DOMAIN k.mem = DOMAIN j.mem \union {node} /\ k.mem[node].blockSize = size
          /\ \A x \in DOMAIN j.mem : x # node => k.mem[x].blockSize = j.mem[x].blockSize
      BY <1>9 DEF SizedAs
    <2>4. node \in DOMAIN l.mem /\ node # new
      BY <1>1, <1>2
    <2>5. DOMAIN k.mem = DOMAIN l.mem \union {new}
      BY <2>1, <2>2, <2>3, <2>4
    <2> QED
      BY <2>1, <2>2, <2>3, <2>4, <2>5
  <1>11. \A x \in N \union H : x # node => k.mem[x].blockSize = l.mem[x].blockSize
    BY <1>1, <1>4, <1>10
  <1>12. /\ SplitSizes(l.mem, k.mem, N \union H, node, size, rest)
         /\ SplitSizes(l.mem, k.mem, N, node, size, rest)
    BY <1>10, <1>11 DEF SplitSizes
  <1>13. Laid(k, M, H \union {node}, total)
    <2>1. Tiled(k.mem, (N \union H) \union {new}, total)
      BY <1>1, <1>12, TiledSplit
    <2>2. /\ (N \union H) \union {new} = M \union (H \union {node})
          /\ M \intersect (H \union {node}) = {}
          /\ H \union {node} \subseteq DOMAIN k.mem
      BY <1>1, <1>2, <1>4, <1>10
    <2> QED
      BY <1>9, <2>1, <2>2 DEF Laid
  <1>14. Bytes(l.mem, N) = Bytes(k.mem, M) + size
    BY <1>1, <1>2, <1>4, <1>12, BytesSplit
  <1>15. ASSUME NEW a \in M, NEW c \in M, Touches(k.mem, a, c) PROVE FALSE
    <2>1. CASE a = new
      <3>1. c \in N
        BY <1>2, <1>10, <1>15, <2>1 DEF Touches
      <3>2. Touches(l.mem, node, c)
        BY <1>2, <1>10, <1>15, <2>1 DEF Touches
      <3> QED
        BY <3>1, <3>2 DEF Joined
    <2>2. CASE a # new /\ c # new
      <3>1. a \in N /\ c \in N /\ Touches(l.mem, a, c)
        BY <1>11, <1>15, <2>2 DEF Touches
      <3> QED
        BY <3>1 DEF Joined
    <2>3. CASE a # new /\ c = new
      <3>1. a \in N /\ a # node /\ a \in Nat
            /\ l.mem[a].blockSize \in Nat /\ a + l.mem[a].blockSize = new
        BY <1>1, <1>11, <1>15, <2>3 DEF Touches
      <3>2. a < node
        BY <1>2, <1>3, <3>1
      <3>3. a + l.mem[a].blockSize <= node
        BY <1>1, <3>1, <3>2
      <3> QED
        BY <1>2, <3>1, <3>3
    <2> QED
      BY <2>1, <2>2, <2>3
  <1>16. Joined(k.mem, M)
    BY <1>15 DEF Joined
  <1>17. \A x \in H : k.mem[x].blockSize = l.mem[x].blockSize
    BY <1>1, <1>11
  <1>18. Cutting(l, k, N, M, H, total, node, size)
    BY <1>10, <1>13, <1>14, <1>16, <1>17 DEF Cutting
  <1> QED
    BY <1>18

(* The list once the header is written.                                    *)
Written(t) == [t.list EXCEPT !.mem = Put(@, t.header,
    [blockSize |-> t.blockSize, padding |-> t.padding,
     next |-> IF t.header \in DOMAIN t.list.mem THEN t.list.mem[t.header].next ELSE Null])]

(* How Allocate cuts a node, split or whole.                               *)
WholeAt(l, k, N, H, total, node, p) ==
    /\ Laid(l, N, H, total) /\ Joined(l.mem, N)
    /\ node \in N /\ p \in N \union {Null} /\ Above(N, p, node)
    /\ k = LET j == RemoveNode(l, p, node)
           IN  [j EXCEPT !.mem = Put(@, node, HeaderCell(j, node, l.mem[node].blockSize))]

SplitAt(l, k, N, H, total, node, p, size, rest) ==
    /\ Laid(l, N, H, total) /\ Joined(l.mem, N)
    /\ node \in N /\ p \in N \union {Null} /\ Above(N, p, node)
    /\ Word(size) /\ Word(rest) /\ NodeSize <= size /\ NodeSize <= rest
    /\ l.mem[node].blockSize = size + rest
    /\ k = LET j == RemoveNode(InsertNode(l, node, node + size, rest), p, node)
           IN  [j EXCEPT !.mem = Put(@, node, HeaderCell(j, node, size))]

(* CutWhole, of a named situation.                                         *)
LEMMA WholeIs ==
    ASSUME NEW l, NEW k, NEW N, NEW H, NEW total, NEW node, NEW p,
           WholeAt(l, k, N, H, total, node, p)
    PROVE  \E M : Cutting(l, k, N, M, H, total, node, l.mem[node].blockSize)
  <1> PICK j : j = RemoveNode(l, p, node)
    OBVIOUS
  <1>1. /\ Laid(l, N, H, total) /\ Joined(l.mem, N)
        /\ node \in N /\ p \in N \union {Null} /\ Above(N, p, node)
        /\ k = [j EXCEPT !.mem = Put(@, node, HeaderCell(j, node, l.mem[node].blockSize))]
    BY DEF WholeAt
  <1>2. Cutting(l, k, N, N \ {node}, H, total, node, l.mem[node].blockSize)
    BY <1>1, CutWhole
  <1> QED
    BY <1>2

(* CutSplit, of a named situation.                                         *)
LEMMA SplitIs ==
    ASSUME NEW l, NEW k, NEW N, NEW H, NEW total, NEW node, NEW p, NEW size, NEW rest,
           SplitAt(l, k, N, H, total, node, p, size, rest)
    PROVE  \E M : Cutting(l, k, N, M, H, total, node, size)
  <1> PICK i : i = InsertNode(l, node, node + size, rest)
    OBVIOUS
  <1> PICK j : j = RemoveNode(i, p, node)
    OBVIOUS
  <1>1. /\ Laid(l, N, H, total) /\ Joined(l.mem, N)
        /\ node \in N /\ p \in N \union {Null} /\ Above(N, p, node)
        /\ Word(size) /\ Word(rest) /\ NodeSize <= size /\ NodeSize <= rest
        /\ l.mem[node].blockSize = size + rest
        /\ k = [j EXCEPT !.mem = Put(@, node, HeaderCell(j, node, size))]
    BY DEF SplitAt
  <1> QED
    BY <1>1, CutSplit

(* Allocate cuts the block from the node Find found, whole or split, with  *)
(* no padding but the header, and the block fits.                          *)
LEMMA TakenIs ==
    ASSUME NEW l, NEW N, NEW H, NEW total, Laid(l, N, H, total), Joined(l.mem, N),
           NEW size, Word(size), NodeSize <= size,
           NEW place, FoundPlace(l, N, size, place), place.found # Null,
           NEW t, t = Taken(l, place, size, total), NEW k, k = Written(t)
    PROVE  /\ \E M : Cutting(l, k, N, M, H, total, place.found, t.blockSize)
           /\ t.header = place.found /\ t.padding = 0 /\ t.blockSize \in Nat
           /\ size + HeaderSize <= t.blockSize
  <1> PICK node : node = place.found
    OBVIOUS
  <1> PICK p : p = place.previous
    OBVIOUS
  <1> PICK full : full = l.mem[node].blockSize
    OBVIOUS
  <1>1. /\ node \in N /\ size + HeaderSize <= full /\ place.padding = HeaderSize
        /\ p \in N \union {Null} /\ Above(N, p, node)
    BY DEF FoundPlace
  <1>2. node \in Nat /\ full \in Nat /\ size \in Nat
    BY <1>1, LaidFacts DEF Word
  <1> DEFINE req == size + HeaderSize
             rest == AtLeast(full - req, 0)
             split == Splits(l, node, req, total)
  <1>3. req \in Nat /\ rest \in Nat /\ full = req + rest /\ rest = full - req
    BY <1>1, <1>2 DEF AtLeast, HeaderSize
  <1>4. place.padding - HeaderSize = 0 /\ size + place.padding = req /\ node + 0 = node
    BY <1>1, <1>2 DEF HeaderSize
  <1> HIDE DEF req, rest, split
  <1>5. t = [list |-> RemoveNode(IF split THEN InsertNode(l, node, node + req, rest) ELSE l,
                                 p, node),
             header |-> node, padding |-> 0,
             blockSize |-> IF split THEN req ELSE full]
    BY <1>2, <1>4 DEF Taken, split, rest
  <1>6. k = [t.list EXCEPT !.mem = Put(@, node, HeaderCell(t.list, node, t.blockSize))]
    BY <1>5 DEF Written, HeaderCell
  <1>7. CASE split
    <2>1. NodeSize <= rest
      BY <1>7 DEF Splits, split, rest, NodeSize
    <2>2. Word(req) /\ Word(rest) /\ NodeSize <= req
      <3>1. Word(full)
        BY <1>1 DEF Laid, Tiled
      <3>2. Word(req)
        BY WordFacts DEF req, HeaderSize
      <3>3. Word(rest)
        <4>1. req <= full
          BY <1>2, <1>3
        <4>2. Word(full - req)
          BY <3>1, <3>2, <4>1, WordFacts
        <4> QED
          BY <1>3, <4>2
      <3>4. NodeSize <= req
        BY <1>2 DEF req, NodeSize, HeaderSize
      <3> QED
        BY <3>2, <3>3, <3>4
    <2>3. t.blockSize = req /\ t.header = node /\ t.padding = 0
      BY <1>5, <1>7
    <2>4. t.list = RemoveNode(InsertNode(l, node, node + req, rest), p, node)
      BY <1>5, <1>7
    <2>5. SplitAt(l, k, N, H, total, node, p, req, rest)
      BY <1>1, <1>3, <1>6, <2>1, <2>2, <2>3, <2>4 DEF SplitAt
    <2>6. \E M : Cutting(l, k, N, M, H, total, node, req)
      BY <2>5, SplitIs
    <2>7. size + HeaderSize <= req
      BY <1>2 DEF req, HeaderSize
    <2> QED
      BY <1>3, <2>3, <2>6, <2>7
  <1>8. CASE ~split
    <2>1. t.blockSize = full /\ t.header = node /\ t.padding = 0
      BY <1>5, <1>8
    <2>2. t.list = RemoveNode(l, p, node)
      BY <1>5, <1>8
    <2>3. WholeAt(l, k, N, H, total, node, p)
      BY <1>1, <1>6, <2>1, <2>2 DEF WholeAt
    <2>4. \E M : Cutting(l, k, N, M, H, total, node, full)
      BY <2>3, WholeIs
    <2> QED
      BY <1>1, <1>2, <2>1, <2>4
  <1> QED
    BY <1>7, <1>8

(* A step ends with list k, of which it keeps what is read again.          *)
Leaves(k, M) ==
    /\ Laid(k, M, Heads(blocks'), totalSize') /\ Joined(k.mem, M)
    /\ head' = k.head /\ mem' = Kept(k, blocks')

(* What Kept leaves is laid out the same.                                  *)
LEMMA Settles ==
    ASSUME NEW k, NEW M, Leaves(k, M)
    PROVE  /\ Laid(list, Nodes, Heads(blocks), totalSize)' /\ Joined(mem', Nodes')
           /\ Bytes(mem', Nodes') = Bytes(k.mem, M)
           /\ Bytes(mem', Heads(blocks')) = Bytes(k.mem, Heads(blocks'))
           /\ \A x \in Heads(blocks') : mem'[x].blockSize = k.mem[x].blockSize
  <1> /\ Laid(k, M, Heads(blocks'), totalSize') /\ Joined(k.mem, M)
      /\ head' = k.head /\ mem' = Kept(k, blocks')
    BY DEF Leaves
  <1> PICK n : n = [head |-> k.head, mem |-> Kept(k, blocks')]
    OBVIOUS
  <1> PICK H : H = Heads(blocks')
    OBVIOUS
  <1>1. KeptAs(k, n, M, H, totalSize')
    BY KeptIs
  <1>2. list' = n /\ n.mem = mem'
    BY DEF list
  <1>3. M \intersect H = {}
    BY LaidFacts
  <1>4. Nodes' = M
    BY <1>1, <1>2, <1>3 DEF Nodes, KeptAs
  <1>5. Laid(list', Nodes', H, totalSize')
    BY <1>1, <1>2, <1>4 DEF KeptAs
  <1>6. \A x \in M \union H : mem'[x].blockSize = k.mem[x].blockSize
    BY <1>1, <1>2 DEF KeptAs
  <1>7. Joined(mem', M)
    BY <1>6 DEF Joined, Touches
  <1>8. Bytes(mem', M) = Bytes(k.mem, M) /\ Bytes(mem', H) = Bytes(k.mem, H)
    BY <1>6, BytesSame
  <1> QED
    BY <1>4, <1>5, <1>6, <1>7, <1>8

(* The counts of a list that accounts for the buffer are natural numbers.  *)
LEMMA ReadyFacts ==
    ASSUME NEW l, NEW N, NEW total, Ready(l, N, total)
    PROVE  /\ used \in Nat /\ lost \in Nat /\ peak \in Nat /\ total \in Nat
           /\ Bytes(l.mem, N) \in Nat /\ used <= peak /\ peak <= total
           /\ used + lost + Bytes(l.mem, N) = total
           /\ total <= MaxTotal /\ MaxTotal \in Nat /\ 16 <= total
  <1>1. Sized(l.mem, N) /\ Sized(l.mem, Heads(blocks)) /\ total \in Nat
    BY LaidFacts DEF Ready
  <1>2. used \in Nat /\ Bytes(l.mem, N) \in Nat
    BY <1>1, BytesNat DEF Ready
  <1> QED
    BY <1>1, <1>2, FreeListAssumption DEF Ready, NodeSize

(* Cutting a block from the node that was found.                           *)
LEMMA CutLemma ==
    ASSUME NEW l, NEW N, NEW total, Ready(l, N, total),
           NEW size, Word(size), NodeSize <= size, NEW asked \in Nat, asked <= size,
           NEW place, FoundPlace(l, N, size, place), place.found # Null,
           CutBlock(l, place, asked, size, total)
    PROVE  Ready(list, Nodes, totalSize)'
  <1> PICK H : H = Heads(blocks)
    OBVIOUS
  <1> PICK t : t = Taken(l, place, size, total)
    OBVIOUS
  <1> PICK k : k = Written(t)
    OBVIOUS
  <1> PICK node : node = place.found
    OBVIOUS
  <1> PICK b : b = [at |-> node + HeaderSize, size |-> asked]
    OBVIOUS
  <1>1. /\ Laid(l, N, H, total) /\ Joined(l.mem, N) /\ Housed(l.mem, blocks)
        /\ used = Bytes(l.mem, H) /\ total \in NodeSize .. MaxTotal
    BY DEF Ready
  <1>2. /\ used \in Nat /\ lost \in Nat /\ peak \in Nat /\ total \in Nat
        /\ Bytes(l.mem, N) \in Nat /\ used <= peak /\ peak <= total
        /\ used + lost + Bytes(l.mem, N) = total
    BY ReadyFacts
  <1>3. PICK M : Cutting(l, k, N, M, H, total, node, t.blockSize)
    BY <1>1, TakenIs
  <1>4. /\ t.header = node /\ t.padding = 0 /\ t.blockSize \in Nat
        /\ size + HeaderSize <= t.blockSize
    BY <1>1, TakenIs
  <1>5. node \in N /\ node \in Nat /\ node \notin H
    BY <1>1, LaidFacts DEF FoundPlace
  <1>6. /\ head' = k.head /\ blocks' = blocks \union {b} /\ mem' = Kept(k, blocks')
        /\ used' = used + (t.blockSize + 0) /\ peak' = AtLeast(peak, used')
        /\ totalSize' = total /\ lost' = lost
    BY <1>4 DEF CutBlock, Charge, Written
  <1>7. Heads(blocks') = H \union {node}
    <2>1. b.at - HeaderSize = node
      BY <1>5 DEF HeaderSize
    <2> QED
      BY <1>6, <2>1 DEF Heads
  <1>8. /\ Laid(k, M, H \union {node}, total) /\ Joined(k.mem, M)
        /\ Bytes(l.mem, N) = Bytes(k.mem, M) + t.blockSize
        /\ k.mem[node].blockSize = t.blockSize
        /\ \A x \in H : k.mem[x].blockSize = l.mem[x].blockSize
    BY <1>3 DEF Cutting
  <1>9. /\ Laid(list, Nodes, Heads(blocks), totalSize)' /\ Joined(mem', Nodes')
        /\ Bytes(mem', Nodes') = Bytes(k.mem, M)
        /\ Bytes(mem', Heads(blocks')) = Bytes(k.mem, Heads(blocks'))
        /\ \A x \in Heads(blocks') : mem'[x].blockSize = k.mem[x].blockSize
    <2>1. Leaves(k, M)
      BY <1>6, <1>7, <1>8 DEF Leaves
    <2> QED
      BY <2>1, Settles
  <1>10. used' = Bytes(mem', Heads(blocks'))
    <2>1. Sized(k.mem, H)
      <3>1. Sized(l.mem, H)
        BY <1>1, LaidFacts
      <3> QED
        BY <1>8, <3>1 DEF Sized
    <2>2. Bytes(k.mem, H \union {node}) = t.blockSize + Bytes(k.mem, H)
      <3>1. k.mem[node].blockSize \in Nat /\ node \notin H
        BY <1>4, <1>5, <1>8
      <3>2. Bytes(k.mem, H \union {node}) = k.mem[node].blockSize + Bytes(k.mem, H)
        BY <2>1, <3>1, BytesMore
      <3> QED
        BY <1>8, <3>2
    <2>3. Bytes(k.mem, H) = used
      BY <1>1, <1>8, BytesSame
    <2> QED
      <3>1. Bytes(mem', Heads(blocks')) = t.blockSize + used
        BY <1>7, <1>9, <2>2, <2>3
      <3> QED
        BY <1>2, <1>4, <1>6, <3>1
  <1>11. Bytes(mem', Nodes') \in Nat
    BY <1>2, <1>4, <1>8, <1>9, LaidFacts, BytesNat
  <1>12. used' + lost' + Bytes(mem', Nodes') = total
    BY <1>2, <1>4, <1>6, <1>8, <1>9, <1>11
  <1>13. peak' \in used' .. total
    BY <1>2, <1>4, <1>6, <1>11, <1>12 DEF AtLeast
  <1>14. \A c \in blocks' : /\ c.at \in Nat /\ HeaderSize <= c.at /\ c.size \in Nat
                            /\ c.size + HeaderSize <= mem'[c.at - HeaderSize].blockSize
    <2>1. /\ b.at \in Nat /\ HeaderSize <= b.at /\ b.size = asked /\ b.at - HeaderSize = node
      BY <1>5 DEF HeaderSize
    <2>2. mem'[node].blockSize = t.blockSize
      BY <1>7, <1>8, <1>9
    <2>3. b.size + HeaderSize <= mem'[node].blockSize
      BY <1>4, <2>1, <2>2 DEF HeaderSize, Word
    <2>4. ASSUME NEW c \in blocks
          PROVE  mem'[c.at - HeaderSize].blockSize = l.mem[c.at - HeaderSize].blockSize
      BY <1>7, <1>8, <1>9 DEF Heads
    <2>5. ASSUME NEW c \in blocks
          PROVE  /\ c.at \in Nat /\ HeaderSize <= c.at /\ c.size \in Nat
                 /\ c.size + HeaderSize <= mem'[c.at - HeaderSize].blockSize
      BY <1>1, <2>4 DEF Housed
    <2> QED
      BY <1>6, <2>1, <2>3, <2>5
  <1>15. \A c, d \in blocks' : c.at = d.at => c = d
    <2>1. ASSUME NEW c \in blocks, c.at = b.at PROVE FALSE
      <3>1. c.at - HeaderSize \in H
        BY DEF Heads
      <3>2. b.at - HeaderSize = node
        BY <1>5 DEF HeaderSize
      <3> QED
        BY <1>5, <2>1, <3>1, <3>2
    <2> QED
      BY <1>1, <1>6, <2>1 DEF Housed
  <1>16. Housed(mem', blocks')
    BY <1>14, <1>15 DEF Housed
  <1>17. list'.mem = mem'
    BY DEF list
  <1> QED
    BY <1>1, <1>2, <1>6, <1>9, <1>10, <1>12, <1>13, <1>16, <1>17 DEF Ready

(* Growing keeps the account, and leaves room for the block.               *)
LEMMA GrowLemma ==
    ASSUME NEW l, NEW N, Ready(l, N, totalSize),
           NEW size, Word(size), NodeSize <= size, NewSize(size) <= MaxTotal,
           NEW k, k = Reallocate(l, size)
    PROVE  \E M : /\ Ready(k, M, NewSize(size))
                  /\ \E x \in M : size + HeaderSize <= k.mem[x].blockSize
  <1> PICK H : H = Heads(blocks)
    OBVIOUS
  <1> PICK total : total = NewSize(size)
    OBVIOUS
  <1>1. /\ Laid(l, N, H, totalSize) /\ Joined(l.mem, N) /\ Housed(l.mem, blocks)
        /\ used = Bytes(l.mem, H) /\ lost \in Nat
    BY DEF Ready
  <1>2. /\ used \in Nat /\ lost \in Nat /\ peak \in Nat /\ totalSize \in Nat
        /\ Bytes(l.mem, N) \in Nat /\ used <= peak /\ peak <= totalSize
        /\ used + lost + Bytes(l.mem, N) = totalSize
        /\ MaxTotal \in Nat /\ 16 <= totalSize
    BY ReadyFacts
  <1>3. PICK M : /\ Laid(k, M, H, total) /\ Joined(k.mem, M)
                 /\ Bytes(k.mem, M) = Bytes(l.mem, N) + (total - totalSize)
                 /\ \A x \in H : k.mem[x].blockSize = l.mem[x].blockSize
                 /\ \E x \in M : size + HeaderSize <= k.mem[x].blockSize
    BY <1>1, ReallocateIs
  <1>4. total \in Nat /\ totalSize <= total /\ total <= MaxTotal
    BY <1>2 DEF NewSize, Word
  <1>5. Housed(k.mem, blocks)
    BY <1>1, <1>3 DEF Housed, Heads
  <1>6. used = Bytes(k.mem, H)
    BY <1>1, <1>3, BytesSame
  <1>7. used + lost + Bytes(k.mem, M) = total
    BY <1>2, <1>3, <1>4
  <1>8. peak \in used .. total /\ total \in NodeSize .. MaxTotal
    BY <1>2, <1>4 DEF NodeSize
  <1>9. Ready(k, M, total)
    BY <1>1, <1>3, <1>5, <1>6, <1>7, <1>8 DEF Ready
  <1> QED
    BY <1>3, <1>9

(* What Allocate asks Find for, under WholeWords: whole words, a node at   *)
(* least, on a word.                                                       *)
LEMMA AskedIs ==
    ASSUME WholeWords, NEW asked \in Sizes, NEW alignment \in Alignments
    PROVE  /\ Word(AtLeast(asked, NodeSize)) /\ NodeSize <= AtLeast(asked, NodeSize)
           /\ asked \in Nat /\ asked <= AtLeast(asked, NodeSize)
           /\ AtLeast(alignment, 8) = 8
  <1>1. asked \in Nat /\ asked % 8 = 0 /\ alignment \in Nat /\ alignment <= 8
    BY FreeListAssumption DEF WholeWords
  <1> QED
    BY <1>1 DEF AtLeast, NodeSize, Word

(* What Find returns for a list that accounts for the buffer.              *)
LEMMA FoundIs ==
    ASSUME WholeWords, NEW l, NEW N, NEW total, Ready(l, N, total), NEW size, Word(size)
    PROVE  FoundPlace(l, N, size, Find(l, size, 8))
  <1>1. Linked(l, N) /\ \A a \in N : Word(a) /\ l.mem[a].blockSize \in Nat
    BY DEF Ready, Laid, Tiled, Word
  <1> QED
    BY <1>1, FindIs DEF WholeWords, Word

(* Allocate.                                                               *)
LEMMA AllocateLemma ==
    ASSUME WholeWords, FreeInv,
           NEW asked \in Sizes, NEW minAlignment \in Alignments, Allocate(asked, minAlignment)
    PROVE  FreeInv'
  <1> PICK size : size = AtLeast(asked, NodeSize)
    OBVIOUS
  <1> PICK grows : grows = (reallocatable /\ Find(list, size, 8).found = Null)
    OBVIOUS
  <1> PICK l : l = IF grows THEN Reallocate(list, size) ELSE list
    OBVIOUS
  <1> PICK total : total = IF grows THEN NewSize(size) ELSE totalSize
    OBVIOUS
  <1> PICK place : place = Find(l, size, 8)
    OBVIOUS
  <1>1. /\ Word(size) /\ NodeSize <= size /\ asked \in Nat /\ asked <= size
        /\ AtLeast(minAlignment, 8) = 8
    BY AskedIs
  <1>2. /\ ~failed /\ total <= MaxTotal
        /\ \/ place.found # Null /\ CutBlock(l, place, asked, size, total)
           \/ place.found = Null /\ OutOfMemory
    BY <1>1 DEF Allocate
  <1>3. /\ reallocatable \in BOOLEAN /\ failed \in BOOLEAN
        /\ Ready(list, Nodes, totalSize)
    BY DEF FreeInv
  <1>4. \E N : /\ Ready(l, N, total)
               /\ grows => \E x \in N : size + HeaderSize <= l.mem[x].blockSize
    <2>1. CASE grows
      BY <1>1, <1>2, <1>3, <2>1, GrowLemma
    <2>2. CASE ~grows
      BY <1>3, <2>2
    <2> QED
      BY <2>1, <2>2
  <1>5. PICK N : /\ Ready(l, N, total)
                 /\ grows => \E x \in N : size + HeaderSize <= l.mem[x].blockSize
    BY <1>4
  <1>6. FoundPlace(l, N, size, place)
    BY <1>1, <1>5, FoundIs
  <1>7. CASE place.found # Null /\ CutBlock(l, place, asked, size, total)
    <2>1. Ready(list, Nodes, totalSize)'
      BY <1>1, <1>5, <1>6, <1>7, CutLemma
    <2>2. reallocatable' = reallocatable /\ failed' = failed
      BY <1>7 DEF CutBlock
    <2> QED
      BY <1>2, <1>3, <2>1, <2>2 DEF FreeInv, GrowthSuffices
  <1>8. CASE place.found = Null /\ OutOfMemory
    <2>1. ~reallocatable
      <3>1. CASE grows
        <4>1. PICK x \in N : size + HeaderSize <= l.mem[x].blockSize
          BY <1>5, <3>1
        <4>2. l.mem[x].blockSize < size + HeaderSize
          BY <1>6, <1>8 DEF FoundPlace
        <4>3. l.mem[x].blockSize \in Nat /\ size + HeaderSize \in Nat
          BY <1>1, <1>5, LaidFacts DEF Ready, Word, HeaderSize
        <4> QED
          BY <4>1, <4>2, <4>3
      <3>2. CASE ~grows
        BY <1>8, <3>2
      <3> QED
        BY <3>1, <3>2
    <2>2. /\ failed' = TRUE /\ reallocatable' = reallocatable /\ totalSize' = totalSize
          /\ used' = used /\ peak' = peak /\ head' = head /\ mem' = mem
          /\ blocks' = blocks /\ lost' = lost
      BY <1>8 DEF OutOfMemory
    <2>3. Ready(list, Nodes, totalSize)'
      <3>1. list' = list /\ Nodes' = Nodes
        BY <2>2 DEF list, Nodes
      <3> QED
        BY <1>3, <2>2, <3>1 DEF Ready
    <2> QED
      BY <1>3, <2>1, <2>2, <2>3 DEF FreeInv, GrowthSuffices
  <1> QED
    BY <1>2, <1>7, <1>8

(* A block is given back between the nodes below and above it.             *)
PlacedAt(s, N, at, h, p) ==
    /\ N \in SUBSET Nat /\ Runs(s, N) /\ h \in Nat \ N /\ at \in Nat
    /\ \A x \in N : at < x <=> h < x
    /\ LET above == {k \in 1 .. Len(s) : at < s[k]}
       IN  p = Before(s, IF above = {} THEN Len(s) + 1 ELSE Min(above))

(* The loop of Free stops at the node right below the block.               *)
LEMMA PlaceIs ==
    ASSUME NEW s, NEW N, NEW at, NEW h, NEW p, PlacedAt(s, N, at, h, p)
    PROVE  /\ p \in N \union {Null} /\ Above(N \union {h}, p, h)
           /\ (\A k \in 1 .. Len(s) : ~(at < s[k])) => Above(N, p, Null)
  <1> PICK above : above = {k \in 1 .. Len(s) : at < s[k]}
    OBVIOUS
  <1>1. /\ N \in SUBSET Nat /\ Runs(s, N) /\ h \in Nat \ N /\ at \in Nat
        /\ \A x \in N : at < x <=> h < x
        /\ p = Before(s, IF above = {} THEN Len(s) + 1 ELSE Min(above))
    BY DEF PlacedAt
  <1>2. /\ Len(s) \in Nat /\ \A k \in 1 .. Len(s) : s[k] \in N
        /\ \A i, j \in 1 .. Len(s) : i < j => s[i] < s[j]
        /\ \A x \in N : \E i \in 1 .. Len(s) : s[i] = x
    BY <1>1 DEF Runs
  <1>0. /\ h \in Int /\ at \in Int /\ Null \in Int /\ Null \notin N /\ Null < h
        /\ \A x \in N : x \in Int /\ Null < x
    BY <1>1 DEF Null
  <1>3. CASE above = {}
    <2>1. p \in N \union {Null} /\ Above(N, p, Null)
      BY <1>1, <1>3, BeforeIs
    <2>2. \A x \in N : ~(h < x)
      BY <1>1, <1>2, <1>3
    <2>3. p < h /\ p \in Int /\ \A x \in N : x <= p
      <3>1. p \in Int /\ \A x \in N : x <= p
        BY <1>0, <2>1 DEF Above
      <3>2. p < h
        BY <1>0, <1>1, <2>1, <2>2
      <3> QED
        BY <3>1, <3>2
    <2>4. \A x \in N \union {h} : p < x => h <= x
      BY <1>0, <2>3
    <2> QED
      BY <2>1, <2>3, <2>4 DEF Above
  <1>4. CASE above # {}
    <2>1. PICK k \in above : k = Min(above) /\ \A i \in above : k <= i
      <3>1. above \in SUBSET Nat
        OBVIOUS
      <3> QED
        BY <1>4, <3>1, MinIs
    <2>2. k \in 1 .. Len(s) /\ s[k] \in N /\ s[k] \in Nat /\ at < s[k] /\ h < s[k]
      BY <1>1, <1>2, <2>1
    <2>3. p \in N \union {Null} /\ Above(N, p, s[k])
      BY <1>1, <1>4, <2>1, <2>2, BeforeIs
    <2>4. p \in Int /\ p < s[k] /\ \A x \in N : p < x => s[k] <= x
      <3>1. p \in Int /\ s[k] # Null
        BY <1>0, <2>2, <2>3
      <3> QED
        BY <2>3, <3>1 DEF Above
    <2>5. p < h
      <3>1. CASE p \in N
        <4>1. ASSUME h < p PROVE FALSE
          <5>1. PICK i \in 1 .. Len(s) : s[i] = p
            BY <1>2, <3>1
          <5>2. i \in above
            BY <1>1, <3>1, <4>1, <5>1
          <5>3. k <= i
            BY <2>1, <5>2
          <5>4. s[k] <= s[i]
            <6>1. s[k] \in Int /\ s[i] \in Int
              BY <1>0, <1>2, <2>2
            <6>2. CASE k = i
              BY <6>1, <6>2
            <6>3. CASE k < i
              BY <1>2, <2>2, <6>1, <6>3
            <6> QED
              BY <2>2, <5>3, <6>2, <6>3
          <5> QED
            BY <2>2, <2>4, <5>1, <5>4
        <4> QED
          BY <1>1, <3>1, <4>1
      <3>2. CASE p = Null
        BY <1>1, <3>2 DEF Null
      <3> QED
        BY <2>3, <3>1, <3>2
    <2>6. \A x \in N \union {h} : p < x => h <= x
      <3>1. s[k] \in Int
        BY <2>2
      <3> QED
        BY <1>0, <2>2, <2>4, <3>1
    <2> QED
      BY <1>4, <2>3, <2>5, <2>6 DEF Above
  <1> QED
    BY <1>3, <1>4

(* The memory in which node p has taken in the piece at h.                 *)
LEMMA MergedCell ==
    ASSUME NEW D, NEW m \in [D -> Cells], NEW p \in D, NEW size \in Nat
    PROVE  Relinked(Resized(m, p, size), p, Null) =
           [x \in D |-> IF x = p THEN [blockSize |-> size, padding |-> 0, next |-> Null]
                        ELSE m[x]]
  <1> PICK next : next = m[p].next
    OBVIOUS
  <1> PICK c : c = [blockSize |-> size, padding |-> 0, next |-> next]
    OBVIOUS
  <1> PICK e : e = [blockSize |-> size, padding |-> 0, next |-> Null]
    OBVIOUS
  <1>1. m[p] = [blockSize |-> m[p].blockSize, padding |-> 0, next |-> next]
    BY CellParts
  <1>2. [m[p] EXCEPT !.blockSize = size] = c
    BY <1>1
  <1>3. Resized(m, p, size) = [x \in D |-> IF x = p THEN c ELSE m[x]]
    BY <1>2 DEF Resized
  <1> PICK r : r = [x \in D |-> IF x = p THEN c ELSE m[x]]
    OBVIOUS
  <1>4. [r[p] EXCEPT !.next = Null] = e
    OBVIOUS
  <1>5. Relinked(r, p, Null) = [x \in D |-> IF x = p THEN e ELSE r[x]]
    BY <1>4 DEF Relinked
  <1>6. [x \in D |-> IF x = p THEN e ELSE r[x]] = [x \in D |-> IF x = p THEN e ELSE m[x]]
    OBVIOUS
  <1> QED
    BY <1>3, <1>5, <1>6

(* A list whose node p takes in the piece at h, after which nothing comes. *)
LEMMA MergedList ==
    ASSUME NEW D, NEW m \in [D -> Cells], NEW head1, NEW p \in D, NEW h \in D,
           p # h, p # Null, m[h].next = Null
    PROVE  Merge([head |-> head1, mem |-> m], p, h) =
           [head |-> head1,
            mem |-> Relinked(Resized(m, p, m[p].blockSize + m[h].blockSize), p, Null)]
  <1> PICK s : s = m[p].blockSize + m[h].blockSize
    OBVIOUS
  <1> PICK r : r = Resized(m, p, s)
    OBVIOUS
  <1>1. m[p].blockSize \in Nat /\ m[h].blockSize \in Nat
    BY CellParts
  <1>2. s \in Nat
    BY <1>1
  <1>3. r[h].next = Null
    BY <1>2, ResizedIs
  <1>4. Merge([head |-> head1, mem |-> m], p, h) = RemoveNode([head |-> head1, mem |-> r], p, h)
    <2>1. [[head |-> head1, mem |-> m] EXCEPT !.mem = r] = [head |-> head1, mem |-> r]
      OBVIOUS
    <2> QED
      BY <2>1 DEF Merge
  <1>5. RemoveNode([head |-> head1, mem |-> r], p, h)
            = [head |-> head1, mem |-> Relinked(r, p, Null)]
    BY <1>3 DEF RemoveNode, Relinked
  <1> QED
    BY <1>4, <1>5

(* Giving a piece to the last node is the same whether the list was        *)
(* extended to it or not.                                                  *)
LEMMA SameMerge ==
    ASSUME NEW l, IsList(l), NEW p \in DOMAIN l.mem, NEW h \in DOMAIN l.mem, p # h,
           p # Null, h \in Nat, l.mem[p].next = Null, NEW size \in Nat,
           NEW i, i = InsertNode(l, p, h, size),
           NEW j, j = [l EXCEPT !.mem = Put(@, h, Node(size, Null))]
    PROVE  Merge(i, p, h) = Merge(j, p, h)
  <1> PICK D : D = DOMAIN l.mem
    OBVIOUS
  <1> PICK c : c = Node(size, Null)
    OBVIOUS
  <1> PICK m : m = l.mem
    OBVIOUS
  <1>1. /\ m \in [D -> Cells] /\ l = [head |-> l.head, mem |-> m] /\ D = D \union {h}
        /\ p \in D /\ h \in D /\ m[p].next = Null /\ m[p].blockSize \in Nat
    BY ListParts, CellParts
  <1>2. c.blockSize = size /\ c.next = Null /\ c \in Cells
    BY DEF Node, Cells
  <1> PICK n : n = Put(Relinked(m, p, h), h, c)
    OBVIOUS
  <1> PICK o : o = Put(m, h, c)
    OBVIOUS
  <1>3. i = [head |-> l.head, mem |-> n] /\ j = [head |-> l.head, mem |-> o]
    BY <1>1 DEF InsertNode, Relinked
  <1>4. /\ Relinked(m, p, h) \in [D -> Cells] /\ Relinked(m, p, h)[p].next = h
        /\ \A x \in D : /\ Relinked(m, p, h)[x].blockSize = m[x].blockSize
                        /\ x # p => Relinked(m, p, h)[x] = m[x]
    BY <1>1, RelinkedIs
  <1>6. /\ o \in [D -> Cells] /\ o[h] = c /\ o[p] = m[p]
        /\ \A x \in D : x # h => o[x] = m[x]
    <2>1. m \in [D -> Cells] /\ o = Put(m, h, c)
      BY <1>1
    <2>2. o \in [D \union {h} -> Cells] /\ o[h] = c /\ \A x \in D : x # h => o[x] = m[x]
      BY <1>2, <2>1 DEF Put
    <2> QED
      BY <1>1, <2>2
  <1>5. /\ n \in [D -> Cells] /\ n[h] = c /\ n[p].next = h /\ n[p].blockSize = m[p].blockSize
        /\ \A x \in D : x # p => n[x] = o[x]
    <2>1. n \in [D \union {h} -> Cells] /\ n[h] = c
          /\ \A x \in D : x # h => n[x] = Relinked(m, p, h)[x]
      <3> PICK q : q = Relinked(m, p, h)
        OBVIOUS
      <3>1. q \in [D -> Cells] /\ n = Put(q, h, c)
        BY <1>4
      <3>2. n \in [D \union {h} -> Cells] /\ n[h] = c /\ \A x \in D : x # h => n[x] = q[x]
        BY <1>2, <3>1 DEF Put
      <3> QED
        BY <3>2
    <2>2. o[h] = c /\ \A x \in D : x # h => o[x] = m[x]
      BY <1>6
    <2> QED
      BY <1>1, <1>4, <2>1, <2>2
  <1> PICK s : s = m[p].blockSize + size
    OBVIOUS
  <1>7. s \in Nat
    BY <1>1
  <1>8. Merge(i, p, h) = [head |-> l.head, mem |-> Relinked(Resized(n, p, s), p, Null)]
    BY <1>1, <1>2, <1>3, <1>5, MergedList
  <1>9. Merge(j, p, h) = [head |-> l.head, mem |-> Relinked(Resized(o, p, s), p, Null)]
    BY <1>1, <1>2, <1>3, <1>6, MergedList
  <1>10. Relinked(Resized(n, p, s), p, Null) = Relinked(Resized(o, p, s), p, Null)
    <2> PICK e : e = [blockSize |-> s, padding |-> 0, next |-> Null]
      OBVIOUS
    <2>1. Relinked(Resized(n, p, s), p, Null) = [x \in D |-> IF x = p THEN e ELSE n[x]]
      <3>1. n \in [D -> Cells] /\ p \in D
        BY <1>1, <1>5
      <3> QED
        BY ONLY <1>7, <3>1, MergedCell, e = [blockSize |-> s, padding |-> 0, next |-> Null]
    <2>2. Relinked(Resized(o, p, s), p, Null) = [x \in D |-> IF x = p THEN e ELSE o[x]]
      <3>1. o \in [D -> Cells] /\ p \in D
        BY <1>1, <1>6
      <3> QED
        BY ONLY <1>7, <3>1, MergedCell, e = [blockSize |-> s, padding |-> 0, next |-> Null]
    <2>3. [x \in D |-> IF x = p THEN e ELSE n[x]] = [x \in D |-> IF x = p THEN e ELSE o[x]]
      BY <1>5
    <2> QED
      BY <2>1, <2>2, <2>3
  <1> QED
    BY <1>8, <1>9, <1>10

(* Forgetting headers keeps the layout.                                    *)
LEMMA LaidFewer ==
    ASSUME NEW l, NEW N, NEW H, NEW total, Laid(l, N, H, total), NEW G \in SUBSET H
    PROVE  Laid(l, N, G, total)
  <1>1. Tiled(l.mem, N \union G, total)
    BY DEF Laid, Tiled
  <1> QED
    BY <1>1 DEF Laid

(* The piece of the block at h, of which G are the others, comes after p.  *)
FreeAt(l, N, H, G, total, p, h, size) ==
    /\ Laid(l, N, H, total) /\ Joined(l.mem, N) /\ Without(G, H, h)
    /\ size = l.mem[h].blockSize
    /\ p \in N \union {Null} /\ Above(N \union {h}, p, h)

(* Nodes gained an amount, and the blocks at G are as they were.           *)
Freed(l, k, N, M, G, total, amount) ==
    /\ Laid(k, M, G, total) /\ Joined(k.mem, M)
    /\ Bytes(k.mem, M) = Bytes(l.mem, N) + amount
    /\ \A x \in G : k.mem[x].blockSize = l.mem[x].blockSize

(* The piece of a block has room among the nodes and the other blocks.     *)
LEMMA FreeAtFacts ==
    ASSUME NEW l, NEW N, NEW H, NEW G, NEW total, NEW p, NEW h, NEW size,
           FreeAt(l, N, H, G, total, p, h, size)
    PROVE  /\ Laid(l, N, G, total) /\ Joined(l.mem, N) /\ Linked(l, N)
           /\ h \in Nat \ N /\ h \in DOMAIN l.mem /\ size \in Nat /\ h \notin G
           /\ N \in SUBSET Nat /\ N \subseteq DOMAIN l.mem /\ G \subseteq DOMAIN l.mem
           /\ IsList(l)
           /\ Bytes(l.mem, N) \in Nat /\ Null \notin N
           /\ p \in N \union {Null} /\ Above(N \union {h}, p, h)
           /\ RoomAt(l.mem, N \union G, total, h, size)
  <1>1. /\ Laid(l, N, H, total) /\ Joined(l.mem, N) /\ h \in H /\ G = H \ {h}
        /\ size = l.mem[h].blockSize
        /\ p \in N \union {Null} /\ Above(N \union {h}, p, h)
    BY DEF FreeAt, Without
  <1>2. /\ IsList(l) /\ N \in SUBSET Nat /\ H \in SUBSET Nat /\ total \in Nat
        /\ N \subseteq DOMAIN l.mem /\ H \subseteq DOMAIN l.mem /\ N \intersect H = {}
        /\ Sized(l.mem, N)
        /\ \A a \in N \union H : a \in Nat /\ l.mem[a].blockSize \in Nat
        /\ \A a, c \in N \union H : a < c => a + l.mem[a].blockSize <= c
    BY <1>1, LaidFacts
  <1>3. Laid(l, N, G, total) /\ Linked(l, N)
    <2>1. G \in SUBSET H
      BY <1>1
    <2>2. Laid(l, N, G, total)
      BY ONLY <1>1, <2>1, LaidFewer
    <2> QED
      BY <2>2 DEF Laid
  <1>4. RoomAt(l.mem, N \union G, total, h, size)
    <2>1. Word(total) /\ Word(h) /\ Word(size) /\ NodeSize <= size /\ h + size <= total
      BY <1>1 DEF Laid, Tiled
    <2>2. h \notin N \union G
      BY <1>1, <1>2
    <2> QED
      BY <1>1, <1>2, <2>1, <2>2 DEF RoomAt
  <1>5. Bytes(l.mem, N) \in Nat
    BY <1>2, BytesNat
  <1>6. Null \notin N
    BY <1>2 DEF Null
  <1> QED
    BY <1>1, <1>2, <1>3, <1>4, <1>5, <1>6

(* Free below some node: the piece becomes a node, joined with those it    *)
(* touches.                                                                *)
LEMMA FreeJoins ==
    ASSUME NEW l, NEW N, NEW H, NEW G, NEW total, NEW p, NEW h, NEW size,
           FreeAt(l, N, H, G, total, p, h, size),
           NEW k, k = Coalescence(InsertNode(l, p, h, size), p, h)
    PROVE  \E M : Freed(l, k, N, M, G, total, size)
  <1> PICK i : i = InsertNode(l, p, h, size)
    OBVIOUS
  <1>1. /\ Laid(l, N, G, total) /\ Joined(l.mem, N) /\ Linked(l, N)
        /\ h \in Nat \ N /\ h \notin G /\ size \in Nat
        /\ N \in SUBSET Nat /\ N \subseteq DOMAIN l.mem /\ G \subseteq DOMAIN l.mem
        /\ Bytes(l.mem, N) \in Nat
        /\ p \in N \union {Null} /\ Above(N \union {h}, p, h)
        /\ RoomAt(l.mem, N \union G, total, h, size)
    BY FreeAtFacts
  <1>2. Extended(l, i, N, G, total, h, size)
    <2>1. total <= total
      BY <1>1, LaidFacts
    <2> QED
      BY <1>1, <2>1, ExtendIs
  <1>3. AllButJoined(i.mem, N \union {h}, h)
    BY <1>1, <1>2, OnlyNewTouches
  <1>4. PICK M : Gathered(i, k, N \union {h}, M, G, total, h) /\ Joined(k.mem, M)
    <2>1. Laid(i, N \union {h}, G, total)
      BY <1>2 DEF Extended
    <2>2. p \in (N \union {h}) \union {Null} /\ h \in N \union {h}
      BY <1>1
    <2> QED
      BY <1>1, <1>3, <2>1, <2>2, CoalescenceIs
  <1>5. Bytes(k.mem, M) = Bytes(l.mem, N) + size
    <2>1. Bytes(k.mem, M) = size + Bytes(l.mem, N)
      BY <1>2, <1>4 DEF Gathered, Extended
    <2> QED
      BY <1>1, <2>1
  <1>6. \A x \in G : k.mem[x].blockSize = l.mem[x].blockSize
    BY <1>1, <1>2, <1>4 DEF Gathered, Extended, SizedAs
  <1> QED
    BY <1>4, <1>5, <1>6 DEF Freed, Gathered

(* The list with a header made a node that nothing points to.              *)
Placed(l, h, size) == [l EXCEPT !.mem = Put(@, h, Node(size, Null))]

(* Writing a node over the header changes neither the list nor a size.     *)
LEMMA PlacedParts ==
    ASSUME NEW l, NEW N, NEW H, NEW G, NEW total, NEW p, NEW h, NEW size,
           FreeAt(l, N, H, G, total, p, h, size), NEW j, j = Placed(l, h, size)
    PROVE  /\ Linked(j, N) /\ SizedAs(l, j, h, size) /\ j.mem[h].next = Null
           /\ \A x \in DOMAIN l.mem : j.mem[x].blockSize = l.mem[x].blockSize
  <1> PICK c : c = Node(size, Null)
    OBVIOUS
  <1>1. /\ Linked(l, N) /\ h \in DOMAIN l.mem /\ h \notin N /\ size \in Nat
        /\ size = l.mem[h].blockSize /\ IsList(l)
    <2>1. Linked(l, N) /\ h \in Nat \ N /\ h \in DOMAIN l.mem
      BY ONLY FreeAt(l, N, H, G, total, p, h, size), FreeAtFacts
    <2>2. size \in Nat /\ IsList(l)
      BY ONLY FreeAt(l, N, H, G, total, p, h, size), FreeAtFacts
    <2>3. size = l.mem[h].blockSize
      BY DEF FreeAt
    <2> QED
      BY <2>1, <2>2, <2>3
  <1>2. c \in Cells /\ c.blockSize = size /\ c.next = Null
    BY <1>1 DEF Node, Cells
  <1>3. j = [l EXCEPT !.mem = Put(@, h, c)]
    BY DEF Placed
  <1>4. Linked(j, N) /\ SizedAs(l, j, h, c.blockSize)
    BY <1>1, <1>2, <1>3, HeaderIs
  <1>5. j.mem[h] = c
    <2>1. l = [head |-> l.head, mem |-> l.mem]
      BY <1>1, ListParts
    <2>2. j.mem = Put(l.mem, h, c)
      BY <1>3, <2>1
    <2> QED
      BY <2>2 DEF Put
  <1>6. \A x \in DOMAIN l.mem : j.mem[x].blockSize = l.mem[x].blockSize
    BY <1>1, <1>2, <1>4 DEF SizedAs
  <1> QED
    BY <1>2, <1>4, <1>5, <1>6

(* Above all nodes, and not touching the last: nothing takes the piece in. *)
LEMMA FreeLoses ==
    ASSUME NEW l, NEW N, NEW H, NEW G, NEW total, NEW p, NEW h, NEW size,
           FreeAt(l, N, H, G, total, p, h, size), ~(p # Null /\ Touches(l.mem, p, h)),
           NEW k, k = Coalescence(Placed(l, h, size), p, h)
    PROVE  \E M : Freed(l, k, N, M, G, total, 0)
  <1> PICK j : j = Placed(l, h, size)
    OBVIOUS
  <1>1. /\ Laid(l, N, G, total) /\ Joined(l.mem, N) /\ h \notin N /\ h \notin G
        /\ N \subseteq DOMAIN l.mem /\ G \subseteq DOMAIN l.mem
        /\ Bytes(l.mem, N) \in Nat /\ p \in N \union {Null}
    BY FreeAtFacts
  <1>2. /\ Linked(j, N) /\ SizedAs(l, j, h, size) /\ j.mem[h].next = Null
        /\ \A x \in DOMAIN l.mem : j.mem[x].blockSize = l.mem[x].blockSize
    BY PlacedParts
  <1>3. k = j
    <2>1. Up(j, h) = j
      BY <1>2 DEF Up
    <2>2. p # Null => ~Touches(j.mem, p, h)
      BY <1>1, <1>2 DEF Touches
    <2>3. Down(j, p, h) = j
      BY <2>2 DEF Down
    <2> QED
      BY <2>1, <2>3, TwoHalves
  <1>4. Laid(k, N, G, total)
    <2>1. Tiled(k.mem, N \union G, total)
      BY <1>1, <1>2, <1>3 DEF Laid, Tiled
    <2> QED
      BY <1>1, <1>2, <1>3, <2>1 DEF Laid, SizedAs
  <1>5. Joined(k.mem, N)
    BY <1>1, <1>2, <1>3 DEF Joined, Touches
  <1>6. Bytes(k.mem, N) = Bytes(l.mem, N) + 0
    <2>1. \A x \in N : k.mem[x].blockSize = l.mem[x].blockSize
      BY <1>1, <1>2, <1>3
    <2>2. Bytes(k.mem, N) = Bytes(l.mem, N)
      BY <2>1, BytesSame
    <2> QED
      BY <1>1, <2>2
  <1>7. \A x \in G : k.mem[x].blockSize = l.mem[x].blockSize
    BY <1>1, <1>2, <1>3
  <1>8. Freed(l, k, N, N, G, total, 0)
    BY <1>4, <1>5, <1>6, <1>7 DEF Freed
  <1> QED
    BY <1>8

(* Above all nodes, and touching the last, which takes the piece in.       *)
FreeAtEnd(l, N, H, G, total, p, h, size) ==
    /\ FreeAt(l, N, H, G, total, p, h, size)
    /\ Above(N, p, Null) /\ p # Null /\ Touches(l.mem, p, h)

(* Free above all nodes, of a piece that touches the last: what is written *)
(* there is no node, and yet the last node takes it in as one.             *)
LEMMA FreeJoinsLast ==
    ASSUME NEW l, NEW N, NEW H, NEW G, NEW total, NEW p, NEW h, NEW size,
           FreeAtEnd(l, N, H, G, total, p, h, size),
           NEW k, k = Coalescence(Placed(l, h, size), p, h)
    PROVE  \E M : Freed(l, k, N, M, G, total, size)
  <1> /\ FreeAt(l, N, H, G, total, p, h, size)
      /\ Above(N, p, Null) /\ p # Null /\ Touches(l.mem, p, h)
    BY DEF FreeAtEnd
  <1> PICK j : j = Placed(l, h, size)
    OBVIOUS
  <1> PICK i : i = InsertNode(l, p, h, size)
    OBVIOUS
  <1>1. /\ Linked(l, N) /\ h \in Nat /\ h \notin N /\ h \in DOMAIN l.mem /\ size \in Nat
        /\ N \subseteq DOMAIN l.mem /\ IsList(l) /\ p \in N /\ Null \notin N
        /\ N \in SUBSET Nat /\ Above(N \union {h}, p, h)
    <2>1. Linked(l, N) /\ h \in Nat \ N /\ h \in DOMAIN l.mem /\ size \in Nat
      BY ONLY FreeAt(l, N, H, G, total, p, h, size), FreeAtFacts
    <2>2. /\ N \subseteq DOMAIN l.mem /\ p \in N \union {Null} /\ Null \notin N
          /\ N \in SUBSET Nat /\ Above(N \union {h}, p, h) /\ IsList(l)
      BY ONLY FreeAt(l, N, H, G, total, p, h, size), FreeAtFacts
    <2> QED
      BY <2>1, <2>2
  <1>2. l.mem[p].next = Null
    <2>1. Above(N, p, l.mem[p].next) /\ \A x \in N : x <= p
      BY <1>1 DEF Linked, Above
    <2>2. ASSUME l.mem[p].next \in N, p < l.mem[p].next PROVE FALSE
      BY <1>1, <2>1, <2>2
    <2> QED
      BY <2>1, <2>2 DEF Above
  <1>3. Merge(i, p, h) = Merge(j, p, h)
    <2>1. j = [l EXCEPT !.mem = Put(@, h, Node(size, Null))] /\ p # h /\ p \in DOMAIN l.mem
      BY <1>1 DEF Placed
    <2> QED
      BY <1>1, <1>2, <2>1, SameMerge
  <1>4. k = Merge(j, p, h)
    <2>1. /\ j.mem[h].next = Null
          /\ \A x \in DOMAIN l.mem : j.mem[x].blockSize = l.mem[x].blockSize
      BY PlacedParts
    <2>2. Up(j, h) = j
      BY <2>1 DEF Up
    <2>3. Touches(j.mem, p, h)
      BY <1>1, <2>1 DEF Touches
    <2>4. Down(j, p, h) = Merge(j, p, h)
      BY <2>3 DEF Down
    <2> QED
      BY <2>2, <2>4, TwoHalves
  <1>5. Coalescence(i, p, h) = Merge(i, p, h)
    <2>1. i.mem[h].next = Null
      <3> PICK m : m = Put([l.mem EXCEPT ![p].next = h], h, Node(size, l.mem[p].next))
        OBVIOUS
      <3>1. l = [head |-> l.head, mem |-> l.mem]
        BY <1>1, ListParts
      <3>2. i.mem = m
        BY <3>1 DEF InsertNode
      <3>3. m[h] = Node(size, Null)
        BY <1>2 DEF Put
      <3> QED
        BY <3>2, <3>3 DEF Node
    <2>2. Up(i, h) = i
      BY <2>1 DEF Up
    <2>3. SizedAs(l, i, h, size)
      <3>1. h \in Nat \ N /\ p \in N \union {Null}
        BY <1>1
      <3> QED
        BY <1>1, <3>1, InsertIs
    <2>4. Touches(i.mem, p, h)
      BY <1>1, <2>3 DEF Touches, SizedAs
    <2>5. Down(i, p, h) = Merge(i, p, h)
      BY <2>4 DEF Down
    <2> QED
      BY <2>2, <2>5, TwoHalves
  <1>6. k = Coalescence(i, p, h)
    BY <1>3, <1>4, <1>5
  <1> QED
    BY <1>6, FreeJoins

(* The effect of Free on the state, once the list k over the nodes M is    *)
(* found, which gained an amount of the size of the block.                 *)
FreeEnds(k, M, G, h, size, amount) ==
    /\ Without(G, Heads(blocks), h) /\ Heads(blocks') = G /\ blocks' \subseteq blocks
    /\ size = mem[h].blockSize /\ size \in Nat
    /\ Freed(list, k, Nodes, M, G, totalSize, amount)
    /\ amount \in Nat /\ lost' \in Nat /\ lost' + amount = lost + size
    /\ head' = k.head /\ mem' = Kept(k, blocks') /\ used' = used - size
    /\ totalSize' = totalSize /\ peak' = peak

(* The end of Free keeps the account of the buffer.                        *)
LEMMA FreeEndsReady ==
    ASSUME NEW k, NEW M, NEW G, NEW h, NEW size, NEW amount,
           Ready(list, Nodes, totalSize), FreeEnds(k, M, G, h, size, amount)
    PROVE  Ready(list, Nodes, totalSize)'
  <1>1. /\ Without(G, Heads(blocks), h) /\ Heads(blocks') = G /\ blocks' \subseteq blocks
        /\ size = mem[h].blockSize /\ size \in Nat
        /\ amount \in Nat /\ lost' \in Nat /\ lost' + amount = lost + size
        /\ head' = k.head /\ mem' = Kept(k, blocks') /\ used' = used - size
        /\ totalSize' = totalSize /\ peak' = peak
    BY DEF FreeEnds
  <1>2. /\ Laid(k, M, G, totalSize) /\ Joined(k.mem, M)
        /\ Bytes(k.mem, M) = Bytes(mem, Nodes) + amount
        /\ \A x \in G : k.mem[x].blockSize = mem[x].blockSize
    BY DEF FreeEnds, Freed, list
  <1>3. /\ Laid(list, Nodes, Heads(blocks), totalSize) /\ Housed(mem, blocks)
        /\ used = Bytes(mem, Heads(blocks)) /\ totalSize \in NodeSize .. MaxTotal
        /\ list.mem = mem /\ list'.mem = mem'
    BY DEF Ready, list
  <1>4. /\ used \in Nat /\ lost \in Nat /\ peak \in Nat /\ totalSize \in Nat
        /\ Bytes(mem, Nodes) \in Nat /\ used <= peak /\ peak <= totalSize
        /\ used + lost + Bytes(mem, Nodes) = totalSize
    BY <1>3, ReadyFacts
  <1>5. /\ Laid(list, Nodes, Heads(blocks), totalSize)' /\ Joined(mem', Nodes')
        /\ Bytes(mem', Nodes') = Bytes(k.mem, M)
        /\ Bytes(mem', Heads(blocks')) = Bytes(k.mem, Heads(blocks'))
        /\ \A x \in Heads(blocks') : mem'[x].blockSize = k.mem[x].blockSize
    <2>1. Leaves(k, M)
      BY <1>1, <1>2 DEF Leaves
    <2> QED
      BY ONLY <2>1, Settles
  <1> PICK others : others = Bytes(mem, G)
    OBVIOUS
  <1>6. used = size + others /\ others \in Nat
    <2>1. Sized(mem, Heads(blocks)) /\ Without(G, Heads(blocks), h)
      BY <1>1, <1>3, LaidFacts
    <2>2. Bytes(mem, Heads(blocks)) = mem[h].blockSize + others /\ others \in Nat
      BY <2>1, BytesLess
    <2> QED
      BY <1>1, <1>3, <2>2
  <1>7. used' = others
    <2>1. used' = (size + others) - size
      BY <1>1, <1>6
    <2> QED
      BY <1>1, <1>6, <2>1
  <1>8. others = Bytes(mem', Heads(blocks'))
    <2>1. Bytes(k.mem, G) = others
      BY <1>2, BytesSame
    <2> QED
      BY <1>1, <1>5, <2>1
  <1>9. used' + lost' + Bytes(mem', Nodes') = totalSize
    <2> PICK gone : gone = lost'
      OBVIOUS
    <2> PICK free : free = Bytes(mem, Nodes)
      OBVIOUS
    <2>1. others + gone + (free + amount) = totalSize
      BY <1>1, <1>4, <1>6
    <2>2. Bytes(mem', Nodes') = free + amount
      BY <1>2, <1>5
    <2> QED
      BY <1>7, <2>1, <2>2
  <1>10. peak' \in used' .. totalSize
    BY <1>1, <1>4, <1>6, <1>7
  <1>11. Housed(mem', blocks')
    <2>1. ASSUME NEW c \in blocks'
          PROVE  mem'[c.at - HeaderSize].blockSize = mem[c.at - HeaderSize].blockSize
      <3>1. c.at - HeaderSize \in Heads(blocks')
        BY DEF Heads
      <3> QED
        BY <1>1, <1>2, <1>5, <3>1
    <2> QED
      BY <1>1, <1>3, <2>1 DEF Housed
  <1> QED
    BY <1>1, <1>3, <1>5, <1>7, <1>8, <1>9, <1>10, <1>11 DEF Ready

(* Free keeps the invariant; what no node takes in is counted as lost.     *)
LEMMA FreeLemma ==
    ASSUME FreeInv, NEW b \in blocks, Free(b)
    PROVE  FreeInv'
  <1> PICK H : H = Heads(blocks)
    OBVIOUS
  <1> PICK N : N = Nodes
    OBVIOUS
  <1> PICK total : total = totalSize
    OBVIOUS
  <1> PICK s : s = NodesOf(list)
    OBVIOUS
  <1> PICK h : h = b.at - HeaderSize
    OBVIOUS
  <1> PICK G : G = Heads(blocks \ {b})
    OBVIOUS
  <1> PICK size : size = mem[h].blockSize + mem[h].padding
    OBVIOUS
  <1> PICK above : above = {k \in DOMAIN s : b.at < s[k]}
    OBVIOUS
  <1> PICK p : p = Before(s, IF above = {} THEN Len(s) + 1 ELSE Min(above))
    OBVIOUS
  <1> PICK k : k = Coalescence(IF above # {} THEN InsertNode(list, p, h, size)
                               ELSE Placed(list, h, size), p, h)
    OBVIOUS
  <1> PICK touches : touches = (p # Null /\ p + mem[p].blockSize = h)
    OBVIOUS
  <1>1. /\ ~failed /\ head' = k.head /\ mem' = Kept(k, blocks \ {b}) /\ blocks' = blocks \ {b}
        /\ used' = used - size
        /\ lost' = IF above = {} /\ ~touches THEN lost + size ELSE lost
        /\ UNCHANGED <<reallocatable, totalSize, peak, failed>>
    BY DEF Free, Placed
  <1>2. /\ list.mem = mem /\ reallocatable \in BOOLEAN /\ failed \in BOOLEAN /\ GrowthSuffices
        /\ Ready(list, N, total)
    BY DEF FreeInv, list
  <1>3. /\ Laid(list, N, H, total) /\ Joined(mem, N) /\ Housed(mem, blocks)
        /\ used = Bytes(mem, H) /\ total \in NodeSize .. MaxTotal /\ lost \in Nat
    BY <1>2 DEF Ready
  <1>4. /\ used \in Nat /\ lost \in Nat /\ peak \in Nat /\ total \in Nat
        /\ Bytes(mem, N) \in Nat /\ used <= peak /\ peak <= total
        /\ used + lost + Bytes(mem, N) = total
    BY <1>2, ReadyFacts
  <1>5. /\ IsList(list) /\ N \in SUBSET Nat /\ H \in SUBSET Nat
        /\ N \subseteq DOMAIN mem /\ H \subseteq DOMAIN mem /\ N \intersect H = {}
        /\ Sized(mem, N) /\ Sized(mem, H)
        /\ \A a \in N \union H : /\ a \in Nat /\ mem[a].blockSize \in Nat
                                 /\ 16 <= mem[a].blockSize
        /\ \A a, c \in N \union H : a < c => a + mem[a].blockSize <= c
    BY <1>2, <1>3, LaidFacts
  <1>6. /\ b.at \in Nat /\ HeaderSize <= b.at /\ h \in H /\ b.at = h + 8
        /\ \A c \in blocks : c.at \in Nat /\ (c.at = b.at => c = b)
    <2>1. /\ b.at \in Nat /\ HeaderSize <= b.at
          /\ \A c \in blocks : c.at \in Nat /\ (c.at = b.at => c = b)
      BY <1>3 DEF Housed
    <2>2. h \in H
      BY DEF Heads
    <2> QED
      BY <2>1, <2>2 DEF HeaderSize
  <1>7. Without(G, H, h)
    <2>1. \A c \in blocks : c # b => c.at - HeaderSize # h
      BY <1>6 DEF HeaderSize
    <2>2. G = H \ {h}
      BY <2>1 DEF Heads
    <2> QED
      BY <1>6, <2>2 DEF Without
  <1>8. size = mem[h].blockSize /\ size \in Nat
    <2>1. mem[h] \in Cells
      BY <1>2, <1>5, <1>6, ListParts
    <2>2. mem[h].blockSize \in Nat /\ mem[h].padding = 0
      BY <2>1, CellParts
    <2> QED
      BY <2>2
  <1>9. /\ p \in N \union {Null} /\ Above(N \union {h}, p, h)
        /\ above = {} => Above(N, p, Null)
    <2>1. Runs(s, N) /\ DOMAIN s = 1 .. Len(s)
      BY <1>3, NodesRun, RunsRange DEF Laid
    <2>2. above = {i \in 1 .. Len(s) : b.at < s[i]}
      BY <2>1
    <2>3. \A x \in N : b.at < x <=> h < x
      <3>1. ASSUME NEW x \in N PROVE b.at < x <=> h < x
        <4>1. h < x => h + mem[h].blockSize <= x
          BY <1>5, <1>6
        <4>2. x \in Nat /\ h \in Nat /\ mem[h].blockSize \in Nat /\ 16 <= mem[h].blockSize
          BY <1>5, <1>6
        <4> QED
          BY <1>6, <4>1, <4>2
      <3> QED
        BY <3>1
    <2>4. h \in Nat \ N
      BY <1>5, <1>6
    <2>5. PlacedAt(s, N, b.at, h, p)
      BY <1>5, <1>6, <2>1, <2>2, <2>3, <2>4 DEF PlacedAt
    <2>6. /\ p \in N \union {Null} /\ Above(N \union {h}, p, h)
          /\ (\A i \in 1 .. Len(s) : ~(b.at < s[i])) => Above(N, p, Null)
      BY ONLY <2>5, PlaceIs
    <2> QED
      BY <2>2, <2>6
  <1>10. FreeAt(list, N, H, G, total, p, h, size)
    BY <1>2, <1>3, <1>7, <1>8, <1>9 DEF FreeAt
  <1>11. \E M, amount : /\ Freed(list, k, N, M, G, total, amount)
                       /\ amount \in Nat /\ lost' \in Nat /\ lost' + amount = lost + size
    <2>1. CASE above # {}
      <3>1. k = Coalescence(InsertNode(list, p, h, size), p, h)
        BY <2>1
      <3>2. \E M : Freed(list, k, N, M, G, total, size)
        BY ONLY <1>10, <3>1, FreeJoins
      <3>3. lost' = lost
        BY <1>1, <2>1
      <3> QED
        BY <1>4, <1>8, <3>2, <3>3
    <2>2. CASE above = {} /\ touches
      <3>1. k = Coalescence(Placed(list, h, size), p, h)
        BY <2>2
      <3>2. p # Null /\ Touches(list.mem, p, h)
        BY <1>2, <2>2 DEF Touches
      <3>5. FreeAtEnd(list, N, H, G, total, p, h, size)
        BY <1>9, <1>10, <2>2, <3>2 DEF FreeAtEnd
      <3>3. \E M : Freed(list, k, N, M, G, total, size)
        BY ONLY <3>1, <3>5, FreeJoinsLast
      <3>4. lost' = lost
        BY <1>1, <2>2
      <3> QED
        BY <1>4, <1>8, <3>3, <3>4
    <2>3. CASE above = {} /\ ~touches
      <3>1. k = Coalescence(Placed(list, h, size), p, h)
        BY <2>3
      <3>2. ~(p # Null /\ Touches(list.mem, p, h))
        BY <1>2, <2>3 DEF Touches
      <3>3. \E M : Freed(list, k, N, M, G, total, 0)
        BY ONLY <1>10, <3>1, <3>2, FreeLoses
      <3>4. lost' = lost + size
        BY <1>1, <2>3
      <3>5. 0 \in Nat /\ lost' \in Nat /\ lost' + 0 = lost + size
        BY <1>4, <1>8, <3>4
      <3> QED
        BY ONLY <3>3, <3>5
    <2> QED
      BY <2>1, <2>2, <2>3
  <1>12. PICK M, amount : /\ Freed(list, k, N, M, G, total, amount)
                          /\ amount \in Nat /\ lost' \in Nat /\ lost' + amount = lost + size
    BY <1>11
  <1>13. FreeEnds(k, M, G, h, size, amount)
    <2>1. Heads(blocks') = G /\ blocks' \subseteq blocks /\ mem' = Kept(k, blocks')
      BY <1>1
    <2> QED
      BY <1>1, <1>7, <1>8, <1>12, <2>1 DEF FreeEnds
  <1>14. Ready(list, Nodes, totalSize)'
    BY <1>2, <1>13, FreeEndsReady
  <1> QED
    BY <1>1, <1>2, <1>14 DEF FreeInv, GrowthSuffices

-----------------------------------------------------------------------------
(* A buffer of one node, as Init and Reset leave it.                       *)
LEMMA Fresh ==
    ASSUME NEW total, Word(total), NodeSize <= total,
           NEW l, l = [head |-> 0, mem |-> [a \in {0} |-> Node(total, Null)]]
    PROVE  /\ Laid(l, {0}, {}, total) /\ Joined(l.mem, {0})
           /\ Bytes(l.mem, {0}) = total /\ Bytes(l.mem, {}) = 0 /\ DOMAIN l.mem = {0}
  <1> PICK m : m = [a \in {0} |-> Node(total, Null)]
    OBVIOUS
  <1>1. total \in Nat /\ 16 <= total
    BY DEF Word, NodeSize
  <1>2. m \in [{0} -> Cells] /\ m[0].blockSize = total /\ m[0].next = Null /\ DOMAIN m = {0}
    BY <1>1, NodeIs
  <1>3. IsList(l) /\ l.head = 0 /\ l.mem = m
    <2>1. {0} \in SUBSET Nat /\ IsFiniteSet({0})
      <3>1. IsFiniteSet({0})
        BY FS_Singleton
      <3> QED
        BY <3>1
    <2>2. 0 \in Nat \union {Null} /\ l = [head |-> 0, mem |-> m]
      OBVIOUS
    <2> QED
      BY <1>2, <2>1, <2>2, ListIs
  <1>4. Linked(l, {0})
    BY <1>2, <1>3 DEF Linked, Above, Null
  <1>5. Tiled(m, {0}, total)
    BY <1>1, <1>2, WordFacts DEF Tiled, NodeSize
  <1>6. Laid(l, {0}, {}, total)
    BY <1>3, <1>4, <1>5 DEF Laid
  <1>7. Joined(m, {0})
    BY <1>1, <1>2 DEF Joined, Touches
  <1>8. Bytes(m, {}) = 0
    BY BytesNone
  <1>9. Bytes(m, {0}) = total
    <2>1. Sized(m, {})
      BY FS_EmptySet DEF Sized
    <2>2. {} \union {0} = {0} /\ 0 \notin {}
      OBVIOUS
    <2>3. Bytes(m, {} \union {0}) = m[0].blockSize + Bytes(m, {})
      BY <1>1, <1>2, <2>1, BytesMore
    <2> QED
      BY <1>1, <1>2, <1>8, <2>2, <2>3
  <1> QED
    BY <1>2, <1>3, <1>6, <1>7, <1>8, <1>9

(* The constructor makes the invariant true.                               *)
LEMMA InitLemma == ASSUME WholeWords, Init PROVE FreeInv
  <1> PICK l : l = list
    OBVIOUS
  <1>1. /\ l = [head |-> 0, mem |-> [a \in {0} |-> Node(totalSize, Null)]] /\ l.mem = mem
        /\ blocks = {} /\ used = 0 /\ lost = 0 /\ peak = 0 /\ totalSize = InitialSize
        /\ reallocatable \in BOOLEAN /\ failed = FALSE
    BY DEF Init, list
  <1>2. Word(totalSize) /\ NodeSize <= totalSize /\ totalSize \in 0 .. MaxTotal /\ MaxTotal \in Nat
    BY <1>1, FreeListAssumption DEF WholeWords, Word
  <1>3. Heads(blocks) = {}
    BY <1>1 DEF Heads
  <1>4. /\ Laid(l, {0}, {}, totalSize) /\ Joined(mem, {0})
        /\ Bytes(mem, {0}) = totalSize /\ Bytes(mem, {}) = 0 /\ DOMAIN mem = {0}
    BY <1>1, <1>2, Fresh
  <1>5. Nodes = {0}
    BY <1>3, <1>4 DEF Nodes
  <1>6. Housed(mem, blocks)
    BY <1>1 DEF Housed
  <1>7. Ready(list, Nodes, totalSize)
    BY <1>1, <1>2, <1>3, <1>4, <1>5, <1>6 DEF Ready, NodeSize
  <1> QED
    BY <1>1, <1>7 DEF FreeInv, GrowthSuffices

(* Reset makes the invariant true again.                                   *)
LEMMA ResetLemma == ASSUME FreeInv, Reset PROVE FreeInv'
  <1> PICK l : l = list'
    OBVIOUS
  <1>1. /\ l = [head |-> 0, mem |-> [a \in {0} |-> Node(totalSize, Null)]] /\ l.mem = mem'
        /\ blocks' = {} /\ used' = 0 /\ lost' = 0 /\ peak' = 0 /\ totalSize' = totalSize
        /\ reallocatable' = reallocatable /\ failed' = failed /\ ~failed
    BY DEF Reset, list
  <1>2. /\ Ready(list, Nodes, totalSize) /\ reallocatable \in BOOLEAN /\ failed \in BOOLEAN
    BY DEF FreeInv
  <1>3. Word(totalSize) /\ totalSize \in NodeSize .. MaxTotal /\ totalSize \in Nat
    BY <1>2 DEF Ready, Laid, Tiled, Word
  <1>4. Heads(blocks') = {}
    BY <1>1 DEF Heads
  <1>5. /\ Laid(l, {0}, {}, totalSize) /\ Joined(mem', {0})
        /\ Bytes(mem', {0}) = totalSize /\ Bytes(mem', {}) = 0 /\ DOMAIN mem' = {0}
    <2>1. NodeSize <= totalSize
      BY <1>3 DEF NodeSize
    <2> QED
      BY <1>1, <1>3, <2>1, Fresh
  <1>6. Nodes' = {0}
    BY <1>4, <1>5 DEF Nodes
  <1>7. Housed(mem', blocks')
    BY <1>1 DEF Housed
  <1>8. Ready(list, Nodes, totalSize)'
    BY <1>1, <1>3, <1>4, <1>5, <1>6, <1>7 DEF Ready, NodeSize
  <1> QED
    BY <1>1, <1>2, <1>8 DEF FreeInv, GrowthSuffices

(* Every step keeps the invariant.                                         *)
LEMMA StepLemma == ASSUME WholeWords, FreeInv, [Next]_vars PROVE FreeInv'
  <1>1. ASSUME NEW size \in Sizes, NEW alignment \in Alignments, Allocate(size, alignment)
        PROVE  FreeInv'
    BY <1>1, AllocateLemma
  <1>2. ASSUME NEW b \in blocks, Free(b) PROVE FreeInv'
    BY <1>2, FreeLemma
  <1>3. CASE Reset
    BY <1>3, ResetLemma
  <1>4. CASE UNCHANGED vars
    <2>1. list' = list /\ Nodes' = Nodes
      BY <1>4 DEF vars, list, Nodes
    <2> QED
      BY <1>4, <2>1 DEF vars, FreeInv, GrowthSuffices, Ready
  <1> QED
    BY <1>1, <1>2, <1>3, <1>4 DEF Next

(* The invariant holds in every state an allocator of whole words reaches. *)
LEMMA FreeAlways == ASSUME WholeWords PROVE Spec => []FreeInv
  <1>1. Init => FreeInv
    BY InitLemma
  <1>2. FreeInv /\ [Next]_vars => FreeInv'
    BY StepLemma
  <1> QED
    BY <1>1, <1>2, PTL DEF Spec

-----------------------------------------------------------------------------
(* What the invariant says of the pieces, by node and by block.            *)
LEMMA Pieces ==
    ASSUME FreeInv
    PROVE  /\ totalSize \in Nat /\ Runs(FreeNodes, Nodes) /\ DOMAIN FreeNodes = 1 .. Len(FreeNodes)
           /\ \A k \in DOMAIN FreeNodes :
                  /\ FreeNodes[k] \in Nodes /\ FreeNodes[k] \in Nat
                  /\ FreeSize(k) \in Nat /\ 16 <= FreeSize(k)
                  /\ FreeSize(k) = mem[FreeNodes[k]].blockSize
                  /\ FreeNodes[k] + FreeSize(k) <= totalSize
           /\ \A b \in blocks :
                  /\ b.at \in Nat /\ b.size \in Nat
                  /\ b.at - HeaderSize \in Heads(blocks) /\ b.at - HeaderSize \in Nat
                  /\ Header(b).blockSize \in Nat /\ Header(b).padding = 0
                  /\ Header(b) = mem[b.at - HeaderSize]
                  /\ b.at + b.size <= b.at - HeaderSize + Header(b).blockSize
                  /\ b.at - HeaderSize + Header(b).blockSize <= totalSize
           /\ \A b, c \in blocks : b.at - HeaderSize = c.at - HeaderSize => b = c
           /\ \A a, c \in Nodes \union Heads(blocks) : a < c => a + mem[a].blockSize <= c
           /\ Nodes \intersect Heads(blocks) = {}
  <1>1. /\ list.mem = mem /\ Laid(list, Nodes, Heads(blocks), totalSize) /\ Housed(mem, blocks)
        /\ FreeNodes = NodesOf(list)
    BY DEF FreeInv, Ready, list, FreeNodes
  <1>2. /\ IsList(list) /\ Nodes \in SUBSET Nat /\ Heads(blocks) \in SUBSET Nat
        /\ totalSize \in Nat /\ Nodes \intersect Heads(blocks) = {}
        /\ Heads(blocks) \subseteq DOMAIN mem
        /\ \A a \in Nodes \union Heads(blocks) :
               /\ a \in Nat /\ mem[a].blockSize \in Nat
               /\ 16 <= mem[a].blockSize /\ a + mem[a].blockSize <= totalSize
        /\ \A a, c \in Nodes \union Heads(blocks) : a < c => a + mem[a].blockSize <= c
    BY <1>1, LaidFacts
  <1>3. Runs(FreeNodes, Nodes) /\ DOMAIN FreeNodes = 1 .. Len(FreeNodes)
    BY <1>1, NodesRun, RunsRange DEF Laid
  <1>4. ASSUME NEW k \in DOMAIN FreeNodes
        PROVE  /\ FreeNodes[k] \in Nodes /\ FreeNodes[k] \in Nat
               /\ FreeSize(k) \in Nat /\ 16 <= FreeSize(k)
               /\ FreeSize(k) = mem[FreeNodes[k]].blockSize
               /\ FreeNodes[k] + FreeSize(k) <= totalSize
    <2>1. FreeNodes[k] \in Nodes
      BY <1>3, <1>4 DEF Runs
    <2> QED
      BY <1>2, <2>1 DEF FreeSize
  <1>5. ASSUME NEW b \in blocks
        PROVE  /\ b.at \in Nat /\ b.size \in Nat
               /\ b.at - HeaderSize \in Heads(blocks) /\ b.at - HeaderSize \in Nat
               /\ Header(b).blockSize \in Nat /\ Header(b).padding = 0
               /\ Header(b) = mem[b.at - HeaderSize]
               /\ b.at + b.size <= b.at - HeaderSize + Header(b).blockSize
               /\ b.at - HeaderSize + Header(b).blockSize <= totalSize
    <2> PICK h : h = b.at - HeaderSize
      OBVIOUS
    <2>1. /\ b.at \in Nat /\ b.size \in Nat /\ b.size + HeaderSize <= mem[h].blockSize
      BY <1>1 DEF Housed
    <2>2. h \in Heads(blocks) /\ h \in DOMAIN mem
      BY <1>2 DEF Heads
    <2>3. mem[h] \in Cells
      BY <1>1, <1>2, <2>2, ListParts
    <2>4. mem[h].padding = 0
      BY <2>3, CellParts
    <2>5. h \in Nat /\ mem[h].blockSize \in Nat /\ h + mem[h].blockSize <= totalSize
      BY <1>2, <2>2
    <2>6. Header(b) = mem[h]
      BY DEF Header
    <2>7. b.at + b.size <= h + mem[h].blockSize
      BY <2>1, <2>5 DEF HeaderSize
    <2> QED
      BY <2>1, <2>2, <2>4, <2>5, <2>6, <2>7
  <1>6. \A b, c \in blocks : b.at - HeaderSize = c.at - HeaderSize => b = c
    <2>1. \A b \in blocks : b.at \in Nat
      BY <1>1 DEF Housed
    <2>2. \A b, c \in blocks : b.at = c.at => b = c
      BY <1>1 DEF Housed
    <2> QED
      BY <2>1, <2>2 DEF HeaderSize
  <1> QED
    BY <1>2, <1>3, <1>4, <1>5, <1>6

(* Pieces that do not overlap keep the blocks in them apart.               *)
LEMMA InvApart == FreeInv => Apart
  <1> SUFFICES ASSUME FreeInv PROVE Apart
    OBVIOUS
  <1>1. totalSize \in Nat /\ DOMAIN FreeNodes = 1 .. Len(FreeNodes)
        /\ \A a, c \in Nodes \union Heads(blocks) : a < c => a + mem[a].blockSize <= c
        /\ Nodes \intersect Heads(blocks) = {}
    BY Pieces
  <1>2. ASSUME NEW b \in blocks
        PROVE  /\ b.at \in Nat /\ b.size \in Nat
               /\ b.at - HeaderSize \in Heads(blocks) /\ b.at - HeaderSize \in Nat
               /\ mem[b.at - HeaderSize].blockSize \in Nat
               /\ b.at + b.size <= b.at - HeaderSize + mem[b.at - HeaderSize].blockSize
               /\ b.at - HeaderSize + mem[b.at - HeaderSize].blockSize <= totalSize
    BY Pieces
  <1>3. ASSUME NEW b \in blocks
        PROVE  0 <= b.at - HeaderSize /\ b.at + b.size <= totalSize
    <2> PICK h : h = b.at - HeaderSize
      OBVIOUS
    <2>1. h \in Nat /\ mem[h].blockSize \in Nat /\ b.at \in Nat /\ b.size \in Nat
          /\ b.at + b.size <= h + mem[h].blockSize /\ h + mem[h].blockSize <= totalSize
      BY <1>2
    <2> QED
      BY <1>1, <2>1
  <1>4. ASSUME NEW b \in blocks, NEW c \in blocks, b # c
        PROVE  Disjoint(BlockBytes(b), BlockBytes(c))
    <2> PICK h : h = b.at - HeaderSize
      OBVIOUS
    <2> PICK g : g = c.at - HeaderSize
      OBVIOUS
    <2>1. /\ h \in Heads(blocks) /\ h \in Nat /\ mem[h].blockSize \in Nat
          /\ b.at \in Nat /\ b.size \in Nat /\ b.at + b.size <= h + mem[h].blockSize
      BY <1>2
    <2>2. /\ g \in Heads(blocks) /\ g \in Nat /\ mem[g].blockSize \in Nat
          /\ c.at \in Nat /\ c.size \in Nat /\ c.at + c.size <= g + mem[g].blockSize
      BY <1>2
    <2>3. h # g
      BY <1>4, Pieces
    <2>4. CASE h < g
      <3>1. h + mem[h].blockSize <= g
        BY <1>1, <2>1, <2>2, <2>4
      <3>2. b.at + b.size <= g
        BY <2>1, <2>2, <3>1
      <3> QED
        BY <3>2 DEF Disjoint, BlockBytes
    <2>5. CASE g < h
      <3>1. g + mem[g].blockSize <= h
        BY <1>1, <2>1, <2>2, <2>5
      <3>2. c.at + c.size <= h
        BY <2>1, <2>2, <3>1
      <3> QED
        BY <3>2 DEF Disjoint, BlockBytes
    <2> QED
      BY <2>1, <2>2, <2>3, <2>4, <2>5
  <1>5. ASSUME NEW b \in blocks, NEW k \in DOMAIN FreeNodes
        PROVE  Disjoint(BlockBytes(b), NodeBytes(k))
    <2> PICK h : h = b.at - HeaderSize
      OBVIOUS
    <2> PICK n : n = FreeNodes[k]
      OBVIOUS
    <2>1. /\ h \in Heads(blocks) /\ h \in Nat /\ mem[h].blockSize \in Nat
          /\ b.at \in Nat /\ b.size \in Nat /\ b.at + b.size <= h + mem[h].blockSize
      BY <1>2
    <2>2. /\ n \in Nodes /\ n \in Nat /\ mem[n].blockSize \in Nat /\ 16 <= mem[n].blockSize
          /\ FreeSize(k) = mem[n].blockSize
      BY Pieces
    <2>3. AtLeast(FreeSize(k), NodeSize) = mem[n].blockSize
      BY <2>2 DEF AtLeast, NodeSize
    <2>4. NodeBytes(k) = [from |-> n, to |-> n + mem[n].blockSize]
      BY <2>3 DEF NodeBytes
    <2>5. CASE h < n
      <3>1. h + mem[h].blockSize <= n
        BY <1>1, <2>1, <2>2, <2>5
      <3>2. b.at + b.size <= n
        BY <2>1, <2>2, <3>1
      <3> QED
        BY <2>4, <3>2 DEF Disjoint, BlockBytes
    <2>6. CASE n < h
      <3>1. n + mem[n].blockSize <= h
        BY <1>1, <2>1, <2>2, <2>6
      <3> QED
        BY <2>4, <3>1 DEF Disjoint, BlockBytes
    <2>7. h # n
      <3>1. Nodes \intersect Heads(blocks) = {}
        BY Pieces
      <3> QED
        BY <2>1, <2>2, <3>1
    <2> QED
      BY <2>1, <2>2, <2>5, <2>6, <2>7
  <1> QED
    BY <1>3, <1>4, <1>5 DEF Apart

(* The counts and cells have their types.                                  *)
LEMMA InvTyped == FreeInv => TypeOK
  <1> SUFFICES ASSUME FreeInv PROVE TypeOK
    OBVIOUS
  <1>1. /\ reallocatable \in BOOLEAN /\ failed \in BOOLEAN
        /\ Ready(list, Nodes, totalSize) /\ list.mem = mem /\ list.head = head
    BY DEF FreeInv, list
  <1>2. /\ used \in Nat /\ lost \in Nat /\ peak \in Nat /\ totalSize \in Nat
        /\ Bytes(mem, Nodes) \in Nat /\ used <= peak /\ peak <= totalSize
        /\ used + lost + Bytes(mem, Nodes) = totalSize
        /\ totalSize <= MaxTotal /\ MaxTotal \in Nat
    BY <1>1, ReadyFacts
  <1>3. IsList(list)
    BY <1>1, LaidFacts DEF Ready
  <1>4. /\ DOMAIN mem \in SUBSET Nat /\ head \in Nat \union {Null}
        /\ \A a \in DOMAIN mem : mem[a] \in Cells
    BY <1>1, <1>3, ListParts
  <1>5. ASSUME NEW a \in DOMAIN mem
        PROVE  /\ a \in Nat /\ mem[a].blockSize \in Nat /\ mem[a].padding \in Nat
               /\ mem[a].next \in Nat \union {Null}
    BY <1>4, CellParts
  <1>6. /\ used \in 0 .. totalSize /\ peak \in used .. totalSize /\ lost \in 0 .. totalSize
        /\ totalSize \in 0 .. MaxTotal
    BY <1>2
  <1> QED
    BY <1>1, <1>4, <1>5, <1>6 DEF TypeOK

(* Nodes that do not touch leave a gap between each two.                   *)
LEMMA InvCoalesced == FreeInv => Coalesced
  <1> SUFFICES ASSUME FreeInv, NEW k \in DOMAIN FreeNodes
               PROVE  FreeNodes[k] + FreeSize(k) <
                          IF k < Len(FreeNodes) THEN FreeNodes[k + 1] ELSE totalSize + 1
    BY DEF Coalesced
  <1>1. /\ totalSize \in Nat /\ Runs(FreeNodes, Nodes) /\ DOMAIN FreeNodes = 1 .. Len(FreeNodes)
        /\ \A a, c \in Nodes \union Heads(blocks) : a < c => a + mem[a].blockSize <= c
    BY Pieces
  <1>2. /\ FreeNodes[k] \in Nodes /\ FreeNodes[k] \in Nat /\ FreeSize(k) \in Nat
        /\ FreeSize(k) = mem[FreeNodes[k]].blockSize /\ FreeNodes[k] + FreeSize(k) <= totalSize
    BY Pieces
  <1>3. Len(FreeNodes) \in Nat
    BY <1>1 DEF Runs
  <1>4. CASE k < Len(FreeNodes)
    <2>1. k + 1 \in DOMAIN FreeNodes /\ k \in 1 .. Len(FreeNodes)
      BY <1>1, <1>3, <1>4
    <2>2. FreeNodes[k + 1] \in Nodes /\ FreeNodes[k + 1] \in Nat
      BY <2>1, Pieces
    <2>3. FreeNodes[k] < FreeNodes[k + 1]
      BY <1>1, <2>1 DEF Runs
    <2>4. FreeNodes[k] + FreeSize(k) <= FreeNodes[k + 1]
      BY <1>1, <1>2, <2>2, <2>3
    <2>5. FreeNodes[k] + FreeSize(k) # FreeNodes[k + 1]
      <3>1. Joined(mem, Nodes)
        BY DEF FreeInv, Ready, list
      <3> QED
        BY <1>2, <2>2, <3>1 DEF Joined, Touches
    <2> QED
      BY <1>2, <1>4, <2>2, <2>4, <2>5
  <1>5. CASE ~(k < Len(FreeNodes))
    BY <1>1, <1>2, <1>5
  <1> QED
    BY <1>4, <1>5

(* The sums over blocks and over the list are the sums over their pieces.  *)
LEMMA InvAccounts == FreeInv => Accounting
  <1> SUFFICES ASSUME FreeInv PROVE Accounting
    OBVIOUS
  <1> PICK H : H = Heads(blocks)
    OBVIOUS
  <1> PICK N : N = Nodes
    OBVIOUS
  <1>1. /\ used = Bytes(mem, H) /\ used + lost + Bytes(mem, N) = totalSize
        /\ Laid(list, N, H, totalSize) /\ list.mem = mem
    BY DEF FreeInv, Ready, list
  <1>2. Sized(mem, N) /\ Sized(mem, H)
    BY <1>1, LaidFacts
  <1>3. SumFunction([b \in blocks |-> Header(b).blockSize + Header(b).padding]) = Bytes(mem, H)
    <2> PICK s : s = [b \in blocks |-> b.at - HeaderSize]
      OBVIOUS
    <2> PICK f : f = [a \in H |-> mem[a].blockSize]
      OBVIOUS
    <2> PICK e : e = [b \in blocks |-> Header(b).blockSize + Header(b).padding]
      OBVIOUS
    <2>1. s \in [blocks -> H] /\ \A y \in H : \E b \in blocks : s[b] = y
      BY DEF Heads
    <2>2. \A b, c \in blocks : s[b] = s[c] => b = c
      BY Pieces
    <2>3. DOMAIN f = H /\ IsFiniteSet(H) /\ \A y \in H : f[y] \in Nat
      BY <1>2 DEF Sized
    <2>4. DOMAIN e = blocks /\ \A b \in blocks : e[b] = f[s[b]]
      <3>1. ASSUME NEW b \in blocks PROVE e[b] = f[s[b]]
        <4>1. /\ b.at - HeaderSize \in H /\ Header(b) = mem[b.at - HeaderSize]
              /\ Header(b).blockSize \in Nat /\ Header(b).padding = 0
          BY Pieces
        <4> QED
          BY <4>1
      <3> QED
        BY <3>1
    <2>5. SumFunction(e) = SumFunction(f)
      <3>1. Renames(blocks, H, s, f, e)
        BY <2>1, <2>2, <2>3, <2>4 DEF Renames
      <3> QED
        BY ONLY <3>1, SumRenamed
    <2> QED
      BY <2>5 DEF Bytes
  <1>4. SumFunction([k \in DOMAIN FreeNodes |-> FreeSize(k)]) = Bytes(mem, N)
    <2> PICK s : s = FreeNodes
      OBVIOUS
    <2> PICK f : f = [a \in N |-> mem[a].blockSize]
      OBVIOUS
    <2> PICK e : e = [k \in DOMAIN FreeNodes |-> FreeSize(k)]
      OBVIOUS
    <2> PICK D : D = DOMAIN s
      OBVIOUS
    <2>1. Runs(s, N) /\ D = 1 .. Len(s) /\ N \in SUBSET Nat
      BY <1>1, Pieces, LaidFacts
    <2>2. s \in [D -> N] /\ \A y \in N : \E k \in D : s[k] = y
      BY <2>1 DEF Runs
    <2>3. \A i, j \in D : s[i] = s[j] => i = j
      <3>1. \A i, j \in D : i < j => s[i] < s[j]
        BY <2>1 DEF Runs
      <3>2. \A i \in D : i \in Int /\ s[i] \in Int
        BY <2>1, <2>2
      <3> QED
        BY <3>1, <3>2
    <2>4. DOMAIN f = N /\ IsFiniteSet(N) /\ \A y \in N : f[y] \in Nat
      BY <1>2 DEF Sized
    <2>5. DOMAIN e = D /\ \A k \in D : e[k] = f[s[k]]
      BY <2>2 DEF FreeSize
    <2>6. SumFunction(e) = SumFunction(f)
      <3>1. Renames(D, N, s, f, e)
        BY <2>2, <2>3, <2>4, <2>5 DEF Renames
      <3> QED
        BY ONLY <3>1, SumRenamed
    <2> QED
      BY <2>6 DEF Bytes
  <1> QED
    BY <1>1, <1>3, <1>4 DEF Accounting

-----------------------------------------------------------------------------
(* Theorems                                                                *)

(* With the least alignment Allocate uses, the padding in front of a block *)
(* has room for its header and less than a word more, and the block starts *)
(* on a word.  In a node that starts on a word itself the padding is the   *)
(* header and nothing else, which is why blocks in whole words never leave *)
(* the padding that Free would put the node behind.                        *)
THEOREM PaddingAligns ==
    ASSUME NEW base \in Nat
    PROVE  /\ PaddingAt(base, 8) \in HeaderSize .. HeaderSize + 7
           /\ (base + PaddingAt(base, 8)) % 8 = 0
           /\ base % 8 = 0 => PaddingAt(base, 8) = HeaderSize
<1> DEFINE q == base \div 8
<1> DEFINE r == base % 8
<1>1. /\ q \in Nat /\ r \in 0 .. 7
      /\ base = 8 * q + r
  BY SMT
<1>2. CalculatePadding(base, 8) = 8 - r
  BY <1>1 DEF CalculatePadding
<1>3. QED
  BY <1>1, <1>2 DEF PaddingAt, CalculatePaddingWithHeader, HeaderSize


(* In a reallocatable allocator or another, however often it is split,     *)
(* joined, grown and reset: what clients hold lies in the buffer and       *)
(* shares no byte with another block or a node of the free list (Allocate, *)
(* Free, Reallocate, Reset).                                               *)
THEOREM FreeBlocksApart == ASSUME WholeWords PROVE Spec => []Apart
  <1>1. Spec => []FreeInv
    BY FreeAlways
  <1> QED
    BY <1>1, InvApart, PTL

(* Every byte of the buffer is in a free node, charged to a block in use,  *)
(* or was lost in a Free above all free nodes; the list is sorted and no   *)
(* two of its nodes touch (Coalescence); used and peak stay within the     *)
(* buffer.                                                                 *)
THEOREM FreeListLosesNothing == ASSUME WholeWords PROVE Spec => []NothingLost
  <1>1. Spec => []FreeInv
    BY FreeAlways
  <1>2. FreeInv => NothingLost
    BY InvTyped, InvCoalesced, InvAccounts DEF NothingLost
  <1> QED
    BY <1>1, <1>2, PTL

(* An allocator that may grow never throws for want of room: Reallocate    *)
(* adds a node at the end of the buffer that Find then takes.              *)
THEOREM GrowthNeverFails == ASSUME WholeWords PROVE Spec => []GrowthSuffices
  <1>1. Spec => []FreeInv
    BY FreeAlways
  <1>2. FreeInv => GrowthSuffices
    BY DEF FreeInv
  <1> QED
    BY <1>1, <1>2, PTL
=============================================================================
