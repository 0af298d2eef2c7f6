----------------------------- MODULE LListProofs -----------------------------
(***************************************************************************)
(* The list and its heap, for every bound, every set of jobs and either    *)
(* kind of client.                                                         *)
(*                                                                         *)
(* HeapInv is an invariant of PackedHeapL: whatever order slots are freed  *)
(* in, and however std::lower_bound behaves on the vector Free leaves      *)
(* unsorted, no slot is handed out twice.  Over the heap, the links always *)
(* spell out the list in both directions, and what the list does is what   *)
(* the deque of JobDeque does.                                             *)
(*                                                                         *)
(* The KD tree, at the end: TreeInv is an invariant of KDTree, with the    *)
(* depth of each node (Shaped) and the free list as a chain (Spare).       *)
(***************************************************************************)
EXTENDS MCLList, KDTree, Recursion, SequenceTheorems

-----------------------------------------------------------------------------
(* The heap                                                                *)

(* RegionsApart and HeapTypeOK's part on regions, of a sequence and a size.*)
Apart(regions, n) ==
    /\ regions \in Seq(Regions)
    /\ \A k \in 1 .. Len(regions) :
          /\ 1 <= regions[k].start
          /\ regions[k].start <= regions[k].end
          /\ regions[k].end <= n
    /\ \A j, k \in 1 .. Len(regions) :
          j # k => \/ regions[j].end < regions[k].start
                   \/ regions[k].end < regions[j].start

Covers(regions, x) ==
    \E k \in 1 .. Len(regions) : regions[k].start <= x /\ x <= regions[k].end

(* What RemoveAt leaves of a sequence.                                     *)
LEMMA RemoveAtLemma ==
    ASSUME NEW S, NEW s \in Seq(S), NEW i \in 1 .. Len(s)
    PROVE  /\ RemoveAt(s, i) \in Seq(S)
           /\ Len(RemoveAt(s, i)) = Len(s) - 1
           /\ \A k \in 1 .. Len(s) - 1 :
                 RemoveAt(s, i)[k] = IF k < i THEN s[k] ELSE s[k + 1]
  <1> DEFINE a == SubSeq(s, 1, i - 1)
             b == SubSeq(s, i + 1, Len(s))
  <1>1. a \in Seq(S) /\ Len(a) = i - 1 /\ \A k \in 1 .. i - 1 : a[k] = s[k]
    OBVIOUS
  <1>2. b \in Seq(S) /\ Len(b) = Len(s) - i
        /\ \A k \in 1 .. Len(s) - i : b[k] = s[k + i]
    OBVIOUS
  <1> HIDE DEF a, b
  <1>3. /\ a \o b \in Seq(S)
        /\ Len(a \o b) = Len(a) + Len(b)
        /\ \A k \in 1 .. Len(a) + Len(b) :
              (a \o b)[k] = IF k <= Len(a) THEN a[k] ELSE b[k - Len(a)]
    BY <1>1, <1>2, ConcatProperties
  <1>0. Len(s) \in Nat /\ i \in Nat /\ 1 <= i /\ i <= Len(s)
    BY LenProperties
  <1>4. ASSUME NEW k \in 1 .. Len(s) - 1
        PROVE  (a \o b)[k] = IF k < i THEN s[k] ELSE s[k + 1]
    <2>0. k \in Int /\ 1 <= k /\ k <= Len(s) - 1
      BY <1>0
    <2>1. CASE k < i
      BY <1>0, <1>1, <1>2, <1>3, <2>0, <2>1
    <2>2. CASE ~(k < i)
      <3>1. (a \o b)[k] = b[k - (i - 1)]
        BY <1>0, <1>1, <1>2, <1>3, <2>0, <2>2
      <3>2. k - (i - 1) \in 1 .. Len(s) - i
        BY <1>0, <2>0, <2>2
      <3> QED
        BY <3>1, <3>2, <1>0, <1>2, <2>0, <2>2
    <2> QED
      BY <2>1, <2>2
  <1>5. Len(a) + Len(b) = Len(s) - 1
    BY <1>0, <1>1, <1>2
  <1>6. RemoveAt(s, i) = a \o b
    BY DEF RemoveAt, a, b
  <1> HIDE DEF RemoveAt
  <1> QED
    BY <1>3, <1>4, <1>5, <1>6

(* A region set in place of region l keeps the regions apart if it is      *)
(* apart from all others.                                                  *)
LEMMA ReplaceLemma ==
    ASSUME NEW n \in Nat, NEW regions, Apart(regions, n),
           NEW l \in 1 .. Len(regions), NEW lo \in Nat, NEW hi \in Nat,
           1 <= lo, lo <= hi, hi <= n,
           \A k \in 1 .. Len(regions) :
              k # l => regions[k].end < lo \/ hi < regions[k].start
    PROVE  Apart([regions EXCEPT ![l] = [start |-> lo, end |-> hi]], n)
  <1> DEFINE e == [start |-> lo, end |-> hi]
             r == [regions EXCEPT ![l] = e]
  <1>1. /\ regions \in Seq(Regions)
        /\ e \in Regions
    BY DEF Apart, Regions
  <1>2. /\ r \in Seq(Regions)
        /\ Len(r) = Len(regions)
        /\ \A k \in 1 .. Len(regions) : r[k] = IF k = l THEN e ELSE regions[k]
    BY <1>1, ExceptSeq
  <1>3. e.start = lo /\ e.end = hi
    OBVIOUS
  <1>4. \A k \in 1 .. Len(regions) : regions[k] \in Regions
    BY <1>1
  <1> HIDE DEF r, e
  <1>5. Apart(r, n)
    BY <1>2, <1>3, <1>4 DEF Apart, Regions
  <1> QED
    BY <1>5 DEF r, e

(* A region is its two ends.                                               *)
LEMMA RegionLemma ==
    \A r \in Regions : /\ r = [start |-> r.start, end |-> r.end]
                       /\ r.start \in Nat
                       /\ r.end \in Nat
  BY DEF Regions

(* Free's join adds the freed slot and nothing else, and loses no slot,    *)
(* whichever position std::lower_bound chose.                              *)
LEMMA JoinedLemma ==
    ASSUME size \in Nat, Apart(freeRegions, size), NEW idx \in 1 .. size,
           ~Covers(freeRegions, idx), NEW upper \in LowerBound(idx)
    PROVE  /\ Apart(Joined(idx, upper), size)
           /\ \A x \in Nat : Covers(Joined(idx, upper), x)
                             <=> Covers(freeRegions, x) \/ x = idx
  <1> DEFINE fr == freeRegions
             n == Len(fr)
             lower == IF upper = 1 THEN upper ELSE upper - 1
             above == upper <= n /\ fr[upper].start = idx + 1
             below == lower <= n /\ fr[lower].end = idx - 1
             OK(r) == /\ Apart(r, size)
                      /\ \A x \in Nat : Covers(r, x) <=> Covers(fr, x) \/ x = idx
             Region(lo, hi) == [start |-> lo, end |-> hi]
  <1>6. idx \in Nat /\ 1 <= idx /\ idx <= size
    OBVIOUS
  <1>0. fr \in Seq(Regions) /\ n \in Nat /\ \A k \in 1 .. n : fr[k] \in Regions
    BY DEF Apart
  <1>1. /\ fr \in Seq(Regions)
        /\ n \in Nat
        /\ \A k \in 1 .. n : /\ fr[k] \in Regions
                             /\ fr[k] = Region(fr[k].start, fr[k].end)
                             /\ fr[k].start \in Nat
                             /\ fr[k].end \in Nat
    BY <1>0, RegionLemma
  <1>2. /\ upper \in 1 .. n + 1
        /\ lower \in 1 .. n + 1
        /\ upper <= n => lower \in 1 .. n
    BY <1>1 DEF LowerBound
  <1>3. \A k \in 1 .. n : fr[k].end < idx \/ idx < fr[k].start
    <2> SUFFICES ASSUME NEW k \in 1 .. n, ~(idx < fr[k].start)
                 PROVE  fr[k].end < idx
      OBVIOUS
    <2>1. ~(fr[k].start <= idx /\ idx <= fr[k].end)
      BY DEF Covers
    <2>2. fr[k].start \in Nat /\ fr[k].end \in Nat
      BY <1>1
    <2> QED
      BY <1>6, <2>1, <2>2
  <1>4. \A k \in 1 .. n : /\ 1 <= fr[k].start
                          /\ fr[k].start <= fr[k].end
                          /\ fr[k].end <= size
    BY DEF Apart
  <1>5. \A j, k \in 1 .. n : j # k => \/ fr[j].end < fr[k].start
                                      \/ fr[k].end < fr[j].start
    BY DEF Apart
  <1>7. ASSUME NEW l \in 1 .. n, NEW lo \in Nat, NEW hi \in Nat,
               \/ lo = fr[l].start /\ fr[l].end = idx - 1 /\ hi = idx
               \/ lo = idx /\ fr[l].start = idx + 1 /\ hi = fr[l].end
        PROVE  OK([fr EXCEPT ![l] = Region(lo, hi)])
    <2> DEFINE r == [fr EXCEPT ![l] = Region(lo, hi)]
    <2>1. 1 <= lo /\ lo <= hi /\ hi <= size
      BY <1>1, <1>4, <1>6, <1>7
    <2>2. \A k \in 1 .. n : k # l => fr[k].end < lo \/ hi < fr[k].start
      <3> SUFFICES ASSUME NEW k \in 1 .. n, k # l
                   PROVE  fr[k].end < lo \/ hi < fr[k].start
        OBVIOUS
      <3>1. fr[k].end < fr[l].start \/ fr[l].end < fr[k].start
        BY <1>5
      <3>2. fr[k].end < idx \/ idx < fr[k].start
        BY <1>3
      <3>3. fr[k].start <= fr[k].end
        BY <1>4
      <3>4. /\ fr[k].start \in Nat /\ fr[k].end \in Nat
            /\ fr[l].start \in Nat /\ fr[l].end \in Nat
        BY <1>1
      <3>5. CASE lo = fr[l].start /\ fr[l].end = idx - 1 /\ hi = idx
        BY <1>6, <3>1, <3>2, <3>3, <3>4, <3>5
      <3>6. CASE lo = idx /\ fr[l].start = idx + 1 /\ hi = fr[l].end
        BY <1>6, <3>1, <3>2, <3>3, <3>4, <3>6
      <3> HIDE DEF fr
      <3> QED
        BY <1>7, <3>5, <3>6
    <2>3. Apart(r, size)
      BY <2>1, <2>2, ReplaceLemma
    <2>4. /\ Len(r) = n
          /\ \A k \in 1 .. n : r[k] = IF k = l THEN Region(lo, hi) ELSE fr[k]
      BY <1>1
    <2>5. \A x \in Nat : Covers(r, x) <=> Covers(fr, x) \/ x = idx
      <3> HIDE DEF r
      <3>1. \A x \in Nat : Covers(r, x) => Covers(fr, x) \/ x = idx
        BY <1>1, <1>6, <1>7, <2>4 DEF Covers
      <3>2. lo <= idx /\ idx <= hi /\ lo <= fr[l].start /\ fr[l].end <= hi
        BY <1>1, <1>4, <1>6, <1>7
      <3>3. Covers(r, idx)
        BY <2>4, <3>2 DEF Covers
      <3>4. ASSUME NEW x \in Nat, NEW k \in 1 .. n,
                   fr[k].start <= x, x <= fr[k].end
            PROVE  r[k].start <= x /\ x <= r[k].end
        <4>1. CASE k = l
          <5>1. r[k].start = lo /\ r[k].end = hi
            BY <2>4, <4>1
          <5>2. fr[l].start \in Nat /\ fr[l].end \in Nat
            BY <1>1
          <5> QED
            BY <3>2, <3>4, <4>1, <5>1, <5>2
        <4>2. CASE k # l
          BY <2>4, <3>4, <4>2
        <4> QED
          BY <4>1, <4>2
      <3>5. \A x \in Nat : Covers(fr, x) => Covers(r, x)
        BY <2>4, <3>4 DEF Covers
      <3> QED
        BY <3>1, <3>3, <3>5
    <2> QED
      BY <2>3, <2>5
  <1>8. CASE above /\ below
    <2> DEFINE m == Region(fr[lower].start, fr[upper].end)
               r1 == [fr EXCEPT ![lower] = m]
               r == RemoveAt(r1, upper)
               from(k) == IF k < upper THEN k ELSE k + 1
    <2>1. upper \in 1 .. n /\ lower \in 1 .. n /\ lower < upper
      BY <1>1, <1>2, <1>4, <1>6, <1>8
    <2>0. fr[lower].end = idx - 1 /\ fr[upper].start = idx + 1
      BY <1>8
    <2>2. m \in Regions
      BY <1>1, <2>1 DEF Regions
    <2>3. /\ r1 \in Seq(Regions)
          /\ Len(r1) = n
          /\ \A k \in 1 .. n : r1[k] = IF k = lower THEN m ELSE fr[k]
      BY <1>1, <2>1, <2>2, ExceptSeq
    <2>4. /\ r \in Seq(Regions)
          /\ Len(r) = n - 1
          /\ \A k \in 1 .. n - 1 : r[k] = r1[from(k)]
      <3> HIDE DEF r1
      <3> QED
        BY <2>1, <2>3, RemoveAtLemma
    <2>5. \A k \in 1 .. n - 1 : from(k) \in 1 .. n /\ from(k) # upper
      BY <1>1, <2>1
    <2>6. \A j, k \in 1 .. n - 1 : j # k => from(j) # from(k)
      BY <1>1, <2>1
    <2>7. m.start = fr[lower].start /\ m.end = fr[upper].end
      OBVIOUS
    <2>8. \A k \in 1 .. n : k \notin {lower, upper} =>
              fr[k].end < m.start \/ m.end < fr[k].start
      <3> SUFFICES ASSUME NEW k \in 1 .. n, k \notin {lower, upper},
                          ~(fr[k].end < m.start)
                   PROVE  m.end < fr[k].start
        OBVIOUS
      <3>0. /\ fr[k].start <= fr[k].end
            /\ fr[k].start \in Nat
            /\ fr[k].end \in Nat
        BY <1>1, <1>4
      <3>1. fr[lower].end < fr[k].start
        BY <1>5, <2>1, <2>7
      <3>2. idx < fr[k].start
        <4>1. fr[k].end < idx \/ idx < fr[k].start
          BY <1>3
        <4> QED
          BY <1>6, <2>0, <3>0, <3>1, <4>1
      <3>3. ~(fr[k].end < fr[upper].start)
        BY <1>6, <2>0, <3>0, <3>2
      <3> QED
        BY <1>5, <2>1, <2>7, <3>3
    <2>9. 1 <= m.start /\ m.start <= m.end /\ m.end <= size
      <3>1. /\ 1 <= fr[lower].start
            /\ fr[lower].start <= fr[lower].end
            /\ fr[upper].start <= fr[upper].end
            /\ fr[upper].end <= size
        BY <1>4, <2>1
      <3>2. fr[lower].start \in Nat /\ fr[upper].end \in Nat
        BY <1>1, <2>1
      <3> QED
        BY <1>6, <2>0, <2>7, <3>1, <3>2
    <2> HIDE DEF m, r1, r, from
    <2>10. \A k \in 1 .. n - 1 : r[k] = IF from(k) = lower THEN m ELSE fr[from(k)]
      BY <2>3, <2>4, <2>5
    <2>11. \A k \in 1 .. n - 1 : /\ 1 <= r[k].start
                                 /\ r[k].start <= r[k].end
                                 /\ r[k].end <= size
      BY <1>4, <2>5, <2>9, <2>10
    <2>12. \A j, k \in 1 .. n - 1 : j # k => \/ r[j].end < r[k].start
                                             \/ r[k].end < r[j].start
      BY <1>5, <2>1, <2>5, <2>6, <2>8, <2>10
    <2>13. Apart(r, size)
      BY <2>4, <2>11, <2>12 DEF Apart
    <2>14. ASSUME NEW x \in Nat, Covers(r, x)
           PROVE  Covers(fr, x) \/ x = idx
      <3>1. PICK k \in 1 .. n - 1 : r[k].start <= x /\ x <= r[k].end
        BY <2>4, <2>14 DEF Covers
      <3>2. CASE from(k) = lower
        <4>1. fr[lower].start <= x /\ x <= fr[upper].end
          BY <2>7, <2>10, <3>1, <3>2
        <4>2. \/ x <= fr[lower].end
              \/ x = idx
              \/ fr[upper].start <= x
          BY <1>6, <2>0
        <4> QED
          BY <2>1, <4>1, <4>2 DEF Covers
      <3>3. CASE from(k) # lower
        BY <2>5, <2>10, <3>1, <3>3 DEF Covers
      <3> QED
        BY <3>2, <3>3
    <2>15. ASSUME NEW x \in Nat, Covers(fr, x) \/ x = idx
           PROVE  Covers(r, x)
      <3> DEFINE at(k) == IF k < upper THEN k ELSE k - 1
      <3>1. \A k \in 1 .. n : k # upper => at(k) \in 1 .. n - 1 /\ from(at(k)) = k
        BY <1>1, <2>1 DEF from
      <3> HIDE DEF at
      <3>2. ASSUME m.start <= x, x <= m.end
            PROVE  Covers(r, x)
        <4>1. at(lower) \in 1 .. n - 1 /\ r[at(lower)] = m
          BY <1>1, <2>1, <2>10, <3>1
        <4> QED
          BY <2>4, <3>2, <4>1 DEF Covers
      <3>3. CASE x = idx
        <4>1. fr[lower].start <= fr[lower].end /\ fr[upper].start <= fr[upper].end
          BY <1>4, <2>1
        <4>2. fr[lower].start \in Nat /\ fr[upper].end \in Nat
          BY <1>1, <2>1
        <4> HIDE DEF lower
        <4> QED
          BY <1>6, <2>0, <2>7, <3>2, <3>3, <4>1, <4>2
      <3>4. CASE Covers(fr, x)
        <4>1. PICK k \in 1 .. n : fr[k].start <= x /\ x <= fr[k].end
          BY <3>4 DEF Covers
        <4>2. CASE k \in {lower, upper}
          <5>1. fr[lower].start <= fr[lower].end /\ fr[upper].start <= fr[upper].end
            BY <1>4, <2>1
          <5>2. /\ fr[lower].start \in Nat /\ fr[upper].start \in Nat
                /\ fr[lower].end \in Nat /\ fr[upper].end \in Nat
            BY <1>1, <2>1
          <5> HIDE DEF lower
          <5> QED
            BY <1>6, <2>0, <2>7, <3>2, <4>1, <4>2, <5>1, <5>2
        <4>3. CASE k \notin {lower, upper}
          <5>1. at(k) \in 1 .. n - 1 /\ r[at(k)] = fr[k]
            BY <2>10, <3>1, <4>3
          <5> QED
            BY <2>4, <4>1, <5>1 DEF Covers
        <4> QED
          BY <4>2, <4>3
      <3> QED
        BY <2>15, <3>3, <3>4
    <2>16. Joined(idx, upper) = r
      <3>1. r1 = [fr EXCEPT ![lower].end = fr[upper].end]
        BY <1>1, <2>1 DEF r1, m, Regions
      <3> QED
        BY <1>8, <3>1 DEF Joined, r
    <2> QED
      BY <2>13, <2>14, <2>15, <2>16
  <1>9. CASE above /\ ~below
    <2>1. upper \in 1 .. n
      BY <1>2, <1>9
    <2>2. Joined(idx, upper) = [fr EXCEPT ![upper].start = @ - 1]
      BY <1>9 DEF Joined
    <2>3. [fr EXCEPT ![upper].start = @ - 1]
             = [fr EXCEPT ![upper] = Region(idx, fr[upper].end)]
      <3>1. fr[upper] = Region(fr[upper].start, fr[upper].end)
        BY <1>1, <2>1
      <3>2. fr[upper].start - 1 = idx
        BY <1>6, <1>9
      <3>3. [fr[upper] EXCEPT !.start = fr[upper].start - 1] = Region(idx, fr[upper].end)
        BY <3>1, <3>2
      <3> QED
        BY <3>3
    <2>4. OK([fr EXCEPT ![upper] = Region(idx, fr[upper].end)])
      BY <1>1, <1>6, <1>7, <1>9, <2>1
    <2>5. OK(Joined(idx, upper))
      <3> HIDE DEF OK
      <3> QED
        BY <2>2, <2>3, <2>4
    <2> QED
      BY <2>5
  <1>10. CASE ~above /\ below
    <2>1. lower \in 1 .. n
      BY <1>2, <1>10
    <2>2. Joined(idx, upper) = [fr EXCEPT ![lower].end = @ + 1]
      BY <1>10 DEF Joined
    <2>3. [fr EXCEPT ![lower].end = @ + 1]
             = [fr EXCEPT ![lower] = Region(fr[lower].start, idx)]
      <3>1. fr[lower] = Region(fr[lower].start, fr[lower].end)
        BY <1>1, <2>1
      <3>2. fr[lower].end + 1 = idx
        BY <1>6, <1>10
      <3>3. [fr[lower] EXCEPT !.end = fr[lower].end + 1] = Region(fr[lower].start, idx)
        BY <3>1, <3>2
      <3> HIDE DEF lower
      <3> QED
        BY <3>3
    <2>4. OK([fr EXCEPT ![lower] = Region(fr[lower].start, idx)])
      BY <1>1, <1>6, <1>7, <1>10, <2>1
    <2>5. OK(Joined(idx, upper))
      <3> HIDE DEF OK
      <3> QED
        BY <2>2, <2>3, <2>4
    <2> QED
      BY <2>5
  <1>11. CASE ~above /\ ~below
    <2> DEFINE e == Region(idx, idx)
               r == Append(fr, e)
    <2>1. Joined(idx, upper) = r
      BY <1>11 DEF Joined
    <2>2. e \in Regions /\ e.start = idx /\ e.end = idx
      BY <1>6 DEF Regions
    <2> HIDE DEF e
    <2>3. /\ r \in Seq(Regions)
          /\ Len(r) = n + 1
          /\ \A k \in 1 .. n + 1 : r[k] = IF k = n + 1 THEN e ELSE fr[k]
      BY <1>1, <2>2
    <2> HIDE DEF r
    <2>4. Apart(r, size)
      <3>1. \A k \in 1 .. n + 1 : /\ 1 <= r[k].start
                                  /\ r[k].start <= r[k].end
                                  /\ r[k].end <= size
        BY <1>1, <1>4, <1>6, <2>2, <2>3
      <3>2. \A j, k \in 1 .. n + 1 : j # k => \/ r[j].end < r[k].start
                                              \/ r[k].end < r[j].start
        BY <1>1, <1>3, <1>5, <1>6, <2>2, <2>3
      <3> QED
        BY <2>3, <3>1, <3>2 DEF Apart
    <2>5. \A x \in Nat : Covers(r, x) <=> Covers(fr, x) \/ x = idx
      <3>1. \A x \in Nat : Covers(r, x) => Covers(fr, x) \/ x = idx
        BY <1>1, <1>6, <2>2, <2>3 DEF Covers
      <3>2. Covers(r, idx)
        BY <1>1, <1>6, <2>2, <2>3 DEF Covers
      <3>3. \A k \in 1 .. n : k \in 1 .. n + 1 /\ r[k] = fr[k]
        BY <1>1, <2>3
      <3>4. \A x \in Nat : Covers(fr, x) => Covers(r, x)
        BY <2>3, <3>3 DEF Covers
      <3> QED
        BY <3>1, <3>2, <3>4
    <2> QED
      BY <2>1, <2>4, <2>5
  <1> QED
    BY <1>8, <1>9, <1>10, <1>11
-----------------------------------------------------------------------------
(* HeapInv with FreeSlots put in terms of the regions.                     *)
HeapCore ==
    /\ HeapTypeOK
    /\ Apart(freeRegions, size)
    /\ \A x \in live \union dropped : ~Covers(freeRegions, x)
    /\ live \intersect dropped = {}

(* A slot is in FreeSlots when some region covers it.                      *)
LEMMA FreeSlotsLemma ==
    ASSUME freeRegions \in Seq(Regions)
    PROVE  \A x \in Int : x \in FreeSlots <=> Covers(freeRegions, x)
  <1>1. /\ DOMAIN freeRegions = 1 .. Len(freeRegions)
        /\ \A k \in 1 .. Len(freeRegions) : freeRegions[k] \in Regions
    OBVIOUS
  <1>2. \A k \in 1 .. Len(freeRegions) :
           freeRegions[k].start \in Nat /\ freeRegions[k].end \in Nat
    BY <1>1, RegionLemma
  <1>3. ASSUME NEW x \in Int
        PROVE  x \in FreeSlots <=> \E k \in 1 .. Len(freeRegions) : x \in Slots(freeRegions[k])
    BY <1>1 DEF FreeSlots
  <1>4. ASSUME NEW x \in Int, NEW k \in 1 .. Len(freeRegions)
        PROVE  x \in Slots(freeRegions[k])
               <=> freeRegions[k].start <= x /\ x <= freeRegions[k].end
    BY <1>2 DEF Slots
  <1> QED
    BY <1>3, <1>4 DEF Covers

(* HeapCore says what HeapInv says.                                        *)
LEMMA CoreIsInv == HeapCore <=> HeapInv
  <1>1. HeapTypeOK => /\ freeRegions \in Seq(Regions)
                      /\ live \subseteq Int /\ dropped \subseteq Int
                      /\ DOMAIN freeRegions = 1 .. Len(freeRegions)
    BY DEF HeapTypeOK
  <1>2. HeapTypeOK => (Apart(freeRegions, size) <=> RegionsApart)
    BY <1>1 DEF Apart, RegionsApart
  <1>3. HeapTypeOK =>
          ( /\ \A x \in live \union dropped : ~Covers(freeRegions, x)
            /\ live \intersect dropped = {}
            <=> NoSlotTwice )
    BY <1>1, FreeSlotsLemma DEF NoSlotTwice
  <1> QED
    BY <1>2, <1>3 DEF HeapCore, HeapInv

(* HeapCore is inductive: an empty buf has no region,                      *)
LEMMA CoreInit == HeapInit => HeapCore
  BY PackedHeapLAssumption
     DEF HeapInit, HeapCore, HeapTypeOK, Apart, Covers, PackedHeapLAssumption

(* Alloc takes the top slot of the last region, or a slot that is new when *)
(* there is no region: nobody held the slot, and the regions lose it and   *)
(* nothing else.                                                           *)
LEMMA AllocRegions ==
    ASSUME HeapCore, NEW ret \in 1 .. MaxSize, Alloc(ret)
    PROVE  /\ Apart(freeRegions', size')
           /\ size' \in 0 .. MaxSize
           /\ \/ size' = size /\ Covers(freeRegions, ret)
              \/ freeRegions = <<>> /\ ret = size + 1 /\ size' = size + 1
           /\ ret \in 1 .. size'
           /\ ret \notin live \union dropped
           /\ \A x \in Nat : Covers(freeRegions', x)
                             <=> Covers(freeRegions, x) /\ x # ret
  <1>1. /\ size \in Nat /\ size <= MaxSize /\ MaxSize \in Nat
        /\ Apart(freeRegions, size)
        /\ live \subseteq 1 .. size /\ dropped \subseteq 1 .. size /\ peak \in Nat
    BY PackedHeapLAssumption DEF HeapCore, HeapTypeOK, PackedHeapLAssumption
  <1>2. CASE ReuseSlot(ret)
    <2> DEFINE n == Len(freeRegions)
               last == freeRegions[n]
               r == freeRegions'
    <2>1. /\ n \in Nat /\ n > 0 /\ ret = last.end /\ size' = size
          /\ freeRegions \in Seq(Regions)
          /\ last \in Regions /\ last.start \in Nat /\ last.end \in Nat
          /\ 1 <= last.start /\ last.start <= last.end /\ last.end <= size
      <3>1. freeRegions \in Seq(Regions) /\ n \in Nat
        BY <1>1, LenProperties DEF Apart
      <3>2. n > 0 /\ ret = last.end /\ size' = size
        BY <1>2 DEF ReuseSlot
      <3>3. n \in 1 .. n /\ last \in Regions
        BY <3>1, <3>2, ElementOfSeq
      <3>4. 1 <= last.start /\ last.start <= last.end /\ last.end <= size
        BY <1>1, <3>3 DEF Apart
      <3> QED
        BY <3>1, <3>2, <3>3, <3>4, RegionLemma
    <2>2. \A k \in 1 .. n : /\ freeRegions[k].start \in Nat
                            /\ freeRegions[k].end \in Nat
                            /\ freeRegions[k].start <= freeRegions[k].end
      BY <1>1, <2>1, RegionLemma DEF Apart
    <2>3. \A k \in 1 .. n : k # n => \/ freeRegions[k].end < last.start
                                     \/ last.end < freeRegions[k].start
      BY <1>1, <2>1 DEF Apart
    <2>4. Covers(freeRegions, ret) /\ ret \notin live \union dropped /\ ret \in 1 .. size'
      <3>1. Covers(freeRegions, ret)
        BY <2>1 DEF Covers
      <3> QED
        BY <3>1, <2>1 DEF HeapCore
    <2>5. CASE last.start = last.end
      <3>1. r = SubSeq(freeRegions, 1, n - 1)
        BY <1>2, <2>5 DEF ReuseSlot
      <3>2. /\ r \in Seq(Regions)
            /\ Len(r) = n - 1
            /\ \A k \in 1 .. n - 1 : r[k] = freeRegions[k]
        <4>1. \A k \in 1 .. n - 1 : freeRegions[k] \in Regions
          BY <2>1
        <4>2. /\ SubSeq(freeRegions, 1, n - 1) \in Seq(Regions)
              /\ Len(SubSeq(freeRegions, 1, n - 1)) = n - 1
              /\ \A k \in 1 .. n - 1 : SubSeq(freeRegions, 1, n - 1)[k] = freeRegions[k]
          <5>1. n - 1 \in Int /\ n - 1 >= 0 /\ 1 \in Int
            BY <2>1
          <5> HIDE DEF n
          <5>2. /\ SubSeq(freeRegions, 1, n - 1) \in Seq(Regions)
                /\ Len(SubSeq(freeRegions, 1, n - 1)) = IF 1 <= n - 1 THEN (n - 1) - 1 + 1 ELSE 0
                /\ \A k \in 1 .. (n - 1) - 1 + 1 :
                      SubSeq(freeRegions, 1, n - 1)[k] = freeRegions[1 + k - 1]
            BY <4>1, <5>1, SubSeqProperties
          <5> QED
            BY <2>1, <5>1, <5>2
        <4> QED
          BY <4>2, <3>1
      <3>3. Apart(r, size)
        <4>1. \A k \in 1 .. n - 1 : k \in 1 .. n
          BY <2>1
        <4> HIDE DEF r
        <4> QED
          BY <3>2, <4>1, <1>1 DEF Apart
      <3>4. ~Covers(r, ret)
        <4> SUFFICES ASSUME NEW k \in 1 .. n - 1,
                            freeRegions[k].start <= ret, ret <= freeRegions[k].end
                     PROVE  FALSE
          BY <3>2 DEF Covers
        <4>1. k \in 1 .. n /\ k # n
          BY <2>1
        <4>2. freeRegions[k].end < last.start \/ last.end < freeRegions[k].start
          BY <4>1, <2>3
        <4>3. freeRegions[k].start \in Nat /\ freeRegions[k].end \in Nat
          BY <4>1, <2>2
        <4> QED
          BY <4>2, <4>3, <2>1
      <3>5. \A x \in Nat : Covers(r, x) => Covers(freeRegions, x)
        BY <3>2, <2>1 DEF Covers
      <3>6. ASSUME NEW x \in Nat, Covers(freeRegions, x), x # ret
            PROVE  Covers(r, x)
        <4>1. PICK k \in 1 .. n : freeRegions[k].start <= x /\ x <= freeRegions[k].end
          BY <3>6 DEF Covers
        <4>2. k # n
          BY <2>1, <2>5, <3>6, <4>1
        <4>3. k \in 1 .. n - 1
          BY <2>1, <4>2
        <4> QED
          BY <3>2, <4>1, <4>3 DEF Covers
      <3> QED
        BY <3>3, <3>4, <3>5, <3>6, <2>1, <2>4, <1>1
    <2>6. CASE last.start # last.end
      <3> DEFINE e == [start |-> last.start, end |-> last.end - 1]
      <3>1. /\ e \in Regions /\ e.start = last.start /\ e.end = last.end - 1
            /\ last.end - 1 \in Nat
            /\ last.start <= last.end - 1
        BY <2>1, <2>6 DEF Regions
      <3>2. r = [freeRegions EXCEPT ![n] = e]
        <4>1. r = [freeRegions EXCEPT ![n].end = @ - 1]
          BY <1>2, <2>6 DEF ReuseSlot
        <4>2. last = [start |-> last.start, end |-> last.end]
          BY <2>1, RegionLemma
        <4>3. [last EXCEPT !.end = last.end - 1] = e
          BY <4>2
        <4> QED
          BY <4>1, <4>3
      <3>3. Apart([freeRegions EXCEPT ![n] = e], size)
        <4>1. \A k \in 1 .. n : k # n => \/ freeRegions[k].end < last.start
                                         \/ last.end - 1 < freeRegions[k].start
          BY <2>1, <2>2, <2>3
        <4>2. 1 <= last.start /\ last.end - 1 <= size /\ n \in 1 .. n
          BY <1>1, <2>1
        <4> HIDE DEF last
        <4> QED
          BY <1>1, <2>1, <3>1, <4>1, <4>2, ReplaceLemma DEF e
      <3> HIDE DEF e
      <3>4. /\ Len(r) = n
            /\ \A k \in 1 .. n : r[k] = IF k = n THEN e ELSE freeRegions[k]
        BY <3>1, <3>2, <2>1
      <3> HIDE DEF r
      <3>5. ~Covers(r, ret)
        <4> SUFFICES ASSUME NEW k \in 1 .. n, r[k].start <= ret, ret <= r[k].end
                     PROVE  FALSE
          BY <3>4 DEF Covers
        <4>1. CASE k = n
          BY <4>1, <2>1, <3>1, <3>4
        <4>2. CASE k # n
          <5>1. r[k] = freeRegions[k]
            BY <3>4, <4>2
          <5>2. freeRegions[k].end < last.start \/ last.end < freeRegions[k].start
            BY <2>3, <4>2
          <5>3. freeRegions[k].start \in Nat /\ freeRegions[k].end \in Nat
            BY <2>2
          <5> QED
            BY <5>1, <5>2, <5>3, <2>1
        <4> QED
          BY <4>1, <4>2
      <3>6. ASSUME NEW x \in Nat, x # ret
            PROVE  Covers(r, x) <=> Covers(freeRegions, x)
        <4>1. ASSUME NEW k \in 1 .. n
              PROVE  r[k].start <= x /\ x <= r[k].end
                     <=> freeRegions[k].start <= x /\ x <= freeRegions[k].end
          <5>1. CASE k = n
            BY <2>1, <3>1, <3>4, <3>6, <5>1
          <5>2. CASE k # n
            BY <3>4, <5>2
          <5> QED
            BY <5>1, <5>2
        <4> QED
          BY <3>4, <4>1 DEF Covers
      <3>7. Apart(freeRegions', size')
        BY <3>2, <3>3, <2>1 DEF r
      <3>8. ~Covers(freeRegions', ret)
        BY <3>5 DEF r
      <3>9. \A x \in Nat : Covers(freeRegions', x)
                             <=> Covers(freeRegions, x) /\ x # ret
        BY <3>5, <3>6 DEF r
      <3> QED
        BY <3>7, <3>8, <3>9, <2>1, <2>4, <1>1
    <2> QED
      BY <2>5, <2>6
  <1>3. CASE GrowBuf(ret)
    <2>1. /\ freeRegions = <<>> /\ freeRegions' = freeRegions
          /\ ret = size + 1 /\ size' = size + 1 /\ size < MaxSize
      BY <1>3 DEF GrowBuf
    <2>2. Apart(freeRegions', size')
      BY <2>1 DEF Apart
    <2>3. \A x : ~Covers(freeRegions', x) /\ ~Covers(freeRegions, x)
      BY <2>1 DEF Covers
    <2> QED
      BY <1>1, <2>1, <2>2, <2>3
  <1> QED
    BY <1>2, <1>3 DEF Alloc

(* Alloc preserves HeapCore.                                               *)
LEMMA AllocCore ==
    ASSUME HeapCore, NEW ret \in 1 .. MaxSize, Alloc(ret)
    PROVE  HeapCore'
  <1>1. /\ size \in Nat /\ live \subseteq 1 .. size /\ dropped \subseteq 1 .. size
        /\ peak \in Nat /\ MaxSize \in Nat
    BY PackedHeapLAssumption DEF HeapCore, HeapTypeOK, PackedHeapLAssumption
  <1>2. /\ Apart(freeRegions', size') /\ size' \in 0 .. MaxSize
        /\ size' = size \/ size' = size + 1
        /\ ret \in 1 .. size' /\ ret \notin live \union dropped
        /\ \A x \in Nat : Covers(freeRegions', x)
                          <=> Covers(freeRegions, x) /\ x # ret
    BY AllocRegions
  <1>3. live' = live \union {ret} /\ dropped' = dropped
    BY DEF Alloc
  <1>4. live' \subseteq 1 .. size' /\ dropped' \subseteq 1 .. size'
    BY <1>1, <1>2, <1>3
  <1>5. peak' \in Nat
    <2>1. IsFiniteSet(1 .. size') /\ size' \in Int
      BY <1>2, FS_Interval
    <2>2. IsFiniteSet(live')
      BY <1>4, <2>1, FS_Subset
    <2>3. Cardinality(live') \in Nat
      BY <2>2, FS_CardinalityType
    <2> QED
      BY <1>1, <2>3 DEF Alloc
  <1>6. HeapTypeOK'
    BY <1>2, <1>4, <1>5 DEF HeapTypeOK, Apart
  <1>7. \A x \in live' \union dropped' : ~Covers(freeRegions', x)
    <2>1. live \subseteq Nat /\ dropped \subseteq Nat /\ ret \in Nat
      BY <1>1, <1>2
    <2>2. \A x \in live \union dropped : ~Covers(freeRegions', x)
      BY <1>2, <2>1 DEF HeapCore
    <2> QED
      BY <1>2, <1>3, <2>1, <2>2
  <1>8. live' \intersect dropped' = {}
    BY <1>2, <1>3 DEF HeapCore
  <1> QED
    BY <1>2, <1>6, <1>7, <1>8 DEF HeapCore

(* Free by index of a slot the client holds.                               *)
LEMMA FreeIdxCore ==
    ASSUME HeapCore, NEW idx \in live, FreeIdx(idx)
    PROVE  HeapCore'
  <1>1. /\ size \in Nat /\ Apart(freeRegions, size) /\ idx \in 1 .. size
        /\ live \subseteq Nat /\ dropped \subseteq Nat
        /\ ~Covers(freeRegions, idx)
    BY PackedHeapLAssumption DEF HeapCore, HeapTypeOK, PackedHeapLAssumption
  <1>2. PICK upper \in LowerBound(idx) :
           freeRegions' = IF DoubleFreeSeen(idx, upper) THEN freeRegions
                                                        ELSE Joined(idx, upper)
    BY DEF FreeIdx
  <1>3. /\ Apart(freeRegions', size)
        /\ \A x \in Nat : Covers(freeRegions', x) => Covers(freeRegions, x) \/ x = idx
    BY <1>1, <1>2, JoinedLemma
  <1>4. size' = size /\ dropped' = dropped /\ peak' = peak /\ live' = live \ {idx}
    BY DEF FreeIdx
  <1>5. HeapTypeOK'
    BY <1>3, <1>4 DEF HeapCore, HeapTypeOK, Apart
  <1>6. \A x \in live' \union dropped' : x \in Nat /\ x # idx /\ ~Covers(freeRegions, x)
    BY <1>1, <1>4 DEF HeapCore
  <1> QED
    BY <1>3, <1>4, <1>5, <1>6 DEF HeapCore

(* Free by pointer of a slot the client holds.                             *)
LEMMA FreePtrCore ==
    ASSUME HeapCore, NEW idx \in live, FreePtr(idx)
    PROVE  HeapCore'
  <1>1. CASE FreeIdx(idx)
    BY <1>1, FreeIdxCore
  <1>2. CASE /\ live' = live \ {idx} /\ dropped' = dropped \union {idx}
             /\ UNCHANGED <<size, freeRegions, peak>>
    BY <1>2 DEF HeapCore, HeapTypeOK, Apart, Covers
  <1> QED
    BY <1>1, <1>2 DEF FreePtr

(* and each operation preserves it.                                        *)
LEMMA CoreNext == HeapCore /\ [HeapNext]_heapVars => HeapCore'
  <1> SUFFICES ASSUME HeapCore, [HeapNext]_heapVars
               PROVE  HeapCore'
    OBVIOUS
  <1>1. CASE \E ret \in 1 .. MaxSize : Alloc(ret)
    BY <1>1, AllocCore
  <1>2. CASE \E idx \in live : FreeIdx(idx)
    BY <1>2, FreeIdxCore
  <1>3. CASE PtrFree /\ \E idx \in live : FreePtr(idx)
    BY <1>3, FreePtrCore
  <1>4. CASE FreeAll
    BY <1>4, PackedHeapLAssumption
       DEF FreeAll, HeapCore, HeapTypeOK, Apart, Covers, PackedHeapLAssumption
  <1>5. CASE UNCHANGED heapVars
    BY <1>5 DEF heapVars, HeapCore, HeapTypeOK, Apart, Covers
  <1> QED
    BY <1>1, <1>2, <1>3, <1>4, <1>5 DEF HeapNext

-----------------------------------------------------------------------------
(* Every slot has a place, with FreeSlots put in terms of the regions.     *)
Placed == \A x \in 1 .. size : x \in live \union dropped \/ Covers(freeRegions, x)

(* AllAccounted and SizeIsPeak are inductive together with HeapCore: that  *)
(* buf is as short as it can be follows from no slot being lost.           *)
HeapFull == HeapCore /\ Placed /\ SizeIsPeak

(* What HeapTypeOK says of the sets of slots.                              *)
LEMMA SlotSets ==
    ASSUME HeapTypeOK
    PROVE  /\ size \in Nat /\ size <= MaxSize /\ MaxSize \in Nat
           /\ live \subseteq 1 .. size /\ IsFiniteSet(live) /\ Cardinality(live) \in Nat
           /\ dropped \subseteq 1 .. size /\ IsFiniteSet(dropped)
           /\ Cardinality(dropped) \in Nat
           /\ peak \in Nat
  <1>1. /\ size \in Nat /\ size <= MaxSize /\ MaxSize \in Nat /\ peak \in Nat
        /\ live \subseteq 1 .. size /\ dropped \subseteq 1 .. size
    BY PackedHeapLAssumption DEF HeapTypeOK, PackedHeapLAssumption
  <1>2. IsFiniteSet(1 .. size)
    BY <1>1, FS_Interval
  <1>3. IsFiniteSet(live) /\ IsFiniteSet(dropped)
    BY <1>1, <1>2, FS_Subset
  <1> QED
    BY <1>1, <1>3, FS_CardinalityType

(* Placed says what AllAccounted says.                                     *)
LEMMA PlacedIsAccounted ==
    ASSUME HeapCore
    PROVE  Placed <=> AllAccounted
  <1>1. /\ freeRegions \in Seq(Regions) /\ Apart(freeRegions, size)
        /\ size \in Nat /\ live \subseteq 1 .. size /\ dropped \subseteq 1 .. size
    BY SlotSets DEF HeapCore, Apart
  <1>2. \A x \in Int : x \in FreeSlots <=> Covers(freeRegions, x)
    BY <1>1, FreeSlotsLemma
  <1>3. \A k \in 1 .. Len(freeRegions) : Slots(freeRegions[k]) \subseteq 1 .. size
    <2> SUFFICES ASSUME NEW k \in 1 .. Len(freeRegions)
                 PROVE  Slots(freeRegions[k]) \subseteq 1 .. size
      OBVIOUS
    <2>1. freeRegions[k] \in Regions
      BY <1>1
    <2>2. freeRegions[k].start \in Nat /\ freeRegions[k].end \in Nat
      BY <2>1, RegionLemma
    <2> QED
      BY <1>1, <2>2 DEF Slots, Apart
  <1>4. FreeSlots \subseteq 1 .. size
    BY <1>1, <1>3 DEF FreeSlots
  <1>5. AllAccounted <=> \A x \in 1 .. size : x \in live \union FreeSlots \union dropped
    BY <1>1, <1>4 DEF AllAccounted
  <1>6. \A x \in 1 .. size : x \in Int
    BY <1>1
  <1> QED
    BY <1>2, <1>5, <1>6 DEF Placed

(* The pop of a region loses no slot, and buf grows only when every slot   *)
(* is held or forgotten.                                                   *)
LEMMA AllocFull ==
    ASSUME HeapFull, NEW ret \in 1 .. MaxSize, Alloc(ret)
    PROVE  HeapFull'
  <1>1. HeapCore /\ HeapCore' /\ HeapTypeOK /\ HeapTypeOK'
    BY AllocCore DEF HeapFull, HeapCore
  <1>2. /\ size' \in 0 .. MaxSize
        /\ size' = size \/ (freeRegions = <<>> /\ ret = size + 1 /\ size' = size + 1)
        /\ ret \notin live \union dropped
        /\ \A x \in Nat : Covers(freeRegions', x)
                          <=> Covers(freeRegions, x) /\ x # ret
    BY <1>1, AllocRegions
  <1>3. /\ live' = live \union {ret} /\ dropped' = dropped
        /\ peak' = IF Cardinality(live') > peak THEN Cardinality(live') ELSE peak
    BY DEF Alloc
  <1>4. /\ size \in Nat /\ size' \in Nat
        /\ live \subseteq 1 .. size /\ dropped \subseteq 1 .. size
        /\ IsFiniteSet(live) /\ Cardinality(live) \in Nat
        /\ IsFiniteSet(dropped) /\ Cardinality(dropped) \in Nat
        /\ peak \in Nat
    <2>1. size' \in Nat
      BY <1>1, <1>2, SlotSets
    <2> QED
      BY <1>1, <2>1, SlotSets
  <1>5. Cardinality(live') = Cardinality(live) + 1
    BY <1>2, <1>3, <1>4, FS_AddElement
  <1>6. Placed'
    <2> SUFFICES ASSUME NEW x \in 1 .. size', x # ret
                 PROVE  x \in live \union dropped \/ Covers(freeRegions, x)
      BY <1>2, <1>3, <1>4 DEF Placed
    <2>1. x \in 1 .. size
      BY <1>2, <1>4
    <2> QED
      BY <2>1 DEF HeapFull, Placed
  <1>7. SizeIsPeak'
    <2>1. CASE size' = size
      BY <1>3, <1>4, <1>5, <2>1 DEF HeapFull, SizeIsPeak
    <2>2. CASE freeRegions = <<>> /\ size' = size + 1
      <3>1. \A x : ~Covers(freeRegions, x)
        BY <2>2 DEF Covers
      <3>2. 1 .. size = live \union dropped
        BY <1>4, <3>1 DEF HeapFull, Placed
      <3>3. Cardinality(1 .. size) = size
        BY <1>4, FS_Interval
      <3>4. live \intersect dropped = {}
        BY <1>1 DEF HeapCore
      <3>5. Cardinality(live \union dropped) = Cardinality(live) + Cardinality(dropped)
        <4>1. Cardinality(live \intersect dropped) = 0
          BY <3>4, FS_EmptySet
        <4>2. Cardinality(live \union dropped)
                 = Cardinality(live) + Cardinality(dropped) - Cardinality(live \intersect dropped)
          BY <1>4, FS_Union
        <4> QED
          BY <1>4, <4>1, <4>2
      <3>6. Cardinality(live) + Cardinality(dropped) = size
        BY <3>2, <3>3, <3>5
      <3>7. peak' \in Nat /\ peak' >= Cardinality(live')
        BY <1>3, <1>4, <1>5
      <3>8. size' <= peak' + Cardinality(dropped)
        BY <1>4, <1>5, <2>2, <3>6, <3>7
      <3> QED
        BY <1>3, <3>8 DEF SizeIsPeak
    <2> QED
      BY <1>2, <2>1, <2>2
  <1> QED
    BY <1>1, <1>6, <1>7 DEF HeapFull

(* A slot that is freed by index is in a region afterwards: the test for a *)
(* double free never hides a slot the client still held.                   *)
LEMMA FreeIdxFull ==
    ASSUME HeapFull, NEW idx \in live, FreeIdx(idx)
    PROVE  HeapFull'
  <1>1. HeapCore /\ HeapCore' /\ HeapTypeOK
    BY FreeIdxCore DEF HeapFull, HeapCore
  <1>2. /\ size \in Nat /\ Apart(freeRegions, size) /\ idx \in 1 .. size /\ idx \in Nat
        /\ ~Covers(freeRegions, idx)
    BY <1>1, SlotSets DEF HeapCore
  <1>3. PICK upper \in LowerBound(idx) :
           freeRegions' = IF DoubleFreeSeen(idx, upper) THEN freeRegions
                                                        ELSE Joined(idx, upper)
    BY DEF FreeIdx
  <1>4. ~DoubleFreeSeen(idx, upper)
    <2> SUFFICES ASSUME DoubleFreeSeen(idx, upper)
                 PROVE  FALSE
      OBVIOUS
    <2>1. upper \in 1 .. Len(freeRegions) /\ freeRegions[upper].start >= idx
      BY DEF DoubleFreeSeen, LowerBound
    <2>2. freeRegions[upper] \in Regions
      BY <1>2, <2>1 DEF Apart
    <2>3. /\ freeRegions[upper].start \in Nat /\ freeRegions[upper].end \in Nat
          /\ freeRegions[upper].start <= freeRegions[upper].end
      BY <1>2, <2>1, <2>2, RegionLemma DEF Apart
    <2>4. freeRegions[upper].start <= idx /\ idx <= freeRegions[upper].end
      BY <1>2, <2>1, <2>3 DEF DoubleFreeSeen
    <2> QED
      BY <1>2, <2>1, <2>4 DEF Covers
  <1>5. \A x \in Nat : Covers(freeRegions', x) <=> Covers(freeRegions, x) \/ x = idx
    BY <1>2, <1>3, <1>4, JoinedLemma
  <1>6. size' = size /\ dropped' = dropped /\ peak' = peak /\ live' = live \ {idx}
    BY DEF FreeIdx
  <1>7. Placed'
    <2> SUFFICES ASSUME NEW x \in 1 .. size
                 PROVE  x \in live' \union dropped' \/ Covers(freeRegions', x)
      BY <1>6 DEF Placed
    <2>1. x \in Nat /\ (x \in live \union dropped \/ Covers(freeRegions, x))
      BY <1>2 DEF HeapFull, Placed
    <2> QED
      BY <1>5, <1>6, <2>1
  <1>8. SizeIsPeak'
    BY <1>6 DEF HeapFull, SizeIsPeak
  <1> QED
    BY <1>1, <1>7, <1>8 DEF HeapFull

(* Free(T* ) of the top slot moves it from the held to the forgotten.      *)
LEMMA DropFull ==
    ASSUME HeapFull, HeapCore', NEW idx \in live,
           live' = live \ {idx}, dropped' = dropped \union {idx},
           UNCHANGED <<size, freeRegions, peak>>
    PROVE  HeapFull'
  <1>1. /\ IsFiniteSet(dropped) /\ Cardinality(dropped) \in Nat
        /\ size \in Nat /\ peak \in Nat
    BY SlotSets DEF HeapFull, HeapCore
  <1>2. Cardinality(dropped') = Cardinality(dropped) + 1
    <2>1. idx \notin dropped
      BY DEF HeapFull, HeapCore
    <2> QED
      BY <1>1, <2>1, FS_AddElement
  <1>3. SizeIsPeak'
    BY <1>1, <1>2 DEF HeapFull, SizeIsPeak
  <1>4. Placed'
    BY DEF HeapFull, Placed, Covers
  <1> QED
    BY <1>3, <1>4 DEF HeapFull

(* Either way of freeing by pointer.                                       *)
LEMMA FreePtrFull ==
    ASSUME HeapFull, NEW idx \in live, FreePtr(idx)
    PROVE  HeapFull'
  <1>1. HeapCore'
    BY FreePtrCore DEF HeapFull
  <1> QED
    BY <1>1, FreeIdxFull, DropFull DEF FreePtr

(* An empty buf has no slot to lose.                                       *)
LEMMA FullInit == HeapInit => HeapFull
  <1> SUFFICES ASSUME HeapInit
               PROVE  HeapFull
    OBVIOUS
  <1>1. size = 0 /\ peak = 0 /\ dropped = {}
    BY DEF HeapInit
  <1>2. Cardinality(dropped) = 0
    BY <1>1, FS_EmptySet
  <1> QED
    BY CoreInit, <1>1, <1>2 DEF HeapFull, Placed, SizeIsPeak

(* Each operation preserves HeapFull.                                      *)
LEMMA FullNext == HeapFull /\ [HeapNext]_heapVars => HeapFull'
  <1> SUFFICES ASSUME HeapFull, [HeapNext]_heapVars
               PROVE  HeapFull'
    OBVIOUS
  <1>0. HeapCore'
    BY CoreNext DEF HeapFull
  <1>1. CASE \E ret \in 1 .. MaxSize : Alloc(ret)
    BY <1>1, AllocFull
  <1>2. CASE \E idx \in live : FreeIdx(idx)
    BY <1>2, FreeIdxFull
  <1>3. CASE PtrFree /\ \E idx \in live : FreePtr(idx)
    BY <1>3, FreePtrFull
  <1>4. CASE FreeAll
    <2>1. size' = 0 /\ peak' = 0 /\ Cardinality(dropped') = 0
      BY <1>4, FS_EmptySet DEF FreeAll
    <2> QED
      BY <1>0, <2>1 DEF HeapFull, Placed, SizeIsPeak
  <1>5. CASE UNCHANGED heapVars
    BY <1>0, <1>5 DEF heapVars, HeapFull, Placed, SizeIsPeak, Covers
  <1> QED
    BY <1>1, <1>2, <1>3, <1>4, <1>5 DEF HeapNext

(* In every behaviour of the allocator each slot of buf is held, free or   *)
(* known to be forgotten: no free and no join loses one.                   *)
THEOREM HeapLosesNothing == HeapSpec => []AllAccounted
  <1>1. HeapFull => AllAccounted
    BY PlacedIsAccounted DEF HeapFull
  <1>2. HeapSpec => []HeapFull
    BY FullInit, FullNext, PTL DEF HeapSpec
  <1> QED
    BY <1>1, <1>2, PTL

(* buf is never longer than the most slots held at one time and the slots  *)
(* Free(T* ) forgot: it grows only when nothing is free.                   *)
THEOREM HeapIsShort == HeapSpec => []SizeIsPeak
  <1>1. HeapFull => SizeIsPeak
    BY DEF HeapFull
  <1>2. HeapSpec => []HeapFull
    BY FullInit, FullNext, PTL DEF HeapSpec
  <1> QED
    BY <1>1, <1>2, PTL
-----------------------------------------------------------------------------
(* In every behaviour of the allocator the regions stay apart, a held slot *)
(* is never in a region, and a forgotten one never comes back.             *)
THEOREM HeapSafe == HeapSpec => []HeapInv
  <1>1. HeapSpec => []HeapCore
    BY CoreInit, CoreNext, PTL DEF HeapSpec
  <1> QED
    BY <1>1, CoreIsInv, PTL

(* No slot is handed out while a client holds it.                          *)
THEOREM HeapNoSlotTwice == HeapSpec => []NoSlotTwice
  <1>1. HeapInv => NoSlotTwice
    BY DEF HeapInv
  <1> QED
    BY <1>1, HeapSafe, PTL

-----------------------------------------------------------------------------
(* The list                                                                *)

Items == [job : Jobs \union {NoJob}, id : -1 .. MaxID]

Entries == [item : Items, prev : 0 .. MaxSize, next : 0 .. MaxSize]

(* The k-th slot of the list, and the null index past either end.          *)
At(s, k) == IF k \in 1 .. Len(s) THEN s[k] ELSE 0

(* What Linked says, without its abbreviations.                            *)
Chain ==
    /\ front = At(order, 1)
    /\ back = At(order, Len(order))
    /\ \A k \in 1 .. Len(order) : /\ slots[order[k]].prev = At(order, k + 1)
                                  /\ slots[order[k]].next = At(order, k - 1)
    /\ \A j, k \in 1 .. Len(order) : order[j] = order[k] => j = k
    /\ \A x : x \in live <=> \E k \in 1 .. Len(order) : x = order[k]

(* The inductive invariant: the heap is sound, the list is linked, and the *)
(* other clients leave the list empty.                                     *)
ListInv ==
    /\ HeapFull
    /\ ListTypeOK
    /\ client \in {"list", "any"}
    /\ client = "list" => Chain
    /\ client = "any" => front = 0 /\ back = 0 /\ order = <<>>

(* Chain and Linked say the same.                                          *)
LEMMA ChainIsLinked == Chain <=> Linked
  BY DEF Chain, Linked, At

(* What the types say of an entry, an item and the list.                   *)
LEMMA ListTypes ==
    ASSUME ListTypeOK
    PROVE  /\ MaxSize \in Nat /\ size \in Nat /\ size <= MaxSize /\ live \subseteq 1 .. size
           /\ DOMAIN slots = 1 .. MaxSize
           /\ \A i \in 1 .. MaxSize :
                 /\ slots[i] \in Entries
                 /\ slots[i].item \in Items
                 /\ slots[i].prev \in 0 .. MaxSize /\ slots[i].next \in 0 .. MaxSize
           /\ front \in 0 .. size /\ back \in 0 .. size
           /\ lastID \in 0 .. MaxID /\ MaxID \in Nat
           /\ order \in Seq(1 .. MaxSize) /\ Len(order) \in Nat
           /\ DOMAIN order = 1 .. Len(order)
           /\ \A k \in 1 .. Len(order) : order[k] \in 1 .. MaxSize
  <1>1. HeapTypeOK /\ slots \in [1 .. MaxSize -> Entries] /\ order \in Seq(1 .. MaxSize)
    BY DEF ListTypeOK, Entries, Items
  <1>2. \A e \in Entries : /\ e.item \in Items
                           /\ e.prev \in 0 .. MaxSize /\ e.next \in 0 .. MaxSize
    BY DEF Entries
  <1>3. \A i \in 1 .. MaxSize : slots[i] \in Entries
    BY <1>1
  <1>4. /\ MaxSize \in Nat /\ size \in Nat /\ size <= MaxSize /\ live \subseteq 1 .. size
        /\ MaxID \in Nat
    BY <1>1, SlotSets, LListAssumption DEF LListAssumption
  <1>5. \A i \in 1 .. MaxSize :
           /\ slots[i].item \in Items
           /\ slots[i].prev \in 0 .. MaxSize /\ slots[i].next \in 0 .. MaxSize
    BY <1>2, <1>3
  <1>6. DOMAIN slots = 1 .. MaxSize
    BY <1>1
  <1>7. /\ order \in Seq(1 .. MaxSize) /\ Len(order) \in Nat
        /\ DOMAIN order = 1 .. Len(order)
        /\ \A k \in 1 .. Len(order) : order[k] \in 1 .. MaxSize
    BY <1>1, LenProperties, ElementOfSeq
  <1>8. /\ front \in 0 .. size /\ back \in 0 .. size
        /\ lastID \in 0 .. MaxID
    BY DEF ListTypeOK
  <1> QED
    BY <1>3, <1>4, <1>5, <1>6, <1>7, <1>8, Zenon

(* An entry written, and the `next` of its neighbour set to it.            *)
NextLinked(new, entry, nb) ==
    [i \in DOMAIN slots |->
        CASE i = entry           -> new
          [] i # entry /\ i = nb -> [slots[i] EXCEPT !.next = entry]
          [] OTHER               -> slots[i]]

(* It leaves every other entry as it was.                                  *)
LEMMA RelinkNext ==
    ASSUME ListTypeOK, NEW entry \in 1 .. MaxSize, NEW new \in Entries,
           NEW nb \in 0 .. MaxSize,
           slots' = NextLinked(new, entry, nb)
    PROVE  /\ slots' \in [1 .. MaxSize -> Entries]
           /\ slots'[entry] = new
           /\ \A i \in 1 .. MaxSize : i # entry =>
                 /\ slots'[i].item = slots[i].item
                 /\ slots'[i].prev = slots[i].prev
                 /\ slots'[i].next = IF i = nb THEN entry ELSE slots[i].next
  <1>1. /\ DOMAIN slots = 1 .. MaxSize
        /\ \A i \in 1 .. MaxSize : slots[i] \in Entries
    BY ListTypes
  <1>2. ASSUME NEW e \in Entries
        PROVE  /\ [e EXCEPT !.next = entry] \in Entries
               /\ [e EXCEPT !.next = entry].item = e.item
               /\ [e EXCEPT !.next = entry].prev = e.prev
               /\ [e EXCEPT !.next = entry].next = entry
    BY DEF Entries
  <1>3. ASSUME NEW i \in 1 .. MaxSize
        PROVE  /\ slots'[i] \in Entries
               /\ i = entry => slots'[i] = new
               /\ i # entry => /\ slots'[i].item = slots[i].item
                               /\ slots'[i].prev = slots[i].prev
                               /\ slots'[i].next = IF i = nb THEN entry ELSE slots[i].next
    <2>1. slots[i] \in Entries
      BY <1>1
    <2> QED
      BY <1>1, <1>2, <2>1 DEF NextLinked
  <1>4. slots' = [i \in 1 .. MaxSize |-> slots'[i]]
    BY <1>1 DEF NextLinked
  <1> QED
    BY <1>3, <1>4

(* An entry written, and the `prev` of its neighbour set to it.            *)
PrevLinked(new, entry, nb) ==
    [i \in DOMAIN slots |->
        CASE i = entry           -> new
          [] i # entry /\ i = nb -> [slots[i] EXCEPT !.prev = entry]
          [] OTHER               -> slots[i]]

(* It leaves every other entry as it was.                                  *)
LEMMA RelinkPrev ==
    ASSUME ListTypeOK, NEW entry \in 1 .. MaxSize, NEW new \in Entries,
           NEW nb \in 0 .. MaxSize,
           slots' = PrevLinked(new, entry, nb)
    PROVE  /\ slots' \in [1 .. MaxSize -> Entries]
           /\ slots'[entry] = new
           /\ \A i \in 1 .. MaxSize : i # entry =>
                 /\ slots'[i].item = slots[i].item
                 /\ slots'[i].next = slots[i].next
                 /\ slots'[i].prev = IF i = nb THEN entry ELSE slots[i].prev
  <1>1. /\ DOMAIN slots = 1 .. MaxSize
        /\ \A i \in 1 .. MaxSize : slots[i] \in Entries
    BY ListTypes
  <1>2. ASSUME NEW e \in Entries
        PROVE  /\ [e EXCEPT !.prev = entry] \in Entries
               /\ [e EXCEPT !.prev = entry].item = e.item
               /\ [e EXCEPT !.prev = entry].next = e.next
               /\ [e EXCEPT !.prev = entry].prev = entry
    BY DEF Entries
  <1>3. ASSUME NEW i \in 1 .. MaxSize
        PROVE  /\ slots'[i] \in Entries
               /\ i = entry => slots'[i] = new
               /\ i # entry => /\ slots'[i].item = slots[i].item
                               /\ slots'[i].next = slots[i].next
                               /\ slots'[i].prev = IF i = nb THEN entry ELSE slots[i].prev
    <2>1. slots[i] \in Entries
      BY <1>1
    <2> QED
      BY <1>1, <1>2, <2>1 DEF PrevLinked
  <1>4. slots' = [i \in 1 .. MaxSize |-> slots'[i]]
    BY <1>1 DEF PrevLinked
  <1> QED
    BY <1>3, <1>4

(* What Alloc gives the list: a slot that is not on it.                    *)
LEMMA FreshSlot ==
    ASSUME HeapFull, NEW entry \in 1 .. MaxSize, Alloc(entry)
    PROVE  /\ HeapFull' /\ HeapTypeOK'
           /\ entry \in 1 .. size' /\ size <= size' /\ size' \in Nat
           /\ entry \notin live /\ live' = live \union {entry}
  <1>1. HeapFull'
    BY AllocFull
  <1>2. HeapCore /\ HeapTypeOK /\ HeapTypeOK'
    BY <1>1 DEF HeapFull, HeapCore
  <1>3. size \in Nat /\ size' \in Nat
    BY <1>2, SlotSets DEF HeapTypeOK
  <1>4. /\ entry \in 1 .. size' /\ entry \notin live
        /\ size' = size \/ size' = size + 1
    BY <1>2, AllocRegions
  <1> QED
    BY <1>1, <1>2, <1>3, <1>4 DEF Alloc
(* A slot put before the list: every other one moves up a place.           *)
LEMMA FrontLemma ==
    ASSUME NEW S, NEW s \in Seq(S), NEW e \in S
    PROVE  /\ <<e>> \o s \in Seq(S) /\ Len(<<e>> \o s) = Len(s) + 1
           /\ \A k \in Int : At(<<e>> \o s, k) = IF k = 1 THEN e ELSE At(s, k - 1)
  <1>1. Len(s) \in Nat
    BY LenProperties
  <1>2. /\ <<e>> \o s \in Seq(S) /\ Len(<<e>> \o s) = Len(s) + 1
        /\ \A k \in 1 .. Len(s) + 1 : (<<e>> \o s)[k] = IF k = 1 THEN e ELSE s[k - 1]
    OBVIOUS
  <1> QED
    BY <1>1, <1>2 DEF At

(* A slot put behind the list.                                             *)
LEMMA BackLemma ==
    ASSUME NEW S, NEW s \in Seq(S), NEW e \in S
    PROVE  /\ Append(s, e) \in Seq(S) /\ Len(Append(s, e)) = Len(s) + 1
           /\ \A k \in Int : At(Append(s, e), k) = IF k = Len(s) + 1 THEN e ELSE At(s, k)
  <1>1. Len(s) \in Nat
    BY LenProperties
  <1>2. /\ Append(s, e) \in Seq(S) /\ Len(Append(s, e)) = Len(s) + 1
        /\ \A k \in 1 .. Len(s) + 1 : Append(s, e)[k] = IF k = Len(s) + 1 THEN e ELSE s[k]
    OBVIOUS
  <1> QED
    BY <1>1, <1>2 DEF At

(* The list without its front: every slot moves down a place.              *)
LEMMA TailLemma ==
    ASSUME NEW S, NEW s \in Seq(S), s # <<>>
    PROVE  /\ Tail(s) \in Seq(S) /\ Len(Tail(s)) = Len(s) - 1
           /\ \A k \in Nat \ {0} : At(Tail(s), k) = At(s, k + 1)
  <1>1. Len(s) \in Nat
    BY LenProperties
  <1>2. /\ Tail(s) \in Seq(S) /\ Len(Tail(s)) = Len(s) - 1
        /\ \A k \in 1 .. Len(s) - 1 : Tail(s)[k] = s[k + 1]
    OBVIOUS
  <1> QED
    BY <1>1, <1>2 DEF At

(* The jobs on the list, from the front: what the deque holds.             *)
Queue == [k \in DOMAIN order |-> slots[order[k]].item]

QueueOK ==
    /\ Queue \in Seq(Items) /\ Len(Queue) = Len(order)
    /\ \A k \in 1 .. Len(order) : Queue[k] = slots[order[k]].item
    /\ Queue = <<>> <=> order = <<>>

(* Queue is a sequence of items.                                           *)
LEMMA QueueIsSeq == ListTypeOK => QueueOK
  <1> SUFFICES ASSUME ListTypeOK
               PROVE  QueueOK
    OBVIOUS
  <1>1. /\ Len(order) \in Nat /\ DOMAIN order = 1 .. Len(order)
        /\ order \in Seq(1 .. MaxSize)
        /\ \A k \in 1 .. Len(order) : slots[order[k]].item \in Items
    BY ListTypes
  <1>2. Queue = [k \in 1 .. Len(order) |-> slots[order[k]].item]
    BY <1>1 DEF Queue
  <1>3. /\ Queue \in Seq(Items) /\ Len(Queue) = Len(order)
        /\ \A k \in 1 .. Len(order) : Queue[k] = slots[order[k]].item
    BY <1>1, <1>2
  <1> QED
    BY <1>1, <1>3, EmptySeq DEF QueueOK

(* It is one after a step that keeps the types.                            *)
LEMMA QueueIsSeqNext == ListTypeOK' => QueueOK'
  BY QueueIsSeq, PTL

(* The three things the deque does to a sequence, slot by slot.            *)
LEMMA QueueLemma ==
    ASSUME NEW S, NEW q \in Seq(S), NEW r \in Seq(S), NEW e \in S
    PROVE  /\ /\ Len(r) = Len(q) + 1 /\ r[1] = e
              /\ \A k \in 2 .. Len(q) + 1 : r[k] = q[k - 1]
              => r = <<e>> \o q
           /\ /\ Len(r) = Len(q) + 1 /\ r[Len(q) + 1] = e
              /\ \A k \in 1 .. Len(q) : r[k] = q[k]
              => r = Append(q, e)
           /\ /\ q # <<>> /\ Len(r) = Len(q) - 1
              /\ \A k \in 1 .. Len(q) - 1 : r[k] = q[k + 1]
              => r = Tail(q)
  <1>1. Len(q) \in Nat /\ Len(r) \in Nat
    BY LenProperties
  <1>2. /\ <<e>> \o q \in Seq(S) /\ Len(<<e>> \o q) = Len(q) + 1
        /\ \A k \in 1 .. Len(q) + 1 : (<<e>> \o q)[k] = IF k = 1 THEN e ELSE q[k - 1]
    OBVIOUS
  <1>3. /\ Append(q, e) \in Seq(S) /\ Len(Append(q, e)) = Len(q) + 1
        /\ \A k \in 1 .. Len(q) + 1 : Append(q, e)[k] = IF k = Len(q) + 1 THEN e ELSE q[k]
    OBVIOUS
  <1>4. q # <<>> => /\ Tail(q) \in Seq(S) /\ Len(Tail(q)) = Len(q) - 1
                    /\ \A k \in 1 .. Len(q) - 1 : Tail(q)[k] = q[k + 1]
    OBVIOUS
  <1>5. ASSUME Len(r) = Len(q) + 1, r[1] = e, \A k \in 2 .. Len(q) + 1 : r[k] = q[k - 1]
        PROVE  r = <<e>> \o q
    <2>1. \A k \in 1 .. Len(r) : r[k] = (<<e>> \o q)[k]
      BY <1>1, <1>2, <1>5
    <2> QED
      BY <1>2, <1>5, <2>1, SeqEqual
  <1>6. ASSUME Len(r) = Len(q) + 1, r[Len(q) + 1] = e, \A k \in 1 .. Len(q) : r[k] = q[k]
        PROVE  r = Append(q, e)
    <2>1. \A k \in 1 .. Len(r) : r[k] = Append(q, e)[k]
      BY <1>1, <1>3, <1>6
    <2> QED
      BY <1>3, <1>6, <2>1, SeqEqual
  <1>7. ASSUME q # <<>>, Len(r) = Len(q) - 1, \A k \in 1 .. Len(q) - 1 : r[k] = q[k + 1]
        PROVE  r = Tail(q)
    <2>1. \A k \in 1 .. Len(r) : r[k] = Tail(q)[k]
      BY <1>1, <1>4, <1>7
    <2> QED
      BY <1>4, <1>7, <2>1, SeqEqual
  <1> QED
    BY <1>5, <1>6, <1>7

(* The types after an entry was linked in.                                 *)
LEMMA EnqueueTypes ==
    ASSUME ListTypeOK, HeapTypeOK', lastID < MaxID, lastID' = lastID + 1, popped' = popped,
           slots' \in [1 .. MaxSize -> Entries],
           front' \in 0 .. size', back' \in 0 .. size', order' \in Seq(1 .. MaxSize)
    PROVE  ListTypeOK'
  BY ListTypes DEF ListTypeOK, Entries, Items

(* The entry an enqueue writes.                                            *)
LEMMA NewEntry ==
    ASSUME ListTypeOK, lastID < MaxID, NEW job \in Jobs,
           NEW p \in 0 .. MaxSize, NEW n \in 0 .. MaxSize
    PROVE  /\ Entry(Item(job, lastID), p, n) \in Entries
           /\ Entry(Item(job, lastID), p, n).item = Item(job, lastID)
           /\ Entry(Item(job, lastID), p, n).prev = p
           /\ Entry(Item(job, lastID), p, n).next = n
  <1>1. lastID \in -1 .. MaxID
    BY ListTypes
  <1> QED
    BY <1>1 DEF Entry, Item, Entries, Items

(* Enqueue(data, true) keeps the list linked, the new entry in front.      *)
LEMMA EnqueueFrontKeeps ==
    ASSUME HeapFull, ListTypeOK, Chain, NEW job \in Jobs, EnqueueFront(job)
    PROVE  HeapFull' /\ ListTypeOK' /\ Chain' /\ Deque!PutFront(job)
  <1>1. PICK entry \in 1 .. MaxSize :
           /\ lastID < MaxID /\ Alloc(entry)
           /\ slots' = [i \in DOMAIN slots |->
                           CASE i = entry              -> Entry(Item(job, lastID), front, 0)
                             [] i # entry /\ i = front -> [slots[i] EXCEPT !.next = entry]
                             [] OTHER                  -> slots[i]]
           /\ back' = IF back = 0 THEN entry ELSE back
           /\ front' = entry
           /\ lastID' = lastID + 1
           /\ order' = <<entry>> \o order
           /\ popped' = popped
    BY Zenon DEF EnqueueFront
  <1> DEFINE n == Len(order)
             new == Entry(Item(job, lastID), front, 0)
  <1>2. /\ HeapFull' /\ HeapTypeOK'
        /\ entry \in 1 .. size' /\ size <= size' /\ size' \in Nat
        /\ entry \notin live /\ live' = live \union {entry}
    BY <1>1, FreshSlot
  <1>3. /\ MaxSize \in Nat /\ size \in Nat /\ size <= MaxSize
        /\ front \in 0 .. size /\ back \in 0 .. size /\ 0 \in 0 .. MaxSize
        /\ order \in Seq(1 .. MaxSize) /\ n \in Nat
        /\ \A k \in 1 .. n : order[k] \in 1 .. MaxSize
    BY ListTypes
  <1>4. front \in 0 .. MaxSize
    BY <1>3
  <1>5. new \in Entries /\ new.item = Item(job, lastID) /\ new.prev = front /\ new.next = 0
    <2>1. lastID < MaxID
      BY <1>1
    <2> QED
      BY <1>3, <1>4, <2>1, NewEntry
  <1>6. /\ slots' \in [1 .. MaxSize -> Entries]
        /\ slots'[entry] = new
        /\ \A i \in 1 .. MaxSize : i # entry =>
              /\ slots'[i].item = slots[i].item
              /\ slots'[i].prev = slots[i].prev
              /\ slots'[i].next = IF i = front THEN entry ELSE slots[i].next
    <2> HIDE DEF new
    <2>1. slots' = NextLinked(new, entry, front)
      BY <1>1 DEF new, NextLinked
    <2> QED
      BY <1>4, <1>5, <2>1, RelinkNext
  <1>7. /\ order' \in Seq(1 .. MaxSize) /\ Len(order') = n + 1
        /\ \A k \in Int : At(order', k) = IF k = 1 THEN entry ELSE At(order, k - 1)
    BY <1>1, <1>3, FrontLemma
  <1> HIDE DEF new
  <1>8. ListTypeOK'
    <2>1. front' \in 0 .. size' /\ back' \in 0 .. size'
      BY <1>1, <1>2, <1>3
    <2> QED
      BY <1>1, <1>2, <1>6, <1>7, <2>1, EnqueueTypes
  <1>9. /\ order'[1] = entry
        /\ \A k \in 2 .. n + 1 : order'[k] = order[k - 1]
    <2>1. \A k \in 1 .. n + 1 : order'[k] = At(order', k)
      BY <1>3, <1>7 DEF At
    <2>2. \A k \in 1 .. n : order[k] = At(order, k)
      BY DEF At
    <2>3. \A k \in 2 .. n + 1 : k \in 1 .. n + 1 /\ k - 1 \in 1 .. n /\ k \in Int /\ k # 1
      BY <1>3
    <2>4. 1 \in 1 .. n + 1 /\ 1 \in Int
      BY <1>3
    <2> QED
      BY <1>7, <2>1, <2>2, <2>3, <2>4
  <1>10. \A k \in 1 .. n : order[k] # entry /\ (order[k] = front <=> k = 1)
    <2>1. \A k \in 1 .. n : 1 \in 1 .. n /\ order[k] \in live
      BY <1>3 DEF Chain
    <2> QED
      BY <1>2, <2>1 DEF Chain, At
  <1>11. front' = At(order', 1) /\ back' = At(order', n + 1)
    <2>1. n = 0 => back = 0
      BY DEF Chain, At
    <2>2. n # 0 => back = order[n] /\ back # 0
      BY <1>3 DEF Chain, At
    <2> QED
      BY <1>1, <1>3, <1>7, <2>1, <2>2 DEF At
  <1>12. ASSUME NEW k \in 1 .. n + 1
         PROVE  /\ slots'[order'[k]].prev = At(order', k + 1)
                /\ slots'[order'[k]].next = At(order', k - 1)
    <2>1. CASE k = 1
      <3>1. front = At(order, 1) /\ At(order, -1) = 0
        BY <1>3 DEF Chain, At
      <3>2. At(order', 2) = front /\ At(order', 0) = 0
        BY <1>7, <3>1
      <3> QED
        BY <1>5, <1>6, <1>9, <2>1, <3>2
    <2>2. CASE k # 1
      <3>1. k \in 2 .. n + 1 /\ k - 1 \in 1 .. n /\ k \in Int
        BY <1>3, <2>2
      <3>2. /\ order'[k] = order[k - 1] /\ order[k - 1] \in 1 .. MaxSize
            /\ order[k - 1] # entry /\ (order[k - 1] = front <=> k = 2)
        BY <1>3, <1>9, <1>10, <3>1
      <3>3. /\ slots'[order'[k]].prev = slots[order[k - 1]].prev
            /\ slots'[order'[k]].next = IF k = 2 THEN entry ELSE slots[order[k - 1]].next
        BY <1>6, <3>2
      <3>4. /\ slots[order[k - 1]].prev = At(order, (k - 1) + 1)
            /\ slots[order[k - 1]].next = At(order, (k - 1) - 1)
        BY <3>1 DEF Chain
      <3>5. /\ At(order', k + 1) = At(order, (k - 1) + 1)
            /\ At(order', k - 1) = IF k = 2 THEN entry ELSE At(order, (k - 1) - 1)
        BY <1>7, <2>2, <3>1
      <3> QED
        BY <3>3, <3>4, <3>5
    <2> QED
      BY <2>1, <2>2
  <1>13. \A j, k \in 1 .. n + 1 : order'[j] = order'[k] => j = k
    <2>1. \A k \in 1 .. n + 1 : k = 1 \/ (k \in 2 .. n + 1 /\ k - 1 \in 1 .. n)
      BY <1>3
    <2>2. \A j, k \in 1 .. n : order[j] = order[k] => j = k
      BY DEF Chain
    <2> SUFFICES ASSUME NEW j \in 1 .. n + 1, NEW k \in 1 .. n + 1, order'[j] = order'[k]
                 PROVE  j = k
      OBVIOUS
    <2>3. CASE j = 1 \/ k = 1
      BY <1>9, <1>10, <2>1, <2>3
    <2>4. CASE j # 1 /\ k # 1
      <3>1. j - 1 \in 1 .. n /\ k - 1 \in 1 .. n /\ order[j - 1] = order[k - 1]
        BY <1>9, <2>1, <2>4
      <3>2. j - 1 = k - 1
        BY <2>2, <3>1
      <3> QED
        BY <1>3, <3>2
    <2> QED
      BY <2>3, <2>4
  <1>14. ASSUME NEW x
         PROVE  x \in live' <=> \E k \in 1 .. n + 1 : x = order'[k]
    <2>1. x \in live <=> \E k \in 1 .. n : x = order[k]
      BY DEF Chain
    <2>2. (\E k \in 1 .. n : x = order[k]) <=> \E k \in 2 .. n + 1 : x = order'[k]
      <3>1. \A k \in 1 .. n : k + 1 \in 2 .. n + 1 /\ (k + 1) - 1 = k
        BY <1>3
      <3>2. \A k \in 2 .. n + 1 : k - 1 \in 1 .. n
        BY <1>3
      <3> QED
        BY <1>9, <3>1, <3>2
    <2>3. (\E k \in 1 .. n + 1 : x = order'[k]) <=> x = entry \/ \E k \in 2 .. n + 1 : x = order'[k]
      <3>1. 1 \in 1 .. n + 1 /\ \A k \in 1 .. n + 1 : k = 1 \/ k \in 2 .. n + 1
        BY <1>3
      <3>2. \A k \in 2 .. n + 1 : k \in 1 .. n + 1
        BY <1>3
      <3> QED
        BY <1>9, <3>1, <3>2
    <2> QED
      BY <1>2, <2>1, <2>2, <2>3
  <1>15. Chain'
    BY <1>7, <1>11, <1>12, <1>13, <1>14 DEF Chain
  <1>16. Queue' = <<Item(job, lastID)>> \o Queue
    <2>1. /\ Queue \in Seq(Items) /\ Len(Queue) = n
          /\ \A k \in 1 .. n : Queue[k] = slots[order[k]].item
      BY QueueIsSeq DEF QueueOK
    <2>2. /\ Queue' \in Seq(Items) /\ Len(Queue') = n + 1
          /\ \A k \in 1 .. n + 1 : Queue'[k] = slots'[order'[k]].item
      BY <1>7, <1>8, QueueIsSeqNext DEF QueueOK
    <2>3. Item(job, lastID) \in Items
      BY <1>5 DEF Entries
    <2>4. Queue'[1] = Item(job, lastID)
      BY <1>3, <1>5, <1>6, <1>9, <2>2
    <2>5. ASSUME NEW k \in 2 .. n + 1
          PROVE  Queue'[k] = Queue[k - 1]
      <3>1. k \in 1 .. n + 1 /\ k - 1 \in 1 .. n
        BY <1>3
      <3>2. Queue'[k] = slots'[order[k - 1]].item
        BY <1>9, <2>2, <3>1
      <3>3. order[k - 1] \in 1 .. MaxSize /\ order[k - 1] # entry
        BY <1>3, <1>10, <3>1
      <3> QED
        BY <1>6, <2>1, <3>1, <3>2, <3>3
    <2> HIDE DEF n
    <2> QED
      BY <2>1, <2>2, <2>3, <2>4, <2>5, QueueLemma
  <1>17. Deque!PutFront(job)
    BY <1>1, <1>16 DEF Deque!PutFront, Deque!Item, Item, Queue
  <1> QED
    BY <1>2, <1>8, <1>15, <1>17

(* Enqueue(data, false) keeps the list linked, the new entry behind.       *)
LEMMA EnqueueBackKeeps ==
    ASSUME HeapFull, ListTypeOK, Chain, NEW job \in Jobs, EnqueueBack(job)
    PROVE  HeapFull' /\ ListTypeOK' /\ Chain' /\ Deque!PutBack(job)
  <1>1. PICK entry \in 1 .. MaxSize :
           /\ lastID < MaxID /\ Alloc(entry)
           /\ slots' = [i \in DOMAIN slots |->
                           CASE i = entry             -> Entry(Item(job, lastID), 0, back)
                             [] i # entry /\ i = back -> [slots[i] EXCEPT !.prev = entry]
                             [] OTHER                 -> slots[i]]
           /\ front' = IF front = 0 THEN entry ELSE front
           /\ back' = entry
           /\ lastID' = lastID + 1
           /\ order' = Append(order, entry)
           /\ popped' = popped
    BY Zenon DEF EnqueueBack
  <1> DEFINE n == Len(order)
             new == Entry(Item(job, lastID), 0, back)
  <1>2. /\ HeapFull' /\ HeapTypeOK'
        /\ entry \in 1 .. size' /\ size <= size' /\ size' \in Nat
        /\ entry \notin live /\ live' = live \union {entry}
    BY <1>1, FreshSlot
  <1>3. /\ MaxSize \in Nat /\ size \in Nat /\ size <= MaxSize
        /\ front \in 0 .. size /\ back \in 0 .. size /\ 0 \in 0 .. MaxSize
        /\ order \in Seq(1 .. MaxSize) /\ n \in Nat
        /\ \A k \in 1 .. n : order[k] \in 1 .. MaxSize
    BY ListTypes
  <1>4. back \in 0 .. MaxSize
    BY <1>3
  <1>5. new \in Entries /\ new.item = Item(job, lastID) /\ new.prev = 0 /\ new.next = back
    <2>1. lastID < MaxID
      BY <1>1
    <2> QED
      BY <1>3, <1>4, <2>1, NewEntry
  <1>6. /\ slots' \in [1 .. MaxSize -> Entries]
        /\ slots'[entry] = new
        /\ \A i \in 1 .. MaxSize : i # entry =>
              /\ slots'[i].item = slots[i].item
              /\ slots'[i].next = slots[i].next
              /\ slots'[i].prev = IF i = back THEN entry ELSE slots[i].prev
    <2> HIDE DEF new
    <2>1. slots' = PrevLinked(new, entry, back)
      BY <1>1 DEF new, PrevLinked
    <2> QED
      BY <1>4, <1>5, <2>1, RelinkPrev
  <1>7. /\ order' \in Seq(1 .. MaxSize) /\ Len(order') = n + 1
        /\ \A k \in Int : At(order', k) = IF k = n + 1 THEN entry ELSE At(order, k)
    BY <1>1, <1>3, BackLemma
  <1> HIDE DEF new
  <1>8. ListTypeOK'
    <2>1. front' \in 0 .. size' /\ back' \in 0 .. size'
      BY <1>1, <1>2, <1>3
    <2> QED
      BY <1>1, <1>2, <1>6, <1>7, <2>1, EnqueueTypes
  <1>9. /\ order'[n + 1] = entry
        /\ \A k \in 1 .. n : order'[k] = order[k]
    <2>1. \A k \in 1 .. n + 1 : order'[k] = At(order', k)
      BY <1>3, <1>7 DEF At
    <2>2. \A k \in 1 .. n : order[k] = At(order, k)
      BY DEF At
    <2>3. \A k \in 1 .. n : k \in 1 .. n + 1 /\ k \in Int /\ k # n + 1
      BY <1>3
    <2>4. n + 1 \in 1 .. n + 1 /\ n + 1 \in Int
      BY <1>3
    <2> QED
      BY <1>7, <2>1, <2>2, <2>3, <2>4
  <1>10. \A k \in 1 .. n : order[k] # entry /\ (order[k] = back <=> k = n)
    <2>1. \A k \in 1 .. n : n \in 1 .. n /\ order[k] \in live
      BY <1>3 DEF Chain
    <2> QED
      BY <1>2, <2>1 DEF Chain, At
  <1>11. front' = At(order', 1) /\ back' = At(order', n + 1)
    <2>1. n = 0 => front = 0
      BY DEF Chain, At
    <2>2. n # 0 => front = At(order, 1) /\ front # 0
      BY <1>3 DEF Chain, At
    <2>3. At(order', n + 1) = entry
      BY <1>3, <1>7
    <2>4. At(order', 1) = IF n = 0 THEN entry ELSE At(order, 1)
      BY <1>3, <1>7
    <2>5. front' = (IF front = 0 THEN entry ELSE front) /\ back' = entry
      BY <1>1
    <2> HIDE DEF n
    <2>6. front' = At(order', 1)
      BY <2>1, <2>2, <2>4, <2>5
    <2> QED
      BY <2>3, <2>5, <2>6
  <1>12. ASSUME NEW k \in 1 .. n + 1
         PROVE  /\ slots'[order'[k]].prev = At(order', k + 1)
                /\ slots'[order'[k]].next = At(order', k - 1)
    <2>1. CASE k = n + 1
      <3>1. back = At(order, n) /\ At(order, n + 2) = 0
        BY <1>3 DEF Chain, At
      <3>2. At(order', n) = back /\ At(order', n + 2) = 0
        BY <1>3, <1>7, <3>1
      <3>3. k - 1 = n /\ k + 1 = n + 2
        BY <1>3, <2>1
      <3> QED
        BY <1>5, <1>6, <1>9, <2>1, <3>2, <3>3
    <2>2. CASE k # n + 1
      <3>1. k \in 1 .. n /\ k \in Int
        BY <1>3, <2>2
      <3>2. /\ order'[k] = order[k] /\ order[k] \in 1 .. MaxSize
            /\ order[k] # entry /\ (order[k] = back <=> k = n)
        BY <1>3, <1>9, <1>10, <3>1
      <3>3. /\ slots'[order'[k]].next = slots[order[k]].next
            /\ slots'[order'[k]].prev = IF k = n THEN entry ELSE slots[order[k]].prev
        BY <1>6, <3>2
      <3>4. /\ slots[order[k]].prev = At(order, k + 1)
            /\ slots[order[k]].next = At(order, k - 1)
        BY <3>1 DEF Chain
      <3>5. /\ At(order', k - 1) = At(order, k - 1)
            /\ At(order', k + 1) = IF k = n THEN entry ELSE At(order, k + 1)
        <4>1. k - 1 \in Int /\ k + 1 \in Int /\ k - 1 # n + 1 /\ (k + 1 = n + 1 <=> k = n)
          BY <1>3, <3>1
        <4> QED
          BY <1>7, <4>1
      <3> QED
        BY <3>3, <3>4, <3>5
    <2> QED
      BY <2>1, <2>2
  <1>13. \A j, k \in 1 .. n + 1 : order'[j] = order'[k] => j = k
    <2>1. \A k \in 1 .. n + 1 : k = n + 1 \/ k \in 1 .. n
      BY <1>3
    <2>2. \A j, k \in 1 .. n : order[j] = order[k] => j = k
      BY DEF Chain
    <2> SUFFICES ASSUME NEW j \in 1 .. n + 1, NEW k \in 1 .. n + 1, order'[j] = order'[k]
                 PROVE  j = k
      OBVIOUS
    <2>3. CASE j = n + 1 \/ k = n + 1
      BY <1>9, <1>10, <2>1, <2>3
    <2>4. CASE j # n + 1 /\ k # n + 1
      BY <1>9, <2>1, <2>2, <2>4
    <2> QED
      BY <2>3, <2>4
  <1>14. ASSUME NEW x
         PROVE  x \in live' <=> \E k \in 1 .. n + 1 : x = order'[k]
    <2>1. x \in live <=> \E k \in 1 .. n : x = order[k]
      BY DEF Chain
    <2>2. (\E k \in 1 .. n + 1 : x = order'[k]) <=> x = entry \/ \E k \in 1 .. n : x = order[k]
      <3>1. n + 1 \in 1 .. n + 1 /\ \A k \in 1 .. n + 1 : k = n + 1 \/ k \in 1 .. n
        BY <1>3
      <3>2. \A k \in 1 .. n : k \in 1 .. n + 1
        BY <1>3
      <3> QED
        BY <1>9, <3>1, <3>2
    <2> QED
      BY <1>2, <2>1, <2>2
  <1>15. Chain'
    BY <1>7, <1>11, <1>12, <1>13, <1>14 DEF Chain
  <1>16. Queue' = Append(Queue, Item(job, lastID))
    <2>1. /\ Queue \in Seq(Items) /\ Len(Queue) = n
          /\ \A k \in 1 .. n : Queue[k] = slots[order[k]].item
      BY QueueIsSeq DEF QueueOK
    <2>2. /\ Queue' \in Seq(Items) /\ Len(Queue') = n + 1
          /\ \A k \in 1 .. n + 1 : Queue'[k] = slots'[order'[k]].item
      BY <1>7, <1>8, QueueIsSeqNext DEF QueueOK
    <2>3. Item(job, lastID) \in Items
      BY <1>5 DEF Entries
    <2>4. Queue'[n + 1] = Item(job, lastID)
      <3>1. n + 1 \in 1 .. n + 1
        BY <1>3
      <3>2. Queue'[n + 1] = slots'[order'[n + 1]].item
        BY <2>2, <3>1
      <3> QED
        BY <1>5, <1>6, <1>9, <3>2
    <2>5. ASSUME NEW k \in 1 .. n
          PROVE  Queue'[k] = Queue[k]
      <3>1. k \in 1 .. n + 1
        BY <1>3
      <3>2. Queue'[k] = slots'[order[k]].item
        BY <1>9, <2>2, <3>1
      <3>3. order[k] \in 1 .. MaxSize /\ order[k] # entry
        BY <1>3, <1>10
      <3> QED
        BY <1>6, <2>1, <3>2, <3>3
    <2> HIDE DEF n
    <2> QED
      BY <2>1, <2>2, <2>3, <2>4, <2>5, QueueLemma
  <1>17. Deque!PutBack(job)
    BY <1>1, <1>16 DEF Deque!PutBack, Deque!Item, Item, Queue
  <1> QED
    BY <1>2, <1>8, <1>15, <1>17

(* DoPopFront keeps what is left linked.                                   *)
LEMMA DoPopFrontKeeps ==
    ASSUME HeapFull, ListTypeOK, Chain, DoPopFront
    PROVE  HeapFull' /\ ListTypeOK' /\ Chain' /\ Deque!Take
  <1> DEFINE n == Len(order)
             after == slots[front].prev
  <1>1. /\ front # 0
        /\ popped' = slots[front].item
        /\ front' = after
        /\ back' = IF after = 0 THEN 0 ELSE back
        /\ slots' = [i \in DOMAIN slots |->
                        IF i = after THEN [slots[i] EXCEPT !.next = 0] ELSE slots[i]]
        /\ FreePtr(front)
        /\ order' = Tail(order)
        /\ lastID' = lastID
    BY DEF DoPopFront
  <1>2. /\ MaxSize \in Nat /\ size \in Nat /\ size <= MaxSize /\ live \subseteq 1 .. size
        /\ front \in 0 .. size /\ back \in 0 .. size
        /\ order \in Seq(1 .. MaxSize) /\ n \in Nat
        /\ \A k \in 1 .. n : order[k] \in 1 .. MaxSize
        /\ DOMAIN slots = 1 .. MaxSize
        /\ \A i \in 1 .. MaxSize : slots[i] \in Entries /\ slots[i].item \in Items
    BY ListTypes
  <1>3. n >= 1 /\ 1 \in 1 .. n /\ front = order[1] /\ order # <<>>
    <2>1. 1 \in 1 .. n /\ front = order[1]
      BY <1>1 DEF Chain, At
    <2> QED
      BY <1>2, <2>1, EmptySeq
  <1>4. after = At(order, 2) /\ front \in live /\ front \in 1 .. MaxSize
    <2>1. after = At(order, 1 + 1) /\ front \in live
      BY <1>3 DEF Chain
    <2> QED
      BY <1>2, <1>3, <2>1
  <1>5. HeapFull' /\ live' = live \ {front} /\ size' = size
    BY <1>1, <1>4, FreePtrFull DEF FreePtr, FreeIdx
  <1>6. HeapTypeOK'
    BY <1>5 DEF HeapFull, HeapCore
  <1>7. after \in 0 .. size
    <2>1. CASE 2 \in 1 .. n
      <3>1. after = order[2] /\ order[2] \in live
        BY <1>4, <2>1 DEF At, Chain
      <3>2. after \in 1 .. size
        BY <1>2, <3>1, Zenon
      <3> QED
        BY <1>2, <3>2
    <2>2. CASE 2 \notin 1 .. n
      BY <1>2, <1>4, <2>2 DEF At
    <2> QED
      BY <2>1, <2>2
  <1> HIDE DEF after
  <1>8. /\ slots' \in [1 .. MaxSize -> Entries]
        /\ \A i \in 1 .. MaxSize :
              /\ slots'[i].item = slots[i].item
              /\ slots'[i].prev = slots[i].prev
              /\ slots'[i].next = IF i = after THEN 0 ELSE slots[i].next
    <2>1. 0 \in 0 .. MaxSize
      BY <1>2
    <2>2. ASSUME NEW e \in Entries
          PROVE  /\ [e EXCEPT !.next = 0] \in Entries
                 /\ [e EXCEPT !.next = 0].item = e.item
                 /\ [e EXCEPT !.next = 0].prev = e.prev
                 /\ [e EXCEPT !.next = 0].next = 0
      BY <2>1 DEF Entries
    <2>3. ASSUME NEW i \in 1 .. MaxSize
          PROVE  /\ slots'[i] \in Entries
                 /\ slots'[i].item = slots[i].item
                 /\ slots'[i].prev = slots[i].prev
                 /\ slots'[i].next = IF i = after THEN 0 ELSE slots[i].next
      <3>1. slots[i] \in Entries
        BY <1>2
      <3> QED
        BY <1>1, <1>2, <2>2, <3>1
    <2>4. slots' = [i \in 1 .. MaxSize |-> slots'[i]]
      BY <1>1, <1>2
    <2> QED
      BY <2>3, <2>4
  <1>9. /\ order' \in Seq(1 .. MaxSize) /\ Len(order') = n - 1
        /\ \A k \in Nat \ {0} : At(order', k) = At(order, k + 1)
    BY <1>1, <1>2, <1>3, TailLemma
  <1>10. ListTypeOK'
    <2>1. front' \in 0 .. size' /\ back' \in 0 .. size'
      BY <1>1, <1>2, <1>5, <1>7
    <2>2. popped' \in Items
      BY <1>1, <1>2, <1>4
    <2> QED
      BY <1>1, <1>6, <1>8, <1>9, <2>1, <2>2 DEF ListTypeOK, Entries, Items
  <1>11. \A k \in 1 .. n - 1 : order'[k] = order[k + 1]
    <2>1. \A k \in 1 .. n - 1 : order'[k] = At(order', k) /\ k \in Nat \ {0}
      BY <1>2, <1>9 DEF At
    <2>2. \A k \in 1 .. n - 1 : order[k + 1] = At(order, k + 1)
      BY <1>2 DEF At
    <2> QED
      BY <1>9, <2>1, <2>2
  <1>12. front' = At(order', 1) /\ back' = At(order', n - 1)
    <2>1. front' = At(order', 1)
      BY <1>1, <1>4, <1>9
    <2>2. CASE n = 1
      BY <1>1, <1>2, <1>4, <1>9, <2>2 DEF At
    <2>3. CASE n # 1
      <3>1. n - 1 \in Nat \ {0} /\ (n - 1) + 1 = n /\ 2 \in 1 .. n
        <4>1. n \in Nat /\ n >= 1
          BY <1>2, <1>3
        <4> HIDE DEF n
        <4> QED
          BY <2>3, <4>1
      <3>2. after \in 1 .. MaxSize
        BY <1>2, <1>4, <3>1 DEF At
      <3>3. back' = At(order, n)
        BY <1>1, <1>2, <3>2 DEF Chain
      <3> QED
        BY <1>9, <2>1, <3>1, <3>3
    <2> QED
      BY <2>1, <2>2, <2>3
  <1>13. ASSUME NEW k \in 1 .. n - 1
         PROVE  /\ slots'[order'[k]].prev = At(order', k + 1)
                /\ slots'[order'[k]].next = At(order', k - 1)
    <2>1. k + 1 \in 1 .. n /\ k + 1 \in Nat \ {0} /\ order[k + 1] \in 1 .. MaxSize /\ n >= 2
      BY <1>2
    <2>2. /\ slots'[order'[k]].prev = slots[order[k + 1]].prev
          /\ slots'[order'[k]].next = IF order[k + 1] = after THEN 0
                                                              ELSE slots[order[k + 1]].next
      BY <1>8, <1>11, <2>1
    <2>3. /\ slots[order[k + 1]].prev = At(order, (k + 1) + 1)
          /\ slots[order[k + 1]].next = At(order, (k + 1) - 1)
      BY <2>1 DEF Chain
    <2>4. order[k + 1] = after <=> k = 1
      <3>1. 2 \in 1 .. n /\ after = order[2]
        BY <1>2, <1>4, <2>1 DEF At
      <3>2. order[k + 1] = order[2] <=> k + 1 = 2
        BY <2>1, <3>1 DEF Chain
      <3> QED
        BY <3>1, <3>2
    <2>5. At(order', k + 1) = At(order, (k + 1) + 1)
      BY <1>9, <2>1
    <2>6. At(order', k - 1) = IF k = 1 THEN 0 ELSE At(order, (k + 1) - 1)
      <3>1. CASE k = 1
        BY <3>1 DEF At
      <3>2. CASE k # 1
        <4>1. k - 1 \in Nat \ {0} /\ (k - 1) + 1 = (k + 1) - 1
          BY <3>2
        <4> QED
          BY <1>9, <3>2, <4>1
      <3> QED
        BY <3>1, <3>2
    <2> QED
      BY <2>2, <2>3, <2>4, <2>5, <2>6
  <1>14. \A j, k \in 1 .. n - 1 : order'[j] = order'[k] => j = k
    <2> SUFFICES ASSUME NEW j \in 1 .. n - 1, NEW k \in 1 .. n - 1, order'[j] = order'[k]
                 PROVE  j = k
      OBVIOUS
    <2>1. j + 1 \in 1 .. n /\ k + 1 \in 1 .. n
      BY <1>2
    <2>2. j + 1 = k + 1
      BY <1>11, <2>1 DEF Chain
    <2> QED
      BY <1>2, <2>2
  <1>15. ASSUME NEW x
         PROVE  x \in live' <=> \E k \in 1 .. n - 1 : x = order'[k]
    <2>1. x \in live <=> \E k \in 1 .. n : x = order[k]
      BY DEF Chain
    <2>2. (\E k \in 1 .. n - 1 : x = order'[k]) <=> \E k \in 2 .. n : x = order[k]
      <3>1. \A k \in 1 .. n - 1 : k + 1 \in 2 .. n
        BY <1>2
      <3>2. \A k \in 2 .. n : k - 1 \in 1 .. n - 1 /\ (k - 1) + 1 = k
        BY <1>2
      <3> QED
        BY <1>11, <3>1, <3>2
    <2>3. (\E k \in 2 .. n : x = order[k]) <=> x # front /\ \E k \in 1 .. n : x = order[k]
      <3>1. \A k \in 1 .. n : k = 1 \/ k \in 2 .. n
        BY <1>2
      <3>2. \A k \in 2 .. n : k \in 1 .. n /\ k # 1
        BY <1>2
      <3>3. \A k \in 2 .. n : order[k] # order[1]
        BY <1>3, <3>2 DEF Chain
      <3> QED
        BY <1>3, <3>1, <3>2, <3>3
    <2> QED
      BY <1>5, <2>1, <2>2, <2>3
  <1>16. Chain'
    BY <1>9, <1>12, <1>13, <1>14, <1>15 DEF Chain
  <1>17. Queue' = Tail(Queue) /\ Queue # <<>> /\ popped' = Head(Queue)
    <2>1. /\ Queue \in Seq(Items) /\ Len(Queue) = n /\ Queue # <<>>
          /\ \A k \in 1 .. n : Queue[k] = slots[order[k]].item
      BY <1>3, QueueIsSeq DEF QueueOK
    <2>2. /\ Queue' \in Seq(Items) /\ Len(Queue') = n - 1
          /\ \A k \in 1 .. n - 1 : Queue'[k] = slots'[order'[k]].item
      BY <1>9, <1>10, QueueIsSeqNext DEF QueueOK
    <2>3. popped' = Head(Queue)
      BY <1>1, <1>3, <2>1
    <2>4. ASSUME NEW k \in 1 .. n - 1
          PROVE  Queue'[k] = Queue[k + 1]
      <3>1. k + 1 \in 1 .. n /\ order[k + 1] \in 1 .. MaxSize
        BY <1>2
      <3>2. Queue'[k] = slots'[order[k + 1]].item
        BY <1>11, <2>2
      <3> QED
        BY <1>8, <2>1, <3>1, <3>2
    <2>5. Head(Queue) \in Items
      BY <2>1
    <2> HIDE DEF n
    <2> QED
      BY <2>1, <2>2, <2>3, <2>4, <2>5, QueueLemma
  <1>18. Deque!Take
    BY <1>1, <1>17 DEF Deque!Take, Queue
  <1> QED
    BY <1>5, <1>10, <1>16, <1>18
-----------------------------------------------------------------------------
(* The empty list over an empty heap.                                      *)
LEMMA ListInvInit == Init => ListInv /\ Deque!DequeInit
  <1> SUFFICES ASSUME Init
               PROVE  ListInv /\ Deque!DequeInit
    OBVIOUS
  <1>1. /\ HeapInit /\ slots = [i \in 1 .. MaxSize |-> Entry(Nothing, 0, 0)]
        /\ front = 0 /\ back = 0 /\ lastID = 0 /\ popped = Nothing /\ order = <<>>
        /\ client \in {"list", "any"}
    BY DEF Init, ListInit
  <1>2. HeapFull /\ HeapTypeOK /\ size = 0 /\ live = {} /\ MaxSize \in Nat /\ MaxID \in Nat
    BY <1>1, FullInit, PackedHeapLAssumption, LListAssumption
       DEF HeapFull, HeapCore, HeapInit, PackedHeapLAssumption, LListAssumption
  <1>3. Nothing \in Items /\ Entry(Nothing, 0, 0) \in Entries
    BY <1>2 DEF Nothing, Item, Items, Entry, Entries
  <1>4. slots \in [1 .. MaxSize -> Entries]
    BY <1>1, <1>3
  <1>5. order \in Seq(1 .. MaxSize) /\ Len(order) = 0 /\ DOMAIN order = {}
    BY <1>1
  <1>6. ListTypeOK
    BY <1>1, <1>2, <1>3, <1>4, <1>5 DEF ListTypeOK, Entries, Items
  <1>7. Chain
    BY <1>1, <1>2, <1>5 DEF Chain, At
  <1>8. Queue = <<>>
    BY <1>1, <1>6, QueueIsSeq DEF QueueOK
  <1>9. Deque!DequeInit
    BY <1>1, <1>8 DEF Deque!DequeInit, Deque!Nothing, Deque!Item, Nothing, Item, Queue
  <1> QED
    BY <1>1, <1>2, <1>6, <1>7, <1>9 DEF ListInv

(* A step of the list is the same step of the deque.                       *)
LEMMA ListStep ==
    ASSUME ListInv, client = "list", ListNext, UNCHANGED client
    PROVE  ListInv' /\ Deque!DequeNext
  <1>1. HeapFull /\ ListTypeOK /\ Chain
    BY DEF ListInv
  <1>2. CASE \E job \in Jobs : EnqueueFront(job) \/ EnqueueBack(job)
    BY <1>1, <1>2, EnqueueFrontKeeps, EnqueueBackKeeps DEF ListInv, Deque!DequeNext
  <1>3. CASE DoPopFront
    BY <1>1, <1>3, DoPopFrontKeeps DEF ListInv, Deque!DequeNext
  <1>4. CASE PopNothing
    <2>1. /\ front = 0 /\ popped' = Nothing
          /\ UNCHANGED <<slots, front, back, lastID, order, heapVars>>
      BY <1>4 DEF PopNothing
    <2>2. Nothing \in Items
      BY LListAssumption DEF Nothing, Item, Items, LListAssumption
    <2>3. HeapFull'
      BY <1>1, <2>1, FullNext
    <2>4. ListTypeOK'
      BY <1>1, <2>1, <2>2 DEF ListTypeOK, HeapTypeOK, heapVars, Items
    <2>5. Chain'
      BY <1>1, <2>1 DEF Chain, At, heapVars
    <2>6. order = <<>>
      <3>1. Len(order) \in Nat /\ order \in Seq(1 .. MaxSize)
            /\ \A k \in 1 .. Len(order) : order[k] \in 1 .. MaxSize
        BY <1>1, ListTypes
      <3>2. Len(order) = 0
        BY <1>1, <2>1, <3>1 DEF Chain, At
      <3> QED
        BY <3>1, <3>2, EmptySeq
    <2>7. Queue = <<>> /\ Queue' = Queue
      BY <1>1, <2>1, <2>6, QueueIsSeq DEF QueueOK, Queue
    <2>8. Deque!TakeNothing
      BY <2>1, <2>7 DEF Deque!TakeNothing, Deque!Nothing, Deque!Item, Nothing, Item, Queue
    <2> QED
      BY <2>3, <2>4, <2>5, <2>8 DEF ListInv, Deque!DequeNext
  <1> QED
    BY <1>2, <1>3, <1>4 DEF ListNext

(* Each step preserves ListInv, and the deque makes it too or stands still.*)
LEMMA ListInvNext ==
    ListInv /\ [Next]_<<listVars, client>> => ListInv' /\ [Deque!DequeNext]_(Deque!dequeVars)
  <1> SUFFICES ASSUME ListInv, [Next]_<<listVars, client>>
               PROVE  ListInv' /\ [Deque!DequeNext]_(Deque!dequeVars)
    OBVIOUS
  <1>1. CASE client = "list" /\ ListNext /\ UNCHANGED client
    BY <1>1, ListStep
  <1>2. CASE [HeapNext]_heapVars /\ client = "any" /\ UNCHANGED <<linkVars, client>>
    <2>1. HeapFull'
      BY <1>2, FullNext DEF ListInv
    <2>2. /\ front = 0 /\ back = 0 /\ order = <<>>
          /\ UNCHANGED <<slots, front, back, lastID, popped, order, client>>
      BY <1>2 DEF ListInv, linkVars
    <2>3. HeapTypeOK' /\ 0 \in 0 .. size'
      BY <2>1 DEF HeapFull, HeapCore, HeapTypeOK
    <2>4. ListTypeOK'
      BY <2>2, <2>3 DEF ListInv, ListTypeOK
    <2>5. UNCHANGED Deque!dequeVars
      BY <2>2 DEF Deque!dequeVars
    <2> QED
      BY <1>2, <2>1, <2>2, <2>4, <2>5 DEF ListInv
  <1>3. CASE UNCHANGED <<listVars, client>>
    <2>1. UNCHANGED <<slots, front, back, lastID, popped, order, client, heapVars>>
      BY <1>3 DEF listVars, linkVars
    <2>2. HeapFull'
      BY <2>1, FullNext DEF ListInv
    <2>3. ListTypeOK'
      BY <2>1 DEF ListInv, ListTypeOK, HeapTypeOK, heapVars
    <2>4. Chain => Chain'
      BY <2>1 DEF Chain, At, heapVars
    <2>5. UNCHANGED Deque!dequeVars
      BY <2>1 DEF Deque!dequeVars
    <2> QED
      BY <2>1, <2>2, <2>3, <2>4, <2>5 DEF ListInv
  <1> QED
    BY <1>1, <1>2, <1>3 DEF Next

(* ListInv holds of every state.                                           *)
LEMMA ListInvAlways == Spec => []ListInv
  BY ListInvInit, ListInvNext, PTL DEF Spec

(* The indices, items and numbers of the list stay in range, under list    *)
(* and other clients of the heap alike.                                    *)
THEOREM ListTyped == Spec => []ListTypeOK
  <1>1. ListInv => ListTypeOK
    BY DEF ListInv
  <1> QED
    BY <1>1, ListInvAlways, PTL

(* The heap's regions stay apart, no slot is lost, buf stays as short as   *)
(* it can, and the links lead through exactly the slots the list holds, in *)
(* both directions: Enqueue and DoPopFront never follow a stale link.      *)
THEOREM ListSound == Spec => []SlotsSound
  <1>1. ListInv => SlotsSound
    <2> SUFFICES ASSUME ListInv
                 PROVE  SlotsSound
      OBVIOUS
    <2>1. HeapFull /\ HeapCore
      BY DEF ListInv, HeapFull
    <2>2. RegionsApart
      BY <2>1, CoreIsInv DEF HeapInv
    <2>3. AllAccounted /\ SizeIsPeak
      BY <2>1, PlacedIsAccounted DEF HeapFull
    <2> QED
      BY <2>2, <2>3, ChainIsLinked DEF ListInv, SlotsSound
  <1> QED
    BY <1>1, ListInvAlways, PTL

(* The list implements the deque: its jobs leave in the order, and with    *)
(* the numbers, JobDeque gives them.                                       *)
THEOREM ListIsDeque == Spec => ImplementsDeque
  <1>1. Spec => [][Deque!DequeNext]_(Deque!dequeVars)
    BY ListInvAlways, ListInvNext, PTL DEF Spec
  <1>2. Spec => Deque!DequeInit
    BY ListInvInit DEF Spec
  <1> QED
    BY <1>1, <1>2, PTL DEF ImplementsDeque, Deque!DequeSpec
-----------------------------------------------------------------------------
(* The KD tree                                                             *)

NodesNil == Nodes \union {Nil}
Memory == [value : Points, left : NodesNil, right : NodesNil]
Inserted == [at : Nodes, point : Points]

(* The nodes of the tree: those that Insert returned since Clear.          *)
InTree == {ref[i].at : i \in 1 .. Len(ref)}

TreeTyped ==
    /\ node \in [Nodes -> Memory] /\ allocated \subseteq Nodes
    /\ rootNode \in NodesNil /\ freeNode \in NodesNil
    /\ treeSize \in 0 .. MaxNodes /\ freeSize \in 0 .. MaxNodes
    /\ ref \in Seq(Inserted)

LEMMA NodesAre == MaxNodes \in Nat /\ Nil \notin Nodes /\ \A n \in Nodes : n # Nil
  BY KDTreeAssumption DEF KDTreeAssumption, Nodes, Nil

LEMMA MemoryIs ==
    ASSUME TreeTyped, NEW n \in Nodes
    PROVE  /\ node[n].value \in Points
           /\ node[n].left \in NodesNil /\ node[n].right \in NodesNil
           /\ \A side : Child(n, side) \in NodesNil
  <1>1. node[n] \in Memory
    BY DEF TreeTyped
  <1> QED
    BY <1>1 DEF Memory, Child

(* One step down, from the node at depth k - 1.                            *)
Below(p, x, k) == IF x = Nil THEN Nil ELSE Child(x, SideOf(p, x, k - 1))

LEMMA WayIs ==
    ASSUME TreeTyped, NEW p
    PROVE  /\ WayOf(p) \in [0 .. MaxNodes -> NodesNil] /\ WayOf(p)[0] = rootNode
           /\ \A k \in 1 .. MaxNodes : WayOf(p)[k] = Below(p, WayOf(p)[k - 1], k)
  <1> DEFINE step == [k \in 1 .. MaxNodes |-> [x \in NodesNil |-> Below(p, x, k)]]
             way[k \in 0 .. MaxNodes] ==
                 IF k = 0
                 THEN rootNode
                 ELSE IF way[k - 1] = Nil THEN Nil ELSE Child(way[k - 1], SideOf(p, way[k - 1], k - 1))
  <1>1. MaxNodes \in Nat /\ rootNode \in NodesNil
    BY NodesAre DEF TreeTyped
  <1>2. \A x \in NodesNil, k \in 1 .. MaxNodes : Below(p, x, k) \in NodesNil
    BY MemoryIs DEF Below, NodesNil
  <1>3. step \in [1 .. MaxNodes -> [NodesNil -> NodesNil]]
    BY <1>2
  <1>4. PICK f \in [0 .. MaxNodes -> NodesNil] :
            f[0] = rootNode /\ \A k \in 1 .. MaxNodes : f[k] = step[k][f[k - 1]]
    <2> HIDE DEF step
    <2> QED
      BY <1>1, <1>3, StepsByIndex
  <1>5. ASSUME NEW k \in 1 .. MaxNodes PROVE f[k] = Below(p, f[k - 1], k)
    <2>1. f[k - 1] \in NodesNil
      BY <1>1
    <2> QED
      BY <1>4, <2>1
  <1>6. f = [k \in 0 .. MaxNodes |->
                 IF k = 0
                 THEN rootNode
                 ELSE IF f[k - 1] = Nil THEN Nil ELSE Child(f[k - 1], SideOf(p, f[k - 1], k - 1))]
    BY <1>1, <1>4, <1>5 DEF Below
  <1>7. way = [k \in 0 .. MaxNodes |->
                 IF k = 0
                 THEN rootNode
                 ELSE IF way[k - 1] = Nil THEN Nil ELSE Child(way[k - 1], SideOf(p, way[k - 1], k - 1))]
    BY <1>6
  <1>8. WayOf(p) = way
    BY DEF WayOf
  <1> HIDE DEF way, step
  <1> DEFINE T == {k \in Nat : k <= MaxNodes => way[k] = f[k]}
  <1>9. 0 \in T
    BY <1>1, <1>4, <1>7
  <1>10. ASSUME NEW k \in Nat, k \in T PROVE k + 1 \in T
    <2> SUFFICES ASSUME k + 1 <= MaxNodes PROVE way[k + 1] = f[k + 1]
      OBVIOUS
    <2>1. way[k] = f[k] /\ k + 1 \in 0 .. MaxNodes /\ k + 1 \in 1 .. MaxNodes /\ k + 1 # 0 /\ (k + 1) - 1 = k
      BY <1>1, <1>10
    <2>2. way[k + 1] = Below(p, way[k], k + 1)
      BY <1>7, <2>1 DEF Below
    <2>3. f[k + 1] = Below(p, f[k], k + 1)
      BY <1>5, <2>1
    <2> QED
      BY <2>1, <2>2, <2>3
  <1>11. \A k \in Nat : k \in T
    <2> HIDE DEF T
    <2> QED
      BY <1>9, <1>10, Inductive
  <1>12. way = f
    BY <1>1, <1>6, <1>7, <1>11
  <1> QED
    BY <1>4, <1>5, <1>8, <1>12

LEMMA ChainIs ==
    ASSUME TreeTyped
    PROVE  /\ FreeChain \in [0 .. MaxNodes -> NodesNil] /\ FreeChain[0] = freeNode
           /\ \A k \in 1 .. MaxNodes :
                  FreeChain[k] = IF FreeChain[k - 1] = Nil THEN Nil ELSE node[FreeChain[k - 1]].left
  <1> DEFINE step == [x \in NodesNil |-> IF x = Nil THEN Nil ELSE node[x].left]
             chain[k \in 0 .. MaxNodes] ==
                 IF k = 0
                 THEN freeNode
                 ELSE IF chain[k - 1] = Nil THEN Nil ELSE node[chain[k - 1]].left
  <1>1. MaxNodes \in Nat /\ freeNode \in NodesNil /\ Nil \in NodesNil
    BY NodesAre DEF TreeTyped, NodesNil
  <1>2. \A x \in NodesNil : (IF x = Nil THEN Nil ELSE node[x].left) \in NodesNil
    BY MemoryIs DEF NodesNil
  <1>3. step \in [NodesNil -> NodesNil]
    BY <1>2
  <1>4. PICK f \in [0 .. MaxNodes -> NodesNil] : Follows(f, freeNode, step, MaxNodes)
    <2> HIDE DEF step
    <2> QED
      BY <1>1, <1>3, StepByStep
  <1>5. f[0] = freeNode
    <2>1. 0 \in 0 .. MaxNodes
      BY <1>1
    <2> QED
      BY <1>4, <2>1 DEF Follows
  <1>6. ASSUME NEW k \in 1 .. MaxNodes
        PROVE  f[k] = IF f[k - 1] = Nil THEN Nil ELSE node[f[k - 1]].left
    <2>1. f[k - 1] \in NodesNil /\ k \in 0 .. MaxNodes /\ k # 0
      BY <1>1
    <2>2. f[k] = step[f[k - 1]]
      BY <1>4, <2>1 DEF Follows
    <2> QED
      BY <2>1, <2>2
  <1>7. f = [k \in 0 .. MaxNodes |->
                 IF k = 0
                 THEN freeNode
                 ELSE IF f[k - 1] = Nil THEN Nil ELSE node[f[k - 1]].left]
    BY <1>1, <1>5, <1>6
  <1>8. chain = [k \in 0 .. MaxNodes |->
                 IF k = 0
                 THEN freeNode
                 ELSE IF chain[k - 1] = Nil THEN Nil ELSE node[chain[k - 1]].left]
    BY <1>7
  <1>9. FreeChain = chain
    BY DEF FreeChain
  <1> HIDE DEF chain, step
  <1> DEFINE T == {k \in Nat : k <= MaxNodes => chain[k] = f[k]}
  <1>10. 0 \in T
    BY <1>1, <1>5, <1>8
  <1>11. ASSUME NEW k \in Nat, k \in T PROVE k + 1 \in T
    <2> SUFFICES ASSUME k + 1 <= MaxNodes PROVE chain[k + 1] = f[k + 1]
      OBVIOUS
    <2>1. chain[k] = f[k] /\ k + 1 \in 0 .. MaxNodes /\ k + 1 \in 1 .. MaxNodes /\ k + 1 # 0 /\ (k + 1) - 1 = k
      BY <1>1, <1>11
    <2>2. chain[k + 1] = IF chain[k] = Nil THEN Nil ELSE node[chain[k]].left
      BY <1>8, <2>1
    <2>3. f[k + 1] = IF f[k] = Nil THEN Nil ELSE node[f[k]].left
      BY <1>6, <2>1
    <2> QED
      BY <2>1, <2>2, <2>3
  <1>12. \A k \in Nat : k \in T
    <2> HIDE DEF T
    <2> QED
      BY <1>10, <1>11, Inductive
  <1>13. chain = f
    BY <1>1, <1>7, <1>8, <1>12
  <1> QED
    BY <1>5, <1>6, <1>9, <1>13

(* A chain that ended stays at its end.                                    *)
LEMMA ChainEnds ==
    ASSUME TreeTyped, NEW k \in 0 .. MaxNodes, FreeChain[k] # Nil
    PROVE  \A j \in 0 .. k : FreeChain[j] # Nil
  <1> DEFINE T == {j \in Nat : j <= k => FreeChain[k - j] # Nil}
  <1>1. 0 \in T /\ k \in Nat /\ MaxNodes \in Nat
    BY NodesAre
  <1>2. ASSUME NEW j \in Nat, j \in T PROVE j + 1 \in T
    <2> SUFFICES ASSUME j + 1 <= k PROVE FreeChain[k - (j + 1)] # Nil
      OBVIOUS
    <2>1. FreeChain[k - j] # Nil /\ k - j \in 1 .. MaxNodes /\ (k - j) - 1 = k - (j + 1)
      BY <1>1, <1>2
    <2> QED
      BY <2>1, ChainIs
  <1>3. \A j \in Nat : j \in T
    <2> HIDE DEF T
    <2> QED
      BY <1>1, <1>2, Inductive
  <1>4. ASSUME NEW j \in 0 .. k PROVE FreeChain[j] # Nil
    <2>1. k - j \in Nat /\ k - (k - j) = j /\ k - j <= k
      BY <1>1
    <2> QED
      BY <1>3, <2>1
  <1> QED
    BY <1>4

(* d is the depth of each node: the way of its point comes to it there,    *)
(* and a child is on the side of its parent where its own point belongs.   *)
Depths(d) ==
    /\ rootNode # Nil => d[rootNode] = 0
    /\ \A n \in InTree : WayOf(node[n].value)[d[n]] = n
    /\ \A n \in InTree, side \in {"left", "right"} :
          Child(n, side) # Nil =>
              /\ Child(n, side) \in InTree /\ d[Child(n, side)] = d[n] + 1
              /\ WayOf(node[Child(n, side)].value)[d[n]] = n
              /\ SideOf(node[Child(n, side)].value, n, d[n]) = side

Kept ==
    /\ treeSize = Len(ref)
    /\ \A i, j \in 1 .. Len(ref) : ref[i].at = ref[j].at => i = j
    /\ \A i \in 1 .. Len(ref) : node[ref[i].at].value = ref[i].point
    /\ rootNode = Nil <=> ref = <<>>
    /\ rootNode # Nil => rootNode \in InTree

Spare ==
    /\ \A k \in 0 .. MaxNodes : FreeChain[k] # Nil <=> k < freeSize
    /\ \A j, k \in 0 .. MaxNodes : FreeChain[j] # Nil /\ FreeChain[j] = FreeChain[k] => j = k
    /\ Listed \intersect InTree = {} /\ Listed \union InTree = allocated

Shaped == \E d \in [InTree -> 0 .. MaxNodes] : Depths(d)

TreeInv == TreeTyped /\ Kept /\ Shaped /\ Spare

LEMMA InTreeTyped == ASSUME TreeTyped PROVE InTree \in SUBSET Nodes /\ Nil \notin InTree
  <1>1. ASSUME NEW i \in 1 .. Len(ref) PROVE ref[i].at \in Nodes
    <2>1. ref[i] \in Inserted
      BY DEF TreeTyped
    <2> QED
      BY <2>1 DEF Inserted
  <1> QED
    BY <1>1, NodesAre DEF InTree

LEMMA SidesAre == \A p, n, k : SideOf(p, n, k) \in {"left", "right"}
  BY DEF SideOf

(* The way down stays in the tree, one level deeper with each step.        *)
LEMMA WayDeep ==
    ASSUME TreeTyped, Kept, NEW d \in [InTree -> 0 .. MaxNodes], Depths(d), NEW p,
           NEW k \in 0 .. MaxNodes, WayOf(p)[k] # Nil
    PROVE  WayOf(p)[k] \in InTree /\ d[WayOf(p)[k]] = k
  <1> DEFINE w == WayOf(p)
             T == {j \in Nat : j <= MaxNodes /\ w[j] # Nil => w[j] \in InTree /\ d[w[j]] = j}
  <1>1. MaxNodes \in Nat /\ w[0] = rootNode
    BY NodesAre, WayIs
  <1>2. 0 \in T
    BY <1>1 DEF Kept, Depths
  <1>3. ASSUME NEW j \in Nat, j \in T PROVE j + 1 \in T
    <2> SUFFICES ASSUME j + 1 <= MaxNodes, w[j + 1] # Nil
                 PROVE  w[j + 1] \in InTree /\ d[w[j + 1]] = j + 1
      OBVIOUS
    <2>1. j + 1 \in 1 .. MaxNodes /\ (j + 1) - 1 = j /\ j \in 0 .. MaxNodes
      BY <1>1
    <2>2. w[j + 1] = Below(p, w[j], j + 1)
      BY <2>1, WayIs
    <2>3. w[j] # Nil /\ w[j + 1] = Child(w[j], SideOf(p, w[j], j))
      BY <2>1, <2>2 DEF Below
    <2>4. w[j] \in InTree /\ d[w[j]] = j
      BY <1>1, <1>3, <2>1, <2>3
    <2> HIDE DEF w
    <2> QED
      BY <2>3, <2>4, SidesAre DEF Depths
  <1>4. \A j \in Nat : j \in T
    <2> HIDE DEF T
    <2> QED
      BY <1>2, <1>3, Inductive
  <1> QED
    BY <1>1, <1>4

LEMMA WayOpen ==
    ASSUME TreeTyped, NEW p, NEW k \in 0 .. MaxNodes, WayOf(p)[k] # Nil
    PROVE  \A j \in 0 .. k : WayOf(p)[j] # Nil
  <1> DEFINE w == WayOf(p)
             T == {j \in Nat : j <= k => w[k - j] # Nil}
  <1>1. 0 \in T /\ k \in Nat /\ MaxNodes \in Nat
    BY NodesAre
  <1>2. ASSUME NEW j \in Nat, j \in T PROVE j + 1 \in T
    <2> SUFFICES ASSUME j + 1 <= k PROVE w[k - (j + 1)] # Nil
      OBVIOUS
    <2>1. w[k - j] # Nil /\ k - j \in 1 .. MaxNodes /\ (k - j) - 1 = k - (j + 1)
      BY <1>1, <1>2
    <2>2. w[k - j] = Below(p, w[k - (j + 1)], k - j)
      BY <2>1, WayIs
    <2> QED
      BY <2>1, <2>2 DEF Below
  <1>3. \A j \in Nat : j \in T
    <2> HIDE DEF T
    <2> QED
      BY <1>1, <1>2, Inductive
  <1>4. ASSUME NEW j \in 0 .. k PROVE w[j] # Nil
    <2>1. k - j \in Nat /\ k - (k - j) = j /\ k - j <= k
      BY <1>1
    <2> QED
      BY <1>3, <2>1
  <1> QED
    BY <1>4

(* No way is as long as there are nodes: each is at one depth.             *)
LEMMA WayEnds ==
    ASSUME TreeTyped, Kept, Shaped, NEW p
    PROVE  WayOf(p)[MaxNodes] = Nil
  <1> SUFFICES ASSUME WayOf(p)[MaxNodes] # Nil PROVE FALSE
    OBVIOUS
  <1>1. MaxNodes \in Nat /\ MaxNodes \in 0 .. MaxNodes
    BY NodesAre
  <1>2. PICK d \in [InTree -> 0 .. MaxNodes] : Depths(d)
    BY DEF Shaped
  <1>3. \A k \in 0 .. MaxNodes : WayOf(p)[k] # Nil
    BY <1>1, WayOpen
  <1>4. \A k \in 0 .. MaxNodes : \E n \in InTree : d[n] = k
    BY <1>2, <1>3, WayDeep
  <1>5. d \in Surjection(InTree, 0 .. MaxNodes)
    BY <1>4 DEF Surjection
  <1>6. IsFiniteSet(InTree) /\ Cardinality(InTree) <= MaxNodes /\ Cardinality(InTree) \in Nat
    <2>1. IsFiniteSet(1 .. MaxNodes) /\ Cardinality(1 .. MaxNodes) = MaxNodes
      BY <1>1, FS_Interval
    <2>2. InTree \in SUBSET (1 .. MaxNodes)
      BY InTreeTyped DEF Nodes
    <2> QED
      BY <2>1, <2>2, FS_Subset, FS_CardinalityType
  <1>7. Cardinality(0 .. MaxNodes) = MaxNodes + 1
    BY <1>1, FS_Interval
  <1>8. Cardinality(0 .. MaxNodes) <= Cardinality(InTree)
    BY <1>5, <1>6, FS_Surjection
  <1> QED
    BY <1>1, <1>6, <1>7, <1>8

LEMMA DepthIs ==
    ASSUME TreeTyped, Kept, Shaped, NEW p
    PROVE  /\ DepthOf(p) \in 0 .. MaxNodes /\ WayOf(p)[DepthOf(p)] = Nil
           /\ \A j \in 0 .. DepthOf(p) - 1 : WayOf(p)[j] # Nil
  <1> DEFINE T == {k \in 0 .. MaxNodes : WayOf(p)[k] = Nil}
  <1>1. MaxNodes \in T /\ T \in SUBSET Nat /\ MaxNodes \in Nat
    BY WayEnds, NodesAre
  <1>2. PICK k \in T : \A j \in T : k <= j
    <2> HIDE DEF T
    <2> QED
      BY <1>1, Least
  <1>3. k \in 0 .. MaxNodes /\ WayOf(p)[k] = Nil /\ \A j \in 0 .. k - 1 : WayOf(p)[j] # Nil
    <2>1. k \in 0 .. MaxNodes /\ WayOf(p)[k] = Nil
      BY <1>2
    <2>2. ASSUME NEW j \in 0 .. k - 1 PROVE WayOf(p)[j] # Nil
      <3>1. j \in 0 .. MaxNodes /\ ~(k <= j)
        BY <1>1, <2>1
      <3> QED
        BY <1>2, <3>1
    <2> QED
      BY <2>1, <2>2
  <1> QED
    BY <1>3 DEF DepthOf

(* A node of the tree was returned by an Insert, and holds its point.      *)
LEMMA ReturnedIs ==
    ASSUME TreeTyped, Kept, NEW n \in InTree
    PROVE  \E i \in DOMAIN ref : ref[i] = [at |-> n, point |-> node[n].value]
  <1>1. PICK i \in 1 .. Len(ref) : ref[i].at = n
    BY DEF InTree
  <1>2. ref[i] \in Inserted /\ i \in DOMAIN ref
    BY DEF TreeTyped
  <1>3. ref[i] = [at |-> ref[i].at, point |-> ref[i].point]
    BY <1>2 DEF Inserted
  <1> QED
    BY <1>1, <1>2, <1>3 DEF Kept

LEMMA Finds == ASSUME TreeInv PROVE FindsWhatWasInserted
  <1>1. TreeTyped /\ Kept /\ DOMAIN ref = 1 .. Len(ref)
    BY DEF TreeInv, TreeTyped
  <1>2. PICK d \in [InTree -> 0 .. MaxNodes] : Depths(d)
    BY DEF TreeInv, Shaped
  <1>3. ASSUME NEW p \in Points
        PROVE  IF \E i \in DOMAIN ref : ref[i].point = p
               THEN \E i \in DOMAIN ref : ref[i] = [at |-> FindPoint(p), point |-> p]
               ELSE FindPoint(p) = Nil
    <2> DEFINE w == WayOf(p)
               E == {k \in 0 .. MaxNodes : w[k] # Nil /\ node[w[k]].value = p}
    <2>1. FindPoint(p) = IF E = {} THEN Nil ELSE w[CHOOSE k \in E : \A j \in E : k <= j]
      BY DEF FindPoint
    <2>2. CASE \E i \in DOMAIN ref : ref[i].point = p
      <3>1. PICK i \in DOMAIN ref : ref[i].point = p
        BY <2>2
      <3> DEFINE n == ref[i].at
      <3>2. n \in InTree /\ node[n].value = p
        BY <1>1, <3>1 DEF InTree, Kept
      <3>3. w[d[n]] = n /\ d[n] \in 0 .. MaxNodes /\ n # Nil
        <4> HIDE DEF n
        <4> QED
          BY <1>1, <1>2, <3>2, InTreeTyped DEF Depths
      <3>4. d[n] \in E
        BY <3>2, <3>3
      <3>5. E # {} /\ E \in SUBSET Nat
        BY <3>4, NodesAre
      <3> DEFINE k == CHOOSE k \in E : \A j \in E : k <= j
      <3>6. k \in E
        <4> HIDE DEF E
        <4>1. \E x \in E : \A j \in E : x <= j
          BY <3>5, Least
        <4> QED
          BY <4>1
      <3>7. FindPoint(p) = w[k]
        BY <2>1, <3>5
      <3> HIDE DEF k
      <3>8. w[k] \in InTree /\ node[w[k]].value = p
        BY <1>1, <1>2, <3>6, WayDeep
      <3> QED
        BY <1>1, <2>2, <3>7, <3>8, ReturnedIs
    <2>3. CASE ~ \E i \in DOMAIN ref : ref[i].point = p
      <3>1. ASSUME NEW k \in E PROVE FALSE
        <4>1. w[k] \in InTree /\ node[w[k]].value = p
          BY <1>1, <1>2, WayDeep
        <4>2. PICK i \in DOMAIN ref : ref[i] = [at |-> w[k], point |-> p]
          BY <1>1, <4>1, ReturnedIs
        <4> QED
          BY <2>3, <4>2
      <3> QED
        BY <2>1, <2>3, <3>1
    <2> QED
      BY <2>2, <2>3
  <1>4. \A i \in DOMAIN ref : node[ref[i].at].value = ref[i].point
    BY <1>1 DEF Kept
  <1> QED
    BY <1>3, <1>4 DEF FindsWhatWasInserted

(* A sequence that lists a set once.                                       *)
Lists(s, S) ==
    /\ s \in Seq(S)
    /\ \A i, j \in 1 .. Len(s) : s[i] = s[j] => i = j
    /\ \A x \in S : \E i \in 1 .. Len(s) : s[i] = x

LEMMA ListsNone == Lists(<<>>, {})
  BY DEF Lists

LEMMA ListsLen ==
    ASSUME NEW s, NEW S, Lists(s, S)
    PROVE  IsFiniteSet(S) /\ Cardinality(S) = Len(s)
  <1>1. Len(s) \in Nat /\ s \in [1 .. Len(s) -> S]
    BY DEF Lists
  <1>2. s \in Bijection(1 .. Len(s), S)
    <2>1. \A i, j \in 1 .. Len(s) : s[i] = s[j] => i = j
      BY DEF Lists
    <2>2. \A x \in S : \E i \in 1 .. Len(s) : s[i] = x
      BY DEF Lists
    <2>3. s \in Injection(1 .. Len(s), S) /\ s \in Surjection(1 .. Len(s), S)
      BY <1>1, <2>1, <2>2 DEF Injection, Surjection, IsInjective
    <2> QED
      BY <2>3 DEF Bijection
  <1>3. IsFiniteSet(1 .. Len(s)) /\ Cardinality(1 .. Len(s)) = Len(s)
    BY <1>1, FS_Interval
  <1>4. ExistsBijection(1 .. Len(s), S)
    BY <1>2 DEF ExistsBijection
  <1> QED
    BY <1>3, <1>4, FS_Bijection

LEMMA ListsTwo ==
    ASSUME NEW s, NEW S, Lists(s, S), NEW t, NEW T, Lists(t, T), S \intersect T = {}
    PROVE  Lists(s \o t, S \union T)
  <1> DEFINE u == s \o t
             m == Len(s)
             n == Len(t)
  <1>1. s \in Seq(S \union T) /\ t \in Seq(S \union T)
    BY DEF Lists
  <1>2. u \in Seq(S \union T) /\ m \in Nat /\ n \in Nat /\ Len(u) = m + n
    BY <1>1
  <1>3. /\ \A i \in 1 .. m : u[i] = s[i] /\ s[i] \in S /\ i \in 1 .. m + n
        /\ \A i \in 1 .. n : u[m + i] = t[i] /\ t[i] \in T /\ m + i \in 1 .. m + n
    <2>1. s \in Seq(S) /\ t \in Seq(T)
      BY DEF Lists
    <2>2. \A i \in 1 .. m : u[i] = s[i] /\ s[i] \in S /\ i \in 1 .. m + n
      BY <2>1, <1>2
    <2>3. \A i \in 1 .. n : u[m + i] = t[i] /\ t[i] \in T /\ m + i \in 1 .. m + n
      BY <2>1, <1>2
    <2> QED
      BY <2>2, <2>3
  <1> HIDE DEF u, m, n
  <1>4. \A i \in 1 .. m + n : i \in 1 .. m \/ (i - m \in 1 .. n /\ i = m + (i - m))
    BY <1>2
  <1>5. ASSUME NEW i \in 1 .. m + n, NEW j \in 1 .. m + n, u[i] = u[j] PROVE i = j
    <2>1. CASE i \in 1 .. m /\ j \in 1 .. m
      BY <1>3, <1>5, <2>1 DEF Lists, m
    <2>2. CASE i \in 1 .. m /\ ~(j \in 1 .. m)
      BY <1>3, <1>4, <1>5, <2>2
    <2>3. CASE ~(i \in 1 .. m) /\ j \in 1 .. m
      BY <1>3, <1>4, <1>5, <2>3
    <2>4. CASE ~(i \in 1 .. m) /\ ~(j \in 1 .. m)
      <3>1. i - m \in 1 .. n /\ j - m \in 1 .. n /\ i = m + (i - m) /\ j = m + (j - m)
        BY <1>4, <2>4
      <3>2. t[i - m] = t[j - m]
        BY <1>3, <1>5, <3>1
      <3>3. i - m = j - m
        BY <3>1, <3>2 DEF Lists, n
      <3> QED
        BY <3>1, <3>3
    <2> QED
      BY <2>1, <2>2, <2>3, <2>4
  <1>6. ASSUME NEW x \in S \union T PROVE \E i \in 1 .. m + n : u[i] = x
    <2>1. CASE x \in S
      BY <1>3, <2>1 DEF Lists, m
    <2>2. CASE x \in T
      <3>1. PICK i \in 1 .. n : t[i] = x
        BY <2>2 DEF Lists, n
      <3> QED
        BY <1>3, <3>1
    <2> QED
      BY <2>1, <2>2
  <1> QED
    BY <1>2, <1>5, <1>6 DEF Lists, u

LEMMA ListsOne == ASSUME NEW x PROVE Lists(<<x>>, {x})
  <1>1. Len(<<x>>) = 1 /\ <<x>>[1] = x /\ <<x>> \in Seq({x})
    OBVIOUS
  <1> QED
    BY <1>1 DEF Lists

(* The nodes of the subtree below n: those whose way passes n before it    *)
(* comes to them.                                                          *)
Under(d, n) == {x \in InTree : d[n] <= d[x] /\ WayOf(node[x].value)[d[n]] = n}

Part(d, c) == IF c = Nil THEN {} ELSE Under(d, c)

LEMMA DepthBelow ==
    ASSUME TreeTyped, Kept, NEW d \in [InTree -> 0 .. MaxNodes], Depths(d), NEW n \in InTree
    PROVE  d[n] \in 0 .. MaxNodes - 1 /\ WayOf(node[n].value)[d[n]] = n /\ n # Nil
  <1>1. WayOf(node[n].value)[d[n]] = n /\ n # Nil /\ d[n] \in 0 .. MaxNodes /\ MaxNodes \in Nat
    BY InTreeTyped, NodesAre DEF Depths
  <1>2. WayOf(node[n].value)[MaxNodes] = Nil
    BY WayEnds DEF Shaped
  <1> QED
    BY <1>1, <1>2

(* Below a child is what is below its parent on its side.                  *)
LEMMA UnderChild ==
    ASSUME TreeTyped, Kept, NEW d \in [InTree -> 0 .. MaxNodes], Depths(d), NEW n \in InTree,
           NEW side \in {"left", "right"}, Child(n, side) # Nil, NEW x \in Under(d, Child(n, side))
    PROVE  /\ x \in Under(d, n) /\ x # n /\ SideOf(node[x].value, n, d[n]) = side
  <1> DEFINE c == Child(n, side)
             w == WayOf(node[x].value)
             m == w[d[n]]
             s == SideOf(node[x].value, m, d[n])
  <1>1. /\ c \in InTree /\ d[c] = d[n] + 1 /\ c # Nil
        /\ WayOf(node[c].value)[d[n]] = n /\ SideOf(node[c].value, n, d[n]) = side
    BY DEF Depths
  <1>2. /\ d[n] \in 0 .. MaxNodes - 1 /\ MaxNodes \in Nat /\ n # Nil
        /\ d[n] \in 0 .. MaxNodes /\ d[n] + 1 \in 1 .. MaxNodes /\ (d[n] + 1) - 1 = d[n]
    <2>1. d[n] \in 0 .. MaxNodes - 1 /\ MaxNodes \in Nat /\ n # Nil
      BY DepthBelow, NodesAre
    <2> QED
      BY <2>1
  <1>3. x \in InTree /\ d[c] <= d[x] /\ w[d[c]] = c
    BY DEF Under
  <1>4. c = Below(node[x].value, m, d[n] + 1)
    <2> HIDE DEF c
    <2> QED
      BY <1>1, <1>2, <1>3, WayIs
  <1>5. m # Nil /\ c = Child(m, s)
    <2> HIDE DEF c, m
    <2>1. m # Nil /\ c = Child(m, SideOf(node[x].value, m, (d[n] + 1) - 1))
      BY <1>1, <1>4 DEF Below
    <2> QED
      BY <1>2, <2>1
  <1>6. m \in InTree /\ d[m] = d[n]
    BY <1>2, <1>5, WayDeep
  <1> HIDE DEF c, w, m, s
  <1>7. s \in {"left", "right"}
    BY SidesAre DEF s
  <1>8. WayOf(node[c].value)[d[m]] = m /\ SideOf(node[c].value, m, d[m]) = s
    BY <1>1, <1>5, <1>6, <1>7 DEF Depths
  <1>9. m = n
    BY <1>1, <1>6, <1>8
  <1>10. s = side
    BY <1>1, <1>6, <1>8, <1>9
  <1>11. d[n] <= d[x] /\ x # n
    <2>1. d[x] \in 0 .. MaxNodes
      BY <1>3
    <2> QED
      BY <1>1, <1>2, <1>3, <2>1
  <1> QED
    BY <1>3, <1>9, <1>10, <1>11 DEF Under, m, s, w

LEMMA UnderNode ==
    ASSUME TreeTyped, Kept, NEW d \in [InTree -> 0 .. MaxNodes], Depths(d), NEW n \in InTree
    PROVE  /\ Under(d, n) = (Part(d, node[n].left) \union Part(d, node[n].right)) \union {n}
           /\ Part(d, node[n].left) \intersect Part(d, node[n].right) = {}
           /\ (Part(d, node[n].left) \union Part(d, node[n].right)) \intersect {n} = {}
  <1> DEFINE l == node[n].left
             r == node[n].right
  <1>1. l = Child(n, "left") /\ r = Child(n, "right")
    BY DEF Child
  <1>2. \A x \in Part(d, l) : x \in Under(d, n) /\ x # n /\ SideOf(node[x].value, n, d[n]) = "left"
    BY <1>1, UnderChild DEF Part
  <1>3. \A x \in Part(d, r) : x \in Under(d, n) /\ x # n /\ SideOf(node[x].value, n, d[n]) = "right"
    BY <1>1, UnderChild DEF Part
  <1>4. n \in Under(d, n)
    <2>1. d[n] \in 0 .. MaxNodes - 1 /\ WayOf(node[n].value)[d[n]] = n
      BY DepthBelow
    <2> QED
      BY <2>1 DEF Under
  <1>5. ASSUME NEW x \in Under(d, n), x # n
        PROVE  x \in Part(d, l) \union Part(d, r)
    <2> DEFINE w == WayOf(node[x].value)
               s == SideOf(node[x].value, n, d[n])
               c == Child(n, s)
    <2>1. x \in InTree /\ d[n] <= d[x] /\ w[d[n]] = n
      BY DEF Under
    <2>2. w[d[x]] = x /\ x # Nil /\ d[x] \in 0 .. MaxNodes /\ d[n] \in 0 .. MaxNodes /\ MaxNodes \in Nat
          /\ n # Nil
      <3>1. d[x] \in 0 .. MaxNodes - 1 /\ w[d[x]] = x /\ x # Nil
        BY <2>1, DepthBelow
      <3>2. d[n] \in 0 .. MaxNodes - 1 /\ n # Nil
        BY DepthBelow
      <3> QED
        BY <3>1, <3>2, NodesAre
    <2>3. d[n] + 1 <= d[x] /\ d[n] + 1 \in 1 .. MaxNodes /\ d[n] + 1 \in 0 .. d[x] /\ (d[n] + 1) - 1 = d[n]
      <3>1. d[n] # d[x]
        BY <1>5, <2>1, <2>2
      <3> QED
        BY <2>1, <2>2, <3>1
    <2>4. w[d[n] + 1] # Nil
      BY <2>2, <2>3, WayOpen
    <2>5. w[d[n] + 1] = c
      <3>1. w[d[n] + 1] = Below(node[x].value, w[d[n]], d[n] + 1)
        BY <2>3, WayIs
      <3> HIDE DEF w
      <3> QED
        BY <2>1, <2>2, <2>3, <3>1 DEF Below
    <2>6. s \in {"left", "right"}
      BY SidesAre
    <2>7. c # Nil /\ d[c] = d[n] + 1 /\ w[d[c]] = c
      <3>1. c # Nil
        BY <2>4, <2>5
      <3> HIDE DEF c, w
      <3>2. d[c] = d[n] + 1
        BY <2>6, <3>1 DEF Depths, c
      <3> QED
        BY <2>5, <3>1, <3>2
    <2>8. x \in Under(d, c)
      BY <2>1, <2>3, <2>7 DEF Under
    <2>9. c = l \/ c = r
      BY <2>6 DEF Child
    <2> QED
      BY <2>7, <2>8, <2>9 DEF Part
  <1> HIDE DEF l, r
  <1>6. Part(d, l) \intersect Part(d, r) = {}
    BY <1>2, <1>3
  <1>7. (Part(d, l) \union Part(d, r)) \intersect {n} = {}
    BY <1>2, <1>3
  <1>8. Under(d, n) = (Part(d, l) \union Part(d, r)) \union {n}
    BY <1>2, <1>3, <1>4, <1>5
  <1> QED
    BY <1>6, <1>7, <1>8 DEF l, r

Walks == [NodesNil -> Seq(Nodes)]

(* The visits of a node and of what is below it, from those below it.      *)
Visits(L) ==
    [n \in NodesNil |->
        IF n = Nil THEN <<>> ELSE L[node[n].left] \o L[node[n].right] \o <<n>>]

LEMMA VisitsTyped == ASSUME TreeTyped, NEW L \in Walks PROVE Visits(L) \in Walks
  <1>1. ASSUME NEW n \in NodesNil
        PROVE  (IF n = Nil THEN <<>> ELSE L[node[n].left] \o L[node[n].right] \o <<n>>) \in Seq(Nodes)
    <2>1. CASE n = Nil
      BY <2>1
    <2>2. CASE n # Nil
      <3>1. n \in Nodes /\ node[n].left \in NodesNil /\ node[n].right \in NodesNil
        BY <2>2, MemoryIs DEF NodesNil
      <3>2. L[node[n].left] \in Seq(Nodes) /\ L[node[n].right] \in Seq(Nodes) /\ <<n>> \in Seq(Nodes)
        BY <3>1 DEF Walks
      <3>3. PICK a, b, c : a = L[node[n].left] /\ b = L[node[n].right] /\ c = <<n>>
        OBVIOUS
      <3>4. a \o b \o c \in Seq(Nodes)
        BY <3>2, <3>3
      <3> QED
        BY <2>2, <3>3, <3>4
    <2> QED
      BY <2>1, <2>2
  <1> QED
    BY <1>1 DEF Visits, Walks

LEMMA WalkIs ==
    ASSUME TreeTyped
    PROVE  \E f \in [0 .. MaxNodes -> Walks] :
              /\ WalkDelete = f[MaxNodes][rootNode]
              /\ f[0] = [n \in NodesNil |-> <<>>]
              /\ \A k \in 1 .. MaxNodes : f[k] = Visits(f[k - 1])
  <1> DEFINE none == [n \in NodesNil |-> <<>>]
             step == [L \in Walks |-> Visits(L)]
             walk[k \in 0 .. MaxNodes] ==
                 [n \in Nodes \union {Nil} |->
                     IF k = 0 \/ n = Nil
                     THEN <<>>
                     ELSE walk[k - 1][node[n].left] \o walk[k - 1][node[n].right] \o <<n>>]
  <1>1. MaxNodes \in Nat /\ none \in Walks /\ step \in [Walks -> Walks]
    BY NodesAre, VisitsTyped DEF Walks
  <1>2. PICK f \in [0 .. MaxNodes -> Walks] : Follows(f, none, step, MaxNodes)
    <2> HIDE DEF none, step
    <2> QED
      BY <1>1, StepByStep
  <1>3. f[0] = none
    <2>1. 0 \in 0 .. MaxNodes
      BY <1>1
    <2> QED
      BY <1>2, <2>1 DEF Follows
  <1>4. ASSUME NEW k \in 1 .. MaxNodes PROVE f[k] = Visits(f[k - 1])
    <2>1. k \in 0 .. MaxNodes /\ k # 0 /\ f[k - 1] \in Walks
      BY <1>1
    <2>2. f[k] = step[f[k - 1]]
      BY <1>2, <2>1 DEF Follows
    <2> QED
      BY <2>1, <2>2
  <1>5. f = [k \in 0 .. MaxNodes |->
                 [n \in Nodes \union {Nil} |->
                     IF k = 0 \/ n = Nil
                     THEN <<>>
                     ELSE f[k - 1][node[n].left] \o f[k - 1][node[n].right] \o <<n>>]]
    <2>1. ASSUME NEW k \in 0 .. MaxNodes
          PROVE  f[k] = [n \in Nodes \union {Nil} |->
                            IF k = 0 \/ n = Nil
                            THEN <<>>
                            ELSE f[k - 1][node[n].left] \o f[k - 1][node[n].right] \o <<n>>]
      <3>1. CASE k = 0
        BY <1>3, <3>1 DEF NodesNil
      <3>2. CASE k # 0
        <4>1. k \in 1 .. MaxNodes
          BY <1>1, <3>2
        <4> QED
          BY <1>4, <3>2, <4>1 DEF Visits, NodesNil
      <3> QED
        BY <3>1, <3>2
    <2> QED
      BY <2>1
  <1>6. walk = [k \in 0 .. MaxNodes |->
                 [n \in Nodes \union {Nil} |->
                     IF k = 0 \/ n = Nil
                     THEN <<>>
                     ELSE walk[k - 1][node[n].left] \o walk[k - 1][node[n].right] \o <<n>>]]
    BY <1>5
  <1>7. WalkDelete = walk[MaxNodes][rootNode]
    BY DEF WalkDelete
  <1> HIDE DEF walk, step, none
  <1> DEFINE T == {k \in Nat : k <= MaxNodes => walk[k] = f[k]}
  <1>8. 0 \in T
    <2>1. 0 \in 0 .. MaxNodes
      BY <1>1
    <2>2. walk[0] = [n \in Nodes \union {Nil} |-> <<>>]
      BY <1>6, <2>1
    <2> QED
      BY <1>3, <2>2 DEF none, NodesNil
  <1>9. ASSUME NEW k \in Nat, k \in T PROVE k + 1 \in T
    <2> SUFFICES ASSUME k + 1 <= MaxNodes PROVE walk[k + 1] = f[k + 1]
      OBVIOUS
    <2>1. walk[k] = f[k] /\ k + 1 \in 0 .. MaxNodes /\ k + 1 \in 1 .. MaxNodes /\ k + 1 # 0 /\ (k + 1) - 1 = k
      BY <1>1, <1>9
    <2>2. walk[k + 1] = Visits(walk[k])
      BY <1>6, <2>1 DEF Visits, NodesNil
    <2>3. f[k + 1] = Visits(f[k])
      BY <1>4, <2>1
    <2> QED
      BY <2>1, <2>2, <2>3
  <1>10. \A k \in Nat : k \in T
    <2> HIDE DEF T
    <2> QED
      BY <1>8, <1>9, Inductive
  <1>11. walk[MaxNodes] = f[MaxNodes]
    BY <1>1, <1>10
  <1> QED
    BY <1>3, <1>4, <1>7, <1>11 DEF none

(* WalkDelete visits each node of the tree once.                           *)
LEMMA WalkLists == ASSUME TreeTyped, Kept, Shaped PROVE Lists(WalkDelete, InTree)
  <1>1. PICK d \in [InTree -> 0 .. MaxNodes] : Depths(d)
    BY DEF Shaped
  <1>2. PICK f \in [0 .. MaxNodes -> Walks] :
              /\ WalkDelete = f[MaxNodes][rootNode]
              /\ f[0] = [n \in NodesNil |-> <<>>]
              /\ \A k \in 1 .. MaxNodes : f[k] = Visits(f[k - 1])
    BY WalkIs
  <1>3. MaxNodes \in Nat /\ Nil \in NodesNil /\ InTree \in SUBSET Nodes /\ \A n \in InTree : n \in NodesNil /\ n # Nil
    BY NodesAre, InTreeTyped DEF NodesNil
  <1>4. ASSUME NEW k \in 0 .. MaxNodes PROVE f[k][Nil] = <<>>
    <2>1. CASE k = 0
      BY <1>2, <1>3, <2>1
    <2>2. CASE k # 0
      <3>1. k \in 1 .. MaxNodes
        BY <1>3, <2>2
      <3> QED
        BY <1>2, <1>3, <3>1 DEF Visits
    <2> QED
      BY <2>1, <2>2
  <1> DEFINE T == {k \in Nat : k <= MaxNodes =>
                      \A n \in InTree : d[n] + k >= MaxNodes => Lists(f[k][n], Under(d, n))}
  <1>5. 0 \in T
    <2>1. \A n \in InTree : ~(d[n] + 0 >= MaxNodes)
      <3>1. \A n \in InTree : d[n] \in 0 .. MaxNodes - 1
        BY <1>1, DepthBelow
      <3> QED
        BY <1>3, <3>1
    <2> QED
      BY <2>1
  <1>6. ASSUME NEW k \in Nat, k \in T PROVE k + 1 \in T
    <2> SUFFICES ASSUME k + 1 <= MaxNodes, NEW n \in InTree, d[n] + (k + 1) >= MaxNodes
                 PROVE  Lists(f[k + 1][n], Under(d, n))
      OBVIOUS
    <2> DEFINE l == node[n].left
               r == node[n].right
    <2>1. k \in 0 .. MaxNodes /\ k + 1 \in 1 .. MaxNodes /\ (k + 1) - 1 = k
      BY <1>3
    <2>2. f[k + 1][n] = f[k][l] \o f[k][r] \o <<n>>
      BY <1>2, <1>3, <2>1 DEF Visits
    <2>3. ASSUME NEW side \in {"left", "right"}
          PROVE  Lists(f[k][Child(n, side)], Part(d, Child(n, side)))
      <3> DEFINE c == Child(n, side)
      <3>1. CASE c = Nil
        <4>1. f[k][c] = <<>> /\ Part(d, c) = {}
          BY <1>4, <2>1, <3>1 DEF Part
        <4> QED
          BY <4>1, ListsNone
      <3>2. CASE c # Nil
        <4>1. c \in InTree /\ d[c] = d[n] + 1
          BY <1>1, <3>2 DEF Depths
        <4> HIDE DEF c
        <4>2. d[c] + k >= MaxNodes
          <5>1. d[n] \in 0 .. MaxNodes
            BY <1>1
          <5> QED
            BY <1>3, <4>1, <5>1
        <4>3. Lists(f[k][c], Under(d, c))
          BY <1>6, <2>1, <4>1, <4>2
        <4> QED
          BY <3>2, <4>3 DEF Part, c
      <3> QED
        BY <3>1, <3>2
    <2>4. Lists(f[k][l], Part(d, l)) /\ Lists(f[k][r], Part(d, r))
      <3>1. l = Child(n, "left") /\ r = Child(n, "right")
        BY DEF Child
      <3> HIDE DEF l, r
      <3> QED
        BY <2>3, <3>1
    <2>5. /\ Under(d, n) = (Part(d, l) \union Part(d, r)) \union {n}
          /\ Part(d, l) \intersect Part(d, r) = {}
          /\ (Part(d, l) \union Part(d, r)) \intersect {n} = {}
      BY <1>1, UnderNode
    <2> HIDE DEF l, r
    <2>6. Lists(f[k][l] \o f[k][r], Part(d, l) \union Part(d, r))
      BY <2>4, <2>5, ListsTwo
    <2>7. Lists((f[k][l] \o f[k][r]) \o <<n>>, (Part(d, l) \union Part(d, r)) \union {n})
      BY <2>5, <2>6, ListsOne, ListsTwo
    <2> QED
      BY <2>2, <2>5, <2>7
  <1>7. \A k \in Nat : k \in T
    <2> HIDE DEF T
    <2> QED
      BY <1>5, <1>6, Inductive
  <1>8. CASE rootNode = Nil
    <2>1. InTree = {}
      <3>1. ref = <<>> /\ 1 .. Len(ref) = {}
        BY <1>8 DEF Kept
      <3> QED
        BY <3>1 DEF InTree
    <2>2. WalkDelete = <<>>
      BY <1>2, <1>3, <1>4, <1>8
    <2> QED
      BY <2>1, <2>2, ListsNone
  <1>9. CASE rootNode # Nil
    <2>1. rootNode \in InTree /\ d[rootNode] = 0
      BY <1>1, <1>9 DEF Kept, Depths
    <2>2. Lists(f[MaxNodes][rootNode], Under(d, rootNode))
      BY <1>3, <1>7, <2>1
    <2>3. Under(d, rootNode) = InTree
      <3>1. ASSUME NEW x \in InTree PROVE d[rootNode] <= d[x] /\ WayOf(node[x].value)[d[rootNode]] = rootNode
        <4>1. d[x] \in 0 .. MaxNodes
          BY <1>1
        <4> QED
          BY <2>1, <4>1, WayIs
      <3> QED
        BY <3>1 DEF Under
    <2> QED
      BY <1>2, <2>2, <2>3
  <1> QED
    BY <1>8, <1>9

LEMMA TreeCount ==
    ASSUME TreeTyped, Kept
    PROVE  IsFiniteSet(InTree) /\ Cardinality(InTree) = Len(ref)
  <1> DEFINE s == [i \in 1 .. Len(ref) |-> ref[i].at]
  <1>1. Len(ref) \in Nat /\ \A i \in 1 .. Len(ref) : ref[i].at \in InTree
    BY DEF TreeTyped, InTree
  <1>2. s \in Seq(InTree) /\ Len(s) = Len(ref) /\ \A i \in 1 .. Len(ref) : s[i] = ref[i].at
    BY <1>1
  <1> HIDE DEF s
  <1>3. Lists(s, InTree)
    <2>1. \A i, j \in 1 .. Len(s) : s[i] = s[j] => i = j
      BY <1>2 DEF Kept
    <2>2. \A x \in InTree : \E i \in 1 .. Len(s) : s[i] = x
      BY <1>2 DEF InTree
    <2> QED
      BY <1>2, <2>1, <2>2 DEF Lists
  <1> QED
    BY <1>2, <1>3, ListsLen

(* The first nodes of the free chain are the free list.                    *)
LEMMA SpareCount ==
    ASSUME TreeTyped, Spare
    PROVE  IsFiniteSet(Listed) /\ Cardinality(Listed) = freeSize
  <1> DEFINE s == [k \in 1 .. freeSize |-> FreeChain[k - 1]]
  <1>1. MaxNodes \in Nat /\ freeSize \in 0 .. MaxNodes
    BY NodesAre DEF TreeTyped
  <1>2. ASSUME NEW k \in 1 .. freeSize
        PROVE  k - 1 \in 0 .. MaxNodes /\ FreeChain[k - 1] \in Listed
    <2>1. k - 1 \in 0 .. MaxNodes /\ k - 1 < freeSize
      BY <1>1
    <2> QED
      BY <2>1 DEF Spare, Listed
  <1>3. s \in Seq(Listed) /\ Len(s) = freeSize /\ \A k \in 1 .. freeSize : s[k] = FreeChain[k - 1]
    BY <1>1, <1>2
  <1>4. ASSUME NEW j \in 1 .. freeSize, NEW k \in 1 .. freeSize, FreeChain[j - 1] = FreeChain[k - 1]
        PROVE  j = k
    <2>1. FreeChain[j - 1] # Nil
      BY <1>2 DEF Listed
    <2>2. j - 1 = k - 1
      BY <1>2, <1>4, <2>1 DEF Spare
    <2> QED
      BY <2>2
  <1>5. ASSUME NEW x \in Listed PROVE \E k \in 1 .. freeSize : FreeChain[k - 1] = x
    <2>1. PICK k \in 0 .. MaxNodes : FreeChain[k] = x /\ x # Nil
      BY DEF Listed
    <2>2. k < freeSize
      BY <2>1 DEF Spare
    <2>3. k + 1 \in 1 .. freeSize /\ (k + 1) - 1 = k
      BY <1>1, <2>2
    <2> QED
      BY <2>1, <2>3
  <1> HIDE DEF s
  <1>6. Lists(s, Listed)
    <2>1. \A j, k \in 1 .. Len(s) : s[j] = s[k] => j = k
      BY <1>3, <1>4
    <2>2. \A x \in Listed : \E k \in 1 .. Len(s) : s[k] = x
      BY <1>3, <1>5
    <2> QED
      BY <1>3, <2>1, <2>2 DEF Lists
  <1> QED
    BY <1>3, <1>6, ListsLen

LEMMA NodesCount ==
    ASSUME TreeTyped, Kept, Spare
    PROVE  /\ Len(ref) + freeSize = Cardinality(allocated) /\ Cardinality(allocated) \in 0 .. MaxNodes
           /\ allocated # Nodes => Cardinality(allocated) < MaxNodes
  <1>1. Listed \union InTree = allocated /\ Listed \intersect InTree = {}
    BY DEF Spare
  <1>2. IsFiniteSet(allocated) /\ Cardinality(allocated) = freeSize + Len(ref) - 0
    BY <1>1, TreeCount, SpareCount, FS_Union, FS_EmptySet
  <1>3. IsFiniteSet(Nodes) /\ Cardinality(Nodes) = MaxNodes /\ MaxNodes \in Nat
    BY NodesAre, FS_Interval DEF Nodes
  <1>4. /\ Cardinality(allocated) <= MaxNodes
        /\ Cardinality(allocated) = MaxNodes => allocated = Nodes
    BY <1>3, FS_Subset DEF TreeTyped
  <1>5. freeSize \in Nat /\ Len(ref) \in Nat
    BY <1>3 DEF TreeTyped
  <1> QED
    BY <1>2, <1>3, <1>4, <1>5

LEMMA Accounted == ASSUME TreeInv PROVE NodesAccounted
  <1>1. TreeTyped /\ Kept /\ Shaped /\ Spare
    BY DEF TreeInv
  <1>2. Lists(WalkDelete, InTree)
    BY <1>1, WalkLists
  <1>3. Len(WalkDelete) = treeSize
    BY <1>1, <1>2, TreeCount, ListsLen DEF Kept
  <1>4. {WalkDelete[i] : i \in DOMAIN WalkDelete} = InTree
    BY <1>2 DEF Lists
  <1> QED
    BY <1>1, <1>3, <1>4, NodesCount DEF NodesAccounted, Spare, Kept

(* How ways and the free list go on, as formulas of one state.             *)
WayRule ==
    \A p : /\ WayOf(p) \in [0 .. MaxNodes -> NodesNil] /\ WayOf(p)[0] = rootNode
           /\ \A k \in 1 .. MaxNodes : WayOf(p)[k] = Below(p, WayOf(p)[k - 1], k)

ChainRule ==
    /\ FreeChain \in [0 .. MaxNodes -> NodesNil] /\ FreeChain[0] = freeNode
    /\ \A k \in 1 .. MaxNodes :
           FreeChain[k] = IF FreeChain[k - 1] = Nil THEN Nil ELSE node[FreeChain[k - 1]].left

LEMMA RulesHold == TreeTyped => WayRule /\ ChainRule
  BY WayIs, ChainIs DEF WayRule, ChainRule

LEMMA RulesNext == ASSUME TreeTyped' PROVE WayRule' /\ ChainRule'
  <1>1. (TreeTyped => WayRule /\ ChainRule)'
    BY RulesHold, PTL
  <1> QED
    BY <1>1

ChainNone == \A k \in 0 .. MaxNodes : FreeChain[k] = Nil

LEMMA NoChain == ChainRule /\ freeNode = Nil => ChainNone
  <1> SUFFICES ASSUME ChainRule, freeNode = Nil PROVE \A k \in 0 .. MaxNodes : FreeChain[k] = Nil
    BY DEF ChainNone
  <1> DEFINE T == {k \in Nat : k <= MaxNodes => FreeChain[k] = Nil}
  <1>1. 0 \in T /\ MaxNodes \in Nat
    BY NodesAre DEF ChainRule
  <1>2. ASSUME NEW k \in Nat, k \in T PROVE k + 1 \in T
    <2> SUFFICES ASSUME k + 1 <= MaxNodes PROVE FreeChain[k + 1] = Nil
      OBVIOUS
    <2>1. k + 1 \in 1 .. MaxNodes /\ (k + 1) - 1 = k /\ FreeChain[k] = Nil
      BY <1>1, <1>2
    <2> QED
      BY <2>1 DEF ChainRule
  <1>3. \A k \in Nat : k \in T
    <2> HIDE DEF T
    <2> QED
      BY <1>1, <1>2, Inductive
  <1> QED
    BY <1>1, <1>3

LEMMA NoChainNext == ASSUME TreeTyped', freeNode' = Nil PROVE ChainNone'
  <1>1. (ChainRule /\ freeNode = Nil => ChainNone)'
    BY NoChain, PTL
  <1> QED
    BY <1>1, RulesNext

(* A step that leaves the nodes of the tree leaves every way.              *)
LEMMA WaysStay ==
    ASSUME TreeTyped, TreeTyped', Kept, Shaped, rootNode' = rootNode,
           \A n \in InTree : node'[n] = node[n], NEW p
    PROVE  WayOf(p)' = WayOf(p)
  <1> DEFINE v == WayOf(p)'
             w == WayOf(p)
             T == {k \in Nat : k <= MaxNodes => v[k] = w[k]}
  <1>1. PICK d \in [InTree -> 0 .. MaxNodes] : Depths(d)
    BY DEF Shaped
  <1>2. WayRule /\ WayRule' /\ MaxNodes \in Nat
    BY RulesHold, RulesNext, NodesAre
  <1>3. 0 \in T
    BY <1>2 DEF WayRule
  <1>4. ASSUME NEW k \in Nat, k \in T PROVE k + 1 \in T
    <2> SUFFICES ASSUME k + 1 <= MaxNodes PROVE v[k + 1] = w[k + 1]
      OBVIOUS
    <2>1. k + 1 \in 1 .. MaxNodes /\ (k + 1) - 1 = k /\ v[k] = w[k] /\ k \in 0 .. MaxNodes
      BY <1>2, <1>4
    <2>2. w[k + 1] = Below(p, w[k], k + 1)
      BY <1>2, <2>1 DEF WayRule
    <2>3. PICK x : x = v[k]
      OBVIOUS
    <2>4. v[k + 1] = Below(p, x, k + 1)'
      BY <1>2, <2>1, <2>3 DEF WayRule
    <2>5. w[k] # Nil => w[k] \in InTree
      BY <1>1, <2>1, WayDeep
    <2> HIDE DEF v, w
    <2>6. CASE w[k] = Nil
      BY <2>1, <2>2, <2>3, <2>6, <2>4 DEF Below
    <2>7. CASE w[k] # Nil
      <3>1. node'[w[k]] = node[w[k]]
        BY <2>5, <2>7
      <3> QED
        BY <2>1, <2>2, <2>3, <2>4, <3>1 DEF Below, Child, SideOf
    <2> QED
      BY <2>6, <2>7
  <1>5. \A k \in Nat : k \in T
    <2> HIDE DEF T
    <2> QED
      BY <1>3, <1>4, Inductive
  <1>6. v \in [0 .. MaxNodes -> NodesNil] /\ w \in [0 .. MaxNodes -> NodesNil]
    BY <1>2 DEF WayRule
  <1>7. \A k \in 0 .. MaxNodes : v[k] = w[k]
    BY <1>2, <1>5
  <1>8. PICK x, y : x = v /\ y = w
    OBVIOUS
  <1>9. /\ x \in [0 .. MaxNodes -> NodesNil] /\ y \in [0 .. MaxNodes -> NodesNil]
        /\ \A k \in 0 .. MaxNodes : x[k] = y[k]
    BY <1>6, <1>7, <1>8
  <1>10. x = [k \in 0 .. MaxNodes |-> x[k]] /\ y = [k \in 0 .. MaxNodes |-> y[k]]
    BY <1>9
  <1>11. [k \in 0 .. MaxNodes |-> x[k]] = [k \in 0 .. MaxNodes |-> y[k]]
    BY <1>9, Zenon
  <1> QED
    BY <1>8, <1>10, <1>11

LEMMA ShapeStays ==
    ASSUME TreeTyped, TreeTyped', Kept, Shaped, InTree' = InTree, rootNode' = rootNode,
           \A n \in InTree : node'[n] = node[n]
    PROVE  Shaped'
  <1>1. PICK d \in [InTree -> 0 .. MaxNodes] : Depths(d)
    BY DEF Shaped
  <1>2. \A p : WayOf(p)' = WayOf(p)
    BY WaysStay
  <1>3. \A n \in InTree : \A side : Child(n, side)' = Child(n, side)
    BY DEF Child
  <1>4. \A n \in InTree : \A p, k : SideOf(p, n, k)' = SideOf(p, n, k)
    BY DEF SideOf
  <1>5. Depths(d)'
    <2>1. \A n \in InTree : WayOf(node[n].value)'[d[n]] = n
      BY <1>1, <1>2 DEF Depths
    <2>2. ASSUME NEW n \in InTree, NEW side \in {"left", "right"}, Child(n, side)' # Nil
          PROVE  /\ Child(n, side)' \in InTree /\ d[Child(n, side)'] = d[n] + 1
                 /\ WayOf(node[Child(n, side)].value)'[d[n]] = n
                 /\ SideOf(node[Child(n, side)].value, n, d[n])' = side
      <3>1. Child(n, side)' = Child(n, side) /\ Child(n, side) # Nil
        BY <1>3, <2>2
      <3>2. /\ Child(n, side) \in InTree /\ d[Child(n, side)] = d[n] + 1
            /\ WayOf(node[Child(n, side)].value)[d[n]] = n
            /\ SideOf(node[Child(n, side)].value, n, d[n]) = side
        BY <1>1, <3>1 DEF Depths
      <3>3. node'[Child(n, side)] = node[Child(n, side)]
        BY <3>2
      <3> QED
        BY <1>2, <1>4, <3>1, <3>2, <3>3
    <2> QED
      BY <1>1, <2>1, <2>2 DEF Depths
  <1> QED
    BY <1>1, <1>5 DEF Shaped

LEMMA BlankIs == Blank \in Memory
  BY KDTreeAssumption DEF Blank, Memory, NodesNil

LEMMA TreeStarts == ASSUME TreeInit PROVE TreeInv
  <1>1. TreeTyped
    BY BlankIs, NodesAre DEF TreeInit, TreeTyped, NodesNil
  <1>2. Len(ref) = 0 /\ InTree = {}
    BY DEF TreeInit, InTree
  <1>3. Kept
    BY <1>2 DEF TreeInit, Kept
  <1>4. Shaped
    <2>1. [n \in InTree |-> 0] \in [InTree -> 0 .. MaxNodes]
      BY <1>2
    <2>2. Depths([n \in InTree |-> 0])
      BY <1>2 DEF Depths, TreeInit
    <2> QED
      BY <2>1, <2>2 DEF Shaped
  <1>5. \A k \in 0 .. MaxNodes : FreeChain[k] = Nil
    BY <1>1, RulesHold, NoChain DEF TreeInit, ChainNone
  <1>6. Spare
    BY <1>2, <1>5, NodesAre DEF Spare, Listed, TreeInit
  <1> QED
    BY <1>1, <1>3, <1>4, <1>6 DEF TreeInv

LEMMA FreeKeeps == ASSUME TreeInv, FreeNodes PROVE TreeInv'
  <1>1. TreeTyped /\ Kept /\ Shaped /\ Spare /\ MaxNodes \in Nat
    BY NodesAre DEF TreeInv
  <1>2. freeSize' = 0
    BY <1>1, SpareCount DEF FreeNodes, TreeTyped
  <1>3. TreeTyped'
    <2>1. node' \in [Nodes -> Memory]
      BY <1>1, BlankIs DEF FreeNodes, TreeTyped
    <2> QED
      BY <1>1, <1>2, <2>1 DEF FreeNodes, TreeTyped, NodesNil
  <1>4. InTree' = InTree /\ ref' = ref /\ rootNode' = rootNode /\ treeSize' = treeSize
    BY DEF FreeNodes, InTree
  <1>5. \A n \in InTree : node'[n] = node[n]
    BY <1>1, InTreeTyped DEF FreeNodes, Spare
  <1>6. Kept'
    <2>1. \A i \in 1 .. Len(ref) : ref[i].at \in InTree
      BY DEF InTree
    <2> QED
      BY <1>1, <1>4, <1>5, <2>1 DEF Kept
  <1>7. Shaped'
    BY <1>1, <1>3, <1>4, <1>5, ShapeStays
  <1>8. Spare'
    <2>1. \A k \in 0 .. MaxNodes : FreeChain'[k] = Nil
      BY <1>3, NoChainNext DEF FreeNodes, ChainNone
    <2>2. Listed' = {}
      BY <2>1 DEF Listed
    <2>3. allocated' = InTree'
      BY <1>1, <1>4 DEF FreeNodes, Spare
    <2> QED
      BY <1>2, <2>1, <2>2, <2>3 DEF Spare
  <1> QED
    BY <1>3, <1>6, <1>7, <1>8 DEF TreeInv

(* What Clear leaves in the nodes of the tree, in the order it frees them. *)
LEMMA ClearLinks ==
    ASSUME TreeInv, Clear
    PROVE  /\ Lists(WalkDelete, InTree) /\ Len(WalkDelete) = Len(ref)
           /\ freeNode' = (IF Len(WalkDelete) = 0 THEN freeNode ELSE WalkDelete[Len(WalkDelete)])
           /\ \A n \in Nodes \ InTree : node'[n] = node[n]
           /\ \A i \in 1 .. Len(WalkDelete) :
                 node'[WalkDelete[i]].left = (IF i = 1 THEN freeNode ELSE WalkDelete[i - 1])
           /\ node' \in [Nodes -> Memory]
  <1>1. TreeTyped /\ Kept /\ Shaped /\ Spare
    BY DEF TreeInv
  <1>2. PICK g : g = WalkDelete
    OBVIOUS
  <1>3. Lists(g, InTree) /\ Len(g) = Len(ref) /\ Len(g) \in Nat /\ DOMAIN g = 1 .. Len(g)
    <2>1. Lists(g, InTree)
      BY <1>1, <1>2, WalkLists
    <2>2. Cardinality(InTree) = Len(g) /\ Cardinality(InTree) = Len(ref)
      BY <1>1, <2>1, ListsLen, TreeCount
    <2>3. Len(g) \in Nat /\ DOMAIN g = 1 .. Len(g)
      <3>1. g \in Seq(InTree)
        BY <2>1 DEF Lists
      <3> QED
        BY ONLY <3>1
    <2> QED
      BY <2>1, <2>2, <2>3
  <1> DEFINE next(i) == IF i = 1 THEN freeNode ELSE g[i - 1]
             which(n) == CHOOSE i \in DOMAIN g : g[i] = n
  <1>4. node' = [n \in Nodes |->
                     IF \E i \in DOMAIN g : g[i] = n
                     THEN [node[n] EXCEPT !.left = next(which(n))]
                     ELSE node[n]]
    BY <1>2 DEF Clear
  <1>5. freeNode' = IF g = <<>> THEN freeNode ELSE g[Len(g)]
    BY <1>2 DEF Clear
  <1>6. g = <<>> <=> Len(g) = 0
    BY <1>3 DEF Lists
  <1>7. /\ \A i \in 1 .. Len(g) : g[i] \in InTree /\ g[i] \in Nodes
        /\ \A i \in 1 .. Len(g) : which(g[i]) = i
        /\ \A n \in InTree : \E i \in 1 .. Len(g) : g[i] = n
    <2>1. \A i \in 1 .. Len(g) : g[i] \in InTree /\ g[i] \in Nodes
      BY <1>1, <1>3, InTreeTyped DEF Lists
    <2>2. ASSUME NEW i \in 1 .. Len(g) PROVE which(g[i]) = i
      <3>1. which(g[i]) \in 1 .. Len(g) /\ g[which(g[i])] = g[i]
        BY <1>3
      <3> HIDE DEF which
      <3> QED
        BY <1>3, <3>1 DEF Lists
    <2>3. \A n \in InTree : \E i \in 1 .. Len(g) : g[i] = n
      BY <1>3 DEF Lists
    <2> HIDE DEF which
    <2> QED
      BY <2>1, <2>2, <2>3
  <1> HIDE DEF which
  <1>8. ASSUME NEW i \in 1 .. Len(g) PROVE next(i) \in NodesNil
    <2>1. i # 1 => i - 1 \in 1 .. Len(g)
      BY <1>3
    <2> QED
      BY <1>1, <1>7, <2>1 DEF TreeTyped, NodesNil
  <1> HIDE DEF next
  <1>9. ASSUME NEW i \in 1 .. Len(g)
        PROVE  node'[g[i]] \in Memory /\ node'[g[i]].left = next(i)
    <2>1. node'[g[i]] = [node[g[i]] EXCEPT !.left = next(i)]
      BY <1>3, <1>4, <1>7
    <2>2. node[g[i]] \in Memory
      BY <1>1, <1>7 DEF TreeTyped
    <2>3. PICK m, x : m = node[g[i]] /\ x = next(i)
      OBVIOUS
    <2>4. m \in Memory /\ x \in NodesNil
      BY <1>8, <2>2, <2>3
    <2>5. [m EXCEPT !.left = x] \in Memory /\ [m EXCEPT !.left = x].left = x
      BY ONLY <2>4 DEF Memory
    <2> QED
      BY <2>1, <2>3, <2>5
  <1>10. ASSUME NEW n \in Nodes \ InTree PROVE node'[n] = node[n]
    BY <1>3, <1>4, <1>7
  <1>11. node' \in [Nodes -> Memory]
    <2>1. ASSUME NEW n \in Nodes PROVE node'[n] \in Memory
      <3>1. CASE n \in InTree
        BY <1>7, <1>9, <3>1
      <3>2. CASE n \notin InTree
        BY <1>1, <1>10, <3>2 DEF TreeTyped
      <3> QED
        BY <3>1, <3>2
    <2> QED
      BY <1>4, <2>1
  <1> QED
    BY <1>2, <1>3, <1>5, <1>6, <1>9, <1>10, <1>11 DEF next

(* The nodes freed come first in the free list, the last one at its head.  *)
LEMMA ClearChain ==
    ASSUME TreeInv, Clear, TreeTyped', NEW k \in 0 .. MaxNodes
    PROVE  FreeChain'[k] =
              IF k < Len(ref) THEN WalkDelete[Len(ref) - k] ELSE FreeChain[k - Len(ref)]
  <1>1. TreeTyped /\ Kept /\ Shaped /\ Spare /\ MaxNodes \in Nat
    BY NodesAre DEF TreeInv
  <1>2. PICK g : g = WalkDelete
    OBVIOUS
  <1>3. PICK f : f = FreeChain'
    OBVIOUS
  <1>4. PICK L : L = Len(ref)
    OBVIOUS
  <1>5. /\ Lists(g, InTree) /\ Len(g) = L /\ L \in Nat
        /\ freeNode' = (IF L = 0 THEN freeNode ELSE g[L])
        /\ \A n \in Nodes \ InTree : node'[n] = node[n]
        /\ \A i \in 1 .. L : node'[g[i]].left = (IF i = 1 THEN freeNode ELSE g[i - 1])
    BY <1>1, <1>2, <1>4, ClearLinks DEF TreeTyped
  <1>6. \A i \in 1 .. L : g[i] \in InTree /\ g[i] # Nil
    BY <1>1, <1>5, InTreeTyped DEF Lists
  <1>7. /\ f[0] = freeNode'
        /\ \A j \in 1 .. MaxNodes : f[j] = IF f[j - 1] = Nil THEN Nil ELSE node'[f[j - 1]].left
    BY <1>3, RulesNext DEF ChainRule
  <1>8. /\ FreeChain[0] = freeNode
        /\ \A j \in 1 .. MaxNodes :
              FreeChain[j] = IF FreeChain[j - 1] = Nil THEN Nil ELSE node[FreeChain[j - 1]].left
        /\ \A j \in 0 .. MaxNodes : FreeChain[j] # Nil => FreeChain[j] \in Nodes \ InTree
    <2>1. \A j \in 0 .. MaxNodes : FreeChain[j] \in NodesNil
      BY <1>1, ChainIs
    <2>2. \A j \in 0 .. MaxNodes : FreeChain[j] # Nil => FreeChain[j] \in Listed
      BY DEF Listed
    <2> QED
      BY <1>1, <2>1, <2>2, ChainIs DEF Spare, NodesNil
  <1> DEFINE c(j) == IF j < L THEN g[L - j] ELSE FreeChain[j - L]
             T == {j \in Nat : j <= MaxNodes => f[j] = c(j)}
  <1>9. 0 \in T
    BY <1>5, <1>7, <1>8
  <1>10. ASSUME NEW j \in Nat, j \in T PROVE j + 1 \in T
    <2> SUFFICES ASSUME j + 1 <= MaxNodes PROVE f[j + 1] = c(j + 1)
      OBVIOUS
    <2>1. j + 1 \in 1 .. MaxNodes /\ (j + 1) - 1 = j /\ f[j] = c(j)
      BY <1>1, <1>10
    <2>2. f[j + 1] = IF f[j] = Nil THEN Nil ELSE node'[f[j]].left
      BY <1>7, <2>1
    <2>3. CASE j < L
      <3>1. L - j \in 1 .. L /\ f[j] = g[L - j] /\ (L - j) - 1 = L - (j + 1)
        BY <1>5, <2>1, <2>3
      <3>2. f[j + 1] = IF L - j = 1 THEN freeNode ELSE g[L - (j + 1)]
        BY <1>5, <1>6, <2>2, <3>1
      <3>3. CASE L - j = 1
        <4>1. ~(j + 1 < L) /\ (j + 1) - L = 0
          BY <1>5, <3>3
        <4> QED
          BY <1>8, <3>2, <3>3, <4>1
      <3>4. CASE L - j # 1
        <4>1. j + 1 < L
          BY <1>5, <2>3, <3>4
        <4> QED
          BY <3>2, <3>4, <4>1
      <3> QED
        BY <3>3, <3>4
    <2>4. CASE ~(j < L)
      <3>1. /\ j - L \in 0 .. MaxNodes /\ f[j] = FreeChain[j - L] /\ ~(j + 1 < L)
            /\ (j + 1) - L \in 1 .. MaxNodes /\ ((j + 1) - L) - 1 = j - L
        BY <1>1, <1>5, <2>1, <2>4
      <3>2. FreeChain[(j + 1) - L] = IF FreeChain[j - L] = Nil THEN Nil ELSE node[FreeChain[j - L]].left
        BY <1>8, <3>1
      <3>3. FreeChain[j - L] # Nil => node'[FreeChain[j - L]] = node[FreeChain[j - L]]
        BY <1>5, <1>8, <3>1
      <3> QED
        BY <2>2, <3>1, <3>2, <3>3
    <2> QED
      BY <2>3, <2>4
  <1>11. \A j \in Nat : j \in T
    <2> HIDE DEF T
    <2> QED
      BY <1>9, <1>10, Inductive
  <1> QED
    BY <1>1, <1>2, <1>3, <1>4, <1>11

LEMMA ClearKeeps == ASSUME TreeInv, Clear PROVE TreeInv'
  <1>1. TreeTyped /\ Kept /\ Shaped /\ Spare /\ MaxNodes \in Nat
    BY NodesAre DEF TreeInv
  <1>2. PICK g : g = WalkDelete
    OBVIOUS
  <1>3. PICK L : L = Len(ref)
    OBVIOUS
  <1>4. Lists(g, InTree) /\ Len(g) = L /\ L \in Nat /\ \A i \in 1 .. L : g[i] \in InTree /\ g[i] \in Nodes
    BY <1>1, <1>2, <1>3, ClearLinks, InTreeTyped DEF TreeTyped, Lists
  <1>5. freeSize \in Nat /\ freeSize' = freeSize + L /\ freeSize + L \in 0 .. MaxNodes
    BY <1>1, <1>2, <1>3, <1>4, NodesCount DEF Clear, TreeTyped
  <1>6. TreeTyped'
    <2>1. node' \in [Nodes -> Memory]
      BY ClearLinks
    <2>2. freeNode' \in NodesNil
      BY <1>1, <1>2, <1>3, <1>4, ClearLinks DEF TreeTyped, NodesNil
    <2>3. treeSize' = 0 /\ rootNode' = Nil /\ ref' = <<>> /\ allocated' = allocated
      BY DEF Clear
    <2> QED
      BY <1>1, <1>5, <2>1, <2>2, <2>3 DEF TreeTyped, NodesNil
  <1>7. InTree' = {} /\ Len(ref') = 0 /\ ref' = <<>> /\ rootNode' = Nil /\ treeSize' = 0 /\ allocated' = allocated
    BY DEF Clear, InTree
  <1>8. Kept'
    BY <1>7 DEF Kept
  <1>9. Shaped'
    <2> DEFINE d == [n \in {} |-> 0]
    <2>1. d \in [InTree' -> 0 .. MaxNodes]
      BY <1>7
    <2> HIDE DEF d
    <2>2. Depths(d)'
      BY <1>7 DEF Depths
    <2> QED
      BY <2>1, <2>2 DEF Shaped
  <1>10. PICK f : f = FreeChain'
    OBVIOUS
  <1>11. \A k \in 0 .. MaxNodes : f[k] = IF k < L THEN g[L - k] ELSE FreeChain[k - L]
    BY <1>2, <1>3, <1>6, <1>10, ClearChain
  <1>12. \A k \in 0 .. MaxNodes : /\ k < L => L - k \in 1 .. L
                                  /\ ~(k < L) => k - L \in 0 .. MaxNodes
    BY <1>1, <1>4
  <1>13. /\ \A k \in 0 .. MaxNodes : FreeChain[k] # Nil <=> k < freeSize
         /\ \A j, k \in 0 .. MaxNodes : FreeChain[j] # Nil /\ FreeChain[j] = FreeChain[k] => j = k
         /\ Listed \intersect InTree = {} /\ Listed \union InTree = allocated
         /\ \A k \in 0 .. MaxNodes : FreeChain[k] # Nil => FreeChain[k] \in Listed
    BY <1>1 DEF Spare, Listed
  <1>14. \A i \in 1 .. L : g[i] # Nil /\ g[i] \notin Listed
    BY <1>4, <1>13, NodesAre
  <1>15. ASSUME NEW k \in 0 .. MaxNodes PROVE f[k] # Nil <=> k < freeSize + L
    <2>1. CASE k < L
      BY <1>4, <1>5, <1>11, <1>12, <1>14, <2>1
    <2>2. CASE ~(k < L)
      <3>1. f[k] = FreeChain[k - L] /\ k - L \in 0 .. MaxNodes
        BY <1>11, <1>12, <2>2
      <3>2. k - L < freeSize <=> k < freeSize + L
        BY <1>4, <1>5
      <3> QED
        BY <1>13, <3>1, <3>2
    <2> QED
      BY <2>1, <2>2
  <1>16. ASSUME NEW j \in 0 .. MaxNodes, NEW k \in 0 .. MaxNodes, f[j] # Nil, f[j] = f[k] PROVE j = k
    <2>1. CASE j < L /\ k < L
      <3>1. L - j \in 1 .. L /\ L - k \in 1 .. L /\ g[L - j] = g[L - k]
        BY <1>11, <1>12, <1>16, <2>1
      <3>2. L - j = L - k
        BY <1>4, <3>1 DEF Lists
      <3> QED
        BY <1>4, <3>2
    <2>2. CASE j < L /\ ~(k < L)
      BY <1>11, <1>12, <1>13, <1>14, <1>16, <2>2
    <2>3. CASE ~(j < L) /\ k < L
      BY <1>11, <1>12, <1>13, <1>14, <1>16, <2>3
    <2>4. CASE ~(j < L) /\ ~(k < L)
      <3>1. j - L \in 0 .. MaxNodes /\ k - L \in 0 .. MaxNodes /\ FreeChain[j - L] # Nil /\ FreeChain[j - L] = FreeChain[k - L]
        BY <1>11, <1>12, <1>16, <2>4
      <3>2. j - L = k - L
        BY <1>13, <3>1
      <3> QED
        BY <1>4, <3>2
    <2> QED
      BY <2>1, <2>2, <2>3, <2>4
  <1>17. Listed' = {f[k] : k \in 0 .. MaxNodes} \ {Nil}
    BY <1>10 DEF Listed
  <1>18. ASSUME NEW x \in allocated PROVE x \in Listed'
    <2>1. CASE x \in InTree
      <3>1. PICK i \in 1 .. L : g[i] = x
        BY <1>4, <2>1 DEF Lists
      <3>2. L - i \in 0 .. MaxNodes /\ L - i < L /\ L - (L - i) = i
        BY <1>4, <1>5, <1>1
      <3>3. f[L - i] = x /\ x # Nil
        BY <1>11, <1>14, <3>1, <3>2
      <3> QED
        BY <1>17, <3>2, <3>3
    <2>2. CASE x \in Listed
      <3>1. PICK k \in 0 .. MaxNodes : FreeChain[k] = x /\ x # Nil
        BY <2>2 DEF Listed
      <3>2. k < freeSize
        BY <1>13, <3>1
      <3>3. L + k \in 0 .. MaxNodes /\ ~(L + k < L) /\ (L + k) - L = k
        BY <1>1, <1>4, <1>5, <3>2
      <3>4. f[L + k] = x
        BY <1>11, <3>1, <3>3
      <3> QED
        BY <1>17, <3>1, <3>3, <3>4
    <2> QED
      BY <1>13, <2>1, <2>2
  <1>19. ASSUME NEW x \in Listed' PROVE x \in allocated
    <2>1. PICK k \in 0 .. MaxNodes : f[k] = x /\ x # Nil
      BY <1>17
    <2> QED
      BY <1>4, <1>11, <1>12, <1>13, <2>1
  <1>20. Spare'
    <2>1. Listed' \intersect InTree' = {} /\ Listed' \union InTree' = allocated'
      BY <1>7, <1>18, <1>19
    <2>2. \A k \in 0 .. MaxNodes : FreeChain'[k] # Nil <=> k < freeSize'
      BY <1>5, <1>10, <1>15
    <2>3. \A j, k \in 0 .. MaxNodes : FreeChain'[j] # Nil /\ FreeChain'[j] = FreeChain'[k] => j = k
      BY <1>10, <1>16
    <2> QED
      BY <2>1, <2>2, <2>3 DEF Spare
  <1> QED
    BY <1>6, <1>8, <1>9, <1>20 DEF TreeInv

(* The node that Insert takes is none of the tree.                         *)
LEMMA NewIs ==
    ASSUME TreeInv, freeNode # Nil \/ allocated # Nodes
    PROVE  /\ NewNode \in Nodes /\ NewNode \notin InTree /\ NewNode # Nil
           /\ freeNode # Nil => NewNode = freeNode /\ freeNode = FreeChain[0] /\ NewNode \in Listed /\ freeSize > 0
           /\ freeNode = Nil => NewNode \notin allocated /\ freeSize = 0 /\ Listed = {}
  <1>1. TreeTyped /\ Kept /\ Shaped /\ Spare /\ MaxNodes \in Nat /\ 0 \in 0 .. MaxNodes
    BY NodesAre DEF TreeInv
  <1>2. FreeChain[0] = freeNode /\ freeSize \in Nat
    BY <1>1, ChainIs DEF TreeTyped
  <1>3. CASE freeNode # Nil
    <2>1. NewNode = freeNode /\ freeNode \in Nodes
      BY <1>1, <1>3 DEF NewNode, TreeTyped, NodesNil
    <2>2. freeNode \in Listed
      BY <1>1, <1>2, <1>3 DEF Listed
    <2>3. freeSize > 0
      BY <1>1, <1>2, <1>3 DEF Spare
    <2> QED
      BY <1>1, <1>2, <1>3, <2>1, <2>2, <2>3 DEF Spare
  <1>4. CASE freeNode = Nil
    <2> DEFINE T == Nodes \ allocated
    <2>1. T # {} /\ T \in SUBSET Nat
      <3>1. allocated \subseteq Nodes /\ allocated # Nodes
        BY <1>1, <1>4 DEF TreeTyped
      <3>2. Nodes \in SUBSET Nat
        BY <1>1 DEF Nodes
      <3> QED
        BY <3>1, <3>2
    <2>2. NewNode = CHOOSE n \in T : \A m \in T : n <= m
      BY <1>4 DEF NewNode
    <2>3. NewNode \in T
      <3> HIDE DEF T
      <3>1. \E n \in T : \A m \in T : n <= m
        BY <2>1, Least
      <3> QED
        BY <2>2, <3>1
    <2>4. ChainNone
      BY <1>1, <1>4, RulesHold, NoChain
    <2>5. Listed = {} /\ ~(0 < freeSize)
      BY <1>1, <2>4 DEF ChainNone, Listed, Spare
    <2> QED
      BY <1>1, <1>2, <1>4, <2>3, <2>5, NodesAre DEF Spare
  <1> QED
    BY <1>3, <1>4

(* What Insert does to the nodes of the tree: the last one on the way of   *)
(* the point becomes the parent of the new one.                            *)
Adopts(p, n, t) ==
    \A m \in InTree :
        node'[m] =
            IF t # 0 /\ m = WayOf(p)[t - 1]
            THEN WithChild(m, SideOf(p, m, t - 1), n)
            ELSE node[m]

(* Where Insert leaves the tree.                                           *)
LEMMA InsertPlace ==
    ASSUME TreeTyped, Kept, NEW p,
           NEW d \in [InTree -> 0 .. MaxNodes], Depths(d), NEW t, t = DepthOf(p)
    PROVE  /\ t \in 0 .. MaxNodes /\ (t = 0 <=> rootNode = Nil)
           /\ \A m : t # 0 /\ m = WayOf(p)[t - 1] =>
                  m \in InTree /\ d[m] = t - 1 /\ Child(m, SideOf(p, m, t - 1)) = Nil
  <1>1. Shaped /\ MaxNodes \in Nat
    BY NodesAre DEF Shaped
  <1>2. t \in 0 .. MaxNodes /\ WayOf(p)[t] = Nil /\ \A j \in 0 .. t - 1 : WayOf(p)[j] # Nil
    BY <1>1, DepthIs
  <1>3. t = 0 <=> rootNode = Nil
    <2>1. WayOf(p)[0] = rootNode
      BY <1>1, WayIs
    <2>2. t # 0 => 0 \in 0 .. t - 1
      BY <1>1, <1>2
    <2> QED
      BY <1>2, <2>1, <2>2
  <1>4. ASSUME t # 0, NEW m, m = WayOf(p)[t - 1]
        PROVE  m \in InTree /\ d[m] = t - 1 /\ Child(m, SideOf(p, m, t - 1)) = Nil
    <2>1. t - 1 \in 0 .. MaxNodes /\ t - 1 \in 0 .. t - 1 /\ t \in 1 .. MaxNodes
      BY <1>1, <1>2, <1>4
    <2>2. m # Nil
      BY <1>2, <1>4, <2>1
    <2>3. WayOf(p)[t] = Below(p, m, t)
      BY <1>1, <1>4, <2>1, WayIs
    <2> QED
      BY <1>1, <1>2, <1>4, <2>1, <2>2, <2>3, WayDeep DEF Below
  <1> QED
    BY <1>2, <1>3, <1>4

(* What Insert writes.                                                     *)
LEMMA InsertLinks ==
    ASSUME TreeInv, NEW p \in Points, Insert(p), NEW n, n = NewNode, NEW t, t = DepthOf(p)
    PROVE  /\ node'[n] = [value |-> p, left |-> Nil, right |-> Nil]
           /\ \A m \in Nodes \ (InTree \union {n}) : node'[m] = node[m]
           /\ Adopts(p, n, t)
  <1>1. TreeTyped /\ Kept /\ Shaped /\ Spare /\ MaxNodes \in Nat
    BY NodesAre DEF TreeInv
  <1>2. freeNode # Nil \/ allocated # Nodes
    BY DEF Insert
  <1>3. n \in Nodes /\ n \notin InTree /\ Nil \notin Nodes /\ InTree \in SUBSET Nodes
    BY <1>1, <1>2, NewIs, NodesAre, InTreeTyped
  <1>4. PICK d \in [InTree -> 0 .. MaxNodes] : Depths(d)
    BY <1>1 DEF Shaped
  <1> DEFINE par == IF t = 0 THEN Nil ELSE WayOf(p)[t - 1]
  <1>5. t # 0 => par \in InTree
    BY <1>1, <1>4, InsertPlace
  <1>6. node' = [m \in Nodes |->
                     CASE m = n -> [value |-> p, left |-> Nil, right |-> Nil]
                       [] m = par -> WithChild(m, SideOf(p, m, t - 1), n)
                       [] OTHER -> node[m]]
    BY DEF Insert
  <1>7. \A m \in Nodes \ {n} : node'[m] = IF m = par THEN WithChild(m, SideOf(p, m, t - 1), n) ELSE node[m]
    <2> HIDE DEF par
    <2> QED
      BY <1>6
  <1>8. node'[n] = [value |-> p, left |-> Nil, right |-> Nil]
    <2>1. n # par
      BY <1>3, <1>5
    <2> HIDE DEF par
    <2> QED
      BY <1>3, <1>6, <2>1
  <1>9. \A m \in Nodes \ (InTree \union {n}) : m # par
    BY <1>3, <1>5
  <1>10. \A m \in InTree : m \in Nodes \ {n} /\ (m = par <=> t # 0 /\ m = WayOf(p)[t - 1])
    BY <1>3
  <1>11. \A m \in InTree :
            node'[m] = IF t # 0 /\ m = WayOf(p)[t - 1] THEN WithChild(m, SideOf(p, m, t - 1), n) ELSE node[m]
    <2> HIDE DEF par
    <2> QED
      BY <1>7, <1>10
  <1>12. \A m \in Nodes \ (InTree \union {n}) : node'[m] = node[m]
    <2> HIDE DEF par
    <2> QED
      BY <1>7, <1>9
  <1> QED
    BY <1>8, <1>11, <1>12 DEF Adopts

LEMMA WithChildIs ==
    ASSUME TreeTyped, NEW m \in Nodes, NEW n \in Nodes, NEW side \in {"left", "right"}
    PROVE  /\ WithChild(m, side, n) \in Memory /\ WithChild(m, side, n).value = node[m].value
           /\ WithChild(m, side, n).left = (IF side = "left" THEN n ELSE node[m].left)
           /\ WithChild(m, side, n).right = (IF side = "left" THEN node[m].right ELSE n)
  <1>1. PICK x : x = node[m]
    OBVIOUS
  <1>2. x \in [value : Points, left : NodesNil, right : NodesNil] /\ n \in NodesNil
    BY <1>1 DEF TreeTyped, Memory, NodesNil
  <1>3. x = [value |-> x.value, left |-> x.left, right |-> x.right]
    BY <1>2
  <1>4. /\ [x EXCEPT !.left = n] = [value |-> x.value, left |-> n, right |-> x.right]
        /\ [x EXCEPT !.right = n] = [value |-> x.value, left |-> x.left, right |-> n]
    BY ONLY <1>2
  <1>5. WithChild(m, side, n) = IF side = "left" THEN [value |-> x.value, left |-> n, right |-> x.right]
                                              ELSE [value |-> x.value, left |-> x.left, right |-> n]
    BY <1>1, <1>4 DEF WithChild
  <1>6. x.value \in Points /\ x.left \in NodesNil /\ x.right \in NodesNil
    BY <1>2
  <1>7. CASE side = "left"
    BY <1>1, <1>2, <1>5, <1>6, <1>7 DEF Memory
  <1>8. CASE side # "left"
    BY <1>1, <1>2, <1>5, <1>6, <1>8 DEF Memory
  <1> QED
    BY <1>7, <1>8

(* The tree after Insert, node by node.                                    *)
LEMMA InsertTyped ==
    ASSUME TreeInv, NEW p \in Points, Insert(p), NEW n, n = NewNode
    PROVE  /\ TreeTyped' /\ n \in Nodes /\ n \notin InTree
           /\ InTree' = InTree \union {n} /\ ref' = Append(ref, [at |-> n, point |-> p])
           /\ \A m \in InTree : node'[m].value = node[m].value
  <1>1. TreeTyped /\ Kept /\ Shaped /\ Spare /\ MaxNodes \in Nat
    BY NodesAre DEF TreeInv
  <1>2. freeNode # Nil \/ allocated # Nodes
    BY DEF Insert
  <1>3. /\ n \in Nodes /\ n \notin InTree /\ n \in NodesNil /\ InTree \in SUBSET Nodes
        /\ freeNode # Nil => n = freeNode /\ freeSize > 0
    BY <1>1, <1>2, NewIs, InTreeTyped DEF NodesNil
  <1>4. PICK t : t = DepthOf(p)
    OBVIOUS
  <1>5. Adopts(p, n, t)
    BY <1>4, InsertLinks
  <1>6. ASSUME NEW m \in InTree PROVE node'[m] \in Memory /\ node'[m].value = node[m].value
    <2>1. node'[m] = IF t # 0 /\ m = WayOf(p)[t - 1] THEN WithChild(m, SideOf(p, m, t - 1), n) ELSE node[m]
      BY <1>5 DEF Adopts
    <2>2. WithChild(m, SideOf(p, m, t - 1), n) \in Memory /\ WithChild(m, SideOf(p, m, t - 1), n).value = node[m].value
      BY <1>1, <1>3, SidesAre, WithChildIs
    <2>3. node[m] \in Memory
      BY <1>1, <1>3 DEF TreeTyped
    <2> QED
      BY <2>1, <2>2, <2>3
  <1>7. node' \in [Nodes -> Memory]
    <2>1. node'[n] \in Memory
      <3>1. node'[n] = [value |-> p, left |-> Nil, right |-> Nil]
        BY <1>4, InsertLinks, Zenon
      <3> QED
        BY <3>1 DEF Memory, NodesNil
    <2>2. \A m \in Nodes \ (InTree \union {n}) : node'[m] = node[m]
      BY <1>4, InsertLinks, Zenon
    <2>3. \A m \in Nodes : node'[m] \in Memory
      BY <1>1, <1>6, <2>1, <2>2 DEF TreeTyped
    <2>4. \E f : node' = [m \in Nodes |-> f[m]]
      <3>1. node' = [m \in Nodes |-> node'[m]]
        BY DEF Insert
      <3> QED
        BY <3>1
    <2> QED
      BY <2>3, <2>4
  <1>8. ref' = Append(ref, [at |-> n, point |-> p]) /\ [at |-> n, point |-> p] \in Inserted
    BY <1>3 DEF Insert, Inserted
  <1>9. /\ Len(ref') = Len(ref) + 1 /\ Len(ref) \in Nat /\ ref' \in Seq(Inserted)
        /\ \A i \in 1 .. Len(ref) : ref'[i] = ref[i]
        /\ ref'[Len(ref) + 1] = [at |-> n, point |-> p]
    BY <1>1, <1>8 DEF TreeTyped
  <1>10. InTree' = InTree \union {n}
    <2>1. \A i \in 1 .. Len(ref') : i \in 1 .. Len(ref) \/ i = Len(ref) + 1
      BY <1>9
    <2>2. \A i \in 1 .. Len(ref) : i \in 1 .. Len(ref')
      BY <1>9
    <2>3. Len(ref) + 1 \in 1 .. Len(ref') /\ ref'[Len(ref) + 1].at = n
      BY <1>9
    <2>4. InTree' = {ref'[i].at : i \in 1 .. Len(ref')}
      BY DEF InTree
    <2>5. \A x \in InTree' : x \in InTree \union {n}
      <3> TAKE x \in InTree'
      <3>1. PICK i \in 1 .. Len(ref') : ref'[i].at = x
        BY <2>4
      <3> QED
        BY <1>9, <2>1, <2>3, <3>1 DEF InTree
    <2>6. \A x \in InTree : x \in InTree'
      <3> TAKE x \in InTree
      <3>1. PICK i \in 1 .. Len(ref) : ref[i].at = x
        BY DEF InTree
      <3> QED
        BY <1>9, <2>2, <2>4, <3>1
    <2>7. n \in InTree'
      BY <2>3, <2>4
    <2> QED
      BY <2>5, <2>6, <2>7
  <1>11. treeSize' = treeSize + 1 /\ treeSize + 1 \in 0 .. MaxNodes
    <2>1. Cardinality(InTree \union {n}) = Len(ref) + 1
      BY <1>1, <1>3, TreeCount, FS_AddElement
    <2>2. IsFiniteSet(Nodes) /\ Cardinality(Nodes) = MaxNodes
      BY <1>1, FS_Interval DEF Nodes
    <2>3. Len(ref) + 1 <= MaxNodes
      BY <1>3, <2>1, <2>2, FS_Subset
    <2> QED
      BY <1>1, <1>9, <2>3 DEF Kept, Insert
  <1>12. freeSize' \in 0 .. MaxNodes
    BY <1>1, <1>3 DEF Insert, TreeTyped
  <1>13. freeNode' \in NodesNil
    BY <1>1, <1>3, MemoryIs DEF Insert, NodesNil
  <1>14. rootNode' \in NodesNil /\ allocated' \subseteq Nodes
    BY <1>1, <1>3 DEF Insert, TreeTyped
  <1> QED
    BY <1>3, <1>6, <1>7, <1>8, <1>9, <1>10, <1>11, <1>12, <1>13, <1>14 DEF TreeTyped, NodesNil

(* The children after Insert: as before, but for the new node at the place *)
(* where the way of its point left the tree.                               *)
NewPlace(p, m, side, t) == t # 0 /\ m = WayOf(p)[t - 1] /\ side = SideOf(p, m, t - 1)

LEMMA InsertChildren ==
    ASSUME TreeInv, NEW p \in Points, Insert(p), NEW n, n = NewNode,
           NEW d \in [InTree -> 0 .. MaxNodes], Depths(d), NEW t, t = DepthOf(p),
           NEW m \in InTree, NEW side \in {"left", "right"}
    PROVE  /\ Child(m, side)' = (IF NewPlace(p, m, side, t) THEN n ELSE Child(m, side))
           /\ NewPlace(p, m, side, t) => Child(m, side) = Nil /\ d[m] = t - 1
           /\ \A q, k : SideOf(q, m, k)' = SideOf(q, m, k)
  <1>1. TreeTyped /\ Kept /\ m \in Nodes /\ n \in Nodes /\ node'[m].value = node[m].value
    BY InTreeTyped, InsertTyped DEF TreeInv
  <1>2. Adopts(p, n, t)
    BY InsertLinks
  <1>3. PICK s : s = SideOf(p, m, t - 1)
    OBVIOUS
  <1>4. s \in {"left", "right"}
    BY <1>3, SidesAre
  <1>5. CASE t # 0 /\ m = WayOf(p)[t - 1]
    <2>1. node'[m] = WithChild(m, s, n)
      BY <1>2, <1>3, <1>5 DEF Adopts
    <2>2. /\ node'[m].left = (IF s = "left" THEN n ELSE node[m].left)
          /\ node'[m].right = (IF s = "left" THEN node[m].right ELSE n)
      BY <1>1, <1>4, <2>1, WithChildIs
    <2>3. Child(m, side)' = IF side = s THEN n ELSE Child(m, side)
      BY <1>4, <2>2 DEF Child
    <2>4. Child(m, s) = Nil /\ d[m] = t - 1
      BY <1>1, <1>3, <1>5, InsertPlace
    <2> QED
      BY <1>1, <1>3, <1>5, <2>3, <2>4 DEF NewPlace, SideOf
  <1>6. CASE ~(t # 0 /\ m = WayOf(p)[t - 1])
    <2>1. node'[m] = node[m]
      BY <1>2, <1>6 DEF Adopts
    <2> QED
      BY <1>6, <2>1 DEF NewPlace, SideOf, Child
  <1> QED
    BY <1>5, <1>6

(* Every way goes on as it did, as far as it went.                         *)
LEMMA WaysGrow ==
    ASSUME TreeInv, NEW p \in Points, Insert(p), NEW q, NEW k \in 0 .. MaxNodes, WayOf(q)[k] # Nil
    PROVE  WayOf(q)'[k] = WayOf(q)[k]
  <1>1. TreeTyped /\ Kept /\ Shaped /\ Spare /\ MaxNodes \in Nat /\ TreeTyped'
    BY NodesAre, InsertTyped DEF TreeInv
  <1>2. PICK d \in [InTree -> 0 .. MaxNodes] : Depths(d)
    BY <1>1 DEF Shaped
  <1>3. PICK n, t : n = NewNode /\ t = DepthOf(p)
    OBVIOUS
  <1>4. PICK v, w : v = WayOf(q)' /\ w = WayOf(q)
    OBVIOUS
  <1>5. /\ v[0] = rootNode' /\ \A j \in 1 .. MaxNodes : \A x : x = v[j - 1] => v[j] = Below(q, x, j)'
        /\ w[0] = rootNode /\ \A j \in 1 .. MaxNodes : w[j] = Below(q, w[j - 1], j)
    <2>1. /\ w[0] = rootNode /\ \A j \in 1 .. MaxNodes : w[j] = Below(q, w[j - 1], j)
      BY <1>1, <1>4, WayIs
    <2>2. v[0] = rootNode'
      BY <1>1, <1>4, RulesNext DEF WayRule
    <2>3. ASSUME NEW j \in 1 .. MaxNodes, NEW x, x = v[j - 1] PROVE v[j] = Below(q, x, j)'
      BY <1>1, <1>4, <2>3, RulesNext DEF WayRule
    <2> QED
      BY <2>1, <2>2, <2>3
  <1>6. \A j \in 0 .. MaxNodes : w[j] # Nil => w[j] \in InTree
    BY <1>1, <1>2, <1>4, WayDeep
  <1> DEFINE T == {j \in Nat : j <= MaxNodes /\ w[j] # Nil => v[j] = w[j]}
  <1>7. 0 \in T
    BY <1>5 DEF Insert
  <1>8. ASSUME NEW j \in Nat, j \in T PROVE j + 1 \in T
    <2> SUFFICES ASSUME j + 1 <= MaxNodes, w[j + 1] # Nil PROVE v[j + 1] = w[j + 1]
      OBVIOUS
    <2>1. j + 1 \in 1 .. MaxNodes /\ (j + 1) - 1 = j /\ j \in 0 .. MaxNodes
      BY <1>1
    <2>2. w[j + 1] = Below(q, w[j], j + 1)
      BY <1>5, <2>1
    <2>3. w[j] # Nil /\ v[j] = w[j] /\ w[j] \in InTree
      BY <1>6, <1>8, <2>1, <2>2 DEF Below
    <2>4. PICK x : x = w[j]
      OBVIOUS
    <2>5. v[j + 1] = Below(q, x, j + 1)' /\ w[j + 1] = Below(q, x, j + 1) /\ x # Nil /\ x \in InTree
      BY <1>5, <2>1, <2>2, <2>3, <2>4
    <2>6. PICK s : s = SideOf(q, x, j)
      OBVIOUS
    <2>7. SideOf(q, x, j)' = s /\ s \in {"left", "right"}
      BY <1>2, <1>3, <2>5, <2>6, SidesAre, InsertChildren
    <2>8. w[j + 1] = Child(x, s) /\ v[j + 1] = Child(x, s)'
      BY <2>1, <2>5, <2>6, <2>7 DEF Below
    <2>9. Child(x, s) # Nil
      BY <2>8
    <2>10. Child(x, s)' = Child(x, s)
      BY <1>2, <1>3, <2>5, <2>7, <2>9, InsertChildren
    <2> QED
      BY <2>8, <2>10
  <1>9. \A j \in Nat : j \in T
    <2> HIDE DEF T
    <2> QED
      BY <1>7, <1>8, Inductive
  <1> QED
    BY <1>1, <1>4, <1>9

(* The way of the point inserted now ends at the new node.                 *)
LEMMA WayToNew ==
    ASSUME TreeInv, NEW p \in Points, Insert(p), NEW n, n = NewNode, NEW t, t = DepthOf(p)
    PROVE  WayOf(p)'[t] = n
  <1>1. TreeTyped /\ Kept /\ Shaped /\ Spare /\ MaxNodes \in Nat /\ TreeTyped' /\ n # Nil
    BY NodesAre, InsertTyped DEF TreeInv
  <1>2. PICK d \in [InTree -> 0 .. MaxNodes] : Depths(d)
    BY <1>1 DEF Shaped
  <1>3. t \in 0 .. MaxNodes /\ (t = 0 <=> rootNode = Nil)
    BY <1>1, <1>2, InsertPlace
  <1>4. CASE t = 0
    BY <1>1, <1>3, <1>4, RulesNext DEF WayRule, Insert
  <1>5. CASE t # 0
    <2>1. t \in 1 .. MaxNodes /\ t - 1 \in 0 .. MaxNodes
      BY <1>1, <1>3, <1>5
    <2>2. PICK x : x = WayOf(p)[t - 1]
      OBVIOUS
    <2>3. x \in InTree /\ x # Nil
      BY <1>1, <1>2, <1>5, <2>2, InsertPlace, InTreeTyped
    <2>4. x = WayOf(p)'[t - 1]
      BY <2>1, <2>2, <2>3, WaysGrow
    <2>5. WayOf(p)'[t] = Below(p, x, t)'
      BY <1>1, <2>1, <2>4, RulesNext DEF WayRule
    <2>6. PICK s : s = SideOf(p, x, t - 1)
      OBVIOUS
    <2>7. SideOf(p, x, t - 1)' = s /\ s \in {"left", "right"}
      BY <1>2, <2>3, <2>6, SidesAre, InsertChildren
    <2>8. WayOf(p)'[t] = Child(x, s)'
      BY <2>3, <2>5, <2>7 DEF Below
    <2>9. NewPlace(p, x, s, t)
      BY <1>5, <2>2, <2>6 DEF NewPlace
    <2>10. Child(x, s)' = n
      BY <1>2, <2>3, <2>7, <2>9, InsertChildren
    <2> QED
      BY <2>8, <2>10
  <1> QED
    BY <1>4, <1>5

(* The new node is one deeper than the node that gets it as its child.     *)
LEMMA InsertShapes == ASSUME TreeInv, NEW p \in Points, Insert(p) PROVE Shaped'
  <1>1. TreeTyped /\ Kept /\ Shaped /\ Spare /\ MaxNodes \in Nat /\ TreeTyped'
    BY NodesAre, InsertTyped DEF TreeInv
  <1>2. PICK d \in [InTree -> 0 .. MaxNodes] : Depths(d)
    BY <1>1 DEF Shaped
  <1>3. PICK n, t : n = NewNode /\ t = DepthOf(p)
    OBVIOUS
  <1>4. /\ n \in Nodes /\ n \notin InTree /\ InTree' = InTree \union {n} /\ n # Nil /\ Nil \notin InTree
        /\ \A m \in InTree : node'[m].value = node[m].value
    BY <1>1, <1>3, InsertTyped, InTreeTyped, NodesAre
  <1>5. t \in 0 .. MaxNodes /\ (t = 0 <=> rootNode = Nil)
    BY <1>1, <1>2, <1>3, InsertPlace
  <1>6. node'[n] = [value |-> p, left |-> Nil, right |-> Nil]
    BY <1>3, InsertLinks
  <1>7. PICK e : e = [m \in InTree \union {n} |-> IF m = n THEN t ELSE d[m]]
    OBVIOUS
  <1>8. e \in [InTree' -> 0 .. MaxNodes] /\ e[n] = t /\ \A m \in InTree : e[m] = d[m]
    BY <1>4, <1>5, <1>7
  <1>9. rootNode' # Nil => e[rootNode'] = 0
    <2>1. rootNode' = IF rootNode = Nil THEN n ELSE rootNode
      BY <1>3 DEF Insert
    <2>2. rootNode # Nil => rootNode \in InTree /\ d[rootNode] = 0
      BY <1>1, <1>2 DEF Kept, Depths
    <2> QED
      BY <1>5, <1>8, <2>1, <2>2
  <1>10. ASSUME NEW m \in InTree, NEW q, q = node[m].value
        PROVE  WayOf(q)'[d[m]] = m
    <2>1. WayOf(q)[d[m]] = m /\ d[m] \in 0 .. MaxNodes
      BY <1>2, <1>10 DEF Depths
    <2>2. WayOf(q)[d[m]] # Nil
      BY <1>4, <2>1
    <2> QED
      BY <2>1, <2>2, WaysGrow
  <1>11. ASSUME NEW m \in InTree' PROVE WayOf(node[m].value)'[e[m]] = m
    <2>1. PICK q : q = node'[m].value
      OBVIOUS
    <2>2. WayOf(q)'[e[m]] = m
      <3>1. CASE m = n
        <4>1. q = p
          BY <1>6, <2>1, <3>1
        <4> QED
          BY <1>3, <1>8, <3>1, <4>1, WayToNew
      <3>2. CASE m # n
        BY <1>4, <1>8, <1>10, <2>1, <3>2
      <3> QED
        BY <3>1, <3>2
    <2> QED
      BY <2>1, <2>2
  <1>12. ASSUME NEW m \in InTree', NEW side \in {"left", "right"}, NEW c, c = Child(m, side)', c # Nil
         PROVE  /\ c \in InTree' /\ e[c] = e[m] + 1
                /\ \A q, k : q = node'[c].value /\ k = e[m] =>
                      WayOf(q)'[k] = m /\ SideOf(q, m, k)' = side
    <2>1. m \in InTree
      <3>1. CASE m = n
        <4>1. Child(m, side)' = Nil
          BY <1>6, <3>1 DEF Child
        <4> QED
          BY <1>12, <4>1
      <3> QED
        BY <1>4, <3>1
    <2>2. /\ c = (IF NewPlace(p, m, side, t) THEN n ELSE Child(m, side))
          /\ NewPlace(p, m, side, t) => Child(m, side) = Nil /\ d[m] = t - 1
      BY <1>2, <1>3, <1>12, <2>1, InsertChildren
    <2>3. \A q, k : SideOf(q, m, k)' = SideOf(q, m, k)
      BY <1>2, <1>3, <2>1, InsertChildren
    <2>4. CASE NewPlace(p, m, side, t)
      <3>1. c = n /\ d[m] = t - 1 /\ t # 0 /\ m = WayOf(p)[t - 1] /\ side = SideOf(p, m, t - 1)
        BY <2>2, <2>4 DEF NewPlace
      <3>2. t - 1 \in 0 .. MaxNodes /\ (t - 1) + 1 = t
        BY <1>1, <1>5, <3>1
      <3>3. WayOf(p)'[t - 1] = m
        BY <1>4, <2>1, <3>1, <3>2, WaysGrow
      <3>4. \A q : q = node'[c].value => q = p
        BY <1>6, <3>1
      <3>5. e[m] = t - 1 /\ e[c] = t /\ c \in InTree'
        BY <1>4, <1>8, <2>1, <3>1
      <3> QED
        BY <2>3, <3>1, <3>2, <3>3, <3>4, <3>5
    <2>5. CASE ~NewPlace(p, m, side, t)
      <3>1. c = Child(m, side)
        BY <2>2, <2>5
      <3>2. PICK q : q = node[c].value
        OBVIOUS
      <3>3. /\ c \in InTree /\ d[c] = d[m] + 1
            /\ WayOf(q)[d[m]] = m /\ SideOf(q, m, d[m]) = side
        BY <1>2, <1>12, <2>1, <3>1, <3>2 DEF Depths
      <3>4. WayOf(q)[d[m]] # Nil /\ d[m] \in 0 .. MaxNodes
        BY <1>2, <1>4, <2>1, <3>3
      <3>5. WayOf(q)'[d[m]] = m
        BY <3>3, <3>4, WaysGrow
      <3>6. \A r : r = node'[c].value => r = q
        BY <1>4, <3>2, <3>3
      <3> QED
        BY <1>4, <1>8, <2>1, <2>3, <3>3, <3>5, <3>6
    <2> QED
      BY <2>4, <2>5
  <1>13. ASSUME NEW m \in InTree', NEW side \in {"left", "right"}, Child(m, side)' # Nil
         PROVE  /\ Child(m, side)' \in InTree' /\ e[Child(m, side)'] = e[m] + 1
                /\ WayOf(node[Child(m, side)].value)'[e[m]] = m
                /\ SideOf(node[Child(m, side)].value, m, e[m])' = side
    <2>1. PICK c : c = Child(m, side)'
      OBVIOUS
    <2>2. PICK q : q = node'[c].value
      OBVIOUS
    <2>3. PICK k : k = e[m]
      OBVIOUS
    <2>4. WayOf(q)'[k] = m /\ SideOf(q, m, k)' = side /\ c \in InTree' /\ e[c] = e[m] + 1
      BY <1>12, <1>13, <2>1, <2>2, <2>3
    <2> QED
      BY <2>1, <2>2, <2>3, <2>4
  <1>14. Depths(e)'
    BY <1>9, <1>11, <1>13 DEF Depths
  <1> QED
    BY <1>8, <1>14 DEF Shaped

LEMMA InsertKept == ASSUME TreeInv, NEW p \in Points, Insert(p) PROVE Kept'
  <1>1. TreeTyped /\ Kept /\ Shaped /\ MaxNodes \in Nat
    BY NodesAre DEF TreeInv
  <1>2. PICK n : n = NewNode
    OBVIOUS
  <1>3. /\ n \in Nodes /\ n \notin InTree /\ InTree' = InTree \union {n} /\ n # Nil
        /\ ref' = Append(ref, [at |-> n, point |-> p])
        /\ \A m \in InTree : node'[m].value = node[m].value
    BY <1>2, InsertTyped, NodesAre
  <1>4. PICK t : t = DepthOf(p)
    OBVIOUS
  <1>5. node'[n].value = p
    <2>1. node'[n] = [value |-> p, left |-> Nil, right |-> Nil]
      BY <1>2, <1>4, InsertLinks
    <2> QED
      BY <2>1
  <1>6. PICK L : L = Len(ref)
    OBVIOUS
  <1>7. /\ Len(ref') = L + 1 /\ L \in Nat
        /\ \A i \in 1 .. L : ref'[i] = ref[i] /\ ref[i].at \in InTree
        /\ ref'[L + 1] = [at |-> n, point |-> p]
    <2>1. \A i \in 1 .. L : ref[i].at \in InTree
      BY <1>6 DEF InTree
    <2> QED
      BY <1>1, <1>3, <1>6, <2>1 DEF TreeTyped
  <1>8. \A i \in 1 .. L + 1 : i \in 1 .. L \/ i = L + 1
    BY <1>7
  <1>9. \A i, j \in 1 .. L + 1 : ref'[i].at = ref'[j].at => i = j
    BY <1>1, <1>3, <1>6, <1>7, <1>8 DEF Kept
  <1>10. \A i \in 1 .. L + 1 : node'[ref'[i].at].value = ref'[i].point
    BY <1>1, <1>3, <1>5, <1>6, <1>7, <1>8 DEF Kept
  <1>11. treeSize' = L + 1
    BY <1>1, <1>6 DEF Insert, Kept
  <1>12. rootNode' # Nil /\ rootNode' \in InTree'
    BY <1>1, <1>2, <1>3 DEF Insert, Kept
  <1>13. ref' # <<>>
    BY <1>7
  <1> QED
    BY <1>7, <1>9, <1>10, <1>11, <1>12, <1>13 DEF Kept

(* Insert takes the first node of the free list.                           *)
LEMMA InsertChain ==
    ASSUME TreeInv, NEW p \in Points, Insert(p), freeNode # Nil, NEW k \in 0 .. MaxNodes
    PROVE  FreeChain'[k] = IF k < MaxNodes THEN FreeChain[k + 1] ELSE Nil
  <1>1. TreeTyped /\ Kept /\ Shaped /\ Spare /\ MaxNodes \in Nat /\ TreeTyped'
    BY NodesAre, InsertTyped DEF TreeInv
  <1>2. PICK n : n = NewNode
    OBVIOUS
  <1>3. n = freeNode /\ freeNode = FreeChain[0] /\ n \in Nodes /\ n \notin InTree
    BY <1>2, NewIs
  <1>4. freeSize \in 0 .. MaxNodes
    BY <1>1 DEF TreeTyped
  <1>5. freeNode' = node[n].left
    BY <1>2 DEF Insert
  <1>6. ASSUME NEW j \in 1 .. MaxNodes, FreeChain[j] # Nil PROVE node'[FreeChain[j]] = node[FreeChain[j]]
    <2>1. j \in 0 .. MaxNodes /\ 0 \in 0 .. MaxNodes /\ j # 0
      BY <1>1
    <2>2. FreeChain[j] \in Listed
      BY <1>6, <2>1 DEF Listed
    <2>3. FreeChain[j] # n
      BY <1>1, <1>3, <1>6, <2>1 DEF Spare
    <2>4. FreeChain[j] \in Nodes
      BY <1>1, <1>6, <2>1, ChainIs DEF NodesNil
    <2>5. FreeChain[j] \in Nodes \ (InTree \union {n})
      BY <1>1, <2>2, <2>3, <2>4 DEF Spare
    <2> QED
      BY <1>2, <2>5, InsertLinks
  <1>7. FreeChain[MaxNodes] = Nil
    BY <1>1, <1>4 DEF Spare
  <1>8. PICK f : f = FreeChain'
    OBVIOUS
  <1>9. /\ f[0] = freeNode'
        /\ \A j \in 1 .. MaxNodes : f[j] = IF f[j - 1] = Nil THEN Nil ELSE node'[f[j - 1]].left
    BY <1>1, <1>8, RulesNext DEF ChainRule
  <1>10. \A j \in 1 .. MaxNodes :
            FreeChain[j] = IF FreeChain[j - 1] = Nil THEN Nil ELSE node[FreeChain[j - 1]].left
    BY <1>1, ChainIs
  <1>11. MaxNodes # 0 /\ 1 \in 1 .. MaxNodes /\ 1 - 1 = 0 /\ 0 + 1 = 1
    BY <1>1, <1>3, <1>7
  <1> DEFINE T == {j \in Nat : j <= MaxNodes => f[j] = IF j < MaxNodes THEN FreeChain[j + 1] ELSE Nil}
  <1>12. 0 \in T
    <2>1. FreeChain[1] = node[n].left
      BY <1>3, <1>10, <1>11
    <2> QED
      BY <1>1, <1>5, <1>9, <1>11, <2>1
  <1>13. ASSUME NEW j \in Nat, j \in T PROVE j + 1 \in T
    <2> SUFFICES ASSUME j + 1 <= MaxNodes
                 PROVE  f[j + 1] = IF j + 1 < MaxNodes THEN FreeChain[(j + 1) + 1] ELSE Nil
      OBVIOUS
    <2>1. j + 1 \in 1 .. MaxNodes /\ (j + 1) - 1 = j /\ f[j] = FreeChain[j + 1]
      BY <1>1, <1>13
    <2>2. f[j + 1] = IF FreeChain[j + 1] = Nil THEN Nil ELSE node[FreeChain[j + 1]].left
      BY <1>6, <1>9, <2>1
    <2>3. CASE j + 1 < MaxNodes
      <3>1. (j + 1) + 1 \in 1 .. MaxNodes /\ ((j + 1) + 1) - 1 = j + 1
        BY <1>1, <2>3
      <3> QED
        BY <1>10, <2>2, <2>3, <3>1
    <2>4. CASE ~(j + 1 < MaxNodes)
      <3>1. j + 1 = MaxNodes
        BY <1>1, <2>1, <2>4
      <3> QED
        BY <1>7, <2>2, <2>4, <3>1
    <2> QED
      BY <2>3, <2>4
  <1>14. \A j \in Nat : j \in T
    <2> HIDE DEF T
    <2> QED
      BY <1>12, <1>13, Inductive
  <1> QED
    BY <1>1, <1>8, <1>14

LEMMA InsertSpares == ASSUME TreeInv, NEW p \in Points, Insert(p) PROVE Spare'
  <1>1. TreeTyped /\ Kept /\ Shaped /\ Spare /\ MaxNodes \in Nat /\ 0 \in 0 .. MaxNodes
    BY NodesAre DEF TreeInv
  <1>2. PICK n : n = NewNode
    OBVIOUS
  <1>3. TreeTyped'
    BY <1>2, InsertTyped
  <1>4. n \in Nodes /\ n \notin InTree /\ InTree' = InTree \union {n} /\ allocated' = allocated \union {n}
    BY <1>2, InsertTyped DEF Insert
  <1>5. freeSize \in 0 .. MaxNodes
    BY <1>1 DEF TreeTyped
  <1>6. PICK f : f = FreeChain'
    OBVIOUS
  <1>7. Listed' = {f[k] : k \in 0 .. MaxNodes} \ {Nil}
    BY <1>6 DEF Listed
  <1>8. CASE freeNode = Nil
    <2>1. freeNode' = Nil /\ freeSize' = freeSize
      BY <1>8 DEF Insert
    <2>2. \A k \in 0 .. MaxNodes : f[k] = Nil
      BY <1>6, <1>3, <2>1, NoChainNext DEF ChainNone
    <2>3. freeSize = 0 /\ Listed = {}
      BY <1>8, NewIs DEF Insert
    <2>4. Listed' = {}
      BY <1>7, <2>2
    <2>5. allocated' = InTree'
      BY <1>1, <1>4, <2>3 DEF Spare
    <2> QED
      BY <1>6, <2>1, <2>2, <2>3, <2>4, <2>5 DEF Spare
  <1>9. CASE freeNode # Nil
    <2>1. n = freeNode /\ freeNode = FreeChain[0] /\ n \in Listed /\ freeSize > 0 /\ freeSize' = freeSize - 1
      BY <1>2, <1>9, NewIs DEF Insert
    <2>2. \A k \in 0 .. MaxNodes : f[k] = IF k < MaxNodes THEN FreeChain[k + 1] ELSE Nil
      BY <1>6, <1>9, InsertChain
    <2>3. /\ \A k \in 0 .. MaxNodes : FreeChain[k] # Nil <=> k < freeSize
          /\ \A j, k \in 0 .. MaxNodes : FreeChain[j] # Nil /\ FreeChain[j] = FreeChain[k] => j = k
          /\ Listed \intersect InTree = {} /\ Listed \union InTree = allocated
      BY <1>1 DEF Spare
    <2>4. \A k \in 0 .. MaxNodes : k < MaxNodes => k + 1 \in 0 .. MaxNodes /\ k + 1 # 0
      BY <1>1
    <2>5. ASSUME NEW k \in 0 .. MaxNodes PROVE f[k] # Nil <=> k < freeSize - 1
      <3>1. CASE k < MaxNodes
        <4>1. f[k] = FreeChain[k + 1] /\ (FreeChain[k + 1] # Nil <=> k + 1 < freeSize)
          BY <2>2, <2>3, <2>4, <3>1
        <4> QED
          BY <1>5, <4>1
      <3>2. CASE ~(k < MaxNodes)
        BY <1>1, <1>5, <2>2, <3>2
      <3> QED
        BY <3>1, <3>2
    <2>6. ASSUME NEW j \in 0 .. MaxNodes, NEW k \in 0 .. MaxNodes, f[j] # Nil, f[j] = f[k] PROVE j = k
      <3>1. FreeChain[j + 1] # Nil /\ FreeChain[j + 1] = FreeChain[k + 1] /\ j < MaxNodes /\ k < MaxNodes
        BY <2>2, <2>6
      <3>2. j + 1 = k + 1
        BY <2>3, <2>4, <3>1
      <3> QED
        BY <3>2
    <2>7. ASSUME NEW x \in Listed' PROVE x \in Listed /\ x # n
      <3>1. PICK k \in 0 .. MaxNodes : f[k] = x /\ x # Nil
        BY <1>7
      <3>2. k < MaxNodes /\ FreeChain[k + 1] = x /\ k + 1 \in 0 .. MaxNodes /\ k + 1 # 0
        BY <2>2, <2>4, <3>1
      <3> QED
        BY <1>1, <2>1, <2>3, <3>1, <3>2 DEF Listed
    <2>8. ASSUME NEW x \in Listed, x # n PROVE x \in Listed'
      <3>1. PICK k \in 0 .. MaxNodes : FreeChain[k] = x /\ x # Nil
        BY DEF Listed
      <3>2. k # 0
        BY <2>1, <2>8, <3>1
      <3>3. k - 1 \in 0 .. MaxNodes /\ k - 1 < MaxNodes /\ (k - 1) + 1 = k
        BY <1>1, <3>2
      <3>4. f[k - 1] = x
        BY <2>2, <3>1, <3>3
      <3> QED
        BY <1>7, <3>1, <3>3, <3>4
    <2>9. Listed' = Listed \ {n}
      BY <2>7, <2>8
    <2>10. Listed' \intersect InTree' = {} /\ Listed' \union InTree' = allocated'
      BY <1>4, <2>1, <2>3, <2>9
    <2>11. \A k \in 0 .. MaxNodes : FreeChain'[k] # Nil <=> k < freeSize'
      BY <1>6, <2>1, <2>5
    <2>12. \A j, k \in 0 .. MaxNodes : FreeChain'[j] # Nil /\ FreeChain'[j] = FreeChain'[k] => j = k
      BY <1>6, <2>6
    <2> QED
      BY <2>10, <2>11, <2>12 DEF Spare
  <1> QED
    BY <1>8, <1>9

LEMMA TreeStays == ASSUME TreeInv, UNCHANGED treeVars PROVE TreeInv'
  <1>1. FreeChain' = FreeChain
    BY DEF FreeChain, treeVars
  <1>2. TreeTyped'
    BY DEF TreeInv, TreeTyped, treeVars
  <1>3. Kept' /\ InTree' = InTree
    BY DEF TreeInv, Kept, InTree, treeVars
  <1>4. Listed' = Listed
    BY <1>1 DEF Listed
  <1>5. Spare'
    BY <1>1, <1>3, <1>4 DEF TreeInv, Spare, treeVars
  <1>6. Shaped'
    BY <1>2, <1>3, ShapeStays DEF TreeInv, treeVars
  <1> QED
    BY <1>2, <1>3, <1>5, <1>6 DEF TreeInv

LEMMA TreeAlways == TreeSpec => []TreeInv
  <1>1. TreeInit => TreeInv
    BY TreeStarts
  <1>2. TreeInv /\ [TreeNext]_treeVars => TreeInv'
    <2> SUFFICES ASSUME TreeInv, [TreeNext]_treeVars PROVE TreeInv'
      OBVIOUS
    <2>1. ASSUME NEW p \in Points, Insert(p) PROVE TreeInv'
      BY <2>1, InsertTyped, InsertKept, InsertShapes, InsertSpares DEF TreeInv
    <2>2. CASE Clear
      BY <2>2, ClearKeeps
    <2>3. CASE FreeNodes
      BY <2>3, FreeKeeps
    <2>4. CASE UNCHANGED treeVars
      BY <2>4, TreeStays
    <2> QED
      BY <2>1, <2>2, <2>3, <2>4 DEF TreeNext
  <1> QED
    BY <1>1, <1>2, PTL DEF TreeSpec

(* Find finds every point inserted since the last Clear and nothing else,  *)
(* at a node that Insert returned for it, and every node the allocator     *)
(* gave out is once in the tree or once in the free list, as the sizes of  *)
(* kd_tree.h say, after any calls of Insert, Clear and Free.               *)
THEOREM TreeAlwaysSound == TreeSpec => [](TreeTypeOK /\ TreeSound)
  <1>1. TreeInv => TreeTypeOK /\ TreeSound
    <2> SUFFICES ASSUME TreeInv PROVE TreeTypeOK /\ TreeSound
      OBVIOUS
    <2>1. TreeTypeOK
      BY DEF TreeInv, TreeTyped, TreeTypeOK, Memory, NodesNil
    <2> QED
      BY <2>1, Finds, Accounted DEF TreeSound
  <1> QED
    BY <1>1, TreeAlways, PTL
==============================================================================
