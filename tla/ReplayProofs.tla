---------------------------- MODULE ReplayProofs ----------------------------
(***************************************************************************)
(* Replay over a sorted list of segments means what the address-by-address *)
(* specification says, for any address space and any events.  The meaning  *)
(* of a list depends on the set of its segments only; sorting, splitting   *)
(* and merging are followed segment by segment.                            *)
(***************************************************************************)
EXTENDS Replay, NumberProofs, SequenceTheorems

-----------------------------------------------------------------------------
(* Lists of segments.                                                      *)

Segments ==
  [start : 0 .. MaxAddress, end : 0 .. MaxAddress, protection : Nat,
   committed : BOOLEAN, base : Nat]

Nonempty == {g \in Segments : g.start < g.end}

Before(g, h) == g.end <= h.start

\* What SegmentsWellFormed says of the list, with the types of its segments.
Sorted(s) ==
  s \in Seq(Nonempty) /\ \A i, j \in DOMAIN s : i < j => Before(s[i], s[j])

Members(s) == {s[i] : i \in DOMAIN s}

Covers(g, a) == g.start <= a /\ a < g.end

\* What a list says of one address.
LEMMA MemoryOfMember ==
  ASSUME NEW s, Sorted(s), NEW a \in 0 .. MaxAddress - 1, NEW g \in Members(s), Covers(g, a)
  PROVE  Memory(s)[a] = [mapped |-> TRUE, protection |-> g.protection,
                         committed |-> g.committed, base |-> g.base]
<1> DEFINE i == CHOOSE i \in DOMAIN s : s[i].start <= a /\ a < s[i].end
<1>1. s \in Seq(Nonempty) /\ \A j, k \in DOMAIN s : j < k => s[j].end <= s[k].start
  BY DEF Sorted, Before
<1>2. PICK k \in DOMAIN s : g = s[k]
  BY DEF Members
<1>3. \E j \in DOMAIN s : s[j].start <= a /\ a < s[j].end
  BY <1>2 DEF Covers
<1>4. i \in DOMAIN s /\ s[i].start <= a /\ a < s[i].end
  BY <1>3
<1>5. Memory(s)[a] = [mapped |-> TRUE, protection |-> s[i].protection,
                      committed |-> s[i].committed, base |-> s[i].base]
  BY <1>3 DEF Memory
<1> HIDE DEF i
<1>6. i = k
  <2>1. i \in Nat /\ k \in Nat /\ s[i] \in Nonempty /\ s[k] \in Nonempty
    BY <1>1, <1>2, <1>4
  <2>2. /\ s[i].start \in Nat /\ s[i].end \in Nat
        /\ s[k].start \in Nat /\ s[k].end \in Nat
    BY <2>1 DEF Nonempty, Segments
  <2>3. s[k].start <= a /\ a < s[k].end
    BY <1>2 DEF Covers
  <2>4. ~(i < k) /\ ~(k < i)
    BY <1>1, <1>2, <1>4, <2>2, <2>3
  <2> QED
    BY <2>1, <2>4
<1> QED
  BY <1>2, <1>5, <1>6

\* An address that no segment covers is free.
LEMMA MemoryOfNone ==
  ASSUME NEW s, NEW a \in 0 .. MaxAddress - 1, \A g \in Members(s) : ~Covers(g, a)
  PROVE  Memory(s)[a] = [mapped |-> FALSE, protection |-> 0, committed |-> FALSE, base |-> 0]
BY DEF Memory, Members, Covers

\* The meaning of a list at one address, in one formula.
LEMMA MemoryAt ==
  ASSUME NEW s, Sorted(s), NEW a \in 0 .. MaxAddress - 1
  PROVE  /\ Memory(s)[a].mapped <=> \E g \in Members(s) : Covers(g, a)
         /\ \A g \in Members(s) : Covers(g, a) =>
              Memory(s)[a] = Spaces!Mapped(g.protection, g.committed, g.base)
         /\ (\A g \in Members(s) : ~Covers(g, a)) => Memory(s)[a] = Spaces!Free
<1>1. \A g \in Members(s) : Covers(g, a) =>
        Memory(s)[a] = Spaces!Mapped(g.protection, g.committed, g.base)
  BY MemoryOfMember DEF Spaces!Mapped
<1>2. (\A g \in Members(s) : ~Covers(g, a)) => Memory(s)[a] = Spaces!Free
  BY MemoryOfNone DEF Spaces!Free
<1>3. Memory(s)[a].mapped <=> \E g \in Members(s) : Covers(g, a)
  <2>1. CASE \A g \in Members(s) : ~Covers(g, a)
    BY <1>2, <2>1 DEF Spaces!Free
  <2>2. ASSUME NEW g \in Members(s), Covers(g, a)
        PROVE  Memory(s)[a].mapped
    <3>1. Memory(s)[a] = Spaces!Mapped(g.protection, g.committed, g.base)
      BY <1>1, <2>2
    <3>2. Memory(s)[a].mapped = TRUE
      BY <3>1 DEF Spaces!Mapped
    <3> QED
      BY <3>2
  <2>3. CASE \E g \in Members(s) : Covers(g, a)
    <3>1. PICK g \in Members(s) : Covers(g, a)
      BY <2>3
    <3>2. Memory(s)[a].mapped
      BY <3>1, <2>2
    <3> QED
      BY <2>3, <3>2
  <2> QED
    BY <2>1, <2>3
<1> QED
  BY <1>1, <1>2, <1>3

\* The members of a sorted list are segments of which no two overlap.
LEMMA MembersApart ==
  ASSUME NEW s, Sorted(s)
  PROVE  /\ Members(s) \subseteq Nonempty
         /\ \A g, h \in Members(s) : g = h \/ Before(g, h) \/ Before(h, g)
<1>1. Members(s) \subseteq Nonempty
  BY DEF Sorted, Members
<1>2. ASSUME NEW g \in Members(s), NEW h \in Members(s)
      PROVE  g = h \/ Before(g, h) \/ Before(h, g)
  <2>1. PICK i \in DOMAIN s, j \in DOMAIN s : g = s[i] /\ h = s[j]
    BY DEF Members
  <2>2. i \in Nat /\ j \in Nat
    BY DEF Sorted
  <2> QED
    BY <2>1, <2>2 DEF Sorted
<1> QED
  BY <1>1, <1>2

\* The fields of a segment.
LEMMA SegmentFields ==
  ASSUME NEW g \in Nonempty
  PROVE  /\ g.start \in 0 .. MaxAddress /\ g.end \in 0 .. MaxAddress
         /\ g.start \in Nat /\ g.end \in Nat /\ MaxAddress \in Nat /\ g.start < g.end
         /\ g.protection \in Nat /\ g.committed \in BOOLEAN /\ g.base \in Nat
BY MaxAddressAssumption DEF Nonempty, Segments

-----------------------------------------------------------------------------
(* Sorting.                                                                *)

\* A list of segments apart from one another that has an order is sorted by
\* sort_segments, and keeps its segments.
LEMMA SortOrders ==
  ASSUME NEW s \in Seq(Nonempty),
         \A i, j \in DOMAIN s : i # j => Before(s[i], s[j]) \/ Before(s[j], s[i]),
         \E p \in Bijection(DOMAIN s, DOMAIN s) :
           \A i, j \in DOMAIN s : i < j => s[p[i]].start <= s[p[j]].start
  PROVE  Sorted(sort_segments(s)) /\ Members(sort_segments(s)) = Members(s)
<1> DEFINE p == CHOOSE p \in Bijection(DOMAIN s, DOMAIN s) :
                  \A i, j \in DOMAIN s : i < j => s[p[i]].start <= s[p[j]].start
           t == [i \in DOMAIN s |-> s[p[i]]]
<1>1. /\ p \in Bijection(DOMAIN s, DOMAIN s)
      /\ \A i, j \in DOMAIN s : i < j => s[p[i]].start <= s[p[j]].start
  OBVIOUS
<1>2. sort_segments(s) = t
  BY DEF sort_segments
<1>3. DOMAIN s = 1 .. Len(s) /\ Len(s) \in Nat
  OBVIOUS
<1> HIDE DEF p
<1> DEFINE n == Len(s)
<1>4. /\ \A i \in 1 .. n : p[i] \in 1 .. n /\ s[p[i]] \in Nonempty
      /\ \A i, j \in 1 .. n : p[i] = p[j] => i = j
      /\ \A k \in 1 .. n : \E i \in 1 .. n : p[i] = k
  <2>1. /\ p \in [1 .. n -> 1 .. n] /\ \A i, j \in 1 .. n : p[i] = p[j] => i = j
        /\ \A k \in 1 .. n : \E i \in 1 .. n : p[i] = k
    BY <1>1, <1>3 DEF Bijection, Injection, Surjection, IsInjective
  <2>2. \A i \in 1 .. n : p[i] \in 1 .. n
    BY <2>1
  <2>3. \A i \in 1 .. n : s[i] \in Nonempty
    BY <1>3
  <2> QED
    BY <2>1, <2>2, <2>3
<1>5. t \in Seq(Nonempty) /\ DOMAIN t = 1 .. n /\ \A i \in 1 .. n : t[i] = s[p[i]]
  BY <1>3, <1>4
<1> HIDE DEF t
<1>6. ASSUME NEW i \in 1 .. n, NEW j \in 1 .. n, i < j
      PROVE  Before(t[i], t[j])
  <2>1. p[i] # p[j]
    BY <1>3, <1>4, <1>6
  <2>2. s[p[i]].start <= s[p[j]].start
    BY <1>1, <1>3, <1>6
  <2>3. Before(s[p[i]], s[p[j]]) \/ Before(s[p[j]], s[p[i]])
    BY <1>3, <1>4, <2>1
  <2>4. s[p[i]] \in Nonempty /\ s[p[j]] \in Nonempty
    BY <1>4
  <2>5. Before(s[p[i]], s[p[j]])
    BY <2>2, <2>3, <2>4, SegmentFields DEF Before
  <2> QED
    BY <1>5, <2>5
<1>7. Members(t) = Members(s)
  <2>1. Members(t) = {t[i] : i \in 1 .. n} /\ Members(s) = {s[i] : i \in 1 .. n}
    BY <1>3, <1>5 DEF Members
  <2>2. ASSUME NEW i \in 1 .. n
        PROVE  t[i] \in {s[j] : j \in 1 .. n}
    BY <1>4, <1>5
  <2>3. ASSUME NEW j \in 1 .. n
        PROVE  s[j] \in {t[i] : i \in 1 .. n}
    <3>1. PICK i \in 1 .. n : p[i] = j
      BY <1>4
    <3> QED
      BY <1>5, <3>1
  <2> QED
    BY <2>1, <2>2, <2>3
<1> QED
  BY <1>2, <1>5, <1>6, <1>7 DEF Sorted, t

\* A sorted list stays as it is.
LEMMA SortOfSorted ==
  ASSUME NEW s, Sorted(s)
  PROVE  Sorted(sort_segments(s)) /\ Members(sort_segments(s)) = Members(s)
<1> DEFINE p == [i \in DOMAIN s |-> i]
<1>1. s \in Seq(Nonempty) /\ \A i, j \in DOMAIN s : i < j => Before(s[i], s[j])
  BY DEF Sorted
<1>2. p \in Bijection(DOMAIN s, DOMAIN s)
  BY DEF Bijection, Injection, Surjection, IsInjective
<1>3. ASSUME NEW i \in DOMAIN s, NEW j \in DOMAIN s, i < j
      PROVE  s[p[i]].start <= s[p[j]].start
  <2>1. p[i] = i /\ p[j] = j
    OBVIOUS
  <2>2. s[i] \in Nonempty /\ s[j] \in Nonempty /\ s[i].end <= s[j].start
    BY <1>1, <1>3 DEF Before
  <2>3. s[i].start <= s[j].start
    BY <2>2, SegmentFields
  <2> QED
    BY <2>1, <2>3
<1>4. \A i, j \in DOMAIN s : i # j => Before(s[i], s[j]) \/ Before(s[j], s[i])
  BY <1>1
<1> HIDE DEF p
<1> QED
  BY <1>1, <1>2, <1>3, <1>4, SortOrders

\* A segment apart from those of a sorted list takes its place among them.
LEMMA SortOfAppended ==
  ASSUME NEW s, Sorted(s), NEW g \in Nonempty,
         \A h \in Members(s) : Before(h, g) \/ Before(g, h)
  PROVE  /\ Sorted(sort_segments(Append(s, g)))
         /\ Members(sort_segments(Append(s, g))) = Members(s) \cup {g}
<1> DEFINE n == Len(s)
           t == Append(s, g)
           K == {i \in 1 .. n + 1 : i = n + 1 \/ s[i].start >= g.start}
<1>1. /\ s \in Seq(Nonempty) /\ DOMAIN s = 1 .. n /\ n \in Nat
      /\ \A i, j \in 1 .. n : i < j => Before(s[i], s[j])
      /\ \A i \in 1 .. n : s[i] \in Nonempty
      /\ \A i \in 1 .. n : Before(s[i], g) \/ Before(g, s[i])
  BY DEF Sorted, Members
<1>2. PICK k \in K : \A i \in K : k <= i
  <2>1. K \subseteq Nat /\ n + 1 \in K
    BY <1>1
  <2> HIDE DEF K
  <2> QED
    BY <2>1, LeastNatural
<1>3. k \in 1 .. n + 1 /\ (k # n + 1 => s[k].start >= g.start)
  OBVIOUS
<1>4. \A i \in 1 .. n : i < k => s[i].start < g.start
  <2> SUFFICES ASSUME NEW i \in 1 .. n, i < k
               PROVE  s[i].start < g.start
    OBVIOUS
  <2>1. i \notin K
    <3> HIDE DEF K
    <3> QED
      BY <1>1, <1>2, <1>3
  <2>2. ~(s[i].start >= g.start)
    BY <1>1, <2>1
  <2> QED
    BY <1>1, <2>2, SegmentFields
<1>5. \A i \in 1 .. n : i >= k => s[i].start >= g.start
  <2> SUFFICES ASSUME NEW i \in 1 .. n, i >= k
               PROVE  s[i].start >= g.start
    OBVIOUS
  <2>1. k \in 1 .. n /\ s[k].start >= g.start
    BY <1>1, <1>3
  <2>2. i = k \/ Before(s[k], s[i])
    BY <1>1, <2>1
  <2> QED
    BY <1>1, <2>1, <2>2, SegmentFields DEF Before
<1> HIDE DEF K
<1>6. /\ t \in Seq(Nonempty) /\ DOMAIN t = 1 .. n + 1 /\ t[n + 1] = g
      /\ \A i \in 1 .. n : t[i] = s[i]
  BY <1>1, AppendProperties
<1> HIDE DEF t
<1>7. \A i, j \in DOMAIN t : i # j => Before(t[i], t[j]) \/ Before(t[j], t[i])
  <2> SUFFICES ASSUME NEW i \in 1 .. n + 1, NEW j \in 1 .. n + 1, i < j
               PROVE  Before(t[i], t[j]) \/ Before(t[j], t[i])
    BY <1>1, <1>6
  <2>1. i \in 1 .. n
    BY <1>1
  <2>2. CASE j = n + 1
    BY <1>1, <1>6, <2>1, <2>2
  <2>3. CASE j # n + 1
    <3>1. j \in 1 .. n
      BY <1>1, <2>3
    <3> QED
      BY <1>1, <1>6, <2>1, <3>1
  <2> QED
    BY <2>2, <2>3
<1> DEFINE p == [i \in 1 .. n + 1 |-> IF i < k THEN i ELSE IF i = k THEN n + 1 ELSE i - 1]
<1>8. p \in Bijection(DOMAIN t, DOMAIN t)
  <2>1. p \in [1 .. n + 1 -> 1 .. n + 1]
    BY <1>1, <1>3
  <2>2. \A i, j \in 1 .. n + 1 : p[i] = p[j] => i = j
    BY <1>1, <1>3
  <2>3. ASSUME NEW j \in 1 .. n + 1
        PROVE  \E i \in 1 .. n + 1 : p[i] = j
    <3>1. CASE j < k
      <4>1. p[j] = j
        BY <3>1
      <4> QED
        BY <4>1
    <3>2. CASE j = n + 1
      <4>1. p[k] = j
        BY <1>3, <3>2
      <4> QED
        BY <1>3, <4>1
    <3>3. CASE j >= k /\ j # n + 1
      <4>1. j + 1 \in 1 .. n + 1 /\ p[j + 1] = j
        BY <1>1, <1>3, <3>3
      <4> QED
        BY <4>1
    <3> QED
      BY <1>3, <3>1, <3>2, <3>3
  <2> HIDE DEF p
  <2> QED
    BY <1>6, <2>1, <2>2, <2>3 DEF Bijection, Injection, Surjection, IsInjective
<1>9. ASSUME NEW i \in DOMAIN t, NEW j \in DOMAIN t, i < j
      PROVE  t[p[i]].start <= t[p[j]].start
  <2>1. i \in 1 .. n + 1 /\ j \in 1 .. n + 1
    BY <1>6
  <2>2. ASSUME NEW m \in 1 .. n + 1, m < k
        PROVE  p[m] = m /\ m \in 1 .. n /\ t[p[m]] = s[m] /\ s[m].start < g.start
    BY <1>1, <1>3, <1>4, <1>6, <2>2
  <2>3. p[k] = n + 1 /\ t[p[k]] = g
    BY <1>3, <1>6
  <2>4. ASSUME NEW m \in 1 .. n + 1, m > k
        PROVE  p[m] = m - 1 /\ m - 1 \in 1 .. n /\ t[p[m]] = s[m - 1]
               /\ s[m - 1].start >= g.start
    BY <1>1, <1>3, <1>5, <1>6, <2>4
  <2> HIDE DEF p
  <2>5. \A m \in 1 .. n : s[m].start \in Nat /\ s[m].end \in Nat /\ s[m].start < s[m].end
    BY <1>1, SegmentFields
  <2>6. g.start \in Nat
    BY SegmentFields
  <2>7. CASE j < k
    <3>1. Before(s[i], s[j])
      BY <1>1, <1>9, <2>1, <2>2, <2>7, <1>3
    <3> QED
      BY SMTT(30), <1>3, <1>9, <2>1, <2>2, <2>5, <2>7, <3>1 DEF Before
  <2>8. CASE j = k
    <3>1. t[p[i]] = s[i] /\ i \in 1 .. n /\ s[i].start < g.start
      BY <1>9, <2>1, <2>2, <2>8
    <3>2. s[i].start \in Nat
      BY <2>5, <3>1
    <3> QED
      BY <2>3, <2>6, <2>8, <3>1, <3>2
  <2>9. CASE j > k
    <3>1. CASE i <= k
      <4>1. j - 1 \in 1 .. n /\ t[p[j]] = s[j - 1] /\ s[j - 1].start >= g.start
        BY <2>1, <2>4, <2>9
      <4>2. s[j - 1].start \in Nat
        BY <2>5, <4>1
      <4>3. CASE i = k
        BY <2>3, <2>6, <4>1, <4>2, <4>3
      <4>4. CASE i < k
        <5>1. i \in 1 .. n /\ t[p[i]] = s[i] /\ s[i].start < g.start
          BY <2>1, <2>2, <4>4
        <5>2. s[i].start \in Nat
          BY <2>5, <5>1
        <5> QED
          BY <2>6, <4>1, <4>2, <5>1, <5>2
      <4> QED
        BY <1>3, <2>1, <3>1, <4>3, <4>4
    <3>2. CASE i > k
      <4>1. /\ i - 1 \in 1 .. n /\ j - 1 \in 1 .. n /\ i - 1 < j - 1
            /\ t[p[i]] = s[i - 1] /\ t[p[j]] = s[j - 1]
        BY <1>1, <1>3, <1>9, <2>1, <2>4, <2>9, <3>2
      <4>2. Before(s[i - 1], s[j - 1])
        BY <1>1, <4>1
      <4>3. s[i - 1].end <= s[j - 1].start /\ s[i - 1].start < s[i - 1].end
            /\ s[i - 1].start \in Nat /\ s[i - 1].end \in Nat /\ s[j - 1].start \in Nat
        BY <2>5, <4>1, <4>2 DEF Before
      <4>4. s[i - 1].start <= s[j - 1].start
        BY <4>3
      <4> QED
        BY <4>1, <4>4
    <3> QED
      BY <1>3, <2>1, <3>1, <3>2
  <2> QED
    BY <1>3, <2>1, <2>7, <2>8, <2>9
<1>10. Sorted(sort_segments(t)) /\ Members(sort_segments(t)) = Members(t)
  <2> HIDE DEF p
  <2> QED
    BY <1>6, <1>7, <1>8, <1>9, SortOrders
<1>11. Members(t) = Members(s) \cup {g}
  BY <1>1, <1>6 DEF Members
<1> QED
  BY <1>10, <1>11 DEF t

-----------------------------------------------------------------------------
(* Joining lists.                                                          *)

\* Two sorted lists, one before the other.
LEMMA ConcatSorted ==
  ASSUME NEW s, NEW t, Sorted(s), Sorted(t),
         \A g \in Members(s), h \in Members(t) : Before(g, h)
  PROVE  Sorted(s \o t) /\ Members(s \o t) = Members(s) \cup Members(t)
<1> DEFINE m == Len(s)
           n == Len(t)
           u == s \o t
<1>1. /\ s \in Seq(Nonempty) /\ t \in Seq(Nonempty) /\ m \in Nat /\ n \in Nat
      /\ DOMAIN s = 1 .. m /\ DOMAIN t = 1 .. n
      /\ \A i, j \in 1 .. m : i < j => Before(s[i], s[j])
      /\ \A i, j \in 1 .. n : i < j => Before(t[i], t[j])
      /\ \A i \in 1 .. m, j \in 1 .. n : Before(s[i], t[j])
  BY DEF Sorted, Members
<1>2. /\ u \in Seq(Nonempty) /\ Len(u) = m + n
      /\ \A i \in 1 .. m + n : u[i] = IF i <= m THEN s[i] ELSE t[i - m]
  BY <1>1, ConcatProperties
<1> HIDE DEF u
<1>3. DOMAIN u = 1 .. m + n
  BY <1>2
<1>4. ASSUME NEW i \in 1 .. m + n, NEW j \in 1 .. m + n, i < j
      PROVE  Before(u[i], u[j])
  <2>1. CASE j <= m
    <3>1. i \in 1 .. m /\ j \in 1 .. m /\ u[i] = s[i] /\ u[j] = s[j]
      BY <1>1, <1>2, <1>4, <2>1
    <3> QED
      BY <1>1, <1>4, <3>1
  <2>2. CASE i <= m /\ j > m
    <3>1. i \in 1 .. m /\ j - m \in 1 .. n /\ u[i] = s[i] /\ u[j] = t[j - m]
      BY <1>1, <1>2, <2>2
    <3> QED
      BY <1>1, <3>1
  <2>3. CASE i > m
    <3>1. i - m \in 1 .. n /\ j - m \in 1 .. n /\ u[i] = t[i - m] /\ u[j] = t[j - m]
      BY <1>1, <1>2, <1>4, <2>3
    <3>2. i - m < j - m
      BY <1>1, <1>4
    <3> QED
      BY <1>1, <3>1, <3>2
  <2> QED
    BY <1>1, <1>4, <2>1, <2>2, <2>3
<1>5. Members(u) = Members(s) \cup Members(t)
  <2>1. /\ Members(u) = {u[i] : i \in 1 .. m + n} /\ Members(s) = {s[i] : i \in 1 .. m}
        /\ Members(t) = {t[i] : i \in 1 .. n}
    BY <1>1, <1>3 DEF Members
  <2>2. ASSUME NEW i \in 1 .. m + n
        PROVE  u[i] \in Members(s) \cup Members(t)
    <3>1. CASE i <= m
      BY <1>1, <1>2, <2>1, <3>1
    <3>2. CASE i > m
      <4>1. i - m \in 1 .. n /\ u[i] = t[i - m]
        BY <1>1, <1>2, <3>2
      <4> QED
        BY <2>1, <4>1
    <3> QED
      BY <1>1, <3>1, <3>2
  <2>3. ASSUME NEW i \in 1 .. m
        PROVE  s[i] \in Members(u)
    BY <1>1, <1>2, <2>1
  <2>4. ASSUME NEW i \in 1 .. n
        PROVE  t[i] \in Members(u)
    <3>1. i + m \in 1 .. m + n /\ ~(i + m <= m) /\ (i + m) - m = i
      BY <1>1
    <3>2. u[i + m] = t[i]
      BY <1>2, <3>1
    <3> QED
      BY <2>1, <3>1, <3>2
  <2> QED
    BY <2>1, <2>2, <2>3, <2>4
<1> QED
  BY <1>2, <1>3, <1>4, <1>5 DEF Sorted, u

\* The sorted pieces of a list, each before the next ones, put together.
LEMMA FlattenJoins ==
  ASSUME NEW n \in Nat, NEW q, q = [i \in 1 .. n |-> q[i]],
         \A i \in 1 .. n : Sorted(q[i]),
         \A i, j \in 1 .. n : i < j =>
           \A g \in Members(q[i]), h \in Members(q[j]) : Before(g, h)
  PROVE  /\ Sorted(FlattenSeq(q))
         /\ Members(FlattenSeq(q)) = UNION {Members(q[i]) : i \in 1 .. n}
<1>1. q \in Seq(Seq(Nonempty)) /\ Len(q) = n /\ DOMAIN q = 1 .. n
  <2>1. \A i \in 1 .. n : q[i] \in Seq(Nonempty)
    BY DEF Sorted
  <2>2. q \in [1 .. n -> Seq(Nonempty)]
    BY <2>1
  <2> QED
    BY <2>2, LenProperties
<1>2. CASE n = 0
  <2>1. q = <<>> /\ FlattenSeq(q) = q
    BY <1>1, <1>2 DEF FlattenSeq
  <2>2. Sorted(<<>>) /\ Members(<<>>) = {}
    BY DEF Sorted, Members
  <2>3. UNION {Members(q[i]) : i \in 1 .. n} = {}
    BY <1>2
  <2> QED
    BY <2>1, <2>2, <2>3
<1>3. CASE n # 0
  <2> DEFINE Joined(f, m) == f = [i \in 1 .. m |-> IF i = 1 THEN q[i] ELSE f[i - 1] \o q[i]]
             Without == {m \in Nat : ~\E f : Joined(f, m)}
  <2>1. Without = {}
    <3> SUFFICES ASSUME Without # {} PROVE FALSE
      OBVIOUS
    <3>1. PICK m \in Without : \A k \in Without : m <= k
      BY LeastNatural
    <3>2. m \in Nat /\ ~\E f : Joined(f, m)
      OBVIOUS
    <3>3. m # 0
      <4> SUFFICES ASSUME m = 0 PROVE FALSE
        OBVIOUS
      <4>1. Joined([i \in 1 .. 0 |-> i], 0)
        OBVIOUS
      <4> QED
        BY <3>2, <4>1
    <3>4. m - 1 \in Nat /\ m - 1 \notin Without
      <4> HIDE DEF Without
      <4> QED
        BY <3>1, <3>2, <3>3
    <3>5. PICK f : Joined(f, m - 1)
      BY <3>4
    <3> DEFINE g == [i \in 1 .. m |-> IF i = m THEN IF m = 1 THEN q[m] ELSE f[m - 1] \o q[m]
                                      ELSE f[i]]
    <3>6. \A i \in 1 .. m - 1 : f[i] = IF i = 1 THEN q[i] ELSE f[i - 1] \o q[i]
      BY <3>5
    <3>7. ASSUME NEW i \in 1 .. m
          PROVE  g[i] = IF i = 1 THEN q[i] ELSE g[i - 1] \o q[i]
      <4>1. CASE i = m
        <5>1. m # 1 => g[m - 1] = f[m - 1]
          BY <3>2, <3>3
        <5> QED
          BY <3>2, <3>3, <4>1, <5>1
      <4>2. CASE i # m
        <5>1. i \in 1 .. m - 1 /\ (i # 1 => g[i - 1] = f[i - 1])
          BY <3>2, <4>2
        <5> QED
          BY <3>6, <4>2, <5>1
      <4> QED
        BY <4>1, <4>2
    <3>8. Joined(g, m)
      <4>1. g = [i \in 1 .. m |-> g[i]]
        OBVIOUS
      <4> HIDE DEF g
      <4> QED
        BY <3>7, <4>1
    <3> QED
      BY <3>2, <3>8
  <2> DEFINE f == CHOOSE f : Joined(f, n)
  <2>2. FlattenSeq(q) = f[n]
    BY <1>1, <1>3 DEF FlattenSeq
  <2>3. Joined(f, n)
    BY <2>1
  <2> HIDE DEF f
  <2>4. \A i \in 1 .. n : f[i] = IF i = 1 THEN q[i] ELSE f[i - 1] \o q[i]
    BY <2>3
  <2> DEFINE Good(m) == Sorted(f[m]) /\ Members(f[m]) = UNION {Members(q[i]) : i \in 1 .. m}
             Bad == {m \in 1 .. n : ~Good(m)}
  <2>5. Bad = {}
    <3> SUFFICES ASSUME Bad # {} PROVE FALSE
      OBVIOUS
    <3>1. PICK m \in Bad : \A k \in Bad : m <= k
      <4>1. Bad \subseteq Nat
        OBVIOUS
      <4> HIDE DEF Bad
      <4> QED
        BY <4>1, LeastNatural
    <3>2. m \in 1 .. n /\ ~Good(m)
      OBVIOUS
    <3>3. m # 1
      <4> SUFFICES ASSUME m = 1 PROVE FALSE
        OBVIOUS
      <4>1. f[1] = q[1] /\ 1 .. 1 = {1}
        BY <2>4, <3>2
      <4> QED
        BY <3>2, <4>1
    <3>4. m - 1 \in 1 .. n /\ m - 1 \notin Bad
      <4> HIDE DEF Bad
      <4> QED
        BY <3>1, <3>2, <3>3
    <3>5. Good(m - 1)
      BY <3>4
    <3>6. f[m] = f[m - 1] \o q[m]
      BY <2>4, <3>2, <3>3
    <3>7. ASSUME NEW g \in Members(f[m - 1]), NEW h \in Members(q[m])
          PROVE  Before(g, h)
      <4>1. PICK i \in 1 .. m - 1 : g \in Members(q[i])
        BY <3>5
      <4>2. i \in 1 .. n /\ i < m
        BY <3>2
      <4> QED
        BY <3>2, <4>1, <4>2
    <3>8. Sorted(f[m]) /\ Members(f[m]) = Members(f[m - 1]) \cup Members(q[m])
      <4> HIDE DEF Good
      <4>1. Sorted(f[m - 1]) /\ Sorted(q[m])
        BY <3>2, <3>5 DEF Good
      <4> QED
        BY <3>6, <3>7, <4>1, ConcatSorted
    <3>9. 1 .. m = (1 .. m - 1) \cup {m}
      BY <3>2
    <3>10. Members(f[m]) = UNION {Members(q[i]) : i \in 1 .. m}
      BY <3>5, <3>8, <3>9
    <3> QED
      BY <3>2, <3>8, <3>10
  <2>6. n \in 1 .. n /\ n \notin Bad
    <3> HIDE DEF Bad
    <3> QED
      BY <1>3, <2>5
  <2> QED
    BY <2>2, <2>6
<1> QED
  BY <1>2, <1>3

-----------------------------------------------------------------------------
(* Erasing.                                                                *)

\* Two memories are the same when they agree on every address.
LEMMA SameMemory ==
  ASSUME NEW s, NEW m, m = [a \in 0 .. MaxAddress - 1 |-> m[a]],
         \A a \in 0 .. MaxAddress - 1 : Memory(s)[a] = m[a]
  PROVE  Memory(s) = m
<1> DEFINE u == Memory(s)
<1>1. u = [a \in 0 .. MaxAddress - 1 |-> u[a]]
  BY DEF Memory
<1> HIDE DEF u
<1>2. u = m
  BY <1>1 DEF u
<1> QED
  BY <1>2 DEF u

\* A list of one segment.
LEMMA OneSegment ==
  ASSUME NEW g \in Nonempty
  PROVE  Sorted(<<g>>) /\ Members(<<g>>) = {g}
BY DEF Sorted, Members

\* h is a part of g.
Within(h, g) ==
  /\ g.start <= h.start /\ h.end <= g.end
  /\ h.protection = g.protection /\ h.committed = g.committed /\ h.base = g.base

\* Cutting one end off a segment leaves a segment.
LEMMA CutSegment ==
  ASSUME NEW g \in Nonempty, NEW point \in 0 .. MaxAddress, g.start < point, point < g.end
  PROVE  LET left == [g EXCEPT !.end = point]
             right == [g EXCEPT !.start = point]
         IN /\ left \in Nonempty /\ Within(left, g) /\ left.start = g.start /\ left.end = point
            /\ right \in Nonempty /\ Within(right, g) /\ right.start = point /\ right.end = g.end
            /\ Before(left, right)
<1> DEFINE left == [g EXCEPT !.end = point]
           right == [g EXCEPT !.start = point]
<1>1. /\ left.start = g.start /\ left.end = point /\ left.protection = g.protection
      /\ left.committed = g.committed /\ left.base = g.base /\ left \in Segments
  BY DEF Nonempty, Segments
<1>2. /\ right.start = point /\ right.end = g.end /\ right.protection = g.protection
      /\ right.committed = g.committed /\ right.base = g.base /\ right \in Segments
  BY DEF Nonempty, Segments
<1> HIDE DEF left, right
<1>3. left \in Nonempty /\ right \in Nonempty
  BY <1>1, <1>2 DEF Nonempty
<1>4. Within(left, g) /\ Within(right, g) /\ Before(left, right)
  BY <1>1, <1>2, SegmentFields DEF Within, Before
<1> QED
  BY <1>1, <1>2, <1>3, <1>4 DEF left, right

\* What erase_range leaves of a segment: its parts outside the range, all of
\* them, in order.
LEMMA RemainderParts ==
  ASSUME NEW g \in Nonempty, NEW start \in 0 .. MaxAddress, NEW end \in 0 .. MaxAddress,
         start < end
  PROVE  LET rest == Remainder(g, start, end)
         IN /\ Sorted(rest)
            /\ \A h \in Members(rest) : Within(h, g) /\ (h.end <= start \/ end <= h.start)
            /\ \A a \in Nat : Covers(g, a) /\ ~(start <= a /\ a < end) =>
                 \E h \in Members(rest) : Covers(h, a)
<1> DEFINE rest == Remainder(g, start, end)
           left == [g EXCEPT !.end = start]
           right == [g EXCEPT !.start = end]
<1>1. /\ g.start \in Nat /\ g.end \in Nat /\ g.start < g.end /\ start \in Nat /\ end \in Nat
  BY SegmentFields
<1>2. CASE g.end <= start \/ g.start >= end
  <2>1. rest = <<g>>
    BY <1>2 DEF Remainder
  <2>2. Sorted(rest) /\ Members(rest) = {g}
    BY <2>1, OneSegment
  <2>3. Within(g, g)
    BY <1>1 DEF Within
  <2> QED
    BY <1>1, <1>2, <2>2, <2>3
<1>3. CASE ~(g.end <= start \/ g.start >= end)
  <2>1. rest = (IF g.start < start THEN <<left>> ELSE <<>>)
               \o (IF g.end > end THEN <<right>> ELSE <<>>)
    BY <1>3 DEF Remainder
  <2>2. g.start < start =>
          /\ left \in Nonempty /\ Within(left, g) /\ left.start = g.start /\ left.end = start
    <3> SUFFICES ASSUME g.start < start
                 PROVE  /\ left \in Nonempty /\ Within(left, g)
                        /\ left.start = g.start /\ left.end = start
      OBVIOUS
    <3>1. start < g.end
      BY <1>1, <1>3
    <3> QED
      BY <3>1, CutSegment
  <2>3. g.end > end =>
          /\ right \in Nonempty /\ Within(right, g) /\ right.start = end /\ right.end = g.end
    <3> SUFFICES ASSUME g.end > end
                 PROVE  /\ right \in Nonempty /\ Within(right, g)
                        /\ right.start = end /\ right.end = g.end
      OBVIOUS
    <3>1. g.start < end /\ end < g.end
      BY <1>1, <1>3
    <3> QED
      BY <3>1, CutSegment
  <2> HIDE DEF rest, left, right
  <2>4. CASE g.start < start /\ g.end > end
    <3>1. rest = <<left>> \o <<right>>
      BY <2>1, <2>4
    <3>2. Before(left, right)
      BY <1>1, <2>2, <2>3, <2>4 DEF Before
    <3>3. /\ Sorted(<<left>>) /\ Members(<<left>>) = {left}
          /\ Sorted(<<right>>) /\ Members(<<right>>) = {right}
      BY <2>2, <2>3, <2>4, OneSegment
    <3>4. \A h \in Members(<<left>>), k \in Members(<<right>>) : Before(h, k)
      BY <3>2, <3>3
    <3>5. Sorted(rest) /\ Members(rest) = {left} \cup {right}
      BY <3>1, <3>3, <3>4, ConcatSorted
    <3> QED
      BY <1>1, <2>2, <2>3, <2>4, <3>5 DEF Covers, rest
  <2>5. CASE g.start < start /\ ~(g.end > end)
    <3>1. rest = <<left>>
      <4>1. rest = <<left>> \o <<>>
        BY <2>1, <2>5
      <4> QED
        BY <4>1
    <3>2. Sorted(rest) /\ Members(rest) = {left}
      BY <2>2, <2>5, <3>1, OneSegment
    <3> QED
      BY <1>1, <2>2, <2>5, <3>2 DEF Covers, rest
  <2>6. CASE ~(g.start < start) /\ g.end > end
    <3>1. rest = <<right>>
      BY <2>1, <2>6
    <3>2. Sorted(rest) /\ Members(rest) = {right}
      BY <2>3, <2>6, <3>1, OneSegment
    <3> QED
      BY <1>1, <2>3, <2>6, <3>2 DEF Covers, rest
  <2>7. CASE ~(g.start < start) /\ ~(g.end > end)
    <3>1. rest = <<>>
      BY <2>1, <2>7
    <3>2. Sorted(rest) /\ Members(rest) = {}
      BY <3>1 DEF Sorted, Members
    <3> QED
      BY <1>1, <2>7, <3>2 DEF Covers, rest
  <2> QED
    BY <2>4, <2>5, <2>6, <2>7
<1> QED
  BY <1>2, <1>3

\* Erasing a range leaves the parts of the segments outside it.
LEMMA EraseRange ==
  ASSUME NEW s, Sorted(s), NEW start \in 0 .. MaxAddress, NEW end \in 0 .. MaxAddress,
         start < end
  PROVE  LET rest == erase_range(s, start, end)
         IN /\ Sorted(rest)
            /\ \A h \in Members(rest) :
                 /\ h.end <= start \/ end <= h.start
                 /\ \E g \in Members(s) : Within(h, g)
            /\ \A g \in Members(s), a \in Nat : Covers(g, a) /\ ~(start <= a /\ a < end) =>
                 \E h \in Members(rest) : Within(h, g) /\ Covers(h, a)
<1> DEFINE n == Len(s)
           q == [i \in DOMAIN s |-> Remainder(s[i], start, end)]
           joined == FlattenSeq(q)
           rest == erase_range(s, start, end)
<1>1. /\ n \in Nat /\ DOMAIN s = 1 .. n /\ \A i \in 1 .. n : s[i] \in Nonempty
      /\ \A i, j \in 1 .. n : i < j => Before(s[i], s[j])
  BY DEF Sorted
<1>2. q = [i \in 1 .. n |-> q[i]] /\ \A i \in 1 .. n : q[i] = Remainder(s[i], start, end)
  BY <1>1
<1>3. rest = sort_segments(joined)
  BY DEF erase_range
<1> HIDE DEF q, rest
<1>4. ASSUME NEW i \in 1 .. n
      PROVE  /\ Sorted(q[i])
             /\ \A h \in Members(q[i]) : Within(h, s[i]) /\ (h.end <= start \/ end <= h.start)
             /\ \A a \in Nat : Covers(s[i], a) /\ ~(start <= a /\ a < end) =>
                  \E h \in Members(q[i]) : Covers(h, a)
  <2>1. s[i] \in Nonempty /\ q[i] = Remainder(s[i], start, end)
    BY <1>1, <1>2
  <2> HIDE DEF n
  <2> QED
    BY <2>1, RemainderParts
<1>5. ASSUME NEW i \in 1 .. n, NEW j \in 1 .. n, i < j,
             NEW g \in Members(q[i]), NEW h \in Members(q[j])
      PROVE  Before(g, h)
  <2>1. Before(s[i], s[j]) /\ s[i] \in Nonempty /\ s[j] \in Nonempty
    BY <1>1, <1>5
  <2>2. g \in Nonempty /\ h \in Nonempty
    BY <1>4, <1>5, MembersApart
  <2>3. Within(g, s[i]) /\ Within(h, s[j])
    BY <1>4, <1>5
  <2>4. s[i].end <= s[j].start /\ g.end <= s[i].end /\ s[j].start <= h.start
    BY <2>1, <2>3 DEF Before, Within
  <2>5. g.end \in Nat /\ h.start \in Nat /\ s[i].end \in Nat /\ s[j].start \in Nat
    BY <2>1, <2>2, SegmentFields
  <2> QED
    BY <2>4, <2>5 DEF Before
<1>6. Sorted(joined) /\ Members(joined) = UNION {Members(q[i]) : i \in 1 .. n}
  <2> HIDE DEF n, joined
  <2> QED
    BY <1>1, <1>2, <1>4, <1>5, FlattenJoins DEF n, joined
<1>7. Sorted(rest) /\ Members(rest) = UNION {Members(q[i]) : i \in 1 .. n}
  <2> HIDE DEF joined
  <2> QED
    BY <1>3, <1>6, SortOfSorted
<1>8. Members(s) = {s[i] : i \in 1 .. n}
  BY <1>1 DEF Members
<1>9. ASSUME NEW h \in Members(rest)
      PROVE  (h.end <= start \/ end <= h.start) /\ \E g \in Members(s) : Within(h, g)
  <2>1. PICK i \in 1 .. n : h \in Members(q[i])
    BY <1>7
  <2> QED
    BY <1>4, <1>8, <2>1
<1>10. ASSUME NEW g \in Members(s), NEW a \in Nat, Covers(g, a), ~(start <= a /\ a < end)
       PROVE  \E h \in Members(rest) : Within(h, g) /\ Covers(h, a)
  <2>1. PICK i \in 1 .. n : g = s[i]
    BY <1>8
  <2>2. PICK h \in Members(q[i]) : Covers(h, a)
    BY <1>4, <1>10, <2>1
  <2>3. h \in Members(rest) /\ Within(h, g)
    BY <1>4, <1>7, <2>1
  <2> QED
    BY <2>2, <2>3
<1> QED
  BY <1>7, <1>9, <1>10 DEF rest

\* The range is free after erase_range, and nothing else has changed.
LEMMA ErasedMemory ==
  ASSUME NEW s, Sorted(s), NEW start \in 0 .. MaxAddress, NEW end \in 0 .. MaxAddress,
         start < end
  PROVE  Memory(erase_range(s, start, end))
           = Spaces!Assign(Memory(s), start .. end - 1, Spaces!Free)
<1> DEFINE rest == erase_range(s, start, end)
           m == Spaces!Assign(Memory(s), start .. end - 1, Spaces!Free)
<1>1. /\ Sorted(rest)
      /\ \A h \in Members(rest) : /\ h.end <= start \/ end <= h.start
                                  /\ \E g \in Members(s) : Within(h, g)
      /\ \A g \in Members(s), a \in Nat : Covers(g, a) /\ ~(start <= a /\ a < end) =>
           \E h \in Members(rest) : Within(h, g) /\ Covers(h, a)
  BY EraseRange
<1> HIDE DEF rest
<1>2. /\ m = [a \in 0 .. MaxAddress - 1 |-> m[a]]
      /\ \A a \in 0 .. MaxAddress - 1 :
           m[a] = IF a \in start .. end - 1 THEN Spaces!Free ELSE Memory(s)[a]
  BY DEF Spaces!Assign, Spaces!Addresses
<1> HIDE DEF m
<1>3. ASSUME NEW a \in 0 .. MaxAddress - 1
      PROVE  Memory(rest)[a] = m[a]
  <2>1. a \in Nat /\ start \in Nat /\ end \in Nat
    BY MaxAddressAssumption
  <2>2. CASE a \in start .. end - 1
    <3>1. start <= a /\ a < end
      BY <2>1, <2>2
    <3>2. \A h \in Members(rest) : ~Covers(h, a)
      <4> SUFFICES ASSUME NEW h \in Members(rest) PROVE ~Covers(h, a)
        OBVIOUS
      <4>1. h \in Nonempty /\ (h.end <= start \/ end <= h.start)
        BY <1>1, MembersApart
      <4> QED
        BY <2>1, <3>1, <4>1, SegmentFields DEF Covers
    <3>3. Memory(rest)[a] = Spaces!Free
      BY <1>1, <3>2, MemoryAt
    <3> QED
      BY <1>2, <2>2, <3>3
  <2>3. CASE a \notin start .. end - 1
    <3>1. ~(start <= a /\ a < end)
      BY <2>1, <2>3
    <3>2. CASE \E g \in Members(s) : Covers(g, a)
      <4>1. PICK g \in Members(s) : Covers(g, a)
        BY <3>2
      <4>2. PICK h \in Members(rest) : Within(h, g) /\ Covers(h, a)
        BY <1>1, <2>1, <3>1, <4>1
      <4>3. Memory(s)[a] = Spaces!Mapped(g.protection, g.committed, g.base)
        BY <4>1, MemoryAt
      <4>4. Memory(rest)[a] = Spaces!Mapped(h.protection, h.committed, h.base)
        BY <1>1, <4>2, MemoryAt
      <4>5. Memory(rest)[a] = Memory(s)[a]
        BY <4>2, <4>3, <4>4 DEF Within
      <4> QED
        BY <1>2, <2>3, <4>5
    <3>3. CASE \A g \in Members(s) : ~Covers(g, a)
      <4>1. \A h \in Members(rest) : ~Covers(h, a)
        <5> SUFFICES ASSUME NEW h \in Members(rest), Covers(h, a) PROVE FALSE
          OBVIOUS
        <5>1. PICK g \in Members(s) : Within(h, g)
          BY <1>1
        <5>2. g \in Nonempty /\ h \in Nonempty
          BY <1>1, MembersApart
        <5>3. Covers(g, a)
          BY <2>1, <5>1, <5>2, SegmentFields DEF Covers, Within
        <5> QED
          BY <3>3, <5>3
      <4>2. Memory(rest)[a] = Spaces!Free /\ Memory(s)[a] = Spaces!Free
        BY <1>1, <3>3, <4>1, MemoryAt
      <4> QED
        BY <1>2, <2>3, <4>2
    <3> QED
      BY <3>2, <3>3
  <2> QED
    BY <2>2, <2>3
<1>4. Memory(rest) = m
  BY ZenonT(30), <1>2, <1>3, SameMemory
<1> QED
  BY <1>4 DEF rest, m

-----------------------------------------------------------------------------
(* Inserting.                                                              *)

\* overlaps asks whether some address of the range is mapped.
LEMMA OverlapsIsMapped ==
  ASSUME NEW s, Sorted(s), NEW start \in 0 .. MaxAddress, NEW end \in 0 .. MaxAddress,
         start < end
  PROVE  /\ overlaps(s, start, end) <=> \E g \in Members(s) : g.start < end /\ start < g.end
         /\ overlaps(s, start, end) <=> ~Spaces!AllFree(Memory(s), start .. end - 1)
<1>1. overlaps(s, start, end) <=> \E g \in Members(s) : g.start < end /\ start < g.end
  BY DEF overlaps, Members
<1>2. \A a \in start .. end - 1 : a \in 0 .. MaxAddress - 1 /\ a \in Nat
  BY MaxAddressAssumption
<1>3. ASSUME NEW g \in Members(s), g.start < end, start < g.end
      PROVE  \E a \in start .. end - 1 : Memory(s)[a].mapped
  <2>1. g \in Nonempty
    BY MembersApart
  <2> DEFINE a == IF start <= g.start THEN g.start ELSE start
  <2>2. a \in start .. end - 1 /\ Covers(g, a)
    BY <1>3, <2>1, SegmentFields DEF Covers
  <2> HIDE DEF a
  <2> QED
    BY <1>2, <2>2, MemoryAt
<1>4. ASSUME NEW a \in start .. end - 1, Memory(s)[a].mapped
      PROVE  \E g \in Members(s) : g.start < end /\ start < g.end
  <2>1. PICK g \in Members(s) : Covers(g, a)
    BY <1>2, <1>4, MemoryAt
  <2>2. g \in Nonempty
    BY MembersApart
  <2> QED
    BY <2>1, <2>2, SegmentFields DEF Covers
<1> QED
  BY <1>1, <1>3, <1>4 DEF Spaces!AllFree

\* A segment on a free range is what the range then means.
LEMMA InsertedMemory ==
  ASSUME NEW s, Sorted(s), NEW g \in Nonempty, ~overlaps(s, g.start, g.end)
  PROVE  /\ Sorted(sort_segments(Append(s, g)))
         /\ Memory(sort_segments(Append(s, g)))
              = Spaces!Assign(Memory(s), g.start .. g.end - 1,
                              Spaces!Mapped(g.protection, g.committed, g.base))
<1> DEFINE t == sort_segments(Append(s, g))
           v == Spaces!Mapped(g.protection, g.committed, g.base)
           m == Spaces!Assign(Memory(s), g.start .. g.end - 1, v)
<1>1. g.start \in 0 .. MaxAddress /\ g.end \in 0 .. MaxAddress /\ g.start < g.end
  BY SegmentFields
<1>2. ASSUME NEW h \in Members(s)
      PROVE  Before(h, g) \/ Before(g, h)
  <2>1. ~(h.start < g.end /\ g.start < h.end)
    BY <1>1, OverlapsIsMapped
  <2>2. h \in Nonempty
    BY MembersApart
  <2> QED
    BY <1>1, <2>1, <2>2, SegmentFields DEF Before
<1>3. Sorted(t) /\ Members(t) = Members(s) \cup {g}
  BY <1>2, SortOfAppended
<1> HIDE DEF t
<1>4. /\ m = [a \in 0 .. MaxAddress - 1 |-> m[a]]
      /\ \A a \in 0 .. MaxAddress - 1 :
           m[a] = IF a \in g.start .. g.end - 1 THEN v ELSE Memory(s)[a]
  BY DEF Spaces!Assign, Spaces!Addresses
<1>5. \A a \in Nat : a \in g.start .. g.end - 1 <=> Covers(g, a)
  BY <1>1 DEF Covers
<1> HIDE DEF m
<1>6. ASSUME NEW a \in 0 .. MaxAddress - 1
      PROVE  Memory(t)[a] = m[a]
  <2>1. a \in Nat
    BY MaxAddressAssumption
  <2>2. CASE Covers(g, a)
    <3>1. Memory(t)[a] = v
      BY <1>3, <2>2, MemoryAt
    <3> QED
      BY <1>4, <1>5, <2>1, <2>2, <3>1
  <2>3. CASE ~Covers(g, a) /\ \E h \in Members(s) : Covers(h, a)
    <3>1. PICK h \in Members(s) : Covers(h, a)
      BY <2>3
    <3>2. h \in Members(t)
      BY <1>3
    <3>3. Memory(t)[a] = Memory(s)[a]
      BY <1>3, <3>1, <3>2, MemoryAt
    <3> QED
      BY <1>4, <1>5, <2>1, <2>3, <3>3
  <2>4. CASE ~Covers(g, a) /\ \A h \in Members(s) : ~Covers(h, a)
    <3>1. \A h \in Members(t) : ~Covers(h, a)
      BY <1>3, <2>4
    <3>2. Memory(t)[a] = Memory(s)[a]
      BY <1>3, <2>4, <3>1, MemoryAt
    <3> QED
      BY <1>4, <1>5, <2>1, <2>4, <3>2
  <2> QED
    BY <2>2, <2>3, <2>4
<1>7. Memory(t) = m
  <2>1. m = [a \in 0 .. MaxAddress - 1 |-> m[a]]
    BY <1>4
  <2>2. \A a \in 0 .. MaxAddress - 1 : Memory(t)[a] = m[a]
    BY <1>6
  <2> QED
    BY <2>1, <2>2, SameMemory
<1> QED
  BY <1>3, <1>7 DEF t, m

-----------------------------------------------------------------------------
(* The walk of covered.                                                    *)

\* A segment of the list that covers an address as the caller requires.
Suits(g, a, requireCommitted) == Covers(g, a) /\ (requireCommitted => g.committed)

\* What the walk knows after the first i segments.
WalkInvariant(s, start, end, requireCommitted, i, walk) ==
  LET suited(a) == \E g \in Members(s) : Suits(g, a, requireCommitted)
  IN \/ /\ walk.answer = "none"
        /\ walk.cursor \in start .. end - 1
        /\ \A a \in start .. walk.cursor - 1 : suited(a)
        /\ \A j \in 1 .. i : s[j].end <= walk.cursor
     \/ walk.answer = "yes" /\ \A a \in start .. end - 1 : suited(a)
     \/ walk.answer = "no" /\ \E a \in start .. end - 1 : ~suited(a)

\* One segment of the walk.
LEMMA WalkStep ==
  ASSUME NEW s, Sorted(s), NEW start \in 0 .. MaxAddress, NEW end \in 0 .. MaxAddress,
         start < end, NEW requireCommitted \in BOOLEAN, NEW i \in 1 .. Len(s), NEW walk,
         WalkInvariant(s, start, end, requireCommitted, i - 1, walk)
  PROVE  WalkInvariant(s, start, end, requireCommitted, i,
                       Cover(walk, s[i], end, requireCommitted))
<1> DEFINE n == Len(s)
           g == s[i]
           next == Cover(walk, g, end, requireCommitted)
           suited(a) == \E h \in Members(s) : Suits(h, a, requireCommitted)
<1>1. /\ n \in Nat /\ \A j \in 1 .. n : s[j] \in Nonempty /\ s[j] \in Members(s)
      /\ \A j, k \in 1 .. n : j < k => Before(s[j], s[k])
      /\ Members(s) = {s[j] : j \in 1 .. n}
  BY DEF Sorted, Members
<1>2. g \in Nonempty /\ g \in Members(s) /\ i \in 1 .. n
  BY <1>1
<1>3. CASE walk.answer # "none"
  <2>1. next = walk
    BY <1>3 DEF Cover
  <2> QED
    BY <1>3, <2>1 DEF WalkInvariant
<1>4. CASE walk.answer = "none"
  <2> DEFINE c == walk.cursor
  <2>1. /\ c \in start .. end - 1 /\ c \in Nat /\ \A a \in start .. c - 1 : suited(a)
        /\ \A j \in 1 .. i - 1 : s[j].end <= c
    BY <1>4, MaxAddressAssumption DEF WalkInvariant
  <2> HIDE DEF c
  <2>2. CASE g.end <= c
    <3>1. next = walk
      BY <2>2 DEF Cover, c
    <3>2. \A j \in 1 .. i : s[j].end <= c
      BY <1>2, <2>1, <2>2
    <3> QED
      BY <1>4, <2>1, <3>1, <3>2 DEF WalkInvariant, c
  <2>3. CASE ~(g.end <= c) /\ (g.start > c \/ (requireCommitted /\ ~g.committed))
    <3>1. next.answer = "no"
      BY <1>4, <2>3 DEF Cover, c
    <3>2. ~suited(c)
      <4> SUFFICES ASSUME NEW h \in Members(s), Suits(h, c, requireCommitted) PROVE FALSE
        OBVIOUS
      <4>1. PICK j \in 1 .. n : h = s[j]
        BY <1>1
      <4>2. h \in Nonempty /\ Covers(h, c)
        BY <1>1, <4>1 DEF Suits
      <4>3. CASE j < i
        <5>1. h.end <= c
          BY <1>2, <2>1, <4>1, <4>3
        <5> QED
          BY <2>1, <4>2, <5>1, SegmentFields DEF Covers
      <4>4. CASE j = i
        BY <1>2, <2>1, <2>3, <4>1, <4>2, <4>4, SegmentFields DEF Covers, Suits
      <4>5. CASE j > i
        <5>1. g.end <= h.start
          BY <1>1, <1>2, <4>1, <4>5 DEF Before
        <5> QED
          BY <1>2, <2>1, <2>3, <4>2, <5>1, SegmentFields DEF Covers
      <4> QED
        BY <1>2, <4>1, <4>3, <4>4, <4>5
    <3> QED
      BY <2>1, <3>1, <3>2 DEF WalkInvariant
  <2>4. CASE ~(g.end <= c) /\ ~(g.start > c \/ (requireCommitted /\ ~g.committed))
    <3>1. ASSUME NEW a \in Nat, start <= a, a < g.end
          PROVE  suited(a)
      <4>1. CASE a < c
        <5>1. a \in start .. c - 1
          BY <2>1, <3>1, <4>1
        <5> QED
          BY <2>1, <5>1
      <4>2. CASE a >= c
        <5>1. Suits(g, a, requireCommitted)
          BY <1>2, <2>1, <2>4, <3>1, <4>2, SegmentFields DEF Suits, Covers
        <5> QED
          BY <1>2, <5>1
      <4> QED
        BY <2>1, <4>1, <4>2
    <3>2. CASE g.end >= end
      <4>1. next.answer = "yes"
        BY <1>4, <2>4, <3>2 DEF Cover, c
      <4>2. \A a \in start .. end - 1 : a \in Nat /\ start <= a /\ a < g.end
        BY <1>2, <3>2, SegmentFields
      <4>3. \A a \in start .. end - 1 : suited(a)
        BY <3>1, <4>2
      <4> QED
        BY <4>1, <4>3 DEF WalkInvariant
    <3>3. CASE ~(g.end >= end)
      <4>1. next = [cursor |-> g.end, answer |-> "none"]
        BY <1>4, <2>4, <3>3 DEF Cover, c
      <4>2. next.cursor = g.end /\ next.answer = "none"
        BY <4>1
      <4>3. g.end \in Nat /\ g.end \in start .. end - 1
        BY <1>2, <2>1, <2>4, <3>3, SegmentFields
      <4>4. \A a \in start .. g.end - 1 : suited(a)
        <5>1. \A a \in start .. g.end - 1 : a \in Nat /\ start <= a /\ a < g.end
          BY <4>3
        <5> QED
          BY <3>1, <5>1
      <4>5. ASSUME NEW j \in 1 .. i
            PROVE  s[j].end <= g.end
        <5>1. CASE j = i
          BY <1>2, <4>3, <5>1
        <5>2. CASE j # i
          <6>1. j \in 1 .. n /\ j \in 1 .. i - 1
            BY <1>2, <5>2
          <6>2. s[j].end <= c /\ s[j].end \in Nat
            BY <1>1, <2>1, <6>1, SegmentFields
          <6> QED
            BY <2>1, <2>4, <4>3, <6>2
        <5> QED
          BY <5>1, <5>2
      <4> HIDE DEF next, g
      <4> QED
        BY <4>2, <4>3, <4>4, <4>5 DEF WalkInvariant, next, g
    <3> QED
      BY <3>2, <3>3
  <2> QED
    BY <2>2, <2>3, <2>4
<1> QED
  BY <1>3, <1>4

\* covered asks whether every address of the range is mapped, and committed
\* where the caller requires it.
LEMMA CoveredIsMapped ==
  ASSUME NEW s, Sorted(s), NEW start \in 0 .. MaxAddress, NEW end \in 0 .. MaxAddress,
         start < end, NEW requireCommitted \in BOOLEAN
  PROVE  covered(s, start, end, requireCommitted)
           <=> \A a \in start .. end - 1 : \E g \in Members(s) : Suits(g, a, requireCommitted)
<1> DEFINE n == Len(s)
           first == [cursor |-> start, answer |-> "none"]
           Turn(f, i) == IF i = 0 THEN first ELSE Cover(f[i - 1], s[i], end, requireCommitted)
           UpTo(f, m) == f = [i \in 0 .. m |-> Turn(f, i)]
           Without == {m \in Nat : ~\E f : UpTo(f, m)}
           suited(a) == \E g \in Members(s) : Suits(g, a, requireCommitted)
<1>1. /\ n \in Nat /\ \A j \in 1 .. n : s[j] \in Nonempty
      /\ Members(s) = {s[j] : j \in 1 .. n}
  BY DEF Sorted, Members
<1>2. Without = {}
  <2> SUFFICES ASSUME Without # {} PROVE FALSE
    OBVIOUS
  <2>1. PICK m \in Without : \A k \in Without : m <= k
    BY LeastNatural
  <2>2. m \in Nat /\ ~\E f : UpTo(f, m)
    OBVIOUS
  <2>3. m # 0
    <3> SUFFICES ASSUME m = 0 PROVE FALSE
      OBVIOUS
    <3>1. UpTo([i \in 0 .. 0 |-> first], 0)
      OBVIOUS
    <3> QED
      BY <2>2, <3>1
  <2>4. m - 1 \in Nat /\ m - 1 \notin Without
    <3> HIDE DEF Without
    <3> QED
      BY <2>1, <2>2, <2>3
  <2>5. PICK f : UpTo(f, m - 1)
    BY <2>4
  <2> DEFINE g == [i \in 0 .. m |-> IF i = m THEN Turn(f, m) ELSE f[i]]
  <2>6. \A i \in 0 .. m - 1 : f[i] = Turn(f, i)
    BY <2>5
  <2>7. ASSUME NEW i \in 0 .. m
        PROVE  g[i] = Turn(g, i)
    <3>1. CASE i = m
      <4>1. g[m - 1] = f[m - 1] /\ g[m] = Turn(f, m)
        BY <2>2, <2>3
      <4> QED
        BY <2>3, <3>1, <4>1
    <3>2. CASE i # m
      <4>1. i \in 0 .. m - 1 /\ (i # 0 => g[i - 1] = f[i - 1])
        BY <2>2, <3>2
      <4> QED
        BY <2>6, <3>2, <4>1
    <3> QED
      BY <3>1, <3>2
  <2>8. UpTo(g, m)
    <3>1. g = [i \in 0 .. m |-> g[i]]
      OBVIOUS
    <3> HIDE DEF g
    <3> QED
      BY <2>7, <3>1
  <2> QED
    BY <2>2, <2>8
<1> DEFINE walk == CHOOSE walk : UpTo(walk, n)
<1>3. covered(s, start, end, requireCommitted) <=> walk[n].answer = "yes"
  BY DEF covered
<1>4. UpTo(walk, n)
  BY <1>1, <1>2
<1> HIDE DEF walk
<1>5. walk[0] = first /\ \A i \in 1 .. n : walk[i] = Cover(walk[i - 1], s[i], end, requireCommitted)
  BY <1>1, <1>4
<1> DEFINE Holds(i) == WalkInvariant(s, start, end, requireCommitted, i, walk[i])
           Bad == {i \in 0 .. n : ~Holds(i)}
<1>6. Bad = {}
  <2> SUFFICES ASSUME Bad # {} PROVE FALSE
    OBVIOUS
  <2>1. PICK i \in Bad : \A k \in Bad : i <= k
    <3>1. Bad \subseteq Nat
      OBVIOUS
    <3> HIDE DEF Bad
    <3> QED
      BY <3>1, LeastNatural
  <2>2. i \in 0 .. n /\ ~Holds(i)
    OBVIOUS
  <2>3. i # 0
    <3>1. walk[0].cursor = start /\ walk[0].answer = "none" /\ start \in start .. end - 1
      BY <1>5, MaxAddressAssumption
    <3>2. Holds(0)
      BY <3>1, MaxAddressAssumption DEF WalkInvariant
    <3> QED
      BY <2>2, <3>2
  <2>4. i - 1 \in 0 .. n /\ i - 1 \notin Bad /\ i \in 1 .. n
    <3> HIDE DEF Bad
    <3> QED
      BY <1>1, <2>1, <2>2, <2>3
  <2>5. Holds(i - 1)
    BY <2>4
  <2>6. Holds(i)
    BY <1>5, <2>4, <2>5, WalkStep
  <2> QED
    BY <2>2, <2>6
<1>7. Holds(n)
  <2>1. n \in 0 .. n /\ n \notin Bad
    BY <1>1, <1>6
  <2> QED
    BY <2>1
<1>8. CASE walk[n].answer = "none"
  <2> DEFINE c == walk[n].cursor
  <2>1. c \in start .. end - 1 /\ \A j \in 1 .. n : s[j].end <= c
    BY <1>7, <1>8 DEF WalkInvariant
  <2> HIDE DEF c
  <2>2. ~suited(c)
    <3> SUFFICES ASSUME NEW g \in Members(s), Suits(g, c, requireCommitted) PROVE FALSE
      OBVIOUS
    <3>1. PICK j \in 1 .. n : g = s[j]
      BY <1>1
    <3>2. g.end <= c /\ c < g.end /\ g \in Nonempty
      BY <1>1, <2>1, <3>1 DEF Suits, Covers
    <3> QED
      BY <2>1, <3>2, SegmentFields
  <2> QED
    BY <1>3, <1>8, <2>1, <2>2
<1>9. CASE walk[n].answer # "none"
  BY <1>3, <1>7, <1>9 DEF WalkInvariant
<1> QED
  BY <1>8, <1>9

\* What covered asks, of the memory the list means.
LEMMA CoveredMemory ==
  ASSUME NEW s, Sorted(s), NEW start \in 0 .. MaxAddress, NEW end \in 0 .. MaxAddress,
         start < end
  PROVE  /\ covered(s, start, end, FALSE)
              <=> Spaces!AllMapped(Memory(s), start .. end - 1)
         /\ covered(s, start, end, TRUE)
              <=> Spaces!AllCommitted(Memory(s), start .. end - 1)
<1>1. \A a \in start .. end - 1 : a \in 0 .. MaxAddress - 1
  BY MaxAddressAssumption
<1>2. ASSUME NEW a \in start .. end - 1
      PROVE  /\ (\E g \in Members(s) : Suits(g, a, FALSE)) <=> Memory(s)[a].mapped
             /\ (\E g \in Members(s) : Suits(g, a, TRUE))
                  <=> Memory(s)[a].mapped /\ Memory(s)[a].committed
  <2>1. Memory(s)[a].mapped <=> \E g \in Members(s) : Covers(g, a)
    BY <1>1, MemoryAt
  <2>2. ASSUME NEW g \in Members(s), Covers(g, a)
        PROVE  Memory(s)[a].committed <=> g.committed
    <3>1. Memory(s)[a] = Spaces!Mapped(g.protection, g.committed, g.base)
      BY <1>1, <2>2, MemoryAt
    <3>2. Memory(s)[a].committed = g.committed
      BY <3>1 DEF Spaces!Mapped
    <3> QED
      BY <3>2
  <2> QED
    BY <2>1, <2>2 DEF Suits
<1>3. covered(s, start, end, FALSE)
        <=> \A a \in start .. end - 1 : \E g \in Members(s) : Suits(g, a, FALSE)
  BY CoveredIsMapped
<1>4. covered(s, start, end, TRUE)
        <=> \A a \in start .. end - 1 : \E g \in Members(s) : Suits(g, a, TRUE)
  BY CoveredIsMapped
<1> QED
  BY <1>2, <1>3, <1>4 DEF Spaces!AllMapped, Spaces!AllCommitted

-----------------------------------------------------------------------------
(* Splitting.                                                              *)

\* A part of a sorted list is sorted.
LEMMA SubListSorted ==
  ASSUME NEW s, Sorted(s), NEW i \in 1 .. Len(s) + 1, NEW j \in 0 .. Len(s), i <= j + 1
  PROVE  /\ Sorted(SubSeq(s, i, j))
         /\ Members(SubSeq(s, i, j)) = {s[k] : k \in i .. j}
<1> DEFINE n == Len(s)
           m == j - i + 1
           t == SubSeq(s, i, j)
<1>1. /\ s \in Seq(Nonempty) /\ n \in Nat /\ m \in Nat /\ i \in Nat /\ j \in Nat
      /\ \A k \in 1 .. n : s[k] \in Nonempty
      /\ \A k, l \in 1 .. n : k < l => Before(s[k], s[l])
  BY DEF Sorted
<1>2. \A k \in 1 .. m : i + k - 1 \in 1 .. n /\ i + k - 1 \in i .. j
  BY <1>1
<1>3. t = [k \in 1 .. m |-> s[i + k - 1]]
  BY <1>1
<1>4. /\ t \in Seq(Nonempty) /\ DOMAIN t = 1 .. m
      /\ \A k \in 1 .. m : t[k] = s[i + k - 1]
  <2>1. \A k \in 1 .. m : s[i + k - 1] \in Nonempty
    BY <1>1, <1>2
  <2>2. t \in [1 .. m -> Nonempty]
    BY <1>3, <2>1
  <2> QED
    BY <1>1, <1>3, <2>2
<1> HIDE DEF t
<1>5. ASSUME NEW k \in 1 .. m, NEW l \in 1 .. m, k < l
      PROVE  Before(t[k], t[l])
  <2>1. i + k - 1 < i + l - 1
    BY <1>1, <1>5
  <2> QED
    BY <1>1, <1>2, <1>4, <2>1
<1>6. Members(t) = {s[k] : k \in i .. j}
  <2>1. Members(t) = {t[k] : k \in 1 .. m}
    BY <1>4 DEF Members
  <2>2. \A k \in 1 .. m : t[k] \in {s[l] : l \in i .. j}
    BY <1>2, <1>4
  <2>3. ASSUME NEW k \in i .. j
        PROVE  s[k] \in {t[l] : l \in 1 .. m}
    <3>1. k - i + 1 \in 1 .. m /\ i + (k - i + 1) - 1 = k
      BY <1>1
    <3>2. t[k - i + 1] = s[k]
      BY <1>4, <3>1
    <3> QED
      BY <3>1, <3>2
  <2> QED
    BY <2>1, <2>2, <2>3
<1> QED
  BY <1>4, <1>5, <1>6 DEF Sorted, t

\* No segment reaches over the point.
Cut(s, point) == \A g \in Members(s) : ~(g.start < point /\ point < g.end)

\* t is s with some segments cut into parts.
Parts(t, s) ==
  /\ \A h \in Members(t) : \E g \in Members(s) : Within(h, g)
  /\ \A g \in Members(s), a \in Nat : Covers(g, a) =>
       \E h \in Members(t) : Within(h, g) /\ Covers(h, a)

\* split_at cuts the one segment that reaches over the point.
LEMMA SplitParts ==
  ASSUME NEW s, Sorted(s), NEW point \in 0 .. MaxAddress
  PROVE  LET t == split_at(s, point)
         IN Sorted(t) /\ Cut(t, point) /\ Parts(t, s)
<1> DEFINE n == Len(s)
           inside(i) == s[i].start < point /\ point < s[i].end
           t == split_at(s, point)
<1>1. /\ s \in Seq(Nonempty) /\ n \in Nat /\ DOMAIN s = 1 .. n
      /\ \A k \in 1 .. n : s[k] \in Nonempty
      /\ \A k, l \in 1 .. n : k < l => Before(s[k], s[l])
      /\ Members(s) = {s[k] : k \in 1 .. n}
  BY DEF Sorted, Members
<1>2. CASE ~\E i \in DOMAIN s : inside(i)
  <2>1. t = s
    BY <1>2 DEF split_at
  <2>2. Cut(s, point)
    BY <1>1, <1>2 DEF Cut
  <2>3. \A g \in Members(s) : Within(g, g)
    BY MembersApart, SegmentFields DEF Within
  <2> QED
    BY <2>1, <2>2, <2>3 DEF Parts
<1>3. CASE \E i \in DOMAIN s : inside(i)
  <2> DEFINE T == {i \in 1 .. n : inside(i)}
             First(i) == i \in DOMAIN s /\ inside(i) /\ \A j \in 1 .. i - 1 : ~inside(j)
  <2>1. \E i \in DOMAIN s : inside(i) /\ \A j \in 1 .. i - 1 : ~inside(j)
    <3>1. T \subseteq Nat /\ T # {}
      BY <1>1, <1>3
    <3>2. PICK i \in T : \A j \in T : i <= j
      <4> HIDE DEF T
      <4> QED
        BY <3>1, LeastNatural
    <3>3. i \in 1 .. n /\ inside(i)
      OBVIOUS
    <3>4. ASSUME NEW j \in 1 .. i - 1
          PROVE  ~inside(j)
      <4>1. j \in 1 .. n /\ ~(i <= j)
        BY <1>1, <3>3
      <4> QED
        BY <3>2, <4>1
    <3> QED
      BY <1>1, <3>3, <3>4
  <2> DEFINE i == CHOOSE i \in DOMAIN s : inside(i) /\ \A j \in 1 .. i - 1 : ~inside(j)
             g == s[i]
             left == [g EXCEPT !.end = point]
             right == [g EXCEPT !.start = point]
             u == [s EXCEPT ![i].end = point]
             A == SubSeq(u, 1, i)
             C == SubSeq(u, i + 1, n)
  <2>2. i \in 1 .. n /\ g.start < point /\ point < g.end
    BY <1>1, <2>1
  <2>3. t = InsertAt(u, i + 1, right)
    BY <1>3 DEF split_at
  <2> HIDE DEF i, T
  <2>4. g \in Nonempty /\ g \in Members(s)
    BY <1>1, <2>2
  <2>5. /\ left \in Nonempty /\ Within(left, g) /\ left.start = g.start /\ left.end = point
        /\ right \in Nonempty /\ Within(right, g) /\ right.start = point /\ right.end = g.end
        /\ Before(left, right)
    <3> HIDE DEF g
    <3> QED
      BY <2>2, <2>4, CutSegment
  <2>6. u = [k \in 1 .. n |-> IF k = i THEN left ELSE s[k]]
    BY <1>1, <2>2
  <2> HIDE DEF left, right, u
  <2>7. /\ u \in Seq(Nonempty) /\ Len(u) = n /\ DOMAIN u = 1 .. n /\ u[i] = left
        /\ \A k \in 1 .. n : k # i => u[k] = s[k]
    <3>1. u \in [1 .. n -> Nonempty]
      BY <1>1, <2>5, <2>6
    <3> QED
      BY <1>1, <2>2, <2>6, <3>1, LenProperties
  <2> HIDE DEF n
  <2>8. /\ \A k \in 1 .. n : k < i => Before(s[k], g) /\ Before(s[k], left)
        /\ \A k \in 1 .. n : i < k => /\ Before(g, s[k]) /\ Before(left, s[k])
                                      /\ Before(right, s[k])
    <3>1. \A k \in 1 .. n : k < i => Before(s[k], g)
      BY <1>1, <2>2
    <3>2. \A k \in 1 .. n : i < k => Before(g, s[k])
      BY <1>1, <2>2
    <3> HIDE DEF g
    <3>3. \A k \in 1 .. n : s[k].start \in Nat
      BY <1>1, SegmentFields
    <3>4. g.end \in Nat /\ point \in Nat /\ point < g.end
      BY <2>2, <2>4, SegmentFields
    <3> QED
      BY <2>5, <3>1, <3>2, <3>3, <3>4 DEF Before
  <2>9. Sorted(u)
    <3>1. ASSUME NEW k \in 1 .. n, NEW l \in 1 .. n, k < l
          PROVE  Before(u[k], u[l])
      BY <1>1, <2>2, <2>7, <2>8, <3>1
    <3> QED
      BY <2>7, <3>1 DEF Sorted
  <2>10. /\ Sorted(A) /\ Members(A) = {u[k] : k \in 1 .. i}
         /\ Sorted(C) /\ Members(C) = {u[k] : k \in i + 1 .. n}
    <3>1. 1 \in 1 .. n + 1 /\ i \in 0 .. n /\ 1 <= i + 1
      BY <1>1, <2>2
    <3>2. i + 1 \in 1 .. n + 1 /\ n \in 0 .. n /\ i + 1 <= n + 1
      BY <1>1, <2>2
    <3> QED
      BY <2>7, <2>9, <3>1, <3>2, SubListSorted
  <2>11. Sorted(<<right>>) /\ Members(<<right>>) = {right}
    BY <2>5, OneSegment
  <2>12. t = A \o <<right>> \o C
    <3>1. (i + 1) - 1 = i
      BY <2>2
    <3> QED
      BY <2>3, <2>7, <3>1 DEF InsertAt
  <2>13. \A h \in Members(A) : Before(h, right)
    <3>1. ASSUME NEW k \in 1 .. i
          PROVE  Before(u[k], right)
      <4>1. CASE k = i
        BY <2>5, <2>7, <4>1
      <4>2. CASE k # i
        <5>1. k \in 1 .. n /\ k < i
          BY <1>1, <2>2, <4>2
        <5>2. Before(s[k], g) /\ u[k] = s[k] /\ s[k] \in Nonempty
          BY <1>1, <2>7, <2>8, <4>2, <5>1
        <5> HIDE DEF g
        <5> QED
          BY <2>2, <2>4, <2>5, <5>2, SegmentFields DEF Before
      <4> QED
        BY <4>1, <4>2
    <3> QED
      BY <2>10, <3>1
  <2>14. \A h \in Members(C) : Before(right, h)
    <3>1. \A k \in i + 1 .. n : k \in 1 .. n /\ i < k
      BY <1>1, <2>2
    <3> QED
      BY <2>7, <2>8, <2>10, <3>1
  <2>15. \A h \in Members(A), k \in Members(C) : Before(h, k)
    <3>1. \A k \in 1 .. i, l \in i + 1 .. n : k \in 1 .. n /\ l \in 1 .. n /\ k < l
      BY <1>1, <2>2
    <3>2. \A k, l \in 1 .. n : k < l => Before(u[k], u[l])
      BY <2>7, <2>9 DEF Sorted
    <3> QED
      BY <2>10, <3>1, <3>2
  <2> HIDE DEF A, C, g
  <2>16. /\ Sorted(A \o <<right>>)
         /\ Members(A \o <<right>>) = Members(A) \cup {right}
    BY <2>10, <2>11, <2>13, ConcatSorted
  <2>17. Sorted(t) /\ Members(t) = (Members(A) \cup {right}) \cup Members(C)
    BY <2>10, <2>12, <2>14, <2>15, <2>16, ConcatSorted
  <2>18. Members(t) = (Members(s) \ {g}) \cup {left, right}
    <3>1. \A k \in 1 .. n : k # i => s[k] # g
      <4> SUFFICES ASSUME NEW k \in 1 .. n, k # i, s[k] = g PROVE FALSE
        OBVIOUS
      <4>1. Before(g, g)
        BY <1>1, <2>2, <2>8
      <4> QED
        BY <2>4, <4>1, SegmentFields DEF Before
    <3>2. 1 .. i = (1 .. i - 1) \cup {i} /\ 1 .. n = ((1 .. i - 1) \cup {i}) \cup (i + 1 .. n)
      BY <1>1, <2>2
    <3>3. /\ \A k \in 1 .. i - 1 : k \in 1 .. n /\ k # i
          /\ \A k \in i + 1 .. n : k \in 1 .. n /\ k # i
      BY <1>1, <2>2
    <3>4. Members(A) = {s[k] : k \in 1 .. i - 1} \cup {left}
      BY <2>7, <2>10, <3>2, <3>3
    <3>5. Members(C) = {s[k] : k \in i + 1 .. n}
      BY <2>7, <2>10, <3>3
    <3>6. Members(s) \ {g} = {s[k] : k \in 1 .. i - 1} \cup {s[k] : k \in i + 1 .. n}
      <4>1. s[i] = g
        BY DEF g
      <4> QED
        BY <1>1, <3>1, <3>2, <3>3, <4>1
    <3> QED
      BY <2>17, <3>4, <3>5, <3>6
  <2>19. Cut(t, point)
    <3>1. ASSUME NEW h \in Members(s), h # g
          PROVE  ~(h.start < point /\ point < h.end)
      <4>1. h \in Nonempty /\ (Before(h, g) \/ Before(g, h))
        BY <2>4, <3>1, MembersApart
      <4> QED
        BY <2>2, <2>4, <4>1, SegmentFields DEF Before
    <3> QED
      BY <2>2, <2>5, <2>18, <3>1 DEF Cut
  <2>20. Parts(t, s)
    <3>1. \A h \in Members(s) : Within(h, h)
      BY MembersApart, SegmentFields DEF Within
    <3>2. \A a \in Nat : Covers(g, a) => Covers(left, a) \/ Covers(right, a)
      BY <2>2, <2>4, <2>5, SegmentFields DEF Covers
    <3> QED
      BY <2>4, <2>5, <2>18, <3>1, <3>2 DEF Parts
  <2> QED
    BY <2>17, <2>19, <2>20
<1> QED
  BY <1>2, <1>3

\* Cutting segments into parts leaves the memory as it is.
LEMMA PartsMemory ==
  ASSUME NEW s, NEW t, Sorted(s), Sorted(t), Parts(t, s)
  PROVE  Memory(t) = Memory(s)
<1> DEFINE m == Memory(s)
<1>1. ASSUME NEW a \in 0 .. MaxAddress - 1
      PROVE  Memory(t)[a] = m[a]
  <2>1. a \in Nat
    BY MaxAddressAssumption
  <2>2. CASE \E g \in Members(s) : Covers(g, a)
    <3>1. PICK g \in Members(s) : Covers(g, a)
      BY <2>2
    <3>2. PICK h \in Members(t) : Within(h, g) /\ Covers(h, a)
      BY <2>1, <3>1 DEF Parts
    <3>3. Memory(s)[a] = Spaces!Mapped(g.protection, g.committed, g.base)
      BY <3>1, MemoryAt
    <3>4. Memory(t)[a] = Spaces!Mapped(h.protection, h.committed, h.base)
      BY <3>2, MemoryAt
    <3> QED
      BY <3>2, <3>3, <3>4 DEF Within
  <2>3. CASE \A g \in Members(s) : ~Covers(g, a)
    <3>1. \A h \in Members(t) : ~Covers(h, a)
      <4> SUFFICES ASSUME NEW h \in Members(t), Covers(h, a) PROVE FALSE
        OBVIOUS
      <4>1. PICK g \in Members(s) : Within(h, g)
        BY DEF Parts
      <4>2. g \in Nonempty /\ h \in Nonempty
        BY MembersApart
      <4>3. Covers(g, a)
        BY <2>1, <4>1, <4>2, SegmentFields DEF Covers, Within
      <4> QED
        BY <2>3, <4>3
    <3> QED
      BY <2>3, <3>1, MemoryAt
  <2> QED
    BY <2>2, <2>3
<1>2. m = [a \in 0 .. MaxAddress - 1 |-> m[a]]
  BY DEF Memory
<1> HIDE DEF m
<1>3. Memory(t) = m
  BY <1>1, <1>2, SameMemory
<1> QED
  BY <1>3 DEF m

\* The list set_range works on: cut at both ends of the range, with the same
\* memory as before.
LEMMA SplitTwice ==
  ASSUME NEW s, Sorted(s), NEW start \in 0 .. MaxAddress, NEW end \in 0 .. MaxAddress
  PROVE  LET t == split_at(split_at(s, start), end)
         IN /\ Sorted(t) /\ Cut(t, start) /\ Cut(t, end)
            /\ Memory(t) = Memory(s)
<1> DEFINE r == split_at(s, start)
           t == split_at(r, end)
<1>1. Sorted(r) /\ Cut(r, start) /\ Parts(r, s)
  BY SplitParts
<1> HIDE DEF r
<1>2. Sorted(t) /\ Cut(t, end) /\ Parts(t, r)
  BY <1>1, SplitParts
<1> HIDE DEF t
<1>3. Memory(t) = Memory(s)
  BY <1>1, <1>2, PartsMemory
<1>4. Cut(t, start)
  <2> SUFFICES ASSUME NEW h \in Members(t), h.start < start, start < h.end PROVE FALSE
    BY DEF Cut
  <2>1. PICK g \in Members(r) : Within(h, g)
    BY <1>2 DEF Parts
  <2>2. g \in Nonempty /\ h \in Nonempty
    BY <1>1, <1>2, MembersApart
  <2>3. g.start < start /\ start < g.end
    BY <2>1, <2>2, SegmentFields DEF Within
  <2> QED
    BY <1>1, <2>3 DEF Cut
<1> QED
  BY <1>2, <1>3, <1>4 DEF r, t

\* set_range changes the mapped addresses of a range and nothing else.
LEMMA SetRangeMemory ==
  ASSUME NEW s, Sorted(s), NEW start \in 0 .. MaxAddress, NEW end \in 0 .. MaxAddress,
         start < end, NEW committed \in BOOLEAN, NEW protection \in Nat,
         Spaces!AllMapped(Memory(s), start .. end - 1)
  PROVE  LET r == set_range(s, start, end, committed, protection)
         IN /\ Sorted(r)
            /\ Memory(r) = Spaces!Recommit(Memory(s), start .. end - 1, committed, protection)
<1> DEFINE t == split_at(split_at(s, start), end)
           n == Len(t)
           r == set_range(s, start, end, committed, protection)
           inner(g) == g.start >= start /\ g.end <= end
           Set(g) == IF inner(g) THEN [g EXCEPT !.committed = committed,
                                                !.protection = protection]
                                 ELSE g
           m == Spaces!Recommit(Memory(s), start .. end - 1, committed, protection)
<1>1. Sorted(t) /\ Cut(t, start) /\ Cut(t, end) /\ Memory(t) = Memory(s)
  BY SplitTwice
<1>2. r = [i \in DOMAIN t |-> Set(t[i])]
  BY DEF set_range
<1> HIDE DEF t, r
<1>3. /\ t \in Seq(Nonempty) /\ n \in Nat /\ DOMAIN t = 1 .. n
      /\ \A k \in 1 .. n : t[k] \in Nonempty
      /\ \A k, l \in 1 .. n : k < l => Before(t[k], t[l])
      /\ Members(t) = {t[k] : k \in 1 .. n}
  BY <1>1 DEF Sorted, Members
<1>4. ASSUME NEW g \in Nonempty
      PROVE  /\ Set(g) \in Nonempty /\ Set(g).start = g.start /\ Set(g).end = g.end
             /\ Set(g).base = g.base
             /\ inner(g) => Set(g).committed = committed /\ Set(g).protection = protection
             /\ ~inner(g) => Set(g) = g
  <2>1. CASE inner(g)
    <3> DEFINE h == [g EXCEPT !.committed = committed, !.protection = protection]
    <3>1. /\ h \in Segments /\ h.start = g.start /\ h.end = g.end /\ h.base = g.base
          /\ h.committed = committed /\ h.protection = protection
      BY DEF Nonempty, Segments
    <3>2. h \in Nonempty
      <4> HIDE DEF h
      <4> QED
        BY <3>1 DEF Nonempty
    <3>3. Set(g) = h
      BY <2>1
    <3> QED
      BY <2>1, <3>1, <3>2, <3>3
  <2>2. CASE ~inner(g)
    BY <2>2
  <2> QED
    BY <2>1, <2>2
<1>5. /\ r \in Seq(Nonempty) /\ DOMAIN r = 1 .. n /\ \A i \in 1 .. n : r[i] = Set(t[i])
  <2> HIDE DEF n, Set
  <2>1. r \in [1 .. n -> Nonempty]
    BY <1>2, <1>3, <1>4
  <2> QED
    BY <1>2, <1>3, <2>1, LenProperties
<1> HIDE DEF n, Set
<1>6. Sorted(r)
  <2>1. ASSUME NEW i \in 1 .. n, NEW j \in 1 .. n, i < j
        PROVE  Before(r[i], r[j])
    <3>1. Before(t[i], t[j]) /\ t[i] \in Nonempty /\ t[j] \in Nonempty
      BY <1>3, <2>1
    <3>2. r[i].end = t[i].end /\ r[j].start = t[j].start
      BY <1>4, <1>5, <3>1
    <3> QED
      BY <3>1, <3>2 DEF Before
  <2> QED
    BY <1>5, <2>1 DEF Sorted
<1>7. Members(r) = {Set(g) : g \in Members(t)}
  <2>1. Members(r) = {r[i] : i \in 1 .. n}
    BY <1>5 DEF Members
  <2> QED
    BY <1>3, <1>5, <2>1
<1>8. /\ m = [a \in 0 .. MaxAddress - 1 |-> m[a]]
      /\ \A a \in 0 .. MaxAddress - 1 :
           m[a] = IF a \in start .. end - 1
                    THEN Spaces!Mapped(protection, committed, Memory(s)[a].base)
                    ELSE Memory(s)[a]
  BY DEF Spaces!Recommit, Spaces!Addresses
<1> HIDE DEF m
<1>9. ASSUME NEW a \in 0 .. MaxAddress - 1
      PROVE  Memory(r)[a] = m[a]
  <2>1. a \in Nat /\ start \in Nat /\ end \in Nat
    BY MaxAddressAssumption
  <2>2. CASE \E g \in Members(t) : Covers(g, a)
    <3>1. PICK g \in Members(t) : Covers(g, a)
      BY <2>2
    <3>2. g \in Nonempty
      BY <1>1, MembersApart
    <3>3. Memory(s)[a] = Spaces!Mapped(g.protection, g.committed, g.base)
      BY <1>1, <3>1, MemoryAt
    <3>4. Set(g) \in Members(r) /\ Covers(Set(g), a)
      BY <1>4, <1>7, <3>1, <3>2 DEF Covers
    <3>5. Memory(r)[a] = Spaces!Mapped(Set(g).protection, Set(g).committed, Set(g).base)
      BY <1>6, <3>4, MemoryAt
    <3>6. inner(g) <=> a \in start .. end - 1
      <4>1. ~(g.start < start /\ start < g.end) /\ ~(g.start < end /\ end < g.end)
        BY <1>1, <3>1 DEF Cut
      <4> QED
        BY <2>1, <3>1, <3>2, <4>1, SegmentFields DEF Covers
    <3>7. CASE a \in start .. end - 1
      <4>1. Set(g).committed = committed /\ Set(g).protection = protection /\ Set(g).base = g.base
        BY <1>4, <3>2, <3>6, <3>7
      <4>2. Memory(s)[a].base = g.base
        BY <3>3 DEF Spaces!Mapped
      <4> QED
        BY <1>8, <3>5, <3>7, <4>1, <4>2
    <3>8. CASE a \notin start .. end - 1
      <4>1. Set(g) = g
        BY <1>4, <3>2, <3>6, <3>8
      <4> QED
        BY <1>8, <3>3, <3>5, <3>8, <4>1
    <3> QED
      BY <3>7, <3>8
  <2>3. CASE \A g \in Members(t) : ~Covers(g, a)
    <3>1. Memory(s)[a] = Spaces!Free /\ ~Memory(s)[a].mapped
      BY <1>1, <2>3, MemoryAt
    <3>2. a \notin start .. end - 1
      BY <3>1 DEF Spaces!AllMapped
    <3>3. \A h \in Members(r) : ~Covers(h, a)
      <4> SUFFICES ASSUME NEW g \in Members(t), Covers(Set(g), a) PROVE FALSE
        BY <1>7
      <4>1. g \in Nonempty
        BY <1>1, MembersApart
      <4>2. Covers(g, a)
        BY <1>4, <4>1 DEF Covers
      <4> QED
        BY <2>3, <4>2
    <3>4. Memory(r)[a] = Spaces!Free
      BY <1>6, <3>3, MemoryAt
    <3> QED
      BY <1>8, <3>1, <3>2, <3>4
  <2> QED
    BY <2>2, <2>3
<1>10. Memory(r) = m
  BY ZenonT(30), <1>8, <1>9, SameMemory
<1> QED
  BY <1>6, <1>10 DEF r, m

-----------------------------------------------------------------------------
(* Releasing.                                                              *)

\* release_windows frees what was reserved at the address and nothing else.
LEMMA ReleasedMemory ==
  ASSUME NEW s, Sorted(s), NEW address
  PROVE  LET r == release_windows(s, address)
         IN /\ Sorted(r)
            /\ Memory(r) = [a \in Spaces!Addresses |->
                              IF Memory(s)[a].mapped /\ Memory(s)[a].base = address
                                THEN Spaces!Free ELSE Memory(s)[a]]
<1> DEFINE n == Len(s)
           q == [i \in DOMAIN s |-> IF s[i].base = address THEN <<>> ELSE <<s[i]>>]
           r == release_windows(s, address)
           m == [a \in Spaces!Addresses |->
                   IF Memory(s)[a].mapped /\ Memory(s)[a].base = address
                     THEN Spaces!Free ELSE Memory(s)[a]]
<1>1. /\ n \in Nat /\ DOMAIN s = 1 .. n /\ \A i \in 1 .. n : s[i] \in Nonempty
      /\ \A i, j \in 1 .. n : i < j => Before(s[i], s[j])
      /\ Members(s) = {s[i] : i \in 1 .. n}
  BY DEF Sorted, Members
<1>2. /\ q = [i \in 1 .. n |-> q[i]]
      /\ \A i \in 1 .. n : q[i] = IF s[i].base = address THEN <<>> ELSE <<s[i]>>
  BY <1>1
<1>3. r = FlattenSeq(q)
  BY DEF release_windows
<1> HIDE DEF q, r, n
<1>4. Sorted(<<>>) /\ Members(<<>>) = {}
  BY DEF Sorted, Members
<1>5. ASSUME NEW i \in 1 .. n
      PROVE  Sorted(q[i]) /\ Members(q[i]) = IF s[i].base = address THEN {} ELSE {s[i]}
  BY <1>1, <1>2, <1>4, OneSegment
<1>6. ASSUME NEW i \in 1 .. n, NEW j \in 1 .. n, i < j,
             NEW g \in Members(q[i]), NEW h \in Members(q[j])
      PROVE  Before(g, h)
  <2>1. g = s[i] /\ h = s[j]
    BY <1>5, <1>6
  <2> QED
    BY <1>1, <1>6, <2>1
<1>7. Sorted(r) /\ Members(r) = UNION {Members(q[i]) : i \in 1 .. n}
  BY <1>1, <1>2, <1>3, <1>5, <1>6, FlattenJoins
<1>8. Members(r) = {g \in Members(s) : g.base # address}
  <2>1. ASSUME NEW g \in Members(r)
        PROVE  g \in Members(s) /\ g.base # address
    <3>1. PICK i \in 1 .. n : g \in Members(q[i])
      BY <1>7
    <3> QED
      BY <1>1, <1>5, <3>1
  <2>2. ASSUME NEW g \in Members(s), g.base # address
        PROVE  g \in Members(r)
    <3>1. PICK i \in 1 .. n : g = s[i]
      BY <1>1
    <3>2. g \in Members(q[i])
      BY <1>5, <2>2, <3>1
    <3> QED
      BY <1>7, <3>2
  <2> QED
    BY <2>1, <2>2
<1>9. /\ m = [a \in 0 .. MaxAddress - 1 |-> m[a]]
      /\ \A a \in 0 .. MaxAddress - 1 :
           m[a] = IF Memory(s)[a].mapped /\ Memory(s)[a].base = address
                    THEN Spaces!Free ELSE Memory(s)[a]
  BY DEF Spaces!Addresses
<1> HIDE DEF m
<1>10. ASSUME NEW a \in 0 .. MaxAddress - 1
       PROVE  Memory(r)[a] = m[a]
  <2>1. CASE \E g \in Members(s) : Covers(g, a)
    <3>1. PICK g \in Members(s) : Covers(g, a)
      BY <2>1
    <3>2. Memory(s)[a] = Spaces!Mapped(g.protection, g.committed, g.base) /\ Memory(s)[a].mapped
      BY <3>1, MemoryAt
    <3>3. Memory(s)[a].base = g.base
      BY <3>2 DEF Spaces!Mapped
    <3>4. CASE g.base # address
      <4>1. Memory(r)[a] = Spaces!Mapped(g.protection, g.committed, g.base)
        BY <1>7, <1>8, <3>1, <3>4, MemoryAt
      <4> QED
        BY <1>9, <3>2, <3>3, <3>4, <4>1
    <3>5. CASE g.base = address
      <4>1. \A h \in Members(r) : ~Covers(h, a)
        <5> SUFFICES ASSUME NEW h \in Members(r), Covers(h, a) PROVE FALSE
          OBVIOUS
        <5>1. h \in Members(s) /\ h # g
          BY <1>8, <3>5
        <5>2. h \in Nonempty /\ g \in Nonempty /\ (Before(g, h) \/ Before(h, g))
          BY <3>1, <5>1, MembersApart
        <5>3. a \in Nat
          BY MaxAddressAssumption
        <5> QED
          BY <3>1, <5>2, <5>3, SegmentFields DEF Before, Covers
      <4>2. Memory(r)[a] = Spaces!Free
        BY <1>7, <4>1, MemoryAt
      <4> QED
        BY <1>9, <3>2, <3>3, <3>5, <4>2
    <3> QED
      BY <3>4, <3>5
  <2>2. CASE \A g \in Members(s) : ~Covers(g, a)
    <3>1. Memory(s)[a] = Spaces!Free /\ ~Memory(s)[a].mapped
      BY <2>2, MemoryAt
    <3>2. Memory(r)[a] = Spaces!Free
      BY <1>7, <1>8, <2>2, MemoryAt
    <3> QED
      BY <1>9, <3>1, <3>2
  <2> QED
    BY <2>1, <2>2
<1>11. Memory(r) = m
  BY ZenonT(30), <1>9, <1>10, SameMemory
<1> QED
  BY <1>7, <1>11 DEF r, m

-----------------------------------------------------------------------------
(* The events.                                                             *)

\* The two specifications read an event alike.
LEMMA SameContract ==
  ASSUME NEW e
  PROVE  /\ \A p : Spaces!ValidEvent(e, p) <=> ValidEvent(e, p)
         /\ Spaces!ExpectedViolation(e) = ExpectedViolation(e)
         /\ Spaces!ValidRange(e) <=> ValidRange(e)
         /\ Spaces!RangeOf(e) = RangeOf(e)
<1>1. \A p : Spaces!ValidEvent(e, p) <=> ValidEvent(e, p)
  BY DEF Spaces!ValidEvent, ValidEvent, Spaces!Platform, Platform, Spaces!ErrorDomain,
         ErrorDomain, Spaces!SupportsExpectation, SupportsExpectation, Spaces!AllowedFlags,
         AllowedFlags, Spaces!RequiredFlags, RequiredFlags, Spaces!AllocOperations,
         AllocOperations, Spaces!PosixOperations, PosixOperations
<1>2. Spaces!ExpectedViolation(e) = ExpectedViolation(e)
  BY DEF Spaces!ExpectedViolation, ExpectedViolation
<1>3. Spaces!ValidRange(e) <=> ValidRange(e)
  BY DEF Spaces!ValidRange, ValidRange
<1>4. Spaces!RangeOf(e) = RangeOf(e)
  BY DEF Spaces!RangeOf, RangeOf
<1> QED
  BY <1>1, <1>2, <1>3, <1>4

\* What the lemmas ask of an event.
TypedEvent(e) == e.address \in Nat /\ e.size \in Nat /\ e.protection \in Nat

\* The range of an event that names one.
LEMMA EventRange ==
  ASSUME NEW e, TypedEvent(e), ValidRange(e)
  PROVE  /\ e.address \in 0 .. MaxAddress /\ End(e) \in 0 .. MaxAddress
         /\ e.address \in Nat /\ e.address < End(e)
         /\ RangeOf(e) = e.address .. End(e) - 1
         /\ e.protection \in Nat
BY MaxAddressAssumption DEF TypedEvent, ValidRange, End, RangeOf

\* Replay accepts an event where the memory admits it.
LEMMA ReplayableIsAdmitted ==
  ASSUME NEW s, Sorted(s), NEW e, TypedEvent(e)
  PROVE  Replayable(s, e) <=> Spaces!Admits(Memory(s), e)
<1>1. (Spaces!ValidRange(e) <=> ValidRange(e)) /\ Spaces!RangeOf(e) = RangeOf(e)
  BY SameContract
<1>2. ASSUME ValidRange(e)
      PROVE  /\ overlaps(s, e.address, End(e)) <=> ~Spaces!AllFree(Memory(s), RangeOf(e))
             /\ covered(s, e.address, End(e), FALSE)
                  <=> Spaces!AllMapped(Memory(s), RangeOf(e))
             /\ covered(s, e.address, End(e), TRUE)
                  <=> Spaces!AllCommitted(Memory(s), RangeOf(e))
  <2>1. /\ e.address \in 0 .. MaxAddress /\ End(e) \in 0 .. MaxAddress
        /\ e.address < End(e) /\ RangeOf(e) = e.address .. End(e) - 1
    BY <1>2, EventRange
  <2> QED
    BY <2>1, OverlapsIsMapped, CoveredMemory
<1>3. (\E i \in DOMAIN s : s[i].base = e.address)
        <=> \E a \in Spaces!Addresses : Memory(s)[a].mapped /\ Memory(s)[a].base = e.address
  <2>1. ASSUME NEW i \in DOMAIN s, s[i].base = e.address
        PROVE  \E a \in Spaces!Addresses :
                 Memory(s)[a].mapped /\ Memory(s)[a].base = e.address
    <3> DEFINE g == s[i]
               a == g.start
    <3>1. g \in Members(s) /\ g \in Nonempty /\ g.base = e.address
      BY <2>1, MembersApart DEF Members
    <3> HIDE DEF g
    <3>2. a \in 0 .. MaxAddress - 1 /\ Covers(g, a)
      BY <3>1, SegmentFields DEF Covers
    <3> HIDE DEF a
    <3>3. Memory(s)[a] = Spaces!Mapped(g.protection, g.committed, g.base) /\ Memory(s)[a].mapped
      BY <3>1, <3>2, MemoryAt
    <3>4. Memory(s)[a].base = g.base
      BY <3>3 DEF Spaces!Mapped
    <3> QED
      BY <3>1, <3>2, <3>3, <3>4 DEF Spaces!Addresses
  <2>2. ASSUME NEW a \in Spaces!Addresses, Memory(s)[a].mapped, Memory(s)[a].base = e.address
        PROVE  \E i \in DOMAIN s : s[i].base = e.address
    <3>1. a \in 0 .. MaxAddress - 1
      BY DEF Spaces!Addresses
    <3>2. PICK g \in Members(s) : Covers(g, a)
      BY <2>2, <3>1, MemoryAt
    <3>3. Memory(s)[a] = Spaces!Mapped(g.protection, g.committed, g.base)
      BY <3>1, <3>2, MemoryAt
    <3>4. Memory(s)[a].base = g.base
      BY <3>3 DEF Spaces!Mapped
    <3> QED
      BY <2>2, <3>2, <3>4 DEF Members
  <2> QED
    BY <2>1, <2>2
<1> QED
  BY <1>1, <1>2, <1>3 DEF Replayable, Spaces!Admits

\* The list after an accepted event is sorted and means what the event did.
LEMMA ReplayedIsEffect ==
  ASSUME NEW s, Sorted(s), NEW e, TypedEvent(e), Replayable(s, e)
  PROVE  /\ Sorted(Replayed(s, e))
         /\ Memory(Replayed(s, e)) = Spaces!Effect(Memory(s), e)
<1> DEFINE start == e.address
           end == End(e)
           m == Memory(s)
<1>1. Spaces!RangeOf(e) = RangeOf(e)
  BY SameContract
<1>2. ASSUME ValidRange(e)
      PROVE  /\ start \in 0 .. MaxAddress /\ end \in 0 .. MaxAddress /\ start < end
             /\ start \in Nat /\ RangeOf(e) = start .. end - 1
             /\ e.protection \in Nat
  BY <1>2, EventRange
<1>3. ASSUME ValidRange(e), NEW committed \in BOOLEAN, NEW base \in Nat
      PROVE  LET g == Segment(start, end, e.protection, committed, base)
             IN /\ g \in Nonempty /\ g.start = start /\ g.end = end
                /\ g.protection = e.protection /\ g.committed = committed /\ g.base = base
  BY <1>2, <1>3 DEF Segment, Nonempty, Segments
<1>4. CASE e.operation = "mmap"
  <2> DEFINE r == IF "replace" \in e.flags THEN erase_range(s, start, end) ELSE s
             g == Segment(start, end, e.protection, TRUE, 0)
             v == Spaces!Mapped(e.protection, TRUE, 0)
  <2>1. ValidRange(e) /\ ("replace" \in e.flags \/ ~overlaps(s, start, end))
    BY <1>4 DEF Replayable
  <2>2. /\ g \in Nonempty /\ g.start = start /\ g.end = end
        /\ g.protection = e.protection /\ g.committed = TRUE /\ g.base = 0
    BY <1>3, <2>1
  <2>3. /\ start \in 0 .. MaxAddress /\ end \in 0 .. MaxAddress /\ start < end
        /\ RangeOf(e) = start .. end - 1
    BY <1>2, <2>1
  <2>4. Replayed(s, e) = sort_segments(Append(r, g)) /\ Spaces!Effect(m, e)
          = Spaces!Assign(m, RangeOf(e), v)
    BY <1>1, <1>4 DEF Replayed, Spaces!Effect
  <2> HIDE DEF g, start, end
  <2>5. /\ Sorted(r) /\ ~overlaps(r, start, end)
        /\ Spaces!Assign(Memory(r), RangeOf(e), v) = Spaces!Assign(m, RangeOf(e), v)
    <3>1. CASE "replace" \in e.flags
      <4>1. r = erase_range(s, start, end)
        BY <3>1
      <4> HIDE DEF r
      <4>2. /\ Sorted(r) /\ \A h \in Members(r) : h.end <= start \/ end <= h.start
        BY <2>3, <4>1, EraseRange
      <4>3. ~overlaps(r, start, end)
        <5>1. ASSUME NEW h \in Members(r), h.start < end, start < h.end
              PROVE  FALSE
          <6>1. h \in Nonempty
            BY <4>2, MembersApart
          <6> QED
            BY <2>3, <4>2, <5>1, <6>1, SegmentFields
        <5> QED
          BY <2>3, <4>2, <5>1, OverlapsIsMapped
      <4>4. Memory(r) = Spaces!Assign(m, start .. end - 1, Spaces!Free)
        BY <2>3, <4>1, ErasedMemory
      <4>5. Spaces!Assign(Memory(r), RangeOf(e), v) = Spaces!Assign(m, RangeOf(e), v)
        BY <2>3, <4>4 DEF Spaces!Assign
      <4> QED
        BY <4>2, <4>3, <4>5
    <3>2. CASE "replace" \notin e.flags
      BY <2>1, <3>2
    <3> QED
      BY <3>1, <3>2
  <2> HIDE DEF r
  <2>6. /\ Sorted(sort_segments(Append(r, g)))
        /\ Memory(sort_segments(Append(r, g)))
             = Spaces!Assign(Memory(r), g.start .. g.end - 1,
                             Spaces!Mapped(g.protection, g.committed, g.base))
    BY <2>2, <2>5, InsertedMemory
  <2> QED
    BY <2>2, <2>3, <2>4, <2>5, <2>6
<1>5. CASE e.operation = "munmap"
  <2>1. ValidRange(e)
    BY <1>5 DEF Replayable
  <2>2. /\ Replayed(s, e) = erase_range(s, start, end)
        /\ Spaces!Effect(m, e) = Spaces!Assign(m, RangeOf(e), Spaces!Free)
    BY <1>1, <1>5 DEF Replayed, Spaces!Effect
  <2> HIDE DEF start, end
  <2> QED
    BY <1>2, <2>1, <2>2, EraseRange, ErasedMemory
<1>6. CASE e.operation = "reserve"
  <2> DEFINE g == Segment(start, end, e.protection, "commit" \in e.flags, e.address)
  <2>1. ValidRange(e) /\ ~overlaps(s, start, end)
    BY <1>6 DEF Replayable
  <2>2. /\ Replayed(s, e) = sort_segments(Append(s, g))
        /\ Spaces!Effect(m, e)
             = Spaces!Assign(m, RangeOf(e),
                             Spaces!Mapped(e.protection, "commit" \in e.flags, e.address))
    BY <1>1, <1>6 DEF Replayed, Spaces!Effect
  <2>3. e.address \in Nat /\ ("commit" \in e.flags) \in BOOLEAN
    BY DEF TypedEvent
  <2>4. /\ g \in Nonempty /\ g.start = start /\ g.end = end
        /\ g.protection = e.protection /\ g.committed = ("commit" \in e.flags)
        /\ g.base = e.address
    BY <1>3, <2>1, <2>3
  <2> HIDE DEF g
  <2>5. /\ Sorted(sort_segments(Append(s, g)))
        /\ Memory(sort_segments(Append(s, g)))
             = Spaces!Assign(Memory(s), g.start .. g.end - 1,
                             Spaces!Mapped(g.protection, g.committed, g.base))
    BY <2>1, <2>4, InsertedMemory
  <2> QED
    BY <1>2, <2>1, <2>2, <2>4, <2>5
<1>7. ASSUME NEW committed \in BOOLEAN, NEW protection \in Nat, ValidRange(e),
             Spaces!AllMapped(m, RangeOf(e)),
             Replayed(s, e) = set_range(s, start, end, committed, protection),
             Spaces!Effect(m, e) = Spaces!Recommit(m, RangeOf(e), committed, protection)
      PROVE  /\ Sorted(Replayed(s, e))
             /\ Memory(Replayed(s, e)) = Spaces!Effect(m, e)
  <2>1. /\ start \in 0 .. MaxAddress /\ end \in 0 .. MaxAddress /\ start < end
        /\ RangeOf(e) = start .. end - 1
    BY <1>2, <1>7
  <2> HIDE DEF start, end
  <2> QED
    BY <1>7, <2>1, SetRangeMemory
<1>8. CASE e.operation \in {"mprotect", "protect", "commit", "decommit"}
  <2>1. ValidRange(e) /\ Spaces!Admits(m, e)
    BY <1>8, ReplayableIsAdmitted DEF Replayable
  <2>2. Spaces!AllMapped(m, RangeOf(e))
    BY <1>1, <1>8, <2>1 DEF Spaces!Admits, Spaces!AllMapped, Spaces!AllCommitted
  <2>3. CASE e.operation = "decommit"
    <3>1. Replayed(s, e) = set_range(s, start, end, FALSE, 0)
      BY <2>3 DEF Replayed
    <3>2. Spaces!Effect(m, e) = Spaces!Recommit(m, RangeOf(e), FALSE, 0)
      BY <1>1, <2>3 DEF Spaces!Effect
    <3> QED
      BY <1>7, <2>1, <2>2, <3>1, <3>2
  <2>4. CASE e.operation # "decommit"
    <3>1. Replayed(s, e) = set_range(s, start, end, TRUE, e.protection)
      BY <1>8, <2>4 DEF Replayed
    <3>2. Spaces!Effect(m, e) = Spaces!Recommit(m, RangeOf(e), TRUE, e.protection)
      BY <1>1, <1>8, <2>4 DEF Spaces!Effect
    <3> QED
      BY <1>2, <1>7, <2>1, <2>2, <3>1, <3>2
  <2> QED
    BY <2>3, <2>4
<1>9. CASE e.operation = "release"
  <2>1. Replayed(s, e) = release_windows(s, start)
    BY <1>9 DEF Replayed
  <2>2. Spaces!Effect(m, e) = [a \in Spaces!Addresses |->
                                 IF m[a].mapped /\ m[a].base = start
                                   THEN Spaces!Free ELSE m[a]]
    BY <1>9 DEF Spaces!Effect
  <2> HIDE DEF start
  <2> QED
    BY <2>1, <2>2, ReleasedMemory
<1>10. CASE e.operation \notin {"mmap", "munmap", "reserve", "mprotect", "protect", "commit",
                                "decommit", "release"}
  <2>1. Replayed(s, e) = s /\ Spaces!Effect(m, e) = m
    BY <1>10 DEF Replayed, Spaces!Effect
  <2> QED
    BY <2>1
<1> QED
  BY <1>4, <1>5, <1>6, <1>8, <1>9, <1>10

-----------------------------------------------------------------------------
(* The theorems.                                                           *)

LEMMA EventsAreTyped == \A e \in Events : TypedEvent(e)
BY EventsAssumption DEF TypedEvent

\* Through any sequence of events the live memory is a sorted list of nonempty
\* segments apart from one another.
THEOREM SortedThroughout == Spec => []Sorted(segments)
<1>1. Init => Sorted(segments)
  BY DEF Init, Sorted
<1>2. Sorted(segments) /\ [Next]_vars => Sorted(segments)'
  <2> SUFFICES ASSUME Sorted(segments), [Next]_vars PROVE Sorted(segments')
    BY DEF Sorted
  <2>1. ASSUME NEW e \in Events, Step(e)
        PROVE  Sorted(segments')
    <3>1. CASE segments' = segments
      BY <3>1
    <3>2. CASE Replayable(segments, e) /\ segments' = Replayed(segments, e)
      BY <3>2, EventsAreTyped, ReplayedIsEffect
    <3> QED
      BY <2>1, <3>1, <3>2 DEF Step
  <2>2. CASE UNCHANGED vars
    BY <2>2 DEF vars
  <2> QED
    BY <2>1, <2>2 DEF Next
<1> QED
  BY <1>1, <1>2, PTL DEF Spec

\* SegmentsWellFormed: what covered relies on holds in every state of a replay.
THEOREM WellFormed == Spec => []SegmentsWellFormed
<1>1. Sorted(segments) => SegmentsWellFormed
  <2> SUFFICES ASSUME Sorted(segments) PROVE SegmentsWellFormed
    OBVIOUS
  <2>1. \A i \in DOMAIN segments : segments[i] \in Nonempty
    BY DEF Sorted
  <2> QED
    BY <2>1, SegmentFields DEF SegmentsWellFormed, Sorted, Before
<1> QED
  BY <1>1, SortedThroughout, PTL

\* ImplementsAddressSpace: replay over segments accepts, refuses and changes
\* what the specification over single addresses does.
THEOREM Refinement == Spec => ImplementsAddressSpace
<1>1. Init => Spaces!Init
  <2> SUFFICES ASSUME Init PROVE Memory(segments) = [a \in Spaces!Addresses |-> Spaces!Free]
    BY DEF Init, Spaces!Init
  <2> DEFINE m == [a \in Spaces!Addresses |-> Spaces!Free]
  <2>1. segments = <<>> /\ Sorted(segments) /\ Members(segments) = {}
    BY DEF Init, Sorted, Members
  <2>2. /\ m = [a \in 0 .. MaxAddress - 1 |-> m[a]]
        /\ \A a \in 0 .. MaxAddress - 1 : m[a] = Spaces!Free
    BY DEF Spaces!Addresses
  <2> HIDE DEF m
  <2>3. \A a \in 0 .. MaxAddress - 1 : Memory(segments)[a] = m[a]
    BY <2>1, <2>2, MemoryAt
  <2>4. Memory(segments) = m
    BY <2>2, <2>3, SameMemory
  <2> QED
    BY <2>4 DEF m
<1>2. Sorted(segments) /\ [Next]_vars
        => [Spaces!Next]_<<Memory(segments), platform, status, violations>>
  <2> SUFFICES ASSUME Sorted(segments), [Next]_vars
               PROVE  [Spaces!Next]_<<Memory(segments), platform, status, violations>>
    OBVIOUS
  <2>1. ASSUME NEW e \in Events, Step(e)
        PROVE  Spaces!Accept(e) \/ Spaces!Refuse(e)
    <3>1. /\ Spaces!Credible(e) <=> ValidEvent(e, platform) /\ e.violation = ExpectedViolation(e)
          /\ Replayable(segments, e) <=> Spaces!Admits(Memory(segments), e)
      BY SameContract, EventsAreTyped, ReplayableIsAdmitted DEF Spaces!Credible
    <3>2. CASE Spaces!Credible(e) /\ (e.success => Replayable(segments, e))
      <4>1. /\ status = "running" /\ UNCHANGED <<platform, status>>
            /\ segments' = IF e.success THEN Replayed(segments, e) ELSE segments
            /\ violations' = violations \cup ({e.violation} \ {"none"})
        BY <2>1, <3>1, <3>2 DEF Step
      <4>2. Memory(segments') = IF e.success THEN Spaces!Effect(Memory(segments), e)
                                ELSE Memory(segments)
        BY <3>2, <4>1, EventsAreTyped, ReplayedIsEffect
      <4> QED
        BY <3>1, <3>2, <4>1, <4>2 DEF Spaces!Accept
    <3>3. CASE ~(Spaces!Credible(e) /\ (e.success => Replayable(segments, e)))
      <4>1. /\ status = "running" /\ status' = "refused"
            /\ UNCHANGED <<segments, platform, violations>>
        BY <2>1, <3>1, <3>3 DEF Step
      <4>2. Memory(segments)' = Memory(segments)
        BY <4>1
      <4> QED
        BY <3>1, <3>3, <4>1, <4>2 DEF Spaces!Refuse
    <3> QED
      BY <3>2, <3>3
  <2>2. CASE UNCHANGED vars
    BY <2>2 DEF vars
  <2> QED
    BY <2>1, <2>2 DEF Next, Spaces!Next
<1> QED
  BY <1>1, <1>2, SortedThroughout, PTL DEF Spec, ImplementsAddressSpace, Spaces!Spec

=============================================================================
