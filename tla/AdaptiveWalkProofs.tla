------------------------- MODULE AdaptiveWalkProofs -------------------------
(***************************************************************************)
(* Proofs about the adaptive walk, for any arena, page size, tile size and *)
(* budget, any host and any number of changes of the process's layout.     *)
(***************************************************************************)
EXTENDS AdaptiveWalk, NumberProofs

\* The facts about sequences of the library, under a name of their own.
SQ == INSTANCE SequenceTheorems

\* What the constants are.
LEMMA WalkConstants ==
  /\ WordMax \in Nat /\ Bottom \in 0 .. WordMax /\ Top \in 0 .. WordMax
  /\ PageSize \in Nat \ {0} /\ MaxWindow \in Nat \ {0}
  /\ MaxAttempts \in Nat /\ MaxChanges \in Nat
  /\ Bottom % PageSize = 0 /\ Top % PageSize = 0 /\ MaxWindow % PageSize = 0
  /\ PageSize <= MaxWindow
<1>1. MaxWindow % PageSize = 0 /\ PageSize \in Nat \ {0} /\ MaxWindow \in Nat \ {0}
  BY ArenaAssumption
<1>2. PageSize <= MaxWindow
  BY <1>1, AlignedBound
<1>3. QED
  BY <1>2, ArenaAssumption, WordAssumption DEF Word

\* A page lies inside the arena.
LEMMA PageInArena ==
  ASSUME NEW p \in Pages
  PROVE  /\ p \in Nat /\ p + PageSize <= Top
         /\ PageAt(p) \subseteq Arena
<1>1. p \in Nat /\ Bottom <= p /\ p < Top /\ p % PageSize = 0
  BY WalkConstants DEF Pages, Word
<1>2. /\ Top \in Nat /\ Top % PageSize = 0 /\ PageSize \in Nat \ {0}
      /\ WordMax \in Nat /\ Bottom \in Nat
  BY WalkConstants
<1>3. p + PageSize <= Top
  BY <1>1, <1>2, AlignedGap
<1>4. QED
  BY <1>1, <1>2, <1>3 DEF PageAt, Arena, Word

\* Different pages have no address in common.
LEMMA PagesApart ==
  ASSUME NEW p \in Pages, NEW q \in Pages, p # q
  PROVE  PageAt(p) \cap PageAt(q) = {}
<1>1. /\ p \in Nat /\ p % PageSize = 0
      /\ q \in Nat /\ q % PageSize = 0
      /\ PageSize \in Nat \ {0}
  BY WalkConstants DEF Pages, Word
<1>2. p + PageSize <= q \/ q + PageSize <= p
  <2>1. CASE p < q
    BY <1>1, <2>1, AlignedGap
  <2>2. CASE q < p
    BY <1>1, <2>2, AlignedGap
  <2>3. QED
    BY <1>1, <2>1, <2>2
<1>3. QED
  BY <1>1, <1>2 DEF PageAt, Word

\* A set of pages has whole pages of the arena.
LEMMA PageSetsAreWhole ==
  ASSUME NEW set \in PageSets
  PROVE  WholePages(set) /\ set \subseteq Arena
<1>1. PICK s \in SUBSET Pages : set = UNION {PageAt(p) : p \in s}
  BY DEF PageSets
<1>2. ASSUME NEW p \in Pages
      PROVE  PageAt(p) \subseteq set \/ PageAt(p) \cap set = {}
  <2>1. CASE p \in s
    BY <1>1, <2>1
  <2>2. CASE p \notin s
    BY <1>1, <2>2, PagesApart
  <2>3. QED
    BY <2>1, <2>2
<1>3. set \subseteq Arena
  BY <1>1, PageInArena
<1>4. QED
  BY <1>2, <1>3 DEF WholePages

\* An aligned tile that is not larger than a page is a page.
LEMMA SmallTileIsPage ==
  ASSUME NEW t \in [base : Nat, size : Nat], Aligned(t.base), Aligned(t.size),
         t.size > 0, t.size <= PageSize, Bottom <= t.base, t.base + t.size <= Top
  PROVE  t.size = PageSize /\ t.base \in Pages /\ TileAddresses(t) = PageAt(t.base)
<1>1. t.size = PageSize
  BY AlignedBound, WalkConstants DEF Aligned
<1>2. t.base \in Pages
  BY WalkConstants DEF Pages, Aligned, Word
<1>3. QED
  BY <1>1, <1>2 DEF TileAddresses, PageAt

\* The halves of a tile of more than a page: neither is empty, both are
\* aligned, and together they are the tile.
LEMMA HalvesOfTile ==
  ASSUME NEW t \in [base : Nat, size : Nat], Aligned(t.base), Aligned(t.size),
         t.size > PageSize
  PROVE  \E left \in Nat :
           /\ 0 < left /\ left < t.size
           /\ Halves(t) = <<[base |-> t.base, size |-> left],
                            [base |-> t.base + left, size |-> t.size - left]>>
           /\ Aligned(left) /\ Aligned(t.size - left) /\ Aligned(t.base + left)
<1> DEFINE k == t.size \div PageSize
           h == k \div 2
           left == h * PageSize
<1>1. t.base \in Nat /\ t.size \in Nat /\ PageSize \in Nat \ {0}
  BY WalkConstants
<1>2. k \in Nat /\ t.size = k * PageSize
  BY <1>1, AlignedIsMultiple DEF Aligned
<1>3. k # 0 /\ k # 1
  BY <1>1, <1>2
<1>4. h \in Nat \ {0} /\ k - h \in Nat \ {0}
  <2> HIDE DEF k
  <2>1. QED
    BY <1>2, <1>3
<1>5. Halves(t) = <<[base |-> t.base, size |-> left],
                    [base |-> t.base + left, size |-> t.size - left]>>
  BY DEF Halves
<1> HIDE DEF k, h
<1>6. left \in Nat /\ 0 < left
  BY <1>1, <1>4, ProductBound
<1>7. t.size - left = (k - h) * PageSize
  BY <1>1, <1>2, <1>4
<1>8. t.size - left \in Nat /\ 0 < t.size - left
  BY <1>1, <1>4, <1>7, ProductBound
<1>9. Aligned(left) /\ Aligned(t.size - left)
  BY <1>1, <1>4, <1>7, MultipleIsAligned DEF Aligned
<1> HIDE DEF left
<1>10. Aligned(t.base + left)
  BY <1>1, <1>6, <1>9, AlignedSum DEF Aligned
<1>11. QED
  BY <1>1, <1>5, <1>6, <1>8, <1>9, <1>10

\* append records the addresses it is given and no others, and keeps the
\* ranges ascending and apart.
RangeType == [start : Nat, end : Nat]

\* The list that append returns still ascends, ends where the new range ends and
\* covers what it covered and the new range.
LEMMA AppendRange ==
  ASSUME NEW ranges \in Seq(RangeType), NEW start \in Nat, NEW end \in Nat,
         start < end, Ascending(ranges, start)
  PROVE  /\ append(ranges, start, end) \in Seq(RangeType)
         /\ Ascending(append(ranges, start, end), end)
         /\ Covered(append(ranges, start, end)) =
              Covered(ranges) \cup {a \in Word : start <= a /\ a < end}
<1> DEFINE new == append(ranges, start, end)
           n == Len(ranges)
<1>1. n \in Nat /\ (ranges # <<>> <=> n > 0)
  OBVIOUS
<1>2. \A i \in 1 .. n : /\ ranges[i] \in RangeType
                        /\ ranges[i].start \in Nat /\ ranges[i].end \in Nat
                        /\ ranges[i].start < ranges[i].end
                        /\ i < n => ranges[i].end < ranges[i + 1].start
  <2>1. \A i \in 1 .. n : ranges[i] \in RangeType
    OBVIOUS
  <2>2. QED
    BY <2>1 DEF Ascending, RangeType
<1>3. n > 0 => ranges[n].end <= start
  BY <1>1 DEF Ascending
<1>4. CASE n > 0 /\ ranges[n].end = start
  <2>1. new = [ranges EXCEPT ![n].end = end]
    BY <1>1, <1>4 DEF append
  <2>2. [ranges[n] EXCEPT !.end = end] \in RangeType
    BY <1>2, <1>4 DEF RangeType
  <2>3. new \in Seq(RangeType) /\ Len(new) = n
    BY <1>1, <1>4, <2>1, <2>2
  <2>4. /\ new[n].start = ranges[n].start /\ new[n].end = end
        /\ \A i \in 1 .. n : i # n => new[i] = ranges[i]
    BY <1>1, <1>2, <1>4, <2>1 DEF RangeType
  <2>5. Ascending(new, end)
    <3>1. \A i \in 1 .. n : new[i].start < new[i].end
      BY <1>1, <1>2, <1>4, <2>4
    <3>2. ASSUME NEW i \in 1 .. n, i < n PROVE new[i].end < new[i + 1].start
      <4>1. i + 1 \in 1 .. n /\ new[i + 1].start = ranges[i + 1].start
        BY <1>1, <2>4, <3>2
      <4>2. QED
        BY <1>1, <1>2, <2>4, <3>2, <4>1
    <3>3. QED
      BY <1>1, <1>4, <2>3, <2>4, <3>1, <3>2 DEF Ascending
  <2>6. ASSUME NEW a \in Word
        PROVE  a \in Covered(new) <=> a \in Covered(ranges) \/ (start <= a /\ a < end)
    <3>0. a \in Nat
      BY WordAssumption DEF Word
    <3>1. a \in Covered(new) <=>
            \/ \E i \in 1 .. n : i # n /\ ranges[i].start <= a /\ a < ranges[i].end
            \/ ranges[n].start <= a /\ a < end
      BY <1>1, <1>4, <2>3, <2>4 DEF Covered
    <3>2. a \in Covered(ranges) <=>
            \/ \E i \in 1 .. n : i # n /\ ranges[i].start <= a /\ a < ranges[i].end
            \/ ranges[n].start <= a /\ a < ranges[n].end
      BY <1>1, <1>4 DEF Covered
    <3>3. ranges[n].start \in Nat /\ ranges[n].start < start
      BY <1>1, <1>2, <1>4
    <3>4. QED
      BY <1>4, <3>0, <3>1, <3>2, <3>3
  <2>7. QED
    BY <2>3, <2>5, <2>6 DEF Covered
<1>5. CASE ~(n > 0 /\ ranges[n].end = start)
  <2> DEFINE last == [start |-> start, end |-> end]
  <2>1. new = Append(ranges, last)
    BY <1>1, <1>5 DEF append
  <2>2. last \in RangeType
    BY DEF RangeType
  <2>3. new \in Seq(RangeType) /\ Len(new) = n + 1
    BY <2>1, <2>2
  <2>4. /\ new[n + 1] = last
        /\ \A i \in 1 .. n : new[i] = ranges[i]
    BY <2>1, <2>2
  <2>5. Ascending(new, end)
    <3>1. \A i \in 1 .. n + 1 : new[i].start < new[i].end
      BY <1>1, <1>2, <2>4
    <3>2. ASSUME NEW i \in 1 .. n + 1, i < n + 1 PROVE new[i].end < new[i + 1].start
      <4>1. CASE i = n
        BY <1>1, <1>2, <1>3, <1>5, <2>4, <4>1
      <4>2. CASE i < n
        <5>1. i + 1 \in 1 .. n /\ i \in 1 .. n
          BY <1>1, <4>2
        <5>2. QED
          BY <1>2, <2>4, <4>2, <5>1
      <4>3. QED
        BY <1>1, <3>2, <4>1, <4>2
    <3>3. new # <<>> => new[Len(new)].end <= end
      BY <2>3, <2>4
    <3>4. QED
      BY <2>3, <3>1, <3>2, <3>3 DEF Ascending
  <2>6. ASSUME NEW a \in Word
        PROVE  a \in Covered(new) <=> a \in Covered(ranges) \/ (start <= a /\ a < end)
    <3>1. a \in Covered(new) <=>
            \/ \E i \in 1 .. n : new[i].start <= a /\ a < new[i].end
            \/ new[n + 1].start <= a /\ a < new[n + 1].end
      BY <1>1, <2>3 DEF Covered
    <3>2. QED
      BY <2>4, <3>1 DEF Covered
  <2>7. QED
    BY <2>3, <2>5, <2>6 DEF Covered
<1>6. QED
  BY <1>4, <1>5

\* Ranges that end by one address end by every later one.
LEMMA AscendingUpTo ==
  ASSUME NEW ranges \in Seq(RangeType), NEW m \in Nat, NEW n \in Nat, m <= n,
         Ascending(ranges, m)
  PROVE  Ascending(ranges, n)
<1>1. ranges # <<>> => ranges[Len(ranges)] \in RangeType
  OBVIOUS
<1>2. ranges # <<>> => ranges[Len(ranges)].end \in Nat
  BY <1>1 DEF RangeType
<1>3. ranges # <<>> => ranges[Len(ranges)].end <= n
  BY <1>2 DEF Ascending
<1>4. QED
  BY <1>3 DEF Ascending


Tile == [base : Nat, size : Nat]

\* The tile to visit next is aligned, inside the arena and starts at the cursor.
LEMMA NextTileFacts ==
  ASSUME TypeOK, TilesInv, pending # <<>>
  PROVE  LET t == Head(pending)
         IN  /\ t \in Tile /\ t = pending[1] /\ Len(pending) \in Nat \ {0}
             /\ t.base \in Nat /\ t.size \in Nat
             /\ Aligned(t.base) /\ Aligned(t.size) /\ t.size > 0
             /\ Bottom <= t.base /\ t.base + t.size <= base
             /\ base <= Top /\ Cursor = t.base
<1> DEFINE t == Head(pending)
<1>1. pending \in Seq(Tile)
  BY DEF TypeOK, Tile
<1>2. t = pending[1] /\ Len(pending) \in Nat \ {0} /\ t \in Tile
  BY <1>1
<1>3. t.base \in Nat /\ t.size \in Nat
  BY <1>2 DEF Tile
<1>4. 1 \in 1 .. Len(pending)
  BY <1>2
<1> HIDE DEF t
<1>5. /\ Aligned(t.base) /\ Aligned(t.size) /\ t.size > 0
      /\ Bottom <= t.base /\ t.base + t.size <= base
  BY <1>2, <1>4 DEF TilesInv
<1>6. base <= Top
  BY DEF TilesInv
<1>7. Cursor = t.base
  BY DEF Cursor, t
<1>8. QED
  BY <1>2, <1>3, <1>5, <1>6, <1>7 DEF t

\* A tile that has been recorded: the cursor moves to its end.
LEMMA TileRecorded ==
  ASSUME TypeOK, TilesInv, pending # <<>>, pending' = Tail(pending),
         base' = base
  PROVE  /\ pending' \in Seq(Tile)
         /\ TilesInv'
         /\ Cursor' = Head(pending).base + Head(pending).size
<1> DEFINE n == Len(pending)
<1>1. pending \in Seq(Tile) /\ n \in Nat \ {0} /\ Head(pending) = pending[1]
  BY NextTileFacts DEF TypeOK, Tile
<1>2. pending' \in Seq(Tile) /\ Len(pending') = n - 1
  BY <1>1
<1>3. \A i \in 1 .. n - 1 : pending'[i] = pending[i + 1]
  BY <1>1
<1>4. /\ Aligned(base) /\ Bottom <= base
      /\ base <= Top
  BY NextTileFacts DEF TilesInv
<1>5. ASSUME NEW i \in 1 .. n - 1
      PROVE  /\ Aligned(pending'[i].base) /\ Aligned(pending'[i].size)
             /\ Bottom <= pending'[i].base /\ pending'[i].size > 0
             /\ pending'[i].base + pending'[i].size <= base
             /\ pending'[i].base + pending'[i].size =
                   IF i = n - 1 THEN base ELSE pending'[i + 1].base
  <2>1. i + 1 \in 1 .. n /\ (i = n - 1 <=> i + 1 = n)
    BY <1>1
  <2>2. i # n - 1 => i + 1 \in 1 .. n - 1
    BY <1>1
  <2>3. QED
    BY <1>3, <2>1, <2>2 DEF TilesInv
<1>6. TilesInv'
  <2>1. Aligned(base)'
    BY <1>4 DEF Aligned
  <2>2. \A i \in 1 .. Len(pending') :
          /\ Aligned(pending'[i].base) /\ Aligned(pending'[i].size)
          /\ Bottom <= pending'[i].base /\ pending'[i].size > 0
          /\ pending'[i].base + pending'[i].size <= base'
          /\ pending'[i].base + pending'[i].size =
                IF i = Len(pending') THEN base' ELSE pending'[i + 1].base
    BY <1>2, <1>5
  <2>3. QED
    BY <1>4, <2>1, <2>2 DEF TilesInv, Aligned
<1>7. Cursor' = Head(pending).base + Head(pending).size
  <2>1. 1 \in 1 .. n
    BY <1>1
  <2>2. pending[1].base + pending[1].size = IF 1 = n THEN base ELSE pending[2].base
    <3>1. pending[1].base + pending[1].size =
            IF 1 = n THEN base ELSE pending[1 + 1].base
      BY <2>1 DEF TilesInv
    <3>2. QED
      BY <3>1
  <2>3. CASE n = 1
    <3>1. pending' = <<>>
      BY <1>2, <2>3
    <3>2. QED
      BY <1>1, <2>2, <2>3, <3>1 DEF Cursor
  <2>4. CASE n # 1
    <3>1. pending' # <<>> /\ 1 \in 1 .. n - 1 /\ 1 + 1 = 2
      <4>1. n - 1 \in Nat \ {0}
        BY <1>1, <2>4
      <4>2. Len(pending') # 0
        BY <1>2, <4>1
      <4>3. pending' # <<>>
        BY <4>2
      <4> HIDE DEF n
      <4>4. QED
        BY <1>1, <4>1, <4>3
    <3>2. pending'[1] = pending[1 + 1]
      BY <1>3, <3>1
    <3>3. Head(pending') = pending[2]
      BY <1>2, <3>1, <3>2
    <3>4. QED
      BY <1>1, <2>2, <2>4, <3>1, <3>3 DEF Cursor
  <2>5. QED
    BY <2>3, <2>4
<1>8. QED
  BY <1>2, <1>6, <1>7

\* A tile that has been split: the halves stand where it stood.
LEMMA TileSplit ==
  ASSUME TypeOK, TilesInv, pending # <<>>, base' = base,
         Head(pending).size > PageSize,
         pending' = Halves(Head(pending)) \o Tail(pending)
  PROVE  pending' \in Seq(Tile) /\ TilesInv' /\ Cursor' = Cursor
<1> DEFINE t == Head(pending)
           n == Len(pending)
<1>0. /\ t.base \in Nat /\ t.size \in Nat /\ Bottom <= t.base
      /\ t.base + t.size <= base /\ base <= Top /\ Cursor = t.base
      /\ Aligned(t.base) /\ Aligned(t.size)
      /\ Bottom \in Nat /\ base \in Nat
  BY NextTileFacts, WalkConstants DEF TypeOK
<1>1. pending \in Seq(Tile) /\ n \in Nat \ {0} /\ t = pending[1] /\ t \in Tile
  BY NextTileFacts DEF TypeOK, Tile
<1>2. PICK left \in Nat :
        /\ 0 < left /\ left < t.size
        /\ Halves(t) = <<[base |-> t.base, size |-> left],
                         [base |-> t.base + left, size |-> t.size - left]>>
        /\ Aligned(left) /\ Aligned(t.size - left) /\ Aligned(t.base + left)
  BY <1>0, <1>1, HalvesOfTile DEF Tile
<1> DEFINE first == [base |-> t.base, size |-> left]
           second == [base |-> t.base + left, size |-> t.size - left]
<1>3. first \in Tile /\ second \in Tile
  BY <1>0, <1>2 DEF Tile
<1>4. /\ Tail(pending) \in Seq(Tile) /\ Len(Tail(pending)) = n - 1
      /\ \A i \in 1 .. n - 1 : Tail(pending)[i] = pending[i + 1]
  BY <1>1
<1> HIDE DEF t, n
<1>5. pending' = <<first, second>> \o Tail(pending)
  BY <1>2 DEF t
<1> HIDE DEF first, second
<1>6. /\ pending' \in Seq(Tile) /\ Len(pending') = n + 1
      /\ pending'[1] = first /\ pending'[2] = second
      /\ \A i \in 3 .. n + 1 : pending'[i] = Tail(pending)[i - 2]
  <2> DEFINE rest == Tail(pending)
  <2>1. rest \in Seq(Tile) /\ Len(rest) = n - 1 /\ n \in Nat \ {0}
    BY <1>1, <1>4
  <2> HIDE DEF rest
  <2>2. <<first, second>> \in Seq(Tile) /\ Len(<<first, second>>) = 2
    BY <1>3
  <2>3. pending' = <<first, second>> \o rest
    BY <1>5 DEF rest
  <2>4. /\ pending' \in Seq(Tile) /\ Len(pending') = n + 1
        /\ \A i \in 1 .. n + 1 :
              pending'[i] = IF i <= 2 THEN <<first, second>>[i] ELSE rest[i - 2]
    <3> DEFINE halves == <<first, second>>
    <3>1. halves \in Seq(Tile) /\ Len(halves) = 2
      BY <2>2
    <3>2. pending' = halves \o rest
      BY <2>3
    <3> HIDE DEF halves
    <3>3. /\ halves \o rest \in Seq(Tile)
          /\ Len(halves \o rest) = Len(halves) + Len(rest)
          /\ \A i \in 1 .. Len(halves) + Len(rest) :
               (halves \o rest)[i] =
                 IF i <= Len(halves) THEN halves[i] ELSE rest[i - Len(halves)]
      BY <2>1, <3>1, SQ!ConcatProperties
    <3>4. Len(halves) + Len(rest) = n + 1
      BY <2>1, <3>1
    <3>5. /\ pending' \in Seq(Tile) /\ Len(pending') = n + 1
          /\ \A i \in 1 .. n + 1 :
               pending'[i] = IF i <= 2 THEN halves[i] ELSE rest[i - 2]
      BY <3>1, <3>2, <3>3, <3>4
    <3>6. QED
      BY <3>5 DEF halves
  <2>5. 1 \in 1 .. n + 1 /\ 2 \in 1 .. n + 1
    BY <2>1
  <2>6. pending'[1] = first /\ pending'[2] = second
    BY <2>4, <2>5
  <2>7. QED
    BY SMTT(30), <2>1, <2>4, <2>6 DEF rest
<1>7. ASSUME NEW i \in 3 .. n + 1 PROVE pending'[i] = pending[i - 1]
  <2>1. i - 2 \in 1 .. n - 1 /\ (i - 2) + 1 = i - 1
    BY <1>1
  <2>2. QED
    BY <1>4, <1>6, <2>1
<1>8. /\ first.base = t.base /\ first.size = left
      /\ second.base = t.base + left /\ second.size = t.size - left
  BY DEF first, second
<1>9. ASSUME NEW i \in 1 .. n + 1
      PROVE  /\ Aligned(pending'[i].base) /\ Aligned(pending'[i].size)
             /\ Bottom <= pending'[i].base /\ pending'[i].size > 0
             /\ pending'[i].base + pending'[i].size <= base
             /\ pending'[i].base + pending'[i].size =
                   IF i = n + 1 THEN base ELSE pending'[i + 1].base
  <2>1. CASE i = 1
    <3>1. i # n + 1 /\ i + 1 = 2
      BY <1>1, <2>1
    <3>2. pending'[i] = first /\ pending'[i + 1] = second
      BY <1>6, <2>1, <3>1
    <3>3. t.base + left <= base
      BY <1>0, <1>2
    <3>4. QED
      BY <1>0, <1>2, <1>8, <3>1, <3>2, <3>3
  <2>2. CASE i = 2
    <3>1. second.base + second.size = t.base + t.size
      <4>0. t.base \in Nat /\ t.size \in Nat
        BY <1>0
      <4>1. (t.base + left) + (t.size - left) = t.base + t.size
        BY <4>0
      <4>2. QED
        BY <1>8, <4>1
    <3>2. 1 \in 1 .. n /\ pending[1] = t
      BY <1>1
    <3>3. t.base + t.size = IF 1 = n THEN base ELSE pending[2].base
      <4>1. pending[1].base + pending[1].size =
              IF 1 = n THEN base ELSE pending[1 + 1].base
        BY <3>2 DEF TilesInv, n
      <4>2. QED
        BY <3>2, <4>1
    <3>4. n # 1 => 3 \in 3 .. n + 1 /\ 3 - 1 = 2
      BY <1>1
    <3>5. n # 1 => pending'[3] = pending[2]
      BY <1>7, <3>4
    <3>6. pending'[i] = second /\ (i = n + 1 <=> n = 1) /\ i + 1 = 3
      BY <1>1, <1>6, <2>2
    <3>7. Bottom <= t.base + left /\ t.size - left > 0
      BY <1>0, <1>2
    <3>8. QED
      BY <1>0, <1>2, <1>8, <3>1, <3>3, <3>5, <3>6, <3>7
  <2>3. CASE i \in 3 .. n + 1
    <3>1. i - 1 \in 1 .. n /\ (i - 1 = n <=> i = n + 1) /\ i = (i - 1) + 1
      BY <1>1, <2>3
    <3>2. i # n + 1 => i + 1 \in 3 .. n + 1 /\ (i + 1) - 1 = i
      BY <1>1, <2>3
    <3>3. pending'[i] = pending[i - 1]
      BY <1>7, <2>3
    <3>4. i # n + 1 => pending'[i + 1] = pending[i]
      BY <1>7, <3>2
    <3>5. /\ Aligned(pending[i - 1].base) /\ Aligned(pending[i - 1].size)
          /\ Bottom <= pending[i - 1].base /\ pending[i - 1].size > 0
          /\ pending[i - 1].base + pending[i - 1].size <= base
          /\ pending[i - 1].base + pending[i - 1].size =
                IF i - 1 = n THEN base ELSE pending[(i - 1) + 1].base
      BY <3>1 DEF TilesInv, n
    <3>6. QED
      BY <3>1, <3>3, <3>4, <3>5
  <2>4. i = 1 \/ i = 2 \/ i \in 3 .. n + 1
    BY <1>1
  <2>5. QED
    BY <2>1, <2>2, <2>3, <2>4
<1>10. TilesInv'
  <2>1. Aligned(base) /\ Bottom <= base
    BY DEF TilesInv
  <2>2. base' <= Top
    BY <1>0
  <2>3. \A i \in 1 .. Len(pending') :
          /\ Aligned(pending'[i].base) /\ Aligned(pending'[i].size)
          /\ Bottom <= pending'[i].base /\ pending'[i].size > 0
          /\ pending'[i].base + pending'[i].size <= base'
          /\ pending'[i].base + pending'[i].size =
                IF i = Len(pending') THEN base' ELSE pending'[i + 1].base
    BY <1>6, <1>9
  <2>4. QED
    BY <2>1, <2>2, <2>3 DEF TilesInv, Aligned
<1>11. Cursor' = Cursor
  <2>1. pending' # <<>> /\ Head(pending') = first
    <3>1. Len(pending') # 0
      BY <1>1, <1>6
    <3>2. pending' # <<>>
      BY <3>1
    <3>3. QED
      BY SMTT(30), <1>6, <3>2
  <2>2. QED
    BY <1>0, <1>8, <2>1 DEF Cursor
<1>12. QED
  BY <1>6, <1>10, <1>11


\* The addresses answered for grow by the tile that was recorded.
LEMMA AnsweredGrows ==
  ASSUME TypeOK, TilesInv, pending # <<>>,
         Cursor' = Head(pending).base + Head(pending).size
  PROVE  Answered' = Answered \cup TileAddresses(Head(pending))
<1> DEFINE t == Head(pending)
<1>1. /\ t.base \in Nat /\ t.size \in Nat /\ Bottom <= t.base /\ Cursor = t.base
      /\ Bottom \in Nat
  BY NextTileFacts, WalkConstants
<1>2. Cursor' = t.base + t.size
  OBVIOUS
<1> HIDE DEF t
<1>3. Answered = {a \in Word : Bottom <= a /\ a < t.base}
  BY <1>1 DEF Answered
<1>4. Answered' = {a \in Word : Bottom <= a /\ a < t.base + t.size}
  BY <1>2 DEF Answered
<1>5. TileAddresses(t) = {a \in Word : t.base <= a /\ a < t.base + t.size}
  BY DEF TileAddresses
<1>6. ASSUME NEW a \in Word
      PROVE  a \in Answered' <=> a \in Answered \cup TileAddresses(t)
  <2>1. a \in Nat
    BY WordAssumption DEF Word
  <2>2. QED
    BY <1>1, <1>3, <1>4, <1>5, <2>1
<1>7. QED
  BY <1>3, <1>4, <1>5, <1>6 DEF t

\* What is known of a tile that is recorded: its ends, and that it extends
\* ranges which end by the cursor.
LEMMA RecordedTile ==
  ASSUME TypeOK, TilesInv, pending # <<>>, NEW ranges \in Seq(RangeType),
         Ascending(ranges, Cursor)
  PROVE  LET t   == Head(pending)
             new == append(ranges, t.base, t.base + t.size)
         IN  /\ new \in Seq(RangeType)
             /\ Ascending(new, t.base + t.size)
             /\ Covered(new) = Covered(ranges) \cup TileAddresses(t)
<1> DEFINE t == Head(pending)
<1>1. /\ t.base \in Nat /\ t.size \in Nat /\ t.size > 0 /\ Cursor = t.base
  BY NextTileFacts
<1> HIDE DEF t
<1>2. t.base + t.size \in Nat /\ t.base < t.base + t.size
  BY <1>1
<1>3. Ascending(ranges, t.base)
  BY <1>1
<1>4. /\ append(ranges, t.base, t.base + t.size) \in Seq(RangeType)
      /\ Ascending(append(ranges, t.base, t.base + t.size), t.base + t.size)
      /\ Covered(append(ranges, t.base, t.base + t.size)) =
           Covered(ranges) \cup {a \in Word : t.base <= a /\ a < t.base + t.size}
  BY <1>1, <1>2, <1>3, AppendRange
<1>5. QED
  BY <1>4 DEF TileAddresses, t

\* The cursor and what TypeOK says of the recorded ranges.
LEMMA CursorAndRanges ==
  ASSUME TypeOK, TilesInv
  PROVE  /\ Cursor \in Nat /\ Cursor <= base
         /\ available \in Seq(RangeType) /\ unavailable \in Seq(RangeType)
<1>1. available \in Seq(RangeType) /\ unavailable \in Seq(RangeType)
  BY DEF TypeOK, RangeType
<1>2. CASE pending = <<>>
  BY <1>1, <1>2 DEF Cursor, TypeOK
<1>3. CASE pending # <<>>
  <2> DEFINE t == Head(pending)
  <2>1. t.base \in Nat /\ t.size \in Nat /\ t.base + t.size <= base /\ Cursor = t.base
    BY <1>3, NextTileFacts
  <2>2. base \in Nat
    BY DEF TypeOK
  <2> HIDE DEF t
  <2>3. QED
    BY <1>1, <2>1, <2>2
<1>4. QED
  BY <1>2, <1>3

\* Recording a tile that the host grants keeps the recorded ranges right.
LEMMA TileGranted ==
  ASSUME TypeOK, TilesInv, ResultsInv, pending # <<>>, pending' = Tail(pending),
         available' = append(available, Head(pending).base,
                             Head(pending).base + Head(pending).size),
         UNCHANGED <<unavailable, base, denied, budget_exhausted>>,
         TileAddresses(Head(pending)) \cap denied = {}
  PROVE  available' \in Seq(RangeType) /\ ResultsInv'
<1> DEFINE t == Head(pending)
           stop == t.base + t.size
<1>1. /\ available' \in Seq(RangeType) /\ Ascending(available', stop)
      /\ Covered(available') = Covered(available) \cup TileAddresses(t)
  BY RecordedTile, CursorAndRanges DEF ResultsInv
<1>2. Cursor' = stop
  BY TileRecorded
<1>3. Ascending(available', Cursor')
  BY <1>1, <1>2
<1>4. stop \in Nat /\ Cursor <= stop
  <2>1. t.base \in Nat /\ t.size \in Nat /\ Cursor = t.base
    BY NextTileFacts
  <2> HIDE DEF t
  <2>2. QED
    BY <2>1
<1>5. Answered' = Answered \cup TileAddresses(t)
  BY <1>2, AnsweredGrows
<1> HIDE DEF t, stop
<1>6. Ascending(unavailable, Cursor')
  BY <1>2, <1>4, CursorAndRanges, AscendingUpTo DEF ResultsInv
<1>7. TileAddresses(t) \cap denied = {}
  BY DEF t
<1>8. Covered(unavailable') = Covered(unavailable)
  OBVIOUS
<1>9. RecordsOnlyHostFacts'
  BY <1>1, <1>7, <1>8 DEF ResultsInv, RecordsOnlyHostFacts
<1>10. ~budget_exhausted => /\ Covered(available') = Answered' \ denied
                            /\ Covered(unavailable) = Answered' \cap denied
  BY <1>1, <1>5, <1>7 DEF ResultsInv
<1>11. QED
  BY <1>1, <1>3, <1>6, <1>8, <1>9, <1>10 DEF ResultsInv

\* And so does recording a tile that the host denies.
LEMMA TileDenied ==
  ASSUME TypeOK, TilesInv, ResultsInv, pending # <<>>, pending' = Tail(pending),
         unavailable' = append(unavailable, Head(pending).base,
                               Head(pending).base + Head(pending).size),
         UNCHANGED <<available, base, denied, budget_exhausted>>,
         TileAddresses(Head(pending)) \subseteq denied
  PROVE  unavailable' \in Seq(RangeType) /\ ResultsInv'
<1> DEFINE t == Head(pending)
           stop == t.base + t.size
<1>1. /\ unavailable' \in Seq(RangeType) /\ Ascending(unavailable', stop)
      /\ Covered(unavailable') = Covered(unavailable) \cup TileAddresses(t)
  BY RecordedTile, CursorAndRanges DEF ResultsInv
<1>2. Cursor' = stop
  BY TileRecorded
<1>3. Ascending(unavailable', Cursor')
  BY <1>1, <1>2
<1>4. stop \in Nat /\ Cursor <= stop
  <2>1. t.base \in Nat /\ t.size \in Nat /\ Cursor = t.base
    BY NextTileFacts
  <2> HIDE DEF t
  <2>2. QED
    BY <2>1
<1>5. Answered' = Answered \cup TileAddresses(t)
  BY <1>2, AnsweredGrows
<1> HIDE DEF t, stop
<1>6. Ascending(available, Cursor')
  BY <1>2, <1>4, CursorAndRanges, AscendingUpTo DEF ResultsInv
<1>7. TileAddresses(t) \subseteq denied
  BY DEF t
<1>8. Covered(available') = Covered(available)
  OBVIOUS
<1>9. RecordsOnlyHostFacts'
  BY <1>1, <1>7, <1>8 DEF ResultsInv, RecordsOnlyHostFacts
<1>10. ~budget_exhausted => /\ Covered(available) = Answered' \ denied
                            /\ Covered(unavailable') = Answered' \cap denied
  BY <1>1, <1>5, <1>7 DEF ResultsInv
<1>11. QED
  BY <1>1, <1>3, <1>6, <1>8, <1>9, <1>10 DEF ResultsInv

\* Nothing is recorded and nothing answered for at the start of the walk.
LEMMA WalkInvInit ==
  ASSUME Init
  PROVE  WalkInv
<1>1. HostInv
  <2>1. WholePages(denied) /\ denied \subseteq Arena /\ WholePages(own)
        /\ own \cap denied = {}
    BY PageSetsAreWhole DEF Init
  <2>2. QED
    BY <2>1 DEF HostInv
<1>2. TypeOK
  <2>1. denied \subseteq Word /\ own \subseteq Word
    BY PageSetsAreWhole DEF Init, Arena
  <2>2. <<>> \in Seq([base : Nat, size : Nat]) /\ <<>> \in Seq([start : Nat, end : Nat])
    OBVIOUS
  <2>3. base \in Nat /\ attempts \in 0 .. MaxAttempts /\ changes \in 0 .. MaxChanges
    BY WalkConstants DEF Init
  <2>4. QED
    BY <2>1, <2>2, <2>3 DEF Init, TypeOK
<1>3. TilesInv
  BY WalkConstants DEF Init, TilesInv, Aligned
<1>4. ResultsInv
  <2>1. Covered(<<>>) = {}
    BY DEF Covered
  <2>2. Answered = {}
    BY WalkConstants DEF Init, Answered, Cursor, Word
  <2>3. Ascending(<<>>, Cursor)
    BY DEF Ascending
  <2>4. QED
    BY <2>1, <2>2, <2>3 DEF Init, ResultsInv, RecordsOnlyHostFacts
<1>5. BudgetInv
  BY DEF Init, BudgetInv, ExhaustedSaysNothing
<1>6. QED
  BY <1>1, <1>2, <1>3, <1>4, <1>5 DEF WalkInv


\* The outer loop hands over a tile that starts where it stood.
LEMMA NextTileStep ==
  ASSUME WalkInv, NextTile
  PROVE  WalkInv'
<1> DEFINE size == IF Top - base < MaxWindow THEN Top - base ELSE MaxWindow
           tile == [base |-> base, size |-> size]
<1>1. TypeOK /\ HostInv /\ TilesInv /\ ResultsInv /\ BudgetInv
  BY DEF WalkInv
<1>2. /\ ~returned /\ pending = <<>> /\ base < Top /\ ~budget_exhausted
      /\ pending' = <<tile>> /\ base' = base + size
      /\ UNCHANGED <<denied, sizeLimit, own, attempts, budget_exhausted,
                     available, unavailable, returned, changes>>
  BY DEF NextTile, host, results
<1>3. /\ base \in Nat /\ Bottom \in Nat /\ Top \in Nat /\ Bottom <= base
      /\ Aligned(base) /\ Aligned(Top) /\ Aligned(MaxWindow)
      /\ PageSize \in Nat \ {0} /\ MaxWindow \in Nat \ {0}
  BY <1>1, WalkConstants DEF TypeOK, TilesInv, Aligned
<1>4. size \in Nat \ {0} /\ base + size <= Top
  BY <1>2, <1>3
<1>5. Aligned(size)
  <2>1. base <= Top /\ base % PageSize = 0 /\ Top % PageSize = 0
    BY <1>2, <1>3 DEF Aligned
  <2>2. (Top - base) % PageSize = 0
    BY <1>3, <2>1, AlignedDifference
  <2>3. QED
    BY <1>3, <2>2 DEF Aligned
<1>6. tile \in Tile /\ tile.base = base /\ tile.size = size
  BY <1>3, <1>4 DEF Tile
<1> HIDE DEF size, tile
<1>7. /\ pending' \in Seq(Tile) /\ Len(pending') = 1 /\ pending'[1] = tile
      /\ Head(pending') = tile /\ pending' # <<>>
  BY <1>2, <1>6
<1>8. Cursor' = Cursor /\ Answered' = Answered
  BY <1>2, <1>6, <1>7 DEF Cursor, Answered
<1>9. TilesInv'
  <2>1. Aligned(base + size) /\ Bottom <= base + size
    <3>1. base % PageSize = 0 /\ size % PageSize = 0
      BY <1>3, <1>5 DEF Aligned
    <3>2. (base + size) % PageSize = 0
      BY <1>3, <1>4, <3>1, AlignedSum
    <3>3. QED
      BY <1>3, <1>4, <3>2 DEF Aligned
  <2>2. ASSUME NEW i \in 1 .. Len(pending')
        PROVE  /\ i = Len(pending') /\ pending'[i] = tile
    BY <1>7
  <2>3. /\ Aligned(tile.base) /\ Aligned(tile.size) /\ Bottom <= tile.base
        /\ tile.size > 0 /\ tile.base + tile.size = base'
        /\ tile.base + tile.size <= base'
    BY <1>2, <1>3, <1>4, <1>5, <1>6
  <2>4. QED
    BY <1>2, <1>4, <2>1, <2>2, <2>3 DEF TilesInv, Aligned
<1>10. TypeOK'
  BY <1>1, <1>2, <1>3, <1>4, <1>7 DEF TypeOK, Tile
<1>11. HostInv'
  BY <1>1, <1>2 DEF HostInv, WholePages
<1>12. ResultsInv'
  BY <1>1, <1>2, <1>8 DEF ResultsInv, RecordsOnlyHostFacts
<1>13. BudgetInv'
  BY <1>1, <1>2 DEF BudgetInv, ExhaustedSaysNothing
<1>14. QED
  BY <1>9, <1>10, <1>11, <1>12, <1>13 DEF WalkInv

\* Giving up forgets the tiles, not what has been recorded.
LEMMA OutOfBudgetStep ==
  ASSUME WalkInv, OutOfBudget
  PROVE  WalkInv'
<1>1. TypeOK /\ HostInv /\ TilesInv /\ ResultsInv /\ BudgetInv
  BY DEF WalkInv
<1>2. /\ pending # <<>> /\ attempts >= MaxAttempts
      /\ budget_exhausted' = TRUE /\ pending' = <<>>
      /\ UNCHANGED <<denied, sizeLimit, own, base, attempts, available,
                     unavailable, returned, changes>>
  BY DEF OutOfBudget, host, results
<1>3. attempts = MaxAttempts
  BY <1>1, <1>2, WalkConstants DEF TypeOK
<1>4. TypeOK'
  BY <1>1, <1>2 DEF TypeOK
<1>5. HostInv'
  BY <1>1, <1>2 DEF HostInv, WholePages
<1>6. TilesInv'
  <2>1. base <= Top
    BY <1>1, <1>2, NextTileFacts
  <2>2. QED
    BY <1>1, <1>2, <2>1 DEF TilesInv, Aligned
<1>7. ResultsInv'
  <2>1. Cursor' = base
    BY <1>2 DEF Cursor
  <2>2. base \in Nat
    BY <1>1 DEF TypeOK
  <2>3. Ascending(available, base) /\ Ascending(unavailable, base)
    BY <1>1, <2>2, CursorAndRanges, AscendingUpTo DEF ResultsInv
  <2>4. QED
    BY <1>1, <1>2, <2>1, <2>3 DEF ResultsInv, RecordsOnlyHostFacts
<1>8. BudgetInv'
  <2>1. ~returned
    BY <1>1, <1>2 DEF BudgetInv
  <2>2. QED
    BY <1>2, <1>3, <2>1 DEF BudgetInv, ExhaustedSaysNothing
<1>9. QED
  BY <1>4, <1>5, <1>6, <1>7, <1>8 DEF WalkInv

\* An attempt: the tile is recorded as what the host makes of it, or split.
\* A refusal becomes a host fact only for a single page, which no limit on the
\* size of a request can refuse, and a page of the process's own is a page the
\* host granted.
LEMMA VisitStep ==
  ASSUME WalkInv, Visit
  PROVE  WalkInv'
<1> DEFINE t == Head(pending)
<1>1. TypeOK /\ HostInv /\ TilesInv /\ ResultsInv /\ BudgetInv
  BY DEF WalkInv
<1>2. /\ pending # <<>> /\ attempts < MaxAttempts /\ attempts' = attempts + 1
      /\ UNCHANGED <<denied, sizeLimit, own, base, budget_exhausted, returned,
                     changes>>
  BY DEF Visit, host
<1>3. PICK placement \in Placements(t) : VisitAs(t, placement)
  BY DEF Visit
<1>4. /\ t \in Tile /\ t.base \in Nat /\ t.size \in Nat
      /\ Aligned(t.base) /\ Aligned(t.size) /\ t.size > 0
      /\ Bottom <= t.base /\ t.base + t.size <= base /\ base <= Top
      /\ Cursor = t.base
  BY <1>1, <1>2, NextTileFacts
<1>5. HostInv'
  BY <1>1, <1>2 DEF HostInv, WholePages
<1>6. BudgetInv' /\ attempts' \in 0 .. MaxAttempts
  <2>1. ~budget_exhausted /\ ~returned
    BY <1>1, <1>2 DEF BudgetInv
  <2>2. attempts' \in 0 .. MaxAttempts
    BY <1>1, <1>2, WalkConstants DEF TypeOK
  <2>3. QED
    BY <1>2, <2>1, <2>2 DEF BudgetInv, ExhaustedSaysNothing
<1>7. ASSUME pending' \in Seq(Tile), available' \in Seq(RangeType),
             unavailable' \in Seq(RangeType)
      PROVE  TypeOK'
  BY <1>1, <1>2, <1>6, <1>7 DEF TypeOK, Tile, RangeType
<1>8. t.size <= PageSize =>
        /\ t.size = PageSize /\ t.base \in Pages
        /\ TileAddresses(t) = PageAt(t.base)
  <2>1. base \in Nat /\ Top \in Nat
    BY <1>1, WalkConstants DEF TypeOK
  <2>2. t.base + t.size <= Top
    BY <1>4, <2>1
  <2>3. QED
    BY <1>4, <2>2, SmallTileIsPage DEF Tile
<1>9. ASSUME pending' = Tail(pending), UNCHANGED unavailable,
             available' = append(available, t.base, t.base + t.size),
             TileAddresses(t) \cap denied = {}
      PROVE  WalkInv'
  <2>1. available' \in Seq(RangeType) /\ ResultsInv'
    BY <1>1, <1>2, <1>9, TileGranted
  <2>2. pending' \in Seq(Tile) /\ TilesInv'
    BY <1>1, <1>2, <1>9, TileRecorded
  <2>3. unavailable' \in Seq(RangeType)
    BY <1>1, <1>9, CursorAndRanges
  <2>4. QED
    BY <1>5, <1>6, <1>7, <2>1, <2>2, <2>3 DEF WalkInv
<1>10. ASSUME pending' = Tail(pending), UNCHANGED available,
              unavailable' = append(unavailable, t.base, t.base + t.size),
              TileAddresses(t) \subseteq denied
       PROVE  WalkInv'
  <2>1. unavailable' \in Seq(RangeType) /\ ResultsInv'
    BY <1>1, <1>2, <1>10, TileDenied
  <2>2. pending' \in Seq(Tile) /\ TilesInv'
    BY <1>1, <1>2, <1>10, TileRecorded
  <2>3. available' \in Seq(RangeType)
    BY <1>1, <1>10, CursorAndRanges
  <2>4. QED
    BY <1>5, <1>6, <1>7, <2>1, <2>2, <2>3 DEF WalkInv
<1> HIDE DEF t
<1>11. CASE placement = "Placed" /\ pending' = Tail(pending)
            /\ available' = append(available, t.base, t.base + t.size)
            /\ UNCHANGED unavailable
  <2>1. TileAddresses(t) \cap denied = {}
    BY <1>3, <1>11 DEF Placements
  <2>2. QED
    BY <1>9, <1>11, <2>1
<1>12. CASE t.size > PageSize /\ pending' = Halves(t) \o Tail(pending)
            /\ UNCHANGED results
  <2>1. pending' \in Seq(Tile) /\ TilesInv' /\ Cursor' = Cursor
    BY <1>1, <1>2, <1>12, TileSplit DEF t
  <2>2. Answered' = Answered
    BY <2>1 DEF Answered
  <2>3. ResultsInv'
    BY <1>1, <1>2, <1>12, <2>1, <2>2 DEF ResultsInv, RecordsOnlyHostFacts, results
  <2>4. available' \in Seq(RangeType) /\ unavailable' \in Seq(RangeType)
    BY <1>1, <1>12, CursorAndRanges DEF results
  <2>5. QED
    BY <1>5, <1>6, <1>7, <2>1, <2>3, <2>4 DEF WalkInv
<1>13. CASE placement = "HeldByProbe" /\ t.size <= PageSize
            /\ available' = append(available, t.base, t.base + PageSize)
            /\ pending' = Tail(pending) /\ UNCHANGED unavailable
  <2>1. TileAddresses(t) \cap own # {}
    BY <1>3, <1>13 DEF Placements
  <2>2. PageAt(t.base) \subseteq own
    BY <1>1, <1>8, <1>13, <2>1 DEF HostInv, WholePages
  <2>3. TileAddresses(t) \cap denied = {}
    BY <1>1, <1>8, <1>13, <2>2 DEF HostInv
  <2>4. QED
    BY <1>8, <1>9, <1>13, <2>3
<1>14. CASE placement = "Refused" /\ t.size <= PageSize
            /\ unavailable' = append(unavailable, t.base, t.base + PageSize)
            /\ pending' = Tail(pending) /\ UNCHANGED available
  <2>1. TileAddresses(t) \cap denied # {} \/ t.size > sizeLimit
    BY <1>3, <1>14 DEF Placements
  <2>2. ~(t.size > sizeLimit)
    BY <1>1, <1>8, <1>14, WalkConstants DEF TypeOK
  <2>3. PageAt(t.base) \subseteq denied
    BY <1>1, <1>8, <1>14, <2>1, <2>2 DEF HostInv, WholePages
  <2>4. QED
    BY <1>8, <1>10, <1>14, <2>3
<1>15. QED
  BY <1>3, <1>11, <1>12, <1>13, <1>14 DEF VisitAs

\* The walk returns what it recorded, or nothing.
LEMMA ReturnStep ==
  ASSUME WalkInv, Return
  PROVE  WalkInv'
<1>1. TypeOK /\ HostInv /\ TilesInv /\ ResultsInv /\ BudgetInv
  BY DEF WalkInv
<1>2. /\ pending = <<>> /\ (base >= Top \/ budget_exhausted) /\ returned' = TRUE
      /\ available' = IF budget_exhausted THEN <<>> ELSE available
      /\ unavailable' = IF budget_exhausted THEN <<>> ELSE unavailable
      /\ UNCHANGED <<denied, sizeLimit, own, base, pending, attempts,
                     budget_exhausted, changes>>
  BY DEF Return, host
<1>3. TypeOK'
  <2>1. <<>> \in Seq([start : Nat, end : Nat])
    OBVIOUS
  <2>2. QED
    BY <1>1, <1>2, <2>1 DEF TypeOK
<1>4. HostInv'
  BY <1>1, <1>2 DEF HostInv, WholePages
<1>5. TilesInv'
  BY <1>1, <1>2 DEF TilesInv, Aligned
<1>6. Cursor' = Cursor /\ Answered' = Answered
  BY <1>2 DEF Cursor, Answered
<1>7. ResultsInv'
  <2>1. CASE budget_exhausted
    <3>1. Covered(<<>>) = {} /\ Ascending(<<>>, Cursor)
      BY DEF Covered, Ascending
    <3>2. QED
      BY <1>2, <1>6, <2>1, <3>1 DEF ResultsInv, RecordsOnlyHostFacts
  <2>2. CASE ~budget_exhausted
    BY <1>1, <1>2, <1>6, <2>2 DEF ResultsInv, RecordsOnlyHostFacts
  <2>3. QED
    BY <2>1, <2>2
<1>8. BudgetInv'
  BY <1>1, <1>2 DEF BudgetInv, ExhaustedSaysNothing
<1>9. QED
  BY <1>3, <1>4, <1>5, <1>7, <1>8 DEF WalkInv

\* A change of the process's layout touches whole pages the host grants.
LEMMA LayoutChangesStep ==
  ASSUME WalkInv, LayoutChanges
  PROVE  WalkInv'
<1>1. TypeOK /\ HostInv /\ TilesInv /\ ResultsInv /\ BudgetInv
  BY DEF WalkInv
<1>2. /\ changes < MaxChanges /\ changes' = changes + 1
      /\ UNCHANGED <<denied, sizeLimit, base, pending, attempts,
                     budget_exhausted, available, unavailable, returned>>
  BY DEF LayoutChanges, host, results
<1>3. PICK p \in Pages :
        /\ PageAt(p) \cap denied = {}
        /\ own' = IF p \in own THEN own \ PageAt(p) ELSE own \cup PageAt(p)
  BY DEF LayoutChanges
<1>4. WholePages(own')
  <2> SUFFICES ASSUME NEW q \in Pages
               PROVE  PageAt(q) \subseteq own' \/ PageAt(q) \cap own' = {}
    BY DEF WholePages
  <2>1. CASE q = p
    BY <1>3, <2>1
  <2>2. CASE q # p
    <3>1. PageAt(q) \cap PageAt(p) = {}
      BY <2>2, PagesApart
    <3>2. PageAt(q) \subseteq own \/ PageAt(q) \cap own = {}
      BY <1>1 DEF HostInv, WholePages
    <3>3. QED
      BY <1>3, <3>1, <3>2
  <2>3. QED
    BY <2>1, <2>2
<1>5. HostInv'
  BY <1>1, <1>2, <1>3, <1>4 DEF HostInv, WholePages
<1>6. TypeOK'
  <2>1. own' \subseteq Word
    BY <1>1, <1>3 DEF TypeOK, PageAt
  <2>2. changes' \in 0 .. MaxChanges
    BY <1>1, <1>2, WalkConstants DEF TypeOK
  <2>3. QED
    BY <1>1, <1>2, <2>1, <2>2 DEF TypeOK
<1>7. TilesInv'
  BY <1>1, <1>2 DEF TilesInv, Aligned
<1>8. ResultsInv' /\ BudgetInv'
  <2>1. Cursor' = Cursor /\ Answered' = Answered
    BY <1>2 DEF Cursor, Answered
  <2>2. QED
    BY <1>1, <1>2, <2>1
       DEF ResultsInv, RecordsOnlyHostFacts, BudgetInv, ExhaustedSaysNothing
<1>9. QED
  BY <1>5, <1>6, <1>7, <1>8 DEF WalkInv

\* The inductive invariant of the walk: whole pages, tiles in a row up to
\* where the loop stands, and every address below the cursor classified.
THEOREM WalkInvariant == Spec => []WalkInv
<1>1. Init => WalkInv
  BY WalkInvInit
<1>2. WalkInv /\ [Next]_vars => WalkInv'
  <2> SUFFICES ASSUME WalkInv, [Next]_vars PROVE WalkInv'
    OBVIOUS
  <2>1. CASE NextTile
    BY <2>1, NextTileStep
  <2>2. CASE OutOfBudget
    BY <2>2, OutOfBudgetStep
  <2>3. CASE Visit
    BY <2>3, VisitStep
  <2>4. CASE Return
    BY <2>4, ReturnStep
  <2>5. CASE LayoutChanges
    BY <2>5, LayoutChangesStep
  <2>6. CASE UNCHANGED vars
    <3>1. UNCHANGED <<denied, sizeLimit, own, base, pending, attempts,
                      budget_exhausted, available, unavailable, returned, changes>>
      BY <2>6 DEF vars, host, results
    <3>2. Cursor' = Cursor /\ Answered' = Answered
      BY <3>1 DEF Cursor, Answered
    <3>3. QED
      BY <3>1, <3>2
         DEF WalkInv, TypeOK, HostInv, WholePages, TilesInv, Aligned, ResultsInv,
             RecordsOnlyHostFacts, BudgetInv, ExhaustedSaysNothing
  <2>7. QED
    BY <2>1, <2>2, <2>3, <2>4, <2>5, <2>6 DEF Next
<1>3. QED
  BY <1>1, <1>2, PTL DEF Spec

\* What is recorded as available the host grants and what is recorded as
\* unavailable it denies, for any limit on the size of a request, any mappings
\* of the probing process and any changes of them between two attempts.
THEOREM HostFactsOnly == Spec => []RecordsOnlyHostFacts
<1>1. WalkInv => RecordsOnlyHostFacts
  BY DEF WalkInv, ResultsInv
<1>2. QED
  BY <1>1, WalkInvariant, PTL

\* A walk that gives up has used its whole budget and returns no fact.
THEOREM ExhaustedWalkIsSilent == Spec => []ExhaustedSaysNothing
<1>1. WalkInv => ExhaustedSaysNothing
  BY DEF WalkInv, BudgetInv
<1>2. QED
  BY <1>1, WalkInvariant, PTL

\* A walk that returns facts classifies every address of the arena as the host
\* treats it, in maximal ranges in ascending order: the facts are a function of
\* the host, and so is the profile_id that hashes them.
THEOREM ProfileIsTheHosts == Spec => []LayoutLeavesNoTrace
<1>1. WalkInv => LayoutLeavesNoTrace
  <2> SUFFICES ASSUME WalkInv, returned, ~budget_exhausted
               PROVE  /\ Maximal(available, Arena \ denied)
                      /\ Maximal(unavailable, denied)
    BY DEF LayoutLeavesNoTrace, Arena
  <2>1. TypeOK /\ HostInv /\ TilesInv /\ ResultsInv /\ BudgetInv
    BY DEF WalkInv
  <2>2. pending = <<>> /\ base >= Top
    BY <2>1 DEF BudgetInv
  <2>3. Answered = Arena
    <3>1. base = Top \/ base = Bottom
      BY <2>1, <2>2, WalkConstants DEF TilesInv, TypeOK
    <3>2. Answered = {a \in Word : Bottom <= a /\ a < base}
      BY <2>2 DEF Answered, Cursor
    <3>3. CASE base = Top
      BY <3>2, <3>3 DEF Arena
    <3>4. CASE base = Bottom
      BY <2>2, <3>2, <3>4, WalkConstants DEF Arena, Word
    <3>5. QED
      BY <3>1, <3>3, <3>4
  <2>4. Covered(available) = Arena \ denied /\ Covered(unavailable) = denied
    BY <2>1, <2>3 DEF ResultsInv, HostInv
  <2>5. ASSUME NEW ranges \in Seq(RangeType), Ascending(ranges, Cursor)
        PROVE  Maximal(ranges, Covered(ranges))
    <3>1. \A i \in 1 .. Len(ranges) : ranges[i] \in RangeType
      OBVIOUS
    <3>2. \A i \in 1 .. Len(ranges) : ~empty(ranges[i])
      BY <2>5, <3>1 DEF Ascending, RangeType, empty
    <3>3. \A i \in 1 .. Len(ranges) - 1 :
            i \in 1 .. Len(ranges) /\ i < Len(ranges)
      OBVIOUS
    <3>4. QED
      BY <2>5, <3>2, <3>3 DEF Ascending, Maximal
  <2>6. QED
    BY <2>1, <2>4, <2>5, CursorAndRanges DEF ResultsInv
<1>2. QED
  BY <1>1, WalkInvariant, PTL

=============================================================================
