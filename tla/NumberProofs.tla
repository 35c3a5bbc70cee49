---------------------------- MODULE NumberProofs ----------------------------
(***************************************************************************)
(* Facts about natural numbers the other proofs rest on: least elements,   *)
(* which stand in for induction, and multiples of a page or a window size, *)
(* the arithmetic behind the walks of an address space, for any size.      *)
(***************************************************************************)
EXTENDS Integers, TLAPS

FST == INSTANCE FiniteSetTheorems

\* A set of natural numbers has a least element: among the intervals that end
\* at its elements, which inclusion orders, one holds no other.
LEMMA LeastNatural ==
  ASSUME NEW T, T \subseteq Nat, T # {}
  PROVE  \E i \in T : \A j \in T : i <= j
<1>1. PICK n \in T : TRUE
  OBVIOUS
<1> DEFINE S == 0 .. n
           U == {0 .. i : i \in T \cap S}
<1>2. FST!IsWellFoundedOn(FST!StrictSubsetOrdering(S), SUBSET S)
  <2>1. FST!IsFiniteSet(S)
    BY FST!FS_Interval
  <2> HIDE DEF S
  <2>2. FST!FiniteSubsetsOf(S) = SUBSET S
    BY <2>1, FST!FS_FiniteSubsetsOfFinite
  <2>3. FST!IsWellFoundedOn(FST!StrictSubsetOrdering(S), FST!FiniteSubsetsOf(S))
    BY FST!FS_StrictSubsetOrderingWellFounded
  <2> QED
    BY <2>2, <2>3
<1>3. U \subseteq SUBSET S /\ U # {}
  BY <1>1
<1>4. PICK x \in U : \A y \in U : <<y, x>> \notin FST!StrictSubsetOrdering(S)
  <2> HIDE DEF U, S
  <2> QED
    BY <1>2, <1>3, FST!WFMin
<1>5. PICK i \in T \cap S : x = 0 .. i
  OBVIOUS
<1>6. ASSUME NEW j \in T, j < i
      PROVE  FALSE
  <2>1. j \in T \cap S /\ 0 .. j \in U
    BY <1>6, <1>5, <1>1
  <2>2. 0 .. j \subseteq 0 .. i /\ 0 .. j # 0 .. i
    BY <1>6, <1>5
  <2>3. <<0 .. j, x>> \in FST!StrictSubsetOrdering(S)
    BY <2>1, <2>2, <1>3, <1>5 DEF FST!StrictSubsetOrdering
  <2> QED
    BY <2>1, <2>3, <1>4
<1> QED
  BY <1>5, <1>6

\* A product is at least one of its factors when the other is not zero.
LEMMA ProductBound ==
  ASSUME NEW k \in Nat \ {0}, NEW unit \in Nat \ {0}
  PROVE  k * unit \in Nat /\ k * unit >= unit
OBVIOUS

\* Multiples have no remainder.
LEMMA MultipleIsAligned ==
  ASSUME NEW k \in Nat, NEW unit \in Nat \ {0}
  PROVE  (k * unit) % unit = 0 /\ (k * unit) \div unit = k
<1> DEFINE n == k * unit
           q == n \div unit
           r == n % unit
<1>1. n \in Nat
  OBVIOUS
<1>2. q \in Int /\ r \in 0 .. unit - 1 /\ n = unit * q + r
  BY <1>1
<1>3. unit * (k - q) = r
  BY <1>2
<1> HIDE DEF q, r, n
<1>4. ~(k - q >= 1)
  <2> SUFFICES ASSUME k - q >= 1 PROVE FALSE
    OBVIOUS
  <2>1. k - q \in Nat \ {0}
    BY <1>2
  <2>2. (k - q) * unit >= unit
    BY <2>1, ProductBound
  <2>3. QED
    BY <1>2, <1>3, <2>2
<1>5. ~(q - k >= 1)
  <2> SUFFICES ASSUME q - k >= 1 PROVE FALSE
    OBVIOUS
  <2>1. q - k \in Nat \ {0}
    BY <1>2
  <2>2. (q - k) * unit >= unit
    BY <2>1, ProductBound
  <2>3. (q - k) * unit = - r
    BY <1>2, <1>3
  <2>4. QED
    BY <1>2, <2>2, <2>3
<1>6. q = k
  BY <1>2, <1>4, <1>5
<1>7. r = 0
  BY <1>3, <1>6
<1>8. QED
  BY <1>6, <1>7 DEF q, r, n

\* A number without remainder is a multiple.
LEMMA AlignedIsMultiple ==
  ASSUME NEW n \in Nat, NEW unit \in Nat \ {0}, n % unit = 0
  PROVE  n \div unit \in Nat /\ n = (n \div unit) * unit
OBVIOUS

\* Sums and differences of multiples are multiples.
LEMMA AlignedSum ==
  ASSUME NEW m \in Nat, NEW n \in Nat, NEW unit \in Nat \ {0},
         m % unit = 0, n % unit = 0
  PROVE  (m + n) % unit = 0
<1>1. PICK j \in Nat : m = j * unit
  BY AlignedIsMultiple
<1>2. PICK k \in Nat : n = k * unit
  BY AlignedIsMultiple
<1>3. m + n = (j + k) * unit /\ j + k \in Nat
  BY <1>1, <1>2
<1>4. QED
  BY <1>3, MultipleIsAligned

\* The difference of two multiples of a unit is one.
LEMMA AlignedDifference ==
  ASSUME NEW m \in Nat, NEW n \in Nat, NEW unit \in Nat \ {0},
         m % unit = 0, n % unit = 0, n <= m
  PROVE  (m - n) % unit = 0
<1>1. PICK j \in Nat : m = j * unit
  BY AlignedIsMultiple
<1>2. PICK k \in Nat : n = k * unit
  BY AlignedIsMultiple
<1>3. j >= k
  <2> SUFFICES ASSUME j < k PROVE FALSE
    BY <1>1, <1>2
  <2>1. k - j \in Nat \ {0}
    OBVIOUS
  <2>2. (k - j) * unit >= unit
    BY <2>1, ProductBound
  <2>3. n = m + (k - j) * unit
    BY <1>1, <1>2
  <2>4. QED
    BY <2>1, <2>2, <2>3
<1>4. m - n = (j - k) * unit /\ j - k \in Nat
  BY <1>1, <1>2, <1>3
<1>5. QED
  BY <1>4, MultipleIsAligned

\* A multiple of a multiple is a multiple.
LEMMA AlignedFiner ==
  ASSUME NEW n \in Nat, NEW large \in Nat \ {0}, NEW unit \in Nat \ {0},
         n % large = 0, large % unit = 0
  PROVE  n % unit = 0
<1>1. PICK j \in Nat : n = j * large
  BY AlignedIsMultiple
<1>2. PICK k \in Nat : large = k * unit
  BY AlignedIsMultiple
<1>3. n = (j * k) * unit /\ j * k \in Nat
  BY <1>1, <1>2
<1>4. QED
  BY <1>3, MultipleIsAligned

\* Two different multiples are at least one unit apart.
LEMMA AlignedGap ==
  ASSUME NEW m \in Nat, NEW n \in Nat, NEW unit \in Nat \ {0},
         m % unit = 0, n % unit = 0, m < n
  PROVE  m + unit <= n
<1>1. m <= n /\ n - m \in Nat
  OBVIOUS
<1>2. (n - m) % unit = 0
  BY <1>1, AlignedDifference
<1>3. PICK k \in Nat : n - m = k * unit
  BY <1>1, <1>2, AlignedIsMultiple
<1>4. k # 0
  BY <1>3
<1>5. k * unit >= unit
  BY <1>4, ProductBound
<1>6. QED
  BY <1>3, <1>5

\* A multiple of a unit is zero or at least one unit.
LEMMA AlignedBound ==
  ASSUME NEW n \in Nat \ {0}, NEW unit \in Nat \ {0}, n % unit = 0
  PROVE  unit <= n
<1>1. PICK k \in Nat : n = k * unit
  BY AlignedIsMultiple
<1>2. k # 0
  BY <1>1
<1>3. QED
  BY <1>1, <1>2, ProductBound

\* The multiple of a unit at or below a number.
LEMMA AlignedDown ==
  ASSUME NEW n \in Nat, NEW unit \in Nat \ {0}
  PROVE  LET m == n - (n % unit)
         IN /\ m \in Nat /\ m <= n /\ n < m + unit
            /\ m % unit = 0 /\ m = (n \div unit) * unit
            /\ \A i \in Nat : i % unit = 0 /\ i <= n => i <= m
            /\ \A i \in Nat : i % unit = 0 /\ i <= n /\ n < i + unit => i = m
<1> DEFINE q == n \div unit
           r == n % unit
           m == n - r
<1>1. q \in Nat /\ r \in 0 .. unit - 1 /\ n = unit * q + r
  OBVIOUS
<1>2. m = q * unit
  BY <1>1
<1>3. m \in Nat /\ m <= n /\ n < m + unit
  BY <1>1
<1>4. m % unit = 0
  BY <1>1, <1>2, MultipleIsAligned
<1> HIDE DEF q, r, m
<1>5. ASSUME NEW i \in Nat, i % unit = 0, i <= n
      PROVE  i <= m
  <2> SUFFICES ASSUME m < i PROVE FALSE
    BY <1>3, <1>5
  <2>1. m + unit <= i
    BY <1>3, <1>4, <1>5, AlignedGap
  <2> QED
    BY <1>3, <1>5, <2>1
<1>6. ASSUME NEW i \in Nat, i % unit = 0, i <= n, n < i + unit
      PROVE  i = m
  <2> SUFFICES ASSUME i < m PROVE FALSE
    BY <1>3, <1>5, <1>6
  <2> QED
    BY <1>3, <1>4, <1>6, AlignedGap
<1>7. \A i \in Nat : /\ i % unit = 0 /\ i <= n => i <= m
                     /\ i % unit = 0 /\ i <= n /\ n < i + unit => i = m
  BY <1>5, <1>6
<1>8. m = n - (n % unit) /\ q = n \div unit
  BY DEF m, q, r
<1> QED
  BY <1>2, <1>3, <1>4, <1>7, <1>8

=============================================================================
