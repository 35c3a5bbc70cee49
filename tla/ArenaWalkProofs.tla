--------------------------- MODULE ArenaWalkProofs ---------------------------
(***************************************************************************)
(* The contiguous arena walk, for every probe, every ceiling, every layout *)
(* of the process and every number of changes to it: what it records does  *)
(* not contradict itself, stays inside the arenas and, on macOS, does not  *)
(* depend on the process.                                                  *)
(***************************************************************************)
EXTENDS ArenaWalk, NumberProofs

-----------------------------------------------------------------------------
(* Where the arenas lie.                                                   *)

A(k) == Planned(max_address)[k]

\* What the assumptions say of the probe at hand.
LEMMA Constants ==
  ASSUME probe \in Probes, max_address \in probe.max_addresses
  PROVE  /\ Granularity \in Nat \ {0} /\ WordMax \in Nat
         /\ Platform \in {"windows", "macos"}
         /\ max_address \in Word /\ max_address % Granularity = 0
         /\ \A n \in {Span, LowBottom, LowTop, LowWindow, HighWindow, BandSize} :
              n \in Word /\ n % Granularity = 0
         /\ LowWindow > 0 /\ HighWindow > 0 /\ LowBottom % LowWindow = 0
         /\ Platform = "windows" => Span % LowWindow = 0 /\ 2 * Span \in Word
         /\ Platform = "macos" => LowTop % LowWindow = 0 /\ Span % HighWindow = 0
<1> DEFINE p == probe
<1>1. /\ p.platform \in {"windows", "macos"}
      /\ p.max_addresses \subseteq Word
      /\ p.low_window > 0 /\ p.high_window > 0
      /\ \A n \in p.max_addresses \cup {p[b] : b \in Bounds} :
            n \in Word /\ n % Granularity = 0
      /\ p.low_bottom % p.low_window = 0
      /\ p.platform = "windows" => p.span % p.low_window = 0 /\ 2 * p.span \in Word
      /\ p.platform = "macos" => p.low_top % p.low_window = 0 /\ p.span % p.high_window = 0
  BY WalkAssumption
<1>2. \A n \in {p.span, p.low_bottom, p.low_top, p.low_window, p.high_window, p.band} :
        n \in Word /\ n % Granularity = 0
  BY <1>1 DEF Bounds
<1>3. max_address \in Word /\ max_address % Granularity = 0
  BY <1>1
<1> QED
  BY <1>1, <1>2, <1>3, WalkAssumption, WordAssumption
     DEF Platform, Span, LowBottom, LowTop, LowWindow, HighWindow, BandSize

\* The bucket of a measured ceiling starts at a multiple of the span, at or below it.
LEMMA Floor ==
  ASSUME NEW max \in Word, NEW span \in Word, 2 * span \in Word, NEW unit \in Nat \ {0},
         span % unit = 0
  PROVE  /\ arena_floor_for(max, span) \in Nat /\ arena_floor_for(max, span) <= max
         /\ arena_floor_for(max, span) % unit = 0
<1> DEFINE n == max - 1
           floor == (n \div span) * span
<1>1. Plus(span, span) = 2 * span
  BY WordAssumption DEF Plus, Word
<1>2. CASE span = 0 \/ max < 2 * span
  <2>1. arena_floor_for(max, span) = 0
    BY <1>1, <1>2 DEF arena_floor_for
  <2>2. 0 % unit = 0
    OBVIOUS
  <2> QED
    BY <2>1, <2>2 DEF Word
<1>3. CASE span # 0 /\ max >= 2 * span
  <2>1. n \in Nat /\ span \in Nat \ {0} /\ max \in Nat
    BY <1>3, WordAssumption DEF Word
  <2>2. arena_floor_for(max, span) = floor
    BY <1>1, <1>3, <2>1 DEF arena_floor_for
  <2>3. floor \in Nat /\ floor <= n /\ floor = (n \div span) * span /\ n \div span \in Nat
    <3> HIDE DEF n
    <3>1. n \div span \in Nat
      BY <2>1
    <3>2. n - (n % span) \in Nat /\ n - (n % span) <= n
            /\ n - (n % span) = (n \div span) * span
      BY <2>1, AlignedDown
    <3> QED
      BY <3>1, <3>2
  <2>4. PICK k \in Nat : span = k * unit
    BY <2>1, AlignedIsMultiple
  <2>5. floor = ((n \div span) * k) * unit /\ (n \div span) * k \in Nat
    BY <2>3, <2>4
  <2>6. floor % unit = 0
    BY <2>5, MultipleIsAligned
  <2> HIDE DEF floor
  <2> QED
    BY <2>1, <2>2, <2>3, <2>6
<1> QED
  BY <1>2, <1>3 DEF Word

\* The bounds and the window of an arena are aligned, and where the walk relies
\* on it the window divides the arena.
LEMMA ArenaShape ==
  ASSUME probe \in Probes, max_address \in probe.max_addresses, NEW k \in 1 .. 2
  PROVE  /\ A(k).bottom \in Nat /\ A(k).top \in Word /\ A(k).window \in Nat \ {0}
         /\ A(k).window \in Word
         /\ HasRoom(A(k)) => A(k).bottom \in Word
         /\ A(k).bottom % Granularity = 0 /\ A(k).window % Granularity = 0
         /\ A(k).top % Granularity = 0
         /\ Platform = "windows" => A(k).top <= max_address
         /\ (Platform = "macos" \/ k = 2) /\ HasRoom(A(k)) =>
              (A(k).top - A(k).bottom) % A(k).window = 0
<1>1. /\ max_address \in Nat /\ Span \in Nat /\ LowBottom \in Nat /\ LowTop \in Nat
      /\ LowWindow \in Nat \ {0} /\ HighWindow \in Nat \ {0} /\ Granularity \in Nat \ {0}
      /\ max_address \in Word /\ LowTop \in Word /\ LowWindow \in Word /\ HighWindow \in Word
      /\ LowBottom \in Word
      /\ max_address % Granularity = 0 /\ LowBottom % Granularity = 0
      /\ LowTop % Granularity = 0 /\ LowWindow % Granularity = 0 /\ HighWindow % Granularity = 0
      /\ Span % Granularity = 0 /\ Platform \in {"windows", "macos"}
  BY Constants DEF Word
<1>2. CASE Platform = "windows"
  <2> DEFINE floor == arena_floor_for(max_address, Span)
  <2>1. /\ floor \in Nat /\ floor <= max_address
        /\ floor % Granularity = 0 /\ floor % LowWindow = 0
    BY <1>1, <1>2, Constants, Floor
  <2> HIDE DEF floor
  <2>2. floor \in Word
    BY <1>1, <2>1, WordAssumption DEF Word
  <2>3. /\ A(1) = [bottom |-> floor, top |-> max_address, window |-> HighWindow]
        /\ A(2) = [bottom |-> LowBottom, top |-> floor, window |-> LowWindow]
    BY <1>2 DEF A, Planned, floor
  <2>4. floor > LowBottom => (floor - LowBottom) % LowWindow = 0
    BY <1>1, <2>1, Constants, AlignedDifference
  <2>5. CASE k = 1
    BY <1>1, <1>2, <2>1, <2>2, <2>3, <2>5 DEF HasRoom
  <2>6. CASE k = 2
    BY <1>1, <1>2, <2>1, <2>2, <2>3, <2>4, <2>6 DEF HasRoom
  <2> QED
    BY <2>5, <2>6
<1>3. CASE Platform = "macos"
  <2> DEFINE floor == high_arena_floor(max_address, Span, LowTop)
  <2>1. /\ floor \in Nat /\ floor <= max_address
        /\ floor # 0 => floor = max_address - Span /\ floor > LowTop /\ Span # 0
    BY <1>1 DEF high_arena_floor
  <2>2. floor % Granularity = 0
    BY <1>1, <2>1, AlignedDifference
  <2>3. /\ A(1) = [bottom |-> LowBottom, top |-> LowTop, window |-> LowWindow]
        /\ A(2) = [bottom |-> floor, top |-> max_address, window |-> HighWindow]
    BY <1>3 DEF A, Planned
  <2>4. LowTop > LowBottom => (LowTop - LowBottom) % LowWindow = 0
    BY <1>1, <1>3, Constants, AlignedDifference
  <2>5. floor # 0 => (max_address - floor) % HighWindow = 0
    BY <1>1, <1>3, <2>1, Constants
  <2> HIDE DEF floor
  <2>6. CASE k = 1
    BY <1>1, <1>3, <2>3, <2>4, <2>6 DEF HasRoom
  <2>7. CASE k = 2
    <3>1. floor \in Word
      BY <1>1, <2>1, WordAssumption DEF Word
    <3>2. floor # 0 /\ floor < max_address => (max_address - floor) % HighWindow = 0
      BY <2>5
    <3> QED
      BY <1>1, <1>3, <2>1, <2>2, <2>3, <2>7, <3>1, <3>2 DEF HasRoom
  <2> QED
    BY <2>6, <2>7
<1> QED
  BY <1>1, <1>2, <1>3

\* The two arenas, where both have room, do not overlap.
LEMMA ArenasApart ==
  ASSUME probe \in Probes, max_address \in probe.max_addresses,
         HasRoom(A(1)), HasRoom(A(2))
  PROVE  A(2).top <= A(1).bottom \/ A(1).top <= A(2).bottom
<1>1. Platform \in {"windows", "macos"} /\ max_address \in Nat /\ Span \in Nat /\ LowTop \in Nat
  BY Constants DEF Word
<1>2. CASE Platform = "windows"
  <2>1. A(2).top = A(1).bottom /\ A(1).bottom \in Nat
    BY <1>2, ArenaShape DEF A, Planned
  <2> QED
    BY <2>1
<1>3. CASE Platform = "macos"
  <2>1. /\ A(1).top = LowTop /\ A(2).bottom = high_arena_floor(max_address, Span, LowTop)
        /\ A(2).bottom # 0
    BY <1>3 DEF A, Planned, HasRoom
  <2> QED
    BY <1>1, <2>1 DEF high_arena_floor
<1> QED
  BY <1>1, <1>2, <1>3

-----------------------------------------------------------------------------
(* What the process has.                                                   *)

\* The granule of an address the process has.
LEMMA GranuleOf ==
  ASSUME probe \in Probes, max_address \in probe.max_addresses,
         NEW x \in Nat, LowBottom <= x, x < max_address
  PROVE  LET g == x - (x % Granularity)
         IN g \in Granules(max_address) /\ g <= x /\ x < g + Granularity /\ g \in Nat
<1> DEFINE g == x - (x % Granularity)
<1>1. /\ Granularity \in Nat \ {0} /\ LowBottom \in Nat /\ LowBottom % Granularity = 0
      /\ max_address \in 0 .. WordMax /\ WordMax \in Nat
  BY Constants DEF Word
<1>2. /\ g \in Nat /\ g <= x /\ x < g + Granularity /\ g % Granularity = 0 /\ LowBottom <= g
  BY <1>1, AlignedDown
<1> HIDE DEF g
<1>3. g \in Granules(max_address)
  BY <1>1, <1>2 DEF Granules, Word
<1> QED
  BY <1>2, <1>3 DEF g

\* The end of a run of occupied granules: the first place at or below the ceiling
\* that the process does not have.
LEMMA RunEnds ==
  ASSUME probe \in Probes, max_address \in probe.max_addresses, NEW x \in Nat, Occupied(x)
  PROVE  LET e == EndOfRun(x)
         IN /\ e \in Granules(max_address) \cup {max_address} /\ x < e
            /\ \A g \in Granules(max_address) : x <= g /\ g < e => OwnAt(g) # "free"
            /\ ~Occupied(e)
<1> DEFINE G == Granules(max_address)
           Ends(e) == /\ x < e
                      /\ \A g \in G : x <= g /\ g < e => OwnAt(g) # "free"
                      /\ ~Occupied(e)
           Free == {e \in G \cup {max_address} : x < e /\ ~Occupied(e)}
<1>1. max_address \in Nat /\ G \subseteq Nat /\ \A g \in G : LowBottom <= g /\ g < max_address
  BY Constants DEF Granules, Word
<1>2. x < max_address /\ OwnAt(x) # "free" /\ ~Occupied(max_address)
  BY <1>1 DEF Occupied
<1> HIDE DEF G
<1>3. PICK e \in Free : \A f \in Free : e <= f
  <2>1. Free \subseteq Nat /\ max_address \in Free
    BY <1>1, <1>2
  <2> HIDE DEF Free
  <2> QED
    BY <2>1, LeastNatural
<1>4. ASSUME NEW g \in G, x <= g, g < e
      PROVE  OwnAt(g) # "free"
  <2>1. CASE g = x
    BY <1>2, <2>1
  <2>2. CASE x < g
    <3>1. Occupied(g)
      BY <1>1, <1>3, <1>4, <2>2
    <3> QED
      BY <3>1 DEF Occupied
  <2> QED
    BY <1>1, <1>4, <2>1, <2>2
<1>5. e \in G \cup {max_address} /\ Ends(e)
  BY <1>3, <1>4
<1>6. EndOfRun(x) = CHOOSE f \in G \cup {max_address} : Ends(f)
  BY DEF EndOfRun, G
<1> HIDE DEF Ends
<1>7. EndOfRun(x) \in G \cup {max_address} /\ Ends(EndOfRun(x))
  BY <1>5, <1>6
<1> QED
  BY <1>7 DEF Ends, G

\* Between an address the process has and the end of its run all is the process's.
LEMMA RunIsOccupied ==
  ASSUME probe \in Probes, max_address \in probe.max_addresses, NEW x \in Nat, Occupied(x),
         NEW y \in Nat, x <= y, y < EndOfRun(x)
  PROVE  Occupied(y)
<1> DEFINE e == EndOfRun(x)
           h == y - (y % Granularity)
<1>1. /\ e \in Nat /\ e <= max_address /\ max_address \in Nat /\ LowBottom \in Nat
      /\ Granularity \in Nat \ {0} /\ LowBottom <= x
      /\ \A g \in Granules(max_address) : x <= g /\ g < e => OwnAt(g) # "free"
  BY RunEnds, Constants DEF Granules, Word, Occupied
<1>2. h \in Granules(max_address) /\ h <= y /\ y < h + Granularity /\ h \in Nat
        /\ h % Granularity = 0
  BY <1>1, GranuleOf DEF Granules
<1>3. OwnAt(y) = own[h]
  BY DEF OwnAt
<1> HIDE DEF e, h
<1>4. CASE x <= h
  <2>1. h < e
    BY <1>1, <1>2 DEF e
  <2>2. OwnAt(h) # "free"
    BY <1>1, <1>2, <1>4, <2>1
  <2>3. OwnAt(h) = own[h]
    BY <1>2 DEF OwnAt
  <2> QED
    BY <1>1, <1>3, <2>2, <2>3 DEF Occupied, e
<1>5. CASE h < x
  <2>1. h <= x /\ x < h + Granularity
    BY <1>1, <1>2, <1>5
  <2>2. h = x - (x % Granularity)
    BY <1>1, <1>2, <2>1, AlignedDown
  <2>3. OwnAt(x) = own[h]
    BY <2>2 DEF OwnAt
  <2> QED
    BY <1>1, <1>3, <2>3 DEF Occupied, e
<1> QED
  BY <1>2, <1>4, <1>5

\* The end of a map entry: the first granule above it that differs, or the ceiling.
LEMMA EntryEnds ==
  ASSUME probe \in Probes, max_address \in probe.max_addresses,
         NEW x \in Nat, x < max_address
  PROVE  EndOfEntry(x) \in Granules(max_address) \cup {max_address} /\ x < EndOfEntry(x)
<1> DEFINE G == Granules(max_address)
           Ends(e) == /\ x < e
                      /\ \A g \in G : x <= g /\ g < e => OwnAt(g) = OwnAt(x)
                      /\ e = max_address \/ OwnAt(e) # OwnAt(x)
           Other == {e \in G \cup {max_address} :
                        x < e /\ (e = max_address \/ OwnAt(e) # OwnAt(x))}
<1>1. max_address \in Nat /\ G \subseteq Nat /\ \A g \in G : g < max_address
  BY Constants DEF Granules, Word
<1> HIDE DEF G
<1>2. PICK e \in Other : \A f \in Other : e <= f
  <2>1. Other \subseteq Nat /\ max_address \in Other
    BY <1>1
  <2> HIDE DEF Other
  <2> QED
    BY <2>1, LeastNatural
<1>3. ASSUME NEW g \in G, x <= g, g < e
      PROVE  OwnAt(g) = OwnAt(x)
  <2>1. CASE g = x
    BY <2>1
  <2>2. CASE x < g
    BY <1>1, <1>2, <1>3, <2>2
  <2> QED
    BY <1>1, <1>3, <2>1, <2>2
<1>4. e \in G \cup {max_address} /\ Ends(e)
  BY <1>2, <1>3
<1>5. EndOfEntry(x) = CHOOSE f \in G \cup {max_address} : Ends(f)
  BY DEF EndOfEntry, G
<1> HIDE DEF Ends
<1>6. EndOfEntry(x) \in G \cup {max_address} /\ Ends(EndOfEntry(x))
  BY <1>4, <1>5
<1> QED
  BY <1>6 DEF Ends, G

-----------------------------------------------------------------------------
(* What the hooks report.                                                  *)

\* A window inside its arena does not wrap.
LEMMA WindowShape ==
  ASSUME probe \in Probes, max_address \in probe.max_addresses, arena \in 1 .. 2,
         base \in Nat, base + Here.window <= Here.top
  PROVE  /\ Here.window \in Nat \ {0} /\ Here.top \in Word
         /\ Window = {x \in Nat : base <= x /\ x < base + Here.window}
<1>1. Here = A(arena)
  BY DEF Here, A
<1>2. Here.window \in Nat \ {0} /\ Here.top \in Word
  BY <1>1, ArenaShape
<1> QED
  BY <1>2, WordAssumption DEF Window, Block, Word

\* The extent classify_window reports is occupied from the first region it found.
LEMMA ClassifiedRun ==
  ASSUME probe \in Probes, max_address \in probe.max_addresses, arena \in 1 .. 2,
         base \in Nat, base + Here.window <= Here.top, \E x \in Window : Occupied(x)
  PROVE  /\ classify_window.held_end \in Nat /\ classify_window.held_end <= max_address
         /\ \A y \in Nat : base + Here.window <= y /\ y < classify_window.held_end
                              => Occupied(y)
<1> DEFINE First(x) == Occupied(x) /\ \A y \in Window : Occupied(y) => x <= y
           Found == {x \in Window : Occupied(x)}
           first == CHOOSE x \in Window : First(x)
<1>1. Window = {x \in Nat : base <= x /\ x < base + Here.window}
  BY WindowShape
<1>2. PICK x \in Found : \A y \in Found : x <= y
  <2>1. Found \subseteq Nat /\ Found # {}
    BY <1>1
  <2> HIDE DEF Found
  <2> QED
    BY <2>1, LeastNatural
<1>3. x \in Window /\ First(x)
  BY <1>2
<1> HIDE DEF First
<1>4. first \in Window /\ First(first)
  BY <1>3
<1>5. classify_window = [covers |-> TRUE, held_end |-> EndOfRun(first)]
  BY DEF classify_window, First
<1> HIDE DEF first
<1>6. first \in Nat /\ first < base + Here.window /\ Occupied(first) /\ Here.window \in Nat
  BY <1>1, <1>4, WindowShape DEF First
<1>7. EndOfRun(first) \in Nat /\ EndOfRun(first) <= max_address
  <2>1. EndOfRun(first) \in Granules(max_address) \cup {max_address}
    BY <1>6, RunEnds
  <2> QED
    BY <2>1, Constants DEF Granules, Word
<1>8. ASSUME NEW y \in Nat, base + Here.window <= y, y < EndOfRun(first)
      PROVE  Occupied(y)
  <2>1. first <= y
    BY <1>6, <1>8
  <2> QED
    BY <1>6, <1>8, <2>1, RunIsOccupied
<1> QED
  BY <1>5, <1>7, <1>8

\* What either platform describes ends at or below the ceiling; what the Windows
\* probe skips past the window is the process's; macOS covers every refusal.
LEMMA Described ==
  ASSUME probe \in Probes, max_address \in probe.max_addresses, arena \in 1 .. 2,
         base \in Nat, base + Here.window <= Here.top
  PROVE  /\ describe.held_end \in Nat /\ describe.held_end <= max_address
         /\ describe.covers \in BOOLEAN
         /\ Platform = "macos" => describe.covers
         /\ Platform = "windows" /\ describe.covers =>
              \A y \in Nat : base + Here.window <= y /\ y < describe.held_end => Occupied(y)
         /\ Platform = "windows" => (describe.covers <=> \E x \in Window : Occupied(x))
<1>1. max_address \in Nat /\ Platform \in {"windows", "macos"}
  BY Constants DEF Word
<1>2. CASE Platform = "windows"
  <2>1. CASE \E x \in Window : Occupied(x)
    <3>1. classify_window.covers = TRUE
      BY <2>1 DEF classify_window
    <3> QED
      BY <1>2, <2>1, <3>1, ClassifiedRun DEF describe
  <2>2. CASE ~ \E x \in Window : Occupied(x)
    <3>1. classify_window = [covers |-> FALSE, held_end |-> 0]
      BY <2>2 DEF classify_window
    <3> QED
      BY <1>1, <1>2, <2>2, <3>1 DEF describe
  <2> QED
    BY <2>1, <2>2
<1>3. CASE Platform = "macos"
  <2> DEFINE above == {g \in Granules(max_address) : g >= base /\ OwnAt(g) # "free"}
             entry == CHOOSE g \in above : \A h \in above : g <= h
  <2>1. describe = [covers |-> TRUE,
                    held_end |-> IF above = {} THEN 0 ELSE EndOfEntry(entry)]
    BY <1>3 DEF describe, DescribeRegion
  <2>2. above \subseteq Nat /\ \A g \in above : g \in Nat /\ g < max_address
    BY DEF Granules, Word
  <2>3. above # {} => entry \in above
    <3> HIDE DEF above
    <3>1. above # {} => \E g \in above : \A h \in above : g <= h
      BY <2>2, LeastNatural
    <3> QED
      BY <3>1
  <2> HIDE DEF above, entry
  <2>4. above # {} => EndOfEntry(entry) \in Granules(max_address) \cup {max_address}
    BY <2>2, <2>3, EntryEnds
  <2>5. above # {} => EndOfEntry(entry) \in Nat /\ EndOfEntry(entry) <= max_address
    BY <1>1, <2>4 DEF Granules, Word
  <2> QED
    BY <1>1, <1>3, <2>1, <2>5
<1> QED
  BY <1>1, <1>2, <1>3

\* Where the walk resumes: at a window of the grid, past the one described and
\* no further than the end of what was described.
LEMMA Resume ==
  ASSUME probe \in Probes, max_address \in probe.max_addresses, arena \in 1 .. 2,
         base \in Nat, Here.bottom <= base, (base - Here.bottom) % Here.window = 0,
         NEW held \in Nat
  PROVE  LET reached == base + (Jump(held) + 1) * Here.window
         IN /\ reached \in Nat /\ base + Here.window <= reached
            /\ reached <= held \/ reached = base + Here.window
            /\ (reached - Here.bottom) % Here.window = 0
<1> DEFINE w == Here.window
           o == Here.bottom
           j == Jump(held)
           d == held - (base + w)
<1>1. Here = A(arena)
  BY DEF Here, A
<1>2. w \in Nat \ {0} /\ o \in Nat
  BY <1>1, ArenaShape
<1>3. j = IF held > base + w THEN d \div w ELSE 0
  BY DEF Jump
<1> HIDE DEF w, o, j
<1>4. j \in Nat /\ j * w \in Nat /\ (j * w) % w = 0 /\ (held > base + w => j * w <= d)
  <2>1. CASE held > base + w
    <3>1. d \in Nat
      BY <1>2, <2>1
    <3> HIDE DEF d
    <3>2. d - (d % w) \in Nat /\ d - (d % w) <= d /\ d - (d % w) = (d \div w) * w
      BY <1>2, <3>1, AlignedDown
    <3>3. j = d \div w /\ d \div w \in Nat
      BY <1>2, <1>3, <2>1, <3>1
    <3>4. (j * w) % w = 0
      BY <1>2, <3>3, MultipleIsAligned
    <3> QED
      BY <3>2, <3>3, <3>4
  <2>2. CASE ~(held > base + w)
    <3>1. j = 0 /\ j * w = 0 /\ 0 % w = 0
      BY <1>2, <1>3, <2>2
    <3> QED
      BY <2>2, <3>1
  <2> QED
    BY <2>1, <2>2
<1>5. (j + 1) * w = j * w + w
  BY <1>2, <1>4
<1>6. w % w = 0
  BY <1>2, MultipleIsAligned
<1>7. (base - o) \in Nat /\ (base - o) % w = 0
  BY <1>2 DEF w, o
<1>8. (j * w + w) % w = 0
  BY <1>2, <1>4, <1>6, AlignedSum
<1>9. ((base - o) + (j * w + w)) % w = 0
  <2> DEFINE a == base - o
             b == j * w + w
  <2>1. a \in Nat /\ b \in Nat /\ a % w = 0 /\ b % w = 0
    BY <1>2, <1>4, <1>7, <1>8
  <2> HIDE DEF a, b
  <2>2. (a + b) % w = 0
    BY <1>2, <2>1, AlignedSum
  <2> QED
    BY <2>2 DEF a, b
<1> DEFINE m == j * w
<1>10. m \in Nat /\ (j + 1) * w = m + w /\ ((base - o) + (m + w)) % w = 0
         /\ (held > base + w => m <= d) /\ (~(held > base + w) => m = 0)
  BY <1>2, <1>3, <1>4, <1>5, <1>9
<1> HIDE DEF m
<1>11. base + (m + w) - o = (base - o) + (m + w)
  BY <1>2, <1>10
<1>12. /\ base + (m + w) \in Nat /\ base + w <= base + (m + w)
       /\ base + (m + w) <= held \/ base + (m + w) = base + w
       /\ (base + (m + w) - o) % w = 0
  BY <1>2, <1>10, <1>11
<1> DEFINE reached == base + (j + 1) * w
<1>13. reached = base + (m + w)
  BY <1>10
<1> HIDE DEF reached
<1>14. /\ reached \in Nat /\ base + w <= reached
       /\ reached <= held \/ reached = base + w
       /\ (reached - o) % w = 0
  BY <1>2, <1>10, <1>12, <1>13
<1> QED
  BY <1>14, Zenon DEF w, o, j, reached

-----------------------------------------------------------------------------
(* What the walk records, by how far it has come.                          *)

\* What was recorded stays recorded as the walk goes on.
LEMMA StaysRecorded ==
  ASSUME TypeOK, NEW k \in 1 .. 2, NEW r \in Range,
         NEW ar \in Nat, NEW fr \in Nat, NEW br \in Nat, NEW gr \in Nat,
         (br = ar /\ fr <= gr) \/ br = ar + 1, Behind(k, r, ar, fr)
  PROVE  Behind(k, r, br, gr)
<1>1. r.end \in Nat
  BY DEF Range, Word
<1> QED
  BY <1>1 DEF Behind, A

\* A range of the arena being walked, beyond what is recorded of it, overlaps
\* nothing recorded.
LEMMA Beyond ==
  ASSUME TypeOK, NEW k \in 1 .. 2, NEW r \in Range, NEW ar \in 1 .. 2, NEW fr \in Nat,
         Behind(k, r, ar, fr), NEW q \in Range,
         HasRoom(A(ar)), A(ar).bottom <= q.start, q.end <= A(ar).top, fr <= q.start
  PROVE  Disjoint(r, q)
<1>1. r.start \in Nat /\ r.end \in Nat /\ q.start \in Nat /\ q.end \in Nat
  BY DEF Range, Word
<1>2. CASE k = ar
  BY <1>1, <1>2 DEF Behind, A, Disjoint
<1>3. CASE k # ar
  <2>1. HasRoom(A(1)) /\ HasRoom(A(2))
    BY <1>3 DEF Behind, A
  <2>2. A(2).top <= A(1).bottom \/ A(1).top <= A(2).bottom
    BY <2>1, ArenasApart DEF TypeOK
  <2>3. /\ A(1).bottom \in Nat /\ A(1).top \in Nat /\ A(2).bottom \in Nat /\ A(2).top \in Nat
        /\ A(1).bottom < A(1).top /\ A(2).bottom < A(2).top
    <3>1. \A i \in 1 .. 2 : A(i).bottom \in Nat /\ A(i).top \in Nat
      BY ArenaShape DEF TypeOK, Word
    <3> QED
      BY <2>1, <3>1 DEF HasRoom
  <2>4. CASE k = 1 /\ ar = 2
    BY <1>1, <2>2, <2>3, <2>4 DEF Behind, A, Disjoint
  <2>5. CASE k = 2 /\ ar = 1
    BY <1>1, <2>2, <2>3, <2>5 DEF Behind, A, Disjoint
  <2> QED
    BY <1>3, <2>4, <2>5
<1> QED
  BY <1>2, <1>3

\* The records of a walk that has come to fr in arena ar.
Records(av, un, ar, fr) ==
    av \in Seq(Range) /\ un \in Seq(Range) /\ InOrder(av, un, ar, fr)

\* Records that were good where the walk stood are good where it stands later.
LEMMA RecordsStay ==
  ASSUME TypeOK, NEW av, NEW un,
         NEW ar \in Nat, NEW fr \in Nat, NEW br \in Nat, NEW gr \in Nat,
         (br = ar /\ fr <= gr) \/ br = ar + 1, Records(av, un, ar, fr)
  PROVE  Records(av, un, br, gr)
<1>1. av \in Seq(Range) /\ un \in Seq(Range)
  BY DEF Records, InOrder
<1>2. \A r \in Range, k \in 1 .. 2 : Behind(k, r, ar, fr) => Behind(k, r, br, gr)
  BY StaysRecorded
<1>3. \A i \in DOMAIN av : av[i] \in Range /\ \E k \in 1 .. 2 : Behind(k, av[i], br, gr)
  BY <1>1, <1>2 DEF Records, InOrder
<1>4. \A j \in DOMAIN un : un[j] \in Range /\ \E k \in 1 .. 2 : Behind(k, un[j], br, gr)
  BY <1>1, <1>2 DEF Records, InOrder
<1> QED
  BY <1>3, <1>4 DEF Records, InOrder

\* A range that begins where the walk has come to may be recorded as available.
LEMMA RecordAvailable ==
  ASSUME TypeOK, NEW av, NEW un, NEW ar \in 1 .. 2, NEW fr \in Nat, NEW q \in Range,
         Records(av, un, ar, fr), HasRoom(A(ar)), A(ar).bottom <= q.start, fr <= q.start,
         q.start < q.end, q.end <= A(ar).top
  PROVE  Records(Append(av, q), un, ar, q.end)
<1>1. av \in Seq(Range) /\ un \in Seq(Range) /\ q.start \in Nat /\ q.end \in Nat
  BY DEF Records, InOrder, Range, Word
<1>2. Records(av, un, ar, q.end)
  BY <1>1, RecordsStay
<1>3. Behind(ar, q, ar, q.end)
  BY <1>1 DEF Behind, A
<1>4. \A i \in DOMAIN av : Disjoint(av[i], q)
  BY <1>1, Beyond DEF Records, InOrder
<1>5. \A j \in DOMAIN un : Disjoint(q, un[j])
  <2> SUFFICES ASSUME NEW j \in DOMAIN un PROVE Disjoint(q, un[j])
    OBVIOUS
  <2>1. un[j] \in Range /\ Disjoint(un[j], q)
    BY <1>1, Beyond DEF Records, InOrder
  <2> QED
    BY <1>1, <2>1 DEF Disjoint, Range, Word
<1>6. \A i \in DOMAIN av : Disjoint(q, av[i])
  <2> SUFFICES ASSUME NEW i \in DOMAIN av PROVE Disjoint(q, av[i])
    OBVIOUS
  <2>1. av[i] \in Range /\ Disjoint(av[i], q)
    BY <1>1, <1>4
  <2> QED
    BY <1>1, <2>1 DEF Disjoint, Range, Word
<1> DEFINE aw == Append(av, q)
           n == Len(av) + 1
<1>7. /\ aw \in Seq(Range) /\ DOMAIN aw = DOMAIN av \cup {n} /\ aw[n] = q
      /\ n \notin DOMAIN av /\ \A i \in DOMAIN av : aw[i] = av[i]
  BY <1>1
<1> HIDE DEF aw, n
<1>8. \A i \in DOMAIN aw : \E k \in 1 .. 2 : Behind(k, aw[i], ar, q.end)
  BY <1>2, <1>3, <1>7 DEF Records, InOrder
<1>9. \A i, j \in DOMAIN aw : i # j => Disjoint(aw[i], aw[j])
  BY <1>2, <1>4, <1>6, <1>7 DEF Records, InOrder
<1>10. \A i \in DOMAIN aw, j \in DOMAIN un : Disjoint(aw[i], un[j])
  BY <1>2, <1>5, <1>7 DEF Records, InOrder
<1>11. Records(aw, un, ar, q.end)
  BY <1>2, <1>7, <1>8, <1>9, <1>10 DEF Records, InOrder
<1> QED
  BY <1>11 DEF aw

\* The same for a range recorded as unavailable.
LEMMA RecordUnavailable ==
  ASSUME TypeOK, NEW av, NEW un, NEW ar \in 1 .. 2, NEW fr \in Nat, NEW q \in Range,
         Records(av, un, ar, fr), HasRoom(A(ar)), A(ar).bottom <= q.start, fr <= q.start,
         q.start < q.end, q.end <= A(ar).top
  PROVE  Records(av, Append(un, q), ar, q.end)
<1>1. av \in Seq(Range) /\ un \in Seq(Range) /\ q.start \in Nat /\ q.end \in Nat
  BY DEF Records, InOrder, Range, Word
<1>2. Records(av, un, ar, q.end)
  BY <1>1, RecordsStay
<1>3. Behind(ar, q, ar, q.end)
  BY <1>1 DEF Behind, A
<1>4. \A i \in DOMAIN av : Disjoint(av[i], q)
  BY <1>1, Beyond DEF Records, InOrder
<1> DEFINE uw == Append(un, q)
           n == Len(un) + 1
<1>5. /\ uw \in Seq(Range) /\ DOMAIN uw = DOMAIN un \cup {n} /\ uw[n] = q
      /\ n \notin DOMAIN un /\ \A i \in DOMAIN un : uw[i] = un[i]
  BY <1>1
<1> HIDE DEF uw, n
<1>6. \A j \in DOMAIN uw : \E k \in 1 .. 2 : Behind(k, uw[j], ar, q.end)
  BY <1>2, <1>3, <1>5 DEF Records, InOrder
<1>7. \A i \in DOMAIN av, j \in DOMAIN uw : Disjoint(av[i], uw[j])
  BY <1>2, <1>4, <1>5 DEF Records, InOrder
<1>8. Records(av, uw, ar, q.end)
  BY <1>2, <1>5, <1>6, <1>7 DEF Records, InOrder
<1> QED
  BY <1>8 DEF uw

\* The addresses and the ranges of a list that has grown by one range.
LEMMA Grown ==
  ASSUME NEW s \in Seq(Range), NEW q \in Range
  PROVE  /\ Covered(Append(s, q)) = Covered(s) \cup {x \in Word : q.start <= x /\ x < q.end}
         /\ {Append(s, q)[i] : i \in 1 .. Len(Append(s, q))}
               = {s[i] : i \in 1 .. Len(s)} \cup {q}
<1> DEFINE t == Append(s, q)
           n == Len(s)
<1>1. /\ n \in Nat /\ Len(t) = n + 1 /\ t[n + 1] = q
      /\ \A i \in 1 .. n : t[i] = s[i]
  OBVIOUS
<1>2. Covered(s) = {x \in Word : \E i \in 1 .. n : s[i].start <= x /\ x < s[i].end}
  BY DEF Covered
<1>3. Covered(t) = {x \in Word : \E i \in 1 .. n + 1 : t[i].start <= x /\ x < t[i].end}
  BY <1>1 DEF Covered
<1> HIDE DEF t, n
<1>4. 1 .. n + 1 = (1 .. n) \cup {n + 1}
  BY <1>1
<1>5. Covered(t) = Covered(s) \cup {x \in Word : q.start <= x /\ x < q.end}
  BY <1>1, <1>2, <1>3, <1>4
<1>6. {t[i] : i \in 1 .. Len(t)} = {s[i] : i \in 1 .. n} \cup {q}
  BY <1>1, <1>4
<1> QED
  BY <1>5, <1>6 DEF t, n

-----------------------------------------------------------------------------
(* The invariant.                                                          *)

\* While the host stays as it is, the arenas stay where they are.
LEMMA Unmoved ==
  ASSUME UNCHANGED host
  PROVE  /\ Platform' = Platform /\ Kinds' = Kinds
         /\ Granules(max_address)' = Granules(max_address)
         /\ \A k : A(k)' = A(k) /\ Whole(k)' = Whole(k)
         /\ Here' = A(arena')
         /\ \A av, un, ar, fr : InOrder(av, un, ar, fr)' <=> InOrder(av, un, ar, fr)
<1>1. probe' = probe /\ max_address' = max_address
  BY DEF host
<1>2. Planned(max_address)' = Planned(max_address)
  BY <1>1 DEF Planned, Platform, Span, LowBottom, LowTop, LowWindow, HighWindow,
              arena_floor_for, high_arena_floor, Plus
<1>3. \A k, r, ar, fr : Behind(k, r, ar, fr)' <=> Behind(k, r, ar, fr)
  BY <1>2 DEF Behind, HasRoom
<1>4. \A av, un, ar, fr : InOrder(av, un, ar, fr)' <=> InOrder(av, un, ar, fr)
  BY <1>3 DEF InOrder
<1> QED
  BY <1>1, <1>2, <1>4 DEF Platform, Kinds, Granules, LowBottom, A, Whole, Here

\* The loop condition says that the next window fits into the arena.
LEMMA NextWindow ==
  ASSUME TypeOK, arena \in 1 .. 2
  PROVE  MoreWindows <=> base + Here.window <= Here.top
<1>1. Here = A(arena)
  BY DEF Here, A
<1>2. Here.window \in Nat \ {0} /\ Here.top \in Nat /\ Here.top <= WordMax /\ base \in Nat
        /\ WordMax \in Nat
  BY <1>1, ArenaShape, WordAssumption DEF TypeOK, Word
<1> DEFINE w == Here.window
           t == Here.top
<1> HIDE DEF w, t
<1>3. MoreWindows <=> /\ Plus(base, w) <= t
                      /\ ~(w = 0 \/ base > WordMax - w)
  BY DEF MoreWindows, from_base_size, w, t
<1>4. w \in Nat \ {0} /\ t \in Nat /\ t <= WordMax
  BY <1>2 DEF w, t
<1>5. CASE base + w <= WordMax
  <2>1. Plus(base, w) = base + w
    BY <1>2, <1>4, <1>5 DEF Plus
  <2> QED
    BY <1>2, <1>3, <1>4, <1>5, <2>1 DEF w, t
<1>6. CASE ~(base + w <= WordMax)
  BY <1>2, <1>3, <1>4, <1>6 DEF w, t
<1> QED
  BY <1>5, <1>6

\* Before the first arena nothing is recorded.
LEMMA InitInv == Init => ArenaInv
<1> SUFFICES ASSUME Init PROVE ArenaInv
  OBVIOUS
<1>1. probe \in Probes /\ max_address \in probe.max_addresses
  BY DEF Init
<1>2. denied \subseteq Word
  BY DEF Init, Bands, Block
<1>3. TypeOK
  <2>1. own \in [Granules(max_address) -> Kinds]
    BY DEF Init
  <2>2. available \in Seq(Range) /\ unavailable \in Seq(Range)
    BY DEF Init
  <2>3. /\ arena = 1 /\ pc = "enter" /\ base = 0 /\ in_run = FALSE /\ run_start = 0
        /\ last_window_end = 0 /\ seen = {} /\ changes = 0
    BY DEF Init
  <2> QED
    <3>1. arena \in 1 .. 3 /\ pc \in {"enter", "place", "query", "describe", "returned"}
      BY <2>3
    <3>2. base \in Nat /\ in_run \in BOOLEAN /\ run_start \in Nat /\ last_window_end \in Nat
      BY <2>3
    <3>3. seen \subseteq Word /\ changes \in Nat
      BY <2>3
    <3> QED
      BY <1>1, <1>2, <2>1, <2>2, <3>1, <3>2, <3>3 DEF TypeOK
<1>4. ~Walking /\ ~in_run
  BY DEF Init, Walking
<1>5. Position /\ OpenRun
  BY <1>4 DEF Position, OpenRun, Init
<1>6. RecordsInOrder
  BY DEF RecordsInOrder, InOrder, Init
<1>7. NothingAssertedUnseen
  BY <1>4 DEF NothingAssertedUnseen, Claimed, Covered, Init
<1>8. WholeArenas
  BY <1>4 DEF WholeArenas, Init
<1> QED
  BY <1>3, <1>5, <1>6, <1>7, <1>8 DEF ArenaInv

\* A place where a window of this arena begins.
OnGrid(n) == (n - Here.bottom) % Here.window = 0

\* A step that counts windows up to a place on the grid as usable.
LEMMA GoOn ==
  ASSUME ArenaInv, Walking, base + Here.window <= Here.top,
         UNCHANGED <<host, own, arena, results, changes>>,
         NEW reached \in Nat, base + Here.window <= reached,
         OnGrid(reached),
         ExtendRun(IF reached < Here.top THEN reached ELSE Here.top),
         base' = reached, pc' = "place", seen \subseteq seen', seen' \subseteq Word,
         Platform = "windows" =>
            \A y \in Word : base <= y /\ y < last_window_end' => y \in seen'
  PROVE  ArenaInv'
<1>1. /\ TypeOK /\ arena \in 1 .. 2 /\ HasRoom(Here) /\ Here.bottom <= base
      /\ Here = A(arena) /\ base \in Nat /\ run_start \in Nat /\ last_window_end \in Nat
  BY DEF ArenaInv, Position, Here, A, TypeOK
<1>2. Here.window \in Nat \ {0} /\ Here.bottom \in Nat /\ Here.top \in Nat
  BY SMTT(30), <1>1, ArenaShape DEF TypeOK, Word
<1>3. UNCHANGED host /\ Here' = Here /\ Walking' /\ arena' = arena
        /\ available' = available /\ unavailable' = unavailable /\ own' = own
  <2>1. UNCHANGED host /\ arena' = arena /\ available' = available
        /\ unavailable' = unavailable /\ own' = own
    BY DEF results
  <2>2. Here' = Here
    BY <1>1, <2>1, Unmoved
  <2>3. Walking'
    BY DEF Walking
  <2> QED
    BY <2>1, <2>2, <2>3
<1>4. /\ in_run' = TRUE /\ base' = reached
      /\ run_start' = Frontier
      /\ last_window_end' = IF reached < Here.top THEN reached ELSE Here.top
  BY DEF ExtendRun, Frontier
<1>5. /\ Frontier \in Nat /\ Here.bottom <= Frontier /\ Frontier <= base
      /\ in_run => last_window_end = base
  BY <1>1, <1>2 DEF ArenaInv, OpenRun, Frontier
<1>6. TypeOK'
  <2>1. probe' = probe /\ max_address' = max_address /\ denied' = denied /\ changes' = changes
    BY DEF host
  <2>2. last_window_end' \in Nat
    BY <1>2, <1>4
  <2>3. own' \in [Granules(max_address)' -> Kinds']
    BY <1>1, <1>3, Unmoved DEF TypeOK
  <2>4. available' \in Seq(Range) /\ unavailable' \in Seq(Range)
    BY <1>1, <1>3 DEF TypeOK
  <2> QED
    <3>1. /\ probe \in Probes /\ max_address \in probe.max_addresses /\ denied \subseteq Word
          /\ arena \in 1 .. 3 /\ changes \in Nat
      BY <1>1 DEF TypeOK
    <3> QED
      BY <1>3, <1>4, <1>5, <2>1, <2>2, <2>3, <2>4, <3>1 DEF TypeOK
<1>7. Position'
  BY <1>1, <1>2, <1>3, <1>4 DEF Position, Walking, OnGrid
<1>8. OpenRun'
  <2>1. base < reached /\ base < Here.top
    BY <1>1, <1>2
  <2>2. base < last_window_end' /\ last_window_end' \in Nat
    BY <1>2, <1>4, <2>1
  <2>3. Here.bottom <= Frontier /\ Frontier < last_window_end'
    BY <1>1, <1>5, <2>2
  <2> QED
    BY <1>3, <1>4, <2>3 DEF OpenRun
<1>9. Frontier' = Frontier /\ Limit' = Limit
  BY <1>3, <1>4 DEF Frontier, Limit
<1>10. RecordsInOrder'
  BY <1>3, <1>9, Unmoved DEF RecordsInOrder, ArenaInv
<1>11. NothingAssertedUnseen'
  <2> SUFFICES ASSUME Platform = "windows", NEW y \in Word,
                      y \in Covered(available) \/ (Frontier <= y /\ y < last_window_end')
               PROVE  y \in seen'
    <3>1. Claimed' = Covered(available') \cup
                        {x \in Word : Frontier <= x /\ x < last_window_end'}
      BY <1>4 DEF Claimed
    <3>2. Covered(available') \subseteq Word
      BY DEF Covered
    <3> QED
      BY <1>3, <3>1, <3>2, Unmoved DEF NothingAssertedUnseen
  <2>1. Claimed \subseteq seen
    BY DEF ArenaInv, NothingAssertedUnseen
  <2>2. CASE y \in Covered(available)
    BY <2>1, <2>2 DEF Claimed
  <2>3. CASE Frontier <= y /\ y < last_window_end' /\ y >= base
    BY <2>3, <1>1, <1>2
  <2>4. CASE Frontier <= y /\ y < last_window_end' /\ y < base
    <3>1. in_run
      <4> SUFFICES ASSUME ~in_run PROVE FALSE
        OBVIOUS
      <4>1. base <= y /\ y < base /\ y \in Nat
        BY <2>4 DEF Frontier, Word
      <4> QED
        BY <1>1, <4>1
    <3>2. run_start <= y /\ y < last_window_end
      BY <1>5, <2>4, <3>1 DEF Frontier
    <3> QED
      BY <2>1, <3>1, <3>2 DEF Claimed
  <2> QED
    BY <1>1, <2>2, <2>3, <2>4 DEF Word
<1>12. WholeArenas'
  <2> SUFFICES ASSUME Platform = "macos" PROVE WholeArenas'
    BY <1>3, Unmoved DEF WholeArenas
  <2>1. WholeArenas
    BY DEF ArenaInv
  <2> QED
    <3>1. \A k : Whole(k)' = Whole(k) /\ HasRoom(A(k))' = HasRoom(A(k))
      BY Unmoved DEF HasRoom
    <3>2. /\ unavailable = <<>> /\ Frontier = Here.bottom
          /\ {available[i] : i \in 1 .. Len(available)} =
                {Whole(k) : k \in {j \in 1 .. arena - 1 : HasRoom(A(j))}}
      BY <2>1 DEF WholeArenas, A
    <3>3. {available'[i] : i \in 1 .. Len(available')} =
                {Whole(k)' : k \in {j \in 1 .. arena' - 1 : HasRoom(A(j))'}}
      BY <1>3, <3>1, <3>2
    <3> QED
      BY <1>3, <1>9, <3>2, <3>3 DEF WholeArenas, A
<1> QED
  BY <1>6, <1>7, <1>8, <1>10, <1>11, <1>12 DEF ArenaInv

\* What the typing and the position of the walk say inside an arena.
LEMMA Inside ==
  ASSUME ArenaInv, Walking
  PROVE  /\ TypeOK /\ arena \in 1 .. 2 /\ HasRoom(Here) /\ Here.bottom <= base
         /\ Here = A(arena) /\ base \in Nat /\ run_start \in Nat /\ last_window_end \in Nat
         /\ OnGrid(base)
         /\ Here.window \in Nat \ {0} /\ Here.bottom \in Nat /\ Here.top \in Nat
         /\ Here.top \in Word
         /\ MoreWindows <=> base + Here.window <= Here.top
         /\ Frontier \in Nat /\ Here.bottom <= Frontier
         /\ Records(available, unavailable, arena, Frontier)
<1>1. /\ TypeOK /\ arena \in 1 .. 2 /\ HasRoom(Here) /\ Here.bottom <= base
      /\ Here = A(arena) /\ base \in Nat /\ run_start \in Nat /\ last_window_end \in Nat
      /\ OnGrid(base)
  BY DEF ArenaInv, Position, Here, A, TypeOK, OnGrid
<1>2. /\ Here.window \in Nat \ {0} /\ Here.bottom \in Nat /\ Here.top \in Nat
      /\ Here.top \in Word
  BY <1>1, ArenaShape DEF TypeOK, Word
<1>3. MoreWindows <=> base + Here.window <= Here.top
  BY <1>1, NextWindow
<1>4. Frontier \in Nat /\ Here.bottom <= Frontier
  BY <1>1, <1>2 DEF ArenaInv, OpenRun, Frontier
<1>5. Records(available, unavailable, arena, Frontier)
  BY <1>1 DEF ArenaInv, RecordsInOrder, Records, Limit, TypeOK
<1> QED
  BY <1>1, <1>2, <1>3, <1>4, <1>5

\* Entering an arena starts a grid of its own, with no run open.
LEMMA EnterStep == ArenaInv /\ EnterArena => ArenaInv'
<1> SUFFICES ASSUME ArenaInv, EnterArena PROVE ArenaInv'
  OBVIOUS
<1>1. /\ TypeOK /\ pc = "enter" /\ arena \in 1 .. 2 /\ ~Walking /\ ~in_run /\ Limit = 0
      /\ Here = A(arena)
  BY DEF ArenaInv, TypeOK, EnterArena, Walking, Position, Limit, Here, A
<1>2. /\ UNCHANGED host /\ own' = own /\ available' = available
      /\ unavailable' = unavailable /\ seen' = seen /\ changes' = changes
      /\ in_run' = FALSE /\ run_start' = 0 /\ last_window_end' = 0
  BY DEF EnterArena, results, history
<1>3. Here.bottom \in Nat /\ Here.window \in Nat \ {0} /\ Here.top \in Nat
  BY <1>1, ArenaShape DEF TypeOK, Word
<1>4. \/ HasRoom(Here) /\ pc' = "place" /\ base' = Here.bottom /\ arena' = arena
      \/ ~HasRoom(Here) /\ pc' = "enter" /\ base' = base /\ arena' = arena + 1
  BY DEF EnterArena
<1>5. TypeOK'
  <2>1. /\ probe' = probe /\ max_address' = max_address /\ denied' = denied
    BY <1>2 DEF host
  <2>2. own' \in [Granules(max_address)' -> Kinds']
    BY <1>1, <1>2, Unmoved DEF TypeOK
  <2>3. base' \in Nat /\ arena' \in 1 .. 3 /\ pc' \in {"enter", "place"}
    BY <1>1, <1>3, <1>4 DEF TypeOK
  <2> QED
    BY <1>1, <1>2, <2>1, <2>2, <2>3 DEF TypeOK
<1>6. Here' = A(arena')
  BY <1>2, Unmoved
<1>7. Position'
  <2>1. CASE HasRoom(Here)
    <3>1. Here' = Here /\ base' = Here.bottom /\ pc' = "place" /\ arena' = arena
      BY <1>1, <1>4, <1>6, <2>1
    <3>2. (Here.bottom - Here.bottom) % Here.window = 0
      BY <1>3
    <3>3. HasRoom(Here)'
      BY <2>1, <3>1 DEF HasRoom
    <3> QED
      BY <1>1, <1>3, <3>1, <3>2, <3>3 DEF Position, Walking
  <2>2. CASE ~HasRoom(Here)
    BY <1>2, <1>4, <2>2 DEF Position, Walking
  <2> QED
    BY <2>1, <2>2
<1>8. OpenRun'
  BY <1>2 DEF OpenRun
<1>9. RecordsInOrder'
  <2>1. Records(available, unavailable, arena, 0)
    BY <1>1 DEF ArenaInv, RecordsInOrder, Records, TypeOK
  <2>2. Limit' \in Nat /\ (arena' = arena \/ arena' = arena + 1) /\ arena \in Nat /\ arena' \in Nat
    BY <1>1, <1>2, <1>3, <1>4 DEF Limit, Frontier, TypeOK
  <2>3. Records(available, unavailable, arena', Limit')
    BY <1>1, <2>1, <2>2, RecordsStay
  <2> QED
    BY <1>2, <2>3, Unmoved DEF RecordsInOrder, Records
<1>10. NothingAssertedUnseen'
  <2>1. Claimed' = Claimed
    BY <1>1, <1>2 DEF Claimed
  <2> QED
    BY <1>2, <2>1, Unmoved DEF NothingAssertedUnseen, ArenaInv
<1>11. WholeArenas'
  <2> SUFFICES ASSUME Platform = "macos" PROVE WholeArenas'
    BY <1>2, Unmoved DEF WholeArenas
  <2>1. \A k : Whole(k)' = Whole(k) /\ HasRoom(A(k))' = HasRoom(A(k))
    BY <1>2, Unmoved DEF HasRoom
  <2>2. /\ unavailable = <<>>
        /\ {available[i] : i \in 1 .. Len(available)} =
              {Whole(k) : k \in {j \in 1 .. arena - 1 : HasRoom(A(j))}}
    BY DEF WholeArenas, A, ArenaInv
  <2>3. Walking' => Frontier' = Here'.bottom
    BY <1>1, <1>2, <1>4, <1>6 DEF Walking, Frontier
  <2>4. {j \in 1 .. arena' - 1 : HasRoom(A(j))} = {j \in 1 .. arena - 1 : HasRoom(A(j))}
    <3>1. CASE HasRoom(Here)
      BY <1>4, <3>1
    <3>2. CASE ~HasRoom(Here)
      <4>1. arena' - 1 = arena /\ ~HasRoom(A(arena)) /\ arena \in Nat
        BY <1>1, <1>4, <3>2
      <4>2. 1 .. arena = (1 .. arena - 1) \cup {arena}
        BY <1>1
      <4> QED
        BY <4>1, <4>2
    <3> QED
      BY <3>1, <3>2
  <2>5. {available'[i] : i \in 1 .. Len(available')} =
              {Whole(k)' : k \in {j \in 1 .. arena' - 1 : HasRoom(A(j))'}}
    BY <1>2, <2>1, <2>2, <2>4
  <2> QED
    BY <1>2, <2>2, <2>3, <2>5 DEF WholeArenas, A
<1> QED
  BY <1>5, <1>7, <1>8, <1>9, <1>10, <1>11 DEF ArenaInv

\* One window counts as usable.
LEMMA OneMore ==
  ASSUME ArenaInv, Walking, base + Here.window <= Here.top,
         UNCHANGED <<host, own, arena, results, changes>>,
         ExtendRun(base + Here.window), base' = base + Here.window, pc' = "place",
         seen' = seen \cup Window
  PROVE  ArenaInv'
<1>1. Walking
  OBVIOUS
<1>2. /\ base + Here.window <= Here.top /\ base \in Nat /\ Here.window \in Nat \ {0}
      /\ Here.top \in Nat
  BY <1>1, Inside
<1>3. base + Here.window \in Nat /\ OnGrid(base + Here.window)
  <2>1. Jump(0) = 0
    BY <1>2 DEF Jump
  <2>2. LET reached == base + (Jump(0) + 1) * Here.window
        IN  (reached - Here.bottom) % Here.window = 0
    BY <1>1, Inside, Resume DEF TypeOK, OnGrid
  <2>3. base + (0 + 1) * Here.window = base + Here.window
    BY <1>2
  <2> QED
    BY <1>2, <2>1, <2>2, <2>3 DEF OnGrid
<1>4. base + Here.window
        = IF base + Here.window < Here.top THEN base + Here.window ELSE Here.top
  BY <1>2
<1>5. Window = {y \in Nat : base <= y /\ y < base + Here.window} /\ Window \subseteq Word
  BY <1>1, <1>2, Inside, WindowShape DEF TypeOK, Window, Block
<1>6. seen \subseteq seen' /\ seen' \subseteq Word
  BY <1>1, <1>5, Inside DEF TypeOK
<1>7. \A y \in Word : base <= y /\ y < last_window_end' => y \in seen'
  BY <1>5 DEF ExtendRun, Word
<1> QED
  BY <1>1, <1>2, <1>3, <1>4, <1>6, <1>7, GoOn

\* What was recorded stays as good while the walk itself stays where it is.
LEMMA StayPut ==
  ASSUME ArenaInv, UNCHANGED <<host, arena, base, run, results, seen>>, Walking' = Walking
  PROVE  /\ OpenRun' /\ RecordsInOrder' /\ NothingAssertedUnseen' /\ WholeArenas'
         /\ own' \in [Granules(max_address) -> Kinds] /\ changes' \in Nat
               /\ pc' \in {"enter", "place", "query", "describe", "returned"} => TypeOK'
<1>1. /\ UNCHANGED host /\ arena' = arena /\ base' = base /\ in_run' = in_run
      /\ run_start' = run_start /\ last_window_end' = last_window_end
      /\ available' = available /\ unavailable' = unavailable /\ seen' = seen
      /\ probe' = probe /\ max_address' = max_address /\ denied' = denied
  BY DEF run, results, host
<1>2. TypeOK /\ Here' = Here /\ Frontier' = Frontier /\ Limit' = Limit
  <2>1. Here = A(arena)
    BY DEF Here, A
  <2> QED
    BY <1>1, <2>1, Unmoved DEF ArenaInv, Frontier, Limit
<1>3. OpenRun'
  BY <1>1, <1>2 DEF ArenaInv, OpenRun
<1>4. RecordsInOrder'
  BY <1>1, <1>2, Unmoved DEF ArenaInv, RecordsInOrder
<1>5. NothingAssertedUnseen'
  <2>1. Claimed' = Claimed
    BY <1>1 DEF Claimed
  <2> QED
    BY <1>1, <2>1, Unmoved DEF NothingAssertedUnseen, ArenaInv
<1>6. WholeArenas'
  <2> SUFFICES ASSUME Platform = "macos" PROVE WholeArenas'
    BY <1>1, Unmoved DEF WholeArenas
  <2>1. \A k : Whole(k)' = Whole(k) /\ HasRoom(A(k))' = HasRoom(A(k))
    BY <1>1, Unmoved DEF HasRoom
  <2>2. /\ unavailable = <<>>
        /\ Walking => Frontier = Here.bottom
        /\ {available[i] : i \in 1 .. Len(available)} =
              {Whole(k) : k \in {j \in 1 .. arena - 1 : HasRoom(A(j))}}
    BY DEF WholeArenas, A, ArenaInv
  <2>3. {available'[i] : i \in 1 .. Len(available')} =
              {Whole(k)' : k \in {j \in 1 .. arena' - 1 : HasRoom(A(j))'}}
    BY <1>1, <2>1, <2>2
  <2>4. unavailable' = <<>> /\ (Walking' => Frontier' = Here'.bottom)
    BY <1>1, <1>2, <2>2
  <2> QED
    BY <2>3, <2>4 DEF WholeArenas, A
<1>7. ASSUME own' \in [Granules(max_address) -> Kinds], changes' \in Nat,
             pc' \in {"enter", "place", "query", "describe", "returned"}
      PROVE  TypeOK'
  <2>1. own' \in [Granules(max_address)' -> Kinds']
    BY <1>1, <1>7, Unmoved
  <2> QED
    BY <1>1, <1>2, <1>7, <2>1 DEF TypeOK
<1> QED
  BY <1>3, <1>4, <1>5, <1>6, <1>7

\* The next window was refused, or the walk asks on: only its place in the code moves.
LEMMA AskOn ==
  ASSUME ArenaInv, Walking, base + Here.window <= Here.top, pc' \in {"query", "describe"},
         UNCHANGED <<host, own, arena, base, run, results, history, changes>>
  PROVE  ArenaInv'
<1>1. /\ UNCHANGED <<host, arena, base, run, results, seen>> /\ own' = own
      /\ changes' = changes /\ in_run' = in_run
  BY DEF history, run
<1>2. TypeOK /\ Here = A(arena) /\ Here' = Here /\ Walking' = Walking
  BY <1>1, Inside, Unmoved DEF Walking
<1>3. OpenRun' /\ RecordsInOrder' /\ NothingAssertedUnseen' /\ WholeArenas' /\ TypeOK'
  BY <1>1, <1>2, StayPut DEF TypeOK
<1>4. Position'
  BY <1>1, <1>2 DEF ArenaInv, Position, Walking, HasRoom
<1> QED
  BY <1>3, <1>4 DEF ArenaInv

\* A granted window is one more.
LEMMA PlacedStep == ArenaInv /\ Placed => ArenaInv'
<1> SUFFICES ASSUME ArenaInv, Placed PROVE ArenaInv'
  OBVIOUS
<1>1. Walking /\ base + Here.window <= Here.top
  BY Inside DEF Placed, Walking
<1> QED
  BY <1>1, OneMore DEF Placed

\* After a refusal the walk only asks why.
LEMMA NotPlacedStep == ArenaInv /\ NotPlaced => ArenaInv'
<1> SUFFICES ASSUME ArenaInv, NotPlaced PROVE ArenaInv'
  OBVIOUS
<1>1. Walking /\ base + Here.window <= Here.top
  BY Inside DEF NotPlaced, Walking
<1> QED
  BY <1>1, AskOn DEF NotPlaced

\* Asking for the layout moves no record.
LEMMA QueryStep == ArenaInv /\ QueryBase => ArenaInv'
<1> SUFFICES ASSUME ArenaInv, QueryBase PROVE ArenaInv'
  OBVIOUS
<1>1. Walking /\ base + Here.window <= Here.top
  BY DEF QueryBase, Walking, ArenaInv, Position
<1>2. CASE Occupied(base) /\ OwnAt(base) = "mapped"
  BY <1>1, <1>2, OneMore DEF QueryBase
<1>3. CASE ~(Occupied(base) /\ OwnAt(base) = "mapped")
  BY <1>1, <1>3, AskOn DEF QueryBase, run, history
<1> QED
  BY <1>2, <1>3

\* A window the process holds counts as usable, with those the skip passes over.
LEMMA HeldStep == ArenaInv /\ HeldNoAccess => ArenaInv'
<1> SUFFICES ASSUME ArenaInv, HeldNoAccess PROVE ArenaInv'
  OBVIOUS
<1> DEFINE held == describe.held_end
           reached == base + (Jump(held) + 1) * Here.window
<1>1. Walking /\ base + Here.window <= Here.top
  BY DEF HeldNoAccess, Walking, ArenaInv, Position
<1>2. /\ TypeOK /\ arena \in 1 .. 2 /\ base \in Nat /\ Here.window \in Nat \ {0}
      /\ Here.top \in Nat /\ Here.bottom <= base /\ OnGrid(base)
  BY <1>1, Inside
<1>3. /\ held \in Nat
      /\ Platform = "windows" =>
            \A y \in Nat : base + Here.window <= y /\ y < held => Occupied(y)
  BY <1>1, <1>2, Described DEF TypeOK, HeldNoAccess
<1> HIDE DEF held
<1>4. /\ reached \in Nat /\ base + Here.window <= reached
      /\ reached <= held \/ reached = base + Here.window
      /\ OnGrid(reached)
  BY <1>2, <1>3, Resume DEF TypeOK, OnGrid
<1>5. /\ ExtendRun(IF reached < Here.top THEN reached ELSE Here.top)
      /\ base' = reached /\ pc' = "place"
      /\ seen' = seen \cup Window \cup {x \in Word : Occupied(x) /\ base <= x /\ x < held}
      /\ UNCHANGED <<host, own, arena, results, changes>>
  BY DEF HeldNoAccess, held
<1> HIDE DEF reached
<1>6. Window = {y \in Nat : base <= y /\ y < base + Here.window} /\ Window \subseteq Word
  BY <1>1, <1>2, WindowShape DEF TypeOK, Window, Block
<1>7. seen \subseteq seen' /\ seen' \subseteq Word
  BY <1>2, <1>5, <1>6 DEF TypeOK
<1>8. ASSUME Platform = "windows", NEW y \in Word, base <= y, y < last_window_end'
      PROVE  y \in seen'
  <2>1. y \in Nat /\ y < reached
    BY <1>2, <1>4, <1>5, <1>8 DEF ExtendRun, Word
  <2>2. CASE y < base + Here.window
    BY <1>5, <1>6, <1>8, <2>1, <2>2
  <2>3. CASE ~(y < base + Here.window)
    <3>1. base + Here.window <= y /\ y < held
      BY <1>2, <1>3, <1>4, <2>1, <2>3
    <3>2. Occupied(y)
      BY <1>3, <1>8, <2>1, <3>1
    <3> QED
      BY <1>5, <1>8, <3>1, <3>2
  <2> QED
    BY <2>2, <2>3
<1> QED
  BY <1>1, <1>4, <1>5, <1>7, <1>8, GoOn

\* Closing the run records what was claimed of it, and nothing else.
LEMMA Closed ==
  ASSUME ArenaInv, Walking
  PROVE  LET now == close_run(last_window_end)
             q == [start |-> run_start, end |-> last_window_end]
         IN /\ Records(now, unavailable, arena, base)
            /\ Covered(now) = Claimed
            /\ in_run => now = Append(available, q) /\ q \in Range
                         /\ last_window_end = IF base < Here.top THEN base ELSE Here.top
            /\ ~in_run => now = available
<1> DEFINE q == [start |-> run_start, end |-> last_window_end]
           now == close_run(last_window_end)
<1>1. /\ TypeOK /\ arena \in 1 .. 2 /\ HasRoom(Here) /\ Here = A(arena)
      /\ base \in Nat /\ run_start \in Nat /\ last_window_end \in Nat
      /\ Here.top \in Nat /\ Here.top \in Word /\ Here.bottom \in Nat
      /\ Records(available, unavailable, arena, Frontier)
  BY Inside
<1>2. available \in Seq(Range)
  BY <1>1 DEF TypeOK
<1>3. CASE ~in_run
  <2>1. now = available
    BY <1>3 DEF close_run
  <2>2. Frontier = base /\ Covered(available) = Claimed
    BY <1>3 DEF Frontier, Claimed
  <2> QED
    BY <1>1, <1>3, <2>1, <2>2
<1>4. CASE in_run
  <2>1. /\ Here.bottom <= run_start /\ run_start < last_window_end /\ Frontier = run_start
        /\ last_window_end = IF base < Here.top THEN base ELSE Here.top
    BY <1>4 DEF ArenaInv, OpenRun, Frontier
  <2>2. last_window_end <= Here.top /\ last_window_end <= base
    BY <1>1, <2>1
  <2>3. now = Append(available, q)
    BY <1>1, <1>4, <2>1, <2>2 DEF close_run
  <2>4. q \in Range /\ q.start = run_start /\ q.end = last_window_end
    BY <1>1, <2>1, <2>2, WordAssumption DEF Range, Word
  <2> HIDE DEF q, now
  <2>5. Records(now, unavailable, arena, last_window_end)
    <3>1. /\ HasRoom(A(arena)) /\ A(arena).bottom <= q.start /\ q.end <= A(arena).top
          /\ q.start < q.end /\ Frontier <= q.start /\ Frontier \in Nat
      BY <1>1, <2>1, <2>2, <2>4
    <3>2. Records(Append(available, q), unavailable, arena, q.end)
      BY <1>1, <2>4, <3>1, RecordAvailable
    <3> QED
      BY <2>3, <2>4, <3>2
  <2>6. Records(now, unavailable, arena, base)
    BY <1>1, <2>2, <2>5, RecordsStay
  <2>7. Covered(now) = Covered(available) \cup
                          {x \in Word : run_start <= x /\ x < last_window_end}
    BY <1>2, <2>3, <2>4, Grown
  <2>8. Covered(now) = Claimed
    BY <1>4, <2>7 DEF Claimed
  <2> QED
    BY <1>4, <2>1, <2>3, <2>4, <2>6, <2>8 DEF q, now
<1> QED
  BY <1>3, <1>4

\* A refused window closes the run before it and is recorded behind it.
LEMMA RefusedStep == ArenaInv /\ Refused => ArenaInv'
<1> SUFFICES ASSUME ArenaInv, Refused PROVE ArenaInv'
  OBVIOUS
<1> DEFINE now == close_run(last_window_end)
           u == [start |-> base, end |-> base + Here.window]
           w == base + Here.window
<1>1. Walking /\ w <= Here.top /\ pc = "describe" /\ ~describe.covers
  BY DEF Refused, Walking, ArenaInv, Position
<1>2. /\ TypeOK /\ arena \in 1 .. 2 /\ HasRoom(Here) /\ Here = A(arena) /\ Here.bottom <= base
      /\ base \in Nat /\ run_start \in Nat /\ last_window_end \in Nat /\ OnGrid(base)
      /\ Here.top \in Nat /\ Here.top \in Word /\ Here.bottom \in Nat
      /\ Here.window \in Nat \ {0}
  BY <1>1, Inside
<1>3. Platform = "windows"
  <2>1. Platform \in {"windows", "macos"} /\ (Platform = "macos" => describe.covers)
    BY <1>1, <1>2, Described, Constants DEF TypeOK
  <2> QED
    BY <1>1, <2>1
<1>4. /\ UNCHANGED host /\ own' = own /\ arena' = arena /\ base' = w /\ in_run' = FALSE
      /\ run_start' = run_start /\ last_window_end' = last_window_end /\ seen' = seen
      /\ changes' = changes /\ pc' = "place" /\ available' = now
      /\ unavailable' = Append(unavailable, u)
  BY DEF Refused
<1>5. Records(now, unavailable, arena, base) /\ Covered(now) = Claimed
  BY <1>1, Closed
<1>6. w \in Nat /\ base < w /\ u \in Range /\ u.start = base /\ u.end = w
  BY <1>1, <1>2, WordAssumption DEF Range, Word
<1>7. OnGrid(w)
  <2>1. Jump(0) = 0
    BY <1>2 DEF Jump
  <2>2. LET reached == base + (Jump(0) + 1) * Here.window
        IN  (reached - Here.bottom) % Here.window = 0
    BY <1>2, Resume DEF TypeOK, OnGrid
  <2>3. base + (0 + 1) * Here.window = w
    BY <1>2
  <2> QED
    BY <2>1, <2>2, <2>3 DEF OnGrid
<1> HIDE DEF now, u, w
<1>8. Records(now, Append(unavailable, u), arena, w)
  BY <1>1, <1>2, <1>5, <1>6, RecordUnavailable
<1>9. Here' = Here /\ Walking' /\ Platform' = Platform
  BY <1>2, <1>4, Unmoved DEF Walking
<1>10. TypeOK'
  <2>1. /\ probe' = probe /\ max_address' = max_address /\ denied' = denied
    BY <1>4 DEF host
  <2>2. own' \in [Granules(max_address)' -> Kinds']
    BY <1>2, <1>4, Unmoved DEF TypeOK
  <2>3. available' \in Seq(Range) /\ unavailable' \in Seq(Range)
    BY <1>4, <1>8 DEF Records
  <2> QED
    BY <1>2, <1>4, <1>6, <2>1, <2>2, <2>3 DEF TypeOK
<1>11. Position'
  <2>1. Here.bottom <= w
    BY <1>2, <1>6
  <2> QED
    BY <1>2, <1>4, <1>7, <1>9, <2>1 DEF Position, OnGrid, Walking, HasRoom
<1>12. OpenRun'
  BY <1>4 DEF OpenRun
<1>13. RecordsInOrder'
  <2>1. Limit' = w
    BY <1>4, <1>9 DEF Limit, Frontier
  <2> QED
    BY <1>4, <1>8, <2>1, Unmoved DEF RecordsInOrder, Records
<1>14. NothingAssertedUnseen'
  <2>1. Claimed' = Covered(now)
    BY <1>4 DEF Claimed
  <2> QED
    BY <1>3, <1>4, <1>5, <2>1 DEF NothingAssertedUnseen, ArenaInv
<1>15. WholeArenas'
  BY <1>3, <1>9 DEF WholeArenas
<1> QED
  BY <1>10, <1>11, <1>12, <1>13, <1>14, <1>15 DEF ArenaInv

\* When no further window fits, the grid of an evenly divided arena is used up.
LEMMA GridIsUsedUp ==
  ASSUME ArenaInv, Walking, ~MoreWindows, Platform = "macos"
  PROVE  Here.top <= base
<1>1. /\ TypeOK /\ arena \in 1 .. 2 /\ HasRoom(Here) /\ Here = A(arena) /\ Here.bottom <= base
      /\ base \in Nat /\ OnGrid(base) /\ Here.top \in Nat /\ Here.bottom \in Nat
      /\ Here.window \in Nat \ {0} /\ ~(base + Here.window <= Here.top)
  BY Inside
<1>2. (Here.top - Here.bottom) % Here.window = 0 /\ Here.bottom < Here.top
  BY <1>1, ArenaShape DEF TypeOK, HasRoom
<1> DEFINE m == base - Here.bottom
           n == Here.top - Here.bottom
           w == Here.window
<1>3. m \in Nat /\ n \in Nat /\ w \in Nat \ {0} /\ m % w = 0 /\ n % w = 0
  BY <1>1, <1>2 DEF OnGrid
<1> SUFFICES ASSUME base < Here.top PROVE FALSE
  BY <1>1
<1>4. m < n
  BY <1>1
<1> HIDE DEF m, n, w
<1>5. m + w <= n
  BY <1>3, <1>4, AlignedGap
<1> QED
  BY <1>1, <1>5 DEF m, n, w

\* Leaving an arena closes the run that is still open.
LEMMA LeaveStep == ArenaInv /\ LeaveArena => ArenaInv'
<1> SUFFICES ASSUME ArenaInv, LeaveArena PROVE ArenaInv'
  OBVIOUS
<1> DEFINE now == close_run(last_window_end)
           q == [start |-> run_start, end |-> last_window_end]
<1>1. Walking /\ pc = "place" /\ ~MoreWindows
  BY DEF LeaveArena, Walking
<1>2. /\ TypeOK /\ arena \in 1 .. 2 /\ HasRoom(Here) /\ Here = A(arena)
      /\ base \in Nat /\ run_start \in Nat /\ last_window_end \in Nat
      /\ Here.top \in Nat /\ Here.bottom \in Nat
  BY <1>1, Inside
<1>3. /\ UNCHANGED host /\ own' = own /\ arena' = arena + 1 /\ base' = base /\ in_run' = FALSE
      /\ run_start' = run_start /\ last_window_end' = last_window_end /\ seen' = seen
      /\ changes' = changes /\ pc' = "enter" /\ available' = now
      /\ unavailable' = unavailable
  BY DEF LeaveArena, history
<1>4. /\ Records(now, unavailable, arena, base) /\ Covered(now) = Claimed
      /\ in_run => now = Append(available, q) /\ q \in Range
                   /\ last_window_end = IF base < Here.top THEN base ELSE Here.top
  BY <1>1, Closed
<1> HIDE DEF now, q
<1>5. ~Walking' /\ Platform' = Platform
  BY <1>3, Unmoved DEF Walking
<1>6. TypeOK'
  <2>1. /\ probe' = probe /\ max_address' = max_address /\ denied' = denied
    BY <1>3 DEF host
  <2>2. own' \in [Granules(max_address)' -> Kinds']
    BY <1>2, <1>3, Unmoved DEF TypeOK
  <2>3. available' \in Seq(Range) /\ unavailable' \in Seq(Range)
    BY <1>3, <1>4 DEF Records
  <2>4. arena' \in 1 .. 3
    BY <1>2, <1>3
  <2>5. /\ probe \in Probes /\ max_address \in probe.max_addresses /\ denied \subseteq Word
        /\ seen \subseteq Word /\ changes \in Nat
    BY <1>2 DEF TypeOK
  <2> QED
    BY <1>2, <1>3, <2>1, <2>2, <2>3, <2>4, <2>5 DEF TypeOK
<1>7. Position'
  BY <1>3, <1>5 DEF Position
<1>8. OpenRun'
  BY <1>3 DEF OpenRun
<1>9. RecordsInOrder'
  <2>1. Records(now, unavailable, arena + 1, 0)
    BY <1>2, <1>4, RecordsStay
  <2>2. Limit' = 0
    BY <1>5 DEF Limit
  <2> QED
    BY <1>3, <2>1, <2>2, Unmoved DEF RecordsInOrder, Records
<1>10. NothingAssertedUnseen'
  <2>1. Claimed' = Covered(now)
    BY <1>3 DEF Claimed
  <2> QED
    BY <1>3, <1>4, <1>5, <2>1 DEF NothingAssertedUnseen, ArenaInv
<1>11. WholeArenas'
  <2> SUFFICES ASSUME Platform = "macos" PROVE WholeArenas'
    BY <1>5 DEF WholeArenas
  <2>1. Here.top <= base
    BY <1>1, GridIsUsedUp
  <2>2. /\ unavailable = <<>> /\ Frontier = Here.bottom
        /\ {available[i] : i \in 1 .. Len(available)} =
              {Whole(k) : k \in {j \in 1 .. arena - 1 : HasRoom(A(j))}}
    BY <1>1 DEF WholeArenas, A, ArenaInv
  <2>3. Here.bottom < Here.top
    BY <1>2 DEF HasRoom
  <2>4. in_run /\ run_start = Here.bottom
    BY <1>2, <2>1, <2>2, <2>3 DEF Frontier
  <2>5. last_window_end = Here.top
    BY <1>2, <1>4, <2>1, <2>4
  <2>6. q = Whole(arena)
    BY <1>2, <2>4, <2>5 DEF Whole, q, A
  <2>7. {now[i] : i \in 1 .. Len(now)} =
           {available[i] : i \in 1 .. Len(available)} \cup {q}
    <3>1. available \in Seq(Range) /\ q \in Range /\ now = Append(available, q)
      BY <1>2, <1>4, <2>4 DEF TypeOK
    <3>2. {Append(available, q)[i] : i \in 1 .. Len(Append(available, q))} =
             {available[i] : i \in 1 .. Len(available)} \cup {q}
      BY <3>1, Grown
    <3> QED
      BY <3>1, <3>2
  <2>8. {j \in 1 .. arena : HasRoom(A(j))}
           = {j \in 1 .. arena - 1 : HasRoom(A(j))} \cup {arena}
    <3>1. 1 .. arena = (1 .. arena - 1) \cup {arena}
      BY <1>2
    <3> QED
      BY <1>2, <3>1
  <2>9. {now[i] : i \in 1 .. Len(now)} =
           {Whole(k) : k \in {j \in 1 .. arena : HasRoom(A(j))}}
    BY <2>2, <2>6, <2>7, <2>8
  <2>10. \A k : Whole(k)' = Whole(k) /\ HasRoom(A(k))' = HasRoom(A(k))
    BY <1>3, Unmoved DEF HasRoom
  <2>11. arena' - 1 = arena
    BY <1>2, <1>3
  <2>12. {available'[i] : i \in 1 .. Len(available')} =
              {Whole(k)' : k \in {j \in 1 .. arena' - 1 : HasRoom(A(j))'}}
    BY <1>3, <2>9, <2>10, <2>11
  <2> QED
    BY <1>3, <1>5, <2>2, <2>12 DEF WholeArenas, A
<1> QED
  BY <1>6, <1>7, <1>8, <1>9, <1>10, <1>11 DEF ArenaInv

\* Returning moves nothing.
LEMMA ReturnStep == ArenaInv /\ Return => ArenaInv'
<1> SUFFICES ASSUME ArenaInv, Return PROVE ArenaInv'
  OBVIOUS
<1>1. /\ UNCHANGED <<host, arena, base, run, results, seen>> /\ own' = own
      /\ changes' = changes /\ pc' = "returned" /\ arena = 3 /\ in_run' = in_run
      /\ ~Walking /\ Walking' = Walking
  BY DEF Return, history, Walking, run
<1>2. OpenRun' /\ RecordsInOrder' /\ NothingAssertedUnseen' /\ WholeArenas' /\ TypeOK'
  BY <1>1, StayPut DEF TypeOK, ArenaInv
<1>3. Position'
  BY <1>1 DEF ArenaInv, Position
<1> QED
  BY <1>2, <1>3 DEF ArenaInv

\* What another thread maps or unmaps is not among the records.
LEMMA LayoutStep == ArenaInv /\ LayoutChanges => ArenaInv'
<1> SUFFICES ASSUME ArenaInv, LayoutChanges PROVE ArenaInv'
  OBVIOUS
<1>1. /\ UNCHANGED <<host, arena, base, run, results, seen>> /\ pc' = pc
      /\ changes' = changes + 1 /\ Walking' = Walking /\ in_run' = in_run
  BY DEF LayoutChanges, history, Walking, run
<1>2. own' \in [Granules(max_address) -> Kinds]
  <2>1. own \in [Granules(max_address) -> Kinds]
    BY DEF ArenaInv, TypeOK
  <2> QED
    BY <2>1 DEF LayoutChanges
<1>3. OpenRun' /\ RecordsInOrder' /\ NothingAssertedUnseen' /\ WholeArenas' /\ TypeOK'
  BY <1>1, <1>2, StayPut DEF TypeOK, ArenaInv
<1>4. Here' = Here
  <2>1. Here = A(arena)
    BY DEF Here, A
  <2> QED
    BY <1>1, <2>1, Unmoved
<1>5. Position'
  BY <1>1, <1>4 DEF ArenaInv, Position, Walking, HasRoom
<1> QED
  BY <1>3, <1>5 DEF ArenaInv

\* Every step keeps the invariant.
LEMMA NextInv == ArenaInv /\ [Next]_vars => ArenaInv'
<1> SUFFICES ASSUME ArenaInv, [Next]_vars PROVE ArenaInv'
  OBVIOUS
<1>1. CASE Next
  BY <1>1, EnterStep, PlacedStep, NotPlacedStep, QueryStep, HeldStep, RefusedStep, LeaveStep,
     ReturnStep, LayoutStep DEF Next, Walk
<1>2. CASE UNCHANGED vars
  <2>1. /\ UNCHANGED <<host, arena, base, run, results, seen>> /\ pc' = pc /\ own' = own
        /\ changes' = changes /\ Walking' = Walking /\ in_run' = in_run
    BY <1>2 DEF vars, history, Walking, run
  <2>2. OpenRun' /\ RecordsInOrder' /\ NothingAssertedUnseen' /\ WholeArenas' /\ TypeOK'
    BY <2>1, StayPut DEF TypeOK, ArenaInv
  <2>3. Here' = Here
    <3>1. Here = A(arena)
      BY DEF Here, A
    <3> QED
      BY <2>1, <3>1, Unmoved
  <2>4. Position'
    BY <2>1, <2>3 DEF ArenaInv, Position, Walking, HasRoom
  <2> QED
    BY <2>2, <2>4 DEF ArenaInv
<1> QED
  BY <1>1, <1>2

\* The walk keeps its records in order whatever the process's layout does meanwhile.
THEOREM ArenaInvariant == Spec => []ArenaInv
<1> QED
  BY InitInv, NextInv, PTL DEF Spec

-----------------------------------------------------------------------------
(* What follows.                                                           *)

\* Records that come one behind the other contradict each other nowhere.
LEMMA InOrderIsNeverBoth == ArenaInv => NeverBoth
<1> SUFFICES ASSUME ArenaInv PROVE NeverBoth
  OBVIOUS
<1> DEFINE Open == IF in_run THEN {x \in Word : run_start <= x /\ x < last_window_end} ELSE {}
           q == [start |-> run_start, end |-> last_window_end]
<1>1. /\ TypeOK /\ available \in Seq(Range) /\ unavailable \in Seq(Range)
      /\ Word \subseteq Nat /\ InOrder(available, unavailable, arena, Limit)
  BY DEF ArenaInv, TypeOK, RecordsInOrder, Word
<1>2. /\ \A i \in DOMAIN available :
            /\ available[i] \in Range
            /\ \E k \in 1 .. 2 : Behind(k, available[i], arena, Limit)
      /\ \A j \in DOMAIN unavailable :
            /\ unavailable[j] \in Range
            /\ \E k \in 1 .. 2 : Behind(k, unavailable[j], arena, Limit)
      /\ \A i, j \in DOMAIN available : i # j => Disjoint(available[i], available[j])
      /\ \A i \in DOMAIN available, j \in DOMAIN unavailable :
            Disjoint(available[i], unavailable[j])
      /\ 1 .. Len(available) = DOMAIN available
      /\ 1 .. Len(unavailable) = DOMAIN unavailable
  BY <1>1 DEF InOrder
<1>3. in_run => /\ Walking /\ arena \in 1 .. 2 /\ HasRoom(A(arena)) /\ q \in Range
                /\ A(arena).bottom <= q.start /\ q.end <= A(arena).top
                /\ Limit = q.start /\ q.start \in Nat
                /\ Open = {x \in Word : q.start <= x /\ x < q.end}
  <2> SUFFICES ASSUME in_run
               PROVE  /\ Walking /\ arena \in 1 .. 2 /\ HasRoom(A(arena)) /\ q \in Range
                      /\ A(arena).bottom <= q.start /\ q.end <= A(arena).top
                      /\ Limit = q.start /\ q.start \in Nat
                      /\ Open = {x \in Word : q.start <= x /\ x < q.end}
    OBVIOUS
  <2>1. Walking
    BY DEF ArenaInv, Position
  <2>2. /\ arena \in 1 .. 2 /\ HasRoom(Here) /\ Here = A(arena) /\ base \in Nat
        /\ run_start \in Nat /\ last_window_end \in Nat /\ Here.top \in Nat /\ Here.top \in Word
    BY <2>1, Inside
  <2>3. /\ Here.bottom <= run_start /\ run_start < last_window_end
        /\ last_window_end = IF base < Here.top THEN base ELSE Here.top
    BY DEF ArenaInv, OpenRun
  <2>4. last_window_end <= Here.top
    BY <2>2, <2>3
  <2>5. q \in Range
    BY <2>2, <2>3, <2>4, WordAssumption DEF Range, Word
  <2> QED
    BY <2>1, <2>2, <2>3, <2>4, <2>5 DEF Limit, Frontier
<1> HIDE DEF Open, q
<1>4. Claimed = Covered(available) \cup Open
  BY DEF Claimed, Open
<1>5. ASSUME NEW x \in Open, NEW j \in DOMAIN unavailable,
             unavailable[j].start <= x, x < unavailable[j].end
      PROVE  FALSE
  <2>1. in_run
    BY <1>5 DEF Open
  <2>2. Disjoint(unavailable[j], q)
    BY <1>1, <1>2, <1>3, <2>1, Beyond
  <2>3. q \in Range /\ unavailable[j] \in Range /\ q.start <= x /\ x < q.end /\ x \in Nat
    BY <1>1, <1>2, <1>3, <1>5, <2>1
  <2> QED
    BY <1>5, <2>2, <2>3 DEF Disjoint, Range, Word
<1>6. ASSUME NEW x \in Word, NEW i \in DOMAIN available, NEW j \in DOMAIN unavailable,
             available[i].start <= x, x < available[i].end,
             unavailable[j].start <= x, x < unavailable[j].end
      PROVE  FALSE
  <2>1. Disjoint(available[i], unavailable[j])
    BY <1>2
  <2>2. available[i] \in Range /\ unavailable[j] \in Range /\ x \in Nat
    BY <1>1, <1>2
  <2> QED
    BY <1>6, <2>1, <2>2 DEF Disjoint, Range, Word
<1>7. Claimed \cap Covered(unavailable) = {}
  <2> SUFFICES ASSUME NEW x \in Claimed, x \in Covered(unavailable) PROVE FALSE
    OBVIOUS
  <2>1. PICK j \in DOMAIN unavailable : unavailable[j].start <= x /\ x < unavailable[j].end
    BY <1>2 DEF Covered
  <2>2. CASE x \in Open
    BY <1>5, <2>1, <2>2
  <2>3. CASE x \in Covered(available)
    <3>1. x \in Word /\ \E i \in DOMAIN available :
                           available[i].start <= x /\ x < available[i].end
      BY <1>2, <2>3 DEF Covered
    <3> QED
      BY <1>6, <2>1, <3>1
  <2> QED
    BY <1>4, <2>2, <2>3
<1>8. ASSUME NEW x \in Word, NEW k \in 1 .. 2, HasRoom(A(k)), A(k).bottom <= x, x < A(k).top
      PROVE  x \in UNION {Block(a.bottom, a.top - a.bottom) : a \in Arenas}
  <2>1. A(k) \in Arenas
    BY <1>8 DEF Arenas, A
  <2>2. A(k).bottom \in Nat /\ A(k).top \in Nat /\ x \in Nat
    BY <1>1, ArenaShape DEF TypeOK, Word
  <2>3. x \in Block(A(k).bottom, A(k).top - A(k).bottom)
    BY <1>8, <2>2 DEF Block
  <2> QED
    BY <2>1, <2>3
<1>9. \A r \in Range, k \in 1 .. 2, x \in Word :
         /\ Behind(k, r, arena, Limit) /\ r.start <= x /\ x < r.end
         => x \in UNION {Block(a.bottom, a.top - a.bottom) : a \in Arenas}
  <2> SUFFICES ASSUME NEW r \in Range, NEW k \in 1 .. 2, NEW x \in Word,
                      Behind(k, r, arena, Limit), r.start <= x, x < r.end
               PROVE  HasRoom(A(k)) /\ A(k).bottom <= x /\ x < A(k).top
    BY <1>8
  <2>1. /\ HasRoom(A(k)) /\ A(k).bottom <= r.start /\ r.end <= A(k).top
        /\ A(k).bottom \in Nat /\ A(k).top \in Nat
    BY <1>1, ArenaShape DEF Behind, A, TypeOK, Word
  <2> QED
    BY <1>1, <2>1 DEF Range, Word
<1>10. Claimed \cup Covered(unavailable)
          \subseteq UNION {Block(a.bottom, a.top - a.bottom) : a \in Arenas}
  <2>1. Covered(available) \cup Covered(unavailable)
          \subseteq UNION {Block(a.bottom, a.top - a.bottom) : a \in Arenas}
    BY <1>2, <1>9 DEF Covered
  <2>2. Open \subseteq UNION {Block(a.bottom, a.top - a.bottom) : a \in Arenas}
    <3> SUFFICES ASSUME NEW x \in Open
                 PROVE  x \in UNION {Block(a.bottom, a.top - a.bottom) : a \in Arenas}
      OBVIOUS
    <3>1. in_run
      BY DEF Open
    <3>2. x \in Word /\ q.start <= x /\ x < q.end /\ q \in Range
      BY <1>3, <3>1
    <3>3. HasRoom(A(arena)) /\ A(arena).bottom \in Nat /\ A(arena).top \in Nat
      BY <1>1, <1>3, <3>1, ArenaShape DEF TypeOK, Word
    <3>4. A(arena).bottom <= x /\ x < A(arena).top
      BY <1>1, <1>3, <3>1, <3>2, <3>3 DEF Range, Word
    <3> QED
      BY <1>3, <1>8, <3>1, <3>2, <3>3, <3>4
  <2> QED
    BY <1>4, <2>1, <2>2
<1>11. \A i, j \in 1 .. Len(available) : i # j => ~intersects(available[i], available[j])
  <2> SUFFICES ASSUME NEW i \in DOMAIN available, NEW j \in DOMAIN available, i # j
               PROVE  ~intersects(available[i], available[j])
    BY <1>2
  <2> QED
    BY <1>2 DEF Disjoint, intersects, empty, Range, Word
<1> QED
  BY <1>7, <1>10, <1>11 DEF NeverBoth

\* In whatever order grants, skips and refusals come and whatever the process maps
\* meanwhile: no address is recorded both ways, no range leaves its arena, and no
\* address is recorded twice.
THEOREM NoContradiction == Spec => []NeverBoth
<1> QED
  BY ArenaInvariant, InOrderIsNeverBoth, PTL

\* A skip over what classify_window describes asserts nothing about free space.
THEOREM SkipsAssertNothing == Spec => []NothingAssertedUnseen
<1>1. ArenaInv => NothingAssertedUnseen
  BY DEF ArenaInv
<1> QED
  BY <1>1, ArenaInvariant, PTL

\* What the macOS walk records does not depend on the process, even while its
\* layout moves.
THEOREM MacosRecordsTheHost == Spec => []SameInEveryProcess
<1>1. ArenaInv => SameInEveryProcess
  <2> SUFFICES ASSUME ArenaInv, Platform = "macos", pc = "returned"
               PROVE  /\ unavailable = <<>>
                      /\ {available[i] : i \in 1 .. Len(available)} =
                            {[start |-> a.bottom, end |-> a.top] : a \in Arenas}
    BY DEF SameInEveryProcess
  <2>1. arena - 1 = 2
    BY DEF ArenaInv, Position
  <2>2. /\ unavailable = <<>>
        /\ {available[i] : i \in 1 .. Len(available)} =
              {Whole(k) : k \in {j \in 1 .. 2 : HasRoom(A(j))}}
    BY <2>1 DEF ArenaInv, WholeArenas, A
  <2>3. {Whole(k) : k \in {j \in 1 .. 2 : HasRoom(A(j))}}
           = {[start |-> a.bottom, end |-> a.top] : a \in Arenas}
    BY DEF Whole, Arenas, A
  <2> QED
    BY <2>2, <2>3
<1> QED
  BY <1>1, ArenaInvariant, PTL

-----------------------------------------------------------------------------
(* The windows of an arena.                                                *)

\* The places where the windows of an arena begin are those of a grid.
LEMMA Grid ==
  ASSUME TypeOK, NEW k \in 1 .. 2, HasRoom(A(k))
  PROVE  /\ A(k).bottom \in Nat /\ A(k).top \in Nat /\ A(k).window \in Nat \ {0}
         /\ Bases(A(k)) = {b \in Nat : /\ A(k).bottom <= b /\ b + A(k).window <= A(k).top
                                       /\ (b - A(k).bottom) % A(k).window = 0}
<1>1. /\ A(k).bottom \in Nat /\ A(k).top \in Nat /\ A(k).window \in Nat \ {0}
      /\ A(k).top <= WordMax
  BY ArenaShape DEF TypeOK, Word
<1> QED
  BY <1>1, WordAssumption DEF Bases, Word

\* Places on a grid of step w that begins at o.
LEMMA GridGap ==
  ASSUME NEW o \in Nat, NEW w \in Nat \ {0}, NEW m \in Nat, NEW n \in Nat,
         o <= m, m < n, (m - o) % w = 0, (n - o) % w = 0
  PROVE  m + w <= n
<1> DEFINE i == m - o
           j == n - o
<1>1. i \in Nat /\ j \in Nat /\ i < j /\ i % w = 0 /\ j % w = 0
  OBVIOUS
<1> HIDE DEF i, j
<1>2. i + w <= j
  BY <1>1, AlignedGap
<1> QED
  BY <1>2 DEF i, j

\* The place one step further is on the grid too.
LEMMA GridNext ==
  ASSUME NEW o \in Nat, NEW w \in Nat \ {0}, NEW m \in Nat, o <= m, (m - o) % w = 0
  PROVE  ((m + w) - o) % w = 0
<1> DEFINE i == m - o
<1>1. i \in Nat /\ i % w = 0 /\ w % w = 0
  BY MultipleIsAligned
<1>2. (m + w) - o = i + w
  OBVIOUS
<1> HIDE DEF i
<1>3. (i + w) % w = 0
  BY <1>1, AlignedSum
<1> QED
  BY <1>2, <1>3

\* And so is the one before, unless it is the first.
LEMMA GridPrevious ==
  ASSUME NEW o \in Nat, NEW w \in Nat \ {0}, NEW m \in Nat, o < m, (m - o) % w = 0
  PROVE  m - w \in Nat /\ o <= m - w /\ (m - w - o) % w = 0
<1> DEFINE i == m - o
<1>1. i \in Nat \ {0} /\ i % w = 0 /\ w % w = 0
  BY MultipleIsAligned
<1>2. m - w - o = i - w
  OBVIOUS
<1>3. i = m - o
  OBVIOUS
<1> HIDE DEF i
<1>4. w <= i
  BY <1>1, AlignedBound
<1>5. (i - w) % w = 0
  BY <1>1, <1>4, AlignedDifference
<1> QED
  BY <1>2, <1>3, <1>4, <1>5

\* The host denies a window in whole or not at all.
LEMMA DeniedInWhole ==
  ASSUME TypeOK, HostIsKept, Platform = "windows", NEW k \in 1 .. 2, HasRoom(A(k)),
         NEW b \in Bases(A(k)), NEW y \in Block(b, A(k).window) \cap denied
  PROVE  Block(b, A(k).window) \subseteq denied
<1> DEFINE o == A(k).bottom
           w == A(k).window
           t == A(k).top
<1>1. /\ o \in Nat /\ w \in Nat \ {0} /\ t \in Nat /\ b \in Nat /\ o <= b /\ b + w <= t
      /\ (b - o) % w = 0
  BY Grid
<1>2. y \in Nat /\ b <= y /\ y < b + w
  BY DEF Block, Word
<1>3. PICK D : /\ D \subseteq denied /\ y \in D
               /\ \E x \in Word, i \in 1 .. 2 :
                     /\ D = Block(x, BandSize) /\ HasRoom(A(i)) /\ A(i).bottom <= x
                     /\ x + BandSize <= A(i).top /\ (x - A(i).bottom) % BandSize = 0
  BY DEF HostIsKept, Bands, A
<1>4. PICK x \in Word, i \in 1 .. 2 :
               /\ D = Block(x, BandSize) /\ HasRoom(A(i)) /\ A(i).bottom <= x
               /\ x + BandSize <= A(i).top /\ (x - A(i).bottom) % BandSize = 0
  BY <1>3
<1>5. BandSize \in Nat \ {0} /\ BandSize % w = 0
  <2>1. /\ BandSize \in Nat /\ BandSize > 0
        /\ BandSize % LowWindow = 0 /\ BandSize % HighWindow = 0
    BY SMTT(30), BandAssumption, Constants DEF TypeOK, Platform, BandSize, LowWindow, HighWindow, Word
  <2>2. w \in {LowWindow, HighWindow}
    BY DEF A, Planned
  <2> QED
    BY <2>1, <2>2
<1>6. x \in Nat /\ x <= y /\ y < x + BandSize
  BY <1>3, <1>4 DEF Block, Word
<1>7. i = k
  <2> SUFFICES ASSUME i # k PROVE FALSE
    OBVIOUS
  <2>1. HasRoom(A(1)) /\ HasRoom(A(2))
    BY <1>4
  <2>2. A(2).top <= A(1).bottom \/ A(1).top <= A(2).bottom
    BY <2>1, ArenasApart DEF TypeOK
  <2>3. /\ A(1).bottom \in Nat /\ A(1).top \in Nat /\ A(2).bottom \in Nat /\ A(2).top \in Nat
    BY <2>1, Grid
  <2>4. A(i).bottom <= y /\ y < A(i).top
    <3>1. A(i).bottom \in Nat /\ A(i).top \in Nat /\ BandSize \in Nat
      BY <1>4, <1>5, Grid
    <3>2. A(i).bottom <= x /\ x + BandSize <= A(i).top
      BY <1>4
    <3> QED
      BY <1>2, <1>6, <3>1, <3>2
  <2>5. A(k).bottom <= y /\ y < A(k).top
    <3>1. o \in Nat /\ w \in Nat /\ t \in Nat /\ b \in Nat /\ o <= b /\ b + w <= t
      BY <1>1
    <3>2. o <= y /\ y < t
      <4> HIDE DEF o, w, t
      <4> QED
        BY <1>2, <3>1
    <3> QED
      BY <3>2
  <2>6. A(1).bottom <= y /\ y < A(1).top /\ A(2).bottom <= y /\ y < A(2).top
    BY <2>4, <2>5
  <2> QED
    BY <1>2, <2>2, <2>3, <2>6
<1> DEFINE m == x - o
           n == b - o
<1>8. m \in Nat /\ n \in Nat /\ m % BandSize = 0 /\ n % w = 0 /\ x = o + m /\ b = o + n
  BY <1>1, <1>4, <1>6, <1>7
<1> HIDE DEF o, w, t, m, n
<1>9. m % w = 0 /\ (m + BandSize) % w = 0
  <2>1. m % w = 0
    BY <1>1, <1>5, <1>8, AlignedFiner
  <2> QED
    BY <1>1, <1>5, <1>8, <2>1, AlignedSum
<1>10. x <= b
  <2> SUFFICES ASSUME n < m PROVE FALSE
    BY <1>1, <1>8
  <2>1. n + w <= m
    BY <1>1, <1>8, <1>9, AlignedGap
  <2> QED
    BY <1>1, <1>2, <1>6, <1>8, <2>1
<1>11. b + w <= x + BandSize
  <2>1. n < m + BandSize
    BY <1>1, <1>2, <1>5, <1>6, <1>8
  <2> DEFINE c == m + BandSize
  <2>2. c \in Nat /\ n < c /\ c % w = 0
    BY <1>5, <1>8, <1>9, <2>1
  <2> HIDE DEF c
  <2>3. n + w <= c
    BY <1>1, <1>8, <2>2, AlignedGap
  <2> QED
    <3>1. BandSize \in Nat /\ w \in Nat /\ o \in Nat /\ m \in Nat /\ n \in Nat
            /\ x = o + m /\ b = o + n
      BY <1>1, <1>5, <1>8
    <3> QED
      BY <2>3, <3>1 DEF c
<1>12. Block(b, w) \subseteq Block(x, BandSize)
  BY <1>1, <1>5, <1>6, <1>10, <1>11 DEF Block, Word
<1> QED
  BY <1>3, <1>4, <1>12 DEF w

\* A window in which the process has something is one the host does not deny.
LEMMA OwnWindow ==
  ASSUME TypeOK, HostIsKept, Platform = "windows", NEW k \in 1 .. 2, HasRoom(A(k)),
         NEW b \in Bases(A(k)), NEW x \in Block(b, A(k).window), Occupied(x)
  PROVE  Usable(A(k), b)
<1> DEFINE o == A(k).bottom
           w == A(k).window
           g == x - (x % Granularity)
<1>1. /\ o \in Nat /\ w \in Nat \ {0} /\ b \in Nat /\ o <= b /\ (b - o) % w = 0
      /\ o % Granularity = 0 /\ w % Granularity = 0 /\ Granularity \in Nat \ {0}
  BY Grid, ArenaShape, WalkAssumption DEF TypeOK
<1>2. x \in Nat /\ b <= x /\ x < b + w /\ LowBottom <= x /\ x < max_address /\ own[g] # "free"
  BY DEF Block, Word, Occupied, OwnAt
<1>3. b % Granularity = 0
  <2> DEFINE n == b - o
  <2>1. n \in Nat /\ b = n + o /\ n % w = 0
    BY <1>1
  <2> HIDE DEF n
  <2>2. n % Granularity = 0
    BY <1>1, <2>1, AlignedFiner
  <2> QED
    BY <1>1, <2>1, <2>2, AlignedSum
<1>4. g \in Granules(max_address) /\ g \in Nat /\ g <= x
  BY <1>2, GranuleOf DEF TypeOK
<1>5. b <= g
  BY <1>1, <1>2, <1>3, AlignedDown
<1> HIDE DEF g
<1>6. g \in Block(b, w)
  BY <1>1, <1>2, <1>4, <1>5 DEF Block, Granules
<1>7. g \notin denied
  BY <1>2, <1>4 DEF HostIsKept
<1>8. \A y \in Block(b, w) : y \notin denied
  BY <1>6, <1>7, DeniedInWhole
<1> QED
  BY <1>8 DEF Usable

-----------------------------------------------------------------------------
(* Maximal runs of usable windows.                                         *)

\* A run begins and ends on the grid, with a usable window before its end.
LEMMA RunShape ==
  ASSUME TypeOK, NEW k \in 1 .. 2, HasRoom(A(k)), NEW r \in MaximalRuns(A(k))
  PROVE  /\ r.start \in Bases(A(k)) /\ r.end \in Nat /\ r.start < r.end
         /\ r.end <= A(k).top /\ A(k).bottom < r.end
         /\ (r.end - A(k).bottom) % A(k).window = 0
         /\ r.end - A(k).window \in Bases(A(k)) /\ Usable(A(k), r.end - A(k).window)
         /\ r = [start |-> r.start, end |-> r.end]
         /\ \A b \in Bases(A(k)) :
               /\ r.start <= b /\ b < r.end => Usable(A(k), b)
               /\ b + A(k).window = r.start \/ b = r.end => ~Usable(A(k), b)
<1> DEFINE o == A(k).bottom
           w == A(k).window
           t == A(k).top
           B == Bases(A(k))
           s == r.start
           e == r.end
<1>1. o \in Nat /\ w \in Nat \ {0} /\ t \in Nat
  BY Grid
<1>2. \A b \in Nat : b \in B <=> o <= b /\ b + w <= t /\ (b - o) % w = 0
  BY Grid
<1>3. \A b \in B : b \in Nat /\ o <= b /\ b + w <= t /\ (b - o) % w = 0
  BY Grid
<1>4. /\ s \in B /\ s < e /\ r = [start |-> s, end |-> e]
      /\ \A b \in B : /\ s <= b /\ b < e => Usable(A(k), b)
                      /\ b + w = s \/ b = e => ~Usable(A(k), b)
  BY DEF MaximalRuns
<1>5. PICK b \in B : e = b + w
  BY DEF MaximalRuns
<1> HIDE DEF o, w, t, B, s, e
<1>6. (e - o) % w = 0
  <2>1. b \in Nat /\ o <= b /\ (b - o) % w = 0
    BY <1>3
  <2>2. ((b + w) - o) % w = 0
    BY <1>1, <2>1, GridNext
  <2> QED
    BY <1>5, <2>2
<1>7. b \in Nat /\ o <= b /\ b + w <= t /\ s \in Nat /\ o <= s
  BY <1>3, <1>4
<1>8. e - w = b /\ e \in Nat /\ o < e /\ e <= t
  BY <1>1, <1>5, <1>7
<1>9. s <= b
  <2> SUFFICES ASSUME b < s PROVE FALSE
    BY <1>7
  <2>1. (b - o) % w = 0 /\ (s - o) % w = 0
    BY <1>3, <1>4
  <2>2. b + w <= s
    BY <1>1, <1>7, <2>1, GridGap
  <2> QED
    BY <1>1, <1>4, <1>5, <1>7, <2>2
<1>10. b < e
  BY <1>1, <1>5, <1>7
<1>11. Usable(A(k), b)
  BY <1>4, <1>9, <1>10
<1> QED
  BY <1>4, <1>6, <1>8, <1>11 DEF o, w, t, B, s, e

\* No two maximal runs end at the same place.
LEMMA RunStart ==
  ASSUME TypeOK, NEW k \in 1 .. 2, HasRoom(A(k)), NEW r \in MaximalRuns(A(k)),
         NEW s \in Bases(A(k)), s < r.end,
         \A b \in Bases(A(k)) : /\ s <= b /\ b < r.end => Usable(A(k), b)
                                /\ b + A(k).window = s => ~Usable(A(k), b)
  PROVE  r.start = s
<1> DEFINE o == A(k).bottom
           w == A(k).window
           t == A(k).top
           B == Bases(A(k))
           q == r.start
           e == r.end
<1>1. o \in Nat /\ w \in Nat \ {0} /\ t \in Nat
  BY Grid
<1>2. \A b \in Nat : o <= b /\ b + w <= t /\ (b - o) % w = 0 => b \in B
  BY Grid
<1>3. \A b \in B : b \in Nat /\ o <= b /\ b + w <= t /\ (b - o) % w = 0
  BY Grid
<1>4. /\ q \in B /\ e \in Nat /\ q < e
      /\ \A b \in B : /\ q <= b /\ b < e => Usable(A(k), b)
                      /\ b + w = q => ~Usable(A(k), b)
  BY RunShape
<1>5. /\ s \in B /\ s < e
      /\ \A b \in B : /\ s <= b /\ b < e => Usable(A(k), b)
                      /\ b + w = s => ~Usable(A(k), b)
  OBVIOUS
<1>6. ASSUME NEW x \in B, NEW y \in B, x < y, y < e,
             \A b \in B : x <= b /\ b < e => Usable(A(k), b)
      PROVE  \E b \in B : b + w = y /\ Usable(A(k), b)
  <2> HIDE DEF o, w, t, B, q, e
  <2>1. x \in Nat /\ y \in Nat /\ o <= x /\ (x - o) % w = 0 /\ (y - o) % w = 0
    BY <1>3
  <2>2. y + w <= t
    BY <1>3
  <2>3. o < y /\ x + w <= y
    BY <1>1, <1>6, <2>1, GridGap
  <2>4. y - w \in Nat /\ o <= y - w /\ (y - w - o) % w = 0
    BY <1>1, <2>1, <2>3, GridPrevious
  <2>5. (y - w) + w <= t /\ (y - w) + w = y /\ x <= y - w /\ y - w < e
    <3>1. w \in Nat \ {0} /\ x \in Nat /\ y \in Nat /\ t \in Nat /\ e \in Nat
      BY <1>1, <1>4, <2>1
    <3> QED
      BY <1>6, <2>2, <2>3, <3>1
  <2>6. y - w \in B
    BY <1>2, <2>4, <2>5
  <2>7. Usable(A(k), y - w)
    BY <1>6, <2>5, <2>6
  <2> QED
    BY <2>5, <2>6, <2>7
<1>7. q \in Nat /\ s \in Nat
  BY <1>3, <1>4, <1>5
<1> HIDE DEF o, w, t, B, q, e
<1>8. ~(q < s)
  BY <1>4, <1>5, <1>6
<1>9. ~(s < q)
  BY <1>4, <1>5, <1>6
<1> QED
  BY <1>7, <1>8, <1>9 DEF q

\* Where the walk stands within an arena.
LEMMA Standing ==
  ASSUME ArenaInv, WholeWindows, Walking
  PROVE  /\ Reached \in Nat /\ Here.bottom <= Reached /\ Reached <= Here.top /\ Reached <= base
         /\ (Reached - Here.bottom) % Here.window = 0
         /\ base + Here.window <= Here.top => Reached = base /\ base \in Bases(Here)
         /\ in_run => last_window_end = Reached /\ run_start < Reached
<1>1. /\ base \in Nat /\ Here.bottom \in Nat /\ Here.top \in Nat /\ Here.window \in Nat \ {0}
      /\ Here.bottom <= base /\ HasRoom(Here) /\ TypeOK /\ arena \in 1 .. 2 /\ Here = A(arena)
      /\ OnGrid(base)
  BY Inside
<1>2. Here.bottom < Here.top
  BY <1>1 DEF HasRoom
<1>3. /\ Reached \in Nat /\ Here.bottom <= Reached /\ Reached <= Here.top /\ Reached <= base
  BY <1>1, <1>2 DEF Reached
<1>4. (Reached - Here.bottom) % Here.window = 0
  BY DEF WholeWindows
<1>5. ASSUME base + Here.window <= Here.top
      PROVE  Reached = base /\ base \in Bases(Here)
  <2>1. Reached = base
    BY <1>1, <1>5 DEF Reached
  <2>2. base \in Bases(Here)
    BY <1>1, <1>5, Grid DEF OnGrid
  <2> QED
    BY <2>1, <2>2
<1>6. in_run => last_window_end = Reached /\ run_start < Reached
  BY DEF ArenaInv, OpenRun, Reached
<1> QED
  BY <1>3, <1>4, <1>5, <1>6

\* The runs that end where the walk has come to: the open one, if it ends there.
LEMMA RunsUpTo ==
  ASSUME ArenaInv, WholeWindows, RunIsMaximal, Walking,
         \A b \in Bases(Here) : b = Reached => ~Usable(Here, b)
  PROVE  {r \in MaximalRuns(Here) : r.end <= Reached}
            = RunsBefore(Here, Reached)
              \cup (IF in_run THEN {[start |-> run_start, end |-> last_window_end]} ELSE {})
<1> DEFINE o == Here.bottom
           w == Here.window
           B == Bases(Here)
           e == Reached
           q == [start |-> run_start, end |-> e]
<1>1. /\ TypeOK /\ arena \in 1 .. 2 /\ HasRoom(Here) /\ Here = A(arena)
      /\ o \in Nat /\ w \in Nat \ {0} /\ Here.top \in Nat /\ run_start \in Nat
  BY Inside
<1>2. /\ e \in Nat /\ o <= e /\ e <= Here.top /\ (e - o) % w = 0
      /\ in_run => last_window_end = e /\ run_start < e
  BY Standing
<1>3. \A r \in MaximalRuns(Here) : r.end \in Nat
  BY <1>1, RunShape
<1>4. ASSUME NEW r \in MaximalRuns(Here), r.end = e, ~in_run
      PROVE  FALSE
  <2>1. r.end - w \in B /\ Usable(Here, r.end - w)
    BY <1>1, RunShape
  <2>2. (r.end - w) + w = e
    BY <1>1, <1>2, <1>4
  <2> QED
    BY <1>4, <2>1, <2>2 DEF RunIsMaximal
<1>5. ASSUME NEW r \in MaximalRuns(Here), r.end = e, in_run
      PROVE  r = q
  <2>1. /\ run_start \in B /\ run_start < e
        /\ \A b \in B : /\ run_start <= b /\ b < e => Usable(Here, b)
                        /\ b + w = run_start => ~Usable(Here, b)
    BY <1>2, <1>5 DEF RunIsMaximal
  <2>2. r.start = run_start
    BY <1>1, <1>5, <2>1, RunStart
  <2>3. r = [start |-> r.start, end |-> r.end]
    BY <1>1, RunShape
  <2> QED
    BY <1>5, <2>2, <2>3
<1>6. ASSUME in_run
      PROVE  q \in MaximalRuns(Here)
  <2>1. /\ run_start \in B /\ run_start < e
        /\ \A b \in B : /\ run_start <= b /\ b < e => Usable(Here, b)
                        /\ b + w = run_start => ~Usable(Here, b)
    BY <1>2, <1>6 DEF RunIsMaximal
  <2>2. \A b \in B : b = e => ~Usable(Here, b)
    OBVIOUS
  <2>3. e \in {b + w : b \in B}
    <3>1. run_start \in Nat /\ o <= run_start
      BY <1>1, <2>1, Grid
    <3>2. o < e
      BY <1>1, <1>2, <2>1, <3>1
    <3>3. e - w \in Nat /\ o <= e - w /\ (e - w - o) % w = 0
      <4> HIDE DEF o, w, e
      <4> QED
        BY <1>1, <1>2, <3>2, GridPrevious
    <3>4. (e - w) + w = e /\ (e - w) + w <= Here.top
      BY <1>1, <1>2
    <3>5. e - w \in B
      BY <1>1, <3>3, <3>4, Grid
    <3> QED
      BY <3>4, <3>5
  <2> HIDE DEF e
  <2> QED
    BY <2>1, <2>2, <2>3 DEF MaximalRuns
<1> HIDE DEF e, q, B
<1>7. q.end = e
  BY DEF q
<1>8. \A r \in MaximalRuns(Here) : r.end <= e <=> (r.end < e \/ r.end = e)
  BY <1>2, <1>3
<1>9. CASE in_run
  <2>1. {r \in MaximalRuns(Here) : r.end <= e} = RunsBefore(Here, e) \cup {q}
    BY <1>2, <1>5, <1>6, <1>7, <1>8, <1>9 DEF RunsBefore
  <2>2. q = [start |-> run_start, end |-> last_window_end]
    BY <1>2, <1>9 DEF q
  <2> QED
    BY <1>9, <2>1, <2>2 DEF e
<1>10. CASE ~in_run
  <2>1. {r \in MaximalRuns(Here) : r.end <= e} = RunsBefore(Here, e)
    BY <1>4, <1>8, <1>10 DEF RunsBefore
  <2> QED
    BY <1>10, <2>1 DEF e
<1> QED
  BY <1>9, <1>10

-----------------------------------------------------------------------------
(* What the Windows walk records, while the layout stays as it is.         *)

\* While the host stays as it is, so does everything there is to record of it.
LEMMA HostUnmoved ==
  ASSUME UNCHANGED host
  PROVE  /\ Bands(max_address)' = Bands(max_address)
         /\ \A a, b : Usable(a, b)' = Usable(a, b)
         /\ \A a : /\ Bases(a)' = Bases(a) /\ MaximalRuns(a)' = MaximalRuns(a)
                   /\ RefusedWindows(a)' = RefusedWindows(a)
<1>1. probe' = probe /\ max_address' = max_address /\ denied' = denied
  BY DEF host
<1>2. Planned(max_address)' = Planned(max_address)
  BY <1>1 DEF Planned, Platform, Span, LowBottom, LowTop, LowWindow, HighWindow,
              arena_floor_for, high_arena_floor, Plus
<1>3. Bands(max_address)' = Bands(max_address)
  BY <1>1, <1>2 DEF Bands, Block, HasRoom, BandSize
<1>4. \A a : Bases(a)' = Bases(a)
  BY DEF Bases
<1>5. \A a, b : Usable(a, b)' = Usable(a, b)
  BY <1>1 DEF Usable, Block
<1>6. \A a : MaximalRuns(a)' = MaximalRuns(a)
  BY <1>4, <1>5 DEF MaximalRuns
<1>7. \A a : RefusedWindows(a)' = RefusedWindows(a)
  BY <1>4, <1>5 DEF RefusedWindows
<1> QED
  BY <1>3, <1>4, <1>5, <1>6, <1>7

\* Nor does what is there to record change while the walk stays in its arena.
LEMMA HereUnmoved ==
  ASSUME UNCHANGED <<host, arena>>
  PROVE  /\ Here' = Here /\ Bases(Here)' = Bases(Here)
         /\ \A b : Usable(Here, b)' = Usable(Here, b)
         /\ MaximalRuns(Here)' = MaximalRuns(Here)
         /\ RefusedWindows(Here)' = RefusedWindows(Here)
         /\ RunsDone' = RunsDone /\ RefusedDone' = RefusedDone
<1>1. Here' = Here
  <2>1. Here = A(arena)
    BY DEF Here, A
  <2> QED
    BY <2>1, Unmoved
<1>2. Bases(Here)' = Bases(Here)
  BY <1>1 DEF Bases
<1>3. \A b : Usable(Here, b)' = Usable(Here, b)
  BY <1>1 DEF Usable, Block, host
<1>4. MaximalRuns(Here)' = MaximalRuns(Here)
  BY <1>1, <1>2, <1>3 DEF MaximalRuns
<1>5. RefusedWindows(Here)' = RefusedWindows(Here)
  BY <1>1, <1>2, <1>3 DEF RefusedWindows
<1>6. Done' = Done
  <2>1. Done = {A(k) : k \in {j \in 1 .. arena - 1 : HasRoom(A(j))}}
    BY DEF Done, A
  <2>2. Done' = {A(k)' : k \in {j \in 1 .. arena' - 1 : HasRoom(A(j)')}}
    BY DEF Done, A, HasRoom
  <2> QED
    BY <2>1, <2>2, Unmoved
<1>7. RunsDone' = RunsDone
  BY <1>6, HostUnmoved DEF RunsDone
<1>8. RefusedDone' = RefusedDone
  BY <1>6, HostUnmoved DEF RefusedDone
<1> QED
  BY <1>1, <1>2, <1>3, <1>4, <1>5, <1>7, <1>8

\* The process never holds what the host denies.
LEMMA HostKept == ArenaInv /\ HostIsKept /\ [Next]_vars => HostIsKept'
<1> SUFFICES ASSUME ArenaInv, HostIsKept, [Next]_vars PROVE HostIsKept'
  OBVIOUS
<1>1. UNCHANGED host
  BY DEF Next, Walk, EnterArena, Placed, NotPlaced, QueryBase, HeldNoAccess, Refused, LeaveArena,
         Return, LayoutChanges, vars
<1>2. /\ Bands(max_address)' = Bands(max_address) /\ denied' = denied
      /\ Granules(max_address)' = Granules(max_address)
  BY <1>1, HostUnmoved, Unmoved DEF host
<1>3. \A g \in Granules(max_address) : g \in denied => own'[g] = "free"
  <2>1. CASE LayoutChanges
    <3>1. own \in [Granules(max_address) -> Kinds]
      BY DEF ArenaInv, TypeOK
    <3> QED
      BY <2>1, <3>1 DEF LayoutChanges, HostIsKept
  <2>2. CASE ~LayoutChanges
    <3>1. own' = own
      BY <2>2 DEF Next, Walk, EnterArena, Placed, NotPlaced, QueryBase, HeldNoAccess, Refused,
                  LeaveArena, Return, vars
    <3> QED
      BY <3>1 DEF HostIsKept
  <2> QED
    BY <2>1, <2>2
<1> QED
  BY <1>2, <1>3 DEF HostIsKept

\* Before the first arena nothing had to be recorded.
LEMMA HostInit == Init => HostInv
<1> SUFFICES ASSUME Init PROVE HostInv
  OBVIOUS
<1>1. HostIsKept
  BY DEF Init, HostIsKept
<1>2. ~Walking /\ ~in_run /\ pc = "enter" /\ arena = 1
  BY DEF Init, Walking
<1>3. WholeWindows /\ RunIsMaximal
  BY <1>2 DEF WholeWindows, RunIsMaximal
<1>4. RecordedIsTheHosts
  <2>1. Done = {}
    BY <1>2 DEF Done
  <2>2. /\ {available[i] : i \in 1 .. Len(available)} = {}
        /\ {unavailable[i] : i \in 1 .. Len(unavailable)} = {}
    BY DEF Init
  <2> QED
    BY <1>2, <2>1, <2>2 DEF RecordedIsTheHosts, RunsSoFar, RefusedSoFar, RunsDone, RefusedDone
<1> QED
  BY <1>1, <1>3, <1>4 DEF HostInv

\* Usable windows up to reached: the records stay as they are and stay right.
LEMMA HostGoOn ==
  ASSUME ArenaInv, WholeWindows, RunIsMaximal, RecordedIsTheHosts, Walking,
         base + Here.window <= Here.top, Platform = "windows",
         UNCHANGED <<host, arena, results>>,
         NEW reached \in Nat, base + Here.window <= reached, OnGrid(reached),
         arena = 1 => reached <= Here.top,
         ExtendRun(IF reached < Here.top THEN reached ELSE Here.top),
         base' = reached, pc' = "place",
         \A b \in Bases(Here) : base <= b /\ b < reached => Usable(Here, b)
  PROVE  (WholeWindows /\ RunIsMaximal /\ RecordedIsTheHosts)'
<1> DEFINE o == Here.bottom
           w == Here.window
           t == Here.top
           B == Bases(Here)
           e == IF reached < t THEN reached ELSE t
<1>1. /\ TypeOK /\ arena \in 1 .. 2 /\ HasRoom(Here) /\ Here = A(arena) /\ base \in Nat
      /\ o \in Nat /\ w \in Nat \ {0} /\ t \in Nat /\ run_start \in Nat /\ o <= base
  BY Inside
<1>2. Reached = base /\ base \in B
  BY Standing
<1>3. \A b \in B : b \in Nat /\ o <= b /\ b + w <= t /\ (b - o) % w = 0
  BY <1>1, Grid
<1>4. e \in Nat /\ o <= e /\ e <= t /\ e <= reached /\ base + w <= e
  <2> HIDE DEF o, w, t
  <2>1. base + w <= t /\ base + w <= reached
    BY DEF w, t
  <2> QED
    BY <1>1, <2>1
<1>5. (e - o) % w = 0
  <2>1. CASE reached < t
    BY <2>1 DEF OnGrid
  <2>2. CASE ~(reached < t) /\ arena = 1
    <3>1. e = reached
      BY <1>1, <2>2
    <3> QED
      BY <3>1 DEF OnGrid
  <2>3. CASE ~(reached < t) /\ arena = 2
    BY <1>1, <2>3, ArenaShape DEF TypeOK
  <2> QED
    BY <1>1, <2>1, <2>2, <2>3
<1>6. /\ Here' = Here /\ Walking' /\ arena' = arena /\ Reached' = e
      /\ available' = available /\ unavailable' = unavailable
      /\ in_run' = TRUE /\ run_start' = IF in_run THEN run_start ELSE base
      /\ B' = B /\ w' = w
  BY HereUnmoved DEF results, ExtendRun, Walking, Reached
<1>7. WholeWindows'
  BY <1>1, <1>5, <1>6 DEF WholeWindows
<1>8. RunIsMaximal'
  <2> DEFINE s == IF in_run THEN run_start ELSE base
  <2>1. s \in B
    BY <1>2 DEF RunIsMaximal
  <2>2. ASSUME NEW b \in B, s <= b, b < e
        PROVE  Usable(Here, b)
    <3>1. b \in Nat /\ e \in Nat /\ e <= reached
      BY <1>3, <1>4
    <3> HIDE DEF e
    <3>2. CASE base <= b
      BY <1>1, <2>2, <3>1, <3>2
    <3>3. CASE b < base
      BY <1>1, <1>2, <2>2, <3>1, <3>3 DEF RunIsMaximal
    <3> QED
      BY <1>1, <3>1, <3>2, <3>3
  <2>3. ASSUME NEW b \in B, b + w = s
        PROVE  ~Usable(Here, b)
    BY <1>2, <2>3 DEF RunIsMaximal
  <2>4. \A b \in B : Usable(Here, b)' = Usable(Here, b)
    BY HereUnmoved
  <2> HIDE DEF s
  <2>5. \A b \in B : /\ s <= b /\ b < e => Usable(Here, b)'
                     /\ b + w = s => ~Usable(Here, b)'
    BY <2>2, <2>3, <2>4
  <2>6. run_start' = s /\ in_run'
    BY <1>6 DEF s
  <2>7. B' = Bases(Here)' /\ w' = Here'.window
    OBVIOUS
  <2> HIDE DEF e, B, w
  <2>8. RunIsMaximal' <=>
           /\ run_start' \in B'
           /\ \A b \in B' : /\ run_start' <= b /\ b < Reached' => Usable(Here, b)'
                            /\ b + w' = run_start' => ~Usable(Here, b)'
    BY <2>6, <2>7 DEF RunIsMaximal
  <2> QED
    BY <1>6, <2>1, <2>5, <2>6, <2>8
<1>9. RunsBefore(Here, e) = RunsBefore(Here, base)
  <2> SUFFICES ASSUME NEW r \in MaximalRuns(Here)
               PROVE  r.end < e <=> r.end < base
    BY DEF RunsBefore
  <2>1. /\ r.end \in Nat /\ o < r.end /\ r.end <= t /\ (r.end - o) % w = 0
        /\ \A b \in B : b = r.end => ~Usable(Here, b)
    BY <1>1, RunShape
  <2>2. r.end \in Nat /\ o < r.end
    BY <2>1
  <2>3. e \in Nat /\ e <= t /\ e <= reached /\ base + w <= e
    BY <1>4
  <2>4. ASSUME base <= r.end, r.end < e
        PROVE  FALSE
    <3> HIDE DEF e
    <3>1. r.end + w <= e
      <4> DEFINE n == r.end
      <4>1. n \in Nat /\ o <= n /\ n < e /\ (n - o) % w = 0 /\ (e - o) % w = 0
        BY <1>5, <2>1, <2>2, <2>4, <1>1
      <4> HIDE DEF n, o, w
      <4>2. n + w <= e
        BY <1>1, <2>3, <4>1, GridGap
      <4> QED
        BY <4>2 DEF n, w
    <3>2. r.end + w <= t /\ r.end < reached
      <4> HIDE DEF o, w, t
      <4> QED
        BY <1>1, <2>2, <2>3, <2>4, <3>1
    <3>3. r.end \in B
      BY <1>1, <2>1, <3>2, Grid
    <3> QED
      BY <2>1, <2>4, <3>2, <3>3
  <2> HIDE DEF e, o, w, t
  <2> QED
    BY <1>1, <2>2, <2>3, <2>4
<1>10. RefusedBefore(Here, e) = RefusedBefore(Here, base)
  <2> SUFFICES ASSUME NEW b \in B, ~Usable(Here, b)
               PROVE  b < e <=> b < base
    BY DEF RefusedBefore, RefusedWindows
  <2>1. b \in Nat /\ e \in Nat /\ e <= reached /\ base + w <= e
    BY <1>3, <1>4
  <2> HIDE DEF e, o, w, t
  <2>2. ~(base <= b /\ b < e)
    BY <1>1, <2>1
  <2> QED
    BY <1>1, <2>1, <2>2
<1>11. RecordedIsTheHosts'
  <2>1. /\ RunsBefore(Here, Reached)' = RunsBefore(Here, e)
        /\ RefusedBefore(Here, Reached)' = RefusedBefore(Here, e)
    BY <1>6, HereUnmoved DEF RunsBefore, RefusedBefore
  <2> HIDE DEF e
  <2>2. RunsSoFar' = RunsSoFar
    BY <1>2, <1>6, <1>9, <2>1, HereUnmoved DEF RunsSoFar
  <2>3. RefusedSoFar' = RefusedSoFar
    BY <1>2, <1>6, <1>10, <2>1, HereUnmoved DEF RefusedSoFar
  <2> QED
    BY <1>6, <2>2, <2>3 DEF RecordedIsTheHosts
<1> QED
  BY <1>7, <1>8, <1>11

\* The list with the run closed holds what it held and the run.
LEMMA ClosedList ==
  ASSUME ArenaInv, Walking
  PROVE  LET now == close_run(last_window_end)
         IN {now[i] : i \in 1 .. Len(now)}
               = {available[i] : i \in 1 .. Len(available)}
                 \cup (IF in_run THEN {[start |-> run_start, end |-> last_window_end]} ELSE {})
<1> DEFINE now == close_run(last_window_end)
           q == [start |-> run_start, end |-> last_window_end]
<1>1. /\ in_run => now = Append(available, q) /\ q \in Range
      /\ ~in_run => now = available
  BY Closed
<1>2. available \in Seq(Range)
  BY DEF ArenaInv, TypeOK
<1> HIDE DEF now, q
<1>3. CASE in_run
  <2>1. {Append(available, q)[i] : i \in 1 .. Len(Append(available, q))}
           = {available[i] : i \in 1 .. Len(available)} \cup {q}
    BY <1>1, <1>2, <1>3, Grown
  <2>2. {now[i] : i \in 1 .. Len(now)} = {available[i] : i \in 1 .. Len(available)} \cup {q}
    BY <1>1, <1>3, <2>1
  <2> QED
    BY <1>3, <2>2 DEF now, q
<1>4. CASE ~in_run
  <2>1. {now[i] : i \in 1 .. Len(now)} = {available[i] : i \in 1 .. Len(available)}
    BY <1>1, <1>4
  <2> QED
    BY <1>4, <2>1 DEF now
<1> QED
  BY <1>3, <1>4

\* A window the walk files as refused is one the host denies, not the process.
LEMMA RefusedIsDenied ==
  ASSUME ArenaInv, WholeWindows, Refused, Platform = "windows"
  PROVE  ~Usable(Here, base)
<1>1. Walking /\ base + Here.window <= Here.top /\ ~describe.covers /\ pc = "describe"
  BY DEF Refused, Walking, ArenaInv, Position
<1>2. ~ \E x \in Window : Occupied(x)
  BY <1>1, Inside, Described DEF TypeOK
<1>3. InTheWay
  BY <1>1 DEF WholeWindows
<1> QED
  BY <1>2, <1>3 DEF InTheWay, Usable, Window

\* A refused window ends the open run, which is maximal, and is denied.
LEMMA HostRefused ==
  ASSUME ArenaInv, WholeWindows, RunIsMaximal, RecordedIsTheHosts, Refused,
         Platform = "windows"
  PROVE  (WholeWindows /\ RunIsMaximal /\ RecordedIsTheHosts)'
<1> DEFINE o == Here.bottom
           w == Here.window
           t == Here.top
           B == Bases(Here)
           e == base + w
           q == [start |-> run_start, end |-> last_window_end]
           u == [start |-> base, end |-> base + w]
           now == close_run(last_window_end)
<1>1. Walking /\ base + w <= t
  BY DEF Refused, Walking, ArenaInv, Position
<1>2. /\ TypeOK /\ arena \in 1 .. 2 /\ HasRoom(Here) /\ Here = A(arena) /\ base \in Nat
      /\ o \in Nat /\ w \in Nat \ {0} /\ t \in Nat /\ o <= base /\ (base - o) % w = 0
  BY <1>1, Inside DEF OnGrid
<1>3. Reached = base /\ base \in B
  BY <1>1, Standing
<1>4. \A b \in B : b \in Nat /\ o <= b /\ b + w <= t /\ (b - o) % w = 0
  BY <1>2, Grid
<1>5. ~Usable(Here, base)
  BY RefusedIsDenied
<1>6. /\ UNCHANGED <<host, arena>> /\ available' = now /\ unavailable' = Append(unavailable, u)
      /\ in_run' = FALSE /\ base' = e /\ pc' = "place"
  BY DEF Refused
<1>7. /\ Here' = Here /\ Walking' /\ Reached' = e /\ arena' = arena /\ B' = B /\ w' = w
  <2>1. Here' = Here /\ B' = B
    BY <1>6, HereUnmoved
  <2>2. e \in Nat /\ (IF e < t THEN e ELSE t) = e
    <3>1. base \in Nat /\ w \in Nat /\ t \in Nat /\ base + w <= t
      BY <1>1, <1>2
    <3> HIDE DEF w, t
    <3> QED
      BY <3>1
  <2> HIDE DEF e
  <2>3. Reached' = IF e < Here'.top THEN e ELSE Here'.top
    BY <1>6 DEF Reached
  <2>4. Reached' = e
    BY <2>1, <2>2, <2>3
  <2>5. w' = w /\ Walking' /\ arena' = arena
    BY <1>6, <2>1 DEF Walking
  <2> QED
    BY <2>1, <2>4, <2>5
<1>8. ((base + w) - o) % w = 0
  BY <1>2, GridNext
<1>9. WholeWindows'
  BY <1>1, <1>6, <1>7, <1>8 DEF WholeWindows
<1>10. RunIsMaximal'
  <2>1. ASSUME NEW b \in B, b + w = e
        PROVE  ~Usable(Here, b)
    <3>1. b = base
      BY <1>2, <1>4, <2>1
    <3> QED
      BY <1>5, <3>1
  <2>2. \A b \in B : b + w = e => ~Usable(Here, b)'
    BY <2>1, <1>6, HereUnmoved
  <2>3. B' = Bases(Here)' /\ w' = Here'.window
    OBVIOUS
  <2> HIDE DEF e, B, w
  <2>4. RunIsMaximal' <=> \A b \in B' : b + w' = Reached' => ~Usable(Here, b)'
    BY <1>6, <1>7, <2>3 DEF RunIsMaximal
  <2> QED
    BY <1>7, <2>2, <2>4
<1>11. RunsBefore(Here, e)
          = RunsBefore(Here, base) \cup (IF in_run THEN {q} ELSE {})
  <2>1. ASSUME NEW r \in MaximalRuns(Here)
        PROVE  r.end < e <=> r.end <= base
    <3> DEFINE n == r.end
    <3>1. n \in Nat /\ o < n /\ (n - o) % w = 0
      BY <1>2, RunShape
    <3> HIDE DEF n, o, w
    <3>2. ~(base < n /\ n < e)
      <4> SUFFICES ASSUME base < n, n < base + w PROVE FALSE
        OBVIOUS
      <4>1. base + w <= n
        BY <1>2, <3>1, GridGap
      <4> QED
        BY <1>2, <3>1, <4>1
    <3>3. n < base + w <=> n <= base
      BY <1>2, <3>1, <3>2
    <3> QED
      BY <3>3 DEF n
  <2>2. {r \in MaximalRuns(Here) : r.end <= Reached}
            = RunsBefore(Here, Reached) \cup (IF in_run THEN {q} ELSE {})
    BY <1>1, <1>3, <1>5, RunsUpTo
  <2> HIDE DEF e, q
  <2>3. RunsBefore(Here, e) = {r \in MaximalRuns(Here) : r.end <= base}
    BY <2>1 DEF RunsBefore
  <2> QED
    BY <1>3, <2>2, <2>3
<1>12. RefusedBefore(Here, e) = RefusedBefore(Here, base) \cup {u}
  <2>1. ASSUME NEW b \in B
        PROVE  b < e <=> b < base \/ b = base
    <3>1. b \in Nat /\ o <= b /\ (b - o) % w = 0
      BY <1>4
    <3> HIDE DEF o, w
    <3>2. ~(base < b /\ b < base + w)
      <4> SUFFICES ASSUME base < b, b < base + w PROVE FALSE
        OBVIOUS
      <4>1. base + w <= b
        BY <1>2, <3>1, GridGap
      <4> QED
        BY <1>2, <3>1, <4>1
    <3> QED
      BY <1>2, <3>1, <3>2
  <2>2. \A b \in B : [start |-> b, end |-> b + w].start = b
    OBVIOUS
  <2> DEFINE R(b) == [start |-> b, end |-> b + w]
             C == {c \in B : ~Usable(Here, c)}
  <2>3. RefusedWindows(Here) = {R(b) : b \in C}
    BY DEF RefusedWindows
  <2>4. \A b : R(b).start = b
    OBVIOUS
  <2>5. base \in C /\ u = R(base)
    BY <1>3, <1>5
  <2>6. \A b \in C : b < e <=> b < base \/ b = base
    BY <2>1
  <2>7. ~(base < base) /\ base < e
    BY <1>2
  <2> HIDE DEF R, C, e, u
  <2> QED
    BY <2>3, <2>4, <2>5, <2>6, <2>7 DEF RefusedBefore
<1> HIDE DEF now, q, u
<1>13. {now[i] : i \in 1 .. Len(now)}
          = {available[i] : i \in 1 .. Len(available)} \cup (IF in_run THEN {q} ELSE {})
  BY <1>1, ClosedList DEF now, q
<1>14. {unavailable'[i] : i \in 1 .. Len(unavailable')}
          = {unavailable[i] : i \in 1 .. Len(unavailable)} \cup {u}
  <2>1. u \in Range
    BY <1>1, <1>2, Inside, WordAssumption DEF u, Range, Word
  <2>2. unavailable \in Seq(Range)
    BY <1>2 DEF TypeOK
  <2>3. {Append(unavailable, u)[i] : i \in 1 .. Len(Append(unavailable, u))}
           = {unavailable[i] : i \in 1 .. Len(unavailable)} \cup {u}
    BY <2>1, <2>2, Grown
  <2> QED
    BY <1>6, <2>3
<1>15. RecordedIsTheHosts'
  <2>1. /\ RunsBefore(Here, Reached)' = RunsBefore(Here, e)
        /\ RefusedBefore(Here, Reached)' = RefusedBefore(Here, e)
    BY <1>6, <1>7, HereUnmoved DEF RunsBefore, RefusedBefore
  <2> HIDE DEF e
  <2>2. RunsSoFar' = RunsSoFar \cup (IF in_run THEN {q} ELSE {})
    <3>1. RunsSoFar = RunsDone \cup RunsBefore(Here, base)
      BY <1>1, <1>3 DEF RunsSoFar
    <3>2. RunsSoFar' = RunsDone \cup RunsBefore(Here, e)
      BY <1>6, <1>7, <2>1, HereUnmoved DEF RunsSoFar
    <3> QED
      BY <1>11, <3>1, <3>2
  <2>3. RefusedSoFar' = RefusedSoFar \cup {u}
    <3>1. RefusedSoFar = RefusedDone \cup RefusedBefore(Here, base)
      BY <1>1, <1>3 DEF RefusedSoFar
    <3>2. RefusedSoFar' = RefusedDone \cup RefusedBefore(Here, e)
      BY <1>6, <1>7, <2>1, HereUnmoved DEF RefusedSoFar
    <3> QED
      BY <1>12, <3>1, <3>2
  <2>4. {available'[i] : i \in 1 .. Len(available')}
           = {available[i] : i \in 1 .. Len(available)} \cup (IF in_run THEN {q} ELSE {})
    BY <1>6, <1>13
  <2> QED
    BY <1>14, <2>2, <2>3, <2>4 DEF RecordedIsTheHosts
<1> QED
  BY <1>9, <1>10, <1>15

\* One window counts as usable, and is.
LEMMA HostOneMore ==
  ASSUME ArenaInv, WholeWindows, RunIsMaximal, RecordedIsTheHosts, Walking,
         base + Here.window <= Here.top, Platform = "windows",
         UNCHANGED <<host, arena, results>>,
         ExtendRun(base + Here.window), base' = base + Here.window, pc' = "place",
         Usable(Here, base)
  PROVE  (WholeWindows /\ RunIsMaximal /\ RecordedIsTheHosts)'
<1> DEFINE o == Here.bottom
           w == Here.window
           t == Here.top
           e == base + w
<1>1. /\ TypeOK /\ arena \in 1 .. 2 /\ HasRoom(Here) /\ Here = A(arena) /\ base \in Nat
      /\ o \in Nat /\ w \in Nat \ {0} /\ t \in Nat /\ o <= base
  BY Inside
<1>2. (base - o) % w = 0
  BY Inside DEF OnGrid
<1>3. OnGrid(e)
  BY <1>1, <1>2, GridNext DEF OnGrid
<1>4. ASSUME NEW b \in Bases(Here), base <= b, b < e
      PROVE  Usable(Here, b)
  <2>1. b \in Nat /\ (b - o) % w = 0
    BY <1>1, Grid
  <2> HIDE DEF o, w
  <2>2. ~(base < b)
    <3> SUFFICES ASSUME base < b PROVE FALSE
      OBVIOUS
    <3>1. base + w <= b
      BY <1>1, <1>2, <2>1, GridGap
    <3> QED
      BY <1>1, <1>4, <2>1, <3>1
  <2>3. b = base
    BY <1>1, <1>4, <2>1, <2>2
  <2> QED
    BY <2>3
<1>5. e \in Nat /\ base + w <= e /\ e <= t /\ e = IF e < t THEN e ELSE t
  BY <1>1
<1>6. ExtendRun(IF e < t THEN e ELSE t)
  BY <1>5
<1> HIDE DEF e
<1>7. base' = e
  BY DEF e
<1> QED
  BY <1>3, <1>4, <1>5, <1>6, <1>7, HostGoOn

\* A granted window is usable.
LEMMA HostPlaced ==
  ASSUME ArenaInv, WholeWindows, RunIsMaximal, RecordedIsTheHosts, Placed, Platform = "windows"
  PROVE  (WholeWindows /\ RunIsMaximal /\ RecordedIsTheHosts)'
<1>1. Walking /\ base + Here.window <= Here.top
  BY Inside DEF Placed, Walking
<1>2. Usable(Here, base)
  BY DEF Placed, InTheWay, Usable, Window
<1>3. /\ UNCHANGED <<host, arena, results>> /\ ExtendRun(base + Here.window)
      /\ base' = base + Here.window /\ pc' = "place"
  BY DEF Placed
<1> QED
  BY <1>1, <1>2, <1>3, HostOneMore

\* The walk stands still, or asks on about the window that is in its way.
LEMMA HostStill ==
  ASSUME ArenaInv, WholeWindows, RunIsMaximal, RecordedIsTheHosts, Walking' = Walking,
         pc' \in {"query", "describe"} => InTheWay,
         UNCHANGED <<host, own, arena, base, run, results>>
  PROVE  (WholeWindows /\ RunIsMaximal /\ RecordedIsTheHosts)'
<1>1. /\ UNCHANGED <<host, arena>> /\ Here' = Here /\ Bases(Here)' = Bases(Here)
      /\ \A b : Usable(Here, b)' = Usable(Here, b)
      /\ MaximalRuns(Here)' = MaximalRuns(Here) /\ RefusedWindows(Here)' = RefusedWindows(Here)
      /\ RunsDone' = RunsDone /\ RefusedDone' = RefusedDone
  BY HereUnmoved
<1>2. /\ base' = base /\ in_run' = in_run /\ run_start' = run_start /\ arena' = arena
      /\ available' = available /\ unavailable' = unavailable /\ Reached' = Reached
  BY <1>1 DEF run, results, Reached
<1>3. InTheWay' = InTheWay
  <2>1. max_address' = max_address /\ denied' = denied /\ LowBottom' = LowBottom /\ own' = own
    BY DEF host, LowBottom
  <2>2. \A x : Occupied(x)' = Occupied(x)
    BY <2>1 DEF Occupied, OwnAt
  <2>3. Window' = Window
    BY <1>1, <1>2 DEF Window, Block
  <2> QED
    BY <2>1, <2>2, <2>3 DEF InTheWay
<1>4. WholeWindows'
  BY <1>1, <1>2, <1>3 DEF WholeWindows
<1>5. RunIsMaximal'
  <2> DEFINE B == Bases(Here)
             s == run_start
  <2>1. /\ in_run => /\ s \in B
                     /\ \A b \in B : /\ s <= b /\ b < Reached => Usable(Here, b)'
                                     /\ b + Here.window = s => ~Usable(Here, b)'
        /\ Walking /\ ~in_run =>
              \A b \in B : b + Here.window = Reached => ~Usable(Here, b)'
    BY <1>1 DEF RunIsMaximal
  <2> HIDE DEF B
  <2>2. B' = B
    BY <1>1 DEF B
  <2>3. RunIsMaximal' <=>
        /\ in_run' => /\ s' \in B'
                      /\ \A b \in B' : /\ s' <= b /\ b < Reached' => Usable(Here, b)'
                                       /\ b + Here'.window = s' => ~Usable(Here, b)'
        /\ Walking' /\ ~in_run' =>
              \A b \in B' : b + Here'.window = Reached' => ~Usable(Here, b)'
    BY DEF RunIsMaximal, B
  <2> QED
    BY <1>1, <1>2, <2>1, <2>2, <2>3
<1>6. RunsSoFar' = RunsSoFar
  <2>1. RunsBefore(Here, Reached)' = RunsBefore(Here, Reached)
    BY <1>1, <1>2 DEF RunsBefore
  <2> QED
    BY <1>1, <2>1 DEF RunsSoFar
<1>7. RefusedSoFar' = RefusedSoFar
  <2>1. RefusedBefore(Here, Reached)' = RefusedBefore(Here, Reached)
    BY <1>1, <1>2 DEF RefusedBefore
  <2> QED
    BY <1>1, <2>1 DEF RefusedSoFar
<1>8. RecordedIsTheHosts'
  BY <1>2, <1>6, <1>7 DEF RecordedIsTheHosts
<1> QED
  BY <1>4, <1>5, <1>8

\* A refusal alone changes no record.
LEMMA HostNotPlaced ==
  ASSUME ArenaInv, WholeWindows, RunIsMaximal, RecordedIsTheHosts, NotPlaced
  PROVE  (WholeWindows /\ RunIsMaximal /\ RecordedIsTheHosts)'
<1>1. Walking' = Walking /\ InTheWay /\ UNCHANGED <<host, own, arena, base, run, results>>
  BY DEF NotPlaced, Walking
<1> QED
  BY <1>1, HostStill

\* A window the process holds a part of is usable, and a window that is refused
\* although the process holds nothing of it is denied.
LEMMA HostQuery ==
  ASSUME ArenaInv, HostIsKept, WholeWindows, RunIsMaximal, RecordedIsTheHosts, QueryBase,
         Platform = "windows"
  PROVE  (WholeWindows /\ RunIsMaximal /\ RecordedIsTheHosts)'
<1>1. Walking /\ base + Here.window <= Here.top /\ pc = "query"
  BY DEF QueryBase, Walking, ArenaInv, Position
<1>2. CASE Occupied(base) /\ OwnAt(base) = "mapped"
  <2>1. /\ TypeOK /\ arena \in 1 .. 2 /\ HasRoom(Here) /\ Here = A(arena) /\ base \in Nat
        /\ Here.window \in Nat \ {0} /\ Here.top \in Word
    BY <1>1, Inside
  <2>2. base \in Bases(Here)
    BY <1>1, Standing
  <2>3. base \in Block(base, Here.window)
    BY <1>1, <2>1, WordAssumption DEF Block, Word
  <2>4. Usable(Here, base)
    BY <1>2, <2>1, <2>2, <2>3, OwnWindow
  <2>5. /\ UNCHANGED <<host, arena, results>> /\ ExtendRun(base + Here.window)
        /\ base' = base + Here.window /\ pc' = "place"
    BY <1>2 DEF QueryBase
  <2> QED
    BY <1>1, <2>4, <2>5, HostOneMore
<1>3. CASE ~(Occupied(base) /\ OwnAt(base) = "mapped")
  <2>1. Walking' = Walking /\ UNCHANGED <<host, own, arena, base, run, results>>
    BY <1>1, <1>3 DEF QueryBase, Walking
  <2>2. InTheWay
    BY <1>1 DEF WholeWindows
  <2> QED
    BY <2>1, <2>2, HostStill
<1> QED
  BY <1>2, <1>3

\* The windows a skip passes over are the process's, so the host does not deny
\* them.
LEMMA HostHeld ==
  ASSUME ArenaInv, HostIsKept, WholeWindows, RunIsMaximal, RecordedIsTheHosts, HeldNoAccess,
         Platform = "windows"
  PROVE  (WholeWindows /\ RunIsMaximal /\ RecordedIsTheHosts)'
<1> DEFINE w == Here.window
           held == describe.held_end
           reached == base + (Jump(held) + 1) * Here.window
<1>1. Walking /\ base + w <= Here.top /\ describe.covers
  BY DEF HeldNoAccess, Walking, ArenaInv, Position
<1>2. /\ TypeOK /\ arena \in 1 .. 2 /\ HasRoom(Here) /\ Here = A(arena) /\ base \in Nat
      /\ Here.bottom \in Nat /\ w \in Nat \ {0} /\ Here.top \in Nat /\ Here.top \in Word
      /\ Here.bottom <= base /\ OnGrid(base)
  BY <1>1, Inside
<1>3. /\ held \in Nat /\ held <= max_address
      /\ \A y \in Nat : base + w <= y /\ y < held => Occupied(y)
      /\ \E x \in Window : Occupied(x)
  BY <1>1, <1>2, Described DEF TypeOK
<1> HIDE DEF held
<1>4. /\ reached \in Nat /\ base + w <= reached
      /\ reached <= held \/ reached = base + w
      /\ OnGrid(reached)
  BY <1>2, <1>3, Resume DEF TypeOK, OnGrid
<1>5. /\ ExtendRun(IF reached < Here.top THEN reached ELSE Here.top)
      /\ base' = reached /\ pc' = "place" /\ UNCHANGED <<host, arena, results>>
  BY DEF HeldNoAccess, held
<1> HIDE DEF reached
<1>6. arena = 1 => reached <= Here.top
  <2>1. arena = 1 => Here.top = max_address
    BY DEF Here, Planned
  <2>2. max_address \in Nat
    BY <1>2, Constants DEF TypeOK, Word
  <2> QED
    BY <1>1, <1>2, <1>3, <1>4, <2>1, <2>2
<1>7. ASSUME NEW b \in Bases(Here), base <= b, b < reached
      PROVE  Usable(Here, b)
  <2>1. b \in Nat /\ OnGrid(b) /\ b \in Word
    BY <1>2, Grid DEF OnGrid, Bases
  <2>2. CASE b = base
    <3>1. PICK x \in Block(b, w) : Occupied(x)
      BY <1>3, <2>2 DEF Window
    <3> QED
      BY <1>2, <3>1, OwnWindow
  <2>3. CASE base < b
    <3>1. base + w <= b
      BY <1>2, <2>1, <2>3, GridGap DEF OnGrid
    <3> HIDE DEF w
    <3>2. b < held
      BY <1>2, <1>3, <1>4, <1>7, <2>1, <3>1
    <3>3. Occupied(b)
      BY <1>3, <2>1, <3>1, <3>2
    <3>4. b \in Block(b, w)
      BY <1>2, <2>1 DEF Block
    <3> QED
      BY <1>2, <3>3, <3>4, OwnWindow DEF w
  <2> QED
    BY <1>2, <1>7, <2>1, <2>2, <2>3
<1> QED
  BY <1>1, <1>4, <1>5, <1>6, <1>7, HostGoOn

\* The arenas walked, from one arena to the next.
LEMMA DoneGrows ==
  ASSUME UNCHANGED host, arena \in 1 .. 2
  PROVE  /\ arena' = arena => Done' = Done
         /\ arena' = arena + 1 => Done' = Done \cup (IF HasRoom(Here) THEN {Here} ELSE {})
<1>1. Here = A(arena)
  BY DEF Here, A
<1>2. Done = {A(k) : k \in {j \in 1 .. arena - 1 : HasRoom(A(j))}}
  BY DEF Done, A
<1>3. Done' = {A(k)' : k \in {j \in 1 .. arena' - 1 : HasRoom(A(j)')}}
  BY DEF Done, A, HasRoom
<1>4. Done' = {A(k) : k \in {j \in 1 .. arena' - 1 : HasRoom(A(j))}}
  BY <1>3, Unmoved
<1>5. arena' = arena => Done' = Done
  BY <1>2, <1>4
<1>6. ASSUME arena' = arena + 1
      PROVE  Done' = Done \cup (IF HasRoom(Here) THEN {Here} ELSE {})
  <2>1. arena' - 1 = arena /\ 1 .. arena = (1 .. arena - 1) \cup {arena}
    BY <1>6
  <2>2. CASE HasRoom(Here)
    <3>1. {j \in 1 .. arena : HasRoom(A(j))}
             = {j \in 1 .. arena - 1 : HasRoom(A(j))} \cup {arena}
      BY <1>1, <2>1, <2>2
    <3> QED
      BY <1>1, <1>2, <1>4, <2>1, <2>2, <3>1
  <2>3. CASE ~HasRoom(Here)
    <3>1. {j \in 1 .. arena : HasRoom(A(j))} = {j \in 1 .. arena - 1 : HasRoom(A(j))}
      BY <1>1, <2>1, <2>3
    <3> QED
      BY <1>2, <1>4, <2>1, <2>3, <3>1
  <2> QED
    BY <2>2, <2>3
<1> QED
  BY <1>5, <1>6

\* What there was to record of the arenas left behind, by arena.
LEMMA RecordsOfDone ==
  ASSUME UNCHANGED host
  PROVE  /\ RunsDone' = UNION {MaximalRuns(a) : a \in Done'}
         /\ RefusedDone' = UNION {RefusedWindows(a) : a \in Done'}
BY HostUnmoved DEF RunsDone, RefusedDone

\* An arena that is entered, or has no room, has nothing behind it yet.
LEMMA HostEnter ==
  ASSUME ArenaInv, WholeWindows, RunIsMaximal, RecordedIsTheHosts, EnterArena
  PROVE  (WholeWindows /\ RunIsMaximal /\ RecordedIsTheHosts)'
<1>1. /\ TypeOK /\ arena \in 1 .. 2 /\ ~Walking /\ Here = A(arena)
  BY DEF ArenaInv, TypeOK, EnterArena, Walking, Here, A
<1>2. /\ UNCHANGED host /\ available' = available /\ unavailable' = unavailable
      /\ in_run' = FALSE
  BY DEF EnterArena, results
<1>3. RunsSoFar = RunsDone /\ RefusedSoFar = RefusedDone
  BY <1>1 DEF RunsSoFar, RefusedSoFar
<1>4. CASE ~HasRoom(Here)
  <2>1. arena' = arena + 1 /\ ~Walking' /\ pc' = "enter"
    BY <1>4 DEF EnterArena, Walking
  <2>2. Done' = Done
    BY <1>1, <1>2, <1>4, <2>1, DoneGrows
  <2>3. RunsDone' = RunsDone /\ RefusedDone' = RefusedDone
    BY <1>2, <2>2, RecordsOfDone DEF RunsDone, RefusedDone
  <2>4. WholeWindows' /\ RunIsMaximal'
    BY <1>2, <2>1 DEF WholeWindows, RunIsMaximal
  <2>5. RunsSoFar' = RunsSoFar /\ RefusedSoFar' = RefusedSoFar
    BY <1>3, <2>1, <2>3 DEF RunsSoFar, RefusedSoFar
  <2> QED
    BY <1>2, <2>4, <2>5 DEF RecordedIsTheHosts
<1>5. CASE HasRoom(Here)
  <2> DEFINE o == Here.bottom
             w == Here.window
             t == Here.top
  <2>1. arena' = arena /\ Walking' /\ pc' = "place" /\ base' = o
    BY <1>5 DEF EnterArena, Walking
  <2>2. /\ Here' = Here /\ Bases(Here)' = Bases(Here)
        /\ \A b : Usable(Here, b)' = Usable(Here, b)
        /\ MaximalRuns(Here)' = MaximalRuns(Here) /\ RefusedWindows(Here)' = RefusedWindows(Here)
        /\ RunsDone' = RunsDone /\ RefusedDone' = RefusedDone
    BY <1>2, <2>1, HereUnmoved
  <2>3. o \in Nat /\ w \in Nat \ {0} /\ t \in Nat /\ o < t
    BY <1>1, <1>5, Grid DEF HasRoom
  <2>4. Reached' = o
    BY <2>1, <2>2, <2>3 DEF Reached
  <2>5. WholeWindows'
    <3>1. (o - o) % w = 0 /\ o <= t
      BY <2>3
    <3> QED
      BY <2>1, <2>2, <2>4, <3>1 DEF WholeWindows
  <2>6. RunIsMaximal'
    <3>1. \A b \in Bases(Here) : b \in Nat /\ o <= b
      BY <1>1, <1>5, Grid
    <3>2. \A b \in Bases(Here) : b + w # o
      <4> HIDE DEF o, w
      <4> QED
        BY <2>3, <3>1
    <3>3. \A b \in Bases(Here)' : b + Here'.window # Reached'
      BY <2>2, <2>4, <3>2
    <3> QED
      BY <1>2, <3>3 DEF RunIsMaximal
  <2>7. RunsBefore(Here, Reached)' = {}
    <3>1. \A r \in MaximalRuns(Here) : r.end \in Nat /\ o < r.end
      BY <1>1, <1>5, RunShape
    <3>2. \A r \in MaximalRuns(Here) : ~(r.end < o)
      BY <2>3, <3>1
    <3> QED
      BY <2>2, <2>4, <3>2 DEF RunsBefore
  <2>8. RefusedBefore(Here, Reached)' = {}
    <3>1. \A b \in Bases(Here) : b \in Nat /\ o <= b
      BY <1>1, <1>5, Grid
    <3>2. \A r \in RefusedWindows(Here) : r.start \in Nat /\ o <= r.start
      BY <3>1 DEF RefusedWindows
    <3>3. \A r \in RefusedWindows(Here) : ~(r.start < o)
      BY <2>3, <3>2
    <3> QED
      BY <2>2, <2>4, <3>3 DEF RefusedBefore
  <2>9. RunsSoFar' = RunsSoFar /\ RefusedSoFar' = RefusedSoFar
    BY <1>3, <2>2, <2>7, <2>8 DEF RunsSoFar, RefusedSoFar
  <2> QED
    BY <1>2, <2>5, <2>6, <2>9 DEF RecordedIsTheHosts
<1> QED
  BY <1>4, <1>5

\* When the loop is over every window of the arena has been classified.
LEMMA ArenaIsDone ==
  ASSUME ArenaInv, WholeWindows, Walking, ~MoreWindows
  PROVE  /\ \A b \in Bases(Here) : b < Reached /\ b # Reached
         /\ \A r \in MaximalRuns(Here) : r.end <= Reached
<1> DEFINE o == Here.bottom
           w == Here.window
           t == Here.top
           e == Reached
<1>1. /\ TypeOK /\ arena \in 1 .. 2 /\ HasRoom(Here) /\ Here = A(arena) /\ base \in Nat
      /\ o \in Nat /\ w \in Nat \ {0} /\ t \in Nat /\ ~(base + w <= t)
  BY Inside
<1>2. e \in Nat /\ o <= e /\ (e - o) % w = 0 /\ e = IF base < t THEN base ELSE t
  BY Standing DEF Reached
<1>3. ~(e + w <= t)
  <2>1. e = IF base < t THEN base ELSE t
    BY <1>2
  <2> HIDE DEF e, w, t
  <2> QED
    BY <1>1, <2>1
<1>4. ASSUME NEW b \in Bases(Here)
      PROVE  b < e
  <2>1. b \in Nat /\ b + w <= t
    BY <1>1, Grid
  <2>2. e \in Nat
    BY <1>2
  <2> HIDE DEF e, w, t
  <2> QED
    BY <1>1, <1>3, <2>1, <2>2
<1>5. ASSUME NEW r \in MaximalRuns(Here)
      PROVE  r.end <= e
  <2> DEFINE n == r.end
  <2>1. n \in Nat /\ n <= t /\ (n - o) % w = 0
    BY <1>1, RunShape
  <2> HIDE DEF n, e, o, w, t
  <2>2. ~(e < n)
    <3> SUFFICES ASSUME e < n PROVE FALSE
      OBVIOUS
    <3>1. e + w <= n
      BY <1>1, <1>2, <2>1, GridGap
    <3> QED
      BY <1>1, <1>2, <1>3, <2>1, <3>1
  <2>3. e \in Nat
    BY <1>2
  <2> QED
    BY <2>1, <2>2, <2>3 DEF n
<1>6. \A b \in Bases(Here) : b # e
  <2>1. e \in Nat
    BY <1>2
  <2> HIDE DEF e
  <2> QED
    BY <1>4, <2>1
<1> QED
  BY <1>4, <1>5, <1>6

\* At the end of an arena the last run is closed, and all of it is recorded.
LEMMA HostLeave ==
  ASSUME ArenaInv, WholeWindows, RunIsMaximal, RecordedIsTheHosts, LeaveArena
  PROVE  (WholeWindows /\ RunIsMaximal /\ RecordedIsTheHosts)'
<1> DEFINE now == close_run(last_window_end)
           q == [start |-> run_start, end |-> last_window_end]
<1>1. Walking /\ ~MoreWindows
  BY DEF LeaveArena, Walking
<1>2. /\ TypeOK /\ arena \in 1 .. 2 /\ HasRoom(Here) /\ Here = A(arena)
  BY <1>1, Inside
<1>3. /\ UNCHANGED host /\ available' = now /\ unavailable' = unavailable
      /\ in_run' = FALSE /\ pc' = "enter" /\ ~Walking' /\ arena' = arena + 1
  BY DEF LeaveArena, Walking
<1>4. WholeWindows' /\ RunIsMaximal'
  BY <1>3 DEF WholeWindows, RunIsMaximal
<1>5. MaximalRuns(Here) = RunsBefore(Here, Reached) \cup (IF in_run THEN {q} ELSE {})
  <2>1. {r \in MaximalRuns(Here) : r.end <= Reached}
            = RunsBefore(Here, Reached) \cup (IF in_run THEN {q} ELSE {})
    BY <1>1, ArenaIsDone, RunsUpTo
  <2>2. {r \in MaximalRuns(Here) : r.end <= Reached} = MaximalRuns(Here)
    BY <1>1, ArenaIsDone
  <2> QED
    BY <2>1, <2>2
<1>6. RefusedWindows(Here) = RefusedBefore(Here, Reached)
  <2>1. \A b \in Bases(Here) : b < Reached
    BY <1>1, ArenaIsDone
  <2>2. \A r \in RefusedWindows(Here) : r.start < Reached
    BY <2>1 DEF RefusedWindows
  <2> QED
    BY <2>2 DEF RefusedBefore
<1>7. Done' = Done \cup {Here}
  BY <1>2, <1>3, DoneGrows
<1>8. /\ RunsDone' = RunsDone \cup MaximalRuns(Here)
      /\ RefusedDone' = RefusedDone \cup RefusedWindows(Here)
  <2>1. UNION {MaximalRuns(a) : a \in Done \cup {Here}} = RunsDone \cup MaximalRuns(Here)
    BY DEF RunsDone
  <2>2. UNION {RefusedWindows(a) : a \in Done \cup {Here}}
           = RefusedDone \cup RefusedWindows(Here)
    BY DEF RefusedDone
  <2> QED
    BY <1>3, <1>7, <2>1, <2>2, RecordsOfDone
<1> HIDE DEF now, q
<1>9. {now[i] : i \in 1 .. Len(now)}
          = {available[i] : i \in 1 .. Len(available)} \cup (IF in_run THEN {q} ELSE {})
  BY <1>1, ClosedList DEF now, q
<1>10. RunsSoFar' = RunsSoFar \cup (IF in_run THEN {q} ELSE {})
  <2>1. RunsSoFar' = RunsDone'
    BY <1>3 DEF RunsSoFar
  <2>2. RunsSoFar = RunsDone \cup RunsBefore(Here, Reached)
    BY <1>1 DEF RunsSoFar
  <2> QED
    BY <1>5, <1>8, <2>1, <2>2
<1>11. RefusedSoFar' = RefusedSoFar
  <2>1. RefusedSoFar' = RefusedDone'
    BY <1>3 DEF RefusedSoFar
  <2>2. RefusedSoFar = RefusedDone \cup RefusedBefore(Here, Reached)
    BY <1>1 DEF RefusedSoFar
  <2> QED
    BY <1>6, <1>8, <2>1, <2>2
<1>12. RecordedIsTheHosts'
  <2>1. {available'[i] : i \in 1 .. Len(available')}
           = {available[i] : i \in 1 .. Len(available)} \cup (IF in_run THEN {q} ELSE {})
    BY <1>3, <1>9
  <2> QED
    BY <1>3, <1>10, <1>11, <2>1 DEF RecordedIsTheHosts
<1> QED
  BY <1>4, <1>12

\* Every step keeps what was recorded equal to what the host has.
LEMMA HostNext == ArenaInv /\ HostInv /\ [Next]_vars => HostInv'
<1> SUFFICES ASSUME ArenaInv, HostInv, [Next]_vars PROVE HostInv'
  OBVIOUS
<1>1. HostIsKept /\ HostIsKept'
  BY HostKept DEF HostInv
<1> SUFFICES ASSUME Platform' = "windows", changes' = 0
             PROVE  (WholeWindows /\ RunIsMaximal /\ RecordedIsTheHosts)'
  BY <1>1 DEF HostInv
<1>2. UNCHANGED host /\ Platform = "windows"
  <2>1. UNCHANGED host
    BY DEF Next, Walk, EnterArena, Placed, NotPlaced, QueryBase, HeldNoAccess, Refused,
           LeaveArena, Return, LayoutChanges, vars
  <2> QED
    BY <2>1, Unmoved
<1>3. ~LayoutChanges
  BY DEF LayoutChanges, ArenaInv, TypeOK
<1>4. changes = 0
  BY <1>3 DEF Next, Walk, EnterArena, Placed, NotPlaced, QueryBase, HeldNoAccess, Refused,
              LeaveArena, Return, vars
<1>5. WholeWindows /\ RunIsMaximal /\ RecordedIsTheHosts
  BY <1>2, <1>4 DEF HostInv
<1>6. CASE Return \/ UNCHANGED vars
  <2>1. /\ Walking' = Walking /\ UNCHANGED <<host, own, arena, base, run, results>>
        /\ pc' \in {"query", "describe"} => pc = pc'
    BY <1>6 DEF Return, vars, Walking
  <2>2. pc' \in {"query", "describe"} => InTheWay
    BY <1>5, <2>1 DEF WholeWindows
  <2> QED
    BY <1>5, <2>1, <2>2, HostStill
<1>7. CASE EnterArena
  BY <1>5, <1>7, HostEnter
<1>8. CASE Placed
  BY <1>2, <1>5, <1>8, HostPlaced
<1>9. CASE NotPlaced
  BY <1>5, <1>9, HostNotPlaced
<1>10. CASE QueryBase
  BY <1>1, <1>2, <1>5, <1>10, HostQuery
<1>11. CASE HeldNoAccess
  BY <1>1, <1>2, <1>5, <1>11, HostHeld
<1>12. CASE Refused
  BY <1>2, <1>5, <1>12, HostRefused
<1>13. CASE LeaveArena
  BY <1>5, <1>13, HostLeave
<1> QED
  BY <1>3, <1>6, <1>7, <1>8, <1>9, <1>10, <1>11, <1>12, <1>13 DEF Next, Walk

\* With an unchanging layout the Windows walk records the host alone: every arena's
\* maximal runs of windows the host grants, and every window it refuses, wherever
\* the process has its own.
THEOREM WindowsRecordsTheHost == Spec => []FactsAreTheHosts
<1>1. ArenaInv /\ HostInv => FactsAreTheHosts
  <2> SUFFICES ASSUME ArenaInv, HostInv, Platform = "windows", pc = "returned", changes = 0
               PROVE  /\ {available[i] : i \in 1 .. Len(available)}
                            = UNION {MaximalRuns(a) : a \in Arenas}
                      /\ {unavailable[i] : i \in 1 .. Len(unavailable)}
                            = UNION {RefusedWindows(a) : a \in Arenas}
    BY DEF FactsAreTheHosts
  <2>1. arena - 1 = 2 /\ ~Walking
    BY DEF ArenaInv, Position, Walking
  <2>2. Done = Arenas
    BY <2>1 DEF Done, Arenas
  <2>3. RunsSoFar = RunsDone /\ RefusedSoFar = RefusedDone
    BY <2>1 DEF RunsSoFar, RefusedSoFar
  <2> QED
    BY <2>2, <2>3 DEF HostInv, RecordedIsTheHosts, RunsDone, RefusedDone
<1>2. Init => ArenaInv /\ HostInv
  BY InitInv, HostInit
<1>3. (ArenaInv /\ HostInv) /\ [Next]_vars => (ArenaInv /\ HostInv)'
  BY NextInv, HostNext
<1> QED
  BY <1>1, <1>2, <1>3, PTL DEF Spec
=============================================================================
