------------------------------ MODULE ArenaWalk ------------------------------
(***************************************************************************)
(* The contiguous walk of allocation arenas: walk_arena and the bounds of  *)
(* its arenas (src/src/probe/arena_walk.cpp), with the hooks the Windows   *)
(* probe gives it (VirtualAlloc, then src/src/probe/windows_regions.cpp)   *)
(* and those of the macOS probe (mach_vm_allocate, then mach_vm_region).   *)
(*                                                                         *)
(* The kernel's answer mixes the host's rules with the probing process's   *)
(* own layout; the process may change that layout between two of the       *)
(* walk's system calls.  The profile must not show it.                     *)
(***************************************************************************)
EXTENDS AddressRange, FiniteSets

CONSTANTS
    Probes,          \* the probes there are: a platform and the bounds it uses
    Granularity,     \* what a base address must be aligned to
    MaxChanges       \* bound: how often the process's own layout changes

Bounds == {"span", "low_bottom", "low_top", "low_window", "high_window", "band"}

\* Every bound is a constant of the code, and a window goes evenly into the arena
\* it walks but for the high one of Windows, whose top is measured.
ASSUME WalkAssumption ==
    /\ Granularity \in Nat \ {0} /\ MaxChanges \in Nat
    /\ \A p \in Probes :
          /\ p.platform \in {"windows", "macos"}
          /\ p.max_addresses \subseteq Word
          /\ p.low_window > 0 /\ p.high_window > 0
          /\ \A n \in p.max_addresses \cup {p[b] : b \in Bounds} :
                n \in Word /\ n % Granularity = 0
          /\ p.low_bottom % p.low_window = 0
          /\ p.platform = "windows" => p.span % p.low_window = 0 /\ 2 * p.span \in Word
          /\ p.platform = "macos" => p.low_top % p.low_window = 0 /\ p.span % p.high_window = 0

\* A host denies addresses by whole windows: bands are made of blocks that windows go
\* evenly into.  The walk itself takes no smaller notice of anything.
ASSUME BandAssumption ==
    \A p \in Probes : p.platform = "windows" =>
        p.band > 0 /\ p.band % p.low_window = 0 /\ p.band % p.high_window = 0

VARIABLES
    probe,           \* the probe that runs
    max_address,     \* max_user_address of this host; nothing lies above it
    denied,          \* addresses the host grants to no process
    own,             \* what this process has at each granule
    arena,           \* the arena being walked, counted from 1
    pc,              \* "enter", "place", "query", "describe" or "returned"
    base,            \* the window the loop is at
    in_run, run_start, last_window_end,
    available, unavailable,
    seen,            \* history: addresses some answer spoke about
    changes          \* history: changes of the layout so far

host == <<probe, max_address, denied>>
run == <<in_run, run_start, last_window_end>>
results == <<available, unavailable>>
history == <<seen>>
vars == <<host, own, arena, pc, base, run, results, history, changes>>

Platform == probe.platform
Span == probe.span                \* kArenaSpan, or kHighArenaSpan on macOS
LowBottom == probe.low_bottom     \* kLowArenaBottom, or kMachOTextBase
LowTop == probe.low_top           \* kArenaTop, on macOS only
LowWindow == probe.low_window
HighWindow == probe.high_window
BandSize == probe.band            \* host bands are made of blocks of this size

------------------------------------------------------------------------------
(* Where the arenas lie                                                     *)

\* The base of the span-sized bucket max falls in; 2 * span wraps like a word.
arena_floor_for(max, span) ==
    IF span = 0 \/ max < Plus(span, span)
        THEN 0
        ELSE ((max - 1) \div span) * span

high_arena_floor(max, span, must_stay_above) ==
    IF max = 0 \/ span = 0 \/ max <= span \/ max - span <= must_stay_above
        THEN 0
        ELSE max - span

\* The arenas in the order the probe walks them.
Planned(max) ==
    IF Platform = "windows"
    THEN LET floor == arena_floor_for(max, Span)
         IN  << [bottom |-> floor, top |-> max, window |-> HighWindow],
                [bottom |-> LowBottom, top |-> floor, window |-> LowWindow] >>
    ELSE << [bottom |-> LowBottom, top |-> LowTop, window |-> LowWindow],
            [bottom |-> high_arena_floor(max, Span, LowTop), top |-> max,
             window |-> HighWindow] >>

\* scan_one_arena (and walk_arena) leave at once when there is no room.
HasRoom(a) == a.bottom # 0 /\ a.bottom < a.top /\ a.top - a.bottom >= a.window

Here == Planned(max_address)[arena]

\* The arenas that have room.
Arenas == {a \in {Planned(max_address)[i] : i \in 1 .. 2} : HasRoom(a)}

\* The windows walk_arena tries in one of them when nothing is skipped.
Bases(a) == {b \in Word : /\ a.bottom <= b /\ (b - a.bottom) % a.window = 0
                          /\ b + a.window <= a.top}

Block(b, size) == {a \in Word : b <= a /\ a < b + size}

------------------------------------------------------------------------------
(* The host and the process                                                 *)

\* What the process has below the low arena no window ever meets.
Granules(max) == {g \in Word : LowBottom <= g /\ g < max /\ g % Granularity = 0}

Kinds == IF Platform = "windows" THEN {"free", "mapped"}
                                 ELSE {"free", "mapped", "guard"}

OwnAt(a) == own[a - (a % Granularity)]

Occupied(a) == LowBottom <= a /\ a < max_address /\ OwnAt(a) # "free"

\* Where the map entries that touch and start at an occupied address end.
EndOfRun(a) ==
    CHOOSE e \in Granules(max_address) \cup {max_address} :
        /\ a < e
        /\ \A g \in Granules(max_address) : a <= g /\ g < e => OwnAt(g) # "free"
        /\ ~Occupied(e)

\* The same for one map entry of macOS, which has one protection.
EndOfEntry(a) ==
    CHOOSE e \in Granules(max_address) \cup {max_address} :
        /\ a < e
        /\ \A g \in Granules(max_address) : a <= g /\ g < e => OwnAt(g) = OwnAt(a)
        /\ e = max_address \/ OwnAt(e) # OwnAt(a)

\* Bands of the host lie inside the planned arenas, in blocks of BandSize.
Bands(max) ==
    LET blocks == {Block(b, BandSize) :
                      b \in {x \in Word : \E i \in 1 .. 2 :
                                LET a == Planned(max)[i]
                                IN  /\ HasRoom(a) /\ a.bottom <= x
                                    /\ x + BandSize <= a.top
                                    /\ (x - a.bottom) % BandSize = 0}}
    IN  {UNION s : s \in SUBSET blocks}

Init ==
    /\ probe \in Probes
    /\ max_address \in probe.max_addresses
    /\ denied \in Bands(max_address)
    /\ own \in {f \in [Granules(max_address) -> Kinds] :
                  \A g \in DOMAIN f : g \in denied => f[g] = "free"}
    /\ arena = 1
    /\ pc = "enter"
    /\ base = 0
    /\ in_run = FALSE /\ run_start = 0 /\ last_window_end = 0
    /\ available = <<>> /\ unavailable = <<>>
    /\ seen = {}
    /\ changes = 0

------------------------------------------------------------------------------
(* The walk                                                                 *)

close_run(end) ==
    LET stop == IF end > Here.top THEN Here.top ELSE end
    IN  IF in_run /\ stop > run_start
        THEN Append(available, [start |-> run_start, end |-> stop])
        ELSE available

\* The window counts as usable and the run reaches up to end.
ExtendRun(end) ==
    /\ in_run' = TRUE
    /\ run_start' = IF in_run THEN run_start ELSE base
    /\ last_window_end' = end

EnterArena ==
    /\ pc = "enter" /\ arena <= 2
    /\ IF HasRoom(Here)
       THEN pc' = "place" /\ base' = Here.bottom /\ arena' = arena
       ELSE pc' = "enter" /\ base' = base /\ arena' = arena + 1
    /\ in_run' = FALSE /\ run_start' = 0 /\ last_window_end' = 0
    /\ UNCHANGED <<host, own, results, history, changes>>

\* The loop condition, and the break on a window that wraps.
MoreWindows ==
    /\ Plus(base, Here.window) <= Here.top
    /\ from_base_size(base, Here.window) # {}

Window == Block(base, Here.window)

InTheWay == Window \cap denied # {} \/ \E a \in Window : Occupied(a)

\* The kernel grants the window, and the probe releases it again.
Placed ==
    /\ pc = "place" /\ MoreWindows /\ ~InTheWay
    /\ ExtendRun(base + Here.window)
    /\ base' = base + Here.window
    /\ seen' = seen \cup Window
    /\ UNCHANGED <<host, own, arena, pc, results, changes>>

\* It does not; macOS may say that the range is not available rather than full.
NotPlaced ==
    /\ pc = "place" /\ MoreWindows /\ InTheWay
    /\ \/ pc' = "query"
       \/ Platform = "macos" /\ Window \cap denied # {} /\ pc' = "describe"
    /\ UNCHANGED <<host, own, arena, base, run, results, history, changes>>

\* What is at the base of the window?  Ours: the window counts as granted.
QueryBase ==
    /\ pc = "query"
    /\ IF Occupied(base) /\ OwnAt(base) = "mapped"
       THEN /\ ExtendRun(base + Here.window)
            /\ base' = base + Here.window
            /\ seen' = seen \cup Window
            /\ pc' = "place"
       ELSE /\ pc' = "describe"
            /\ UNCHANGED <<base, run, seen>>
    /\ UNCHANGED <<host, own, arena, results, changes>>

\* The extent reported is a union across free gaps.
classify_window_Union ==
    IF \E a \in Window : Occupied(a)
    THEN [covers |-> TRUE,
          held_end |-> CHOOSE e \in Granules(max_address) \cup {max_address} :
                          /\ Occupied(e - 1)
                          /\ \A a \in Word : a >= e => ~Occupied(a)]
    ELSE [covers |-> FALSE, held_end |-> 0]

\* Only the base of the window is asked about.
classify_window_BaseOnly ==
    IF Occupied(base) THEN [covers |-> TRUE, held_end |-> EndOfRun(base)]
                      ELSE [covers |-> FALSE, held_end |-> 0]

\* classify_window: the first occupied region of the window, and where the run
\* of occupied regions it starts ends; nothing if the whole window is free.
classify_window ==
    IF \E a \in Window : Occupied(a)
    THEN LET first == CHOOSE a \in Window :
                        Occupied(a) /\ \A b \in Window : Occupied(b) => a <= b
         IN  [covers |-> TRUE, held_end |-> EndOfRun(first)]
    ELSE [covers |-> FALSE, held_end |-> 0]

\* A refusal with no entry that denies access is filed as the host's.
DescribeRegion_EntriesOnly ==
    [covers |-> Occupied(base) /\ OwnAt(base) = "guard",
     held_end |-> IF Occupied(base) THEN EndOfEntry(base) ELSE 0]

\* The describe hook of the macOS probe: the entry at or above the base, and
\* every refusal inside the arena counts as covered.
DescribeRegion ==
    LET above == {g \in Granules(max_address) : g >= base /\ OwnAt(g) # "free"}
    IN  [covers |-> TRUE,
         held_end |-> IF above = {} THEN 0
                      ELSE EndOfEntry(CHOOSE g \in above : \A h \in above : g <= h)]

describe == IF Platform = "windows" THEN classify_window ELSE DescribeRegion

\* Whole windows left inside the entry, which the walk does not probe.
Jump(held_end) ==
    IF held_end > base + Here.window
        THEN (held_end - (base + Here.window)) \div Here.window
        ELSE 0

\* The walk resumes at the window whose entry it has just described.
HeldNoAccess_Resumes ==
    /\ pc = "describe" /\ describe.covers
    /\ ExtendRun(base + Here.window)
    /\ base' = base + Jump(describe.held_end) * Here.window
    /\ seen' = seen \cup Window
    /\ pc' = "place"
    /\ UNCHANGED <<host, own, arena, results, changes>>

HeldNoAccess ==
    /\ pc = "describe" /\ describe.covers
    /\ LET reached == base + (Jump(describe.held_end) + 1) * Here.window
       IN  /\ ExtendRun(IF reached < Here.top THEN reached ELSE Here.top)
           /\ base' = reached
    /\ seen' = seen \cup Window
                    \cup {a \in Word : Occupied(a) /\ base <= a /\ a < describe.held_end}
    /\ pc' = "place"
    /\ UNCHANGED <<host, own, arena, results, changes>>

\* The run is closed past the window that was refused.
Refused_ClosesAfter ==
    /\ pc = "describe" /\ ~describe.covers
    /\ available' = close_run(base + Here.window)
    /\ unavailable' = Append(unavailable,
                             [start |-> base, end |-> base + Here.window])
    /\ in_run' = FALSE
    /\ base' = base + Here.window
    /\ pc' = "place"
    /\ UNCHANGED <<host, own, arena, run_start, last_window_end,
                   seen, changes>>

Refused ==
    /\ pc = "describe" /\ ~describe.covers
    /\ available' = close_run(last_window_end)
    /\ unavailable' = Append(unavailable,
                             [start |-> base, end |-> base + Here.window])
    /\ in_run' = FALSE
    /\ base' = base + Here.window
    /\ pc' = "place"
    /\ UNCHANGED <<host, own, arena, run_start, last_window_end,
                   seen, changes>>

\* The loop is over; the caller goes on to the next arena.
LeaveArena ==
    /\ pc = "place" /\ ~MoreWindows
    /\ available' = close_run(last_window_end)
    /\ in_run' = FALSE
    /\ arena' = arena + 1
    /\ pc' = "enter"
    /\ UNCHANGED <<host, own, base, run_start, last_window_end, unavailable,
                   history, changes>>

Return ==
    /\ pc = "enter" /\ arena = 3
    /\ pc' = "returned"
    /\ UNCHANGED <<host, own, arena, base, run, results, history, changes>>

Walk == EnterArena \/ Placed \/ NotPlaced \/ QueryBase \/ HeldNoAccess
          \/ Refused \/ LeaveArena \/ Return

\* Another thread of the process, or the walk's own notes, map or unmap a granule.
LayoutChanges ==
    /\ pc # "returned" /\ changes < MaxChanges
    /\ changes' = changes + 1
    /\ \E g \in Granules(max_address) \ denied, k \in Kinds :
          /\ k # own[g]
          /\ own' = [own EXCEPT ![g] = k]
    /\ UNCHANGED <<host, arena, pc, base, run, results, history>>

Next == Walk \/ LayoutChanges

\* The walk is a loop of one thread, which the system schedules.
Spec == Init /\ [][Next]_vars /\ WF_vars(Walk)

------------------------------------------------------------------------------
(* Properties                                                               *)

\* The addresses the walk has claimed as available, the open run included.
Claimed == Covered(available) \cup
           (IF in_run THEN {a \in Word : run_start <= a /\ a < last_window_end} ELSE {})

\* No address is ever recorded as available and as unavailable, in whatever
\* order grants, skips and refusals come and whatever the process maps
\* meanwhile; no range leaves the arenas the bounds promised; and the two arenas
\* never record one address twice, high_arena_floor and arena_floor_for keeping
\* them apart for every ceiling.
NeverBoth ==
    /\ Claimed \cap Covered(unavailable) = {}
    /\ Claimed \cup Covered(unavailable) \subseteq
           UNION {Block(a.bottom, a.top - a.bottom) : a \in Arenas}
    /\ \A i, j \in 1 .. Len(available) :
          i # j => ~intersects(available[i], available[j])

\* Every address the Windows walk claims as available was in a window the kernel
\* answered for or in a region of this process it described: a skip over the
\* extent classify_window reports asserts no free space.
NothingAssertedUnseen == Platform = "windows" => Claimed \subseteq seen

\* What the Windows walk records depends on the host alone: with an unchanging
\* layout, each window is classified as the host treats it and the usable
\* ones are merged into maximal ranges, wherever this process sits.
Usable(a, b) == Block(b, a.window) \cap denied = {}

MaximalRuns(a) ==
    {r \in [start : Bases(a), end : {b + a.window : b \in Bases(a)}] :
        /\ r.start < r.end
        /\ \A b \in Bases(a) : r.start <= b /\ b < r.end => Usable(a, b)
        /\ \A b \in Bases(a) : (b + a.window = r.start \/ b = r.end) => ~Usable(a, b)}

RefusedWindows(a) ==
    {[start |-> b, end |-> b + a.window] : b \in {c \in Bases(a) : ~Usable(a, c)}}

FactsAreTheHosts ==
    Platform = "windows" /\ pc = "returned" /\ changes = 0 =>
        /\ {available[i] : i \in 1 .. Len(available)}
              = UNION {MaximalRuns(a) : a \in Arenas}
        /\ {unavailable[i] : i \in 1 .. Len(unavailable)}
              = UNION {RefusedWindows(a) : a \in Arenas}

\* What the macOS walk records is the same in every process, even if the layout
\* moves during the walk: each arena with room is one available range.
SameInEveryProcess ==
    Platform = "macos" /\ pc = "returned" =>
        /\ unavailable = <<>>
        /\ {available[i] : i \in 1 .. Len(available)} =
              {[start |-> a.bottom, end |-> a.top] : a \in Arenas}

\* The walk returns although the layout moves under it.
WalkReturns == <>(pc = "returned")

------------------------------------------------------------------------------
(* The inductive strengthening of the safety properties.                    *)

Walking == pc \in {"place", "query", "describe"}

TypeOK ==
    /\ probe \in Probes /\ max_address \in probe.max_addresses
    /\ denied \subseteq Word
    /\ own \in [Granules(max_address) -> Kinds]
    /\ arena \in 1 .. 3 /\ pc \in {"enter", "place", "query", "describe", "returned"}
    /\ base \in Nat
    /\ in_run \in BOOLEAN /\ run_start \in Nat /\ last_window_end \in Nat
    /\ available \in Seq(Range) /\ unavailable \in Seq(Range)
    /\ seen \subseteq Word /\ changes \in Nat

\* The loop is at a window of an arena that has room, and a window that was
\* refused lies inside it.
Position ==
    /\ Walking => /\ arena \in 1 .. 2 /\ HasRoom(Here)
                  /\ Here.bottom <= base /\ (base - Here.bottom) % Here.window = 0
    /\ pc \in {"query", "describe"} => base + Here.window <= Here.top
    /\ ~Walking => ~in_run
    /\ pc = "returned" => arena = 3

\* The open run reaches up to the window the loop is at, or to the end of the arena.
OpenRun ==
    in_run => /\ Here.bottom <= run_start /\ run_start < last_window_end
              /\ last_window_end = IF base < Here.top THEN base ELSE Here.top

\* Where what the walk has recorded of this arena ends; below it nothing outside one.
Frontier == IF in_run THEN run_start ELSE base
Limit == IF Walking THEN Frontier ELSE 0

\* r lies in arena k, which is done, or in the one the walk is in, below where it has
\* come to.
Behind(k, r, here, limit) ==
    LET a == Planned(max_address)[k]
    IN  /\ HasRoom(a) /\ a.bottom <= r.start /\ r.start < r.end /\ r.end <= a.top
        /\ k < here \/ (k = here /\ r.end <= limit)

Disjoint(r, q) == r.end <= q.start \/ q.end <= r.start

InOrder(av, un, here, limit) ==
    /\ \A i \in DOMAIN av : \E k \in 1 .. 2 : Behind(k, av[i], here, limit)
    /\ \A j \in DOMAIN un : \E k \in 1 .. 2 : Behind(k, un[j], here, limit)
    /\ \A i, j \in DOMAIN av : i # j => Disjoint(av[i], av[j])
    /\ \A i \in DOMAIN av, j \in DOMAIN un : Disjoint(av[i], un[j])

RecordsInOrder == InOrder(available, unavailable, arena, Limit)

\* On macOS nothing is refused, so that each arena is one run from its bottom.
Whole(k) == [start |-> Planned(max_address)[k].bottom, end |-> Planned(max_address)[k].top]

WholeArenas ==
    Platform = "macos" =>
        /\ unavailable = <<>>
        /\ Walking => Frontier = Here.bottom
        /\ {available[i] : i \in 1 .. Len(available)} =
              {Whole(k) : k \in {j \in 1 .. arena - 1 : HasRoom(Planned(max_address)[j])}}

ArenaInv ==
    TypeOK /\ Position /\ OpenRun /\ RecordsInOrder /\ NothingAssertedUnseen /\ WholeArenas

------------------------------------------------------------------------------
(* The strengthening of FactsAreTheHosts: what the Windows walk records while *)
(* the process's layout stays as it is.                                       *)

\* Where the windows classified so far end.
Reached == IF base < Here.top THEN base ELSE Here.top

HostIsKept ==
    /\ denied \in Bands(max_address)
    /\ \A g \in Granules(max_address) : g \in denied => own[g] = "free"

\* Windows are classified in whole; a window asked about is still in the way.
WholeWindows ==
    /\ Walking => (Reached - Here.bottom) % Here.window = 0
    /\ Walking /\ arena = 1 => base <= Here.top
    /\ pc \in {"query", "describe"} => InTheWay

\* The open run is usable throughout and could not have begun earlier; where no run
\* is open, the last window was refused.
RunIsMaximal ==
    /\ in_run => /\ run_start \in Bases(Here)
                 /\ \A b \in Bases(Here) :
                       /\ run_start <= b /\ b < Reached => Usable(Here, b)
                       /\ b + Here.window = run_start => ~Usable(Here, b)
    /\ Walking /\ ~in_run =>
          \A b \in Bases(Here) : b + Here.window = Reached => ~Usable(Here, b)

RunsBefore(a, e) == {r \in MaximalRuns(a) : r.end < e}

RefusedBefore(a, e) == {r \in RefusedWindows(a) : r.start < e}

\* The arenas walked are recorded in full, this one up to where the walk has come.
Done == {Planned(max_address)[k] :
            k \in {j \in 1 .. arena - 1 : HasRoom(Planned(max_address)[j])}}

RunsDone == UNION {MaximalRuns(a) : a \in Done}
RefusedDone == UNION {RefusedWindows(a) : a \in Done}

RunsSoFar == RunsDone \cup (IF Walking THEN RunsBefore(Here, Reached) ELSE {})
RefusedSoFar == RefusedDone \cup (IF Walking THEN RefusedBefore(Here, Reached) ELSE {})

RecordedIsTheHosts ==
    /\ {available[i] : i \in 1 .. Len(available)} = RunsSoFar
    /\ {unavailable[i] : i \in 1 .. Len(unavailable)} = RefusedSoFar

HostInv ==
    /\ HostIsKept
    /\ Platform = "windows" /\ changes = 0 =>
          WholeWindows /\ RunIsMaximal /\ RecordedIsTheHosts
=============================================================================
