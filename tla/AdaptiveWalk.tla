----------------------------- MODULE AdaptiveWalk -----------------------------
(***************************************************************************)
(* walk_arena_adaptive (src/src/probe/arena_walk.cpp) as the Linux probe   *)
(* drives it (scan_one_arena in src/src/probe/vm_probe_linux.cpp): tiles   *)
(* of an arena are attempted with mmap(MAP_FIXED_NOREPLACE), and a tile    *)
(* the kernel did not grant is split down to single pages.  The recursion  *)
(* of `visit` is the stack `pending`; a budget bounds the attempts.        *)
(*                                                                         *)
(* What a kernel answers depends on the host (pages it never hands out,    *)
(* a limit on the size of a request) and on the probing process, whose     *)
(* mappings other threads may create and remove between two attempts.      *)
(* Only the host may show in what is recorded.                             *)
(***************************************************************************)
EXTENDS AddressRange

CONSTANTS
    Bottom, Top,     \* the bounds of the arena
    PageSize,
    MaxWindow,       \* max_window_size: the largest tile attempted
    MaxAttempts,     \* max_attempts: the budget of placements
    MaxChanges       \* bound: how often the process's own mappings change

ASSUME ArenaAssumption ==
    /\ Bottom \in Word /\ Top \in Word /\ MaxAttempts \in Nat /\ MaxChanges \in Nat
    /\ PageSize \in Nat \ {0} /\ MaxWindow \in Nat \ {0}
    /\ Bottom % PageSize = 0 /\ Top % PageSize = 0 /\ MaxWindow % PageSize = 0

VARIABLES
    denied,          \* addresses the host grants to no process
    sizeLimit,       \* requests above this size fail (RLIMIT_AS); a page is granted
    own,             \* addresses this process has mapped
    base,            \* where the outer loop stands
    pending,         \* tiles `visit` has still to attempt, the next one first
    attempts,
    budget_exhausted,
    available,       \* the recorded ranges
    unavailable,
    returned,        \* the walk is over
    changes          \* changes of `own` so far (history, bounded)

host == <<denied, sizeLimit>>
results == <<available, unavailable>>
vars == <<host, own, base, pending, attempts, budget_exhausted, results,
          returned, changes>>

\* The page that starts at a page-aligned address.
PageAt(p) == {a \in Word : p <= a /\ a < p + PageSize}

Pages == {p \in Word : Bottom <= p /\ p < Top /\ p % PageSize = 0}

\* Sets of whole pages of the arena.
PageSets == {UNION {PageAt(p) : p \in s} : s \in SUBSET Pages}

TileAddresses(t) == {a \in Word : t.base <= a /\ a < t.base + t.size}

(***************************************************************************)
(* The kernel.  A request that overlaps a mapping answers EEXIST, one that *)
(* is too large or needs a page the host denies answers another error; if  *)
(* both apply, which check the kernel makes first is its own business.     *)
(***************************************************************************)
Placements(t) ==
    LET held    == TileAddresses(t) \cap own # {}
        refused == TileAddresses(t) \cap denied # {} \/ t.size > sizeLimit
    IN  (IF held THEN {"HeldByProbe"} ELSE {}) \cup
        (IF refused THEN {"Refused"} ELSE {}) \cup
        (IF held \/ refused THEN {} ELSE {"Placed"})

Init ==
    /\ denied \in PageSets
    /\ sizeLimit \in PageSize .. MaxWindow
    /\ own \in {s \in PageSets : s \cap denied = {}}
    /\ base = Bottom
    /\ pending = <<>>
    /\ attempts = 0
    /\ budget_exhausted = (Bottom < Top /\ MaxAttempts = 0)
    /\ available = <<>>
    /\ unavailable = <<>>
    /\ returned = FALSE
    /\ changes = 0

\* append: a range that touches the last one with the same note extends it.
append(ranges, start, end) ==
    IF start >= end THEN ranges
    ELSE IF ranges # <<>> /\ ranges[Len(ranges)].end = start
         THEN [ranges EXCEPT ![Len(ranges)].end = end]
         ELSE Append(ranges, [start |-> start, end |-> end])

\* The outer loop hands visit the next tile; the last one is cut at the top.
NextTile ==
    /\ ~returned
    /\ pending = <<>> /\ base < Top /\ ~budget_exhausted
    /\ LET size == IF Top - base < MaxWindow THEN Top - base ELSE MaxWindow
       IN  /\ pending' = <<[base |-> base, size |-> size]>>
           /\ base' = base + size
    /\ UNCHANGED <<host, own, attempts, budget_exhausted, results, returned, changes>>

\* visit gives up before the attempt; every caller up the recursion returns.
OutOfBudget ==
    /\ pending # <<>> /\ attempts >= MaxAttempts
    /\ budget_exhausted' = TRUE
    /\ pending' = <<>>
    /\ UNCHANGED <<host, own, base, attempts, results, returned, changes>>

\* The right half starts one page late when the tile is odd.
Halves_LosesPage(t) ==
    LET left == ((t.size \div PageSize) \div 2) * PageSize
    IN  <<[base |-> t.base, size |-> left],
          [base |-> t.base + t.size - left, size |-> left]>>

Halves(t) ==
    LET left == ((t.size \div PageSize) \div 2) * PageSize
    IN  <<[base |-> t.base, size |-> left],
          [base |-> t.base + left, size |-> t.size - left]>>

\* A held or refused tile is not split.
VisitAs_Generalizes(t, placement) ==
    \/ /\ placement # "Refused"
       /\ available' = append(available, t.base, t.base + t.size)
       /\ pending' = Tail(pending)
       /\ UNCHANGED unavailable
    \/ /\ placement = "Refused"
       /\ unavailable' = append(unavailable, t.base, t.base + t.size)
       /\ pending' = Tail(pending)
       /\ UNCHANGED available

\* The attempt at the next tile was answered: the tile is recorded or split.
VisitAs(t, placement) ==
    \/ /\ placement = "Placed"
       /\ available' = append(available, t.base, t.base + t.size)
       /\ pending' = Tail(pending)
       /\ UNCHANGED unavailable
    \/ /\ placement # "Placed" /\ t.size > PageSize
       /\ pending' = Halves(t) \o Tail(pending)
       /\ UNCHANGED results
    \/ /\ placement = "HeldByProbe" /\ t.size <= PageSize
       /\ available' = append(available, t.base, t.base + PageSize)
       /\ pending' = Tail(pending)
       /\ UNCHANGED unavailable
    \* describe, as the Linux probe gives it, never names a covering entry.
    \/ /\ placement = "Refused" /\ t.size <= PageSize
       /\ unavailable' = append(unavailable, t.base, t.base + PageSize)
       /\ pending' = Tail(pending)
       /\ UNCHANGED available

Visit ==
    /\ pending # <<>> /\ attempts < MaxAttempts
    /\ attempts' = attempts + 1
    /\ \E placement \in Placements(Head(pending)) : VisitAs(Head(pending), placement)
    /\ UNCHANGED <<host, own, base, budget_exhausted, returned, changes>>

\* The ranges measured before the budget ran out are kept.
Return_KeepsPrefix ==
    /\ ~returned
    /\ pending = <<>> /\ (base >= Top \/ budget_exhausted)
    /\ returned' = TRUE
    /\ UNCHANGED <<host, own, base, pending, attempts, budget_exhausted, results, changes>>

\* The walk returns; without a complete answer it returns none.
Return ==
    /\ ~returned
    /\ pending = <<>> /\ (base >= Top \/ budget_exhausted)
    /\ returned' = TRUE
    /\ available' = IF budget_exhausted THEN <<>> ELSE available
    /\ unavailable' = IF budget_exhausted THEN <<>> ELSE unavailable
    /\ UNCHANGED <<host, own, base, pending, attempts, budget_exhausted, changes>>

\* Another thread of the probing process maps or unmaps a page.
LayoutChanges ==
    /\ ~returned /\ changes < MaxChanges
    /\ changes' = changes + 1
    /\ \E p \in Pages :
          /\ PageAt(p) \cap denied = {}
          /\ own' = IF p \in own THEN own \ PageAt(p) ELSE own \cup PageAt(p)
    /\ UNCHANGED <<host, base, pending, attempts, budget_exhausted, results, returned>>

Next == NextTile \/ OutOfBudget \/ Visit \/ Return \/ LayoutChanges

Spec == Init /\ [][Next]_vars

------------------------------------------------------------------------------
(* Properties                                                               *)

\* What is recorded as available the host grants, and what is recorded as
\* unavailable it denies, at every moment of the walk: neither a large
\* request's failure nor a mapping of the probe's own becomes a host fact.
RecordsOnlyHostFacts ==
    /\ Covered(available) \cap denied = {}
    /\ Covered(unavailable) \subseteq denied

\* A walk that returns facts returns the same ones for every layout of the
\* probing process: each address of the arena is classified as the host treats
\* it, in maximal ranges in ascending order.  profile_id hashes exactly these.
Maximal(ranges, set) ==
    /\ Covered(ranges) = set
    /\ \A i \in 1 .. Len(ranges) : ~empty(ranges[i])
    /\ \A i \in 1 .. Len(ranges) - 1 : ranges[i].end < ranges[i + 1].start

LayoutLeavesNoTrace ==
    returned /\ ~budget_exhausted =>
        /\ Maximal(available, {a \in Word : Bottom <= a /\ a < Top} \ denied)
        /\ Maximal(unavailable, denied)

\* A walk that ran out of attempts returns no fact at all, and only a walk
\* that used every attempt may give up.
ExhaustedSaysNothing ==
    budget_exhausted =>
        /\ attempts = MaxAttempts
        /\ returned => available = <<>> /\ unavailable = <<>>

------------------------------------------------------------------------------
(* The inductive strengthening of the properties above.                     *)

\* The type of every variable.
TypeOK ==
    /\ denied \subseteq Word /\ own \subseteq Word
    /\ sizeLimit \in PageSize .. MaxWindow
    /\ base \in Nat
    /\ pending \in Seq([base : Nat, size : Nat])
    /\ attempts \in 0 .. MaxAttempts /\ changes \in 0 .. MaxChanges
    /\ budget_exhausted \in BOOLEAN /\ returned \in BOOLEAN
    /\ available \in Seq([start : Nat, end : Nat])
    /\ unavailable \in Seq([start : Nat, end : Nat])

Aligned(n) == n % PageSize = 0

Arena == {a \in Word : Bottom <= a /\ a < Top}

\* The host and the process treat a page as a whole, and what the host denies
\* nobody has mapped.
WholePages(set) ==
    \A p \in Pages : PageAt(p) \subseteq set \/ PageAt(p) \cap set = {}

HostInv ==
    /\ WholePages(denied) /\ WholePages(own)
    /\ denied \subseteq Arena /\ own \cap denied = {}

\* The tiles to visit follow each other up to where the outer loop stands.
TilesInv ==
    /\ Aligned(base) /\ Bottom <= base
    /\ base <= Top \/ (base = Bottom /\ pending = <<>>)
    /\ \A i \in 1 .. Len(pending) :
          /\ Aligned(pending[i].base) /\ Aligned(pending[i].size)
          /\ Bottom <= pending[i].base /\ pending[i].size > 0
          /\ pending[i].base + pending[i].size <= base
          /\ pending[i].base + pending[i].size =
                IF i = Len(pending) THEN base ELSE pending[i + 1].base

\* Everything below it has been answered for.
Cursor == IF pending = <<>> THEN base ELSE Head(pending).base
Answered == {a \in Word : Bottom <= a /\ a < Cursor}

\* Recorded ranges are ascending, with a gap between two, and end by the cursor.
Ascending(ranges, end) ==
    /\ \A i \in 1 .. Len(ranges) :
          /\ ranges[i].start < ranges[i].end
          /\ i < Len(ranges) => ranges[i].end < ranges[i + 1].start
    /\ ranges # <<>> => ranges[Len(ranges)].end <= end

ResultsInv ==
    /\ Ascending(available, Cursor) /\ Ascending(unavailable, Cursor)
    /\ RecordsOnlyHostFacts
    /\ ~budget_exhausted => /\ Covered(available) = Answered \ denied
                            /\ Covered(unavailable) = Answered \cap denied

BudgetInv ==
    /\ ExhaustedSaysNothing
    /\ budget_exhausted => pending = <<>>
    /\ returned => pending = <<>> /\ (base >= Top \/ budget_exhausted)

\* The inductive invariant.
WalkInv == TypeOK /\ HostInv /\ TilesInv /\ ResultsInv /\ BudgetInv
=============================================================================
