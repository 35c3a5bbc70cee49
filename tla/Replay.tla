------------------------------ MODULE Replay ------------------------------
(***************************************************************************)
(* rs::runtime::trace::replay: the live memory as a sorted list of         *)
(* segments that each event splits, erases or extends.                     *)
(***************************************************************************)
EXTENDS TraceEvent, Sequences, SequencesExt

CONSTANTS
  Platforms,  \* platforms a header may name
  Events      \* events a trace may hold

ASSUME EventsAssumption ==
  \A e \in Events : e.address \in Nat /\ e.size \in Nat /\ e.protection \in Nat

VARIABLES
  segments,   \* the live memory, sorted by start
  platform,   \* the platform of the header
  status,     \* running, or refused: replay returned no result
  violations  \* the kinds of semantic violations reported

vars == <<segments, platform, status, violations>>

Segment(start, end, protection, committed, base) ==
  [start |-> start, end |-> end, protection |-> protection,
   committed |-> committed, base |-> base]

\* No two segments of a list have the same start, so there is one such order.
sort_segments(s) ==
  LET order == CHOOSE p \in Bijection(DOMAIN s, DOMAIN s) :
                 \A i, j \in DOMAIN s : i < j => s[p[i]].start <= s[p[j]].start
  IN [i \in DOMAIN s |-> s[order[i]]]

overlaps(s, start, end) ==
  \E i \in DOMAIN s : s[i].start < end /\ start < s[i].end

\* What erase_range leaves of one segment.
Remainder(segment, start, end) ==
  IF segment.end <= start \/ segment.start >= end THEN <<segment>>
  ELSE (IF segment.start < start THEN <<[segment EXCEPT !.end = start]>>
                                 ELSE <<>>)
       \o (IF segment.end > end THEN <<[segment EXCEPT !.start = end]>>
                                ELSE <<>>)

erase_range(s, start, end) ==
  sort_segments(FlattenSeq([i \in DOMAIN s |-> Remainder(s[i], start, end)]))

\* Mutant: a hole in front of a segment is not noticed.
covered_IgnoresHoles(s, start, end, requireCommitted) ==
  /\ overlaps(s, start, end)
  /\ requireCommitted =>
       \A i \in DOMAIN s : s[i].start < end /\ start < s[i].end => s[i].committed

\* The walk of covered over the sorted list: the cursor is the end of what is
\* known to be covered, "answer" is set once the loop has returned.
Cover(walk, segment, end, requireCommitted) ==
  IF walk.answer # "none" \/ segment.end <= walk.cursor THEN walk
  ELSE IF \/ segment.start > walk.cursor
          \/ requireCommitted /\ ~segment.committed
         THEN [cursor |-> walk.cursor, answer |-> "no"]
  ELSE IF segment.end >= end
         THEN [cursor |-> end, answer |-> "yes"]
  ELSE [cursor |-> segment.end, answer |-> "none"]

covered(s, start, end, requireCommitted) ==
  LET walk[i \in 0 .. Len(s)] ==
        IF i = 0 THEN [cursor |-> start, answer |-> "none"]
        ELSE Cover(walk[i - 1], s[i], end, requireCommitted)
  IN walk[Len(s)].answer = "yes"

split_at(s, point) ==
  LET inside(i) == s[i].start < point /\ point < s[i].end
  IN IF \E i \in DOMAIN s : inside(i)
       THEN LET i == CHOOSE i \in DOMAIN s :
                       inside(i) /\ \A j \in 1 .. i - 1 : ~inside(j)
            IN InsertAt([s EXCEPT ![i].end = point], i + 1,
                        [s[i] EXCEPT !.start = point])
       ELSE s

set_range(s, start, end, committed, protection) ==
  LET split == split_at(split_at(s, start), end)
  IN [i \in DOMAIN split |->
        IF split[i].start >= start /\ split[i].end <= end
          THEN [split[i] EXCEPT !.committed = committed,
                                !.protection = protection]
          ELSE split[i]]

release_windows(s, address) ==
  FlattenSeq([i \in DOMAIN s |-> IF s[i].base = address THEN <<>> ELSE <<s[i]>>])

End(e) == e.address + e.size

\* The error paths of the switch in replay, by operation.
Replayable(s, e) ==
  CASE e.operation = "mmap" ->
         /\ ValidRange(e)
         /\ "replace" \in e.flags \/ ~overlaps(s, e.address, End(e))
    [] e.operation = "munmap" -> ValidRange(e)
    [] e.operation = "reserve" ->
         ValidRange(e) /\ ~overlaps(s, e.address, End(e))
    [] e.operation = "commit" ->
         ValidRange(e) /\ covered(s, e.address, End(e), FALSE)
    [] e.operation \in {"mprotect", "protect", "decommit", "reset",
                        "reset_undo"} ->
         ValidRange(e) /\ covered(s, e.address, End(e), TRUE)
    [] e.operation = "release" ->
         \E i \in DOMAIN s : s[i].base = e.address
    [] OTHER -> FALSE

\* Mutant: a replacing mmap leaves what it replaced.
Replayed_KeepsReplaced(s, e) ==
  CASE e.operation = "mmap" ->
         sort_segments(Append(s, Segment(e.address, End(e), e.protection, TRUE, 0)))
    [] e.operation = "munmap" -> erase_range(s, e.address, End(e))
    [] OTHER -> s

\* The segments after a successful event.
Replayed(s, e) ==
  CASE e.operation = "mmap" ->
         sort_segments(Append(
           IF "replace" \in e.flags THEN erase_range(s, e.address, End(e)) ELSE s,
           Segment(e.address, End(e), e.protection, TRUE, 0)))
    [] e.operation = "munmap" -> erase_range(s, e.address, End(e))
    [] e.operation = "reserve" ->
         sort_segments(Append(s,
           Segment(e.address, End(e), e.protection, "commit" \in e.flags,
                   e.address)))
    [] e.operation \in {"mprotect", "protect", "commit"} ->
         set_range(s, e.address, End(e), TRUE, e.protection)
    [] e.operation = "decommit" -> set_range(s, e.address, End(e), FALSE, 0)
    [] e.operation = "release" -> release_windows(s, e.address)
    [] OTHER -> s

Init ==
  /\ segments = <<>>
  /\ platform \in Platforms
  /\ status = "running"
  /\ violations = {}

\* One round of the loop over the events.
Step(e) ==
  /\ status = "running"
  /\ IF /\ ValidEvent(e, platform)
        /\ e.violation = ExpectedViolation(e)
        /\ e.success => Replayable(segments, e)
       THEN /\ segments' = IF e.success THEN Replayed(segments, e) ELSE segments
            /\ violations' = violations \cup ({e.violation} \ {"none"})
            /\ UNCHANGED status
       ELSE status' = "refused" /\ UNCHANGED <<segments, violations>>
  /\ UNCHANGED platform

Next == \E e \in Events : Step(e)

Spec == Init /\ [][Next]_vars

-----------------------------------------------------------------------------
(* Properties.                                                             *)

\* The list is sorted, its segments are nonempty and disjoint: what covered
\* relies on when it stops at the first gap, through any order of splits,
\* erasures and insertions.
SegmentsWellFormed ==
  /\ \A i \in DOMAIN segments : segments[i].start < segments[i].end
  /\ \A i, j \in DOMAIN segments : i < j =>
       segments[i].end <= segments[j].start

\* The state of every address, read off the list.
Memory(s) ==
  [a \in 0 .. MaxAddress - 1 |->
     IF \E i \in DOMAIN s : s[i].start <= a /\ a < s[i].end
       THEN LET i == CHOOSE i \in DOMAIN s : s[i].start <= a /\ a < s[i].end
            IN [mapped |-> TRUE, protection |-> s[i].protection,
                committed |-> s[i].committed, base |-> s[i].base]
       ELSE [mapped |-> FALSE, protection |-> 0, committed |-> FALSE,
             base |-> 0]]

Spaces == INSTANCE AddressSpace WITH memory <- Memory(segments)

\* Replay over segments implements the address-by-address specification: it
\* accepts and refuses the same events and means the same memory.
ImplementsAddressSpace == Spaces!Spec
=============================================================================
