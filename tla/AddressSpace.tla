--------------------------- MODULE AddressSpace ---------------------------
(***************************************************************************)
(* What replay of a trace promises: the state of every address of the      *)
(* monitored process after the events so far, or refusal of an event that  *)
(* no such state admits.                                                   *)
(***************************************************************************)
EXTENDS TraceEvent

CONSTANTS Platforms, Events

Addresses == 0 .. MaxAddress - 1

Free == [mapped |-> FALSE, protection |-> 0, committed |-> FALSE, base |-> 0]
Mapped(protection, committed, base) ==
  [mapped |-> TRUE, protection |-> protection, committed |-> committed,
   base |-> base]

VARIABLES memory, platform, status, violations

Init ==
  /\ memory = [a \in Addresses |-> Free]
  /\ platform \in Platforms
  /\ status = "running"
  /\ violations = {}

AllFree(m, R) == \A a \in R : ~m[a].mapped
AllMapped(m, R) == \A a \in R : m[a].mapped
AllCommitted(m, R) == \A a \in R : m[a].mapped /\ m[a].committed

\* The states in which a successful event can have happened.
Admits(m, e) ==
  CASE e.operation = "mmap" ->
         ValidRange(e) /\ ("replace" \in e.flags \/ AllFree(m, RangeOf(e)))
    [] e.operation = "munmap" -> ValidRange(e)
    [] e.operation = "reserve" -> ValidRange(e) /\ AllFree(m, RangeOf(e))
    [] e.operation = "commit" -> ValidRange(e) /\ AllMapped(m, RangeOf(e))
    [] e.operation \in {"mprotect", "protect", "decommit", "reset",
                        "reset_undo"} ->
         ValidRange(e) /\ AllCommitted(m, RangeOf(e))
    [] e.operation = "release" ->
         \E a \in Addresses : m[a].mapped /\ m[a].base = e.address
    [] OTHER -> FALSE

Assign(m, R, value) == [a \in Addresses |-> IF a \in R THEN value ELSE m[a]]
Recommit(m, R, committed, protection) ==
  [a \in Addresses |-> IF a \in R
                         THEN Mapped(protection, committed, m[a].base)
                         ELSE m[a]]

\* What it did.
Effect(m, e) ==
  CASE e.operation = "mmap" ->
         Assign(m, RangeOf(e), Mapped(e.protection, TRUE, 0))
    [] e.operation = "munmap" -> Assign(m, RangeOf(e), Free)
    [] e.operation = "reserve" ->
         Assign(m, RangeOf(e),
                Mapped(e.protection, "commit" \in e.flags, e.address))
    [] e.operation \in {"commit", "mprotect", "protect"} ->
         Recommit(m, RangeOf(e), TRUE, e.protection)
    [] e.operation = "decommit" -> Recommit(m, RangeOf(e), FALSE, 0)
    [] e.operation = "release" ->
         [a \in Addresses |-> IF m[a].mapped /\ m[a].base = e.address
                                THEN Free ELSE m[a]]
    [] OTHER -> m

Credible(e) == ValidEvent(e, platform) /\ e.violation = ExpectedViolation(e)

Accept(e) ==
  /\ status = "running" /\ Credible(e)
  /\ e.success => Admits(memory, e)
  /\ memory' = IF e.success THEN Effect(memory, e) ELSE memory
  /\ violations' = violations \cup ({e.violation} \ {"none"})
  /\ UNCHANGED <<platform, status>>

Refuse(e) ==
  /\ status = "running"
  /\ ~Credible(e) \/ (e.success /\ ~Admits(memory, e))
  /\ status' = "refused"
  /\ UNCHANGED <<memory, platform, violations>>

Next == \E e \in Events : Accept(e) \/ Refuse(e)

Spec == Init /\ [][Next]_<<memory, platform, status, violations>>
=============================================================================
