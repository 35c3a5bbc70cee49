----------------------------- MODULE MCReplay -----------------------------
(* Instances of Replay for TLC.                                            *)
EXTENDS Replay, TLC

\* A well-formed successful event of an operation over a range.
Base(operation, address, size, protection, flags) ==
  [platform |-> Platform(operation), operation |-> operation,
   success |-> TRUE, domain |-> ErrorDomain(Platform(operation)),
   requestedSize |-> size, returned |-> address, address |-> address,
   size |-> size, flags |-> flags, exact |-> FALSE, expected |-> 0,
   violation |-> "none", protection |-> protection]

Addrs == 0 .. MaxAddress - 1
Sizes == 1 .. MaxAddress

\* Every range, the ones past the end of the address space included.
Successful(operation, protections, flagSets) ==
  {Base(operation, a, z, p, f) :
     a \in Addrs, z \in Sizes, p \in protections, f \in flagSets}

\* Events that the contract refuses or that carry an expectation.
Peculiar(operation, flags) ==
  LET e == Base(operation, 0, 1, 1, flags)
      failed == [e EXCEPT !.success = FALSE, !.returned = 0, !.size = 0]
  IN {failed,
      [failed EXCEPT !.size = 1],
      [e EXCEPT !.domain = "none"],
      [e EXCEPT !.requestedSize = 0],
      [e EXCEPT !.flags = {"replace", "release"}],
      [e EXCEPT !.exact = TRUE, !.expected = 1],
      [e EXCEPT !.exact = TRUE, !.expected = 1,
                !.violation = "exact_address_relocated"],
      [e EXCEPT !.violation = "exact_address_relocated"],
      [e EXCEPT !.violation = "invalid_expectation"]}

PosixEvents ==
  Successful("mmap", {1, 2}, {{}, {"replace"}})
    \cup Successful("mprotect", {1, 2}, {{}})
    \cup Successful("munmap", {0}, {{"release"}})
    \cup Peculiar("mmap", {}) \cup Peculiar("munmap", {"release"})

WindowsEvents ==
  Successful("reserve", {1}, {{"reserve"}, {"reserve", "commit"}})
    \cup Successful("commit", {1, 2}, {{"commit"}})
    \cup Successful("protect", {2}, {{}})
    \cup Successful("decommit", {0}, {{"decommit"}})
    \cup {Base("release", a, 0, 0, {"release"}) : a \in Addrs}
    \cup Successful("reset", {0}, {{}}) \cup {Base("other", 0, 1, 1, {})}
    \cup Peculiar("reserve", {"reserve"}) \cup Peculiar("commit", {"commit"})

MCEvents == PosixEvents \cup WindowsEvents
=============================================================================
