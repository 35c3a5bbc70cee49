---------------------------- MODULE TraceEvent ----------------------------
(***************************************************************************)
(* The events of a runtime trace: what each operation may carry, and the   *)
(* conditions under which the reader and the replay take an event at all.  *)
(* Addresses are 0 .. MaxAddress, standing for the 64-bit address space.   *)
(***************************************************************************)
EXTENDS Naturals

CONSTANT MaxAddress  \* the largest value of uint64_t
ASSUME MaxAddressAssumption == MaxAddress \in Nat \ {0}

PosixOperations == {"mmap", "mprotect", "munmap"}
AllocOperations == {"reserve", "commit", "reset", "reset_undo", "other"}
WindowsOperations == AllocOperations \cup {"protect", "decommit", "release"}

Platform(operation) ==
  IF operation \in PosixOperations THEN "posix" ELSE "windows"

ErrorDomain(platform) == IF platform = "posix" THEN "errno" ELSE "win32"

\* The semantic flags an operation may carry, and those it must carry.
AllowedFlags(operation) ==
  CASE operation = "mmap" -> {"replace"}
    [] operation \in {"munmap", "release"} -> {"release"}
    [] operation = "reserve" -> {"reserve", "commit"}
    [] operation = "commit" -> {"commit"}
    [] operation = "decommit" -> {"decommit"}
    [] OTHER -> {}

RequiredFlags(operation, success) ==
  CASE operation \in {"munmap", "release"} -> {"release"}
    [] operation = "reserve" -> {"reserve"}
    [] operation = "commit" /\ success -> {"commit"}
    [] operation = "decommit" -> {"decommit"}
    [] OTHER -> {}

SupportsExpectation(operation) == operation \in AllocOperations \cup {"mmap"}

\* validate_event_contract: the event fits the platform of the header, and its
\* fields fit one another.
ValidEvent(e, platform) ==
  /\ e.platform = platform
  /\ platform = Platform(e.operation)
  /\ e.domain = ErrorDomain(e.platform)
  /\ ~e.success => e.returned = 0 /\ e.address = 0 /\ e.size = 0
  /\ e.success /\ e.operation # "release" =>
       e.requestedSize # 0 /\ e.size # 0
  /\ ~SupportsExpectation(e.operation) => ~e.exact
  /\ e.flags \subseteq AllowedFlags(e.operation)
  /\ RequiredFlags(e.operation, e.success) \subseteq e.flags

\* The violation replay derives from the event itself.  Nothing in an event
\* tells a malformed expectation from none, so that one is taken as recorded.
ExpectedViolation(e) ==
  IF e.violation = "invalid_expectation" THEN "invalid_expectation"
  ELSE IF e.exact /\ e.success /\ e.returned # e.expected
         THEN "exact_address_relocated" ELSE "none"

\* The effective range [address, address + size) is neither empty nor past
\* the end of the address space.
ValidRange(e) == e.size # 0 /\ e.address + e.size <= MaxAddress

RangeOf(e) == e.address .. e.address + e.size - 1
=============================================================================
