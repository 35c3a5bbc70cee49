-------------------------- MODULE WindowsMonitor --------------------------
(***************************************************************************)
(* The Windows wrappers between the kernel and replay, for one thread that *)
(* makes every call through them: the native call, the event, and its      *)
(* replay are one step.  (PosixMonitor separates them.)  Address 0 is      *)
(* NULL: nothing is ever mapped in the granule that holds it.              *)
(***************************************************************************)
EXTENDS Monitor

CONSTANTS
  Granules,    \* the kernel's granules are 1 .. Granules
  Granularity  \* bytes in a granule, where reservations begin

LastAddress == (Granules + 1) * Granularity
Bytes == Granularity .. LastAddress - 1

ASSUME GranulesAssumption ==
  /\ Granules \in Nat \ {0}
  /\ Granularity \in Nat \ {0} /\ Granularity % PageSize = 0
  /\ LastAddress <= MaxAddress - (PageSize - 1)

\* "kernel" is the state of every byte outside the first granule.
VARIABLE beyond  \* ghost: a call has succeeded that replay does not follow

windowsVars == <<vars, kernel, pageSize, beyond>>

NotReserved ==
  [mapped |-> FALSE, protection |-> 0, committed |-> FALSE, base |-> 0]

WindowsInit ==
  /\ Init /\ platform = "windows"
  /\ kernel = [b \in Bytes |-> NotReserved]
  /\ pageSize \in {0, PageSize}
  /\ beyond = FALSE

-----------------------------------------------------------------------------
(* Building the event.                                                     *)

align_down(value) == IF pageSize = 0 THEN 0 ELSE value - (value % pageSize)

\* align_up succeeds, and with what.
CanAlignUp(value) == pageSize # 0 /\ value <= MaxAddress - (pageSize - 1)
align_up(value) == ((value + pageSize - 1) \div pageSize) * pageSize

\* Mutant: the length is rounded, not the end of the range.
set_effective_range_RoundsLength(e, rangeStart, effectiveStart) ==
  IF e.requestedSize = 0 \/ pageSize = 0 THEN e
  ELSE [e EXCEPT !.address = effectiveStart, !.size = align_up(e.requestedSize)]

set_effective_range(e, rangeStart, effectiveStart) ==
  IF \/ e.requestedSize = 0
     \/ rangeStart > MaxAddress - e.requestedSize
     \/ ~CanAlignUp(rangeStart + e.requestedSize)
     \/ align_up(rangeStart + e.requestedSize) < effectiveStart
    THEN e
    ELSE [e EXCEPT !.address = effectiveStart,
            !.size = align_up(rangeStart + e.requestedSize) - effectiveStart]

\* Mutant: a commit takes precedence over a reservation.
allocation_operation_CommitFirst(type) ==
  CASE "commit" \in type -> "commit"
    [] "reserve" \in type -> "reserve"
    [] "reset_undo" \in type -> "reset_undo"
    [] "reset" \in type -> "reset"
    [] OTHER -> "other"

allocation_operation(type) ==
  CASE "reserve" \in type -> "reserve"
    [] "reserve" \notin type /\ "commit" \in type -> "commit"
    [] type \cap {"reserve", "commit"} = {} /\ "reset_undo" \in type ->
         "reset_undo"
    [] type \cap {"reserve", "commit", "reset_undo"} = {} /\ "reset" \in type ->
         "reset"
    [] OTHER -> "other"

\* An event before its effective range is known.
WindowsEvent(operation, success, returned, size, flags, protection) ==
  [platform |-> "windows", operation |-> operation, success |-> success,
   domain |-> "win32", requestedSize |-> size,
   returned |-> IF success THEN returned ELSE 0, address |-> 0, size |-> 0,
   flags |-> flags, exact |-> FALSE, expected |-> 0, violation |-> "none",
   protection |-> protection]

-----------------------------------------------------------------------------
(* The kernel.                                                             *)

PageDown(value) == value - (value % PageSize)
PageUp(value) == ((value + PageSize - 1) \div PageSize) * PageSize
GranuleDown(value) == value - (value % Granularity)

\* The bytes of the pages from "first" to the one that holds the last byte of
\* the range that was passed.
Touched(first, start, size) == first .. PageUp(start + size) - 1

\* All of R is one reservation's, and committed if that is asked.
InReservation(R, committed) ==
  /\ R # {} /\ R \subseteq Bytes
  /\ \E base \in Bytes : \A b \in R :
       /\ kernel[b].mapped /\ kernel[b].base = base
       /\ committed => kernel[b].committed

Set(R, committed, protection) ==
  [b \in Bytes |-> IF b \in R
     THEN [kernel[b] EXCEPT !.committed = committed, !.protection = protection]
     ELSE kernel[b]]

\* The calls after which replay refuses the trace: it takes a commit without
\* an address and the commitment of what is not reserved, a decommit of no
\* bytes or of pages that are not committed, for impossible.
Outside(yes) == beyond' = (beyond \/ yes)

-----------------------------------------------------------------------------
(* The wrappers.                                                           *)

\* What virtual_alloc_once records of a call that returned "result", 0 for a
\* failure.
AllocEvent(address, size, type, protection, expectation, result) ==
  LET e == WindowsEvent(allocation_operation(type), result # 0, result, size,
                        type \cap {"reserve", "commit"}, protection)
      start == IF address # 0 THEN address ELSE result
  IN apply_expectation(IF result # 0 THEN set_effective_range(e, start, result)
                                     ELSE e, expectation)

\* MEM_RESERVE, alone or with MEM_COMMIT; a commit with no address reserves
\* as well.
Reserves(address, type) ==
  "reserve" \in type \/ ("commit" \in type /\ address = 0)

ReserveCall(address, size, type, protection, expectation, result) ==
  LET start == IF address = 0 THEN result ELSE address
      R == Touched(result, start, size)
  IN /\ Reserves(address, type)
     /\ size # 0 /\ result # 0 /\ result % Granularity = 0
     /\ address # 0 => result = GranuleDown(address)
     /\ R \subseteq Bytes /\ \A b \in R : ~kernel[b].mapped
     /\ kernel' = [b \in Bytes |-> IF b \in R
                     THEN [mapped |-> TRUE, protection |-> protection,
                           committed |-> "commit" \in type, base |-> result]
                     ELSE kernel[b]]
     /\ Outside("reserve" \notin type)
     /\ Step(AllocEvent(address, size, type, protection, expectation, result))
     /\ UNCHANGED pageSize

\* MEM_COMMIT, MEM_RESET or MEM_RESET_UNDO within a reservation.
CommitCall(address, size, type, protection, expectation) ==
  LET R == Touched(PageDown(address), address, size)
      commits == "commit" \in type
  IN /\ ~Reserves(address, type) /\ type # {}
     /\ size # 0 /\ address # 0 /\ InReservation(R, ~commits)
     /\ kernel' = IF commits THEN Set(R, TRUE, protection) ELSE kernel
     /\ Step(AllocEvent(address, size, type, protection, expectation,
                        PageDown(address)))
     /\ UNCHANGED <<pageSize, beyond>>

AllocFails(address, size, type, protection, expectation) ==
  /\ Step(AllocEvent(address, size, type, protection, expectation, 0))
  /\ UNCHANGED <<kernel, pageSize, beyond>>

rs_virtual_protect(address, size, protection) ==
  LET R == Touched(PageDown(address), address, size)
      success == size # 0 /\ InReservation(R, TRUE)
      e == WindowsEvent("protect", success, address, size, {}, protection)
  IN /\ kernel' = IF success THEN Set(R, TRUE, protection) ELSE kernel
     /\ Step(IF success THEN set_effective_range(e, address, align_down(address))
                        ELSE e)
     /\ UNCHANGED <<pageSize, beyond>>

\* The event of VirtualFree; a release has an effective address and no length.
FreeEvent(operation, success, address, size) ==
  LET e == WindowsEvent(operation, success, address, size,
                        {operation}, 0)
      located == [e EXCEPT !.address = address]
  IN IF ~success THEN e
     ELSE IF operation = "release" THEN located
     ELSE set_effective_range(located, address, align_down(address))

ReservationOf(base) == {b \in Bytes : kernel[b].mapped /\ kernel[b].base = base}

\* MEM_DECOMMIT: the pages of the range, committed or not, or with no length
\* the whole reservation that begins at the address.
DecommitCall(address, size) ==
  LET R == IF size = 0 THEN ReservationOf(address)
                       ELSE Touched(PageDown(address), address, size)
      success == InReservation(R, FALSE)
  IN /\ kernel' = IF success THEN Set(R, FALSE, 0) ELSE kernel
     /\ Outside(success /\ (size = 0 \/ \E b \in R : ~kernel[b].committed))
     /\ Step(FreeEvent("decommit", success, address, size))
     /\ UNCHANGED pageSize

\* MEM_RELEASE: the base of a reservation, and no length.
ReleaseCall(address, size) ==
  LET success == size = 0 /\ ReservationOf(address) # {}
  IN /\ kernel' = IF success THEN [b \in Bytes |-> IF b \in ReservationOf(address)
                                                     THEN NotReserved ELSE kernel[b]]
                             ELSE kernel
     /\ Step(FreeEvent("release", success, address, size))
     /\ UNCHANGED <<pageSize, beyond>>

AllocationTypes ==
  {{"reserve"}, {"commit"}, {"reserve", "commit"}, {"reset"}, {"reset_undo"}, {}}

WindowsNext ==
  \E address \in {0} \cup Bytes, size \in Sizes :
    \/ \E type \in AllocationTypes, protection \in Protections,
          expectation \in Expectations :
         \/ \E result \in Bytes :
              ReserveCall(address, size, type, protection, expectation, result)
         \/ CommitCall(address, size, type, protection, expectation)
         \/ AllocFails(address, size, type, protection, expectation)
    \/ \E protection \in Protections :
         rs_virtual_protect(address, size, protection)
    \/ DecommitCall(address, size)
    \/ ReleaseCall(address, size)

WindowsSpec == WindowsInit /\ [][WindowsNext]_windowsVars

-----------------------------------------------------------------------------
(* Properties.                                                             *)

\* As long as the trace is not refused, replay knows of every byte whether it
\* is reserved, in which reservation, whether it is committed and with what
\* protection, although the wrapper sees arguments that the kernel rounds down
\* to pages and granules.
ReplayIsTheWindowsKernel ==
  status = "running" =>
    \A b \in Bytes :
      LET byte == Memory(segments)[b]
      IN /\ byte.mapped = kernel[b].mapped
         /\ byte.committed = kernel[b].committed
         /\ byte.base = kernel[b].base
         /\ byte.committed => byte.protection = kernel[b].protection

\* A trace is refused only after one of the calls replay does not follow, or
\* by a recorder that was enabled and never initialized.
RefusedOnlyBeyond == status = "refused" => beyond \/ pageSize = 0
=============================================================================
