--------------------------- MODULE PosixMonitor ---------------------------
(***************************************************************************)
(* The POSIX wrappers between the kernel and replay.  A wrapper makes its  *)
(* native call, builds the event from the arguments and the result, and    *)
(* records it; the two are separate steps, so the calls of several threads *)
(* may be recorded in another order than the kernel served them.  Replay   *)
(* takes the events in the order of their recording.  Nothing is dropped:  *)
(* the trace is complete.                                                  *)
(***************************************************************************)
EXTENDS Monitor, FiniteSets

CONSTANTS
  Threads,
  Pages  \* the kernel's pages are 0 .. Pages - 1

ASSUME PagesAssumption ==
  Pages \in Nat \ {0} /\ Pages * PageSize <= MaxAddress - (PageSize - 1)
ASSUME PosixThreadsAssumption == IsFiniteSet(Threads) /\ "nobody" \notin Threads

\* "kernel" is what is mapped on every page, and for which thread.
VARIABLES
  started,    \* the threads of the program, which begins with one
  pending,    \* per thread, the event of a native call that was made
  uncertain,  \* ghost: pages a failed mprotect may have changed
  emptyCall   \* ghost: an mprotect of no bytes has succeeded

posixVars == <<vars, kernel, started, pending, pageSize, uncertain, emptyCall>>

NotMapped == [mapped |-> FALSE, protection |-> 0, owner |-> "nobody"]
NoCall == [operation |-> "none"]

PosixInit ==
  /\ Init /\ platform = "posix"
  /\ kernel = [p \in 0 .. Pages - 1 |-> NotMapped]
  /\ \E t \in Threads : started = {t}
  /\ pending = [t \in Threads |-> NoCall]
  /\ pageSize \in {0, PageSize}
  /\ uncertain = {} /\ emptyCall = FALSE

-----------------------------------------------------------------------------
(* Building the event.                                                     *)

effective_size(size) ==
  IF size = 0 \/ pageSize = 0 \/ size > MaxAddress - (pageSize - 1) THEN 0
  ELSE ((size + pageSize - 1) \div pageSize) * pageSize

\* Mutant: the requested protection is not recorded.
PosixEvent_NoProtection(operation, success, returned, size, flags, protection) ==
  [platform |-> "posix", operation |-> operation, success |-> success,
   domain |-> "errno", requestedSize |-> size,
   returned |-> IF success THEN returned ELSE 0,
   address |-> IF success THEN returned ELSE 0,
   size |-> IF success THEN effective_size(size) ELSE 0,
   flags |-> flags, exact |-> FALSE, expected |-> 0, violation |-> "none",
   protection |-> 0]

PosixEvent(operation, success, returned, size, flags, protection) ==
  [platform |-> "posix", operation |-> operation, success |-> success,
   domain |-> "errno", requestedSize |-> size,
   returned |-> IF success THEN returned ELSE 0,
   address |-> IF success THEN returned ELSE 0,
   size |-> IF success THEN effective_size(size) ELSE 0,
   flags |-> flags, exact |-> FALSE, expected |-> 0, violation |-> "none",
   protection |-> protection]

-----------------------------------------------------------------------------
(* The kernel, and the native call of a wrapper.                           *)

Aligned(address) == address % PageSize = 0

\* The pages that hold the bytes from an aligned address.
PagesOf(address, size) ==
  {p \in 0 .. Pages - 1 : p * PageSize < address + size
                          /\ address < (p + 1) * PageSize}

Inside(address, size) == address + size <= Pages * PageSize

PendingPages(t) ==
  IF pending[t] = NoCall THEN {} ELSE PagesOf(pending[t].address, pending[t].size)

\* The threads of the program are synchronized: none names a page that another
\* has mapped or is in a call about.  Where the kernel chooses, it may choose a
\* page that another thread has just given back.
Synchronized(t, R) ==
  \A u \in Threads \ {t} :
    R \cap PendingPages(u) = {} /\ \A p \in R : kernel[p].owner # u

\* Nor does one of several threads unmap a page that it has not mapped: by then
\* the kernel may have given it to another.
Unmappable(t, R) ==
  Synchronized(t, R) /\ (started = {t} \/ \A p \in R : kernel[p].owner = t)

Finish(t, e) == pending' = [pending EXCEPT ![t] = e]

Map(t, R, protection) ==
  [p \in DOMAIN kernel |-> IF p \in R
     THEN [mapped |-> TRUE, protection |-> protection, owner |-> t]
     ELSE kernel[p]]

\* The kernel maps at "address" what was asked for: with MAP_FIXED there and
\* nowhere else, in place of what was there; otherwise any free pages.
rs_mmap(t, hint, size, fixed, protection, expectation, address) ==
  LET R == PagesOf(address, size)
  IN /\ pending[t] = NoCall
     /\ size # 0 /\ Aligned(address) /\ Inside(address, size)
     /\ IF fixed THEN address = hint /\ Synchronized(t, R)
                 ELSE \A p \in R : ~kernel[p].mapped
     /\ kernel' = Map(t, R, protection)
     /\ uncertain' = uncertain \ R
     /\ Finish(t, apply_expectation(
                    PosixEvent("mmap", TRUE, address, size,
                               IF fixed THEN {"replace"} ELSE {}, protection),
                    expectation))
     /\ UNCHANGED <<vars, started, pageSize, emptyCall>>

rs_mmap_fails(t, size, fixed, protection, expectation) ==
  /\ pending[t] = NoCall
  /\ Finish(t, apply_expectation(
                 PosixEvent("mmap", FALSE, 0, size,
                            IF fixed THEN {"replace"} ELSE {}, protection),
                 expectation))
  /\ UNCHANGED <<vars, kernel, started, pageSize, uncertain, emptyCall>>

\* No bytes, whole mapped pages, or a failure, after which some of the pages
\* may have their new protection.
rs_mprotect(t, address, size, protection) ==
  LET R == PagesOf(address, size)
      mapped == {p \in R : kernel[p].mapped}
      success == /\ Aligned(address)
                 /\ size # 0 => Inside(address, size) /\ mapped = R
      changed == IF success THEN {R} ELSE SUBSET mapped
  IN /\ pending[t] = NoCall /\ Synchronized(t, R)
     /\ \E C \in (IF Aligned(address) THEN changed ELSE {{}}) :
          /\ kernel' = [p \in DOMAIN kernel |->
                          IF p \in C
                            THEN [kernel[p] EXCEPT !.protection = protection]
                            ELSE kernel[p]]
          /\ uncertain' = IF success THEN uncertain \ C ELSE uncertain \cup C
     /\ emptyCall' = (emptyCall \/ (success /\ size = 0))
     /\ Finish(t, PosixEvent("mprotect", success, address, size, {}, protection))
     /\ UNCHANGED <<vars, started, pageSize>>

rs_munmap(t, address, size) ==
  LET R == PagesOf(address, size)
      success == Aligned(address) /\ size # 0 /\ Inside(address, size)
  IN /\ pending[t] = NoCall /\ Unmappable(t, R)
     /\ kernel' = [p \in DOMAIN kernel |-> IF success /\ p \in R
                                             THEN NotMapped ELSE kernel[p]]
     /\ uncertain' = IF success THEN uncertain \ R ELSE uncertain
     /\ Finish(t, PosixEvent("munmap", success, address, size, {"release"}, 0))
     /\ UNCHANGED <<vars, started, pageSize, emptyCall>>

\* record_event, and the replay of the event at its place in the trace.
RecordAndReplay(t) ==
  /\ pending[t] # NoCall
  /\ Step(pending[t])
  /\ Finish(t, NoCall)
  /\ UNCHANGED <<kernel, started, pageSize, uncertain, emptyCall>>

\* The program: a thread that is in no call starts another one.
StartThread(t, u) ==
  /\ pending[t] = NoCall /\ u \notin started
  /\ started' = started \cup {u}
  /\ UNCHANGED <<vars, kernel, pending, pageSize, uncertain, emptyCall>>

\* A refused trace is refused for good.
PosixNext ==
  /\ status = "running"
  /\ \E t \in started :
       \/ \E u \in Threads : StartThread(t, u)
       \/ RecordAndReplay(t)
       \/ \E size \in Sizes :
            \/ \E protection \in Protections, fixed \in BOOLEAN,
                  expectation \in Expectations :
                 \/ rs_mmap_fails(t, size, fixed, protection, expectation)
                 \/ \E hint, address \in 0 .. Pages * PageSize - 1 :
                      rs_mmap(t, hint, size, fixed, protection, expectation,
                              address)
            \/ \E address \in 0 .. Pages * PageSize - 1 :
                 \/ \E protection \in Protections :
                      rs_mprotect(t, address, size, protection)
                 \/ rs_munmap(t, address, size)

PosixSpec == PosixInit /\ [][PosixNext]_posixVars

-----------------------------------------------------------------------------
(* Properties.                                                             *)

Quiescent == \A t \in Threads : pending[t] = NoCall

\* What replay accepts is what the kernel did: when no call is under way and
\* the trace has not been refused, replay maps exactly the bytes the kernel
\* maps, with the kernel's protections except where an mprotect failed half
\* way.  Recording in another order than the kernel's can get a complete trace
\* of a correct program refused, but never misread.
ReplayIsThePosixKernel ==
  Quiescent /\ status = "running" =>
    \A p \in 0 .. Pages - 1 : \A b \in p * PageSize .. (p + 1) * PageSize - 1 :
      LET byte == Memory(segments)[b]
      IN /\ byte.mapped = kernel[p].mapped
         /\ p \notin uncertain => byte.protection = kernel[p].protection

\* The trace of a program with a single thread is refused only after an mprotect of no bytes,
\* or by a recorder that was enabled and never initialized.
SerialTraceReplays ==
  Cardinality(started) = 1 /\ status = "refused" => emptyCall \/ pageSize = 0
=============================================================================
