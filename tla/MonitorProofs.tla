------------------------- MODULE MonitorProofs -------------------------
(***************************************************************************)
(* Proofs about the two monitors.  PosixMonitor, for any threads, pages,   *)
(* page size and lengths: what replay accepts of a trace is what the       *)
(* kernel did, in whatever order the threads' calls were recorded.         *)
(* WindowsMonitor, for any page size and granularity: the ranges that the  *)
(* wrappers round are those that the kernel touches, byte by byte.         *)
(***************************************************************************)
EXTENDS PosixMonitor, WindowsMonitor, ReplayProofs, FiniteSetTheorems

-----------------------------------------------------------------------------
(* Pages and bytes.                                                        *)

PageSet == 0 .. Pages - 1
PageBytes(p) == p * PageSize .. (p + 1) * PageSize - 1
Limit == Pages * PageSize

\* The pages end before the addresses do.
LEMMA LimitBounds ==
  /\ PageSize \in Nat \ {0} /\ Limit \in Nat /\ MaxAddress \in Nat
  /\ Limit <= MaxAddress - (PageSize - 1) /\ Limit % PageSize = 0
<1>1. /\ PageSize \in Nat \ {0} /\ Pages \in Nat \ {0} /\ MaxAddress \in Nat
      /\ Limit <= MaxAddress - (PageSize - 1)
  BY PagesAssumption, ProgramAssumption, MaxAddressAssumption DEF Limit
<1> QED
  BY <1>1, MultipleIsAligned DEF Limit

\* Sums of multiples do not stop short of a multiple they pass.
LEMMA NextMultiple ==
  ASSUME NEW i \in Nat, NEW j \in Nat, NEW k \in Nat, i % PageSize = 0,
         j % PageSize = 0, k % PageSize = 0, i < j + k
  PROVE  i + PageSize <= j + k
<1> DEFINE n == j + k
<1>1. n \in Nat /\ n % PageSize = 0 /\ i < n
  <2>1. PageSize \in Nat \ {0}
    BY LimitBounds
  <2>2. (j + k) % PageSize = 0
    BY <2>1, AlignedSum
  <2> QED
    BY <2>2
<1> HIDE DEF n
<1>2. i + PageSize <= n
  BY <1>1, LimitBounds, AlignedGap
<1> QED
  BY <1>2 DEF n

\* A page begins and ends at a multiple of the page size, within the limit.
LEMMA PageBounds ==
  ASSUME NEW p \in PageSet
  PROVE  /\ p \in Nat /\ PageSize \in Nat \ {0} /\ p * PageSize \in Nat /\ Limit \in Nat
         /\ (p * PageSize) % PageSize = 0
         /\ (p + 1) * PageSize = p * PageSize + PageSize
         /\ ((p + 1) * PageSize) % PageSize = 0 /\ (p + 1) * PageSize \in Nat
         /\ (p + 1) * PageSize <= Limit /\ Limit % PageSize = 0
         /\ Limit <= MaxAddress - (PageSize - 1) /\ MaxAddress \in Nat
         /\ p * PageSize \in PageBytes(p)
         /\ \A b \in PageBytes(p) : b \in Nat /\ b \in 0 .. MaxAddress - 1
<1>1. /\ p \in Nat /\ PageSize \in Nat \ {0} /\ Pages \in Nat \ {0} /\ MaxAddress \in Nat
      /\ Limit <= MaxAddress - (PageSize - 1) /\ p + 1 <= Pages
  BY PagesAssumption, ProgramAssumption, MaxAddressAssumption DEF PageSet, Limit
<1>2. p * PageSize \in Nat /\ Limit \in Nat /\ (p + 1) * PageSize \in Nat
  BY <1>1 DEF Limit
<1>3. (p + 1) * PageSize = p * PageSize + PageSize
  BY <1>1
<1>4. /\ (p * PageSize) % PageSize = 0 /\ ((p + 1) * PageSize) % PageSize = 0
      /\ Limit % PageSize = 0
  BY <1>1, MultipleIsAligned DEF Limit
<1>5. (p + 1) * PageSize <= Limit
  <2>1. CASE p + 1 = Pages
    BY <1>1, <1>2, <2>1 DEF Limit
  <2>2. CASE p + 1 # Pages
    <3>1. Pages - (p + 1) \in Nat \ {0}
      BY <1>1, <2>2
    <3>2. (Pages - (p + 1)) * PageSize >= PageSize
      BY <1>1, <3>1, ProductBound
    <3>3. Limit = (p + 1) * PageSize + (Pages - (p + 1)) * PageSize
      BY <1>1 DEF Limit
    <3> QED
      BY <1>1, <1>2, <3>1, <3>2, <3>3
  <2> QED
    BY <2>1, <2>2
<1> DEFINE low == p * PageSize
           high == (p + 1) * PageSize
<1>6. PageBytes(p) = low .. high - 1
  BY DEF PageBytes
<1> HIDE DEF low, high
<1>7. low \in PageBytes(p) /\ \A b \in PageBytes(p) : b \in Nat /\ b \in 0 .. MaxAddress - 1
  BY <1>1, <1>2, <1>3, <1>5, <1>6 DEF low, high
<1> QED
  BY <1>1, <1>2, <1>3, <1>4, <1>5, <1>7 DEF low

\* effective_size rounds a length up to whole pages.
LEMMA EffectiveSize ==
  ASSUME pageSize = PageSize, NEW address \in Nat, NEW size \in Nat \ {0},
         Aligned(address), Inside(address, size)
  PROVE  LET e == effective_size(size)
         IN /\ e \in Nat \ {0} /\ e % PageSize = 0 /\ size <= e /\ e < size + PageSize
            /\ address + e <= Limit
<1> DEFINE n == size + PageSize - 1
           e == effective_size(size)
<1>1. /\ PageSize \in Nat \ {0} /\ Limit \in Nat /\ n \in Nat /\ MaxAddress \in Nat
      /\ Limit <= MaxAddress - (PageSize - 1) /\ Limit % PageSize = 0
  BY LimitBounds
<1>2. address + size <= Limit /\ address % PageSize = 0
  BY DEF Inside, Aligned, Limit
<1>3. e = (n \div PageSize) * PageSize
  <2>1. size <= MaxAddress - (PageSize - 1)
    BY <1>1, <1>2
  <2> QED
    BY <1>1, <2>1 DEF effective_size
<1>4. LET m == n - (n % PageSize)
      IN m \in Nat /\ m <= n /\ n < m + PageSize /\ m % PageSize = 0 /\ m = e
  BY <1>1, <1>3, AlignedDown
<1> HIDE DEF e
<1>5. e \in Nat /\ e % PageSize = 0 /\ e <= n /\ n < e + PageSize
  BY <1>4
<1>6. size <= e /\ e < size + PageSize
  BY <1>1, <1>5
<1>7. address + e <= Limit
  <2> SUFFICES ASSUME Limit < address + e PROVE FALSE
    BY <1>1, <1>5
  <2>1. Limit + PageSize <= address + e
    BY <1>1, <1>2, <1>5, NextMultiple
  <2> QED
    BY <1>1, <1>2, <1>5, <1>6, <2>1
<1> QED
  BY <1>5, <1>6, <1>7 DEF e

\* The bytes of a range of whole pages are those of its pages.
LEMMA PageOfRange ==
  ASSUME NEW address \in Nat, NEW size \in Nat, address % PageSize = 0, size % PageSize = 0,
         NEW p \in PageSet, NEW b \in PageBytes(p)
  PROVE  p \in PagesOf(address, size) <=> b \in address .. address + size - 1
<1> DEFINE low == p * PageSize
           high == (p + 1) * PageSize
<1>1. /\ low \in Nat /\ high \in Nat /\ high = low + PageSize /\ PageSize \in Nat \ {0}
      /\ low % PageSize = 0 /\ high % PageSize = 0 /\ b \in Nat /\ low <= b /\ b < high
  BY PageBounds DEF PageBytes
<1>2. p \in PagesOf(address, size) <=> low < address + size /\ address < high
  BY DEF PagesOf, PageSet
<1> HIDE DEF low, high
<1>3. ASSUME low < address + size, address < high
      PROVE  address <= b /\ b < address + size
  <2>1. low + PageSize <= address + size
    BY <1>1, <1>3, NextMultiple
  <2>2. address + PageSize <= high
    BY <1>1, <1>3, AlignedGap
  <2> QED
    BY <1>1, <2>1, <2>2
<1>4. ASSUME address <= b, b < address + size
      PROVE  low < address + size /\ address < high
  BY <1>1, <1>4
<1> QED
  BY <1>1, <1>2, <1>3, <1>4

\* A range and its rounded length lie in the same pages; a range of no bytes
\* at the beginning of a page lies in none.
LEMMA PagesOfEffective ==
  ASSUME NEW address \in Nat, Aligned(address)
  PROVE  /\ PagesOf(address, 0) = {}
         /\ \A size \in Nat \ {0} : pageSize = PageSize /\ Inside(address, size) =>
              PagesOf(address, effective_size(size)) = PagesOf(address, size)
<1>1. address % PageSize = 0
  BY DEF Aligned
<1>2. PagesOf(address, 0) = {}
  <2> SUFFICES ASSUME NEW p \in PageSet, p * PageSize < address, address < (p + 1) * PageSize
               PROVE  FALSE
    BY DEF PagesOf, PageSet
  <2>1. p * PageSize + PageSize <= address
    BY <1>1, PageBounds, AlignedGap
  <2> QED
    BY <2>1, PageBounds
<1>3. ASSUME NEW size \in Nat \ {0}, pageSize = PageSize, Inside(address, size)
      PROVE  PagesOf(address, effective_size(size)) = PagesOf(address, size)
  <2> DEFINE e == effective_size(size)
  <2>1. e \in Nat \ {0} /\ e % PageSize = 0 /\ size <= e /\ e < size + PageSize
    BY <1>3, EffectiveSize
  <2> HIDE DEF e
  <2>2. ASSUME NEW p \in PageSet
        PROVE  p * PageSize < address + e <=> p * PageSize < address + size
    <3> DEFINE low == p * PageSize
    <3>1. low \in Nat /\ low % PageSize = 0 /\ PageSize \in Nat \ {0}
      BY PageBounds
    <3> HIDE DEF low
    <3>2. low < address + e => low + PageSize <= address + e
      BY <1>1, <2>1, <3>1, NextMultiple
    <3>3. low < address + e <=> low < address + size
      BY <2>1, <3>1, <3>2
    <3> QED
      BY <3>3 DEF low
  <2>3. PagesOf(address, e) = PagesOf(address, size)
    BY <2>2 DEF PagesOf, PageSet
  <2> QED
    BY <2>3 DEF e
<1> QED
  BY <1>2, <1>3

-----------------------------------------------------------------------------
(* The invariant.                                                          *)

\* What replay knows of a byte after the events so far.
Byte(b) == Memory(segments)[b]

\* The threads whose calls are on their way into the trace, and those among
\* them that succeeded on page p.
Waiting == {t \in Threads : pending[t] # NoCall}
Touching(p) ==
  {t \in Waiting : p \in PagesOf(pending[t].address, pending[t].size)}

Agrees(p) ==
  \A b \in PageBytes(p) :
    /\ Byte(b).mapped = kernel[p].mapped
    /\ kernel[p].mapped => Byte(b).committed
    /\ p \notin uncertain => Byte(b).protection = kernel[p].protection

SeenMapped(p) == \A b \in PageBytes(p) : Byte(b).mapped /\ Byte(b).committed
SeenFree(p) == \A b \in PageBytes(p) : ~Byte(b).mapped

PlainMap(e) == e.operation = "mmap" /\ "replace" \notin e.flags
Unmap(e) == e.operation = "munmap"

\* What thread t's call has made of page p, and what replay knew before it.
CallOnPage(t, p) ==
  LET e == pending[t]
  IN /\ p \notin uncertain
     /\ ~Unmap(e) => kernel[p].mapped /\ kernel[p].protection = e.protection
     /\ Unmap(e) /\ Touching(p) = {t} => kernel[p] = NotMapped
     /\ Unmap(e) => started = {t} \/ SeenMapped(p)
     /\ started = {t} /\ PlainMap(e) => SeenFree(p)
     /\ started = {t} /\ e.operation = "mprotect" => SeenMapped(p)

\* Two calls wait on one page only if one thread has unmapped it and another
\* has been given it since: recorded in the other order, they are refused.
PageInv(p) ==
  /\ Touching(p) = {} => Agrees(p)
  /\ \A t \in Touching(p) : CallOnPage(t, p)
  /\ \A t, u \in Touching(p) : t # u =>
       \/ Unmap(pending[t]) /\ PlainMap(pending[u])
       \/ Unmap(pending[u]) /\ PlainMap(pending[t])

\* An event of a success that carries no range is refused whenever it comes.
Doomed(e) == e.success /\ e.size = 0

CallInv(t) ==
  LET e == pending[t]
  IN e # NoCall =>
       /\ t \in started
       /\ e.operation \in PosixOperations /\ e.success \in BOOLEAN /\ TypedEvent(e)
       /\ ~e.success => e.address = 0 /\ e.size = 0
       /\ e.success => /\ Aligned(e.address) /\ e.size % PageSize = 0
                       /\ Inside(e.address, e.size)
                       /\ pageSize = 0 => e.size = 0
       /\ Doomed(e) => emptyCall \/ pageSize = 0
       /\ e.violation = ExpectedViolation(e)
       /\ Doomed(e) \/ ValidEvent(e, "posix")

PosixTypes ==
  /\ platform = "posix" /\ status \in {"running", "refused"}
  /\ pageSize \in {0, PageSize} /\ emptyCall \in BOOLEAN
  /\ started \subseteq Threads /\ started # {}
  /\ pending = [t \in Threads |-> pending[t]]
  /\ kernel \in [PageSet -> [mapped : BOOLEAN, protection : Nat,
                             owner : Threads \cup {"nobody"}]]
  /\ \A p \in PageSet : ~kernel[p].mapped => kernel[p] = NotMapped

PagesInv ==
  \/ pageSize = 0 /\ \E t \in Waiting : Doomed(pending[t])
  \/ \A p \in PageSet : PageInv(p)

SerialInv ==
  status = "refused" => emptyCall \/ pageSize = 0 \/ \A t \in Threads : started # {t}

PosixInv ==
  /\ Sorted(segments) /\ PosixTypes /\ \A t \in Threads : CallInv(t)
  /\ status = "running" => PagesInv
  /\ SerialInv

-----------------------------------------------------------------------------
(* A new call.                                                             *)

\* What a thread's new call leaves of the others, before its pages are looked
\* at.
LEMMA NewCall ==
  ASSUME PosixInv, NEW t \in started, pending[t] = NoCall, NEW e, e # NoCall,
         Finish(t, e), UNCHANGED <<vars, started, pageSize>>
  PROVE  /\ pending' = [u \in Threads |-> pending'[u]] /\ pending'[t] = e
         /\ \A u \in Threads : u # t => pending'[u] = pending[u]
         /\ \A p : Touching(p)' = IF p \in PagesOf(e.address, e.size)
                                    THEN Touching(p) \cup {t} ELSE Touching(p)
         /\ \A p : t \notin Touching(p) /\ Touching(p) \subseteq Threads \ {t}
         /\ \A b : Byte(b)' = Byte(b)
         /\ segments' = segments /\ status' = status /\ platform' = platform
         /\ started' = started /\ pageSize' = pageSize
<1>1. t \in Threads /\ pending = [u \in Threads |-> pending[u]]
  BY DEF PosixInv, PosixTypes
<1>2. pending' = [u \in Threads |-> IF u = t THEN e ELSE pending[u]]
  BY <1>1 DEF Finish
<1>3. /\ segments' = segments /\ status' = status /\ platform' = platform
      /\ started' = started /\ pageSize' = pageSize
  BY DEF vars
<1>4. \A p : t \notin Touching(p) /\ Touching(p) \subseteq Threads \ {t}
  BY DEF Touching, Waiting
<1>5. \A p : Touching(p)' = IF p \in PagesOf(e.address, e.size)
                              THEN Touching(p) \cup {t} ELSE Touching(p)
  <2> SUFFICES ASSUME NEW p
               PROVE  Touching(p)' = IF p \in PagesOf(e.address, e.size)
                                       THEN Touching(p) \cup {t} ELSE Touching(p)
    OBVIOUS
  <2>1. Touching(p)' = {u \in Threads : /\ pending'[u] # NoCall
                                        /\ p \in PagesOf(pending'[u].address, pending'[u].size)}
    BY DEF Touching, Waiting, PagesOf
  <2>2. Touching(p) = {u \in Threads : /\ pending[u] # NoCall
                                       /\ p \in PagesOf(pending[u].address, pending[u].size)}
    BY DEF Touching, Waiting
  <2>3. pending'[t] = e /\ \A u \in Threads : u # t => pending'[u] = pending[u]
    BY <1>1, <1>2
  <2> QED
    BY <1>1, <2>1, <2>2, <2>3
<1>6. \A b : Byte(b)' = Byte(b)
  BY <1>3 DEF Byte, Memory
<1> QED
  BY <1>1, <1>2, <1>3, <1>4, <1>5, <1>6

\* A page the call has not changed.
LEMMA OtherPage ==
  ASSUME PosixInv, NEW t \in started, pending[t] = NoCall, NEW e, e # NoCall,
         Finish(t, e), UNCHANGED <<vars, started, pageSize>>,
         NEW p \in PageSet, PageInv(p), p \notin PagesOf(e.address, e.size),
         kernel'[p] = kernel[p], p \in uncertain' <=> p \in uncertain
  PROVE  PageInv(p)'
<1>1. /\ \A u \in Touching(p) : pending'[u] = pending[u]
      /\ Touching(p)' = Touching(p) /\ \A b : Byte(b)' = Byte(b)
      /\ started' = started
  <2>1. \A u \in Touching(p) : u \in Threads /\ u # t
    BY NewCall
  <2> QED
    BY <2>1, NewCall
<1>2. PageBytes(p)' = PageBytes(p)
  BY DEF PageBytes
<1>3. Agrees(p) => Agrees(p)'
  BY <1>1, <1>2 DEF Agrees
<1>4. (SeenMapped(p) <=> SeenMapped(p)') /\ (SeenFree(p) <=> SeenFree(p)')
  BY <1>1, <1>2 DEF SeenMapped, SeenFree
<1>5. ASSUME NEW u \in Touching(p)
      PROVE  CallOnPage(u, p)'
  <2>1. CallOnPage(u, p) /\ pending'[u] = pending[u]
    BY <1>1 DEF PageInv
  <2> QED
    BY <1>1, <1>4, <2>1 DEF CallOnPage, Unmap, PlainMap, NotMapped
<1>6. ASSUME NEW u \in Touching(p), NEW v \in Touching(p), u # v
      PROVE  \/ Unmap(pending'[u]) /\ PlainMap(pending'[v])
             \/ Unmap(pending'[v]) /\ PlainMap(pending'[u])
  BY <1>1, <1>6 DEF PageInv
<1> QED
  BY <1>1, <1>3, <1>5, <1>6 DEF PageInv, Unmap, PlainMap

\* The calls that were under way stay as they were.
LEMMA OtherCalls ==
  ASSUME PosixInv, NEW t \in started, pending[t] = NoCall, NEW e, e # NoCall,
         Finish(t, e), UNCHANGED <<vars, started, pageSize>>, emptyCall => emptyCall',
         NEW u \in Threads, u # t
  PROVE  CallInv(u)'
<1>1. CallInv(u) /\ pending'[u] = pending[u] /\ started' = started /\ pageSize' = pageSize
  BY NewCall DEF PosixInv
<1> QED
  BY <1>1 DEF CallInv, TypedEvent, Aligned, Inside, Doomed, ExpectedViolation, ValidEvent,
              NoCall, Platform, ErrorDomain, SupportsExpectation, AllowedFlags, RequiredFlags

\* A doomed call stays, and a new one is as good.
LEMMA DoomedStays ==
  ASSUME PosixInv, NEW t \in started, pending[t] = NoCall, NEW e, e # NoCall,
         Finish(t, e), UNCHANGED <<vars, started, pageSize>>, pageSize = 0,
         Doomed(e) \/ \E u \in Waiting : Doomed(pending[u])
  PROVE  PagesInv'
<1>1. t \in Threads /\ pageSize' = 0
  BY NewCall DEF PosixInv, PosixTypes
<1>2. CASE Doomed(e)
  <2>1. pending'[t] = e /\ t \in Waiting'
    BY <1>1, NewCall DEF Waiting, NoCall
  <2> QED
    BY <1>1, <1>2, <2>1 DEF PagesInv, Doomed
<1>3. CASE \E u \in Waiting : Doomed(pending[u])
  <2>1. PICK u \in Waiting : Doomed(pending[u])
    BY <1>3
  <2>2. u \in Threads /\ u # t /\ pending[u] # NoCall
    BY DEF Waiting
  <2>3. pending'[u] = pending[u]
    BY <2>2, NewCall
  <2>4. u \in Waiting'
    BY <2>2, <2>3 DEF Waiting, NoCall
  <2> QED
    BY <1>1, <2>1, <2>3, <2>4 DEF PagesInv, Doomed
<1> QED
  BY <1>2, <1>3

\* A thread that keeps clear of the other threads' pages.
LEMMA SynchronizedPage ==
  ASSUME PosixInv, NEW t \in started, pending[t] = NoCall, NEW R, Synchronized(t, R),
         NEW p \in R
  PROVE  Touching(p) = {}
<1> SUFFICES ASSUME NEW u \in Touching(p) PROVE FALSE
  OBVIOUS
<1>1. /\ u \in Threads \ {t} /\ pending[u] # NoCall
      /\ p \in PagesOf(pending[u].address, pending[u].size)
  BY DEF Touching, Waiting
<1> QED
  BY <1>1 DEF Synchronized, PendingPages

\* A new call preserves the invariant if its own event and every page that was
\* right stay right.
LEMMA CallKeepsInv ==
  ASSUME PosixInv, status = "running", NEW t \in started, pending[t] = NoCall,
         NEW e, e # NoCall, Finish(t, e), UNCHANGED <<vars, started, pageSize>>,
         emptyCall => emptyCall', emptyCall' \in BOOLEAN,
         kernel' \in [PageSet -> [mapped : BOOLEAN, protection : Nat,
                                  owner : Threads \cup {"nobody"}]],
         \A p \in PageSet : ~kernel'[p].mapped => kernel'[p] = NotMapped,
         CallInv(t)',
         \/ Doomed(e) /\ pageSize = 0
         \/ \A p \in PageSet : PageInv(p) => PageInv(p)'
  PROVE  PosixInv'
<1>1. /\ pending' = [u \in Threads |-> pending'[u]] /\ segments' = segments
      /\ status' = status /\ platform' = platform /\ started' = started
      /\ pageSize' = pageSize
  BY NewCall
<1>2. Sorted(segments)'
  BY <1>1 DEF PosixInv, Sorted
<1>3. PosixTypes'
  BY <1>1 DEF PosixInv, PosixTypes, PageSet, NotMapped
<1>4. \A u \in Threads : CallInv(u)'
  BY OtherCalls
<1>5. PagesInv'
  <2>1. CASE pageSize = 0 /\ (Doomed(e) \/ \E u \in Waiting : Doomed(pending[u]))
    BY <2>1, DoomedStays
  <2>2. CASE ~(pageSize = 0 /\ (Doomed(e) \/ \E u \in Waiting : Doomed(pending[u])))
    <3>1. \A p \in PageSet : PageInv(p)
      BY <2>2 DEF PosixInv, PagesInv
    <3>2. \A p \in PageSet : PageInv(p)'
      BY <2>2, <3>1
    <3> QED
      BY <3>2 DEF PagesInv, PageSet
  <2> QED
    BY <2>1, <2>2
<1>6. SerialInv'
  BY <1>1 DEF SerialInv
<1> QED
  BY <1>2, <1>3, <1>4, <1>5, <1>6 DEF PosixInv

\* The event of a call says what the call did.
Describes(e, operation, success, returned, size, flags, protection) ==
  /\ e.platform = "posix" /\ e.operation = operation /\ e.success = success
  /\ e.domain = "errno" /\ e.requestedSize = size /\ e.flags = flags
  /\ e.protection = protection
  /\ e.returned = IF success THEN returned ELSE 0
  /\ e.address = IF success THEN returned ELSE 0
  /\ e.size = IF success THEN effective_size(size) ELSE 0
  /\ e.exact \in BOOLEAN /\ (e.exact => operation = "mmap")
  /\ e.violation = ExpectedViolation(e)

LEMMA EventDescribes ==
  ASSUME NEW operation, NEW success \in BOOLEAN, NEW returned, NEW size, NEW flags,
         NEW protection
  PROVE  LET e == PosixEvent(operation, success, returned, size, flags, protection)
         IN /\ Describes(e, operation, success, returned, size, flags, protection)
            /\ operation = "mmap" => \A expectation :
                 Describes(apply_expectation(e, expectation), operation, success, returned,
                           size, flags, protection)
<1> DEFINE s == effective_size(size)
           a == IF success THEN returned ELSE 0
           n == IF success THEN s ELSE 0
           e == PosixEvent(operation, success, returned, size, flags, protection)
<1>1. e = [platform |-> "posix", operation |-> operation, success |-> success,
           domain |-> "errno", requestedSize |-> size, returned |-> a, address |-> a,
           size |-> n, flags |-> flags, exact |-> FALSE, expected |-> 0,
           violation |-> "none", protection |-> protection]
  BY DEF PosixEvent
<1>2. n = IF success THEN effective_size(size) ELSE 0
  OBVIOUS
<1>3. a = IF success THEN returned ELSE 0
  OBVIOUS
<1> HIDE DEF a, n, s
<1>4. Describes(e, operation, success, returned, size, flags, protection)
  BY <1>1, <1>2, <1>3 DEF Describes, ExpectedViolation
<1>5. ASSUME operation = "mmap", NEW expectation
      PROVE  Describes(apply_expectation(e, expectation), operation, success, returned,
                       size, flags, protection)
  <2> DEFINE f == apply_expectation(e, expectation)
             v == IF success /\ a # expectation.address
                    THEN "exact_address_relocated" ELSE "none"
  <2>1. CASE expectation.kind = "null"
    <3>1. f = e
      BY <2>1 DEF apply_expectation
    <3> QED
      BY <1>4, <3>1
  <2>2. CASE expectation.kind = "malformed"
    <3>1. f = [e EXCEPT !.violation = "invalid_expectation"]
      BY <2>2 DEF apply_expectation
    <3> HIDE DEF e, f
    <3>2. f = [platform |-> "posix", operation |-> operation, success |-> success,
               domain |-> "errno", requestedSize |-> size, returned |-> a, address |-> a,
               size |-> n, flags |-> flags, exact |-> FALSE, expected |-> 0,
               violation |-> "invalid_expectation", protection |-> protection]
      BY <1>1, <3>1
    <3>3. Describes(f, operation, success, returned, size, flags, protection)
      BY <1>2, <1>3, <3>2 DEF Describes, ExpectedViolation
    <3> QED
      BY <3>3 DEF f
  <2>3. CASE expectation.kind # "null" /\ expectation.kind # "malformed"
    <3>1. f = [e EXCEPT !.exact = TRUE, !.expected = expectation.address, !.violation = v]
      BY <1>1, <2>3 DEF apply_expectation
    <3>2. v = IF success /\ a # expectation.address
                THEN "exact_address_relocated" ELSE "none"
      OBVIOUS
    <3> HIDE DEF e, f, v
    <3>3. f = [platform |-> "posix", operation |-> operation, success |-> success,
               domain |-> "errno", requestedSize |-> size, returned |-> a, address |-> a,
               size |-> n, flags |-> flags, exact |-> TRUE,
               expected |-> expectation.address, violation |-> v,
               protection |-> protection]
      BY <1>1, <3>1
    <3>4. v = ExpectedViolation(f)
      BY <3>2, <3>3 DEF ExpectedViolation
    <3>5. Describes(f, operation, success, returned, size, flags, protection)
      BY <1>2, <1>3, <1>5, <3>3, <3>4 DEF Describes
    <3> QED
      BY <3>5 DEF f
  <2> QED
    BY <2>1, <2>2, <2>3
<1> QED
  BY <1>4, <1>5

\* The event of a call that the code and the kernel can make.
CallEvent(e) ==
  /\ e.platform = "posix" /\ e.domain = "errno"
  /\ e.operation \in PosixOperations /\ e.success \in BOOLEAN /\ e.returned \in Nat
  /\ e.requestedSize \in Nat /\ e.protection \in Nat
  /\ e.address = e.returned /\ (~e.success => e.returned = 0)
  /\ e.size = IF e.success THEN effective_size(e.requestedSize) ELSE 0
  /\ e.success => Aligned(e.address) /\ Inside(e.address, e.requestedSize)
  /\ e.flags \subseteq AllowedFlags(e.operation)
  /\ RequiredFlags(e.operation, e.success) \subseteq e.flags
  /\ e.exact \in BOOLEAN /\ (e.exact => e.operation = "mmap")
  /\ e.violation = ExpectedViolation(e)

LEMMA DescribedIsCallEvent ==
  ASSUME NEW e, NEW operation \in PosixOperations, NEW success \in BOOLEAN,
         NEW returned \in Nat, NEW size \in Nat, NEW flags, NEW protection \in Nat,
         flags \subseteq AllowedFlags(operation),
         RequiredFlags(operation, success) \subseteq flags,
         success => Aligned(returned) /\ Inside(returned, size),
         Describes(e, operation, success, returned, size, flags, protection)
  PROVE  CallEvent(e) /\ e # NoCall
<1>1. CallEvent(e)
  BY DEF Describes, CallEvent
<1> QED
  BY <1>1 DEF CallEvent, PosixOperations, NoCall

\* The invariant of a call whose event says what it did, and the pages of the
\* event.
LEMMA DescribedCall ==
  ASSUME PosixInv, NEW t \in started, NEW e, CallEvent(e),
         e.success /\ e.requestedSize = 0 => emptyCall',
         pending'[t] = e, started' = started, pageSize' = pageSize
  PROVE  /\ CallInv(t)'
         /\ ~e.success \/ e.requestedSize = 0 => PagesOf(e.address, e.size) = {}
         /\ e.success /\ e.requestedSize # 0 /\ pageSize = 0 => Doomed(e)
         /\ e.success /\ e.requestedSize # 0 /\ pageSize = PageSize =>
              PagesOf(e.address, e.size) = PagesOf(e.address, e.requestedSize)
<1> DEFINE size == e.requestedSize
<1>1. pageSize \in {0, PageSize} /\ PageSize \in Nat \ {0} /\ Limit \in Nat
  BY LimitBounds DEF PosixInv, PosixTypes
<1>2. /\ e.platform = "posix" /\ e.domain = "errno" /\ e.operation \in PosixOperations
      /\ e.success \in BOOLEAN /\ e.address \in Nat /\ size \in Nat /\ e.protection \in Nat
      /\ e.address = e.returned /\ (~e.success => e.address = 0)
      /\ e.size = (IF e.success THEN effective_size(size) ELSE 0)
      /\ e.success => Aligned(e.address) /\ Inside(e.address, size)
      /\ e.flags \subseteq AllowedFlags(e.operation)
      /\ RequiredFlags(e.operation, e.success) \subseteq e.flags
      /\ e.exact \in BOOLEAN /\ (e.exact => e.operation = "mmap")
      /\ e.violation = ExpectedViolation(e)
  BY DEF CallEvent
<1> HIDE DEF size
<1>3. effective_size(0) = 0 /\ (pageSize = 0 => effective_size(size) = 0)
  BY DEF effective_size
<1>4. ASSUME e.success, size # 0, pageSize = PageSize
      PROVE  /\ e.size \in Nat \ {0} /\ e.size % PageSize = 0
             /\ e.address + e.size <= Limit
             /\ PagesOf(e.address, e.size) = PagesOf(e.address, size)
  <2>1. Aligned(e.address) /\ Inside(e.address, size) /\ size \in Nat \ {0}
    BY <1>2, <1>4
  <2>2. PagesOf(e.address, effective_size(size)) = PagesOf(e.address, size)
    BY <1>2, <1>4, <2>1, PagesOfEffective
  <2>3. LET s == effective_size(size)
        IN s \in Nat \ {0} /\ s % PageSize = 0 /\ e.address + s <= Limit
    BY <1>2, <1>4, <2>1, EffectiveSize
  <2> QED
    BY <1>2, <1>4, <2>2, <2>3
<1>5. e.size \in Nat /\ e.size % PageSize = 0 /\ e.address + e.size <= Limit
  <2>1. 0 % PageSize = 0
    BY <1>1
  <2>2. CASE ~e.success
    BY <1>1, <1>2, <2>1, <2>2
  <2>3. CASE e.success /\ (size = 0 \/ pageSize = 0)
    <3>1. e.address <= Limit
      BY <1>1, <1>2, <2>3 DEF Inside, Limit
    <3> QED
      BY <1>1, <1>2, <1>3, <2>1, <2>3, <3>1
  <2>4. CASE e.success /\ size # 0 /\ pageSize = PageSize
    BY <1>2, <1>4, <2>4
  <2> QED
    BY <1>1, <2>2, <2>3, <2>4
<1>6. Aligned(e.address) /\ Inside(e.address, e.size)
  <2>1. Aligned(0)
    BY <1>1 DEF Aligned
  <2> QED
    BY <1>2, <1>5, <2>1 DEF Inside, Limit
<1>7. ~e.success \/ size = 0 => PagesOf(e.address, e.size) = {}
  <2>1. ~e.success \/ size = 0 => e.size = 0
    BY <1>2, <1>3
  <2>2. PagesOf(e.address, 0) = {}
    BY <1>2, <1>6, PagesOfEffective
  <2> QED
    BY <2>1, <2>2
<1>8. e.success /\ size # 0 /\ pageSize = 0 => Doomed(e)
  BY <1>2, <1>3 DEF Doomed
<1>9. Doomed(e) => emptyCall' \/ pageSize = 0
  <2> SUFFICES ASSUME Doomed(e), size # 0, pageSize # 0 PROVE FALSE
    BY DEF Doomed, size
  <2> QED
    BY <1>1, <1>2, <1>4 DEF Doomed
<1>10. Doomed(e) \/ ValidEvent(e, "posix")
  <2> SUFFICES ASSUME ~Doomed(e) PROVE ValidEvent(e, "posix")
    OBVIOUS
  <2>1. e.success => e.requestedSize # 0 /\ e.size # 0
    BY <1>2, <1>3, ~Doomed(e) DEF Doomed, size
  <2>2. "posix" = Platform(e.operation) /\ ErrorDomain("posix") = "errno"
    BY <1>2 DEF Platform, ErrorDomain
  <2>3. ~SupportsExpectation(e.operation) => ~e.exact
    BY <1>2 DEF SupportsExpectation
  <2> QED
    BY <1>2, <2>1, <2>2, <2>3 DEF ValidEvent
<1>11. TypedEvent(e)
  BY <1>2, <1>5 DEF TypedEvent
<1>12. CallInv(t)'
  <2>1. /\ pending'[t] = e /\ t \in started' /\ pageSize' = pageSize
        /\ (~e.success => e.address = 0 /\ e.size = 0)
        /\ (pageSize = 0 => e.size = 0)
    BY <1>2, <1>3
  <2> QED
    BY <1>1, <1>2, <1>5, <1>6, <1>9, <1>10, <1>11, <2>1
    DEF CallInv, TypedEvent, Aligned, Inside, Doomed, ExpectedViolation, ValidEvent,
        NoCall, Platform, ErrorDomain, SupportsExpectation, AllowedFlags, RequiredFlags
<1> QED
  BY <1>4, <1>7, <1>8, <1>12 DEF size

\* A page that no other call is about when thread t changes it.
LEMMA TouchedPage ==
  ASSUME PosixInv, NEW t \in started, pending[t] = NoCall, NEW e, e # NoCall,
         Finish(t, e), UNCHANGED <<vars, started, pageSize>>,
         NEW p \in PageSet, p \in PagesOf(e.address, e.size), Touching(p) = {},
         p \notin uncertain',
         ~Unmap(e) => kernel'[p].mapped /\ kernel'[p].protection = e.protection,
         Unmap(e) => kernel'[p] = NotMapped /\ (started = {t} \/ SeenMapped(p)),
         started = {t} /\ PlainMap(e) => SeenFree(p),
         started = {t} /\ e.operation = "mprotect" => SeenMapped(p)
  PROVE  PageInv(p)'
<1>1. Touching(p)' = {t} /\ pending'[t] = e /\ started' = started /\ \A b : Byte(b)' = Byte(b)
  BY NewCall
<1>2. (SeenMapped(p) <=> SeenMapped(p)') /\ (SeenFree(p) <=> SeenFree(p)')
  BY <1>1 DEF SeenMapped, SeenFree, PageBytes
<1>3. CallOnPage(t, p)'
  BY <1>1, <1>2 DEF CallOnPage, Unmap, PlainMap, NotMapped
<1> QED
  BY <1>1, <1>3 DEF PageInv

\* A free page that the kernel gives away while the call that unmapped it has
\* still to be recorded, or after.
LEMMA GivenPage ==
  ASSUME PosixInv, NEW t \in started, pending[t] = NoCall, NEW e, e # NoCall,
         Finish(t, e), UNCHANGED <<vars, started, pageSize>>,
         NEW p \in PageSet, p \in PagesOf(e.address, e.size), PageInv(p),
         ~kernel[p].mapped, PlainMap(e), p \notin uncertain',
         kernel'[p].mapped, kernel'[p].protection = e.protection
  PROVE  PageInv(p)'
<1>1. /\ Touching(p)' = Touching(p) \cup {t} /\ pending'[t] = e /\ started' = started
      /\ \A b : Byte(b)' = Byte(b)
      /\ \A u \in Touching(p) : u \in Threads /\ u # t /\ pending'[u] = pending[u]
  <2>1. \A u \in Touching(p) : u \in Threads /\ u # t
    BY NewCall
  <2> QED
    BY <2>1, NewCall
<1>2. (SeenMapped(p) <=> SeenMapped(p)') /\ (SeenFree(p) <=> SeenFree(p)')
  BY <1>1 DEF SeenMapped, SeenFree, PageBytes
<1>3. \A u \in Touching(p) : Unmap(pending[u])
  BY DEF PageInv, CallOnPage
<1>4. \A u, v \in Touching(p) : u = v
  BY <1>3 DEF PageInv, Unmap, PlainMap
<1>5. ASSUME Touching(p) = {}
      PROVE  PageInv(p)'
  <2>1. SeenFree(p)
    BY <1>5 DEF PageInv, Agrees, SeenFree
  <2>2. ~Unmap(e) /\ e.operation # "mprotect"
    BY DEF Unmap, PlainMap
  <2> QED
    BY <1>5, <2>1, <2>2, TouchedPage
<1>6. ASSUME NEW u \in Touching(p)
      PROVE  PageInv(p)'
  <2>1. u \in started /\ u # t /\ started # {t} /\ started # {u}
    BY <1>1 DEF PosixInv, CallInv, Touching, Waiting
  <2>2. Touching(p)' = {t, u} /\ Touching(p)' # {u}
    BY <1>1, <1>4, <2>1
  <2>3. CallOnPage(t, p)'
    BY <1>1, <2>1 DEF CallOnPage, Unmap, PlainMap
  <2>4. Unmap(pending'[u]) /\ SeenMapped(p)'
    BY <1>1, <1>2, <1>3, <2>1 DEF PageInv, CallOnPage
  <2>5. CallOnPage(u, p)'
    BY <1>1, <2>1, <2>2, <2>4 DEF CallOnPage, Unmap
  <2> QED
    BY <1>1, <2>2, <2>3, <2>4, <2>5 DEF PageInv, Unmap, PlainMap
<1> QED
  BY <1>5, <1>6

-----------------------------------------------------------------------------
(* The calls preserve the invariant.                                       *)

LEMMA MmapFails ==
  ASSUME PosixInv, status = "running", NEW t \in started, NEW size \in Sizes,
         NEW fixed \in BOOLEAN, NEW protection \in Protections, NEW expectation,
         rs_mmap_fails(t, size, fixed, protection, expectation)
  PROVE  PosixInv'
<1> DEFINE flags == IF fixed THEN {"replace"} ELSE {}
           built == PosixEvent("mmap", FALSE, 0, size, flags, protection)
           e == apply_expectation(built, expectation)
<1>1. /\ pending[t] = NoCall /\ Finish(t, e) /\ kernel' = kernel /\ uncertain' = uncertain
      /\ emptyCall' = emptyCall /\ UNCHANGED <<vars, started, pageSize>>
  BY DEF rs_mmap_fails
<1>2. Describes(e, "mmap", FALSE, 0, size, flags, protection)
  BY EventDescribes
<1>3. size \in Nat /\ protection \in Nat
  BY ProgramAssumption
<1>4. flags \subseteq AllowedFlags("mmap") /\ RequiredFlags("mmap", FALSE) \subseteq flags
  BY DEF AllowedFlags, RequiredFlags
<1> HIDE DEF flags, e
<1>5. e # NoCall
  BY <1>2 DEF Describes, NoCall
<1>6. pending'[t] = e /\ started' = started /\ pageSize' = pageSize
  BY <1>1, <1>5, NewCall
<1>7. CallInv(t)' /\ PagesOf(e.address, e.size) = {}
  <2>1. CallEvent(e)
    BY <1>2, <1>3, <1>4, DescribedIsCallEvent DEF PosixOperations
  <2>2. /\ e.success = FALSE /\ e.requestedSize = size
        /\ FALSE => e.address = 0
    BY <1>2 DEF Describes
  <2> QED
    BY <1>6, <2>1, <2>2, DescribedCall
<1>8. \A p \in PageSet : PageInv(p) => PageInv(p)'
  BY <1>1, <1>5, <1>7, OtherPage
<1> QED
  BY <1>1, <1>5, <1>7, <1>8, CallKeepsInv DEF PosixInv, PosixTypes

LEMMA Mmap ==
  ASSUME PosixInv, status = "running", NEW t \in started,
         NEW hint, NEW address \in Nat, NEW size \in Sizes,
         NEW fixed \in BOOLEAN, NEW protection \in Protections, NEW expectation,
         rs_mmap(t, hint, size, fixed, protection, expectation, address)
  PROVE  PosixInv'
<1> DEFINE R == PagesOf(address, size)
           flags == IF fixed THEN {"replace"} ELSE {}
           built == PosixEvent("mmap", TRUE, address, size, flags, protection)
           e == apply_expectation(built, expectation)
<1>1. /\ pending[t] = NoCall /\ Finish(t, e) /\ kernel' = Map(t, R, protection)
      /\ uncertain' = uncertain \ R
      /\ emptyCall' = emptyCall /\ UNCHANGED <<vars, started, pageSize>>
      /\ size # 0 /\ Aligned(address) /\ Inside(address, size)
      /\ fixed => Synchronized(t, R)
      /\ ~fixed => \A p \in R : ~kernel[p].mapped
  BY DEF rs_mmap
<1>2. Describes(e, "mmap", TRUE, address, size, flags, protection)
  BY EventDescribes
<1>3. size \in Nat /\ protection \in Nat /\ address \in Nat
  BY ProgramAssumption
<1>4. flags \subseteq AllowedFlags("mmap") /\ RequiredFlags("mmap", TRUE) \subseteq flags
  BY DEF AllowedFlags, RequiredFlags
<1>5. fixed <=> "replace" \in flags
  OBVIOUS
<1>6. R \subseteq PageSet
  BY DEF PagesOf, PageSet
<1> HIDE DEF flags, e, R
<1>7. e # NoCall /\ e.operation = "mmap" /\ e.flags = flags /\ e.protection = protection
  BY <1>2 DEF Describes, NoCall
<1>8. pending'[t] = e /\ started' = started /\ pageSize' = pageSize
  BY <1>1, <1>7, NewCall
<1>9. /\ CallInv(t)' /\ (pageSize = 0 => Doomed(e))
      /\ pageSize = PageSize => PagesOf(e.address, e.size) = R
  <2>1. CallEvent(e)
    BY <1>1, <1>2, <1>3, <1>4, DescribedIsCallEvent DEF PosixOperations
  <2>2. /\ e.success = TRUE /\ e.requestedSize = size
        /\ TRUE => e.address = address
    BY <1>2 DEF Describes
  <2> QED
    BY <1>1, <1>8, <2>1, <2>2, DescribedCall DEF R
<1>10. /\ DOMAIN kernel = PageSet /\ t \in Threads /\ pageSize \in {0, PageSize}
       /\ kernel \in [PageSet -> [mapped : BOOLEAN, protection : Nat,
                                  owner : Threads \cup {"nobody"}]]
       /\ \A p \in PageSet : ~kernel[p].mapped => kernel[p] = NotMapped
       /\ emptyCall \in BOOLEAN
  BY DEF PosixInv, PosixTypes
<1>11. kernel' = [p \in PageSet |->
                    IF p \in R THEN [mapped |-> TRUE, protection |-> protection, owner |-> t]
                               ELSE kernel[p]]
  BY <1>1, <1>10 DEF Map
<1>12. /\ kernel' \in [PageSet -> [mapped : BOOLEAN, protection : Nat,
                                   owner : Threads \cup {"nobody"}]]
       /\ \A p \in PageSet : ~kernel'[p].mapped => kernel'[p] = NotMapped
  BY <1>3, <1>10, <1>11
<1>13. ASSUME pageSize = PageSize, NEW p \in PageSet, PageInv(p)
       PROVE  PageInv(p)'
  <2>1. CASE p \notin R
    <3>1. kernel'[p] = kernel[p] /\ (p \in uncertain' <=> p \in uncertain)
      BY <1>1, <1>11, <2>1
    <3> QED
      BY <1>1, <1>7, <1>9, <1>13, <2>1, <3>1, OtherPage
  <2>2. CASE p \in R
    <3>1. /\ p \notin uncertain' /\ kernel'[p].mapped
          /\ kernel'[p].protection = e.protection /\ p \in PagesOf(e.address, e.size)
      BY <1>1, <1>7, <1>9, <1>11, <1>13, <2>2
    <3>2. CASE fixed
      <4>1. Touching(p) = {}
        BY <1>1, <2>2, <3>2, SynchronizedPage
      <4>2. ~Unmap(e) /\ ~PlainMap(e) /\ e.operation # "mprotect"
        BY <1>5, <1>7, <3>2 DEF Unmap, PlainMap
      <4> QED
        BY <1>1, <1>7, <3>1, <4>1, <4>2, TouchedPage
    <3>3. CASE ~fixed
      <4>1. ~kernel[p].mapped /\ PlainMap(e)
        BY <1>1, <1>5, <1>7, <2>2, <3>3 DEF PlainMap
      <4> QED
        BY <1>1, <1>7, <1>13, <3>1, <4>1, GivenPage
    <3> QED
      BY <3>2, <3>3
  <2> QED
    BY <2>1, <2>2
<1>14. (Doomed(e) /\ pageSize = 0) \/ \A p \in PageSet : PageInv(p) => PageInv(p)'
  BY <1>9, <1>10, <1>13
<1> QED
  BY <1>1, <1>7, <1>9, <1>10, <1>12, <1>14, CallKeepsInv

LEMMA Munmap ==
  ASSUME PosixInv, status = "running", NEW t \in started,
         NEW address \in Nat, NEW size \in Sizes,
         rs_munmap(t, address, size)
  PROVE  PosixInv'
<1> DEFINE R == PagesOf(address, size)
           success == Aligned(address) /\ size # 0 /\ Inside(address, size)
           e == PosixEvent("munmap", success, address, size, {"release"}, 0)
<1>1. /\ pending[t] = NoCall /\ Finish(t, e) /\ Unmappable(t, R)
      /\ kernel' = [p \in DOMAIN kernel |-> IF success /\ p \in R
                                              THEN NotMapped ELSE kernel[p]]
      /\ uncertain' = IF success THEN uncertain \ R ELSE uncertain
      /\ emptyCall' = emptyCall /\ UNCHANGED <<vars, started, pageSize>>
  BY DEF rs_munmap
<1>2. success \in BOOLEAN /\ (success => size # 0 /\ Aligned(address) /\ Inside(address, size))
  BY DEF Aligned, Inside
<1>3. Describes(e, "munmap", success, address, size, {"release"}, 0)
  BY <1>2, EventDescribes
<1>4. size \in Nat /\ address \in Nat
  BY ProgramAssumption
<1>5. /\ {"release"} \subseteq AllowedFlags("munmap")
      /\ RequiredFlags("munmap", success) \subseteq {"release"}
  BY DEF AllowedFlags, RequiredFlags
<1> HIDE DEF e, R, success
<1>6. e # NoCall /\ e.operation = "munmap" /\ Unmap(e) /\ ~PlainMap(e)
  BY <1>3 DEF Describes, NoCall, Unmap, PlainMap
<1>7. pending'[t] = e /\ started' = started /\ pageSize' = pageSize
  BY <1>1, <1>6, NewCall
<1>8. /\ CallInv(t)' /\ (~success => PagesOf(e.address, e.size) = {})
      /\ success /\ pageSize = 0 => Doomed(e)
      /\ success /\ pageSize = PageSize => PagesOf(e.address, e.size) = R
  <2>1. CallEvent(e)
    BY <1>2, <1>3, <1>4, <1>5, DescribedIsCallEvent DEF PosixOperations
  <2>2. /\ e.success = success /\ e.requestedSize = size
        /\ success => e.address = address
    BY <1>3 DEF Describes
  <2> QED
    BY <1>2, <1>7, <2>1, <2>2, DescribedCall DEF R
<1>9. /\ DOMAIN kernel = PageSet /\ t \in Threads /\ pageSize \in {0, PageSize}
      /\ kernel \in [PageSet -> [mapped : BOOLEAN, protection : Nat,
                                 owner : Threads \cup {"nobody"}]]
      /\ \A p \in PageSet : ~kernel[p].mapped => kernel[p] = NotMapped
      /\ emptyCall \in BOOLEAN
  BY DEF PosixInv, PosixTypes
<1>10. kernel' = [p \in PageSet |-> IF success /\ p \in R THEN NotMapped ELSE kernel[p]]
  BY <1>1, <1>9
<1>11. /\ kernel' \in [PageSet -> [mapped : BOOLEAN, protection : Nat,
                                   owner : Threads \cup {"nobody"}]]
       /\ \A p \in PageSet : ~kernel'[p].mapped => kernel'[p] = NotMapped
  BY <1>9, <1>10 DEF NotMapped
<1>12. ASSUME ~success \/ pageSize = PageSize, NEW p \in PageSet, PageInv(p)
       PROVE  PageInv(p)'
  <2>1. CASE ~success \/ p \notin R
    <3>1. kernel'[p] = kernel[p] /\ (p \in uncertain' <=> p \in uncertain)
      BY <1>1, <1>10, <2>1
    <3> QED
      BY <1>1, <1>6, <1>8, <1>12, <2>1, <3>1, OtherPage
  <2>2. CASE success /\ p \in R
    <3>1. /\ p \notin uncertain' /\ kernel'[p] = NotMapped
          /\ p \in PagesOf(e.address, e.size)
      BY <1>1, <1>8, <1>10, <1>12, <2>2
    <3>2. Touching(p) = {}
      BY <1>1, <2>2, SynchronizedPage DEF Unmappable
    <3>3. started = {t} \/ SeenMapped(p)
      <4>1. CASE kernel[p].owner = t
        <5>1. kernel[p].mapped
          BY <1>9, <4>1, PosixThreadsAssumption DEF NotMapped
        <5> QED
          BY <1>12, <3>2, <5>1 DEF PageInv, Agrees, SeenMapped
      <4> QED
        BY <1>1, <2>2, <4>1 DEF Unmappable
    <3> QED
      BY <1>1, <1>6, <3>1, <3>2, <3>3, TouchedPage
  <2> QED
    BY <2>1, <2>2
<1>13. (Doomed(e) /\ pageSize = 0) \/ \A p \in PageSet : PageInv(p) => PageInv(p)'
  BY <1>2, <1>8, <1>9, <1>12
<1> QED
  BY <1>1, <1>6, <1>8, <1>9, <1>11, <1>13, CallKeepsInv

LEMMA Mprotect ==
  ASSUME PosixInv, status = "running", NEW t \in started,
         NEW address \in Nat, address <= Limit, NEW size \in Sizes,
         NEW protection \in Protections, rs_mprotect(t, address, size, protection)
  PROVE  PosixInv'
<1> DEFINE R == PagesOf(address, size)
           mapped == {p \in R : kernel[p].mapped}
           success == /\ Aligned(address)
                      /\ size # 0 => Inside(address, size) /\ mapped = R
           changed == IF success THEN {R} ELSE SUBSET mapped
           flags == {}
           e == PosixEvent("mprotect", success, address, size, flags, protection)
<1>1. PICK C \in (IF Aligned(address) THEN changed ELSE {{}}) :
        /\ kernel' = [p \in DOMAIN kernel |->
                        IF p \in C THEN [kernel[p] EXCEPT !.protection = protection]
                                   ELSE kernel[p]]
        /\ uncertain' = IF success THEN uncertain \ C ELSE uncertain \cup C
  BY DEF rs_mprotect
<1>2. /\ pending[t] = NoCall /\ Finish(t, e) /\ Synchronized(t, R)
      /\ emptyCall' = (emptyCall \/ (success /\ size = 0))
      /\ UNCHANGED <<vars, started, pageSize>>
  BY DEF rs_mprotect
<1>3. /\ success \in BOOLEAN
      /\ success => Aligned(address) /\ Inside(address, size)
      /\ success /\ size # 0 => \A p \in R : kernel[p].mapped
  <2>1. Inside(address, 0)
    BY DEF Inside, Limit
  <2> QED
    BY <2>1 DEF Aligned, Inside
<1>4. /\ C \subseteq R /\ (success => C = R)
      /\ ~success => \A p \in C : kernel[p].mapped
  BY <1>1 DEF Aligned
<1>5. Describes(e, "mprotect", success, address, size, flags, protection)
  BY <1>3, EventDescribes
<1>6. size \in Nat /\ address \in Nat /\ protection \in Nat
  BY ProgramAssumption
<1>7. /\ flags \subseteq AllowedFlags("mprotect")
      /\ RequiredFlags("mprotect", success) \subseteq flags
  BY DEF RequiredFlags
<1>8. success /\ size = 0 => R = {}
  BY <1>3, <1>6, PagesOfEffective
<1> HIDE DEF e, flags, R, success, changed, mapped
<1>9. /\ e # NoCall /\ e.operation = "mprotect" /\ ~Unmap(e) /\ ~PlainMap(e)
      /\ e.protection = protection
  BY <1>5 DEF Describes, NoCall, Unmap, PlainMap
<1>10. pending'[t] = e /\ started' = started /\ pageSize' = pageSize
  BY <1>2, <1>9, NewCall
<1>11. /\ CallInv(t)' /\ (~success \/ size = 0 => PagesOf(e.address, e.size) = {})
       /\ success /\ size # 0 /\ pageSize = 0 => Doomed(e)
       /\ success /\ size # 0 /\ pageSize = PageSize => PagesOf(e.address, e.size) = R
  <2>1. CallEvent(e)
    BY <1>3, <1>5, <1>6, <1>7, DescribedIsCallEvent DEF PosixOperations
  <2>2. /\ e.success = success /\ e.requestedSize = size
        /\ success => e.address = address
    BY <1>5 DEF Describes
  <2>3. success /\ size = 0 => emptyCall'
    BY <1>2
  <2> QED
    BY <1>3, <1>10, <2>1, <2>2, <2>3, DescribedCall DEF R
<1>12. /\ DOMAIN kernel = PageSet /\ t \in Threads /\ pageSize \in {0, PageSize}
       /\ kernel \in [PageSet -> [mapped : BOOLEAN, protection : Nat,
                                  owner : Threads \cup {"nobody"}]]
       /\ \A p \in PageSet : ~kernel[p].mapped => kernel[p] = NotMapped
       /\ emptyCall \in BOOLEAN
  BY DEF PosixInv, PosixTypes
<1>13. kernel' = [p \in PageSet |->
                    IF p \in C THEN [kernel[p] EXCEPT !.protection = protection]
                               ELSE kernel[p]]
  BY <1>1, <1>12
<1>14. /\ \A p \in C : kernel[p].mapped
       /\ \A p \in PageSet : kernel'[p].mapped = kernel[p].mapped
       /\ \A p \in PageSet \cap C : kernel'[p].protection = protection
       /\ \A p \in PageSet \ C : kernel'[p] = kernel[p]
  <2>1. \A p \in C : kernel[p].mapped
    BY <1>3, <1>4, <1>8
  <2> QED
    BY <1>12, <1>13, <2>1
<1>15. /\ kernel' \in [PageSet -> [mapped : BOOLEAN, protection : Nat,
                                   owner : Threads \cup {"nobody"}]]
       /\ \A p \in PageSet : ~kernel'[p].mapped => kernel'[p] = NotMapped
  <2>1. ASSUME NEW p \in PageSet
        PROVE  kernel'[p] \in [mapped : BOOLEAN, protection : Nat,
                               owner : Threads \cup {"nobody"}]
    BY <1>6, <1>12, <1>13
  <2>2. ASSUME NEW p \in PageSet, ~kernel'[p].mapped
        PROVE  kernel'[p] = NotMapped
    BY <1>12, <1>14, <2>2
  <2> QED
    BY <1>13, <2>1, <2>2
<1>16. ASSUME ~success \/ size = 0 \/ pageSize = PageSize, NEW p \in PageSet, PageInv(p)
       PROVE  PageInv(p)'
  <2>1. CASE p \notin C
    <3>1. kernel'[p] = kernel[p] /\ (p \in uncertain' <=> p \in uncertain)
      BY <1>1, <1>14, <2>1
    <3>2. p \notin PagesOf(e.address, e.size)
      BY <1>4, <1>11, <1>16, <2>1
    <3> QED
      BY <1>2, <1>9, <1>16, <3>1, <3>2, OtherPage
  <2>2. CASE p \in C
    <3>1. p \in R /\ Touching(p) = {} /\ kernel[p].mapped
      BY <1>2, <1>4, <1>14, <2>2, SynchronizedPage
    <3>2. Agrees(p) /\ SeenMapped(p)
      BY <1>16, <3>1 DEF PageInv, Agrees, SeenMapped
    <3>3. CASE success
      <4>1. /\ size # 0 /\ p \notin uncertain' /\ kernel'[p].mapped
            /\ kernel'[p].protection = e.protection /\ p \in PagesOf(e.address, e.size)
        BY <1>1, <1>8, <1>9, <1>11, <1>14, <1>16, <2>2, <3>1, <3>3
      <4> QED
        BY <1>2, <1>9, <3>1, <3>2, <4>1, TouchedPage
    <3>4. CASE ~success
      <4>1. p \in uncertain' /\ kernel'[p].mapped = kernel[p].mapped
        BY <1>1, <1>14, <2>2, <3>4
      <4>2. Touching(p)' = {} /\ \A b : Byte(b)' = Byte(b)
        BY <1>2, <1>9, <1>11, <3>1, <3>4, NewCall
      <4>3. Agrees(p)'
        BY <3>2, <4>1, <4>2 DEF Agrees, PageBytes
      <4> QED
        BY <4>2, <4>3 DEF PageInv
    <3> QED
      BY <3>3, <3>4
  <2> QED
    BY <2>1, <2>2
<1>17. (Doomed(e) /\ pageSize = 0) \/ \A p \in PageSet : PageInv(p) => PageInv(p)'
  BY <1>3, <1>11, <1>12, <1>16
<1>18. emptyCall => emptyCall' /\ emptyCall' \in BOOLEAN
  BY <1>2, <1>3, <1>12
<1> QED
  BY <1>2, <1>3, <1>9, <1>11, <1>12, <1>15, <1>17, CallKeepsInv

\* The thread that starts another one is in no call, so no call was made alone
\* that is now one of several.
LEMMA ThreadStarts ==
  ASSUME PosixInv, status = "running", NEW t \in started, NEW u \in Threads,
         StartThread(t, u)
  PROVE  PosixInv'
<1>1. /\ pending[t] = NoCall /\ u \notin started /\ started' = started \cup {u}
      /\ pending' = pending /\ segments' = segments /\ status' = status
      /\ platform' = platform /\ kernel' = kernel /\ pageSize' = pageSize
      /\ uncertain' = uncertain /\ emptyCall' = emptyCall
  BY DEF StartThread, vars
<1>2. Sorted(segments)' /\ SerialInv'
  BY <1>1 DEF PosixInv, Sorted, SerialInv
<1>3. PosixTypes'
  BY <1>1 DEF PosixInv, PosixTypes, PageSet, NotMapped
<1>4. ASSUME NEW v \in Threads
      PROVE  CallInv(v)'
  <2>1. CallInv(v)
    BY DEF PosixInv
  <2> QED
    BY <1>1, <2>1 DEF CallInv, TypedEvent, Aligned, Inside, Doomed, ExpectedViolation,
                      ValidEvent, NoCall, Platform, ErrorDomain, SupportsExpectation,
                      AllowedFlags, RequiredFlags
<1>5. Waiting' = Waiting /\ \A p : Touching(p)' = Touching(p)
  BY <1>1 DEF Waiting, Touching, NoCall, PagesOf
<1>6. ASSUME NEW p \in PageSet, PageInv(p)
      PROVE  PageInv(p)'
  <2>1. \A b : Byte(b)' = Byte(b)
    BY <1>1 DEF Byte, Memory
  <2>2. /\ Agrees(p) => Agrees(p)'
        /\ SeenMapped(p) => SeenMapped(p)'
    BY <1>1, <2>1 DEF Agrees, SeenMapped, PageBytes
  <2>3. ASSUME NEW v \in Touching(p)
        PROVE  CallOnPage(v, p)'
    <3>1. CallOnPage(v, p) /\ v # t
      BY <1>1, <1>6 DEF PageInv, Touching, Waiting
    <3>2. started # {v} /\ started' # {v}
      BY <1>1, <3>1
    <3> QED
      BY <1>1, <1>5, <2>2, <3>1, <3>2 DEF CallOnPage, Unmap, PlainMap, NotMapped
  <2> QED
    BY <1>1, <1>5, <1>6, <2>2, <2>3 DEF PageInv, Unmap, PlainMap
<1>7. PagesInv'
  <2>1. CASE pageSize = 0 /\ \E v \in Waiting : Doomed(pending[v])
    BY <1>1, <1>5, <2>1 DEF PagesInv, Doomed
  <2>2. CASE \A p \in PageSet : PageInv(p)
    BY <1>6, <2>2 DEF PagesInv, PageSet
  <2> QED
    BY <2>1, <2>2 DEF PosixInv, PagesInv
<1> QED
  BY <1>2, <1>3, <1>4, <1>7 DEF PosixInv

-----------------------------------------------------------------------------
(* Recording preserves the invariant.                                      *)

LEMMA PageOfByte ==
  ASSUME NEW b \in Nat, b < Limit
  PROVE  \E p \in PageSet : b \in PageBytes(p)
<1> DEFINE p == b \div PageSize
<1>1. PageSize \in Nat \ {0} /\ Pages \in Nat \ {0}
  BY PagesAssumption, ProgramAssumption
<1>2. LET m == b - (b % PageSize)
      IN m \in Nat /\ m <= b /\ b < m + PageSize /\ m = p * PageSize
  BY <1>1, AlignedDown
<1>3. p \in Nat
  BY <1>1
<1> HIDE DEF p
<1>4. p * PageSize \in Nat /\ p * PageSize <= b /\ b < p * PageSize + PageSize
  BY <1>2
<1>5. p < Pages
  <2> SUFFICES ASSUME Pages <= p PROVE FALSE
    BY <1>1, <1>3
  <2>1. PICK k \in Nat : p = Pages + k
    <3>1. p - Pages \in Nat /\ p = Pages + (p - Pages)
      BY <1>1, <1>3
    <3> QED
      BY <3>1
  <2>2. p * PageSize = Limit + k * PageSize /\ k * PageSize \in Nat
    BY <1>1, <2>1 DEF Limit
  <2> QED
    BY <1>1, <1>4, <2>2, LimitBounds
<1>6. p \in PageSet
  BY <1>1, <1>3, <1>5 DEF PageSet
<1>7. (p + 1) * PageSize = p * PageSize + PageSize
  BY <1>1, <1>3
<1>8. b \in PageBytes(p)
  BY <1>1, <1>4, <1>7 DEF PageBytes
<1> QED
  BY <1>6, <1>8

\* What an accepted event makes of each byte.
LEMMA RecordedByte ==
  ASSUME Sorted(segments), NEW e, TypedEvent(e), e.operation \in PosixOperations,
         Replayable(segments, e), segments' = Replayed(segments, e),
         NEW b \in 0 .. MaxAddress - 1
  PROVE  /\ b \notin RangeOf(e) => Byte(b)' = Byte(b)
         /\ b \in RangeOf(e) /\ Unmap(e) => Byte(b)' = Spaces!Free
         /\ b \in RangeOf(e) /\ e.operation = "mmap" =>
              Byte(b)' = Spaces!Mapped(e.protection, TRUE, 0)
         /\ b \in RangeOf(e) /\ e.operation = "mprotect" =>
              Byte(b)' = Spaces!Mapped(e.protection, TRUE, Byte(b).base)
<1>1. Memory(segments') = Spaces!Effect(Memory(segments), e)
  BY ReplayedIsEffect
<1>2. Byte(b)' = Memory(segments')[b] /\ Byte(b) = Memory(segments)[b]
  BY DEF Byte
<1>3. Spaces!RangeOf(e) = RangeOf(e)
  BY SameContract
<1> DEFINE m == Memory(segments)
<1>4. Byte(b)' = Spaces!Effect(m, e)[b] /\ Byte(b) = m[b]
  BY <1>1, <1>2
<1> HIDE DEF m
<1>5. b \in Spaces!Addresses
  BY DEF Spaces!Addresses
<1>6. CASE e.operation = "mmap"
  <2>1. Spaces!Effect(m, e)
          = Spaces!Assign(m, RangeOf(e), Spaces!Mapped(e.protection, TRUE, 0))
    BY <1>3, <1>6 DEF Spaces!Effect
  <2>2. Spaces!Assign(m, RangeOf(e), Spaces!Mapped(e.protection, TRUE, 0))[b]
          = IF b \in RangeOf(e) THEN Spaces!Mapped(e.protection, TRUE, 0) ELSE m[b]
    BY <1>5 DEF Spaces!Assign
  <2> QED
    BY <1>4, <1>6, <2>1, <2>2 DEF Unmap
<1>7. CASE e.operation = "munmap"
  <2>1. Spaces!Effect(m, e) = Spaces!Assign(m, RangeOf(e), Spaces!Free)
    BY <1>3, <1>7 DEF Spaces!Effect
  <2>2. Spaces!Assign(m, RangeOf(e), Spaces!Free)[b]
          = IF b \in RangeOf(e) THEN Spaces!Free ELSE m[b]
    BY <1>5 DEF Spaces!Assign
  <2> QED
    BY <1>4, <1>7, <2>1, <2>2 DEF Unmap
<1>8. CASE e.operation = "mprotect"
  <2>1. Spaces!Effect(m, e) = Spaces!Recommit(m, RangeOf(e), TRUE, e.protection)
    BY <1>3, <1>8 DEF Spaces!Effect
  <2>2. Spaces!Recommit(m, RangeOf(e), TRUE, e.protection)[b]
          = IF b \in RangeOf(e) THEN Spaces!Mapped(e.protection, TRUE, m[b].base) ELSE m[b]
    BY <1>5 DEF Spaces!Recommit
  <2> QED
    BY <1>4, <1>8, <2>1, <2>2 DEF Unmap
<1> QED
  BY <1>6, <1>7, <1>8 DEF PosixOperations

\* A thread on its own: what its call did is something replay can follow.
LEMMA SerialIsReplayable ==
  ASSUME Sorted(segments), NEW t \in Threads, started = {t}, CallInv(t),
         pending[t] # NoCall, pending[t].success, ~Doomed(pending[t]),
         \A p \in PageSet : PageInv(p)
  PROVE  Replayable(segments, pending[t])
<1> DEFINE e == pending[t]
           m == Memory(segments)
<1>1. /\ e.operation \in PosixOperations /\ TypedEvent(e) /\ Aligned(e.address)
      /\ e.size % PageSize = 0 /\ Inside(e.address, e.size) /\ e.size # 0
      /\ e.address \in Nat /\ e.size \in Nat
  BY DEF CallInv, Doomed, TypedEvent
<1>2. e.address + e.size <= Limit /\ e.address % PageSize = 0
  BY <1>1 DEF Inside, Limit, Aligned
<1>3. \A p \in PageSet : p \in PagesOf(e.address, e.size) => CallOnPage(t, p)
  BY DEF PageInv, Touching, Waiting
<1>4. ASSUME NEW a \in RangeOf(e)
      PROVE  /\ PlainMap(e) => ~m[a].mapped
             /\ e.operation = "mprotect" => m[a].mapped /\ m[a].committed
  <2>1. a \in Nat /\ a < Limit /\ a \in e.address .. e.address + e.size - 1
    BY <1>1, <1>2, LimitBounds DEF RangeOf
  <2>2. PICK p \in PageSet : a \in PageBytes(p)
    BY <2>1, PageOfByte
  <2>3. p \in PagesOf(e.address, e.size)
    BY <1>1, <1>2, <2>1, <2>2, PageOfRange
  <2>4. CallOnPage(t, p)
    BY <1>3, <2>3
  <2>5. /\ PlainMap(e) => SeenFree(p)
        /\ e.operation = "mprotect" => SeenMapped(p)
    BY <2>4 DEF CallOnPage
  <2> QED
    BY <2>2, <2>5 DEF SeenFree, SeenMapped, Byte
<1>5. Spaces!ValidRange(e) /\ Spaces!RangeOf(e) = RangeOf(e)
  <2>1. e.address + e.size <= MaxAddress
    BY <1>1, <1>2, LimitBounds
  <2> QED
    BY <1>1, <2>1, SameContract DEF ValidRange
<1> HIDE DEF e, m
<1>6. Spaces!Admits(m, e)
  <2>1. CASE e.operation = "mmap"
    <3>1. "replace" \in e.flags \/ Spaces!AllFree(m, RangeOf(e))
      BY <1>4, <2>1 DEF PlainMap, Spaces!AllFree
    <3> QED
      BY <1>5, <2>1, <3>1 DEF Spaces!Admits
  <2>2. CASE e.operation = "mprotect"
    <3>1. Spaces!AllCommitted(m, RangeOf(e))
      BY <1>4, <2>2 DEF Spaces!AllCommitted
    <3> QED
      BY <1>5, <2>2, <3>1 DEF Spaces!Admits
  <2>3. CASE e.operation = "munmap"
    BY <1>5, <2>3 DEF Spaces!Admits
  <2> QED
    BY <1>1, <2>1, <2>2, <2>3 DEF PosixOperations
<1> QED
  BY <1>1, <1>6, ReplayableIsAdmitted DEF e, m

\* A page that the recorded call was not about.
LEMMA RecordedOtherPage ==
  ASSUME NEW t \in started, NEW p \in PageSet, PageInv(p), t \notin Touching(p),
         \A u \in Touching(p) : u \in started /\ pending'[u] = pending[u],
         Touching(p)' = Touching(p), started' = started, kernel' = kernel,
         uncertain' = uncertain, \A b \in PageBytes(p) : Byte(b)' = Byte(b)
  PROVE  PageInv(p)'
<1>1. Agrees(p) => Agrees(p)'
  BY DEF Agrees, PageBytes
<1>2. SeenMapped(p) => SeenMapped(p)'
  BY DEF SeenMapped, PageBytes
<1>3. ASSUME NEW u \in Touching(p)
      PROVE  CallOnPage(u, p)'
  <2>1. CallOnPage(u, p) /\ started # {u} /\ pending'[u] = pending[u]
    BY DEF PageInv
  <2> QED
    BY <1>2, <2>1 DEF CallOnPage, Unmap, PlainMap, NotMapped
<1> QED
  BY <1>1, <1>3 DEF PageInv, Unmap, PlainMap

\* A page that the recorded call was about.
LEMMA RecordedPage ==
  ASSUME Sorted(segments), PosixTypes, NEW t \in started, CallInv(t),
         pending[t] # NoCall, NEW p \in PageSet, PageInv(p), t \in Touching(p),
         \A u \in Touching(p) \ {t} : u \in started /\ pending'[u] = pending[u],
         Touching(p)' = Touching(p) \ {t}, started' = started, kernel' = kernel,
         uncertain' = uncertain, pending[t].success,
         Replayable(segments, pending[t]),
         segments' = Replayed(segments, pending[t])
  PROVE  PageInv(p)'
<1> DEFINE e == pending[t]
<1>1. /\ e.operation \in PosixOperations /\ TypedEvent(e) /\ e.address % PageSize = 0
      /\ e.size % PageSize = 0 /\ e.address \in Nat /\ e.size \in Nat /\ e.protection \in Nat
  BY DEF CallInv, TypedEvent, Aligned
<1>2. p \in PagesOf(e.address, e.size) /\ CallOnPage(t, p)
  BY DEF Touching, PageInv
<1>3. \A b \in PageBytes(p) : b \in RangeOf(e) /\ b \in 0 .. MaxAddress - 1
  <2>1. \A b \in PageBytes(p) : b \in e.address .. e.address + e.size - 1
    BY <1>1, <1>2, PageOfRange
  <2> QED
    BY <2>1, PageBounds DEF RangeOf
<1>4. /\ p \notin uncertain /\ (~Unmap(e) => kernel[p].mapped /\ kernel[p].protection = e.protection)
      /\ Unmap(e) /\ Touching(p) = {t} => kernel[p] = NotMapped
  BY <1>2 DEF CallOnPage
<1>5. Replayable(segments, e) /\ segments' = Replayed(segments, e)
  OBVIOUS
<1>6. PlainMap(e) => \A b \in PageBytes(p) : ~Byte(b).mapped
  <2>1. Spaces!Admits(Memory(segments), e) /\ Spaces!RangeOf(e) = RangeOf(e)
    BY <1>1, <1>5, ReplayableIsAdmitted, SameContract
  <2>2. PlainMap(e) => Spaces!AllFree(Memory(segments), RangeOf(e))
    BY <2>1 DEF Spaces!Admits, PlainMap
  <2> QED
    BY <1>3, <2>2 DEF Spaces!AllFree, Byte
<1> HIDE DEF e
<1>7. ASSUME Touching(p) = {t}
      PROVE  Agrees(p)'
  <2>1. ASSUME NEW b \in PageBytes(p)
        PROVE  /\ Byte(b)'.mapped = kernel[p].mapped
               /\ kernel[p].mapped => Byte(b)'.committed
               /\ Byte(b)'.protection = kernel[p].protection
    <3>1. b \in RangeOf(e) /\ b \in 0 .. MaxAddress - 1
      BY <1>3
    <3>2. /\ Unmap(e) => Byte(b)' = Spaces!Free
          /\ e.operation = "mmap" => Byte(b)' = Spaces!Mapped(e.protection, TRUE, 0)
          /\ e.operation = "mprotect"
               => Byte(b)' = Spaces!Mapped(e.protection, TRUE, Byte(b).base)
      BY <1>1, <1>5, <3>1, RecordedByte
    <3>3. CASE Unmap(e)
      <4>1. Byte(b)'.mapped = FALSE /\ Byte(b)'.protection = 0
        BY <3>2, <3>3 DEF Spaces!Free
      <4>2. kernel[p].mapped = FALSE /\ kernel[p].protection = 0
        BY <1>4, <1>7, <3>3 DEF NotMapped
      <4> QED
        BY <4>1, <4>2
    <3>4. CASE e.operation \in {"mmap", "mprotect"}
      <4>1. /\ Byte(b)'.mapped = TRUE /\ Byte(b)'.committed = TRUE
            /\ Byte(b)'.protection = e.protection
        BY <3>2, <3>4 DEF Spaces!Mapped
      <4>2. kernel[p].mapped = TRUE /\ kernel[p].protection = e.protection
        <5>1. kernel[p].mapped \in BOOLEAN
          BY DEF PosixTypes
        <5> QED
          BY <1>4, <3>4, <5>1 DEF Unmap
      <4> QED
        BY <4>1, <4>2
    <3> QED
      BY <1>1, <3>3, <3>4 DEF PosixOperations, Unmap
  <2> QED
    BY <2>1 DEF Agrees, PageBytes
<1>8. ASSUME NEW u \in Touching(p) \ {t}
      PROVE  CallOnPage(u, p)'
  <2>1. /\ CallOnPage(u, p) /\ u \in started /\ started # {u} /\ pending'[u] = pending[u]
        /\ \/ Unmap(e) /\ PlainMap(pending[u])
           \/ Unmap(pending[u]) /\ PlainMap(e)
    BY DEF PageInv, e
  <2>2. ~(Unmap(pending[u]) /\ PlainMap(e))
    <3> SUFFICES ASSUME Unmap(pending[u]), PlainMap(e) PROVE FALSE
      OBVIOUS
    <3>1. SeenMapped(p)
      BY <2>1 DEF CallOnPage
    <3>2. p * PageSize \in PageBytes(p)
      BY PageBounds
    <3> QED
      BY <1>6, <3>1, <3>2 DEF SeenMapped
  <2>3. ~Unmap(pending[u]) /\ ~Unmap(pending'[u])
    BY <2>1, <2>2 DEF Unmap, PlainMap
  <2> QED
    BY <2>1, <2>3 DEF CallOnPage, Unmap, PlainMap
<1> QED
  BY <1>7, <1>8 DEF PageInv, Unmap, PlainMap

LEMMA Recording ==
  ASSUME PosixInv, status = "running", NEW t \in started, RecordAndReplay(t)
  PROVE  PosixInv'
<1> DEFINE e == pending[t]
<1>1. /\ e # NoCall /\ Step(e) /\ Finish(t, NoCall)
      /\ UNCHANGED <<kernel, started, pageSize, uncertain, emptyCall>>
  BY DEF RecordAndReplay
<1>2. /\ Sorted(segments) /\ PosixTypes /\ CallInv(t) /\ t \in Threads
      /\ PagesInv /\ \A u \in Threads : CallInv(u)
  BY DEF PosixInv, PosixTypes
<1>3. /\ e.operation \in PosixOperations /\ e.success \in BOOLEAN /\ TypedEvent(e)
      /\ Doomed(e) => emptyCall \/ pageSize = 0
      /\ e.violation = ExpectedViolation(e) /\ (Doomed(e) \/ ValidEvent(e, "posix"))
      /\ ~e.success => e.address = 0 /\ e.size = 0
      /\ e.address % PageSize = 0 /\ e.size % PageSize = 0
  <2>1. 0 % PageSize = 0
    BY LimitBounds
  <2> QED
    BY <1>1, <1>2, <2>1 DEF CallInv, Aligned
<1>4. /\ pending' = [u \in Threads |-> pending'[u]] /\ pending'[t] = NoCall
      /\ \A u \in Threads : u # t => pending'[u] = pending[u]
  <2>1. pending = [u \in Threads |-> pending[u]]
    BY <1>2 DEF PosixTypes
  <2> QED
    BY <1>1, <1>2, <2>1 DEF Finish
<1>5. /\ platform = "posix" /\ platform' = platform /\ kernel' = kernel
      /\ started' = started /\ pageSize' = pageSize /\ uncertain' = uncertain
      /\ emptyCall' = emptyCall
  BY <1>1, <1>2 DEF Step, PosixTypes
<1>6. Waiting' = Waiting \ {t} /\ \A p : Touching(p)' = Touching(p) \ {t}
  <2>1. Waiting' = Waiting \ {t}
    BY <1>2, <1>4 DEF Waiting, NoCall
  <2>2. ASSUME NEW p
        PROVE  Touching(p)' = Touching(p) \ {t}
    <3>1. /\ Touching(p)' = {u \in Waiting \ {t} :
                               p \in PagesOf(pending'[u].address, pending'[u].size)}
          /\ Touching(p) = {u \in Waiting : p \in PagesOf(pending[u].address, pending[u].size)}
      BY <2>1 DEF Touching, PagesOf
    <3>2. \A u \in Waiting \ {t} : pending'[u] = pending[u]
      BY <1>4 DEF Waiting
    <3> QED
      BY <3>1, <3>2
  <2> QED
    BY <2>1, <2>2
<1>7. ASSUME NEW u \in Threads
      PROVE  CallInv(u)'
  <2>1. CASE u = t
    BY <1>4, <2>1 DEF CallInv, NoCall
  <2>2. CASE u # t
    <3>1. CallInv(u) /\ pending'[u] = pending[u]
      BY <1>2, <1>4, <2>2
    <3> QED
      BY <1>5, <3>1 DEF CallInv, TypedEvent, Aligned, Inside, Doomed, ExpectedViolation,
                        ValidEvent, NoCall, Platform, ErrorDomain, SupportsExpectation,
                        AllowedFlags, RequiredFlags
  <2> QED
    BY <2>1, <2>2
<1>8. ASSUME status' \in {"running", "refused"}
      PROVE  PosixTypes'
  BY <1>2, <1>4, <1>5, <1>8 DEF PosixTypes, PageSet, NotMapped
<1>9. Doomed(e) => ~ValidEvent(e, platform)
  <2>1. e.operation # "release"
    BY <1>3 DEF PosixOperations
  <2> QED
    BY <2>1 DEF Doomed, ValidEvent
<1>10. CASE Doomed(e) \/ (e.success /\ ~Replayable(segments, e))
  <2>1. status' = "refused" /\ segments' = segments
    BY <1>1, <1>9, <1>10 DEF Step
  <2>2. emptyCall \/ pageSize = 0 \/ \A u \in Threads : started # {u}
    <3>1. CASE Doomed(e)
      BY <1>3, <3>1
    <3>2. CASE e.success /\ ~Replayable(segments, e) /\ ~Doomed(e)
      <4> SUFFICES ASSUME pageSize # 0, NEW u \in Threads, started = {u} PROVE FALSE
        OBVIOUS
      <4>1. started = {t} /\ \A p \in PageSet : PageInv(p)
        BY <1>2 DEF PagesInv
      <4> QED
        BY <1>1, <1>2, <3>2, <4>1, SerialIsReplayable
    <3> QED
      BY <1>10, <3>1, <3>2
  <2>3. SerialInv'
    BY <1>5, <2>2 DEF SerialInv
  <2>4. Sorted(segments)'
    BY <1>2, <2>1 DEF Sorted
  <2> QED
    BY <1>7, <1>8, <2>1, <2>3, <2>4 DEF PosixInv
<1>11. CASE ~Doomed(e) /\ (e.success => Replayable(segments, e))
  <2>1. /\ status' = "running"
        /\ segments' = IF e.success THEN Replayed(segments, e) ELSE segments
    BY <1>1, <1>3, <1>5, <1>11 DEF Step
  <2>2. Sorted(segments')
    BY <1>2, <1>3, <1>11, <2>1, ReplayedIsEffect
  <2>3. ASSUME NEW p \in PageSet, PageInv(p)
        PROVE  PageInv(p)'
    <3>1. \A u \in Touching(p) \ {t} : u \in started /\ pending'[u] = pending[u]
      BY <1>2, <1>4 DEF Touching, Waiting, CallInv
    <3>2. CASE t \in Touching(p)
      <4>1. e.success
        <5> SUFFICES ASSUME ~e.success PROVE FALSE
          BY <1>3
        <5>1. Aligned(0)
          BY LimitBounds DEF Aligned
        <5>2. PagesOf(0, 0) = {}
          BY <5>1, PagesOfEffective
        <5> QED
          BY <1>3, <3>2, <5>2 DEF Touching
      <4> QED
        BY <1>1, <1>2, <1>5, <1>6, <1>11, <2>1, <2>3, <3>1, <3>2, <4>1, RecordedPage
    <3>3. CASE t \notin Touching(p)
      <4>1. Touching(p)' = Touching(p)
        BY <1>6, <3>3
      <4>2. ASSUME NEW b \in PageBytes(p)
            PROVE  Byte(b)' = Byte(b)
        <5>1. CASE ~e.success
          BY <2>1, <5>1 DEF Byte, Memory
        <5>2. CASE e.success
          <6>1. p \notin PagesOf(e.address, e.size)
            BY <1>1, <1>2, <3>3 DEF Touching, Waiting
          <6>2. b \notin RangeOf(e) /\ b \in 0 .. MaxAddress - 1
            <7>1. e.address \in Nat /\ e.size \in Nat
              BY <1>3 DEF TypedEvent
            <7>2. b \notin e.address .. e.address + e.size - 1
              BY <1>3, <6>1, <7>1, PageOfRange
            <7> QED
              BY <7>2, PageBounds DEF RangeOf
          <6> QED
            BY <1>2, <1>3, <1>11, <2>1, <5>2, <6>2, RecordedByte
        <5> QED
          BY <1>3, <5>1, <5>2
      <4> QED
        BY <1>5, <2>3, <3>1, <3>3, <4>1, <4>2, RecordedOtherPage
    <3> QED
      BY <3>2, <3>3
  <2>4. PagesInv'
    <3>1. CASE pageSize = 0 /\ \E u \in Waiting : Doomed(pending[u])
      <4>1. PICK u \in Waiting : Doomed(pending[u])
        BY <3>1
      <4>2. u \in Waiting' /\ pending'[u] = pending[u]
        BY <1>4, <1>6, <1>11, <4>1 DEF Waiting
      <4> QED
        BY <1>5, <3>1, <4>1, <4>2 DEF PagesInv, Doomed
    <3>2. CASE \A p \in PageSet : PageInv(p)
      BY <2>3, <3>2 DEF PagesInv, PageSet
    <3> QED
      BY <1>2, <3>1, <3>2 DEF PagesInv
  <2>5. SerialInv'
    BY <2>1 DEF SerialInv
  <2>6. Sorted(segments)'
    BY <2>2 DEF Sorted
  <2> QED
    BY <1>7, <1>8, <2>1, <2>4, <2>5, <2>6 DEF PosixInv
<1> QED
  BY <1>3, <1>10, <1>11

-----------------------------------------------------------------------------
(* The theorems.                                                           *)

LEMMA PosixInvInit == PosixInit => PosixInv
<1> SUFFICES ASSUME PosixInit PROVE PosixInv
  OBVIOUS
<1>1. /\ segments = <<>> /\ platform = "posix" /\ status = "running"
      /\ kernel = [p \in PageSet |-> NotMapped]
      /\ pending = [t \in Threads |-> NoCall]
      /\ pageSize \in {0, PageSize} /\ emptyCall = FALSE
  BY DEF PosixInit, Init, PageSet
<1>2. started \subseteq Threads /\ started # {}
  BY DEF PosixInit
<1>3. Sorted(segments) /\ Members(segments) = {}
  BY <1>1 DEF Sorted, Members
<1>4. PosixTypes
  BY <1>1, <1>2 DEF PosixTypes, NotMapped
<1>5. \A t \in Threads : CallInv(t)
  BY <1>1 DEF CallInv
<1>6. Waiting = {} /\ \A p : Touching(p) = {}
  BY <1>1 DEF Waiting, Touching
<1>7. \A p \in PageSet : PageInv(p)
  <2> SUFFICES ASSUME NEW p \in PageSet PROVE Agrees(p)
    BY <1>6 DEF PageInv
  <2>1. ASSUME NEW b \in PageBytes(p)
        PROVE  Byte(b) = Spaces!Free
    <3>1. b \in 0 .. MaxAddress - 1
      BY PageBounds
    <3> QED
      BY <1>3, <3>1, MemoryAt DEF Byte
  <2>2. kernel[p] = NotMapped
    BY <1>1
  <2>3. /\ kernel[p].mapped = FALSE /\ kernel[p].protection = 0
        /\ \A b \in PageBytes(p) : Byte(b).mapped = FALSE /\ Byte(b).protection = 0
    BY <2>1, <2>2 DEF Spaces!Free, NotMapped
  <2> QED
    BY <2>3 DEF Agrees
<1> QED
  BY <1>1, <1>3, <1>4, <1>5, <1>7 DEF PosixInv, PagesInv, SerialInv

LEMMA PosixInvNext == PosixInv /\ [PosixNext]_posixVars => PosixInv'
<1> SUFFICES ASSUME PosixInv, [PosixNext]_posixVars PROVE PosixInv'
  OBVIOUS
<1>1. CASE PosixNext
  <2>1. status = "running"
    BY <1>1 DEF PosixNext
  <2>2. PICK t \in started :
          \/ \E u \in Threads : StartThread(t, u)
          \/ RecordAndReplay(t)
          \/ \E size \in Sizes :
               \/ \E protection \in Protections, fixed \in BOOLEAN,
                     expectation \in Expectations :
                    \/ rs_mmap_fails(t, size, fixed, protection, expectation)
                    \/ \E hint, address \in 0 .. Pages * PageSize - 1 :
                         rs_mmap(t, hint, size, fixed, protection, expectation, address)
               \/ \E address \in 0 .. Pages * PageSize - 1 :
                    \/ \E protection \in Protections :
                         rs_mprotect(t, address, size, protection)
                    \/ rs_munmap(t, address, size)
    BY <1>1 DEF PosixNext
  <2>3. \A address \in 0 .. Pages * PageSize - 1 : address \in Nat /\ address <= Limit
    BY LimitBounds DEF Limit
  <2>4. CASE \E u \in Threads : StartThread(t, u)
    BY <2>1, <2>4, ThreadStarts
  <2>5. CASE RecordAndReplay(t)
    BY <2>1, <2>5, Recording
  <2>6. CASE \E size \in Sizes, protection \in Protections, fixed \in BOOLEAN,
                expectation \in Expectations :
               rs_mmap_fails(t, size, fixed, protection, expectation)
    BY <2>1, <2>6, MmapFails
  <2>7. CASE \E size \in Sizes, protection \in Protections, fixed \in BOOLEAN,
                expectation \in Expectations :
               \E hint, address \in 0 .. Pages * PageSize - 1 :
                 rs_mmap(t, hint, size, fixed, protection, expectation, address)
    BY <2>1, <2>3, <2>7, Mmap
  <2>8. CASE \E size \in Sizes, protection \in Protections :
               \E address \in 0 .. Pages * PageSize - 1 :
                 rs_mprotect(t, address, size, protection)
    BY <2>1, <2>3, <2>8, Mprotect
  <2>9. CASE \E size \in Sizes : \E address \in 0 .. Pages * PageSize - 1 :
               rs_munmap(t, address, size)
    BY <2>1, <2>3, <2>9, Munmap
  <2> QED
    BY <2>2, <2>4, <2>5, <2>6, <2>7, <2>8, <2>9
<1>2. CASE UNCHANGED posixVars
  <2>1. /\ segments' = segments /\ platform' = platform /\ status' = status
        /\ kernel' = kernel /\ started' = started /\ pending' = pending
        /\ pageSize' = pageSize /\ uncertain' = uncertain /\ emptyCall' = emptyCall
    BY <1>2 DEF posixVars, vars
  <2>2. Sorted(segments)' /\ SerialInv' /\ PosixTypes'
    BY <2>1 DEF PosixInv, Sorted, SerialInv, PosixTypes, PageSet, NotMapped
  <2>3. \A t \in Threads : CallInv(t)'
    BY <2>1 DEF PosixInv, CallInv, TypedEvent, Aligned, Inside, Doomed,
                ExpectedViolation, ValidEvent, NoCall, Platform, ErrorDomain,
                SupportsExpectation, AllowedFlags, RequiredFlags
  <2>4. /\ Waiting' = Waiting /\ \A p : Touching(p)' = Touching(p)
        /\ \A b : Byte(b)' = Byte(b)
    BY <2>1 DEF Waiting, Touching, NoCall, PagesOf, Byte, Memory
  <2>5. ASSUME NEW p \in PageSet, PageInv(p)
        PROVE  PageInv(p)'
    <3>1. (Agrees(p) => Agrees(p)') /\ (SeenMapped(p) <=> SeenMapped(p)')
          /\ (SeenFree(p) <=> SeenFree(p)')
      BY <2>1, <2>4 DEF Agrees, SeenMapped, SeenFree, PageBytes
    <3>2. \A t \in Touching(p) : CallOnPage(t, p)'
      BY <2>1, <2>4, <2>5, <3>1 DEF PageInv, CallOnPage, Unmap, PlainMap, NotMapped
    <3> QED
      BY <2>1, <2>4, <2>5, <3>1, <3>2 DEF PageInv, Unmap, PlainMap
  <2>6. PagesInv => PagesInv'
    <3>1. CASE pageSize = 0 /\ \E t \in Waiting : Doomed(pending[t])
      BY <2>1, <2>4, <3>1 DEF PagesInv, Doomed
    <3>2. CASE \A p \in PageSet : PageInv(p)
      BY <2>5, <3>2 DEF PagesInv, PageSet
    <3> QED
      BY <3>1, <3>2 DEF PagesInv
  <2> QED
    BY <2>1, <2>2, <2>3, <2>6 DEF PosixInv
<1> QED
  BY <1>1, <1>2

\* The calls under way account, page by page, for every difference between
\* what the kernel has done and what replay knows of it.
THEOREM PosixInvariant == PosixSpec => []PosixInv
BY PosixInvInit, PosixInvNext, PTL DEF PosixSpec

\* ReplayIsThePosixKernel: a complete trace that replay has accepted says what the
\* kernel did, for any number of threads and in whatever order their calls were
\* recorded.
THEOREM AcceptedIsTheKernel == PosixSpec => []ReplayIsThePosixKernel
<1>1. PosixInv => ReplayIsThePosixKernel
  <2> SUFFICES ASSUME PosixInv, Quiescent, status = "running", NEW p \in PageSet,
                      NEW b \in PageBytes(p)
               PROVE  /\ Byte(b).mapped = kernel[p].mapped
                      /\ p \notin uncertain => Byte(b).protection = kernel[p].protection
    BY DEF ReplayIsThePosixKernel, PageSet, PageBytes, Byte
  <2>1. Waiting = {} /\ Touching(p) = {}
    BY DEF Waiting, Touching, Quiescent
  <2>2. PageInv(p)
    BY <2>1 DEF PosixInv, PagesInv
  <2> QED
    BY <2>1, <2>2 DEF PageInv, Agrees
<1> QED
  BY <1>1, PosixInvariant, PTL

\* SerialTraceReplays: nothing a single thread does makes its trace refused,
\* other than an mprotect of no bytes or a recorder without a page size.
THEOREM SerialIsAccepted == PosixSpec => []SerialTraceReplays
<1>1. PosixInv => SerialTraceReplays
  <2> SUFFICES ASSUME PosixInv, Cardinality(started) = 1, status = "refused"
               PROVE  emptyCall \/ pageSize = 0
    BY DEF SerialTraceReplays
  <2>1. started \subseteq Threads /\ IsFiniteSet(started)
    BY PosixThreadsAssumption, FS_Subset DEF PosixInv, PosixTypes
  <2>2. PICK t : started = {t}
    BY <2>1, FS_Singleton
  <2>3. t \in Threads
    BY <2>1, <2>2
  <2> QED
    BY <2>2, <2>3 DEF PosixInv, SerialInv
<1> QED
  BY <1>1, PosixInvariant, PTL

-----------------------------------------------------------------------------
(* Windows: the ranges of the calls.                                       *)

LEMMA WindowsBounds ==
  /\ PageSize \in Nat \ {0} /\ Granularity \in Nat \ {0} /\ LastAddress \in Nat
  /\ MaxAddress \in Nat /\ LastAddress <= MaxAddress - (PageSize - 1)
  /\ Bytes \subseteq 0 .. MaxAddress - 1
  /\ \A b \in Bytes : b \in Nat /\ b # 0 /\ b < LastAddress
<1>1. /\ PageSize \in Nat \ {0} /\ Granularity \in Nat \ {0} /\ Granules \in Nat \ {0}
      /\ MaxAddress \in Nat /\ LastAddress <= MaxAddress - (PageSize - 1)
  BY GranulesAssumption, ProgramAssumption, MaxAddressAssumption
<1>2. LastAddress \in Nat
  BY <1>1 DEF LastAddress
<1> QED
  BY <1>1, <1>2 DEF Bytes

\* The pages that hold a range end where the kernel still has memory.
LEMMA TouchedBounds ==
  ASSUME NEW first \in Nat, NEW start \in Nat, NEW size \in Nat \ {0}, first <= start,
         Touched(first, start, size) \subseteq Bytes
  PROVE  /\ PageUp(start + size) \in Nat /\ first < PageUp(start + size)
         /\ start + size <= PageUp(start + size)
         /\ PageUp(start + size) <= LastAddress
         /\ first # 0 /\ first \in Touched(first, start, size)
<1> DEFINE n == start + size + PageSize - 1
           up == PageUp(start + size)
<1>1. n \in Nat /\ PageSize \in Nat \ {0} /\ LastAddress \in Nat
  BY WindowsBounds
<1>2. LET m == n - (n % PageSize)
      IN m \in Nat /\ m <= n /\ n < m + PageSize /\ m = (n \div PageSize) * PageSize
  BY <1>1, AlignedDown
<1>3. up = (n \div PageSize) * PageSize
  BY DEF PageUp
<1>4. Touched(first, start, size) = first .. up - 1
  BY DEF Touched
<1> HIDE DEF up
<1>5. up \in Nat /\ n < up + PageSize
  BY <1>2, <1>3
<1>6. start + size <= up /\ first < up
  BY <1>1, <1>5
<1>7. up - 1 \in Bytes /\ first \in Bytes /\ first \in Touched(first, start, size)
  BY <1>4, <1>5, <1>6
<1>8. first # 0 /\ up <= LastAddress
  BY <1>1, <1>5, <1>7, WindowsBounds
<1> QED
  BY <1>5, <1>6, <1>7, <1>8 DEF up

\* An event with the range that was found for it.
WithRange(e, address, size) == [e EXCEPT !.address = address, !.size = size]

\* The effective range of an event is the pages that the kernel has touched, or
\* is left empty if the page size is not known.
LEMMA EffectiveRange ==
  ASSUME NEW first \in Nat, NEW start \in Nat, NEW size \in Nat \ {0}, first <= start,
         Touched(first, start, size) \subseteq Bytes, NEW e, e.requestedSize = size
  PROVE  /\ pageSize = 0 => set_effective_range(e, start, first) = e
         /\ pageSize = PageSize =>
              set_effective_range(e, start, first)
                = WithRange(e, first, PageUp(start + size) - first)
<1> DEFINE end == start + size
           up == PageUp(end)
<1>1. /\ up \in Nat /\ first < up /\ end <= up /\ up <= LastAddress /\ end \in Nat
      /\ LastAddress \in Nat /\ MaxAddress \in Nat /\ PageSize \in Nat \ {0}
      /\ LastAddress <= MaxAddress - (PageSize - 1)
  BY TouchedBounds, WindowsBounds
<1>2. pageSize = 0 => set_effective_range(e, start, first) = e
  BY DEF set_effective_range, CanAlignUp
<1>3. ASSUME pageSize = PageSize
      PROVE  set_effective_range(e, start, first)
               = WithRange(e, first, up - first)
  <2>1. align_up(end) = up
    BY <1>3 DEF align_up, PageUp
  <2> HIDE DEF up
  <2>2. CanAlignUp(end)
    BY <1>1, <1>3 DEF CanAlignUp
  <2>3. ~(start > MaxAddress - size) /\ ~(up < first)
    BY <1>1
  <2> QED
    BY <2>1, <2>2, <2>3 DEF set_effective_range, WithRange
<1> QED
  BY <1>2, <1>3

LEMMA PageOfAddress ==
  ASSUME NEW address \in Nat
  PROVE  /\ PageDown(address) \in Nat /\ PageDown(address) <= address
         /\ GranuleDown(address) \in Nat /\ GranuleDown(address) <= address
         /\ pageSize = PageSize => align_down(address) = PageDown(address)
<1>1. PageSize \in Nat \ {0} /\ Granularity \in Nat \ {0}
  BY WindowsBounds
<1>2. PageDown(address) \in Nat /\ PageDown(address) <= address
  BY <1>1, AlignedDown DEF PageDown
<1>3. GranuleDown(address) \in Nat /\ GranuleDown(address) <= address
  BY <1>1, AlignedDown DEF GranuleDown
<1>4. pageSize = PageSize => align_down(address) = PageDown(address)
  BY <1>1 DEF align_down, PageDown
<1> QED
  BY <1>2, <1>3, <1>4

-----------------------------------------------------------------------------
(* Windows: the events of the calls.                                       *)

\* The event of a call says what was asked for and what range it had.
Reports(e, operation, success, requested, flags, protection, address, size) ==
  /\ e.platform = "windows" /\ e.domain = "win32" /\ e.operation = operation
  /\ e.success = success /\ e.requestedSize = requested /\ e.flags = flags
  /\ e.protection = protection /\ e.address = address /\ e.size = size
  /\ ~success => e.returned = 0
  /\ e.exact \in BOOLEAN /\ (e.exact => operation \in AllocOperations)
  /\ e.violation = ExpectedViolation(e)

LEMMA EventReports ==
  ASSUME NEW operation, NEW success \in BOOLEAN, NEW returned, NEW requested, NEW flags,
         NEW protection, NEW address, NEW size
  PROVE  LET e == WithRange(WindowsEvent(operation, success, returned, requested, flags,
                                         protection), address, size)
         IN /\ Reports(e, operation, success, requested, flags, protection, address, size)
            /\ operation \in AllocOperations => \A expectation :
                 Reports(apply_expectation(e, expectation), operation, success, requested,
                         flags, protection, address, size)
<1> DEFINE r == IF success THEN returned ELSE 0
           d == WindowsEvent(operation, success, returned, requested, flags, protection)
           e == WithRange(d, address, size)
<1>1. d = [platform |-> "windows", operation |-> operation, success |-> success,
           domain |-> "win32", requestedSize |-> requested, returned |-> r,
           address |-> 0, size |-> 0, flags |-> flags, exact |-> FALSE,
           expected |-> 0, violation |-> "none", protection |-> protection]
  BY DEF WindowsEvent
<1>2. ~success => r = 0
  OBVIOUS
<1>3. e = [d EXCEPT !.address = address, !.size = size]
  BY DEF WithRange
<1> HIDE DEF r, d, e
<1>4. e = [platform |-> "windows", operation |-> operation, success |-> success,
           domain |-> "win32", requestedSize |-> requested, returned |-> r,
           address |-> address, size |-> size, flags |-> flags, exact |-> FALSE,
           expected |-> 0, violation |-> "none", protection |-> protection]
  BY <1>1, <1>3
<1>5. Reports(e, operation, success, requested, flags, protection, address, size)
  BY <1>2, <1>4 DEF Reports, ExpectedViolation
<1>6. ASSUME operation \in AllocOperations, NEW expectation
      PROVE  Reports(apply_expectation(e, expectation), operation, success, requested,
                     flags, protection, address, size)
  <2> DEFINE f == apply_expectation(e, expectation)
             v == IF success /\ r # expectation.address
                    THEN "exact_address_relocated" ELSE "none"
  <2>1. CASE expectation.kind = "null"
    <3>1. f = e
      BY <2>1 DEF apply_expectation
    <3> QED
      BY <1>5, <3>1
  <2>2. CASE expectation.kind = "malformed"
    <3>1. f = [e EXCEPT !.violation = "invalid_expectation"]
      BY <2>2 DEF apply_expectation
    <3> HIDE DEF f
    <3>2. f = [platform |-> "windows", operation |-> operation, success |-> success,
               domain |-> "win32", requestedSize |-> requested, returned |-> r,
               address |-> address, size |-> size, flags |-> flags, exact |-> FALSE,
               expected |-> 0, violation |-> "invalid_expectation",
               protection |-> protection]
      BY <1>4, <3>1
    <3>3. Reports(f, operation, success, requested, flags, protection, address, size)
      BY <1>2, <3>2 DEF Reports, ExpectedViolation
    <3> QED
      BY <3>3 DEF f
  <2>3. CASE expectation.kind # "null" /\ expectation.kind # "malformed"
    <3>1. f = [e EXCEPT !.exact = TRUE, !.expected = expectation.address, !.violation = v]
      BY <1>4, <2>3 DEF apply_expectation
    <3>2. v = IF success /\ r # expectation.address
                THEN "exact_address_relocated" ELSE "none"
      OBVIOUS
    <3> HIDE DEF f, v
    <3>3. f = [platform |-> "windows", operation |-> operation, success |-> success,
               domain |-> "win32", requestedSize |-> requested, returned |-> r,
               address |-> address, size |-> size, flags |-> flags, exact |-> TRUE,
               expected |-> expectation.address, violation |-> v,
               protection |-> protection]
      BY <1>4, <3>1
    <3>4. v = ExpectedViolation(f)
      BY <3>2, <3>3 DEF ExpectedViolation
    <3>5. Reports(f, operation, success, requested, flags, protection, address, size)
      BY <1>2, <1>6, <3>3, <3>4 DEF Reports
    <3> QED
      BY <3>5 DEF f
  <2> QED
    BY <2>1, <2>2, <2>3
<1>7. operation \in AllocOperations => \A expectation :
        Reports(apply_expectation(e, expectation), operation, success, requested,
                flags, protection, address, size)
  BY <1>6
<1> QED
  BY <1>5, <1>7 DEF d, e

\* An event of the Windows wrappers, as far as its fields have to fit together.
WindowsCall(e) ==
  /\ e.platform = "windows" /\ e.domain = "win32" /\ e.operation \in WindowsOperations
  /\ e.success \in BOOLEAN /\ e.protection \in Nat
  /\ ~e.success => e.returned = 0 /\ e.address = 0 /\ e.size = 0
  /\ e.flags \subseteq AllowedFlags(e.operation)
  /\ RequiredFlags(e.operation, e.success) \subseteq e.flags
  /\ e.exact \in BOOLEAN /\ (e.exact => e.operation \in AllocOperations)
  /\ e.violation = ExpectedViolation(e)

\* Only a success that names no bytes is not a valid event.
LEMMA WindowsCallIsValid ==
  ASSUME NEW e, WindowsCall(e)
  PROVE  ValidEvent(e, "windows") <=>
           (e.success /\ e.operation # "release" => e.requestedSize # 0 /\ e.size # 0)
<1>1. /\ Platform(e.operation) = "windows" /\ ErrorDomain(e.platform) = "win32"
      /\ ~SupportsExpectation(e.operation) => ~e.exact
  BY DEF WindowsCall, Platform, ErrorDomain, SupportsExpectation, WindowsOperations,
         AllocOperations, PosixOperations
<1> QED
  BY <1>1 DEF WindowsCall, ValidEvent

\* The range of an event is empty until it is set, and setting it again replaces it.
LEMMA EventHasNoRange ==
  ASSUME NEW operation, NEW success, NEW returned, NEW requested, NEW flags,
         NEW protection
  PROVE  LET d == WindowsEvent(operation, success, returned, requested, flags, protection)
         IN d = WithRange(d, 0, 0) /\ d.requestedSize = requested
<1> DEFINE r == IF success THEN returned ELSE 0
           d == WindowsEvent(operation, success, returned, requested, flags, protection)
           plain == WithRange(d, 0, 0)
<1>1. d = [platform |-> "windows", operation |-> operation, success |-> success,
           domain |-> "win32", requestedSize |-> requested, returned |-> r,
           address |-> 0, size |-> 0, flags |-> flags, exact |-> FALSE,
           expected |-> 0, violation |-> "none", protection |-> protection]
  BY DEF WindowsEvent
<1>2. plain = [d EXCEPT !.address = 0, !.size = 0]
  BY DEF WithRange
<1> HIDE DEF r, d, plain
<1>3. d = plain /\ d.requestedSize = requested
  BY <1>1, <1>2
<1> QED
  BY <1>3 DEF d, plain

LEMMA LocatedEvent ==
  ASSUME NEW operation, NEW success, NEW returned, NEW requested, NEW flags,
         NEW protection, NEW place
  PROVE  LET d == WindowsEvent(operation, success, returned, requested, flags, protection)
             located == [d EXCEPT !.address = place]
         IN /\ located = WithRange(d, place, 0) /\ located.requestedSize = requested
            /\ \A address, size : WithRange(located, address, size) = WithRange(d, address, size)
<1> DEFINE r == IF success THEN returned ELSE 0
           d == WindowsEvent(operation, success, returned, requested, flags, protection)
           located == [d EXCEPT !.address = place]
<1>1. d = [platform |-> "windows", operation |-> operation, success |-> success,
           domain |-> "win32", requestedSize |-> requested, returned |-> r,
           address |-> 0, size |-> 0, flags |-> flags, exact |-> FALSE,
           expected |-> 0, violation |-> "none", protection |-> protection]
  BY DEF WindowsEvent
<1>2. located = [d EXCEPT !.address = place]
  OBVIOUS
<1> HIDE DEF r, d, located
<1>3. located = [platform |-> "windows", operation |-> operation, success |-> success,
               domain |-> "win32", requestedSize |-> requested, returned |-> r,
               address |-> place, size |-> 0, flags |-> flags, exact |-> FALSE,
               expected |-> 0, violation |-> "none", protection |-> protection]
  BY <1>1, <1>2
<1>4. located = WithRange(d, place, 0)
  <2> DEFINE empty == WithRange(d, place, 0)
  <2>1. empty = [d EXCEPT !.address = place, !.size = 0]
    BY DEF WithRange
  <2> HIDE DEF empty
  <2>2. empty = [platform |-> "windows", operation |-> operation, success |-> success,
               domain |-> "win32", requestedSize |-> requested, returned |-> r,
               address |-> place, size |-> 0, flags |-> flags, exact |-> FALSE,
               expected |-> 0, violation |-> "none", protection |-> protection]
    BY <1>1, <2>1
  <2> QED
    BY <1>3, <2>2 DEF empty
<1>5. ASSUME NEW address, NEW size
      PROVE  WithRange(located, address, size) = WithRange(d, address, size)
  <2> DEFINE again == WithRange(located, address, size)
             once == WithRange(d, address, size)
  <2>1. again = [located EXCEPT !.address = address, !.size = size]
    BY DEF WithRange
  <2>2. once = [d EXCEPT !.address = address, !.size = size]
    BY DEF WithRange
  <2> HIDE DEF again, once
  <2>3. again = [platform |-> "windows", operation |-> operation, success |-> success,
               domain |-> "win32", requestedSize |-> requested, returned |-> r,
               address |-> address, size |-> size, flags |-> flags, exact |-> FALSE,
               expected |-> 0, violation |-> "none", protection |-> protection]
    BY <1>3, <2>1
  <2>4. once = [platform |-> "windows", operation |-> operation, success |-> success,
               domain |-> "win32", requestedSize |-> requested, returned |-> r,
               address |-> address, size |-> size, flags |-> flags, exact |-> FALSE,
               expected |-> 0, violation |-> "none", protection |-> protection]
    BY <1>1, <2>2
  <2> QED
    BY <2>3, <2>4 DEF again, once
<1>6. located.requestedSize = requested
  BY <1>3
<1> QED
  BY <1>4, <1>5, <1>6 DEF d, located

-----------------------------------------------------------------------------
(* Windows: the invariant.                                                 *)

KernelStates ==
  [Bytes -> [mapped : BOOLEAN, protection : Nat, committed : BOOLEAN, base : Nat]]

\* Replay knows of every byte what the kernel knows, until it refuses the trace.
WindowsInv ==
  /\ Sorted(segments) /\ platform = "windows" /\ status \in {"running", "refused"}
  /\ pageSize \in {0, PageSize} /\ beyond \in BOOLEAN
  /\ kernel \in KernelStates
  /\ status = "running" => \A b \in Bytes : Byte(b) = kernel[b]
  /\ status = "refused" => beyond \/ pageSize = 0

\* Replay takes the event in the state it knows.
Accepted(e) ==
  /\ ValidEvent(e, "windows") /\ e.violation = ExpectedViolation(e)
  /\ e.success => Spaces!Admits(Memory(segments), e)

\* What becomes of a byte, as replay reads the event.
After(e, b) ==
  IF e.success THEN Spaces!Effect(Memory(segments), e)[b] ELSE Byte(b)

\* A call keeps the invariant if what replay makes of its event is what the
\* kernel has done, or if it is one that replay may refuse.
LEMMA WindowsStep ==
  ASSUME WindowsInv, NEW e, Step(e), TypedEvent(e), e.success \in BOOLEAN,
         UNCHANGED pageSize, beyond' \in BOOLEAN, beyond => beyond',
         kernel' \in KernelStates,
         Accepted(e) => \A b \in Bytes : After(e, b) = kernel'[b],
         Accepted(e) \/ beyond' \/ pageSize = 0
  PROVE  WindowsInv'
<1>1. /\ Sorted(segments) /\ platform = "windows" /\ status = "running"
      /\ platform' = platform
  BY DEF WindowsInv, Step
<1>2. Replayable(segments, e) <=> Spaces!Admits(Memory(segments), e)
  BY <1>1, ReplayableIsAdmitted
<1>3. Bytes \subseteq 0 .. MaxAddress - 1
  BY WindowsBounds
<1>4. CASE Accepted(e)
  <2>1. /\ status' = "running"
        /\ segments' = IF e.success THEN Replayed(segments, e) ELSE segments
    BY <1>1, <1>2, <1>4 DEF Step, Accepted
  <2>2. Sorted(segments')
    <3>1. CASE e.success
      BY <1>1, <1>2, <1>4, <2>1, <3>1, ReplayedIsEffect DEF Accepted
    <3> QED
      BY <1>1, <2>1, <3>1
  <2>3. ASSUME NEW b \in Bytes
        PROVE  Memory(segments')[b] = kernel'[b]
    <3>1. CASE e.success
      <4>1. Memory(segments') = Spaces!Effect(Memory(segments), e)
        BY <1>1, <1>2, <1>4, <2>1, <3>1, ReplayedIsEffect DEF Accepted
      <4> QED
        BY <1>4, <3>1, <4>1 DEF After
    <3>2. CASE ~e.success
      <4>1. segments' = segments
        BY <2>1, <3>2
      <4> QED
        BY <1>4, <3>2, <4>1 DEF After, Byte
    <3> QED
      BY <3>1, <3>2
  <2>4. \A b \in Bytes : Byte(b)' = kernel'[b]
    BY <2>3 DEF Byte
  <2> QED
    BY <1>1, <2>1, <2>2, <2>4 DEF WindowsInv, Sorted, KernelStates
<1>5. CASE ~Accepted(e)
  <2>1. status' = "refused" /\ segments' = segments
    BY <1>1, <1>2, <1>5 DEF Step, Accepted
  <2>2. Sorted(segments')
    BY <1>1, <2>1
  <2> QED
    BY <1>1, <1>5, <2>1, <2>2 DEF WindowsInv, Sorted, KernelStates
<1> QED
  BY <1>4, <1>5

-----------------------------------------------------------------------------
(* Windows: what an event does to a byte.                                  *)

LEMMA AfterByte ==
  ASSUME NEW e, e.success = TRUE, NEW b \in Bytes
  PROVE  /\ e.operation = "reserve" =>
              After(e, b) = IF b \in RangeOf(e)
                              THEN Spaces!Mapped(e.protection, "commit" \in e.flags, e.address)
                              ELSE Byte(b)
         /\ e.operation \in {"commit", "protect"} =>
              After(e, b) = IF b \in RangeOf(e)
                              THEN Spaces!Mapped(e.protection, TRUE, Byte(b).base)
                              ELSE Byte(b)
         /\ e.operation = "decommit" =>
              After(e, b) = IF b \in RangeOf(e)
                              THEN Spaces!Mapped(0, FALSE, Byte(b).base) ELSE Byte(b)
         /\ e.operation = "release" =>
              After(e, b) = IF Byte(b).mapped /\ Byte(b).base = e.address
                              THEN Spaces!Free ELSE Byte(b)
         /\ e.operation \in {"reset", "reset_undo", "other"} => After(e, b) = Byte(b)
<1>1. b \in Spaces!Addresses
  BY WindowsBounds DEF Spaces!Addresses
<1>2. Spaces!RangeOf(e) = RangeOf(e) /\ After(e, b) = Spaces!Effect(Memory(segments), e)[b]
  BY SameContract DEF After
<1> DEFINE m == Memory(segments)
           R == RangeOf(e)
<1>3. m[b] = Byte(b)
  BY DEF Byte
<1> HIDE DEF m, R
<1>4. CASE e.operation = "reserve"
  <2>1. Spaces!Effect(m, e) = Spaces!Assign(m, R,
          Spaces!Mapped(e.protection, "commit" \in e.flags, e.address))
    BY <1>2, <1>4 DEF Spaces!Effect, R
  <2> QED
    BY <1>1, <1>2, <1>3, <1>4, <2>1 DEF Spaces!Assign, m, R
<1>5. CASE e.operation \in {"commit", "protect"}
  <2>1. Spaces!Effect(m, e) = Spaces!Recommit(m, R, TRUE, e.protection)
    BY <1>2, <1>5 DEF Spaces!Effect, R
  <2> QED
    BY <1>1, <1>2, <1>3, <1>5, <2>1 DEF Spaces!Recommit, m, R
<1>6. CASE e.operation = "decommit"
  <2>1. Spaces!Effect(m, e) = Spaces!Recommit(m, R, FALSE, 0)
    BY <1>2, <1>6 DEF Spaces!Effect, R
  <2> QED
    BY <1>1, <1>2, <1>3, <1>6, <2>1 DEF Spaces!Recommit, m, R
<1>7. CASE e.operation = "release"
  <2>1. Spaces!Effect(m, e) = [a \in Spaces!Addresses |->
                                 IF m[a].mapped /\ m[a].base = e.address
                                   THEN Spaces!Free ELSE m[a]]
    BY <1>7 DEF Spaces!Effect
  <2> QED
    BY <1>1, <1>2, <1>3, <1>7, <2>1 DEF m
<1>8. CASE e.operation \in {"reset", "reset_undo", "other"}
  <2>1. Spaces!Effect(m, e) = m
    BY <1>8 DEF Spaces!Effect
  <2> QED
    BY <1>2, <1>3, <1>8, <2>1 DEF m
<1> QED
  BY <1>4, <1>5, <1>6, <1>7, <1>8

\* The states that admit the event of a call on Windows.
LEMMA WindowsAdmits ==
  ASSUME NEW e
  PROVE  LET m == Memory(segments)
         IN /\ e.operation = "reserve" =>
                 (Spaces!Admits(m, e) <=> ValidRange(e) /\ \A b \in RangeOf(e) : ~Byte(b).mapped)
            /\ e.operation = "commit" =>
                 (Spaces!Admits(m, e) <=> ValidRange(e) /\ \A b \in RangeOf(e) : Byte(b).mapped)
            /\ e.operation \in {"protect", "decommit", "reset", "reset_undo"} =>
                 (Spaces!Admits(m, e) <=>
                    ValidRange(e) /\ \A b \in RangeOf(e) : Byte(b).mapped /\ Byte(b).committed)
            /\ e.operation = "release" =>
                 (Spaces!Admits(m, e) <=>
                    \E b \in 0 .. MaxAddress - 1 : Byte(b).mapped /\ Byte(b).base = e.address)
<1>1. Spaces!RangeOf(e) = RangeOf(e) /\ (Spaces!ValidRange(e) <=> ValidRange(e))
  BY SameContract
<1> DEFINE m == Memory(segments)
<1>2. \A b : m[b] = Byte(b)
  BY DEF Byte
<1> HIDE DEF m
<1>3. CASE e.operation = "reserve"
  BY <1>1, <1>2, <1>3 DEF Spaces!Admits, Spaces!AllFree, m
<1>4. CASE e.operation = "commit"
  BY <1>1, <1>2, <1>4 DEF Spaces!Admits, Spaces!AllMapped, m
<1>5. CASE e.operation \in {"protect", "decommit", "reset", "reset_undo"}
  BY <1>1, <1>2, <1>5 DEF Spaces!Admits, Spaces!AllCommitted, m
<1>6. CASE e.operation = "release"
  BY <1>1, <1>2, <1>6 DEF Spaces!Admits, Spaces!Addresses, m
<1> QED
  BY <1>3, <1>4, <1>5, <1>6

\* An event with the range of the pages that were touched.
LEMMA TouchedRange ==
  ASSUME NEW first \in Nat, NEW start \in Nat, NEW size \in Nat \ {0}, first <= start,
         Touched(first, start, size) \subseteq Bytes, NEW e, e.address = first,
         e.size = PageUp(start + size) - first
  PROVE  /\ e.address \in Nat /\ e.size \in Nat /\ e.size # 0 /\ ValidRange(e)
         /\ RangeOf(e) = Touched(first, start, size)
<1> DEFINE up == PageUp(start + size)
<1>1. /\ up \in Nat /\ first < up /\ up <= LastAddress /\ LastAddress \in Nat
      /\ LastAddress <= MaxAddress - (PageSize - 1) /\ PageSize \in Nat \ {0}
      /\ MaxAddress \in Nat
  BY TouchedBounds, WindowsBounds
<1>2. Touched(first, start, size) = first .. up - 1
  BY DEF Touched
<1>3. e.address = first /\ e.size = up - first
  OBVIOUS
<1> HIDE DEF up
<1>4. e.address \in Nat /\ e.size \in Nat /\ e.size # 0 /\ e.address + e.size = up
  BY <1>1, <1>3
<1>5. ValidRange(e) /\ RangeOf(e) = first .. up - 1
  BY <1>1, <1>3, <1>4 DEF ValidRange, RangeOf
<1> QED
  BY <1>2, <1>4, <1>5

-----------------------------------------------------------------------------
(* Windows: the calls.                                                     *)

\* A call that failed is taken, and changes nothing.
LEMMA FailureKeeps ==
  ASSUME WindowsInv, NEW e, WindowsCall(e), e.success = FALSE, Step(e),
         UNCHANGED <<kernel, pageSize>>, beyond' \in BOOLEAN, beyond => beyond'
  PROVE  WindowsInv'
<1>1. TypedEvent(e) /\ e.success \in BOOLEAN
  BY DEF WindowsCall, TypedEvent
<1>2. ValidEvent(e, "windows")
  BY WindowsCallIsValid
<1>3. Accepted(e)
  BY <1>2 DEF Accepted, WindowsCall
<1>4. status = "running" /\ \A b \in Bytes : After(e, b) = kernel'[b]
  BY DEF Step, WindowsInv, After
<1>5. kernel' \in KernelStates
  BY DEF WindowsInv
<1> QED
  BY <1>1, <1>3, <1>4, <1>5, WindowsStep

\* While the page size is not known a success has no range, and is refused.
LEMMA UnknownPageSize ==
  ASSUME WindowsInv, NEW e, WindowsCall(e), e.success = TRUE, e.operation # "release",
         e.address \in Nat, e.size = 0, pageSize = 0, Step(e),
         UNCHANGED pageSize, beyond' \in BOOLEAN, beyond => beyond', kernel' \in KernelStates
  PROVE  WindowsInv'
<1>1. TypedEvent(e) /\ e.success \in BOOLEAN
  BY DEF WindowsCall, TypedEvent
<1>2. ~ValidEvent(e, "windows")
  BY WindowsCallIsValid
<1>3. ~Accepted(e)
  BY <1>2 DEF Accepted
<1> QED
  BY <1>1, <1>3, WindowsStep

\* The type of an allocation gives the operation and the flags of its event.
LEMMA AllocationFlags ==
  ASSUME NEW type \in AllocationTypes
  PROVE  LET operation == allocation_operation(type)
             flags == type \cap {"reserve", "commit"}
         IN /\ operation \in AllocOperations /\ flags \subseteq AllowedFlags(operation)
            /\ \A success \in BOOLEAN : RequiredFlags(operation, success) \subseteq flags
            /\ "reserve" \in type => operation = "reserve"
            /\ "reserve" \notin type /\ "commit" \in type => operation = "commit"
            /\ "reserve" \notin type /\ "commit" \notin type =>
                 operation \in {"reset", "reset_undo", "other"}
            /\ operation = "other" => type = {}
<1>1. CASE type = {"reserve"}
  BY <1>1 DEF allocation_operation, AllocOperations, AllowedFlags, RequiredFlags
<1>2. CASE type = {"commit"}
  BY <1>2 DEF allocation_operation, AllocOperations, AllowedFlags, RequiredFlags
<1>3. CASE type = {"reserve", "commit"}
  BY <1>3 DEF allocation_operation, AllocOperations, AllowedFlags, RequiredFlags
<1>4. CASE type = {"reset"}
  BY <1>4 DEF allocation_operation, AllocOperations, AllowedFlags, RequiredFlags
<1>5. CASE type = {"reset_undo"}
  BY <1>5 DEF allocation_operation, AllocOperations, AllowedFlags, RequiredFlags
<1>6. CASE type = {}
  BY <1>6 DEF allocation_operation, AllocOperations, AllowedFlags, RequiredFlags
<1> QED
  BY <1>1, <1>2, <1>3, <1>4, <1>5, <1>6 DEF AllocationTypes

\* The event of a VirtualAlloc.
LEMMA AllocReports ==
  ASSUME NEW address \in Nat, NEW size \in Nat, NEW type \in AllocationTypes,
         NEW protection \in Nat, NEW expectation, NEW result \in Nat,
         NEW start \in Nat, start = IF address # 0 THEN address ELSE result,
         pageSize \in {0, PageSize},
         result # 0 => /\ size # 0 /\ result <= start
                       /\ Touched(result, start, size) \subseteq Bytes
  PROVE  LET e == AllocEvent(address, size, type, protection, expectation, result)
         IN /\ WindowsCall(e) /\ (e.success <=> result # 0)
            /\ e.operation = allocation_operation(type) /\ e.requestedSize = size
            /\ e.flags = type \cap {"reserve", "commit"} /\ e.protection = protection
            /\ result # 0 /\ pageSize = 0 => e.address = 0 /\ e.size = 0
            /\ result # 0 /\ pageSize = PageSize =>
                 e.address = result /\ e.size = PageUp(start + size) - result
<1> DEFINE operation == allocation_operation(type)
           flags == type \cap {"reserve", "commit"}
           success == result # 0
           d == WindowsEvent(operation, success, result, size, flags, protection)
           r == IF success THEN set_effective_range(d, start, result) ELSE d
           e == apply_expectation(r, expectation)
           a == IF success /\ pageSize = PageSize THEN result ELSE 0
           n == IF success /\ pageSize = PageSize THEN PageUp(start + size) - result ELSE 0
<1>1. AllocEvent(address, size, type, protection, expectation, result) = e
  BY DEF AllocEvent
<1>2. /\ operation \in AllocOperations /\ flags \subseteq AllowedFlags(operation)
      /\ \A yes \in BOOLEAN : RequiredFlags(operation, yes) \subseteq flags
  BY AllocationFlags
<1>3. success \in BOOLEAN /\ (success <=> result # 0)
  OBVIOUS
<1>4. d.requestedSize = size /\ d = WithRange(d, 0, 0)
  <2> HIDE DEF operation, flags, success
  <2> QED
    BY EventHasNoRange
<1>5. Reports(WithRange(d, a, n), operation, success, size, flags,
              protection, a, n)
      /\ Reports(apply_expectation(WithRange(d, a, n), expectation),
                 operation, success, size, flags, protection, a, n)
  <2> HIDE DEF operation, flags, success, a, n
  <2> QED
    BY <1>2, <1>3, EventReports
<1>6. r = WithRange(d, a, n)
  <2>1. CASE ~success
    BY <1>4, <2>1
  <2>2. CASE success /\ pageSize = PageSize
    <3>1. /\ size \in Nat \ {0} /\ result <= start
          /\ Touched(result, start, size) \subseteq Bytes /\ d.requestedSize = size
      BY <1>4, <2>2
    <3> HIDE DEF d
    <3>2. set_effective_range(d, start, result)
            = WithRange(d, result, PageUp(start + size) - result)
      BY <2>2, <3>1, EffectiveRange
    <3> QED
      BY <2>2, <3>2
  <2>3. CASE success /\ pageSize # PageSize
    <3>1. /\ size \in Nat \ {0} /\ result <= start /\ pageSize = 0
          /\ Touched(result, start, size) \subseteq Bytes /\ d.requestedSize = size
      BY <1>4, <2>3
    <3> HIDE DEF d
    <3>2. set_effective_range(d, start, result) = d
      BY <3>1, EffectiveRange
    <3> QED
      BY <1>4, <2>3, <3>2
  <2> QED
    BY <2>1, <2>2, <2>3
<1>7. PageSize # 0
  BY WindowsBounds
<1>8. /\ result # 0 /\ pageSize = 0 => a = 0 /\ n = 0
      /\ result # 0 /\ pageSize = PageSize => a = result /\ n = PageUp(start + size) - result
      /\ ~success => a = 0 /\ n = 0
  BY <1>7
<1> HIDE DEF d, r, a, n, e, operation, flags, success
<1>9. Reports(e, operation, success, size, flags, protection, a, n)
  BY <1>5, <1>6 DEF e
<1>10. WindowsCall(e)
  BY <1>2, <1>3, <1>8, <1>9 DEF Reports, WindowsCall, WindowsOperations
<1>11. /\ (e.success <=> result # 0) /\ e.operation = operation /\ e.requestedSize = size
       /\ e.flags = flags /\ e.protection = protection /\ e.address = a /\ e.size = n
  BY <1>3, <1>9 DEF Reports
<1> QED
  BY <1>1, <1>8, <1>10, <1>11 DEF operation, flags

\* Committing or decommitting changes a reserved byte as replay says.
LEMMA SetBytes ==
  ASSUME kernel \in KernelStates, NEW R, \A b \in R : b \in Bytes /\ kernel[b].mapped,
         NEW committed \in BOOLEAN, NEW protection \in Nat
  PROVE  /\ Set(R, committed, protection) \in KernelStates
         /\ \A b \in Bytes : Set(R, committed, protection)[b] =
              IF b \in R THEN Spaces!Mapped(protection, committed, kernel[b].base)
                         ELSE kernel[b]
<1> DEFINE k == Set(R, committed, protection)
<1>1. k = [b \in Bytes |-> IF b \in R
             THEN [kernel[b] EXCEPT !.committed = committed, !.protection = protection]
             ELSE kernel[b]]
  BY DEF Set
<1>2. ASSUME NEW b \in R
      PROVE  [kernel[b] EXCEPT !.committed = committed, !.protection = protection]
               = Spaces!Mapped(protection, committed, kernel[b].base)
  <2> DEFINE g == kernel[b]
             changed == [g EXCEPT !.committed = committed, !.protection = protection]
  <2>1. g \in [mapped : BOOLEAN, protection : Nat, committed : BOOLEAN, base : Nat]
        /\ g.mapped
    BY DEF KernelStates
  <2>2. changed = [g EXCEPT !.committed = committed, !.protection = protection]
    OBVIOUS
  <2> HIDE DEF g, changed
  <2>3. PICK p \in Nat, c \in BOOLEAN, x \in Nat :
          g = [mapped |-> TRUE, protection |-> p, committed |-> c, base |-> x]
    BY <2>1
  <2>4. g.base = x /\ changed = [mapped |-> TRUE, protection |-> protection,
                                 committed |-> committed, base |-> x]
    BY <2>2, <2>3
  <2>5. changed = Spaces!Mapped(protection, committed, g.base)
    BY <2>4 DEF Spaces!Mapped
  <2> QED
    BY <2>5 DEF g, changed
<1>3. \A b \in R : Spaces!Mapped(protection, committed, kernel[b].base)
        \in [mapped : BOOLEAN, protection : Nat, committed : BOOLEAN, base : Nat]
  BY DEF KernelStates, Spaces!Mapped
<1> HIDE DEF k
<1>4. \A b \in Bytes : k[b] = IF b \in R
        THEN Spaces!Mapped(protection, committed, kernel[b].base) ELSE kernel[b]
  BY <1>1, <1>2
<1>5. \A b \in Bytes :
        k[b] \in [mapped : BOOLEAN, protection : Nat, committed : BOOLEAN, base : Nat]
  BY <1>3, <1>4 DEF KernelStates
<1>6. k = [b \in Bytes |-> k[b]]
  BY <1>1
<1>7. k \in KernelStates
  BY <1>5, <1>6 DEF KernelStates
<1> QED
  BY <1>4, <1>7 DEF k

\* A VirtualAlloc that fails.
LEMMA AllocFailsKeeps ==
  ASSUME WindowsInv, NEW address \in Nat, NEW size \in Nat, NEW type \in AllocationTypes,
         NEW protection \in Nat, NEW expectation,
         AllocFails(address, size, type, protection, expectation)
  PROVE  WindowsInv'
<1> DEFINE e == AllocEvent(address, size, type, protection, expectation, 0)
           start == IF address # 0 THEN address ELSE 0
<1>1. Step(e) /\ UNCHANGED <<kernel, pageSize, beyond>>
  BY DEF AllocFails
<1>2. pageSize \in {0, PageSize} /\ beyond \in BOOLEAN /\ start \in Nat
      /\ start = IF address # 0 THEN address ELSE 0
  BY DEF WindowsInv
<1>3. WindowsCall(e) /\ (e.success <=> 0 # 0)
  <2> HIDE DEF start
  <2> QED
    BY <1>2, AllocReports
<1> HIDE DEF e, start
<1>4. e.success = FALSE
  BY <1>3 DEF WindowsCall
<1> QED
  BY <1>1, <1>2, <1>3, <1>4, FailureKeeps

\* A VirtualAlloc that commits or resets pages of a reservation.
LEMMA CommitKeeps ==
  ASSUME WindowsInv, NEW address \in Nat, NEW size \in Nat, NEW type \in AllocationTypes,
         NEW protection \in Nat, NEW expectation,
         CommitCall(address, size, type, protection, expectation)
  PROVE  WindowsInv'
<1> DEFINE first == PageDown(address)
           R == Touched(first, address, size)
           commits == "commit" \in type
           e == AllocEvent(address, size, type, protection, expectation, first)
<1>1. /\ Step(e) /\ UNCHANGED <<pageSize, beyond>> /\ size # 0 /\ address # 0
      /\ "reserve" \notin type /\ type # {} /\ R \subseteq Bytes
      /\ \A b \in R : kernel[b].mapped /\ (~commits => kernel[b].committed)
      /\ kernel' = IF commits THEN Set(R, TRUE, protection) ELSE kernel
  BY DEF CommitCall, Reserves, InReservation
<1>2. first \in Nat /\ first <= address
  BY PageOfAddress
<1>3. /\ pageSize \in {0, PageSize} /\ beyond \in BOOLEAN /\ status = "running"
      /\ kernel \in KernelStates /\ \A b \in Bytes : Byte(b) = kernel[b]
  BY <1>1 DEF WindowsInv, Step
<1>4. /\ WindowsCall(e) /\ (e.success <=> first # 0)
      /\ e.operation = allocation_operation(type) /\ e.requestedSize = size
      /\ e.protection = protection
      /\ first # 0 /\ pageSize = 0 => e.address = 0 /\ e.size = 0
      /\ first # 0 /\ pageSize = PageSize =>
           e.address = first /\ e.size = PageUp(address + size) - first
  <2>1. address = IF address # 0 THEN address ELSE first
    BY <1>1
  <2> HIDE DEF first
  <2> QED
    BY <1>1, <1>2, <1>3, <2>1, AllocReports
<1>5. first # 0
  <2> HIDE DEF first
  <2> QED
    BY <1>1, <1>2, TouchedBounds
<1>6. /\ e.success = TRUE /\ (commits => e.operation = "commit")
      /\ ~commits => e.operation \in {"reset", "reset_undo"}
  BY <1>1, <1>4, <1>5, AllocationFlags DEF WindowsCall
<1> HIDE DEF first, R, e, commits
<1>7. /\ kernel' \in KernelStates
      /\ \A b \in Bytes : kernel'[b] =
           IF commits /\ b \in R THEN Spaces!Mapped(protection, TRUE, kernel[b].base)
                                 ELSE kernel[b]
  <2>1. CASE commits
    <3>1. \A b \in R : b \in Bytes /\ kernel[b].mapped
      BY <1>1
    <3>2. PICK yes \in BOOLEAN : yes = TRUE
      OBVIOUS
    <3>3. /\ Set(R, yes, protection) \in KernelStates
          /\ \A b \in Bytes : Set(R, yes, protection)[b] =
               IF b \in R THEN Spaces!Mapped(protection, yes, kernel[b].base)
                          ELSE kernel[b]
      BY <1>3, <3>1, SetBytes
    <3>4. kernel' = Set(R, yes, protection)
      BY <1>1, <2>1, <3>2
    <3> QED
      BY <2>1, <3>2, <3>3, <3>4
  <2>2. CASE ~commits
    <3>1. kernel' = kernel
      BY <1>1, <2>2
    <3> QED
      BY <1>3, <2>2, <3>1
  <2> QED
    BY <2>1, <2>2
<1>8. CASE pageSize = 0
  <2>1. /\ e.operation # "release" /\ e.address \in Nat /\ e.size = 0
        /\ beyond' \in BOOLEAN /\ (beyond => beyond')
    BY <1>1, <1>3, <1>4, <1>5, <1>6, <1>8
  <2> QED
    BY <1>1, <1>4, <1>6, <1>7, <1>8, <2>1, UnknownPageSize
<1>9. CASE pageSize = PageSize
  <2>1. e.address = first /\ e.size = PageUp(address + size) - first
    BY <1>4, <1>5, <1>9
  <2>2. /\ e.address \in Nat /\ e.size \in Nat /\ e.size # 0 /\ ValidRange(e)
        /\ RangeOf(e) = R
    <3>1. Touched(first, address, size) \subseteq Bytes /\ size \in Nat \ {0}
      BY <1>1 DEF R
    <3> QED
      BY <1>2, <2>1, <3>1, TouchedRange DEF R
  <2>3. TypedEvent(e)
    BY <1>4, <2>2 DEF TypedEvent
  <2>4. ValidEvent(e, "windows")
    BY <1>1, <1>4, <2>2, WindowsCallIsValid
  <2>5. \A b \in R : Byte(b).mapped /\ (~commits => Byte(b).committed)
    BY <1>1, <1>3
  <2>6. Spaces!Admits(Memory(segments), e)
    BY <1>6, <2>2, <2>5, WindowsAdmits
  <2>7. Accepted(e)
    BY <1>4, <2>4, <2>6 DEF Accepted, WindowsCall
  <2>8. ASSUME NEW b \in Bytes
        PROVE  After(e, b) = kernel'[b]
    <3>1. CASE commits
      <4>1. After(e, b) = IF b \in R THEN Spaces!Mapped(protection, TRUE, Byte(b).base)
                                     ELSE Byte(b)
        BY <1>4, <1>6, <2>2, <3>1, AfterByte
      <4> QED
        BY <1>3, <1>7, <3>1, <4>1
    <3>2. CASE ~commits
      <4>1. After(e, b) = Byte(b)
        BY <1>6, <3>2, AfterByte
      <4> QED
        BY <1>3, <1>7, <3>2, <4>1
    <3> QED
      BY <3>1, <3>2
  <2> QED
    BY <1>1, <1>3, <1>6, <1>7, <2>3, <2>7, <2>8, WindowsStep
<1> QED
  BY <1>3, <1>8, <1>9

\* A VirtualAlloc that reserves.
LEMMA ReserveKeeps ==
  ASSUME WindowsInv, NEW address \in Nat, NEW size \in Nat, NEW type \in AllocationTypes,
         NEW protection \in Nat, NEW expectation, NEW result \in Bytes,
         ReserveCall(address, size, type, protection, expectation, result)
  PROVE  WindowsInv'
<1> DEFINE start == IF address # 0 THEN address ELSE result
           R == Touched(result, start, size)
           e == AllocEvent(address, size, type, protection, expectation, result)
<1>1. /\ Step(e) /\ UNCHANGED pageSize /\ size # 0 /\ result # 0 /\ Reserves(address, type)
      /\ address # 0 => result = GranuleDown(address)
      /\ R \subseteq Bytes /\ (\A b \in R : ~kernel[b].mapped)
      /\ kernel' = [b \in Bytes |-> IF b \in R
                      THEN [mapped |-> TRUE, protection |-> protection,
                            committed |-> "commit" \in type, base |-> result]
                      ELSE kernel[b]]
      /\ beyond' = (beyond \/ "reserve" \notin type)
  <2>1. start = IF address = 0 THEN result ELSE address
    OBVIOUS
  <2> HIDE DEF start
  <2> QED
    BY <2>1 DEF ReserveCall, Outside
<1>2. result \in Nat /\ start \in Nat /\ result <= start
  BY <1>1, PageOfAddress, WindowsBounds
<1>3. /\ pageSize \in {0, PageSize} /\ beyond \in BOOLEAN /\ status = "running"
      /\ kernel \in KernelStates /\ \A b \in Bytes : Byte(b) = kernel[b]
  BY <1>1 DEF WindowsInv, Step
<1>4. /\ WindowsCall(e) /\ (e.success <=> result # 0)
      /\ e.operation = allocation_operation(type) /\ e.requestedSize = size
      /\ e.flags = type \cap {"reserve", "commit"} /\ e.protection = protection
      /\ result # 0 /\ pageSize = 0 => e.address = 0 /\ e.size = 0
      /\ result # 0 /\ pageSize = PageSize =>
           e.address = result /\ e.size = PageUp(start + size) - result
  <2>1. start = IF address # 0 THEN address ELSE result
    OBVIOUS
  <2>2. /\ size # 0 /\ result <= start /\ Touched(result, start, size) \subseteq Bytes
        /\ result \in Nat /\ start \in Nat /\ pageSize \in {0, PageSize}
    BY <1>1, <1>2, <1>3
  <2> HIDE DEF start, R
  <2> QED
    BY <2>1, <2>2, AllocReports
<1>5. e.success = TRUE /\ e.operation \in {"reserve", "commit"}
  BY <1>1, <1>4, AllocationFlags DEF WindowsCall, Reserves
<1>6. beyond' \in BOOLEAN /\ (beyond => beyond')
  BY <1>1, <1>3
<1>7. /\ kernel' \in KernelStates
      /\ \A b \in Bytes : kernel'[b] =
           IF b \in R THEN Spaces!Mapped(protection, "commit" \in type, result)
                      ELSE kernel[b]
  <2> DEFINE commits == "commit" \in type
  <2>1. commits \in BOOLEAN
    OBVIOUS
  <2>2. kernel' = [b \in Bytes |-> IF b \in R
                     THEN Spaces!Mapped(protection, commits, result) ELSE kernel[b]]
    BY <1>1 DEF Spaces!Mapped
  <2> HIDE DEF commits, R
  <2>3. Spaces!Mapped(protection, commits, result)
          \in [mapped : BOOLEAN, protection : Nat, committed : BOOLEAN, base : Nat]
    BY <1>2, <2>1 DEF Spaces!Mapped
  <2>4. kernel' \in KernelStates
    BY <1>3, <2>2, <2>3 DEF KernelStates
  <2> QED
    BY <2>2, <2>4 DEF commits
<1> HIDE DEF start, R, e
<1>8. CASE pageSize = 0
  <2>1. e.operation # "release" /\ e.address \in Nat /\ e.size = 0
    BY <1>1, <1>4, <1>5, <1>8
  <2> QED
    BY <1>1, <1>4, <1>5, <1>6, <1>7, <1>8, <2>1, UnknownPageSize
<1>9. CASE pageSize = PageSize
  <2>1. e.address = result /\ e.size = PageUp(start + size) - result
    BY <1>1, <1>4, <1>9
  <2>2. Touched(result, start, size) \subseteq Bytes /\ size \in Nat \ {0}
    BY <1>1 DEF R
  <2>3. /\ e.address \in Nat /\ e.size \in Nat /\ e.size # 0 /\ ValidRange(e)
        /\ RangeOf(e) = R
    BY <1>2, <2>1, <2>2, TouchedRange DEF R
  <2>4. result \in R
    BY <1>2, <2>2, TouchedBounds DEF R
  <2>5. TypedEvent(e)
    BY <1>4, <2>3 DEF TypedEvent
  <2>6. ValidEvent(e, "windows")
    BY <1>1, <1>4, <2>3, WindowsCallIsValid
  <2>7. \A b \in R : ~Byte(b).mapped
    BY <1>1, <1>3
  <2>8. CASE "reserve" \in type
    <3>1. e.operation = "reserve"
      BY <1>4, <2>8, AllocationFlags
    <3>2. Spaces!Admits(Memory(segments), e)
      BY <2>3, <2>7, <3>1, WindowsAdmits
    <3>3. Accepted(e)
      BY <1>4, <2>6, <3>2 DEF Accepted, WindowsCall
    <3>4. ASSUME NEW b \in Bytes
          PROVE  After(e, b) = kernel'[b]
      <4>1. After(e, b) = IF b \in R
              THEN Spaces!Mapped(e.protection, "commit" \in e.flags, e.address) ELSE Byte(b)
        BY <1>5, <2>3, <3>1, AfterByte
      <4>2. ("commit" \in e.flags) = ("commit" \in type)
        BY <1>4
      <4> QED
        BY <1>3, <1>4, <1>7, <2>1, <4>1, <4>2
    <3> QED
      BY <1>1, <1>3, <1>5, <1>6, <1>7, <2>5, <3>3, <3>4, WindowsStep
  <2>9. CASE "reserve" \notin type
    <3>1. e.operation = "commit" /\ beyond' = TRUE
      BY <1>1, <1>3, <1>4, <1>5, <2>9, AllocationFlags DEF Reserves
    <3>2. ~Spaces!Admits(Memory(segments), e)
      BY <2>3, <2>4, <2>7, <3>1, WindowsAdmits
    <3>3. ~Accepted(e)
      BY <1>5, <3>2 DEF Accepted
    <3> QED
      BY <1>1, <1>3, <1>5, <1>6, <1>7, <2>5, <3>1, <3>3, WindowsStep
  <2> QED
    BY <2>8, <2>9
<1> QED
  BY <1>3, <1>8, <1>9

\* The event of a VirtualProtect, or of a VirtualFree, that succeeded on a range.
LEMMA RangedReports ==
  ASSUME NEW d, NEW address \in Nat, NEW size \in Nat \ {0}, pageSize \in {0, PageSize},
         Touched(PageDown(address), address, size) \subseteq Bytes, d.requestedSize = size
  PROVE  LET first == PageDown(address)
             e == set_effective_range(d, address, align_down(address))
         IN /\ pageSize = 0 => e = d
            /\ pageSize = PageSize =>
                 e = WithRange(d, first, PageUp(address + size) - first)
<1> DEFINE first == PageDown(address)
<1>1. first \in Nat /\ first <= address /\ (pageSize = PageSize => align_down(address) = first)
  BY PageOfAddress
<1>2. pageSize = 0 => set_effective_range(d, address, align_down(address)) = d
  BY DEF set_effective_range, CanAlignUp
<1>3. Touched(first, address, size) \subseteq Bytes
  OBVIOUS
<1> HIDE DEF first
<1>4. ASSUME pageSize = PageSize
      PROVE  set_effective_range(d, address, align_down(address))
               = WithRange(d, first, PageUp(address + size) - first)
  <2>1. set_effective_range(d, address, first)
          = WithRange(d, first, PageUp(address + size) - first)
    BY <1>1, <1>3, <1>4, EffectiveRange
  <2> QED
    BY <1>1, <1>4, <2>1
<1> QED
  BY <1>2, <1>4 DEF first

\* A VirtualProtect.
LEMMA ProtectKeeps ==
  ASSUME WindowsInv, NEW address \in Nat, NEW size \in Nat, NEW protection \in Nat,
         rs_virtual_protect(address, size, protection)
  PROVE  WindowsInv'
<1> DEFINE first == PageDown(address)
           R == Touched(first, address, size)
           success == size # 0 /\ InReservation(R, TRUE)
           d == WindowsEvent("protect", success, address, size, {}, protection)
           e == IF success THEN set_effective_range(d, address, align_down(address)) ELSE d
           a == IF success /\ pageSize = PageSize THEN first ELSE 0
           n == IF success /\ pageSize = PageSize THEN PageUp(address + size) - first ELSE 0
<1>1. /\ Step(e) /\ UNCHANGED <<pageSize, beyond>>
      /\ kernel' = IF success THEN Set(R, TRUE, protection) ELSE kernel
  BY DEF rs_virtual_protect
<1>2. /\ pageSize \in {0, PageSize} /\ beyond \in BOOLEAN /\ status = "running"
      /\ kernel \in KernelStates /\ \A b \in Bytes : Byte(b) = kernel[b]
  BY <1>1 DEF WindowsInv, Step
<1>3. success \in BOOLEAN
  OBVIOUS
<1>4. success => /\ size \in Nat \ {0} /\ Touched(first, address, size) \subseteq Bytes
                 /\ R \subseteq Bytes /\ \A b \in R : kernel[b].mapped /\ kernel[b].committed
  BY DEF InReservation
<1>5. d = WithRange(d, 0, 0) /\ d.requestedSize = size
  <2> HIDE DEF success
  <2> QED
    BY EventHasNoRange
<1>6. e = WithRange(d, a, n)
  <2>1. CASE ~success
    BY <1>5, <2>1
  <2>2. CASE success
    <3> HIDE DEF d
    <3>1. /\ pageSize = 0 => set_effective_range(d, address, align_down(address)) = d
          /\ pageSize = PageSize =>
               set_effective_range(d, address, align_down(address))
                 = WithRange(d, first, PageUp(address + size) - first)
      BY <1>2, <1>4, <1>5, <2>2, RangedReports
    <3> QED
      BY <1>2, <1>5, <2>2, <3>1
  <2> QED
    BY <2>1, <2>2
<1>7. /\ ~success => a = 0 /\ n = 0
      /\ success /\ pageSize = 0 => a = 0 /\ n = 0
      /\ success /\ pageSize = PageSize => a = first /\ n = PageUp(address + size) - first
  BY WindowsBounds
<1> HIDE DEF e, a, n, success
<1>8. Reports(WithRange(d, a, n), "protect", success, size, {}, protection, a, n)
  BY <1>3, EventReports
<1> HIDE DEF d, first, R
<1>9. Reports(e, "protect", success, size, {}, protection, a, n)
  BY <1>6, <1>8
<1>10. /\ WindowsCall(e) /\ e.success = success /\ e.operation = "protect"
       /\ e.requestedSize = size /\ e.protection = protection
       /\ e.address = a /\ e.size = n
  BY <1>3, <1>7, <1>9 DEF Reports, WindowsCall, WindowsOperations, AllowedFlags, RequiredFlags
<1>11. CASE ~success
  <2>1. e.success = FALSE /\ UNCHANGED <<kernel, pageSize>>
        /\ beyond' \in BOOLEAN /\ (beyond => beyond')
    BY <1>1, <1>2, <1>3, <1>10, <1>11
  <2> QED
    BY <1>1, <1>10, <2>1, FailureKeeps
<1>12. CASE success
  <2>1. e.success = TRUE /\ beyond' \in BOOLEAN /\ (beyond => beyond') /\ UNCHANGED pageSize
    BY <1>1, <1>2, <1>3, <1>10, <1>12
  <2>2. /\ kernel' \in KernelStates
        /\ \A b \in Bytes : kernel'[b] =
             IF b \in R THEN Spaces!Mapped(protection, TRUE, kernel[b].base) ELSE kernel[b]
    <3>1. \A b \in R : b \in Bytes /\ kernel[b].mapped
      BY <1>4, <1>12
    <3>2. PICK yes \in BOOLEAN : yes = TRUE
      OBVIOUS
    <3>3. /\ Set(R, yes, protection) \in KernelStates
          /\ \A b \in Bytes : Set(R, yes, protection)[b] =
               IF b \in R THEN Spaces!Mapped(protection, yes, kernel[b].base)
                          ELSE kernel[b]
      BY <1>2, <3>1, SetBytes
    <3>4. kernel' = Set(R, yes, protection)
      BY <1>1, <1>12, <3>2
    <3> QED
      BY <3>2, <3>3, <3>4
  <2>3. CASE pageSize = 0
    <3>1. e.operation # "release" /\ e.address \in Nat /\ e.size = 0
      BY <1>7, <1>10, <1>12, <2>3
    <3> QED
      BY <1>1, <1>10, <2>1, <2>2, <2>3, <3>1, UnknownPageSize
  <2>4. CASE pageSize = PageSize
    <3>1. e.address = first /\ e.size = PageUp(address + size) - first
      BY <1>7, <1>10, <1>12, <2>4
    <3>2. first \in Nat /\ first <= address
      BY PageOfAddress DEF first
    <3>3. /\ e.address \in Nat /\ e.size \in Nat /\ e.size # 0 /\ ValidRange(e)
          /\ RangeOf(e) = R
      BY <1>4, <1>12, <3>1, <3>2, TouchedRange DEF R
    <3>4. TypedEvent(e) /\ ValidEvent(e, "windows")
      BY <1>4, <1>10, <1>12, <3>3, WindowsCallIsValid DEF TypedEvent
    <3>5. \A b \in R : Byte(b).mapped /\ Byte(b).committed
      BY <1>2, <1>4, <1>12
    <3>6. Spaces!Admits(Memory(segments), e)
      BY <1>10, <3>3, <3>5, WindowsAdmits
    <3>7. Accepted(e)
      BY <1>10, <3>4, <3>6 DEF Accepted, WindowsCall
    <3>8. ASSUME NEW b \in Bytes
          PROVE  After(e, b) = kernel'[b]
      <4>1. After(e, b) = IF b \in R THEN Spaces!Mapped(protection, TRUE, Byte(b).base)
                                     ELSE Byte(b)
        BY <1>10, <2>1, <3>3, AfterByte
      <4> QED
        BY <1>2, <2>2, <4>1
    <3> QED
      BY <1>1, <1>2, <2>1, <2>2, <3>4, <3>7, <3>8, WindowsStep
  <2> QED
    BY <1>2, <2>3, <2>4
<1> QED
  BY <1>3, <1>11, <1>12

\* A VirtualFree that decommits.
LEMMA DecommitKeeps ==
  ASSUME WindowsInv, NEW address \in Nat, NEW size \in Nat, DecommitCall(address, size)
  PROVE  WindowsInv'
<1> DEFINE first == PageDown(address)
           T == Touched(first, address, size)
           R == IF size = 0 THEN ReservationOf(address) ELSE T
           success == InReservation(R, FALSE)
           d == WindowsEvent("decommit", success, address, size, {"decommit"}, 0)
           located == [d EXCEPT !.address = address]
           e == IF ~success THEN d
                ELSE set_effective_range(located, address, align_down(address))
           known == size # 0 /\ pageSize = PageSize
           a == IF ~success THEN 0 ELSE IF known THEN first ELSE address
           n == IF success /\ known THEN PageUp(address + size) - first ELSE 0
<1>1. /\ Step(e) /\ UNCHANGED pageSize
      /\ kernel' = IF success THEN Set(R, FALSE, 0) ELSE kernel
      /\ beyond' = (beyond \/ (success /\ (size = 0 \/ \E b \in R : ~kernel[b].committed)))
  <2>1. FreeEvent("decommit", success, address, size) = e
    BY DEF FreeEvent
  <2>2. Step(FreeEvent("decommit", success, address, size))
    BY DEF DecommitCall
  <2>3. Step(e)
    <3> HIDE DEF e
    <3> QED
      BY <2>1, <2>2
  <2> HIDE DEF e
  <2> QED
    BY <2>3 DEF DecommitCall, Outside
<1>2. /\ pageSize \in {0, PageSize} /\ beyond \in BOOLEAN /\ status = "running"
      /\ kernel \in KernelStates /\ \A b \in Bytes : Byte(b) = kernel[b]
  BY <1>1 DEF WindowsInv, Step
<1>3. success \in BOOLEAN
  BY DEF InReservation
<1>4. success => /\ R \subseteq Bytes /\ (\A b \in R : kernel[b].mapped)
                 /\ size # 0 => Touched(first, address, size) \subseteq Bytes /\ R = T
  BY DEF InReservation
<1>5. /\ d = WithRange(d, 0, 0) /\ located = WithRange(d, address, 0)
      /\ located.requestedSize = size
      /\ \A x, y : WithRange(located, x, y) = WithRange(d, x, y)
  <2> HIDE DEF success
  <2> QED
    BY EventHasNoRange, LocatedEvent
<1>6. e = WithRange(d, a, n)
  <2>1. CASE ~success
    BY <1>5, <2>1
  <2>2. CASE success /\ ~known
    <3>1. set_effective_range(located, address, align_down(address)) = located
      <4> HIDE DEF located
      <4> QED
        BY <1>2, <1>5, <2>2 DEF set_effective_range, CanAlignUp
    <3> HIDE DEF located, d
    <3> QED
      BY <1>5, <2>2, <3>1
  <2>3. CASE success /\ known
    <3>1. /\ size \in Nat \ {0} /\ Touched(first, address, size) \subseteq Bytes
          /\ pageSize = PageSize /\ located.requestedSize = size
      BY <1>4, <1>5, <2>3
    <3> HIDE DEF located
    <3>2. set_effective_range(located, address, align_down(address))
            = WithRange(located, first, PageUp(address + size) - first)
      BY <3>1, RangedReports
    <3> HIDE DEF d
    <3> QED
      BY <1>5, <2>3, <3>2
  <2> QED
    BY <2>1, <2>2, <2>3
<1>7. /\ ~success => a = 0 /\ n = 0
      /\ success /\ ~known => a = address /\ n = 0
      /\ success /\ known => a = first /\ n = PageUp(address + size) - first
  OBVIOUS
<1> HIDE DEF e, a, n, success
<1>8. Reports(WithRange(d, a, n), "decommit", success, size, {"decommit"}, 0, a, n)
  BY <1>3, EventReports
<1> HIDE DEF d, located, first, T, R
<1>9. Reports(e, "decommit", success, size, {"decommit"}, 0, a, n)
  BY <1>6, <1>8
<1>10. /\ WindowsCall(e) /\ e.success = success /\ e.operation = "decommit"
       /\ e.requestedSize = size /\ e.protection = 0
       /\ e.address = a /\ e.size = n
  BY <1>3, <1>7, <1>9 DEF Reports, WindowsCall, WindowsOperations, AllowedFlags, RequiredFlags
<1>11. beyond' \in BOOLEAN /\ (beyond => beyond')
  BY <1>1, <1>2, <1>3
<1>12. CASE ~success
  <2>1. e.success = FALSE /\ UNCHANGED <<kernel, pageSize>>
    BY <1>1, <1>3, <1>10, <1>12
  <2> QED
    BY <1>1, <1>10, <1>11, <2>1, FailureKeeps
<1>13. CASE success
  <2>1. e.success = TRUE
    BY <1>3, <1>10, <1>13
  <2>2. /\ kernel' \in KernelStates
        /\ \A b \in Bytes : kernel'[b] =
             IF b \in R THEN Spaces!Mapped(0, FALSE, kernel[b].base) ELSE kernel[b]
    <3>1. \A b \in R : b \in Bytes /\ kernel[b].mapped
      BY <1>4, <1>13
    <3>2. PICK no \in BOOLEAN, none \in Nat : no = FALSE /\ none = 0
      OBVIOUS
    <3>3. /\ Set(R, no, none) \in KernelStates
          /\ \A b \in Bytes : Set(R, no, none)[b] =
               IF b \in R THEN Spaces!Mapped(none, no, kernel[b].base) ELSE kernel[b]
      BY <1>2, <3>1, <3>2, SetBytes
    <3>4. kernel' = Set(R, no, none)
      BY <1>1, <1>13, <3>2
    <3> QED
      BY <3>2, <3>3, <3>4
  <2>3. e.address \in Nat
    <3>1. first \in Nat
      BY PageOfAddress DEF first
    <3> QED
      BY <1>7, <1>10, <1>13, <3>1
  <2>4. CASE size = 0
    <3>1. ~ValidEvent(e, "windows")
      BY <1>10, <2>1, <2>4, WindowsCallIsValid
    <3>2. ~Accepted(e) /\ beyond' = TRUE
      BY <1>1, <1>2, <1>13, <2>4, <3>1 DEF Accepted
    <3>3. TypedEvent(e) /\ e.success \in BOOLEAN
      BY <1>7, <1>10, <1>13, <2>1, <2>3, <2>4 DEF TypedEvent
    <3> QED
      BY <1>1, <1>11, <2>2, <3>2, <3>3, WindowsStep
  <2>5. CASE size # 0 /\ pageSize = 0
    <3>1. e.operation # "release" /\ e.size = 0
      BY <1>7, <1>10, <1>13, <2>5, WindowsBounds
    <3> QED
      BY <1>1, <1>10, <1>11, <2>1, <2>2, <2>3, <2>5, <3>1, UnknownPageSize
  <2>6. CASE size # 0 /\ pageSize = PageSize
    <3>1. e.address = first /\ e.size = PageUp(address + size) - first
      BY <1>7, <1>10, <1>13, <2>6
    <3>2. first \in Nat /\ first <= address /\ size \in Nat \ {0}
      BY <2>6, PageOfAddress DEF first
    <3>3. Touched(first, address, size) \subseteq Bytes /\ R = Touched(first, address, size)
      BY <1>4, <1>13, <2>6 DEF T
    <3>4. /\ e.address \in Nat /\ e.size \in Nat /\ e.size # 0 /\ ValidRange(e)
          /\ RangeOf(e) = R
      BY <3>1, <3>2, <3>3, TouchedRange
    <3>5. TypedEvent(e) /\ ValidEvent(e, "windows") /\ e.success \in BOOLEAN
      BY <1>10, <2>1, <2>6, <3>4, WindowsCallIsValid DEF TypedEvent
    <3>6. ASSUME \A b \in R : kernel[b].committed
          PROVE  Accepted(e)
      <4>1. \A b \in R : Byte(b).mapped /\ Byte(b).committed
        BY <1>2, <1>4, <1>13, <3>6
      <4>2. Spaces!Admits(Memory(segments), e)
        BY <1>10, <3>4, <4>1, WindowsAdmits
      <4> QED
        BY <1>10, <3>5, <4>2 DEF Accepted, WindowsCall
    <3>7. Accepted(e) \/ beyond' \/ pageSize = 0
      BY <1>1, <1>13, <3>6
    <3>8. ASSUME NEW b \in Bytes
          PROVE  After(e, b) = kernel'[b]
      <4>1. After(e, b) = IF b \in R THEN Spaces!Mapped(0, FALSE, Byte(b).base)
                                     ELSE Byte(b)
        BY <1>10, <2>1, <3>4, AfterByte
      <4> QED
        BY <1>2, <2>2, <4>1
    <3> QED
      BY <1>1, <1>11, <2>2, <3>5, <3>7, <3>8, WindowsStep
  <2> QED
    BY <1>2, <2>4, <2>5, <2>6
<1> QED
  BY <1>3, <1>12, <1>13

\* A VirtualFree that releases.
LEMMA ReleaseKeeps ==
  ASSUME WindowsInv, NEW address \in Nat, NEW size \in Nat, ReleaseCall(address, size)
  PROVE  WindowsInv'
<1> DEFINE R == ReservationOf(address)
           success == size = 0 /\ R # {}
           d == WindowsEvent("release", success, address, size, {"release"}, 0)
           located == [d EXCEPT !.address = address]
           e == IF ~success THEN d ELSE located
           a == IF success THEN address ELSE 0
<1>1. /\ Step(e) /\ UNCHANGED <<pageSize, beyond>>
      /\ kernel' = IF success THEN [b \in Bytes |-> IF b \in R THEN NotReserved ELSE kernel[b]]
                              ELSE kernel
  <2>1. FreeEvent("release", success, address, size) = e
    BY DEF FreeEvent
  <2>2. Step(FreeEvent("release", success, address, size))
    BY DEF ReleaseCall
  <2>3. Step(e)
    <3> HIDE DEF e
    <3> QED
      BY <2>1, <2>2
  <2> HIDE DEF e
  <2> QED
    BY <2>3 DEF ReleaseCall
<1>2. /\ beyond \in BOOLEAN /\ status = "running"
      /\ kernel \in KernelStates /\ \A b \in Bytes : Byte(b) = kernel[b]
  BY <1>1 DEF WindowsInv, Step
<1>3. success \in BOOLEAN /\ (success => R # {})
      /\ R = {b \in Bytes : kernel[b].mapped /\ kernel[b].base = address}
  BY DEF ReservationOf
<1>4. d = WithRange(d, 0, 0) /\ located = WithRange(d, address, 0)
  <2> HIDE DEF success
  <2> QED
    BY EventHasNoRange, LocatedEvent
<1>5. e = WithRange(d, a, 0)
  <2> HIDE DEF d, located
  <2> QED
    BY <1>4
<1>6. (~success => a = 0) /\ (success => a = address)
  OBVIOUS
<1> HIDE DEF e, a, success
<1>7. Reports(WithRange(d, a, 0), "release", success, size, {"release"}, 0, a, 0)
  BY <1>3, EventReports
<1> HIDE DEF d, located, R
<1>8. Reports(e, "release", success, size, {"release"}, 0, a, 0)
  BY <1>5, <1>7
<1>9. /\ WindowsCall(e) /\ e.success = success /\ e.operation = "release"
      /\ e.protection = 0 /\ e.address = a /\ e.size = 0
  BY <1>3, <1>6, <1>8 DEF Reports, WindowsCall, WindowsOperations, AllowedFlags, RequiredFlags
<1>10. beyond' \in BOOLEAN /\ (beyond => beyond')
  BY <1>1, <1>2
<1>11. CASE ~success
  <2>1. e.success = FALSE /\ UNCHANGED <<kernel, pageSize>>
    BY <1>1, <1>3, <1>9, <1>11
  <2> QED
    BY <1>1, <1>9, <1>10, <2>1, FailureKeeps
<1>12. CASE success
  <2>1. e.success = TRUE /\ e.address = address /\ TypedEvent(e)
    BY <1>3, <1>6, <1>9, <1>12 DEF TypedEvent
  <2>2. ValidEvent(e, "windows")
    BY <1>9, WindowsCallIsValid
  <2>3. PICK r \in Bytes : kernel[r].mapped /\ kernel[r].base = address
    BY <1>3, <1>12
  <2>4. Spaces!Admits(Memory(segments), e)
    <3>1. r \in 0 .. MaxAddress - 1
      BY WindowsBounds
    <3>2. Byte(r).mapped /\ Byte(r).base = e.address
      BY <1>2, <2>1, <2>3
    <3> QED
      BY <1>9, <3>1, <3>2, WindowsAdmits
  <2>5. Accepted(e)
    BY <1>9, <2>2, <2>4 DEF Accepted, WindowsCall
  <2>6. NotReserved = Spaces!Free
        /\ NotReserved \in [mapped : BOOLEAN, protection : Nat, committed : BOOLEAN, base : Nat]
    BY DEF NotReserved, Spaces!Free
  <2>7. kernel' = [b \in Bytes |-> IF b \in R THEN NotReserved ELSE kernel[b]]
    BY <1>1, <1>12
  <2>8. kernel' \in KernelStates
    BY <1>2, <2>6, <2>7 DEF KernelStates
  <2>9. ASSUME NEW b \in Bytes
        PROVE  After(e, b) = kernel'[b]
    <3>1. After(e, b) = IF Byte(b).mapped /\ Byte(b).base = e.address
                          THEN Spaces!Free ELSE Byte(b)
      BY <1>9, <2>1, AfterByte
    <3> QED
      BY <1>2, <1>3, <2>1, <2>6, <2>7, <3>1
  <2> QED
    BY <1>1, <1>10, <2>1, <2>5, <2>8, <2>9, WindowsStep
<1> QED
  BY <1>3, <1>11, <1>12

-----------------------------------------------------------------------------
(* Windows: the theorems.                                                  *)

LEMMA WindowsInvInit == WindowsInit => WindowsInv
<1> SUFFICES ASSUME WindowsInit PROVE WindowsInv
  OBVIOUS
<1>1. /\ segments = <<>> /\ platform = "windows" /\ status = "running" /\ beyond = FALSE
      /\ kernel = [b \in Bytes |-> NotReserved] /\ pageSize \in {0, PageSize}
  BY DEF WindowsInit, Init
<1>2. Sorted(segments) /\ Members(segments) = {}
  BY <1>1 DEF Sorted, Members
<1>3. NotReserved = Spaces!Free
      /\ NotReserved \in [mapped : BOOLEAN, protection : Nat, committed : BOOLEAN, base : Nat]
  BY DEF NotReserved, Spaces!Free
<1>4. ASSUME NEW b \in Bytes
      PROVE  Byte(b) = kernel[b]
  <2>1. b \in 0 .. MaxAddress - 1
    BY WindowsBounds
  <2>2. Memory(segments)[b] = Spaces!Free
    BY <1>2, <2>1, MemoryAt
  <2> QED
    BY <1>1, <1>3, <2>2 DEF Byte
<1>5. kernel \in KernelStates
  BY <1>1, <1>3 DEF KernelStates
<1> QED
  BY <1>1, <1>2, <1>4, <1>5 DEF WindowsInv

LEMMA WindowsInvNext == WindowsInv /\ [WindowsNext]_windowsVars => WindowsInv'
<1> SUFFICES ASSUME WindowsInv, [WindowsNext]_windowsVars PROVE WindowsInv'
  OBVIOUS
<1>1. CASE UNCHANGED windowsVars
  BY <1>1 DEF windowsVars, vars, WindowsInv, Sorted, KernelStates, Byte, Memory
<1>2. CASE WindowsNext
  <2>1. PICK address \in {0} \cup Bytes, size \in Sizes :
          \/ \E type \in AllocationTypes, protection \in Protections,
                expectation \in Expectations :
               \/ \E result \in Bytes :
                    ReserveCall(address, size, type, protection, expectation, result)
               \/ CommitCall(address, size, type, protection, expectation)
               \/ AllocFails(address, size, type, protection, expectation)
          \/ \E protection \in Protections :
               rs_virtual_protect(address, size, protection)
          \/ DecommitCall(address, size)
          \/ ReleaseCall(address, size)
    BY <1>2 DEF WindowsNext
  <2>2. address \in Nat /\ size \in Nat /\ \A protection \in Protections : protection \in Nat
    BY ProgramAssumption, WindowsBounds
  <2>3. ASSUME NEW type \in AllocationTypes, NEW protection \in Protections,
               NEW expectation \in Expectations
        PROVE  /\ \A result \in Bytes :
                    ReserveCall(address, size, type, protection, expectation, result)
                      => WindowsInv'
               /\ CommitCall(address, size, type, protection, expectation) => WindowsInv'
               /\ AllocFails(address, size, type, protection, expectation) => WindowsInv'
    <3>1. protection \in Nat
      BY <2>2
    <3>2. ASSUME NEW result \in Bytes,
                 ReserveCall(address, size, type, protection, expectation, result)
          PROVE  WindowsInv'
      BY <2>2, <3>1, <3>2, ReserveKeeps
    <3>3. ASSUME CommitCall(address, size, type, protection, expectation)
          PROVE  WindowsInv'
      BY <2>2, <3>1, <3>3, CommitKeeps
    <3>4. ASSUME AllocFails(address, size, type, protection, expectation)
          PROVE  WindowsInv'
      BY <2>2, <3>1, <3>4, AllocFailsKeeps
    <3> QED
      BY <3>2, <3>3, <3>4
  <2>4. ASSUME NEW protection \in Protections, rs_virtual_protect(address, size, protection)
        PROVE  WindowsInv'
    BY <2>2, <2>4, ProtectKeeps
  <2>5. DecommitCall(address, size) => WindowsInv'
    BY <2>2, DecommitKeeps
  <2>6. ReleaseCall(address, size) => WindowsInv'
    BY <2>2, ReleaseKeeps
  <2> QED
    BY <2>1, <2>3, <2>4, <2>5, <2>6
<1> QED
  BY <1>1, <1>2

\* What replay knows of the memory of a Windows process, and why it stops.
THEOREM WindowsInvariant == WindowsSpec => []WindowsInv
BY WindowsInvInit, WindowsInvNext, PTL DEF WindowsSpec

\* ReplayIsTheWindowsKernel: what replay accepts is what the kernel did, for any
\* page size and granularity, although the wrapper rounds the ranges itself.
THEOREM WindowsAcceptedIsTheKernel == WindowsSpec => []ReplayIsTheWindowsKernel
<1>1. WindowsInv => ReplayIsTheWindowsKernel
  BY DEF WindowsInv, ReplayIsTheWindowsKernel, Byte
<1> QED
  BY <1>1, WindowsInvariant, PTL

\* RefusedOnlyBeyond: nothing else that the program can do through the wrappers
\* makes its trace refused.
THEOREM WindowsRefusals == WindowsSpec => []RefusedOnlyBeyond
<1>1. WindowsInv => RefusedOnlyBeyond
  BY DEF WindowsInv, RefusedOnlyBeyond
<1> QED
  BY <1>1, WindowsInvariant, PTL

=============================================================================
