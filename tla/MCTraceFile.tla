---------------------------- MODULE MCTraceFile ----------------------------
(* Instances of TraceFile for TLC.                                         *)
EXTENDS TraceFile, TLC

Mmap(success, size) ==
  [platform |-> "posix", operation |-> "mmap", success |-> success,
   domain |-> "errno", requestedSize |-> size, returned |-> 0, address |-> 0,
   size |-> IF success THEN size ELSE 0, flags |-> {}, exact |-> FALSE,
   expected |-> 0, violation |-> "none", protection |-> 1]

\* A mapping, a failed call, and what a recorder enabled without a page size
\* records of a mapping: an empty effective range.
Empty == [Mmap(TRUE, 1) EXCEPT !.size = 0]
MCPayloads == {Mmap(TRUE, 1), Mmap(FALSE, 1), Empty}

Buffer(capacity, events, dropped, reentrant) ==
  [capacity |-> capacity, events |-> events, dropped |-> dropped,
   reentrant |-> reentrant]

\* Empty, partly filled and full buffers, with and without losses.
MCBuffers ==
  LET a == Mmap(TRUE, 1) b == Mmap(FALSE, 1)
  IN {Buffer(2, <<>>, 0, 0), Buffer(2, <<a, b>>, 0, 0), Buffer(1, <<a>>, 1, 1),
      Buffer(2, <<a, Empty>>, 0, 0)}
=============================================================================
