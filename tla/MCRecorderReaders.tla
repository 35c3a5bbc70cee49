------------------------- MODULE MCRecorderReaders -------------------------
(* Instances of RecorderReaders for TLC.                                   *)
EXTENDS RecorderReaders, TLC

Config(m, c, cb) == [abi |-> TRUE, size |-> TRUE, mode |-> m, capacity |-> c,
                     reservedZero |-> TRUE, callback |-> cb]

\* A recording buffer that fills, a reporting one whose callback recurses, one
\* that aborts, and a configuration of each kind that initialize refuses.
MCConfigs ==
  {Config("record", 2, TRUE), Config("report", 2, TRUE), Config("assert", 1, TRUE),
   Config("record", 0, FALSE), Config("record", 3, FALSE),
   Config("invalid", 1, FALSE),
   [Config("record", 1, FALSE) EXCEPT !.abi = FALSE],
   [Config("record", 1, FALSE) EXCEPT !.size = FALSE],
   [Config("record", 1, FALSE) EXCEPT !.reservedZero = FALSE]}

\* A buffer that fills while its violations are reported, or abort.
MCLiveConfigs == {Config(m, 1, TRUE) : m \in {"report", "assert"}}

Symmetry == Permutations(Threads)
=============================================================================
