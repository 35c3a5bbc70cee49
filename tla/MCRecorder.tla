---------------------------- MODULE MCRecorder ----------------------------
(* Instances of Recorder for TLC.                                          *)
EXTENDS Recorder, TLC

Config(m, c, cb) == [abi |-> TRUE, size |-> TRUE, mode |-> m, capacity |-> c,
                     reservedZero |-> TRUE, callback |-> cb]

\* One valid configuration per mode, at the limit of the array and below it,
\* and one of each kind that initialize refuses.
MCConfigs ==
  {Config("record", 2, FALSE), Config("report", 1, TRUE),
   Config("assert", 2, TRUE),
   Config("record", 0, FALSE), Config("record", 3, FALSE),
   Config("invalid", 1, FALSE),
   [Config("record", 1, FALSE) EXCEPT !.abi = FALSE],
   [Config("record", 1, FALSE) EXCEPT !.size = FALSE],
   [Config("record", 1, FALSE) EXCEPT !.reservedZero = FALSE]}

Symmetry == Permutations(Threads)
=============================================================================
