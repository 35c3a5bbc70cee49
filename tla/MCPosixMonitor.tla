--------------------------- MODULE MCPosixMonitor ---------------------------
(* Instances of PosixMonitor for TLC.                                      *)
EXTENDS PosixMonitor, TLC

ThreadSymmetry == Permutations(Threads)
Expectation(kind, address) == [kind |-> kind, address |-> address]
MCExpectations ==
  {Expectation("null", 0), Expectation("exact", 2)}
=============================================================================
