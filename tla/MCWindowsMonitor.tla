-------------------------- MODULE MCWindowsMonitor --------------------------
(* Instances of WindowsMonitor for TLC.                                    *)
EXTENDS WindowsMonitor, TLC

Expectation(kind, address) == [kind |-> kind, address |-> address]
MCExpectations ==
  {Expectation("null", 0), Expectation("exact", 4)}
=============================================================================
