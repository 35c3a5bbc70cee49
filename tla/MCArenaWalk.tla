----------------------------- MODULE MCArenaWalk -----------------------------
(* Instances of ArenaWalk for TLC.                                           *)
EXTENDS ArenaWalk

\* Ceilings that leave room for both arenas, or for one.
Windows ==
    [platform |-> "windows", max_addresses |-> {12, 22, 24}, span |-> 8,
     low_bottom |-> 8, low_top |-> 0, low_window |-> 4, high_window |-> 4,
     band |-> 4]

Macos ==
    [platform |-> "macos", max_addresses |-> {0, 12, 14, 16}, span |-> 2,
     low_bottom |-> 4, low_top |-> 12, low_window |-> 4, high_window |-> 2,
     band |-> 4]

MCProbes == {Windows, Macos}
=============================================================================
