---------------------------- MODULE AddressRange ----------------------------
(***************************************************************************)
(* Half-open address ranges [start, end), from                             *)
(* src/include/runtimeskeptic/vm/address_range.hpp and                     *)
(* src/src/vm/address_range.cpp.  Addresses are unsigned machine words:    *)
(* WordMax is the largest one (2^64 - 1 in the code).                      *)
(***************************************************************************)
EXTENDS Naturals, Sequences

CONSTANT WordMax

ASSUME WordAssumption == WordMax \in Nat

Word == 0 .. WordMax

\* A sum of two words, as unsigned arithmetic computes it.
Plus(a, b) == (a + b) % (WordMax + 1)

Range == [start : Word, end : Word]

\* The addresses of a range; an end at or below the start makes it empty.
Addresses(r) == {a \in Word : r.start <= a /\ a < r.end}

empty(r) == r.end <= r.start

contains(r, other) ==
    /\ ~empty(other)
    /\ other.start >= r.start
    /\ other.end <= r.end

intersects(r, other) ==
    /\ ~empty(r) /\ ~empty(other)
    /\ r.start < other.end
    /\ other.start < r.end

\* The set of ranges from_base_size returns: none for an empty or a wrapping one.
from_base_size(base, size) ==
    IF size = 0 \/ base > WordMax - size
        THEN {}
        ELSE {[start |-> base, end |-> base + size]}

\* The addresses a list of ranges speaks about.
Covered(ranges) == {a \in Word : \E i \in 1 .. Len(ranges) :
                        ranges[i].start <= a /\ a < ranges[i].end}
=============================================================================
