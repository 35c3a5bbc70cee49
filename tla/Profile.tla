------------------------------ MODULE Profile ------------------------------
(***************************************************************************)
(* What a profile answers about a range of addresses:                      *)
(* EnvironmentProfile::query_range of src/src/vm/profile.cpp.  A profile   *)
(* is a record "vm" of facts, with two lists of ranges, each classified by *)
(* the evidence for it.                                                    *)
(***************************************************************************)
EXTENDS AddressRange, Evidence

CONSTANT WordBits     \* the width of an address, 64 in the code

ASSUME WordBitsAssumption == WordBits \in Nat /\ WordMax = 2 ^ WordBits - 1

RangeVerdict(level, class) == [level |-> level, evidence |-> class]

\* The ranges the two loops look for, as positions in their list, and the
\* evidence for the first of them, at which the loop returns.
Clashing(vm, range) ==
  {i \in DOMAIN vm.unavailable_ranges : intersects(vm.unavailable_ranges[i], range)}

Holding(vm, range) ==
  {i \in DOMAIN vm.available_ranges : contains(vm.available_ranges[i], range)}

FirstOf(ranges, found) ==
  ranges[CHOOSE i \in found : \A j \in found : i <= j].evidence

\* Mutant: an available range is believed before an unavailable one.
query_range_Optimistic(vm, range) ==
  LET below == is_known(vm.min_map_address) /\ range.start < vm.min_map_address.value
      above == is_known(vm.max_user_address) /\ range.end > vm.max_user_address.value
      clash == Clashing(vm, range)
      held == Holding(vm, range)
  IN IF empty(range) THEN RangeVerdict(Unsupported, SpecifiedGuarantee)
     ELSE IF below THEN RangeVerdict(Unsupported, vm.min_map_address.evidence)
     ELSE IF above THEN RangeVerdict(Unsupported, vm.max_user_address.evidence)
     ELSE IF held # {} THEN RangeVerdict(Supported, FirstOf(vm.available_ranges, held))
     ELSE IF clash # {} THEN RangeVerdict(Unsupported, FirstOf(vm.unavailable_ranges, clash))
     ELSE RangeVerdict(UnknownSupport, UnknownEvidence)

\* Hard bounds, then unavailable ranges, then an available one that holds all
\* of the request; nothing is assumed of what was not observed.
query_range(vm, range) ==
  LET below == is_known(vm.min_map_address) /\ range.start < vm.min_map_address.value
      above == is_known(vm.max_user_address) /\ range.end > vm.max_user_address.value
      clash == Clashing(vm, range)
      held == Holding(vm, range)
  IN IF empty(range) THEN RangeVerdict(Unsupported, SpecifiedGuarantee)
     ELSE IF below THEN RangeVerdict(Unsupported, vm.min_map_address.evidence)
     ELSE IF above THEN RangeVerdict(Unsupported, vm.max_user_address.evidence)
     ELSE IF clash # {} THEN RangeVerdict(Unsupported, FirstOf(vm.unavailable_ranges, clash))
     ELSE IF held # {} THEN RangeVerdict(Supported, FirstOf(vm.available_ranges, held))
     ELSE RangeVerdict(UnknownSupport, UnknownEvidence)
=============================================================================
