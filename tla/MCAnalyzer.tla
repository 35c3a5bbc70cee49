----------------------------- MODULE MCAnalyzer -----------------------------
(***************************************************************************)
(* Requirements and profiles that differ from a few typical ones in one    *)
(* field, over an address space of 32 bytes with pages of 4.               *)
(***************************************************************************)
EXTENDS Analyzer

Measured(value) == Fact(value, MeasuredCapability)
Unmeasured(value) == Fact(value, UnknownEvidence)
Classified(first, last, class) == [start |-> first, end |-> last, evidence |-> class]

\* The record and those that differ from it in one field.
Vary(record, alternatives) ==
  {record} \cup UNION {{[record EXCEPT ![field] = value] : value \in alternatives[field]} :
                         field \in DOMAIN alternatives}

Host ==
  [min_map_address |-> Measured(4), max_user_address |-> Measured(28),
   page_size |-> Measured(4), allocation_granularity |-> Measured(4),
   max_single_reservation |-> Measured(8), max_single_reservation_hinted |-> Measured(12),
   anonymous_mapping_supported |-> Measured(TRUE), exact_mapping |-> Measured(Supported),
   hinted_mapping_may_relocate |-> Measured(TRUE),
   fixed_noreplace_available |-> Measured(TRUE),
   reserve_commit_model |-> Measured("posix_lazy"),
   file_map_beyond_eof |-> Measured("sigbus"),
   write_execute_simultaneous |-> Measured(TRUE),
   write_then_execute_transition |-> Measured(TRUE),
   anonymous_executable_mapping |-> Measured(TRUE),
   jit_entitlement_required |-> Measured(FALSE),
   available_ranges |-> <<Classified(4, 12, MeasuredCapability), Classified(16, 24, MeasuredCapability)>>,
   unavailable_ranges |-> <<Classified(12, 16, MeasuredCapability)>>,
   process_pointer_width |-> 5, measured |-> TRUE]

Flag(values) == {Fact(value, class) : value \in values,
                                      class \in {ObservedInvariantClass, UnknownEvidence}}

\* A host of which nothing is known, and one that hardens what it can.
Blank == [field \in DOMAIN Host |->
            CASE field \in {"available_ranges", "unavailable_ranges"} -> <<>>
              [] field = "process_pointer_width" -> 0
              [] field = "measured" -> FALSE
              [] OTHER -> [Host[field] EXCEPT !.evidence = UnknownEvidence]]

Hardened ==
  [Host EXCEPT !.page_size = Measured(8), !.allocation_granularity = Measured(8),
               !.min_map_address = Measured(8), !.exact_mapping = Measured(Unsupported),
               !.fixed_noreplace_available = Measured(FALSE),
               !.write_execute_simultaneous = Measured(FALSE),
               !.anonymous_executable_mapping = Measured(FALSE),
               !.jit_entitlement_required = Measured(TRUE)]

HostAlternatives ==
  [min_map_address |-> {Measured(16), Unmeasured(0)},
   max_user_address |-> {Measured(8), Measured(20), Unmeasured(0)},
   page_size |-> {Fact(8, StaticallyInferred), Unmeasured(4)},
   allocation_granularity |-> {Measured(6), Measured(8), Unmeasured(4)},
   max_single_reservation |-> {Measured(4), Unmeasured(8)},
   max_single_reservation_hinted |-> {Unmeasured(12)},
   anonymous_mapping_supported |-> Flag({TRUE, FALSE}),
   exact_mapping |-> Flag({Unsupported}),
   hinted_mapping_may_relocate |-> Flag({FALSE}),
   fixed_noreplace_available |-> Flag({FALSE}),
   reserve_commit_model |-> Flag({"windows_reserve_commit"}),
   file_map_beyond_eof |-> Flag({"zero_fill"}),
   write_execute_simultaneous |-> Flag({FALSE}),
   write_then_execute_transition |-> Flag({FALSE}),
   anonymous_executable_mapping |-> Flag({TRUE, FALSE}),
   jit_entitlement_required |-> {Measured(TRUE)},
   available_ranges |-> {<<>>, <<Classified(4, 28, HeuristicRisk)>>},
   unavailable_ranges |-> {<<>>, <<Classified(4, 28, ObservedInvariantClass)>>},
   process_pointer_width |-> {0, 3},
   measured |-> {FALSE}]

Hosts == UNION {Vary(host, HostAlternatives) : host \in {Host, Blank, Hardened}}

Plain ==
  [operation |-> "virtual_memory", address |-> Absent, size |-> 4,
   exact_address_required |-> FALSE, identity_required |-> FALSE,
   translation_available |-> FALSE, relocate |-> FALSE,
   validates_returned_address |-> FALSE, retries_on_failure |-> FALSE,
   write |-> FALSE, execute |-> FALSE, write_then_execute |-> FALSE,
   simultaneous_write_execute |-> FALSE,
   reserve_then_commit |-> FALSE, commit_is_checked_call |-> FALSE,
   file_backed |-> FALSE, file_length |-> Absent, file_offset |-> 0,
   accesses_beyond_eof |-> FALSE, within_final_page |-> FALSE,
   address_min |-> Absent, address_max |-> Absent, max_displacement |-> FALSE,
   required_alignment |-> Absent, required_page_size |-> Absent,
   page_size_relation |-> "equal", relies_on_unmapped_beyond_size |-> FALSE,
   pointer_width |-> Absent, sink |-> "unknown",
   assumption_evidence |-> SpecifiedGuarantee, limitations |-> {}]

Exact(at) == [Plain EXCEPT !.address = at, !.exact_address_required = TRUE]
Hint(at) == [Plain EXCEPT !.address = at]
Identity(at) == [Plain EXCEPT !.address = at, !.identity_required = TRUE]
Retrying(req) == [req EXCEPT !.retries_on_failure = TRUE, !.sink = "retry_loop"]
Jit == [Plain EXCEPT !.write = TRUE, !.write_then_execute = TRUE, !.sink = "fatal_assert"]
File == [Plain EXCEPT !.file_backed = TRUE, !.file_length = 6, !.file_offset = 4,
                      !.accesses_beyond_eof = TRUE, !.sink = "unchecked"]
Bounded == [Plain EXCEPT !.address_min = 4, !.address_max = 16]

\* The loader refuses a size of 0 and an exact address that is not given.
Loads(req) == req.size > 0 /\ (req.exact_address_required => req.address # Absent)

Requirements ==
  {req \in UNION {Vary(base,
    [operation |-> {"other"}, address |-> {0, 6, 20, 30, 31}, size |-> {5, 8, 16, 28},
     exact_address_required |-> {TRUE}, identity_required |-> {TRUE},
     translation_available |-> {TRUE}, relocate |-> {TRUE},
     validates_returned_address |-> {TRUE}, retries_on_failure |-> {TRUE},
     execute |-> {TRUE}, simultaneous_write_execute |-> {TRUE},
     reserve_then_commit |-> {TRUE}, file_backed |-> {TRUE}, file_length |-> {4, 8, 31},
     file_offset |-> {31}, accesses_beyond_eof |-> {FALSE}, within_final_page |-> {TRUE},
     address_min |-> {0, 10, 28}, address_max |-> {4, 7}, max_displacement |-> {TRUE},
     required_alignment |-> {3, 8}, required_page_size |-> {4, 8},
     relies_on_unmapped_beyond_size |-> {TRUE}, pointer_width |-> {0, 3, 4},
     sink |-> {"process_exit", "error_return", "none"},
     assumption_evidence |-> 1 .. 6, limitations |-> {{"extraction"}}]) :
    base \in {Plain, Exact(8), Retrying(Exact(12)), Exact(24), Hint(12), Identity(8),
              Identity(12), Retrying(Jit), File, Retrying(Bounded),
              [Plain EXCEPT !.required_page_size = 8, !.page_size_relation = "at_most"],
              [Plain EXCEPT !.required_page_size = 8, !.page_size_relation = "at_least"],
              [Plain EXCEPT !.reserve_then_commit = TRUE, !.commit_is_checked_call = TRUE]}} :
   Loads(req)}

MCAnalyses == [req : Requirements, vm : Hosts, report_unknowns : BOOLEAN]
=============================================================================
