------------------------------ MODULE Analyzer ------------------------------
(***************************************************************************)
(* The compatibility analyzer as a state machine, Analysis::run of         *)
(* src/src/vm/analyzer.cpp: the rules run in a fixed order, each of which  *)
(* may emit a finding or lower the verdict.                                *)
(***************************************************************************)
EXTENDS AnalyzerRules

CONSTANT Analyses     \* the requirements, profiles and options there are

\* What the rules read of a requirement.
OptionalWord == Word \cup {Absent}

MappingRequest ==
  [operation : STRING, address : OptionalWord, size : Word,
   exact_address_required : BOOLEAN, identity_required : BOOLEAN,
   translation_available : BOOLEAN, relocate : BOOLEAN,
   validates_returned_address : BOOLEAN, retries_on_failure : BOOLEAN,
   write : BOOLEAN, execute : BOOLEAN, write_then_execute : BOOLEAN,
   simultaneous_write_execute : BOOLEAN,
   reserve_then_commit : BOOLEAN, commit_is_checked_call : BOOLEAN,
   file_backed : BOOLEAN, file_length : OptionalWord, file_offset : Word,
   accesses_beyond_eof : BOOLEAN, within_final_page : BOOLEAN,
   address_min : OptionalWord, address_max : OptionalWord, max_displacement : BOOLEAN,
   required_alignment : OptionalWord, required_page_size : OptionalWord,
   page_size_relation : {"equal", "at_most", "at_least"},
   relies_on_unmapped_beyond_size : BOOLEAN,
   pointer_width : OptionalWord, sink : Sinks,
   assumption_evidence : EvidenceClass, limitations : SUBSET STRING]

\* What they read of a profile.
FactOf(values) == [value : values, evidence : EvidenceClass]
ClassifiedRange == [start : Word, end : Word, evidence : EvidenceClass]

VirtualMemoryModel ==
  [min_map_address : FactOf(Word), max_user_address : FactOf(Word),
   page_size : FactOf(Word), allocation_granularity : FactOf(Word),
   max_single_reservation : FactOf(Word), max_single_reservation_hinted : FactOf(Word),
   anonymous_mapping_supported : FactOf(BOOLEAN), exact_mapping : FactOf(SupportLevel),
   hinted_mapping_may_relocate : FactOf(BOOLEAN),
   fixed_noreplace_available : FactOf(BOOLEAN),
   reserve_commit_model : FactOf(STRING), file_map_beyond_eof : FactOf(STRING),
   write_execute_simultaneous : FactOf(BOOLEAN),
   write_then_execute_transition : FactOf(BOOLEAN),
   anonymous_executable_mapping : FactOf(BOOLEAN),
   jit_entitlement_required : FactOf(BOOLEAN),
   available_ranges : Seq(ClassifiedRange), unavailable_ranges : Seq(ClassifiedRange),
   process_pointer_width : Nat, measured : BOOLEAN]

AnalysisInput ==
  [req : MappingRequest, vm : VirtualMemoryModel, report_unknowns : BOOLEAN]

\* Nothing is asked of the two documents but that their fields have values.
ASSUME AnalysesAssumption == Analyses \subseteq AnalysisInput

VARIABLES
  analysis,   \* req_, profile_ and options_
  pos,        \* the number of the rule that runs next
  result,     \* result_, with the findings in the order of their emission
  report      \* the findings as run() returns them

vars == <<analysis, pos, result, report>>

Init ==
  /\ analysis \in Analyses
  /\ pos = 0
  /\ result = EmptyResult(analysis)
  /\ report = <<>>

Begin ==
  /\ pos = 0 /\ InDomain(analysis)
  /\ pos' = 1
  /\ UNCHANGED <<analysis, result, report>>

\* An operation that is not one of virtual memory is not judged.
OutOfDomain ==
  /\ pos = 0 /\ ~InDomain(analysis)
  /\ result' = [Limitation(result, "operation") EXCEPT !.overall = UnknownSupport]
  /\ pos' = Rules + 2
  /\ UNCHANGED <<analysis, report>>

RunRule(k) ==
  /\ pos = k
  /\ result' = rule(k, analysis, result)
  /\ pos' = k + 1
  /\ UNCHANGED <<analysis, report>>

Return ==
  /\ pos = Rules + 1
  /\ report' = Sorted(result.findings)
  /\ pos' = Rules + 2
  /\ UNCHANGED <<analysis, result>>

Next == Begin \/ OutOfDomain \/ (\E k \in 1 .. Rules : RunRule(k)) \/ Return

Spec == Init /\ [][Next]_vars

Returned == pos = Rules + 2

-----------------------------------------------------------------------------
(* A reference: the placements that nothing in the profile rules out.  As  *)
(* in is_aligned, nothing is aligned to what is not a power of two.        *)

Pinned(req) == req.address # Absent /\ (req.exact_address_required \/ req.identity_required)

\* The address a request names lies in the window it asks for.  Windows are
\* half-open: one that is not bounded above ends at the largest word, at which
\* nothing starts.
Consistent(req) ==
  req.address # Absent =>
    /\ req.address_min # Absent => req.address >= req.address_min
    /\ req.address_max # Absent => req.address < req.address_max
    /\ req.address_min # Absent /\ req.address_max = Absent => req.address < WordMax

Placements(a) ==
  {range \in UNION {from_base_size(base, a.req.size) : base \in 0 .. WordMax} :
     /\ Pinned(a.req) => range.start = a.req.address
     /\ a.req.address_min # Absent => range.start >= a.req.address_min
     /\ a.req.address_max # Absent => range.start < a.req.address_max
     /\ is_known(a.vm.min_map_address) => range.start >= a.vm.min_map_address.value
     /\ is_known(a.vm.max_user_address) => range.end <= a.vm.max_user_address.value
     /\ a.req.exact_address_required /\ is_known(a.vm.allocation_granularity) =>
          is_aligned(range.start, a.vm.allocation_granularity.value)
     /\ \A i \in DOMAIN a.vm.unavailable_ranges :
          ~intersects(a.vm.unavailable_ranges[i], range)}

Refuted(fact) == is_known(fact) /\ ~fact.value
Established(fact) == is_known(fact) /\ fact.value

\* What the request asks of the host beside a place, and the host is known to refuse.
Refused(a) ==
  \/ ~a.req.file_backed /\ Refuted(a.vm.anonymous_mapping_supported)
  \/ /\ a.req.exact_address_required
     /\ is_known(a.vm.exact_mapping) /\ a.vm.exact_mapping.value = Unsupported
  \/ /\ a.req.simultaneous_write_execute \/ (a.req.write /\ a.req.execute)
     /\ Refuted(a.vm.write_execute_simultaneous)
  \/ /\ RunsCode(a.req) /\ ~a.req.file_backed
     /\ Refuted(a.vm.anonymous_executable_mapping)
  \/ /\ a.req.required_page_size # Absent /\ is_known(a.vm.page_size)
     /\ CASE a.req.page_size_relation = "equal" -> a.vm.page_size.value # a.req.required_page_size
          [] a.req.page_size_relation = "at_most" -> a.vm.page_size.value > a.req.required_page_size
          [] a.req.page_size_relation = "at_least" -> a.vm.page_size.value < a.req.required_page_size

\* No attempt can succeed: the request contradicts itself, has nowhere to go
\* or is refused as a whole.
Hopeless(a) == ~Consistent(a.req) \/ Placements(a) = {} \/ Refused(a)

-----------------------------------------------------------------------------
(* Properties.                                                             *)

\* "SUPPORTED must rest on a fact that says mapping works here, not on the
\* absence of facts that say it does not" (the comment on
\* rule_baseline_mapping_capability): a supported request that needs anonymous
\* memory has it, one pinned to an address was seen to be available there in
\* whole, and nothing known of the host rules it out.
SupportedIsEstablished ==
  Returned /\ result.overall = Supported =>
    /\ analysis.req.file_backed \/ Established(analysis.vm.anonymous_mapping_supported)
    /\ Pinned(analysis.req) =>
         \E range \in Placements(analysis) :
           \E i \in DOMAIN analysis.vm.available_ranges :
             contains(analysis.vm.available_ranges[i], range)
    /\ ~Refused(analysis)

\* A file mapping that is read past the end of its file is never plainly
\* supported, unless what is read is the partial page every host fills with
\* zeros; an offset near the top of the address range does not hide it
\* (the comment in rule_file_mapping_beyond_eof).  A file as long as the
\* largest word is past what the saturated end can show.
ReadPastEofIsReported ==
  LET req == analysis.req
  IN Returned /\ result.overall = Supported /\ req.file_backed /\ req.file_length # Absent
       /\ req.accesses_beyond_eof /\ req.file_length < WordMax
       /\ req.file_offset + req.size > req.file_length =>
         /\ req.within_final_page
         /\ is_known(analysis.vm.page_size)
         /\ req.file_length % analysis.vm.page_size.value # 0

\* RS-VM-0015 says that no number of attempts can succeed: when it is emitted,
\* the profile leaves no place for the request or refuses it as a whole.  A
\* request that names an address outside its own window contradicts itself.
RetryIsHopeless == already_emitted(result, 15) => Hopeless(analysis)

\* One class better, for what is known at all.
Better(class) == IF class \in {SpecifiedGuarantee, UnknownEvidence} THEN class ELSE class - 1
BetterFact(fact) == [fact EXCEPT !.evidence = Better(@)]
BetterRanges(ranges) == [i \in DOMAIN ranges |-> [ranges[i] EXCEPT !.evidence = Better(@)]]
BetterKnown(a) ==
  [a EXCEPT
     !.req.assumption_evidence = Better(@),
     !.vm = [field \in DOMAIN a.vm |->
               CASE field \in {"available_ranges", "unavailable_ranges"} -> BetterRanges(a.vm[field])
                 [] field \in {"process_pointer_width", "measured"} -> a.vm[field]
                 [] OTHER -> BetterFact(a.vm[field])]]

\* Evidence bears on confidence alone and in one direction: the same facts,
\* better attested, give the same findings and the same verdict, none of them
\* with less confidence, through the clamp in emit and the evidence the retry
\* rule inherits from other findings.
BetterEvidenceNeverWeakens ==
  Returned /\ InDomain(analysis) =>
    LET better == Analyze(BetterKnown(analysis))
    IN /\ better.overall = result.overall
       /\ Len(better.findings) = Len(result.findings)
       /\ \A i \in DOMAIN result.findings :
            /\ better.findings[i].id = result.findings[i].id
            /\ better.findings[i].impact = result.findings[i].impact
            /\ better.findings[i].confidence <= result.findings[i].confidence

\* "The verdict is unaffected": an analysis that does not report unknowns comes
\* to the verdict of the one that does.
QuietKeepsTheVerdict ==
  Returned => result.overall = Analyze([analysis EXCEPT !.report_unknowns = TRUE]).overall

-----------------------------------------------------------------------------
(* The inductive strengthening of the first three properties.              *)

Finding ==
  [id : 1 .. 27, severity : Severity, confidence : Confidence, impact : SupportLevel,
   structural : BOOLEAN, evidence : SUBSET EvidenceClass]

Constraint == {"grant", "fits", "page_size", "placement", "write_execute", "executable",
               "entitlement", "final_page"}

\* Strings all of them: those the analyzer adds are spelled out for the provers.
LimitationText == STRING \cup {"origin", "operation", "required_alignment"}

Result ==
  [overall : SupportLevel, findings : Seq(Finding),
   satisfied : SUBSET [constraint : Constraint, evidence : EvidenceClass],
   limitations : SUBSET LimitationText]

\* Every variable but the report, which Return alone writes.
TypeOK == analysis \in Analyses /\ pos \in 0 .. Rules + 2 /\ result \in Result

\* A finding that says a request is impossible is right, whenever a retry could
\* be told so: a pointer that truncates is no obstacle to one that tries again.
Sound(a, f) ==
  (f.structural /\ a.req.retries_on_failure) \/ f.id = 15 => Hopeless(a)

FindingsSound == \A f \in Emitted(result) : Sound(analysis, f)

\* What a request is known to have once a rule has passed it without lowering
\* the verdict.
MemoryIsThere(a) ==
  a.req.file_backed \/ Established(a.vm.anonymous_mapping_supported)

PageSizeFits(a) ==
  a.req.required_page_size # Absent /\ is_known(a.vm.page_size) =>
    CASE a.req.page_size_relation = "equal" -> a.vm.page_size.value = a.req.required_page_size
      [] a.req.page_size_relation = "at_most" -> a.vm.page_size.value <= a.req.required_page_size
      [] a.req.page_size_relation = "at_least" -> a.vm.page_size.value >= a.req.required_page_size

AddressIsAligned(a) ==
  a.req.address # Absent /\ a.req.exact_address_required
    /\ is_known(a.vm.allocation_granularity) =>
      is_aligned(a.req.address, a.vm.allocation_granularity.value)

PlaceIsAvailable(a) ==
  Pinned(a.req) =>
    \E range \in RequestRange(a.req) :
      /\ is_known(a.vm.min_map_address) => range.start >= a.vm.min_map_address.value
      /\ is_known(a.vm.max_user_address) => range.end <= a.vm.max_user_address.value
      /\ Clashing(a.vm, range) = {} /\ Holding(a.vm, range) # {}

ExactIsGranted(a) ==
  ~(a.req.exact_address_required /\ is_known(a.vm.exact_mapping)
      /\ a.vm.exact_mapping.value = Unsupported)

WriteExecuteIsGranted(a) ==
  a.req.simultaneous_write_execute \/ (a.req.write /\ a.req.execute) =>
    ~Refuted(a.vm.write_execute_simultaneous)

ExecutableIsGranted(a) ==
  RunsCode(a.req) /\ ~a.req.file_backed => ~Refuted(a.vm.anonymous_executable_mapping)

EofIsCovered(a) ==
  a.req.file_backed /\ a.req.file_length # Absent /\ a.req.accesses_beyond_eof
    /\ MappingEnd(a.req) > a.req.file_length =>
      /\ a.req.within_final_page
      /\ is_known(a.vm.page_size)
      /\ a.req.file_length % a.vm.page_size.value # 0

Passed(k, a) ==
  CASE k = 2 -> MemoryIsThere(a)
    [] k = 4 -> Consistent(a.req)
    [] k = 7 -> PageSizeFits(a)
    [] k = 8 -> AddressIsAligned(a)
    [] k = 10 -> PlaceIsAvailable(a)
    [] k = 11 -> ExactIsGranted(a)
    [] k = 15 -> WriteExecuteIsGranted(a)
    [] k = 16 -> ExecutableIsGranted(a)
    [] k = 20 -> EofIsCovered(a)
    [] OTHER -> TRUE

VerdictEarned ==
  result.overall = Supported => \A k \in 1 .. Rules : k < pos => Passed(k, analysis)

AnalyzerInv == TypeOK /\ FindingsSound /\ VerdictEarned
=============================================================================
