---------------------------- MODULE AnalyzerRules ----------------------------
(***************************************************************************)
(* The rules of the compatibility analyzer, src/src/vm/analyzer.cpp: each  *)
(* is an operator from the result so far to the next one, over one         *)
(* analysis, that is a requirement, the facts of a profile and the option  *)
(* report_unknowns.  Later rules read what the earlier ones have found.    *)
(***************************************************************************)
EXTENDS Profile, TLC

CONSTANT LargestObserved     \* kLargestObservedRequest

ASSUME LargestObservedAssumption == LargestObserved \in Nat

-----------------------------------------------------------------------------
(* Findings.  An id is the number in RS-VM-nnnn.                           *)

default_severity(id) ==
  CASE id \in {1, 2, 3, 6, 9, 10, 13, 19, 21, 23, 26} -> Critical
    [] id \in {4, 7, 8, 11, 14, 15, 16, 18, 22} -> High
    [] id \in {5, 12, 27} -> Medium
    [] id \in {20, 25} -> Low
    [] id \in {17, 24} -> Info

Sinks == {"fatal_assert", "process_exit", "unchecked", "retry_loop",
          "error_return", "none", "unknown"}

adjust_severity(base, sink) ==
  CASE sink \in {"fatal_assert", "process_exit", "unchecked"} ->
         IF base = Info THEN Info ELSE Critical
    [] sink = "retry_loop" -> IF base = Info THEN Info ELSE High
    [] sink = "error_return" -> IF base = Critical THEN High ELSE base
    [] sink = "none" -> IF base < Medium THEN Medium ELSE base
    [] OTHER -> base

\* A finding, with the application's claim at the head of its evidence chain.
start(a, id, confidence, impact, classes) ==
  [id |-> id, severity |-> default_severity(id), confidence |-> confidence,
   impact |-> impact, structural |-> FALSE,
   evidence |-> {a.req.assumption_evidence} \cup classes]

Structural(f) == [f EXCEPT !.structural = TRUE]

emit(a, r, f) ==
  [r EXCEPT !.overall = combine(@, f.impact),
            !.findings = Append(@,
              [f EXCEPT !.severity = IF f.impact = Supported THEN @
                                     ELSE adjust_severity(@, a.req.sink),
                        !.confidence = clamp_confidence(@, weakest_class(f.evidence))])]

satisfied(r, constraint, class) ==
  [r EXCEPT !.satisfied = @ \cup {[constraint |-> constraint, evidence |-> class]}]

Emitted(r) == {r.findings[i] : i \in DOMAIN r.findings}
established_impossibility(r) == \E f \in Emitted(r) : f.structural
already_emitted(r, id) == \E f \in Emitted(r) : f.id = id

\* The weakest class behind the findings that proved impossibility.
proven_unsupported_evidence(r) ==
  weakest_class({weakest_class(f.evidence) : f \in {g \in Emitted(r) : g.structural}})

\* A fact the request depends on was never established.
FactUnknown(a, r) ==
  IF a.report_unknowns
    THEN emit(a, r, start(a, 17, Hypothesis, UnknownSupport, {UnknownEvidence}))
    ELSE [r EXCEPT !.overall = combine(@, UnknownSupport)]

Limitation(r, what) == [r EXCEPT !.limitations = @ \cup {what}]

\* MappingRequest::range, as a set of at most one range.
RequestRange(req) ==
  IF req.address = Absent THEN {} ELSE from_base_size(req.address, req.size)

is_power_of_two(n) == \E b \in 0 .. WordBits - 1 : n = 2 ^ b
is_aligned(n, alignment) == is_power_of_two(alignment) /\ n % alignment = 0

-----------------------------------------------------------------------------
(* The rules, in the order of run().                                       *)

\* 14: relocation is a permitted fallback and identity is required.
rule_internal_fallback_contradiction(a, r) ==
  IF /\ a.req.relocate /\ ~a.req.validates_returned_address
     /\ a.req.exact_address_required \/ a.req.identity_required
    THEN emit(a, r, start(a, 14, Proven, Unsupported, {SpecifiedGuarantee}))
    ELSE r

\* 17, 19: the host can map anonymous memory at all.
rule_baseline_mapping_capability(a, r) ==
  LET anonymous == a.vm.anonymous_mapping_supported
  IN CASE a.req.file_backed -> r
       [] ~a.req.file_backed /\ ~is_known(anonymous) -> FactUnknown(a, r)
       [] OTHER ->
            IF anonymous.value THEN r
            ELSE emit(a, r, Structural(
                   start(a, 19, Proven, Unsupported, {anonymous.evidence})))

\* 26, 27: it fits, but is it granted?  A caller that names an address above the
\* unhinted grant reaches the wider window.
rule_reservation_grantable(a, r) ==
  LET size == a.req.size
      single == a.vm.max_single_reservation
      hinted == a.vm.max_single_reservation_hinted
      wide == /\ a.req.address # Absent /\ is_known(hinted)
              /\ a.req.address > single.value /\ hinted.value > single.value
      fact == IF wide THEN hinted ELSE single
      failed == fact.value <= WordMax \div 2 /\ size > 2 * fact.value
  IN CASE ~is_known(single) ->
            IF size <= LargestObserved THEN r
            ELSE emit(a, r, start(a, 27, Hypothesis, UnknownSupport, {UnknownEvidence}))
       [] is_known(single) /\ size <= fact.value -> satisfied(r, "grant", fact.evidence)
       [] OTHER ->
            emit(a, r, start(a, 26, IF failed THEN Proven ELSE Hypothesis,
                             IF failed THEN Unsupported ELSE ConditionallySupported,
                             {fact.evidence, SpecifiedGuarantee}))

\* 21: the request fits the address space.
rule_size_feasibility(a, r) ==
  LET top == a.vm.max_user_address
      low == a.vm.min_map_address
      bottom == IF is_known(low) THEN low.value ELSE 0
  IN CASE a.req.size = 0 \/ ~is_known(top) -> r
       [] a.req.size > 0 /\ is_known(top) /\ top.value <= bottom -> r
       [] a.req.size > 0 /\ is_known(top) /\ top.value > bottom ->
            IF a.req.size <= top.value - bottom
              THEN rule_reservation_grantable(a, satisfied(r, "fits", top.evidence))
              ELSE emit(a, r, Structural(start(a, 21, Proven, Unsupported,
                                          {top.evidence, SpecifiedGuarantee})))

\* 23, 25, 17: the address must lie in a window of the program's choosing.
rule_address_bounds(a, r) ==
  LET req == a.req
      top == a.vm.max_user_address
      floor == a.vm.min_map_address
      lower == IF req.address_min = Absent THEN 0 ELSE req.address_min
      upper == IF req.address_max = Absent THEN WordMax ELSE req.address_max
      outside == req.address # Absent /\ (req.address < lower \/ req.address >= upper)
      tooLow == req.address_min # Absent /\ is_known(top) /\ top.value <= lower
      tooHigh == req.address_max # Absent /\ is_known(floor) /\ floor.value >= upper
      observed == \E i \in DOMAIN a.vm.available_ranges :
                    intersects(a.vm.available_ranges[i], [start |-> lower, end |-> upper])
      comfortable == \/ req.address_max = Absent \/ ~is_known(top)
                     \/ top.value = 0 \/ upper > top.value \div 4
      Unsatisfiable(classes) ==
        emit(a, r, Structural(start(a, 23, Proven, Unsupported, classes)))
  IN IF req.address_min = Absent /\ req.address_max = Absent THEN r
     ELSE IF outside THEN Unsatisfiable({SpecifiedGuarantee})
     ELSE IF tooLow THEN Unsatisfiable({top.evidence})
     ELSE IF tooHigh THEN Unsatisfiable({floor.evidence})
     ELSE IF ~observed THEN FactUnknown(a, r)
     ELSE IF comfortable THEN r
     ELSE emit(a, r, start(a, 25, Predictive, ConditionallySupported,
                           {top.evidence, HeuristicRisk}))

\* 24: "within N bytes of something else" is carried and not evaluated.
rule_displacement_constraint(a, r) ==
  IF a.req.max_displacement
    THEN emit(a, r, start(a, 24, Hypothesis, UnknownSupport, {UnknownEvidence}))
    ELSE r

\* 22: an alignment of the reservation that the host does not promise.
rule_reservation_alignment(a, r) ==
  LET alignment == a.req.required_alignment
      granularity == a.vm.allocation_granularity
  IN CASE alignment = Absent \/ a.req.address # Absent -> r
       [] alignment # Absent /\ a.req.address = Absent /\ ~is_power_of_two(alignment) ->
            Limitation(r, "required_alignment")
       [] OTHER ->
            IF ~is_known(granularity) \/ alignment <= granularity.value THEN r
            ELSE emit(a, r, start(a, 22, Proven, ConditionallySupported,
                                  {granularity.evidence, SpecifiedGuarantee}))

\* 6, 17: a page size the program has compiled in.  An unknown one lowers the
\* verdict only if unknowns are reported.
rule_page_size(a, r) ==
  LET required == a.req.required_page_size
      page == a.vm.page_size
      holds == CASE a.req.page_size_relation = "equal" -> page.value = required
                 [] a.req.page_size_relation = "at_most" -> page.value <= required
                 [] a.req.page_size_relation = "at_least" -> page.value >= required
  IN CASE required = Absent -> r
       [] required # Absent /\ ~is_known(page) ->
            IF a.report_unknowns THEN FactUnknown(a, r) ELSE r
       [] OTHER ->
            IF holds THEN satisfied(r, "page_size", page.evidence)
            ELSE emit(a, r, Structural(start(a, 6, Proven, Unsupported, {page.evidence})))

\* 4: the address against the program's own alignment, then against the host's.
rule_address_alignment(a, r) ==
  LET req == a.req
      granularity == a.vm.allocation_granularity
      declared == req.required_alignment # Absent
      odd == declared /\ ~is_power_of_two(req.required_alignment)
      checked == IF odd THEN Limitation(r, "required_alignment") ELSE r
  IN CASE req.address = Absent -> r
       [] /\ req.address # Absent /\ declared /\ ~odd
          /\ ~is_aligned(req.address, req.required_alignment) ->
            emit(a, r, start(a, 4, Proven, Unsupported, {SpecifiedGuarantee}))
       [] OTHER ->
            IF \/ ~req.exact_address_required \/ ~is_known(granularity)
               \/ is_aligned(req.address, granularity.value)
            THEN checked
            ELSE emit(a, checked, Structural(start(a, 4, Proven, Unsupported,
                                        {granularity.evidence, SpecifiedGuarantee})))

\* 5: the host rounds the size up; information, unless the program relies on
\* the bytes past its size.  round_up_to has no result if that wraps.
rule_size_granularity(a, r) ==
  LET granularity == a.vm.allocation_granularity
      rounds == /\ is_known(granularity) /\ is_power_of_two(granularity.value)
                /\ ~is_aligned(a.req.size, granularity.value)
                /\ a.req.size <= WordMax - (granularity.value - 1)
      relies == a.req.relies_on_unmapped_beyond_size
  IN IF ~rounds THEN r
     ELSE emit(a, r, [start(a, 5, Proven, IF relies THEN Unsupported ELSE Supported,
                            {granularity.evidence})
                      EXCEPT !.severity = IF relies THEN High ELSE Info])

\* 20, 1, 2, 3, 17: the range the request names is available.  The address of a
\* caller that needs neither it nor identity is a hint.
rule_range_availability(a, r) ==
  LET req == a.req
      hint == ~req.exact_address_required /\ ~req.identity_required
      Obstacle(range) ==
        IF is_known(a.vm.min_map_address) /\ range.start < a.vm.min_map_address.value
          THEN 2
        ELSE IF is_known(a.vm.max_user_address) /\ range.end > a.vm.max_user_address.value
          THEN 3
        ELSE 1
      Unavailable(range) ==
        LET verdict == query_range(a.vm, range)
        IN emit(a, r, Structural(start(a, Obstacle(range), Proven, Unsupported,
                                       {verdict.evidence})))
      Judge(range) ==
        LET verdict == query_range(a.vm, range)
        IN CASE hint /\ verdict.level # Unsupported -> r
             [] hint /\ verdict.level = Unsupported ->
                  emit(a, r, start(a, 20, Proven, Supported, {verdict.evidence}))
             [] ~hint /\ verdict.level = Supported ->
                  satisfied(r, "placement", verdict.evidence)
             [] ~hint /\ verdict.level = UnknownSupport -> FactUnknown(a, r)
             [] ~hint /\ verdict.level = Unsupported -> Unavailable(range)
  IN IF req.address = Absent THEN r
     ELSE IF RequestRange(req) # {}
       THEN Judge(CHOOSE range \in RequestRange(req) : TRUE)
     ELSE IF hint THEN r
     ELSE emit(a, r, Structural(start(a, 3, Proven, Unsupported, {SpecifiedGuarantee})))

\* 1: the host places nothing at a given address.
rule_exact_mapping_capability(a, r) ==
  LET exact == a.vm.exact_mapping
  IN IF a.req.exact_address_required /\ is_known(exact) /\ exact.value = Unsupported
       THEN emit(a, r, Structural(start(a, 1, Proven, Unsupported, {exact.evidence})))
       ELSE r

\* 16: exact placement overwrites what was there.
rule_non_destructive_exact_mapping(a, r) ==
  LET noreplace == a.vm.fixed_noreplace_available
  IN IF a.req.exact_address_required /\ is_known(noreplace) /\ ~noreplace.value
       THEN emit(a, r, start(a, 16, Proven, ConditionallySupported, {noreplace.evidence}))
       ELSE r

\* 7: a hint may relocate and the caller assumes that it does not.
rule_hinted_relocation(a, r) ==
  LET relocates == a.vm.hinted_mapping_may_relocate
  IN IF /\ ~a.req.exact_address_required /\ a.req.address # Absent
        /\ a.req.identity_required /\ is_known(relocates) /\ relocates.value
       THEN emit(a, r, start(a, 7, Counterexample, Unsupported,
                             {relocates.evidence, BoundedCounterexample}))
       ELSE r

\* 8: the residual case of identity, unless a sharper rule has spoken.
rule_identity_without_translation(a, r) ==
  IF /\ a.req.identity_required /\ ~a.req.translation_available
     /\ ~a.req.exact_address_required
     /\ ~already_emitted(r, 7) /\ ~established_impossibility(r)
    THEN emit(a, r, start(a, 8, Hypothesis, ConditionallySupported, {HeuristicRisk}))
    ELSE r

\* 9: write and execute at once, or in turn.
rule_write_execute(a, r) ==
  LET both == a.req.simultaneous_write_execute \/ (a.req.write /\ a.req.execute)
      simultaneous == a.vm.write_execute_simultaneous
      flip == a.vm.write_then_execute_transition
      flipAvailable == is_known(flip) /\ flip.value
  IN CASE ~both ->
            IF a.req.write_then_execute /\ is_known(flip) /\ ~flip.value
              THEN emit(a, r, start(a, 9, Proven, Unsupported, {flip.evidence}))
              ELSE r
       [] both /\ ~is_known(simultaneous) -> r
       [] both /\ is_known(simultaneous) ->
            IF simultaneous.value
              THEN satisfied(r, "write_execute", simultaneous.evidence)
              ELSE emit(a, r, Structural(start(a, 9, Proven, Unsupported,
                     {simultaneous.evidence}
                       \cup (IF flipAvailable THEN {flip.evidence} ELSE {}))))

RunsCode(req) == req.execute \/ req.write_then_execute

\* 10: anonymous memory can be executable.
rule_executable_mapping(a, r) ==
  LET executable == a.vm.anonymous_executable_mapping
  IN CASE ~RunsCode(a.req) \/ a.req.file_backed \/ ~is_known(executable) -> r
       [] OTHER ->
            IF executable.value
              THEN satisfied(r, "executable", executable.evidence)
              ELSE emit(a, r, Structural(
                     start(a, 10, Proven, Unsupported, {executable.evidence})))

\* 11: executable memory needs an entitlement.
rule_jit_entitlement(a, r) ==
  LET entitlement == a.vm.jit_entitlement_required
  IN CASE ~RunsCode(a.req) \/ ~is_known(entitlement) -> r
       [] OTHER ->
            IF entitlement.value
              THEN emit(a, r, start(a, 11, Proven, ConditionallySupported,
                                    {entitlement.evidence}))
              ELSE satisfied(r, "entitlement", entitlement.evidence)

\* 12: the program expects a commit that can fail; the host has none.
rule_reserve_commit(a, r) ==
  LET model == a.vm.reserve_commit_model
  IN IF /\ a.req.reserve_then_commit /\ ~a.req.commit_is_checked_call
        /\ is_known(model) /\ model.value = "posix_lazy"
       THEN emit(a, r, start(a, 12, Proven, ConditionallySupported, {model.evidence}))
       ELSE r

\* 13: the address does not fit where the program keeps it.  A program that
\* checks what it was given rejects it and asks again.
rule_pointer_truncation(a, r) ==
  LET req == a.req
      width == IF req.pointer_width # Absent THEN req.pointer_width
               ELSE a.vm.process_pointer_width
      class == IF req.pointer_width # Absent THEN req.assumption_evidence
               ELSE SpecifiedGuarantee
      highest == {range.end : range \in RequestRange(req)}
                   \cup (IF RequestRange(req) = {} /\ is_known(a.vm.max_user_address)
                           THEN {a.vm.max_user_address.value} ELSE {})
      rejects == req.validates_returned_address \/ req.relocate \/ req.retries_on_failure
      found == start(a, 13, Proven, IF rejects THEN ConditionallySupported ELSE Unsupported,
                     {class, SpecifiedGuarantee})
  IN IF \/ width = 0 \/ width >= WordBits
        \/ \A address \in highest : address <= 2 ^ width
     THEN r
     ELSE emit(a, r, IF rejects THEN found ELSE Structural(found))

\* Mutant: the sum wraps.
MappingEnd_Wraps(req) == Plus(req.file_offset, req.size)

\* The end of a mapping in its file, which saturates.
MappingEnd(req) ==
  IF req.file_offset > WordMax - req.size THEN WordMax ELSE req.file_offset + req.size

\* 18, 17: the program reads past the end of the file it has mapped.  The
\* partial last page is zero on every host.
rule_file_mapping_beyond_eof(a, r) ==
  LET req == a.req
      beyond == a.vm.file_map_beyond_eof
      page == IF is_known(a.vm.page_size) THEN a.vm.page_size.value ELSE 0
      partial_page == /\ req.within_final_page
                      /\ page > 0 /\ req.file_length % page # 0
  IN IF ~req.file_backed \/ req.file_length = Absent THEN r
     ELSE IF MappingEnd(req) <= req.file_length THEN r
     ELSE IF ~is_known(beyond) THEN FactUnknown(a, r)
     ELSE IF ~req.accesses_beyond_eof THEN r
     ELSE IF partial_page THEN satisfied(r, "final_page", SpecifiedGuarantee)
     ELSE emit(a, r, start(a, 18, Proven,
                           IF beyond.value = "zero_fill" THEN ConditionallySupported
                           ELSE Unsupported, {beyond.evidence}))

\* Mutant: every finding that is unsupported is taken for an impossibility.
rule_retry_of_permanent_error_AnyUnsupported(a, r) ==
  IF a.req.retries_on_failure /\ \E f \in Emitted(r) : f.impact = Unsupported
    THEN emit(a, r, start(a, 15, Proven, Unsupported, {proven_unsupported_evidence(r)}))
    ELSE r

\* 15: a permanent refusal is retried.
rule_retry_of_permanent_error(a, r) ==
  IF a.req.retries_on_failure /\ established_impossibility(r)
    THEN emit(a, r, start(a, 15, Proven, Unsupported, {proven_unsupported_evidence(r)}))
    ELSE r

-----------------------------------------------------------------------------
(* Analysis::run.                                                          *)

Rules == 21

rule(k, a, r) ==
  CASE k = 1 -> rule_internal_fallback_contradiction(a, r)
    [] k = 2 -> rule_baseline_mapping_capability(a, r)
    [] k = 3 -> rule_size_feasibility(a, r)
    [] k = 4 -> rule_address_bounds(a, r)
    [] k = 5 -> rule_displacement_constraint(a, r)
    [] k = 6 -> rule_reservation_alignment(a, r)
    [] k = 7 -> rule_page_size(a, r)
    [] k = 8 -> rule_address_alignment(a, r)
    [] k = 9 -> rule_size_granularity(a, r)
    [] k = 10 -> rule_range_availability(a, r)
    [] k = 11 -> rule_exact_mapping_capability(a, r)
    [] k = 12 -> rule_non_destructive_exact_mapping(a, r)
    [] k = 13 -> rule_hinted_relocation(a, r)
    [] k = 14 -> rule_identity_without_translation(a, r)
    [] k = 15 -> rule_write_execute(a, r)
    [] k = 16 -> rule_executable_mapping(a, r)
    [] k = 17 -> rule_jit_entitlement(a, r)
    [] k = 18 -> rule_reserve_commit(a, r)
    [] k = 19 -> rule_pointer_truncation(a, r)
    [] k = 20 -> rule_file_mapping_beyond_eof(a, r)
    [] k = 21 -> rule_retry_of_permanent_error(a, r)

\* What a report holds before the first rule: what the producers of the two
\* documents could not establish travels with the verdict.
EmptyResult(a) ==
  [overall |-> Supported, findings |-> <<>>, satisfied |-> {},
   limitations |-> a.req.limitations \cup (IF a.vm.measured THEN {} ELSE {"origin"})]

InDomain(a) == a.req.operation = "virtual_memory"

\* Severity, then confidence, then id; stable, so the emission decides a tie.
Before(f, g) ==
  \/ f.severity < g.severity
  \/ f.severity = g.severity /\ f.confidence < g.confidence
  \/ f.severity = g.severity /\ f.confidence = g.confidence /\ f.id < g.id

Sorted(findings) ==
  LET Earlier(i, j) == \/ Before(findings[i], findings[j])
                       \/ ~Before(findings[j], findings[i]) /\ i < j
      order == SortSeq([i \in DOMAIN findings |-> i], Earlier)
  IN [i \in DOMAIN findings |-> findings[order[i]]]

\* The result the rules come to, as a function of the analysis.
Analyze(a) ==
  LET f[k \in 0 .. Rules] == IF k = 0 THEN EmptyResult(a) ELSE rule(k, a, f[k - 1])
  IN IF InDomain(a) THEN f[Rules]
     ELSE [Limitation(EmptyResult(a), "operation") EXCEPT !.overall = UnknownSupport]
=============================================================================
