--------------------------- MODULE AnalyzerProofs ---------------------------
(***************************************************************************)
(* What a verdict and a finding of the analyzer stand for, and what better *)
(* evidence may change of them, for every requirement and profile and      *)
(* every width of an address.                                              *)
(***************************************************************************)
EXTENDS Analyzer, NumberProofs, TLAPS

-----------------------------------------------------------------------------
(* Types of what the rules read.                                           *)

\* The fields of a requirement that the rules calculate with.
LEMMA RequestTypes ==
  ASSUME NEW a \in AnalysisInput
  PROVE  /\ a.req.address \in OptionalWord /\ a.req.size \in Word
         /\ a.req.file_length \in OptionalWord /\ a.req.file_offset \in Word
         /\ a.req.address_min \in OptionalWord /\ a.req.address_max \in OptionalWord
         /\ a.req.required_alignment \in OptionalWord
         /\ a.req.required_page_size \in OptionalWord
         /\ a.req.pointer_width \in OptionalWord
         /\ a.req.page_size_relation \in {"equal", "at_most", "at_least"}
         /\ a.req.sink \in Sinks
         /\ a.req.assumption_evidence \in EvidenceClass
         /\ a.req.limitations \in SUBSET STRING
BY DEF AnalysisInput, MappingRequest

\* The facts of a profile that the rules read.
LEMMA HostTypes ==
  ASSUME NEW a \in AnalysisInput
  PROVE  /\ a.vm.min_map_address \in FactOf(Word)
         /\ a.vm.max_user_address \in FactOf(Word)
         /\ a.vm.page_size \in FactOf(Word)
         /\ a.vm.allocation_granularity \in FactOf(Word)
         /\ a.vm.max_single_reservation \in FactOf(Word)
         /\ a.vm.max_single_reservation_hinted \in FactOf(Word)
         /\ a.vm.anonymous_mapping_supported \in FactOf(BOOLEAN)
         /\ a.vm.exact_mapping \in FactOf(SupportLevel)
         /\ a.vm.hinted_mapping_may_relocate \in FactOf(BOOLEAN)
         /\ a.vm.fixed_noreplace_available \in FactOf(BOOLEAN)
         /\ a.vm.reserve_commit_model \in FactOf(STRING)
         /\ a.vm.file_map_beyond_eof \in FactOf(STRING)
         /\ a.vm.write_execute_simultaneous \in FactOf(BOOLEAN)
         /\ a.vm.write_then_execute_transition \in FactOf(BOOLEAN)
         /\ a.vm.anonymous_executable_mapping \in FactOf(BOOLEAN)
         /\ a.vm.jit_entitlement_required \in FactOf(BOOLEAN)
         /\ a.vm.available_ranges \in Seq(ClassifiedRange)
         /\ a.vm.unavailable_ranges \in Seq(ClassifiedRange)
         /\ a.vm.process_pointer_width \in Nat
BY DEF AnalysisInput, VirtualMemoryModel

\* A fact is a value and one of the seven classes.
LEMMA FactType ==
  ASSUME NEW S, NEW f \in FactOf(S)
  PROVE  f.value \in S /\ f.evidence \in EvidenceClass
BY DEF FactOf

-----------------------------------------------------------------------------
(* The evidence model.                                                     *)

\* The names the rules use belong to their enumerations, and no verdict that
\* lowers one is SUPPORTED.
LEMMA Enumerators ==
  /\ {SpecifiedGuarantee, BoundedCounterexample, HeuristicRisk, UnknownEvidence}
       \subseteq EvidenceClass
  /\ {Proven, Counterexample, Predictive, Hypothesis} \subseteq Confidence
  /\ {Supported, ConditionallySupported, UnknownSupport, Unsupported} \subseteq SupportLevel
  /\ ConditionallySupported # Supported /\ UnknownSupport # Supported
  /\ Unsupported # Supported /\ Unsupported # UnknownSupport
BY DEF EvidenceClass, Confidence, SupportLevel, SpecifiedGuarantee, BoundedCounterexample,
       HeuristicRisk, UnknownEvidence, Proven, Counterexample, Predictive, Hypothesis,
       Supported, ConditionallySupported, UnknownSupport, Unsupported

\* The weakest of some classes is one of them and bounds the others.
LEMMA WeakestClass ==
  ASSUME NEW classes \in SUBSET EvidenceClass
  PROVE  /\ weakest_class(classes) \in EvidenceClass
         /\ classes # {} => /\ weakest_class(classes) \in classes
                            /\ \A c \in classes : c <= weakest_class(classes)
<1>1. CASE classes = {}
  BY <1>1 DEF weakest_class, EvidenceClass, UnknownEvidence
<1>2. CASE classes # {}
  <2>1. \E c \in classes : \A d \in classes : d <= c
    <3> DEFINE T == {UnknownEvidence - c : c \in classes}
    <3>1. T \subseteq Nat /\ T # {}
      <4>1. PICK c \in classes : TRUE
        BY <1>2
      <4>2. UnknownEvidence - c \in T
        OBVIOUS
      <4> QED
        BY <4>2 DEF EvidenceClass, UnknownEvidence
    <3>2. PICK i \in T : \A j \in T : i <= j
      BY <3>1, LeastNatural
    <3>3. PICK c \in classes : i = UnknownEvidence - c
      BY <3>2
    <3>4. ASSUME NEW d \in classes PROVE d <= c
      <4>1. UnknownEvidence - c <= UnknownEvidence - d
        BY <3>2, <3>3, <3>4
      <4> QED
        BY <4>1, <3>3 DEF EvidenceClass, UnknownEvidence
    <3> QED
      BY <3>3, <3>4
  <2>2. \E c \in classes : \A d \in classes : weakest(c, d) = c
    BY <2>1 DEF EvidenceClass, weakest
  <2>3. /\ weakest_class(classes) \in classes
        /\ \A d \in classes : weakest(weakest_class(classes), d) = weakest_class(classes)
    BY <1>2, <2>2 DEF weakest_class
  <2>4. ASSUME NEW d \in classes, NEW w \in EvidenceClass, weakest(w, d) = w
        PROVE  d <= w
    BY <2>4 DEF weakest, EvidenceClass
  <2> QED
    BY <2>3, <2>4
<1> QED
  BY <1>1, <1>2

\* A clamped confidence is a confidence.
LEMMA ClampType ==
  ASSUME NEW desired \in Confidence, NEW class \in EvidenceClass
  PROVE  /\ confidence_ceiling(class) \in Confidence
         /\ clamp_confidence(desired, class) \in Confidence
BY DEF clamp_confidence, confidence_ceiling, Confidence, EvidenceClass, SpecifiedGuarantee,
       MeasuredCapability, StaticallyInferred, BoundedCounterexample, ObservedInvariantClass,
       HeuristicRisk, UnknownEvidence, Proven, Counterexample, ObservedInvariant, Predictive,
       Hypothesis

\* Every finding has a severity, at every sink.
LEMMA SeverityType ==
  /\ \A id \in 1 .. 27 : default_severity(id) \in Severity
  /\ \A base \in Severity, sink \in Sinks : adjust_severity(base, sink) \in Severity
BY DEF default_severity, adjust_severity, Severity, Sinks, Critical, High, Medium, Low, Info

-----------------------------------------------------------------------------
(* Findings and the verdict.                                               *)

\* What a rule may do to a result: it adds sound findings only, and restores no
\* verdict.
Step(a, r, s) ==
  /\ s \in Result
  /\ \A f \in Emitted(s) : f \in Emitted(r) \/ Sound(a, f)
  /\ s.overall = Supported => r.overall = Supported

\* A rule that says nothing.
LEMMA Silent ==
  ASSUME NEW a, NEW r \in Result
  PROVE  Step(a, r, r)
BY DEF Step

\* Recording what is satisfied, or a limitation, is silent too.
LEMMA RecordedStep ==
  ASSUME NEW a, NEW r \in Result, NEW constraint \in Constraint, NEW class \in EvidenceClass
  PROVE  LET s == satisfied(r, constraint, class)
         IN Step(a, r, s) /\ s.findings = r.findings /\ s.overall = r.overall
BY DEF satisfied, Step, Emitted, Result

\* A limitation changes neither the findings nor the verdict.
LEMMA LimitationStep ==
  ASSUME NEW a, NEW r \in Result, NEW text \in LimitationText
  PROVE  LET s == Limitation(r, text)
         IN Step(a, r, s) /\ s.findings = r.findings /\ s.overall = r.overall
BY DEF Limitation, Step, Emitted, Result

\* A step from a result that was only annotated is a step from the result.
LEMMA Annotated ==
  ASSUME NEW a, NEW r \in Result, NEW q \in Result, NEW s,
         q.findings = r.findings, q.overall = r.overall, Step(a, q, s)
  PROVE  Step(a, r, s)
BY DEF Step, Emitted

\* A finding as the rules begin one.
LEMMA Started ==
  ASSUME NEW a \in AnalysisInput, NEW id \in 1 .. 27, NEW confidence \in Confidence,
         NEW impact \in SupportLevel, NEW classes \in SUBSET EvidenceClass
  PROVE  LET f == start(a, id, confidence, impact, classes)
         IN /\ f \in Finding /\ f.id = id /\ f.impact = impact /\ ~f.structural
            /\ Structural(f) \in Finding /\ Structural(f).id = id
            /\ Structural(f).impact = impact /\ Structural(f).structural
<1>1. a.req.assumption_evidence \in EvidenceClass
  BY RequestTypes
<1>2. default_severity(id) \in Severity
  BY SeverityType
<1> QED
  BY <1>1, <1>2 DEF start, Structural, Finding

\* emit combines the verdict and appends the finding, which it clamps.
LEMMA Emit ==
  ASSUME NEW a \in AnalysisInput, NEW r \in Result, NEW f \in Finding
  PROVE  \E g \in Finding :
           /\ g.id = f.id /\ g.structural = f.structural /\ g.impact = f.impact
           /\ emit(a, r, f).findings = Append(r.findings, g)
           /\ emit(a, r, f).overall = combine(r.overall, f.impact)
           /\ emit(a, r, f) \in Result
<1> DEFINE sv == IF f.impact = Supported THEN f.severity
                 ELSE adjust_severity(f.severity, a.req.sink)
           cf == clamp_confidence(f.confidence, weakest_class(f.evidence))
           g == [f EXCEPT !.severity = sv, !.confidence = cf]
<1>1. sv \in Severity
  BY SeverityType, RequestTypes DEF Finding
<1>2. cf \in Confidence
  BY ClampType, WeakestClass DEF Finding
<1>3. /\ g \in Finding /\ g.id = f.id /\ g.structural = f.structural /\ g.impact = f.impact
  <2> HIDE DEF sv, cf
  <2> QED
    BY <1>1, <1>2 DEF Finding
<1>4. emit(a, r, f) = [r EXCEPT !.overall = combine(r.overall, f.impact),
                               !.findings = Append(r.findings, g)]
  BY DEF emit
<1>5. combine(r.overall, f.impact) \in SupportLevel
  BY DEF combine, Result, Finding, SupportLevel
<1>6. emit(a, r, f) \in Result /\ emit(a, r, f).findings = Append(r.findings, g)
        /\ emit(a, r, f).overall = combine(r.overall, f.impact)
  <2> HIDE DEF g
  <2>1. Append(r.findings, g) \in Seq(Finding)
    BY <1>3 DEF Result
  <2> QED
    BY <1>4, <1>5, <2>1 DEF Result
<1> QED
  BY <1>3, <1>6

\* emit is a step when the finding is sound, and keeps SUPPORTED only if the
\* finding does.
LEMMA EmitStep ==
  ASSUME NEW a \in AnalysisInput, NEW r \in Result, NEW f \in Finding, Sound(a, f)
  PROVE  /\ Step(a, r, emit(a, r, f))
         /\ emit(a, r, f).overall = Supported => f.impact = Supported
<1>1. PICK g \in Finding :
         /\ g.id = f.id /\ g.structural = f.structural /\ g.impact = f.impact
         /\ emit(a, r, f).findings = Append(r.findings, g)
         /\ emit(a, r, f).overall = combine(r.overall, f.impact)
         /\ emit(a, r, f) \in Result
  BY Emit
<1>2. \A h \in Emitted(emit(a, r, f)) : h \in Emitted(r) \/ h = g
  BY <1>1 DEF Emitted, Result
<1>3. Sound(a, g)
  BY <1>1 DEF Sound
<1>4. combine(r.overall, f.impact) = Supported =>
        r.overall = Supported /\ f.impact = Supported
  BY DEF combine, Result, Finding, SupportLevel, Supported
<1> QED
  BY <1>1, <1>2, <1>3, <1>4 DEF Step

\* A fact that was never established takes the verdict away, reported or not.
LEMMA UnknownStep ==
  ASSUME NEW a \in AnalysisInput, NEW r \in Result
  PROVE  Step(a, r, FactUnknown(a, r)) /\ FactUnknown(a, r).overall # Supported
<1>1. CASE a.report_unknowns
  <2> DEFINE f == start(a, 17, Hypothesis, UnknownSupport, {UnknownEvidence})
  <2>1. /\ f \in Finding /\ f.id = 17 /\ f.impact = UnknownSupport /\ ~f.structural
    BY Started, Enumerators
  <2>2. FactUnknown(a, r) = emit(a, r, f)
    BY <1>1 DEF FactUnknown
  <2> HIDE DEF f
  <2> QED
    <3>1. Sound(a, f) /\ f.impact # Supported
      BY <2>1, Enumerators DEF Sound
    <3> QED
      BY <2>1, <2>2, <3>1, EmitStep
<1>2. CASE ~a.report_unknowns
  <2>1. FactUnknown(a, r) = [r EXCEPT !.overall = combine(r.overall, UnknownSupport)]
    BY <1>2 DEF FactUnknown
  <2>2. combine(r.overall, UnknownSupport) \in SupportLevel \ {Supported}
    BY DEF combine, Result, SupportLevel, UnknownSupport, Supported
  <2> QED
    BY <2>1, <2>2 DEF Step, Result, Emitted
<1> QED
  BY <1>1, <1>2

\* A rule that reports a finding of its own, which speaks of no impossibility.
LEMMA Reported ==
  ASSUME NEW a \in AnalysisInput, NEW r \in Result, NEW id \in (1 .. 27) \ {15},
         NEW confidence \in Confidence, NEW impact \in SupportLevel,
         NEW classes \in SUBSET EvidenceClass
  PROVE  LET s == emit(a, r, start(a, id, confidence, impact, classes))
         IN Step(a, r, s) /\ (s.overall = Supported => impact = Supported)
<1> DEFINE f == start(a, id, confidence, impact, classes)
<1>1. f \in Finding /\ f.id = id /\ f.impact = impact /\ ~f.structural
  BY Started
<1> HIDE DEF f
<1>2. Sound(a, f)
  BY <1>1 DEF Sound
<1> QED
  BY <1>1, <1>2, EmitStep DEF f

\* A rule that reports an impossibility has to be right about it.
LEMMA Impossible ==
  ASSUME NEW a \in AnalysisInput, NEW r \in Result, NEW id \in 1 .. 27,
         NEW classes \in SUBSET EvidenceClass,
         a.req.retries_on_failure \/ id = 15 => Hopeless(a)
  PROVE  LET s == emit(a, r, Structural(start(a, id, Proven, Unsupported, classes)))
         IN Step(a, r, s) /\ s.overall # Supported
<1> DEFINE f == Structural(start(a, id, Proven, Unsupported, classes))
<1>1. f \in Finding /\ f.id = id /\ f.impact = Unsupported
  BY Started, Enumerators
<1> HIDE DEF f
<1>2. Sound(a, f)
  BY <1>1 DEF Sound
<1> QED
  BY <1>1, <1>2, EmitStep, Enumerators DEF f

\* What a profile answers is a verdict and a class.
LEMMA FirstEvidence ==
  ASSUME NEW ranges \in Seq(ClassifiedRange), NEW found \in SUBSET DOMAIN ranges, found # {}
  PROVE  /\ \E i \in found : \A j \in found : i <= j
         /\ FirstOf(ranges, found) \in EvidenceClass
<1>1. found \subseteq Nat
  OBVIOUS
<1>2. \E i \in found : \A j \in found : i <= j
  BY <1>1, LeastNatural
<1> DEFINE first == CHOOSE i \in found : \A j \in found : i <= j
<1>3. first \in DOMAIN ranges
  BY <1>2
<1>4. FirstOf(ranges, found) = ranges[first].evidence
  BY DEF FirstOf
<1> HIDE DEF first
<1>5. ranges[first] \in ClassifiedRange
  BY <1>3
<1> QED
  BY <1>2, <1>4, <1>5 DEF ClassifiedRange

\* What query_range answers is a level and a class, whatever the range.
LEMMA VerdictType ==
  ASSUME NEW a \in AnalysisInput, NEW range
  PROVE  /\ query_range(a.vm, range).level \in {Supported, UnknownSupport, Unsupported}
         /\ query_range(a.vm, range).evidence \in EvidenceClass
<1>1. Clashing(a.vm, range) \in SUBSET DOMAIN a.vm.unavailable_ranges
  BY DEF Clashing
<1>2. Holding(a.vm, range) \in SUBSET DOMAIN a.vm.available_ranges
  BY DEF Holding
<1>3. Clashing(a.vm, range) # {} =>
        FirstOf(a.vm.unavailable_ranges, Clashing(a.vm, range)) \in EvidenceClass
  BY <1>1, FirstEvidence, HostTypes
<1>4. Holding(a.vm, range) # {} =>
        FirstOf(a.vm.available_ranges, Holding(a.vm, range)) \in EvidenceClass
  BY <1>2, FirstEvidence, HostTypes
<1>5. /\ a.vm.min_map_address.evidence \in EvidenceClass
      /\ a.vm.max_user_address.evidence \in EvidenceClass
  BY HostTypes, FactType
<1> QED
  BY <1>3, <1>4, <1>5, Enumerators DEF query_range, RangeVerdict

-----------------------------------------------------------------------------
(* Placements.                                                             *)

\* A range of a base and a size.
LEMMA BaseAndSize ==
  ASSUME NEW base \in Word, NEW size \in Word, NEW range \in from_base_size(base, size)
  PROVE  /\ range = [start |-> base, end |-> base + size] /\ size > 0
         /\ range.start = base /\ range.end = base + size /\ range.end <= WordMax
BY WordAssumption DEF from_base_size, Word

\* A placement starts at a word, has the size of the request and respects every
\* bound there is.
LEMMA PlacementShape ==
  ASSUME NEW a \in AnalysisInput, NEW range \in Placements(a)
  PROVE  /\ range.start \in Word /\ range.end = range.start + a.req.size /\ a.req.size > 0
         /\ range \in from_base_size(range.start, a.req.size)
         /\ Pinned(a.req) => range.start = a.req.address
         /\ a.req.address_min # Absent => range.start >= a.req.address_min
         /\ a.req.address_max # Absent => range.start < a.req.address_max
         /\ is_known(a.vm.min_map_address) => range.start >= a.vm.min_map_address.value
         /\ is_known(a.vm.max_user_address) => range.end <= a.vm.max_user_address.value
         /\ a.req.exact_address_required /\ is_known(a.vm.allocation_granularity) =>
              is_aligned(range.start, a.vm.allocation_granularity.value)
         /\ \A i \in DOMAIN a.vm.unavailable_ranges :
              ~intersects(a.vm.unavailable_ranges[i], range)
<1>1. PICK base \in Word : range \in from_base_size(base, a.req.size)
  BY DEF Placements, Word
<1>2. range.start = base /\ range.end = base + a.req.size /\ a.req.size > 0
  BY <1>1, BaseAndSize, RequestTypes
<1> QED
  BY <1>1, <1>2 DEF Placements

\* An optional word that is there is a word.
LEMMA WordPresent ==
  \A w \in OptionalWord : w # Absent => w \in Word /\ w \in Nat
BY DEF OptionalWord, Word

-----------------------------------------------------------------------------
(* The rules, one lemma each.                                              *)

\* The rule on a contradiction within the request claims no impossibility.
LEMMA InternalFallbackContradiction ==
  ASSUME NEW a \in AnalysisInput, NEW r \in Result
  PROVE  Step(a, r, rule_internal_fallback_contradiction(a, r))
BY Silent, Reported, Enumerators DEF rule_internal_fallback_contradiction

\* SUPPORTED past this rule: anonymous memory, if asked for, is established.
LEMMA BaselineMappingCapability ==
  ASSUME NEW a \in AnalysisInput, NEW r \in Result
  PROVE  LET s == rule_baseline_mapping_capability(a, r)
         IN Step(a, r, s) /\ (s.overall = Supported => MemoryIsThere(a))
<1> DEFINE anonymous == a.vm.anonymous_mapping_supported
<1>1. anonymous.value \in BOOLEAN /\ anonymous.evidence \in EvidenceClass
  BY HostTypes, FactType
<1>2. CASE a.req.file_backed
  BY <1>2, Silent DEF rule_baseline_mapping_capability, MemoryIsThere
<1>3. CASE ~a.req.file_backed /\ ~is_known(anonymous)
  BY <1>3, UnknownStep DEF rule_baseline_mapping_capability
<1>4. CASE ~a.req.file_backed /\ is_known(anonymous) /\ anonymous.value
  BY <1>4, Silent DEF rule_baseline_mapping_capability, MemoryIsThere, Established
<1>5. CASE ~a.req.file_backed /\ is_known(anonymous) /\ ~anonymous.value
  <2>1. Hopeless(a)
    BY <1>5 DEF Hopeless, Refused, Refuted
  <2> QED
    BY <1>1, <1>5, <2>1, Impossible DEF rule_baseline_mapping_capability
<1> QED
  BY <1>2, <1>3, <1>4, <1>5

\* The rule on the grant of a reservation claims no impossibility.
LEMMA ReservationGrantable ==
  ASSUME NEW a \in AnalysisInput, NEW r \in Result
  PROVE  Step(a, r, rule_reservation_grantable(a, r))
<1> DEFINE size == a.req.size
           single == a.vm.max_single_reservation
           hinted == a.vm.max_single_reservation_hinted
           wide == /\ a.req.address # Absent /\ is_known(hinted)
                   /\ a.req.address > single.value /\ hinted.value > single.value
           fact == IF wide THEN hinted ELSE single
           failed == fact.value <= WordMax \div 2 /\ size > 2 * fact.value
<1>1. single \in FactOf(Word) /\ hinted \in FactOf(Word)
  BY HostTypes
<1>2. fact.evidence \in EvidenceClass
  BY <1>1, FactType
<1> HIDE DEF failed, fact
<1>3. CASE ~is_known(single) /\ size <= LargestObserved
  BY <1>3, Silent DEF rule_reservation_grantable
<1>4. CASE ~is_known(single) /\ ~(size <= LargestObserved)
  BY <1>4, Reported, Enumerators DEF rule_reservation_grantable
<1>5. CASE is_known(single) /\ size <= fact.value
  <2>1. rule_reservation_grantable(a, r) = satisfied(r, "grant", fact.evidence)
    BY <1>5 DEF rule_reservation_grantable, fact
  <2> QED
    BY <1>2, <2>1, RecordedStep DEF Constraint
<1>6. CASE is_known(single) /\ ~(size <= fact.value)
  <2>1. rule_reservation_grantable(a, r) =
          emit(a, r, start(a, 26, IF failed THEN Proven ELSE Hypothesis,
                           IF failed THEN Unsupported ELSE ConditionallySupported,
                           {fact.evidence, SpecifiedGuarantee}))
    BY <1>6 DEF rule_reservation_grantable, fact, failed
  <2> QED
    BY <1>2, <2>1, Reported, Enumerators
<1> QED
  BY <1>3, <1>4, <1>5, <1>6

\* A size is called impossible only if no place below the ceiling holds it.
LEMMA SizeFeasibility ==
  ASSUME NEW a \in AnalysisInput, NEW r \in Result
  PROVE  Step(a, r, rule_size_feasibility(a, r))
<1> DEFINE top == a.vm.max_user_address
           low == a.vm.min_map_address
           bottom == IF is_known(low) THEN low.value ELSE 0
<1>1. /\ top.value \in Word /\ low.value \in Word
      /\ top.evidence \in EvidenceClass /\ low.evidence \in EvidenceClass
  BY HostTypes, FactType
<1>2. bottom \in Nat /\ a.req.size \in Nat /\ top.value \in Nat
  BY <1>1, RequestTypes DEF Word
<1> HIDE DEF bottom
<1>3. CASE a.req.size = 0 \/ ~is_known(top) \/ top.value <= bottom
  <2>1. rule_size_feasibility(a, r) = r
    BY <1>2, <1>3 DEF rule_size_feasibility, bottom
  <2> QED
    BY <2>1, Silent
<1>4. CASE /\ a.req.size > 0 /\ is_known(top) /\ top.value > bottom
           /\ a.req.size <= top.value - bottom
  <2> DEFINE q == satisfied(r, "fits", top.evidence)
  <2>1. rule_size_feasibility(a, r) = rule_reservation_grantable(a, q)
    BY <1>2, <1>4 DEF rule_size_feasibility, bottom
  <2>2. q \in Result /\ q.findings = r.findings /\ q.overall = r.overall
    BY <1>1, RecordedStep DEF Constraint, Step
  <2> HIDE DEF q
  <2> QED
    BY <2>1, <2>2, ReservationGrantable, Annotated
<1>5. CASE /\ a.req.size > 0 /\ is_known(top) /\ top.value > bottom
           /\ ~(a.req.size <= top.value - bottom)
  <2>1. rule_size_feasibility(a, r) =
          emit(a, r, Structural(start(a, 21, Proven, Unsupported,
                                      {top.evidence, SpecifiedGuarantee})))
    BY <1>2, <1>5 DEF rule_size_feasibility, bottom
  <2>2. ASSUME NEW range \in Placements(a)
        PROVE  FALSE
    <3>1. range.start >= bottom /\ range.start \in Nat
      BY PlacementShape DEF bottom, Word
    <3>2. range.start + a.req.size <= top.value
      BY <1>5, PlacementShape
    <3> QED
      BY <3>1, <3>2, <1>2, <1>5
  <2>3. Hopeless(a)
    BY <2>2 DEF Hopeless
  <2> QED
    BY <1>1, <2>1, <2>3, Impossible, Enumerators
<1> QED
  BY <1>2, <1>3, <1>4, <1>5

\* SUPPORTED past this rule: the address lies in the window asked for, and a
\* window is called impossible only if it leaves no place.
LEMMA AddressBounds ==
  ASSUME NEW a \in AnalysisInput, NEW r \in Result
  PROVE  LET s == rule_address_bounds(a, r)
         IN Step(a, r, s) /\ (s.overall = Supported => Consistent(a.req))
<1> DEFINE req == a.req
           top == a.vm.max_user_address
           floor == a.vm.min_map_address
           lower == IF req.address_min = Absent THEN 0 ELSE req.address_min
           upper == IF req.address_max = Absent THEN WordMax ELSE req.address_max
           outside == req.address # Absent /\ (req.address < lower \/ req.address >= upper)
           tooLow == req.address_min # Absent /\ is_known(top) /\ top.value <= lower
           tooHigh == req.address_max # Absent /\ is_known(floor) /\ floor.value >= upper
           observed == \E i \in DOMAIN a.vm.available_ranges :
                         intersects(a.vm.available_ranges[i], [start |-> lower, end |-> upper])
           comfortable == \/ req.address_max = Absent \/ ~is_known(top)
                          \/ top.value = 0 \/ upper > top.value \div 4
           free == req.address_min = Absent /\ req.address_max = Absent
           Unsatisfiable(classes) ==
             emit(a, r, Structural(start(a, 23, Proven, Unsupported, classes)))
<1>1. /\ top.value \in Nat /\ floor.value \in Nat
      /\ top.evidence \in EvidenceClass /\ floor.evidence \in EvidenceClass
  <2>1. /\ top.value \in Word /\ floor.value \in Word
        /\ top.evidence \in EvidenceClass /\ floor.evidence \in EvidenceClass
    BY HostTypes, FactType
  <2> QED
    BY <2>1 DEF Word
<1>2. /\ lower \in Nat /\ upper \in Nat
      /\ req.address # Absent => req.address \in Nat
      /\ req.address_min # Absent => req.address_min \in Nat
      /\ req.address_max # Absent => req.address_max \in Nat
  BY RequestTypes, WordPresent, WordAssumption
<1>3. rule_address_bounds(a, r) =
        IF free THEN r
        ELSE IF outside THEN Unsatisfiable({SpecifiedGuarantee})
        ELSE IF tooLow THEN Unsatisfiable({top.evidence})
        ELSE IF tooHigh THEN Unsatisfiable({floor.evidence})
        ELSE IF ~observed THEN FactUnknown(a, r)
        ELSE IF comfortable THEN r
        ELSE emit(a, r, start(a, 25, Predictive, ConditionallySupported,
                              {top.evidence, HeuristicRisk}))
  BY DEF rule_address_bounds
<1>4. ~free => (outside <=> ~Consistent(req))
  BY <1>2, WordAssumption DEF Consistent
<1>5. free => Consistent(req)
  BY DEF Consistent
<1>6. tooLow => Placements(a) = {}
  <2> SUFFICES ASSUME tooLow, NEW range \in Placements(a)
               PROVE  FALSE
    OBVIOUS
  <2>1. /\ range.start >= req.address_min /\ range.start \in Nat
        /\ range.start + req.size <= top.value /\ req.size > 0 /\ req.size \in Nat
    BY PlacementShape, RequestTypes DEF Word
  <2> QED
    BY <2>1, <1>1, <1>2
<1>7. tooHigh => Placements(a) = {}
  <2> SUFFICES ASSUME tooHigh, NEW range \in Placements(a)
               PROVE  FALSE
    OBVIOUS
  <2>1. /\ range.start < req.address_max /\ range.start \in Nat
        /\ range.start >= floor.value
    BY PlacementShape DEF Word
  <2> QED
    BY <2>1, <1>1, <1>2
<1>8. ASSUME NEW classes \in SUBSET EvidenceClass, ~free, outside \/ tooLow \/ tooHigh
      PROVE  Step(a, r, Unsatisfiable(classes)) /\ Unsatisfiable(classes).overall # Supported
  <2>1. Hopeless(a)
    BY <1>4, <1>6, <1>7, <1>8 DEF Hopeless
  <2> QED
    BY <2>1, Impossible
<1> HIDE DEF free, outside, tooLow, tooHigh, observed, comfortable, Unsatisfiable
<1>9. CASE free \/ (~outside /\ ~tooLow /\ ~tooHigh /\ observed /\ comfortable)
  BY <1>3, <1>4, <1>5, <1>9, Silent
<1>10. CASE ~free /\ (outside \/ tooLow \/ tooHigh)
  BY <1>1, <1>3, <1>8, <1>10, Enumerators
<1>11. CASE ~free /\ ~outside /\ ~tooLow /\ ~tooHigh /\ ~observed
  BY <1>3, <1>11, UnknownStep
<1>12. CASE ~free /\ ~outside /\ ~tooLow /\ ~tooHigh /\ observed /\ ~comfortable
  <2>1. /\ {top.evidence, HeuristicRisk} \in SUBSET EvidenceClass
        /\ Predictive \in Confidence /\ ConditionallySupported \in SupportLevel
    BY <1>1, Enumerators
  <2> QED
    BY <1>3, <1>12, <2>1, Reported, Enumerators
<1> QED
  BY <1>9, <1>10, <1>11, <1>12

\* The rule on a displacement claims no impossibility.
LEMMA DisplacementConstraint ==
  ASSUME NEW a \in AnalysisInput, NEW r \in Result
  PROVE  Step(a, r, rule_displacement_constraint(a, r))
BY Silent, Reported, Enumerators DEF rule_displacement_constraint

\* The rule on the alignment of a reservation claims no impossibility.
LEMMA ReservationAlignment ==
  ASSUME NEW a \in AnalysisInput, NEW r \in Result
  PROVE  Step(a, r, rule_reservation_alignment(a, r))
<1> DEFINE alignment == a.req.required_alignment
           granularity == a.vm.allocation_granularity
           promised == ~is_known(granularity) \/ alignment <= granularity.value
<1>1. granularity.evidence \in EvidenceClass
  BY HostTypes, FactType
<1> HIDE DEF promised
<1>2. CASE alignment = Absent \/ a.req.address # Absent
  BY <1>2, Silent DEF rule_reservation_alignment
<1>3. CASE alignment # Absent /\ a.req.address = Absent /\ ~is_power_of_two(alignment)
  <2>1. rule_reservation_alignment(a, r) = Limitation(r, "required_alignment")
    BY <1>3 DEF rule_reservation_alignment
  <2> QED
    BY <2>1, LimitationStep DEF LimitationText
<1>4. CASE alignment # Absent /\ a.req.address = Absent /\ is_power_of_two(alignment)
  <2>1. rule_reservation_alignment(a, r) =
          IF promised THEN r
          ELSE emit(a, r, start(a, 22, Proven, ConditionallySupported,
                                {granularity.evidence, SpecifiedGuarantee}))
    BY <1>4 DEF rule_reservation_alignment, promised
  <2> QED
    BY <1>1, <2>1, Silent, Reported, Enumerators
<1> QED
  BY <1>2, <1>3, <1>4

\* SUPPORTED past this rule: a page size that is known stands in the relation
\* asked for.
LEMMA PageSize ==
  ASSUME NEW a \in AnalysisInput, NEW r \in Result
  PROVE  LET s == rule_page_size(a, r)
         IN Step(a, r, s) /\ (s.overall = Supported => PageSizeFits(a))
<1> DEFINE required == a.req.required_page_size
           page == a.vm.page_size
           relation == a.req.page_size_relation
           holds == CASE relation = "equal" -> page.value = required
                      [] relation = "at_most" -> page.value <= required
                      [] relation = "at_least" -> page.value >= required
<1>1. page.evidence \in EvidenceClass /\ page.value \in Word
  BY HostTypes, FactType
<1>2. CASE required = Absent
  BY <1>2, Silent DEF rule_page_size, PageSizeFits
<1>3. CASE required # Absent /\ ~is_known(page)
  <2>1. rule_page_size(a, r) = IF a.report_unknowns THEN FactUnknown(a, r) ELSE r
    BY <1>3 DEF rule_page_size
  <2> QED
    BY <1>3, <2>1, Silent, UnknownStep DEF PageSizeFits
<1>4. CASE required # Absent /\ is_known(page)
  <2>1. rule_page_size(a, r) =
          IF holds THEN satisfied(r, "page_size", page.evidence)
          ELSE emit(a, r, Structural(start(a, 6, Proven, Unsupported, {page.evidence})))
    BY <1>4 DEF rule_page_size
  <2>2. CASE holds
    <3>1. PageSizeFits(a)
      BY <2>2 DEF PageSizeFits
    <3> HIDE DEF holds
    <3> QED
      BY <1>1, <2>1, <2>2, <3>1, RecordedStep DEF Constraint
  <2>3. CASE ~holds
    <3>1. Refused(a)
      <4>1. required \in Nat /\ page.value \in Nat
        BY <1>1, <1>4, WordPresent, RequestTypes DEF Word
      <4>2. relation \in {"equal", "at_most", "at_least"}
        BY RequestTypes
      <4>3. (CASE relation = "equal" -> page.value # required
               [] relation = "at_most" -> page.value > required
               [] relation = "at_least" -> page.value < required)
        <5>1. CASE relation = "equal"
          BY <4>1, <2>3, <5>1
        <5>2. CASE relation = "at_most"
          BY <4>1, <2>3, <5>2
        <5>3. CASE relation = "at_least"
          BY <4>1, <2>3, <5>3
        <5> QED
          BY <4>2, <5>1, <5>2, <5>3
      <4> QED
        BY <4>3, <1>4 DEF Refused
    <3> HIDE DEF holds
    <3> QED
      BY <1>1, <2>1, <2>3, <3>1, Impossible DEF Hopeless
  <2> QED
    BY <2>2, <2>3
<1> QED
  BY <1>2, <1>3, <1>4

\* SUPPORTED past this rule: an exact address is a multiple of the granularity.
LEMMA AddressAlignment ==
  ASSUME NEW a \in AnalysisInput, NEW r \in Result
  PROVE  LET s == rule_address_alignment(a, r)
         IN Step(a, r, s) /\ (s.overall = Supported => AddressIsAligned(a))
<1> DEFINE req == a.req
           granularity == a.vm.allocation_granularity
           declared == req.required_alignment # Absent
           odd == declared /\ ~is_power_of_two(req.required_alignment)
           checked == IF odd THEN Limitation(r, "required_alignment") ELSE r
           own == /\ req.address # Absent /\ declared /\ ~odd
                  /\ ~is_aligned(req.address, req.required_alignment)
           suits == \/ ~req.exact_address_required \/ ~is_known(granularity)
                    \/ is_aligned(req.address, granularity.value)
<1>1. granularity.evidence \in EvidenceClass
  BY HostTypes, FactType
<1>2. /\ checked \in Result /\ checked.findings = r.findings /\ checked.overall = r.overall
      /\ Step(a, r, checked)
  BY Silent, LimitationStep DEF Step, LimitationText
<1>3. CASE req.address = Absent
  BY <1>3, Silent DEF rule_address_alignment, AddressIsAligned
<1>4. CASE own
  <2>1. rule_address_alignment(a, r) =
          emit(a, r, start(a, 4, Proven, Unsupported, {SpecifiedGuarantee}))
    BY <1>4 DEF rule_address_alignment
  <2> QED
    BY <2>1, Reported, Enumerators
<1>5. CASE req.address # Absent /\ ~own
  <2>1. rule_address_alignment(a, r) =
          IF suits THEN checked
          ELSE emit(a, checked, Structural(start(a, 4, Proven, Unsupported,
                                      {granularity.evidence, SpecifiedGuarantee})))
    BY <1>5 DEF rule_address_alignment
  <2>2. CASE suits
    BY <1>2, <2>1, <2>2 DEF AddressIsAligned
  <2>3. CASE ~suits
    <3>1. ASSUME NEW range \in Placements(a)
          PROVE  FALSE
      <4>1. Pinned(req)
        BY <1>5, <2>3 DEF Pinned
      <4>2. range.start = req.address /\ is_aligned(range.start, granularity.value)
        BY <2>3, <4>1, PlacementShape
      <4> QED
        BY <2>3, <4>2
    <3>2. Hopeless(a)
      BY <3>1 DEF Hopeless
    <3> HIDE DEF checked, suits
    <3> QED
      BY <1>1, <1>2, <2>1, <2>3, <3>2, Impossible, Enumerators, Annotated
  <2> QED
    BY <2>2, <2>3
<1> QED
  BY <1>3, <1>4, <1>5

\* The rule on a size that is rounded up claims no impossibility.
LEMMA SizeGranularity ==
  ASSUME NEW a \in AnalysisInput, NEW r \in Result
  PROVE  Step(a, r, rule_size_granularity(a, r))
<1> DEFINE granularity == a.vm.allocation_granularity
           rounds == /\ is_known(granularity) /\ is_power_of_two(granularity.value)
                     /\ ~is_aligned(a.req.size, granularity.value)
                     /\ a.req.size <= WordMax - (granularity.value - 1)
           relies == a.req.relies_on_unmapped_beyond_size
           begun == start(a, 5, Proven, IF relies THEN Unsupported ELSE Supported,
                          {granularity.evidence})
           f == [begun EXCEPT !.severity = IF relies THEN High ELSE Info]
<1>1. rule_size_granularity(a, r) = IF ~rounds THEN r ELSE emit(a, r, f)
  BY DEF rule_size_granularity
<1>2. granularity.evidence \in EvidenceClass
  BY HostTypes, FactType
<1>3. begun \in Finding /\ begun.id = 5 /\ ~begun.structural
  BY <1>2, Started, Enumerators
<1> HIDE DEF begun, rounds
<1>4. f \in Finding /\ f.id = 5 /\ ~f.structural
  BY <1>3 DEF Finding, Severity, High, Info
<1> HIDE DEF f
<1>5. Sound(a, f)
  BY <1>4 DEF Sound
<1> QED
  BY <1>1, <1>4, <1>5, Silent, EmitStep

\* SUPPORTED past this rule: a place that is pinned lies within the address space
\* and in an available range, clear of the unavailable ones.
LEMMA RangeAvailability ==
  ASSUME NEW a \in AnalysisInput, NEW r \in Result
  PROVE  LET s == rule_range_availability(a, r)
         IN Step(a, r, s) /\ (s.overall = Supported => PlaceIsAvailable(a))
<1> DEFINE req == a.req
           hint == ~req.exact_address_required /\ ~req.identity_required
           range == CHOOSE range \in RequestRange(req) : TRUE
           verdict == query_range(a.vm, range)
           low == a.vm.min_map_address
           top == a.vm.max_user_address
           below == is_known(low) /\ range.start < low.value
           above == is_known(top) /\ range.end > top.value
           obstacle == IF below THEN 2 ELSE IF above THEN 3 ELSE 1
           unavailable == emit(a, r, Structural(start(a, obstacle, Proven, Unsupported,
                                                      {verdict.evidence})))
<1>1. /\ verdict.level \in {Supported, UnknownSupport, Unsupported}
      /\ verdict.evidence \in EvidenceClass
  BY VerdictType
<1>2. req.address # Absent => (Pinned(req) <=> ~hint)
  BY DEF Pinned
<1>3. CASE req.address = Absent
  BY <1>3, Silent DEF rule_range_availability, PlaceIsAvailable, Pinned
<1>4. CASE req.address # Absent /\ RequestRange(req) = {}
  <2>1. rule_range_availability(a, r) =
          IF hint THEN r
          ELSE emit(a, r, Structural(start(a, 3, Proven, Unsupported, {SpecifiedGuarantee})))
    BY <1>4 DEF rule_range_availability
  <2>2. CASE hint
    BY <1>2, <1>4, <2>1, <2>2, Silent DEF PlaceIsAvailable
  <2>3. CASE ~hint
    <3>1. Placements(a) = {}
      BY <1>2, <1>4, <2>3, PlacementShape DEF RequestRange
    <3> QED
      BY <2>1, <2>3, <3>1, Impossible, Enumerators DEF Hopeless
  <2> QED
    BY <2>2, <2>3
<1>5. CASE req.address # Absent /\ RequestRange(req) # {}
  <2>1. range \in RequestRange(req) /\ RequestRange(req) = from_base_size(req.address, req.size)
    BY <1>5 DEF RequestRange
  <2>2. req.address \in Word /\ req.size \in Word
    BY <1>5, RequestTypes, WordPresent
  <2>3. /\ range = [start |-> req.address, end |-> req.address + req.size] /\ req.size > 0
        /\ range.start \in Nat /\ range.end \in Nat /\ ~empty(range)
    BY <2>1, <2>2, BaseAndSize DEF empty, Word
  <2>4. low.value \in Nat /\ top.value \in Nat
    <3>1. low.value \in Word /\ top.value \in Word
      BY HostTypes, FactType
    <3> QED
      BY <3>1 DEF Word
  <2>5. verdict.level = Supported =>
          ~below /\ ~above /\ Clashing(a.vm, range) = {} /\ Holding(a.vm, range) # {}
    BY <2>3, Enumerators DEF query_range, RangeVerdict
  <2>6. verdict.level = Unsupported => below \/ above \/ Clashing(a.vm, range) # {}
    BY <2>3, Enumerators DEF query_range, RangeVerdict
  <2>7. rule_range_availability(a, r) =
          CASE hint /\ verdict.level # Unsupported -> r
            [] hint /\ verdict.level = Unsupported ->
                 emit(a, r, start(a, 20, Proven, Supported, {verdict.evidence}))
            [] ~hint /\ verdict.level = Supported ->
                 satisfied(r, "placement", verdict.evidence)
            [] ~hint /\ verdict.level = UnknownSupport -> FactUnknown(a, r)
            [] ~hint /\ verdict.level = Unsupported -> unavailable
    BY <1>5 DEF rule_range_availability
  <2>8. CASE hint
    <3>1. PlaceIsAvailable(a)
      BY <1>2, <1>5, <2>8 DEF PlaceIsAvailable
    <3> HIDE DEF hint, verdict
    <3>2. CASE verdict.level = Unsupported
      <4>1. rule_range_availability(a, r) =
              emit(a, r, start(a, 20, Proven, Supported, {verdict.evidence}))
        BY <2>7, <2>8, <3>2
      <4> QED
        BY <1>1, <3>1, <4>1, Reported, Enumerators
    <3>3. CASE verdict.level # Unsupported
      BY <2>7, <2>8, <3>1, <3>3, Silent
    <3> QED
      BY <3>2, <3>3
  <2>9. CASE ~hint /\ verdict.level = Supported
    <3>1. PlaceIsAvailable(a)
      <4>1. /\ is_known(low) => range.start >= low.value
            /\ is_known(top) => range.end <= top.value
        BY <2>3, <2>4, <2>5, <2>9
      <4> QED
        BY <2>1, <2>5, <2>9, <4>1 DEF PlaceIsAvailable
    <3> HIDE DEF hint, verdict
    <3>2. rule_range_availability(a, r) = satisfied(r, "placement", verdict.evidence)
      BY <2>7, <2>9, Enumerators
    <3> QED
      BY ZenonT(30), <1>1, <3>1, <3>2, RecordedStep DEF Constraint
  <2>10. CASE ~hint /\ verdict.level = UnknownSupport
    <3> HIDE DEF hint, verdict
    <3>1. rule_range_availability(a, r) = FactUnknown(a, r)
      BY <2>7, <2>10, Enumerators
    <3> QED
      BY <3>1, UnknownStep
  <2>11. CASE ~hint /\ verdict.level = Unsupported
    <3>1. ASSUME NEW place \in Placements(a)
          PROVE  FALSE
      <4>1. place.start = req.address /\ place = range
        BY <1>2, <1>5, <2>1, <2>2, <2>3, <2>11, PlacementShape, BaseAndSize
      <4>2. CASE below
        BY <2>3, <2>4, <4>1, <4>2, PlacementShape
      <4>3. CASE above
        BY <2>3, <2>4, <4>1, <4>3, PlacementShape
      <4>4. CASE Clashing(a.vm, range) # {}
        BY <4>1, <4>4, PlacementShape DEF Clashing
      <4> QED
        BY <2>6, <2>11, <4>2, <4>3, <4>4
    <3>2. Hopeless(a)
      BY <3>1 DEF Hopeless
    <3> HIDE DEF hint, verdict, below, above
    <3>3. rule_range_availability(a, r) = unavailable
      BY <2>7, <2>11, Enumerators
    <3>4. obstacle \in 1 .. 27
      OBVIOUS
    <3> HIDE DEF obstacle
    <3> QED
      BY <1>1, <3>2, <3>3, <3>4, Impossible
  <2> QED
    BY <1>1, <2>8, <2>9, <2>10, <2>11
<1> QED
  BY <1>3, <1>4, <1>5

\* SUPPORTED past this rule: exact placement is not known to be unsupported, if
\* asked for.
LEMMA ExactMappingCapability ==
  ASSUME NEW a \in AnalysisInput, NEW r \in Result
  PROVE  LET s == rule_exact_mapping_capability(a, r)
         IN Step(a, r, s) /\ (s.overall = Supported => ExactIsGranted(a))
<1> DEFINE exact == a.vm.exact_mapping
           refused == /\ a.req.exact_address_required /\ is_known(exact)
                      /\ exact.value = Unsupported
<1>1. exact.evidence \in EvidenceClass
  BY HostTypes, FactType
<1>2. refused => Hopeless(a)
  BY DEF Hopeless, Refused
<1>3. ~refused => ExactIsGranted(a)
  BY DEF ExactIsGranted
<1>4. rule_exact_mapping_capability(a, r) =
        IF refused
          THEN emit(a, r, Structural(start(a, 1, Proven, Unsupported, {exact.evidence})))
          ELSE r
  BY DEF rule_exact_mapping_capability
<1> HIDE DEF refused
<1> QED
  BY <1>1, <1>2, <1>3, <1>4, Silent, Impossible

\* The rule on destructive placement adds sound findings only.
LEMMA NonDestructiveExactMapping ==
  ASSUME NEW a \in AnalysisInput, NEW r \in Result
  PROVE  Step(a, r, rule_non_destructive_exact_mapping(a, r))
<1>1. a.vm.fixed_noreplace_available.evidence \in EvidenceClass
  BY HostTypes, FactType
<1> QED
  BY <1>1, Silent, Reported, Enumerators DEF rule_non_destructive_exact_mapping

\* The rule on hints claims no impossibility.
LEMMA HintedRelocation ==
  ASSUME NEW a \in AnalysisInput, NEW r \in Result
  PROVE  Step(a, r, rule_hinted_relocation(a, r))
<1>1. {a.vm.hinted_mapping_may_relocate.evidence, BoundedCounterexample} \in SUBSET EvidenceClass
  BY HostTypes, FactType, Enumerators
<1> QED
  BY <1>1, Silent, Reported, Enumerators DEF rule_hinted_relocation

\* The rule on a missing translation claims no impossibility.
LEMMA IdentityWithoutTranslation ==
  ASSUME NEW a \in AnalysisInput, NEW r \in Result
  PROVE  Step(a, r, rule_identity_without_translation(a, r))
BY Silent, Reported, Enumerators DEF rule_identity_without_translation

\* SUPPORTED past this rule: memory both writable and executable is not refuted,
\* if asked for.
LEMMA WriteExecute ==
  ASSUME NEW a \in AnalysisInput, NEW r \in Result
  PROVE  LET s == rule_write_execute(a, r)
         IN Step(a, r, s) /\ (s.overall = Supported => WriteExecuteIsGranted(a))
<1> DEFINE both == a.req.simultaneous_write_execute \/ (a.req.write /\ a.req.execute)
           simultaneous == a.vm.write_execute_simultaneous
           flip == a.vm.write_then_execute_transition
           flipAvailable == is_known(flip) /\ flip.value
           flips == a.req.write_then_execute /\ is_known(flip) /\ ~flip.value
           behind == {simultaneous.evidence} \cup (IF flipAvailable THEN {flip.evidence} ELSE {})
<1>1. simultaneous.evidence \in EvidenceClass /\ flip.evidence \in EvidenceClass
  BY HostTypes, FactType
<1>2. behind \in SUBSET EvidenceClass
  BY <1>1
<1>3. rule_write_execute(a, r) =
        CASE ~both -> IF flips THEN emit(a, r, start(a, 9, Proven, Unsupported, {flip.evidence}))
                      ELSE r
          [] both /\ ~is_known(simultaneous) -> r
          [] both /\ is_known(simultaneous) ->
               IF simultaneous.value
                 THEN satisfied(r, "write_execute", simultaneous.evidence)
                 ELSE emit(a, r, Structural(start(a, 9, Proven, Unsupported, behind)))
  BY DEF rule_write_execute
<1>4. ~both \/ ~is_known(simultaneous) \/ simultaneous.value => WriteExecuteIsGranted(a)
  BY DEF WriteExecuteIsGranted, Refuted
<1>5. both /\ is_known(simultaneous) /\ ~simultaneous.value => Hopeless(a)
  BY DEF Hopeless, Refused, Refuted
<1> HIDE DEF both, behind, flips
<1>6. CASE ~both
  BY <1>1, <1>3, <1>4, <1>6, Silent, Reported, Enumerators
<1>7. CASE both /\ ~is_known(simultaneous)
  BY <1>3, <1>4, <1>7, Silent
<1>8. CASE both /\ is_known(simultaneous) /\ simultaneous.value
  <2>1. rule_write_execute(a, r) = satisfied(r, "write_execute", simultaneous.evidence)
    BY <1>3, <1>8
  <2> QED
    BY <1>1, <1>4, <1>8, <2>1, RecordedStep DEF Constraint
<1>9. CASE both /\ is_known(simultaneous) /\ ~simultaneous.value
  <2>1. rule_write_execute(a, r) =
          emit(a, r, Structural(start(a, 9, Proven, Unsupported, behind)))
    BY <1>3, <1>9
  <2> QED
    BY <1>2, <1>5, <1>9, <2>1, Impossible
<1> QED
  BY <1>6, <1>7, <1>8, <1>9

\* SUPPORTED past this rule: anonymous executable memory is not refuted, if asked
\* for.
LEMMA ExecutableMapping ==
  ASSUME NEW a \in AnalysisInput, NEW r \in Result
  PROVE  LET s == rule_executable_mapping(a, r)
         IN Step(a, r, s) /\ (s.overall = Supported => ExecutableIsGranted(a))
<1> DEFINE executable == a.vm.anonymous_executable_mapping
           asked == RunsCode(a.req) /\ ~a.req.file_backed /\ is_known(executable)
<1>1. executable.evidence \in EvidenceClass
  BY HostTypes, FactType
<1>2. CASE ~asked
  <2>1. ExecutableIsGranted(a)
    BY <1>2 DEF ExecutableIsGranted, Refuted
  <2> QED
    BY <1>2, <2>1, Silent DEF rule_executable_mapping
<1>3. CASE asked /\ executable.value
  <2>1. ExecutableIsGranted(a)
    BY <1>3 DEF ExecutableIsGranted, Refuted
  <2>2. rule_executable_mapping(a, r) = satisfied(r, "executable", executable.evidence)
    BY <1>3 DEF rule_executable_mapping
  <2> QED
    BY ZenonT(30), <1>1, <2>1, <2>2, RecordedStep DEF Constraint
<1>4. CASE asked /\ ~executable.value
  <2>1. Hopeless(a)
    BY <1>4 DEF Hopeless, Refused, Refuted
  <2>2. rule_executable_mapping(a, r) =
          emit(a, r, Structural(start(a, 10, Proven, Unsupported, {executable.evidence})))
    BY <1>4 DEF rule_executable_mapping
  <2> QED
    BY <1>1, <2>1, <2>2, Impossible
<1> QED
  BY <1>2, <1>3, <1>4

\* The rule on the entitlement claims no impossibility.
LEMMA JitEntitlement ==
  ASSUME NEW a \in AnalysisInput, NEW r \in Result
  PROVE  Step(a, r, rule_jit_entitlement(a, r))
<1> DEFINE entitlement == a.vm.jit_entitlement_required
<1>1. entitlement.evidence \in EvidenceClass
  BY HostTypes, FactType
<1>2. rule_jit_entitlement(a, r) \in
        {r, satisfied(r, "entitlement", entitlement.evidence),
         emit(a, r, start(a, 11, Proven, ConditionallySupported, {entitlement.evidence}))}
  BY DEF rule_jit_entitlement
<1>3. Step(a, r, satisfied(r, "entitlement", entitlement.evidence))
  BY <1>1, RecordedStep DEF Constraint
<1>4. Step(a, r, emit(a, r, start(a, 11, Proven, ConditionallySupported,
                                  {entitlement.evidence})))
  BY <1>1, Reported, Enumerators
<1> QED
  BY <1>2, <1>3, <1>4, Silent

\* The rule on the commit model claims no impossibility.
LEMMA ReserveCommit ==
  ASSUME NEW a \in AnalysisInput, NEW r \in Result
  PROVE  Step(a, r, rule_reserve_commit(a, r))
<1>1. a.vm.reserve_commit_model.evidence \in EvidenceClass
  BY HostTypes, FactType
<1> QED
  BY <1>1, Silent, Reported, Enumerators DEF rule_reserve_commit

\* A pointer that is cut is no impossibility for a request that tries again.
LEMMA PointerTruncation ==
  ASSUME NEW a \in AnalysisInput, NEW r \in Result
  PROVE  Step(a, r, rule_pointer_truncation(a, r))
<1> DEFINE req == a.req
           width == IF req.pointer_width # Absent THEN req.pointer_width
                    ELSE a.vm.process_pointer_width
           class == IF req.pointer_width # Absent THEN req.assumption_evidence
                    ELSE SpecifiedGuarantee
           highest == {range.end : range \in RequestRange(req)}
                        \cup (IF RequestRange(req) = {} /\ is_known(a.vm.max_user_address)
                                THEN {a.vm.max_user_address.value} ELSE {})
           rejects == req.validates_returned_address \/ req.relocate \/ req.retries_on_failure
           impact == IF rejects THEN ConditionallySupported ELSE Unsupported
           found == start(a, 13, Proven, impact, {class, SpecifiedGuarantee})
           fits == \/ width = 0 \/ width >= WordBits
                   \/ \A address \in highest : address <= 2 ^ width
<1>1. rule_pointer_truncation(a, r) =
        IF fits THEN r ELSE emit(a, r, IF rejects THEN found ELSE Structural(found))
  BY DEF rule_pointer_truncation
<1>2. {class, SpecifiedGuarantee} \in SUBSET EvidenceClass
  BY RequestTypes, Enumerators
<1> HIDE DEF fits, class
<1>3. CASE fits
  BY <1>1, <1>3, Silent
<1>4. CASE ~fits /\ rejects
  <2>1. impact \in SupportLevel
    BY Enumerators
  <2>2. rule_pointer_truncation(a, r) = emit(a, r, found)
    BY <1>1, <1>4
  <2> HIDE DEF impact
  <2> QED
    BY <1>2, <2>1, <2>2, Reported, Enumerators
<1>5. CASE ~fits /\ ~rejects
  <2>1. rule_pointer_truncation(a, r) =
          emit(a, r, Structural(start(a, 13, Proven, Unsupported, {class, SpecifiedGuarantee})))
    BY <1>1, <1>5
  <2>2. ~req.retries_on_failure
    BY <1>5
  <2> QED
    BY <1>2, <2>1, <2>2, Impossible
<1> QED
  BY <1>3, <1>4, <1>5

\* SUPPORTED past this rule: no page beyond the partial last one is read.
LEMMA FileMappingBeyondEof ==
  ASSUME NEW a \in AnalysisInput, NEW r \in Result
  PROVE  LET s == rule_file_mapping_beyond_eof(a, r)
         IN Step(a, r, s) /\ (s.overall = Supported => EofIsCovered(a))
<1> DEFINE req == a.req
           beyond == a.vm.file_map_beyond_eof
           page == IF is_known(a.vm.page_size) THEN a.vm.page_size.value ELSE 0
           partial_page == /\ req.within_final_page
                           /\ page > 0 /\ req.file_length % page # 0
           inside == MappingEnd(req) <= req.file_length
           impact == IF beyond.value = "zero_fill" THEN ConditionallySupported ELSE Unsupported
<1>1. beyond.evidence \in EvidenceClass
  BY HostTypes, FactType
<1>2. req.file_length # Absent => (MappingEnd(req) > req.file_length <=> ~inside)
  <2>1. req.file_length # Absent => req.file_length \in Nat
    BY RequestTypes, WordPresent
  <2>2. MappingEnd(req) \in Nat
    BY RequestTypes, WordAssumption DEF MappingEnd, Word
  <2> QED
    BY <2>1, <2>2
<1>3. partial_page => /\ req.within_final_page /\ is_known(a.vm.page_size)
                      /\ req.file_length % a.vm.page_size.value # 0
  OBVIOUS
<1>4. rule_file_mapping_beyond_eof(a, r) =
        IF ~req.file_backed \/ req.file_length = Absent THEN r
        ELSE IF inside THEN r
        ELSE IF ~is_known(beyond) THEN FactUnknown(a, r)
        ELSE IF ~req.accesses_beyond_eof THEN r
        ELSE IF partial_page THEN satisfied(r, "final_page", SpecifiedGuarantee)
        ELSE emit(a, r, start(a, 18, Proven, impact, {beyond.evidence}))
  BY DEF rule_file_mapping_beyond_eof
<1>5. impact \in SupportLevel /\ impact # Supported
  BY Enumerators
<1> DEFINE mapped == req.file_backed /\ req.file_length # Absent /\ ~inside
<1>6. ~mapped \/ ~req.accesses_beyond_eof \/ partial_page => EofIsCovered(a)
  BY <1>2, <1>3 DEF EofIsCovered
<1> HIDE DEF inside, partial_page, impact
<1>7. CASE ~mapped
  BY <1>4, <1>6, <1>7, Silent
<1>8. CASE mapped /\ ~is_known(beyond)
  BY <1>4, <1>8, UnknownStep
<1>9. CASE mapped /\ is_known(beyond) /\ ~req.accesses_beyond_eof
  BY <1>4, <1>6, <1>9, Silent
<1>10. CASE mapped /\ is_known(beyond) /\ req.accesses_beyond_eof /\ partial_page
  <2>1. rule_file_mapping_beyond_eof(a, r) = satisfied(r, "final_page", SpecifiedGuarantee)
    BY <1>4, <1>10
  <2> QED
    BY <1>6, <1>10, <2>1, RecordedStep, Enumerators DEF Constraint
<1>11. CASE mapped /\ is_known(beyond) /\ req.accesses_beyond_eof /\ ~partial_page
  <2>1. rule_file_mapping_beyond_eof(a, r) =
          emit(a, r, start(a, 18, Proven, impact, {beyond.evidence}))
    BY <1>4, <1>11
  <2> QED
    BY <1>1, <1>5, <2>1, Reported, Enumerators
<1> QED
  BY <1>7, <1>8, <1>9, <1>10, <1>11

\* The retry rule rests on the findings before it: they have to be sound.
LEMMA RetryOfPermanentError ==
  ASSUME NEW a \in AnalysisInput, NEW r \in Result, \A f \in Emitted(r) : Sound(a, f)
  PROVE  Step(a, r, rule_retry_of_permanent_error(a, r))
<1> DEFINE class == proven_unsupported_evidence(r)
           f == start(a, 15, Proven, Unsupported, {class})
<1>1. class \in EvidenceClass
  <2>1. \A g \in Emitted(r) : g \in Finding
    BY DEF Emitted, Result
  <2>2. {weakest_class(g.evidence) : g \in {h \in Emitted(r) : h.structural}}
          \in SUBSET EvidenceClass
    BY <2>1, WeakestClass DEF Finding
  <2> QED
    BY <2>2, WeakestClass DEF proven_unsupported_evidence
<1>2. CASE a.req.retries_on_failure /\ established_impossibility(r)
  <2>1. Hopeless(a)
    BY <1>2 DEF established_impossibility, Sound
  <2>2. f \in Finding
    BY <1>1, Started, Enumerators
  <2>3. rule_retry_of_permanent_error(a, r) = emit(a, r, f)
    BY <1>2 DEF rule_retry_of_permanent_error
  <2> HIDE DEF f
  <2>4. Sound(a, f)
    BY <2>1 DEF Sound
  <2> QED
    BY <2>2, <2>3, <2>4, EmitStep
<1>3. CASE ~(a.req.retries_on_failure /\ established_impossibility(r))
  BY <1>3, Silent DEF rule_retry_of_permanent_error
<1> QED
  BY <1>2, <1>3

-----------------------------------------------------------------------------
(* The analysis.                                                           *)

\* Every rule is a step, and earns what Passed says of it.
LEMMA RuleStep ==
  ASSUME NEW a \in AnalysisInput, NEW r \in Result, \A f \in Emitted(r) : Sound(a, f),
         NEW k \in 1 .. Rules
  PROVE  /\ Step(a, r, rule(k, a, r))
         /\ rule(k, a, r).overall = Supported => Passed(k, a)
<1>1. k \in 1 .. 21
  BY DEF Rules
<1>2. CASE k = 1
  BY <1>2, InternalFallbackContradiction DEF rule, Passed
<1>3. CASE k = 2
  BY <1>3, BaselineMappingCapability DEF rule, Passed
<1>4. CASE k = 3
  BY <1>4, SizeFeasibility DEF rule, Passed
<1>5. CASE k = 4
  BY <1>5, AddressBounds DEF rule, Passed
<1>6. CASE k = 5
  BY <1>6, DisplacementConstraint DEF rule, Passed
<1>7. CASE k = 6
  BY <1>7, ReservationAlignment DEF rule, Passed
<1>8. CASE k = 7
  BY <1>8, PageSize DEF rule, Passed
<1>9. CASE k = 8
  BY <1>9, AddressAlignment DEF rule, Passed
<1>10. CASE k = 9
  BY <1>10, SizeGranularity DEF rule, Passed
<1>11. CASE k = 10
  BY <1>11, RangeAvailability DEF rule, Passed
<1>12. CASE k = 11
  BY <1>12, ExactMappingCapability DEF rule, Passed
<1>13. CASE k = 12
  BY <1>13, NonDestructiveExactMapping DEF rule, Passed
<1>14. CASE k = 13
  BY <1>14, HintedRelocation DEF rule, Passed
<1>15. CASE k = 14
  BY <1>15, IdentityWithoutTranslation DEF rule, Passed
<1>16. CASE k = 15
  BY <1>16, WriteExecute DEF rule, Passed
<1>17. CASE k = 16
  BY <1>17, ExecutableMapping DEF rule, Passed
<1>18. CASE k = 17
  BY <1>18, JitEntitlement DEF rule, Passed
<1>19. CASE k = 18
  BY <1>19, ReserveCommit DEF rule, Passed
<1>20. CASE k = 19
  BY <1>20, PointerTruncation DEF rule, Passed
<1>21. CASE k = 20
  BY <1>21, FileMappingBeyondEof DEF rule, Passed
<1>22. CASE k = 21
  BY <1>22, RetryOfPermanentError DEF rule, Passed
<1> QED
  BY <1>1, <1>2, <1>3, <1>4, <1>5, <1>6, <1>7, <1>8, <1>9, <1>10, <1>11,
     <1>12, <1>13, <1>14, <1>15, <1>16, <1>17, <1>18, <1>19, <1>20, <1>21, <1>22

\* An analysis starts with no finding and a clean verdict.
LEMMA InvInit == Init => AnalyzerInv
<1> SUFFICES ASSUME Init
             PROVE  AnalyzerInv
  OBVIOUS
<1>1. analysis \in AnalysisInput
  BY AnalysesAssumption DEF Init
<1>2. analysis.req.limitations \in SUBSET STRING
  BY <1>1, RequestTypes
<1>3. result = EmptyResult(analysis) /\ EmptyResult(analysis) \in Result
  BY <1>2, Enumerators DEF Init, EmptyResult, Result, LimitationText
<1>4. Emitted(result) = {}
  BY <1>3 DEF EmptyResult, Emitted
<1>5. TypeOK
  BY <1>3 DEF Init, TypeOK, Rules
<1>6. FindingsSound
  BY <1>4 DEF FindingsSound
<1>7. VerdictEarned
  BY DEF VerdictEarned, Init, Rules
<1> QED
  BY <1>5, <1>6, <1>7 DEF AnalyzerInv

\* Every step keeps the findings sound and the verdict earned.
LEMMA InvStep == AnalyzerInv /\ [Next]_vars => AnalyzerInv'
<1> SUFFICES ASSUME AnalyzerInv, [Next]_vars
             PROVE  AnalyzerInv'
  OBVIOUS
<1>1. analysis \in Analyses /\ analysis \in AnalysisInput /\ result \in Result
        /\ pos \in 0 .. Rules + 2
  BY AnalysesAssumption DEF AnalyzerInv, TypeOK
<1>2. CASE Begin
  <2>1. Passed(0, analysis) /\ \A k \in 1 .. Rules : ~(k < pos')
    BY <1>2 DEF Begin, Passed
  <2>2. TypeOK'
    BY <1>1, <1>2 DEF Begin, TypeOK, Rules
  <2>3. FindingsSound' /\ VerdictEarned'
    BY <1>2, <2>1 DEF Begin, AnalyzerInv, FindingsSound, VerdictEarned
  <2> QED
    BY <2>2, <2>3 DEF AnalyzerInv
<1>3. CASE OutOfDomain
  <2> DEFINE q == Limitation(result, "operation")
  <2>1. q \in Result /\ q.findings = result.findings
    BY <1>1, LimitationStep DEF LimitationText, Step
  <2>2. result' = [q EXCEPT !.overall = UnknownSupport]
    BY <1>3 DEF OutOfDomain
  <2> HIDE DEF q
  <2>3. /\ result' \in Result /\ result'.findings = result.findings
        /\ result'.overall # Supported
    BY <2>1, <2>2, Enumerators DEF Result
  <2>4. TypeOK'
    BY <1>1, <1>3, <2>3 DEF OutOfDomain, TypeOK, Rules
  <2>5. FindingsSound'
    BY <1>3, <2>3 DEF OutOfDomain, AnalyzerInv, FindingsSound, Emitted
  <2> QED
    BY <2>3, <2>4, <2>5 DEF AnalyzerInv, VerdictEarned
<1>4. ASSUME NEW k \in 1 .. Rules, RunRule(k)
      PROVE  AnalyzerInv'
  <2>1. \A f \in Emitted(result) : Sound(analysis, f)
    BY DEF AnalyzerInv, FindingsSound
  <2>2. /\ Step(analysis, result, result')
        /\ result'.overall = Supported => Passed(k, analysis)
    BY <1>1, <1>4, <2>1, RuleStep DEF RunRule
  <2>3. TypeOK'
    BY <1>1, <1>4, <2>2 DEF RunRule, TypeOK, Rules, Step
  <2>4. FindingsSound'
    BY <1>4, <2>1, <2>2 DEF RunRule, FindingsSound, Step
  <2>5. VerdictEarned'
    <3>1. SUFFICES ASSUME result'.overall = Supported, NEW j \in 1 .. Rules, j < pos'
                   PROVE  Passed(j, analysis)
      BY <1>4 DEF VerdictEarned, RunRule
    <3>2. result.overall = Supported
      BY <2>2, <3>1 DEF Step
    <3>3. j < pos \/ j = k
      BY <1>4, <3>1 DEF RunRule, Rules
    <3>4. j < pos => Passed(j, analysis)
      BY <3>2 DEF AnalyzerInv, VerdictEarned
    <3> QED
      BY <2>2, <3>1, <3>3, <3>4
  <2> QED
    BY <2>3, <2>4, <2>5 DEF AnalyzerInv
<1>5. CASE Return
  <2>1. TypeOK'
    BY <1>1, <1>5 DEF Return, TypeOK, Rules
  <2>2. FindingsSound' /\ VerdictEarned'
    BY <1>5 DEF Return, AnalyzerInv, FindingsSound, VerdictEarned, Rules
  <2> QED
    BY <2>1, <2>2 DEF AnalyzerInv
<1>6. CASE UNCHANGED vars
  BY <1>6 DEF vars, AnalyzerInv, TypeOK, FindingsSound, VerdictEarned
<1> QED
  BY <1>2, <1>3, <1>4, <1>5, <1>6 DEF Next

\* The invariant of the analyzer, for every requirement, every profile and
\* every width of an address.
THEOREM AnalyzerInvariant == Spec => []AnalyzerInv
BY InvInit, InvStep, PTL DEF Spec

\* RS-VM-0015, that no number of attempts can succeed, is emitted only when the
\* profile leaves no place for the request, refuses it as a whole, or the
\* request contradicts itself (rule_retry_of_permanent_error).
THEOREM RetryOnlyWhenHopeless == Spec => []RetryIsHopeless
<1>1. AnalyzerInv => RetryIsHopeless
  BY DEF AnalyzerInv, FindingsSound, Sound, RetryIsHopeless, already_emitted
<1> QED
  BY <1>1, AnalyzerInvariant, PTL

\* A verdict of SUPPORTED rests on facts that say the request works here
\* (Analysis::run and the rules on memory, placement and protection).
THEOREM SupportedRestsOnFacts == Spec => []SupportedIsEstablished
<1>1. AnalyzerInv => SupportedIsEstablished
  <2> SUFFICES ASSUME AnalyzerInv, Returned, result.overall = Supported
               PROVE  /\ analysis.req.file_backed
                           \/ Established(analysis.vm.anonymous_mapping_supported)
                      /\ Pinned(analysis.req) =>
                           \E range \in Placements(analysis) :
                             \E i \in DOMAIN analysis.vm.available_ranges :
                               contains(analysis.vm.available_ranges[i], range)
                      /\ ~Refused(analysis)
    BY DEF SupportedIsEstablished
  <2> DEFINE a == analysis
  <2>1. a \in AnalysisInput
    BY AnalysesAssumption DEF AnalyzerInv, TypeOK
  <2>2. \A k \in 1 .. 21 : Passed(k, a)
    BY DEF AnalyzerInv, VerdictEarned, Returned, Rules
  <2>3. /\ MemoryIsThere(a) /\ Consistent(a.req) /\ PageSizeFits(a) /\ AddressIsAligned(a)
        /\ PlaceIsAvailable(a) /\ ExactIsGranted(a) /\ WriteExecuteIsGranted(a)
        /\ ExecutableIsGranted(a)
    <3>1. Passed(2, a) /\ Passed(4, a) /\ Passed(7, a) /\ Passed(8, a) /\ Passed(10, a)
            /\ Passed(11, a) /\ Passed(15, a) /\ Passed(16, a)
      BY <2>2
    <3> QED
      BY <3>1 DEF Passed
  <2>4. ASSUME Pinned(a.req)
        PROVE  \E range \in Placements(a) : \E i \in DOMAIN a.vm.available_ranges :
                 contains(a.vm.available_ranges[i], range)
    <3>1. PICK range \in RequestRange(a.req) :
            /\ is_known(a.vm.min_map_address) => range.start >= a.vm.min_map_address.value
            /\ is_known(a.vm.max_user_address) => range.end <= a.vm.max_user_address.value
            /\ Clashing(a.vm, range) = {} /\ Holding(a.vm, range) # {}
      BY <2>3, <2>4 DEF PlaceIsAvailable
    <3>2. a.req.address # Absent /\ a.req.address \in Word /\ a.req.size \in Word
      BY <2>1, <2>4, RequestTypes, WordPresent DEF Pinned
    <3>3. range \in from_base_size(a.req.address, a.req.size) /\ range.start = a.req.address
      BY <3>1, <3>2, BaseAndSize DEF RequestRange
    <3>4. range \in UNION {from_base_size(base, a.req.size) : base \in 0 .. WordMax}
      BY <3>2, <3>3 DEF Word
    <3>5. range \in Placements(a)
      BY <2>3, <3>1, <3>2, <3>3, <3>4
         DEF Placements, Consistent, AddressIsAligned, Clashing
    <3> QED
      BY <3>1, <3>5 DEF Holding
  <2>5. ~Refused(a)
    <3>1. ~(a.req.required_page_size # Absent /\ is_known(a.vm.page_size) /\
            (CASE a.req.page_size_relation = "equal" ->
                    a.vm.page_size.value # a.req.required_page_size
               [] a.req.page_size_relation = "at_most" ->
                    a.vm.page_size.value > a.req.required_page_size
               [] a.req.page_size_relation = "at_least" ->
                    a.vm.page_size.value < a.req.required_page_size))
      <4> SUFFICES ASSUME a.req.required_page_size # Absent, is_known(a.vm.page_size)
                   PROVE  ~(CASE a.req.page_size_relation = "equal" ->
                                   a.vm.page_size.value # a.req.required_page_size
                              [] a.req.page_size_relation = "at_most" ->
                                   a.vm.page_size.value > a.req.required_page_size
                              [] a.req.page_size_relation = "at_least" ->
                                   a.vm.page_size.value < a.req.required_page_size)
        OBVIOUS
      <4>1. a.req.required_page_size \in Word /\ a.vm.page_size.value \in Word
        BY <2>1, RequestTypes, WordPresent, HostTypes, FactType
      <4>2. a.req.required_page_size \in Nat /\ a.vm.page_size.value \in Nat
        BY <4>1 DEF Word
      <4>3. CASE a.req.page_size_relation = "equal"
        BY <2>3, <4>2, <4>3 DEF PageSizeFits
      <4>4. CASE a.req.page_size_relation = "at_most"
        BY <2>3, <4>2, <4>4 DEF PageSizeFits
      <4>5. CASE a.req.page_size_relation = "at_least"
        BY <2>3, <4>2, <4>5 DEF PageSizeFits
      <4> QED
        BY <2>1, <4>3, <4>4, <4>5, RequestTypes
    <3>2. ~(~a.req.file_backed /\ Refuted(a.vm.anonymous_mapping_supported))
      BY <2>3 DEF MemoryIsThere, Refuted, Established
    <3> QED
      BY <2>3, <3>1, <3>2
         DEF Refused, ExactIsGranted, WriteExecuteIsGranted, ExecutableIsGranted
  <2> QED
    BY <2>3, <2>4, <2>5 DEF MemoryIsThere
<1> QED
  BY <1>1, AnalyzerInvariant, PTL

\* No file mapping that is read past its end is SUPPORTED beyond the partial
\* last page, also where the end of the mapping saturates
\* (rule_file_mapping_beyond_eof).
THEOREM EofIsNotHidden == Spec => []ReadPastEofIsReported
<1>1. AnalyzerInv => ReadPastEofIsReported
  <2> SUFFICES ASSUME AnalyzerInv, Returned, result.overall = Supported,
                      analysis.req.file_backed, analysis.req.file_length # Absent,
                      analysis.req.accesses_beyond_eof, analysis.req.file_length < WordMax,
                      analysis.req.file_offset + analysis.req.size > analysis.req.file_length
               PROVE  /\ analysis.req.within_final_page
                      /\ is_known(analysis.vm.page_size)
                      /\ analysis.req.file_length % analysis.vm.page_size.value # 0
    BY DEF ReadPastEofIsReported
  <2> DEFINE a == analysis
  <2>1. a \in AnalysisInput
    BY AnalysesAssumption DEF AnalyzerInv, TypeOK
  <2>2. Passed(20, a)
    BY DEF AnalyzerInv, VerdictEarned, Returned, Rules
  <2>3. EofIsCovered(a)
    BY <2>2 DEF Passed
  <2>4. /\ a.req.file_length \in Nat /\ a.req.file_offset \in Nat /\ a.req.size \in Nat
    BY <2>1, RequestTypes, WordPresent DEF Word
  <2>5. MappingEnd(a.req) > a.req.file_length
    BY <2>4, WordAssumption DEF MappingEnd
  <2> QED
    BY <2>3, <2>5 DEF EofIsCovered
<1> QED
  BY <1>1, AnalyzerInvariant, PTL

-----------------------------------------------------------------------------
(* The better attested analysis.  What the evidence for a fact may change: *)
(* two analyses of the same facts, the second one better attested, go      *)
(* through the rules side by side.                                         *)

\* A class of evidence next to another that is no weaker.
NoWeaker(d, c) == d \in EvidenceClass /\ c \in EvidenceClass /\ d <= c

\* The same fact, no worse attested.
SameFact(g, f) ==
  g.value = f.value /\ (is_known(g) <=> is_known(f)) /\ NoWeaker(g.evidence, f.evidence)

\* A better class is no weaker, and only the unknown one stays unknown.
LEMMA BetterClass ==
  ASSUME NEW class \in EvidenceClass
  PROVE  /\ NoWeaker(Better(class), class)
         /\ Better(class) = UnknownEvidence <=> class = UnknownEvidence
BY DEF Better, NoWeaker, EvidenceClass, SpecifiedGuarantee, UnknownEvidence

\* A better attested fact is a fact with the same value.
LEMMA BetterFactType ==
  ASSUME NEW S, NEW f \in FactOf(S)
  PROVE  BetterFact(f) \in FactOf(S) /\ SameFact(BetterFact(f), f)
<1>1. f.evidence \in EvidenceClass /\ Better(f.evidence) \in EvidenceClass
  BY FactType, BetterClass DEF NoWeaker
<1>2. BetterFact(f) = [value |-> f.value, evidence |-> Better(f.evidence)]
  BY DEF BetterFact, FactOf
<1> QED
  BY <1>1, <1>2, BetterClass DEF FactOf, SameFact, is_known

\* Better attested ranges are the same ranges in the same order.
LEMMA BetterRangesType ==
  ASSUME NEW ranges \in Seq(ClassifiedRange)
  PROVE  /\ BetterRanges(ranges) \in Seq(ClassifiedRange)
         /\ DOMAIN BetterRanges(ranges) = DOMAIN ranges
         /\ \A i \in DOMAIN ranges :
              /\ BetterRanges(ranges)[i].start = ranges[i].start
              /\ BetterRanges(ranges)[i].end = ranges[i].end
              /\ NoWeaker(BetterRanges(ranges)[i].evidence, ranges[i].evidence)
<1> DEFINE better(i) == [ranges[i] EXCEPT !.evidence = Better(@)]
<1>1. BetterRanges(ranges) = [i \in 1 .. Len(ranges) |-> better(i)]
  BY DEF BetterRanges
<1>2. ASSUME NEW i \in DOMAIN ranges
      PROVE  /\ better(i) \in ClassifiedRange
             /\ better(i).start = ranges[i].start /\ better(i).end = ranges[i].end
             /\ NoWeaker(better(i).evidence, ranges[i].evidence)
  <2>0. ranges[i] \in ClassifiedRange
    OBVIOUS
  <2>1. ranges[i] \in ClassifiedRange /\ ranges[i].evidence \in EvidenceClass
    BY <2>0 DEF ClassifiedRange
  <2>2. NoWeaker(Better(ranges[i].evidence), ranges[i].evidence)
    BY <2>1, BetterClass
  <2> QED
    BY <2>1, <2>2 DEF ClassifiedRange, NoWeaker
<1> HIDE DEF better
<1>3. BetterRanges(ranges) \in Seq(ClassifiedRange)
  BY <1>1, <1>2
<1> QED
  BY <1>1, <1>2, <1>3

\* The requests are the same but for the evidence behind them.
LEMMA BetterRequest ==
  ASSUME NEW a \in AnalysisInput
  PROVE  LET p == BetterKnown(a).req
             q == a.req
         IN /\ p \in MappingRequest
            /\ p = [q EXCEPT !.assumption_evidence = Better(q.assumption_evidence)]
            /\ NoWeaker(p.assumption_evidence, q.assumption_evidence)
<1>1. a.req \in MappingRequest /\ a.req.assumption_evidence \in EvidenceClass
  BY RequestTypes DEF AnalysisInput
<1>2. NoWeaker(Better(a.req.assumption_evidence), a.req.assumption_evidence)
  BY <1>1, BetterClass
<1>3. BetterKnown(a).req =
        [a.req EXCEPT !.assumption_evidence = Better(a.req.assumption_evidence)]
  BY DEF BetterKnown, AnalysisInput
<1> QED
  BY <1>1, <1>2, <1>3 DEF MappingRequest, NoWeaker

\* What the rules read of the two requests is the same.
LEMMA SameRequest ==
  ASSUME NEW a \in AnalysisInput
  PROVE  LET p == BetterKnown(a).req
             q == a.req
         IN /\ p.operation = q.operation /\ p.address = q.address /\ p.size = q.size
            /\ p.exact_address_required = q.exact_address_required
            /\ p.identity_required = q.identity_required
            /\ p.translation_available = q.translation_available /\ p.relocate = q.relocate
            /\ p.validates_returned_address = q.validates_returned_address
            /\ p.retries_on_failure = q.retries_on_failure /\ p.write = q.write
            /\ p.execute = q.execute /\ p.write_then_execute = q.write_then_execute
            /\ p.simultaneous_write_execute = q.simultaneous_write_execute
            /\ p.reserve_then_commit = q.reserve_then_commit
            /\ p.commit_is_checked_call = q.commit_is_checked_call
            /\ p.file_backed = q.file_backed /\ p.file_length = q.file_length
            /\ p.file_offset = q.file_offset /\ p.accesses_beyond_eof = q.accesses_beyond_eof
            /\ p.within_final_page = q.within_final_page /\ p.address_min = q.address_min
            /\ p.address_max = q.address_max /\ p.max_displacement = q.max_displacement
            /\ p.required_alignment = q.required_alignment
            /\ p.required_page_size = q.required_page_size
            /\ p.page_size_relation = q.page_size_relation
            /\ p.relies_on_unmapped_beyond_size = q.relies_on_unmapped_beyond_size
            /\ p.pointer_width = q.pointer_width /\ p.sink = q.sink
            /\ p.limitations = q.limitations
<1>1. BetterKnown(a).req =
        [a.req EXCEPT !.assumption_evidence = Better(a.req.assumption_evidence)]
  BY BetterRequest
<1> QED
  BY <1>1 DEF AnalysisInput, MappingRequest

\* The facts are the same, no worse attested.
LEMMA BetterHost ==
  ASSUME NEW a \in AnalysisInput
  PROVE  LET v == BetterKnown(a).vm
         IN /\ SameFact(v.min_map_address, a.vm.min_map_address)
            /\ SameFact(v.max_user_address, a.vm.max_user_address)
            /\ SameFact(v.page_size, a.vm.page_size)
            /\ SameFact(v.allocation_granularity, a.vm.allocation_granularity)
            /\ SameFact(v.max_single_reservation, a.vm.max_single_reservation)
            /\ SameFact(v.max_single_reservation_hinted, a.vm.max_single_reservation_hinted)
            /\ SameFact(v.anonymous_mapping_supported, a.vm.anonymous_mapping_supported)
            /\ SameFact(v.exact_mapping, a.vm.exact_mapping)
            /\ SameFact(v.hinted_mapping_may_relocate, a.vm.hinted_mapping_may_relocate)
            /\ SameFact(v.fixed_noreplace_available, a.vm.fixed_noreplace_available)
            /\ SameFact(v.reserve_commit_model, a.vm.reserve_commit_model)
            /\ SameFact(v.file_map_beyond_eof, a.vm.file_map_beyond_eof)
            /\ SameFact(v.write_execute_simultaneous, a.vm.write_execute_simultaneous)
            /\ SameFact(v.write_then_execute_transition, a.vm.write_then_execute_transition)
            /\ SameFact(v.anonymous_executable_mapping, a.vm.anonymous_executable_mapping)
            /\ SameFact(v.jit_entitlement_required, a.vm.jit_entitlement_required)
            /\ v.available_ranges = BetterRanges(a.vm.available_ranges)
            /\ v.unavailable_ranges = BetterRanges(a.vm.unavailable_ranges)
            /\ v.process_pointer_width = a.vm.process_pointer_width
            /\ v.measured = a.vm.measured
            /\ v \in VirtualMemoryModel
<1> DEFINE v == BetterKnown(a).vm
<1>1. a.vm \in VirtualMemoryModel
  BY DEF AnalysisInput
<1>2. v = [field \in DOMAIN a.vm |->
             CASE field \in {"available_ranges", "unavailable_ranges"} ->
                    BetterRanges(a.vm[field])
               [] field \in {"process_pointer_width", "measured"} -> a.vm[field]
               [] OTHER -> BetterFact(a.vm[field])]
  BY DEF BetterKnown, AnalysisInput
<1> HIDE DEF v
<1>3. /\ DOMAIN v = DOMAIN a.vm
      /\ v.min_map_address = BetterFact(a.vm.min_map_address)
      /\ v.max_user_address = BetterFact(a.vm.max_user_address)
      /\ v.page_size = BetterFact(a.vm.page_size)
      /\ v.allocation_granularity = BetterFact(a.vm.allocation_granularity)
      /\ v.max_single_reservation = BetterFact(a.vm.max_single_reservation)
      /\ v.max_single_reservation_hinted = BetterFact(a.vm.max_single_reservation_hinted)
      /\ v.anonymous_mapping_supported = BetterFact(a.vm.anonymous_mapping_supported)
      /\ v.exact_mapping = BetterFact(a.vm.exact_mapping)
      /\ v.hinted_mapping_may_relocate = BetterFact(a.vm.hinted_mapping_may_relocate)
      /\ v.fixed_noreplace_available = BetterFact(a.vm.fixed_noreplace_available)
      /\ v.reserve_commit_model = BetterFact(a.vm.reserve_commit_model)
      /\ v.file_map_beyond_eof = BetterFact(a.vm.file_map_beyond_eof)
      /\ v.write_execute_simultaneous = BetterFact(a.vm.write_execute_simultaneous)
      /\ v.write_then_execute_transition = BetterFact(a.vm.write_then_execute_transition)
      /\ v.anonymous_executable_mapping = BetterFact(a.vm.anonymous_executable_mapping)
      /\ v.jit_entitlement_required = BetterFact(a.vm.jit_entitlement_required)
      /\ v.available_ranges = BetterRanges(a.vm.available_ranges)
      /\ v.unavailable_ranges = BetterRanges(a.vm.unavailable_ranges)
      /\ v.process_pointer_width = a.vm.process_pointer_width
      /\ v.measured = a.vm.measured
  BY <1>1, <1>2 DEF VirtualMemoryModel
<1>4. v \in VirtualMemoryModel
  <2>1. a.vm.measured \in BOOLEAN /\ a.vm.process_pointer_width \in Nat
    BY <1>1 DEF VirtualMemoryModel
  <2> QED
    BY <1>1, <1>2, <1>3, <2>1, HostTypes, BetterFactType, BetterRangesType
       DEF VirtualMemoryModel
<1> QED
  BY <1>3, <1>4, HostTypes, BetterFactType DEF v

\* The better attested analysis is one of the inputs the rules are written for.
LEMMA BetterInput ==
  ASSUME NEW a \in AnalysisInput
  PROVE  BetterKnown(a) \in AnalysisInput /\ BetterKnown(a).report_unknowns = a.report_unknowns
<1>1. BetterKnown(a).req \in MappingRequest /\ BetterKnown(a).vm \in VirtualMemoryModel
  BY BetterRequest, BetterHost
<1>2. a.report_unknowns \in BOOLEAN
  BY DEF AnalysisInput
<1>3. \E p, v : BetterKnown(a) = [a EXCEPT !.req = p, !.vm = v]
  BY DEF BetterKnown, AnalysisInput
<1>4. PICK p, v : BetterKnown(a) = [a EXCEPT !.req = p, !.vm = v]
  BY <1>3
<1>5. BetterKnown(a) = [req |-> p, vm |-> v, report_unknowns |-> a.report_unknowns]
  BY <1>4 DEF AnalysisInput
<1> QED
  BY <1>1, <1>2, <1>5 DEF AnalysisInput

-----------------------------------------------------------------------------
(* Two results side by side.                                               *)

\* The same finding, with no less confidence and no weaker evidence.
SameFinding(g, f) ==
  /\ g.id = f.id /\ g.impact = f.impact /\ g.structural = f.structural
  /\ g.confidence <= f.confidence
  /\ weakest_class(g.evidence) <= weakest_class(f.evidence)

Improves(s, r) ==
  /\ s \in Result /\ r \in Result
  /\ s.overall = r.overall /\ Len(s.findings) = Len(r.findings)
  /\ \A i \in 1 .. Len(r.findings) : SameFinding(s.findings[i], r.findings[i])

\* A set of classes of which each stands next to one of another set.
NoneWeaker(better, classes) ==
  /\ better \in SUBSET EvidenceClass /\ classes \in SUBSET EvidenceClass
  /\ \A d \in better : \E c \in classes : d <= c

\* The weakest of better classes is no weaker.
LEMMA WeakestImproves ==
  ASSUME NEW better, NEW classes, NoneWeaker(better, classes), better # {}
  PROVE  weakest_class(better) <= weakest_class(classes)
<1>1. weakest_class(better) \in better /\ weakest_class(better) \in EvidenceClass
  BY WeakestClass DEF NoneWeaker
<1>2. PICK c \in classes : weakest_class(better) <= c
  BY <1>1 DEF NoneWeaker
<1>3. c <= weakest_class(classes) /\ weakest_class(classes) \in EvidenceClass
        /\ c \in EvidenceClass
  BY <1>2, WeakestClass DEF NoneWeaker
<1> QED
  BY <1>1, <1>2, <1>3 DEF EvidenceClass

\* The ceiling is monotone, and with it the clamp.
LEMMA ClampImproves ==
  ASSUME NEW d \in EvidenceClass, NEW c \in EvidenceClass, d <= c,
         NEW better \in Confidence, NEW desired \in Confidence, better <= desired
  PROVE  clamp_confidence(better, d) <= clamp_confidence(desired, c)
<1>1. confidence_ceiling(d) <= confidence_ceiling(c)
  BY DEF confidence_ceiling, EvidenceClass, SpecifiedGuarantee, MeasuredCapability,
         StaticallyInferred, BoundedCounterexample, ObservedInvariantClass, HeuristicRisk,
         UnknownEvidence, Proven, Counterexample, ObservedInvariant, Predictive, Hypothesis
<1>2. confidence_ceiling(d) \in Confidence /\ confidence_ceiling(c) \in Confidence
  BY ClampType
<1> QED
  BY <1>1, <1>2 DEF clamp_confidence, Confidence

\* emit keeps two results side by side.
LEMMA EmitImproves ==
  ASSUME NEW a \in AnalysisInput, NEW b \in AnalysisInput, NEW r, NEW s, Improves(s, r),
         NEW f \in Finding, NEW g \in Finding, SameFinding(g, f)
  PROVE  Improves(emit(b, s, g), emit(a, r, f))
<1> DEFINE Emitting(x, h, y) ==
             [h EXCEPT !.severity = IF h.impact = Supported THEN @
                                    ELSE adjust_severity(@, x.req.sink),
                       !.confidence = clamp_confidence(@, weakest_class(h.evidence))]
           gg == Emitting(b, g, s)
           ff == Emitting(a, f, r)
<1>1. /\ emit(b, s, g).findings = Append(s.findings, gg)
      /\ emit(b, s, g).overall = combine(s.overall, g.impact)
      /\ emit(a, r, f).findings = Append(r.findings, ff)
      /\ emit(a, r, f).overall = combine(r.overall, f.impact)
  BY DEF emit, Improves, Result
<1>2. emit(b, s, g) \in Result /\ emit(a, r, f) \in Result
  BY Emit DEF Improves
<1>3. /\ gg.id = g.id /\ gg.impact = g.impact /\ gg.structural = g.structural
      /\ gg.evidence = g.evidence
      /\ gg.confidence = clamp_confidence(g.confidence, weakest_class(g.evidence))
      /\ ff.id = f.id /\ ff.impact = f.impact /\ ff.structural = f.structural
      /\ ff.evidence = f.evidence
      /\ ff.confidence = clamp_confidence(f.confidence, weakest_class(f.evidence))
  BY DEF Finding
<1>4. gg.confidence <= ff.confidence
  <2>1. /\ g.confidence \in Confidence /\ f.confidence \in Confidence
        /\ g.evidence \in SUBSET EvidenceClass /\ f.evidence \in SUBSET EvidenceClass
    BY DEF Finding
  <2>2. weakest_class(g.evidence) \in EvidenceClass /\ weakest_class(f.evidence) \in EvidenceClass
    BY <2>1, WeakestClass
  <2> QED
    BY <1>3, <2>1, <2>2, ClampImproves DEF SameFinding
<1> HIDE DEF gg, ff
<1>5. SameFinding(gg, ff)
  BY <1>3, <1>4 DEF SameFinding
<1>6. /\ Len(emit(b, s, g).findings) = Len(emit(a, r, f).findings)
      /\ \A i \in 1 .. Len(emit(a, r, f).findings) :
           SameFinding(emit(b, s, g).findings[i], emit(a, r, f).findings[i])
  <2>1. /\ s.findings \in Seq(Finding) /\ r.findings \in Seq(Finding)
        /\ Len(s.findings) = Len(r.findings)
        /\ \A i \in 1 .. Len(r.findings) : SameFinding(s.findings[i], r.findings[i])
    BY DEF Improves, Result
  <2>2. ASSUME NEW i \in 1 .. Len(r.findings) + 1
        PROVE  SameFinding(Append(s.findings, gg)[i], Append(r.findings, ff)[i])
    <3>1. CASE i = Len(r.findings) + 1
      BY <1>5, <2>1, <3>1
    <3>2. CASE i \in 1 .. Len(r.findings)
      BY <2>1, <3>2
    <3> QED
      BY <2>1, <3>1, <3>2
  <2>3. /\ Len(Append(s.findings, gg)) = Len(r.findings) + 1
        /\ Len(Append(r.findings, ff)) = Len(r.findings) + 1
    BY <2>1
  <2> QED
    BY <1>1, <2>2, <2>3
<1>7. emit(b, s, g).overall = emit(a, r, f).overall
  BY <1>1 DEF Improves, SameFinding
<1> QED
  BY <1>2, <1>6, <1>7 DEF Improves

\* Findings as the rules begin them.
LEMMA ReportedImproves ==
  ASSUME NEW a \in AnalysisInput, NEW r, NEW s, Improves(s, r),
         NEW id \in 1 .. 27, NEW confidence \in Confidence, NEW impact \in SupportLevel,
         NEW better, NEW classes, NoneWeaker(better, classes)
  PROVE  LET b == BetterKnown(a)
             g == start(b, id, confidence, impact, better)
             f == start(a, id, confidence, impact, classes)
         IN /\ SameFinding(g, f)
            /\ Improves(emit(b, s, g), emit(a, r, f))
            /\ Improves(emit(b, s, Structural(g)), emit(a, r, Structural(f)))
<1> DEFINE b == BetterKnown(a)
           g == start(b, id, confidence, impact, better)
           f == start(a, id, confidence, impact, classes)
<1>1. b \in AnalysisInput
  BY BetterInput
<1>2. /\ g \in Finding /\ f \in Finding
      /\ Structural(g) \in Finding /\ Structural(f) \in Finding
  BY <1>1, Started DEF NoneWeaker
<1>3. /\ g.id = id /\ g.impact = impact /\ g.structural = FALSE /\ g.confidence = confidence
      /\ g.evidence = {b.req.assumption_evidence} \cup better
      /\ f.id = id /\ f.impact = impact /\ f.structural = FALSE /\ f.confidence = confidence
      /\ f.evidence = {a.req.assumption_evidence} \cup classes
  BY DEF start
<1>4. NoneWeaker(g.evidence, f.evidence) /\ g.evidence # {}
  <2>1. NoWeaker(b.req.assumption_evidence, a.req.assumption_evidence)
    BY BetterRequest
  <2> HIDE DEF g, f, b
  <2> QED
    BY <1>3, <2>1 DEF NoneWeaker, NoWeaker
<1>5. weakest_class(g.evidence) <= weakest_class(f.evidence)
  BY <1>4, WeakestImproves
<1>6. confidence <= confidence
  BY DEF Confidence
<1>7. SameFinding(g, f)
  BY <1>3, <1>5, <1>6 DEF SameFinding
<1>8. SameFinding(Structural(g), Structural(f))
  <2>1. /\ Structural(g) = [g EXCEPT !.structural = TRUE]
        /\ Structural(f) = [f EXCEPT !.structural = TRUE]
    BY DEF Structural
  <2> HIDE DEF g, f
  <2> QED
    BY <1>2, <1>7, <2>1 DEF SameFinding, Finding
<1> HIDE DEF g, f, b
<1> QED
  BY <1>1, <1>2, <1>7, <1>8, EmitImproves DEF g, f, b

\* Recording that a constraint is satisfied keeps two results side by side.
LEMMA SatisfiedImproves ==
  ASSUME NEW r, NEW s, Improves(s, r), NEW constraint \in Constraint,
         NEW d \in EvidenceClass, NEW c \in EvidenceClass
  PROVE  Improves(satisfied(s, constraint, d), satisfied(r, constraint, c))
<1>1. s \in Result /\ r \in Result
  BY DEF Improves
<1>2. LET q == satisfied(s, constraint, d)
          p == satisfied(r, constraint, c)
      IN /\ q \in Result /\ q.findings = s.findings /\ q.overall = s.overall
         /\ p \in Result /\ p.findings = r.findings /\ p.overall = r.overall
  BY <1>1, RecordedStep DEF Step
<1> QED
  BY <1>2 DEF Improves

\* And so does adding a limitation.
LEMMA LimitationImproves ==
  ASSUME NEW r, NEW s, Improves(s, r), NEW text \in LimitationText
  PROVE  Improves(Limitation(s, text), Limitation(r, text))
<1>1. s \in Result /\ r \in Result
  BY DEF Improves
<1>2. LET q == Limitation(s, text)
          p == Limitation(r, text)
      IN /\ q \in Result /\ q.findings = s.findings /\ q.overall = s.overall
         /\ p \in Result /\ p.findings = r.findings /\ p.overall = r.overall
  BY <1>1, LimitationStep DEF Step
<1> QED
  BY <1>2 DEF Improves

\* A fact is unknown to both.
LEMMA UnknownImproves ==
  ASSUME NEW a \in AnalysisInput, NEW r, NEW s, Improves(s, r)
  PROVE  Improves(FactUnknown(BetterKnown(a), s), FactUnknown(a, r))
<1> DEFINE b == BetterKnown(a)
<1>1. b.report_unknowns = a.report_unknowns /\ b \in AnalysisInput
  BY BetterInput
<1>2. CASE a.report_unknowns
  <2>1. /\ FactUnknown(b, s) =
             emit(b, s, start(b, 17, Hypothesis, UnknownSupport, {UnknownEvidence}))
        /\ FactUnknown(a, r) =
             emit(a, r, start(a, 17, Hypothesis, UnknownSupport, {UnknownEvidence}))
    BY <1>1, <1>2 DEF FactUnknown
  <2>2. NoneWeaker({UnknownEvidence}, {UnknownEvidence})
    BY DEF NoneWeaker, EvidenceClass, UnknownEvidence
  <2> QED
    BY <2>1, <2>2, ReportedImproves, Enumerators
<1>3. CASE ~a.report_unknowns
  <2>1. /\ FactUnknown(b, s) = [s EXCEPT !.overall = combine(s.overall, UnknownSupport)]
        /\ FactUnknown(a, r) = [r EXCEPT !.overall = combine(r.overall, UnknownSupport)]
    BY <1>1, <1>3 DEF FactUnknown
  <2>2. FactUnknown(b, s) \in Result /\ FactUnknown(a, r) \in Result
    BY <1>1, UnknownStep DEF Improves, Step
  <2>3. s \in Result /\ r \in Result /\ s.overall = r.overall
    BY DEF Improves
  <2>4. /\ FactUnknown(b, s).overall = FactUnknown(a, r).overall
        /\ FactUnknown(b, s).findings = s.findings /\ FactUnknown(a, r).findings = r.findings
    BY <2>1, <2>3 DEF Result
  <2> QED
    BY <2>2, <2>4 DEF Improves
<1> QED
  BY <1>2, <1>3

\* What later rules read of the findings before them is the same.
LEMMA SameHistory ==
  ASSUME NEW r, NEW s, Improves(s, r)
  PROVE  /\ established_impossibility(s) <=> established_impossibility(r)
         /\ \A id : already_emitted(s, id) <=> already_emitted(r, id)
         /\ established_impossibility(r) =>
              NoWeaker(proven_unsupported_evidence(s), proven_unsupported_evidence(r))
<1>1. /\ DOMAIN s.findings = DOMAIN r.findings
      /\ \A i \in DOMAIN r.findings :
           /\ SameFinding(s.findings[i], r.findings[i])
           /\ s.findings[i] \in Finding /\ r.findings[i] \in Finding
  BY DEF Improves, Result
<1>2. established_impossibility(s) <=> established_impossibility(r)
  BY <1>1 DEF established_impossibility, Emitted, SameFinding
<1>3. \A id : already_emitted(s, id) <=> already_emitted(r, id)
  BY <1>1 DEF already_emitted, Emitted, SameFinding
<1>4. ASSUME established_impossibility(r)
      PROVE  NoWeaker(proven_unsupported_evidence(s), proven_unsupported_evidence(r))
  <2> DEFINE Classes(q) == {weakest_class(f.evidence) : f \in {g \in Emitted(q) : g.structural}}
  <2>1. ASSUME NEW f \in Finding
        PROVE  weakest_class(f.evidence) \in EvidenceClass
    BY WeakestClass DEF Finding
  <2>2. Classes(s) \in SUBSET EvidenceClass /\ Classes(r) \in SUBSET EvidenceClass
    BY <1>1, <2>1 DEF Emitted
  <2>3. \A d \in Classes(s) : \E c \in Classes(r) : d <= c
    <3> SUFFICES ASSUME NEW d \in Classes(s)
                 PROVE  \E c \in Classes(r) : d <= c
      OBVIOUS
    <3>1. PICK i \in DOMAIN s.findings :
            s.findings[i].structural /\ d = weakest_class(s.findings[i].evidence)
      BY DEF Emitted
    <3>2. /\ r.findings[i] \in Emitted(r) /\ r.findings[i].structural
          /\ d <= weakest_class(r.findings[i].evidence)
      BY <1>1, <3>1 DEF Emitted, SameFinding
    <3> QED
      BY <3>2
  <2>4. Classes(s) # {}
    <3>1. PICK f \in Emitted(s) : f.structural
      BY <1>2, <1>4 DEF established_impossibility
    <3>2. weakest_class(f.evidence) \in Classes(s)
      BY <3>1
    <3> QED
      BY <3>2
  <2>5. /\ proven_unsupported_evidence(s) = weakest_class(Classes(s))
        /\ proven_unsupported_evidence(r) = weakest_class(Classes(r))
    BY DEF proven_unsupported_evidence
  <2> HIDE DEF Classes
  <2>6. NoneWeaker(Classes(s), Classes(r))
    BY <2>2, <2>3 DEF NoneWeaker
  <2> QED
    BY <2>2, <2>4, <2>5, <2>6, WeakestImproves, WeakestClass DEF NoWeaker
<1> QED
  BY <1>2, <1>3, <1>4

\* The first range found in a list is the same, and the answer with it.
LEMMA QueryImproves ==
  ASSUME NEW a \in AnalysisInput, NEW range
  PROVE  /\ query_range(BetterKnown(a).vm, range).level = query_range(a.vm, range).level
         /\ NoWeaker(query_range(BetterKnown(a).vm, range).evidence,
                     query_range(a.vm, range).evidence)
<1> DEFINE v == BetterKnown(a).vm
           u == a.vm
<1>1. /\ u.unavailable_ranges \in Seq(ClassifiedRange)
      /\ u.available_ranges \in Seq(ClassifiedRange)
  BY HostTypes
<1>2. /\ v.unavailable_ranges = BetterRanges(u.unavailable_ranges)
      /\ v.available_ranges = BetterRanges(u.available_ranges)
  BY BetterHost
<1>3. Clashing(v, range) = Clashing(u, range)
  BY <1>1, <1>2, BetterRangesType DEF Clashing, intersects, empty
<1>4. Holding(v, range) = Holding(u, range)
  BY <1>1, <1>2, BetterRangesType DEF Holding, contains, empty
<1>5. ASSUME NEW ranges \in Seq(ClassifiedRange), NEW found \in SUBSET DOMAIN ranges, found # {}
      PROVE  NoWeaker(FirstOf(BetterRanges(ranges), found), FirstOf(ranges, found))
  <2> DEFINE first == CHOOSE i \in found : \A j \in found : i <= j
  <2>1. first \in DOMAIN ranges
    BY <1>5, FirstEvidence
  <2>2. /\ FirstOf(BetterRanges(ranges), found) = BetterRanges(ranges)[first].evidence
        /\ FirstOf(ranges, found) = ranges[first].evidence
    BY DEF FirstOf
  <2> HIDE DEF first
  <2> QED
    BY <2>1, <2>2, BetterRangesType
<1>6. /\ Clashing(u, range) \in SUBSET DOMAIN u.unavailable_ranges
      /\ Holding(u, range) \in SUBSET DOMAIN u.available_ranges
  BY DEF Clashing, Holding
<1>7. /\ Clashing(u, range) # {} =>
           NoWeaker(FirstOf(v.unavailable_ranges, Clashing(u, range)),
                    FirstOf(u.unavailable_ranges, Clashing(u, range)))
      /\ Holding(u, range) # {} =>
           NoWeaker(FirstOf(v.available_ranges, Holding(u, range)),
                    FirstOf(u.available_ranges, Holding(u, range)))
  BY <1>1, <1>2, <1>5, <1>6
<1>8. /\ SameFact(v.min_map_address, u.min_map_address)
      /\ SameFact(v.max_user_address, u.max_user_address)
  BY BetterHost
<1>9. /\ NoWeaker(SpecifiedGuarantee, SpecifiedGuarantee)
      /\ NoWeaker(UnknownEvidence, UnknownEvidence)
  BY DEF NoWeaker, EvidenceClass, SpecifiedGuarantee, UnknownEvidence
<1> HIDE DEF u, v
<1>10. /\ query_range(v, range).level = query_range(u, range).level
       /\ NoWeaker(query_range(v, range).evidence, query_range(u, range).evidence)
  BY <1>3, <1>4, <1>7, <1>8, <1>9 DEF query_range, RangeVerdict, SameFact
<1> QED
  BY <1>10 DEF u, v

\* How sets of one or two classes stand next to each other.
LEMMA SameClasses ==
  /\ \A d, c : NoWeaker(d, c) => NoneWeaker({d}, {c})
  /\ \A d, c : \A e \in EvidenceClass : NoWeaker(d, c) => NoneWeaker({d, e}, {c, e})
  /\ \A e \in EvidenceClass : NoneWeaker({e}, {e})
BY DEF NoneWeaker, NoWeaker, EvidenceClass

-----------------------------------------------------------------------------
(* The rules, one lemma each.                                              *)

\* The rule on a contradiction within the request: both analyses read the same
\* request.
LEMMA InternalFallbackContradictionImproves ==
  ASSUME NEW a \in AnalysisInput, NEW r, NEW s, Improves(s, r)
  PROVE  Improves(rule_internal_fallback_contradiction(BetterKnown(a), s),
                  rule_internal_fallback_contradiction(a, r))
<1>1. Improves(emit(BetterKnown(a), s, start(BetterKnown(a), 14, Proven, Unsupported,
                                             {SpecifiedGuarantee})),
               emit(a, r, start(a, 14, Proven, Unsupported, {SpecifiedGuarantee})))
  BY SameClasses, ReportedImproves, Enumerators
<1> QED
  BY <1>1, SameRequest DEF rule_internal_fallback_contradiction

\* The rule on the anonymous or the file mapping fact, known to both or to
\* neither.
LEMMA BaselineMappingCapabilityImproves ==
  ASSUME NEW a \in AnalysisInput, NEW r, NEW s, Improves(s, r)
  PROVE  Improves(rule_baseline_mapping_capability(BetterKnown(a), s),
                  rule_baseline_mapping_capability(a, r))
<1> DEFINE g == BetterKnown(a).vm.anonymous_mapping_supported
           f == a.vm.anonymous_mapping_supported
<1>1. SameFact(g, f) /\ BetterKnown(a).req.file_backed = a.req.file_backed
  BY BetterHost, SameRequest
<1>2. NoneWeaker({g.evidence}, {f.evidence})
  BY <1>1, SameClasses DEF SameFact
<1>3. Improves(emit(BetterKnown(a), s, Structural(start(BetterKnown(a), 19, Proven, Unsupported,
                                                         {g.evidence}))),
               emit(a, r, Structural(start(a, 19, Proven, Unsupported, {f.evidence}))))
  BY <1>2, ReportedImproves, Enumerators
<1> QED
  BY <1>1, <1>3, UnknownImproves DEF rule_baseline_mapping_capability, SameFact

\* The rule on the limits on a single reservation, which are the same.
LEMMA ReservationGrantableImproves ==
  ASSUME NEW a \in AnalysisInput, NEW r, NEW s, Improves(s, r)
  PROVE  Improves(rule_reservation_grantable(BetterKnown(a), s),
                  rule_reservation_grantable(a, r))
<1> DEFINE b == BetterKnown(a)
           size == a.req.size
           wide(v) == /\ a.req.address # Absent
                      /\ is_known(v.max_single_reservation_hinted)
                      /\ a.req.address > v.max_single_reservation.value
                      /\ v.max_single_reservation_hinted.value > v.max_single_reservation.value
           fact(v) == IF wide(v) THEN v.max_single_reservation_hinted
                      ELSE v.max_single_reservation
           failed(v) == fact(v).value <= WordMax \div 2 /\ size > 2 * fact(v).value
           judged(x, q, v) ==
             IF ~is_known(v.max_single_reservation) THEN
               IF size <= LargestObserved THEN q
               ELSE emit(x, q, start(x, 27, Hypothesis, UnknownSupport, {UnknownEvidence}))
             ELSE IF size <= fact(v).value THEN satisfied(q, "grant", fact(v).evidence)
             ELSE emit(x, q, start(x, 26, IF failed(v) THEN Proven ELSE Hypothesis,
                                   IF failed(v) THEN Unsupported ELSE ConditionallySupported,
                                   {fact(v).evidence, SpecifiedGuarantee}))
<1>1. b.req.size = a.req.size /\ b.req.address = a.req.address
  BY SameRequest
<1>2. /\ rule_reservation_grantable(b, s) = judged(b, s, b.vm)
      /\ rule_reservation_grantable(a, r) = judged(a, r, a.vm)
  BY <1>1 DEF rule_reservation_grantable
<1>3. /\ SameFact(b.vm.max_single_reservation, a.vm.max_single_reservation)
      /\ SameFact(b.vm.max_single_reservation_hinted, a.vm.max_single_reservation_hinted)
  BY BetterHost
<1>4. SameFact(fact(b.vm), fact(a.vm))
  BY <1>3 DEF SameFact
<1>5. (is_known(b.vm.max_single_reservation) <=> is_known(a.vm.max_single_reservation))
        /\ (failed(b.vm) <=> failed(a.vm))
  BY <1>3, <1>4 DEF SameFact
<1>6. NoneWeaker({fact(b.vm).evidence, SpecifiedGuarantee}, {fact(a.vm).evidence, SpecifiedGuarantee})
  BY <1>4, SameClasses, Enumerators DEF SameFact
<1>7. fact(b.vm).value = fact(a.vm).value /\ NoWeaker(fact(b.vm).evidence, fact(a.vm).evidence)
  BY <1>4 DEF SameFact
<1> HIDE DEF fact, failed
<1>8. CASE ~is_known(a.vm.max_single_reservation)
  BY <1>2, <1>5, <1>8, SameClasses, ReportedImproves, Enumerators
<1>9. CASE is_known(a.vm.max_single_reservation) /\ size <= fact(a.vm).value
  <2>1. /\ rule_reservation_grantable(b, s) = satisfied(s, "grant", fact(b.vm).evidence)
        /\ rule_reservation_grantable(a, r) = satisfied(r, "grant", fact(a.vm).evidence)
    BY <1>2, <1>5, <1>7, <1>9
  <2> QED
    BY <1>7, <2>1, SatisfiedImproves DEF NoWeaker, Constraint
<1>10. CASE is_known(a.vm.max_single_reservation) /\ ~(size <= fact(a.vm).value)
  <2> DEFINE confidence == IF failed(a.vm) THEN Proven ELSE Hypothesis
             impact == IF failed(a.vm) THEN Unsupported ELSE ConditionallySupported
  <2>1. confidence \in Confidence /\ impact \in SupportLevel
    BY Enumerators
  <2>2. /\ rule_reservation_grantable(b, s) =
             emit(b, s, start(b, 26, confidence, impact,
                              {fact(b.vm).evidence, SpecifiedGuarantee}))
        /\ rule_reservation_grantable(a, r) =
             emit(a, r, start(a, 26, confidence, impact,
                              {fact(a.vm).evidence, SpecifiedGuarantee}))
    BY <1>2, <1>5, <1>7, <1>10
  <2> HIDE DEF confidence, impact
  <2> QED
    BY <1>6, <2>1, <2>2, ReportedImproves
<1> QED
  BY <1>8, <1>9, <1>10

\* The rule on the size against the ceilings, which are the same.
LEMMA SizeFeasibilityImproves ==
  ASSUME NEW a \in AnalysisInput, NEW r, NEW s, Improves(s, r)
  PROVE  Improves(rule_size_feasibility(BetterKnown(a), s), rule_size_feasibility(a, r))
<1> DEFINE b == BetterKnown(a)
           bottom(v) == IF is_known(v.min_map_address) THEN v.min_map_address.value ELSE 0
           open == a.req.size = 0 \/ ~is_known(a.vm.max_user_address)
                     \/ a.vm.max_user_address.value <= bottom(a.vm)
           fits == a.req.size <= a.vm.max_user_address.value - bottom(a.vm)
<1>1. b.req.size = a.req.size
  BY SameRequest
<1>2. /\ SameFact(b.vm.min_map_address, a.vm.min_map_address)
      /\ SameFact(b.vm.max_user_address, a.vm.max_user_address)
  BY BetterHost
<1>3. bottom(b.vm) = bottom(a.vm)
  BY <1>2 DEF SameFact
<1>4. /\ a.vm.max_user_address.value \in Nat /\ bottom(a.vm) \in Nat /\ a.req.size \in Nat
  <2>1. a.vm.max_user_address.value \in Word /\ a.vm.min_map_address.value \in Word
    BY HostTypes, FactType
  <2> QED
    BY <2>1, RequestTypes DEF Word
<1>5. NoneWeaker({b.vm.max_user_address.evidence, SpecifiedGuarantee},
                 {a.vm.max_user_address.evidence, SpecifiedGuarantee})
  BY <1>2, SameClasses, Enumerators DEF SameFact
<1>6. Improves(satisfied(s, "fits", b.vm.max_user_address.evidence),
               satisfied(r, "fits", a.vm.max_user_address.evidence))
  BY <1>2, SatisfiedImproves DEF SameFact, NoWeaker, Constraint
<1>7. CASE open
  <2>1. rule_size_feasibility(b, s) = s /\ rule_size_feasibility(a, r) = r
    BY <1>1, <1>2, <1>3, <1>4, <1>7 DEF rule_size_feasibility, SameFact
  <2> QED
    BY <2>1
<1>8. CASE ~open /\ fits
  <2>1. /\ rule_size_feasibility(b, s) =
             rule_reservation_grantable(b, satisfied(s, "fits", b.vm.max_user_address.evidence))
        /\ rule_size_feasibility(a, r) =
             rule_reservation_grantable(a, satisfied(r, "fits", a.vm.max_user_address.evidence))
    BY <1>1, <1>2, <1>3, <1>4, <1>8 DEF rule_size_feasibility, SameFact
  <2> QED
    BY <1>6, <2>1, ReservationGrantableImproves
<1>9. CASE ~open /\ ~fits
  <2>1. /\ rule_size_feasibility(b, s) =
             emit(b, s, Structural(start(b, 21, Proven, Unsupported,
                          {b.vm.max_user_address.evidence, SpecifiedGuarantee})))
        /\ rule_size_feasibility(a, r) =
             emit(a, r, Structural(start(a, 21, Proven, Unsupported,
                          {a.vm.max_user_address.evidence, SpecifiedGuarantee})))
    BY <1>1, <1>2, <1>3, <1>4, <1>9 DEF rule_size_feasibility, SameFact
  <2> QED
    BY <1>5, <2>1, ReportedImproves, Enumerators
<1> QED
  BY <1>7, <1>8, <1>9

\* The rule on the bounds of the request, which are the same.
LEMMA AddressBoundsImproves ==
  ASSUME NEW a \in AnalysisInput, NEW r, NEW s, Improves(s, r)
  PROVE  Improves(rule_address_bounds(BetterKnown(a), s), rule_address_bounds(a, r))
<1> DEFINE b == BetterKnown(a)
           top == a.vm.max_user_address
           floor == a.vm.min_map_address
           lower == IF a.req.address_min = Absent THEN 0 ELSE a.req.address_min
           upper == IF a.req.address_max = Absent THEN WordMax ELSE a.req.address_max
           free == a.req.address_min = Absent /\ a.req.address_max = Absent
           outside == a.req.address # Absent /\ (a.req.address < lower \/ a.req.address >= upper)
           tooLow == a.req.address_min # Absent /\ is_known(top) /\ top.value <= lower
           tooHigh == a.req.address_max # Absent /\ is_known(floor) /\ floor.value >= upper
           observed(v) == \E i \in DOMAIN v.available_ranges :
                            intersects(v.available_ranges[i], [start |-> lower, end |-> upper])
           comfortable == \/ a.req.address_max = Absent \/ ~is_known(top)
                          \/ top.value = 0 \/ upper > top.value \div 4
           Unsatisfiable(x, q, classes) ==
             emit(x, q, Structural(start(x, 23, Proven, Unsupported, classes)))
           Narrow(x, q, v) == emit(x, q, start(x, 25, Predictive, ConditionallySupported,
                                              {v.max_user_address.evidence, HeuristicRisk}))
           judged(x, q, v) ==
             IF free THEN q
             ELSE IF outside THEN Unsatisfiable(x, q, {SpecifiedGuarantee})
             ELSE IF tooLow THEN Unsatisfiable(x, q, {v.max_user_address.evidence})
             ELSE IF tooHigh THEN Unsatisfiable(x, q, {v.min_map_address.evidence})
             ELSE IF ~observed(a.vm) THEN FactUnknown(x, q)
             ELSE IF comfortable THEN q
             ELSE Narrow(x, q, v)
<1>1. /\ b.req.address = a.req.address /\ b.req.address_min = a.req.address_min
      /\ b.req.address_max = a.req.address_max
  BY SameRequest
<1>2. SameFact(b.vm.max_user_address, top) /\ SameFact(b.vm.min_map_address, floor)
  BY BetterHost
<1>3. observed(b.vm) <=> observed(a.vm)
  <2>1. a.vm.available_ranges \in Seq(ClassifiedRange)
          /\ b.vm.available_ranges = BetterRanges(a.vm.available_ranges)
    BY HostTypes, BetterHost
  <2> QED
    BY <2>1, BetterRangesType DEF intersects, empty
<1>4. /\ rule_address_bounds(b, s) = judged(b, s, b.vm)
      /\ rule_address_bounds(a, r) = judged(a, r, a.vm)
  <2>1. rule_address_bounds(a, r) = judged(a, r, a.vm)
    BY DEF rule_address_bounds
  <2>2. rule_address_bounds(b, s) = judged(b, s, b.vm)
    BY <1>1, <1>2, <1>3 DEF rule_address_bounds, SameFact
  <2> QED
    BY <2>1, <2>2
<1>5. /\ NoneWeaker({b.vm.max_user_address.evidence}, {top.evidence})
      /\ NoneWeaker({b.vm.min_map_address.evidence}, {floor.evidence})
      /\ NoneWeaker({b.vm.max_user_address.evidence, HeuristicRisk}, {top.evidence, HeuristicRisk})
      /\ NoneWeaker({SpecifiedGuarantee}, {SpecifiedGuarantee})
  BY <1>2, SameClasses, Enumerators DEF SameFact
<1>6. ASSUME NEW d, NEW c, NoneWeaker(d, c)
      PROVE  Improves(Unsatisfiable(b, s, d), Unsatisfiable(a, r, c))
  BY <1>6, ReportedImproves, Enumerators
<1>7. Improves(Narrow(b, s, b.vm), Narrow(a, r, a.vm))
  BY <1>5, ReportedImproves, Enumerators
<1>8. Improves(FactUnknown(b, s), FactUnknown(a, r))
  BY UnknownImproves
<1> HIDE DEF free, outside, tooLow, tooHigh, observed, comfortable, Unsatisfiable, Narrow
<1> QED
  BY <1>4, <1>5, <1>6, <1>7, <1>8

\* The rule on a displacement, of which both requests say the same.
LEMMA DisplacementConstraintImproves ==
  ASSUME NEW a \in AnalysisInput, NEW r, NEW s, Improves(s, r)
  PROVE  Improves(rule_displacement_constraint(BetterKnown(a), s),
                  rule_displacement_constraint(a, r))
<1>1. Improves(emit(BetterKnown(a), s, start(BetterKnown(a), 24, Hypothesis, UnknownSupport,
                                             {UnknownEvidence})),
               emit(a, r, start(a, 24, Hypothesis, UnknownSupport, {UnknownEvidence})))
  BY SameClasses, ReportedImproves, Enumerators
<1> QED
  BY <1>1, SameRequest DEF rule_displacement_constraint

\* The rule on the alignment against the granularity, which are the same.
LEMMA ReservationAlignmentImproves ==
  ASSUME NEW a \in AnalysisInput, NEW r, NEW s, Improves(s, r)
  PROVE  Improves(rule_reservation_alignment(BetterKnown(a), s), rule_reservation_alignment(a, r))
<1> DEFINE b == BetterKnown(a)
           Unpromised(x, q, v) ==
             emit(x, q, start(x, 22, Proven, ConditionallySupported,
                              {v.allocation_granularity.evidence, SpecifiedGuarantee}))
           judged(x, q, v) ==
             IF a.req.required_alignment = Absent \/ a.req.address # Absent THEN q
             ELSE IF ~is_power_of_two(a.req.required_alignment)
               THEN Limitation(q, "required_alignment")
             ELSE IF \/ ~is_known(a.vm.allocation_granularity)
                     \/ a.req.required_alignment <= a.vm.allocation_granularity.value THEN q
             ELSE Unpromised(x, q, v)
<1>1. b.req.address = a.req.address /\ b.req.required_alignment = a.req.required_alignment
  BY SameRequest
<1>2. SameFact(b.vm.allocation_granularity, a.vm.allocation_granularity)
  BY BetterHost
<1>3. rule_reservation_alignment(a, r) = judged(a, r, a.vm)
  BY DEF rule_reservation_alignment
<1>4. rule_reservation_alignment(b, s) = judged(b, s, b.vm)
  BY <1>1, <1>2 DEF rule_reservation_alignment, SameFact
<1>5. NoneWeaker({b.vm.allocation_granularity.evidence, SpecifiedGuarantee},
                 {a.vm.allocation_granularity.evidence, SpecifiedGuarantee})
  BY <1>2, SameClasses, Enumerators DEF SameFact
<1>6. Improves(Unpromised(b, s, b.vm), Unpromised(a, r, a.vm))
  BY <1>5, ReportedImproves, Enumerators
<1>7. Improves(Limitation(s, "required_alignment"), Limitation(r, "required_alignment"))
  BY LimitationImproves DEF LimitationText
<1> HIDE DEF Unpromised
<1> QED
  BY <1>3, <1>4, <1>6, <1>7

\* The rule on the page size, known to both or to neither.
LEMMA PageSizeImproves ==
  ASSUME NEW a \in AnalysisInput, NEW r, NEW s, Improves(s, r)
  PROVE  Improves(rule_page_size(BetterKnown(a), s), rule_page_size(a, r))
<1> DEFINE b == BetterKnown(a)
           required == a.req.required_page_size
           page == a.vm.page_size
           holds == CASE a.req.page_size_relation = "equal" -> page.value = required
                      [] a.req.page_size_relation = "at_most" -> page.value <= required
                      [] a.req.page_size_relation = "at_least" -> page.value >= required
           Wrong(x, q, v) ==
             emit(x, q, Structural(start(x, 6, Proven, Unsupported, {v.page_size.evidence})))
           judged(x, q, v) ==
             IF required = Absent THEN q
             ELSE IF ~is_known(page) THEN IF a.report_unknowns THEN FactUnknown(x, q) ELSE q
             ELSE IF holds THEN satisfied(q, "page_size", v.page_size.evidence)
             ELSE Wrong(x, q, v)
<1>1. /\ b.req.required_page_size = required
      /\ b.req.page_size_relation = a.req.page_size_relation
      /\ b.report_unknowns = a.report_unknowns
  BY SameRequest, BetterInput
<1>2. SameFact(b.vm.page_size, page)
  BY BetterHost
<1>3. rule_page_size(a, r) = judged(a, r, a.vm)
  BY DEF rule_page_size
<1>4. rule_page_size(b, s) = judged(b, s, b.vm)
  BY <1>1, <1>2 DEF rule_page_size, SameFact
<1>5. Improves(Wrong(b, s, b.vm), Wrong(a, r, a.vm))
  <2>1. NoneWeaker({b.vm.page_size.evidence}, {page.evidence})
    BY <1>2, SameClasses DEF SameFact
  <2> QED
    BY <2>1, ReportedImproves, Enumerators
<1>6. Improves(satisfied(s, "page_size", b.vm.page_size.evidence),
               satisfied(r, "page_size", page.evidence))
  BY <1>2, SatisfiedImproves DEF SameFact, NoWeaker, Constraint
<1>7. Improves(FactUnknown(b, s), FactUnknown(a, r))
  BY UnknownImproves
<1> HIDE DEF Wrong, holds
<1> QED
  BY <1>3, <1>4, <1>5, <1>6, <1>7

\* The rule on the address against the granularity and the alignment.
LEMMA AddressAlignmentImproves ==
  ASSUME NEW a \in AnalysisInput, NEW r, NEW s, Improves(s, r)
  PROVE  Improves(rule_address_alignment(BetterKnown(a), s), rule_address_alignment(a, r))
<1> DEFINE b == BetterKnown(a)
           req == a.req
           declared == req.required_alignment # Absent
           odd == declared /\ ~is_power_of_two(req.required_alignment)
           checked(q) == IF odd THEN Limitation(q, "required_alignment") ELSE q
           own == declared /\ ~odd /\ ~is_aligned(req.address, req.required_alignment)
           suits == \/ ~req.exact_address_required \/ ~is_known(a.vm.allocation_granularity)
                    \/ is_aligned(req.address, a.vm.allocation_granularity.value)
           Own(x, q) == emit(x, q, start(x, 4, Proven, Unsupported, {SpecifiedGuarantee}))
           Hosts(x, q, v) ==
             emit(x, q, Structural(start(x, 4, Proven, Unsupported,
                          {v.allocation_granularity.evidence, SpecifiedGuarantee})))
           judged(x, q, v) ==
             IF req.address = Absent THEN q
             ELSE IF own THEN Own(x, q)
             ELSE IF suits THEN checked(q)
             ELSE Hosts(x, checked(q), v)
<1>1. /\ b.req.address = req.address /\ b.req.required_alignment = req.required_alignment
      /\ b.req.exact_address_required = req.exact_address_required
  BY SameRequest
<1>2. SameFact(b.vm.allocation_granularity, a.vm.allocation_granularity)
  BY BetterHost
<1>3. rule_address_alignment(a, r) = judged(a, r, a.vm)
  BY DEF rule_address_alignment
<1>4. rule_address_alignment(b, s) = judged(b, s, b.vm)
  BY <1>1, <1>2 DEF rule_address_alignment, SameFact
<1>5. Improves(checked(s), checked(r))
  BY LimitationImproves DEF LimitationText
<1>6. Improves(Own(b, s), Own(a, r))
  BY SameClasses, ReportedImproves, Enumerators
<1> HIDE DEF checked
<1>7. Improves(Hosts(b, checked(s), b.vm), Hosts(a, checked(r), a.vm))
  <2>1. NoneWeaker({b.vm.allocation_granularity.evidence, SpecifiedGuarantee},
                   {a.vm.allocation_granularity.evidence, SpecifiedGuarantee})
    BY <1>2, SameClasses, Enumerators DEF SameFact
  <2> QED
    BY <1>5, <2>1, ReportedImproves, Enumerators
<1> HIDE DEF own, suits, Own, Hosts
<1> QED
  BY <1>3, <1>4, <1>5, <1>6, <1>7

\* The rule on the size against the granularity.
LEMMA SizeGranularityImproves ==
  ASSUME NEW a \in AnalysisInput, NEW r, NEW s, Improves(s, r)
  PROVE  Improves(rule_size_granularity(BetterKnown(a), s), rule_size_granularity(a, r))
<1> DEFINE b == BetterKnown(a)
           granularity == a.vm.allocation_granularity
           rounds == /\ is_known(granularity) /\ is_power_of_two(granularity.value)
                     /\ ~is_aligned(a.req.size, granularity.value)
                     /\ a.req.size <= WordMax - (granularity.value - 1)
           relies == a.req.relies_on_unmapped_beyond_size
           impact == IF relies THEN Unsupported ELSE Supported
           severity == IF relies THEN High ELSE Info
           begun(x, v) == start(x, 5, Proven, impact, {v.allocation_granularity.evidence})
           found(x, v) == [begun(x, v) EXCEPT !.severity = severity]
           judged(x, q, v) == IF ~rounds THEN q ELSE emit(x, q, found(x, v))
<1>1. /\ b.req.size = a.req.size /\ b.req.relies_on_unmapped_beyond_size = relies
  BY SameRequest
<1>2. SameFact(b.vm.allocation_granularity, granularity)
  BY BetterHost
<1>3. rule_size_granularity(a, r) = judged(a, r, a.vm)
  BY DEF rule_size_granularity
<1>4. rule_size_granularity(b, s) = judged(b, s, b.vm)
  BY <1>1, <1>2 DEF rule_size_granularity, SameFact
<1>5. NoneWeaker({b.vm.allocation_granularity.evidence}, {granularity.evidence})
  BY <1>2, SameClasses DEF SameFact
<1>6. impact \in SupportLevel /\ severity \in Severity
  BY Enumerators DEF High, Info, Severity
<1> HIDE DEF impact, severity
<1>7. SameFinding(begun(b, b.vm), begun(a, a.vm))
  BY <1>5, <1>6, ReportedImproves, Enumerators
<1>8. begun(b, b.vm) \in Finding /\ begun(a, a.vm) \in Finding
  BY <1>5, <1>6, BetterInput, Started, Enumerators DEF NoneWeaker
<1> HIDE DEF begun
<1>9. /\ found(b, b.vm) \in Finding /\ found(a, a.vm) \in Finding
      /\ SameFinding(found(b, b.vm), found(a, a.vm))
  BY <1>6, <1>7, <1>8 DEF SameFinding, Finding
<1> HIDE DEF found
<1>10. Improves(emit(b, s, found(b, b.vm)), emit(a, r, found(a, a.vm)))
  BY <1>9, BetterInput, EmitImproves
<1> HIDE DEF rounds
<1> QED
  BY <1>3, <1>4, <1>10

\* The rule on the place in the profile, where both find the same answer first.
LEMMA RangeAvailabilityImproves ==
  ASSUME NEW a \in AnalysisInput, NEW r, NEW s, Improves(s, r)
  PROVE  Improves(rule_range_availability(BetterKnown(a), s), rule_range_availability(a, r))
<1> DEFINE b == BetterKnown(a)
           req == a.req
           hint == ~req.exact_address_required /\ ~req.identity_required
           range == CHOOSE g \in RequestRange(req) : TRUE
           verdict(v) == query_range(v, range)
           level == verdict(a.vm).level
           below == is_known(a.vm.min_map_address) /\ range.start < a.vm.min_map_address.value
           above == is_known(a.vm.max_user_address) /\ range.end > a.vm.max_user_address.value
           obstacle == IF below THEN 2 ELSE IF above THEN 3 ELSE 1
           Relocated(x, q, v) == emit(x, q, start(x, 20, Proven, Supported, {verdict(v).evidence}))
           Unavailable(x, q, v) ==
             emit(x, q, Structural(start(x, obstacle, Proven, Unsupported, {verdict(v).evidence})))
           Nowhere(x, q) ==
             emit(x, q, Structural(start(x, 3, Proven, Unsupported, {SpecifiedGuarantee})))
           judge(x, q, v) ==
             CASE hint /\ level # Unsupported -> q
               [] hint /\ level = Unsupported -> Relocated(x, q, v)
               [] ~hint /\ level = Supported -> satisfied(q, "placement", verdict(v).evidence)
               [] ~hint /\ level = UnknownSupport -> FactUnknown(x, q)
               [] ~hint /\ level = Unsupported -> Unavailable(x, q, v)
           judged(x, q, v) ==
             IF req.address = Absent THEN q
             ELSE IF RequestRange(req) # {} THEN judge(x, q, v)
             ELSE IF hint THEN q
             ELSE Nowhere(x, q)
<1>1. /\ b.req.address = req.address /\ b.req.size = req.size
      /\ b.req.exact_address_required = req.exact_address_required
      /\ b.req.identity_required = req.identity_required
  BY SameRequest
<1>2. RequestRange(b.req) = RequestRange(req)
  BY <1>1 DEF RequestRange
<1>3. /\ SameFact(b.vm.min_map_address, a.vm.min_map_address)
      /\ SameFact(b.vm.max_user_address, a.vm.max_user_address)
  BY BetterHost
<1>4. verdict(b.vm).level = level /\ NoWeaker(verdict(b.vm).evidence, verdict(a.vm).evidence)
  BY QueryImproves
<1>5. rule_range_availability(a, r) = judged(a, r, a.vm)
  BY DEF rule_range_availability
<1>6. rule_range_availability(b, s) = judged(b, s, b.vm)
  <2> DEFINE low == is_known(b.vm.min_map_address)
                      /\ range.start < b.vm.min_map_address.value
             high == is_known(b.vm.max_user_address)
                      /\ range.end > b.vm.max_user_address.value
             hinted == ~b.req.exact_address_required /\ ~b.req.identity_required
             own == verdict(b.vm).level
             Taken == emit(b, s, Structural(start(b, IF low THEN 2 ELSE IF high THEN 3 ELSE 1,
                                                  Proven, Unsupported, {verdict(b.vm).evidence})))
             judgement == CASE hinted /\ own # Unsupported -> s
               [] hinted /\ own = Unsupported -> Relocated(b, s, b.vm)
               [] ~hinted /\ own = Supported -> satisfied(s, "placement", verdict(b.vm).evidence)
               [] ~hinted /\ own = UnknownSupport -> FactUnknown(b, s)
               [] ~hinted /\ own = Unsupported -> Taken
  <2>1. rule_range_availability(b, s) =
          IF b.req.address = Absent THEN s
          ELSE IF RequestRange(b.req) # {} THEN judgement
          ELSE IF hinted THEN s
          ELSE Nowhere(b, s)
    BY <1>2 DEF rule_range_availability
  <2>2. (low <=> below) /\ (high <=> above) /\ (hinted <=> hint) /\ own = level
    BY <1>1, <1>3, <1>4 DEF SameFact
  <2>3. Taken = Unavailable(b, s, b.vm)
    BY <2>2
  <2> HIDE DEF low, high, below, above, hinted, hint, own, level, verdict, Taken, Unavailable,
               Relocated, Nowhere, range
  <2>4. judgement = judge(b, s, b.vm)
    BY <2>2, <2>3
  <2> HIDE DEF judgement, judge
  <2> QED
    BY <1>1, <1>2, <2>1, <2>2, <2>4
<1>7. NoneWeaker({verdict(b.vm).evidence}, {verdict(a.vm).evidence})
  BY <1>4, SameClasses
<1>8. level \in {Supported, UnknownSupport, Unsupported} /\ obstacle \in 1 .. 27
  BY VerdictType
<1>9. Improves(satisfied(s, "placement", verdict(b.vm).evidence),
               satisfied(r, "placement", verdict(a.vm).evidence))
  BY <1>4, SatisfiedImproves DEF NoWeaker, Constraint
<1> HIDE DEF verdict, level, obstacle
<1>10. Improves(Relocated(b, s, b.vm), Relocated(a, r, a.vm))
  BY <1>7, ReportedImproves, Enumerators
<1>11. Improves(Unavailable(b, s, b.vm), Unavailable(a, r, a.vm))
  BY <1>7, <1>8, ReportedImproves, Enumerators
<1>12. Improves(Nowhere(b, s), Nowhere(a, r))
  BY SameClasses, ReportedImproves, Enumerators
<1>13. Improves(FactUnknown(b, s), FactUnknown(a, r))
  BY UnknownImproves
<1> HIDE DEF Relocated, Unavailable, Nowhere, hint
<1>14. Improves(judge(b, s, b.vm), judge(a, r, a.vm))
  BY <1>8, <1>9, <1>10, <1>11, <1>13
<1> HIDE DEF judge
<1> QED
  BY <1>5, <1>6, <1>12, <1>14

\* The rule on exact placement, known to both or to neither.
LEMMA ExactMappingCapabilityImproves ==
  ASSUME NEW a \in AnalysisInput, NEW r, NEW s, Improves(s, r)
  PROVE  Improves(rule_exact_mapping_capability(BetterKnown(a), s),
                  rule_exact_mapping_capability(a, r))
<1> DEFINE g == BetterKnown(a).vm.exact_mapping
           f == a.vm.exact_mapping
<1>1. /\ SameFact(g, f)
      /\ BetterKnown(a).req.exact_address_required = a.req.exact_address_required
  BY BetterHost, SameRequest
<1>2. NoneWeaker({g.evidence}, {f.evidence})
  BY <1>1, SameClasses DEF SameFact
<1>3. Improves(emit(BetterKnown(a), s, Structural(start(BetterKnown(a), 1, Proven, Unsupported,
                                                         {g.evidence}))),
               emit(a, r, Structural(start(a, 1, Proven, Unsupported, {f.evidence}))))
  BY <1>2, ReportedImproves, Enumerators
<1> QED
  BY <1>1, <1>3 DEF rule_exact_mapping_capability, SameFact

\* The rule on placement that replaces nothing, known to both or to neither.
LEMMA NonDestructiveExactMappingImproves ==
  ASSUME NEW a \in AnalysisInput, NEW r, NEW s, Improves(s, r)
  PROVE  Improves(rule_non_destructive_exact_mapping(BetterKnown(a), s),
                  rule_non_destructive_exact_mapping(a, r))
<1> DEFINE g == BetterKnown(a).vm.fixed_noreplace_available
           f == a.vm.fixed_noreplace_available
<1>1. /\ SameFact(g, f)
      /\ BetterKnown(a).req.exact_address_required = a.req.exact_address_required
  BY BetterHost, SameRequest
<1>2. NoneWeaker({g.evidence}, {f.evidence})
  BY <1>1, SameClasses DEF SameFact
<1>3. Improves(emit(BetterKnown(a), s, start(BetterKnown(a), 16, Proven,
                                             ConditionallySupported, {g.evidence})),
               emit(a, r, start(a, 16, Proven, ConditionallySupported, {f.evidence})))
  BY <1>2, ReportedImproves, Enumerators
<1> QED
  BY <1>1, <1>3 DEF rule_non_destructive_exact_mapping, SameFact

\* The rule on the hint, followed or not in both.
LEMMA HintedRelocationImproves ==
  ASSUME NEW a \in AnalysisInput, NEW r, NEW s, Improves(s, r)
  PROVE  Improves(rule_hinted_relocation(BetterKnown(a), s), rule_hinted_relocation(a, r))
<1> DEFINE g == BetterKnown(a).vm.hinted_mapping_may_relocate
           f == a.vm.hinted_mapping_may_relocate
<1>1. /\ SameFact(g, f)
      /\ BetterKnown(a).req.exact_address_required = a.req.exact_address_required
      /\ BetterKnown(a).req.address = a.req.address
      /\ BetterKnown(a).req.identity_required = a.req.identity_required
  BY BetterHost, SameRequest
<1>2. NoneWeaker({g.evidence, BoundedCounterexample}, {f.evidence, BoundedCounterexample})
  BY <1>1, SameClasses, Enumerators DEF SameFact
<1>3. Improves(emit(BetterKnown(a), s, start(BetterKnown(a), 7, Counterexample, Unsupported,
                                             {g.evidence, BoundedCounterexample})),
               emit(a, r, start(a, 7, Counterexample, Unsupported,
                                {f.evidence, BoundedCounterexample})))
  BY <1>2, ReportedImproves, Enumerators
<1> QED
  BY <1>1, <1>3 DEF rule_hinted_relocation, SameFact

\* The rule on the identity of addresses, asked for by both requests.
LEMMA IdentityWithoutTranslationImproves ==
  ASSUME NEW a \in AnalysisInput, NEW r, NEW s, Improves(s, r)
  PROVE  Improves(rule_identity_without_translation(BetterKnown(a), s),
                  rule_identity_without_translation(a, r))
<1>1. /\ BetterKnown(a).req.exact_address_required = a.req.exact_address_required
      /\ BetterKnown(a).req.translation_available = a.req.translation_available
      /\ BetterKnown(a).req.identity_required = a.req.identity_required
  BY SameRequest
<1>2. /\ established_impossibility(s) <=> established_impossibility(r)
      /\ already_emitted(s, 7) <=> already_emitted(r, 7)
  BY SameHistory
<1>3. Improves(emit(BetterKnown(a), s, start(BetterKnown(a), 8, Hypothesis,
                                             ConditionallySupported, {HeuristicRisk})),
               emit(a, r, start(a, 8, Hypothesis, ConditionallySupported, {HeuristicRisk})))
  BY SameClasses, ReportedImproves, Enumerators
<1> QED
  BY <1>1, <1>2, <1>3 DEF rule_identity_without_translation

\* The rule on writable and executable memory, known to both or to neither.
LEMMA WriteExecuteImproves ==
  ASSUME NEW a \in AnalysisInput, NEW r, NEW s, Improves(s, r)
  PROVE  Improves(rule_write_execute(BetterKnown(a), s), rule_write_execute(a, r))
<1> DEFINE b == BetterKnown(a)
           both == a.req.simultaneous_write_execute \/ (a.req.write /\ a.req.execute)
           simultaneous == a.vm.write_execute_simultaneous
           flip == a.vm.write_then_execute_transition
           flipAvailable == is_known(flip) /\ flip.value
           behind(v) == {v.write_execute_simultaneous.evidence}
                          \cup (IF flipAvailable THEN {v.write_then_execute_transition.evidence}
                                ELSE {})
           NoFlip(x, q, v) == emit(x, q, start(x, 9, Proven, Unsupported,
                                               {v.write_then_execute_transition.evidence}))
           NotBoth(x, q, v) == emit(x, q, Structural(start(x, 9, Proven, Unsupported, behind(v))))
           judged(x, q, v) ==
             CASE ~both -> IF a.req.write_then_execute /\ is_known(flip) /\ ~flip.value
                             THEN NoFlip(x, q, v) ELSE q
               [] both /\ ~is_known(simultaneous) -> q
               [] both /\ is_known(simultaneous) ->
                    IF simultaneous.value
                      THEN satisfied(q, "write_execute", v.write_execute_simultaneous.evidence)
                      ELSE NotBoth(x, q, v)
<1>1. /\ b.req.simultaneous_write_execute = a.req.simultaneous_write_execute
      /\ b.req.write = a.req.write /\ b.req.execute = a.req.execute
      /\ b.req.write_then_execute = a.req.write_then_execute
  BY SameRequest
<1>2. /\ SameFact(b.vm.write_execute_simultaneous, simultaneous)
      /\ SameFact(b.vm.write_then_execute_transition, flip)
  BY BetterHost
<1>3. rule_write_execute(a, r) = judged(a, r, a.vm)
  BY DEF rule_write_execute
<1>4. rule_write_execute(b, s) = judged(b, s, b.vm)
  BY <1>1, <1>2 DEF rule_write_execute, SameFact
<1>5. NoneWeaker(behind(b.vm), behind(a.vm))
  BY <1>2 DEF SameFact, NoWeaker, NoneWeaker
<1> HIDE DEF behind
<1>6. Improves(NotBoth(b, s, b.vm), NotBoth(a, r, a.vm))
  BY <1>5, ReportedImproves, Enumerators
<1>7. Improves(NoFlip(b, s, b.vm), NoFlip(a, r, a.vm))
  <2>1. NoneWeaker({b.vm.write_then_execute_transition.evidence}, {flip.evidence})
    BY <1>2, SameClasses DEF SameFact
  <2> QED
    BY <2>1, ReportedImproves, Enumerators
<1>8. Improves(satisfied(s, "write_execute", b.vm.write_execute_simultaneous.evidence),
               satisfied(r, "write_execute", simultaneous.evidence))
  BY <1>2, SatisfiedImproves DEF SameFact, NoWeaker, Constraint
<1> HIDE DEF NotBoth, NoFlip, both
<1> QED
  BY <1>3, <1>4, <1>6, <1>7, <1>8

\* The rule on executable memory, known to both or to neither.
LEMMA ExecutableMappingImproves ==
  ASSUME NEW a \in AnalysisInput, NEW r, NEW s, Improves(s, r)
  PROVE  Improves(rule_executable_mapping(BetterKnown(a), s), rule_executable_mapping(a, r))
<1> DEFINE b == BetterKnown(a)
           executable == a.vm.anonymous_executable_mapping
           Refusal(x, q, v) ==
             emit(x, q, Structural(start(x, 10, Proven, Unsupported,
                                         {v.anonymous_executable_mapping.evidence})))
           judged(x, q, v) ==
             IF ~RunsCode(a.req) \/ a.req.file_backed \/ ~is_known(executable) THEN q
             ELSE IF executable.value
               THEN satisfied(q, "executable", v.anonymous_executable_mapping.evidence)
             ELSE Refusal(x, q, v)
<1>1. /\ RunsCode(b.req) <=> RunsCode(a.req)
      /\ b.req.file_backed = a.req.file_backed
  BY SameRequest DEF RunsCode
<1>2. SameFact(b.vm.anonymous_executable_mapping, executable)
  BY BetterHost
<1>3. rule_executable_mapping(a, r) = judged(a, r, a.vm)
  BY DEF rule_executable_mapping
<1>4. rule_executable_mapping(b, s) = judged(b, s, b.vm)
  BY <1>1, <1>2 DEF rule_executable_mapping, SameFact
<1>5. NoneWeaker({b.vm.anonymous_executable_mapping.evidence}, {executable.evidence})
  BY <1>2, SameClasses DEF SameFact
<1>6. Improves(Refusal(b, s, b.vm), Refusal(a, r, a.vm))
  BY <1>5, ReportedImproves, Enumerators
<1>7. Improves(satisfied(s, "executable", b.vm.anonymous_executable_mapping.evidence),
               satisfied(r, "executable", executable.evidence))
  BY <1>2, SatisfiedImproves DEF SameFact, NoWeaker, Constraint
<1> HIDE DEF Refusal
<1> QED
  BY <1>3, <1>4, <1>6, <1>7

\* The rule on the entitlement, needed in both or in neither.
LEMMA JitEntitlementImproves ==
  ASSUME NEW a \in AnalysisInput, NEW r, NEW s, Improves(s, r)
  PROVE  Improves(rule_jit_entitlement(BetterKnown(a), s), rule_jit_entitlement(a, r))
<1> DEFINE b == BetterKnown(a)
           entitlement == a.vm.jit_entitlement_required
           Required(x, q, v) ==
             emit(x, q, start(x, 11, Proven, ConditionallySupported,
                              {v.jit_entitlement_required.evidence}))
           judged(x, q, v) ==
             IF ~RunsCode(a.req) \/ ~is_known(entitlement) THEN q
             ELSE IF entitlement.value THEN Required(x, q, v)
             ELSE satisfied(q, "entitlement", v.jit_entitlement_required.evidence)
<1>1. RunsCode(b.req) <=> RunsCode(a.req)
  BY SameRequest DEF RunsCode
<1>2. SameFact(b.vm.jit_entitlement_required, entitlement)
  BY BetterHost
<1>3. rule_jit_entitlement(a, r) = judged(a, r, a.vm)
  BY DEF rule_jit_entitlement
<1>4. rule_jit_entitlement(b, s) = judged(b, s, b.vm)
  BY <1>1, <1>2 DEF rule_jit_entitlement, SameFact
<1>5. NoneWeaker({b.vm.jit_entitlement_required.evidence}, {entitlement.evidence})
  BY <1>2, SameClasses DEF SameFact
<1>6. Improves(Required(b, s, b.vm), Required(a, r, a.vm))
  BY <1>5, ReportedImproves, Enumerators
<1>7. Improves(satisfied(s, "entitlement", b.vm.jit_entitlement_required.evidence),
               satisfied(r, "entitlement", entitlement.evidence))
  BY <1>2, SatisfiedImproves DEF SameFact, NoWeaker, Constraint
<1> HIDE DEF Required
<1> QED
  BY <1>3, <1>4, <1>6, <1>7

\* The rule on the commit model, the same in both.
LEMMA ReserveCommitImproves ==
  ASSUME NEW a \in AnalysisInput, NEW r, NEW s, Improves(s, r)
  PROVE  Improves(rule_reserve_commit(BetterKnown(a), s), rule_reserve_commit(a, r))
<1> DEFINE g == BetterKnown(a).vm.reserve_commit_model
           f == a.vm.reserve_commit_model
<1>1. /\ SameFact(g, f)
      /\ BetterKnown(a).req.reserve_then_commit = a.req.reserve_then_commit
      /\ BetterKnown(a).req.commit_is_checked_call = a.req.commit_is_checked_call
  BY BetterHost, SameRequest
<1>2. NoneWeaker({g.evidence}, {f.evidence})
  BY <1>1, SameClasses DEF SameFact
<1>3. Improves(emit(BetterKnown(a), s, start(BetterKnown(a), 12, Proven,
                                             ConditionallySupported, {g.evidence})),
               emit(a, r, start(a, 12, Proven, ConditionallySupported, {f.evidence})))
  BY <1>2, ReportedImproves, Enumerators
<1> QED
  BY <1>1, <1>3 DEF rule_reserve_commit, SameFact

\* The rule on the width of a pointer against the place, which are the same.
LEMMA PointerTruncationImproves ==
  ASSUME NEW a \in AnalysisInput, NEW r, NEW s, Improves(s, r)
  PROVE  Improves(rule_pointer_truncation(BetterKnown(a), s), rule_pointer_truncation(a, r))
<1> DEFINE b == BetterKnown(a)
           req == a.req
           width == IF req.pointer_width # Absent THEN req.pointer_width
                    ELSE a.vm.process_pointer_width
           class(x) == IF req.pointer_width # Absent THEN x.req.assumption_evidence
                       ELSE SpecifiedGuarantee
           highest == {range.end : range \in RequestRange(req)}
                        \cup (IF RequestRange(req) = {} /\ is_known(a.vm.max_user_address)
                                THEN {a.vm.max_user_address.value} ELSE {})
           rejects == req.validates_returned_address \/ req.relocate \/ req.retries_on_failure
           impact == IF rejects THEN ConditionallySupported ELSE Unsupported
           narrow == width = 0 \/ width >= WordBits
           suits == narrow \/ \A address \in highest : address <= 2 ^ width
           found(x) == start(x, 13, Proven, impact, {class(x), SpecifiedGuarantee})
           judged(x, q) ==
             IF suits THEN q ELSE emit(x, q, IF rejects THEN found(x) ELSE Structural(found(x)))
<1>1. /\ b.req.pointer_width = req.pointer_width
      /\ b.req.address = req.address /\ b.req.size = req.size
      /\ b.req.validates_returned_address = req.validates_returned_address
      /\ b.req.relocate = req.relocate /\ b.req.retries_on_failure = req.retries_on_failure
  BY SameRequest
<1>2. /\ RequestRange(b.req) = RequestRange(req)
      /\ b.vm.process_pointer_width = a.vm.process_pointer_width
      /\ SameFact(b.vm.max_user_address, a.vm.max_user_address)
  BY <1>1, BetterHost DEF RequestRange
<1>3. rule_pointer_truncation(a, r) = judged(a, r)
  BY DEF rule_pointer_truncation
<1>4. rule_pointer_truncation(b, s) = judged(b, s)
  BY <1>1, <1>2 DEF rule_pointer_truncation, SameFact
<1>5. NoneWeaker({class(b), SpecifiedGuarantee}, {class(a), SpecifiedGuarantee})
  <2>1. NoWeaker(class(b), class(a))
    <3>1. NoWeaker(b.req.assumption_evidence, a.req.assumption_evidence)
      BY BetterRequest
    <3>2. NoWeaker(SpecifiedGuarantee, SpecifiedGuarantee)
      BY DEF NoWeaker, SpecifiedGuarantee, EvidenceClass
    <3> HIDE DEF b
    <3> QED
      BY <3>1, <3>2
  <2> QED
    BY <2>1, SameClasses, Enumerators
<1>6. impact \in SupportLevel
  BY Enumerators
<1> HIDE DEF class, impact
<1>7. /\ Improves(emit(b, s, found(b)), emit(a, r, found(a)))
      /\ Improves(emit(b, s, Structural(found(b))), emit(a, r, Structural(found(a))))
  BY <1>5, <1>6, ReportedImproves, Enumerators
<1> HIDE DEF found, suits, rejects
<1> QED
  BY <1>3, <1>4, <1>7

\* The rule on the end of the file against the pages read, which are the same.
LEMMA FileMappingBeyondEofImproves ==
  ASSUME NEW a \in AnalysisInput, NEW r, NEW s, Improves(s, r)
  PROVE  Improves(rule_file_mapping_beyond_eof(BetterKnown(a), s),
                  rule_file_mapping_beyond_eof(a, r))
<1> DEFINE b == BetterKnown(a)
           req == a.req
           beyond == a.vm.file_map_beyond_eof
           page == IF is_known(a.vm.page_size) THEN a.vm.page_size.value ELSE 0
           partial_page == /\ req.within_final_page
                           /\ page > 0 /\ req.file_length % page # 0
           impact == IF beyond.value = "zero_fill" THEN ConditionallySupported ELSE Unsupported
           Beyond(x, q, v) ==
             emit(x, q, start(x, 18, Proven, impact, {v.file_map_beyond_eof.evidence}))
           judged(x, q, v) ==
             IF ~req.file_backed \/ req.file_length = Absent THEN q
             ELSE IF MappingEnd(req) <= req.file_length THEN q
             ELSE IF ~is_known(beyond) THEN FactUnknown(x, q)
             ELSE IF ~req.accesses_beyond_eof THEN q
             ELSE IF partial_page THEN satisfied(q, "final_page", SpecifiedGuarantee)
             ELSE Beyond(x, q, v)
<1>1. /\ b.req.file_backed = req.file_backed /\ b.req.file_length = req.file_length
      /\ b.req.accesses_beyond_eof = req.accesses_beyond_eof
      /\ b.req.within_final_page = req.within_final_page
      /\ MappingEnd(b.req) = MappingEnd(req)
  BY SameRequest DEF MappingEnd
<1>2. /\ SameFact(b.vm.file_map_beyond_eof, beyond)
      /\ SameFact(b.vm.page_size, a.vm.page_size)
  BY BetterHost
<1>3. rule_file_mapping_beyond_eof(a, r) = judged(a, r, a.vm)
  BY DEF rule_file_mapping_beyond_eof
<1>4. rule_file_mapping_beyond_eof(b, s) = judged(b, s, b.vm)
  BY <1>1, <1>2 DEF rule_file_mapping_beyond_eof, SameFact
<1>5. NoneWeaker({b.vm.file_map_beyond_eof.evidence}, {beyond.evidence})
  BY <1>2, SameClasses DEF SameFact
<1>6. impact \in SupportLevel
  BY Enumerators
<1> HIDE DEF impact
<1>7. Improves(Beyond(b, s, b.vm), Beyond(a, r, a.vm))
  BY <1>5, <1>6, ReportedImproves, Enumerators
<1>8. Improves(satisfied(s, "final_page", SpecifiedGuarantee),
               satisfied(r, "final_page", SpecifiedGuarantee))
  BY SatisfiedImproves, Enumerators DEF Constraint
<1>9. Improves(FactUnknown(b, s), FactUnknown(a, r))
  BY UnknownImproves
<1> HIDE DEF Beyond, partial_page
<1> QED
  BY <1>3, <1>4, <1>7, <1>8, <1>9

\* The evidence the last rule inherits from the findings before it improves
\* with them.
LEMMA RetryOfPermanentErrorImproves ==
  ASSUME NEW a \in AnalysisInput, NEW r, NEW s, Improves(s, r)
  PROVE  Improves(rule_retry_of_permanent_error(BetterKnown(a), s),
                  rule_retry_of_permanent_error(a, r))
<1> DEFINE b == BetterKnown(a)
           Retried(x, q) ==
             emit(x, q, start(x, 15, Proven, Unsupported, {proven_unsupported_evidence(q)}))
<1>1. b.req.retries_on_failure = a.req.retries_on_failure
  BY SameRequest
<1>2. established_impossibility(s) <=> established_impossibility(r)
  BY SameHistory
<1>3. ASSUME established_impossibility(r)
      PROVE  Improves(Retried(b, s), Retried(a, r))
  <2>1. NoneWeaker({proven_unsupported_evidence(s)}, {proven_unsupported_evidence(r)})
    BY <1>3, SameHistory, SameClasses
  <2> QED
    BY <2>1, ReportedImproves, Enumerators
<1>4. /\ rule_retry_of_permanent_error(a, r) =
           IF a.req.retries_on_failure /\ established_impossibility(r) THEN Retried(a, r) ELSE r
      /\ rule_retry_of_permanent_error(b, s) =
           IF b.req.retries_on_failure /\ established_impossibility(s) THEN Retried(b, s) ELSE s
  BY DEF rule_retry_of_permanent_error
<1> HIDE DEF Retried
<1> QED
  BY <1>1, <1>2, <1>3, <1>4

\* Every rule keeps two results side by side.
LEMMA RuleImproves ==
  ASSUME NEW a \in AnalysisInput, NEW k \in 1 .. Rules, NEW r, NEW s, Improves(s, r)
  PROVE  Improves(rule(k, BetterKnown(a), s), rule(k, a, r))
<1> DEFINE b == BetterKnown(a)
<1> HIDE DEF b
<1>1. k \in 1 .. 21
  BY DEF Rules
<1>2. CASE k \in 1 .. 7
  BY <1>2, InternalFallbackContradictionImproves, BaselineMappingCapabilityImproves,
     SizeFeasibilityImproves, AddressBoundsImproves, DisplacementConstraintImproves,
     ReservationAlignmentImproves, PageSizeImproves DEF rule, b
<1>3. CASE k \in 8 .. 14
  BY <1>3, AddressAlignmentImproves, SizeGranularityImproves, RangeAvailabilityImproves,
     ExactMappingCapabilityImproves, NonDestructiveExactMappingImproves,
     HintedRelocationImproves, IdentityWithoutTranslationImproves DEF rule, b
<1>4. CASE k \in 15 .. 21
  BY <1>4, WriteExecuteImproves, ExecutableMappingImproves, JitEntitlementImproves,
     ReserveCommitImproves, PointerTruncationImproves, FileMappingBeyondEofImproves,
     RetryOfPermanentErrorImproves DEF rule, b
<1> QED
  BY <1>1, <1>2, <1>3, <1>4

-----------------------------------------------------------------------------
(* The analysis as a function.                                             *)

\* The result after each rule.  There is such a function: were there none up to
\* some rule, there would be none up to a first such rule, and one more step
\* extends the function of the rule before it.
Course(a, f) ==
  f = [k \in 0 .. Rules |-> IF k = 0 THEN EmptyResult(a) ELSE rule(k, a, f[k - 1])]

\* An analysis has a course.
LEMMA CourseExists ==
  ASSUME NEW a
  PROVE  \E f : Course(a, f)
<1> DEFINE UpTo(n, f) == f = [k \in 0 .. n |-> IF k = 0 THEN EmptyResult(a)
                                               ELSE rule(k, a, f[k - 1])]
           Without == {n \in Nat : ~\E f : UpTo(n, f)}
<1>1. Without = {}
  <2> SUFFICES ASSUME Without # {} PROVE FALSE
    OBVIOUS
  <2>1. PICK n \in Without : \A m \in Without : n <= m
    BY LeastNatural
  <2>2. n # 0
    <3> SUFFICES ASSUME n = 0 PROVE FALSE
      OBVIOUS
    <3>1. UpTo(0, [k \in 0 .. 0 |-> EmptyResult(a)])
      OBVIOUS
    <3> QED
      BY <3>1, <2>1
  <2>3. n - 1 \in Nat /\ n - 1 \notin Without
    <3>1. n \in Nat
      OBVIOUS
    <3> HIDE DEF Without
    <3> QED
      BY <3>1, <2>1, <2>2
  <2>4. PICK f : UpTo(n - 1, f)
    BY <2>3
  <2> DEFINE g == [k \in 0 .. n |-> IF k = n THEN rule(n, a, f[n - 1]) ELSE f[k]]
  <2>5. \A k \in 0 .. n - 1 : f[k] = IF k = 0 THEN EmptyResult(a) ELSE rule(k, a, f[k - 1])
    BY <2>4
  <2>6. ASSUME NEW k \in 0 .. n
        PROVE  g[k] = IF k = 0 THEN EmptyResult(a) ELSE rule(k, a, g[k - 1])
    <3>1. CASE k = n
      <4>1. g[n - 1] = f[n - 1]
        BY <2>3
      <4> QED
        BY <3>1, <2>2, <4>1
    <3>2. CASE k # n
      <4>1. k \in 0 .. n - 1 /\ (k # 0 => g[k - 1] = f[k - 1])
        BY <3>2, <2>3
      <4> QED
        BY <3>2, <4>1, <2>5
    <3> QED
      BY <3>1, <3>2
  <2>7. UpTo(n, g)
    <3>1. g = [k \in 0 .. n |-> g[k]]
      OBVIOUS
    <3> HIDE DEF g
    <3> QED
      BY <3>1, <2>6
  <2> QED
    BY <2>1, <2>7
<1>2. Rules \in Nat
  BY DEF Rules
<1> QED
  BY <1>1, <1>2 DEF Course

CourseOf(a) == CHOOSE f : Course(a, f)

\* The course starts empty, takes one rule after the other and ends with what
\* Analyze says.
LEMMA CourseSteps ==
  ASSUME NEW a
  PROVE  /\ CourseOf(a)[0] = EmptyResult(a)
         /\ \A k \in 1 .. Rules : CourseOf(a)[k] = rule(k, a, CourseOf(a)[k - 1])
         /\ InDomain(a) => Analyze(a) = CourseOf(a)[Rules]
<1> DEFINE f == CourseOf(a)
<1>1. InDomain(a) => Analyze(a) = f[Rules]
  BY DEF Analyze, CourseOf, Course
<1>2. Course(a, f)
  BY CourseExists DEF CourseOf
<1> HIDE DEF f
<1>3. f = [k \in 0 .. Rules |-> IF k = 0 THEN EmptyResult(a) ELSE rule(k, a, f[k - 1])]
  BY <1>2 DEF Course
<1>4. Rules \in Nat
  BY DEF Rules
<1>5. f[0] = EmptyResult(a) /\ \A k \in 1 .. Rules : f[k] = rule(k, a, f[k - 1])
  BY <1>3, <1>4
<1> QED
  BY <1>1, <1>5 DEF f

\* Before each rule the result is where the function is.
OnCourse ==
  /\ analysis \in Analyses
  /\ pos \in 0 .. Rules + 2
  /\ pos = 0 => result = EmptyResult(analysis)
  /\ pos \in 1 .. Rules + 1 => InDomain(analysis) /\ result = CourseOf(analysis)[pos - 1]
  /\ pos = Rules + 2 => result = Analyze(analysis)

\* A step of the analysis is a step of its course.
LEMMA OnCourseStep == OnCourse /\ [Next]_vars => OnCourse'
<1> SUFFICES ASSUME OnCourse, [Next]_vars
             PROVE  OnCourse'
  OBVIOUS
<1>1. CASE Begin
  BY <1>1, CourseSteps DEF Begin, OnCourse, Rules
<1>2. CASE OutOfDomain
  BY <1>2 DEF OutOfDomain, OnCourse, Analyze, Rules
<1>3. ASSUME NEW k \in 1 .. Rules, RunRule(k)
      PROVE  OnCourse'
  <2>1. result' = CourseOf(analysis)[k]
    BY <1>3, CourseSteps DEF RunRule, OnCourse, Rules
  <2> QED
    BY <1>3, <2>1 DEF RunRule, OnCourse, Rules
<1>4. CASE Return
  BY <1>4, CourseSteps DEF Return, OnCourse, Rules
<1>5. CASE UNCHANGED vars
  BY <1>5 DEF vars, OnCourse
<1> QED
  BY <1>1, <1>2, <1>3, <1>4, <1>5 DEF Next

\* Run to its end, the machine comes to what the function says
\* (Analysis::run, with its early return).
THEOREM RunIsTheFunction == Spec => [](Returned => result = Analyze(analysis))
<1>1. Init => OnCourse
  BY DEF Init, OnCourse, Rules
<1>2. OnCourse => (Returned => result = Analyze(analysis))
  BY DEF OnCourse, Returned
<1> QED
  BY <1>1, <1>2, OnCourseStep, PTL DEF Spec

-----------------------------------------------------------------------------
(* The two analyses side by side.                                          *)

\* The two analyses begin side by side.
LEMMA EmptyImproves ==
  ASSUME NEW a \in AnalysisInput
  PROVE  Improves(EmptyResult(BetterKnown(a)), EmptyResult(a))
<1> DEFINE b == BetterKnown(a)
<1>1. /\ b.req.limitations = a.req.limitations /\ a.req.limitations \in SUBSET STRING
      /\ b.vm.measured = a.vm.measured
  BY SameRequest, BetterHost, RequestTypes
<1>2. EmptyResult(b) \in Result /\ EmptyResult(a) \in Result
  BY <1>1, Enumerators DEF EmptyResult, Result, LimitationText
<1>3. /\ EmptyResult(b).findings = <<>> /\ EmptyResult(b).overall = Supported
      /\ EmptyResult(a).findings = <<>> /\ EmptyResult(a).overall = Supported
  BY DEF EmptyResult
<1> QED
  BY <1>2, <1>3 DEF Improves

\* And stay there after every rule: were there a first one after which they do
\* not, that rule would not keep them side by side.
LEMMA SideBySide ==
  ASSUME NEW a \in AnalysisInput
  PROVE  \A k \in 0 .. Rules : Improves(CourseOf(BetterKnown(a))[k], CourseOf(a)[k])
<1> DEFINE g == CourseOf(BetterKnown(a))
           f == CourseOf(a)
           Apart == {k \in 0 .. Rules : ~Improves(g[k], f[k])}
<1>1. /\ g[0] = EmptyResult(BetterKnown(a)) /\ f[0] = EmptyResult(a)
      /\ \A k \in 1 .. Rules : /\ g[k] = rule(k, BetterKnown(a), g[k - 1])
                               /\ f[k] = rule(k, a, f[k - 1])
  BY CourseSteps
<1> HIDE DEF g, f
<1> SUFFICES ASSUME Apart # {}
             PROVE  FALSE
  BY DEF g, f
<1>2. Apart \subseteq Nat
  BY DEF Rules
<1>3. PICK k \in Apart : \A j \in Apart : k <= j
  BY <1>2, LeastNatural
<1>4. k \in 1 .. Rules
  BY <1>1, EmptyImproves DEF Rules
<1>5. Improves(g[k - 1], f[k - 1])
  BY <1>3, <1>4 DEF Rules
<1> QED
  BY <1>1, <1>4, <1>5, RuleImproves

\* The same facts, better attested, give the same findings and the same
\* verdict, and none of them with less confidence (emit,
\* proven_unsupported_evidence and the rules that pass evidence on).
THEOREM EvidenceOnlyStrengthens == Spec => []BetterEvidenceNeverWeakens
<1>1. (Returned => result = Analyze(analysis)) /\ AnalyzerInv => BetterEvidenceNeverWeakens
  <2> SUFFICES ASSUME Returned => result = Analyze(analysis), AnalyzerInv,
                      Returned, InDomain(analysis)
               PROVE  LET better == Analyze(BetterKnown(analysis))
                      IN /\ better.overall = result.overall
                         /\ Len(better.findings) = Len(result.findings)
                         /\ \A i \in DOMAIN result.findings :
                              /\ better.findings[i].id = result.findings[i].id
                              /\ better.findings[i].impact = result.findings[i].impact
                              /\ better.findings[i].confidence <= result.findings[i].confidence
    BY DEF BetterEvidenceNeverWeakens
  <2>1. analysis \in AnalysisInput
    BY AnalysesAssumption DEF AnalyzerInv, TypeOK
  <2>2. InDomain(BetterKnown(analysis))
    BY <2>1, SameRequest DEF InDomain
  <2>3. Improves(Analyze(BetterKnown(analysis)), result)
    BY <2>1, <2>2, CourseSteps, SideBySide DEF Rules
  <2>4. DOMAIN result.findings = 1 .. Len(result.findings)
    BY <2>3 DEF Improves, Result
  <2> QED
    BY <2>3, <2>4 DEF Improves, SameFinding
<1> QED
  BY <1>1, AnalyzerInvariant, RunIsTheFunction, PTL
=============================================================================
