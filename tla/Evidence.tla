------------------------------ MODULE Evidence ------------------------------
(***************************************************************************)
(* The evidence model: src/include/runtimeskeptic/core/evidence.hpp and    *)
(* src/src/core/evidence.cpp.  The enumerations keep their numbers, which  *)
(* the code compares: a larger one is weaker, or worse.                    *)
(***************************************************************************)
EXTENDS Integers

\* EvidenceClass: how a fact is known.
SpecifiedGuarantee == 0
MeasuredCapability == 1
StaticallyInferred == 2
BoundedCounterexample == 3
ObservedInvariantClass == 4
HeuristicRisk == 5
UnknownEvidence == 6
EvidenceClass == 0 .. 6

\* Confidence: how strong a finding is.
Proven == 0
Counterexample == 1
ObservedInvariant == 2
Predictive == 3
Hypothesis == 4
Confidence == 0 .. 4

\* SupportLevel: a verdict.
Supported == 0
ConditionallySupported == 1
UnknownSupport == 2
Unsupported == 3
SupportLevel == 0 .. 3

Critical == 0
High == 1
Medium == 2
Low == 3
Info == 4
Severity == 0 .. 4

weakest(a, b) == IF a >= b THEN a ELSE b

\* Mutant: the order of an earlier version, with the observed invariant above
\* the statically inferred fact.
confidence_ceiling_Unordered(class) ==
  CASE class \in {SpecifiedGuarantee, MeasuredCapability} -> Proven
    [] class = StaticallyInferred -> ObservedInvariant
    [] class \in {BoundedCounterexample, ObservedInvariantClass} -> Counterexample
    [] class = HeuristicRisk -> Predictive
    [] OTHER -> Hypothesis

confidence_ceiling(class) ==
  CASE class \in {SpecifiedGuarantee, MeasuredCapability} -> Proven
    [] class = ObservedInvariantClass -> ObservedInvariant
    [] class \in {StaticallyInferred, BoundedCounterexample} -> Counterexample
    [] class = HeuristicRisk -> Predictive
    [] OTHER -> Hypothesis

clamp_confidence(desired, class) ==
  IF desired > confidence_ceiling(class) THEN desired ELSE confidence_ceiling(class)

combine(a, b) == IF a >= b THEN a ELSE b

\* The weakest of the classes in an evidence chain; an empty one proves nothing.
weakest_class(classes) ==
  IF classes = {} THEN UnknownEvidence
  ELSE CHOOSE c \in classes : \A d \in classes : weakest(c, d) = c

\* Fact<T>: a value and how it is known.  Fact::known refuses unknown evidence.
Fact(value, class) == [value |-> value, evidence |-> class]
is_known(fact) == fact.evidence # UnknownEvidence

Absent == -1   \* an optional that has no value
=============================================================================
