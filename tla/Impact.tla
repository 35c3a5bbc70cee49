------------------------------- MODULE Impact -------------------------------
(***************************************************************************)
(* What an analysis run comes to, and what a change of the environment     *)
(* does to it: the runs of src/src/reports/bundle.cpp, the exit codes of   *)
(* src/src/reports/report.cpp and src/src/vm/impact.cpp.                   *)
(***************************************************************************)
EXTENDS AnalyzerRules, Requirement, ProfileDocument

\* One requirement against one profile, both loaded.
analyze(r, p, report_unknowns) ==
  Analyze([req |-> AnalysisRequest(r), vm |-> AnalysisHost(p),
           report_unknowns |-> report_unknowns])

finding_ids(result) == {f.id : f \in Emitted(result)}

\* The worst of a set of verdicts; of none, the best there is.
Worst(verdicts) ==
  IF verdicts = {} THEN Supported
  ELSE CHOOSE v \in verdicts : \A w \in verdicts : combine(v, w) = v

kInput == 65
kInternal == 70

exit_code_for(level) ==
  CASE level = Supported -> 0
    [] level = Unsupported -> 1
    [] level = ConditionallySupported -> 2
    [] level = UnknownSupport -> 3

-----------------------------------------------------------------------------
(* run_analysis: every usable requirement of a document on one profile.    *)

Evaluated(results, rejected) ==
  [overall |-> Worst({result.overall : result \in results}),
   ids |-> UNION {finding_ids(result) : result \in results}, rejected |-> rejected]

evaluate_bundle(bundle, profile, report_unknowns) ==
  LET requirements == bundle.value.requirements
      results == {analyze(requirements[i], profile.value, report_unknowns) :
                    i \in DOMAIN requirements}
  IN IF ~bundle.ok \/ ~profile.ok THEN Refused
     ELSE IF requirements = <<>> THEN Refused
     ELSE Read(TRUE, Evaluated(results, bundle.value.rejected))

run_analysis(requirement_text, profile_text, report_unknowns) ==
  IF Garbage \in {requirement_text, profile_text} THEN Refused
  ELSE evaluate_bundle(load_requirements(requirement_text), profile_from_json(profile_text),
                       report_unknowns)

-----------------------------------------------------------------------------
(* The impact of a new profile on a contract.                              *)

\* VerdictChange, in the order of the attention each needs.
Unchanged == 0
NeverAnswered == 1
Improved == 2
Regressed == 3

classify(before, after) ==
  CASE before = after -> IF before = UnknownSupport THEN NeverAnswered ELSE Unchanged
    [] after > before -> Regressed
    [] after < before -> Improved

compare_results(a, b) ==
  [change |-> classify(a.overall, b.overall), before |-> a.overall, after |-> b.overall,
   ids_appeared |-> finding_ids(b) \ finding_ids(a),
   ids_disappeared |-> finding_ids(a) \ finding_ids(b)]

compare_requirement(r, before, after, report_unknowns) ==
  compare_results(analyze(r, before, report_unknowns), analyze(r, after, report_unknowns))

\* The change that needs most attention stands for the contract.
Contract(impacts) ==
  LET changes == {impacts[i].change : i \in DOMAIN impacts}
  IN [requirements |-> impacts,
      change |-> IF changes = {} THEN NeverAnswered
                 ELSE CHOOSE c \in changes : \A d \in changes : d <= c]

compare_contract(requirements, before, after, report_unknowns) ==
  Contract([i \in DOMAIN requirements |->
              compare_requirement(requirements[i], before, after, report_unknowns)])

load_contract(text) == IF text = Garbage THEN Refused ELSE load_requirements(text)
Readable(contract) == contract.ok /\ contract.value.requirements # <<>>

\* One impact per readable contract; the others are counted.
compare_readable(readable, total, before, after, report_unknowns) ==
  [contracts |-> [i \in DOMAIN readable |->
                    compare_contract(readable[i].value.requirements, before, after,
                                     report_unknowns)],
   unreadable |-> total - Len(readable)]

compare_contracts(texts, before, after, report_unknowns) ==
  compare_readable(SelectSeq([i \in DOMAIN texts |-> load_contract(texts[i])], Readable),
                   Len(texts), before, after, report_unknowns)

any_regression(report) ==
  \E i \in DOMAIN report.contracts : report.contracts[i].change = Regressed
=============================================================================
