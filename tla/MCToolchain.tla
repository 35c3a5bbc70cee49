----------------------------- MODULE MCToolchain -----------------------------
(***************************************************************************)
(* Documents that differ from typical ones in one field, invocations one   *)
(* after the other and side by side, and messages of every kind, over an   *)
(* address space of 32 bytes.                                              *)
(***************************************************************************)
EXTENDS Toolchain

CONSTANTS first, second

\* The document with one of its fields replaced, left out or added.
With(v, key, value) == Obj((key :> value) @@ v[2])
Without(v, key) == Obj([other \in DOMAIN v[2] \ {key} |-> v[2][other]])
Within(v, section, key, value) == With(v, section, With(at(v, section), key, value))

Values == {Null, Bool(TRUE), Num(-1), Num(0), Num(6), Double, Hex(8), Hex(40), Str("bogus"),
           Arr(<<>>), Arr(<<Double>>), Nothing}

Variants(v, keys, more) ==
  {With(v, key, value) : key \in keys, value \in Values \cup more} \cup
  {Without(v, key) : key \in keys}

-----------------------------------------------------------------------------
(* Requirements.                                                           *)

Place == Obj([file |-> Str("a.cpp"), line |-> Num(3), symbol |-> Empty])

BaseRequest ==
  Obj([size |-> Num(4), address |-> Hex(8), exact_address_required |-> Bool(TRUE),
       protection |-> Obj([read |-> Bool(TRUE), write |-> Bool(TRUE)])])

BaseRequirement ==
  Obj([schema |-> Str(kRequirementSchema), operation |-> Str("virtual_memory_map"),
       assumption_evidence |-> Str("specified_guarantee"), request |-> BaseRequest,
       failure_sink |-> Obj([kind |-> Str("fatal_assert"), location |-> Place])])

Requests ==
  Variants(BaseRequest,
           KnownRequest \cup {"adress", "x_campaign"},
           {Obj([read |-> Str("bogus")]), Obj([execute |-> Bool(TRUE)]), Str("at_most"),
            Str("within_final_partial_page")})

Assumptions == Variants(Nothing, KnownAssumptions \cup {"max_retry"}, {})

RequirementDocuments ==
  {With(BaseRequirement, "request", request) : request \in Requests} \cup
  {With(BaseRequirement, "assumptions", assumptions) : assumptions \in Assumptions} \cup
  Variants(BaseRequirement, (KnownTopLevel \ {"request", "assumptions"}) \cup {"notes"},
           {Str("none"), Str("unknown"), Arr(<<Str("relocate")>>), Arr(<<Str("bogus")>>),
            Arr(<<Place, Nothing>>), Obj([kind |-> Str("none"), location |-> Null]),
            Obj([kind |-> Str("none"), location |-> Nothing, description |-> Str("d")])})

Requiring(key, value) == Within(BaseRequirement, "request", key, value)
Bundled(items) == Obj([schema |-> Str(kRequirementBundleSchema), requirements |-> Arr(items)])

Impossible == Requiring("address", Hex(12))
Unknowable == Requiring("address", Hex(24))
Broken == Requiring("size", Num(0))
Large == Within(Without(BaseRequirement, "failure_sink"), "request", "size", Num(12))

\* More than a mapping anywhere may have, and less than one at a high hint may.
Hinted == With(BaseRequirement, "request",
               Obj([size |-> Num(12), address |-> Hex(16)]))

Bundles == {Bundled(items) : items \in {<<>>, <<BaseRequirement, Impossible>>, <<Broken>>,
              <<Unknowable, BaseRequirement>>, <<BaseRequirement, Broken>>, <<Impossible, Null>>}}

-----------------------------------------------------------------------------
(* Profiles.                                                               *)

Node(value, class) == Obj([value |-> value, evidence |-> Str(class)])
Measured(value) == Node(value, "measured_capability")
Stretch(from, to, class) == Obj([start |-> Hex(from), end |-> Hex(to), evidence |-> Str(class)])

BaseMemory ==
  Obj([page_size |-> Measured(Num(4)), allocation_granularity |-> Measured(Num(4)),
       min_map_address |-> Measured(Hex(4)), max_user_address |-> Measured(Hex(28)),
       max_single_reservation |-> Measured(Num(8)),
       max_single_reservation_hinted |-> Measured(Num(16)),
       anonymous_mapping_supported |-> Measured(Bool(TRUE)),
       exact_mapping |-> Measured(Str("SUPPORTED")),
       reserve_commit_model |-> Measured(Str("posix_lazy")),
       available_ranges |-> Arr(<<Stretch(16, 24, "observed_invariant"),
                                  Stretch(4, 12, "measured_capability")>>),
       unavailable_ranges |-> Arr(<<Stretch(12, 16, "measured_capability")>>),
       protection |-> Obj([write_execute_simultaneous |-> Measured(Bool(TRUE))])])

BaseProfile ==
  Obj([schema |-> Str(kProfileSchema), origin |-> Str("measured"),
       platform |-> Obj([os |-> Str("linux"), process_arch |-> Str("x86_64"),
                         translation_mode |-> Str("none")]),
       virtual_memory |-> BaseMemory])

MCProbed == [profile_from_json(BaseProfile).value EXCEPT !.profile_name = Str("wine-on-posix")]

WithFact(fact, node) == Within(BaseProfile, "virtual_memory", fact, node)

FactNodes ==
  {Measured(value) : value \in Values \cup {Str("UNKNOWN"), Str("sigbus")}} \cup
  {Node(Null, "unknown"), Node(Num(6), "unknown"), Node(Bool(TRUE), "bogus"), Null,
   Num(6), Nothing, With(Measured(Num(6)), "note", Str("n")),
   With(Node(Null, "unknown"), "note", Str("n")), With(Measured(Num(6)), "source", Num(1)),
   With(Measured(Num(6)), "extra", Null)}

RangeItems ==
  {Stretch(4, 12, "unknown"), Stretch(12, 4, "measured_capability"),
   Stretch(4, 40, "measured_capability"), Stretch(8, 8, "heuristic_risk"), Null,
   With(Stretch(4, 12, "heuristic_risk"), "note", Str("n")),
   With(Stretch(4, 12, "measured_capability"), "start", Num(4))}

RangeArrays == {Arr(<<Stretch(20, 24, "measured_capability"), item>>) : item \in RangeItems} \cup
               {Null, Num(0), Arr(<<>>)}

ProfileDocuments ==
  {WithFact(fact, node) : fact \in MemoryFacts, node \in FactNodes} \cup
  {WithFact("protection", Obj(fact :> node)) : fact \in ProtectionFacts, node \in FactNodes} \cup
  {WithFact(list, ranges) : list \in RangeLists, ranges \in RangeArrays} \cup
  {With(BaseProfile, "platform", platform) :
     platform \in Variants(at(BaseProfile, "platform"),
       {"os", "host_arch", "process_arch", "translation_mode", "os_version",
        "pointer_width_bits"}, {Str("arm"), Str("rosetta2")})} \cup
  Variants(BaseProfile, {"schema", "origin", "notes", "profile_name", "profile_id", "probe_run",
                         "virtual_memory"},
           {Arr(<<Str("n")>>), Str("synthetic"), Sha(Null),
            profile_id(profile_from_json(BaseProfile).value)})

-----------------------------------------------------------------------------
(* Messages.                                                               *)

Request(id, method) == Obj([jsonrpc |-> Str("2.0"), id |-> id, method |-> Str(method)])
Call(tool, args) ==
  With(Request(Num(6), "tools/call"), "params", Obj([name |-> Str(tool), arguments |-> Obj(args)]))

Inline == [requirement_json |-> Text(Unknowable), profile_json |-> Text(BaseProfile)]
ByPath == [requirement_path |-> Str("req"), profile_path |-> Str("host")]
Both == Inline @@ ByPath
Diffed(b) == [a_path |-> Str("host"), b_json |-> b]

FlagValues == {Bool(FALSE), Bool(TRUE), Str("no"), Str("true"), Str("treu"), Num(0), Null, Empty}

Calls ==
  {Call("check_requirement", args) :
     args \in {Inline, ByPath, Both, <<>>, [ByPath EXCEPT !.profile_path = Str("absent")],
               [Inline EXCEPT !.requirement_json = Str("bogus")],
               [Inline EXCEPT !.requirement_json = Text(Bundled(<<BaseRequirement>>))],
               [Inline EXCEPT !.profile_json = Text(Null)],
               [Both EXCEPT !.requirement_json = Empty]}} \cup
  {Call("check_requirement", Inline @@ (key :> value)) :
     key \in {"report_unknowns", "format"}, value \in FlagValues \cup {Str("text")}} \cup
  {Call("verify_profile", args) :
     args \in {Inline, ByPath, <<>>, [profile_json |-> Text(Nothing)],
               [profile_json |-> Text(With(BaseProfile, "profile_id", Sha(Null)))]}} \cup
  {Call("diff_profiles", Diffed(b)) :
     b \in {Text(BaseProfile), Text(With(BaseProfile, "notes", Arr(<<Str("n")>>))),
            Text(WithFact("page_size", Measured(Num(8)))), Text(Null), Empty}} \cup
  {Call("describe_findings", args) :
     args \in {<<>>, [id |-> Str("RS-VM-7")], [id |-> Str("RS-VM-99")], [id |-> Num(7)]}} \cup
  {Call("probe_host", args) :
     args \in {<<>>, [output |-> Str("host")], [faulting_tests |-> Str("treu")],
               [output |-> Str("host"), name |-> Str("mine")]}}

Messages ==
  {Garbage, Null, Nothing, Request(Num(6), "shutdown"),
   With(Call("probe_host", [output |-> Str("host")]), "id", Double),
   Without(Call("probe_host", [output |-> Str("host")]), "id"),
   Without(Request(Null, "ping"), "method"), With(Request(Null, "ping"), "jsonrpc", Num(2)),
   With(Without(Request(Null, "ping"), "id"), "jsonrpc", Num(1)),
   Request(Num(6), "tools/call"), With(Request(Num(6), "tools/call"), "params", Null)} \cup
  {Request(id, method) : method \in {"initialize", "ping", "tools/list"},
                         id \in {Str("a"), Num(0), Null, Double, Nothing, Bool(TRUE)}} \cup Calls

-----------------------------------------------------------------------------
(* What to begin with.                                                     *)

Scenario(files, scripts, rewrites_, targets, most, failures) ==
  [disk |-> files, scripts |-> scripts, rewrites |-> rewrites_, targets |-> targets,
   MaxRewrites |-> most, MaxFaults |-> failures]

Alone(files, script) == Scenario(files, first :> script @@ second :> <<>>, {}, {}, 0, 0)

CheckOf(bundle) == Check("req", "host", Stdout, bundle, TRUE)

OfRequirements ==
  {Alone([req |-> v, host |-> BaseProfile], <<CheckOf(FALSE)>>) :
     v \in RequirementDocuments \cup Bundles \cup {Null}}

OfProfiles ==
  {Alone([req |-> BaseRequirement, large |-> Bundled(<<Large, Hinted>>), base |-> BaseProfile,
          host |-> v],
         <<Verify("host"), ImpactOf("base", "host", <<"req", "large">>)>>) : v \in ProfileDocuments}

\* Two profiles that say the same in other words, and in another order.
Twice == <<Stretch(4, 12, "heuristic_risk"), Stretch(4, 12, "measured_capability")>>
Twins ==
  {Alone([req |-> BaseRequirement, large |-> Unknowable, base |-> WithFact(list, Arr(Twice)),
          host |-> With(WithFact(list, Arr(<<Twice[2], Twice[1]>>)), "profile_name", Str("n"))],
         <<Id("host"), Diff("base", "host"), ImpactOf("base", "host", <<"req", "large", "req">>)>>) :
     list \in RangeLists}

OfMessages ==
  {Alone([req |-> BaseRequirement, host |-> BaseProfile], <<Message(m), Verify("host")>>) :
     m \in Messages}

Failing(scenario) == [scenario EXCEPT !.MaxFaults = 1]

Probing ==
  {Failing(Alone([base |-> BaseProfile],
     <<Probe("host"), Verify("host"), Diff("base", "host"), Validate("environment_profile", "host"),
       Validate("x", "host"), ImpactOf("base", "host", <<"absent">>)>>)),
   Failing(Alone([base |-> BaseProfile],
     <<Message(Call("probe_host", [output |-> Str("host")])), Id("host")>>))}

Shared == [req |-> BaseRequirement, other |-> Bundled(<<BaseRequirement, Unknowable>>),
           host |-> BaseProfile]

\* A bundle that is cut short at any point and written again.
Crashing ==
  {Failing(Alone(Shared, <<Check("other", "host", "out", TRUE, TRUE), Replay, CheckOf(TRUE), Replay,
                           Validate("analysis_bundle", kManifest)>>))}

\* A bundle that is replayed while it is written and after, and edited.
Tampered(changes, targets, most) ==
  Scenario(Shared, first :> <<CheckOf(TRUE)>> @@ second :> <<Replay>>, changes, targets, most, 0)

Tampering ==
  {Tampered({Write(kRequirementFile, Requiring("validates_returned_address", Bool(TRUE))),
             Write("req", Impossible)}, {kReportFile}, 2),
   Tampered({Write(kProfileFile, WithFact("page_size", Measured(Num(8)))),
             Write("host", WithFact("page_size", Measured(Num(8))))}, {}, 2),
   Tampered({Write("req", Broken)}, {}, 1)}

\* Two bundles that are written to one directory.
Colliding ==
  {Scenario(Shared, first :> <<CheckOf(TRUE)>> @@
                    second :> <<Check("other", "host", Stdout, TRUE, FALSE), Replay>>,
            {}, {}, 0, 0)}

MCScenarios == OfRequirements \cup OfProfiles \cup Twins \cup OfMessages \cup Probing \cup
               Crashing \cup Tampering \cup Colliding
=============================================================================
