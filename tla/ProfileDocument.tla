-------------------------- MODULE ProfileDocument --------------------------
(***************************************************************************)
(* The profile of an environment as a document, and the identity it has:   *)
(* from_json, to_json and profile_id of src/src/vm/profile.cpp with the    *)
(* facts of core/fact.hpp and the ranges of vm/address_range.cpp.  What a  *)
(* loaded profile answers is in the module Profile.                        *)
(***************************************************************************)
EXTENDS Profile, Json, TLC

kProfileSchema == "runtime-skeptic.environment-profile.v1"
Origins == {"measured", "hand_authored_fixture", "synthetic", "unknown"}
OperatingSystems == {"linux", "macos", "windows", "other", "unknown"}
WideArchitectures == {"x86_64", "aarch64", "riscv64"}
NarrowArchitectures == {"x86", "arm"}
Architectures == WideArchitectures \cup NarrowArchitectures \cup {"other", "unknown"}
TranslationModes == {"none", "rosetta2", "wow64", "qemu_user", "other", "unknown"}
SupportLevelNames == <<"SUPPORTED", "CONDITIONALLY_SUPPORTED", "UNKNOWN", "UNSUPPORTED">>
ReserveCommitModels == {"posix_lazy", "windows_reserve_commit", "unknown"}
BeyondEofBehaviors == {"sigbus", "error", "zero_fill", "unknown"}

\* The facts, by the reader of their values.
PageFacts == {"page_size", "allocation_granularity"}
UintFacts == PageFacts \cup {"max_single_reservation", "max_single_reservation_hinted"}
AddressFacts == {"min_map_address", "max_user_address"}
BoolFacts == {"anonymous_mapping_supported", "hinted_mapping_may_relocate",
              "fixed_noreplace_available"}
EnumFacts == {"exact_mapping", "reserve_commit_model", "file_map_beyond_eof"}
MemoryFacts == UintFacts \cup AddressFacts \cup BoolFacts \cup EnumFacts
ProtectionFacts == {"write_execute_simultaneous", "write_then_execute_transition",
                    "anonymous_executable_mapping", "jit_entitlement_required"}
RangeLists == {"available_ranges", "unavailable_ranges"}

\* What an enumeration may name.
NamesOf(fact) ==
  CASE fact = "exact_mapping" -> {SupportLevelNames[i] : i \in DOMAIN SupportLevelNames}
    [] fact = "reserve_commit_model" -> ReserveCommitModels
    [] fact = "file_map_beyond_eof" -> BeyondEofBehaviors

-----------------------------------------------------------------------------
(* environment-profile.v1.json.                                            *)

ValueSchema(fact) ==
  CASE fact \in PageFacts -> [type |-> {"integer", "null"}, minimum |-> 1]
    [] fact \in UintFacts \ PageFacts -> OptionalInteger
    [] fact \in AddressFacts -> OptionalAddress
    [] fact \in EnumFacts -> [enum |-> {Null} \cup {Str(name) : name \in NamesOf(fact)}]
    [] OTHER -> [type |-> {"boolean", "null"}]

FactSchema(fact) ==
  [type |-> {"object"}, required |-> {"value", "evidence"}, additionalProperties |-> {},
   properties |-> [value |-> ValueSchema(fact), evidence |-> EvidenceSchema,
                   source |-> StringSchema, note |-> StringSchema]]

RangeSchema ==
  LET hex == [type |-> {"string"}, pattern |-> "hex"]
  IN [type |-> {"object"}, required |-> {"start", "end", "evidence"},
      additionalProperties |-> {},
      properties |-> [start |-> hex, end |-> hex,
                      evidence |-> [enum |-> EvidenceSchema.enum \ {Str("unknown")}],
                      source |-> StringSchema, note |-> StringSchema]]

MemorySchema ==
  [type |-> {"object"},
   properties |->
     [fact \in MemoryFacts |-> FactSchema(fact)] @@
     [list \in RangeLists |-> [type |-> {"array"}, items |-> RangeSchema]] @@
     [exact_mapping_failure_codes |-> StringsSchema,
      protection |-> [type |-> {"object"},
                      additionalProperties |-> {FactSchema("write_execute_simultaneous")}]]]

PlatformSchema ==
  [type |-> {"object"},
   properties |-> [os |-> StringSchema, host_arch |-> StringSchema,
                   process_arch |-> StringSchema, os_version |-> StringSchema,
                   kernel_version |-> StringSchema, pointer_width_bits |-> OptionalInteger,
                   translation_mode |-> Enum(TranslationModes)]]

ProfileSchema ==
  [type |-> {"object"}, required |-> {"schema", "origin", "platform"},
   properties |->
     [schema |-> [const |-> Str(kProfileSchema)], profile_name |-> StringSchema,
      profile_id |-> [type |-> {"string"}, pattern |-> "sha256"],
      origin |-> Enum(Origins), platform |-> PlatformSchema,
      probe_run |-> [type |-> {"object"}], notes |-> StringsSchema,
      virtual_memory |-> MemorySchema]]

-----------------------------------------------------------------------------
(* Facts and ranges.                                                       *)

UnknownFact(note) ==
  [value |-> Absent, evidence |-> UnknownEvidence, source |-> Empty, note |-> note]

read_value(fact, v) ==
  CASE fact \in UintFacts -> read_uint(v)
    [] fact \in AddressFacts -> read_address(v)
    [] fact = "exact_mapping" ->
         IF as_string(v) \in NamesOf(fact)
           THEN Read(TRUE, (CHOOSE i \in 1 .. 4 : SupportLevelNames[i] = as_string(v)) - 1)
           ELSE Refused
    [] fact \in EnumFacts \ {"exact_mapping"} ->
         Read(as_string(v) \in NamesOf(fact), as_string(v))
    [] OTHER -> IF is_bool(v) THEN Read(TRUE, v[2]) ELSE Refused

WellFormed(node) ==
  /\ is_object(node)
  /\ DOMAIN node[2] \subseteq {"value", "evidence", "source", "note"}
  /\ has(node, "evidence") /\ evidence_class_from_string(at(node, "evidence")) # {}
  /\ has(node, "value")
  /\ is_string(Default(node, "source", Empty)) /\ is_string(Default(node, "note", Empty))

ClassOf(node) == CHOOSE class \in evidence_class_from_string(at(node, "evidence")) : TRUE

\* Mutant: an earlier version, in which the reader says why a fact is unknown.
fact_from_json_Narrates(fact, mem) ==
  LET node == at(mem, fact)
      note == Default(node, "note", Empty)
      class == ClassOf(node)
      read == read_value(fact, at(node, "value"))
  IN IF ~Given(mem, fact) THEN Read(TRUE, UnknownFact(Empty))
     ELSE IF ~WellFormed(node) THEN Refused
     ELSE IF class = UnknownEvidence \/ is_null(at(node, "value"))
       THEN Read(TRUE, UnknownFact(IF note = Empty THEN Str("declared unknown") ELSE note))
     ELSE Read(read.ok, [value |-> read.value, evidence |-> class,
                         source |-> Default(node, "source", Empty), note |-> note])

\* A fact that is absent, null or declared unknown has no value, and the reader
\* adds nothing to what the document says of it.
fact_from_json(fact, mem) ==
  LET node == at(mem, fact)
      note == Default(node, "note", Empty)
      class == ClassOf(node)
      read == read_value(fact, at(node, "value"))
  IN IF ~Given(mem, fact) THEN Read(TRUE, UnknownFact(Empty))
     ELSE IF ~WellFormed(node) THEN Refused
     ELSE IF class = UnknownEvidence \/ is_null(at(node, "value"))
       THEN Read(TRUE, UnknownFact(note))
     ELSE Read(read.ok, [value |-> read.value, evidence |-> class,
                         source |-> Default(node, "source", Empty), note |-> note])

fact_to_json(fact, f) ==
  LET value == CASE f.evidence = UnknownEvidence -> Null
                 [] f.evidence # UnknownEvidence ->
                      CASE fact \in UintFacts -> Num(f.value)
                        [] fact \in AddressFacts -> Hex(f.value)
                        [] fact = "exact_mapping" -> Str(SupportLevelNames[f.value + 1])
                        [] fact \in EnumFacts \ {"exact_mapping"} -> Str(f.value)
                        [] OTHER -> Bool(f.value)
  IN Obj([value |-> value, evidence |-> EvidenceName(f.evidence)] @@
         (IF f.source = Empty THEN <<>> ELSE [source |-> f.source]) @@
         (IF f.note = Empty THEN <<>> ELSE [note |-> f.note]))

range_from_json(v) ==
  LET bounds == ReadAll([key \in {"start", "end"} |->
                  IF has(v, key) /\ is_string(at(v, key)) THEN read_address(at(v, key))
                  ELSE Refused])
      classes == evidence_class_from_string(Default(v, "evidence", Null)) \ {UnknownEvidence}
  IN IF /\ is_object(v)
        /\ DOMAIN v[2] \subseteq {"start", "end", "evidence", "source", "note"}
        /\ bounds.ok /\ bounds.value.start <= bounds.value.end
        /\ classes # {}
        /\ is_string(Default(v, "source", Empty)) /\ is_string(Default(v, "note", Empty))
     THEN Read(TRUE, bounds.value @@ [evidence |-> CHOOSE class \in classes : TRUE,
                                      source |-> Default(v, "source", Empty),
                                      note |-> Default(v, "note", Empty)])
     ELSE Refused

range_to_json(r) ==
  Obj([start |-> Hex(r.start), end |-> Hex(r.end), evidence |-> EvidenceName(r.evidence)] @@
      (IF r.source = Empty THEN <<>> ELSE [source |-> r.source]) @@
      (IF r.note = Empty THEN <<>> ELSE [note |-> r.note]))

Below(r, s) == r.start < s.start \/ (r.start = s.start /\ r.end < s.end)
BelowOrStronger(r, s) ==
  Below(r, s) \/ (r.start = s.start /\ r.end = s.end /\ r.evidence < s.evidence)

\* A list in the order of its positions; equal ones keep theirs, as they do in
\* the sort of a short list.
InOrder(list, First(_, _)) ==
  LET Earlier(i, j) == \/ First(list[i], list[j])
                       \/ ~First(list[j], list[i]) /\ i < j
      order == SortSeq([i \in DOMAIN list |-> i], Earlier)
  IN [i \in DOMAIN list |-> list[order[i]]]

read_ranges(mem, key) ==
  LET list == Default(mem, key, Arr(<<>>))
      ranges == [i \in DOMAIN list[2] |-> range_from_json(list[2][i])]
  IN IF is_array(list) /\ \A i \in DOMAIN ranges : ranges[i].ok
     THEN Read(TRUE, InOrder([i \in DOMAIN ranges |-> ranges[i].value], Below))
     ELSE Refused

\* Sorted when they are written, so that identity does not depend on discovery.
ranges_json(ranges) ==
  LET sorted == InOrder(ranges, BelowOrStronger)
  IN Arr([i \in DOMAIN sorted |-> range_to_json(sorted[i])])

-----------------------------------------------------------------------------
(* The platform.  An open enumeration takes a name it does not know for     *)
(* "other", a closed one refuses it; what is absent is unknown.             *)

read_open_enum(platform, key, names) ==
  LET name == Default(platform, key, Str("unknown"))
  IN Read(is_string(name), IF as_string(name) \in names THEN as_string(name) ELSE "other")

read_enum(platform, key, names) ==
  LET name == Default(platform, key, Str("unknown"))
  IN Read(is_string(name) /\ as_string(name) \in names, as_string(name))

read_platform(platform) ==
  LET fields == ReadAll(
        [os |-> read_open_enum(platform, "os", OperatingSystems),
         host_arch |-> read_open_enum(platform, "host_arch", Architectures),
         process_arch |-> read_open_enum(platform, "process_arch", Architectures),
         translation_mode |-> read_enum(platform, "translation_mode", TranslationModes),
         os_version |-> read_string(platform, "os_version"),
         kernel_version |-> read_string(platform, "kernel_version")])
  IN Read(fields.ok /\ read_optional_uint(platform, "pointer_width_bits").ok, fields.value)

pointer_width_bits(arch) ==
  CASE arch \in WideArchitectures -> WordBits
    [] arch \in NarrowArchitectures -> WordBits \div 2
    [] OTHER -> 0

platform_to_json(p) ==
  LET bits == pointer_width_bits(p.process_arch)
  IN Obj([key \in {"os", "host_arch", "process_arch", "translation_mode"} |-> Str(p[key])] @@
         [os_version |-> p.os_version, kernel_version |-> p.kernel_version,
          pointer_width_bits |-> IF bits = 0 THEN Null ELSE Num(bits)])

-----------------------------------------------------------------------------
(* EnvironmentProfile::from_json, to_json and profile_id.                  *)

\* What the schema cannot state: sizes of 0, and bounds with no room between.
ImpossibleSpace(vm) ==
  \/ \E fact \in PageFacts : is_known(vm[fact]) /\ vm[fact].value = 0
  \/ /\ is_known(vm.min_map_address) /\ is_known(vm.max_user_address)
     /\ vm.min_map_address.value >= vm.max_user_address.value

possible_space(fields) ==
  Read(fields.ok /\ ~ImpossibleSpace(fields.value), fields.value)

read_memory(v) ==
  LET mem == Default(v, "virtual_memory", Nothing)
      prot == Default(mem, "protection", Nothing)
  IN possible_space(ReadAll([fact \in MemoryFacts |-> fact_from_json(fact, mem)] @@
                        [fact \in ProtectionFacts |-> fact_from_json(fact, prot)] @@
                        [list \in RangeLists |-> read_ranges(mem, list)] @@
                        [exact_mapping_failure_codes |->
                           read_string_array_field(mem, "exact_mapping_failure_codes")]))

profile_from_json(v) ==
  IF ~check(v, ProfileSchema) THEN Refused
  ELSE Whole(ReadAll([origin |-> read_enum(v, "origin", Origins),
                         profile_name |-> read_string(v, "profile_name"),
                         platform |-> read_platform(at(v, "platform")),
                         vm |-> read_memory(v),
                         notes |-> read_string_array_field(v, "notes")]))

\* Mutant: a fact that was added to the analyzer is missing here.
memory_to_json_Partial(vm) ==
  Obj([fact \in MemoryFacts \ {"max_single_reservation_hinted"} |-> fact_to_json(fact, vm[fact])] @@
      [list \in RangeLists |-> ranges_json(vm[list])] @@
      [exact_mapping_failure_codes |-> vm.exact_mapping_failure_codes,
       protection |-> Obj([fact \in ProtectionFacts |-> fact_to_json(fact, vm[fact])])])

memory_to_json(vm) ==
  Obj([fact \in MemoryFacts |-> fact_to_json(fact, vm[fact])] @@
      [list \in RangeLists |-> ranges_json(vm[list])] @@
      [exact_mapping_failure_codes |-> vm.exact_mapping_failure_codes,
       protection |-> Obj([fact \in ProtectionFacts |-> fact_to_json(fact, vm[fact])])])

\* What was measured, and nothing of when, by whom and under which name.
facts_json(p) ==
  Obj([schema |-> Str(kProfileSchema), origin |-> Str(p.origin),
       platform |-> platform_to_json(p.platform), virtual_memory |-> memory_to_json(p.vm)])

profile_id(p) == Sha(facts_json(p))

profile_to_json(p) ==
  Obj(facts_json(p)[2] @@ [profile_name |-> p.profile_name, profile_id |-> profile_id(p),
                           notes |-> p.notes])

\* The profile as the rules of the analyzer read it.
AnalysisHost(p) ==
  p.vm @@ [process_pointer_width |-> pointer_width_bits(p.platform.process_arch),
           measured |-> p.origin = "measured"]
=============================================================================
