---------------------------- MODULE Requirement ----------------------------
(***************************************************************************)
(* One assumption of a program, as a document and as the record that the   *)
(* analyzer judges: src/src/vm/requirement.cpp.  A loaded requirement      *)
(* keeps its strings as the JSON values they came from.                    *)
(***************************************************************************)
EXTENDS Json, TLC

kRequirementSchema == "runtime-skeptic.application-requirements.v1"
kRequirementBundleSchema == "runtime-skeptic.application-requirements-bundle.v1"

Operations == {"virtual_memory_map", "virtual_memory_protect",
               "virtual_memory_reserve", "virtual_memory_commit"}
SinkKinds == {"fatal_assert", "process_exit", "error_return", "retry_loop",
              "unchecked", "none", "unknown"}
Fallbacks == {"relocate", "smaller_size", "weaker_protection", "non_executable",
              "none", "unknown"}
Relations == {"equal", "at_most", "at_least"}
EofExtents == {"whole_page_past_end", "within_final_partial_page"}

\* The fields of a document, by the reader that takes them.
RequestAddresses == {"address", "address_min", "address_max"}
RequestUints == {"required_alignment", "required_page_size", "max_displacement_bytes",
                 "file_length", "file_offset"}
RequestFlags == {"exact_address_required", "write_then_execute",
  "simultaneous_write_execute", "file_backed", "accesses_beyond_eof",
  "relies_on_unmapped_beyond_size", "validates_returned_address",
  "commit_is_checked_call", "reserve_then_commit"}
AssumptionUints == {"pointer_storage_width_bits", "max_retries"}
AssumptionFlags == {"guest_host_identity_required", "translation_layer_available",
                    "retries_on_failure"}
ProtectionFlags == {"read", "write", "execute"}

KnownTopLevel == {"schema", "name", "component", "operation", "request", "assumptions",
  "required_postconditions", "permitted_fallbacks", "failure_sink", "assumption_evidence",
  "source_locations", "extraction_limitations", "producer", "rule"}
KnownRequest == RequestAddresses \cup RequestUints \cup RequestFlags \cup
  {"size", "protection", "eof_access_extent", "required_page_size_relation",
   "displacement_reference"}
KnownAssumptions == AssumptionUints \cup AssumptionFlags

Extensions == {"x_campaign"}    \* the names that begin with x_

-----------------------------------------------------------------------------
(* application-requirements.v1.json.                                       *)

Fields(keys, schema) == [key \in keys |-> schema]

SourceLocationSchema ==
  [type |-> {"object"},
   properties |-> Fields({"file", "symbol"}, StringSchema) @@
                  [line |-> [type |-> {"integer"}, minimum |-> 0]]]

ProtectionSchema ==
  [type |-> {"object"}, properties |-> Fields(ProtectionFlags, BooleanSchema)]

RequestSchema ==
  [type |-> {"object"}, required |-> {"size"},
   if |-> [required |-> {"exact_address_required"},
           properties |-> [exact_address_required |-> [const |-> Bool(TRUE)]]],
   then |-> [required |-> {"address"}],
   properties |->
     Fields(RequestAddresses, OptionalAddress) @@ Fields(RequestUints, OptionalInteger) @@
     Fields(RequestFlags, BooleanSchema) @@
     [size |-> [type |-> {"integer"}, minimum |-> 1],
      required_page_size_relation |-> Enum(Relations),
      eof_access_extent |-> Enum(EofExtents),
      protection |-> ProtectionSchema, displacement_reference |-> StringSchema]]

RequirementSchema ==
  [type |-> {"object"},
   required |-> {"schema", "operation", "assumption_evidence", "request"},
   properties |->
     [schema |-> [const |-> Str(kRequirementSchema)],
      name |-> StringSchema, component |-> StringSchema,
      operation |-> Enum(Operations), assumption_evidence |-> EvidenceSchema,
      request |-> RequestSchema,
      assumptions |-> [type |-> {"object"},
                       properties |-> Fields(AssumptionUints, OptionalInteger) @@
                                      Fields(AssumptionFlags, BooleanSchema)],
      required_postconditions |-> StringsSchema,
      permitted_fallbacks |-> [type |-> {"array"}, items |-> Enum(Fallbacks)],
      failure_sink |->
        [type |-> {"object"}, required |-> {"kind"},
         properties |-> [kind |-> Enum(SinkKinds),
                         location |-> [anyOf |-> {SourceLocationSchema, [type |-> {"null"}]}]]],
      source_locations |-> [type |-> {"array"}, items |-> SourceLocationSchema],
      extraction_limitations |-> StringsSchema]]

-----------------------------------------------------------------------------
(* Requirement::from_json.                                                 *)

read_name(v, key, names, default) ==
  LET name == Default(v, key, Str(default))
  IN Read(is_string(name) /\ as_string(name) \in names, as_string(name))

read_eof_access_extent(req) ==
  IF Given(req, "eof_access_extent")
    THEN read_name(req, "eof_access_extent", EofExtents, "")
    ELSE Read(TRUE, "whole_page_past_end")

read_size(req) ==
  LET size == IF has(req, "size") THEN read_uint(at(req, "size")) ELSE Refused
  IN Read(size.ok /\ size.value > 0, size.value)

read_protection(req) ==
  IF ~Given(req, "protection") THEN Read(TRUE, Fields(ProtectionFlags, FALSE))
  ELSE LET prot == at(req, "protection")
           flags == ReadAll([flag \in ProtectionFlags |-> read_flag(prot, flag)])
       IN Read(is_object(prot) /\ flags.ok, flags.value)

\* The one field that is skipped if it is no string; the schema stands before it.
read_reference(req) ==
  LET reference == Default(req, "displacement_reference", Empty)
  IN IF is_string(reference) THEN reference ELSE Empty

address_if_exact(fields) ==
  Read(fields.ok /\ (fields.value.exact_address_required => fields.value.address # Absent),
       [fields.value EXCEPT !.file_offset = IF @ = Absent THEN 0 ELSE @])

read_request(req) ==
  address_if_exact(ReadAll(
        [key \in RequestAddresses |-> read_optional_address(req, key)] @@
        [key \in RequestUints |-> read_optional_uint(req, key)] @@
        [key \in RequestFlags |-> read_flag(req, key)] @@
        [size |-> read_size(req), protection |-> read_protection(req),
         eof_access_extent |-> read_eof_access_extent(req),
         displacement_reference |-> Read(TRUE, read_reference(req)),
         required_page_size_relation |->
           IF Given(req, "required_page_size_relation")
             THEN read_name(req, "required_page_size_relation", Relations, "")
             ELSE Read(TRUE, "equal")]))

read_assumptions(v) ==
  LET a == Default(v, "assumptions", Nothing)
  IN ReadAll([key \in AssumptionUints |-> read_optional_uint(a, key)] @@
             [key \in AssumptionFlags |-> read_flag(a, key)])

read_source_location(v) ==
  LET Of(key, default) == IF Given(v, key) THEN at(v, key) ELSE default
      fields == [file |-> Of("file", Empty), line |-> Of("line", Num(0)),
                 symbol |-> Of("symbol", Empty)]
  IN Read(/\ is_object(v) /\ is_string(fields.file) /\ is_string(fields.symbol)
          /\ read_uint(fields.line).ok,
          Obj([file |-> fields.file, line |-> fields.line] @@
              (IF fields.symbol = Empty THEN <<>> ELSE [symbol |-> fields.symbol])))

read_failure_sink(v) ==
  LET sink == at(v, "failure_sink")
      location == IF Given(sink, "location") THEN read_source_location(at(sink, "location"))
                  ELSE Read(TRUE, Null)
  IN IF ~has(v, "failure_sink")
     THEN Read(TRUE, [kind |-> "unknown", description |-> Empty, location |-> Null])
     ELSE ReadAll([kind |-> read_name(sink, "kind", SinkKinds, ""),
                   description |-> read_string(sink, "description"),
                   location |-> location])

read_fallbacks(v) ==
  LET list == Default(v, "permitted_fallbacks", Arr(<<>>))
  IN Read(is_array(list) /\ \A i \in DOMAIN list[2] : as_string(list[2][i]) \in Fallbacks, list)

read_source_locations(v) ==
  LET list == Default(v, "source_locations", Arr(<<>>))
  IN Read(is_array(list) /\ \A i \in DOMAIN list[2] : read_source_location(list[2][i]).ok,
          Arr([i \in DOMAIN list[2] |-> read_source_location(list[2][i]).value]))

collect_unrecognized(v) ==
  LET Unknown(keys, known) == keys \ (known \cup Extensions)
  IN Unknown(DOMAIN v[2], KnownTopLevel) \cup
     Unknown(DOMAIN at(v, "request")[2], KnownRequest) \cup
     Unknown(DOMAIN Default(v, "assumptions", Nothing)[2], KnownAssumptions)

read_evidence(v) ==
  LET classes == IF has(v, "assumption_evidence")
                   THEN evidence_class_from_string(at(v, "assumption_evidence")) ELSE {}
  IN IF classes = {} THEN Refused ELSE Read(TRUE, CHOOSE class \in classes : TRUE)

\* Mutant: the gate is gone and the readers are left to themselves.
validate_requirement_Skipped(v) == is_object(v) /\ has(v, "request")

validate_requirement(v) == check(v, RequirementSchema)

\* The published schema first, over the whole document, and then each field.
requirement_from_json(v) ==
  IF ~validate_requirement(v) THEN Refused
  ELSE Whole(ReadAll(
             [name |-> read_string(v, "name"), component |-> read_string(v, "component"),
              operation |-> read_name(v, "operation", Operations, ""),
              request |-> read_request(at(v, "request")),
              assumptions |-> read_assumptions(v),
              required_postconditions |-> read_string_array_field(v, "required_postconditions"),
              permitted_fallbacks |-> read_fallbacks(v),
              failure_sink |-> read_failure_sink(v),
              source_locations |-> read_source_locations(v),
              assumption_evidence |-> read_evidence(v),
              extraction_limitations |-> read_string_array_field(v, "extraction_limitations"),
              unrecognized_fields |-> Read(TRUE, collect_unrecognized(v))]))

-----------------------------------------------------------------------------
(* Requirement::to_json and what an analysis is asked.                     *)

OrNull(v, value) == IF value = Absent THEN Null ELSE v

Optional(fields, keys, Written(_)) ==
  [key \in keys |-> OrNull(Written(fields[key]), fields[key])]

Flags(fields, keys) == [key \in keys |-> Bool(fields[key])]

request_to_json(f) ==
  Obj(Optional(f, RequestAddresses, Hex) @@
      Optional(f, RequestUints, Num) @@ Flags(f, RequestFlags) @@
      [size |-> Num(f.size), displacement_reference |-> f.displacement_reference,
       required_page_size_relation |-> Str(f.required_page_size_relation),
       eof_access_extent |-> Str(f.eof_access_extent),
       protection |-> Obj(Flags(f.protection, ProtectionFlags))])

requirement_to_json(r) ==
  Obj([schema |-> Str(kRequirementSchema), name |-> r.name, component |-> r.component,
       operation |-> Str(r.operation), request |-> request_to_json(r.request),
       assumptions |-> Obj(Optional(r.assumptions, AssumptionUints, Num) @@
                           Flags(r.assumptions, AssumptionFlags)),
       required_postconditions |-> r.required_postconditions,
       permitted_fallbacks |-> r.permitted_fallbacks,
       failure_sink |-> Obj([kind |-> Str(r.failure_sink.kind),
                             location |-> r.failure_sink.location,
                             description |-> r.failure_sink.description]),
       source_locations |-> r.source_locations,
       assumption_evidence |-> EvidenceName(r.assumption_evidence),
       extraction_limitations |-> r.extraction_limitations])

requirement_id(r) == Sha(requirement_to_json(r))

\* The requirement as the rules of the analyzer read it.
AnalysisRequest(r) ==
  LET f == r.request
  IN [operation |-> "virtual_memory", address |-> f.address, size |-> f.size,
      exact_address_required |-> f.exact_address_required,
      identity_required |-> r.assumptions.guest_host_identity_required,
      translation_available |-> r.assumptions.translation_layer_available,
      relocate |-> \E i \in DOMAIN r.permitted_fallbacks[2] :
                     as_string(r.permitted_fallbacks[2][i]) = "relocate",
      validates_returned_address |-> f.validates_returned_address,
      retries_on_failure |-> r.assumptions.retries_on_failure,
      write |-> f.protection.write, execute |-> f.protection.execute,
      write_then_execute |-> f.write_then_execute,
      simultaneous_write_execute |-> f.simultaneous_write_execute,
      reserve_then_commit |-> f.reserve_then_commit,
      commit_is_checked_call |-> f.commit_is_checked_call,
      file_backed |-> f.file_backed, file_length |-> f.file_length,
      file_offset |-> f.file_offset, accesses_beyond_eof |-> f.accesses_beyond_eof,
      within_final_page |-> f.eof_access_extent = "within_final_partial_page",
      address_min |-> f.address_min, address_max |-> f.address_max,
      max_displacement |-> f.max_displacement_bytes # Absent,
      required_alignment |-> f.required_alignment,
      required_page_size |-> f.required_page_size,
      page_size_relation |-> f.required_page_size_relation,
      relies_on_unmapped_beyond_size |-> f.relies_on_unmapped_beyond_size,
      pointer_width |-> r.assumptions.pointer_storage_width_bits,
      sink |-> r.failure_sink.kind, assumption_evidence |-> r.assumption_evidence,
      limitations |-> r.unrecognized_fields \cup
                      {as_string(r.extraction_limitations[2][i]) :
                         i \in DOMAIN r.extraction_limitations[2]}]

-----------------------------------------------------------------------------
(* load_requirements: a lone requirement is a bundle of one.               *)

RequirementBundle(requirements, rejected) ==
  [requirements |-> requirements, rejected |-> rejected]

\* The usable items, in order; the others are counted.
load_items(items) ==
  LET Usable(item) == item.ok
      usable == SelectSeq(items, Usable)
  IN RequirementBundle([i \in DOMAIN usable |-> usable[i].value], Len(items) - Len(usable))

\* What a document holds, if it is a document of requirements.
ItemsOf(v) ==
  LET schema == as_string(Default(v, "schema", Empty))
      list == Default(v, "requirements", Null)
  IN IF schema = kRequirementSchema THEN {<<v>>}
     ELSE IF schema = kRequirementBundleSchema /\ is_array(list) THEN {list[2]}
     ELSE {}

\* An unusable requirement is left out of a bundle, but refused on its own.
load_bundle(v, bundle) ==
  IF bundle.rejected > 0 /\ as_string(at(v, "schema")) = kRequirementSchema
    THEN Refused
    ELSE Read(TRUE, bundle)

load_requirements(v) ==
  IF ItemsOf(v) = {} THEN Refused
  ELSE LET items == CHOOSE items \in ItemsOf(v) : TRUE
       IN load_bundle(v, load_items([i \in DOMAIN items |-> requirement_from_json(items[i])]))
=============================================================================
