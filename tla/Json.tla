-------------------------------- MODULE Json --------------------------------
(***************************************************************************)
(* JSON documents and the schemas they are checked against:                *)
(* src/src/core/json.cpp, src/src/core/schema.cpp and the schemas of       *)
(* src/schemas/.  A document is the value its text parses to, a pair of a  *)
(* type and a content; text and its parsing are left out, and a text that  *)
(* does not parse is Garbage.                                              *)
(*                                                                         *)
(* Of a string a reader asks what it names, so strings are of four kinds:  *)
(* names; hexadecimal numbers ("0x1f"), which may be larger than a word;   *)
(* digests; and texts of documents, which are arguments of requests.       *)
(***************************************************************************)
EXTENDS Evidence, AddressRange

Null == <<"null">>
Bool(b) == <<"bool", b>>
Num(n) == <<"int", n>>             \* Type::Int and Type::UInt
Double == <<"double">>
Str(name) == <<"string", name>>
Hex(n) == <<"hex", n>>
Sha(content) == <<"sha256", content>>
Text(document) == <<"text", document>>
Arr(items) == <<"array", items>>
Obj(fields) == <<"object", fields>>
Nothing == Obj([key \in {} |-> Null])
Garbage == <<"garbage">>

is_null(v) == v = Null
is_bool(v) == v[1] = "bool"
is_integer(v) == v[1] = "int"
is_number(v) == v[1] \in {"int", "double"}
is_string(v) == v[1] \in {"string", "hex", "sha256", "text"}
is_array(v) == v[1] = "array"
is_object(v) == v[1] = "object"

\* Value::find, in its two uses: is there such a field, and its value.
has(v, key) == is_object(v) /\ key \in DOMAIN v[2]
at(v, key) == v[2][key]
Given(v, key) == has(v, key) /\ ~is_null(at(v, key))
Default(v, key, default) == IF has(v, key) THEN at(v, key) ELSE default

\* What the string names; nothing a reader knows, if it is no name.
as_string(v) == IF v[1] = "string" THEN v[2] ELSE ""
Empty == Str("")

\* The number a string writes, if it is one and fits a word.
from_hex(v) == IF v[1] = "hex" /\ v[2] <= WordMax THEN {v[2]} ELSE {}

\* Floating point has no canonical form, and neither has what contains it.
RECURSIVE Canonical(_)
Canonical(v) ==
  CASE v[1] = "double" -> FALSE
    [] is_array(v) -> \A i \in DOMAIN v[2] : Canonical(v[2][i])
    [] is_object(v) -> \A key \in DOMAIN v[2] : Canonical(v[2][key])
    [] OTHER -> TRUE

-----------------------------------------------------------------------------
(* The schema evaluator.  A schema is a record of keywords, with a $ref     *)
(* replaced by what it refers to; "type" and additionalProperties are sets, *)
(* of alternatives and of schemas, and no schema means false.               *)

matches_type(v, type) ==
  CASE type = "object" -> is_object(v)
    [] type = "array" -> is_array(v)
    [] type = "string" -> is_string(v)
    [] type = "boolean" -> is_bool(v)
    [] type = "null" -> is_null(v)
    [] type = "integer" -> is_integer(v)

check_type(v, s) ==
  "type" \in DOMAIN s => \E type \in s.type : matches_type(v, type)

\* Constants, bounds and patterns; a pattern is the kind of string it describes.
check_scalar(v, s) ==
  /\ "const" \in DOMAIN s => v = s.const
  /\ "enum" \in DOMAIN s => v \in s.enum
  /\ "pattern" \in DOMAIN s /\ is_string(v) => v[1] = s.pattern
  /\ "minimum" \in DOMAIN s /\ is_integer(v) => v[2] >= s.minimum

RECURSIVE check(_, _)

check_object(v, s) ==
  is_object(v) =>
    /\ "required" \in DOMAIN s => s.required \subseteq DOMAIN v[2]
    /\ \A key \in DOMAIN v[2] :
         IF "properties" \in DOMAIN s /\ key \in DOMAIN s.properties
         THEN check(v[2][key], s.properties[key])
         ELSE "additionalProperties" \in DOMAIN s =>
                \E extra \in s.additionalProperties : check(v[2][key], extra)

check(v, s) ==
  /\ check_type(v, s)
  /\ check_scalar(v, s)
  /\ check_object(v, s)
  /\ "items" \in DOMAIN s /\ is_array(v) =>
       \A i \in DOMAIN v[2] : check(v[2][i], s.items)
  /\ "anyOf" \in DOMAIN s => \E option \in s.anyOf : check(v, option)
  /\ "if" \in DOMAIN s => (check(v, s.if) => check(v, s.then))

-----------------------------------------------------------------------------
(* Parts of schemas that several documents share.                          *)

StringSchema == [type |-> {"string"}]
BooleanSchema == [type |-> {"boolean"}]
StringsSchema == [type |-> {"array"}, items |-> StringSchema]
Enum(names) == [enum |-> {Str(name) : name \in names}]
OptionalInteger == [type |-> {"integer", "null"}, minimum |-> 0]
OptionalAddress == [type |-> {"string", "integer", "null"}, minimum |-> 0, pattern |-> "hex"]

EvidenceNames == <<"specified_guarantee", "measured_capability", "statically_inferred",
  "bounded_counterexample", "observed_invariant", "heuristic_risk", "unknown">>
EvidenceSchema == Enum({EvidenceNames[i] : i \in DOMAIN EvidenceNames})

\* evidence_class_from_string and to_string; the first is a set of at most one.
evidence_class_from_string(v) ==
  {i - 1 : i \in {j \in DOMAIN EvidenceNames : v = Str(EvidenceNames[j])}}
EvidenceName(class) == Str(EvidenceNames[class + 1])

-----------------------------------------------------------------------------
(* What a reader makes of a field: whether it accepts it, and the value.   *)

Read(ok, value) == [ok |-> ok, value |-> value]
Refused == Read(FALSE, Absent)

read_uint(v) == IF is_integer(v) /\ v[2] >= 0 THEN Read(TRUE, v[2]) ELSE Refused

\* An address is a number, or the hexadecimal of one.
read_address(v) ==
  IF is_string(v) /\ from_hex(v) # {}
    THEN Read(TRUE, CHOOSE n \in from_hex(v) : TRUE)
    ELSE read_uint(v)

read_optional_uint(v, key) ==
  IF Given(v, key) THEN read_uint(at(v, key)) ELSE Read(TRUE, Absent)

read_optional_address(v, key) ==
  IF Given(v, key) THEN read_address(at(v, key)) ELSE Read(TRUE, Absent)

\* A flag that is absent keeps its default; null is no way to leave it out.
read_flag(v, key) ==
  IF ~has(v, key) THEN Read(TRUE, FALSE)
  ELSE IF is_bool(at(v, key)) THEN Read(TRUE, at(v, key)[2])
  ELSE Refused

\* Where the document may leave a string out, or an array of them.
read_string(v, key) ==
  LET string == Default(v, key, Empty) IN Read(is_string(string), string)

read_string_array_field(v, key) ==
  LET list == Default(v, key, Arr(<<>>))
  IN Read(is_array(list) /\ \A i \in DOMAIN list[2] : is_string(list[2][i]), list)

\* A record of fields, if each is accepted.
ReadAll(fields) ==
  Read(\A key \in DOMAIN fields : fields[key].ok,
       [key \in DOMAIN fields |-> fields[key].value])

\* A reader that stops at the first field it refuses has no value.
Whole(read) == IF read.ok THEN read ELSE Refused
=============================================================================
