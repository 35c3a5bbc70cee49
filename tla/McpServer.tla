------------------------------ MODULE McpServer ------------------------------
(***************************************************************************)
(* The server that answers an agent's messages, one line each way:         *)
(* src/src/server/mcp_server.cpp.  A message is a document, and a reply is *)
(* a record of the id it answers, an error code (0 for a result) and what  *)
(* it carries; prose for people is left out.  "texts" is what the paths    *)
(* that a message names hold, and "probed" is what a probe of this host    *)
(* finds.                                                                  *)
(***************************************************************************)
EXTENDS Bundle

ParseError == -32700
InvalidRequest == -32600
MethodNotFound == -32601
InvalidParams == -32602
Unserializable == -32603

Reply(id, error, result) == [id |-> id, error |-> error, result |-> result]
make_response(id, result) == Reply(id, 0, result)
make_error(id, code) == Reply(id, code, <<>>)
NoReply == {}

\* Mutant: an earlier version, which takes every word that is not "true" for false.
read_bool_arg_Coerces(args, key, fallback) ==
  LET v == at(args, key)
  IN IF ~Given(args, key) THEN Read(TRUE, fallback)
     ELSE IF is_bool(v) THEN Read(TRUE, v[2])
     ELSE Read(TRUE, as_string(v) \in {"true", "1", "yes"})

\* A flag may be a boolean or a word for one; nothing else is taken for false.
read_bool_arg(args, key, fallback) ==
  LET v == at(args, key)
  IN CASE ~Given(args, key) -> Read(TRUE, fallback)
       [] Given(args, key) /\ is_bool(v) -> Read(TRUE, v[2])
       [] Given(args, key) /\ as_string(v) \in {"true", "1", "yes"} -> Read(TRUE, TRUE)
       [] Given(args, key) /\ as_string(v) \in {"false", "0", "no"} -> Read(TRUE, FALSE)
       [] OTHER -> Refused

\* An empty string is no argument.
string_arg(args, key) == has(args, key) /\ is_string(at(args, key)) /\ at(args, key) # Empty

\* A document comes with the message or from a path; the message wins.
load_document(args, path_key, inline_key, texts) ==
  LET inline == at(args, inline_key)
      path == as_string(at(args, path_key))
      text == IF string_arg(args, inline_key)
                THEN IF inline[1] = "text" THEN inline[2] ELSE Garbage
              ELSE IF string_arg(args, path_key) /\ path \in DOMAIN texts THEN texts[path]
              ELSE Missing
  IN IF text \in {Missing, Garbage} THEN Refused ELSE Read(TRUE, text)

-----------------------------------------------------------------------------
(* The tools.                                                              *)

ProbeOptions == {"scan_address_space", "faulting_tests"}

\* The profile the host is given: its name is the caller's, or the default.
NamedProfile(args, probed) ==
  [probed EXCEPT !.profile_name =
     IF string_arg(args, "name") THEN at(args, "name") ELSE Str("os-arch")]

run_probe_host(id, args, probed) ==
  IF \E key \in ProbeOptions : ~read_bool_arg(args, key, TRUE).ok
    THEN make_error(id, InvalidParams)
    ELSE make_response(id, [profile |-> profile_to_json(NamedProfile(args, probed))])

verdict_response(id, analysis, origin) ==
  make_response(id, [verdict |-> analysis.overall, exit_code |-> exit_code_for(analysis.overall),
                     ids |-> finding_ids(analysis), measured |-> origin = "measured"])

check_loaded(id, args, requirement, profile) ==
  LET unknowns == read_bool_arg(args, "report_unknowns", TRUE)
      format == IF string_arg(args, "format") THEN as_string(at(args, "format")) ELSE "json"
  IN IF ~requirement.ok \/ ~profile.ok \/ ~unknowns.ok THEN make_error(id, InvalidParams)
     ELSE IF format \notin {"json", "markdown", "text"} THEN make_error(id, InvalidParams)
     ELSE verdict_response(id, analyze(requirement.value, profile.value, unknowns.value),
                           profile.value.origin)

run_check_requirement(id, args, texts) ==
  LET requirement_doc == load_document(args, "requirement_path", "requirement_json", texts)
      profile_doc == load_document(args, "profile_path", "profile_json", texts)
  IN IF ~requirement_doc.ok \/ ~profile_doc.ok THEN make_error(id, InvalidParams)
     ELSE check_loaded(id, args, requirement_from_json(requirement_doc.value),
                       profile_from_json(profile_doc.value))

\* The facts of a profile, the known and all of them.
Facts == MemoryFacts \cup ProtectionFacts
KnownFacts(profile) == {fact \in Facts : is_known(profile.vm[fact])}

verify_loaded(id, profile) ==
  IF ~profile.ok THEN make_response(id, [valid |-> FALSE])
  ELSE make_response(id,
         [valid |-> TRUE, profile_id |-> profile_id(profile.value),
          canonical_form_stable |-> Canonical(profile_to_json(profile.value)),
          facts_known |-> Cardinality(KnownFacts(profile.value)),
          facts_unknown |-> Cardinality(Facts \ KnownFacts(profile.value))])

run_verify_profile(id, args, texts) ==
  LET doc == load_document(args, "profile_path", "profile_json", texts)
  IN IF ~doc.ok THEN make_error(id, InvalidParams)
     ELSE verify_loaded(id, profile_from_json(doc.value))

\* The paths at which two documents differ.
RECURSIVE diff_values(_, _, _)
diff_values(a, b, path) ==
  IF (is_object(a) /\ is_object(b)) \/ (is_array(a) /\ is_array(b))
  THEN LET both == DOMAIN a[2] \cap DOMAIN b[2]
           either == DOMAIN a[2] \cup DOMAIN b[2]
       IN UNION {diff_values(a[2][key], b[2][key], Append(path, key)) : key \in both}
          \cup {Append(path, key) : key \in either \ both}
  ELSE IF a = b THEN {} ELSE {path}

Differences(a, b) == diff_values(facts_json(a), facts_json(b), <<>>)

diff_loaded(id, a, b) ==
  IF ~a.ok \/ ~b.ok THEN make_error(id, InvalidParams)
  ELSE make_response(id, [same_id |-> profile_id(a.value) = profile_id(b.value),
                          identical |-> Differences(a.value, b.value) = {}])

run_diff_profiles(id, args, texts) ==
  LET a_doc == load_document(args, "a_path", "a_json", texts)
      b_doc == load_document(args, "b_path", "b_json", texts)
  IN IF ~a_doc.ok \/ ~b_doc.ok THEN make_error(id, InvalidParams)
     ELSE diff_loaded(id, profile_from_json(a_doc.value), profile_from_json(b_doc.value))

finding_registry == {FindingName(id) : id \in 1 .. 27}

run_describe_findings(id, args) ==
  LET wanted == IF string_arg(args, "id") THEN {as_string(at(args, "id"))} ELSE finding_registry
  IN IF wanted \subseteq finding_registry
       THEN make_response(id, [findings |-> wanted])
       ELSE make_error(id, InvalidParams)

-----------------------------------------------------------------------------
(* The protocol.                                                           *)

Tools == {"probe_host", "check_requirement", "verify_profile", "diff_profiles",
          "describe_findings"}

handle_tools_list(id) == make_response(id, [tools |-> Tools])

handle_initialize(id) == make_response(id, [capabilities |-> {"tools"}])

handle_tools_call(id, message, texts, probed) ==
  LET params == Default(message, "params", Nothing)
      name == Default(params, "name", Null)
      args == Default(params, "arguments", Nothing)
  IN IF ~is_string(name) THEN make_error(id, InvalidParams)
     ELSE CASE as_string(name) = "probe_host" -> run_probe_host(id, args, probed)
            [] as_string(name) = "check_requirement" -> run_check_requirement(id, args, texts)
            [] as_string(name) = "verify_profile" -> run_verify_profile(id, args, texts)
            [] as_string(name) = "diff_profiles" -> run_diff_profiles(id, args, texts)
            [] as_string(name) = "describe_findings" -> run_describe_findings(id, args)
            [] OTHER -> make_error(id, InvalidParams)

\* A reply that has no canonical form is replaced by one that says so.
serialize(reply) == IF Canonical(reply.id) THEN reply ELSE make_error(Null, Unserializable)

handle_method(id, message, texts, probed) ==
  LET method == as_string(at(message, "method"))
  IN CASE method = "initialize" -> handle_initialize(id)
       [] method = "ping" -> make_response(id, <<>>)
       [] method = "tools/list" -> handle_tools_list(id)
       [] method = "tools/call" -> handle_tools_call(id, message, texts, probed)
       [] OTHER -> make_error(id, MethodNotFound)

WellVersioned(message) ==
  /\ as_string(Default(message, "jsonrpc", Null)) = "2.0"
  /\ is_string(Default(message, "method", Null))

Requested(message) ==
  LET id == at(message, "id")
  IN /\ message # Garbage /\ is_object(message) /\ has(message, "id")
     /\ is_string(id) \/ is_number(id) \/ is_null(id)

\* Mutant: a notification is answered, with a null id.
handle_mcp_message_Answers(message, texts, probed) ==
  LET id == Default(message, "id", Null)
  IN IF message = Garbage THEN {make_error(Null, ParseError)}
     ELSE IF ~is_object(message) THEN {make_error(Null, InvalidRequest)}
     ELSE IF has(message, "id") /\ ~Requested(message) THEN {make_error(Null, InvalidRequest)}
     ELSE IF WellVersioned(message) THEN {serialize(handle_method(id, message, texts, probed))}
     ELSE {serialize(make_error(id, InvalidRequest))}

\* The replies to a message, at most one: a notification gets none, whatever
\* is wrong with it.
handle_mcp_message(message, texts, probed) ==
  LET id == at(message, "id")
  IN IF message = Garbage THEN {make_error(Null, ParseError)}
     ELSE IF ~is_object(message) THEN {make_error(Null, InvalidRequest)}
     ELSE IF ~has(message, "id") THEN NoReply
     ELSE IF ~Requested(message) THEN {make_error(Null, InvalidRequest)}
     ELSE IF WellVersioned(message) THEN {serialize(handle_method(id, message, texts, probed))}
     ELSE {serialize(make_error(id, InvalidRequest))}
=============================================================================
