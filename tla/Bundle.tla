------------------------------- MODULE Bundle -------------------------------
(***************************************************************************)
(* Evidence bundles, src/src/reports/bundle.cpp: what is written, what the *)
(* manifest records of it, and what a replay compares.  The steps between  *)
(* reading and writing are those of the module Toolchain.                  *)
(***************************************************************************)
EXTENDS Impact, FiniteSets

kProfileFile == "environment_profile.json"
kRequirementFile == "application_requirements.json"
kFindingsFile == "findings.json"
kReportFile == "report.md"
kHashesFile == "hashes.txt"
kManifest == "manifest.json"
Sealed == {kProfileFile, kRequirementFile, kFindingsFile, kReportFile}

Missing == <<"missing">>    \* the text of a file that is not there

Write(path, text) == [path |-> path, text |-> text]

\* A rendered report is what it is rendered from.
Rendered(format, run) == <<"rendered", <<format, run.overall, run.ids>>>>

\* The inputs go in verbatim.
Contents(requirement_text, profile_text, run) ==
  <<Write(kProfileFile, profile_text), Write(kRequirementFile, requirement_text),
    Write(kFindingsFile, Rendered("json", run)), Write(kReportFile, Rendered("markdown", run))>>

\* The files in the order in which they are written; the manifest follows later.
FilesOf(requirement_text, profile_text, run) ==
  LET files == Contents(requirement_text, profile_text, run)
  IN Append(files, Write(kHashesFile, <<"rendered", [i \in DOMAIN files |-> Sha(files[i].text)]>>))

SameVerdict(run, other) == run.overall = other.overall /\ run.ids = other.ids

-----------------------------------------------------------------------------
(* The manifest.                                                           *)

LevelName(level) == Str(SupportLevelNames[level + 1])
Hashed(name, text) == Obj([file |-> Str(name), sha256 |-> Sha(text)])

FindingName(id) == "RS-VM-" \o ToString(id)

\* Finding ids are a set in a run and a sorted array in the manifest.
IdArray(ids) ==
  LET Nth(i) == CHOOSE id \in ids : Cardinality({other \in ids : other < id}) = i - 1
  IN Arr([i \in 1 .. Cardinality(ids) |-> Str(FindingName(Nth(i)))])

Manifest(requirement_text, profile_text, run, unknowns, reproduced) ==
  LET files == Contents(requirement_text, profile_text, run)
  IN Obj([schema |-> Str("runtime-skeptic.analysis-bundle.v1"),
          host |-> Obj([profile_id |-> profile_id(profile_from_json(profile_text).value)]),
          analysis_options |-> Obj([report_unknowns |-> Bool(unknowns)]),
          inputs |-> Obj([requirement |-> Hashed(kRequirementFile, requirement_text),
                          profile |-> Hashed(kProfileFile, profile_text)]),
          outputs |-> Obj([findings |-> Hashed(kFindingsFile, files[3].text),
                           report |-> Hashed(kReportFile, files[4].text)]),
          overall |-> LevelName(run.overall), finding_ids |-> IdArray(run.ids),
          replay |-> Obj([status |-> Str(IF reproduced THEN "reproduced" ELSE "diverged")])])

HashedFileSchema ==
  [type |-> {"object"}, required |-> {"file", "sha256"},
   properties |-> [file |-> StringSchema,
                   sha256 |-> [type |-> {"string"}, pattern |-> "sha256"]]]

SectionSchema(keys) ==
  [type |-> {"object"}, required |-> keys, additionalProperties |-> {},
   properties |-> Fields(keys, HashedFileSchema)]

ManifestSchema ==
  [type |-> {"object"}, additionalProperties |-> {},
   required |-> {"schema", "host", "analysis_options", "inputs", "outputs", "overall",
                 "finding_ids", "replay"},
   properties |->
     [schema |-> [const |-> Str("runtime-skeptic.analysis-bundle.v1")],
      host |-> [type |-> {"object"}, required |-> {"profile_id"},
                properties |-> [profile_id |-> [type |-> {"string"}, pattern |-> "sha256"]]],
      analysis_options |-> [type |-> {"object"}, required |-> {"report_unknowns"},
                            properties |-> [report_unknowns |-> BooleanSchema]],
      inputs |-> SectionSchema({"requirement", "profile"}),
      outputs |-> SectionSchema({"findings", "report"}),
      overall |-> Enum({SupportLevelNames[i] : i \in DOMAIN SupportLevelNames}),
      finding_ids |-> [type |-> {"array"}, items |-> StringSchema],
      replay |-> [type |-> {"object"}, required |-> {"status"},
                  properties |-> [status |-> Enum({"reproduced", "diverged"})]]]]

-----------------------------------------------------------------------------
(* replay_bundle.                                                          *)

\* The node of the manifest for each sealed file.
NodeOf(m, name) ==
  CASE name = kRequirementFile -> at(at(m, "inputs"), "requirement")
    [] name = kProfileFile -> at(at(m, "inputs"), "profile")
    [] name = kFindingsFile -> at(at(m, "outputs"), "findings")
    [] name = kReportFile -> at(at(m, "outputs"), "report")

\* Mutant: an earlier version, which hashes the file that the manifest names.
check_hash_Follows(m, name, texts) ==
  LET node == NodeOf(m, name)
      named == as_string(at(node, "file"))
  IN named \in DOMAIN texts /\ texts[named] # Missing /\ Sha(texts[named]) = at(node, "sha256")

\* The canonical file, which the manifest has to name, has the recorded hash.
check_hash(m, name, texts) ==
  LET node == NodeOf(m, name)
  IN /\ as_string(at(node, "file")) = name
     /\ texts[name] # Missing /\ Sha(texts[name]) = at(node, "sha256")

Replayable(m) == m \notin {Missing, Garbage} /\ check(m, ManifestSchema)

Replayed(m, hashed, run) ==
  LET tampered == {name \in Sealed : ~check_hash(m, name, hashed)}
  IN IF ~run.ok THEN Refused
     ELSE Read(TRUE, [tampered |-> tampered, run |-> run.value,
                      reproduced |-> /\ tampered = {}
                                     /\ LevelName(run.value.overall) = at(m, "overall")
                                     /\ IdArray(run.value.ids) = at(m, "finding_ids")])

\* What the replay finds, from the texts it hashed and those it analysed.
ReplayOutcome(m, hashed, requirement_text, profile_text) ==
  LET unknowns == at(at(m, "analysis_options"), "report_unknowns")[2]
  IN IF ~Replayable(m) \/ Missing \in {requirement_text, profile_text} THEN Refused
     ELSE Replayed(m, hashed, run_analysis(requirement_text, profile_text, unknowns))
=============================================================================
