------------------------------ MODULE Toolchain ------------------------------
(***************************************************************************)
(* The command line tools and the server, over the files they share:       *)
(* rs-check, rs-replay, rs-profile, rs-validate and rs-env-probe of        *)
(* src/tools, with src/src/core/io.cpp and the steps of                    *)
(* src/src/reports/bundle.cpp and src/src/server/mcp_server.cpp.  Every    *)
(* read and write of a file is a step of its own, and others may change    *)
(* the files between any two.                                              *)
(***************************************************************************)
EXTENDS McpServer

CONSTANTS
  Processes,    \* invocations that run side by side
  Probed,       \* the profile a probe of this host finds
  Scenarios     \* what to begin with: the files, what each process runs, what
                \* others may write, and two bounds: the times they do so, and
                \* the failed calls and kills

Stdout == "-"

\* The commands.
Check(requirement, profile, output, bundle, unknowns) ==
  [tool |-> "check", requirement |-> requirement, profile |-> profile,
   output |-> output, bundle |-> bundle, unknowns |-> unknowns]
Replay == [tool |-> "replay"]
Verify(path) == [tool |-> "verify", path |-> path]
Id(path) == [tool |-> "id", path |-> path]
Diff(a, b) == [tool |-> "diff", a |-> a, b |-> b]
ImpactOf(before, after, contracts) ==
  [tool |-> "impact", before |-> before, after |-> after, contracts |-> contracts]
Validate(schema, path) == [tool |-> "validate", schema |-> schema, path |-> path]
Probe(output) == [tool |-> "probe", output |-> output]
Message(message) == [tool |-> "mcp", message |-> message]

VARIABLES
  disk,      \* path -> text; a path that is not there has no file
  procs,     \* process -> its invocation and those that follow
  sealed,    \* the runs of which a bundle was begun (history)
  rewrites,  \* what others may still do to the files, and whether they did
  faults     \* failures that may still happen

vars == <<disk, procs, sealed, rewrites, faults>>

Killed == -1
NoOutcome == [cmd |-> [tool |-> "none"], got |-> <<>>, exit |-> Killed, found |-> {}]

Resting(script, outcome) ==
  [script |-> script, at |-> "rest", todo |-> <<>>, got |-> <<>>, writes |-> <<>>,
   open |-> FALSE, run |-> <<>>, bundled |-> <<>>, outcome |-> outcome]

Init ==
  \E scenario \in Scenarios :
    /\ disk = scenario.disk
    /\ procs = [p \in Processes |-> Resting(scenario.scripts[p], NoOutcome)]
    /\ sealed = {}
    /\ rewrites = [left |-> scenario.MaxRewrites, choices |-> scenario.rewrites,
                   targets |-> scenario.targets, any |-> FALSE]
    /\ faults = scenario.MaxFaults

Cmd(p) == Head(procs[p].script)

-----------------------------------------------------------------------------
(* Files.                                                                  *)

read_file(path) == IF path \in DOMAIN disk THEN disk[path] ELSE Missing

Stored(path, text) == [name \in DOMAIN disk \cup {path} |->
                         IF name = path THEN text ELSE disk[name]]

ArgumentsOf(message) == Default(Default(message, "params", Nothing), "arguments", Nothing)

\* Where a message says its documents are; a document in the message goes first.
PathsOf(message) ==
  LET args == ArgumentsOf(message)
      sources == <<<<"requirement_path", "requirement_json">>, <<"profile_path", "profile_json">>,
                   <<"a_path", "a_json">>, <<"b_path", "b_json">>>>
      Opened(source) == string_arg(args, source[1]) /\ ~string_arg(args, source[2])
      opened == SelectSeq(sources, Opened)
  IN IF message = Garbage THEN <<>>
     ELSE [i \in DOMAIN opened |-> as_string(at(args, opened[i][1]))]

\* What a command reads first, in order.  A tool that gives up on a file does
\* not read the next; what it would have read changes nothing.
InputPaths(cmd) ==
  CASE cmd.tool = "check" -> <<cmd.requirement, cmd.profile>>
    [] cmd.tool = "replay" -> <<kManifest, kRequirementFile, kProfileFile, kFindingsFile,
                                kReportFile, kProfileFile, kRequirementFile>>
    [] cmd.tool \in {"verify", "id", "validate"} -> <<cmd.path>>
    [] cmd.tool = "diff" -> <<cmd.a, cmd.b>>
    [] cmd.tool = "impact" -> <<cmd.before, cmd.after>> \o cmd.contracts
    [] cmd.tool = "mcp" -> PathsOf(cmd.message)
    [] cmd.tool = "probe" -> <<>>

Start(p) ==
  /\ procs[p].at = "rest" /\ procs[p].script # <<>>
  /\ procs' = [procs EXCEPT ![p].at = "inputs", ![p].todo = InputPaths(Cmd(p)),
                            ![p].outcome = NoOutcome]
  /\ UNCHANGED <<disk, sealed, rewrites, faults>>

ReadNext(p) ==
  /\ procs[p].todo # <<>>
  /\ procs' = [procs EXCEPT ![p].todo = Tail(@),
                            ![p].got = Append(@, read_file(Head(procs[p].todo)))]
  /\ UNCHANGED <<disk, sealed, rewrites, faults>>

\* write_file truncates the file before it writes to it.
OpenNext(p) ==
  /\ procs[p].writes # <<>> /\ ~procs[p].open
  /\ disk' = Stored(Head(procs[p].writes).path, Garbage)
  /\ procs' = [procs EXCEPT ![p].open = TRUE]
  /\ UNCHANGED <<sealed, rewrites, faults>>

FillNext(p) ==
  /\ procs[p].writes # <<>> /\ procs[p].open
  /\ disk' = Stored(Head(procs[p].writes).path, Head(procs[p].writes).text)
  /\ procs' = [procs EXCEPT ![p].open = FALSE, ![p].writes = Tail(@)]
  /\ UNCHANGED <<sealed, rewrites, faults>>

-----------------------------------------------------------------------------
(* The tools that only read: what each finds, and the code it exits with.  *)

Outcome(cmd, got, exit, found) == [cmd |-> cmd, got |-> got, exit |-> exit, found |-> found]

Ends(exit, found) == [exit |-> exit, found |-> found]
GivesUp == Ends(kInput, {})

load_profile(text) ==
  IF text \in {Missing, Garbage} THEN Refused ELSE profile_from_json(text)

\* An id that was stored and is not the one of the facts: someone edited them.
IdMatches(text, p) == has(text, "profile_id") => at(text, "profile_id") = profile_id(p)

command_verify(text, profile) ==
  IF profile.ok /\ IdMatches(text, profile.value) /\ Canonical(profile_to_json(profile.value))
    THEN Ends(0, KnownFacts(profile.value))
    ELSE GivesUp

command_id(profile) == IF profile.ok THEN Ends(0, profile_id(profile.value)) ELSE GivesUp

DiffEnds(differences) == Ends(IF differences = {} THEN 0 ELSE 1, differences)

command_diff(a, b) ==
  IF a.ok /\ b.ok THEN DiffEnds(Differences(a.value, b.value)) ELSE GivesUp

ImpactEnds(report) ==
  Ends(IF report.unreadable > 0 THEN kInput ELSE IF any_regression(report) THEN 1 ELSE 0, report)

command_impact(before, after, texts) ==
  IF before.ok /\ after.ok
    THEN ImpactEnds(compare_contracts(texts, before.value, after.value, TRUE))
    ELSE GivesUp

\* The schemas that rs-validate knows, of those modelled.
Schemas ==
  [application_requirements |-> RequirementSchema, environment_profile |-> ProfileSchema,
   analysis_bundle |-> ManifestSchema]

kUsage == 64

rs_validate(cmd, got) ==
  CASE got[1] \in {Missing, Garbage} -> GivesUp
    [] got[1] \notin {Missing, Garbage} /\ cmd.schema \notin DOMAIN Schemas -> Ends(kUsage, {})
    [] OTHER -> IF check(got[1], Schemas[cmd.schema]) THEN Ends(0, {}) ELSE GivesUp

ReplayEnds(outcome) ==
  IF outcome.ok THEN Ends(IF outcome.value.reproduced THEN 0 ELSE 1, outcome.value) ELSE GivesUp

replay_bundle(got) ==
  LET hashed == [name \in Sealed |->
                   CASE name = kRequirementFile -> got[2] [] name = kProfileFile -> got[3]
                     [] name = kFindingsFile -> got[4] [] name = kReportFile -> got[5]]
  IN ReplayEnds(ReplayOutcome(got[1], hashed, got[7], got[6]))

\* What the paths of a message held when they were read.
TextsOf(message, got) ==
  LET paths == PathsOf(message)
  IN [path \in {paths[i] : i \in DOMAIN paths} |->
        got[CHOOSE i \in DOMAIN paths : paths[i] = path]]

mcp_message(cmd, got) ==
  Ends(0, handle_mcp_message(cmd.message, TextsOf(cmd.message, got), Probed))

Judged(cmd, got) ==
  CASE cmd.tool = "verify" -> command_verify(got[1], load_profile(got[1]))
    [] cmd.tool = "id" -> command_id(load_profile(got[1]))
    [] cmd.tool = "diff" -> command_diff(load_profile(got[1]), load_profile(got[2]))
    [] cmd.tool = "impact" -> command_impact(load_profile(got[1]), load_profile(got[2]),
                                             SubSeq(got, 3, Len(got)))
    [] cmd.tool = "validate" -> rs_validate(cmd, got)
    [] cmd.tool = "replay" -> replay_bundle(got)
    [] cmd.tool = "mcp" -> mcp_message(cmd, got)

\* Whether an invocation has read what it asked for, and written what it had to.
Has(p, stage) == procs[p].at = stage /\ procs[p].todo = <<>> /\ procs[p].writes = <<>>

End(p, exit, found) ==
  procs' = [procs EXCEPT ![p] =
    Resting(Tail(@.script), Outcome(Cmd(p), @.got, exit, found))]

\* The invocation goes on to a stage that reads, writes or both.
GoOn(p, stage, todo, writes) ==
  procs' = [procs EXCEPT ![p].at = stage, ![p].todo = todo, ![p].writes = writes]

\* The path a probe of the server writes its profile to, if the caller names
\* one.  It is written whether or not the reply to the call can be.
OutputOf(message) ==
  LET args == ArgumentsOf(message)
  IN IF /\ Requested(message) /\ WellVersioned(message)
        /\ as_string(at(message, "method")) = "tools/call"
        /\ as_string(Default(Default(message, "params", Nothing), "name", Null)) = "probe_host"
        /\ run_probe_host(Null, args, Probed).error = 0 /\ string_arg(args, "output")
     THEN {as_string(at(args, "output"))} ELSE {}

ProbeReply(message) ==
  {serialize(run_probe_host(at(message, "id"), ArgumentsOf(message), Probed))}

\* A tool that only reads; of the server's, the one that writes comes next.
Finish(p) ==
  /\ Has(p, "inputs") /\ Cmd(p).tool \notin {"check", "probe"}
  /\ Cmd(p).tool = "mcp" => OutputOf(Cmd(p).message) = {}
  /\ \E judged \in {Judged(Cmd(p), procs[p].got)} : End(p, judged.exit, judged.found)
  /\ UNCHANGED <<disk, sealed, rewrites, faults>>

-----------------------------------------------------------------------------
(* The probes: rs-env-probe and the tool of the server.                    *)

ProbeWrites(p) ==
  LET cmd == Cmd(p)
  IN /\ Has(p, "inputs")
     /\ \/ cmd.tool = "probe" /\
             GoOn(p, "output", <<>>, <<Write(cmd.output, profile_to_json(Probed))>>)
        \/ cmd.tool = "mcp" /\ \E path \in OutputOf(cmd.message) :
             GoOn(p, "output", <<>>, <<Write(path, profile_to_json(NamedProfile(ArgumentsOf(cmd.message), Probed)))>>)
     /\ UNCHANGED <<disk, sealed, rewrites, faults>>

ProbeEnds(p) ==
  /\ Has(p, "output") /\ Cmd(p).tool \in {"probe", "mcp"}
  /\ End(p, 0, IF Cmd(p).tool = "mcp" THEN ProbeReply(Cmd(p).message) ELSE {})
  /\ UNCHANGED <<disk, sealed, rewrites, faults>>

-----------------------------------------------------------------------------
(* rs-check: a verdict, a report of it and, if asked for, a bundle.        *)

\* The analysis of what was read, the requirement first.
AnalysisOf(requirement_text, profile_text, unknowns) ==
  IF Missing \in {requirement_text, profile_text} THEN Refused
  ELSE run_analysis(requirement_text, profile_text, unknowns)

\* Nothing is reported of an input that cannot be used.
CheckFails(p, run) == ~run.ok /\ End(p, kInput, {})

CheckReports(p, run) ==
  /\ run.ok
  /\ procs' = [procs EXCEPT ![p].at = "output", ![p].run = run.value,
                 ![p].writes = IF Cmd(p).output = Stdout THEN <<>>
                               ELSE <<Write(Cmd(p).output, Rendered("report", run.value))>>]

CheckJudges(p) ==
  /\ Has(p, "inputs") /\ Cmd(p).tool = "check"
  /\ \E run \in {AnalysisOf(procs[p].got[1], procs[p].got[2], Cmd(p).unknowns)} :
       CheckFails(p, run) \/ CheckReports(p, run)
  /\ UNCHANGED <<disk, sealed, rewrites, faults>>

\* Mutant: what could not be evaluated does not count.
CheckExit_Lenient(run) == exit_code_for(run.overall)

\* A run that skipped a requirement is incomplete, whatever the others came to.
CheckExit(run) == IF run.rejected > 0 THEN kInput ELSE exit_code_for(run.overall)

WantsBundle(p) == Cmd(p).bundle /\ procs[p].run.rejected = 0

CheckEnds(p) ==
  /\ Has(p, "output") /\ Cmd(p).tool = "check" /\ ~WantsBundle(p)
  /\ End(p, CheckExit(procs[p].run), procs[p].run)
  /\ UNCHANGED <<disk, sealed, rewrites, faults>>

\* The bundle takes the inputs as they are now, byte for byte.
CheckRereads(p) ==
  /\ Has(p, "output") /\ Cmd(p).tool = "check" /\ WantsBundle(p)
  /\ GoOn(p, "reread", InputPaths(Cmd(p)), <<>>)
  /\ UNCHANGED <<disk, sealed, rewrites, faults>>

BundleFails(p, run) ==
  /\ ~run.ok
  /\ End(p, kInput, procs[p].run)
  /\ UNCHANGED sealed

BundleBegins(p, run) ==
  /\ run.ok
  /\ procs' = [procs EXCEPT ![p].at = "files", ![p].bundled = run.value,
                 ![p].writes = FilesOf(procs[p].got[3], procs[p].got[4], run.value)]
  /\ sealed' = sealed \cup {[requirement |-> procs[p].got[3], profile |-> procs[p].got[4],
                             run |-> run.value]}

BundleOpens(p) ==
  /\ Has(p, "reread")
  /\ \E run \in {AnalysisOf(procs[p].got[3], procs[p].got[4], Cmd(p).unknowns)} :
       BundleFails(p, run) \/ BundleBegins(p, run)
  /\ UNCHANGED <<disk, rewrites, faults>>

\* It is certified by an analysis of the files, and not of the texts in memory.
BundleRereads(p) ==
  /\ Has(p, "files")
  /\ GoOn(p, "certify", <<kProfileFile, kRequirementFile>>, <<>>)
  /\ UNCHANGED <<disk, sealed, rewrites, faults>>

Certified(p) ==
  \E self \in {AnalysisOf(procs[p].got[6], procs[p].got[5], Cmd(p).unknowns)} :
    self.ok /\ SameVerdict(self.value, procs[p].bundled)

\* The manifest comes last.
BundleSeals(p) ==
  /\ Has(p, "certify")
  /\ \E certified \in {Certified(p)} :
       GoOn(p, IF certified THEN "sealed" ELSE "diverged", <<>>,
            <<Write(kManifest, Manifest(procs[p].got[3], procs[p].got[4], procs[p].bundled,
                                        Cmd(p).unknowns, certified))>>)
  /\ UNCHANGED <<disk, sealed, rewrites, faults>>

BundleEnds(p) ==
  /\ \/ Has(p, "sealed") /\ End(p, CheckExit(procs[p].run), procs[p].run)
     \/ Has(p, "diverged") /\ End(p, kInternal, procs[p].run)
  /\ UNCHANGED <<disk, sealed, rewrites, faults>>

-----------------------------------------------------------------------------
(* What fails, and what others do.                                         *)

Fault == faults > 0 /\ faults' = faults - 1

\* A file or the directory of a bundle cannot be opened or made, or a write
\* fails and leaves the file cut; the tools give up and the server says so.
WriteFails(p) ==
  /\ Fault /\ procs[p].writes # <<>>
  /\ End(p, IF Cmd(p).tool = "mcp" THEN 0 ELSE kInput,
            IF Cmd(p).tool = "mcp" THEN ProbeReply(Cmd(p).message) ELSE {})
  /\ UNCHANGED <<disk, sealed, rewrites>>

Kill(p) ==
  /\ Fault /\ procs[p].at # "rest"
  /\ End(p, Killed, {})
  /\ UNCHANGED <<disk, sealed, rewrites>>

\* Someone else writes a file.
Rewrite(change) ==
  /\ rewrites.left > 0
  /\ disk' = Stored(change.path, change.text)
  /\ rewrites' = [rewrites EXCEPT !.left = @ - 1, !.any = TRUE, !.choices = @ \ {change}]
  /\ UNCHANGED <<procs, sealed, faults>>

\* Someone else has the manifest of a bundle name another file for its requirement.
Redirect(path) ==
  /\ rewrites.left > 0 /\ Replayable(read_file(kManifest)) /\ path \in DOMAIN disk
  /\ disk' = [disk EXCEPT ![kManifest] = Obj([@[2] EXCEPT !.inputs =
                Obj([@[2] EXCEPT !.requirement = Hashed(path, disk[path])])])]
  /\ rewrites' = [rewrites EXCEPT !.left = @ - 1, !.any = TRUE]
  /\ UNCHANGED <<procs, sealed, faults>>

Step(p) ==
  \/ Start(p) \/ ReadNext(p) \/ OpenNext(p) \/ FillNext(p) \/ Finish(p)
  \/ ProbeWrites(p) \/ ProbeEnds(p)
  \/ CheckJudges(p) \/ CheckEnds(p) \/ CheckRereads(p)
  \/ BundleOpens(p) \/ BundleRereads(p) \/ BundleSeals(p) \/ BundleEnds(p)
  \/ WriteFails(p) \/ Kill(p)

Next ==
  \/ \E p \in Processes : Step(p)
  \/ \E change \in rewrites.choices : Rewrite(change)
  \/ \E path \in rewrites.targets : Redirect(path)

Spec == Init /\ [][Next]_vars

-----------------------------------------------------------------------------
(* What the invocations that have ended worked with.                       *)

Ended(tools) == {procs[p].outcome : p \in {q \in Processes : procs[q].outcome.cmd.tool \in tools}}

\* The requirements of a document, each on its own.
RequirementsOf(text) ==
  LET list == at(text, "requirements")
  IN IF text \in {Missing, Garbage} \/ ~is_object(text) THEN {}
     ELSE IF Given(text, "requirements") /\ is_array(list) THEN {list[2][i] : i \in DOMAIN list[2]}
     ELSE {text}

RequirementsRead == UNION {RequirementsOf(o.got[1]) : o \in {c \in Ended({"check"}) : c.got # <<>>}}

ProfilesRead ==
  {o.got[1] : o \in {c \in Ended({"id", "verify"}) : c.got # <<>>}} \cup
  {o.got[2] : o \in {c \in Ended({"check"}) : Len(c.got) > 1}}

Amount(v) == IF v[1] \in {"int", "hex"} THEN v[2] ELSE Absent

\* What is written says all that was given: null and an absent field are the same.
RECURSIVE Kept(_, _)
Kept(written, given) ==
  \/ written = given \/ is_null(given)
  \/ Amount(written) # Absent /\ Amount(written) = Amount(given)
  \/ /\ is_object(written) /\ is_object(given)
     /\ \A key \in DOMAIN written[2] \cap DOMAIN given[2] : Kept(written[2][key], given[2][key])
  \/ /\ is_array(written) /\ is_array(given) /\ DOMAIN written[2] = DOMAIN given[2]
     /\ \A i \in DOMAIN given[2] : Kept(written[2][i], given[2][i])

RequirementKept(v, r, written) ==
  LET Named(section) == DOMAIN Default(written, section, Nothing)[2] \cup r.unrecognized_fields
  IN /\ Kept(written, v)
     /\ \A section \in {"request", "assumptions"} :
          DOMAIN Default(v, section, Nothing)[2] \subseteq Named(section) \cup Extensions

FactKept(f, section, fact) ==
  LET node == at(section, fact)
  IN IF Given(section, fact) /\ ~is_null(at(node, "value")) /\ at(node, "evidence") # Str("unknown")
     THEN is_known(f) /\ Kept(fact_to_json(fact, f), node)
     ELSE ~is_known(f)

ProfileKept(v, vm) ==
  LET mem == Default(v, "virtual_memory", Nothing)
      prot == Default(mem, "protection", Nothing)
      Found(list) == Default(mem, list, Arr(<<>>))[2]
  IN /\ \A fact \in MemoryFacts : FactKept(vm[fact], mem, fact)
     /\ \A fact \in ProtectionFacts : FactKept(vm[fact], prot, fact)
     /\ \A list \in RangeLists :
          /\ Len(vm[list]) = Len(Found(list))
          /\ \A i \in DOMAIN Found(list) :
               \E j \in DOMAIN vm[list] : Kept(range_to_json(vm[list][j]), Found(list)[i])

-----------------------------------------------------------------------------
(* The properties.                                                         *)

\* A requirement or a profile that is accepted says in memory what its document
\* says: no value that was given is dropped, replaced by a default or altered
\* on the way, a fact is known only if the document establishes it, and a
\* misspelled key is reported.  It is what lies between the text someone wrote
\* and the verdict they are given.
LoadedIsTheDocument ==
  /\ \A v \in RequirementsRead : \E read \in {requirement_from_json(v)} :
       read.ok => RequirementKept(v, read.value, requirement_to_json(read.value))
  /\ \A v \in ProfilesRead : \E read \in {load_profile(v)} :
       read.ok => ProfileKept(v, read.value.vm)

\* A profile that is written and read again has the identity it had, and a
\* requirement asks the same: otherwise a profile fails rs-profile verify for
\* having been stored.
RoundTripKeepsIdentity ==
  /\ \A v \in ProfilesRead : \E read \in {load_profile(v)} :
       read.ok => \E again \in {profile_from_json(profile_to_json(read.value))} :
                    again.ok /\ profile_id(again.value) = profile_id(read.value)
  /\ \A v \in RequirementsRead : \E read \in {requirement_from_json(v)} :
       read.ok => \E again \in {requirement_from_json(requirement_to_json(read.value))} :
                    again.ok /\ requirement_id(again.value) = requirement_id(read.value)

\* rs-profile impact says of two profiles with one profile_id that no verdict
\* can differ: none does, and no finding comes or goes.  So everything that a
\* rule of the analyzer reads of a profile is part of its identity.
SameFactsSameVerdict ==
  \A o \in Ended({"impact"}) :
    o.exit \in {0, 1} /\ Cardinality({profile_id(load_profile(o.got[i]).value) : i \in {1, 2}}) = 1
    => \A i \in DOMAIN o.found.contracts : \A j \in DOMAIN o.found.contracts[i].requirements :
         LET impact == o.found.contracts[i].requirements[j]
         IN /\ impact.change \in {Unchanged, NeverAnswered}
            /\ impact.ids_appeared = {} /\ impact.ids_disappeared = {}

\* A bundle that rs-replay calls reproduced holds, for each of its files, what
\* one rs-check sealed together, whoever writes into the directory meanwhile,
\* and its verdict is that of the inputs that were sealed.
ReproducedIsSealed ==
  \A o \in Ended({"replay"}) :
    o.exit = 0 =>
      \E seal \in sealed :
        /\ o.got[2] = seal.requirement /\ o.got[3] = seal.profile
        /\ o.got[4] = Rendered("json", seal.run) /\ o.got[5] = Rendered("markdown", seal.run)
        /\ LevelName(seal.run.overall) = at(o.got[1], "overall")

\* Nobody else runs anything or writes a file, from the first step on.
Undisturbed(p) ==
  /\ ~rewrites.any
  /\ \A q \in Processes \ {p} :
       procs[q].script = <<>> /\ procs[q].outcome = NoOutcome

Reproduces(p) ==
  \E replay \in {ReplayOutcome(read_file(kManifest), [name \in Sealed |-> read_file(name)],
                               read_file(kRequirementFile), read_file(kProfileFile))} :
    replay.ok /\ replay.value.reproduced /\ SameVerdict(replay.value.run, procs[p].outcome.found)

\* An rs-check that exits with a verdict evaluated every requirement of the
\* document: it passes only if each is supported, and fails if one is not.  If
\* it was to seal a bundle and was not disturbed, that bundle replays.
CompleteRun ==
  \A p \in Processes :
    LET o == procs[p].outcome
        profile == load_profile(o.got[2]).value
        Verdict(r) == IF r.ok THEN analyze(r.value, profile, o.cmd.unknowns).overall ELSE Absent
    IN o.cmd.tool = "check" /\ o.exit \in 0 .. 3 =>
         /\ \E verdicts \in {{Verdict(requirement_from_json(v)) : v \in RequirementsOf(o.got[1])}} :
              /\ Absent \notin verdicts
              /\ o.exit = 0 <=> verdicts = {Supported}
              /\ o.exit = 1 <=> Unsupported \in verdicts
         /\ o.cmd.bundle /\ Undisturbed(p) => Reproduces(p)

\* What the server answers about some documents is what the tools say of them.
\* A requirement has the verdict, the exit code and the findings of rs-check;
\* of the two ways to hide findings, only a literal no is one.  A profile is
\* valid if rs-profile accepts it, and two are identical if it finds no
\* difference, which is if they have one profile_id.
FrontEndsAgree ==
  \A o \in Ended({"mcp"}) : \A reply \in o.found :
    LET args == ArgumentsOf(o.cmd.message)
        Doc(path_key, inline_key) ==
          load_document(args, path_key, inline_key, TextsOf(o.cmd.message, o.got)).value
        host == Doc("profile_path", "profile_json")
        result == reply.result
        hides == Default(args, "report_unknowns", Null) \in
                   {Bool(FALSE), Str("false"), Str("no"), Str("0")}
    IN reply.error = 0 =>
         /\ "verdict" \in DOMAIN result =>
              \E run \in {run_analysis(Doc("requirement_path", "requirement_json"), host, ~hides)} :
                /\ run.ok /\ run.value.overall = result.verdict /\ run.value.ids = result.ids
                /\ result.exit_code = CheckExit(run.value)
         /\ "valid" \in DOMAIN result =>
              \E profile \in {load_profile(host)} :
                /\ command_verify(host, profile).exit = 0 => result.valid
                /\ result.valid => profile.ok
         /\ "identical" \in DOMAIN result =>
              /\ result.identical <=> command_diff(load_profile(Doc("a_path", "a_json")),
                                                  load_profile(Doc("b_path", "b_json"))).exit = 0
              /\ result.identical <=> result.same_id

\* A request is answered once and with its own id, and a notification never,
\* however malformed it is.  The one id the server cannot repeat is a number
\* with a fraction, which has no canonical form.
RequestsAreAnswered ==
  \A o \in Ended({"mcp"}) :
    o.exit = 0 =>
      IF o.cmd.message # Garbage /\ is_object(o.cmd.message) /\ ~has(o.cmd.message, "id")
      THEN o.found = {}
      ELSE /\ Cardinality(o.found) = 1
           /\ Requested(o.cmd.message) /\ at(o.cmd.message, "id") # Double =>
                \A reply \in o.found : reply.id = at(o.cmd.message, "id")
=============================================================================
