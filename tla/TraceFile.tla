----------------------------- MODULE TraceFile -----------------------------
(***************************************************************************)
(* A trace on its way from the recorder to replay: flush writes it line by *)
(* line and may fail or be killed, storage may damage it, and read_file,   *)
(* in another process, may read while it is being rewritten.               *)
(*                                                                         *)
(* A line is one JSONL record.  "garbage" is a line that is not the        *)
(* canonical form of a record of the schema, or that lacks its newline.    *)
(* SHA-256 is taken to be injective: a digest is the lines it covers.      *)
(***************************************************************************)
EXTENDS TraceEvent, Sequences, SequencesExt

CONSTANTS
  Payloads,       \* what events carry beside their sequence number
  Buffers,        \* contents of the recorder when a flush is called
  HostPlatform,   \* the platform the runtime was built for
  MaxEvents,      \* ReadLimits: max_events
  MaxLines,       \* ReadLimits: max_file_bytes, in lines
  MaxFlushes,     \* bound: calls of flush
  MaxFaults       \* bound: lines that storage damages

\* What the recorder guarantees of a quiescent buffer (Recorder: the capacity
\* accepted by initialize, QuiescentContiguous, CompleteIsExact), and that the
\* limits of the reader leave room for the largest of them.
ASSUME BuffersAssumption ==
  \A b \in Buffers :
    /\ b.capacity \in 1 .. MaxEvents /\ b.events \in Seq(Payloads)
    /\ b.dropped \in Nat /\ b.reentrant \in Nat
    /\ Len(b.events) <= b.capacity
    /\ b.dropped # 0 => Len(b.events) = b.capacity
ASSUME LimitsAssumption ==
  /\ MaxEvents \in Nat /\ MaxLines \in Nat /\ MaxEvents + 2 <= MaxLines
  /\ MaxFlushes \in Nat /\ MaxFaults \in Nat
ASSUME HostAssumption == HostPlatform \in {"posix", "windows"}

VARIABLES
  flush,     \* the writer: its lines, how many are on disk, and its result
  file,      \* the lines on disk; none also stands for a missing file
  reader,    \* read_file: file length seen, bytes read so far, result
  begun,     \* ghost: the buffers whose flush truncated the file
  faults     \* lines damaged so far

vars == <<flush, file, reader, begun, faults>>

Garbage == [type |-> "garbage"]

\* "apis" is the platform whose wrapped calls the header lists.
Header(b) ==
  [type |-> "header", capacity |-> b.capacity, platform |-> HostPlatform,
   apis |-> HostPlatform]
EventLine(b, i) ==
  [type |-> "event", sequence |-> i, payload |-> b.events[i]]
Footer(b, digest) ==
  [type |-> "footer", count |-> Len(b.events), dropped |-> b.dropped,
   reentrant |-> b.reentrant, complete |-> b.dropped = 0 /\ b.reentrant = 0,
   digest |-> digest]

\* Mutant: the header is written before the digest is set up.
FlushLines_HeaderUncovered(b) ==
  LET events == [i \in DOMAIN b.events |-> EventLine(b, i)]
  IN <<Header(b)>> \o events \o <<Footer(b, events)>>

\* The lines that the digest covers.
Body(b) == <<Header(b)>> \o [i \in DOMAIN b.events |-> EventLine(b, i)]

\* What flush writes: the digest in the footer covers every line before it.
FlushLines(b) == Append(Body(b), Footer(b, Body(b)))

NoReader == [pc |-> "idle", length |-> 0, stable |-> TRUE, bytes |-> <<>>]

Init ==
  /\ flush = [pc |-> "idle", lines |-> <<>>, calls |-> 0]
  /\ file = <<>>
  /\ reader = NoReader
  /\ begun = {} /\ faults = 0

-----------------------------------------------------------------------------
(* The monitored process.                                                  *)

\* Any change of the file is one a reader that has it open may see.
Rewrite(lines) ==
  /\ file' = lines
  /\ reader' = [reader EXCEPT !.stable = reader.pc # "reading"]

\* The output is opened with trunc, after the snapshot and the statistics.  In
\* between two flushes the recorder may have gone on, been reset or belong to
\* a new process that uses the same path.
FlushBegin(b) ==
  /\ flush.pc # "writing" /\ flush.calls < MaxFlushes
  /\ Rewrite(<<>>)
  /\ flush' = [pc |-> "writing", lines |-> FlushLines(b),
               calls |-> flush.calls + 1]
  /\ begun' = begun \cup {b}
  /\ UNCHANGED faults

\* The output cannot be opened: RS_RUNTIME_ERROR_IO_V1, nothing is touched.
FlushOpenFails ==
  /\ flush.pc # "writing" /\ flush.calls < MaxFlushes
  /\ flush' = [pc |-> "io", lines |-> <<>>, calls |-> flush.calls + 1]
  /\ UNCHANGED <<file, reader, begun, faults>>

FlushLine ==
  /\ flush.pc = "writing" /\ flush.lines # <<>>
  /\ Rewrite(Append(file, Head(flush.lines)))
  /\ flush' = [flush EXCEPT !.lines = Tail(@),
                 !.pc = IF Len(flush.lines) = 1 THEN "ok" ELSE "writing"]
  /\ UNCHANGED <<begun, faults>>

\* A write fails or the process is killed: what reached the disk stays there,
\* the last line whole or in part.
FlushStops(partial) ==
  /\ flush.pc = "writing"
  /\ Rewrite(IF partial THEN Append(file, Garbage) ELSE file)
  /\ flush' = [flush EXCEPT !.pc = "io", !.lines = <<>>]
  /\ UNCHANGED <<begun, faults>>

-----------------------------------------------------------------------------
(* Storage, while the file is at rest.                                     *)

\* The line with one field changed.
Altered(line) ==
  CASE line.type = "header" ->
         {[line EXCEPT !.capacity = c] : c \in 1 .. MaxEvents}
           \cup {[line EXCEPT !.platform = "windows"], [line EXCEPT !.apis = "windows"]}
    [] line.type = "event" ->
         {[line EXCEPT !.sequence = @ + 1]}
           \cup {[line EXCEPT !.payload = p] : p \in Payloads}
    [] line.type = "footer" ->
         {[line EXCEPT !.count = n] : n \in 0 .. MaxEvents}
           \cup {[line EXCEPT !.dropped = n] : n \in 0 .. 1}
           \cup {[line EXCEPT !.reentrant = n] : n \in 0 .. 1}
           \cup {[line EXCEPT !.complete = ~@], [line EXCEPT !.digest = <<>>]}
    [] OTHER -> {line}

Damaged(lines, i) ==
  {RemoveAt(lines, i), InsertAt(lines, i, lines[i]),
   SubSeq(lines, 1, i - 1), ReplaceAt(lines, i, Garbage)}
    \cup {ReplaceAt(lines, i, l) : l \in Altered(lines[i])}
    \cup (IF i < Len(lines) THEN {[lines EXCEPT ![i] = lines[i + 1],
                                                ![i + 1] = lines[i]]} ELSE {})

Damage ==
  /\ flush.pc # "writing" /\ faults < MaxFaults
  /\ \E i \in DOMAIN file : \E lines \in Damaged(file, i) : Rewrite(lines)
  /\ faults' = faults + 1
  /\ UNCHANGED <<flush, begun>>

-----------------------------------------------------------------------------
(* read_file: the bytes, then the lines.                                   *)

ReaderOpen ==
  /\ reader.pc # "reading"
  /\ reader' = [pc |-> IF Len(file) > MaxLines THEN "refused" ELSE "reading",
                length |-> Len(file), stable |-> TRUE, bytes |-> <<>>]
  /\ UNCHANGED <<flush, file, begun, faults>>

\* The next chunk.  The length was taken at the open: a file that has shrunk
\* cannot be read, and in one that has changed the offset may fall anywhere.
ReaderChunk ==
  /\ reader.pc = "reading" /\ Len(reader.bytes) < reader.length
  /\ LET at == Len(reader.bytes) + 1
     IN IF at > Len(file)
          THEN reader' = [reader EXCEPT !.pc = "refused"]
          ELSE \E line \in {file[at]} \cup (IF reader.stable THEN {}
                                            ELSE {Garbage}) :
                 reader' = [reader EXCEPT !.bytes = Append(@, line)]
  /\ UNCHANGED <<flush, file, begun, faults>>

\* The state of the loop over the lines, before the first of them.
LoopStart ==
  [ok |-> TRUE, header |-> [capacity |-> 0, platform |-> "none"], events |-> <<>>,
   footer |-> [type |-> "none"], digest |-> <<>>]

SawHeader(s) == s.header.capacity # 0
SawFooter(s) == s.footer.type = "footer"

\* The header is the first line, and lists the calls of its platform.
TakeHeader(s, line) ==
  [s EXCEPT !.ok = s.digest = <<>> /\ line.apis = line.platform,
            !.header = [capacity |-> line.capacity, platform |-> line.platform],
            !.digest = Append(@, line)]

TakeEvent(s, line) ==
  [s EXCEPT !.ok = /\ SawHeader(s) /\ ~SawFooter(s)
                   /\ Len(s.events) < MaxEvents
                   /\ Len(s.events) < s.header.capacity
                   /\ ValidEvent(line.payload, s.header.platform)
                   /\ line.sequence = Len(s.events) + 1,
            !.events = Append(@, line.payload),
            !.digest = Append(@, line)]

\* That the footer is the last line of the file is checked where it is met.
TakeFooter(s, line, last) ==
  [s EXCEPT !.ok = SawHeader(s) /\ ~SawFooter(s) /\ last, !.footer = line]

\* One turn of the loop: a line that is refused ends it.
Advance(s, lines, i) ==
  CASE ~s.ok -> s
    [] s.ok /\ lines[i].type = "header" -> TakeHeader(s, lines[i])
    [] s.ok /\ lines[i].type = "event" -> TakeEvent(s, lines[i])
    [] s.ok /\ lines[i].type = "footer" -> TakeFooter(s, lines[i], i = Len(lines))
    [] OTHER -> [s EXCEPT !.ok = FALSE]

Loop(lines) ==
  LET state[i \in 0 .. Len(lines)] ==
        IF i = 0 THEN LoopStart ELSE Advance(state[i - 1], lines, i)
  IN state[Len(lines)]

\* Mutant: the digest is not compared.
Accepts_NoDigest(s) ==
  /\ s.ok /\ SawHeader(s) /\ SawFooter(s)
  /\ s.footer.count = Len(s.events) /\ s.footer.count <= s.header.capacity
  /\ s.footer.complete /\ s.footer.dropped = 0 /\ s.footer.reentrant = 0

\* The checks after the loop.
Accepts(s) ==
  /\ s.ok /\ SawHeader(s) /\ SawFooter(s)
  /\ s.footer.count = Len(s.events) /\ s.footer.count <= s.header.capacity
  /\ s.footer.complete /\ s.footer.dropped = 0 /\ s.footer.reentrant = 0
  /\ s.footer.digest = s.digest

ReaderParse ==
  /\ reader.pc = "reading" /\ Len(reader.bytes) = reader.length
  /\ reader' = [reader EXCEPT !.pc = IF Accepts(Loop(reader.bytes))
                                       THEN "accepted" ELSE "refused"]
  /\ UNCHANGED <<flush, file, begun, faults>>

Next ==
  \/ \E b \in Buffers : FlushBegin(b)
  \/ FlushOpenFails \/ FlushLine
  \/ \E partial \in BOOLEAN : FlushStops(partial)
  \/ Damage
  \/ ReaderOpen \/ ReaderChunk \/ ReaderParse

Spec == Init /\ [][Next]_vars

-----------------------------------------------------------------------------
(* Properties.                                                             *)

Lossless(b) == b.dropped = 0 /\ b.reentrant = 0

\* What read_file accepts is, event for event, one buffer that a flush set out
\* to write, and that buffer had lost nothing: not a prefix left by a failed
\* flush, not a mixture of two flushes, not a damaged file.
AcceptedIsFlushed ==
  reader.pc = "accepted" =>
    \E b \in begun : Lossless(b) /\ reader.bytes = FlushLines(b)

\* The writer and the reader agree: the whole output of a flush is accepted
\* exactly if nothing was lost and every event keeps the contract of its
\* operation.
FlushedIsReadable ==
  \A b \in begun :
    LET whole == reader.bytes = FlushLines(b) /\ reader.length = Len(reader.bytes)
    IN reader.pc \in {"accepted", "refused"} /\ whole =>
         (reader.pc = "accepted" <=>
            /\ Lossless(b)
            /\ \A i \in DOMAIN b.events : ValidEvent(b.events[i], HostPlatform))

-----------------------------------------------------------------------------
(* The inductive strengthening of the properties.                          *)

\* A digest is that of a body some flush set out to write, or of no file at all.
Digests == {Body(b) : b \in begun} \cup {<<>>}

HeaderLines ==
  [type : {"header"}, capacity : 1 .. MaxEvents,
   platform : {"posix", "windows"}, apis : {"posix", "windows"}]
EventLines == [type : {"event"}, sequence : Nat, payload : Payloads]
FooterLines ==
  [type : {"footer"}, count : Nat, dropped : Nat, reentrant : Nat,
   complete : BOOLEAN, digest : Digests]

Line == HeaderLines \cup EventLines \cup FooterLines \cup {Garbage}

TypeOK ==
  /\ flush \in [pc : {"idle", "writing", "ok", "io"}, lines : Seq(Line), calls : Nat]
  /\ file \in Seq(Line)
  /\ reader \in [pc : {"idle", "reading", "refused", "accepted"}, length : Nat,
                 stable : BOOLEAN, bytes : Seq(Line)]
  /\ begun \subseteq Buffers /\ faults \in 0 .. MaxFaults

\* The answer of read_file is that of its loop over as many bytes as the file had.
Decided ==
  /\ reader.pc = "reading" => Len(reader.bytes) <= reader.length
  /\ reader.pc = "accepted" =>
       Len(reader.bytes) = reader.length /\ Accepts(Loop(reader.bytes))
  /\ reader.pc = "refused" /\ Len(reader.bytes) = reader.length =>
       ~Accepts(Loop(reader.bytes))

TraceInv == TypeOK /\ Decided

\* Lines as flushes wrote them, whole or in part, and those with one field altered.
Pristine ==
  {Garbage} \cup UNION {{FlushLines(b)[i] : i \in DOMAIN FlushLines(b)} : b \in begun}
Once == Pristine \cup UNION {Altered(line) : line \in Pristine}

\* With one fault no line is altered twice.
AlteredOnce ==
  /\ flush.lines \in Seq(Pristine)
  /\ faults = 0 => file \in Seq(Pristine)
  /\ faults <= 1 => file \in Seq(Once) /\ reader.bytes \in Seq(Once)
=============================================================================
