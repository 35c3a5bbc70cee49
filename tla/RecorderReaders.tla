-------------------------- MODULE RecorderReaders --------------------------
(***************************************************************************)
(* rs_runtime_snapshot_v1 and rs_runtime_get_stats_v1 composed with the    *)
(* recorder.  Neither is among the calls that need quiescent threads, so   *)
(* each is a sequence of loads that interleaves with record_event.  The    *)
(* buffer is not cleared under a reader: the control-plane calls come from *)
(* the same controlling thread, and a fork leaves the reader behind.       *)
(***************************************************************************)
EXTENDS Recorder, Sequences

VARIABLE reader  \* the call under way, or the last one and its result

readerVars == <<vars, reader>>

\* A call loads g_claimed and g_capacity first.  "quiet" and "before" are
\* ghosts: whether no recording was under way then, and the calls observed.
Reading(op) ==
  [op |-> op, count |-> Recorded, next |-> 0, copied |-> <<>>, dropped |-> 0,
   complete |-> TRUE, quiet |-> Quiescent, before |-> observed]

NoReading ==
  [op |-> "none", count |-> 0, next |-> 0, copied |-> <<>>, dropped |-> 0,
   complete |-> TRUE, quiet |-> FALSE, before |-> {}]

Finished == {"none", "ok", "busy", "invalid", "stats"}

ReaderInit == Init /\ reader = NoReading

\* The caller's array has room for "size" events; without room for all of
\* them the call fails before it copies anything.
SnapshotBegin(size) ==
  /\ reader.op \in Finished /\ ~aborted
  /\ reader' = Reading(IF size < Recorded THEN "invalid" ELSE "check")
  /\ UNCHANGED vars

\* Mutant: the published flag is not consulted.
SnapshotCheck_Unchecked ==
  /\ reader.op = "check" /\ ~aborted
  /\ reader' = [reader EXCEPT !.op = IF reader.next = reader.count THEN "ok"
                                     ELSE "copy"]
  /\ UNCHANGED vars

\* Mutant: a busy slot is left out.
SnapshotCheck_SkipsBusy ==
  /\ reader.op = "check" /\ ~aborted
  /\ reader' = IF reader.next = reader.count THEN [reader EXCEPT !.op = "ok"]
               ELSE IF published[reader.next] THEN [reader EXCEPT !.op = "copy"]
               ELSE [reader EXCEPT !.next = @ + 1]
  /\ UNCHANGED vars

\* Mutant: an unpublished slot is waited for.
SnapshotCheck_Waits ==
  /\ reader.op = "check" /\ ~aborted
  /\ reader.next = reader.count \/ published[reader.next]
  /\ reader' = [reader EXCEPT !.op = IF reader.next = reader.count THEN "ok"
                                     ELSE "copy"]
  /\ UNCHANGED vars

\* The loop condition and the load of the slot's published flag.
SnapshotCheck ==
  /\ reader.op = "check" /\ ~aborted
  /\ reader' = [reader EXCEPT !.op = IF reader.next = reader.count THEN "ok"
                                     ELSE IF published[reader.next] THEN "copy"
                                     ELSE "busy"]
  /\ UNCHANGED vars

SnapshotCopy ==
  /\ reader.op = "copy" /\ ~aborted
  /\ reader' = [reader EXCEPT !.op = "check", !.next = @ + 1,
                              !.copied = Append(@, slotEvent[reader.next])]
  /\ UNCHANGED vars

StatsBegin ==
  /\ reader.op \in Finished /\ ~aborted
  /\ reader' = Reading("dropped")
  /\ UNCHANGED vars

StatsDropped ==
  /\ reader.op = "dropped" /\ ~aborted
  /\ reader' = [reader EXCEPT !.op = "reentrant", !.dropped = dropped]
  /\ UNCHANGED vars

\* Mutant: only dropped events make the buffer incomplete.
StatsReentrant_Ignored ==
  /\ reader.op = "reentrant" /\ ~aborted
  /\ reader' = [reader EXCEPT !.op = "stats", !.complete = reader.dropped = 0]
  /\ UNCHANGED vars

StatsReentrant ==
  /\ reader.op = "reentrant" /\ ~aborted
  /\ reader' = [reader EXCEPT !.op = "stats",
                  !.complete = reader.dropped = 0 /\ reentrant = 0]
  /\ UNCHANGED vars

\* The controlling thread does one thing at a time.
ControllerFree == reader.op \in Finished

\* Recording, and the one setting that may change under a reader.
RecorderStep ==
  \/ \E t \in Threads, violation \in BOOLEAN : Call(t, violation)
  \/ \E t \in Threads : NestedCall(t) \/ Record(t)
  \/ \E value \in BOOLEAN : SetEnabled(value)
  \/ Terminated

ControlPlaneStep ==
  \/ \E config \in Configs : Initialize(config)
  \/ Reset \/ Shutdown \/ AfterForkChild

ReaderStep == SnapshotCheck \/ SnapshotCopy \/ StatsDropped \/ StatsReentrant

ReaderNext ==
  \/ \E size \in 0 .. MaxCapacity : SnapshotBegin(size)
  \/ StatsBegin
  \/ ReaderStep
  \/ RecorderStep /\ UNCHANGED reader
  \/ ControlPlaneStep /\ ControllerFree /\ reader' = NoReading
  \/ (\E t \in Threads : Fork(t)) /\ reader' = NoReading

\* The controlling thread is scheduled.
ReaderFairness == WF_readerVars(ReaderStep)

ReaderSpec == ReaderInit /\ [][ReaderNext]_readerVars /\ ReaderFairness

\* And so are the threads, as in Recorder.
LiveSpec == ReaderSpec /\ Fairness

-----------------------------------------------------------------------------
(* Properties.                                                             *)

\* A snapshot that succeeds returns the events with sequence numbers 1, 2, ...
\* up to its count, each as its thread wrote it, although other threads went
\* on claiming and publishing while it copied.
SnapshotIsPrefix ==
  reader.op = "ok" =>
    /\ Len(reader.copied) = reader.count
    /\ \A i \in 1 .. reader.count :
         reader.copied[i].sequence = i /\ reader.copied[i] = slotEvent[i - 1]

\* The copy of a slot never overlaps its write: what makes the plain, non
\* atomic read of the event free of a data race.
NoTornCopy ==
  reader.op = "copy" =>
    \A t \in Threads : pc[t] \in {"write", "publish"} => index[t] # reader.next

\* get_stats reports complete only if no call observed before it began was
\* lost, provided none was in flight then.
StatsCompleteIsSound ==
  reader.op = "stats" /\ reader.quiet /\ reader.complete /\ forked # "raw" =>
    reader.before \subseteq RecordedCalls

\* A snapshot or get_stats call ends: it does not wait for the threads.
ReadersReturn == reader.op \notin Finished ~> reader.op \in Finished \/ aborted

-----------------------------------------------------------------------------
(* The inductive strengthening of the invariants above.                    *)

ReaderType ==
  reader \in [op : Finished \cup {"check", "copy", "dropped", "reentrant"},
             count : Nat, next : Nat, copied : Seq(Event), dropped : Nat,
             complete : BOOLEAN, quiet : BOOLEAN, before : SUBSET Nat]

\* What a snapshot has copied so far is still in the slots, and the slot it is
\* about to copy is published.
SnapshotInv ==
  reader.op \in {"check", "copy", "ok"} =>
    /\ reader.next <= reader.count /\ reader.count <= Recorded
    /\ Len(reader.copied) = reader.next
    /\ \A i \in Index : i < reader.next =>
         published[i] /\ reader.copied[i + 1] = slotEvent[i]
    /\ reader.op = "copy" => reader.next < reader.count /\ published[reader.next]
    /\ reader.op = "ok" => reader.next = reader.count

\* No loss so far, as far as get_stats has looked.
LossFree ==
  CASE reader.op = "dropped" -> dropped = 0 /\ reentrant = 0
    [] reader.op = "reentrant" -> reader.dropped = 0 /\ reentrant = 0
    [] reader.op = "stats" -> reader.complete
    [] OTHER -> FALSE

\* While get_stats has seen no loss, what was observed before it is in the slots.
StatsInv ==
  LossFree /\ reader.quiet /\ forked # "raw" => reader.before \subseteq RecordedCalls

\* The inductive invariant of the composition.
ReaderInv == TypeOK /\ RecorderInv /\ ReaderType /\ SnapshotInv /\ StatsInv

=============================================================================
