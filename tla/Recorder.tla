------------------------------ MODULE Recorder ------------------------------
(***************************************************************************)
(* The event recorder of the runtime monitor: a fixed array of slots that  *)
(* the threads of the monitored program fill through record_event, and the *)
(* control-plane calls of the C ABI.                                       *)
(*                                                                         *)
(* A step of record_event is one access to a shared atomic, so the threads *)
(* and set_enabled interleave as in the program.  reset, initialize and    *)
(* shutdown are single steps: the contract of the ABI is that they are     *)
(* called while the observed operations are quiescent, and that contract   *)
(* is their guard.                                                         *)
(***************************************************************************)
EXTENDS Naturals, FiniteSets

CONSTANTS
  Threads,      \* threads of the monitored program
  MaxCapacity,  \* RS_RUNTIME_EVENT_CAPACITY_MAX_V1: the length of g_slots
  MaxCalls,     \* bound: wrapper calls that find the recorder enabled
  Configs       \* configurations passed to rs_runtime_initialize_v1

Modes == {"record", "report", "assert"}

\* What rs_runtime_initialize_v1 looks at; "callback" abstracts the pair of
\* function pointer and user data to whether the pointer is null.
ConfigType ==
  [abi : BOOLEAN, size : BOOLEAN, mode : Modes \cup {"invalid"},
   capacity : Nat, reservedZero : BOOLEAN, callback : BOOLEAN]

ASSUME ThreadsAssumption == IsFiniteSet(Threads)
ASSUME CapacityAssumption == MaxCapacity \in Nat \ {0}
ASSUME CallsAssumption == MaxCalls \in Nat
ASSUME ConfigsAssumption == Configs \subseteq ConfigType

Index == 0 .. MaxCapacity - 1

\* An event keeps a ghost identity of the call it describes, the sequence
\* number record_event gives it and whether it carries a violation.
Event == [call : Nat, sequence : Nat, violation : BOOLEAN]
NoEvent == [call |-> 0, sequence |-> 0, violation |-> FALSE]

VARIABLES
  published, slotEvent,           \* g_slots
  claimed, dropped, reentrant,    \* the three counters
  capacity, mode, enabled,        \* g_capacity, g_mode, g_enabled
  callback,                       \* g_callback is not null
  atfork,                         \* the static of register_atfork_once
  pc, index, event, seenMode,     \* locals of record_event, per thread
  inner,                          \* ghost: the call a callback is making
  aborted,                        \* std::abort was called
  calls, observed,                \* ghost: calls that found g_enabled set,
                                  \* ever and since the last clear_slots
  forked                          \* ghost: "clean" in a child whose atfork
                                  \* handler ran and that has not yet enabled
                                  \* the recorder, "raw" in one whose handler
                                  \* did not run, until it clears the slots

shared == <<published, slotEvent, claimed, dropped, reentrant>>
settings == <<capacity, mode, enabled, callback, atfork>>
locals == <<pc, index, event, seenMode, inner>>
ghosts == <<calls, observed, forked>>
vars == <<shared, settings, locals, ghosts, aborted>>

Minimum(a, b) == IF a < b THEN a ELSE b

\* No wrapper call is under way in any thread.
Quiescent == \A t \in Threads : pc[t] \in {"idle", "gone"}

Complete == dropped = 0 /\ reentrant = 0

\* The number of events snapshot and get_stats report.
Recorded == Minimum(claimed, capacity)

Init ==
  /\ published = [i \in Index |-> FALSE]
  /\ slotEvent = [i \in Index |-> NoEvent]
  /\ claimed = 0 /\ dropped = 0 /\ reentrant = 0
  /\ capacity = MaxCapacity /\ mode = "record"
  /\ enabled = FALSE /\ callback = FALSE /\ atfork = "unregistered"
  /\ pc = [t \in Threads |-> "idle"]
  /\ index = [t \in Threads |-> 0]
  /\ event = [t \in Threads |-> NoEvent]
  /\ seenMode = [t \in Threads |-> "record"]
  /\ inner = [t \in Threads |-> 0]
  /\ aborted = FALSE
  /\ calls = 0 /\ observed = {} /\ forked = "no"

-----------------------------------------------------------------------------
(* record_event, one step per shared access.                               *)

Goto(t, label) == pc' = [pc EXCEPT ![t] = label]

\* record_event returns and its locals are dead.
Leave(t) ==
  /\ Goto(t, "idle")
  /\ index' = [index EXCEPT ![t] = 0]
  /\ event' = [event EXCEPT ![t] = NoEvent]
  /\ seenMode' = [seenMode EXCEPT ![t] = "record"]

\* Calls that may still find the recorder enabled stay within MaxCalls.
CallsLeft == calls + Cardinality({t \in Threads : pc[t] = "call"}) < MaxCalls

\* A wrapper has made its native call and enters record_event.
Call(t, violation) ==
  /\ ~aborted /\ pc[t] = "idle" /\ CallsLeft
  /\ Goto(t, "call")
  /\ event' = [event EXCEPT ![t] = [NoEvent EXCEPT !.violation = violation]]
  /\ UNCHANGED <<shared, settings, index, seenMode, inner, ghosts, aborted>>

\* Outside the recorder the thread-local guard is clear, so a call that finds
\* g_enabled set goes on to claim; otherwise the wrapper is transparent.
LoadEnabled(t) ==
  /\ ~aborted /\ pc[t] = "call"
  /\ IF enabled
       THEN /\ Goto(t, "claim")
            /\ calls' = calls + 1
            /\ observed' = observed \cup {calls + 1}
            /\ event' = [event EXCEPT ![t].call = calls + 1]
            /\ UNCHANGED <<index, seenMode>>
       ELSE Leave(t) /\ UNCHANGED <<calls, observed>>
  /\ UNCHANGED <<shared, settings, inner, forked, aborted>>

Claim(t) ==
  /\ ~aborted /\ pc[t] = "claim"
  /\ index' = [index EXCEPT ![t] = claimed]
  /\ claimed' = claimed + 1
  /\ Goto(t, "capacity")
  /\ UNCHANGED <<published, slotEvent, dropped, reentrant, settings, event,
                 seenMode, inner, ghosts, aborted>>

\* Mutant: the boundary of the buffer is off by one.
LoadCapacity_OffByOne(t) ==
  /\ ~aborted /\ pc[t] = "capacity"
  /\ Goto(t, IF index[t] > capacity THEN "drop" ELSE "write")
  /\ UNCHANGED <<shared, settings, index, event, seenMode, inner, ghosts,
                 aborted>>

\* Mutant: a full buffer overwrites its oldest event.
LoadCapacity_Wraps(t) ==
  /\ ~aborted /\ pc[t] = "capacity"
  /\ Goto(t, "write")
  /\ index' = [index EXCEPT ![t] = @ % capacity]
  /\ UNCHANGED <<shared, settings, event, seenMode, inner, ghosts, aborted>>

LoadCapacity(t) ==
  /\ ~aborted /\ pc[t] = "capacity"
  /\ Goto(t, IF index[t] >= capacity THEN "drop" ELSE "write")
  /\ UNCHANGED <<shared, settings, index, event, seenMode, inner, ghosts,
                 aborted>>

\* Mutant: the early return is missing.
Drop_FallsThrough(t) ==
  /\ ~aborted /\ pc[t] = "drop"
  /\ dropped' = dropped + 1
  /\ Goto(t, "mode")
  /\ UNCHANGED <<published, slotEvent, claimed, reentrant, settings, index,
                 event, seenMode, inner, ghosts, aborted>>

Drop(t) ==
  /\ ~aborted /\ pc[t] = "drop"
  /\ dropped' = dropped + 1
  /\ Leave(t)
  /\ UNCHANGED <<published, slotEvent, claimed, reentrant, settings, inner,
                 ghosts, aborted>>

\* Mutant: sequence numbers start at zero.
WriteSlot_ZeroBased(t) ==
  /\ ~aborted /\ pc[t] = "write"
  /\ slotEvent' = [slotEvent EXCEPT
                     ![index[t]] = [event[t] EXCEPT !.sequence = index[t]]]
  /\ Goto(t, "publish")
  /\ UNCHANGED <<published, claimed, dropped, reentrant, settings, index,
                 event, seenMode, inner, ghosts, aborted>>

WriteSlot(t) ==
  /\ ~aborted /\ pc[t] = "write"
  /\ slotEvent' = [slotEvent EXCEPT
                     ![index[t]] = [event[t] EXCEPT !.sequence = index[t] + 1]]
  /\ Goto(t, "publish")
  /\ UNCHANGED <<published, claimed, dropped, reentrant, settings, index,
                 event, seenMode, inner, ghosts, aborted>>

Publish(t) ==
  /\ ~aborted /\ pc[t] = "publish"
  /\ published' = [published EXCEPT ![index[t]] = TRUE]
  /\ Goto(t, "mode")
  /\ UNCHANGED <<slotEvent, claimed, dropped, reentrant, settings, index,
                 event, seenMode, inner, ghosts, aborted>>

LoadMode(t) ==
  /\ ~aborted /\ pc[t] = "mode"
  /\ seenMode' = [seenMode EXCEPT ![t] = mode]
  /\ Goto(t, "callback")
  /\ UNCHANGED <<shared, settings, index, event, inner, ghosts, aborted>>

LoadCallback(t) ==
  /\ ~aborted /\ pc[t] = "callback"
  /\ Goto(t, IF seenMode[t] = "report" /\ callback THEN "user" ELSE "unwind")
  /\ UNCHANGED <<shared, settings, index, event, seenMode, inner, ghosts,
                 aborted>>

\* The callback calls a wrapper, whose record_event finds the guard set.
NestedCall(t) ==
  /\ ~aborted /\ pc[t] = "user" /\ enabled /\ CallsLeft
  /\ Goto(t, "nested")
  /\ calls' = calls + 1
  /\ observed' = observed \cup {calls + 1}
  /\ inner' = [inner EXCEPT ![t] = calls + 1]
  /\ UNCHANGED <<shared, settings, index, event, seenMode, forked, aborted>>

\* Mutant: a recursive call is passed over in silence.
CountReentrant_Uncounted(t) ==
  /\ ~aborted /\ pc[t] = "nested"
  /\ Goto(t, "user")
  /\ inner' = [inner EXCEPT ![t] = 0]
  /\ UNCHANGED <<shared, settings, index, event, seenMode, ghosts, aborted>>

\* Mutant: a lock in place of the guard; the recursive call waits for itself.
CountReentrant_Locks(t) ==
  /\ ~aborted /\ pc[t] = "nested" /\ \A u \in Threads : pc[u] \in {"idle", "gone"}
  /\ Goto(t, "user")
  /\ UNCHANGED <<shared, settings, index, event, seenMode, inner, ghosts,
                 aborted>>

CountReentrant(t) ==
  /\ ~aborted /\ pc[t] = "nested"
  /\ reentrant' = reentrant + 1
  /\ Goto(t, "user")
  /\ inner' = [inner EXCEPT ![t] = 0]
  /\ UNCHANGED <<published, slotEvent, claimed, dropped, settings, index,
                 event, seenMode, ghosts, aborted>>

CallbackReturns(t) ==
  /\ ~aborted /\ pc[t] = "user"
  /\ Goto(t, "unwind")
  /\ UNCHANGED <<shared, settings, index, event, seenMode, inner, ghosts,
                 aborted>>

\* Mutant: the assertion compares with the wrong mode.
Unwind_WrongMode(t) ==
  /\ ~aborted /\ pc[t] = "unwind"
  /\ Leave(t)
  /\ aborted' = (seenMode[t] = "report" /\ event[t].violation)
  /\ UNCHANGED <<shared, settings, inner, ghosts>>

\* The guard is cleared; an asserting monitor then ends the process.
Unwind(t) ==
  /\ ~aborted /\ pc[t] = "unwind"
  /\ Leave(t)
  /\ aborted' = (seenMode[t] = "assert" /\ event[t].violation)
  /\ UNCHANGED <<shared, settings, inner, ghosts>>

Record(t) ==
  \/ LoadEnabled(t) \/ Claim(t) \/ LoadCapacity(t) \/ Drop(t)
  \/ WriteSlot(t) \/ Publish(t) \/ LoadMode(t) \/ LoadCallback(t)
  \/ CountReentrant(t) \/ CallbackReturns(t) \/ Unwind(t)

-----------------------------------------------------------------------------
(* Control plane.                                                          *)

ClearSlots ==
  /\ published' = [i \in Index |-> FALSE]
  /\ slotEvent' = [i \in Index |-> NoEvent]
  /\ claimed' = 0 /\ dropped' = 0 /\ reentrant' = 0
  /\ observed' = {}

\* Mutant: the capacity is not compared with the length of the array.
ConfigStatus_NoMaximum(config) ==
  IF config.abi /\ config.size /\ config.mode # "invalid"
     /\ config.capacity # 0 /\ config.reservedZero THEN "ok" ELSE "error"

ConfigStatus(config) ==
  CASE ~config.abi -> "unsupported_abi"
    [] ~config.size -> "invalid_argument"
    [] OTHER -> IF \/ config.mode = "invalid"
                   \/ config.capacity \notin 1 .. MaxCapacity
                   \/ ~config.reservedZero
                  THEN "invalid_argument" ELSE "ok"

\* A rejected configuration, or a failure of initialize_platform_metrics,
\* returns before anything is stored.  The result of pthread_atfork is kept in
\* a static and never looked at: a failed registration is not retried.
Initialize(config) ==
  /\ ~aborted /\ Quiescent
  /\ ConfigStatus(config) = "ok"
  /\ ClearSlots
  /\ capacity' = config.capacity
  /\ mode' = config.mode
  /\ callback' = config.callback
  /\ atfork' \in IF atfork = "unregistered" THEN {"registered", "failed"}
                                            ELSE {atfork}
  /\ enabled' = TRUE
  /\ forked' = "no"
  /\ UNCHANGED <<locals, calls, aborted>>

SetEnabled(value) ==
  /\ ~aborted
  /\ enabled' = value
  /\ forked' = IF forked = "clean" THEN "no" ELSE forked
  /\ UNCHANGED <<shared, capacity, mode, callback, atfork, locals, calls,
                 observed, aborted>>

\* clear_slots disables the recorder; reset restores what it found.
Reset ==
  /\ ~aborted /\ Quiescent
  /\ ClearSlots
  /\ forked' = IF forked = "raw" THEN "no" ELSE forked
  /\ UNCHANGED <<settings, locals, calls, aborted>>

Shutdown ==
  /\ ~aborted /\ Quiescent
  /\ enabled' = FALSE /\ callback' = FALSE
  /\ UNCHANGED <<shared, capacity, mode, atfork, locals, ghosts, aborted>>

\* Mutant: the child stays enabled.
ChildClear_StaysEnabled ==
  /\ ClearSlots
  /\ callback' = FALSE /\ UNCHANGED enabled

\* What child_after_fork and rs_runtime_after_fork_child_v1 both do.
ChildClear ==
  /\ ClearSlots
  /\ enabled' = FALSE /\ callback' = FALSE

AfterForkChild ==
  /\ ~aborted /\ Quiescent
  /\ ChildClear
  /\ forked' = IF forked = "raw" THEN "clean" ELSE forked
  /\ UNCHANGED <<capacity, mode, atfork, locals, calls, aborted>>

\* fork() called by a thread that is outside the recorder or in the callback.
\* The child has that thread only; the atfork handler runs if registered.
Fork(t) ==
  /\ ~aborted /\ pc[t] \in {"idle", "user"}
  /\ pc' = [u \in Threads |-> IF u = t THEN pc[t] ELSE "gone"]
  /\ IF atfork = "registered"
       THEN ChildClear /\ forked' = "clean"
       ELSE /\ forked' = "raw"
            /\ UNCHANGED <<shared, observed, enabled, callback>>
  /\ UNCHANGED <<capacity, mode, atfork, index, event, seenMode, inner, calls,
                 aborted>>

Control ==
  \/ \E config \in Configs : Initialize(config)
  \/ \E value \in BOOLEAN : SetEnabled(value)
  \/ Reset \/ Shutdown \/ AfterForkChild
  \/ \E t \in Threads : Fork(t)

\* abort() ended the process.
Terminated == aborted /\ UNCHANGED vars

Next ==
  \/ \E t \in Threads, violation \in BOOLEAN : Call(t, violation)
  \/ \E t \in Threads : NestedCall(t) \/ Record(t)
  \/ Control
  \/ Terminated

\* The operating system schedules every thread, and the callback returns.
Fairness == \A t \in Threads : WF_vars(Record(t))

Spec == Init /\ [][Next]_vars /\ Fairness

-----------------------------------------------------------------------------
(* Properties.                                                             *)

Labels == {"idle", "call", "claim", "capacity", "drop", "write", "publish",
           "mode", "callback", "user", "nested", "unwind", "gone"}

\* The type of every variable.
TypeOK ==
  /\ published \in [Index -> BOOLEAN]
  /\ slotEvent \in [Index -> Event]
  /\ claimed \in Nat /\ dropped \in Nat /\ reentrant \in Nat
  /\ capacity \in 1 .. MaxCapacity /\ mode \in Modes
  /\ enabled \in BOOLEAN /\ callback \in BOOLEAN
  /\ atfork \in {"unregistered", "registered", "failed"}
  /\ pc \in [Threads -> Labels]
  /\ index \in [Threads -> Nat]
  /\ event \in [Threads -> Event]
  /\ seenMode \in [Threads -> Modes]
  /\ inner \in [Threads -> Nat]
  /\ aborted \in BOOLEAN
  /\ calls \in Nat /\ observed \subseteq 1 .. calls
  /\ forked \in {"no", "clean", "raw"}

\* Thread t has claimed slot i and not yet published it.
Owns(t, i) == pc[t] \in {"capacity", "write", "publish"} /\ index[t] = i

\* The claim of record_event is exclusive: no two threads write one slot, none
\* writes a slot that a reader may already be copying because it is published,
\* and none writes outside the configured part of g_slots.
SlotOwnership ==
  \A t \in Threads : pc[t] \in {"write", "publish"} =>
    /\ index[t] < capacity
    /\ ~published[index[t]]
    /\ \A u \in Threads \ {t} : ~Owns(u, index[t])

\* Once the threads are quiescent the published slots are exactly those below
\* min(g_claimed, g_capacity), each holding the sequence number of its place:
\* what flush needs to write contiguous events and never to find a slot busy.
QuiescentContiguous ==
  Quiescent /\ forked # "raw" =>
    \A i \in Index : /\ published[i] <=> i < Recorded
                     /\ published[i] => slotEvent[i].sequence = i + 1

RecordedCalls == {slotEvent[i].call : i \in {j \in Index : published[j]}}

\* No call is recorded in two slots.
RecordedOnce ==
  \A i, j \in Index : published[i] /\ published[j] /\ i # j =>
    slotEvent[i].call # slotEvent[j].call

\* Completeness is exact at quiescence: g_dropped and g_reentrant are both zero
\* precisely when the buffer holds every call that found the recorder enabled,
\* each once.
\* A full buffer or a recursive call is never missed, and none is invented; and
\* every claim is accounted for, so next_sequence - 1 is recorded plus dropped.
CompleteIsExact ==
  Quiescent /\ forked # "raw" =>
    /\ Complete <=> observed = RecordedCalls
    /\ RecordedOnce
    /\ claimed = Recorded + dropped

\* In assert mode the process ends only after a violation has been recorded:
\* the evidence is in a published slot when abort is called.
AbortAfterEvidence ==
  aborted => /\ mode = "assert"
             /\ \E i \in Index : published[i] /\ slotEvent[i].violation

\* In a child whose atfork handler ran the recorder stays disabled and empty
\* until the child enables it, also when the fork came from the callback and
\* the recording of the parent is still unwinding in the child.
HandledChildStaysEmpty ==
  forked = "clean" =>
    /\ ~enabled /\ ~callback
    /\ claimed = 0 /\ Complete
    /\ \A i \in Index : ~published[i]

\* What a step may do to the published events: nothing, or clear them all
\* together with the counters.
EventsKept ==
  \A i \in Index : published[i] =>
    IF published'[i] THEN slotEvent'[i] = slotEvent[i]
    ELSE /\ claimed' = 0 /\ dropped' = 0 /\ reentrant' = 0
         /\ \A j \in Index : ~published'[j]

\* A published event never changes, and a slot is unpublished only together
\* with the whole buffer and its counters.
PublishedIsStable == [][EventsKept]_vars

\* record_event is wait-free: a call that has begun returns or the process
\* ends, whatever the other threads do.
CallsReturn ==
  \A t \in Threads :
    pc[t] \notin {"idle", "gone"} ~> pc[t] \in {"idle", "gone"} \/ aborted

\* A violation recorded in assert mode does end the process (a fork can take
\* the recording thread away before it gets there).
AssertFires ==
  (mode = "assert" /\ \E i \in Index : published[i] /\ slotEvent[i].violation)
    ~> (aborted \/ forked # "no")

\* What docs/runtime-monitor.md says of every fork: the child inherits the
\* library disabled with an empty buffer.
ForkedChildIsDisabled ==
  [][forked' # "no" /\ (\E t \in Threads : Fork(t)) =>
       ~enabled' /\ claimed' = 0]_vars

-----------------------------------------------------------------------------
(* The inductive strengthening of the invariants above.                    *)

\* The claims of threads that have not published are below g_claimed, within
\* the buffer where they go on to write, exclusive and unpublished.
ClaimInv ==
  /\ \A t \in Threads :
       /\ pc[t] \in {"capacity", "write", "publish"} =>
            /\ index[t] < claimed
            /\ index[t] < capacity => ~published[index[t]]
       /\ pc[t] \in {"write", "publish"} => index[t] < capacity
       /\ pc[t] = "drop" => index[t] >= capacity
  /\ \A t, u \in Threads : t # u /\ Owns(u, index[t]) =>
       pc[t] \notin {"capacity", "write", "publish"}

\* What a slot holds, and that every claimed slot is published or owned.
SlotInv ==
  /\ \A i \in Index : published[i] =>
       i < claimed /\ i < capacity /\ slotEvent[i].sequence = i + 1
  /\ \A t \in Threads : pc[t] = "publish" =>
       slotEvent[index[t]] = [event[t] EXCEPT !.sequence = index[t] + 1]
  /\ forked # "raw" =>
       \A i \in Index : i < claimed /\ i < capacity =>
         published[i] \/ \E t \in Threads : Owns(t, i)

\* A thread on its way to abort has its evidence published.
EvidenceInv ==
  /\ \A t \in Threads :
       /\ \/ pc[t] = "mode"
          \/ pc[t] \in {"callback", "unwind"} /\ seenMode[t] # "report"
          => /\ index[t] \in Index /\ published[index[t]]
             /\ slotEvent[index[t]].violation = event[t].violation
       /\ pc[t] \in {"callback", "unwind"} /\ seenMode[t] = "assert"
          => mode = "assert"
       /\ pc[t] \in {"user", "nested"} => seenMode[t] = "report"
  /\ AbortAfterEvidence

\* Nothing of a recording in progress touches the buffer of a clean child.
ChildInv ==
  /\ HandledChildStaysEmpty
  /\ forked = "clean" =>
       \A t \in Threads : pc[t] \in {"idle", "call", "user", "unwind", "gone"}

\* The call a thread is recording, or its callback is making.
Recording(t) ==
  pc[t] \in {"claim", "capacity", "drop", "write", "publish", "nested"}
CallOf(t) == IF pc[t] = "nested" THEN inner[t] ELSE event[t].call

\* Where an observed call is: in one slot, with one thread, or lost and then
\* counted.
CallInv ==
  /\ \A t \in Threads : Recording(t) =>
       /\ CallOf(t) \in observed
       /\ \A u \in Threads \ {t} : Recording(u) => CallOf(u) # CallOf(t)
       /\ \A i \in Index : published[i] => slotEvent[i].call # CallOf(t)
  /\ \A i \in Index : published[i] => slotEvent[i].call \in observed
  /\ RecordedOnce
  /\ forked # "raw" /\ Complete =>
       \A c \in observed :
         \/ \E t \in Threads : Recording(t) /\ CallOf(t) = c
         \/ \E i \in Index : published[i] /\ slotEvent[i].call = c
  /\ ~Complete =>
       \E c \in observed :
         /\ \A t \in Threads : Recording(t) => CallOf(t) # c
         /\ \A i \in Index : published[i] => slotEvent[i].call # c

\* Threads whose claim is beyond the buffer and not yet counted in g_dropped.
Dropping == {t \in Threads : pc[t] \in {"capacity", "drop"} /\ index[t] >= capacity}

CountInv ==
  forked # "raw" =>
    dropped + Cardinality(Dropping) =
      IF claimed > capacity THEN claimed - capacity ELSE 0

\* The inductive invariant.
RecorderInv ==
  ClaimInv /\ SlotInv /\ EvidenceInv /\ ChildInv /\ CallInv /\ CountInv

=============================================================================
