-------------------------- MODULE RecorderProofs --------------------------
(***************************************************************************)
(* Proofs about Recorder and its readers for any set of threads, any       *)
(* capacity and any number of calls.                                       *)
(***************************************************************************)
EXTENDS RecorderReaders, FiniteSetTheorems, TLAPS

\* Any step of the specification, by the action that takes it.
LEMMA NextCases ==
  ASSUME [Next]_vars
  PROVE  \/ \E t \in Threads :
              \/ \E violation \in BOOLEAN : Call(t, violation)
              \/ NestedCall(t) \/ LoadEnabled(t) \/ Claim(t) \/ LoadCapacity(t)
              \/ Drop(t) \/ WriteSlot(t) \/ Publish(t) \/ LoadMode(t)
              \/ LoadCallback(t) \/ CountReentrant(t) \/ CallbackReturns(t)
              \/ Unwind(t) \/ Fork(t)
         \/ \E config \in Configs : Initialize(config)
         \/ \E value \in BOOLEAN : SetEnabled(value)
         \/ Reset \/ Shutdown \/ AfterForkChild
         \/ UNCHANGED vars
BY DEF Next, Record, Control, Terminated

\* A configuration that initialize accepts sets a capacity within g_slots.
LEMMA AcceptedConfig ==
  ASSUME NEW config \in Configs, ConfigStatus(config) = "ok"
  PROVE  /\ config.capacity \in 1 .. MaxCapacity
         /\ config.mode \in Modes
         /\ config.callback \in BOOLEAN
<1>1. config \in ConfigType
  BY ConfigsAssumption
<1>2. config.abi /\ config.size
  BY <1>1 DEF ConfigStatus, ConfigType
<1>3. config.mode # "invalid" /\ config.capacity \in 1 .. MaxCapacity
  BY <1>1, <1>2 DEF ConfigStatus, ConfigType
<1>4. QED
  BY <1>1, <1>3 DEF ConfigType

\* The value clear_slots gives an event is an event.
LEMMA NoEventType == NoEvent \in Event
BY DEF NoEvent, Event

\* clear_slots leaves the buffer well typed and empty.
LEMMA ClearSlotsType ==
  ASSUME ClearSlots
  PROVE  /\ published' \in [Index -> BOOLEAN]
         /\ slotEvent' \in [Index -> Event]
         /\ claimed' \in Nat /\ dropped' \in Nat /\ reentrant' \in Nat
         /\ observed' = {}
BY NoEventType DEF ClearSlots

\* Returning from record_event leaves the locals well typed.
LEMMA LeaveType ==
  ASSUME TypeOK, NEW t \in Threads, Leave(t)
  PROVE  /\ pc' \in [Threads -> Labels]
         /\ index' \in [Threads -> Nat]
         /\ event' \in [Threads -> Event]
         /\ seenMode' \in [Threads -> Modes]
BY NoEventType DEF TypeOK, Leave, Goto, Labels, Modes

\* Loading g_enabled changes nothing but the locals of the thread.
LEMMA LoadEnabledFrame ==
  ASSUME TypeOK, NEW t \in Threads, LoadEnabled(t)
  PROVE  /\ ~aborted /\ pc[t] = "call" /\ pc'[t] \in {"claim", "idle"}
         /\ pc'[t] = "claim" => enabled
         /\ \A u \in Threads \ {t} :
              /\ pc'[u] = pc[u] /\ index'[u] = index[u]
              /\ event'[u] = event[u] /\ seenMode'[u] = seenMode[u]
         /\ UNCHANGED <<shared, settings, inner, forked, aborted>>
<1>1. CASE enabled
  BY <1>1 DEF LoadEnabled, Goto, TypeOK
<1>2. CASE ~enabled
  BY <1>2 DEF LoadEnabled, Leave, Goto, TypeOK
<1>3. QED
  BY <1>1, <1>2

\* The types hold initially.
LEMMA TypeInit ==
  ASSUME Init
  PROVE  TypeOK
<1>1. /\ published \in [Index -> BOOLEAN] /\ slotEvent \in [Index -> Event]
      /\ event \in [Threads -> Event]
  BY NoEventType DEF Init
<1>2. /\ pc \in [Threads -> Labels] /\ index \in [Threads -> Nat]
      /\ seenMode \in [Threads -> Modes] /\ inner \in [Threads -> Nat]
  BY DEF Init, Labels, Modes
<1>3. capacity \in 1 .. MaxCapacity
  BY CapacityAssumption DEF Init
<1>4. QED
  BY <1>1, <1>2, <1>3 DEF Init, TypeOK, Modes

\* Every step keeps the types, whatever the threads and their callers do.
LEMMA TypeStep ==
  ASSUME TypeOK, [Next]_vars
  PROVE  TypeOK'
<1> USE DEF TypeOK, Labels, Modes, Goto, shared, settings, ghosts, locals
<1>1. ASSUME NEW t \in Threads, NEW violation \in BOOLEAN, Call(t, violation)
      PROVE  TypeOK'
  BY <1>1 DEF Call, Event, NoEvent
<1>2. ASSUME NEW t \in Threads, NestedCall(t) PROVE TypeOK'
  BY <1>2 DEF NestedCall
<1>3. ASSUME NEW t \in Threads, LoadEnabled(t) PROVE TypeOK'
  <2>1. CASE enabled
    <3>1. [event[t] EXCEPT !.call = calls + 1] \in Event
      BY DEF Event
    <3>2. event' \in [Threads -> Event]
      BY <1>3, <2>1, <3>1 DEF LoadEnabled
    <3>3. observed' \subseteq 1 .. calls'
      BY <1>3, <2>1 DEF LoadEnabled
    <3>4. QED
      BY <1>3, <2>1, <3>2, <3>3 DEF LoadEnabled
  <2>2. CASE ~enabled
    BY <1>3, <2>2, LeaveType DEF LoadEnabled
  <2>3. QED
    BY <2>1, <2>2
<1>4. ASSUME NEW t \in Threads, Claim(t) PROVE TypeOK'
  BY <1>4 DEF Claim
<1>5. ASSUME NEW t \in Threads, LoadCapacity(t) PROVE TypeOK'
  BY <1>5 DEF LoadCapacity
<1>6. ASSUME NEW t \in Threads, Drop(t) PROVE TypeOK'
  <2>1. /\ pc' \in [Threads -> Labels]
        /\ index' \in [Threads -> Nat]
        /\ event' \in [Threads -> Event]
        /\ seenMode' \in [Threads -> Modes]
    BY <1>6, LeaveType DEF Drop
  <2> QED
    BY <1>6, <2>1 DEF Drop
<1>7. ASSUME NEW t \in Threads, WriteSlot(t) PROVE TypeOK'
  <2>1. [event[t] EXCEPT !.sequence = index[t] + 1] \in Event
    BY DEF Event
  <2>2. slotEvent' \in [Index -> Event]
    BY <1>7, <2>1 DEF WriteSlot
  <2>3. QED
    BY <1>7, <2>2 DEF WriteSlot
<1>8. ASSUME NEW t \in Threads, Publish(t) PROVE TypeOK'
  BY <1>8 DEF Publish
<1>9. ASSUME NEW t \in Threads, LoadMode(t) PROVE TypeOK'
  BY <1>9 DEF LoadMode
<1>10. ASSUME NEW t \in Threads, LoadCallback(t) PROVE TypeOK'
  BY <1>10 DEF LoadCallback
<1>11. ASSUME NEW t \in Threads, CountReentrant(t) PROVE TypeOK'
  BY <1>11 DEF CountReentrant
<1>12. ASSUME NEW t \in Threads, CallbackReturns(t) PROVE TypeOK'
  BY <1>12 DEF CallbackReturns
<1>13. ASSUME NEW t \in Threads, Unwind(t) PROVE TypeOK'
  <2>1. /\ pc' \in [Threads -> Labels]
        /\ index' \in [Threads -> Nat]
        /\ event' \in [Threads -> Event]
        /\ seenMode' \in [Threads -> Modes]
    BY <1>13, LeaveType DEF Unwind
  <2>2. aborted' \in BOOLEAN
    BY <1>13 DEF Unwind
  <2> QED
    BY <1>13, <2>1, <2>2 DEF Unwind
<1>14. ASSUME NEW t \in Threads, Fork(t) PROVE TypeOK'
  <2>1. pc' \in [Threads -> Labels]
    BY <1>14 DEF Fork
  <2>2. CASE atfork = "registered"
    BY <1>14, <2>1, <2>2, ClearSlotsType DEF Fork, ChildClear
  <2>3. CASE atfork # "registered"
    BY <1>14, <2>1, <2>3 DEF Fork
  <2>4. QED
    BY <2>2, <2>3
<1>15. ASSUME NEW config \in Configs, Initialize(config) PROVE TypeOK'
  <2>1. /\ config.capacity \in 1 .. MaxCapacity
        /\ config.mode \in Modes
        /\ config.callback \in BOOLEAN
    BY <1>15, AcceptedConfig DEF Initialize
  <2>2. QED
    BY <1>15, <2>1, ClearSlotsType DEF Initialize
<1>16. ASSUME NEW value \in BOOLEAN, SetEnabled(value) PROVE TypeOK'
  BY <1>16 DEF SetEnabled
<1>17. CASE Reset
  BY <1>17, ClearSlotsType DEF Reset
<1>18. CASE Shutdown
  BY <1>18 DEF Shutdown
<1>19. CASE AfterForkChild
  BY <1>19, ClearSlotsType DEF AfterForkChild, ChildClear
<1>20. CASE UNCHANGED vars
  BY <1>20 DEF vars
<1>21. QED
  BY NextCases, <1>1, <1>2, <1>3, <1>4, <1>5, <1>6, <1>7, <1>8, <1>9, <1>10,
     <1>11, <1>12, <1>13, <1>14, <1>15, <1>16, <1>17, <1>18, <1>19, <1>20

\* The variables keep their types, whatever the threads and their callers do.
THEOREM TypeCorrect == Spec => []TypeOK
<1>1. Init => TypeOK
  BY TypeInit
<1>2. TypeOK /\ [Next]_vars => TypeOK'
  BY TypeStep
<1>3. QED
  BY <1>1, <1>2, PTL DEF Spec

\* Claims stay exclusive: fetch_add gives each thread an index of its own.
LEMMA ClaimInvStep ==
  ASSUME TypeOK, ClaimInv, SlotInv, [Next]_vars
  PROVE  ClaimInv'
<1> USE CapacityAssumption DEF TypeOK, ClaimInv, SlotInv, Owns, Goto, Index, shared, settings, locals, ghosts
<1>1. ASSUME NEW t \in Threads, NEW violation \in BOOLEAN, Call(t, violation)
      PROVE  ClaimInv'
  BY <1>1 DEF Call, NoEvent
<1>2. ASSUME NEW t \in Threads, NestedCall(t) PROVE ClaimInv'
  BY <1>2 DEF NestedCall
<1>3. ASSUME NEW t \in Threads, LoadEnabled(t) PROVE ClaimInv'
  <2>1. /\ ~aborted /\ pc[t] = "call" /\ pc'[t] \in {"claim", "idle"}
        /\ \A u \in Threads \ {t} :
             /\ pc'[u] = pc[u] /\ index'[u] = index[u]
             /\ event'[u] = event[u] /\ seenMode'[u] = seenMode[u]
        /\ UNCHANGED <<shared, settings, inner, forked, aborted>>
    BY <1>3, LoadEnabledFrame
  <2>2. ASSUME NEW u \in Threads
        PROVE  (/\ pc[u] \in {"capacity", "write", "publish"} =>
                     /\ index[u] < claimed
                     /\ index[u] < capacity => ~published[index[u]]
                /\ pc[u] \in {"write", "publish"} => index[u] < capacity
                /\ pc[u] = "drop" => index[u] >= capacity)'
    BY <2>1
  <2>3. ASSUME NEW u \in Threads, NEW v \in Threads, u # v,
               Owns(v, index[u])'
        PROVE  pc'[u] \notin {"capacity", "write", "publish"}
    <3>1. CASE u = t \/ v = t
      BY <2>1, <2>3, <3>1
    <3>2. CASE u # t /\ v # t
      BY <2>1, <2>3, <3>2
    <3>3. QED
      BY <3>1, <3>2
  <2>4. QED
    BY <2>2, <2>3
<1>4. ASSUME NEW t \in Threads, Claim(t) PROVE ClaimInv'
  <2>1. claimed < capacity => claimed \in Index /\ ~published[claimed]
    OBVIOUS
  <2>2. ASSUME NEW u \in Threads, u # t
        PROVE  pc'[u] = pc[u] /\ index'[u] = index[u]
    BY <1>4, <2>2 DEF Claim
  <2>3. index'[t] = claimed /\ pc'[t] = "capacity" /\ claimed' = claimed + 1
    BY <1>4 DEF Claim
  <2>4. UNCHANGED <<published, capacity>>
    BY <1>4 DEF Claim
  <2>5. \A u \in Threads \ {t} : ~(/\ pc'[u] \in {"capacity", "write", "publish"}
                                       /\ index'[u] = claimed)
    BY <2>2
  <2>6. ASSUME NEW u \in Threads
        PROVE  (/\ pc[u] \in {"capacity", "write", "publish"} =>
                     /\ index[u] < claimed
                     /\ index[u] < capacity => ~published[index[u]]
                /\ pc[u] \in {"write", "publish"} => index[u] < capacity
                /\ pc[u] = "drop" => index[u] >= capacity)'
    BY <2>1, <2>2, <2>3, <2>4
  <2>7. ASSUME NEW u \in Threads, NEW v \in Threads, u # v,
               Owns(v, index[u])'
        PROVE  pc'[u] \notin {"capacity", "write", "publish"}
    BY SMTT(30), <2>2, <2>3, <2>5, <2>7
  <2>8. QED
    BY <2>6, <2>7
<1>5. ASSUME NEW t \in Threads, LoadCapacity(t) PROVE ClaimInv'
  BY <1>5 DEF LoadCapacity
<1>6. ASSUME NEW t \in Threads, Drop(t) PROVE ClaimInv'
  BY <1>6 DEF Drop, Leave
<1>7. ASSUME NEW t \in Threads, WriteSlot(t) PROVE ClaimInv'
  BY <1>7 DEF WriteSlot
<1>8. ASSUME NEW t \in Threads, Publish(t) PROVE ClaimInv'
  BY <1>8 DEF Publish
<1>9. ASSUME NEW t \in Threads, LoadMode(t) PROVE ClaimInv'
  BY <1>9 DEF LoadMode
<1>10. ASSUME NEW t \in Threads, LoadCallback(t) PROVE ClaimInv'
  BY <1>10 DEF LoadCallback
<1>11. ASSUME NEW t \in Threads, CountReentrant(t) PROVE ClaimInv'
  BY <1>11 DEF CountReentrant
<1>12. ASSUME NEW t \in Threads, CallbackReturns(t) PROVE ClaimInv'
  BY <1>12 DEF CallbackReturns
<1>13. ASSUME NEW t \in Threads, Unwind(t) PROVE ClaimInv'
  BY <1>13 DEF Unwind, Leave
<1>14. ASSUME NEW t \in Threads, Fork(t) PROVE ClaimInv'
  BY <1>14 DEF Fork, ChildClear, ClearSlots
<1>15. ASSUME NEW config \in Configs, Initialize(config) PROVE ClaimInv'
  BY <1>15 DEF Initialize, ClearSlots, Quiescent
<1>16. ASSUME NEW value \in BOOLEAN, SetEnabled(value) PROVE ClaimInv'
  BY <1>16 DEF SetEnabled
<1>17. CASE Reset
  BY <1>17 DEF Reset, ClearSlots, Quiescent
<1>18. CASE Shutdown
  BY <1>18 DEF Shutdown
<1>19. CASE AfterForkChild
  BY <1>19 DEF AfterForkChild, ChildClear, ClearSlots, Quiescent
<1>20. CASE UNCHANGED vars
  BY <1>20 DEF vars
<1> HIDE DEF TypeOK, ClaimInv, SlotInv, Owns
<1>21. QED
  BY NextCases, <1>1, <1>2, <1>3, <1>4, <1>5, <1>6, <1>7, <1>8, <1>9, <1>10,
     <1>11, <1>12, <1>13, <1>14, <1>15, <1>16, <1>17, <1>18, <1>19, <1>20


\* Slots keep the event of the thread that claimed them, and no claim is lost.
LEMMA SlotInvStep ==
  ASSUME TypeOK, ClaimInv, SlotInv, [Next]_vars
  PROVE  SlotInv'
<1> USE CapacityAssumption DEF TypeOK, ClaimInv, SlotInv, Owns, Goto, Index, shared, settings, locals, ghosts
<1>1. ASSUME NEW t \in Threads, NEW violation \in BOOLEAN, Call(t, violation)
      PROVE  SlotInv'
  BY <1>1 DEF Call, NoEvent
<1>2. ASSUME NEW t \in Threads, NestedCall(t) PROVE SlotInv'
  BY <1>2 DEF NestedCall
<1>3. ASSUME NEW t \in Threads, LoadEnabled(t) PROVE SlotInv'
  <2>1. /\ ~aborted /\ pc[t] = "call" /\ pc'[t] \in {"claim", "idle"}
        /\ \A u \in Threads \ {t} :
             /\ pc'[u] = pc[u] /\ index'[u] = index[u]
             /\ event'[u] = event[u] /\ seenMode'[u] = seenMode[u]
        /\ UNCHANGED <<shared, settings, inner, forked, aborted>>
    BY <1>3, LoadEnabledFrame
  <2>2. ASSUME NEW u \in Threads, pc'[u] = "publish"
        PROVE  (slotEvent[index[u]] =
                  [event[u] EXCEPT !.sequence = index[u] + 1])'
    <3>1. u # t
      BY <2>1, <2>2
    <3>2. QED
      BY <2>1, <2>2, <3>1
  <2>3. ASSUME forked # "raw", NEW i \in Index, i < claimed, i < capacity
        PROVE  (published[i] \/ \E u \in Threads : Owns(u, i))'
    <3>1. CASE published[i]
      BY <2>1, <3>1
    <3>2. CASE ~published[i]
      <4>1. PICK u \in Threads : Owns(u, i)
        BY <2>3, <3>2
      <4>2. u # t
        BY <2>1, <4>1
      <4>3. Owns(u, i)'
        BY <2>1, <4>1, <4>2
      <4>4. QED
        BY <4>3
    <3>3. QED
      BY <3>1, <3>2
  <2>4. QED
    BY <2>1, <2>2, <2>3
<1>4. ASSUME NEW t \in Threads, Claim(t) PROVE SlotInv'
  <2>1. /\ pc[t] = "claim" /\ pc' = [pc EXCEPT ![t] = "capacity"]
        /\ index' = [index EXCEPT ![t] = claimed]
        /\ claimed' = claimed + 1
        /\ UNCHANGED <<published, slotEvent, capacity, event, forked>>
    BY <1>4 DEF Claim
  <2>2. ASSUME NEW i \in Index, published'[i]
        PROVE  (i < claimed /\ i < capacity /\ slotEvent[i].sequence = i + 1)'
    BY <2>1, <2>2
  <2>3. ASSUME NEW u \in Threads, pc'[u] = "publish"
        PROVE  (slotEvent[index[u]] =
                  [event[u] EXCEPT !.sequence = index[u] + 1])'
    BY <2>1, <2>3
  <2>4. ASSUME forked # "raw", NEW i \in Index, i < claimed + 1, i < capacity
        PROVE  published[i] \/ \E u \in Threads : Owns(u, i)'
    <3>1. CASE i = claimed
      BY <2>1, <3>1
    <3>2. CASE i < claimed
      BY <2>1, <2>4, <3>2
    <3>3. QED
      BY <2>4, <3>1, <3>2
  <2>5. QED
    BY <2>1, <2>2, <2>3, <2>4
<1>5. ASSUME NEW t \in Threads, LoadCapacity(t) PROVE SlotInv'
  BY <1>5 DEF LoadCapacity
<1>6. ASSUME NEW t \in Threads, Drop(t) PROVE SlotInv'
  BY <1>6 DEF Drop, Leave
<1>7. ASSUME NEW t \in Threads, WriteSlot(t) PROVE SlotInv'
  <2>1. /\ pc[t] = "write" /\ pc' = [pc EXCEPT ![t] = "publish"]
        /\ slotEvent' = [slotEvent EXCEPT
             ![index[t]] = [event[t] EXCEPT !.sequence = index[t] + 1]]
        /\ UNCHANGED <<published, claimed, capacity, index, event, forked>>
    BY <1>7 DEF WriteSlot
  <2>2. index[t] \in Index /\ ~published[index[t]]
    BY <2>1
  <2>3. ASSUME NEW i \in Index, published'[i]
        PROVE  (i < claimed /\ i < capacity /\ slotEvent[i].sequence = i + 1)'
    BY <2>1, <2>2, <2>3
  <2>4. ASSUME NEW u \in Threads, pc'[u] = "publish"
        PROVE  (slotEvent[index[u]] =
                  [event[u] EXCEPT !.sequence = index[u] + 1])'
    <3>1. CASE u = t
      BY <2>1, <2>2, <3>1
    <3>2. CASE u # t
      BY <2>1, <2>2, <2>4, <3>2
    <3>3. QED
      BY <3>1, <3>2
  <2>5. ASSUME forked # "raw", NEW i \in Index, i < claimed, i < capacity
        PROVE  published[i] \/ \E u \in Threads : Owns(u, i)'
    BY <2>1, <2>5
  <2>6. QED
    BY <2>1, <2>3, <2>4, <2>5
<1>8. ASSUME NEW t \in Threads, Publish(t) PROVE SlotInv'
  <2>1. /\ pc[t] = "publish" /\ pc' = [pc EXCEPT ![t] = "mode"]
        /\ published' = [published EXCEPT ![index[t]] = TRUE]
        /\ UNCHANGED <<slotEvent, claimed, capacity, index, event, forked>>
    BY <1>8 DEF Publish
  <2>2. /\ index[t] \in Index /\ index[t] < claimed /\ index[t] < capacity
    BY <2>1
  <2> slotEvent[index[t]].sequence = index[t] + 1
    <3>1. slotEvent[index[t]] = [event[t] EXCEPT !.sequence = index[t] + 1]
      BY <2>1
    <3>2. event[t] \in Event
      OBVIOUS
    <3>3. QED
      BY <3>1, <3>2 DEF Event
  <2>3. ASSUME NEW i \in Index, published'[i]
        PROVE  (i < claimed /\ i < capacity /\ slotEvent[i].sequence = i + 1)'
    BY <2>1, <2>2, <2>3
  <2>4. ASSUME NEW u \in Threads, pc'[u] = "publish"
        PROVE  (slotEvent[index[u]] =
                  [event[u] EXCEPT !.sequence = index[u] + 1])'
    BY <2>1, <2>4
  <2>5. ASSUME forked # "raw", NEW i \in Index, i < claimed, i < capacity
        PROVE  (published[i] \/ \E u \in Threads : Owns(u, i))'
    <3>1. CASE i = index[t]
      BY <2>1, <3>1
    <3>2. CASE i # index[t]
      BY <2>1, <2>5, <3>2
    <3>3. QED
      BY <3>1, <3>2
  <2>6. QED
    BY <2>1, <2>3, <2>4, <2>5
<1>9. ASSUME NEW t \in Threads, LoadMode(t) PROVE SlotInv'
  BY <1>9 DEF LoadMode
<1>10. ASSUME NEW t \in Threads, LoadCallback(t) PROVE SlotInv'
  BY <1>10 DEF LoadCallback
<1>11. ASSUME NEW t \in Threads, CountReentrant(t) PROVE SlotInv'
  BY <1>11 DEF CountReentrant
<1>12. ASSUME NEW t \in Threads, CallbackReturns(t) PROVE SlotInv'
  BY <1>12 DEF CallbackReturns
<1>13. ASSUME NEW t \in Threads, Unwind(t) PROVE SlotInv'
  BY <1>13 DEF Unwind, Leave
<1>14. ASSUME NEW t \in Threads, Fork(t) PROVE SlotInv'
  BY <1>14 DEF Fork, ChildClear, ClearSlots
<1>15. ASSUME NEW config \in Configs, Initialize(config) PROVE SlotInv'
  <2>1. \A i \in Index : ~published'[i]
    BY <1>15 DEF Initialize, ClearSlots
  <2>2. claimed' = 0
    BY <1>15 DEF Initialize, ClearSlots
  <2>3. \A t \in Threads : pc'[t] # "publish"
    BY <1>15 DEF Initialize, Quiescent
  <2>4. QED
    BY <2>1, <2>2, <2>3
<1>16. ASSUME NEW value \in BOOLEAN, SetEnabled(value) PROVE SlotInv'
  BY <1>16 DEF SetEnabled
<1>17. CASE Reset
  <2>1. \A i \in Index : ~published'[i]
    BY <1>17 DEF Reset, ClearSlots
  <2>2. claimed' = 0
    BY <1>17 DEF Reset, ClearSlots
  <2>3. \A t \in Threads : pc'[t] # "publish"
    BY <1>17 DEF Reset, Quiescent
  <2>4. QED
    BY <2>1, <2>2, <2>3
<1>18. CASE Shutdown
  BY <1>18 DEF Shutdown
<1>19. CASE AfterForkChild
  <2>1. \A i \in Index : ~published'[i]
    BY <1>19 DEF AfterForkChild, ChildClear, ClearSlots
  <2>2. claimed' = 0
    BY <1>19 DEF AfterForkChild, ChildClear, ClearSlots
  <2>3. \A t \in Threads : pc'[t] # "publish"
    BY <1>19 DEF AfterForkChild, ChildClear, Quiescent
  <2>4. QED
    BY <2>1, <2>2, <2>3
<1>20. CASE UNCHANGED vars
  BY <1>20 DEF vars
<1> HIDE DEF TypeOK, ClaimInv, SlotInv, Owns
<1>21. QED
  BY NextCases, <1>1, <1>2, <1>3, <1>4, <1>5, <1>6, <1>7, <1>8, <1>9, <1>10,
     <1>11, <1>12, <1>13, <1>14, <1>15, <1>16, <1>17, <1>18, <1>19, <1>20


\* Evidence precedes abort: the event is published before the mode is read.
LEMMA EvidenceInvStep ==
  ASSUME TypeOK, ClaimInv, SlotInv, EvidenceInv, [Next]_vars
  PROVE  EvidenceInv'
<1> USE CapacityAssumption DEF TypeOK, ClaimInv, SlotInv, EvidenceInv, AbortAfterEvidence, Event, Goto, Index, shared, settings, locals, ghosts
<1>1. ASSUME NEW t \in Threads, NEW violation \in BOOLEAN, Call(t, violation)
      PROVE  EvidenceInv'
  BY <1>1 DEF Call, NoEvent
<1>2. ASSUME NEW t \in Threads, NestedCall(t) PROVE EvidenceInv'
  BY <1>2 DEF NestedCall
<1>3. ASSUME NEW t \in Threads, LoadEnabled(t) PROVE EvidenceInv'
  <2>1. /\ ~aborted /\ pc[t] = "call" /\ pc'[t] \in {"claim", "idle"}
        /\ \A u \in Threads \ {t} :
             /\ pc'[u] = pc[u] /\ index'[u] = index[u]
             /\ event'[u] = event[u] /\ seenMode'[u] = seenMode[u]
        /\ UNCHANGED <<shared, settings, inner, forked, aborted>>
    BY <1>3, LoadEnabledFrame
  <2>2. QED
    BY ZenonT(30), <2>1
<1>4. ASSUME NEW t \in Threads, Claim(t) PROVE EvidenceInv'
  BY <1>4 DEF Claim
<1>5. ASSUME NEW t \in Threads, LoadCapacity(t) PROVE EvidenceInv'
  BY <1>5 DEF LoadCapacity
<1>6. ASSUME NEW t \in Threads, Drop(t) PROVE EvidenceInv'
  BY <1>6 DEF Drop, Leave
<1>7. ASSUME NEW t \in Threads, WriteSlot(t) PROVE EvidenceInv'
  BY <1>7 DEF WriteSlot
<1>8. ASSUME NEW t \in Threads, Publish(t) PROVE EvidenceInv'
  <2>1. /\ ~aborted
        /\ pc[t] = "publish" /\ pc' = [pc EXCEPT ![t] = "mode"]
        /\ published' = [published EXCEPT ![index[t]] = TRUE]
        /\ UNCHANGED <<slotEvent, index, event, seenMode, mode, aborted>>
    BY <1>8 DEF Publish
  <2>2. /\ index[t] \in Index
        /\ slotEvent[index[t]] = [event[t] EXCEPT !.sequence = index[t] + 1]
    BY <2>1
  <2>3. slotEvent[index[t]].violation = event[t].violation
    <3>1. event[t] \in Event
      OBVIOUS
    <3>2. QED
      BY <2>2, <3>1 DEF Event
  <2>4. QED
    BY <1>8, <2>1, <2>2, <2>3
<1>9. ASSUME NEW t \in Threads, LoadMode(t) PROVE EvidenceInv'
  BY <1>9 DEF LoadMode
<1>10. ASSUME NEW t \in Threads, LoadCallback(t) PROVE EvidenceInv'
  BY <1>10 DEF LoadCallback
<1>11. ASSUME NEW t \in Threads, CountReentrant(t) PROVE EvidenceInv'
  BY <1>11 DEF CountReentrant
<1>12. ASSUME NEW t \in Threads, CallbackReturns(t) PROVE EvidenceInv'
  BY <1>12 DEF CallbackReturns
<1>13. ASSUME NEW t \in Threads, Unwind(t) PROVE EvidenceInv'
  BY <1>13 DEF Unwind, Leave
<1>14. ASSUME NEW t \in Threads, Fork(t) PROVE EvidenceInv'
  BY <1>14 DEF Fork, ChildClear, ClearSlots
<1>15. ASSUME NEW config \in Configs, Initialize(config) PROVE EvidenceInv'
  BY <1>15 DEF Initialize, ClearSlots, Quiescent
<1>16. ASSUME NEW value \in BOOLEAN, SetEnabled(value) PROVE EvidenceInv'
  BY <1>16 DEF SetEnabled
<1>17. CASE Reset
  BY <1>17 DEF Reset, ClearSlots, Quiescent
<1>18. CASE Shutdown
  BY <1>18 DEF Shutdown
<1>19. CASE AfterForkChild
  BY <1>19 DEF AfterForkChild, ChildClear, ClearSlots, Quiescent
<1>20. CASE UNCHANGED vars
  BY <1>20 DEF vars
<1> HIDE DEF TypeOK, ClaimInv, SlotInv, EvidenceInv, AbortAfterEvidence, Event
<1>21. QED
  BY NextCases, <1>1, <1>2, <1>3, <1>4, <1>5, <1>6, <1>7, <1>8, <1>9, <1>10,
     <1>11, <1>12, <1>13, <1>14, <1>15, <1>16, <1>17, <1>18, <1>19, <1>20


\* A child whose handler ran stays empty until it enables the recorder.
LEMMA ChildInvStep ==
  ASSUME TypeOK, ChildInv, EvidenceInv, [Next]_vars
  PROVE  ChildInv'
<1> USE CapacityAssumption DEF TypeOK, ChildInv, HandledChildStaysEmpty, Complete, EvidenceInv, Goto, Index, shared, settings, locals, ghosts
<1>1. ASSUME NEW t \in Threads, NEW violation \in BOOLEAN, Call(t, violation)
      PROVE  ChildInv'
  BY <1>1 DEF Call, NoEvent
<1>2. ASSUME NEW t \in Threads, NestedCall(t) PROVE ChildInv'
  BY <1>2 DEF NestedCall
<1>3. ASSUME NEW t \in Threads, LoadEnabled(t) PROVE ChildInv'
  BY <1>3 DEF LoadEnabled, Leave
<1>4. ASSUME NEW t \in Threads, Claim(t) PROVE ChildInv'
  BY <1>4 DEF Claim
<1>5. ASSUME NEW t \in Threads, LoadCapacity(t) PROVE ChildInv'
  BY <1>5 DEF LoadCapacity
<1>6. ASSUME NEW t \in Threads, Drop(t) PROVE ChildInv'
  BY <1>6 DEF Drop, Leave
<1>7. ASSUME NEW t \in Threads, WriteSlot(t) PROVE ChildInv'
  BY <1>7 DEF WriteSlot
<1>8. ASSUME NEW t \in Threads, Publish(t) PROVE ChildInv'
  BY <1>8 DEF Publish
<1>9. ASSUME NEW t \in Threads, LoadMode(t) PROVE ChildInv'
  BY <1>9 DEF LoadMode
<1>10. ASSUME NEW t \in Threads, LoadCallback(t) PROVE ChildInv'
  BY <1>10 DEF LoadCallback
<1>11. ASSUME NEW t \in Threads, CountReentrant(t) PROVE ChildInv'
  BY <1>11 DEF CountReentrant
<1>12. ASSUME NEW t \in Threads, CallbackReturns(t) PROVE ChildInv'
  BY <1>12 DEF CallbackReturns
<1>13. ASSUME NEW t \in Threads, Unwind(t) PROVE ChildInv'
  BY <1>13 DEF Unwind, Leave
<1>14. ASSUME NEW t \in Threads, Fork(t) PROVE ChildInv'
  BY <1>14 DEF Fork, ChildClear, ClearSlots
<1>15. ASSUME NEW config \in Configs, Initialize(config) PROVE ChildInv'
  BY <1>15 DEF Initialize, ClearSlots, Quiescent
<1>16. ASSUME NEW value \in BOOLEAN, SetEnabled(value) PROVE ChildInv'
  BY <1>16 DEF SetEnabled
<1>17. CASE Reset
  BY <1>17 DEF Reset, ClearSlots, Quiescent
<1>18. CASE Shutdown
  BY <1>18 DEF Shutdown
<1>19. CASE AfterForkChild
  BY <1>19 DEF AfterForkChild, ChildClear, ClearSlots, Quiescent
<1>20. CASE UNCHANGED vars
  BY <1>20 DEF vars
<1> HIDE DEF TypeOK, ChildInv, HandledChildStaysEmpty, Complete, EvidenceInv
<1>21. QED
  BY NextCases, <1>1, <1>2, <1>3, <1>4, <1>5, <1>6, <1>7, <1>8, <1>9, <1>10,
     <1>11, <1>12, <1>13, <1>14, <1>15, <1>16, <1>17, <1>18, <1>19, <1>20

\* The parts of the invariant about the buffer hold initially.
LEMMA BufferInit ==
  ASSUME Init
  PROVE  ClaimInv /\ SlotInv /\ EvidenceInv /\ ChildInv
BY DEF Init, ClaimInv, SlotInv, EvidenceInv, ChildInv, Owns, Index,
       AbortAfterEvidence, HandledChildStaysEmpty

\* The part of the inductive invariant about claims, slots, evidence and fork
\* children: it holds initially, every step preserves it, and with the types
\* it carries the safety theorems below.
THEOREM BufferInvariant ==
  Spec => [](TypeOK /\ ClaimInv /\ SlotInv /\ EvidenceInv /\ ChildInv)
<1>1. Init => ClaimInv /\ SlotInv /\ EvidenceInv /\ ChildInv
  BY BufferInit
<1>2. TypeOK /\ ClaimInv /\ SlotInv /\ EvidenceInv /\ ChildInv /\ [Next]_vars
        => ClaimInv' /\ SlotInv' /\ EvidenceInv' /\ ChildInv'
  BY ClaimInvStep, SlotInvStep, EvidenceInvStep, ChildInvStep
<1>3. QED
  BY <1>1, <1>2, TypeCorrect, PTL DEF Spec

\* The claim of record_event is exclusive for any number of threads: a slot is
\* written by one thread, before it is published, and within the capacity.
THEOREM ExclusiveSlots == Spec => []SlotOwnership
<1>1. TypeOK /\ ClaimInv => SlotOwnership
  BY CapacityAssumption DEF TypeOK, ClaimInv, SlotOwnership, Owns
<1>2. QED
  BY <1>1, BufferInvariant, PTL

\* At quiescence the published slots are the first min(claimed, capacity) ones,
\* in sequence: flush writes contiguous events and never finds a slot busy.
THEOREM ContiguousAtQuiescence == Spec => []QuiescentContiguous
<1>1. TypeOK /\ SlotInv => QuiescentContiguous
  <2> SUFFICES ASSUME TypeOK, SlotInv, Quiescent, forked # "raw",
                      NEW i \in Index
               PROVE  /\ published[i] <=> i < Recorded
                      /\ published[i] => slotEvent[i].sequence = i + 1
    BY DEF QuiescentContiguous
  <2>1. i < Recorded <=> i < claimed /\ i < capacity
    BY CapacityAssumption DEF Recorded, Minimum, TypeOK, Index
  <2>2. \A t \in Threads : ~Owns(t, i)
    BY DEF Quiescent, Owns
  <2>3. QED
    BY <2>1, <2>2 DEF SlotInv, TypeOK
<1>2. QED
  BY <1>1, BufferInvariant, PTL

\* The process ends in assert mode only with the violation already published.
THEOREM EvidenceBeforeAbort == Spec => []AbortAfterEvidence
<1>1. EvidenceInv => AbortAfterEvidence
  BY DEF EvidenceInv
<1>2. QED
  BY <1>1, BufferInvariant, PTL

\* A child whose atfork handler ran is disabled and empty until it enables the
\* recorder, whichever thread forked and wherever the others were.
THEOREM CleanForkChild == Spec => []HandledChildStaysEmpty
<1>1. ChildInv => HandledChildStaysEmpty
  BY DEF ChildInv
<1>2. QED
  BY <1>1, BufferInvariant, PTL

\* Every step keeps the published events or clears them all.
LEMMA EventsKeptStep ==
  ASSUME TypeOK, ClaimInv, [Next]_vars
  PROVE  EventsKept
<1> USE DEF EventsKept
<1>1. CASE UNCHANGED <<published, slotEvent>>
  BY <1>1
<1>2. CASE ClearSlots
  BY <1>2 DEF ClearSlots
<1>3. ASSUME NEW t \in Threads, WriteSlot(t) PROVE EventsKept
  BY <1>3, CapacityAssumption DEF WriteSlot, TypeOK, ClaimInv, Index
<1>4. ASSUME NEW t \in Threads, Publish(t) PROVE EventsKept
  BY <1>4 DEF Publish, TypeOK
<1>5. \/ UNCHANGED <<published, slotEvent>>
      \/ ClearSlots
      \/ \E t \in Threads : WriteSlot(t) \/ Publish(t)
  BY NextCases
     DEF vars, shared, Call, NestedCall, LoadEnabled, Claim, LoadCapacity,
         Drop, LoadMode, LoadCallback, CountReentrant, CallbackReturns,
         Unwind, Fork, ChildClear, Initialize, SetEnabled, Reset, Shutdown,
         AfterForkChild
<1>6. QED
  BY <1>1, <1>2, <1>3, <1>4, <1>5

\* A published event is immutable until the whole buffer is cleared, because
\* only the thread that claimed a slot writes it, and before publishing it.
THEOREM StableEvents == Spec => PublishedIsStable
<1>1. TypeOK /\ ClaimInv /\ [Next]_vars => [EventsKept]_vars
  BY EventsKeptStep
<1>2. QED
  BY <1>1, BufferInvariant, PTL DEF Spec, PublishedIsStable

-----------------------------------------------------------------------------
(* Completeness: every call that found the recorder enabled is followed    *)
(* from the claim to its slot or to the counter that says it was lost.     *)

\* The safety invariant proved in RecorderProofs.
BufferInv == TypeOK /\ ClaimInv /\ SlotInv /\ EvidenceInv /\ ChildInv

\* A step that leaves the published slots and every recording alone keeps the
\* calls where they are.
LEMMA CallsUndisturbed ==
  ASSUME CallInv, UNCHANGED <<published, dropped, reentrant, observed>>,
         \A i \in Index : published[i] => slotEvent'[i].call = slotEvent[i].call,
         forked = "raw" => forked' = "raw",
         \A u \in Threads : /\ Recording(u)' <=> Recording(u)
                            /\ Recording(u) => CallOf(u)' = CallOf(u)
  PROVE  CallInv'
<1> USE DEF CallInv, RecordedOnce
<1>1. Complete' <=> Complete
  BY DEF Complete
<1>2. ASSUME NEW u \in Threads, Recording(u)'
      PROVE  /\ CallOf(u)' \in observed'
             /\ \A v \in Threads \ {u} : Recording(v)' => CallOf(v)' # CallOf(u)'
             /\ \A i \in Index : published'[i] => slotEvent'[i].call # CallOf(u)'
  BY <1>2
<1>3. ASSUME forked' # "raw", Complete, NEW c \in observed
      PROVE  \/ \E u \in Threads : Recording(u)' /\ CallOf(u)' = c
             \/ \E i \in Index : published'[i] /\ slotEvent'[i].call = c
  BY <1>3
<1>4. ASSUME ~Complete
      PROVE  \E c \in observed' :
               /\ \A u \in Threads : Recording(u)' => CallOf(u)' # c
               /\ \A i \in Index : published'[i] => slotEvent'[i].call # c
  BY <1>4
<1>5. QED
  BY <1>1, <1>2, <1>3, <1>4

\* After clear_slots there are no calls to follow.
LEMMA CallsCleared ==
  ASSUME ClearSlots, \A u \in Threads : ~Recording(u)'
  PROVE  CallInv'
BY DEF CallInv, ClearSlots, Complete, RecordedOnce

\* A call that finds the recorder enabled is with the thread that makes it.
LEMMA CallBegins ==
  ASSUME TypeOK, CallInv, NEW t \in Threads, ~Recording(t), Recording(t)',
         CallOf(t)' = calls + 1, observed' = observed \cup {calls + 1},
         UNCHANGED <<published, slotEvent, dropped, reentrant, forked>>,
         \A u \in Threads \ {t} : /\ Recording(u)' <=> Recording(u)
                                  /\ Recording(u) => CallOf(u)' = CallOf(u)
  PROVE  CallInv'
<1> USE DEF CallInv, RecordedOnce
<1>1. calls + 1 \notin observed
  BY DEF TypeOK
<1>2. Complete' <=> Complete
  BY DEF Complete
<1>3. ASSUME NEW u \in Threads, Recording(u)'
      PROVE  /\ CallOf(u)' \in observed'
             /\ \A v \in Threads \ {u} : Recording(v)' => CallOf(v)' # CallOf(u)'
             /\ \A i \in Index : published'[i] => slotEvent'[i].call # CallOf(u)'
  <2>1. CASE u = t
    BY <1>1, <2>1
  <2>2. CASE u # t
    BY <1>1, <1>3, <2>2
  <2>3. QED
    BY <2>1, <2>2
<1>4. ASSUME forked' # "raw", Complete, NEW c \in observed'
      PROVE  \/ \E u \in Threads : Recording(u)' /\ CallOf(u)' = c
             \/ \E i \in Index : published'[i] /\ slotEvent'[i].call = c
  BY <1>4
<1>5. ASSUME ~Complete
      PROVE  \E c \in observed' :
               /\ \A u \in Threads : Recording(u)' => CallOf(u)' # c
               /\ \A i \in Index : published'[i] => slotEvent'[i].call # c
  BY <1>1, <1>5
<1>6. QED
  BY <1>2, <1>3, <1>4, <1>5

\* A call that is lost is counted, and nobody else has it.
LEMMA CallLost ==
  ASSUME CallInv, NEW t \in Threads, Recording(t), ~Recording(t)', ~Complete',
         UNCHANGED <<published, slotEvent, observed>>,
         \A u \in Threads \ {t} : /\ Recording(u)' <=> Recording(u)
                                  /\ Recording(u) => CallOf(u)' = CallOf(u)
  PROVE  CallInv'
<1> USE DEF CallInv, RecordedOnce
<1>1. ASSUME NEW u \in Threads, Recording(u)'
      PROVE  /\ CallOf(u)' \in observed'
             /\ \A v \in Threads \ {u} : Recording(v)' => CallOf(v)' # CallOf(u)'
             /\ \A i \in Index : published'[i] => slotEvent'[i].call # CallOf(u)'
  BY <1>1
<1>2. \E c \in observed' :
         /\ \A u \in Threads : Recording(u)' => CallOf(u)' # c
         /\ \A i \in Index : published'[i] => slotEvent'[i].call # c
  <2>1. WITNESS CallOf(t) \in observed'
  <2>2. QED
    OBVIOUS
<1>3. QED
  BY <1>1, <1>2

\* A call that is published leaves its thread and is in one slot.
LEMMA CallPublished ==
  ASSUME TypeOK, ClaimInv, SlotInv, CallInv, NEW t \in Threads, Publish(t)
  PROVE  CallInv'
<1> DEFINE slot == index[t]
           call == event[t].call
<1>1. /\ slot \in Index /\ ~published[slot] /\ slotEvent[slot].call = call
  <2>1. pc[t] = "publish" /\ slot \in Nat /\ slot < capacity
    BY DEF Publish, TypeOK, ClaimInv
  <2>2. slot \in Index /\ ~published[slot]
    BY <2>1, CapacityAssumption DEF TypeOK, ClaimInv, Index
  <2>3. slotEvent[slot] = [event[t] EXCEPT !.sequence = slot + 1]
    BY <2>1 DEF SlotInv
  <2>4. event[t] \in Event
    BY DEF TypeOK
  <2>5. QED
    BY <2>2, <2>3, <2>4 DEF Event
<1>2. /\ \A i \in Index : published'[i] <=> published[i] \/ i = slot
      /\ UNCHANGED <<slotEvent, dropped, reentrant, observed, forked>>
      /\ Complete' <=> Complete
  BY <1>1 DEF Publish, TypeOK, Complete, ghosts
<1>3. /\ Recording(t) /\ CallOf(t) = call /\ ~Recording(t)'
      /\ \A u \in Threads \ {t} : /\ Recording(u)' <=> Recording(u)
                                  /\ CallOf(u)' = CallOf(u)
  BY DEF Publish, Goto, TypeOK, Recording, CallOf
<1> HIDE DEF slot, call
<1>4. ASSUME NEW u \in Threads, Recording(u)'
      PROVE  /\ CallOf(u)' \in observed'
             /\ \A v \in Threads \ {u} : Recording(v)' => CallOf(v)' # CallOf(u)'
             /\ \A i \in Index : published'[i] => slotEvent'[i].call # CallOf(u)'
  BY <1>1, <1>2, <1>3, <1>4 DEF CallInv
<1>5. \A i \in Index : published'[i] => slotEvent'[i].call \in observed'
  BY <1>1, <1>2, <1>3 DEF CallInv
<1>6. RecordedOnce'
  BY <1>1, <1>2, <1>3 DEF CallInv, RecordedOnce
<1>7. ASSUME forked' # "raw", Complete, NEW c \in observed
      PROVE  \/ \E u \in Threads : Recording(u)' /\ CallOf(u)' = c
             \/ \E i \in Index : published'[i] /\ slotEvent'[i].call = c
  BY <1>1, <1>2, <1>3, <1>7 DEF CallInv
<1>8. ASSUME ~Complete
      PROVE  \E c \in observed' :
               /\ \A u \in Threads : Recording(u)' => CallOf(u)' # c
               /\ \A i \in Index : published'[i] => slotEvent'[i].call # c
  BY <1>1, <1>2, <1>3, <1>8 DEF CallInv
<1>9. QED
  BY <1>2, <1>4, <1>5, <1>6, <1>7, <1>8 DEF CallInv

\* Every step keeps track of every observed call.
LEMMA CallInvStep ==
  ASSUME BufferInv, CallInv, [Next]_vars
  PROVE  CallInv'
<1> USE DEF BufferInv
<1>1. TypeOK
  OBVIOUS
<1>2. ASSUME NEW t \in Threads, LoadEnabled(t) PROVE CallInv'
  <2>1. CASE enabled
    BY <1>1, <1>2, <2>1, CallBegins
       DEF LoadEnabled, Goto, TypeOK, Event, Recording, CallOf, shared
  <2>2. CASE ~enabled
    BY <1>1, <1>2, <2>2, CallsUndisturbed
       DEF LoadEnabled, Leave, Goto, TypeOK, Recording, CallOf, shared
  <2>3. QED
    BY <2>1, <2>2
<1>3. ASSUME NEW t \in Threads, NestedCall(t) PROVE CallInv'
  BY <1>1, <1>3, CallBegins
     DEF NestedCall, Goto, TypeOK, Recording, CallOf, shared
<1>4. ASSUME NEW t \in Threads, Drop(t) PROVE CallInv'
  <2>1. ~Complete'
    BY <1>1, <1>4 DEF Drop, Complete, TypeOK
  <2>2. /\ Recording(t) /\ ~Recording(t)'
        /\ UNCHANGED <<published, slotEvent, observed>>
        /\ \A u \in Threads \ {t} : /\ Recording(u)' <=> Recording(u)
                                    /\ Recording(u) => CallOf(u)' = CallOf(u)
    BY <1>1, <1>4 DEF Drop, Leave, Goto, TypeOK, Recording, CallOf, ghosts
  <2>3. QED
    BY <2>1, <2>2, CallLost
<1>5. ASSUME NEW t \in Threads, CountReentrant(t) PROVE CallInv'
  <2>1. ~Complete'
    BY <1>1, <1>5 DEF CountReentrant, Complete, TypeOK
  <2>2. /\ Recording(t) /\ ~Recording(t)'
        /\ UNCHANGED <<published, slotEvent, observed>>
        /\ \A u \in Threads \ {t} : /\ Recording(u)' <=> Recording(u)
                                    /\ Recording(u) => CallOf(u)' = CallOf(u)
    BY <1>1, <1>5 DEF CountReentrant, Goto, TypeOK, Recording, CallOf, ghosts
  <2>3. QED
    BY <2>1, <2>2, CallLost
<1>6. ASSUME NEW t \in Threads, WriteSlot(t) PROVE CallInv'
  <2>1. index[t] \in Nat /\ index[t] < capacity /\ capacity \in 1 .. MaxCapacity
    BY <1>6 DEF WriteSlot, TypeOK, ClaimInv
  <2>2. ~published[index[t]]
    BY <1>6, <2>1 DEF WriteSlot, ClaimInv
  <2>3. \A i \in Index : published[i] => slotEvent'[i].call = slotEvent[i].call
    BY <1>1, <1>6, <2>2 DEF WriteSlot, TypeOK
  <2>4. QED
    BY <1>1, <1>6, <2>3, CallsUndisturbed
       DEF WriteSlot, Goto, TypeOK, Recording, CallOf, ghosts
<1>7. ASSUME NEW t \in Threads, Publish(t) PROVE CallInv'
  BY <1>7, CallPublished
<1>8. ASSUME NEW t \in Threads, Fork(t) PROVE CallInv'
  <2>1. \A u \in Threads : ~Recording(u)'
    BY <1>1, <1>8 DEF Fork, Recording, TypeOK
  <2>2. CASE atfork = "registered"
    BY <1>8, <2>1, <2>2, CallsCleared DEF Fork, ChildClear
  <2>3. CASE atfork # "registered"
    <3>1. forked' = "raw" /\ UNCHANGED <<published, slotEvent, dropped, reentrant, observed>>
      BY <1>8, <2>3 DEF Fork, shared
    <3>2. QED
      BY <2>1, <3>1 DEF CallInv, Complete, RecordedOnce
  <2>4. QED
    BY <2>2, <2>3
<1>9. ASSUME Quiescent, ClearSlots, UNCHANGED pc PROVE CallInv'
  BY <1>9, CallsCleared DEF Quiescent, Recording
<1>10. ASSUME NEW config \in Configs, Initialize(config) PROVE CallInv'
  BY <1>9, <1>10 DEF Initialize, locals
<1>11. CASE Reset
  BY <1>9, <1>11 DEF Reset, locals
<1>12. CASE AfterForkChild
  BY <1>9, <1>12 DEF AfterForkChild, ChildClear, locals
<1>13. ASSUME UNCHANGED <<published, slotEvent, dropped, reentrant, observed>>,
              forked = "raw" => forked' = "raw",
              UNCHANGED <<event, inner>>,
              \A u \in Threads :
                pc'[u] = "nested" <=> pc[u] = "nested",
              \A u \in Threads : Recording(u)' <=> Recording(u)
       PROVE  CallInv'
  BY <1>13, CallsUndisturbed DEF CallOf
<1>14. ASSUME NEW t \in Threads, NEW violation \in BOOLEAN, Call(t, violation)
       PROVE  CallInv'
  BY <1>1, <1>14, CallsUndisturbed
     DEF Call, Goto, TypeOK, Recording, CallOf, shared, ghosts
<1>15. ASSUME NEW t \in Threads,
              Claim(t) \/ LoadCapacity(t) \/ LoadMode(t) \/ LoadCallback(t)
                \/ CallbackReturns(t)
       PROVE  CallInv'
  BY <1>1, <1>13, <1>15
     DEF Claim, LoadCapacity, LoadMode, LoadCallback, CallbackReturns, Goto,
         TypeOK, Recording, shared, ghosts
<1>16. ASSUME NEW t \in Threads, Unwind(t) PROVE CallInv'
  BY <1>1, <1>16, CallsUndisturbed
     DEF Unwind, Leave, Goto, TypeOK, Recording, CallOf, shared, ghosts
<1>17. ASSUME NEW value \in BOOLEAN, SetEnabled(value) PROVE CallInv'
  BY <1>13, <1>17 DEF SetEnabled, Recording, shared, locals
<1>18. CASE Shutdown
  BY <1>13, <1>18 DEF Shutdown, Recording, shared, locals, ghosts
<1>19. CASE UNCHANGED vars
  BY <1>13, <1>19 DEF vars, Recording, shared, locals, ghosts
<1>20. QED
  BY NextCases, <1>2, <1>3, <1>4, <1>5, <1>6, <1>7, <1>8, <1>10, <1>11, <1>12,
     <1>14, <1>15, <1>16, <1>17, <1>18, <1>19

\* The threads on their way to g_dropped are finitely many.
LEMMA DroppingFinite ==
  IsFiniteSet(Dropping) /\ Cardinality(Dropping) \in Nat
<1>1. Dropping \subseteq Threads
  BY DEF Dropping
<1>2. QED
  BY <1>1, ThreadsAssumption, FS_Subset, FS_CardinalityType

\* A step that leaves the counters alone and sends nobody to g_dropped keeps
\* the count.
LEMMA CountUndisturbed ==
  ASSUME CountInv, UNCHANGED <<claimed, dropped, capacity>>,
         forked = "raw" => forked' = "raw", Dropping' = Dropping
  PROVE  CountInv'
BY DEF CountInv

\* After clear_slots nothing is claimed and nothing is lost.
LEMMA CountCleared ==
  ASSUME TypeOK', ClearSlots, \A u \in Threads : pc'[u] \notin {"capacity", "drop"}
  PROVE  CountInv'
<1>1. Dropping' = {}
  BY DEF Dropping
<1>2. QED
  BY <1>1, FS_EmptySet, CapacityAssumption DEF CountInv, ClearSlots, TypeOK

\* A claim beyond the buffer sends the thread to g_dropped.
LEMMA CountClaimed ==
  ASSUME TypeOK, CountInv, NEW t \in Threads, Claim(t)
  PROVE  CountInv'
<1>1. /\ pc[t] = "claim" /\ pc'[t] = "capacity" /\ index'[t] = claimed
      /\ claimed' = claimed + 1
      /\ \A u \in Threads \ {t} : pc'[u] = pc[u] /\ index'[u] = index[u]
      /\ UNCHANGED <<dropped, capacity, forked>>
  BY DEF Claim, Goto, TypeOK, settings, ghosts
<1>2. claimed \in Nat /\ dropped \in Nat /\ capacity \in Nat
  BY CapacityAssumption DEF TypeOK
<1>3. CASE claimed >= capacity
  <2>1. Dropping' = Dropping \cup {t}
    BY <1>1, <1>3 DEF Dropping
  <2>2. t \notin Dropping
    BY <1>1 DEF Dropping
  <2>3. Cardinality(Dropping') = Cardinality(Dropping) + 1
    BY <2>1, <2>2, DroppingFinite, FS_AddElement
  <2>4. QED
    BY <1>1, <1>2, <1>3, <2>3, DroppingFinite DEF CountInv
<1>4. CASE claimed < capacity
  <2>1. Dropping' = Dropping
    BY <1>1, <1>2, <1>4 DEF Dropping
  <2>2. QED
    BY <1>1, <1>2, <1>4, <2>1 DEF CountInv
<1>5. QED
  BY <1>2, <1>3, <1>4

\* A thread that counts its loss is no longer on its way there.
LEMMA CountDropped ==
  ASSUME TypeOK, ClaimInv, CountInv, NEW t \in Threads, Drop(t)
  PROVE  CountInv'
<1>1. /\ pc[t] = "drop" /\ pc'[t] = "idle" /\ dropped' = dropped + 1
      /\ \A u \in Threads \ {t} : pc'[u] = pc[u] /\ index'[u] = index[u]
      /\ UNCHANGED <<claimed, capacity, forked>>
  BY DEF Drop, Leave, Goto, TypeOK, settings, ghosts
<1>2. t \in Dropping
  BY <1>1 DEF Dropping, ClaimInv
<1>3. Dropping' = Dropping \ {t}
  BY <1>1 DEF Dropping
<1>4. Cardinality(Dropping') = Cardinality(Dropping) - 1
  BY <1>2, <1>3, DroppingFinite, FS_RemoveElement
<1>5. QED
  BY <1>1, <1>4, DroppingFinite DEF CountInv, TypeOK

\* Every step keeps the count of the claims beyond the buffer.
LEMMA CountInvStep ==
  ASSUME TypeOK, TypeOK', ClaimInv, CountInv, [Next]_vars
  PROVE  CountInv'
<1>1. ASSUME NEW t \in Threads, LoadEnabled(t) PROVE CountInv'
  <2>1. /\ pc[t] = "call" /\ pc'[t] \in {"claim", "idle"}
        /\ \A u \in Threads \ {t} : pc'[u] = pc[u] /\ index'[u] = index[u]
        /\ UNCHANGED <<claimed, dropped, capacity, forked>>
    BY <1>1, LoadEnabledFrame DEF shared, settings
  <2>2. Dropping' = Dropping
    BY <2>1 DEF Dropping
  <2>3. QED
    BY <2>1, <2>2, CountUndisturbed
<1>2. ASSUME NEW t \in Threads, Claim(t) PROVE CountInv'
  BY <1>2, CountClaimed
<1>3. ASSUME NEW t \in Threads, Drop(t) PROVE CountInv'
  BY <1>3, CountDropped
<1>4. ASSUME NEW t \in Threads, LoadCapacity(t) PROVE CountInv'
  <2>1. /\ pc[t] = "capacity"
        /\ pc'[t] = IF index[t] >= capacity THEN "drop" ELSE "write"
        /\ \A u \in Threads \ {t} : pc'[u] = pc[u]
        /\ UNCHANGED <<index, claimed, dropped, capacity, forked>>
    BY <1>4 DEF LoadCapacity, Goto, TypeOK, shared, settings, ghosts
  <2>2. Dropping' = Dropping
    BY <2>1 DEF Dropping
  <2>3. QED
    BY <2>1, <2>2, CountUndisturbed
<1>5. ASSUME NEW t \in Threads,
             pc[t] \notin {"capacity", "drop"}, pc'[t] \notin {"capacity", "drop"},
             \A u \in Threads \ {t} : pc'[u] = pc[u] /\ index'[u] = index[u],
             UNCHANGED <<claimed, dropped, capacity, forked>>
      PROVE  CountInv'
  <2>1. Dropping' = Dropping
    BY <1>5 DEF Dropping
  <2>2. QED
    BY <1>5, <2>1, CountUndisturbed
<1>6. ASSUME NEW t \in Threads,
             \/ \E violation \in BOOLEAN : Call(t, violation)
             \/ NestedCall(t) \/ WriteSlot(t) \/ Publish(t) \/ LoadMode(t)
             \/ LoadCallback(t) \/ CountReentrant(t) \/ CallbackReturns(t)
      PROVE  CountInv'
  <2>1. /\ pc[t] \notin {"capacity", "drop"} /\ pc'[t] \notin {"capacity", "drop"}
        /\ \A u \in Threads \ {t} : pc'[u] = pc[u]
        /\ UNCHANGED <<index, claimed, dropped, capacity, forked>>
    BY <1>6
       DEF Call, NestedCall, WriteSlot, Publish, LoadMode, LoadCallback,
           CountReentrant, CallbackReturns, Goto, TypeOK, shared, settings,
           ghosts
  <2>2. QED
    BY <1>5, <2>1
<1>7. ASSUME NEW t \in Threads, Unwind(t) PROVE CountInv'
  <2>1. /\ pc[t] \notin {"capacity", "drop"} /\ pc'[t] \notin {"capacity", "drop"}
        /\ \A u \in Threads \ {t} : pc'[u] = pc[u] /\ index'[u] = index[u]
        /\ UNCHANGED <<claimed, dropped, capacity, forked>>
    BY <1>7 DEF Unwind, Leave, Goto, TypeOK, shared, settings, ghosts
  <2>2. QED
    BY <1>5, <2>1
<1>8. ASSUME NEW t \in Threads, Fork(t) PROVE CountInv'
  <2>1. \A u \in Threads : pc'[u] \notin {"capacity", "drop"}
    BY <1>8 DEF Fork, TypeOK
  <2>2. CASE atfork = "registered"
    BY <1>8, <2>1, <2>2, CountCleared DEF Fork, ChildClear
  <2>3. CASE atfork # "registered"
    BY <1>8, <2>3 DEF Fork, CountInv
  <2>4. QED
    BY <2>2, <2>3
<1>9. ASSUME Quiescent, ClearSlots, UNCHANGED pc PROVE CountInv'
  BY <1>9, CountCleared DEF Quiescent
<1>10. ASSUME NEW config \in Configs, Initialize(config) PROVE CountInv'
  BY <1>9, <1>10 DEF Initialize, locals
<1>11. CASE Reset
  BY <1>9, <1>11 DEF Reset, locals
<1>12. CASE AfterForkChild
  BY <1>9, <1>12 DEF AfterForkChild, ChildClear, locals
<1>13. ASSUME NEW value \in BOOLEAN, SetEnabled(value) PROVE CountInv'
  BY <1>13, CountUndisturbed DEF SetEnabled, Dropping, shared, locals
<1>14. CASE Shutdown
  BY <1>14, CountUndisturbed DEF Shutdown, Dropping, shared, locals, ghosts
<1>15. CASE UNCHANGED vars
  BY <1>15, CountUndisturbed
     DEF vars, Dropping, shared, settings, locals, ghosts
<1>16. QED
  BY NextCases, <1>1, <1>2, <1>3, <1>4, <1>6, <1>7, <1>8, <1>10, <1>11, <1>12,
     <1>13, <1>14, <1>15

\* The inductive invariant holds initially: no call is under way.
LEMMA InvInit ==
  ASSUME Init
  PROVE  TypeOK /\ RecorderInv
<1>1. \A t \in Threads : ~Recording(t)
  BY DEF Init, Recording
<1>2. CallInv
  BY <1>1 DEF Init, CallInv, Complete, RecordedOnce
<1>3. Dropping = {}
  BY DEF Init, Dropping
<1>4. CountInv
  BY <1>3, FS_EmptySet, CapacityAssumption DEF Init, CountInv
<1>5. QED
  BY <1>2, <1>4, TypeInit, BufferInit DEF RecorderInv

\* Every step of the recorder preserves it.
LEMMA InvStep ==
  ASSUME TypeOK, RecorderInv, [Next]_vars
  PROVE  TypeOK' /\ RecorderInv'
<1>1. ClaimInv /\ SlotInv /\ EvidenceInv /\ ChildInv /\ CallInv /\ CountInv
  BY DEF RecorderInv
<1>2. TypeOK'
  BY TypeStep
<1>3. ClaimInv' /\ SlotInv' /\ EvidenceInv' /\ ChildInv'
  BY <1>1, ClaimInvStep, SlotInvStep, EvidenceInvStep, ChildInvStep
<1>4. CallInv'
  BY <1>1, CallInvStep DEF BufferInv
<1>5. CountInv'
  BY <1>1, <1>2, CountInvStep
<1>6. QED
  BY <1>2, <1>3, <1>4, <1>5 DEF RecorderInv

\* The inductive invariant of the recorder: claims, slots, evidence and fork
\* children, and with them where every observed call is and how many claims
\* fell beyond the buffer.
THEOREM RecorderInvariant == Spec => [](TypeOK /\ RecorderInv)
<1>1. Init => TypeOK /\ RecorderInv
  BY InvInit
<1>2. TypeOK /\ RecorderInv /\ [Next]_vars => TypeOK' /\ RecorderInv'
  BY InvStep
<1>3. QED
  BY <1>1, <1>2, PTL DEF Spec

\* At quiescence every observed call is in its slot or counted.
LEMMA ExactAtQuiescence ==
  ASSUME TypeOK, RecorderInv
  PROVE  CompleteIsExact
<1> SUFFICES ASSUME Quiescent, forked # "raw"
             PROVE  /\ Complete <=> observed = RecordedCalls
                    /\ RecordedOnce
                    /\ claimed = Recorded + dropped
  BY DEF CompleteIsExact
<1>1. CallInv /\ CountInv
  BY DEF RecorderInv
<1>2. \A t \in Threads : ~Recording(t)
  BY DEF Quiescent, Recording
<1>3. RecordedCalls \subseteq observed
  BY <1>1 DEF RecordedCalls, CallInv
<1>4. ASSUME Complete PROVE observed \subseteq RecordedCalls
  BY <1>1, <1>2, <1>4 DEF RecordedCalls, CallInv
<1>5. ASSUME ~Complete PROVE \E c \in observed : c \notin RecordedCalls
  BY <1>1, <1>5 DEF RecordedCalls, CallInv
<1>6. RecordedOnce
  BY <1>1 DEF CallInv
<1>7. Dropping = {}
  BY DEF Dropping, Quiescent
<1>8. claimed = Recorded + dropped
  BY <1>1, <1>7, FS_EmptySet, CapacityAssumption
     DEF CountInv, Recorded, Minimum, TypeOK
<1>9. QED
  BY <1>3, <1>4, <1>5, <1>6, <1>8

\* Completeness is exact for any number of threads and calls: at quiescence the
\* two loss counters are zero precisely when the published slots hold every
\* call that found the recorder enabled, each once, and every claim is either
\* recorded or counted as dropped.
THEOREM CompletenessIsExact == Spec => []CompleteIsExact
<1>1. TypeOK /\ RecorderInv => CompleteIsExact
  BY ExactAtQuiescence
<1>2. QED
  BY <1>1, RecorderInvariant, PTL

-----------------------------------------------------------------------------
(* The readers: they disturb nothing, and what they return is right        *)
(* although the threads go on recording under them.                        *)

\* Whatever step the composition takes, the recorder takes one of its own or
\* none.
LEMMA ReaderNextIsNext ==
  ASSUME [ReaderNext]_readerVars
  PROVE  [Next]_vars
BY DEF ReaderNext, readerVars, SnapshotBegin, StatsBegin, ReaderStep,
       SnapshotCheck, SnapshotCopy, StatsDropped, StatsReentrant,
       RecorderStep, ControlPlaneStep, Next, Control

\* The readers are transparent: under them the recorder behaves as it does
\* alone, so everything proved of its steps holds in the composition.
THEOREM ReadersAreTransparent == ReaderSpec => Init /\ [][Next]_vars
<1>1. ReaderInit => Init
  BY DEF ReaderInit
<1>2. [ReaderNext]_readerVars => [Next]_vars
  BY ReaderNextIsNext
<1>3. QED
  BY <1>1, <1>2, PTL DEF ReaderSpec

\* Which variables a step of the readers, the recorder or the control plane
\* may change.
LEMMA ReaderCases ==
  ASSUME [ReaderNext]_readerVars
  PROVE  \/ \E size \in 0 .. MaxCapacity : SnapshotBegin(size)
         \/ SnapshotCheck \/ SnapshotCopy
         \/ StatsBegin \/ StatsDropped \/ StatsReentrant
         \/ RecorderStep /\ UNCHANGED reader
         \/ reader' = NoReading
         \/ UNCHANGED readerVars
BY DEF ReaderNext, ReaderStep

\* Under a reader the buffer only grows: it is not cleared, its capacity is
\* not changed, and a loss that has been counted stays counted.
Grows ==
  /\ \A i \in Index : published[i] => published'[i] /\ slotEvent'[i] = slotEvent[i]
  /\ Recorded' >= Recorded
  /\ dropped' >= dropped /\ reentrant' >= reentrant
  /\ forked = "raw" => forked' = "raw"

\* A step of record_event lets the buffer grow and nothing else.
LEMMA RecorderStepGrows ==
  ASSUME TypeOK, ClaimInv, RecorderStep
  PROVE  Grows
<1> DEFINE Frame ==
             /\ claimed' >= claimed /\ capacity' = capacity
             /\ dropped' >= dropped /\ reentrant' >= reentrant
             /\ forked = "raw" => forked' = "raw"
             /\ \A i \in Index : published[i] => published'[i]
<1>1. EventsKept
  BY EventsKeptStep DEF RecorderStep, Next, Control
<1>2. Frame
  <2>1. /\ claimed \in Nat /\ dropped \in Nat /\ reentrant \in Nat
        /\ published \in [Index -> BOOLEAN]
    BY DEF TypeOK
  <2>2. ASSUME NEW t \in Threads, Claim(t) \/ Drop(t) \/ CountReentrant(t)
        PROVE  Frame
    BY <2>1, <2>2 DEF Claim, Drop, CountReentrant, settings, ghosts
  <2>3. ASSUME NEW t \in Threads, WriteSlot(t) \/ Publish(t)
        PROVE  Frame
    BY <2>1, <2>3 DEF WriteSlot, Publish, settings, ghosts
  <2>4. ASSUME UNCHANGED <<published, claimed, dropped, reentrant, capacity>>,
               forked = "raw" => forked' = "raw"
        PROVE  Frame
    BY <2>1, <2>4
  <2>5. ASSUME NEW t \in Threads,
               \/ \E violation \in BOOLEAN : Call(t, violation)
               \/ NestedCall(t) \/ LoadEnabled(t) \/ LoadCapacity(t)
               \/ LoadMode(t) \/ LoadCallback(t) \/ CallbackReturns(t)
               \/ Unwind(t)
        PROVE  Frame
    BY <2>4, <2>5
       DEF Call, NestedCall, LoadEnabled, LoadCapacity, LoadMode, LoadCallback,
           CallbackReturns, Unwind, shared, settings, ghosts
  <2>6. ASSUME NEW value \in BOOLEAN, SetEnabled(value) PROVE Frame
    BY <2>4, <2>6 DEF SetEnabled, shared
  <2>7. CASE Terminated
    BY <2>4, <2>7 DEF Terminated, vars, shared, settings, ghosts
  <2> HIDE DEF Frame
  <2>8. QED
    BY <2>2, <2>3, <2>5, <2>6, <2>7 DEF RecorderStep, Record
<1>3. TypeOK'
  BY TypeStep DEF RecorderStep, Next, Control
<1>4. Recorded' >= Recorded
  BY <1>2, <1>3, CapacityAssumption DEF Recorded, Minimum, TypeOK
<1>5. QED
  BY <1>1, <1>2, <1>4 DEF EventsKept, Grows

\* What a growing buffer keeps: the copies of a snapshot and the calls that
\* get_stats speaks of.
LEMMA GrowsKeepsReaders ==
  ASSUME TypeOK, ReaderType, SnapshotInv, StatsInv, Grows, UNCHANGED reader,
         TypeOK'
  PROVE  SnapshotInv' /\ StatsInv'
<1>1. Recorded \in Nat /\ Recorded' \in Nat
  BY CapacityAssumption DEF Recorded, Minimum, TypeOK
<1>2. SnapshotInv'
  <2> SUFFICES ASSUME reader.op \in {"check", "copy", "ok"}
               PROVE  (/\ reader.next <= reader.count /\ reader.count <= Recorded
                       /\ Len(reader.copied) = reader.next
                       /\ \A i \in Index : i < reader.next =>
                            published[i] /\ reader.copied[i + 1] = slotEvent[i]
                       /\ reader.op = "copy" =>
                            reader.next < reader.count /\ published[reader.next]
                       /\ reader.op = "ok" => reader.next = reader.count)'
    BY DEF SnapshotInv
  <2>1. reader.next \in Nat /\ reader.count \in Nat
    BY DEF ReaderType
  <2>2. reader.op = "copy" => reader.next \in Index
    BY <1>1, <2>1, CapacityAssumption
       DEF SnapshotInv, Index, Recorded, Minimum, TypeOK
  <2>3. QED
    BY <1>1, <2>1, <2>2 DEF SnapshotInv, Grows
<1>3. StatsInv'
  <2>1. RecordedCalls \subseteq RecordedCalls'
    BY DEF RecordedCalls, Grows
  <2>2. LossFree' => LossFree
    BY DEF LossFree, Grows, TypeOK
  <2>3. QED
    BY <2>1, <2>2 DEF StatsInv, Grows
<1>4. QED
  BY <1>2, <1>3

\* A call that has just begun: it has copied nothing, and if no recording was
\* under way completeness is exact.
LEMMA ReadingBegins ==
  ASSUME TypeOK, RecorderInv, UNCHANGED vars,
         NEW op \in {"check", "invalid", "dropped"}, reader' = Reading(op)
  PROVE  ReaderType' /\ SnapshotInv' /\ StatsInv'
<1>1. Recorded \in Nat /\ Recorded' = Recorded
  BY CapacityAssumption DEF Recorded, Minimum, TypeOK, vars, shared, settings
<1>2. ReaderType'
  <2>1. observed \in SUBSET Nat /\ Quiescent \in BOOLEAN
    BY DEF TypeOK, Quiescent
  <2>2. <<>> \in Seq(Event)
    OBVIOUS
  <2>3. QED
    BY <1>1, <2>1, <2>2 DEF ReaderType, Reading, Finished
<1>3. SnapshotInv'
  BY <1>1 DEF SnapshotInv, Reading, Index
<1>4. StatsInv'
  <2> SUFFICES ASSUME LossFree', Quiescent, forked # "raw"
               PROVE  observed \subseteq RecordedCalls'
    BY DEF StatsInv, Reading, vars, ghosts
  <2>1. Complete
    BY DEF LossFree, Reading, Complete, vars, shared
  <2>2. observed = RecordedCalls
    BY <2>1, ExactAtQuiescence DEF CompleteIsExact
  <2>3. RecordedCalls' = RecordedCalls
    BY DEF RecordedCalls, vars, shared
  <2>4. QED
    BY <2>2, <2>3
<1>5. QED
  BY <1>2, <1>3, <1>4

\* A check of a slot: past the last one the snapshot is whole, and otherwise
\* it goes on only over a published slot.
LEMMA CheckKeepsReaders ==
  ASSUME TypeOK, ReaderType, SnapshotInv, SnapshotCheck
  PROVE  ReaderType' /\ SnapshotInv' /\ StatsInv'
<1>1. /\ reader'.count = reader.count /\ reader'.next = reader.next
      /\ reader'.copied = reader.copied
      /\ reader'.op = IF reader.next = reader.count THEN "ok"
                      ELSE IF published[reader.next] THEN "copy" ELSE "busy"
  BY DEF SnapshotCheck, ReaderType
<1>2. UNCHANGED <<published, slotEvent, claimed, capacity>> /\ Recorded' = Recorded
  BY DEF SnapshotCheck, vars, shared, settings, Recorded
<1>3. ReaderType'
  BY DEF ReaderType, SnapshotCheck, Finished
<1>4. SnapshotInv'
  <2>1. reader.op = "check" /\ reader.next \in Nat /\ reader.count \in Nat
    BY DEF SnapshotCheck, ReaderType
  <2>2. QED
    BY <1>1, <1>2, <2>1 DEF SnapshotInv
<1>5. StatsInv'
  BY <1>1 DEF StatsInv, LossFree
<1>6. QED
  BY <1>3, <1>4, <1>5

\* A copy takes the event of a published slot and moves to the next one.
LEMMA CopyKeepsReaders ==
  ASSUME TypeOK, ReaderType, SnapshotInv, SnapshotCopy
  PROVE  ReaderType' /\ SnapshotInv' /\ StatsInv'
<1>1. /\ reader.op = "copy" /\ reader.next \in Nat /\ reader.count \in Nat
      /\ reader.copied \in Seq(Event) /\ Len(reader.copied) = reader.next
      /\ reader.next < reader.count /\ reader.count <= Recorded
      /\ published[reader.next]
  BY DEF SnapshotCopy, SnapshotInv, ReaderType
<1>2. reader.next \in Index
  BY <1>1, CapacityAssumption DEF Index, Recorded, Minimum, TypeOK
<1>3. slotEvent[reader.next] \in Event
  BY <1>2 DEF TypeOK
<1>4. /\ reader'.count = reader.count /\ reader'.next = reader.next + 1
      /\ reader'.copied = Append(reader.copied, slotEvent[reader.next])
      /\ reader'.op = "check"
  BY DEF SnapshotCopy, ReaderType
<1>5. UNCHANGED <<published, slotEvent, claimed, capacity>> /\ Recorded' = Recorded
  BY DEF SnapshotCopy, vars, shared, settings, Recorded
<1>6. Append(reader.copied, slotEvent[reader.next]) \in Seq(Event)
  BY <1>1, <1>3
<1>7. ReaderType'
  <2> DEFINE copied == Append(reader.copied, slotEvent[reader.next])
  <2>1. reader' = [reader EXCEPT !.op = "check", !.next = reader.next + 1,
                                 !.copied = copied]
    BY DEF SnapshotCopy
  <2>2. copied \in Seq(Event) /\ reader.next + 1 \in Nat
    BY <1>1, <1>6
  <2> HIDE DEF copied
  <2>3. QED
    BY <2>1, <2>2 DEF ReaderType
<1>8. SnapshotInv'
  <2>1. Len(reader'.copied) = reader'.next
    BY <1>1, <1>3, <1>4
  <2>2. ASSUME NEW i \in Index, i < reader'.next
        PROVE  published[i] /\ reader'.copied[i + 1] = slotEvent[i]
    <3>1. CASE i < reader.next
      <4>1. published[i] /\ reader.copied[i + 1] = slotEvent[i]
        BY <1>1, <3>1 DEF SnapshotInv
      <4>2. i + 1 \in 1 .. Len(reader.copied)
        BY <1>1, <3>1 DEF Index
      <4>3. reader'.copied[i + 1] = reader.copied[i + 1]
        BY <1>1, <1>3, <1>4, <4>2
      <4>4. QED
        BY <4>1, <4>3
    <3>2. CASE i = reader.next
      BY <1>1, <1>3, <1>4, <3>2
    <3>3. QED
      BY <1>1, <1>4, <2>2, <3>1, <3>2 DEF Index
  <2>3. \A i \in Index : i < reader'.next =>
          published'[i] /\ reader'.copied[i + 1] = slotEvent'[i]
    BY <1>5, <2>2
  <2>4. reader'.next <= reader'.count /\ reader'.count <= Recorded'
    BY <1>1, <1>4, <1>5
  <2>5. QED
    BY <1>4, <2>1, <2>3, <2>4 DEF SnapshotInv
<1>9. StatsInv'
  BY <1>4 DEF StatsInv, LossFree
<1>10. QED
  BY <1>7, <1>8, <1>9

\* A load of one loss counter: the statistics have seen no loss only if it is
\* zero.
LEMMA StatsKeepReaders ==
  ASSUME TypeOK, ReaderType, StatsInv, StatsDropped \/ StatsReentrant
  PROVE  ReaderType' /\ SnapshotInv' /\ StatsInv'
<1>1. /\ reader'.quiet = reader.quiet /\ reader'.before = reader.before
      /\ reader'.op \in {"reentrant", "stats"}
  BY DEF StatsDropped, StatsReentrant, ReaderType
<1>2. RecordedCalls' = RecordedCalls /\ forked' = forked
  BY DEF StatsDropped, StatsReentrant, vars, shared, ghosts, RecordedCalls
<1>3. ReaderType'
  BY DEF ReaderType, StatsDropped, StatsReentrant, Finished, TypeOK
<1>4. SnapshotInv'
  BY <1>1 DEF SnapshotInv
<1>5. LossFree' => LossFree
  <2>1. CASE StatsDropped
    <3>1. reader.op = "dropped" /\ reader'.op = "reentrant" /\ reader'.dropped = dropped
      BY <2>1 DEF StatsDropped, ReaderType
    <3>2. reentrant' = reentrant
      BY <2>1 DEF StatsDropped, vars, shared
    <3>3. QED
      BY <3>1, <3>2 DEF LossFree
  <2>2. CASE StatsReentrant
    <3>1. /\ reader.op = "reentrant" /\ reader'.op = "stats"
          /\ reader'.complete = (reader.dropped = 0 /\ reentrant = 0)
      BY <2>2 DEF StatsReentrant, ReaderType
    <3>2. QED
      BY <3>1 DEF LossFree
  <2>3. QED
    BY <2>1, <2>2
<1>6. StatsInv'
  BY <1>1, <1>2, <1>5 DEF StatsInv
<1>7. QED
  BY <1>3, <1>4, <1>6

\* The invariant of the composition holds initially.
LEMMA ReaderInvInit ==
  ASSUME ReaderInit
  PROVE  ReaderInv
<1>1. ReaderType
  <2>1. <<>> \in Seq(Event)
    OBVIOUS
  <2>2. QED
    BY <2>1, CapacityAssumption
       DEF ReaderInit, Init, NoReading, Recorded, Minimum, ReaderType, Finished
<1>2. SnapshotInv /\ StatsInv
  BY DEF ReaderInit, NoReading, SnapshotInv, StatsInv, LossFree
<1>3. QED
  BY <1>1, <1>2, InvInit DEF ReaderInit, ReaderInv

\* Every step of the composition preserves it.
LEMMA ReaderInvStep ==
  ASSUME ReaderInv, [ReaderNext]_readerVars
  PROVE  ReaderInv'
<1>1. TypeOK /\ RecorderInv /\ ReaderType /\ SnapshotInv /\ StatsInv
  BY DEF ReaderInv
<1>2. TypeOK' /\ RecorderInv'
  BY <1>1, ReaderNextIsNext, InvStep
<1>3. ASSUME NEW size \in 0 .. MaxCapacity, SnapshotBegin(size)
      PROVE  ReaderInv'
  BY <1>1, <1>2, <1>3, ReadingBegins DEF SnapshotBegin, ReaderInv
<1>4. CASE StatsBegin
  BY <1>1, <1>2, <1>4, ReadingBegins DEF StatsBegin, ReaderInv
<1>5. CASE SnapshotCheck
  BY <1>1, <1>2, <1>5, CheckKeepsReaders DEF ReaderInv
<1>6. CASE SnapshotCopy
  BY <1>1, <1>2, <1>6, CopyKeepsReaders DEF ReaderInv
<1>7. CASE StatsDropped \/ StatsReentrant
  BY <1>1, <1>2, <1>7, StatsKeepReaders DEF ReaderInv
<1>8. CASE RecorderStep /\ UNCHANGED reader
  <2>1. Grows
    BY <1>1, <1>8, RecorderStepGrows DEF RecorderInv
  <2>2. ReaderType'
    BY <1>1, <1>8 DEF ReaderType
  <2>3. QED
    BY <1>1, <1>2, <1>8, <2>1, <2>2, GrowsKeepsReaders DEF ReaderInv
<1>9. CASE reader' = NoReading
  <2>1. ReaderType'
    <3>1. <<>> \in Seq(Event) /\ Recorded \in Nat
      BY <1>1, CapacityAssumption DEF Recorded, Minimum, TypeOK
    <3>2. QED
      BY <1>9, <3>1 DEF NoReading, ReaderType, Finished
  <2>2. SnapshotInv' /\ StatsInv'
    BY <1>9 DEF NoReading, SnapshotInv, StatsInv, LossFree
  <2>3. QED
    BY <1>2, <2>1, <2>2 DEF ReaderInv
<1>10. CASE UNCHANGED readerVars
  BY <1>1, <1>2, <1>10
     DEF readerVars, vars, shared, settings, ghosts, ReaderInv, ReaderType,
         SnapshotInv, StatsInv, LossFree, Recorded, RecordedCalls
<1>11. QED
  BY ReaderCases, <1>3, <1>4, <1>5, <1>6, <1>7, <1>8, <1>9, <1>10

\* The inductive invariant of the composition: that of the recorder, the slots
\* a snapshot has copied, and the losses that get_stats has not seen.
THEOREM ReaderInvariant == ReaderSpec => []ReaderInv
<1>1. ReaderInit => ReaderInv
  BY ReaderInvInit
<1>2. ReaderInv /\ [ReaderNext]_readerVars => ReaderInv'
  BY ReaderInvStep
<1>3. QED
  BY <1>1, <1>2, PTL DEF ReaderSpec

\* rs_runtime_snapshot_v1 returns events 1, 2, ... up to the count it loaded,
\* each as its thread wrote it and as its slot still holds it, whatever the
\* threads claimed and published while it copied.
THEOREM SnapshotsArePrefixes == ReaderSpec => []SnapshotIsPrefix
<1>1. ReaderInv => SnapshotIsPrefix
  <2> SUFFICES ASSUME ReaderInv, reader.op = "ok"
               PROVE  /\ Len(reader.copied) = reader.count
                      /\ \A i \in 1 .. reader.count :
                           /\ reader.copied[i].sequence = i
                           /\ reader.copied[i] = slotEvent[i - 1]
    BY DEF SnapshotIsPrefix
  <2>1. TypeOK /\ SlotInv /\ ReaderType /\ SnapshotInv
    BY DEF ReaderInv, RecorderInv
  <2>2. /\ Len(reader.copied) = reader.count /\ reader.next = reader.count
        /\ reader.count <= Recorded /\ reader.count \in Nat
    BY <2>1 DEF SnapshotInv, ReaderType
  <2>3. ASSUME NEW i \in 1 .. reader.count
        PROVE  reader.copied[i].sequence = i /\ reader.copied[i] = slotEvent[i - 1]
    <3>1. i - 1 \in Index /\ i - 1 < reader.next /\ (i - 1) + 1 = i
      BY <2>1, <2>2, CapacityAssumption DEF Index, Recorded, Minimum, TypeOK
    <3>2. published[i - 1] /\ reader.copied[(i - 1) + 1] = slotEvent[i - 1]
      BY <2>1, <3>1 DEF SnapshotInv
    <3>3. slotEvent[i - 1].sequence = (i - 1) + 1
      BY <2>1, <3>1, <3>2 DEF SlotInv
    <3>4. QED
      BY <3>1, <3>2, <3>3
  <2>4. QED
    BY <2>2, <2>3
<1>2. QED
  BY <1>1, ReaderInvariant, PTL

\* A snapshot never copies a slot that a thread is writing: the plain read of
\* the event does not race with the plain write.
THEOREM CopiesAreNotTorn == ReaderSpec => []NoTornCopy
<1>1. ReaderInv => NoTornCopy
  <2>1. TypeOK /\ ClaimInv /\ SnapshotInv => NoTornCopy
    BY DEF TypeOK, ClaimInv, SnapshotInv, NoTornCopy
  <2>2. QED
    BY <2>1 DEF ReaderInv, RecorderInv
<1>2. QED
  BY <1>1, ReaderInvariant, PTL

\* When rs_runtime_get_stats_v1, begun while no recording was under way, says
\* the trace is complete, every call observed before it is in a slot, although
\* the two loss counters are loaded one after the other.
THEOREM StatsAreSound == ReaderSpec => []StatsCompleteIsSound
<1>1. ReaderInv => StatsCompleteIsSound
  BY DEF ReaderInv, StatsInv, LossFree, StatsCompleteIsSound
<1>2. QED
  BY <1>1, ReaderInvariant, PTL

=============================================================================
