-------------------------- MODULE ApplyFlowProofs --------------------------
(***************************************************************************)
(* What ApplyFlow guarantees for every number of strategies, sides, runs,    *)
(* requests, failures and crashes: type correctness, the gate that a switch  *)
(* keeps closed, the rollback, what an apply leaves behind when it has ended *)
(* or completed, and the audit timeline.                                     *)
(***************************************************************************)
EXTENDS ApplyFlow, TLAPS

USE DEF EntryPC, EntryStep, PC, BodyPC, UndoPC

\* ActivationRepository.update maps documents to documents.
LEMMA UpdatedType ==
    ASSUME NEW d \in Document, NEW k \in Key, NEW a \in BOOLEAN, NEW f \in BOOLEAN,
           NEW r \in RunId \cup {None}
    PROVE  Updated(d, k, a, f, r) \in Document
<1> DEFINE e == [active |-> a, frozen |-> f, run |-> r, ver |-> d.version + 1]
<1>1. d.version \in Nat /\ d.state \in [Key -> Entry \cup {None}]
  BY DEF Document
<1>2. e \in Entry
  BY <1>1 DEF Entry
<1> HIDE DEF e
<1>3. [d.state EXCEPT ![k] = e] \in [Key -> Entry \cup {None}]
  BY <1>1, <1>2
<1>4. [version |-> d.version + 1, state |-> [d.state EXCEPT ![k] = e]] \in Document
  BY <1>1, <1>3 DEF Document
<1> QED
  BY <1>4 DEF Updated, e

\* The type invariant holds initially.
LEMMA TypeInit == Init => TypeOK
<1> SUFFICES ASSUME Init PROVE TypeOK
  OBVIOUS
<1>1. RunTypeOK
  BY DEF Init, RunTypeOK
<1>2. FrameTypeOK
  BY DEF Init, FrameTypeOK
<1>3. StoreTypeOK
  <2>1. edges \in [Domain -> EdgeState]
    BY DEF Init, EdgeState
  <2> QED
    BY <2>1, NoneAssumption DEF Init, StoreTypeOK
<1>4. PutTypeOK
  BY DEF Init, PutTypeOK, PutState
<1>5. BoundsTypeOK
  BY ConstantsAssumption DEF Init, BoundsTypeOK
<1> QED
  BY <1>1, <1>2, <1>3, <1>4, <1>5 DEF TypeOK

\* Every step keeps the types.
LEMMA TypeStep == TypeOK /\ [Next]_vars => TypeOK'
<1> SUFFICES ASSUME TypeOK, [Next]_vars PROVE TypeOK'
  OBVIOUS
<1>1. ASSUME NEW r \in RunId, AckExisting(r) PROVE TypeOK'
  <2>1. RunTypeOK'
    BY <1>1 DEF AckExisting, RunTypeOK, TypeOK, handler, store, bounds
  <2>2. FrameTypeOK'
    BY <1>1 DEF AckExisting, FrameTypeOK, TypeOK, handler, store, bounds
  <2>3. StoreTypeOK'
    BY <1>1 DEF AckExisting, StoreTypeOK, TypeOK, handler, store, bounds
  <2>4. PutTypeOK'
    BY <1>1 DEF AckExisting, PutTypeOK, TypeOK, handler, store, bounds
  <2>5. BoundsTypeOK'
    BY <1>1, ConstantsAssumption DEF AckExisting, Arrives, BoundsTypeOK, TypeOK, handler, store, bounds
  <2> QED
    BY <2>1, <2>2, <2>3, <2>4, <2>5 DEF TypeOK
<1>2. ASSUME NEW r \in RunId, Conflict(r) PROVE TypeOK'
  <2>1. RunTypeOK'
    BY <1>2 DEF Conflict, RunTypeOK, TypeOK, handler, store, bounds
  <2>2. FrameTypeOK'
    BY <1>2 DEF Conflict, FrameTypeOK, TypeOK, handler, store, bounds
  <2>3. StoreTypeOK'
    BY <1>2 DEF Conflict, StoreTypeOK, TypeOK, handler, store, bounds
  <2>4. PutTypeOK'
    BY <1>2 DEF Conflict, PutTypeOK, TypeOK, handler, store, bounds
  <2>5. BoundsTypeOK'
    BY <1>2, ConstantsAssumption DEF Conflict, Arrives, BoundsTypeOK, TypeOK, handler, store, bounds
  <2> QED
    BY <2>1, <2>2, <2>3, <2>4, <2>5 DEF TypeOK
<1>3. ASSUME NEW r \in RunId, Begin(r) PROVE TypeOK'
  <2>1. RunTypeOK'
    BY <1>3 DEF Begin, Context, EmptyDoc, Document, Arrives, RunTypeOK, TypeOK, handler, store, bounds
  <2>2. FrameTypeOK'
    BY <1>3 DEF Begin, Arrives, FrameTypeOK, TypeOK, handler, store, bounds
  <2>3. StoreTypeOK'
    BY <1>3 DEF Begin, Arrives, StoreTypeOK, TypeOK, handler, store, bounds
  <2>4. PutTypeOK'
    BY <1>3 DEF Begin, Arrives, PutTypeOK, TypeOK, handler, store, bounds
  <2>5. BoundsTypeOK'
    BY <1>3, ConstantsAssumption DEF Begin, Arrives, BoundsTypeOK, TypeOK, handler, store, bounds
  <2> QED
    BY <2>1, <2>2, <2>3, <2>4, <2>5 DEF TypeOK
<1>4. ASSUME NEW target \in SUBSET Strategy, BuildContext(target) PROVE TypeOK'
  <2>1. RunTypeOK'
    BY <1>4 DEF BuildContext, Context, RunState, Stage, StoreTypeOK, RunTypeOK, TypeOK, handler, store, bounds
  <2>2. FrameTypeOK'
    BY <1>4 DEF BuildContext, FrameTypeOK, TypeOK, handler, store, bounds
  <2>3. StoreTypeOK'
    BY <1>4 DEF BuildContext, StoreTypeOK, TypeOK, handler, store, bounds
  <2>4. PutTypeOK'
    BY <1>4 DEF BuildContext, PutTypeOK, TypeOK, handler, store, bounds
  <2>5. BoundsTypeOK'
    BY <1>4 DEF BuildContext, BoundsTypeOK, TypeOK, handler, store, bounds
  <2> QED
    BY <2>1, <2>2, <2>3, <2>4, <2>5 DEF TypeOK
<1>5. ASSUME RecordRequested PROVE TypeOK'
  <2>1. RunTypeOK'
    BY <1>5 DEF RecordRequested, RunTypeOK, TypeOK, handler, store, bounds
  <2>2. FrameTypeOK'
    BY <1>5, ConstantsAssumption DEF RecordRequested, FrameTypeOK, TypeOK, handler, store, bounds
  <2>3. StoreTypeOK'
    BY <1>5 DEF RecordRequested, Record, Stage, Context, RunTypeOK, StoreTypeOK, TypeOK, handler, store, bounds
  <2>4. PutTypeOK'
    BY <1>5 DEF RecordRequested, PutTypeOK, TypeOK, handler, store, bounds
  <2>5. BoundsTypeOK'
    BY <1>5 DEF RecordRequested, BoundsTypeOK, TypeOK, handler, store, bounds
  <2> QED
    BY <2>1, <2>2, <2>3, <2>4, <2>5 DEF TypeOK
<1>6. ASSUME NEW d \in Domain, SetEdge(d) PROVE TypeOK'
  <2>1. RunTypeOK'
    BY <1>6 DEF SetEdge, RunTypeOK, TypeOK, handler, store, bounds
  <2>2. FrameTypeOK'
    BY <1>6 DEF SetEdge, StoreTypeOK, EdgeState, FrameTypeOK, TypeOK, handler, store, bounds
  <2>3. StoreTypeOK'
    BY <1>6 DEF SetEdge, EdgeState, StoreTypeOK, TypeOK, handler, store, bounds
  <2>4. PutTypeOK'
    BY <1>6 DEF SetEdge, PutTypeOK, TypeOK, handler, store, bounds
  <2>5. BoundsTypeOK'
    BY <1>6 DEF SetEdge, BoundsTypeOK, TypeOK, handler, store, bounds
  <2> QED
    BY <2>1, <2>2, <2>3, <2>4, <2>5 DEF TypeOK
<1>7. ASSUME NEW d \in Domain, RestoreEdge(d) PROVE TypeOK'
  <2>1. RunTypeOK'
    BY <1>7 DEF RestoreEdge, RunTypeOK, TypeOK, handler, store, bounds
  <2>2. FrameTypeOK'
    BY <1>7 DEF RestoreEdge, FrameTypeOK, TypeOK, handler, store, bounds
  <2>3. StoreTypeOK'
    BY <1>7 DEF RestoreEdge, FrameTypeOK, EdgeState, StoreTypeOK, TypeOK, handler, store, bounds
  <2>4. PutTypeOK'
    BY <1>7 DEF RestoreEdge, PutTypeOK, TypeOK, handler, store, bounds
  <2>5. BoundsTypeOK'
    BY <1>7 DEF RestoreEdge, BoundsTypeOK, TypeOK, handler, store, bounds
  <2> QED
    BY <2>1, <2>2, <2>3, <2>4, <2>5 DEF TypeOK
<1>8. ASSUME NEW k \in Key, PickEntry(k) PROVE TypeOK'
  <2>1. RunTypeOK'
    BY <1>8 DEF PickEntry, RunState, RunTypeOK, TypeOK, handler, store, bounds
  <2>2. FrameTypeOK'
    BY <1>8, NoneAssumption DEF PickEntry, StoreTypeOK, FrameTypeOK, TypeOK, handler, store, bounds
  <2>3. StoreTypeOK'
    BY <1>8 DEF PickEntry, StoreTypeOK, TypeOK, handler, store, bounds
  <2>4. PutTypeOK'
    BY <1>8 DEF PickEntry, PutTypeOK, TypeOK, handler, store, bounds
  <2>5. BoundsTypeOK'
    BY <1>8 DEF PickEntry, BoundsTypeOK, TypeOK, handler, store, bounds
  <2> QED
    BY <2>1, <2>2, <2>3, <2>4, <2>5 DEF TypeOK
<1>9. ASSUME StoreEntry PROVE TypeOK'
  <2>1. RunTypeOK'
    BY <1>9 DEF StoreEntry, RunTypeOK, TypeOK, handler, store, bounds
  <2>2. FrameTypeOK'
    BY <1>9 DEF StoreEntry, FrameTypeOK, TypeOK, handler, store, bounds
  <2>3. StoreTypeOK'
    <3>1. loaded \in Document /\ cur \in Key /\ ctx.run \in RunId
      BY <1>9 DEF StoreEntry, TypeOK, RunTypeOK, FrameTypeOK, Context
    <3>2. EntryValue.active \in BOOLEAN /\ EntryValue.frozen \in BOOLEAN
      BY DEF EntryValue
    <3>3. doc' \in Document
      BY <1>9, <3>1, <3>2, UpdatedType DEF StoreEntry
    <3> QED
      BY <1>9, <3>3 DEF StoreEntry, StoreTypeOK, TypeOK
  <2>4. PutTypeOK'
    BY <1>9 DEF StoreEntry, PutTypeOK, TypeOK, handler, store, bounds
  <2>5. BoundsTypeOK'
    BY <1>9 DEF StoreEntry, BoundsTypeOK, TypeOK, handler, store, bounds
  <2> QED
    BY <2>1, <2>2, <2>3, <2>4, <2>5 DEF TypeOK
<1>10. ASSUME PublishEntry PROVE TypeOK'
  <2>1. RunTypeOK'
    BY <1>10 DEF PublishEntry, RunTypeOK, TypeOK, handler, store, bounds
  <2>2. FrameTypeOK'
    BY <1>10 DEF PublishEntry, FrameTypeOK, TypeOK, handler, store, bounds
  <2>3. StoreTypeOK'
    <3>1. loaded \in Document /\ cur \in Key /\ ctx.run \in RunId /\ run.seq \in Nat
      BY <1>10 DEF PublishEntry, TypeOK, RunTypeOK, FrameTypeOK, Context, RunState
    <3>2. EntryValue.active \in BOOLEAN /\ EntryValue.frozen \in BOOLEAN
      BY DEF EntryValue
    <3>3. loaded.version + 1 \in Nat
      BY <3>1 DEF Document
    <3> HIDE DEF EntryValue
    <3>4. bus' \in Seq(Event)
      BY <1>10, <3>1, <3>2, <3>3 DEF PublishEntry, Publish, Event, Phase, StoreTypeOK, TypeOK
    <3> QED
      BY <1>10, <3>4 DEF PublishEntry, StoreTypeOK, TypeOK, store
  <2>4. PutTypeOK'
    BY <1>10 DEF PublishEntry, PutTypeOK, TypeOK, handler, store, bounds
  <2>5. BoundsTypeOK'
    BY <1>10 DEF PublishEntry, BoundsTypeOK, TypeOK, handler, store, bounds
  <2> QED
    BY <2>1, <2>2, <2>3, <2>4, <2>5 DEF TypeOK
<1>11. ASSUME EnterFreeze PROVE TypeOK'
  <2>1. RunTypeOK'
    BY <1>11 DEF EnterFreeze, RunState, Stage, Goto, Mark, LoopDone, RunTypeOK, TypeOK, handler, store, bounds
  <2>2. FrameTypeOK'
    BY <1>11 DEF EnterFreeze, Present, Goto, Mark, LoopDone, FrameTypeOK, TypeOK, handler, store, bounds
  <2>3. StoreTypeOK'
    BY <1>11 DEF EnterFreeze, Goto, Mark, LoopDone, StoreTypeOK, TypeOK, handler, store, bounds
  <2>4. PutTypeOK'
    BY <1>11 DEF EnterFreeze, Goto, Mark, LoopDone, PutTypeOK, TypeOK, handler, store, bounds
  <2>5. BoundsTypeOK'
    BY <1>11 DEF EnterFreeze, Goto, Mark, LoopDone, BoundsTypeOK, TypeOK, handler, store, bounds
  <2> QED
    BY <2>1, <2>2, <2>3, <2>4, <2>5 DEF TypeOK
<1>12. ASSUME FreezeDone PROVE TypeOK'
  <2>1. RunTypeOK'
    BY <1>12 DEF FreezeDone, Goto, LoopDone, RunTypeOK, TypeOK, handler, store, bounds
  <2>2. FrameTypeOK'
    BY <1>12 DEF FreezeDone, Goto, LoopDone, FrameTypeOK, TypeOK, handler, store, bounds
  <2>3. StoreTypeOK'
    BY <1>12 DEF FreezeDone, Record, Stage, Context, RunTypeOK, Goto, LoopDone, StoreTypeOK, TypeOK, handler, store, bounds
  <2>4. PutTypeOK'
    BY <1>12 DEF FreezeDone, Goto, LoopDone, PutTypeOK, TypeOK, handler, store, bounds
  <2>5. BoundsTypeOK'
    BY <1>12 DEF FreezeDone, Goto, LoopDone, BoundsTypeOK, TypeOK, handler, store, bounds
  <2> QED
    BY <2>1, <2>2, <2>3, <2>4, <2>5 DEF TypeOK
<1>13. ASSUME SwitchDecisions PROVE TypeOK'
  <2>1. RunTypeOK'
    BY <1>13 DEF SwitchDecisions, Goto, RunTypeOK, TypeOK, handler, store, bounds
  <2>2. FrameTypeOK'
    BY <1>13 DEF SwitchDecisions, Goto, FrameTypeOK, TypeOK, handler, store, bounds
  <2>3. StoreTypeOK'
    BY <1>13 DEF SwitchDecisions, Context, RunTypeOK, Goto, StoreTypeOK, TypeOK, handler, store, bounds
  <2>4. PutTypeOK'
    BY <1>13 DEF SwitchDecisions, Goto, PutTypeOK, TypeOK, handler, store, bounds
  <2>5. BoundsTypeOK'
    BY <1>13 DEF SwitchDecisions, Goto, BoundsTypeOK, TypeOK, handler, store, bounds
  <2> QED
    BY <2>1, <2>2, <2>3, <2>4, <2>5 DEF TypeOK
<1>14. ASSUME RecordSwitch PROVE TypeOK'
  <2>1. RunTypeOK'
    BY <1>14 DEF RecordSwitch, RunState, Stage, Goto, Mark, RunTypeOK, TypeOK, handler, store, bounds
  <2>2. FrameTypeOK'
    BY <1>14 DEF RecordSwitch, Goto, Mark, FrameTypeOK, TypeOK, handler, store, bounds
  <2>3. StoreTypeOK'
    BY <1>14 DEF RecordSwitch, Record, Stage, Context, RunTypeOK, Goto, Mark, StoreTypeOK, TypeOK, handler, store, bounds
  <2>4. PutTypeOK'
    BY <1>14 DEF RecordSwitch, Goto, Mark, PutTypeOK, TypeOK, handler, store, bounds
  <2>5. BoundsTypeOK'
    BY <1>14 DEF RecordSwitch, Goto, Mark, BoundsTypeOK, TypeOK, handler, store, bounds
  <2> QED
    BY <2>1, <2>2, <2>3, <2>4, <2>5 DEF TypeOK
<1>15. ASSUME NotifyPolicyUpdate PROVE TypeOK'
  <2>1. RunTypeOK'
    BY <1>15 DEF NotifyPolicyUpdate, RunState, Stage, Goto, Mark, RunTypeOK, TypeOK, handler, store, bounds
  <2>2. FrameTypeOK'
    BY <1>15, ConstantsAssumption DEF NotifyPolicyUpdate, UnfreezeKeys, Present, Key, Context, RunTypeOK, Goto, Mark, FrameTypeOK, TypeOK, handler, store, bounds
  <2>3. StoreTypeOK'
    BY <1>15 DEF NotifyPolicyUpdate, Publish, Event, Phase, Goto, Mark, StoreTypeOK, TypeOK, handler, store, bounds
  <2>4. PutTypeOK'
    BY <1>15 DEF NotifyPolicyUpdate, Goto, Mark, PutTypeOK, TypeOK, handler, store, bounds
  <2>5. BoundsTypeOK'
    BY <1>15 DEF NotifyPolicyUpdate, Goto, Mark, BoundsTypeOK, TypeOK, handler, store, bounds
  <2> QED
    BY <2>1, <2>2, <2>3, <2>4, <2>5 DEF TypeOK
<1>16. ASSUME UnfreezeDone PROVE TypeOK'
  <2>1. RunTypeOK'
    BY <1>16 DEF UnfreezeDone, Goto, LoopDone, RunTypeOK, TypeOK, handler, store, bounds
  <2>2. FrameTypeOK'
    BY <1>16, ConstantsAssumption DEF UnfreezeDone, Goto, LoopDone, FrameTypeOK, TypeOK, handler, store, bounds
  <2>3. StoreTypeOK'
    BY <1>16 DEF UnfreezeDone, Record, Stage, Context, RunTypeOK, Goto, LoopDone, StoreTypeOK, TypeOK, handler, store, bounds
  <2>4. PutTypeOK'
    BY <1>16 DEF UnfreezeDone, Goto, LoopDone, PutTypeOK, TypeOK, handler, store, bounds
  <2>5. BoundsTypeOK'
    BY <1>16 DEF UnfreezeDone, Goto, LoopDone, BoundsTypeOK, TypeOK, handler, store, bounds
  <2> QED
    BY <2>1, <2>2, <2>3, <2>4, <2>5 DEF TypeOK
<1>17. ASSUME MarkCompleted PROVE TypeOK'
  <2>1. RunTypeOK'
    BY <1>17 DEF MarkCompleted, RunState, Stage, Goto, LoopDone, RunTypeOK, TypeOK, handler, store, bounds
  <2>2. FrameTypeOK'
    BY <1>17 DEF MarkCompleted, Goto, LoopDone, FrameTypeOK, TypeOK, handler, store, bounds
  <2>3. StoreTypeOK'
    BY <1>17 DEF MarkCompleted, Goto, LoopDone, StoreTypeOK, TypeOK, handler, store, bounds
  <2>4. PutTypeOK'
    BY <1>17 DEF MarkCompleted, Goto, LoopDone, PutTypeOK, TypeOK, handler, store, bounds
  <2>5. BoundsTypeOK'
    BY <1>17 DEF MarkCompleted, Goto, LoopDone, BoundsTypeOK, TypeOK, handler, store, bounds
  <2> QED
    BY <2>1, <2>2, <2>3, <2>4, <2>5 DEF TypeOK
<1>18. ASSUME RecordCompleted PROVE TypeOK'
  <2>1. RunTypeOK'
    BY <1>18 DEF RecordCompleted, Goto, RunTypeOK, TypeOK, handler, store, bounds
  <2>2. FrameTypeOK'
    BY <1>18 DEF RecordCompleted, Goto, FrameTypeOK, TypeOK, handler, store, bounds
  <2>3. StoreTypeOK'
    BY <1>18 DEF RecordCompleted, Record, Stage, Context, RunTypeOK, Goto, StoreTypeOK, TypeOK, handler, store, bounds
  <2>4. PutTypeOK'
    BY <1>18 DEF RecordCompleted, Goto, PutTypeOK, TypeOK, handler, store, bounds
  <2>5. BoundsTypeOK'
    BY <1>18 DEF RecordCompleted, Goto, BoundsTypeOK, TypeOK, handler, store, bounds
  <2> QED
    BY <2>1, <2>2, <2>3, <2>4, <2>5 DEF TypeOK
<1>19. ASSUME BodyFails PROVE TypeOK'
  <2>1. RunTypeOK'
    BY <1>19 DEF BodyFails, FailsNow, RunTypeOK, TypeOK, handler, store, bounds
  <2>2. FrameTypeOK'
    BY <1>19 DEF BodyFails, FailsNow, FrameTypeOK, TypeOK, handler, store, bounds
  <2>3. StoreTypeOK'
    BY <1>19 DEF BodyFails, FailsNow, StoreTypeOK, TypeOK, handler, store, bounds
  <2>4. PutTypeOK'
    BY <1>19 DEF BodyFails, FailsNow, PutTypeOK, TypeOK, handler, store, bounds
  <2>5. BoundsTypeOK'
    BY <1>19, ConstantsAssumption DEF BodyFails, FailsNow, BoundsTypeOK, TypeOK, handler, store, bounds
  <2> QED
    BY <2>1, <2>2, <2>3, <2>4, <2>5 DEF TypeOK
<1>20. ASSUME Escapes PROVE TypeOK'
  <2>1. RunTypeOK'
    BY <1>20 DEF Escapes, FailsNow, RunTypeOK, TypeOK, handler, store, bounds
  <2>2. FrameTypeOK'
    BY <1>20 DEF Escapes, FailsNow, FrameTypeOK, TypeOK, handler, store, bounds
  <2>3. StoreTypeOK'
    BY <1>20 DEF Escapes, FailsNow, StoreTypeOK, TypeOK, handler, store, bounds
  <2>4. PutTypeOK'
    BY <1>20 DEF Escapes, FailsNow, PutTypeOK, TypeOK, handler, store, bounds
  <2>5. BoundsTypeOK'
    BY <1>20, ConstantsAssumption DEF Escapes, FailsNow, BoundsTypeOK, TypeOK, handler, store, bounds
  <2> QED
    BY <2>1, <2>2, <2>3, <2>4, <2>5 DEF TypeOK
<1>21. ASSUME EdgesRestored PROVE TypeOK'
  <2>1. RunTypeOK'
    BY <1>21 DEF EdgesRestored, Goto, LoopDone, RunTypeOK, TypeOK, handler, store, bounds
  <2>2. FrameTypeOK'
    BY <1>21 DEF EdgesRestored, Goto, LoopDone, FrameTypeOK, TypeOK, handler, store, bounds
  <2>3. StoreTypeOK'
    BY <1>21 DEF EdgesRestored, Goto, LoopDone, StoreTypeOK, TypeOK, handler, store, bounds
  <2>4. PutTypeOK'
    BY <1>21 DEF EdgesRestored, Goto, LoopDone, PutTypeOK, TypeOK, handler, store, bounds
  <2>5. BoundsTypeOK'
    BY <1>21 DEF EdgesRestored, Goto, LoopDone, BoundsTypeOK, TypeOK, handler, store, bounds
  <2> QED
    BY <2>1, <2>2, <2>3, <2>4, <2>5 DEF TypeOK
<1>22. ASSUME RestoreActivation PROVE TypeOK'
  <2>1. RunTypeOK'
    BY <1>22 DEF RestoreActivation, Goto, RunTypeOK, TypeOK, handler, store, bounds
  <2>2. FrameTypeOK'
    BY <1>22 DEF RestoreActivation, Goto, FrameTypeOK, TypeOK, handler, store, bounds
  <2>3. StoreTypeOK'
    BY <1>22 DEF RestoreActivation, Context, RunTypeOK, Goto, StoreTypeOK, TypeOK, handler, store, bounds
  <2>4. PutTypeOK'
    BY <1>22 DEF RestoreActivation, Goto, PutTypeOK, TypeOK, handler, store, bounds
  <2>5. BoundsTypeOK'
    BY <1>22 DEF RestoreActivation, Goto, BoundsTypeOK, TypeOK, handler, store, bounds
  <2> QED
    BY <2>1, <2>2, <2>3, <2>4, <2>5 DEF TypeOK
<1>23. ASSUME RestoreDecisions PROVE TypeOK'
  <2>1. RunTypeOK'
    BY <1>23 DEF RestoreDecisions, Goto, RunTypeOK, TypeOK, handler, store, bounds
  <2>2. FrameTypeOK'
    BY <1>23 DEF RestoreDecisions, Goto, FrameTypeOK, TypeOK, handler, store, bounds
  <2>3. StoreTypeOK'
    BY <1>23 DEF RestoreDecisions, Context, RunTypeOK, Goto, StoreTypeOK, TypeOK, handler, store, bounds
  <2>4. PutTypeOK'
    BY <1>23 DEF RestoreDecisions, Goto, PutTypeOK, TypeOK, handler, store, bounds
  <2>5. BoundsTypeOK'
    BY <1>23 DEF RestoreDecisions, Goto, BoundsTypeOK, TypeOK, handler, store, bounds
  <2> QED
    BY <2>1, <2>2, <2>3, <2>4, <2>5 DEF TypeOK
<1>24. ASSUME RecordRolledBack PROVE TypeOK'
  <2>1. RunTypeOK'
    BY <1>24 DEF RecordRolledBack, Goto, RunTypeOK, TypeOK, handler, store, bounds
  <2>2. FrameTypeOK'
    BY <1>24 DEF RecordRolledBack, Present, Goto, FrameTypeOK, TypeOK, handler, store, bounds
  <2>3. StoreTypeOK'
    BY <1>24 DEF RecordRolledBack, Record, Stage, Context, RunTypeOK, Goto, StoreTypeOK, TypeOK, handler, store, bounds
  <2>4. PutTypeOK'
    BY <1>24 DEF RecordRolledBack, Goto, PutTypeOK, TypeOK, handler, store, bounds
  <2>5. BoundsTypeOK'
    BY <1>24 DEF RecordRolledBack, Goto, BoundsTypeOK, TypeOK, handler, store, bounds
  <2> QED
    BY <2>1, <2>2, <2>3, <2>4, <2>5 DEF TypeOK
<1>25. ASSUME RollbackDone PROVE TypeOK'
  <2>1. RunTypeOK'
    BY <1>25 DEF RollbackDone, RunState, Stage, Context, Goto, LoopDone, RunTypeOK, TypeOK, handler, store, bounds
  <2>2. FrameTypeOK'
    BY <1>25 DEF RollbackDone, Goto, LoopDone, FrameTypeOK, TypeOK, handler, store, bounds
  <2>3. StoreTypeOK'
    BY <1>25 DEF RollbackDone, Goto, LoopDone, StoreTypeOK, TypeOK, handler, store, bounds
  <2>4. PutTypeOK'
    BY <1>25 DEF RollbackDone, Goto, LoopDone, PutTypeOK, TypeOK, handler, store, bounds
  <2>5. BoundsTypeOK'
    BY <1>25 DEF RollbackDone, Goto, LoopDone, BoundsTypeOK, TypeOK, handler, store, bounds
  <2> QED
    BY <2>1, <2>2, <2>3, <2>4, <2>5 DEF TypeOK
<1>26. ASSUME NEW p \in PutId, NEW k \in Key, NEW active \in BOOLEAN, NEW frozen \in BOOLEAN, PutLoad(p, k, active, frozen) PROVE TypeOK'
  <2>1. RunTypeOK'
    BY <1>26 DEF PutLoad, RunTypeOK, TypeOK, handler, store, bounds
  <2>2. FrameTypeOK'
    BY <1>26 DEF PutLoad, FrameTypeOK, TypeOK, handler, store, bounds
  <2>3. StoreTypeOK'
    BY <1>26 DEF PutLoad, StoreTypeOK, TypeOK, handler, store, bounds
  <2>4. PutTypeOK'
    BY <1>26 DEF PutLoad, PutState, StoreTypeOK, PutTypeOK, TypeOK, handler, store, bounds
  <2>5. BoundsTypeOK'
    BY <1>26 DEF PutLoad, BoundsTypeOK, TypeOK, handler, store, bounds
  <2> QED
    BY <2>1, <2>2, <2>3, <2>4, <2>5 DEF TypeOK
<1>27. ASSUME NEW p \in PutId, PutStore(p) PROVE TypeOK'
  <2>1. RunTypeOK'
    BY <1>27 DEF PutStore, RunTypeOK, TypeOK, handler, store, bounds
  <2>2. FrameTypeOK'
    BY <1>27 DEF PutStore, FrameTypeOK, TypeOK, handler, store, bounds
  <2>3. StoreTypeOK'
    <3>1. put[p].loaded \in Document /\ put[p].key \in Key
      BY <1>27 DEF PutStore, TypeOK, PutTypeOK
    <3>2. put[p].active \in BOOLEAN /\ put[p].frozen \in BOOLEAN
      BY DEF TypeOK, PutTypeOK, PutState
    <3>3. doc' \in Document
      BY <1>27, <3>1, <3>2, UpdatedType DEF PutStore
    <3> QED
      BY <1>27, <3>3 DEF PutStore, StoreTypeOK, TypeOK
  <2>4. PutTypeOK'
    <3>1. put[p].loaded.version + 1 \in Nat
      BY <1>27 DEF PutStore, TypeOK, PutTypeOK, Document
    <3>2. put' = [put EXCEPT ![p] = [put[p] EXCEPT !.pc = "publish",
                   !.ver = put[p].loaded.version + 1, !.loaded = None]]
      BY <1>27 DEF PutStore, TypeOK, PutTypeOK, PutState
    <3>3. [put[p] EXCEPT !.pc = "publish", !.ver = put[p].loaded.version + 1, !.loaded = None]
            \in PutState
      BY <3>1 DEF TypeOK, PutTypeOK, PutState
    <3> QED
      BY <3>2, <3>3 DEF TypeOK, PutTypeOK
  <2>5. BoundsTypeOK'
    BY <1>27 DEF PutStore, BoundsTypeOK, TypeOK, handler, store, bounds
  <2> QED
    BY <2>1, <2>2, <2>3, <2>4, <2>5 DEF TypeOK
<1>28. ASSUME NEW p \in PutId, PutPublish(p) PROVE TypeOK'
  <2>1. RunTypeOK'
    BY <1>28 DEF PutPublish, RunTypeOK, TypeOK, handler, store, bounds
  <2>2. FrameTypeOK'
    BY <1>28 DEF PutPublish, FrameTypeOK, TypeOK, handler, store, bounds
  <2>3. StoreTypeOK'
    BY <1>28 DEF PutPublish, Publish, Event, Phase, PutTypeOK, PutState, StoreTypeOK, TypeOK, handler, store, bounds
  <2>4. PutTypeOK'
    BY <1>28 DEF PutPublish, PutState, PutTypeOK, TypeOK, handler, store, bounds
  <2>5. BoundsTypeOK'
    BY <1>28 DEF PutPublish, BoundsTypeOK, TypeOK, handler, store, bounds
  <2> QED
    BY <2>1, <2>2, <2>3, <2>4, <2>5 DEF TypeOK
<1>29. ASSUME NEW s \in PostLists, PostDecisions(s) PROVE TypeOK'
  <2>1. RunTypeOK'
    BY <1>29 DEF PostDecisions, RunTypeOK, TypeOK, handler, store, bounds
  <2>2. FrameTypeOK'
    BY <1>29 DEF PostDecisions, FrameTypeOK, TypeOK, handler, store, bounds
  <2>3. StoreTypeOK'
    BY <1>29, ConstantsAssumption DEF PostDecisions, StoreTypeOK, TypeOK, handler, store, bounds
  <2>4. PutTypeOK'
    BY <1>29 DEF PostDecisions, PutTypeOK, TypeOK, handler, store, bounds
  <2>5. BoundsTypeOK'
    BY <1>29, ConstantsAssumption DEF PostDecisions, BoundsTypeOK, TypeOK, handler, store, bounds
  <2> QED
    BY <2>1, <2>2, <2>3, <2>4, <2>5 DEF TypeOK
<1>30. ASSUME Crash PROVE TypeOK'
  <2>1. RunTypeOK'
    BY <1>30 DEF Crash, RunTypeOK, TypeOK, handler, store, bounds
  <2>2. FrameTypeOK'
    BY <1>30 DEF Crash, FrameTypeOK, TypeOK, handler, store, bounds
  <2>3. StoreTypeOK'
    BY <1>30 DEF Crash, StoreTypeOK, TypeOK, handler, store, bounds
  <2>4. PutTypeOK'
    <3>1. put \in [PutId -> PutState]
      BY DEF PutTypeOK, TypeOK
    <3>2. put' = [p \in PutId |-> IF put[p].pc = "new" THEN put[p]
                                  ELSE [put[p] EXCEPT !.pc = "done", !.loaded = None]]
      BY <1>30 DEF Crash
    <3>3. ASSUME NEW p \in PutId PROVE put'[p] \in PutState /\ put'[p].pc # "store"
      <4>1. put[p] \in PutState
        BY <3>1
      <4>2. \/ put'[p] = put[p] /\ put[p].pc = "new"
            \/ put'[p] = [put[p] EXCEPT !.pc = "done", !.loaded = None]
        BY <3>2
      <4> QED
        BY <4>1, <4>2 DEF PutState
    <3>4. put' \in [PutId -> PutState]
      BY <3>2, <3>3
    <3> QED
      BY <3>3, <3>4 DEF PutTypeOK
  <2>5. BoundsTypeOK'
    <3>1. crashes < MaxCrashes /\ crashes' = crashes + 1 /\ UNCHANGED <<reqs, fails, posts>>
      BY <1>30 DEF Crash
    <3> QED
      BY <3>1, ConstantsAssumption DEF BoundsTypeOK, TypeOK
  <2> QED
    BY <2>1, <2>2, <2>3, <2>4, <2>5 DEF TypeOK
<1>31. ASSUME UNCHANGED vars PROVE TypeOK'
  BY <1>31 DEF TypeOK, RunTypeOK, FrameTypeOK, StoreTypeOK, PutTypeOK, BoundsTypeOK, vars, handler, store, bounds
<1> QED
  BY <1>1, <1>2, <1>3, <1>4, <1>5, <1>6, <1>7, <1>8, <1>9, <1>10, <1>11, <1>12, <1>13, <1>14, <1>15, <1>16, <1>17, <1>18, <1>19, <1>20, <1>21, <1>22, <1>23, <1>24, <1>25, <1>26, <1>27, <1>28, <1>29, <1>30, <1>31 DEF Next, Request, Handler, Puts

\* Variables of apply, of its stores and of the requests beside it keep their types,
\* whatever fails and wherever the process stops.
THEOREM TypeCorrect == Spec => []TypeOK
<1> QED
  BY TypeInit, TypeStep, PTL DEF Spec

-----------------------------------------------------------------------------
(***************************************************************************)
(* Gating and rollback.  PUT /activation and POST /decisions are not ordered  *)
(* with apply by any lock, so these results assume that neither is used.      *)
(***************************************************************************)

\* One update gates or reopens its own entry and keeps the others.
LEMMA UpdatedEntry ==
    ASSUME NEW d \in Document, NEW k \in Key, NEW a \in BOOLEAN, NEW f \in BOOLEAN,
           NEW r \in RunId \cup {None}
    PROVE  /\ Present(Updated(d, k, a, f, r)) = Present(d) \cup {k}
           /\ Updated(d, k, a, f, r).state[k].active = a
           /\ Updated(d, k, a, f, r).state[k].frozen = f
           /\ \A j \in Key : j # k => Updated(d, k, a, f, r).state[j] = d.state[j]
<1> DEFINE e == [active |-> a, frozen |-> f, run |-> r, ver |-> d.version + 1]
           u == [d.state EXCEPT ![k] = e]
<1>1. d.version \in Nat /\ d.state \in [Key -> Entry \cup {None}]
  BY DEF Document
<1>2. e \in Entry /\ e.active = a /\ e.frozen = f
  BY <1>1 DEF Entry
<1>3. Updated(d, k, a, f, r).state = u
  BY DEF Updated
<1> HIDE DEF e
<1>4. u[k] = e /\ \A j \in Key : j # k => u[j] = d.state[j]
  BY <1>1
<1> HIDE DEF u
<1>5. e # None
  BY <1>2, NoneAssumption
<1> QED
  BY <1>2, <1>3, <1>4, <1>5 DEF Present

AllGated(keys) == \A k \in keys : Gated(doc.state[k])

Undone(domains) == \A d \in domains : undo[d] # None => edges[d] = undo[d]

\* The inductive invariant.  GatedWhileSwitching and RolledBackIsFrozen speak of
\* the end of a loop; Inv says what holds of the part of the loop that is done.
Inv ==
    /\ step = "store" => loaded = doc
    /\ pc \in {"requested", "pre", "restore_dec", "restore_rec"} => doc = ctx.snap
    /\ pc \in {"freeze", "refreeze"} =>
         /\ Present(doc) = Present(ctx.snap)
         /\ todo \subseteq Present(doc)
         /\ AllGated(Present(doc) \ todo)
         /\ step = "publish" => Gated(doc.state[cur])
    /\ GatedWhileSwitching
    /\ pc = "restore_edges" => Undone(Domain \ todo)
    /\ pc \in {"restore_act", "restore_dec", "restore_rec", "refreeze"} => Undone(Domain)
    /\ pc \in {"restore_rec", "refreeze"} => decisions = ctx.prev
    /\ run # None /\ run.stage = "rolled_back" => pc = "idle" /\ ~run.completed
    /\ RolledBackIsFrozen

\* Init establishes Inv: nothing runs yet.
LEMMA InvInit == Init => Inv
  BY DEF Init, Inv, GatedWhileSwitching, RolledBackIsFrozen, AllGated, Undone

\* Every step of apply, every failure and every crash keeps Inv.
LEMMA InvStep ==
    ASSUME PutId = {}, PostLists = {}
    PROVE  TypeOK /\ Inv /\ [Next]_vars => Inv'
<1> SUFFICES ASSUME TypeOK, Inv, [Next]_vars PROVE Inv'
  OBVIOUS
<1>1. ASSUME NEW r \in RunId, AckExisting(r) PROVE Inv'
  BY <1>1 DEF AckExisting, Arrives, handler, store, Inv, GatedWhileSwitching, RolledBackIsFrozen, AllGated, Undone
<1>2. ASSUME NEW r \in RunId, Conflict(r) PROVE Inv'
  BY <1>2 DEF Conflict, Arrives, handler, store, Inv, GatedWhileSwitching, RolledBackIsFrozen, AllGated, Undone
<1>3. ASSUME NEW r \in RunId, Begin(r) PROVE Inv'
  BY <1>3 DEF Begin, Arrives, store, TypeOK, RunTypeOK, FrameTypeOK, Inv, GatedWhileSwitching, RolledBackIsFrozen, AllGated, Undone
<1>4. ASSUME NEW target \in SUBSET Strategy, BuildContext(target) PROVE Inv'
  BY <1>4 DEF BuildContext, store, TypeOK, RunTypeOK, FrameTypeOK, Context, Inv, GatedWhileSwitching, RolledBackIsFrozen, AllGated, Undone
<1>5. ASSUME RecordRequested PROVE Inv'
  BY <1>5 DEF RecordRequested, Record, TypeOK, RunTypeOK, FrameTypeOK, Inv, GatedWhileSwitching, RolledBackIsFrozen, AllGated, Undone
<1>6. ASSUME NEW d \in Domain, SetEdge(d) PROVE Inv'
  BY <1>6 DEF SetEdge, TypeOK, FrameTypeOK, StoreTypeOK, Inv, GatedWhileSwitching, RolledBackIsFrozen, AllGated, Undone
<1>7. ASSUME NEW d \in Domain, RestoreEdge(d) PROVE Inv'
  BY <1>7 DEF RestoreEdge, TypeOK, FrameTypeOK, StoreTypeOK, Inv, GatedWhileSwitching, RolledBackIsFrozen, AllGated, Undone
<1>8. ASSUME NEW k \in Key, PickEntry(k) PROVE Inv'
  <2>1. run'.stage = run.stage /\ run'.completed = run.completed /\ run # None
    BY <1>8, NoneAssumption DEF PickEntry, TypeOK, RunTypeOK, RunState
  <2> QED
    BY <1>8, <2>1 DEF PickEntry, store, Inv, GatedWhileSwitching, RolledBackIsFrozen, AllGated, Undone
<1>9. ASSUME StoreEntry PROVE Inv'
  <2> DEFINE a == EntryValue.active
             f == EntryValue.frozen
  <2>1. loaded = doc /\ doc \in Document /\ cur \in Key /\ cur \in todo /\ ctx.run \in RunId
    BY <1>9 DEF StoreEntry, Inv, TypeOK, RunTypeOK, FrameTypeOK, StoreTypeOK, Context
  <2>2. a \in BOOLEAN /\ f \in BOOLEAN /\ (pc # "unfreeze" => ~a /\ f)
    BY DEF EntryValue
  <2> HIDE DEF a, f
  <2>3. doc' = Updated(doc, cur, a, f, ctx.run)
    BY <1>9, <2>1 DEF StoreEntry, a, f
  <2>4. /\ Present(doc') = Present(doc) \cup {cur}
        /\ doc'.state[cur].active = a /\ doc'.state[cur].frozen = f
        /\ \A j \in Key : j # cur => doc'.state[j] = doc.state[j]
    BY <2>1, <2>2, <2>3, UpdatedEntry
  <2>5. pc \in {"freeze", "refreeze"} =>
          /\ Present(doc') = Present(doc)
          /\ Gated(doc'.state[cur])
          /\ AllGated(Present(doc) \ todo)'
    BY <1>9, <2>1, <2>2, <2>4 DEF StoreEntry, Inv, AllGated, Gated, Present
  <2> QED
    BY <1>9, <2>5 DEF StoreEntry, Inv, GatedWhileSwitching, RolledBackIsFrozen, AllGated, Undone
<1>10. ASSUME PublishEntry PROVE Inv'
  BY <1>10 DEF PublishEntry, store, Publish, TypeOK, FrameTypeOK, Present, Inv, GatedWhileSwitching, RolledBackIsFrozen, AllGated, Undone
<1>11. ASSUME EnterFreeze PROVE Inv'
  BY <1>11 DEF EnterFreeze, store, Mark, Goto, LoopDone, TypeOK, RunTypeOK, FrameTypeOK, RunState, Inv, GatedWhileSwitching, RolledBackIsFrozen, AllGated, Undone
<1>12. ASSUME FreezeDone PROVE Inv'
  BY <1>12 DEF FreezeDone, Record, Goto, LoopDone, Inv, GatedWhileSwitching, RolledBackIsFrozen, AllGated, Undone
<1>13. ASSUME SwitchDecisions PROVE Inv'
  BY <1>13 DEF SwitchDecisions, Goto, Inv, GatedWhileSwitching, RolledBackIsFrozen, AllGated, Undone
<1>14. ASSUME RecordSwitch PROVE Inv'
  BY <1>14 DEF RecordSwitch, Record, Mark, Goto, TypeOK, RunTypeOK, RunState, Inv, GatedWhileSwitching, RolledBackIsFrozen, AllGated, Undone
<1>15. ASSUME NotifyPolicyUpdate PROVE Inv'
  BY <1>15 DEF NotifyPolicyUpdate, store, Mark, Goto, TypeOK, RunTypeOK, RunState, Inv, GatedWhileSwitching, RolledBackIsFrozen, AllGated, Undone
<1>16. ASSUME UnfreezeDone PROVE Inv'
  BY <1>16 DEF UnfreezeDone, Record, Goto, LoopDone, Inv, GatedWhileSwitching, RolledBackIsFrozen, AllGated, Undone
<1>17. ASSUME MarkCompleted PROVE Inv'
  BY <1>17 DEF MarkCompleted, store, Goto, LoopDone, TypeOK, RunTypeOK, RunState, Inv, GatedWhileSwitching, RolledBackIsFrozen, AllGated, Undone
<1>18. ASSUME RecordCompleted PROVE Inv'
  BY <1>18 DEF RecordCompleted, Record, Goto, Inv, GatedWhileSwitching, RolledBackIsFrozen, AllGated, Undone
<1>19. ASSUME BodyFails PROVE Inv'
  BY <1>19 DEF BodyFails, FailsNow, store, TypeOK, FrameTypeOK, Inv, GatedWhileSwitching, RolledBackIsFrozen, AllGated, Undone
<1>20. ASSUME Escapes PROVE Inv'
  BY <1>20 DEF Escapes, FailsNow, store, Inv, GatedWhileSwitching, RolledBackIsFrozen, AllGated, Undone
<1>21. ASSUME EdgesRestored PROVE Inv'
  BY <1>21 DEF EdgesRestored, store, Goto, LoopDone, Inv, GatedWhileSwitching, RolledBackIsFrozen, AllGated, Undone
<1>22. ASSUME RestoreActivation PROVE Inv'
  BY <1>22 DEF RestoreActivation, Goto, TypeOK, FrameTypeOK, Inv, GatedWhileSwitching, RolledBackIsFrozen, AllGated, Undone
<1>23. ASSUME RestoreDecisions PROVE Inv'
  BY <1>23 DEF RestoreDecisions, Goto, Inv, GatedWhileSwitching, RolledBackIsFrozen, AllGated, Undone
<1>24. ASSUME RecordRolledBack PROVE Inv'
  BY <1>24 DEF RecordRolledBack, Record, Goto, TypeOK, FrameTypeOK, Inv, GatedWhileSwitching, RolledBackIsFrozen, AllGated, Undone
<1>25. ASSUME RollbackDone PROVE Inv'
  BY <1>25 DEF RollbackDone, store, Goto, LoopDone, TypeOK, RunTypeOK, RunState, Inv, GatedWhileSwitching, RolledBackIsFrozen, AllGated, Undone
<1>26. ASSUME Crash PROVE Inv'
  BY <1>26 DEF Crash, store, Inv, GatedWhileSwitching, RolledBackIsFrozen, AllGated, Undone
<1>27. ASSUME UNCHANGED vars PROVE Inv'
  BY <1>27 DEF Inv, GatedWhileSwitching, RolledBackIsFrozen, AllGated, Undone, vars, handler, store
<1>28. (~\E x \in PutId : Puts(x)) /\ (~\E x \in PostLists : PostDecisions(x))
  OBVIOUS
<1> QED
  BY <1>1, <1>2, <1>3, <1>4, <1>5, <1>6, <1>7, <1>8, <1>9, <1>10, <1>11, <1>12, <1>13, <1>14, <1>15, <1>16, <1>17, <1>18, <1>19, <1>20, <1>21, <1>22, <1>23, <1>24, <1>25, <1>26, <1>27, <1>28 DEF Next, Request, Handler

\* While decisions are switched every activation entry is frozen and inactive:
\* no failure, crash or retry lets an order through between freeze and unfreeze.
THEOREM SwitchIsGated ==
    ASSUME PutId = {}, PostLists = {}
    PROVE  Spec => []GatedWhileSwitching
<1>1. Inv => GatedWhileSwitching
  BY DEF Inv
<1> QED
  BY <1>1, TypeInit, TypeStep, InvInit, InvStep, PTL DEF Spec

\* A rolled back run has restored decisions and edge overrides and left every
\* entry frozen, however many awaits failed and however often the process died.
THEOREM RollbackIsSafe ==
    ASSUME PutId = {}, PostLists = {}
    PROVE  Spec => []RolledBackIsFrozen
<1>1. Inv => RolledBackIsFrozen
  BY DEF Inv
<1> QED
  BY <1>1, TypeInit, TypeStep, InvInit, InvStep, PTL DEF Spec

-----------------------------------------------------------------------------
(***************************************************************************)
(* What a free lock finds.  No lock orders PUT /activation and POST           *)
(* /decisions with apply, and an exception raised by the rollback itself      *)
(* leaves apply halfway: these results assume that neither request is used     *)
(* and that the awaits of _handle_failure succeed.                            *)
(***************************************************************************)

UndoSucceeds == FailAt \cap UndoPC = {}

Forward == {"requested"} \cup BodyPC

Open(e, target, s) == ~e.frozen /\ e.active = (s \in target)

AllOpen(keys) == \A k \in keys : Open(doc.state[k], ctx.target, k[1])

\* The registry's run and the decisions, at each point of the coroutine.
LedgerInv ==
    /\ SettledWhenIdle
    /\ pc = "context" => run = None \/ run.completed
    /\ pc \in Forward => run.active = ctx.target
    /\ pc \in {"requested", "pre"} => run.stage = "requested"
    /\ pc \in Forward \ {"complete"} => ~run.completed
    /\ pc = "complete" => run.completed
    /\ pc \in {"requested", "pre", "freeze", "switch"} => decisions = ctx.prev
    /\ pc \in {"switched", "policy", "unfreeze", "post", "complete"} => decisions = ctx.target

\* The edge overrides, before, between and after the two loops that set them.
EdgesInv ==
    /\ pc = "pre" => \A d \in PreDisable \ todo : edges[d] = "off"
    /\ pc \in {"freeze", "switch", "switched", "policy", "unfreeze"} =>
         \A d \in PreDisable : edges[d] = "off"
    /\ pc = "post" => todo \subseteq PostEnable
    /\ pc = "post" => \A d \in PostEnable \ todo : edges[d] = "on"
    /\ pc \in {"post", "complete"} => \A d \in PreDisable \ PostEnable : edges[d] = "off"
    /\ pc = "complete" => \A d \in PostEnable : edges[d] = "on"

\* The entries that unfreeze_world has visited, and those it has still to visit.
OpenInv ==
    /\ pc \in {"switch", "switched", "policy"} => Present(doc) = Present(ctx.snap)
    /\ pc = "unfreeze" =>
         /\ todo \subseteq UnfreezeKeys(ctx.snap, ctx.target)
         /\ Present(ctx.snap) \subseteq Present(doc)
         /\ Present(doc) \subseteq UnfreezeKeys(ctx.snap, ctx.target)
         /\ UnfreezeKeys(ctx.snap, ctx.target) \ todo \subseteq Present(doc)
         /\ AllOpen(UnfreezeKeys(ctx.snap, ctx.target) \ todo)
         /\ step = "publish" => cur \in Present(doc) /\ Open(doc.state[cur], ctx.target, cur[1])
    /\ pc \in {"post", "complete"} =>
         /\ Present(doc) = UnfreezeKeys(ctx.snap, ctx.target)
         /\ AllOpen(Present(doc))

\* What a completed run has done to the world.
Applied(target) ==
    /\ decisions = target
    /\ \A k \in Present(doc) : Open(doc.state[k], target, k[1])
    /\ \A s \in target : \E k \in Present(doc) : k[1] = s
    /\ \A d \in Domain : /\ d \in PostEnable => edges[d] = "on"
                         /\ d \in PreDisable \ PostEnable => edges[d] = "off"

\* A completed run stays applied until the next one has built its context.
AppliedInv == pc \in {"idle", "context"} /\ run # None /\ run.completed => Applied(run.active)

WholeInv == LedgerInv /\ EdgesInv /\ OpenInv /\ AppliedInv

\* Init establishes WholeInv: the registry is empty.
LEMMA WholeInit == Init => WholeInv
  BY DEF Init, WholeInv, LedgerInv, EdgesInv, OpenInv, AppliedInv, SettledWhenIdle, Settled, Forward

\* Every step keeps the registry and the decisions in line.
LEMMA LedgerStep ==
    ASSUME PutId = {}, PostLists = {}, UndoSucceeds
    PROVE  TypeOK /\ Inv /\ WholeInv /\ [Next]_vars => LedgerInv'
<1> SUFFICES ASSUME TypeOK, Inv, WholeInv, [Next]_vars PROVE LedgerInv'
  OBVIOUS
<1> USE DEF WholeInv
<1>1. ASSUME NEW r \in RunId, AckExisting(r) PROVE LedgerInv'
  BY <1>1 DEF AckExisting, Arrives, handler, store, TypeOK, RunTypeOK, RunState, Forward, LedgerInv, SettledWhenIdle, Settled, Abandoned
<1>2. ASSUME NEW r \in RunId, Conflict(r) PROVE LedgerInv'
  BY <1>2 DEF Conflict, Arrives, handler, store, TypeOK, RunTypeOK, RunState, Forward, LedgerInv, SettledWhenIdle, Settled, Abandoned
<1>3. ASSUME NEW r \in RunId, Begin(r) PROVE LedgerInv'
  BY <1>3 DEF Begin, Arrives, store, TypeOK, RunTypeOK, RunState, Forward, LedgerInv, SettledWhenIdle, Settled, Abandoned
<1>4. ASSUME NEW target \in SUBSET Strategy, BuildContext(target) PROVE LedgerInv'
  BY <1>4 DEF BuildContext, store, TypeOK, RunTypeOK, RunState, Forward, LedgerInv, SettledWhenIdle, Settled, Abandoned
<1>5. ASSUME RecordRequested PROVE LedgerInv'
  BY <1>5 DEF RecordRequested, Inv, TypeOK, RunTypeOK, RunState, Forward, LedgerInv, SettledWhenIdle, Settled, Abandoned
<1>6. ASSUME NEW d \in Domain, SetEdge(d) PROVE LedgerInv'
  BY <1>6 DEF SetEdge, TypeOK, RunTypeOK, RunState, Forward, LedgerInv, SettledWhenIdle, Settled, Abandoned
<1>7. ASSUME NEW d \in Domain, RestoreEdge(d) PROVE LedgerInv'
  BY <1>7 DEF RestoreEdge, TypeOK, RunTypeOK, RunState, Forward, LedgerInv, SettledWhenIdle, Settled, Abandoned
<1>8. ASSUME NEW k \in Key, PickEntry(k) PROVE LedgerInv'
  <2>1. /\ run \in RunState /\ run # None /\ run' \in RunState
        /\ run'.stage = run.stage /\ run'.completed = run.completed /\ run'.active = run.active
    BY <1>8, NoneAssumption DEF PickEntry, TypeOK, RunTypeOK, RunState
  <2> QED
    BY <1>8, <2>1 DEF PickEntry, store, Forward, LedgerInv, SettledWhenIdle, Settled, Abandoned
<1>9. ASSUME StoreEntry PROVE LedgerInv'
  BY <1>9 DEF StoreEntry, TypeOK, RunTypeOK, RunState, Forward, LedgerInv, SettledWhenIdle, Settled, Abandoned
<1>10. ASSUME PublishEntry PROVE LedgerInv'
  BY <1>10 DEF PublishEntry, store, TypeOK, RunTypeOK, RunState, Forward, LedgerInv, SettledWhenIdle, Settled, Abandoned
<1>11. ASSUME EnterFreeze PROVE LedgerInv'
  BY <1>11 DEF EnterFreeze, store, Mark, Goto, LoopDone, TypeOK, RunTypeOK, RunState, Forward, LedgerInv, SettledWhenIdle, Settled, Abandoned
<1>12. ASSUME FreezeDone PROVE LedgerInv'
  BY <1>12 DEF FreezeDone, Goto, LoopDone, TypeOK, RunTypeOK, RunState, Forward, LedgerInv, SettledWhenIdle, Settled, Abandoned
<1>13. ASSUME SwitchDecisions PROVE LedgerInv'
  BY <1>13 DEF SwitchDecisions, Goto, TypeOK, RunTypeOK, RunState, Forward, LedgerInv, SettledWhenIdle, Settled, Abandoned
<1>14. ASSUME RecordSwitch PROVE LedgerInv'
  BY <1>14 DEF RecordSwitch, Mark, Goto, TypeOK, RunTypeOK, RunState, Forward, LedgerInv, SettledWhenIdle, Settled, Abandoned
<1>15. ASSUME NotifyPolicyUpdate PROVE LedgerInv'
  BY <1>15 DEF NotifyPolicyUpdate, store, Mark, Goto, TypeOK, RunTypeOK, RunState, Forward, LedgerInv, SettledWhenIdle, Settled, Abandoned
<1>16. ASSUME UnfreezeDone PROVE LedgerInv'
  BY <1>16 DEF UnfreezeDone, Goto, LoopDone, TypeOK, RunTypeOK, RunState, Forward, LedgerInv, SettledWhenIdle, Settled, Abandoned
<1>17. ASSUME MarkCompleted PROVE LedgerInv'
  BY <1>17 DEF MarkCompleted, store, Goto, LoopDone, TypeOK, RunTypeOK, RunState, Forward, LedgerInv, SettledWhenIdle, Settled, Abandoned
<1>18. ASSUME RecordCompleted PROVE LedgerInv'
  BY <1>18 DEF RecordCompleted, Goto, TypeOK, RunTypeOK, RunState, Forward, LedgerInv, SettledWhenIdle, Settled, Abandoned
<1>19. ASSUME BodyFails PROVE LedgerInv'
  BY <1>19 DEF BodyFails, FailsNow, store, TypeOK, RunTypeOK, RunState, Forward, LedgerInv, SettledWhenIdle, Settled, Abandoned
<1>20. ASSUME Escapes PROVE LedgerInv'
  BY <1>20 DEF UndoSucceeds, Inv, Escapes, FailsNow, store, TypeOK, RunTypeOK, RunState, Forward, LedgerInv, SettledWhenIdle, Settled, Abandoned
<1>21. ASSUME EdgesRestored PROVE LedgerInv'
  BY <1>21 DEF EdgesRestored, store, Goto, LoopDone, TypeOK, RunTypeOK, RunState, Forward, LedgerInv, SettledWhenIdle, Settled, Abandoned
<1>22. ASSUME RestoreActivation PROVE LedgerInv'
  BY <1>22 DEF RestoreActivation, Goto, TypeOK, RunTypeOK, RunState, Forward, LedgerInv, SettledWhenIdle, Settled, Abandoned
<1>23. ASSUME RestoreDecisions PROVE LedgerInv'
  BY <1>23 DEF RestoreDecisions, Goto, TypeOK, RunTypeOK, RunState, Forward, LedgerInv, SettledWhenIdle, Settled, Abandoned
<1>24. ASSUME RecordRolledBack PROVE LedgerInv'
  BY <1>24 DEF RecordRolledBack, Goto, TypeOK, RunTypeOK, RunState, Forward, LedgerInv, SettledWhenIdle, Settled, Abandoned
<1>25. ASSUME RollbackDone PROVE LedgerInv'
  BY <1>25 DEF RollbackDone, store, Goto, LoopDone, TypeOK, RunTypeOK, RunState, Forward, LedgerInv, SettledWhenIdle, Settled, Abandoned
<1>26. ASSUME Crash PROVE LedgerInv'
  BY <1>26 DEF Crash, store, TypeOK, RunTypeOK, RunState, Forward, LedgerInv, SettledWhenIdle, Settled, Abandoned
<1>27. ASSUME UNCHANGED vars PROVE LedgerInv'
  BY <1>27 DEF vars, handler, store, TypeOK, RunTypeOK, RunState, Forward, LedgerInv, SettledWhenIdle, Settled, Abandoned
<1>28. (~\E x \in PutId : Puts(x)) /\ (~\E x \in PostLists : PostDecisions(x))
  OBVIOUS
<1> QED
  BY <1>1, <1>2, <1>3, <1>4, <1>5, <1>6, <1>7, <1>8, <1>9, <1>10, <1>11, <1>12, <1>13, <1>14, <1>15, <1>16, <1>17, <1>18, <1>19, <1>20, <1>21, <1>22, <1>23, <1>24, <1>25, <1>26, <1>27, <1>28 DEF Next, Request, Handler

\* Every step keeps the edge overrides in line.
LEMMA EdgesStep ==
    ASSUME PutId = {}, PostLists = {}, UndoSucceeds
    PROVE  TypeOK /\ Inv /\ WholeInv /\ [Next]_vars => EdgesInv'
<1> SUFFICES ASSUME TypeOK, Inv, WholeInv, [Next]_vars PROVE EdgesInv'
  OBVIOUS
<1> USE DEF WholeInv
<1>1. ASSUME NEW r \in RunId, AckExisting(r) PROVE EdgesInv'
  BY <1>1 DEF AckExisting, Arrives, handler, store, TypeOK, FrameTypeOK, StoreTypeOK, EdgesInv
<1>2. ASSUME NEW r \in RunId, Conflict(r) PROVE EdgesInv'
  BY <1>2 DEF Conflict, Arrives, handler, store, TypeOK, FrameTypeOK, StoreTypeOK, EdgesInv
<1>3. ASSUME NEW r \in RunId, Begin(r) PROVE EdgesInv'
  BY <1>3 DEF Begin, Arrives, store, TypeOK, FrameTypeOK, StoreTypeOK, EdgesInv
<1>4. ASSUME NEW target \in SUBSET Strategy, BuildContext(target) PROVE EdgesInv'
  BY <1>4 DEF BuildContext, store, TypeOK, FrameTypeOK, StoreTypeOK, EdgesInv
<1>5. ASSUME RecordRequested PROVE EdgesInv'
  BY <1>5 DEF RecordRequested, TypeOK, FrameTypeOK, StoreTypeOK, EdgesInv
<1>6. ASSUME NEW d \in Domain, SetEdge(d) PROVE EdgesInv'
  BY <1>6 DEF SetEdge, TypeOK, FrameTypeOK, StoreTypeOK, EdgesInv
<1>7. ASSUME NEW d \in Domain, RestoreEdge(d) PROVE EdgesInv'
  BY <1>7 DEF RestoreEdge, TypeOK, FrameTypeOK, StoreTypeOK, EdgesInv
<1>8. ASSUME NEW k \in Key, PickEntry(k) PROVE EdgesInv'
  BY <1>8 DEF PickEntry, store, TypeOK, FrameTypeOK, StoreTypeOK, EdgesInv
<1>9. ASSUME StoreEntry PROVE EdgesInv'
  BY <1>9 DEF StoreEntry, TypeOK, FrameTypeOK, StoreTypeOK, EdgesInv
<1>10. ASSUME PublishEntry PROVE EdgesInv'
  BY <1>10 DEF PublishEntry, store, TypeOK, FrameTypeOK, StoreTypeOK, EdgesInv
<1>11. ASSUME EnterFreeze PROVE EdgesInv'
  BY <1>11 DEF EnterFreeze, store, Mark, Goto, LoopDone, TypeOK, FrameTypeOK, StoreTypeOK, EdgesInv
<1>12. ASSUME FreezeDone PROVE EdgesInv'
  BY <1>12 DEF FreezeDone, Goto, LoopDone, TypeOK, FrameTypeOK, StoreTypeOK, EdgesInv
<1>13. ASSUME SwitchDecisions PROVE EdgesInv'
  BY <1>13 DEF SwitchDecisions, Goto, TypeOK, FrameTypeOK, StoreTypeOK, EdgesInv
<1>14. ASSUME RecordSwitch PROVE EdgesInv'
  BY <1>14 DEF RecordSwitch, Mark, Goto, TypeOK, FrameTypeOK, StoreTypeOK, EdgesInv
<1>15. ASSUME NotifyPolicyUpdate PROVE EdgesInv'
  BY <1>15 DEF NotifyPolicyUpdate, store, Mark, Goto, TypeOK, FrameTypeOK, StoreTypeOK, EdgesInv
<1>16. ASSUME UnfreezeDone PROVE EdgesInv'
  BY <1>16 DEF UnfreezeDone, Goto, LoopDone, TypeOK, FrameTypeOK, StoreTypeOK, EdgesInv
<1>17. ASSUME MarkCompleted PROVE EdgesInv'
  BY <1>17 DEF MarkCompleted, store, Goto, LoopDone, TypeOK, FrameTypeOK, StoreTypeOK, EdgesInv
<1>18. ASSUME RecordCompleted PROVE EdgesInv'
  BY <1>18 DEF RecordCompleted, Goto, TypeOK, FrameTypeOK, StoreTypeOK, EdgesInv
<1>19. ASSUME BodyFails PROVE EdgesInv'
  BY <1>19 DEF BodyFails, FailsNow, store, TypeOK, FrameTypeOK, StoreTypeOK, EdgesInv
<1>20. ASSUME Escapes PROVE EdgesInv'
  BY <1>20 DEF Escapes, FailsNow, store, TypeOK, FrameTypeOK, StoreTypeOK, EdgesInv
<1>21. ASSUME EdgesRestored PROVE EdgesInv'
  BY <1>21 DEF EdgesRestored, store, Goto, LoopDone, TypeOK, FrameTypeOK, StoreTypeOK, EdgesInv
<1>22. ASSUME RestoreActivation PROVE EdgesInv'
  BY <1>22 DEF RestoreActivation, Goto, TypeOK, FrameTypeOK, StoreTypeOK, EdgesInv
<1>23. ASSUME RestoreDecisions PROVE EdgesInv'
  BY <1>23 DEF RestoreDecisions, Goto, TypeOK, FrameTypeOK, StoreTypeOK, EdgesInv
<1>24. ASSUME RecordRolledBack PROVE EdgesInv'
  BY <1>24 DEF RecordRolledBack, Goto, TypeOK, FrameTypeOK, StoreTypeOK, EdgesInv
<1>25. ASSUME RollbackDone PROVE EdgesInv'
  BY <1>25 DEF RollbackDone, store, Goto, LoopDone, TypeOK, FrameTypeOK, StoreTypeOK, EdgesInv
<1>26. ASSUME Crash PROVE EdgesInv'
  BY <1>26 DEF Crash, store, TypeOK, FrameTypeOK, StoreTypeOK, EdgesInv
<1>27. ASSUME UNCHANGED vars PROVE EdgesInv'
  BY <1>27 DEF vars, handler, store, TypeOK, FrameTypeOK, StoreTypeOK, EdgesInv
<1>28. (~\E x \in PutId : Puts(x)) /\ (~\E x \in PostLists : PostDecisions(x))
  OBVIOUS
<1> QED
  BY <1>1, <1>2, <1>3, <1>4, <1>5, <1>6, <1>7, <1>8, <1>9, <1>10, <1>11, <1>12, <1>13, <1>14, <1>15, <1>16, <1>17, <1>18, <1>19, <1>20, <1>21, <1>22, <1>23, <1>24, <1>25, <1>26, <1>27, <1>28 DEF Next, Request, Handler

\* Every step keeps the visited entries open and adds none but the target's.
LEMMA OpenStep ==
    ASSUME PutId = {}, PostLists = {}, UndoSucceeds
    PROVE  TypeOK /\ Inv /\ WholeInv /\ [Next]_vars => OpenInv'
<1> SUFFICES ASSUME TypeOK, Inv, WholeInv, [Next]_vars PROVE OpenInv'
  OBVIOUS
<1> USE DEF WholeInv
<1>1. ASSUME NEW r \in RunId, AckExisting(r) PROVE OpenInv'
  BY <1>1 DEF AckExisting, Arrives, handler, store, TypeOK, FrameTypeOK, OpenInv, AllOpen
<1>2. ASSUME NEW r \in RunId, Conflict(r) PROVE OpenInv'
  BY <1>2 DEF Conflict, Arrives, handler, store, TypeOK, FrameTypeOK, OpenInv, AllOpen
<1>3. ASSUME NEW r \in RunId, Begin(r) PROVE OpenInv'
  BY <1>3 DEF Begin, Arrives, store, TypeOK, FrameTypeOK, OpenInv, AllOpen
<1>4. ASSUME NEW target \in SUBSET Strategy, BuildContext(target) PROVE OpenInv'
  BY <1>4 DEF BuildContext, store, TypeOK, FrameTypeOK, OpenInv, AllOpen
<1>5. ASSUME RecordRequested PROVE OpenInv'
  BY <1>5 DEF RecordRequested, TypeOK, FrameTypeOK, OpenInv, AllOpen
<1>6. ASSUME NEW d \in Domain, SetEdge(d) PROVE OpenInv'
  BY <1>6 DEF SetEdge, TypeOK, FrameTypeOK, OpenInv, AllOpen
<1>7. ASSUME NEW d \in Domain, RestoreEdge(d) PROVE OpenInv'
  BY <1>7 DEF RestoreEdge, TypeOK, FrameTypeOK, OpenInv, AllOpen
<1>8. ASSUME NEW k \in Key, PickEntry(k) PROVE OpenInv'
  BY <1>8 DEF PickEntry, store, TypeOK, FrameTypeOK, OpenInv, AllOpen
<1>9. ASSUME StoreEntry PROVE OpenInv'
  <2> DEFINE a == EntryValue.active
             f == EntryValue.frozen
             keys == UnfreezeKeys(ctx.snap, ctx.target)
  <2>1. loaded = doc /\ doc \in Document /\ cur \in Key /\ cur \in todo /\ ctx.run \in RunId
    BY <1>9 DEF StoreEntry, Inv, TypeOK, RunTypeOK, FrameTypeOK, StoreTypeOK, Context
  <2>2. a \in BOOLEAN /\ f \in BOOLEAN /\ (pc = "unfreeze" => ~f /\ a = (cur[1] \in ctx.target))
    <3>1. a = (pc = "unfreeze" /\ cur[1] \in ctx.target) /\ f = (pc # "unfreeze")
      BY DEF EntryValue
    <3> HIDE DEF a, f
    <3>2. CASE pc = "unfreeze"
      <4>1. CASE cur[1] \in ctx.target
        BY <3>1, <3>2, <4>1
      <4>2. CASE cur[1] \notin ctx.target
        <5>1. a = FALSE /\ f = FALSE
          BY <3>1, <3>2, <4>2
        <5>2. (cur[1] \in ctx.target) = FALSE
          BY <4>2
        <5> QED
          BY <5>1, <5>2, Zenon
      <4> QED
        BY <4>1, <4>2
    <3>3. CASE pc # "unfreeze"
      BY <3>1, <3>3, Zenon
    <3> QED
      BY <3>2, <3>3
  <2> HIDE DEF a, f
  <2>3. doc' = Updated(doc, cur, a, f, ctx.run)
    BY <1>9, <2>1 DEF StoreEntry, a, f
  <2>4. /\ Present(doc') = Present(doc) \cup {cur}
        /\ doc'.state[cur].active = a /\ doc'.state[cur].frozen = f
        /\ \A j \in Key : j # cur => doc'.state[j] = doc.state[j]
    BY <2>1, <2>2, <2>3, UpdatedEntry
  <2>5. pc = "unfreeze" => Open(doc'.state[cur], ctx.target, cur[1])
    BY <2>2, <2>4 DEF Open
  <2> HIDE DEF keys
  <2>6. pc = "unfreeze" => \A k \in keys \ todo : k \in Key /\ k # cur
    BY <2>1 DEF OpenInv, keys, Present
  <2>7. pc = "unfreeze" => \A k \in keys \ todo : Open(doc'.state[k], ctx.target, k[1])
    BY <2>4, <2>6 DEF OpenInv, AllOpen, keys
  <2> QED
    BY <1>9, <2>1, <2>4, <2>5, <2>7 DEF StoreEntry, OpenInv, AllOpen, keys
<1>10. ASSUME PublishEntry PROVE OpenInv'
  BY <1>10 DEF PublishEntry, store, TypeOK, FrameTypeOK, OpenInv, AllOpen
<1>11. ASSUME EnterFreeze PROVE OpenInv'
  BY <1>11 DEF EnterFreeze, store, Mark, Goto, LoopDone, TypeOK, FrameTypeOK, OpenInv, AllOpen
<1>12. ASSUME FreezeDone PROVE OpenInv'
  BY <1>12 DEF FreezeDone, Goto, LoopDone, Inv, TypeOK, FrameTypeOK, OpenInv, AllOpen
<1>13. ASSUME SwitchDecisions PROVE OpenInv'
  BY <1>13 DEF SwitchDecisions, Goto, TypeOK, FrameTypeOK, OpenInv, AllOpen
<1>14. ASSUME RecordSwitch PROVE OpenInv'
  BY <1>14 DEF RecordSwitch, Mark, Goto, TypeOK, FrameTypeOK, OpenInv, AllOpen
<1>15. ASSUME NotifyPolicyUpdate PROVE OpenInv'
  BY <1>15 DEF NotifyPolicyUpdate, store, Mark, Goto, UnfreezeKeys, TypeOK, FrameTypeOK, OpenInv, AllOpen
<1>16. ASSUME UnfreezeDone PROVE OpenInv'
  BY <1>16 DEF UnfreezeDone, Goto, LoopDone, TypeOK, FrameTypeOK, OpenInv, AllOpen
<1>17. ASSUME MarkCompleted PROVE OpenInv'
  BY <1>17 DEF MarkCompleted, store, Goto, LoopDone, TypeOK, FrameTypeOK, OpenInv, AllOpen
<1>18. ASSUME RecordCompleted PROVE OpenInv'
  BY <1>18 DEF RecordCompleted, Goto, TypeOK, FrameTypeOK, OpenInv, AllOpen
<1>19. ASSUME BodyFails PROVE OpenInv'
  BY <1>19 DEF BodyFails, FailsNow, store, TypeOK, FrameTypeOK, OpenInv, AllOpen
<1>20. ASSUME Escapes PROVE OpenInv'
  BY <1>20 DEF Escapes, FailsNow, store, TypeOK, FrameTypeOK, OpenInv, AllOpen
<1>21. ASSUME EdgesRestored PROVE OpenInv'
  BY <1>21 DEF EdgesRestored, store, Goto, LoopDone, TypeOK, FrameTypeOK, OpenInv, AllOpen
<1>22. ASSUME RestoreActivation PROVE OpenInv'
  BY <1>22 DEF RestoreActivation, Goto, TypeOK, FrameTypeOK, OpenInv, AllOpen
<1>23. ASSUME RestoreDecisions PROVE OpenInv'
  BY <1>23 DEF RestoreDecisions, Goto, TypeOK, FrameTypeOK, OpenInv, AllOpen
<1>24. ASSUME RecordRolledBack PROVE OpenInv'
  BY <1>24 DEF RecordRolledBack, Goto, TypeOK, FrameTypeOK, OpenInv, AllOpen
<1>25. ASSUME RollbackDone PROVE OpenInv'
  BY <1>25 DEF RollbackDone, store, Goto, LoopDone, TypeOK, FrameTypeOK, OpenInv, AllOpen
<1>26. ASSUME Crash PROVE OpenInv'
  BY <1>26 DEF Crash, store, TypeOK, FrameTypeOK, OpenInv, AllOpen
<1>27. ASSUME UNCHANGED vars PROVE OpenInv'
  BY <1>27 DEF vars, handler, store, TypeOK, FrameTypeOK, OpenInv, AllOpen
<1>28. (~\E x \in PutId : Puts(x)) /\ (~\E x \in PostLists : PostDecisions(x))
  OBVIOUS
<1> QED
  BY <1>1, <1>2, <1>3, <1>4, <1>5, <1>6, <1>7, <1>8, <1>9, <1>10, <1>11, <1>12, <1>13, <1>14, <1>15, <1>16, <1>17, <1>18, <1>19, <1>20, <1>21, <1>22, <1>23, <1>24, <1>25, <1>26, <1>27, <1>28 DEF Next, Request, Handler

\* A completed run has been applied, and nothing undoes it while the lock is free.
LEMMA AppliedStep ==
    ASSUME PutId = {}, PostLists = {}, UndoSucceeds
    PROVE  TypeOK /\ Inv /\ WholeInv /\ [Next]_vars => AppliedInv'
<1> SUFFICES ASSUME TypeOK, Inv, WholeInv, [Next]_vars PROVE AppliedInv'
  OBVIOUS
<1> USE DEF WholeInv
<1>1. ASSUME NEW r \in RunId, AckExisting(r) PROVE AppliedInv'
  BY <1>1 DEF AckExisting, Arrives, handler, store, TypeOK, RunTypeOK, RunState, LedgerInv, Forward, AppliedInv, Applied
<1>2. ASSUME NEW r \in RunId, Conflict(r) PROVE AppliedInv'
  BY <1>2 DEF Conflict, Arrives, handler, store, TypeOK, RunTypeOK, RunState, LedgerInv, Forward, AppliedInv, Applied
<1>3. ASSUME NEW r \in RunId, Begin(r) PROVE AppliedInv'
  BY <1>3 DEF Begin, Arrives, store, TypeOK, RunTypeOK, RunState, LedgerInv, Forward, AppliedInv, Applied
<1>4. ASSUME NEW target \in SUBSET Strategy, BuildContext(target) PROVE AppliedInv'
  BY <1>4 DEF BuildContext, store, TypeOK, RunTypeOK, RunState, LedgerInv, Forward, AppliedInv, Applied
<1>5. ASSUME RecordRequested PROVE AppliedInv'
  BY <1>5 DEF RecordRequested, TypeOK, RunTypeOK, RunState, LedgerInv, Forward, AppliedInv, Applied
<1>6. ASSUME NEW d \in Domain, SetEdge(d) PROVE AppliedInv'
  BY <1>6 DEF SetEdge, TypeOK, RunTypeOK, RunState, LedgerInv, Forward, AppliedInv, Applied
<1>7. ASSUME NEW d \in Domain, RestoreEdge(d) PROVE AppliedInv'
  BY <1>7 DEF RestoreEdge, TypeOK, RunTypeOK, RunState, LedgerInv, Forward, AppliedInv, Applied
<1>8. ASSUME NEW k \in Key, PickEntry(k) PROVE AppliedInv'
  BY <1>8 DEF PickEntry, store, TypeOK, RunTypeOK, RunState, LedgerInv, Forward, AppliedInv, Applied
<1>9. ASSUME StoreEntry PROVE AppliedInv'
  BY <1>9 DEF StoreEntry, TypeOK, RunTypeOK, RunState, LedgerInv, Forward, AppliedInv, Applied
<1>10. ASSUME PublishEntry PROVE AppliedInv'
  BY <1>10 DEF PublishEntry, store, TypeOK, RunTypeOK, RunState, LedgerInv, Forward, AppliedInv, Applied
<1>11. ASSUME EnterFreeze PROVE AppliedInv'
  BY <1>11 DEF EnterFreeze, store, Mark, Goto, LoopDone, TypeOK, RunTypeOK, RunState, LedgerInv, Forward, AppliedInv, Applied
<1>12. ASSUME FreezeDone PROVE AppliedInv'
  BY <1>12 DEF FreezeDone, Goto, LoopDone, TypeOK, RunTypeOK, RunState, LedgerInv, Forward, AppliedInv, Applied
<1>13. ASSUME SwitchDecisions PROVE AppliedInv'
  BY <1>13 DEF SwitchDecisions, Goto, TypeOK, RunTypeOK, RunState, LedgerInv, Forward, AppliedInv, Applied
<1>14. ASSUME RecordSwitch PROVE AppliedInv'
  BY <1>14 DEF RecordSwitch, Mark, Goto, TypeOK, RunTypeOK, RunState, LedgerInv, Forward, AppliedInv, Applied
<1>15. ASSUME NotifyPolicyUpdate PROVE AppliedInv'
  BY <1>15 DEF NotifyPolicyUpdate, store, Mark, Goto, TypeOK, RunTypeOK, RunState, LedgerInv, Forward, AppliedInv, Applied
<1>16. ASSUME UnfreezeDone PROVE AppliedInv'
  BY <1>16 DEF UnfreezeDone, Goto, LoopDone, TypeOK, RunTypeOK, RunState, LedgerInv, Forward, AppliedInv, Applied
<1>17. ASSUME MarkCompleted PROVE AppliedInv'
  BY <1>17 DEF MarkCompleted, store, Goto, LoopDone, TypeOK, RunTypeOK, RunState, LedgerInv, Forward, AppliedInv, Applied
<1>18. ASSUME RecordCompleted PROVE AppliedInv'
  <2>1. /\ run \in RunState /\ run.completed /\ run.active = ctx.target
        /\ decisions = ctx.target /\ ctx.target \subseteq Strategy
    BY <1>18 DEF RecordCompleted, TypeOK, RunTypeOK, LedgerInv, Forward, Context
  <2>2. /\ Present(doc) = UnfreezeKeys(ctx.snap, ctx.target)
        /\ \A k \in Present(doc) : Open(doc.state[k], ctx.target, k[1])
    BY <1>18 DEF RecordCompleted, OpenInv, AllOpen
  <2>3. \A s \in ctx.target : \E k \in Present(doc) : k[1] = s
    <3>1. SUFFICES ASSUME NEW s \in ctx.target
                   PROVE  \E k \in UnfreezeKeys(ctx.snap, ctx.target) : k[1] = s
      BY <2>2
    <3>2. CASE \E k \in Present(ctx.snap) : k[1] = s
      BY <3>2 DEF UnfreezeKeys
    <3>3. CASE \A k \in Present(ctx.snap) : k[1] # s
      <4>1. <<s, "long">> \in UnfreezeKeys(ctx.snap, ctx.target)
        BY <3>3 DEF UnfreezeKeys
      <4> QED
        BY <4>1
    <3> QED
      BY <3>2, <3>3
  <2>4. \A d \in Domain : /\ d \in PostEnable => edges[d] = "on"
                          /\ d \in PreDisable \ PostEnable => edges[d] = "off"
    BY <1>18 DEF RecordCompleted, EdgesInv
  <2> QED
    <3>1. Applied(run.active)
      <4>1. Applied(ctx.target)
        BY <2>1, <2>2, <2>3, <2>4, Zenon DEF Applied
      <4> QED
        BY <2>1, <4>1
    <3>2. UNCHANGED <<run, doc, decisions, edges>>
      BY <1>18 DEF RecordCompleted
    <3>3. Applied(run.active)'
      BY <3>1, <3>2 DEF Applied
    <3> QED
      BY <3>3 DEF AppliedInv
<1>19. ASSUME BodyFails PROVE AppliedInv'
  BY <1>19 DEF BodyFails, FailsNow, store, TypeOK, RunTypeOK, RunState, LedgerInv, Forward, AppliedInv, Applied
<1>20. ASSUME Escapes PROVE AppliedInv'
  BY <1>20 DEF UndoSucceeds, Escapes, FailsNow, store, TypeOK, RunTypeOK, RunState, LedgerInv, Forward, AppliedInv, Applied
<1>21. ASSUME EdgesRestored PROVE AppliedInv'
  BY <1>21 DEF EdgesRestored, store, Goto, LoopDone, TypeOK, RunTypeOK, RunState, LedgerInv, Forward, AppliedInv, Applied
<1>22. ASSUME RestoreActivation PROVE AppliedInv'
  BY <1>22 DEF RestoreActivation, Goto, TypeOK, RunTypeOK, RunState, LedgerInv, Forward, AppliedInv, Applied
<1>23. ASSUME RestoreDecisions PROVE AppliedInv'
  BY <1>23 DEF RestoreDecisions, Goto, TypeOK, RunTypeOK, RunState, LedgerInv, Forward, AppliedInv, Applied
<1>24. ASSUME RecordRolledBack PROVE AppliedInv'
  BY <1>24 DEF RecordRolledBack, Goto, TypeOK, RunTypeOK, RunState, LedgerInv, Forward, AppliedInv, Applied
<1>25. ASSUME RollbackDone PROVE AppliedInv'
  BY <1>25 DEF RollbackDone, store, Goto, LoopDone, TypeOK, RunTypeOK, RunState, LedgerInv, Forward, AppliedInv, Applied
<1>26. ASSUME Crash PROVE AppliedInv'
  BY <1>26 DEF Crash, store, TypeOK, RunTypeOK, RunState, LedgerInv, Forward, AppliedInv, Applied
<1>27. ASSUME UNCHANGED vars PROVE AppliedInv'
  BY <1>27 DEF vars, handler, store, TypeOK, RunTypeOK, RunState, LedgerInv, Forward, AppliedInv, Applied
<1>28. (~\E x \in PutId : Puts(x)) /\ (~\E x \in PostLists : PostDecisions(x))
  OBVIOUS
<1> QED
  BY <1>1, <1>2, <1>3, <1>4, <1>5, <1>6, <1>7, <1>8, <1>9, <1>10, <1>11, <1>12, <1>13, <1>14, <1>15, <1>16, <1>17, <1>18, <1>19, <1>20, <1>21, <1>22, <1>23, <1>24, <1>25, <1>26, <1>27, <1>28 DEF Next, Request, Handler

\* A run that is over has been applied as a whole, or rolled back, or has not touched
\* the world: what whoever takes the world's lock next finds.
THEOREM SettledAlways ==
    ASSUME PutId = {}, PostLists = {}, UndoSucceeds
    PROVE  Spec => []SettledWhenIdle
<1>1. WholeInv => SettledWhenIdle
  BY DEF WholeInv, LedgerInv
<1>2. TypeOK /\ Inv /\ WholeInv /\ [Next]_vars => WholeInv'
  BY LedgerStep, EdgesStep, OpenStep, AppliedStep DEF WholeInv
<1> QED
  BY <1>1, <1>2, TypeInit, TypeStep, InvInit, InvStep, WholeInit, PTL DEF Spec

\* A completed run has taken effect as a whole: ApplyCoordinator.apply sets completed
\* only behind the switch, both edge loops and the whole of unfreeze_world.
THEOREM CompletedAlwaysApplied ==
    ASSUME PutId = {}, PostLists = {}, UndoSucceeds
    PROVE  Spec => []CompletedIsApplied
<1>1. WholeInv => CompletedIsApplied
  BY DEF WholeInv, AppliedInv, Applied, Open, CompletedIsApplied
<1>2. TypeOK /\ Inv /\ WholeInv /\ [Next]_vars => WholeInv'
  BY LedgerStep, EdgesStep, OpenStep, AppliedStep DEF WholeInv
<1> QED
  BY <1>1, <1>2, TypeInit, TypeStep, InvInit, InvStep, WholeInit, PTL DEF Spec

-----------------------------------------------------------------------------
(***************************************************************************)
(* The audit log and the bus.  These two results need no assumption: requests *)
(* beside apply, failures anywhere and crashes are all allowed.               *)
(***************************************************************************)

\* The audit log ends with a record of the run at hand, in one of the stages.
EndsWith(stages) ==
    /\ audit # <<>>
    /\ audit[Len(audit)].run = ctx.run
    /\ audit[Len(audit)].stage \in stages

\* What record_apply_stage has written last, at each point of the coroutine.
TimeInv ==
    /\ pc \in {"pre", "freeze"} => EndsWith({"requested"})
    /\ pc \in {"switch", "switched"} => EndsWith({"freeze"})
    /\ pc \in {"policy", "unfreeze"} => EndsWith({"switch"})
    /\ pc \in {"post", "complete"} => EndsWith({"unfreeze"})
    /\ pc \in {"restore_edges", "restore_act", "restore_dec", "restore_rec"} =>
         EndsWith({"requested", "freeze", "switch", "unfreeze"})

\* record_apply_stage appends: the earlier records stay where they are.
LEMMA RecordAppends ==
    ASSUME TypeOK, NEW stage \in Stage, ctx \in Context, Record(stage)
    PROVE  /\ audit' \in Seq([run : RunId, stage : Stage])
           /\ Len(audit') = Len(audit) + 1
           /\ audit'[Len(audit')] = [run |-> ctx.run, stage |-> stage]
           /\ \A i \in 1 .. Len(audit) : audit'[i] = audit[i]
<1>1. audit \in Seq([run : RunId, stage : Stage])
  BY DEF TypeOK, StoreTypeOK
<1>2. [run |-> ctx.run, stage |-> stage] \in [run : RunId, stage : Stage]
  BY DEF Context
<1> QED
  BY <1>1, <1>2 DEF Record

\* The record of a stage is the last one of the log.
LEMMA RecordIsLast ==
    ASSUME TypeOK, NEW stage \in Stage, ctx \in Context, Record(stage), ctx' = ctx
    PROVE  EndsWith({stage})'
<1> DEFINE rec == [run : RunId, stage : Stage]
<1>1. audit \in Seq(rec)
  BY DEF TypeOK, StoreTypeOK
<1>2. /\ audit' \in Seq(rec) /\ Len(audit') = Len(audit) + 1
      /\ audit'[Len(audit')] = [run |-> ctx.run, stage |-> stage]
  BY RecordAppends
<1> HIDE DEF rec
<1>3. audit' # <<>>
  BY <1>1, <1>2
<1> QED
  BY <1>2, <1>3 DEF EndsWith

\* A record that opens a run, or follows a record of its run in stage order, extends
\* the timeline.
LEMMA TimelineGrows ==
    ASSUME TypeOK, AuditTimeline, NEW stage \in Stage, ctx \in Context, Record(stage),
           \/ stage = "requested"
           \/ \E stages \in SUBSET Stage :
                /\ EndsWith(stages)
                /\ \A s \in stages : <<s, stage>> \in StageOrder
    PROVE  AuditTimeline'
<1> DEFINE n == Len(audit)
<1>1. /\ audit \in Seq([run : RunId, stage : Stage]) /\ n \in Nat
      /\ audit' \in Seq([run : RunId, stage : Stage])
  <2> DEFINE rec == [run : RunId, stage : Stage]
  <2>1. audit \in Seq(rec)
    BY DEF TypeOK, StoreTypeOK
  <2>2. audit' \in Seq(rec)
    BY RecordAppends
  <2> HIDE DEF rec
  <2>3. n \in Nat
    BY <2>1
  <2> QED
    BY <2>1, <2>2, <2>3 DEF rec
<1>2. /\ Len(audit') = n + 1
      /\ audit'[n + 1] = [run |-> ctx.run, stage |-> stage]
      /\ \A i \in 1 .. n : audit'[i] = audit[i]
  BY RecordAppends
<1>3. SUFFICES ASSUME NEW i \in 1 .. n + 1, audit'[i].stage # "requested"
               PROVE  /\ i > 1
                      /\ audit'[i - 1].run = audit'[i].run
                      /\ <<audit'[i - 1].stage, audit'[i].stage>> \in StageOrder
  BY <1>1, <1>2 DEF AuditTimeline
<1>4. CASE i = n + 1
  <2>1. stage # "requested"
    BY <1>2, <1>3, <1>4
  <2>2. PICK stages \in SUBSET Stage : EndsWith(stages) /\ \A s \in stages : <<s, stage>> \in StageOrder
    BY <2>1
  <2>3. n # 0 /\ audit[n].run = ctx.run /\ audit[n].stage \in stages
    BY <1>1, <2>2 DEF EndsWith
  <2>4. i - 1 = n /\ i > 1 /\ n \in 1 .. n
    BY <1>1, <1>4, <2>3
  <2> QED
    BY <1>2, <1>4, <2>2, <2>3, <2>4
<1>5. CASE i # n + 1
  <2>1. i \in 1 .. n
    BY <1>1, <1>5
  <2>2. i \in DOMAIN audit /\ audit'[i] = audit[i]
    BY <1>1, <1>2, <2>1
  <2>3. i > 1 /\ audit[i - 1].run = audit[i].run /\ <<audit[i - 1].stage, audit[i].stage>> \in StageOrder
    BY <1>3, <2>2 DEF AuditTimeline
  <2>4. i - 1 \in 1 .. n
    BY <1>1, <2>1, <2>3
  <2> QED
    BY <1>2, <2>2, <2>3, <2>4
<1> QED
  BY <1>4, <1>5

\* Every stage of apply records its run behind the stage before it, and no failure,
\* crash or other request writes to the log.
LEMMA TimeStep == TypeOK /\ TimeInv /\ AuditTimeline /\ [Next]_vars => TimeInv' /\ AuditTimeline'
<1> SUFFICES ASSUME TypeOK, TimeInv, AuditTimeline, [Next]_vars PROVE TimeInv' /\ AuditTimeline'
  OBVIOUS
<1>1. ASSUME NEW r \in RunId, AckExisting(r) PROVE TimeInv' /\ AuditTimeline'
  BY <1>1 DEF AckExisting, Arrives, handler, store, TimeInv, EndsWith, AuditTimeline
<1>2. ASSUME NEW r \in RunId, Conflict(r) PROVE TimeInv' /\ AuditTimeline'
  BY <1>2 DEF Conflict, Arrives, handler, store, TimeInv, EndsWith, AuditTimeline
<1>3. ASSUME NEW r \in RunId, Begin(r) PROVE TimeInv' /\ AuditTimeline'
  BY <1>3 DEF Begin, Arrives, store, TimeInv, EndsWith, AuditTimeline
<1>4. ASSUME NEW target \in SUBSET Strategy, BuildContext(target) PROVE TimeInv' /\ AuditTimeline'
  BY <1>4 DEF BuildContext, store, TimeInv, EndsWith, AuditTimeline
<1>5. ASSUME RecordRequested PROVE TimeInv' /\ AuditTimeline'
  <2>1. ctx \in Context /\ pc = "requested" /\ Record("requested") /\ "requested" \in Stage
    BY <1>5 DEF RecordRequested, TypeOK, RunTypeOK, Stage
  <2>4. AuditTimeline'
    BY <2>1, TimelineGrows
  <2>5. ctx' = ctx /\ EndsWith({"requested"})'
    <3>1. ctx' = ctx
      BY <1>5 DEF RecordRequested
    <3> QED
      BY <2>1, <3>1, RecordIsLast
  <2> QED
    BY <1>5, <2>4, <2>5 DEF RecordRequested, TimeInv
<1>6. ASSUME NEW d \in Domain, SetEdge(d) PROVE TimeInv' /\ AuditTimeline'
  BY <1>6 DEF SetEdge, TimeInv, EndsWith, AuditTimeline
<1>7. ASSUME NEW d \in Domain, RestoreEdge(d) PROVE TimeInv' /\ AuditTimeline'
  BY <1>7 DEF RestoreEdge, TimeInv, EndsWith, AuditTimeline
<1>8. ASSUME NEW k \in Key, PickEntry(k) PROVE TimeInv' /\ AuditTimeline'
  BY <1>8 DEF PickEntry, store, TimeInv, EndsWith, AuditTimeline
<1>9. ASSUME StoreEntry PROVE TimeInv' /\ AuditTimeline'
  BY <1>9 DEF StoreEntry, TimeInv, EndsWith, AuditTimeline
<1>10. ASSUME PublishEntry PROVE TimeInv' /\ AuditTimeline'
  BY <1>10 DEF PublishEntry, store, TimeInv, EndsWith, AuditTimeline
<1>11. ASSUME EnterFreeze PROVE TimeInv' /\ AuditTimeline'
  BY <1>11 DEF EnterFreeze, store, Mark, Goto, LoopDone, TimeInv, EndsWith, AuditTimeline
<1>12. ASSUME FreezeDone PROVE TimeInv' /\ AuditTimeline'
  <2>1. ctx \in Context /\ pc = "freeze" /\ Record("freeze") /\ "freeze" \in Stage
    BY <1>12 DEF FreezeDone, TypeOK, RunTypeOK, Stage
  <2>2. EndsWith({"requested"}) /\ {"requested"} \in SUBSET Stage
    BY <2>1 DEF TimeInv, Stage
  <2>3. \A s \in {"requested"} : <<s, "freeze">> \in StageOrder
    BY DEF StageOrder
  <2>4. AuditTimeline'
    BY <2>1, <2>2, <2>3, TimelineGrows
  <2>5. ctx' = ctx /\ EndsWith({"freeze"})'
    <3>1. ctx' = ctx
      BY <1>12 DEF FreezeDone, Goto, LoopDone
    <3> QED
      BY <2>1, <3>1, RecordIsLast
  <2> QED
    BY <1>12, <2>4, <2>5 DEF FreezeDone, Goto, LoopDone, TimeInv
<1>13. ASSUME SwitchDecisions PROVE TimeInv' /\ AuditTimeline'
  BY <1>13 DEF SwitchDecisions, Goto, TimeInv, EndsWith, AuditTimeline
<1>14. ASSUME RecordSwitch PROVE TimeInv' /\ AuditTimeline'
  <2>1. ctx \in Context /\ pc = "switched" /\ Record("switch") /\ "switch" \in Stage
    BY <1>14 DEF RecordSwitch, TypeOK, RunTypeOK, Stage
  <2>2. EndsWith({"freeze"}) /\ {"freeze"} \in SUBSET Stage
    BY <2>1 DEF TimeInv, Stage
  <2>3. \A s \in {"freeze"} : <<s, "switch">> \in StageOrder
    BY DEF StageOrder
  <2>4. AuditTimeline'
    BY <2>1, <2>2, <2>3, TimelineGrows
  <2>5. ctx' = ctx /\ EndsWith({"switch"})'
    <3>1. ctx' = ctx
      BY <1>14 DEF RecordSwitch, Mark, Goto
    <3> QED
      BY <2>1, <3>1, RecordIsLast
  <2> QED
    BY <1>14, <2>4, <2>5 DEF RecordSwitch, Mark, Goto, TimeInv
<1>15. ASSUME NotifyPolicyUpdate PROVE TimeInv' /\ AuditTimeline'
  BY <1>15 DEF NotifyPolicyUpdate, store, Mark, Goto, TimeInv, EndsWith, AuditTimeline
<1>16. ASSUME UnfreezeDone PROVE TimeInv' /\ AuditTimeline'
  <2>1. ctx \in Context /\ pc = "unfreeze" /\ Record("unfreeze") /\ "unfreeze" \in Stage
    BY <1>16 DEF UnfreezeDone, TypeOK, RunTypeOK, Stage
  <2>2. EndsWith({"switch"}) /\ {"switch"} \in SUBSET Stage
    BY <2>1 DEF TimeInv, Stage
  <2>3. \A s \in {"switch"} : <<s, "unfreeze">> \in StageOrder
    BY DEF StageOrder
  <2>4. AuditTimeline'
    BY <2>1, <2>2, <2>3, TimelineGrows
  <2>5. ctx' = ctx /\ EndsWith({"unfreeze"})'
    <3>1. ctx' = ctx
      BY <1>16 DEF UnfreezeDone, Goto, LoopDone
    <3> QED
      BY <2>1, <3>1, RecordIsLast
  <2> QED
    BY <1>16, <2>4, <2>5 DEF UnfreezeDone, Goto, LoopDone, TimeInv
<1>17. ASSUME MarkCompleted PROVE TimeInv' /\ AuditTimeline'
  BY <1>17 DEF MarkCompleted, store, Goto, LoopDone, TimeInv, EndsWith, AuditTimeline
<1>18. ASSUME RecordCompleted PROVE TimeInv' /\ AuditTimeline'
  <2>1. ctx \in Context /\ pc = "complete" /\ Record("completed") /\ "completed" \in Stage
    BY <1>18 DEF RecordCompleted, TypeOK, RunTypeOK, Stage
  <2>2. EndsWith({"unfreeze"}) /\ {"unfreeze"} \in SUBSET Stage
    BY <2>1 DEF TimeInv, Stage
  <2>3. \A s \in {"unfreeze"} : <<s, "completed">> \in StageOrder
    BY DEF StageOrder
  <2>4. AuditTimeline'
    BY <2>1, <2>2, <2>3, TimelineGrows
  <2>5. ctx' = ctx /\ EndsWith({"completed"})'
    <3>1. ctx' = ctx
      BY <1>18 DEF RecordCompleted, Goto
    <3> QED
      BY <2>1, <3>1, RecordIsLast
  <2> QED
    BY <1>18, <2>4, <2>5 DEF RecordCompleted, Goto, TimeInv
<1>19. ASSUME BodyFails PROVE TimeInv' /\ AuditTimeline'
  BY <1>19 DEF BodyFails, FailsNow, store, TimeInv, EndsWith, AuditTimeline
<1>20. ASSUME Escapes PROVE TimeInv' /\ AuditTimeline'
  BY <1>20 DEF Escapes, FailsNow, store, TimeInv, EndsWith, AuditTimeline
<1>21. ASSUME EdgesRestored PROVE TimeInv' /\ AuditTimeline'
  BY <1>21 DEF EdgesRestored, store, Goto, LoopDone, TimeInv, EndsWith, AuditTimeline
<1>22. ASSUME RestoreActivation PROVE TimeInv' /\ AuditTimeline'
  BY <1>22 DEF RestoreActivation, Goto, TimeInv, EndsWith, AuditTimeline
<1>23. ASSUME RestoreDecisions PROVE TimeInv' /\ AuditTimeline'
  BY <1>23 DEF RestoreDecisions, Goto, TimeInv, EndsWith, AuditTimeline
<1>24. ASSUME RecordRolledBack PROVE TimeInv' /\ AuditTimeline'
  <2>1. ctx \in Context /\ pc = "restore_rec" /\ Record("rolled_back") /\ "rolled_back" \in Stage
    BY <1>24 DEF RecordRolledBack, TypeOK, RunTypeOK, Stage
  <2>2. EndsWith({"requested", "freeze", "switch", "unfreeze"}) /\ {"requested", "freeze", "switch", "unfreeze"} \in SUBSET Stage
    BY <2>1 DEF TimeInv, Stage
  <2>3. \A s \in {"requested", "freeze", "switch", "unfreeze"} : <<s, "rolled_back">> \in StageOrder
    BY DEF StageOrder
  <2>4. AuditTimeline'
    BY <2>1, <2>2, <2>3, TimelineGrows
  <2>5. ctx' = ctx /\ EndsWith({"rolled_back"})'
    <3>1. ctx' = ctx
      BY <1>24 DEF RecordRolledBack, Goto
    <3> QED
      BY <2>1, <3>1, RecordIsLast
  <2> QED
    BY <1>24, <2>4, <2>5 DEF RecordRolledBack, Goto, TimeInv
<1>25. ASSUME RollbackDone PROVE TimeInv' /\ AuditTimeline'
  BY <1>25 DEF RollbackDone, store, Goto, LoopDone, TimeInv, EndsWith, AuditTimeline
<1>26. ASSUME Crash PROVE TimeInv' /\ AuditTimeline'
  BY <1>26 DEF Crash, store, TimeInv, EndsWith, AuditTimeline
<1>27. ASSUME NEW p \in PutId, NEW k \in Key, NEW active \in BOOLEAN, NEW frozen \in BOOLEAN, PutLoad(p, k, active, frozen) PROVE TimeInv' /\ AuditTimeline'
  BY <1>27 DEF PutLoad, handler, store, TimeInv, EndsWith, AuditTimeline
<1>28. ASSUME NEW p \in PutId, PutStore(p) PROVE TimeInv' /\ AuditTimeline'
  BY <1>28 DEF PutStore, handler, TimeInv, EndsWith, AuditTimeline
<1>29. ASSUME NEW p \in PutId, PutPublish(p) PROVE TimeInv' /\ AuditTimeline'
  BY <1>29 DEF PutPublish, handler, store, TimeInv, EndsWith, AuditTimeline
<1>30. ASSUME NEW s \in PostLists, PostDecisions(s) PROVE TimeInv' /\ AuditTimeline'
  BY <1>30 DEF PostDecisions, handler, TimeInv, EndsWith, AuditTimeline
<1>31. ASSUME UNCHANGED vars PROVE TimeInv' /\ AuditTimeline'
  BY <1>31 DEF vars, handler, store, TimeInv, EndsWith, AuditTimeline
<1> QED
  BY <1>1, <1>2, <1>3, <1>4, <1>5, <1>6, <1>7, <1>8, <1>9, <1>10, <1>11, <1>12, <1>13, <1>14, <1>15, <1>16, <1>17, <1>18, <1>19, <1>20, <1>21, <1>22, <1>23, <1>24, <1>25, <1>26, <1>27, <1>28, <1>29, <1>30, <1>31 DEF Next, Request, Handler, Puts

\* The log grows at its end, and the bus by an event that unfreezes only once the run
\* at hand has recorded its switch.
LEMMA BusGrows == TypeOK /\ TimeInv /\ [Next]_vars =>
    /\ audit' = audit \/ \E x \in [run : RunId, stage : Stage] : audit' = Append(audit, x)
    /\ \/ bus' = bus
       \/ \E e \in Event :
            /\ bus' = Append(bus, e)
            /\ e.phase = "unfreeze" =>
                 \E j \in DOMAIN audit : audit[j] = [run |-> e.run, stage |-> "switch"]
<1> SUFFICES ASSUME TypeOK, TimeInv, [Next]_vars
             PROVE  /\ audit' = audit \/ \E x \in [run : RunId, stage : Stage] : audit' = Append(audit, x)
                    /\ \/ bus' = bus
                       \/ \E e \in Event :
                            /\ bus' = Append(bus, e)
                            /\ e.phase = "unfreeze" =>
                                 \E j \in DOMAIN audit : audit[j] = [run |-> e.run, stage |-> "switch"]
  OBVIOUS
<1> DEFINE Logged == audit' = audit \/ \E x \in [run : RunId, stage : Stage] : audit' = Append(audit, x)
           Told(e) == e.phase = "unfreeze" =>
                        \E j \in DOMAIN audit : audit[j] = [run |-> e.run, stage |-> "switch"]
           Heard == bus' = bus \/ \E e \in Event : bus' = Append(bus, e) /\ Told(e)
<1>1. ASSUME PublishEntry PROVE Logged /\ Heard
  <2> DEFINE e == [phase |-> IF pc = "unfreeze" THEN "unfreeze" ELSE "freeze",
                   key |-> cur, active |-> EntryValue.active,
                   frozen |-> EntryValue.frozen, run |-> ctx.run,
                   ver |-> loaded.version + 1, seq |-> run.seq]
  <2>1. ctx \in Context /\ run \in RunState /\ cur \in Key /\ loaded \in Document
    BY <1>1 DEF PublishEntry, TypeOK, RunTypeOK, FrameTypeOK
  <2>2. EntryValue.active \in BOOLEAN /\ EntryValue.frozen \in BOOLEAN
    BY DEF EntryValue
  <2>3. e \in Event /\ e.run = ctx.run /\ (e.phase = "unfreeze" => pc = "unfreeze")
    BY <2>1, <2>2 DEF Event, Phase, Context, RunState, Document
  <2>4. audit' = audit /\ bus' = Append(bus, e)
    BY <1>1 DEF PublishEntry, store, Publish
  <2> HIDE DEF e
  <2>5. pc = "unfreeze" => \E j \in DOMAIN audit : audit[j] = [run |-> ctx.run, stage |-> "switch"]
    <3> DEFINE rec == [run : RunId, stage : Stage]
    <3>1. audit \in Seq(rec)
      BY DEF TypeOK, StoreTypeOK
    <3>2. SUFFICES ASSUME pc = "unfreeze"
                   PROVE  \E j \in DOMAIN audit : audit[j] = [run |-> ctx.run, stage |-> "switch"]
      OBVIOUS
    <3>3. audit # <<>> /\ audit[Len(audit)].run = ctx.run /\ audit[Len(audit)].stage = "switch"
      BY <3>2 DEF TimeInv, EndsWith
    <3> HIDE DEF rec
    <3>4. Len(audit) \in DOMAIN audit
      BY <3>1, <3>3
    <3>5. audit[Len(audit)] \in rec
      BY <3>1, <3>4
    <3>6. audit[Len(audit)] = [run |-> ctx.run, stage |-> "switch"]
      BY <3>3, <3>5 DEF rec
    <3> QED
      BY <3>4, <3>6
  <2>6. Told(e)
    BY <2>3, <2>5
  <2> HIDE DEF Told
  <2> QED
    BY <2>3, <2>4, <2>6
<1>2. ASSUME NotifyPolicyUpdate PROVE Logged /\ Heard
  <2> DEFINE e == [phase |-> "policy", key |-> None, active |-> FALSE,
                   frozen |-> FALSE, run |-> None, ver |-> 0, seq |-> 0]
  <2>1. e \in Event /\ e.phase # "unfreeze"
    BY DEF Event, Phase
  <2>2. audit' = audit /\ bus' = Append(bus, e)
    BY <1>2 DEF NotifyPolicyUpdate, store, Publish
  <2> HIDE DEF e
  <2> QED
    BY <2>1, <2>2
<1>3. ASSUME NEW p \in PutId, PutPublish(p) PROVE Logged /\ Heard
  <2> DEFINE e == [phase |-> "put", key |-> put[p].key, active |-> put[p].active,
                   frozen |-> put[p].frozen, run |-> None, ver |-> put[p].ver, seq |-> 0]
  <2>1. e \in Event /\ e.phase # "unfreeze"
    BY DEF Event, Phase, TypeOK, PutTypeOK, PutState
  <2>2. audit' = audit /\ bus' = Append(bus, e)
    BY <1>3 DEF PutPublish, store, Publish
  <2> HIDE DEF e
  <2> QED
    BY <2>1, <2>2
<1>4. ASSUME NEW stage \in Stage, ctx \in Context, Record(stage) PROVE Logged
  BY <1>4 DEF Record, Context
<1>5. ASSUME NEW r \in RunId, AckExisting(r) PROVE Logged /\ Heard
  BY <1>5 DEF AckExisting, Arrives, handler, store
<1>6. ASSUME NEW r \in RunId, Conflict(r) PROVE Logged /\ Heard
  BY <1>6 DEF Conflict, Arrives, handler, store
<1>7. ASSUME NEW r \in RunId, Begin(r) PROVE Logged /\ Heard
  BY <1>7 DEF Begin, Arrives, store
<1>8. ASSUME NEW target \in SUBSET Strategy, BuildContext(target) PROVE Logged /\ Heard
  BY <1>8 DEF BuildContext, store
<1>9. ASSUME RecordRequested PROVE Logged /\ Heard
  <2>1. ctx \in Context /\ Record("requested") /\ "requested" \in Stage /\ bus' = bus
    BY <1>9 DEF RecordRequested, TypeOK, RunTypeOK, Stage
  <2> QED
    BY <2>1, <1>4
<1>10. ASSUME NEW d \in Domain, SetEdge(d) PROVE Logged /\ Heard
  BY <1>10 DEF SetEdge
<1>11. ASSUME NEW d \in Domain, RestoreEdge(d) PROVE Logged /\ Heard
  BY <1>11 DEF RestoreEdge
<1>12. ASSUME NEW k \in Key, PickEntry(k) PROVE Logged /\ Heard
  BY <1>12 DEF PickEntry, store
<1>13. ASSUME StoreEntry PROVE Logged /\ Heard
  BY <1>13 DEF StoreEntry
<1>14. ASSUME EnterFreeze PROVE Logged /\ Heard
  BY <1>14 DEF EnterFreeze, store, Mark, Goto, LoopDone
<1>15. ASSUME FreezeDone PROVE Logged /\ Heard
  <2>1. ctx \in Context /\ Record("freeze") /\ "freeze" \in Stage /\ bus' = bus
    BY <1>15 DEF FreezeDone, TypeOK, RunTypeOK, Stage
  <2> QED
    BY <2>1, <1>4
<1>16. ASSUME SwitchDecisions PROVE Logged /\ Heard
  BY <1>16 DEF SwitchDecisions, Goto
<1>17. ASSUME RecordSwitch PROVE Logged /\ Heard
  <2>1. ctx \in Context /\ Record("switch") /\ "switch" \in Stage /\ bus' = bus
    BY <1>17 DEF RecordSwitch, TypeOK, RunTypeOK, Stage
  <2> QED
    BY <2>1, <1>4
<1>18. ASSUME UnfreezeDone PROVE Logged /\ Heard
  <2>1. ctx \in Context /\ Record("unfreeze") /\ "unfreeze" \in Stage /\ bus' = bus
    BY <1>18 DEF UnfreezeDone, TypeOK, RunTypeOK, Stage
  <2> QED
    BY <2>1, <1>4
<1>19. ASSUME MarkCompleted PROVE Logged /\ Heard
  BY <1>19 DEF MarkCompleted, store, Goto, LoopDone
<1>20. ASSUME RecordCompleted PROVE Logged /\ Heard
  <2>1. ctx \in Context /\ Record("completed") /\ "completed" \in Stage /\ bus' = bus
    BY <1>20 DEF RecordCompleted, TypeOK, RunTypeOK, Stage
  <2> QED
    BY <2>1, <1>4
<1>21. ASSUME BodyFails PROVE Logged /\ Heard
  BY <1>21 DEF BodyFails, FailsNow, store
<1>22. ASSUME Escapes PROVE Logged /\ Heard
  BY <1>22 DEF Escapes, FailsNow, store
<1>23. ASSUME EdgesRestored PROVE Logged /\ Heard
  BY <1>23 DEF EdgesRestored, store, Goto, LoopDone
<1>24. ASSUME RestoreActivation PROVE Logged /\ Heard
  BY <1>24 DEF RestoreActivation, Goto
<1>25. ASSUME RestoreDecisions PROVE Logged /\ Heard
  BY <1>25 DEF RestoreDecisions, Goto
<1>26. ASSUME RecordRolledBack PROVE Logged /\ Heard
  <2>1. ctx \in Context /\ Record("rolled_back") /\ "rolled_back" \in Stage /\ bus' = bus
    BY <1>26 DEF RecordRolledBack, TypeOK, RunTypeOK, Stage
  <2> QED
    BY <2>1, <1>4
<1>27. ASSUME RollbackDone PROVE Logged /\ Heard
  BY <1>27 DEF RollbackDone, store, Goto, LoopDone
<1>28. ASSUME Crash PROVE Logged /\ Heard
  BY <1>28 DEF Crash, store
<1>29. ASSUME NEW p \in PutId, NEW k \in Key, NEW active \in BOOLEAN, NEW frozen \in BOOLEAN, PutLoad(p, k, active, frozen) PROVE Logged /\ Heard
  BY <1>29 DEF PutLoad, handler, store
<1>30. ASSUME NEW p \in PutId, PutStore(p) PROVE Logged /\ Heard
  BY <1>30 DEF PutStore, handler
<1>31. ASSUME NEW s \in PostLists, PostDecisions(s) PROVE Logged /\ Heard
  BY <1>31 DEF PostDecisions, handler
<1>32. ASSUME UNCHANGED vars PROVE Logged /\ Heard
  BY <1>32 DEF vars, handler, store
<1>33. Logged /\ Heard
  BY <1>1, <1>2, <1>3, <1>5, <1>6, <1>7, <1>8, <1>9, <1>10, <1>11, <1>12, <1>13, <1>14, <1>15, <1>16, <1>17, <1>18, <1>19, <1>20, <1>21, <1>22, <1>23, <1>24, <1>25, <1>26, <1>27, <1>28, <1>29, <1>30, <1>31, <1>32 DEF Next, Request, Handler, Puts
<1> QED
  BY <1>33

\* An event that unfreezes finds the switch of its run in the log, and so do the
\* events before it: nothing is taken out of the log.
LEMMA UnfreezeStep == TypeOK /\ TimeInv /\ UnfreezeFollowsSwitch /\ [Next]_vars => UnfreezeFollowsSwitch'
<1> SUFFICES ASSUME TypeOK, TimeInv, UnfreezeFollowsSwitch, [Next]_vars,
                    NEW i \in DOMAIN bus', bus'[i].phase = "unfreeze"
             PROVE  \E j \in DOMAIN audit' : audit'[j] = [run |-> bus'[i].run, stage |-> "switch"]
  BY DEF UnfreezeFollowsSwitch
<1>1. audit \in Seq([run : RunId, stage : Stage]) /\ bus \in Seq(Event)
  BY DEF TypeOK, StoreTypeOK
<1>2. audit' = audit \/ \E x \in [run : RunId, stage : Stage] : audit' = Append(audit, x)
  BY BusGrows
<1>3. \A j \in DOMAIN audit : j \in DOMAIN audit' /\ audit'[j] = audit[j]
  BY <1>1, <1>2
<1>4. \E j \in DOMAIN audit : audit[j] = [run |-> bus'[i].run, stage |-> "switch"]
  <2>1. CASE bus' = bus
    BY <2>1 DEF UnfreezeFollowsSwitch
  <2>2. CASE bus' # bus
    <3>1. PICK e \in Event :
            /\ bus' = Append(bus, e)
            /\ e.phase = "unfreeze" =>
                 \E j \in DOMAIN audit : audit[j] = [run |-> e.run, stage |-> "switch"]
      BY <2>2, BusGrows
    <3>2. bus'[i] = e \/ (i \in DOMAIN bus /\ bus'[i] = bus[i])
      BY <1>1, <3>1
    <3> QED
      BY <3>1, <3>2 DEF UnfreezeFollowsSwitch
  <2> QED
    BY <2>1, <2>2
<1> QED
  BY <1>3, <1>4

\* Records of two runs never interleave in the audit log and follow the order of the
\* stages, and no event unfreezes ahead of the record of its run's switch, whatever
\* fails, crashes or is requested beside apply.
THEOREM TimelineKept == Spec => [](AuditTimeline /\ UnfreezeFollowsSwitch)
<1>1. Init => TimeInv /\ AuditTimeline /\ UnfreezeFollowsSwitch
  BY DEF Init, TimeInv, AuditTimeline, UnfreezeFollowsSwitch
<1> QED
  BY <1>1, TypeInit, TypeStep, TimeStep, UnfreezeStep, PTL DEF Spec

-----------------------------------------------------------------------------
(***************************************************************************)
(* Runs kept apart, again with no assumption: what the registry remembers of  *)
(* a completed run, and how the events of a run are numbered.                 *)
(***************************************************************************)

\* Run r has begun, as the audit log tells.
Started(r) == \E i \in DOMAIN audit : audit[i] = [run |-> r, stage |-> "requested"]

\* The coroutine has recorded its run.
Underway == pc \notin {"idle", "context", "requested"}

\* What the registry says of the run at hand.
RegistryInv ==
    /\ pc \notin {"idle", "context"} => run.id = ctx.run
    /\ pc = "requested" => run.stage = "requested" /\ ~run.completed
    /\ pc = "complete" => run.completed

\* Another run has started behind record i.
Superseded(i) ==
    \E k \in DOMAIN audit :
        k > i /\ audit[k].stage = "requested" /\ audit[k].run # audit[i].run

\* The registry has run r as completed, or has registered a run whose start is not yet
\* recorded, or never will be.
Remembered(r) ==
    /\ run # None
    /\ \/ /\ pc \in {"idle", "context"}
          /\ run.id = r /\ run.completed
          /\ pc = "context" => ctx.run # r
       \/ /\ pc \in {"idle", "requested"}
          /\ run.id # r /\ run.stage = "requested" /\ ~run.completed

\* A completed run is remembered until another one starts.
RememberInv ==
    crashes = 0 => \A i \in DOMAIN audit : audit[i].stage = "completed" =>
        Superseded(i) \/ Remembered(audit[i].run)

\* Numbers of the run at hand that are on the bus are used up; the one of the entry in
\* hand is above them.
Below ==
    \A i \in DOMAIN bus : bus[i].seq > 0 /\ bus[i].run = ctx.run =>
        bus[i].seq <= run.seq /\ (step # "pick" => bus[i].seq < run.seq)

\* Numbered events are of runs that have started.
NumberedInv ==
    /\ \A i \in DOMAIN bus : bus[i].seq > 0 => Started(bus[i].run)
    /\ Underway => Started(ctx.run) /\ (StartedOnce => Below)
    /\ StartedOnce => SequencePerRun

ApartInv == RegistryInv /\ RememberInv /\ CompletedIsRemembered /\ NumberedInv

LEMMA ApartInit == Init => ApartInv
BY DEF Init, ApartInv, RegistryInv, RememberInv, CompletedIsRemembered, NumberedInv, Underway, SequencePerRun

\* The log only grows.
LEMMA LogGrows ==
    ASSUME TypeOK, audit' = audit \/ \E x \in [run : RunId, stage : Stage] : audit' = Append(audit, x)
    PROVE  /\ \A i \in DOMAIN audit : i \in DOMAIN audit' /\ audit'[i] = audit[i]
           /\ \A r : Started(r) =>
                \E i \in DOMAIN audit' : audit'[i] = [run |-> r, stage |-> "requested"]
           /\ \A i \in DOMAIN audit : Superseded(i) => Superseded(i)'
           /\ StartedOnce' => StartedOnce
<1>1. audit \in Seq([run : RunId, stage : Stage])
  BY DEF TypeOK, StoreTypeOK
<1>2. \A i \in DOMAIN audit : i \in DOMAIN audit' /\ audit'[i] = audit[i]
  BY <1>1
<1>3. ASSUME NEW r, Started(r)
      PROVE  \E i \in DOMAIN audit' : audit'[i] = [run |-> r, stage |-> "requested"]
  BY <1>2, <1>3 DEF Started
<1>4. ASSUME NEW i \in DOMAIN audit, Superseded(i) PROVE Superseded(i)'
  BY <1>2, <1>4 DEF Superseded
<1>5. StartedOnce' => StartedOnce
  BY <1>2 DEF StartedOnce
<1> QED
  BY <1>2, <1>3, <1>4, <1>5

\* While nothing is recorded, what is superseded stays so, and what is remembered must.
LEMMA RememberKept ==
    ASSUME RememberInv, CompletedIsRemembered, audit' = audit, crashes' = 0 => crashes = 0,
           crashes' = 0 => \A r : Remembered(r) => Remembered(r)'
    PROVE  (RememberInv /\ CompletedIsRemembered)'
BY DEF RememberInv, CompletedIsRemembered, Superseded

\* A record of a later stage than the first neither starts a run nor completes one.
LEMMA StageKept ==
    ASSUME TypeOK, RememberInv, CompletedIsRemembered, Underway,
           NEW stage \in {"freeze", "switch", "unfreeze", "rolled_back"},
           ctx \in Context, Record(stage), crashes' = crashes
    PROVE  (RememberInv /\ CompletedIsRemembered)'
<1> DEFINE n == Len(audit)
<1>1. audit \in Seq([run : RunId, stage : Stage]) /\ stage \in Stage
  BY DEF TypeOK, StoreTypeOK, Stage
<1>2. /\ audit' \in Seq([run : RunId, stage : Stage])
      /\ Len(audit') = n + 1
      /\ audit'[n + 1] = [run |-> ctx.run, stage |-> stage]
      /\ \A i \in 1 .. n : audit'[i] = audit[i]
  BY <1>1, RecordAppends
<1>3. DOMAIN audit = 1 .. n /\ DOMAIN audit' = 1 .. n + 1 /\ n \in Nat
  <2> DEFINE rec == [run : RunId, stage : Stage]
  <2>1. audit \in Seq(rec) /\ audit' \in Seq(rec)
    BY <1>1, <1>2
  <2> HIDE DEF rec
  <2> QED
    BY <1>2, <2>1
<1>4. audit'[n + 1].stage # "requested" /\ audit'[n + 1].stage # "completed"
  BY <1>2
<1>5. ASSUME NEW i \in 1 .. n, Superseded(i) PROVE Superseded(i)'
  BY <1>2, <1>3, <1>5 DEF Superseded
<1>6. RememberInv'
  <2> SUFFICES ASSUME crashes' = 0, NEW i \in DOMAIN audit', audit'[i].stage = "completed"
               PROVE  Superseded(i)'
    BY DEF RememberInv
  <2>1. i \in 1 .. n
    BY <1>3, <1>4
  <2>2. ~Remembered(audit[i].run)
    BY DEF Remembered, Underway
  <2>3. audit[i].stage = "completed" /\ crashes = 0
    BY <1>2, <2>1
  <2> QED
    BY <1>3, <1>5, <2>1, <2>2, <2>3 DEF RememberInv
<1>7. CompletedIsRemembered'
  <2> SUFFICES ASSUME crashes' = 0, NEW i \in DOMAIN audit', NEW j \in DOMAIN audit',
                      i < j, audit'[i].stage = "completed",
                      audit'[j] = [run |-> audit'[i].run, stage |-> "requested"]
               PROVE  \E k \in i .. j : audit'[k].stage = "requested" /\ audit'[k].run # audit'[i].run
    BY DEF CompletedIsRemembered
  <2>1. audit'[j].stage = "requested"
    OBVIOUS
  <2>2. j \in 1 .. n /\ i \in 1 .. n
    BY <1>3, <1>4, <2>1
  <2>3. PICK k \in i .. j : audit[k].stage = "requested" /\ audit[k].run # audit[i].run
    BY <1>2, <1>3, <2>2 DEF CompletedIsRemembered
  <2>4. k \in 1 .. n
    BY <1>3, <2>2
  <2> QED
    BY <1>2, <2>2, <2>3, <2>4
<1> QED
  BY <1>6, <1>7

\* While the events and the frame of the run at hand stay, so do their numbers.
LEMMA NumbersKept ==
    ASSUME TypeOK, NumberedInv, bus' = bus,
           audit' = audit \/ \E x \in [run : RunId, stage : Stage] : audit' = Append(audit, x),
           Underway' => /\ Underway /\ ctx'.run = ctx.run /\ run'.seq = run.seq
                        /\ (step' # "pick" => step # "pick")
    PROVE  NumberedInv'
<1>1. /\ \A r : Started(r) =>
           \E i \in DOMAIN audit' : audit'[i] = [run |-> r, stage |-> "requested"]
      /\ StartedOnce' => StartedOnce
  BY LogGrows
<1>2. ASSUME Underway' PROVE Started(ctx.run)' /\ (StartedOnce' => Below')
  <2>1. Started(ctx.run) /\ (StartedOnce => Below)
    BY <1>2 DEF NumberedInv
  <2>2. Started(ctx.run)'
    BY <1>1, <1>2, <2>1 DEF Started
  <2>3. StartedOnce' => Below'
    BY <1>1, <1>2, <2>1 DEF Below
  <2> QED
    BY <2>2, <2>3
<1>3. StartedOnce' => SequencePerRun'
  BY <1>1 DEF NumberedInv, SequencePerRun
<1>4. (\A i \in DOMAIN bus : bus[i].seq > 0 => Started(bus[i].run))'
  BY <1>1 DEF NumberedInv, Started
<1> QED
  BY <1>2, <1>3, <1>4 DEF NumberedInv

\* An event without a number takes no part in this.
LEMMA UnnumberedKept ==
    ASSUME TypeOK, NumberedInv, audit' = audit, NEW e \in Event, e.seq = 0, bus' = Append(bus, e),
           Underway' => /\ Underway /\ ctx'.run = ctx.run /\ run'.seq = run.seq
                        /\ (step' # "pick" => step # "pick")
    PROVE  NumberedInv'
<1>1. bus \in Seq(Event)
  BY DEF TypeOK, StoreTypeOK
<1>2. \A i \in DOMAIN bus' : bus'[i].seq > 0 => i \in DOMAIN bus /\ bus'[i] = bus[i]
  BY <1>1
<1>4. StartedOnce' <=> StartedOnce
  BY DEF StartedOnce
<1>5. ASSUME Underway' PROVE Started(ctx.run)' /\ (StartedOnce' => Below')
  <2>1. Started(ctx.run)'
    BY <1>5 DEF NumberedInv, Started
  <2>2. StartedOnce' => Below'
    BY <1>2, <1>4, <1>5 DEF NumberedInv, Below
  <2> QED
    BY <2>1, <2>2
<1>6. StartedOnce' => SequencePerRun'
  <2> SUFFICES ASSUME StartedOnce, NEW i \in DOMAIN bus', NEW j \in DOMAIN bus',
                      i < j, bus'[i].seq > 0, bus'[j].seq > 0, bus'[i].run = bus'[j].run
               PROVE  bus'[i].seq < bus'[j].seq
    BY <1>4 DEF SequencePerRun
  <2>1. i \in DOMAIN bus /\ j \in DOMAIN bus /\ bus'[i] = bus[i] /\ bus'[j] = bus[j]
    BY <1>2
  <2> QED
    BY <2>1 DEF NumberedInv, SequencePerRun
<1>3. (\A i \in DOMAIN bus : bus[i].seq > 0 => Started(bus[i].run))'
  BY <1>2 DEF NumberedInv, Started
<1> QED
  BY <1>3, <1>5, <1>6 DEF NumberedInv

\* The first record of a run: every completed run before it is superseded, and nothing
\* has been published of a run that starts once.
LEMMA StartsApart == ASSUME TypeOK, ApartInv, RecordRequested PROVE ApartInv'
<1> DEFINE n == Len(audit)
           first == [run |-> ctx.run, stage |-> "requested"]
<1>1. /\ ctx \in Context /\ run \in RunState /\ pc = "requested" /\ pc' = "pre"
      /\ Record("requested") /\ "requested" \in Stage
      /\ UNCHANGED <<run, ctx, step, bus, crashes>>
  BY DEF RecordRequested, TypeOK, RunTypeOK, Stage, bounds
<1>2. /\ audit \in Seq([run : RunId, stage : Stage])
      /\ audit' \in Seq([run : RunId, stage : Stage])
      /\ Len(audit') = n + 1 /\ audit'[n + 1] = first
      /\ \A i \in 1 .. n : audit'[i] = audit[i]
  <2>1. audit \in Seq([run : RunId, stage : Stage])
    BY DEF TypeOK, StoreTypeOK
  <2> QED
    BY <1>1, <2>1, RecordAppends
<1>3. DOMAIN audit = 1 .. n /\ DOMAIN audit' = 1 .. n + 1 /\ n \in Nat
  <2> DEFINE rec == [run : RunId, stage : Stage]
  <2>1. audit \in Seq(rec) /\ audit' \in Seq(rec)
    BY <1>2
  <2> HIDE DEF rec
  <2> QED
    BY <1>2, <2>1
<1> HIDE DEF first
<1>4. first.run = ctx.run /\ first.stage = "requested"
  BY DEF first
<1>5. RegistryInv'
  BY <1>1 DEF ApartInv, RegistryInv
<1>6. ASSUME crashes = 0, NEW i \in 1 .. n, audit[i].stage = "completed"
      PROVE  Superseded(i) \/ audit[i].run # ctx.run
  BY <1>1, <1>3, <1>6 DEF ApartInv, RememberInv, RegistryInv, Remembered
<1>7. RememberInv'
  <2> SUFFICES ASSUME crashes' = 0, NEW i \in DOMAIN audit', audit'[i].stage = "completed"
               PROVE  Superseded(i)'
    BY DEF RememberInv
  <2>1. i \in 1 .. n /\ audit'[i] = audit[i] /\ crashes = 0
    BY <1>1, <1>2, <1>3, <1>4
  <2>2. CASE Superseded(i)
    BY <1>2, <1>3, <2>1, <2>2 DEF Superseded
  <2>3. CASE audit[i].run # ctx.run
    <3>1. n + 1 \in DOMAIN audit' /\ n + 1 > i
      BY <1>3, <2>1
    <3> QED
      BY <1>2, <1>4, <2>1, <2>3, <3>1 DEF Superseded
  <2> QED
    BY <1>6, <2>1, <2>2, <2>3
<1>8. CompletedIsRemembered'
  <2> SUFFICES ASSUME crashes' = 0, NEW i \in DOMAIN audit', NEW j \in DOMAIN audit',
                      i < j, audit'[i].stage = "completed",
                      audit'[j] = [run |-> audit'[i].run, stage |-> "requested"]
               PROVE  \E k \in i .. j : audit'[k].stage = "requested" /\ audit'[k].run # audit'[i].run
    BY DEF CompletedIsRemembered
  <2>1. i \in 1 .. n /\ audit'[i] = audit[i] /\ crashes = 0
    BY <1>1, <1>2, <1>3
  <2>2. CASE j = n + 1
    <3>1. audit[i].run = ctx.run
      BY <1>2, <1>4, <2>1, <2>2
    <3>2. PICK k \in DOMAIN audit : k > i /\ audit[k].stage = "requested" /\ audit[k].run # audit[i].run
      BY <1>6, <2>1, <3>1 DEF Superseded
    <3>3. k \in i .. j /\ audit'[k] = audit[k]
      BY <1>2, <1>3, <2>1, <2>2, <3>2
    <3> QED
      BY <2>1, <3>2, <3>3
  <2>3. CASE j # n + 1
    <3>1. j \in 1 .. n /\ audit'[j] = audit[j]
      BY <1>2, <1>3, <2>3
    <3>2. PICK k \in i .. j : audit[k].stage = "requested" /\ audit[k].run # audit[i].run
      BY <1>3, <2>1, <3>1 DEF ApartInv, CompletedIsRemembered
    <3>3. k \in 1 .. n
      BY <1>3, <2>1, <3>1
    <3> QED
      BY <1>2, <2>1, <3>2, <3>3
  <2> QED
    BY <2>2, <2>3
<1>9. NumberedInv'
  <2>1. \E x \in [run : RunId, stage : Stage] : audit' = Append(audit, x)
    BY <1>1 DEF Record, Context
  <2>2. /\ \A r : Started(r) =>
             \E i \in DOMAIN audit' : audit'[i] = [run |-> r, stage |-> "requested"]
        /\ StartedOnce' => StartedOnce
    BY <2>1, LogGrows
  <2>3. Started(ctx.run)'
    BY <1>1, <1>2, <1>3 DEF Started, first
  <2>4. (\A i \in DOMAIN bus : bus[i].seq > 0 => Started(bus[i].run))'
    BY <1>1, <2>2 DEF ApartInv, NumberedInv, Started
  <2>5. StartedOnce' => SequencePerRun'
    BY <1>1, <2>2 DEF ApartInv, NumberedInv, SequencePerRun
  <2>6. StartedOnce' => Below'
    <3> SUFFICES ASSUME StartedOnce', NEW i \in DOMAIN bus, bus[i].seq > 0, bus[i].run = ctx.run
                 PROVE  FALSE
      BY <1>1 DEF Below
    <3>1. PICK j \in DOMAIN audit : audit[j] = [run |-> ctx.run, stage |-> "requested"]
      BY DEF ApartInv, NumberedInv, Started
    <3>2. j \in DOMAIN audit' /\ n + 1 \in DOMAIN audit' /\ j # n + 1
      BY <1>3
    <3>3. audit'[j] = audit'[n + 1] /\ audit'[j].stage = "requested"
      BY <1>2, <1>3, <3>1 DEF first
    <3> QED
      BY <3>2, <3>3 DEF StartedOnce
  <2> QED
    BY <2>3, <2>4, <2>5, <2>6 DEF NumberedInv
<1> QED
  BY <1>5, <1>7, <1>8, <1>9 DEF ApartInv

\* The number of an entry is above those on the bus.
LEMMA PickApart == ASSUME TypeOK, ApartInv, NEW k \in Key, PickEntry(k) PROVE ApartInv'
<1>1. /\ pc \in EntryPC /\ pc' = pc /\ ctx' = ctx /\ audit' = audit /\ bus' = bus
      /\ step = "pick" /\ run' = [run EXCEPT !.seq = run.seq + 1] /\ crashes' = crashes
  BY DEF PickEntry, store, bounds
<1>2. ctx \in Context /\ run \in RunState /\ bus \in Seq(Event)
  BY <1>1 DEF TypeOK, RunTypeOK, StoreTypeOK
<1>3. /\ run'.seq = run.seq + 1 /\ run.seq \in Nat
      /\ run'.id = run.id /\ run'.stage = run.stage /\ run'.completed = run.completed
  BY <1>1, <1>2 DEF RunState
<1>4. RegistryInv'
  BY <1>1, <1>3 DEF ApartInv, RegistryInv
<1>5. (RememberInv /\ CompletedIsRemembered)'
  BY <1>1, RememberKept DEF ApartInv, Remembered
<1>6. Underway /\ (StartedOnce => Below)
  BY <1>1 DEF Underway, ApartInv, NumberedInv
<1>7. StartedOnce => Below'
  <2> SUFFICES ASSUME StartedOnce, NEW i \in DOMAIN bus, bus[i].seq > 0, bus[i].run = ctx.run
               PROVE  bus[i].seq <= run'.seq /\ bus[i].seq < run'.seq
    BY <1>1 DEF Below
  <2>1. bus[i] \in Event
    BY <1>2
  <2>2. bus[i].seq \in Nat
    BY <2>1 DEF Event
  <2>3. bus[i].seq <= run.seq
    BY <1>6 DEF Below
  <2> QED
    BY <1>3, <2>2, <2>3
<1>8. NumberedInv'
  BY <1>1, <1>6, <1>7 DEF ApartInv, NumberedInv, Underway, Started, StartedOnce, SequencePerRun
<1> QED
  BY <1>4, <1>5, <1>8 DEF ApartInv

\* The event of an entry has the greatest number of its run so far.
LEMMA PublishApart == ASSUME TypeOK, ApartInv, PublishEntry PROVE ApartInv'
<1> DEFINE e == [phase |-> IF pc = "unfreeze" THEN "unfreeze" ELSE "freeze",
                 key |-> cur, active |-> EntryValue.active,
                 frozen |-> EntryValue.frozen, run |-> ctx.run,
                 ver |-> loaded.version + 1, seq |-> run.seq]
           n == Len(bus)
<1>1. /\ pc \in EntryPC /\ pc' = pc /\ ctx' = ctx /\ audit' = audit /\ run' = run
      /\ step = "publish" /\ step' = "pick" /\ crashes' = crashes /\ bus' = Append(bus, e)
  BY DEF PublishEntry, store, bounds, Publish
<1>2. ctx \in Context /\ run \in RunState /\ bus \in Seq(Event)
  BY <1>1 DEF TypeOK, RunTypeOK, StoreTypeOK
<1>3. e.run = ctx.run /\ e.seq = run.seq /\ run.seq \in Nat
  BY <1>2 DEF RunState
<1> HIDE DEF e
<1>4. /\ n \in Nat /\ DOMAIN bus = 1 .. n /\ DOMAIN bus' = 1 .. n + 1
      /\ bus'[n + 1] = e /\ \A i \in 1 .. n : bus'[i] = bus[i]
  BY <1>1, <1>2
<1>5. RegistryInv'
  BY <1>1 DEF ApartInv, RegistryInv
<1>6. (RememberInv /\ CompletedIsRemembered)'
  BY <1>1, RememberKept DEF ApartInv, Remembered
<1>7. /\ Underway /\ Started(ctx.run)
      /\ StartedOnce => \A i \in 1 .. n : bus[i].seq > 0 /\ bus[i].run = ctx.run => bus[i].seq < run.seq
  BY <1>1, <1>4 DEF Underway, ApartInv, NumberedInv, Below
<1>8. StartedOnce => Below'
  <2> SUFFICES ASSUME StartedOnce, NEW i \in 1 .. n + 1, bus'[i].seq > 0, bus'[i].run = ctx.run
               PROVE  bus'[i].seq <= run.seq
    BY <1>1, <1>4 DEF Below
  <2>1. CASE i = n + 1
    BY <1>3, <1>4, <2>1
  <2>2. CASE i # n + 1
    <3>1. i \in 1 .. n
      BY <1>4, <2>2
    <3>2. bus[i] \in Event /\ bus'[i] = bus[i]
      BY <1>2, <1>4, <3>1
    <3> QED
      BY <1>3, <1>7, <3>1, <3>2 DEF Event
  <2> QED
    BY <2>1, <2>2
<1>9. StartedOnce => SequencePerRun'
  <2> SUFFICES ASSUME StartedOnce, NEW i \in 1 .. n + 1, NEW j \in 1 .. n + 1,
                      i < j, bus'[i].seq > 0, bus'[j].seq > 0, bus'[i].run = bus'[j].run
               PROVE  bus'[i].seq < bus'[j].seq
    BY <1>4 DEF SequencePerRun
  <2>1. i \in 1 .. n /\ bus'[i] = bus[i]
    BY <1>4
  <2>2. CASE j = n + 1
    BY <1>3, <1>4, <1>7, <2>1, <2>2
  <2>3. CASE j # n + 1
    <3>1. j \in 1 .. n
      BY <1>4, <2>3
    <3> QED
      BY <1>4, <2>1, <3>1 DEF ApartInv, NumberedInv, SequencePerRun
  <2> QED
    BY <2>2, <2>3
<1>10. (\A i \in DOMAIN bus : bus[i].seq > 0 => Started(bus[i].run))'
  <2> SUFFICES ASSUME NEW i \in 1 .. n + 1, bus'[i].seq > 0
               PROVE  \E j \in DOMAIN audit : audit[j] = [run |-> bus'[i].run, stage |-> "requested"]
    BY <1>1, <1>4 DEF Started
  <2>1. CASE i = n + 1
    BY <1>3, <1>4, <1>7, <2>1 DEF Started
  <2>2. CASE i # n + 1
    <3>1. i \in 1 .. n /\ bus'[i] = bus[i]
      BY <1>4, <2>2
    <3> QED
      BY <1>4, <3>1 DEF ApartInv, NumberedInv, Started
  <2> QED
    BY <2>1, <2>2
<1>11. NumberedInv'
  BY <1>1, <1>7, <1>8, <1>9, <1>10 DEF NumberedInv, Underway, Started, StartedOnce
<1> QED
  BY <1>5, <1>6, <1>11 DEF ApartInv

\* A run that completes is what the registry has.
LEMMA CompletesApart == ASSUME TypeOK, ApartInv, RecordCompleted PROVE ApartInv'
<1> DEFINE n == Len(audit)
<1>1. /\ ctx \in Context /\ run \in RunState /\ pc = "complete" /\ pc' = "idle"
      /\ Record("completed") /\ "completed" \in Stage
      /\ UNCHANGED <<run, ctx, step, bus, crashes>>
  BY DEF RecordCompleted, Goto, TypeOK, RunTypeOK, Stage, bounds
<1>2. run.id = ctx.run /\ run.completed /\ run # None
  BY <1>1, NoneAssumption DEF ApartInv, RegistryInv
<1>3. /\ audit \in Seq([run : RunId, stage : Stage])
      /\ audit' \in Seq([run : RunId, stage : Stage])
      /\ Len(audit') = n + 1 /\ audit'[n + 1] = [run |-> ctx.run, stage |-> "completed"]
      /\ \A i \in 1 .. n : audit'[i] = audit[i]
  <2>1. audit \in Seq([run : RunId, stage : Stage])
    BY DEF TypeOK, StoreTypeOK
  <2> QED
    BY <1>1, <2>1, RecordAppends
<1>4. DOMAIN audit = 1 .. n /\ DOMAIN audit' = 1 .. n + 1 /\ n \in Nat
  <2> DEFINE rec == [run : RunId, stage : Stage]
  <2>1. audit \in Seq(rec) /\ audit' \in Seq(rec)
    BY <1>3
  <2> HIDE DEF rec
  <2> QED
    BY <1>3, <2>1
<1>5. RegistryInv'
  BY <1>1 DEF RegistryInv
<1>6. RememberInv'
  <2> SUFFICES ASSUME crashes' = 0, NEW i \in DOMAIN audit', audit'[i].stage = "completed"
               PROVE  (Superseded(i) \/ Remembered(audit[i].run))'
    BY DEF RememberInv
  <2>1. CASE i = n + 1
    <3>1. audit'[i].run = ctx.run
      BY <1>3, <2>1
    <3> QED
      BY <1>1, <1>2, <3>1 DEF Remembered
  <2>2. CASE i # n + 1
    <3>1. i \in 1 .. n /\ audit'[i] = audit[i]
      BY <1>3, <1>4, <2>2
    <3>2. Superseded(i)
      BY <1>1, <1>4, <3>1 DEF ApartInv, RememberInv, Remembered
    <3> QED
      BY <1>3, <1>4, <3>1, <3>2 DEF Superseded
  <2> QED
    BY <2>1, <2>2
<1>7. CompletedIsRemembered'
  <2> SUFFICES ASSUME crashes' = 0, NEW i \in DOMAIN audit', NEW j \in DOMAIN audit',
                      i < j, audit'[i].stage = "completed",
                      audit'[j] = [run |-> audit'[i].run, stage |-> "requested"]
               PROVE  \E k \in i .. j : audit'[k].stage = "requested" /\ audit'[k].run # audit'[i].run
    BY DEF CompletedIsRemembered
  <2>1. audit'[j].stage = "requested" /\ audit'[n + 1].stage = "completed"
    BY <1>3
  <2>2. j \in 1 .. n /\ i \in 1 .. n
    BY <1>4, <2>1
  <2>3. PICK k \in i .. j : audit[k].stage = "requested" /\ audit[k].run # audit[i].run
    BY <1>1, <1>3, <1>4, <2>2 DEF ApartInv, CompletedIsRemembered
  <2>4. k \in 1 .. n
    BY <1>4, <2>2
  <2> QED
    BY <1>3, <2>2, <2>3, <2>4
<1>8. NumberedInv'
  <2>1. \E x \in [run : RunId, stage : Stage] : audit' = Append(audit, x)
    BY <1>1 DEF Record, Context
  <2> QED
    BY <1>1, <2>1, NumbersKept DEF ApartInv, Underway
<1> QED
  BY <1>5, <1>6, <1>7, <1>8 DEF ApartInv

\* Every other step records and publishes nothing of a run, or a later stage of it.
LEMMA ApartStep == TypeOK /\ ApartInv /\ [Next]_vars => ApartInv'
<1> SUFFICES ASSUME TypeOK, ApartInv, [Next]_vars PROVE ApartInv'
  OBVIOUS
<1> DEFINE Calm ==
       /\ RegistryInv' /\ audit' = audit /\ bus' = bus
       /\ crashes' = 0 => crashes = 0
       /\ crashes' = 0 => \A r : Remembered(r) => Remembered(r)'
       /\ Underway' => /\ Underway /\ ctx'.run = ctx.run /\ run'.seq = run.seq
                       /\ (step' # "pick" => step # "pick")
<1>1. ASSUME Calm PROVE ApartInv'
  <2>1. (RememberInv /\ CompletedIsRemembered)'
    BY <1>1, RememberKept DEF ApartInv
  <2>2. NumberedInv'
    BY <1>1, NumbersKept DEF ApartInv
  <2> QED
    BY <1>1, <2>1, <2>2 DEF ApartInv
<1>2. ASSUME Underway, NEW stage \in {"freeze", "switch", "unfreeze", "rolled_back"}, Record(stage),
             pc' \notin {"idle", "context", "requested", "complete"},
             UNCHANGED <<ctx, step, bus, crashes>>,
             run'.id = run.id /\ run'.seq = run.seq
      PROVE  ApartInv'
  <2>1. ctx \in Context /\ stage \in Stage
    BY <1>2 DEF TypeOK, RunTypeOK, Underway, Stage
  <2>2. (RememberInv /\ CompletedIsRemembered)'
    BY <1>2, <2>1, StageKept DEF ApartInv
  <2>3. \E x \in [run : RunId, stage : Stage] : audit' = Append(audit, x)
    BY <1>2, <2>1 DEF Record, Context
  <2>4. NumberedInv'
    BY <1>2, <2>3, NumbersKept DEF ApartInv
  <2>5. RegistryInv'
    BY <1>2 DEF ApartInv, RegistryInv, Underway
  <2> QED
    BY <2>2, <2>4, <2>5 DEF ApartInv
<1>3. ASSUME NEW e \in Event, e.seq = 0, bus' = Append(bus, e), audit' = audit, crashes' = crashes,
             RegistryInv', \A r : Remembered(r) => Remembered(r)',
             Underway' => /\ Underway /\ ctx'.run = ctx.run /\ run'.seq = run.seq
                          /\ (step' # "pick" => step # "pick")
      PROVE  ApartInv'
  <2>1. (RememberInv /\ CompletedIsRemembered)'
    BY <1>3, RememberKept DEF ApartInv
  <2>2. NumberedInv'
    BY <1>3, UnnumberedKept DEF ApartInv
  <2> QED
    BY <1>3, <2>1, <2>2 DEF ApartInv
<1> USE DEF Underway, ApartInv, RegistryInv, Remembered, bounds
<1>4. ASSUME NEW r \in RunId, AckExisting(r) PROVE ApartInv'
  <2>1. Calm
    BY <1>4, NoneAssumption DEF AckExisting, Arrives, handler, store
  <2> QED
    BY <1>1, <2>1
<1>5. ASSUME NEW r \in RunId, Conflict(r) PROVE ApartInv'
  <2>1. Calm
    BY <1>5, NoneAssumption DEF Conflict, Arrives, handler, store
  <2> QED
    BY <1>1, <2>1
<1>6. ASSUME NEW r \in RunId, Begin(r) PROVE ApartInv'
  <2>1. Calm
    BY <1>6, NoneAssumption DEF Begin, Arrives, store, TypeOK, RunTypeOK, RunState
  <2> QED
    BY <1>1, <2>1
<1>7. ASSUME NEW target \in SUBSET Strategy, BuildContext(target) PROVE ApartInv'
  <2>1. /\ pc = "context" /\ pc' = "requested" /\ ctx \in Context
        /\ UNCHANGED <<audit, bus, crashes, step>>
        /\ run' = [id |-> ctx.run, active |-> target, stage |-> "requested",
                   completed |-> FALSE, seq |-> 0]
    BY <1>7 DEF BuildContext, store, TypeOK, RunTypeOK
  <2>2. ctx' = [ctx EXCEPT !.target = target, !.prev = decisions, !.snap = doc]
    BY <1>7 DEF BuildContext
  <2>3. ctx'.run = ctx.run
    BY <2>1, <2>2 DEF Context
  <2>4. run' \in RunState
    BY <1>7, <2>1 DEF RunState, Context, Stage
  <2>5. run' # None
    BY <2>4, NoneAssumption
  <2>6. /\ run'.id = ctx.run /\ run'.stage = "requested" /\ run'.completed = FALSE
        /\ run'.seq = 0
    BY <2>1
  <2>7. \A r : Remembered(r) => Remembered(r)'
    BY <2>1, <2>5, <2>6
  <2>8. RegistryInv'
    BY <2>1, <2>3, <2>5, <2>6
  <2> QED
    BY <1>1, <2>1, <2>7, <2>8
<1>8. ASSUME NEW d \in Domain, SetEdge(d) PROVE ApartInv'
  <2>1. Calm
    BY <1>8, NoneAssumption DEF SetEdge
  <2> QED
    BY <1>1, <2>1
<1>9. ASSUME NEW d \in Domain, RestoreEdge(d) PROVE ApartInv'
  <2>1. Calm
    BY <1>9, NoneAssumption DEF RestoreEdge
  <2> QED
    BY <1>1, <2>1
<1>10. ASSUME StoreEntry PROVE ApartInv'
  <2>1. Calm
    BY <1>10, NoneAssumption DEF StoreEntry
  <2> QED
    BY <1>1, <2>1
<1>11. ASSUME EnterFreeze PROVE ApartInv'
  <2>1. Calm
    BY <1>11, NoneAssumption DEF EnterFreeze, store, Mark, Goto, LoopDone, TypeOK, RunTypeOK, RunState
  <2> QED
    BY <1>1, <2>1
<1>12. ASSUME SwitchDecisions PROVE ApartInv'
  <2>1. Calm
    BY <1>12, NoneAssumption DEF SwitchDecisions, Goto
  <2> QED
    BY <1>1, <2>1
<1>13. ASSUME MarkCompleted PROVE ApartInv'
  <2>1. Calm
    BY <1>13, NoneAssumption DEF MarkCompleted, store, Goto, LoopDone, TypeOK, RunTypeOK, RunState
  <2> QED
    BY <1>1, <2>1
<1>14. ASSUME BodyFails PROVE ApartInv'
  <2>1. Calm
    BY <1>14, NoneAssumption DEF BodyFails, FailsNow, store
  <2> QED
    BY <1>1, <2>1
<1>15. ASSUME Escapes PROVE ApartInv'
  <2>1. Calm
    BY <1>15, NoneAssumption DEF Escapes, FailsNow, store
  <2> QED
    BY <1>1, <2>1
<1>16. ASSUME EdgesRestored PROVE ApartInv'
  <2>1. Calm
    BY <1>16, NoneAssumption DEF EdgesRestored, store, Goto, LoopDone
  <2> QED
    BY <1>1, <2>1
<1>17. ASSUME RestoreActivation PROVE ApartInv'
  <2>1. Calm
    BY <1>17, NoneAssumption DEF RestoreActivation, Goto
  <2> QED
    BY <1>1, <2>1
<1>18. ASSUME RestoreDecisions PROVE ApartInv'
  <2>1. Calm
    BY <1>18, NoneAssumption DEF RestoreDecisions, Goto
  <2> QED
    BY <1>1, <2>1
<1>19. ASSUME RollbackDone PROVE ApartInv'
  <2>1. Calm
    BY <1>19, NoneAssumption DEF RollbackDone, store, Goto, LoopDone, TypeOK, RunTypeOK, RunState
  <2> QED
    BY <1>1, <2>1
<1>20. ASSUME Crash PROVE ApartInv'
  <2>1. Calm
    <3>1. /\ crashes' = crashes + 1 /\ run' = None /\ pc' = "idle"
          /\ audit' = audit /\ bus' = bus
      BY <1>20, Zenon DEF Crash, store
    <3>2. crashes \in Nat
      BY ConstantsAssumption DEF TypeOK, BoundsTypeOK
    <3> QED
      BY <3>1, <3>2
  <2> QED
    BY <1>1, <2>1
<1>21. ASSUME NEW p \in PutId, NEW k \in Key, NEW active \in BOOLEAN, NEW frozen \in BOOLEAN, PutLoad(p, k, active, frozen) PROVE ApartInv'
  <2>1. Calm
    BY <1>21, NoneAssumption DEF PutLoad, handler, store
  <2> QED
    BY <1>1, <2>1
<1>22. ASSUME NEW p \in PutId, PutStore(p) PROVE ApartInv'
  <2>1. Calm
    BY <1>22, NoneAssumption DEF PutStore, handler
  <2> QED
    BY <1>1, <2>1
<1>23. ASSUME NEW s \in PostLists, PostDecisions(s) PROVE ApartInv'
  <2>1. Calm
    BY <1>23, NoneAssumption DEF PostDecisions, handler
  <2> QED
    BY <1>1, <2>1
<1>24. ASSUME UNCHANGED vars PROVE ApartInv'
  <2>1. Calm
    BY <1>24, NoneAssumption DEF vars, handler, store
  <2> QED
    BY <1>1, <2>1
<1>25. ASSUME FreezeDone PROVE ApartInv'
  <2>1. /\ Underway /\ Record("freeze") /\ UNCHANGED <<ctx, step, bus, crashes>>
        /\ pc' \notin {"idle", "context", "requested", "complete"}
        /\ run'.id = run.id /\ run'.seq = run.seq
    BY <1>25 DEF FreezeDone, Goto, LoopDone, TypeOK, RunTypeOK, RunState
  <2> QED
    BY <1>2, <2>1
<1>26. ASSUME RecordSwitch PROVE ApartInv'
  <2>1. /\ Underway /\ Record("switch") /\ UNCHANGED <<ctx, step, bus, crashes>>
        /\ pc' \notin {"idle", "context", "requested", "complete"}
        /\ run'.id = run.id /\ run'.seq = run.seq
    BY <1>26 DEF RecordSwitch, Mark, Goto, TypeOK, RunTypeOK, RunState
  <2> QED
    BY <1>2, <2>1
<1>27. ASSUME UnfreezeDone PROVE ApartInv'
  <2>1. /\ Underway /\ Record("unfreeze") /\ UNCHANGED <<ctx, step, bus, crashes>>
        /\ pc' \notin {"idle", "context", "requested", "complete"}
        /\ run'.id = run.id /\ run'.seq = run.seq
    BY <1>27 DEF UnfreezeDone, Goto, LoopDone, TypeOK, RunTypeOK, RunState
  <2> QED
    BY <1>2, <2>1
<1>28. ASSUME RecordRolledBack PROVE ApartInv'
  <2>1. /\ Underway /\ Record("rolled_back") /\ UNCHANGED <<ctx, step, bus, crashes>>
        /\ pc' \notin {"idle", "context", "requested", "complete"}
        /\ run'.id = run.id /\ run'.seq = run.seq
    BY <1>28 DEF RecordRolledBack, Goto, TypeOK, RunTypeOK, RunState
  <2> QED
    BY <1>2, <2>1
<1>29. ASSUME NotifyPolicyUpdate PROVE ApartInv'
  <2> DEFINE e == [phase |-> "policy", key |-> None, active |-> FALSE,
                   frozen |-> FALSE, run |-> None, ver |-> 0, seq |-> 0]
  <2>1. e \in Event /\ e.seq = 0
    BY DEF Event, Phase
  <2>2. bus' = Append(bus, e) /\ audit' = audit /\ UNCHANGED <<ctx, step, crashes>>
    BY <1>29 DEF NotifyPolicyUpdate, store, Publish, Goto
  <2> HIDE DEF e
  <2>3. pc = "policy" /\ pc' = "unfreeze" /\ run'.id = run.id /\ run'.seq = run.seq
    BY <1>29 DEF NotifyPolicyUpdate, Mark, Goto, TypeOK, RunTypeOK, RunState
  <2>4. RegistryInv' /\ \A r : Remembered(r) => Remembered(r)'
    BY <2>2, <2>3
  <2>5. Underway' => /\ Underway /\ ctx'.run = ctx.run /\ run'.seq = run.seq
                     /\ (step' # "pick" => step # "pick")
    BY <2>2, <2>3
  <2> QED
    BY <1>3, <2>1, <2>2, <2>4, <2>5
<1>30. ASSUME NEW p \in PutId, PutPublish(p) PROVE ApartInv'
  <2> DEFINE e == [phase |-> "put", key |-> put[p].key, active |-> put[p].active,
                   frozen |-> put[p].frozen, run |-> None, ver |-> put[p].ver, seq |-> 0]
  <2>1. e \in Event /\ e.seq = 0
    BY DEF Event, Phase, TypeOK, PutTypeOK, PutState
  <2>2. bus' = Append(bus, e) /\ audit' = audit /\ UNCHANGED <<run, pc, ctx, step, crashes>>
    BY <1>30 DEF PutPublish, store, handler, Publish
  <2> HIDE DEF e
  <2>3. RegistryInv' /\ \A r : Remembered(r) => Remembered(r)'
    BY <2>2
  <2> QED
    BY <1>3, <2>1, <2>2, <2>3
<1> QED
  BY <1>4, <1>5, <1>6, <1>7, <1>8, <1>9, <1>10, <1>11, <1>12, <1>13, <1>14, <1>15, <1>16, <1>17, <1>18, <1>19, <1>20, <1>21, <1>22, <1>23, <1>24, <1>25, <1>26, <1>27, <1>28, <1>29, <1>30,
     StartsApart, PickApart, PublishApart, CompletesApart DEF Next, Request, Handler, Puts

\* Runs that compete for a world, or are requested again, are told apart by what is
\* recorded and published of them: timelines in the audit log do not mix, a completed run
\* is not started again while the registry remembers it, numbers of events grow in a run
\* that was started once, and what unfreezes has switched.
THEOREM RunsAlwaysKeptApart == Spec => []RunsKeptApart
<1>1. ApartInv /\ AuditTimeline /\ UnfreezeFollowsSwitch => RunsKeptApart
  BY DEF ApartInv, NumberedInv, RunsKeptApart
<1> QED
  BY <1>1, TimelineKept, TypeInit, TypeStep, ApartInit, ApartStep, PTL DEF Spec
=============================================================================
