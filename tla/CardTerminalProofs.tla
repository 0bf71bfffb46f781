------------------------- MODULE CardTerminalProofs -------------------------
(* Proofs about CardTerminal, for any number of slots and any timeout: IInv is  *)
(* inductive, one lemma per step of a command, and implies the invariants the   *)
(* model checker checks.                                                        *)
EXTENDS CardTerminal, TLAPS

\* A card is inserted: the reader's change bit is set.
LEMMA StepInsert ==
    ASSUME IInv, NEW s \in Slots, NEW k \in Kinds, Insert(s, k)
    PROVE  IInv'
<1> USE MaxSlotsAssumption, MaxTimeoutAssumption, MaxLengthsAssumption,
        NoneAssumption
    DEF IInv, Slots, ProbePcs, Probing, reader, slots, call, history, Insert,
        Moves
<1>1. TypeOK'
  <2>1. ReaderType'
    BY DEF TypeOK, ReaderType
  <2>2. SlotsType'
    BY DEF TypeOK, SlotsType
  <2>3. CallType'
    BY DEF TypeOK, CallType
  <2>4. HistoryType'
    BY DEF TypeOK, HistoryType
  <2> QED
    BY <2>1, <2>2, <2>3, <2>4 DEF TypeOK
<1>2. CallInv'
  BY DEF CallInv
<1>3. PointerInv'
  BY DEF TypeOK, SlotsType, PointerInv
<1>4. ProbeInv'
  BY DEF ProbeInv
<1>5. ResyncInv'
  BY DEF ResyncInv
<1>6. NoLostChange'
  BY DEF TypeOK, ReaderType, NoLostChange
<1>7. StatusResyncs'
  BY DEF StatusResyncs
<1>8. NoNullDereference'
  BY DEF NoNullDereference
<1> QED
  BY <1>1, <1>2, <1>3, <1>4, <1>5, <1>6, <1>7, <1>8

\* A card is removed: its object, if any, is now that of a card that has left.
LEMMA StepRemove ==
    ASSUME IInv, NEW s \in Slots, Remove(s)
    PROVE  IInv'
<1> USE MaxSlotsAssumption, MaxTimeoutAssumption, MaxLengthsAssumption,
        NoneAssumption
    DEF IInv, Slots, ProbePcs, Probing, reader, slots, call, history, Remove,
        Moves
<1>1. TypeOK'
  <2>1. ReaderType'
    BY DEF TypeOK, ReaderType
  <2>2. SlotsType'
    BY DEF TypeOK, SlotsType
  <2>3. CallType'
    BY DEF TypeOK, CallType
  <2>4. HistoryType'
    BY DEF TypeOK, HistoryType
  <2> QED
    BY <2>1, <2>2, <2>3, <2>4 DEF TypeOK
<1>2. CallInv'
  BY DEF CallInv
<1>3. PointerInv'
  BY DEF TypeOK, SlotsType, PointerInv
<1>4. ProbeInv'
  BY DEF ProbeInv
<1>5. ResyncInv'
  BY DEF ResyncInv
<1>6. NoLostChange'
  BY DEF TypeOK, ReaderType, NoLostChange
<1>7. StatusResyncs'
  BY DEF StatusResyncs
<1>8. NoNullDereference'
  BY DEF NoNullDereference
<1> QED
  BY <1>1, <1>2, <1>3, <1>4, <1>5, <1>6, <1>7, <1>8

\* CardTerminal_Init begins with one slot.
LEMMA StepOpen ==
    ASSUME IInv, Open
    PROVE  IInv'
<1> USE MaxSlotsAssumption, MaxTimeoutAssumption, MaxLengthsAssumption,
        NoneAssumption
    DEF IInv, Slots, ProbePcs, Probing, reader, slots, call, history, Open
<1>1. TypeOK'
  <2>1. ReaderType'
    BY DEF TypeOK, ReaderType
  <2>2. SlotsType'
    BY DEF TypeOK, SlotsType
  <2>3. CallType'
    <3>1. sn' \in Slots /\ timer' \in 0 .. MaxTimeout
      OBVIOUS
    <3>2. timed' \in BOOLEAN /\ seen' \in BOOLEAN /\ change' \in BOOLEAN
      OBVIOUS
    <3> QED
      BY <3>1, <3>2 DEF CallType
  <2>4. HistoryType'
    BY DEF HistoryType
  <2> QED
    BY <2>1, <2>2, <2>3, <2>4 DEF TypeOK
<1>2. CallInv'
  BY DEF TypeOK, ReaderType, CallInv
<1>3. PointerInv'
  BY DEF CallInv, PointerInv
<1>4. ProbeInv'
  BY DEF ProbeInv
<1>5. ResyncInv'
  BY DEF ResyncInv
<1>6. NoLostChange'
  BY DEF NoLostChange
<1>7. StatusResyncs'
  BY DEF StatusResyncs
<1>8. NoNullDereference'
  BY DEF NoNullDereference
<1> QED
  BY <1>1, <1>2, <1>3, <1>4, <1>5, <1>6, <1>7, <1>8

\* A slot gets its reader object.
LEMMA StepInitSlot ==
    ASSUME IInv, InitSlot
    PROVE  IInv'
<1> USE MaxSlotsAssumption, MaxTimeoutAssumption, MaxLengthsAssumption,
        NoneAssumption
    DEF IInv, Slots, ProbePcs, Probing, reader, slots, call, history, InitSlot, NextSlotOr,
        Return
<1>1. TypeOK'
  <2>1. ReaderType'
    BY DEF TypeOK, ReaderType
  <2>2. SlotsType'
    BY DEF TypeOK, ReaderType, SlotsType, CallType, CallInv
  <2>3. CallType'
    <3>1. sn' \in Slots /\ timer' \in 0 .. MaxTimeout
      BY DEF TypeOK, ReaderType, SlotsType, CallType
    <3>2. timed' \in BOOLEAN /\ seen' \in BOOLEAN /\ change' \in BOOLEAN
      BY DEF TypeOK, CallType
    <3> QED
      BY <3>1, <3>2 DEF TypeOK, CallType
  <2>4. HistoryType'
    BY DEF TypeOK, HistoryType
  <2> QED
    BY <2>1, <2>2, <2>3, <2>4 DEF TypeOK
<1>2. CallInv'
  BY DEF TypeOK, ReaderType, CallType, CallInv
<1>3. PointerInv'
  BY DEF TypeOK, SlotsType, CallType, CallInv, PointerInv
<1>4. ProbeInv'
  BY DEF ProbeInv
<1>5. ResyncInv'
  BY DEF ResyncInv
<1>6. NoLostChange'
  BY DEF NoLostChange
<1>7. StatusResyncs'
  BY DEF StatusResyncs
<1>8. NoNullDereference'
  BY DEF NoNullDereference
<1> QED
  BY <1>1, <1>2, <1>3, <1>4, <1>5, <1>6, <1>7, <1>8

\* A slot gets no reader object: the terminal is closed, or broken.
LEMMA StepInitSlotFails ==
    ASSUME IInv, InitSlotFails
    PROVE  IInv'
<1> USE MaxSlotsAssumption, MaxTimeoutAssumption, MaxLengthsAssumption,
        NoneAssumption
    DEF IInv, Slots, ProbePcs, Probing, reader, slots, call, history, InitSlotFails, Return
<1>1. TypeOK'
  <2>1. ReaderType'
    BY DEF TypeOK, ReaderType
  <2>2. SlotsType'
    <3>1. ifd' \in [Slots -> BOOLEAN]
      BY DEF TypeOK, SlotsType
    <3> QED
      BY <3>1 DEF TypeOK, SlotsType
  <2>3. CallType'
    BY DEF TypeOK, CallType
  <2>4. HistoryType'
    BY DEF TypeOK, HistoryType
  <2> QED
    BY <2>1, <2>2, <2>3, <2>4 DEF TypeOK
<1>2. CallInv'
  BY DEF TypeOK, ReaderType, CallInv
<1>3. PointerInv'
  BY DEF PointerInv
<1>4. ProbeInv'
  BY DEF ProbeInv
<1>5. ResyncInv'
  BY DEF ResyncInv
<1>6. NoLostChange'
  BY DEF NoLostChange
<1>7. StatusResyncs'
  BY DEF StatusResyncs
<1>8. NoNullDereference'
  BY DEF NoNullDereference
<1> QED
  BY <1>1, <1>2, <1>3, <1>4, <1>5, <1>6, <1>7, <1>8

\* All objects of a slot are deleted.
LEMMA StepCloseSlot ==
    ASSUME IInv, CloseSlot
    PROVE  IInv'
<1> USE MaxSlotsAssumption, MaxTimeoutAssumption, MaxLengthsAssumption,
        NoneAssumption
    DEF IInv, Slots, ProbePcs, Probing, reader, slots, call, history, CloseSlot, DropIcc, Goto,
        Return
<1>1. TypeOK'
  <2>1. ReaderType'
    BY DEF TypeOK, ReaderType
  <2>2. SlotsType'
    BY DEF TypeOK, SlotsType, CallType
  <2>3. CallType'
    BY DEF TypeOK, SlotsType, CallType
  <2>4. HistoryType'
    BY DEF TypeOK, HistoryType
  <2> QED
    BY <2>1, <2>2, <2>3, <2>4 DEF TypeOK
<1>2. CallInv'
  BY DEF TypeOK, ReaderType, CallInv
<1>3. PointerInv'
  BY DEF TypeOK, SlotsType, CallType, PointerInv
<1>4. ProbeInv'
  BY DEF ProbeInv
<1>5. ResyncInv'
  BY DEF ResyncInv
<1>6. NoLostChange'
  BY DEF TypeOK, SlotsType, CallType, NoLostChange
<1>7. StatusResyncs'
  BY DEF StatusResyncs
<1>8. NoNullDereference'
  BY DEF NoNullDereference
<1> QED
  BY <1>1, <1>2, <1>3, <1>4, <1>5, <1>6, <1>7, <1>8

\* The reader's status is read, which clears its change bit.
LEMMA StepCheck ==
    ASSUME IInv, Check
    PROVE  IInv'
<1> USE MaxSlotsAssumption, MaxTimeoutAssumption, MaxLengthsAssumption,
        NoneAssumption
    DEF IInv, Slots, ProbePcs, Probing, reader, slots, call, history, Check, AfterCheck
<1>1. TypeOK'
  <2>1. ReaderType'
    BY DEF TypeOK, ReaderType
  <2>2. SlotsType'
    BY DEF TypeOK, SlotsType
  <2>3. CallType'
    <3>1. sn' \in Slots /\ timer' \in 0 .. MaxTimeout
      BY DEF TypeOK, CallType
    <3>2. timed' \in BOOLEAN /\ seen' \in BOOLEAN /\ change' \in BOOLEAN
      BY DEF TypeOK, CallType
    <3> QED
      BY <3>1, <3>2 DEF TypeOK, CallType
  <2>4. HistoryType'
    BY DEF TypeOK, HistoryType
  <2> QED
    BY <2>1, <2>2, <2>3, <2>4 DEF TypeOK
<1>2. CallInv'
  BY DEF CallInv
<1>3. PointerInv'
  BY DEF PointerInv
<1>4. ProbeInv'
  BY DEF ProbeInv
<1>5. ResyncInv'
  BY DEF TypeOK, CallType, ResyncInv, Synced, NoLostChange
<1>6. NoLostChange'
  BY DEF TypeOK, SlotsType, NoLostChange, PointerInv, ProbeInv
<1>7. StatusResyncs'
  BY DEF StatusResyncs
<1>8. NoNullDereference'
  BY DEF NoNullDereference
<1> QED
  BY <1>1, <1>2, <1>3, <1>4, <1>5, <1>6, <1>7, <1>8

\* The reader does not answer.
LEMMA StepCheckFails ==
    ASSUME IInv, CheckFails
    PROVE  IInv'
<1> USE MaxSlotsAssumption, MaxTimeoutAssumption, MaxLengthsAssumption,
        NoneAssumption
    DEF IInv, Slots, ProbePcs, Probing, reader, slots, call, history, CheckFails, Return
<1>1. TypeOK'
  <2>1. ReaderType'
    BY DEF TypeOK, ReaderType
  <2>2. SlotsType'
    BY DEF TypeOK, SlotsType
  <2>3. CallType'
    BY DEF TypeOK, CallType
  <2>4. HistoryType'
    BY DEF TypeOK, HistoryType
  <2> QED
    BY <2>1, <2>2, <2>3, <2>4 DEF TypeOK
<1>2. CallInv'
  BY DEF CallInv
<1>3. PointerInv'
  BY DEF PointerInv
<1>4. ProbeInv'
  BY DEF ProbeInv
<1>5. ResyncInv'
  BY DEF ResyncInv
<1>6. NoLostChange'
  BY DEF NoLostChange
<1>7. StatusResyncs'
  BY DEF StatusResyncs
<1>8. NoNullDereference'
  BY DEF NoNullDereference
<1> QED
  BY <1>1, <1>2, <1>3, <1>4, <1>5, <1>6, <1>7, <1>8

\* The card object of a slot is deleted.
LEMMA StepRelease ==
    ASSUME IInv, Release
    PROVE  IInv'
<1> USE MaxSlotsAssumption, MaxTimeoutAssumption, MaxLengthsAssumption,
        NoneAssumption
    DEF IInv, Slots, ProbePcs, Probing, reader, slots, call, history, Release, DropIcc, Goto,
        Return
<1>1. TypeOK'
  <2>1. ReaderType'
    BY DEF TypeOK, ReaderType
  <2>2. SlotsType'
    BY DEF TypeOK, SlotsType
  <2>3. CallType'
    BY DEF TypeOK, CallType
  <2>4. HistoryType'
    BY DEF TypeOK, HistoryType
  <2> QED
    BY <2>1, <2>2, <2>3, <2>4 DEF TypeOK
<1>2. CallInv'
  BY DEF CallInv
<1>3. PointerInv'
  BY DEF TypeOK, SlotsType, PointerInv
<1>4. ProbeInv'
  BY DEF TypeOK, SlotsType, CallType, ProbeInv
<1>5. ResyncInv'
  BY DEF TypeOK, SlotsType, CallType, ResyncInv, Synced
<1>6. NoLostChange'
  BY DEF TypeOK, SlotsType, NoLostChange
<1>7. StatusResyncs'
  BY DEF StatusResyncs
<1>8. NoNullDereference'
  BY DEF NoNullDereference
<1> QED
  BY <1>1, <1>2, <1>3, <1>4, <1>5, <1>6, <1>7, <1>8

\* ICC_Sync_Init looks for a memory card.
LEMMA StepProbeSync ==
    ASSUME IInv, ProbeSync
    PROVE  IInv'
<1> USE MaxSlotsAssumption, MaxTimeoutAssumption, MaxLengthsAssumption,
        NoneAssumption
    DEF IInv, Slots, ProbePcs, Probing, reader, slots, call, history, ProbeSync,
        Activate, Goto
<1>1. TypeOK'
  <2>1. ReaderType'
    BY DEF TypeOK, ReaderType
  <2>2. SlotsType'
    BY DEF TypeOK, SlotsType
  <2>3. CallType'
    BY DEF TypeOK, CallType
  <2>4. HistoryType'
    BY DEF TypeOK, HistoryType
  <2> QED
    BY <2>1, <2>2, <2>3, <2>4 DEF TypeOK
<1>2. CallInv'
  BY DEF CallInv
<1>3. PointerInv'
  BY DEF TypeOK, SlotsType, CallInv, PointerInv
<1>4. ProbeInv'
  BY DEF TypeOK, SlotsType, CallType, ProbeInv
<1>5. ResyncInv'
  BY DEF ResyncInv
<1>6. NoLostChange'
  BY DEF TypeOK, ReaderType, CallInv, NoLostChange, PointerInv, ProbeInv
<1>7. StatusResyncs'
  BY DEF StatusResyncs
<1>8. NoNullDereference'
  BY DEF NoNullDereference
<1> QED
  BY <1>1, <1>2, <1>3, <1>4, <1>5, <1>6, <1>7, <1>8

\* ICC_Sync_Init tries whether a card without an ATR confirms an address.
LEMMA StepProbeType ==
    ASSUME IInv, ProbeType
    PROVE  IInv'
<1> USE MaxSlotsAssumption, MaxTimeoutAssumption, MaxLengthsAssumption,
        NoneAssumption
    DEF IInv, Slots, ProbePcs, Probing, reader, slots, call, history, ProbeType,
        Activate, ProbeStatus, ProbeGivesUp
<1>1. TypeOK'
  <2>1. ReaderType'
    BY DEF TypeOK, ReaderType
  <2>2. SlotsType'
    BY DEF TypeOK, SlotsType
  <2>3. CallType'
    BY DEF TypeOK, CallType
  <2>4. HistoryType'
    BY DEF TypeOK, HistoryType
  <2> QED
    BY <2>1, <2>2, <2>3, <2>4 DEF TypeOK
<1>2. CallInv'
  BY DEF CallInv
<1>3. PointerInv'
  BY DEF TypeOK, SlotsType, CallInv, PointerInv, ProbeInv
<1>4. ProbeInv'
  BY DEF TypeOK, SlotsType, CallType, ProbeInv
<1>5. ResyncInv'
  BY DEF ResyncInv
<1>6. NoLostChange'
  BY DEF TypeOK, ReaderType, SlotsType, CallInv, NoLostChange, PointerInv,
         ProbeInv
<1>7. StatusResyncs'
  BY DEF StatusResyncs
<1>8. NoNullDereference'
  BY DEF NoNullDereference
<1> QED
  BY <1>1, <1>2, <1>3, <1>4, <1>5, <1>6, <1>7, <1>8

\* ICC_Sync_Init tries one length of the memory.
LEMMA StepProbeLength ==
    ASSUME IInv, ProbeLength
    PROVE  IInv'
<1> USE MaxSlotsAssumption, MaxTimeoutAssumption, MaxLengthsAssumption,
        NoneAssumption
    DEF IInv, Slots, ProbePcs, Probing, reader, slots, call, history, ProbeLength,
        Activate, ProbeStatus, ProbeGivesUp
<1>1. TypeOK'
  <2>1. ReaderType'
    BY DEF TypeOK, ReaderType
  <2>2. SlotsType'
    BY DEF TypeOK, SlotsType
  <2>3. CallType'
    BY DEF TypeOK, CallType
  <2>4. HistoryType'
    BY DEF TypeOK, HistoryType
  <2> QED
    BY <2>1, <2>2, <2>3, <2>4 DEF TypeOK
<1>2. CallInv'
  BY DEF CallInv
<1>3. PointerInv'
  BY DEF TypeOK, SlotsType, CallInv, PointerInv, ProbeInv
<1>4. ProbeInv'
  BY DEF TypeOK, SlotsType, CallType, ProbeInv
<1>5. ResyncInv'
  BY DEF ResyncInv
<1>6. NoLostChange'
  BY DEF TypeOK, ReaderType, SlotsType, CallInv, NoLostChange, PointerInv,
         ProbeInv
<1>7. StatusResyncs'
  BY DEF StatusResyncs
<1>8. NoNullDereference'
  BY DEF NoNullDereference
<1> QED
  BY <1>1, <1>2, <1>3, <1>4, <1>5, <1>6, <1>7, <1>8

\* ICC_Async_Init looks for a processor card.
LEMMA StepProbeAsync ==
    ASSUME IInv, ProbeAsync
    PROVE  IInv'
<1> USE MaxSlotsAssumption, MaxTimeoutAssumption, MaxLengthsAssumption,
        NoneAssumption
    DEF IInv, Slots, ProbePcs, Probing, reader, slots, call, history, ProbeAsync,
        Activate, Goto, Return
<1>1. TypeOK'
  <2>1. ReaderType'
    BY DEF TypeOK, ReaderType
  <2>2. SlotsType'
    BY DEF TypeOK, SlotsType
  <2>3. CallType'
    BY DEF TypeOK, CallType
  <2>4. HistoryType'
    BY DEF TypeOK, HistoryType
  <2> QED
    BY <2>1, <2>2, <2>3, <2>4 DEF TypeOK
<1>2. CallInv'
  BY DEF CallInv
<1>3. PointerInv'
  BY DEF TypeOK, SlotsType, CallInv, PointerInv
<1>4. ProbeInv'
  BY DEF TypeOK, SlotsType, CallType, ProbeInv
<1>5. ResyncInv'
  BY DEF ResyncInv
<1>6. NoLostChange'
  BY DEF NoLostChange
<1>7. StatusResyncs'
  BY DEF StatusResyncs
<1>8. NoNullDereference'
  BY DEF NoNullDereference
<1> QED
  BY <1>1, <1>2, <1>3, <1>4, <1>5, <1>6, <1>7, <1>8

\* No memory for the card object.
LEMMA StepProbeNoMemory ==
    ASSUME IInv, ProbeNoMemory
    PROVE  IInv'
<1> USE MaxSlotsAssumption, MaxTimeoutAssumption, MaxLengthsAssumption,
        NoneAssumption
    DEF IInv, Slots, ProbePcs, Probing, reader, slots, call, history, ProbeNoMemory, Return
<1>1. TypeOK'
  <2>1. ReaderType'
    BY DEF TypeOK, ReaderType
  <2>2. SlotsType'
    BY DEF TypeOK, SlotsType
  <2>3. CallType'
    BY DEF TypeOK, CallType
  <2>4. HistoryType'
    BY DEF TypeOK, HistoryType
  <2> QED
    BY <2>1, <2>2, <2>3, <2>4 DEF TypeOK
<1>2. CallInv'
  BY DEF CallInv
<1>3. PointerInv'
  BY DEF PointerInv
<1>4. ProbeInv'
  BY DEF ProbeInv
<1>5. ResyncInv'
  BY DEF ResyncInv
<1>6. NoLostChange'
  BY DEF NoLostChange
<1>7. StatusResyncs'
  BY DEF StatusResyncs
<1>8. NoNullDereference'
  BY DEF NoNullDereference
<1> QED
  BY <1>1, <1>2, <1>3, <1>4, <1>5, <1>6, <1>7, <1>8

\* The card object gets its protocol.
LEMMA StepProbeProtocol ==
    ASSUME IInv, ProbeProtocol
    PROVE  IInv'
<1> USE MaxSlotsAssumption, MaxTimeoutAssumption, MaxLengthsAssumption,
        NoneAssumption
    DEF IInv, Slots, ProbePcs, Probing, reader, slots, call, history, ProbeProtocol, Return
<1>1. TypeOK'
  <2>1. ReaderType'
    BY DEF TypeOK, ReaderType
  <2>2. SlotsType'
    BY DEF TypeOK, SlotsType
  <2>3. CallType'
    BY DEF TypeOK, CallType
  <2>4. HistoryType'
    BY DEF TypeOK, HistoryType
  <2> QED
    BY <2>1, <2>2, <2>3, <2>4 DEF TypeOK
<1>2. CallInv'
  BY DEF CallInv
<1>3. PointerInv'
  <2>1. icc[sn] # "null"
    BY DEF ProbeInv
  <2>2. UNCHANGED <<icc, ifd, moved, numSlots, broken, op, sn>> /\ pc' = "idle"
    OBVIOUS
  <2>3. \A s \in Slots : protocol'[s] # "null" => icc[s] # "null"
    BY <2>1 DEF PointerInv
  <2> QED
    BY <2>2, <2>3 DEF PointerInv
<1>4. ProbeInv'
  BY DEF ProbeInv
<1>5. ResyncInv'
  BY DEF ResyncInv
<1>6. NoLostChange'
  BY DEF NoLostChange
<1>7. StatusResyncs'
  BY DEF StatusResyncs
<1>8. NoNullDereference'
  BY DEF NoNullDereference
<1> QED
  BY <1>1, <1>2, <1>3, <1>4, <1>5, <1>6, <1>7, <1>8

\* No protocol: the card object goes again.
LEMMA StepProbeProtocolFails ==
    ASSUME IInv, ProbeProtocolFails
    PROVE  IInv'
<1> USE MaxSlotsAssumption, MaxTimeoutAssumption, MaxLengthsAssumption,
        NoneAssumption
    DEF IInv, Slots, ProbePcs, Probing, reader, slots, call, history, ProbeProtocolFails,
        DropIcc, Return
<1>1. TypeOK'
  <2>1. ReaderType'
    BY DEF TypeOK, ReaderType
  <2>2. SlotsType'
    BY DEF TypeOK, SlotsType
  <2>3. CallType'
    BY DEF TypeOK, CallType
  <2>4. HistoryType'
    BY DEF TypeOK, HistoryType
  <2> QED
    BY <2>1, <2>2, <2>3, <2>4 DEF TypeOK
<1>2. CallInv'
  BY DEF CallInv
<1>3. PointerInv'
  BY DEF TypeOK, SlotsType, PointerInv
<1>4. ProbeInv'
  BY DEF ProbeInv
<1>5. ResyncInv'
  BY DEF ResyncInv
<1>6. NoLostChange'
  BY DEF TypeOK, SlotsType, CallType, NoLostChange
<1>7. StatusResyncs'
  BY DEF StatusResyncs
<1>8. NoNullDereference'
  BY DEF NoNullDereference
<1> QED
  BY <1>1, <1>2, <1>3, <1>4, <1>5, <1>6, <1>7, <1>8

\* RESET ICC begins.
LEMMA StepSelectReset ==
    ASSUME IInv, SelectReset
    PROVE  IInv'
<1> USE MaxSlotsAssumption, MaxTimeoutAssumption, MaxLengthsAssumption,
        NoneAssumption
    DEF IInv, Slots, ProbePcs, Probing, reader, slots, call, history, SelectReset, Goto, Return
<1>1. TypeOK'
  <2>1. ReaderType'
    BY DEF TypeOK, ReaderType
  <2>2. SlotsType'
    BY DEF TypeOK, SlotsType
  <2>3. CallType'
    BY DEF TypeOK, CallType
  <2>4. HistoryType'
    BY DEF TypeOK, HistoryType
  <2> QED
    BY <2>1, <2>2, <2>3, <2>4 DEF TypeOK
<1>2. CallInv'
  BY DEF CallInv
<1>3. PointerInv'
  BY DEF PointerInv
<1>4. ProbeInv'
  BY DEF ProbeInv
<1>5. ResyncInv'
  BY DEF ResyncInv
<1>6. NoLostChange'
  BY DEF NoLostChange
<1>7. StatusResyncs'
  BY DEF StatusResyncs
<1>8. NoNullDereference'
  BY DEF NoNullDereference
<1> QED
  BY <1>1, <1>2, <1>3, <1>4, <1>5, <1>6, <1>7, <1>8

\* REQUEST ICC begins.
LEMMA StepSelectRequest ==
    ASSUME IInv, SelectRequest
    PROVE  IInv'
<1> USE MaxSlotsAssumption, MaxTimeoutAssumption, MaxLengthsAssumption,
        NoneAssumption
    DEF IInv, Slots, ProbePcs, Probing, reader, slots, call, history, SelectRequest, Goto, Return
<1>1. TypeOK'
  <2>1. ReaderType'
    BY DEF TypeOK, ReaderType
  <2>2. SlotsType'
    BY DEF TypeOK, SlotsType
  <2>3. CallType'
    BY DEF TypeOK, CallType
  <2>4. HistoryType'
    BY DEF TypeOK, HistoryType
  <2> QED
    BY <2>1, <2>2, <2>3, <2>4 DEF TypeOK
<1>2. CallInv'
  BY DEF CallInv
<1>3. PointerInv'
  BY DEF PointerInv
<1>4. ProbeInv'
  BY DEF ProbeInv
<1>5. ResyncInv'
  BY DEF ResyncInv
<1>6. NoLostChange'
  BY DEF NoLostChange
<1>7. StatusResyncs'
  BY DEF StatusResyncs
<1>8. NoNullDereference'
  BY DEF NoNullDereference
<1> QED
  BY <1>1, <1>2, <1>3, <1>4, <1>5, <1>6, <1>7, <1>8

\* EJECT ICC begins.
LEMMA StepSelectEject ==
    ASSUME IInv, SelectEject
    PROVE  IInv'
<1> USE MaxSlotsAssumption, MaxTimeoutAssumption, MaxLengthsAssumption,
        NoneAssumption
    DEF IInv, Slots, ProbePcs, Probing, reader, slots, call, history, SelectEject, Goto, Return
<1>1. TypeOK'
  <2>1. ReaderType'
    BY DEF TypeOK, ReaderType
  <2>2. SlotsType'
    BY DEF TypeOK, SlotsType
  <2>3. CallType'
    BY DEF TypeOK, CallType
  <2>4. HistoryType'
    BY DEF TypeOK, HistoryType
  <2> QED
    BY <2>1, <2>2, <2>3, <2>4 DEF TypeOK
<1>2. CallInv'
  BY DEF CallInv
<1>3. PointerInv'
  BY DEF PointerInv
<1>4. ProbeInv'
  BY DEF ProbeInv
<1>5. ResyncInv'
  BY DEF ResyncInv
<1>6. NoLostChange'
  BY DEF NoLostChange
<1>7. StatusResyncs'
  BY DEF StatusResyncs
<1>8. NoNullDereference'
  BY DEF NoNullDereference
<1> QED
  BY <1>1, <1>2, <1>3, <1>4, <1>5, <1>6, <1>7, <1>8

\* The commands that look at no slot.
LEMMA StepTerminal ==
    ASSUME IInv, Manufacturer \/ WrongCommand
    PROVE  IInv'
<1> USE MaxSlotsAssumption, MaxTimeoutAssumption, MaxLengthsAssumption,
        NoneAssumption
    DEF IInv, Slots, ProbePcs, Probing, reader, slots, call, history, Manufacturer, WrongCommand,
        Return
<1>1. TypeOK'
  <2>1. ReaderType'
    BY DEF TypeOK, ReaderType
  <2>2. SlotsType'
    BY DEF TypeOK, SlotsType
  <2>3. CallType'
    BY DEF TypeOK, CallType
  <2>4. HistoryType'
    BY DEF TypeOK, HistoryType
  <2> QED
    BY <2>1, <2>2, <2>3, <2>4 DEF TypeOK
<1>2. CallInv'
  BY DEF CallInv
<1>3. PointerInv'
  BY DEF PointerInv
<1>4. ProbeInv'
  BY DEF ProbeInv
<1>5. ResyncInv'
  BY DEF ResyncInv
<1>6. NoLostChange'
  BY DEF NoLostChange
<1>7. StatusResyncs'
  BY DEF StatusResyncs
<1>8. NoNullDereference'
  BY DEF NoNullDereference
<1> QED
  BY <1>1, <1>2, <1>3, <1>4, <1>5, <1>6, <1>7, <1>8

\* CT_Slot_Command.
LEMMA StepSlotCommand ==
    ASSUME IInv, SlotCommand
    PROVE  IInv'
<1> USE MaxSlotsAssumption, MaxTimeoutAssumption, MaxLengthsAssumption,
        NoneAssumption
    DEF IInv, Slots, ProbePcs, Probing, reader, slots, call, history, SlotCommand,
        Activate, Return
<1>1. TypeOK'
  <2>1. ReaderType'
    BY DEF TypeOK, ReaderType
  <2>2. SlotsType'
    BY DEF TypeOK, SlotsType
  <2>3. CallType'
    BY DEF TypeOK, CallType
  <2>4. HistoryType'
    BY DEF TypeOK, HistoryType
  <2> QED
    BY <2>1, <2>2, <2>3, <2>4 DEF TypeOK
<1>2. CallInv'
  BY DEF CallInv
<1>3. PointerInv'
  BY DEF PointerInv
<1>4. ProbeInv'
  BY DEF ProbeInv
<1>5. ResyncInv'
  BY DEF ResyncInv
<1>6. NoLostChange'
  BY DEF NoLostChange
<1>7. StatusResyncs'
  BY DEF StatusResyncs
<1>8. NoNullDereference'
  BY DEF NoNullDereference
<1> QED
  BY <1>1, <1>2, <1>3, <1>4, <1>5, <1>6, <1>7, <1>8

\* GET STATUS goes on with the next slot.
LEMMA StepStatusNext ==
    ASSUME IInv, StatusNext
    PROVE  IInv'
<1> USE MaxSlotsAssumption, MaxTimeoutAssumption, MaxLengthsAssumption,
        NoneAssumption
    DEF IInv, Slots, ProbePcs, Probing, reader, slots, call, history, StatusNext, NextSlotOr,
        Return
<1>1. TypeOK'
  <2>1. ReaderType'
    BY DEF TypeOK, ReaderType
  <2>2. SlotsType'
    BY DEF TypeOK, SlotsType
  <2>3. CallType'
    <3>1. sn' \in Slots /\ timer' \in 0 .. MaxTimeout
      BY DEF TypeOK, SlotsType, CallType
    <3>2. timed' \in BOOLEAN /\ seen' \in BOOLEAN /\ change' \in BOOLEAN
      BY DEF TypeOK, CallType
    <3> QED
      BY <3>1, <3>2 DEF TypeOK, CallType
  <2>4. HistoryType'
    BY DEF TypeOK, HistoryType
  <2> QED
    BY <2>1, <2>2, <2>3, <2>4 DEF TypeOK
<1>2. CallInv'
  BY DEF CallInv
<1>3. PointerInv'
  BY DEF PointerInv
<1>4. ProbeInv'
  BY DEF CallInv, ProbeInv
<1>5. ResyncInv'
  BY DEF TypeOK, CallType, ResyncInv, Synced
<1>6. NoLostChange'
  BY DEF NoLostChange
<1>7. StatusResyncs'
  BY DEF TypeOK, SlotsType, CallType, CallInv, StatusResyncs, ResyncInv,
         Synced, PointerInv
<1>8. NoNullDereference'
  BY DEF NoNullDereference
<1> QED
  BY <1>1, <1>2, <1>3, <1>4, <1>5, <1>6, <1>7, <1>8

\* A pointer is followed that is no pointer.
LEMMA StepNullDereference ==
    ASSUME IInv, NullDereference
    PROVE  IInv'
<1> USE MaxSlotsAssumption, MaxTimeoutAssumption, MaxLengthsAssumption,
        NoneAssumption
    DEF IInv, Slots, ProbePcs, Probing, reader, slots, call, history, NullDereference, Goto
<1>1. TypeOK'
  <2>1. ReaderType'
    BY DEF TypeOK, ReaderType
  <2>2. SlotsType'
    BY DEF TypeOK, SlotsType
  <2>3. CallType'
    BY DEF TypeOK, CallType
  <2>4. HistoryType'
    BY DEF TypeOK, HistoryType
  <2> QED
    BY <2>1, <2>2, <2>3, <2>4 DEF TypeOK
<1>2. CallInv'
  BY DEF CallInv
<1>3. PointerInv'
  BY DEF PointerInv
<1>4. ProbeInv'
  BY DEF ProbeInv
<1>5. ResyncInv'
  BY DEF ResyncInv
<1>6. NoLostChange'
  BY DEF NoLostChange, PointerInv
<1>7. StatusResyncs'
  BY DEF StatusResyncs
<1>8. NoNullDereference'
  BY DEF TypeOK, CallType, CallInv, PointerInv, NoNullDereference
<1> QED
  BY <1>1, <1>2, <1>3, <1>4, <1>5, <1>6, <1>7, <1>8

\* A command begins.
LEMMA StepBegin ==
    ASSUME IInv, NEW o, NEW s \in Slots, NEW t \in 0 .. MaxTimeout, NEW first,
           Begin(o, s, t, first),
           \/ o \in {"close", "reset"} /\ s = 0 /\ first = "close_slot"
           \/ o = "status" /\ s = 0 /\ first = "check"
           \/ /\ o \in {"manufacturer", "other", "reset_icc", "command",
                       "request", "eject"}
              /\ first = "select"
    PROVE  IInv'
<1> USE MaxSlotsAssumption, MaxTimeoutAssumption, MaxLengthsAssumption,
        NoneAssumption
    DEF IInv, Slots, ProbePcs, Probing, reader, slots, call, history, Begin
<1>1. TypeOK'
  <2>1. ReaderType'
    BY DEF TypeOK, ReaderType
  <2>2. SlotsType'
    BY DEF TypeOK, SlotsType
  <2>3. CallType'
    <3>1. sn' \in Slots /\ timer' \in 0 .. MaxTimeout /\ lengths' \in 0 .. MaxLengths
      OBVIOUS
    <3>2. timed' \in BOOLEAN /\ seen' \in BOOLEAN /\ change' \in BOOLEAN
      OBVIOUS
    <3> QED
      BY <3>1, <3>2 DEF CallType
  <2>4. HistoryType'
    BY DEF TypeOK, HistoryType
  <2> QED
    BY <2>1, <2>2, <2>3, <2>4 DEF TypeOK
<1>2. CallInv'
  BY DEF CallInv
<1>3. PointerInv'
  BY DEF PointerInv
<1>4. ProbeInv'
  BY DEF ProbeInv
<1>5. ResyncInv'
  BY DEF ResyncInv
<1>6. NoLostChange'
  BY DEF NoLostChange
<1>7. StatusResyncs'
  BY DEF StatusResyncs
<1>8. NoNullDereference'
  BY DEF NoNullDereference
<1> QED
  BY <1>1, <1>2, <1>3, <1>4, <1>5, <1>6, <1>7, <1>8

-----------------------------------------------------------------------------

\* At the start the terminal is closed.
LEMMA InitInv == Init => IInv
<1> SUFFICES ASSUME Init PROVE IInv
  OBVIOUS
<1> USE MaxSlotsAssumption, MaxTimeoutAssumption, MaxLengthsAssumption,
        NoneAssumption
    DEF Init, Slots, ProbePcs, Probing
<1>1. TypeOK
  <2>1. ReaderType
    BY DEF ReaderType
  <2>2. SlotsType
    BY DEF SlotsType
  <2>3. CallType
    <3>1. timed \in BOOLEAN /\ seen \in BOOLEAN /\ change \in BOOLEAN
      OBVIOUS
    <3> QED
      BY <3>1 DEF CallType
  <2>4. HistoryType
    BY DEF HistoryType
  <2> QED
    BY <2>1, <2>2, <2>3, <2>4 DEF TypeOK
<1>2. CallInv /\ PointerInv /\ ProbeInv
  BY DEF CallInv, PointerInv, ProbeInv
<1>3. ResyncInv /\ NoLostChange /\ StatusResyncs /\ NoNullDereference
  BY DEF ResyncInv, NoLostChange, StatusResyncs, NoNullDereference
<1> QED
  BY <1>1, <1>2, <1>3 DEF IInv

\* Every step of a command and every movement of a card preserves IInv.
LEMMA NextInv == IInv /\ [Next]_vars => IInv'
<1> SUFFICES ASSUME IInv, [Next]_vars PROVE IInv'
  OBVIOUS
<1>1. CASE UNCHANGED vars
  BY <1>1
     DEF vars, reader, slots, call, history, IInv, TypeOK, ReaderType,
         SlotsType, CallType, HistoryType, ProbePcs, Probing, CallInv, PointerInv,
         ProbeInv,
         ResyncInv, Synced, NoLostChange, StatusResyncs, NoNullDereference
<1>2. CASE Step
  BY <1>2, StepInitSlot, StepInitSlotFails, StepCloseSlot, StepCheck,
     StepCheckFails, StepRelease, StepProbeSync, StepProbeType, StepProbeLength,
     StepProbeAsync, StepProbeNoMemory, StepProbeProtocol, StepProbeProtocolFails,
     StepSelectReset, StepSelectRequest, StepSelectEject, StepTerminal,
     StepSlotCommand, StepStatusNext, StepNullDereference
     DEF Step
<1>3. CASE Call
  <2> 0 \in Slots /\ 0 \in 0 .. MaxTimeout
    BY MaxSlotsAssumption, MaxTimeoutAssumption DEF Slots
  <2> QED
    BY <1>3, StepOpen, StepBegin DEF Call
<1>4. CASE Movement
  BY <1>4, StepInsert, StepRemove DEF Movement
<1> QED
  BY <1>1, <1>2, <1>3, <1>4 DEF Next

\* IInv holds in every state a terminal and its reader can reach.
THEOREM Invariant == Spec => []IInv
  BY InitInv, NextInv, PTL DEF Spec

\* Every variable keeps its type; no loop of cardterminal.c leaves ct->slots.
THEOREM TypeCorrect == Spec => []TypeOK
<1>1. IInv => TypeOK
  BY DEF IInv
<1> QED
  BY <1>1, Invariant, PTL

\* No command clears the change bit of a card it does not then forget.
THEOREM NoChangeIsLost == Spec => []NoLostChange
<1>1. IInv => NoLostChange
  BY DEF IInv
<1> QED
  BY <1>1, Invariant, PTL

\* GET STATUS leaves no slot with the object of a card that is gone.
THEOREM StatusFindsChanges == Spec => []StatusResyncs
<1>1. IInv => StatusResyncs
  BY DEF IInv
<1> QED
  BY <1>1, Invariant, PTL

\* Only the two known places follow a pointer that is no pointer.
THEOREM PointersAreValid == Spec => []NoNullDereference
<1>1. IInv => NoNullDereference
  BY DEF IInv
<1> QED
  BY <1>1, Invariant, PTL
=============================================================================
