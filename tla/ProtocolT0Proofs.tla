-------------------------- MODULE ProtocolT0Proofs --------------------------
(* Proofs about ProtocolT0, for every size of a short length, every bound on    *)
(* NULL bytes, every set of commands and every length of an answer: IInv is     *)
(* inductive, one lemma per action, and implies the invariants the model        *)
(* checker checks.                                                              *)
EXTENDS ProtocolT0, TLAPS

\* The length byte of any number is a byte.
LEMMA ByteRange == \A n \in Int : Byte(n) \in Bytes
  BY ShortAssumption DEF Byte, Bytes

\* A length byte stands for 1 to 256 bytes.
LEMMA LengthRange == \A b \in Bytes : Length(b) \in 1 .. Short
  BY ShortAssumption DEF Length, Bytes

\* A length from 1 to 256 survives the conversion to its byte and back.
LEMMA LengthOfByte == \A n \in 1 .. Short : Length(Byte(n)) = n
<1> SUFFICES ASSUME NEW n \in 1 .. Short PROVE Length(Byte(n)) = n
  OBVIOUS
<1>1. CASE n = Short
  BY <1>1, ShortAssumption DEF Length, Byte
<1>2. CASE n < Short
  BY <1>2, ShortAssumption DEF Length, Byte
<1> QED
  BY <1>1, <1>2, ShortAssumption

\* What the case of a command says about its lengths.
LEMMA CommandFacts ==
    ASSUME NEW a \in Commands
    PROVE  /\ a.case \in {"1", "2S", "3S", "4S", "2E", "3E", "4E", "malformed"}
           /\ a.lc \in Nat /\ a.le \in Nat
           /\ a.case \in {"2S", "4S"} => a.lc < Short
           /\ a.case \in {"3S", "4S"} => a.le \in 1 .. Short
           /\ a.case \in {"3E", "4E"} => a.le > 0
           /\ a.case \in {"1", "2S", "2E"} => a.le = 0
           /\ RawLen(a) \in Nat \ {0}
  BY ShortAssumption DEF Commands, RawLen

\* What earlier TPDUs have fetched is a number of bytes.
LEMMA FetchedType == IInv /\ Busy => Fetched \in Nat
  BY DEF IInv, Rsp, FnInv, Fetched

\* A transmission is not begun.
LEMMA StepBeginFails ==
    ASSUME IInv, BeginFails
    PROVE  IInv'
<1> USE ShortAssumption, BoundsAssumption
    DEF IInv, case, counters, exchange, card, SW1s, BeginFails, Fail, Fault
<1>1. CaseType'
  BY DEF TypeOK, CaseType
<1>2. ExchangeType'
  BY DEF TypeOK, ExchangeType
<1>3. CardType'
  BY DEF TypeOK, CardType
<1>4. OpenInv'
  BY DEF OpenInv
<1>5. FnInv'
  BY DEF Busy, FnInv
<1>6. AskInv'
  BY DEF Busy, AskInv
<1>7. PlanInv'
  BY DEF PlanInv
<1>8. ServeInv'
  BY DEF ServeInv
<1>9. ResponseInv'
  BY DEF ResponseInv
<1>10. BufferInBounds'
  BY DEF BufferInBounds
<1>11. TransmissionEnded'
  BY DEF TransmissionEnded
<1>12. CarriedOutOnce'
  BY DEF CarriedOutOnce
<1>13. AnswerComplete'
  BY DEF AnswerComplete
<1> QED
  BY <1>1, <1>2, <1>3, <1>4, <1>5, <1>6, <1>7, <1>8, <1>9, <1>10, <1>11,
     <1>12, <1>13 DEF TypeOK

\* A NULL byte.
LEMMA StepNull ==
    ASSUME IInv, Null
    PROVE  IInv'
<1> USE ShortAssumption, BoundsAssumption
    DEF IInv, case, counters, exchange, card, SW1s, Null, Break, Continue,
        NoFault
<1>1. CaseType'
  BY DEF TypeOK, CaseType
<1>2. ExchangeType'
  BY DEF TypeOK, ExchangeType, OpenInv
<1>3. CardType'
  BY DEF TypeOK, CardType
<1>4. OpenInv'
  BY DEF OpenInv
<1>5. FnInv'
  BY DEF Busy, FnInv
<1>6. AskInv'
  BY DEF Busy, AskInv, Fetched
<1>7. PlanInv'
  BY DEF PlanInv, Received, Sends, Executes
<1>8. ServeInv'
  BY DEF ServeInv, Unserved, Fetched
<1>9. ResponseInv'
  BY DEF ResponseInv
<1>10. BufferInBounds'
  BY DEF BufferInBounds
<1>11. TransmissionEnded'
  BY DEF TransmissionEnded
<1>12. CarriedOutOnce'
  BY DEF CarriedOutOnce
<1>13. AnswerComplete'
  BY DEF AnswerComplete
<1> QED
  BY <1>1, <1>2, <1>3, <1>4, <1>5, <1>6, <1>7, <1>8, <1>9, <1>10, <1>11,
     <1>12, <1>13 DEF TypeOK

\* The first status byte.
LEMMA StepSW1 ==
    ASSUME IInv, NEW s \in SW1s, SW1(s)
    PROVE  IInv'
<1> USE ShortAssumption, BoundsAssumption
    DEF IInv, case, counters, exchange, card, SW1s, SW1, EarlyReturn, Fail,
        NoFault
<1>0. strict => recv + 1 < MaxResponse
  BY DEF TypeOK, ExchangeType, Tpdus, PlanInv, Received, MaxResponse
<1>1. CaseType'
  BY DEF TypeOK, CaseType
<1>2. ExchangeType'
  BY DEF TypeOK, ExchangeType
<1>3. CardType'
  BY DEF TypeOK, CardType
<1>4. OpenInv'
  BY <1>0 DEF TypeOK, ExchangeType, OpenInv, MaxResponse
<1>5. FnInv'
  BY DEF Busy, FnInv
<1>6. AskInv'
  BY DEF Busy, AskInv, Fetched
<1>7. PlanInv'
  BY DEF TypeOK, ExchangeType, PlanInv, Received, Sends, Executes
<1>8. ServeInv'
  BY DEF ServeInv, Unserved, Fetched
<1>9. ResponseInv'
  BY DEF ResponseInv
<1>10. BufferInBounds'
  BY DEF TypeOK, ExchangeType, BufferInBounds, MaxResponse
<1>11. TransmissionEnded'
  BY <1>0 DEF TransmissionEnded, MaxResponse
<1>12. CarriedOutOnce'
  BY DEF CarriedOutOnce
<1>13. AnswerComplete'
  BY DEF AnswerComplete
<1> QED
  BY <1>1, <1>2, <1>3, <1>4, <1>5, <1>6, <1>7, <1>8, <1>9, <1>10, <1>11,
     <1>12, <1>13 DEF TypeOK

\* The second status byte, with which the card is done.
LEMMA StepSW2 ==
    ASSUME IInv, NEW s \in 0 .. Short - 1, SW2(s)
    PROVE  IInv'
<1> USE ShortAssumption, BoundsAssumption
    DEF IInv, case, counters, exchange, card, SW1s, SW2, Break, NoFault,
        Response, NoPlan
<1>0. strict => runs + (IF plan.run THEN 1 ELSE 0) <= 1
  BY DEF TypeOK, CardType, CardPlans, PlanInv, ServeInv, Unserved, Executes
<1>1. CaseType'
  BY DEF TypeOK, CaseType
<1>2. ExchangeType'
  BY DEF TypeOK, ExchangeType, OpenInv, Bytes, Rsp
<1>3. CardType'
  BY DEF TypeOK, ExchangeType, CardType, CardPlans, Bytes, OpenInv
<1>4. OpenInv'
  BY DEF OpenInv
<1>5. FnInv'
  BY DEF Busy, FnInv
<1>6. AskInv'
  <2>1. CASE ~strict
    BY <2>1 DEF AskInv
  <2>2. CASE strict /\ ~plan.run
    BY <2>2 DEF AskInv, Busy, Fetched
  <2>3. CASE strict /\ plan.run
    <3>1. tpdu.ins # "get" /\ runs = 0 /\ le = apdu.le
      BY <2>3
         DEF TypeOK, ExchangeType, PlanInv, Executes, ServeInv, Unserved,
             AskInv, Busy
    <3>2. apdu.le = 0 => total' = 0
      BY <2>3 DEF TypeOK, ExchangeType, PlanInv, Sends, Received
    <3> QED
      BY <2>3, <3>1, <3>2 DEF AskInv, Busy, Fetched
  <2> QED
    BY <2>1, <2>2, <2>3
<1>7. PlanInv'
  BY DEF PlanInv
<1>8. ServeInv'
  BY DEF ServeInv
<1>9. ResponseInv'
  <2> SUFFICES ASSUME strict PROVE ResponseInv'
    BY DEF ResponseInv
  <2>1. /\ got' = [len |-> recv - 1, sw1 |-> plan.sw1, sw2 |-> plan.sw2]
        /\ recv - 1 \in Nat /\ recv - 1 <= tpdu.len
        /\ tpdu.send => recv - 1 = 0
        /\ Sends = recv - 1
        /\ Executes' = Executes /\ Fetched' = Fetched
    BY DEF TypeOK, ExchangeType, OpenInv, PlanInv, Received, Sends, Executes,
           Fetched
  <2> Fetched \in Nat
    BY FetchedType DEF Busy
  <2>2. CASE plan.sw1 \in {"67", "69", "6C"}
    BY <2>1, <2>2 DEF PlanInv, ServeInv, ResponseInv, Unserved
  <2>3. CASE plan.sw1 \in {"90", "61"} /\ plan.run
    <3>1. Executes /\ tpdu.ins # "get" /\ Fetched = 0 /\ runs = 0
      BY <2>3 DEF PlanInv, ServeInv, Unserved, Executes, FnInv, Busy, Fetched
    <3> QED
      BY <2>1, <2>3, <3>1
         DEF TypeOK, CardType, CardPlans, PlanInv, ResponseInv
  <2>4. CASE plan.sw1 \in {"90", "61"} /\ ~plan.run
    <3>1. /\ ~Executes /\ fn # "case4E"
          /\ plan.sw1 = "90" \/ tpdu.ins = "get"
      BY <2>4 DEF TypeOK, ExchangeType, Tpdus, PlanInv, Executes, FnInv, Busy
    <3>2. CASE tpdu.ins = "get"
      BY <2>1, <2>4, <3>1, <3>2
         DEF TypeOK, CardType, CardPlans, PlanInv, ServeInv, ResponseInv,
             Unserved
    <3>3. CASE tpdu.ins = "envelope"
      BY <2>1, <2>4, <3>1, <3>3
         DEF PlanInv, ServeInv, ResponseInv, Unserved, FnInv, Busy
    <3> QED
      BY <3>1, <3>2, <3>3 DEF TypeOK, ExchangeType, Tpdus, Executes
  <2> QED
    BY <2>2, <2>3, <2>4 DEF TypeOK, CardType, CardPlans
<1>10. BufferInBounds'
  BY DEF TypeOK, ExchangeType, BufferInBounds, MaxResponse
<1>11. TransmissionEnded'
  BY DEF TransmissionEnded
<1>12. CarriedOutOnce'
  BY <1>0 DEF CarriedOutOnce
<1>13. AnswerComplete'
  BY DEF AnswerComplete
<1> QED
  BY <1>1, <1>2, <1>3, <1>4, <1>5, <1>6, <1>7, <1>8, <1>9, <1>10, <1>11,
     <1>12, <1>13 DEF TypeOK

\* A procedure byte that asks for data or announces it.
LEMMA StepData ==
    ASSUME IInv, NEW all \in BOOLEAN, Data(all)
    PROVE  IInv'
<1> USE ShortAssumption, BoundsAssumption
    DEF IInv, case, counters, exchange, card, SW1s, Data, Break, Continue,
        EarlyReturn, Fail, Asked, NoFault, Response
<1>0. strict => /\ tpdu.send => sent < tpdu.len
                /\ ~tpdu.send => recv + 1 < MaxResponse /\ tpdu.len < MaxResponse
  BY DEF TypeOK, ExchangeType, Tpdus, PlanInv, Received, MaxResponse
<1>1. CaseType'
  BY DEF TypeOK, CaseType
<1>2. ExchangeType'
  BY DEF TypeOK, ExchangeType, Tpdus, MaxResponse, Bytes, Rsp
<1>3. CardType'
  BY DEF TypeOK, ExchangeType, CardType, Tpdus, CardPlans
<1>4. OpenInv'
  BY <1>0 DEF TypeOK, ExchangeType, Tpdus, OpenInv
<1>5. FnInv'
  BY DEF Busy, FnInv
<1>6. AskInv'
  BY DEF Busy, AskInv, Fetched
<1>7. PlanInv'
  BY DEF TypeOK, ExchangeType, CardType, Tpdus, CardPlans, Busy, PlanInv,
         Received, Sends, Executes
<1>8. ServeInv'
  BY DEF ServeInv, Unserved, Fetched
<1>9. ResponseInv'
  BY <1>0 DEF TypeOK, ExchangeType, Tpdus, ResponseInv
<1>10. BufferInBounds'
  BY DEF TypeOK, ExchangeType, Tpdus, BufferInBounds, MaxResponse
<1>11. TransmissionEnded'
  BY <1>0 DEF TypeOK, ExchangeType, Tpdus, TransmissionEnded
<1>12. CarriedOutOnce'
  BY DEF CarriedOutOnce
<1>13. AnswerComplete'
  BY DEF AnswerComplete
<1> QED
  BY <1>1, <1>2, <1>3, <1>4, <1>5, <1>6, <1>7, <1>8, <1>9, <1>10, <1>11,
     <1>12, <1>13 DEF TypeOK

\* A byte that is none of these.
LEMMA StepOther ==
    ASSUME IInv, Other
    PROVE  IInv'
<1> USE ShortAssumption, BoundsAssumption
    DEF IInv, case, counters, exchange, card, SW1s, Other, Break, NoFault
<1>1. CaseType'
  BY DEF TypeOK, CaseType
<1>2. ExchangeType'
  BY DEF TypeOK, ExchangeType
<1>3. CardType'
  BY DEF TypeOK, CardType
<1>4. OpenInv'
  BY DEF OpenInv
<1>5. FnInv'
  BY DEF Busy, FnInv
<1>6. AskInv'
  BY DEF AskInv
<1>7. PlanInv'
  BY DEF PlanInv
<1>8. ServeInv'
  BY DEF ServeInv
<1>9. ResponseInv'
  BY DEF ResponseInv
<1>10. BufferInBounds'
  BY DEF BufferInBounds
<1>11. TransmissionEnded'
  BY DEF TransmissionEnded
<1>12. CarriedOutOnce'
  BY DEF CarriedOutOnce
<1>13. AnswerComplete'
  BY DEF AnswerComplete
<1> QED
  BY <1>1, <1>2, <1>3, <1>4, <1>5, <1>6, <1>7, <1>8, <1>9, <1>10, <1>11,
     <1>12, <1>13 DEF TypeOK

\* The line fails inside the loop.
LEMMA StepExchangeFails ==
    ASSUME IInv, ExchangeFails
    PROVE  IInv'
<1> USE ShortAssumption, BoundsAssumption
    DEF IInv, case, counters, exchange, card, SW1s, ExchangeFails, Break,
        Fault
<1>1. CaseType'
  BY DEF TypeOK, CaseType
<1>2. ExchangeType'
  BY DEF TypeOK, ExchangeType
<1>3. CardType'
  BY DEF TypeOK, CardType
<1>4. OpenInv'
  BY DEF OpenInv
<1>5. FnInv'
  BY DEF Busy, FnInv
<1>6. AskInv'
  BY DEF Busy, AskInv, Fetched
<1>7. PlanInv'
  BY DEF PlanInv
<1>8. ServeInv'
  BY DEF ServeInv
<1>9. ResponseInv'
  BY DEF ResponseInv
<1>10. BufferInBounds'
  BY DEF BufferInBounds
<1>11. TransmissionEnded'
  BY DEF TransmissionEnded
<1>12. CarriedOutOnce'
  BY DEF CarriedOutOnce
<1>13. AnswerComplete'
  BY DEF AnswerComplete
<1> QED
  BY <1>1, <1>2, <1>3, <1>4, <1>5, <1>6, <1>7, <1>8, <1>9, <1>10, <1>11,
     <1>12, <1>13 DEF TypeOK

\* The transmission is ended.
LEMMA StepEnd ==
    ASSUME IInv, End
    PROVE  IInv'
<1> USE ShortAssumption, BoundsAssumption
    DEF IInv, case, counters, exchange, card, SW1s, End, Fail, Clear, NoFault
<1>1. CaseType'
  BY DEF TypeOK, CaseType
<1>2. ExchangeType'
  <2>1. open' \in BOOLEAN /\ UNCHANGED <<tpdu, got>>
    OBVIOUS
  <2> QED
    BY <2>1 DEF TypeOK, ExchangeType
<1>3. CardType'
  BY DEF TypeOK, CardType
<1>4. OpenInv'
  BY DEF OpenInv
<1>5. FnInv'
  BY DEF Busy, FnInv
<1>6. AskInv'
  BY DEF Busy, AskInv, Fetched
<1>7. PlanInv'
  BY DEF PlanInv
<1>8. ServeInv'
  BY DEF ServeInv
<1>9. ResponseInv'
  BY DEF ResponseInv, Unserved, Executes, Fetched
<1>10. BufferInBounds'
  BY DEF TypeOK, ExchangeType, Tpdus, BufferInBounds, MaxResponse
<1>11. TransmissionEnded'
  BY DEF TransmissionEnded
<1>12. CarriedOutOnce'
  BY DEF CarriedOutOnce
<1>13. AnswerComplete'
  BY DEF AnswerComplete
<1> QED
  BY <1>1, <1>2, <1>3, <1>4, <1>5, <1>6, <1>7, <1>8, <1>9, <1>10, <1>11,
     <1>12, <1>13 DEF TypeOK

\* The transmission cannot be ended.
LEMMA StepEndFails ==
    ASSUME IInv, EndFails
    PROVE  IInv'
<1> USE ShortAssumption, BoundsAssumption
    DEF IInv, case, counters, exchange, card, SW1s, EndFails, Fail, Clear,
        Fault
<1>1. CaseType'
  BY DEF TypeOK, CaseType
<1>2. ExchangeType'
  BY DEF TypeOK, ExchangeType
<1>3. CardType'
  BY DEF TypeOK, CardType
<1>4. OpenInv'
  BY DEF OpenInv
<1>5. FnInv'
  BY DEF Busy, FnInv
<1>6. AskInv'
  BY DEF Busy, AskInv
<1>7. PlanInv'
  BY DEF PlanInv
<1>8. ServeInv'
  BY DEF ServeInv
<1>9. ResponseInv'
  BY DEF ResponseInv
<1>10. BufferInBounds'
  BY DEF TypeOK, ExchangeType, Tpdus, BufferInBounds, MaxResponse
<1>11. TransmissionEnded'
  BY DEF TransmissionEnded
<1>12. CarriedOutOnce'
  BY DEF CarriedOutOnce
<1>13. AnswerComplete'
  BY DEF AnswerComplete
<1> QED
  BY <1>1, <1>2, <1>3, <1>4, <1>5, <1>6, <1>7, <1>8, <1>9, <1>10, <1>11,
     <1>12, <1>13 DEF TypeOK

\* The card leaves the protocol.
LEMMA StepDeviate ==
    ASSUME IInv, Deviate
    PROVE  IInv'
<1> USE ShortAssumption, BoundsAssumption
    DEF IInv, case, counters, exchange, card, SW1s, Deviate, NoPlan
<1>1. CaseType'
  BY DEF TypeOK, CaseType
<1>2. ExchangeType'
  BY DEF TypeOK, ExchangeType
<1>3. CardType'
  <2>1. strict' \in BOOLEAN /\ UNCHANGED excused
    OBVIOUS
  <2> QED
    BY <2>1 DEF TypeOK, CardType, CardPlans, Bytes
<1>4. OpenInv'
  BY DEF OpenInv
<1>5. FnInv'
  BY DEF Busy, FnInv
<1>6. AskInv'
  BY DEF AskInv
<1>7. PlanInv'
  BY DEF PlanInv
<1>8. ServeInv'
  BY DEF ServeInv
<1>9. ResponseInv'
  BY DEF ResponseInv
<1>10. BufferInBounds'
  BY DEF BufferInBounds
<1>11. TransmissionEnded'
  BY DEF TransmissionEnded
<1>12. CarriedOutOnce'
  BY DEF CarriedOutOnce
<1>13. AnswerComplete'
  BY DEF AnswerComplete
<1> QED
  BY <1>1, <1>2, <1>3, <1>4, <1>5, <1>6, <1>7, <1>8, <1>9, <1>10, <1>11,
     <1>12, <1>13 DEF TypeOK

\* The application resets terminal and card.
LEMMA StepReset ==
    ASSUME IInv, Reset
    PROVE  IInv'
<1> USE ShortAssumption, BoundsAssumption
    DEF IInv, case, counters, exchange, card, SW1s, Reset
<1>1. CaseType'
  BY DEF TypeOK, CaseType
<1>2. ExchangeType'
  BY DEF TypeOK, ExchangeType
<1>3. CardType'
  BY DEF TypeOK, CardType
<1>4. OpenInv'
  BY DEF OpenInv
<1>5. FnInv'
  BY DEF Busy, FnInv
<1>6. AskInv'
  BY DEF Busy, AskInv
<1>7. PlanInv'
  BY DEF PlanInv
<1>8. ServeInv'
  BY DEF ServeInv
<1>9. ResponseInv'
  BY DEF ResponseInv
<1>10. BufferInBounds'
  BY DEF BufferInBounds
<1>11. TransmissionEnded'
  BY DEF TransmissionEnded
<1>12. CarriedOutOnce'
  BY DEF CarriedOutOnce
<1>13. AnswerComplete'
  BY DEF AnswerComplete
<1> QED
  BY <1>1, <1>2, <1>3, <1>4, <1>5, <1>6, <1>7, <1>8, <1>9, <1>10, <1>11,
     <1>12, <1>13 DEF TypeOK

-----------------------------------------------------------------------------
(* The case functions. A response ends the command, fails it, or makes the      *)
(* function issue its next TPDU: one lemma for each of these ends.              *)

\* The command returns the response r.
LEMMA ReturnInv ==
    ASSUME IInv, Respond, NEW r \in Rsp, Return(r),
           strict /\ r.sw1 \in {"90", "61"} => runs = 1,
           strict /\ r.sw1 = "90" /\ (iso \/ apdu.case # "4S") =>
               r.len = Least(total, apdu.le)
    PROVE  IInv'
<1> USE DEF IInv, Respond, Return, NoFault, counters, card
<1>1. TypeOK'
  BY DEF TypeOK, CaseType, ExchangeType, CardType
<1>2. OpenInv' /\ BufferInBounds' /\ TransmissionEnded'
  BY DEF OpenInv, BufferInBounds, TransmissionEnded
<1>3. FnInv' /\ AskInv' /\ PlanInv' /\ ServeInv' /\ ResponseInv'
  BY DEF FnInv, AskInv, PlanInv, ServeInv, ResponseInv, Busy
<1>4. CarriedOutOnce' /\ AnswerComplete'
  BY DEF CarriedOutOnce, AnswerComplete
<1> QED
  BY <1>1, <1>2, <1>3, <1>4

\* The command fails, or the model stops.
LEMMA GiveUpInv ==
    ASSUME IInv, Respond, UNCHANGED <<apdu, fn, le, lx, i, rsp, tpdu>>,
           \/ pc' = "idle" /\ ret' = "error"
           \/ pc' = "undefined" /\ UNCHANGED ret
    PROVE  IInv'
<1> USE DEF IInv, Respond, NoFault, counters, card
<1>1. TypeOK'
  BY DEF TypeOK, CaseType, ExchangeType, CardType
<1>2. OpenInv' /\ BufferInBounds' /\ TransmissionEnded'
  BY DEF OpenInv, BufferInBounds, TransmissionEnded
<1>3. FnInv' /\ AskInv' /\ PlanInv' /\ ServeInv' /\ ResponseInv'
  BY DEF FnInv, AskInv, PlanInv, ServeInv, ResponseInv, Busy
<1>4. CarriedOutOnce' /\ AnswerComplete'
  BY DEF CarriedOutOnce, AnswerComplete
<1> QED
  BY <1>1, <1>2, <1>3, <1>4

\* The function issues its next TPDU.
LEMMA IssueInv ==
    ASSUME IInv, Respond, pc' = "begin", CaseType', tpdu' \in Tpdus,
           FnInv', AskInv', ServeInv', UNCHANGED ret
    PROVE  IInv'
<1> USE DEF IInv, Respond, NoFault, counters, card
<1>1. TypeOK'
  BY DEF TypeOK, ExchangeType, CardType
<1>2. OpenInv' /\ BufferInBounds' /\ TransmissionEnded'
  BY ShortAssumption DEF OpenInv, BufferInBounds, TransmissionEnded, Tpdus
<1>3. PlanInv' /\ ResponseInv'
  BY DEF PlanInv, ResponseInv
<1>4. CarriedOutOnce' /\ AnswerComplete'
  BY DEF CarriedOutOnce, AnswerComplete
<1> QED
  BY <1>1, <1>2, <1>3, <1>4

\* A response is there.
LEMMA GotResponse == IInv /\ pc = "respond" => got \in Rsp /\ got # None
  BY DEF IInv, TypeOK, ExchangeType, OpenInv

\* The types of what a case function looks at.
LEMMA RespondTypes ==
    ASSUME IInv, pc = "respond"
    PROVE  /\ got \in Rsp /\ got # None
           /\ got.sw1 \in SW1s /\ got.sw2 \in Bytes /\ got.len \in Nat
           /\ apdu \in Commands /\ apdu.le \in Nat /\ le \in Nat /\ i \in Nat
           /\ total \in Nat /\ has \in Nat /\ tpdu.len \in Nat
           /\ RawLen(apdu) \in Nat
  BY GotResponse, CommandFacts, ShortAssumption
     DEF IInv, TypeOK, CardType, CaseType, ExchangeType, Tpdus, Rsp

\* What the response of a card that follows the protocol means for a TPDU that is
\* not part of a chain of ENVELOPEs.
LEMMA ResponseMeans ==
    ASSUME IInv, pc = "respond", strict, tpdu.ins # "envelope"
    PROVE  /\ got.sw1 \in {"90", "61"} =>
                  runs = 1 /\ total = Fetched + got.len + has
           /\ got.sw1 \notin {"90", "61"} => Unserved /\ got.len = 0
           /\ got.sw1 = "90" /\ ~tpdu.send => has = 0
           /\ got.sw1 = "61" => got.sw2 = Named(has) /\ has > 0
           /\ got.sw1 = "6C" => ~tpdu.send /\ 0 < got.sw2 /\ got.sw2 < tpdu.len
           /\ got.len \in Nat /\ got.len <= tpdu.len
           /\ tpdu.send => got.len = 0
           /\ Fetched \in Nat
<1>1. Fetched \in Nat
  BY FetchedType DEF Busy
<1>2. Executes \/ tpdu.ins = "get"
  BY DEF IInv, TypeOK, ExchangeType, Tpdus, Executes
<1>3. got.len \in Nat
  BY GotResponse DEF Rsp
<1> QED
  BY <1>1, <1>2, <1>3, GotResponse DEF IInv, ResponseInv

\* The functions whose last TPDU this was.
LEMMA StepRespondLast ==
    ASSUME IInv, Respond, RespondLast
    PROVE  IInv'
<1>1. pc = "respond" /\ Return(got)
  BY DEF Respond, RespondLast
<1>2. ASSUME strict
      PROVE  /\ got.sw1 \in {"90", "61"} => runs = 1
             /\ got.sw1 = "90" => got.len = Least(total, apdu.le)
  <2>1. tpdu.ins # "envelope" /\ (tpdu.send => apdu.le = 0) /\ Fetched = 0
    BY <1>1 DEF IInv, FnInv, Busy, RespondLast, Fetched
  <2>2. /\ ~tpdu.send /\ apdu.le > 0 => tpdu.len <= apdu.le
        /\ apdu.le = 0 => total = 0
    BY <1>1, <1>2, <2>1
       DEF IInv, TypeOK, ExchangeType, Tpdus, AskInv, Busy, RespondLast
  <2> QED
    BY <1>1, <1>2, <2>1, <2>2, RespondTypes, ResponseMeans DEF Least
<1> QED
  BY <1>1, <1>2, RespondTypes, ReturnInv

\* Protocol_T0_Case3S after the first TPDU.
LEMMA StepRespondCase3S ==
    ASSUME IInv, Respond, RespondCase3S
    PROVE  IInv'
<1>1. pc = "respond" /\ fn = "case3S" /\ Busy
  BY DEF Respond, RespondCase3S, Busy
<1>2. /\ got \in Rsp /\ got # None /\ got.sw2 \in Bytes
      /\ total \in Nat /\ apdu.le \in Nat /\ has \in Nat /\ tpdu.len \in Nat
      /\ le \in Nat
  BY <1>1, RespondTypes
<1>3. /\ tpdu.ins \in {"own", "get"} /\ ~tpdu.send /\ Fetched = 0
      /\ 0 < le /\ le <= apdu.le
  BY <1>1 DEF IInv, TypeOK, ExchangeType, Tpdus, FnInv, Fetched
<1>4. strict => tpdu.len <= apdu.le
  BY <1>1, <1>2, <1>3 DEF IInv, AskInv
<1>5. Length(got.sw2) \in 1 .. Short
  BY <1>2, LengthRange
<1>6. CASE Return(got)
  <2>1. ASSUME strict
        PROVE  /\ got.sw1 \in {"90", "61"} => runs = 1
               /\ got.sw1 = "90" => got.len = Least(total, apdu.le)
    BY <1>1, <1>2, <1>3, <1>4, <2>1, ResponseMeans DEF Least
  <2> QED
    BY <1>2, <1>6, <2>1, ReturnInv
<1>7. CASE got.sw1 = "6C" /\ Receive("reissue", tpdu.ins, got.sw2)
           /\ UNCHANGED <<ret, apdu, le, lx, i, rsp>>
  <2> USE <1>1, <1>2, <1>3, <1>5, <1>7 DEF Receive
  <2>1. CaseType' /\ tpdu' \in Tpdus
    BY DEF Respond, IInv, TypeOK, CaseType, Tpdus
  <2>2. FnInv'
    BY DEF IInv, FnInv
  <2>3. AskInv'
    <3>1. strict => Length(got.sw2) < tpdu.len
      BY ResponseMeans DEF Length
    <3> QED
      BY <1>4, <3>1 DEF Respond, card, IInv, AskInv, Fetched
  <2>4. ServeInv'
    BY ResponseMeans DEF Respond, card, ServeInv, Unserved, Fetched
  <2> QED
    BY <2>1, <2>2, <2>3, <2>4, IssueInv
<1>8. CASE got.sw1 = "61" /\ rsp' = got /\ Receive("more3S", "get", got.sw2)
           /\ UNCHANGED <<ret, apdu, le, lx, i>>
  <2> USE <1>1, <1>2, <1>3, <1>5, <1>8 DEF Receive
  <2>1. CaseType' /\ tpdu' \in Tpdus
    BY DEF Respond, IInv, TypeOK, CaseType, Tpdus
  <2>2. FnInv'
    BY DEF IInv, FnInv
  <2>3. AskInv'
    BY DEF Respond, card, IInv, AskInv
  <2>4. ServeInv'
    BY ResponseMeans DEF Respond, card, ServeInv, Unserved, Fetched
  <2> QED
    BY <2>1, <2>2, <2>3, <2>4, IssueInv
<1> QED
  BY <1>6, <1>7, <1>8 DEF RespondCase3S

\* Protocol_T0_Case3S after the command was issued again.
LEMMA StepRespondReissue ==
    ASSUME IInv, Respond, RespondReissue
    PROVE  IInv'
<1>1. pc = "respond" /\ fn = "reissue" /\ Busy /\ Return(Truncate(got, le))
  BY DEF Respond, RespondReissue, Busy
<1>2. /\ got \in Rsp /\ got.len \in Nat /\ total \in Nat /\ has \in Nat
      /\ apdu.le \in Nat /\ le \in Nat
  BY <1>1, RespondTypes
<1>3. /\ tpdu.ins # "envelope" /\ ~tpdu.send /\ Fetched = 0
      /\ 0 < le /\ le <= apdu.le
  BY <1>1 DEF IInv, FnInv, Fetched
<1>4. strict => le = apdu.le \/ le = Least(total, apdu.le)
  BY <1>1 DEF IInv, AskInv
<1>5. /\ Truncate(got, le) \in Rsp /\ Truncate(got, le).sw1 = got.sw1
      /\ Truncate(got, le).len = Least(got.len, le)
  BY <1>2, <1>3 DEF Truncate, Rsp, Least
<1>6. ASSUME strict
      PROVE  /\ got.sw1 \in {"90", "61"} => runs = 1
             /\ got.sw1 = "90" => Least(got.len, le) = Least(total, apdu.le)
  BY <1>1, <1>2, <1>3, <1>4, <1>6, ResponseMeans DEF Least
<1> QED
  BY <1>1, <1>5, <1>6, ReturnInv

\* The loop of Protocol_T0_Case3S.
LEMMA StepRespondMore3S ==
    ASSUME IInv, Respond, RespondMore3S
    PROVE  IInv'
<1> DEFINE r == Append(rsp, got)
<1>1. pc = "respond" /\ fn = "more3S" /\ Busy
  BY DEF Respond, RespondMore3S, Busy
<1>2. /\ got \in Rsp /\ got.len \in Nat /\ total \in Nat /\ has \in Nat
      /\ apdu.le \in Nat /\ le \in Nat
  BY <1>1, RespondTypes
<1>3. /\ tpdu.ins = "get" /\ ~tpdu.send /\ rsp \in Rsp /\ Fetched = rsp.len
      /\ 0 < le /\ le <= apdu.le
  BY <1>1 DEF IInv, FnInv, Fetched
<1>4. strict => le = apdu.le \/ le = Least(total, apdu.le)
  BY <1>1 DEF IInv, AskInv
<1>5. r \in Rsp /\ r.sw1 = got.sw1 /\ r.len = rsp.len + got.len
  BY <1>2, <1>3 DEF Append, Rsp
<1>6. CASE Return(Truncate(r, le))
  <2>1. /\ Truncate(r, le) \in Rsp /\ Truncate(r, le).sw1 = got.sw1
        /\ Truncate(r, le).len = Least(r.len, le)
    BY <1>2, <1>3, <1>5 DEF Truncate, Rsp, Least
  <2>2. ASSUME strict
        PROVE  /\ got.sw1 \in {"90", "61"} => runs = 1
               /\ got.sw1 = "90" => Least(r.len, le) = Least(total, apdu.le)
    BY <1>1, <1>2, <1>3, <1>4, <1>5, <2>2, ResponseMeans DEF Least
  <2> QED
    BY <1>6, <2>1, <2>2, ReturnInv
<1>7. CASE Fail /\ UNCHANGED tpdu
  BY <1>7, GiveUpInv DEF Fail
<1>8. CASE pc' = "undefined" /\ UNCHANGED <<case, tpdu>>
  BY <1>8, GiveUpInv DEF case
<1> QED
  BY <1>6, <1>7, <1>8 DEF RespondMore3S

\* Protocol_T0_Case4S after the data has been sent.
LEMMA StepRespondCase4S ==
    ASSUME IInv, Respond, RespondCase4S
    PROVE  IInv'
<1>1. pc = "respond" /\ fn = "case4S" /\ Busy
  BY DEF Respond, RespondCase4S, Busy
<1>2. /\ got \in Rsp /\ got.sw2 \in Bytes /\ has \in Nat /\ total \in Nat
      /\ apdu.le \in 1 .. Short
  BY <1>1, RespondTypes, CommandFacts DEF IInv, FnInv
<1>3. /\ tpdu.ins = "own" /\ tpdu.send /\ Fetched = 0
      /\ le = apdu.le /\ apdu.case = "4S"
  BY <1>1 DEF IInv, FnInv, Fetched
<1>4. strict /\ got.sw1 \in {"90", "61"} => runs = 1 /\ total = has
  BY <1>1, <1>2, <1>3, ResponseMeans
<1>5. CASE (iso => got.sw1 \notin {"90", "61"}) /\ Return(got)
  BY <1>2, <1>3, <1>4, <1>5, ReturnInv
<1>6. ASSUME NEW f \in {"last", "case3S"}, NEW b \in Bytes, Length(b) <= apdu.le,
             got.sw1 \in {"90", "61"}, Receive(f, "get", b),
             UNCHANGED <<ret, apdu, le, lx, i, rsp>>
      PROVE  IInv'
  <2> Length(b) \in 1 .. Short
    BY LengthRange
  <2> USE <1>1, <1>2, <1>3, <1>4, <1>6 DEF Receive
  <2>1. CaseType' /\ tpdu' \in Tpdus
    BY DEF Respond, IInv, TypeOK, CaseType, Tpdus
  <2>2. FnInv'
    BY DEF FnInv
  <2>3. AskInv'
    BY DEF AskInv, Fetched
  <2>4. ServeInv'
    BY DEF Respond, card, ServeInv, Unserved, Fetched
  <2> QED
    BY <2>1, <2>2, <2>3, <2>4, IssueInv
<1>7. Byte(le) \in Bytes /\ Length(Byte(le)) <= apdu.le
  BY <1>2, <1>3, ByteRange, LengthOfByte
<1>8. CASE got.sw1 = "61" /\ UNCHANGED <<ret, apdu, le, lx, i, rsp>>
           /\ Receive("last", "get",
                      IF got.sw2 = 0 THEN Byte(le) ELSE Least(le, got.sw2))
  <2>1. got.sw2 # 0 => /\ Least(le, got.sw2) \in Bytes
                       /\ Length(Least(le, got.sw2)) <= apdu.le
    BY <1>2, <1>3, ShortAssumption DEF Least, Length, Bytes
  <2> QED
    BY <1>6, <1>7, <1>8, <2>1
<1>9. CASE got.sw1 = "90" /\ Case3S("get", le) /\ UNCHANGED <<ret, apdu, lx, i, rsp>>
  BY <1>6, <1>7, <1>9 DEF Case3S
<1> QED
  BY <1>5, <1>8, <1>9 DEF RespondCase4S

\* Protocol_T0_Case2E after a segment.
LEMMA StepRespondCase2E ==
    ASSUME IInv, Respond, RespondCase2E
    PROVE  IInv'
<1> DEFINE more == got.sw1 = "90" /\ i + tpdu.len < RawLen(apdu)
<1>1. pc = "respond" /\ fn = "case2E" /\ Busy
  BY DEF Respond, RespondCase2E, Busy
<1>2. /\ got \in Rsp /\ got # None /\ i \in Nat /\ tpdu.len \in Nat
      /\ RawLen(apdu) \in Nat /\ total \in Nat /\ apdu \in Commands
  BY <1>1, RespondTypes
<1>3. /\ tpdu.ins = "envelope" /\ tpdu.send /\ Fetched = 0
      /\ i + tpdu.len <= RawLen(apdu) /\ le = apdu.le
      /\ apdu.case \in {"2E", "4E"}
  BY <1>1 DEF IInv, FnInv, Fetched
<1>4. Executes <=> i + tpdu.len = RawLen(apdu)
  BY <1>3 DEF Executes
<1>5. ASSUME strict
      PROVE  /\ got.sw1 \in {"90", "61"} /\ Executes => runs = 1
             /\ got.sw1 = "61" => Executes
             /\ got.len = 0 /\ (~Executes => Unserved)
  BY <1>1, <1>2, <1>3, <1>5 DEF IInv, ResponseInv
<1>6. CASE more /\ Envelope(apdu, i + tpdu.len)
           /\ UNCHANGED <<ret, apdu, le, lx, rsp>>
  <2> DEFINE n == Least(Short - 1, RawLen(apdu) - (i + tpdu.len))
  <2>1. n \in 0 .. Short /\ i + tpdu.len + n <= RawLen(apdu)
    BY <1>2, <1>6, ShortAssumption DEF Least
  <2>2. /\ pc' = "begin" /\ fn' = "case2E" /\ i' = i + tpdu.len
        /\ tpdu' = [ins |-> "envelope", send |-> TRUE, len |-> n]
        /\ UNCHANGED <<ret, apdu, le, lx, rsp, iso, card>>
    BY <1>6 DEF Envelope, Send, Respond
  <2> HIDE DEF n
  <2> USE <1>1, <1>2, <1>3, <2>1, <2>2
  <2>3. CaseType' /\ tpdu' \in Tpdus
    BY DEF IInv, TypeOK, CaseType, Tpdus
  <2>4. FnInv'
    BY DEF FnInv
  <2>5. AskInv'
    BY DEF card, IInv, AskInv
  <2>6. ServeInv'
    BY <1>4, <1>5, <1>6 DEF card, ServeInv, Unserved
  <2> QED
    BY <2>3, <2>4, <2>5, <2>6, IssueInv
<1>7. CASE ~more /\ apdu.case = "2E" /\ Return(got)
  <2>1. apdu.le = 0
    BY <1>2, <1>7, CommandFacts
  <2>2. strict => total = 0
    BY <1>1, <2>1 DEF IInv, AskInv
  <2> QED
    BY <1>2, <1>3, <1>4, <1>5, <1>7, <2>1, <2>2, ReturnInv DEF Least
<1>8. CASE ~more /\ apdu.case = "4E" /\ fn' = "case4E"
           /\ UNCHANGED <<pc, ret, apdu, le, lx, i, rsp, tpdu>>
  <2> USE <1>1, <1>2, <1>3, <1>8 DEF IInv, Respond, NoFault, counters, card
  <2>1. TypeOK'
    BY DEF TypeOK, CaseType, ExchangeType, CardType
  <2>2. OpenInv' /\ BufferInBounds' /\ TransmissionEnded'
    BY DEF OpenInv, BufferInBounds, TransmissionEnded
  <2>3. FnInv'
    BY DEF FnInv
  <2>4. AskInv' /\ PlanInv' /\ ServeInv'
    BY DEF AskInv, PlanInv, ServeInv
  <2>5. ResponseInv'
    <3>1. Fetched' = Fetched /\ Executes' = Executes /\ Unserved' = Unserved
      BY DEF Fetched, Executes, Unserved
    <3>2. got.sw1 = "90" => Executes
      BY <1>4
    <3> QED
      BY <3>1, <3>2 DEF ResponseInv
  <2>6. CarriedOutOnce' /\ AnswerComplete'
    BY DEF CarriedOutOnce, AnswerComplete
  <2> QED
    BY <2>1, <2>2, <2>3, <2>4, <2>5, <2>6
<1> QED
  BY <1>6, <1>7, <1>8 DEF RespondCase2E

\* Protocol_T0_Case3E, called for the answer to a command of case 4E.
LEMMA IssueCase3E ==
    ASSUME IInv, Respond, pc = "respond", fn = "case4E", NEW l \in Nat,
           l > 0, l <= apdu.le,
           strict => /\ runs = 1 /\ total = has
                     /\ l = apdu.le \/ l = Least(total, apdu.le),
           Case3E("get", l), UNCHANGED <<ret, apdu, lx, i, rsp>>
    PROVE  IInv'
<1> DEFINE f == IF l <= Short THEN "case3S" ELSE "case3E"
           n == IF l <= Short THEN l ELSE Short
<1>1. /\ pc' = "begin" /\ fn' = f /\ le' = l
      /\ tpdu' = [ins |-> "get", send |-> FALSE, len |-> n]
  <2>1. CASE l <= Short
    BY <2>1, LengthOfByte, ShortAssumption DEF Case3E, Case3S, Receive
  <2>2. CASE ~(l <= Short)
    BY <2>2, ShortAssumption DEF Case3E, Receive, Length
  <2> QED
    BY <2>1, <2>2
<1>2. n \in 1 .. Short /\ n <= apdu.le /\ apdu.le \in Nat
  BY ShortAssumption, RespondTypes
<1>3. UNCHANGED <<ret, apdu, lx, i, rsp, iso, card>> /\ Busy
  BY DEF Respond, Busy
<1> USE <1>1, <1>2, <1>3
<1>4. CaseType' /\ tpdu' \in Tpdus
  BY DEF IInv, TypeOK, CaseType, Tpdus
<1>5. FnInv'
  BY ShortAssumption DEF IInv, FnInv
<1>6. AskInv'
  BY RespondTypes DEF card, AskInv, Fetched
<1>7. ServeInv'
  BY RespondTypes DEF card, ServeInv, Unserved, Fetched
<1> QED
  BY <1>4, <1>5, <1>6, <1>7, IssueInv

\* Protocol_T0_Case4E after the data has been sent.
LEMMA StepRespondCase4E ==
    ASSUME IInv, Respond, RespondCase4E
    PROVE  IInv'
<1>1. pc = "respond" /\ fn = "case4E" /\ Busy
  BY DEF Respond, RespondCase4E, Busy
<1>2. /\ got \in Rsp /\ got # None /\ got.sw2 \in Bytes /\ has \in Nat
      /\ total \in Nat /\ apdu.le \in Nat
  BY <1>1, RespondTypes
<1>3. /\ tpdu.ins # "get" /\ tpdu.send /\ Fetched = 0
      /\ le = apdu.le /\ apdu.le > 0
  BY <1>1, CommandFacts, RespondTypes DEF IInv, FnInv, Fetched
<1>4. ASSUME strict, got.sw1 \in {"90", "61"}
      PROVE  /\ runs = 1 /\ total = has
             /\ got.sw1 = "61" => got.sw2 = Named(has)
  BY <1>1, <1>2, <1>3, <1>4 DEF IInv, ResponseInv
<1>5. CASE got.sw1 \notin {"90", "61"} /\ Return(got)
  BY <1>2, <1>5, ReturnInv
<1>6. CASE /\ got.sw1 = "61"
           /\ Case3E("get", IF got.sw2 # 0 THEN Least(got.sw2, le) ELSE le)
           /\ UNCHANGED <<ret, apdu, lx, i, rsp>>
  <2> DEFINE l == IF got.sw2 # 0 THEN Least(got.sw2, le) ELSE le
  <2>1. l \in Nat /\ l > 0 /\ l <= apdu.le
    BY <1>2, <1>3, ShortAssumption DEF Least, Bytes
  <2>2. strict => /\ runs = 1 /\ total = has
                  /\ l = apdu.le \/ l = Least(total, apdu.le)
    BY <1>2, <1>3, <1>4, <1>6 DEF Named
  <2> QED
    BY <1>1, <1>6, <2>1, <2>2, IssueCase3E
<1>7. CASE /\ got.sw1 = "90" /\ Case3E("get", le)
           /\ UNCHANGED <<ret, apdu, lx, i, rsp>>
  BY <1>1, <1>2, <1>3, <1>4, <1>7, IssueCase3E
<1> QED
  BY <1>5, <1>6, <1>7 DEF RespondCase4E

\* Protocol_T0_Case3E after the first TPDU.
LEMMA StepRespondCase3E ==
    ASSUME IInv, Respond, RespondCase3E
    PROVE  IInv'
<1>1. pc = "respond" /\ fn = "case3E" /\ Busy
  BY DEF Respond, RespondCase3E, Busy
<1>2. /\ got \in Rsp /\ got # None /\ got.sw2 \in Bytes /\ got.len \in Nat
      /\ total \in Nat /\ apdu.le \in Nat /\ has \in Nat /\ tpdu.len \in 0 .. Short
      /\ le \in Nat
  BY <1>1, RespondTypes DEF IInv, TypeOK, ExchangeType, Tpdus
<1>3. /\ tpdu.ins \in {"own", "get"} /\ ~tpdu.send /\ Fetched = 0
      /\ Short < le /\ le <= apdu.le
  BY <1>1 DEF IInv, TypeOK, ExchangeType, Tpdus, FnInv, Fetched
<1>4. strict => tpdu.len <= apdu.le
  BY <1>1, <1>2, <1>3, ShortAssumption
<1>5. Length(got.sw2) \in 1 .. Short
  BY <1>2, LengthRange
<1>6. CASE Return(got)
  <2>1. ASSUME strict
        PROVE  /\ got.sw1 \in {"90", "61"} => runs = 1
               /\ got.sw1 = "90" => got.len = Least(total, apdu.le)
    BY <1>1, <1>2, <1>3, <1>4, <2>1, ShortAssumption, ResponseMeans DEF Least
  <2> QED
    BY <1>2, <1>6, <2>1, ReturnInv
<1>7. CASE got.sw1 = "6C" /\ Receive("last", tpdu.ins, got.sw2)
           /\ UNCHANGED <<ret, apdu, le, lx, i, rsp>>
  <2> USE <1>1, <1>2, <1>3, <1>5, <1>7, ShortAssumption DEF Receive
  <2>1. CaseType' /\ tpdu' \in Tpdus
    BY DEF Respond, IInv, TypeOK, CaseType, Tpdus
  <2>2. FnInv'
    BY DEF IInv, FnInv
  <2>3. AskInv'
    <3>1. strict => Length(got.sw2) < tpdu.len
      BY ResponseMeans DEF Length
    <3> QED
      BY <1>4, <3>1 DEF Respond, card, IInv, AskInv, Fetched
  <2>4. ServeInv'
    BY ResponseMeans DEF Respond, card, ServeInv, Unserved, Fetched
  <2> QED
    BY <2>1, <2>2, <2>3, <2>4, IssueInv
<1>8. CASE /\ got.sw1 = "61" /\ rsp' = got /\ lx' = Length(got.sw2)
           /\ Receive("more3E", "get", Byte(Least(le - got.len, lx')))
           /\ UNCHANGED <<ret, apdu, le, i>>
  <2> DEFINE n == Length(Byte(Least(le - got.len, Length(got.sw2))))
  <2>1. n \in 1 .. Short
    <3>1. Least(le - got.len, Length(got.sw2)) \in Int
      BY <1>2, <1>5, ShortAssumption DEF Least
    <3> QED
      BY <3>1, ByteRange, LengthRange
  <2>2. strict => got.len + n <= apdu.le /\ got.len < le
    <3> SUFFICES ASSUME strict PROVE got.len + n <= apdu.le /\ got.len < le
      OBVIOUS
    <3>1. got.len <= Short
      BY <1>1, <1>2, <1>3, ShortAssumption, ResponseMeans
    <3>2. /\ Least(le - got.len, Length(got.sw2)) \in 1 .. Short
          /\ Least(le - got.len, Length(got.sw2)) <= le - got.len
      BY <1>2, <1>3, <1>5, <3>1, ShortAssumption DEF Least
    <3>3. n = Least(le - got.len, Length(got.sw2))
      BY <3>2, LengthOfByte
    <3> QED
      BY <1>2, <1>3, <3>1, <3>2, <3>3, ShortAssumption
  <2>3. /\ pc' = "begin" /\ fn' = "more3E" /\ rsp' = got /\ lx' = Length(got.sw2)
        /\ tpdu' = [ins |-> "get", send |-> FALSE, len |-> n]
        /\ UNCHANGED <<ret, apdu, le, i, iso, card>>
    BY <1>8 DEF Receive, Respond
  <2> HIDE DEF n
  <2> USE <1>1, <1>2, <1>3, <1>5, <2>1, <2>2, <2>3, ShortAssumption
  <2>4. CaseType' /\ tpdu' \in Tpdus
    BY DEF IInv, TypeOK, CaseType, Tpdus
  <2>5. FnInv'
    BY DEF IInv, FnInv
  <2>6. AskInv'
    BY DEF card, IInv, AskInv, Fetched
  <2>7. ServeInv'
    BY <1>8, ResponseMeans DEF card, ServeInv, Unserved, Fetched
  <2> QED
    BY <2>4, <2>5, <2>6, <2>7, IssueInv
<1> QED
  BY <1>6, <1>7, <1>8 DEF RespondCase3E

\* The loop of Protocol_T0_Case3E.
LEMMA StepRespondMore3E ==
    ASSUME IInv, Respond, RespondMore3E
    PROVE  IInv'
<1> DEFINE r == Append(rsp, got)
<1>1. pc = "respond" /\ fn = "more3E" /\ Busy
  BY DEF Respond, RespondMore3E, Busy
<1>2. /\ got \in Rsp /\ got.len \in Nat /\ total \in Nat /\ has \in Nat
      /\ apdu.le \in Nat /\ le \in Nat /\ tpdu.len \in Nat
  BY <1>1, RespondTypes
<1>3. /\ tpdu.ins = "get" /\ ~tpdu.send /\ rsp \in Rsp /\ Fetched = rsp.len
      /\ Short < le /\ le <= apdu.le /\ lx \in 1 .. Short
  BY <1>1, ShortAssumption DEF IInv, TypeOK, CaseType, FnInv, Fetched
<1>4. strict => rsp.len + tpdu.len <= apdu.le
  BY <1>1, <1>2, <1>3, ShortAssumption DEF IInv, AskInv
<1>5. /\ r \in Rsp /\ r.sw1 = got.sw1 /\ r.len = rsp.len + got.len
      /\ r.len \in Nat /\ rsp.len \in Nat
  BY <1>2, <1>3 DEF Append, Rsp
<1> HIDE DEF r
<1>6. CASE Return(r)
  <2>1. ASSUME strict
        PROVE  /\ got.sw1 \in {"90", "61"} => runs = 1
               /\ got.sw1 = "90" => r.len = Least(total, apdu.le)
    BY <1>1, <1>2, <1>3, <1>4, <1>5, <2>1, ResponseMeans DEF Least
  <2> QED
    BY <1>5, <1>6, <2>1, ReturnInv
<1>7. CASE Fail /\ UNCHANGED tpdu
  BY <1>7, GiveUpInv DEF Fail
<1>8. CASE /\ r.len < le /\ rsp' = r
           /\ Receive("more3E", "get", Byte(Least(le - r.len, lx)))
           /\ UNCHANGED <<ret, apdu, le, lx, i>>
  <2> DEFINE n == Length(Byte(Least(le - r.len, lx)))
  <2>1. n \in 1 .. Short /\ r.len + n <= apdu.le
    <3>1. /\ Least(le - r.len, lx) \in 1 .. Short
          /\ Least(le - r.len, lx) <= le - r.len
      BY <1>2, <1>3, <1>5, <1>8, ShortAssumption DEF Least
    <3>2. n = Least(le - r.len, lx)
      BY <3>1, LengthOfByte
    <3> QED
      BY <1>2, <1>3, <1>5, <3>1, <3>2, ShortAssumption
  <2>2. /\ pc' = "begin" /\ fn' = "more3E" /\ rsp' = r
        /\ tpdu' = [ins |-> "get", send |-> FALSE, len |-> n]
        /\ UNCHANGED <<ret, apdu, le, lx, i, iso, card>>
    BY <1>8 DEF Receive, Respond
  <2> HIDE DEF n
  <2> USE <1>1, <1>2, <1>3, <1>5, <2>1, <2>2, ShortAssumption
  <2>4. CaseType' /\ tpdu' \in Tpdus
    BY DEF IInv, TypeOK, CaseType, Tpdus
  <2>5. FnInv'
    BY DEF IInv, FnInv
  <2>6. AskInv'
    BY <1>8 DEF card, IInv, AskInv, Fetched
  <2>7. ServeInv'
    BY ResponseMeans DEF card, ServeInv, Unserved, Fetched
  <2> QED
    BY <2>4, <2>5, <2>6, <2>7, IssueInv
<1> QED
  BY <1>6, <1>7, <1>8 DEF RespondMore3E, r

\* What a case function does with a response.
LEMMA StepRespond == IInv /\ Respond => IInv'
  BY StepRespondLast, StepRespondCase3S, StepRespondReissue,
     StepRespondMore3S, StepRespondCase4S, StepRespondCase2E,
     StepRespondCase4E, StepRespondCase3E, StepRespondMore3E
     DEF Respond

-----------------------------------------------------------------------------
(* The beginning of a command and of a TPDU. *)

\* The first TPDU of a command.
LEMMA DispatchFacts ==
    ASSUME NEW a \in Commands, a.case # "malformed", Dispatch(a),
           apdu' = a, le' = a.le
    PROVE  /\ pc' = "begin" /\ tpdu' \in Tpdus /\ tpdu'.ins # "get"
           /\ tpdu'.ins = "envelope" => i' = 0
           /\ fn' \in {"last", "case3S", "case4S", "case2E", "case4E", "case3E"}
           /\ FnInv'
           /\ ~tpdu'.send /\ a.le > 0 => tpdu'.len <= a.le
<1> DEFINE Goal ==
      /\ pc' = "begin" /\ tpdu' \in Tpdus /\ tpdu'.ins # "get"
      /\ tpdu'.ins = "envelope" => i' = 0
      /\ fn' \in {"last", "case3S", "case4S", "case2E", "case4E", "case3E"}
      /\ FnInv'
      /\ ~tpdu'.send /\ a.le > 0 => tpdu'.len <= a.le
<1> USE CommandFacts, ShortAssumption DEF Tpdus, FnInv, Busy
<1>1. CASE a.case = "1" /\ Receive("last", "own", 0)
  BY <1>1 DEF Receive, Length
<1>2. CASE a.case = "2S" /\ Send("last", "own", a.lc)
  BY <1>2 DEF Send
<1>3. ASSUME a.case \in {"3S", "3E"}, a.le <= Short, Case3S("own", a.le)
      PROVE  Goal
  <2>1. a.le \in 1 .. Short /\ Length(Byte(a.le)) = a.le
    BY <1>3, LengthOfByte
  <2> QED
    BY <1>3, <2>1 DEF Case3S, Receive
<1>4. CASE a.case = "4S" /\ Send("case4S", "own", a.lc)
  BY <1>4 DEF Send
<1>5. CASE /\ a.case \in {"2E", "4E"} /\ a.lc < Short
           /\ Send(IF a.case = "2E" THEN "last" ELSE "case4E", "own", a.lc)
  BY <1>5 DEF Send
<1>6. CASE a.case \in {"2E", "4E"} /\ Envelope(a, 0)
  <2> DEFINE n == Least(Short - 1, RawLen(a) - 0)
  <2>1. n \in 0 .. Short /\ 0 + n <= RawLen(a)
    BY DEF Least
  <2> HIDE DEF n
  <2>2. /\ pc' = "begin" /\ fn' = "case2E" /\ i' = 0
        /\ tpdu' = [ins |-> "envelope", send |-> TRUE, len |-> n]
    BY <1>6 DEF Envelope, Send, n
  <2> QED
    BY <1>6, <2>1, <2>2
<1>7. CASE a.case = "3E" /\ Case3E("own", a.le)
  <2>1. CASE a.le <= Short
    BY <1>3, <1>7, <2>1 DEF Case3E
  <2>2. CASE a.le > Short
    <3>1. /\ pc' = "begin" /\ fn' = "case3E"
          /\ tpdu' = [ins |-> "own", send |-> FALSE, len |-> Short]
      BY <1>7, <2>2 DEF Case3E, Receive, Length
    <3> QED
      BY <1>7, <2>2, <3>1
  <2> QED
    BY <2>1, <2>2
<1>8. CASE a.case = "3S" /\ Case3S("own", a.le)
  BY <1>3, <1>8
<1> QED
  BY <1>1, <1>2, <1>4, <1>5, <1>6, <1>7, <1>8 DEF Dispatch

\* The plan a card starts with.
LEMMA NoPlanType == NoPlan \in CardPlans
  BY ShortAssumption DEF NoPlan, SW1s, Bytes, CardPlans

\* Protocol_T0_Command is called.
LEMMA StepCommand ==
    ASSUME IInv, NEW a \in Apdus, Command(a)
    PROVE  IInv'
<1>1. /\ a \in Commands /\ a.le \in Nat
      /\ pc = "idle" /\ ret # "error" /\ apdu' = a /\ le' = a.le
      /\ rsp' = None /\ lx' = 0 /\ i' = 0
      /\ nulls' = 0 /\ sent' = 0 /\ recv' = 0 /\ sw1' = "90" /\ got' = None
      /\ has' = 0 /\ plan' = NoPlan /\ runs' = 0 /\ total' = 0
      /\ excused' = FALSE /\ UNCHANGED <<iso, open, strict>>
  BY ApdusAssumption, CommandFacts DEF Command
<1>2. /\ ~open
      /\ \/ pc' = "idle" /\ ret' = "error" /\ UNCHANGED <<fn, tpdu>>
         \/ /\ pc' = "begin" /\ ret' = "none" /\ tpdu' \in Tpdus
            /\ tpdu'.ins # "get"
            /\ fn' \in {"last", "case3S", "case4S", "case2E", "case4E", "case3E"}
            /\ FnInv'
            /\ ~tpdu'.send /\ a.le > 0 => tpdu'.len <= a.le
  <2>1. ~open
    BY <1>1 DEF IInv, OpenInv
  <2>2. CASE a.case = "malformed"
    BY <1>1, <2>1, <2>2 DEF Command
  <2>3. CASE a.case # "malformed"
    BY <1>1, <2>1, <2>3, DispatchFacts DEF Command
  <2> QED
    BY <2>2, <2>3
<1> USE <1>1, <1>2, ShortAssumption, BoundsAssumption
<1>3. CaseType' /\ ExchangeType' /\ CardType'
  <2>1. CaseType'
    BY DEF IInv, TypeOK, CaseType
  <2>2. ExchangeType'
    BY DEF IInv, TypeOK, ExchangeType, SW1s
  <2>3. CardType'
    <3>1. excused' \in BOOLEAN
      OBVIOUS
    <3> QED
      BY <3>1, NoPlanType DEF IInv, TypeOK, CardType
  <2> QED
    BY <2>1, <2>2, <2>3
<1>4. OpenInv' /\ BufferInBounds' /\ TransmissionEnded'
  BY DEF OpenInv, BufferInBounds, TransmissionEnded, MaxResponse, IInv,
         TypeOK, ExchangeType, Tpdus
<1>5. FnInv'
  BY DEF FnInv, Busy
<1>6. AskInv' /\ PlanInv' /\ ServeInv' /\ ResponseInv'
  BY DEF AskInv, PlanInv, ServeInv, ResponseInv, Unserved, Fetched, Busy,
         Tpdus
<1>7. CarriedOutOnce' /\ AnswerComplete'
  BY DEF CarriedOutOnce, AnswerComplete
<1> QED
  BY <1>3, <1>4, <1>5, <1>6, <1>7 DEF IInv, TypeOK

\* A plan that serves the TPDU as the protocol says.
LEMMA GoodPlan ==
    ASSUME IInv, pc' = "procedure", sent' = 0, recv' = 0,
           UNCHANGED <<tpdu, has, apdu, strict, i>>,
           NEW n \in {0, tpdu.len}, NEW s \in SW1s, NEW t \in Bytes, NEW h \in Nat,
           NEW r \in BOOLEAN,
           plan' = [need |-> n, sw1 |-> s, sw2 |-> t, has |-> h, run |-> r],
           s \in {"67", "69", "6C"} => ~r /\ h = has /\ n = 0,
           s \in {"90", "61"} => /\ r <=> Executes
                                 /\ tpdu.ins = "get" => has = n + h,
           tpdu.ins = "get" => ~tpdu.send,
           s = "90" /\ (~tpdu.send \/ ~r) => h = 0,
           s = "61" => /\ h > 0 /\ t = Named(h)
                       /\ tpdu.ins = "envelope" => Executes,
           s = "6C" => ~tpdu.send /\ 0 < t /\ t < tpdu.len,
           apdu.le = 0 => h = 0 /\ (tpdu.send \/ n = 0)
    PROVE  plan' \in CardPlans /\ PlanInv'
<1>1. tpdu.len \in Nat
  BY ShortAssumption DEF IInv, TypeOK, ExchangeType, Tpdus
<1>2. plan' \in CardPlans
  BY <1>1 DEF CardPlans
<1>3. /\ plan'.need = n /\ plan'.sw1 = s /\ plan'.sw2 = t /\ plan'.has = h
      /\ plan'.run = r
  OBVIOUS
<1>4. Executes' = Executes /\ Received' = 0 /\ Sends' = IF tpdu.send THEN 0 ELSE n
  BY <1>1, <1>3 DEF Executes, Received, Sends
<1> QED
  BY <1>1, <1>2, <1>3, <1>4 DEF PlanInv

\* Every plan of a card that follows the protocol is one.
LEMMA PlanFacts ==
    ASSUME IInv, pc = "begin", strict, Plan,
           pc' = "procedure", sent' = 0, recv' = 0,
           UNCHANGED <<tpdu, has, apdu, strict, i>>
    PROVE  plan' \in CardPlans /\ PlanInv'
<1> DEFINE Goal == plan' \in CardPlans /\ PlanInv'
<1>1. /\ has \in Nat /\ tpdu.ins \in {"own", "get", "envelope"}
      /\ tpdu.len \in Nat /\ tpdu.len <= Short
      /\ i + tpdu.len \in Nat /\ RawLen(apdu) \in Nat
  BY CommandFacts, ShortAssumption
     DEF IInv, TypeOK, CardType, CaseType, ExchangeType, Tpdus
<1>2. /\ ~tpdu.send => tpdu.len > 0
      /\ tpdu.ins # "get" => has = 0
      /\ tpdu.ins = "get" => ~tpdu.send /\ apdu.le # 0
      /\ tpdu.ins = "envelope" => tpdu.send
  BY CommandFacts DEF IInv, ServeInv, Unserved, FnInv, Busy
<1>3. \A k \in Expected : k \in Nat /\ (apdu.le = 0 => k = 0)
  BY BoundsAssumption DEF Expected
<1>4. \A k \in Nat : Named(k) \in Bytes
  BY ShortAssumption DEF Named, Bytes
<1>5. 0 \in Bytes
  BY ShortAssumption DEF Bytes
<1> USE DEF SW1s
<1>6. ASSUME plan' = Refuse, tpdu.ins # "get"
      PROVE  Goal
  <2>1. plan' = [need |-> 0, sw1 |-> "67", sw2 |-> 0, has |-> 0, run |-> FALSE]
    BY <1>6 DEF Refuse, NoPlan
  <2> QED
    BY <1>2, <1>5, <1>6, <2>1, GoodPlan
<1>7. ASSUME NEW k \in Expected, NEW n \in {0, tpdu.len},
             plan' \in Announcements(k, n), Executes, tpdu.send \/ n = 0,
             tpdu.send \/ plan'.sw1 = "61" \/ plan'.has = 0
      PROVE  Goal
  <2>1. PICK s \in IF k = 0 THEN {"90"} ELSE {"61", "90"} :
          plan' = [need |-> n, sw1 |-> s, sw2 |-> IF s = "61" THEN Named(k) ELSE 0,
                   has |-> k, run |-> TRUE]
    BY <1>7 DEF Announcements
  <2>2. tpdu.ins # "get"
    BY <1>7 DEF Executes
  <2>3. k \in Nat /\ Named(k) \in Bytes
    BY <1>3, <1>4
  <2>4. CASE s = "61"
    <3>1. /\ plan' = [need |-> n, sw1 |-> "61", sw2 |-> Named(k), has |-> k,
                      run |-> TRUE]
          /\ k > 0
      BY <2>1, <2>3, <2>4
    <3> QED
      BY <1>3, <1>7, <2>2, <2>3, <3>1, GoodPlan
  <2>5. CASE s = "90"
    <3>1. plan' = [need |-> n, sw1 |-> "90", sw2 |-> 0, has |-> k, run |-> TRUE]
      BY <2>1, <2>5
    <3>2. tpdu.send \/ k = 0
      BY <1>7, <3>1
    <3> QED
      BY <1>3, <1>5, <1>7, <2>2, <2>3, <3>1, <3>2, GoodPlan
  <2> QED
    BY <2>1, <2>4, <2>5
<1>8. ASSUME NEW k \in Nat, NEW r \in BOOLEAN, k >= tpdu.len, plan' = Part(k, r),
             ~tpdu.send, r <=> Executes, tpdu.ins = "get" => k = has,
             apdu.le # 0, tpdu.ins # "envelope"
      PROVE  Goal
  <2>1. k - tpdu.len \in Nat /\ Named(k - tpdu.len) \in Bytes
    BY <1>1, <1>4, <1>8
  <2>2. CASE k = tpdu.len
    <3>1. plan' = [need |-> tpdu.len, sw1 |-> "90", sw2 |-> Named(k - tpdu.len),
                   has |-> k - tpdu.len, run |-> r]
      BY <1>8, <2>2 DEF Part
    <3> QED
      BY <1>1, <1>8, <2>1, <2>2, <3>1, GoodPlan
  <2>3. CASE k # tpdu.len
    <3>1. plan' = [need |-> tpdu.len, sw1 |-> "61", sw2 |-> Named(k - tpdu.len),
                   has |-> k - tpdu.len, run |-> r]
      BY <1>8, <2>3 DEF Part
    <3> QED
      BY <1>1, <1>8, <2>1, <2>3, <3>1, GoodPlan
  <2> QED
    BY <2>2, <2>3
<1>9. ASSUME NEW k \in Nat, 0 < k, k < tpdu.len, plan' = Exact(k), ~tpdu.send,
             apdu.le # 0
      PROVE  Goal
  <2>1. plan' = [need |-> 0, sw1 |-> "6C", sw2 |-> k, has |-> has, run |-> FALSE]
    <3>1. Named(k) = k
      BY <1>1, <1>9, ShortAssumption DEF Named
    <3> QED
      BY <1>9, <3>1 DEF Exact, NoPlan
  <2>2. k \in Bytes
    BY <1>1, <1>9, ShortAssumption DEF Bytes
  <2> QED
    BY <1>1, <1>9, <2>1, <2>2, GoodPlan
<1>10. CASE tpdu.ins = "own" /\ ~tpdu.send /\ plan' \in PlansReceive
  <2>1. Executes
    BY <1>10 DEF Executes
  <2>2. ASSUME NEW k \in Expected, k >= tpdu.len, plan' = Part(k, TRUE)
        PROVE  Goal
    <3>1. k \in Nat /\ apdu.le # 0
      BY <1>1, <1>2, <1>3, <1>10, <2>2
    <3> QED
      BY <1>8, <1>10, <2>1, <2>2, <3>1
  <2>3. ASSUME NEW k \in Expected, 0 < k, k < tpdu.len, plan' = Exact(k)
        PROVE  Goal
    BY <1>3, <1>9, <1>10, <2>3
  <2>4. ASSUME NEW k \in Expected, plan' \in Announcements(k, 0),
               plan'.sw1 = "61" \/ plan'.has = 0
        PROVE  Goal
    BY <1>7, <2>1, <2>4
  <2> QED
    BY <1>6, <1>10, <2>2, <2>3, <2>4 DEF PlansReceive
<1>11. CASE tpdu.ins = "own" /\ tpdu.send /\ plan' \in {Refuse} \cup PlansAnnounce
  BY <1>6, <1>7, <1>11 DEF PlansAnnounce, Executes
<1>12. CASE /\ tpdu.ins = "envelope" /\ i + tpdu.len < RawLen(apdu)
            /\ plan' \in {Refuse, [NoPlan EXCEPT !.need = tpdu.len]}
  <2>1. ~Executes
    BY <1>1, <1>12 DEF Executes
  <2>2. CASE plan' = [NoPlan EXCEPT !.need = tpdu.len]
    <3>1. plan' = [need |-> tpdu.len, sw1 |-> "90", sw2 |-> 0, has |-> 0,
                   run |-> FALSE]
      BY <2>2 DEF NoPlan
    <3> QED
      BY <1>2, <1>5, <1>12, <2>1, <3>1, GoodPlan
  <2> QED
    BY <1>6, <1>12, <2>2
<1>13. CASE /\ tpdu.ins = "envelope" /\ i + tpdu.len = RawLen(apdu)
            /\ plan' \in PlansAnnounce
  BY <1>2, <1>7, <1>13 DEF PlansAnnounce, Executes
<1>14. CASE tpdu.ins = "get"
  <2>1. ~Executes
    BY <1>14 DEF Executes
  <2>2. CASE has = 0 /\ plan' = [NoPlan EXCEPT !.sw1 = "69"]
    <3>1. plan' = [need |-> 0, sw1 |-> "69", sw2 |-> 0, has |-> 0, run |-> FALSE]
      BY <2>2 DEF NoPlan
    <3> QED
      BY <1>2, <1>5, <1>14, <2>1, <2>2, <3>1, GoodPlan
  <2>3. CASE has >= tpdu.len /\ plan' = Part(has, FALSE)
    BY <1>1, <1>2, <1>8, <1>14, <2>1, <2>3
  <2>4. CASE 0 < has /\ has < tpdu.len /\ plan' = Exact(has)
    BY <1>1, <1>2, <1>9, <1>14, <2>4
  <2> QED
    BY <1>14, <2>2, <2>3, <2>4 DEF Plan
<1> QED
  BY <1>10, <1>11, <1>12, <1>13, <1>14 DEF Plan

\* The header of a TPDU is sent.
LEMMA StepBegin ==
    ASSUME IInv, Begin
    PROVE  IInv'
<1>1. /\ pc = "begin" /\ pc' = "procedure" /\ open' = TRUE
      /\ nulls' = 0 /\ sent' = 0 /\ recv' = 0
      /\ UNCHANGED <<iso, case, tpdu, sw1, got, strict, has, runs, total, excused>>
  BY DEF Begin, NoFault
<1>2. plan' \in CardPlans /\ PlanInv'
  <2>1. CASE strict
    BY <1>1, <2>1, PlanFacts DEF Begin, case
  <2>2. CASE ~strict
    BY <1>1, <2>2, NoPlanType DEF Begin, PlanInv
  <2> QED
    BY <2>1, <2>2
<1> USE <1>1, <1>2, ShortAssumption, BoundsAssumption DEF IInv, case
<1>3. TypeOK'
  <2>1. CaseType'
    BY DEF TypeOK, CaseType
  <2>2. ExchangeType'
    BY DEF TypeOK, ExchangeType
  <2>3. CardType'
    BY DEF TypeOK, CardType
  <2> QED
    BY <2>1, <2>2, <2>3 DEF TypeOK
<1>4. OpenInv' /\ BufferInBounds' /\ TransmissionEnded'
  BY DEF OpenInv, BufferInBounds, TransmissionEnded, MaxResponse
<1>5. FnInv'
  BY DEF FnInv, Busy
<1>6. AskInv' /\ ServeInv' /\ ResponseInv'
  BY DEF AskInv, ServeInv, ResponseInv, Unserved, Fetched, Busy
<1>7. CarriedOutOnce' /\ AnswerComplete'
  BY DEF CarriedOutOnce, AnswerComplete
<1> QED
  BY <1>3, <1>4, <1>5, <1>6, <1>7

-----------------------------------------------------------------------------

\* At the start the terminal is idle.
LEMMA InitInv == Init => IInv
<1> SUFFICES ASSUME Init PROVE IInv
  OBVIOUS
<1> USE ShortAssumption, BoundsAssumption, BuildsAssumption DEF Init
<1>1. TypeOK
  <2>1. CaseType
    BY DEF CaseType, NoApdu, Commands
  <2>2. ExchangeType
    <3>1. NoTpdu \in Tpdus
      BY DEF Tpdus, NoTpdu
    <3>2. open \in BOOLEAN
      OBVIOUS
    <3> QED
      BY <3>1, <3>2 DEF ExchangeType, SW1s
  <2>3. CardType
    <3>1. strict \in BOOLEAN /\ excused \in BOOLEAN
      OBVIOUS
    <3> QED
      BY <3>1, NoPlanType DEF CardType
  <2> QED
    BY <2>1, <2>2, <2>3 DEF TypeOK
<1>2. OpenInv /\ BufferInBounds /\ TransmissionEnded
  BY DEF OpenInv, BufferInBounds, TransmissionEnded, MaxResponse, NoTpdu
<1>3. FnInv /\ AskInv /\ PlanInv /\ ServeInv /\ ResponseInv
  BY DEF FnInv, AskInv, PlanInv, ServeInv, ResponseInv, Busy
<1>4. CarriedOutOnce /\ AnswerComplete
  BY DEF CarriedOutOnce, AnswerComplete
<1> QED
  BY <1>1, <1>2, <1>3, <1>4 DEF IInv

\* Every step of the driver, the card and the application preserves IInv.
LEMMA NextInv == IInv /\ [Next]_vars => IInv'
<1> SUFFICES ASSUME IInv, [Next]_vars PROVE IInv'
  OBVIOUS
<1>1. CASE UNCHANGED vars
  <2> USE <1>1 DEF vars, case, exchange, counters, card, IInv
  <2>1. TypeOK'
    BY DEF TypeOK, CaseType, ExchangeType, CardType
  <2>2. OpenInv' /\ FnInv' /\ AskInv' /\ ServeInv'
    BY DEF OpenInv, FnInv, AskInv, ServeInv, Unserved, Fetched, Busy
  <2>3. PlanInv'
    BY DEF PlanInv, Received, Sends, Executes
  <2>4. ResponseInv'
    BY DEF ResponseInv, Unserved, Fetched, Executes
  <2>5. BufferInBounds' /\ TransmissionEnded' /\ CarriedOutOnce' /\ AnswerComplete'
    BY DEF BufferInBounds, TransmissionEnded, CarriedOutOnce, AnswerComplete
  <2> QED
    BY <2>1, <2>2, <2>3, <2>4, <2>5
<1>2. CASE Host
  <2>1. \A all \in BOOLEAN : Data(all) => IInv'
    BY StepData
  <2>2. \A s \in SW1s : SW1(s) => IInv'
    BY StepSW1
  <2>3. \A s \in 0 .. Short - 1 : SW2(s) => IInv'
    BY StepSW2
  <2> QED
    BY <1>2, <2>1, <2>2, <2>3, StepBegin, StepBeginFails, StepEnd,
       StepEndFails, StepRespond, StepNull, StepOther, StepExchangeFails
       DEF Host
<1>3. CASE Reset \/ Deviate \/ \E a \in Apdus : Command(a)
  BY <1>3, StepReset, StepDeviate, StepCommand
<1> QED
  BY <1>1, <1>2, <1>3 DEF Next

\* IInv holds in every state the T=0 handler and a card can reach.
THEOREM Invariant == Spec => []IInv
  BY InitInv, NextInv, PTL DEF Spec

\* Every variable of the T=0 handler and of the card keeps its type.
THEOREM TypeCorrect == Spec => []TypeOK
<1>1. IInv => TypeOK
  BY DEF IInv
<1> QED
  BY <1>1, Invariant, PTL

\* Whatever a card sends, Protocol_T0_ExchangeTPDU stays inside its buffer.
THEOREM BufferStaysInBounds == Spec => []BufferInBounds
<1>1. IInv => BufferInBounds
  BY DEF IInv
<1> QED
  BY <1>1, Invariant, PTL

\* A transmission is left open only after a fault of the card or of the line.
THEOREM TransmissionsEnd == Spec => []TransmissionEnded
<1>1. IInv => TransmissionEnded
  BY DEF IInv
<1> QED
  BY <1>1, Invariant, PTL

\* However many TPDUs a command takes, the card carries it out once.
THEOREM CommandsRunOnce == Spec => []CarriedOutOnce
<1>1. IInv => CarriedOutOnce
  BY DEF IInv
<1> QED
  BY <1>1, Invariant, PTL

\* The response has the whole answer of the card, or Le bytes of it.
THEOREM AnswersAreComplete == Spec => []AnswerComplete
<1>1. IInv => AnswerComplete
  BY DEF IInv
<1> QED
  BY <1>1, Invariant, PTL
=============================================================================
