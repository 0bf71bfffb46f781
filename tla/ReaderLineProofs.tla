-------------------------- MODULE ReaderLineProofs --------------------------
(* Proofs about ReaderLine, for every set of reader models, cards and PPS       *)
(* factors. IInv is inductive: what IFD_Towitoko_SetBaudrate and SetParity do   *)
(* to the line is said once, in a lemma each, and every action rests on those.  *)
EXTENDS ReaderLine, TLAPS

\* IO_Serial_Bitrate has a constant for every rate, the greatest not above it.
LEMMA PortRateFacts ==
    ASSUME NEW b \in Nat
    PROVE  /\ PortRate(b) \in Bitrates /\ PortRate(b) <= b
           /\ \A q \in Bitrates : q <= b => q <= PortRate(b)
<1> DEFINE Below(r) == r <= b /\ \A q \in Bitrates : q <= b => q <= r
<1>1. \E r \in Bitrates : Below(r)
  <2>1. CASE b < 75
    BY <2>1 DEF Bitrates
  <2>2. CASE 75 <= b /\ b < 200
    BY <2>2 DEF Bitrates
  <2>3. CASE 200 <= b /\ b < 2400
    BY <2>3 DEF Bitrates
  <2>4. CASE 2400 <= b /\ b < 57600
    BY <2>4 DEF Bitrates
  <2>5. CASE 57600 <= b
    BY <2>5 DEF Bitrates
  <2> QED
    BY <2>1, <2>2, <2>3, <2>4, <2>5
<1>2. PortRate(b) = CHOOSE r \in Bitrates : Below(r)
  BY DEF PortRate
<1>3. PortRate(b) \in Bitrates /\ Below(PortRate(b))
  <2> HIDE DEF Below
  <2> QED
    BY <1>1, <1>2
<1> QED
  BY <1>3

\* SetBaudrate finds a step of the reader for every rate it accepts, the least not
\* below it.
LEMMA ReaderRateFacts ==
    ASSUME NEW b \in Nat, b <= MaxBaudrate
    PROVE  /\ ReaderRate(b) \in Steps /\ b <= ReaderRate(b)
           /\ \A q \in Steps : b <= q => ReaderRate(b) <= q
<1> DEFINE Above(r) == b <= r /\ \A q \in Steps : b <= q => r <= q
<1>1. \E r \in Steps : Above(r)
  <2>1. CASE b <= 4800
    BY <2>1 DEF Steps
  <2>2. CASE 4800 < b /\ b <= 19200
    BY <2>2 DEF Steps
  <2>3. CASE 19200 < b
    BY <2>3 DEF Steps, MaxBaudrate
  <2> QED
    BY <2>1, <2>2, <2>3 DEF MaxBaudrate
<1>2. ReaderRate(b) = CHOOSE r \in Steps : Above(r)
  BY DEF ReaderRate
<1>3. ReaderRate(b) \in Steps /\ Above(ReaderRate(b))
  <2> HIDE DEF Above
  <2> QED
    BY <1>1, <1>2
<1> QED
  BY <1>3

\* Both rates of the driver are rates of port and reader.
LEMMA RatesAreSettable ==
    /\ Settable(Rate) /\ Settable(SyncRate)
    /\ Rate <= MaxBaudrate /\ SyncRate <= MaxBaudrate
    /\ PortRate(Rate) = Rate /\ PortRate(SyncRate) = SyncRate
<1>1. ASSUME NEW b \in {Rate, SyncRate} PROVE PortRate(b) = b /\ ReaderRate(b) = b
  <2>1. b \in Nat /\ b <= MaxBaudrate /\ b \in Bitrates /\ b \in Steps
    BY <1>1 DEF Rate, SyncRate, MaxBaudrate, Bitrates, Steps
  <2>2. PortRate(b) <= b /\ b <= PortRate(b) /\ PortRate(b) \in Nat
    BY <2>1, PortRateFacts DEF Bitrates
  <2>3. b <= ReaderRate(b) /\ ReaderRate(b) <= b /\ ReaderRate(b) \in Nat
    BY <2>1, ReaderRateFacts DEF Steps
  <2> QED
    BY <2>1, <2>2, <2>3
<1> QED
  BY <1>1 DEF Settable, Rate, SyncRate, MaxBaudrate

\* A rate that both ends can be set to is the rate asked for.
LEMMA SettableIsExact ==
    ASSUME NEW b \in Nat, Settable(b)
    PROVE  PortRate(b) = b /\ ReaderRate(b) = b
<1>1. b <= MaxBaudrate
  BY DEF Settable
<1>2. PortRate(b) <= b /\ PortRate(b) \in Nat
  BY PortRateFacts DEF Bitrates
<1>3. b <= ReaderRate(b) /\ ReaderRate(b) \in Nat
  BY <1>1, ReaderRateFacts DEF Steps
<1> QED
  BY <1>2, <1>3 DEF Settable

\* The factors of a PPS confirm.
LEMMA Factors ==
    \A a \in Requests \cup {Default} : a.f \in Nat \ {0} /\ a.d \in {1, 2, 4, 8, 16}
<1>1. \A a \in Requests : a.f \in Nat \ {0} /\ a.d \in {1, 2, 4, 8, 16}
  <2>1. \A a \in Requests : a.f \in Fs /\ a.d \in Ds
    BY DEF Requests
  <2> QED
    BY <2>1, FactorsAssumption
<1>2. Default.f = 372 /\ Default.d = 1
  BY DEF Default
<1> QED
  BY <1>1, <1>2

\* A rate that both ends have is never one below a whole quotient: the successor of
\* no such rate divides the clock rate.
LEMMA OneOff ==
    ASSUME NEW f \in Nat \ {0}, NEW d \in {1, 2, 4, 8, 16}, NEW b \in Bitrates \cap Steps
    PROVE  372 * 9600 * d # f * (b + 1)
<1>1. b \in {1200, 2400, 4800, 9600, 19200, 38400, 57600, 115200}
  BY DEF Bitrates, Steps
<1>2. CASE b = 1200
  BY <1>2
<1>3. CASE b = 2400
  BY <1>3
<1>4. CASE b = 4800
  BY <1>4
<1>5. CASE b = 9600
  BY <1>5
<1>6. CASE b = 19200
  BY <1>6
<1>7. CASE b = 38400
  BY <1>7
<1>8. CASE b = 57600
  BY <1>8
<1>9. CASE b = 115200
  BY <1>9
<1> QED
  BY <1>1, <1>2, <1>3, <1>4, <1>5, <1>6, <1>7, <1>8, <1>9

\* A division without remainder is undone by the multiplication.
LEMMA Exact ==
    ASSUME NEW n \in Nat \ {0}, NEW f \in Nat \ {0}, n % f = 0
    PROVE  n \div f \in Nat \ {0} /\ n = f * (n \div f)
<1>1. n \div f \in Int /\ n = f * (n \div f) + (n % f)
  OBVIOUS
<1>2. n = f * (n \div f)
  BY <1>1
<1> DEFINE q == n \div f
<1>3. q > 0
  <2> HIDE DEF q
  <2>1. q \in Int /\ f * q > 0
    BY <1>1, <1>2 DEF q
  <2>2. ASSUME q <= 0 PROVE f * q <= 0
    BY <2>1, <2>2
  <2> QED
    BY <2>1, <2>2
<1> QED
  BY <1>1, <1>2, <1>3

\* What PPS_InitICC computes is the rate of the card, or one less, which is then no
\* rate that both ends have.
LEMMA DriverRates ==
    ASSUME NEW a \in Requests \cup {Default}, NEW b \in Baudrates(a)
    PROVE  b \in Nat /\ Baudrate(a) \in Nat /\ Agreed(b, Baudrate(a))
<1> DEFINE n == 372 * 9600 * a.d
<1>1. a.f \in Nat \ {0} /\ a.d \in {1, 2, 4, 8, 16} /\ n \in Nat \ {0}
  BY Factors
<1> HIDE DEF n
<1>2. Baudrate(a) = n \div a.f
  BY DEF Baudrate, n
<1>3. Baudrate(a) \in Nat
  <2>1. \A k \in Nat, f \in Nat \ {0} : k \div f \in Nat
    OBVIOUS
  <2> QED
    BY <1>1, <1>2, <2>1
<1>4. CASE b = Baudrate(a)
  BY <1>3, <1>4 DEF Agreed
<1>5. CASE b # Baudrate(a)
  <2>1. n % a.f = 0 /\ b = Baudrate(a) - 1
    BY <1>5 DEF Baudrates, n
  <2>2. Baudrate(a) > 0 /\ n = a.f * Baudrate(a)
    <3>1. \A k \in Nat \ {0}, f \in Nat \ {0} :
              k % f = 0 => k \div f \in Nat \ {0} /\ k = f * (k \div f)
      BY Exact
    <3>2. n \div a.f \in Nat \ {0} /\ n = a.f * (n \div a.f)
      BY <1>1, <2>1, <3>1
    <3> QED
      BY <1>2, <3>2
  <2>3. b \in Nat /\ b + 1 = Baudrate(a)
    BY <1>3, <2>1, <2>2
  <2>4. b \notin Bitrates \cap Steps
    BY <1>1, <2>2, <2>3, OneOff DEF n
  <2> QED
    BY <1>3, <2>3, <2>4 DEF Agreed
<1> QED
  BY <1>4, <1>5

\* What SetBaudrate does: the parity stays, the rates of cache, port and reader
\* agree unless the step says why not, and a failure is a fault if the reader was
\* listening.
RateSet(b, next, fail) ==
    /\ LineType' /\ HistoryType' /\ RateInv'
    /\ port'.parity = port.parity /\ reader'.parity = reader.parity
    /\ fault => fault'
    /\ \/ /\ pc' = next /\ fault' = fault /\ dropped' = dropped
          /\ cache'.rate = b /\ (Settable(b) => why' = why)
       \/ /\ pc' = fail /\ dropped' = (dropped \/ reader.parity = "odd")
          /\ b <= MaxBaudrate /\ why = {} => fault'

\* SetBaudrate does this wherever it is called.
LEMMA RateStep ==
    ASSUME TypeOK, RateInv, NEW b \in Nat, NEW next, NEW fail,
           SetBaudrate(b, next, fail)
    PROVE  RateSet(b, next, fail)
<1> USE DEF TypeOK, LineType, HistoryType, RateInv, line, Clear, Faulty, Drop, RateSet
<1>0. why = {} => Heard
  BY DEF Heard
<1>1. CASE /\ b <= MaxBaudrate /\ cache.rate = b
           /\ pc' = next /\ Clear
           /\ UNCHANGED <<line, why, dropped>>
  BY <1>1
<1>2. CASE /\ b > MaxBaudrate \/ cache.rate # b
           /\ pc' = fail /\ Drop
           /\ fault' = (fault \/ (b <= MaxBaudrate /\ Heard))
           /\ UNCHANGED <<line, why>>
  <2>1. dropped' \in BOOLEAN /\ fault' \in BOOLEAN
    BY <1>2
  <2> QED
    BY <1>0, <1>2, <2>1
<1>3. CASE /\ b <= MaxBaudrate /\ cache.rate # b /\ Heard
           /\ reader' = [reader EXCEPT !.rate = ReaderRate(b)]
           /\ pc' = fail /\ Drop /\ Faulty
           /\ why' = why \cup {"rate"}
           /\ UNCHANGED <<cache, port>>
  <2>1. dropped' \in BOOLEAN /\ fault' \in BOOLEAN
    BY <1>3
  <2>2. ReaderRate(b) \in Steps
    BY <1>3, ReaderRateFacts
  <2>3. fault'
    BY <1>3
  <2> QED
    BY <1>3, <2>1, <2>2, <2>3
<1>4. CASE /\ b <= MaxBaudrate /\ cache.rate # b /\ Heard
           /\ reader' = [reader EXCEPT !.rate = ReaderRate(b)]
           /\ cache' = [cache EXCEPT !.rate = b]
           /\ port' = [port EXCEPT !.rate = PortRate(b)]
           /\ why' = IF Settable(b) THEN why ELSE why \cup {"rate"}
           /\ pc' = next /\ Clear
           /\ UNCHANGED dropped
  <2>1. ReaderRate(b) \in Steps /\ PortRate(b) \in Bitrates
    BY <1>4, ReaderRateFacts, PortRateFacts
  <2>2. why' = {} => PortRate(b) = b /\ ReaderRate(b) = b
    BY <1>4, SettableIsExact
  <2> QED
    BY <1>4, <2>1, <2>2
<1> QED
  BY <1>1, <1>2, <1>3, <1>4 DEF SetBaudrate

\* What SetParity does: the rates stay. Either port and reader have the new parity,
\* or the step has been given up, which is a fault if the reader was listening; a
\* Kartenzwerg that is initialised does not try.
ParitySet(p, next, fail) ==
    /\ LineType' /\ HistoryType' /\ RateInv'
    /\ cache'.rate = cache.rate /\ why' = why /\ (fault => fault')
    /\ port.parity # "none" => port'.parity # "none"
    /\ \/ /\ pc' = next /\ fault' = fault /\ ~dropped'
          /\ port.parity # "none" => port'.parity = p
          /\ reader'.parity = p
       \/ /\ pc' = fail /\ dropped'
          /\ why = {} => fault'
       \/ /\ pc' = fail /\ model = "zwerg" /\ fault' = fault
          /\ dropped' = dropped

\* SetParity does this wherever it is called.
LEMMA ParityStep ==
    ASSUME TypeOK, RateInv, NEW p \in {"even", "odd"}, NEW next, NEW fail,
           SetParity(p, next, fail)
    PROVE  ParitySet(p, next, fail)
<1> USE DEF TypeOK, LineType, HistoryType, RateInv, line, Clear, Faulty, ParitySet
<1> DEFINE even(l) == [l EXCEPT !.parity = IF @ = "odd" THEN "even" ELSE @]
           final(l) == [l EXCEPT !.parity = IF even(l).parity = "even" THEN p ELSE @]
           told == [reader EXCEPT !.parity = p]
<1>0. why = {} => Heard
  BY DEF Heard
<1>1. CASE /\ model = "zwerg" /\ at \in ready
           /\ pc' = fail /\ Clear
           /\ UNCHANGED <<line, why, dropped>>
  BY <1>1
<1>2. CASE /\ model # "zwerg" \/ at \notin ready
           /\ Heard
           /\ cache' = final(cache) /\ port' = final(port) /\ reader' = told
           /\ pc' = next /\ Clear
           /\ dropped' = FALSE
           /\ UNCHANGED why
  BY <1>2
<1>3. CASE /\ model # "zwerg" \/ at \notin ready
           /\ \/ UNCHANGED <<cache, port>>
              \/ cache' = even(cache) /\ port' = even(port)
           /\ reader' \in {reader} \cup (IF Heard THEN {told} ELSE {})
           /\ pc' = fail /\ Faulty
           /\ dropped' = TRUE
           /\ UNCHANGED why
  <2>1. fault' \in BOOLEAN /\ (why = {} => fault')
    BY <1>0, <1>3
  <2>2. reader' = reader \/ reader' = told
    BY <1>3
  <2> QED
    BY <1>3, <2>1, <2>2, ZenonT(40)
<1> QED
  BY <1>1, <1>2, <1>3 DEF SetParity

\* The terminal is opened.
LEMMA StepOpen ==
    ASSUME IInv, Open
    PROVE  IInv'
<1> USE ModelsAssumption, KindsAssumption DEF IInv, TypeOK, Open, line, slots,
        Slots, Last
<1>1. LineType'
  BY DEF LineType, SlotsType, CallType, HistoryType, PowerUp, Line
<1>2. SlotsType'
  BY DEF LineType, SlotsType, CallType, HistoryType
<1>3. CallType'
  BY DEF LineType, SlotsType, CallType, HistoryType, Pcs, Requests
<1>4. HistoryType'
  BY DEF LineType, SlotsType, CallType, HistoryType
<1>5. RateInv'
  BY RatesAreSettable
     DEF LineType, SlotsType, CallType, HistoryType, RateInv, PowerUp, Line
<1>6. ParityInv'
  BY DEF LineType, SlotsType, CallType, HistoryType, RateInv, ParityInv,
         IccInv, StepParity, Convention, PowerUp, Line
<1>7. IccInv'
  BY DEF LineType, SlotsType, CallType, HistoryType, RateInv, IccInv,
         ProbePcs, ResetPcs
<1>8. ProbeInv'
  BY DEF LineType, SlotsType, CallType, HistoryType, RateInv, ParityInv,
         IccInv, ProbeInv, ProbePcs, ResetPcs, StepParity, Convention
<1>9. ProbeFinds'
  BY DEF LineType, SlotsType, CallType, HistoryType, IccInv, ProbePcs,
         ResetPcs, ProbeInv, ProbeFinds, RateInv
<1> QED
  BY <1>1, <1>2, <1>3, <1>4, <1>5, <1>6, <1>7, <1>8, <1>9 DEF IInv, TypeOK

\* The terminal is closed.
LEMMA StepClose ==
    ASSUME IInv, Close
    PROVE  IInv'
<1> USE ModelsAssumption, KindsAssumption DEF IInv, TypeOK, Close, PowerOff,
        line, slots, Slots, Last
<1>1. LineType'
  BY DEF LineType, SlotsType, CallType, HistoryType, PowerUp, Line, Rate,
         MaxBaudrate, Bitrates, Steps
<1>2. SlotsType'
  BY DEF LineType, SlotsType, CallType, HistoryType
<1>3. CallType'
  BY DEF LineType, SlotsType, CallType, HistoryType, Pcs, Requests
<1>4. HistoryType'
  BY DEF LineType, SlotsType, CallType, HistoryType
<1>5. RateInv'
  BY RatesAreSettable
     DEF LineType, SlotsType, CallType, HistoryType, RateInv, PowerUp, Line
<1>6. ParityInv'
  BY DEF LineType, SlotsType, CallType, HistoryType, RateInv, ParityInv,
         IccInv, StepParity, Convention, PowerUp, Line
<1>7. IccInv'
  BY DEF LineType, SlotsType, CallType, HistoryType, RateInv, IccInv,
         ProbePcs, ResetPcs
<1>8. ProbeInv'
  BY DEF LineType, SlotsType, CallType, HistoryType, RateInv, ParityInv,
         IccInv, ProbeInv, ProbePcs, ResetPcs, StepParity, Convention
<1>9. ProbeFinds'
  BY DEF LineType, SlotsType, CallType, HistoryType, IccInv, ProbePcs,
         ResetPcs, ProbeInv, ProbeFinds, RateInv
<1> QED
  BY <1>1, <1>2, <1>3, <1>4, <1>5, <1>6, <1>7, <1>8, <1>9 DEF IInv, TypeOK

\* RESET CT of the kernel.
LEMMA StepKernelReset ==
    ASSUME IInv, KernelReset
    PROVE  IInv'
<1> USE ModelsAssumption, KindsAssumption DEF IInv, TypeOK, KernelReset, line,
        slots, Slots, Last
<1>1. LineType'
  BY DEF LineType, SlotsType, CallType, HistoryType, PowerUp, Line
<1>2. SlotsType'
  BY DEF LineType, SlotsType, CallType, HistoryType
<1>3. CallType'
  BY DEF LineType, SlotsType, CallType, HistoryType, Pcs, Requests
<1>4. HistoryType'
  BY DEF LineType, SlotsType, CallType, HistoryType
<1>5. RateInv'
  BY RatesAreSettable
     DEF LineType, SlotsType, CallType, HistoryType, RateInv, PowerUp, Line
<1>6. ParityInv'
  BY DEF LineType, SlotsType, CallType, HistoryType, RateInv, ParityInv,
         IccInv, StepParity, Convention, PowerUp, Line
<1>7. IccInv'
  BY DEF LineType, SlotsType, CallType, HistoryType, RateInv, IccInv,
         ProbePcs, ResetPcs
<1>8. ProbeInv'
  BY DEF LineType, SlotsType, CallType, HistoryType, RateInv, ParityInv,
         IccInv, ProbeInv, ProbePcs, ResetPcs, StepParity, Convention
<1>9. ProbeFinds'
  BY DEF LineType, SlotsType, CallType, HistoryType, IccInv, ProbePcs,
         ResetPcs, ProbeInv, ProbeFinds, RateInv
<1> QED
  BY <1>1, <1>2, <1>3, <1>4, <1>5, <1>6, <1>7, <1>8, <1>9 DEF IInv, TypeOK

\* A slot is closed.
LEMMA StepCloseSlot ==
    ASSUME IInv, CloseSlot
    PROVE  IInv'
<1> USE ModelsAssumption, KindsAssumption DEF IInv, TypeOK, CloseSlot, Tell,
        Heard, Clear, Faulty, line, slots, Slots, Last
<1>1. LineType'
  BY DEF LineType, SlotsType, CallType, HistoryType, PowerUp, Line
<1>2. SlotsType'
  BY DEF LineType, SlotsType, CallType, HistoryType
<1>3. CallType'
  BY DEF LineType, SlotsType, CallType, HistoryType, Pcs, Requests
<1>4. HistoryType'
  BY DEF LineType, SlotsType, CallType, HistoryType
<1>5. RateInv'
  BY RatesAreSettable
     DEF LineType, SlotsType, CallType, HistoryType, RateInv, PowerUp, Line
<1>6. ParityInv'
  BY DEF LineType, SlotsType, CallType, HistoryType, RateInv, ParityInv,
         IccInv, StepParity, Convention, PowerUp, Line
<1>7. IccInv'
  BY DEF LineType, SlotsType, CallType, HistoryType, RateInv, IccInv,
         ProbePcs, ResetPcs
<1>8. ProbeInv'
  BY DEF LineType, SlotsType, CallType, HistoryType, RateInv, ParityInv,
         IccInv, ProbeInv, ProbePcs, ResetPcs, StepParity, Convention
<1>9. ProbeFinds'
  BY DEF LineType, SlotsType, CallType, HistoryType, IccInv, ProbePcs,
         ResetPcs, ProbeInv, ProbeFinds, RateInv
<1> QED
  BY <1>1, <1>2, <1>3, <1>4, <1>5, <1>6, <1>7, <1>8, <1>9 DEF IInv, TypeOK

\* The properties of the port are set.
LEMMA StepInitProps ==
    ASSUME IInv, InitProps
    PROVE  IInv'
<1> USE ModelsAssumption, KindsAssumption DEF IInv, TypeOK, InitProps, Clear,
        line, slots, Slots, Last
<1>1. LineType'
  BY DEF LineType, SlotsType, CallType, HistoryType, PowerUp, Line, Rate,
         MaxBaudrate, Bitrates, Steps
<1>2. SlotsType'
  BY DEF LineType, SlotsType, CallType, HistoryType
<1>3. CallType'
  BY DEF LineType, SlotsType, CallType, HistoryType, Pcs, Requests
<1>4. HistoryType'
  BY DEF LineType, SlotsType, CallType, HistoryType
<1>5. RateInv'
  BY RatesAreSettable
     DEF LineType, SlotsType, CallType, HistoryType, RateInv, PowerUp, Line
<1>6. ParityInv'
  BY DEF LineType, SlotsType, CallType, HistoryType, RateInv, ParityInv,
         IccInv, StepParity, Convention, PowerUp, Line
<1>7. IccInv'
  BY DEF LineType, SlotsType, CallType, HistoryType, RateInv, IccInv,
         ProbePcs, ResetPcs
<1>8. ProbeInv'
  BY DEF LineType, SlotsType, CallType, HistoryType, RateInv, ParityInv,
         IccInv, ProbeInv, ProbePcs, ResetPcs, StepParity, Convention
<1>9. ProbeFinds'
  BY DEF LineType, SlotsType, CallType, HistoryType, IccInv, ProbePcs,
         ResetPcs, ProbeInv, ProbeFinds, RateInv
<1> QED
  BY <1>1, <1>2, <1>3, <1>4, <1>5, <1>6, <1>7, <1>8, <1>9 DEF IInv, TypeOK

\* The rate of a new slot.
LEMMA StepInitRate ==
    ASSUME IInv, InitRate
    PROVE  IInv'
<1> USE ModelsAssumption, KindsAssumption DEF IInv, TypeOK, InitRate, line,
        slots, Slots, Last
<1>0. RateSet(Rate, "initParity", "initFails")
  BY RateStep DEF Rate, SyncRate
<1>1. LineType'
  BY <1>0, RatesAreSettable
     DEF LineType, SlotsType, CallType, HistoryType, RateSet
<1>2. SlotsType'
  BY <1>0, RatesAreSettable
     DEF LineType, SlotsType, CallType, HistoryType, RateSet
<1>3. CallType'
  BY <1>0, RatesAreSettable
     DEF LineType, SlotsType, CallType, HistoryType, Pcs, Requests, RateSet
<1>4. HistoryType'
  BY <1>0, RatesAreSettable
     DEF LineType, SlotsType, CallType, HistoryType, RateSet
<1>5. RateInv'
  BY <1>0, RatesAreSettable
     DEF LineType, SlotsType, CallType, HistoryType, RateInv, RateSet
<1>6. ParityInv'
  BY <1>0, RatesAreSettable
     DEF LineType, SlotsType, CallType, HistoryType, RateInv, ParityInv,
         IccInv, StepParity, Convention, RateSet
<1>7. IccInv'
  BY <1>0, RatesAreSettable
     DEF LineType, SlotsType, CallType, HistoryType, RateInv, IccInv,
         ProbePcs, ResetPcs, RateSet
<1>8. ProbeInv'
  BY <1>0, RatesAreSettable
     DEF LineType, SlotsType, CallType, HistoryType, RateInv, ParityInv,
         IccInv, ProbeInv, ProbePcs, ResetPcs, StepParity, Convention, RateSet
<1>9. ProbeFinds'
  BY <1>0, RatesAreSettable
     DEF LineType, SlotsType, CallType, HistoryType, IccInv, ProbePcs,
         ResetPcs, ProbeInv, ProbeFinds, RateInv, RateSet
<1> QED
  BY <1>1, <1>2, <1>3, <1>4, <1>5, <1>6, <1>7, <1>8, <1>9 DEF IInv, TypeOK

\* The parity of a new slot.
LEMMA StepInitParity ==
    ASSUME IInv, InitParity
    PROVE  IInv'
<1> USE ModelsAssumption, KindsAssumption DEF IInv, TypeOK, InitParity, line,
        slots, Slots, Last
<1>0. ParitySet("even", "initInfo", "initFails")
  BY ParityStep
<1>1. LineType'
  BY <1>0 DEF LineType, SlotsType, CallType, HistoryType, ParitySet
<1>2. SlotsType'
  BY <1>0 DEF LineType, SlotsType, CallType, HistoryType, ParitySet
<1>3. CallType'
  BY <1>0
     DEF LineType, SlotsType, CallType, HistoryType, Pcs, Requests, ParitySet
<1>4. HistoryType'
  BY <1>0 DEF LineType, SlotsType, CallType, HistoryType, ParitySet
<1>5. RateInv'
  BY <1>0, RatesAreSettable
     DEF LineType, SlotsType, CallType, HistoryType, RateInv, ParitySet
<1>6. ParityInv'
  BY <1>0
     DEF LineType, SlotsType, CallType, HistoryType, RateInv, ParityInv,
         IccInv, StepParity, Convention, ParitySet
<1>7. IccInv'
  BY <1>0
     DEF LineType, SlotsType, CallType, HistoryType, RateInv, IccInv,
         ProbePcs, ResetPcs, ParitySet
<1>8. ProbeInv'
  BY <1>0
     DEF LineType, SlotsType, CallType, HistoryType, RateInv, ParityInv,
         IccInv, ProbeInv, ProbePcs, ResetPcs, StepParity, Convention,
         ParitySet
<1>9. ProbeFinds'
  BY <1>0
     DEF LineType, SlotsType, CallType, HistoryType, IccInv, ProbePcs,
         ResetPcs, ProbeInv, ProbeFinds, RateInv, ParitySet
<1> QED
  BY <1>1, <1>2, <1>3, <1>4, <1>5, <1>6, <1>7, <1>8, <1>9 DEF IInv, TypeOK

\* The type of the reader is known.
LEMMA StepInitInfo ==
    ASSUME IInv, InitInfo
    PROVE  IInv'
<1> USE ModelsAssumption, KindsAssumption DEF IInv, TypeOK, InitInfo, Heard,
        Clear, Faulty, line, slots, Slots, Last
<1>1. LineType'
  BY DEF LineType, SlotsType, CallType, HistoryType, PowerUp, Line
<1>2. SlotsType'
  BY DEF LineType, SlotsType, CallType, HistoryType
<1>3. CallType'
  BY DEF LineType, SlotsType, CallType, HistoryType, Pcs, Requests
<1>4. HistoryType'
  BY DEF LineType, SlotsType, CallType, HistoryType
<1>5. RateInv'
  BY RatesAreSettable
     DEF LineType, SlotsType, CallType, HistoryType, RateInv, PowerUp, Line
<1>6. ParityInv'
  BY DEF LineType, SlotsType, CallType, HistoryType, RateInv, ParityInv,
         IccInv, StepParity, Convention, PowerUp, Line
<1>7. IccInv'
  BY DEF LineType, SlotsType, CallType, HistoryType, RateInv, IccInv,
         ProbePcs, ResetPcs
<1>8. ProbeInv'
  BY DEF LineType, SlotsType, CallType, HistoryType, RateInv, ParityInv,
         IccInv, ProbeInv, ProbePcs, ResetPcs, StepParity, Convention
<1>9. ProbeFinds'
  BY DEF LineType, SlotsType, CallType, HistoryType, IccInv, ProbePcs,
         ResetPcs, ProbeInv, ProbeFinds, RateInv
<1> QED
  BY <1>1, <1>2, <1>3, <1>4, <1>5, <1>6, <1>7, <1>8, <1>9 DEF IInv, TypeOK

\* A slot cannot be initialised.
LEMMA StepInitFails ==
    ASSUME IInv, InitFails
    PROVE  IInv'
<1> USE ModelsAssumption, KindsAssumption DEF IInv, TypeOK, InitFails,
        PowerOff, line, slots, Slots, Last
<1>1. LineType'
  BY DEF LineType, SlotsType, CallType, HistoryType, PowerUp, Line, Rate,
         MaxBaudrate, Bitrates, Steps
<1>2. SlotsType'
  BY DEF LineType, SlotsType, CallType, HistoryType
<1>3. CallType'
  BY DEF LineType, SlotsType, CallType, HistoryType, Pcs, Requests
<1>4. HistoryType'
  BY DEF LineType, SlotsType, CallType, HistoryType
<1>5. RateInv'
  BY RatesAreSettable
     DEF LineType, SlotsType, CallType, HistoryType, RateInv, PowerUp, Line
<1>6. ParityInv'
  BY DEF LineType, SlotsType, CallType, HistoryType, RateInv, ParityInv,
         IccInv, StepParity, Convention, PowerUp, Line
<1>7. IccInv'
  BY DEF LineType, SlotsType, CallType, HistoryType, RateInv, IccInv,
         ProbePcs, ResetPcs
<1>8. ProbeInv'
  BY DEF LineType, SlotsType, CallType, HistoryType, RateInv, ParityInv,
         IccInv, ProbeInv, ProbePcs, ResetPcs, StepParity, Convention
<1>9. ProbeFinds'
  BY DEF LineType, SlotsType, CallType, HistoryType, IccInv, ProbePcs,
         ResetPcs, ProbeInv, ProbeFinds, RateInv
<1> QED
  BY <1>1, <1>2, <1>3, <1>4, <1>5, <1>6, <1>7, <1>8, <1>9 DEF IInv, TypeOK

\* A card is released.
LEMMA StepRelease ==
    ASSUME IInv, NEW s \in Slots, Release(s)
    PROVE  IInv'
<1> USE ModelsAssumption, KindsAssumption DEF IInv, TypeOK, Release, line,
        slots, Slots, Last
<1>1. LineType'
  BY DEF LineType, SlotsType, CallType, HistoryType, PowerUp, Line
<1>2. SlotsType'
  BY DEF LineType, SlotsType, CallType, HistoryType
<1>3. CallType'
  BY DEF LineType, SlotsType, CallType, HistoryType, Pcs, Requests
<1>4. HistoryType'
  BY DEF LineType, SlotsType, CallType, HistoryType
<1>5. RateInv'
  BY RatesAreSettable
     DEF LineType, SlotsType, CallType, HistoryType, RateInv, PowerUp, Line
<1>6. ParityInv'
  BY DEF LineType, SlotsType, CallType, HistoryType, RateInv, ParityInv,
         IccInv, StepParity, Convention, PowerUp, Line
<1>7. IccInv'
  BY DEF LineType, SlotsType, CallType, HistoryType, RateInv, IccInv,
         ProbePcs, ResetPcs
<1>8. ProbeInv'
  BY DEF LineType, SlotsType, CallType, HistoryType, RateInv, ParityInv,
         IccInv, ProbeInv, ProbePcs, ResetPcs, StepParity, Convention
<1>9. ProbeFinds'
  BY DEF LineType, SlotsType, CallType, HistoryType, IccInv, ProbePcs,
         ResetPcs, ProbeInv, ProbeFinds, RateInv
<1> QED
  BY <1>1, <1>2, <1>3, <1>4, <1>5, <1>6, <1>7, <1>8, <1>9 DEF IInv, TypeOK

\* A slot is probed.
LEMMA StepProbe ==
    ASSUME IInv, NEW s \in Slots, NEW a \in Requests \cup {None}, Probe(s, a)
    PROVE  IInv'
<1> USE ModelsAssumption, KindsAssumption DEF IInv, TypeOK, Probe, line,
        slots, Slots, Last
<1>1. LineType'
  BY DEF LineType, SlotsType, CallType, HistoryType, PowerUp, Line
<1>2. SlotsType'
  BY DEF LineType, SlotsType, CallType, HistoryType
<1>3. CallType'
  BY DEF LineType, SlotsType, CallType, HistoryType, Pcs, Requests
<1>4. HistoryType'
  BY DEF LineType, SlotsType, CallType, HistoryType
<1>5. RateInv'
  BY RatesAreSettable
     DEF LineType, SlotsType, CallType, HistoryType, RateInv, PowerUp, Line
<1>6. ParityInv'
  BY DEF LineType, SlotsType, CallType, HistoryType, RateInv, ParityInv,
         IccInv, StepParity, Convention, PowerUp, Line
<1>7. IccInv'
  BY DEF LineType, SlotsType, CallType, HistoryType, RateInv, IccInv,
         ProbePcs, ResetPcs
<1>8. ProbeInv'
  BY DEF LineType, SlotsType, CallType, HistoryType, RateInv, ParityInv,
         IccInv, ProbeInv, ProbePcs, ResetPcs, StepParity, Convention
<1>9. ProbeFinds'
  BY DEF LineType, SlotsType, CallType, HistoryType, IccInv, ProbePcs,
         ResetPcs, ProbeInv, ProbeFinds, RateInv
<1> QED
  BY <1>1, <1>2, <1>3, <1>4, <1>5, <1>6, <1>7, <1>8, <1>9 DEF IInv, TypeOK

\* The light, before a memory card is tried.
LEMMA StepSyncLed ==
    ASSUME IInv, SyncLed
    PROVE  IInv'
<1> USE ModelsAssumption, KindsAssumption DEF IInv, TypeOK, SyncLed, Tell,
        Heard, Clear, Faulty, line, slots, Slots, Last
<1>1. LineType'
  BY DEF LineType, SlotsType, CallType, HistoryType, PowerUp, Line
<1>2. SlotsType'
  BY DEF LineType, SlotsType, CallType, HistoryType
<1>3. CallType'
  BY DEF LineType, SlotsType, CallType, HistoryType, Pcs, Requests
<1>4. HistoryType'
  BY DEF LineType, SlotsType, CallType, HistoryType
<1>5. RateInv'
  BY RatesAreSettable
     DEF LineType, SlotsType, CallType, HistoryType, RateInv, PowerUp, Line
<1>6. ParityInv'
  BY DEF LineType, SlotsType, CallType, HistoryType, RateInv, ParityInv,
         IccInv, StepParity, Convention, PowerUp, Line
<1>7. IccInv'
  BY DEF LineType, SlotsType, CallType, HistoryType, RateInv, IccInv,
         ProbePcs, ResetPcs
<1>8. ProbeInv'
  BY DEF LineType, SlotsType, CallType, HistoryType, RateInv, ParityInv,
         IccInv, ProbeInv, ProbePcs, ResetPcs, StepParity, Convention
<1>9. ProbeFinds'
  BY DEF LineType, SlotsType, CallType, HistoryType, IccInv, ProbePcs,
         ResetPcs, ProbeInv, ProbeFinds, RateInv
<1> QED
  BY <1>1, <1>2, <1>3, <1>4, <1>5, <1>6, <1>7, <1>8, <1>9 DEF IInv, TypeOK

\* The rate for a memory card.
LEMMA StepSyncInitRate ==
    ASSUME IInv, SyncInitRate
    PROVE  IInv'
<1> USE ModelsAssumption, KindsAssumption DEF IInv, TypeOK, SyncInitRate,
        line, slots, Slots, Last
<1>0. RateSet(SyncRate, "syncReset", "asyncLed")
  BY RateStep DEF Rate, SyncRate
<1>1. LineType'
  BY <1>0, RatesAreSettable
     DEF LineType, SlotsType, CallType, HistoryType, RateSet
<1>2. SlotsType'
  BY <1>0, RatesAreSettable
     DEF LineType, SlotsType, CallType, HistoryType, RateSet
<1>3. CallType'
  BY <1>0, RatesAreSettable
     DEF LineType, SlotsType, CallType, HistoryType, Pcs, Requests, RateSet
<1>4. HistoryType'
  BY <1>0, RatesAreSettable
     DEF LineType, SlotsType, CallType, HistoryType, RateSet
<1>5. RateInv'
  BY <1>0, RatesAreSettable
     DEF LineType, SlotsType, CallType, HistoryType, RateInv, RateSet
<1>6. ParityInv'
  BY <1>0, RatesAreSettable
     DEF LineType, SlotsType, CallType, HistoryType, RateInv, ParityInv,
         IccInv, StepParity, Convention, RateSet
<1>7. IccInv'
  BY <1>0, RatesAreSettable
     DEF LineType, SlotsType, CallType, HistoryType, RateInv, IccInv,
         ProbePcs, ResetPcs, RateSet
<1>8. ProbeInv'
  BY <1>0, RatesAreSettable
     DEF LineType, SlotsType, CallType, HistoryType, RateInv, ParityInv,
         IccInv, ProbeInv, ProbePcs, ResetPcs, StepParity, Convention, RateSet
<1>9. ProbeFinds'
  BY <1>0, RatesAreSettable
     DEF LineType, SlotsType, CallType, HistoryType, IccInv, ProbePcs,
         ResetPcs, ProbeInv, ProbeFinds, RateInv, RateSet
<1> QED
  BY <1>1, <1>2, <1>3, <1>4, <1>5, <1>6, <1>7, <1>8, <1>9 DEF IInv, TypeOK

\* A memory card is reset.
LEMMA StepSyncReset ==
    ASSUME IInv, SyncReset
    PROVE  IInv'
<1> USE ModelsAssumption, KindsAssumption DEF IInv, TypeOK, SyncReset, Tell,
        Heard, Clear, Faulty, line, slots, Slots, Last
<1>1. LineType'
  BY DEF LineType, SlotsType, CallType, HistoryType, PowerUp, Line
<1>2. SlotsType'
  BY DEF LineType, SlotsType, CallType, HistoryType, SyncRate, Rate, IccInv,
         ProbePcs
<1>3. CallType'
  BY DEF LineType, SlotsType, CallType, HistoryType, Pcs, Requests
<1>4. HistoryType'
  BY DEF LineType, SlotsType, CallType, HistoryType
<1>5. RateInv'
  BY RatesAreSettable
     DEF LineType, SlotsType, CallType, HistoryType, RateInv, PowerUp, Line
<1>6. ParityInv'
  BY DEF LineType, SlotsType, CallType, HistoryType, RateInv, ParityInv,
         IccInv, StepParity, Convention, PowerUp, Line
<1>7. IccInv'
  BY DEF LineType, SlotsType, CallType, HistoryType, RateInv, IccInv,
         ProbePcs, ResetPcs
<1>8. ProbeInv'
  BY DEF LineType, SlotsType, CallType, HistoryType, RateInv, ParityInv,
         IccInv, ProbeInv, ProbePcs, ResetPcs, StepParity, Convention
<1>9. ProbeFinds'
  BY NoneAssumption
     DEF LineType, SlotsType, CallType, HistoryType, IccInv, ProbePcs,
         ResetPcs, ProbeInv, ProbeFinds, RateInv, SyncRate, Rate, ParityInv,
         StepParity, Convention
<1> QED
  BY <1>1, <1>2, <1>3, <1>4, <1>5, <1>6, <1>7, <1>8, <1>9 DEF IInv, TypeOK

\* The light, before a processor card is tried.
LEMMA StepAsyncLed ==
    ASSUME IInv, AsyncLed
    PROVE  IInv'
<1> USE ModelsAssumption, KindsAssumption DEF IInv, TypeOK, AsyncLed, Tell,
        Heard, Clear, Faulty, line, slots, Slots, Last
<1>1. LineType'
  BY DEF LineType, SlotsType, CallType, HistoryType, PowerUp, Line
<1>2. SlotsType'
  BY DEF LineType, SlotsType, CallType, HistoryType
<1>3. CallType'
  BY DEF LineType, SlotsType, CallType, HistoryType, Pcs, Requests
<1>4. HistoryType'
  BY DEF LineType, SlotsType, CallType, HistoryType
<1>5. RateInv'
  BY RatesAreSettable
     DEF LineType, SlotsType, CallType, HistoryType, RateInv, PowerUp, Line
<1>6. ParityInv'
  BY DEF LineType, SlotsType, CallType, HistoryType, RateInv, ParityInv,
         IccInv, StepParity, Convention, PowerUp, Line
<1>7. IccInv'
  BY DEF LineType, SlotsType, CallType, HistoryType, RateInv, IccInv,
         ProbePcs, ResetPcs
<1>8. ProbeInv'
  BY DEF LineType, SlotsType, CallType, HistoryType, RateInv, ParityInv,
         IccInv, ProbeInv, ProbePcs, ResetPcs, StepParity, Convention
<1>9. ProbeFinds'
  BY DEF LineType, SlotsType, CallType, HistoryType, IccInv, ProbePcs,
         ResetPcs, ProbeInv, ProbeFinds, RateInv
<1> QED
  BY <1>1, <1>2, <1>3, <1>4, <1>5, <1>6, <1>7, <1>8, <1>9 DEF IInv, TypeOK

\* The rate for a processor card.
LEMMA StepAsyncInitRate ==
    ASSUME IInv, AsyncInitRate
    PROVE  IInv'
<1> USE ModelsAssumption, KindsAssumption DEF IInv, TypeOK, AsyncInitRate,
        line, slots, Slots, Last
<1>0. RateSet(Rate, "activate", "idle")
  BY RateStep DEF Rate, SyncRate
<1>1. LineType'
  BY <1>0, RatesAreSettable
     DEF LineType, SlotsType, CallType, HistoryType, RateSet
<1>2. SlotsType'
  BY <1>0, RatesAreSettable
     DEF LineType, SlotsType, CallType, HistoryType, RateSet
<1>3. CallType'
  BY <1>0, RatesAreSettable
     DEF LineType, SlotsType, CallType, HistoryType, Pcs, Requests, RateSet
<1>4. HistoryType'
  BY <1>0, RatesAreSettable
     DEF LineType, SlotsType, CallType, HistoryType, RateSet
<1>5. RateInv'
  BY <1>0, RatesAreSettable
     DEF LineType, SlotsType, CallType, HistoryType, RateInv, RateSet
<1>6. ParityInv'
  BY <1>0, RatesAreSettable
     DEF LineType, SlotsType, CallType, HistoryType, RateInv, ParityInv,
         IccInv, StepParity, Convention, RateSet
<1>7. IccInv'
  BY <1>0, RatesAreSettable
     DEF LineType, SlotsType, CallType, HistoryType, RateInv, IccInv,
         ProbePcs, ResetPcs, RateSet
<1>8. ProbeInv'
  BY <1>0, RatesAreSettable
     DEF LineType, SlotsType, CallType, HistoryType, RateInv, ParityInv,
         IccInv, ProbeInv, ProbePcs, ResetPcs, StepParity, Convention, RateSet
<1>9. ProbeFinds'
  BY <1>0, RatesAreSettable
     DEF LineType, SlotsType, CallType, HistoryType, IccInv, ProbePcs,
         ResetPcs, ProbeInv, ProbeFinds, RateInv, RateSet
<1> QED
  BY <1>1, <1>2, <1>3, <1>4, <1>5, <1>6, <1>7, <1>8, <1>9 DEF IInv, TypeOK

\* The card is activated.
LEMMA StepActivate ==
    ASSUME IInv, Activate
    PROVE  IInv'
<1> USE ModelsAssumption, KindsAssumption DEF IInv, TypeOK, Activate, Tell,
        Heard, Clear, Faulty, line, slots, Slots, Last
<1>1. LineType'
  BY DEF LineType, SlotsType, CallType, HistoryType, PowerUp, Line
<1>2. SlotsType'
  BY DEF LineType, SlotsType, CallType, HistoryType, SyncRate, Rate, IccInv,
         ProbePcs
<1>3. CallType'
  BY DEF LineType, SlotsType, CallType, HistoryType, Pcs, Requests
<1>4. HistoryType'
  BY DEF LineType, SlotsType, CallType, HistoryType
<1>5. RateInv'
  BY RatesAreSettable
     DEF LineType, SlotsType, CallType, HistoryType, RateInv, PowerUp, Line
<1>6. ParityInv'
  BY DEF LineType, SlotsType, CallType, HistoryType, RateInv, ParityInv,
         IccInv, StepParity, Convention, PowerUp, Line
<1>7. IccInv'
  BY DEF LineType, SlotsType, CallType, HistoryType, RateInv, IccInv,
         ProbePcs, ResetPcs
<1>8. ProbeInv'
  BY DEF LineType, SlotsType, CallType, HistoryType, RateInv, ParityInv,
         IccInv, ProbeInv, ProbePcs, ResetPcs, StepParity, Convention
<1>9. ProbeFinds'
  BY DEF LineType, SlotsType, CallType, HistoryType, IccInv, ProbePcs,
         ResetPcs, ProbeInv, ProbeFinds, RateInv
<1> QED
  BY <1>1, <1>2, <1>3, <1>4, <1>5, <1>6, <1>7, <1>8, <1>9 DEF IInv, TypeOK

\* The card is reset and may answer.
LEMMA StepAtr ==
    ASSUME IInv, Atr
    PROVE  IInv'
<1> USE ModelsAssumption, KindsAssumption DEF IInv, TypeOK, Atr, Attuned,
        Heard, Clear, line, slots, Slots, Last
<1>1. LineType'
  BY DEF LineType, SlotsType, CallType, HistoryType, PowerUp, Line
<1>2. SlotsType'
  BY DEF LineType, SlotsType, CallType, HistoryType
<1>3. CallType'
  BY DEF LineType, SlotsType, CallType, HistoryType, Pcs, Requests
<1>4. HistoryType'
  BY DEF LineType, SlotsType, CallType, HistoryType
<1>5. RateInv'
  BY RatesAreSettable
     DEF LineType, SlotsType, CallType, HistoryType, RateInv, PowerUp, Line
<1>6. ParityInv'
  BY DEF LineType, SlotsType, CallType, HistoryType, RateInv, ParityInv,
         IccInv, StepParity, Convention, PowerUp, Line
<1>7. IccInv'
  BY DEF LineType, SlotsType, CallType, HistoryType, RateInv, IccInv,
         ProbePcs, ResetPcs
<1>8. ProbeInv'
  BY ZenonT(40) DEF LineType, SlotsType, CallType, HistoryType, RateInv, ParityInv,
         IccInv, ProbeInv, ProbePcs, ResetPcs, StepParity, Convention
<1>9. ProbeFinds'
  BY DEF LineType, SlotsType, CallType, HistoryType, IccInv, ProbePcs,
         ResetPcs, ProbeInv, ProbeFinds, RateInv
<1> QED
  BY <1>1, <1>2, <1>3, <1>4, <1>5, <1>6, <1>7, <1>8, <1>9 DEF IInv, TypeOK

\* The odd parity is tried.
LEMMA StepTryOdd ==
    ASSUME IInv, pc = "tryOdd", TryParity
    PROVE  IInv'
<1> USE ModelsAssumption, KindsAssumption DEF IInv, TypeOK, TryParity, line,
        slots, Slots, Last
<1>0. ParitySet("odd", "atr", "atr")
  BY ParityStep
<1>1. LineType'
  BY <1>0 DEF LineType, SlotsType, CallType, HistoryType, ParitySet
<1>2. SlotsType'
  BY <1>0 DEF LineType, SlotsType, CallType, HistoryType, ParitySet
<1>3. CallType'
  BY <1>0
     DEF LineType, SlotsType, CallType, HistoryType, Pcs, Requests, ParitySet
<1>4. HistoryType'
  BY <1>0 DEF LineType, SlotsType, CallType, HistoryType, ParitySet
<1>5. RateInv'
  BY <1>0, RatesAreSettable
     DEF LineType, SlotsType, CallType, HistoryType, RateInv, ParitySet
<1>6. ParityInv'
  BY <1>0
     DEF LineType, SlotsType, CallType, HistoryType, RateInv, ParityInv,
         IccInv, StepParity, Convention, ParitySet
<1>7. IccInv'
  BY <1>0
     DEF LineType, SlotsType, CallType, HistoryType, RateInv, IccInv,
         ProbePcs, ResetPcs, ParitySet
<1>8. ProbeInv'
  BY <1>0
     DEF LineType, SlotsType, CallType, HistoryType, RateInv, ParityInv,
         IccInv, ProbeInv, ProbePcs, ResetPcs, StepParity, Convention,
         ParitySet
<1>9. ProbeFinds'
  BY <1>0
     DEF LineType, SlotsType, CallType, HistoryType, IccInv, ProbePcs,
         ResetPcs, ProbeInv, ProbeFinds, RateInv, ParitySet
<1> QED
  BY <1>1, <1>2, <1>3, <1>4, <1>5, <1>6, <1>7, <1>8, <1>9 DEF IInv, TypeOK

\* The even parity is tried again.
LEMMA StepTryEven ==
    ASSUME IInv, pc = "tryEven", TryParity
    PROVE  IInv'
<1> USE ModelsAssumption, KindsAssumption DEF IInv, TypeOK, TryParity, line,
        slots, Slots, Last
<1>0. ParitySet("even", "idle", "idle")
  BY ParityStep
<1>1. LineType'
  BY <1>0 DEF LineType, SlotsType, CallType, HistoryType, ParitySet
<1>2. SlotsType'
  BY <1>0 DEF LineType, SlotsType, CallType, HistoryType, ParitySet
<1>3. CallType'
  BY <1>0
     DEF LineType, SlotsType, CallType, HistoryType, Pcs, Requests, ParitySet
<1>4. HistoryType'
  BY <1>0 DEF LineType, SlotsType, CallType, HistoryType, ParitySet
<1>5. RateInv'
  BY <1>0, RatesAreSettable
     DEF LineType, SlotsType, CallType, HistoryType, RateInv, ParitySet
<1>6. ParityInv'
  BY <1>0
     DEF LineType, SlotsType, CallType, HistoryType, RateInv, ParityInv,
         IccInv, StepParity, Convention, ParitySet
<1>7. IccInv'
  BY <1>0
     DEF LineType, SlotsType, CallType, HistoryType, RateInv, IccInv,
         ProbePcs, ResetPcs, ParitySet
<1>8. ProbeInv'
  BY <1>0
     DEF LineType, SlotsType, CallType, HistoryType, RateInv, ParityInv,
         IccInv, ProbeInv, ProbePcs, ResetPcs, StepParity, Convention,
         ParitySet
<1>9. ProbeFinds'
  BY <1>0
     DEF LineType, SlotsType, CallType, HistoryType, IccInv, ProbePcs,
         ResetPcs, ProbeInv, ProbeFinds, RateInv, ParitySet
<1> QED
  BY <1>1, <1>2, <1>3, <1>4, <1>5, <1>6, <1>7, <1>8, <1>9 DEF IInv, TypeOK

\* The parity is restored after an odd answer.
LEMMA StepRestoreParity ==
    ASSUME IInv, RestoreParity
    PROVE  IInv'
<1> USE ModelsAssumption, KindsAssumption DEF IInv, TypeOK, RestoreParity,
        line, slots, Slots, Last
<1>0. ParitySet("even", "asyncGreen", "idle")
  BY ParityStep
<1>1. LineType'
  BY <1>0 DEF LineType, SlotsType, CallType, HistoryType, ParitySet
<1>2. SlotsType'
  BY <1>0 DEF LineType, SlotsType, CallType, HistoryType, ParitySet
<1>3. CallType'
  BY <1>0
     DEF LineType, SlotsType, CallType, HistoryType, Pcs, Requests, ParitySet
<1>4. HistoryType'
  BY <1>0 DEF LineType, SlotsType, CallType, HistoryType, ParitySet
<1>5. RateInv'
  BY <1>0, RatesAreSettable
     DEF LineType, SlotsType, CallType, HistoryType, RateInv, ParitySet
<1>6. ParityInv'
  BY <1>0
     DEF LineType, SlotsType, CallType, HistoryType, RateInv, ParityInv,
         IccInv, StepParity, Convention, ParitySet
<1>7. IccInv'
  BY <1>0
     DEF LineType, SlotsType, CallType, HistoryType, RateInv, IccInv,
         ProbePcs, ResetPcs, ParitySet
<1>8. ProbeInv'
  BY <1>0
     DEF LineType, SlotsType, CallType, HistoryType, RateInv, ParityInv,
         IccInv, ProbeInv, ProbePcs, ResetPcs, StepParity, Convention,
         ParitySet
<1>9. ProbeFinds'
  BY <1>0
     DEF LineType, SlotsType, CallType, HistoryType, IccInv, ProbePcs,
         ResetPcs, ProbeInv, ProbeFinds, RateInv, ParitySet
<1> QED
  BY <1>1, <1>2, <1>3, <1>4, <1>5, <1>6, <1>7, <1>8, <1>9 DEF IInv, TypeOK

\* The light, once the card has answered.
LEMMA StepAsyncGreen ==
    ASSUME IInv, AsyncGreen
    PROVE  IInv'
<1> USE ModelsAssumption, KindsAssumption DEF IInv, TypeOK, AsyncGreen, Tell,
        Heard, Clear, Faulty, line, slots, Slots, Last
<1>1. LineType'
  BY DEF LineType, SlotsType, CallType, HistoryType, PowerUp, Line
<1>2. SlotsType'
  BY DEF LineType, SlotsType, CallType, HistoryType, SyncRate, Rate, IccInv,
         ProbePcs
<1>3. CallType'
  BY DEF LineType, SlotsType, CallType, HistoryType, Pcs, Requests
<1>4. HistoryType'
  BY DEF LineType, SlotsType, CallType, HistoryType
<1>5. RateInv'
  BY RatesAreSettable
     DEF LineType, SlotsType, CallType, HistoryType, RateInv, PowerUp, Line
<1>6. ParityInv'
  BY DEF LineType, SlotsType, CallType, HistoryType, RateInv, ParityInv,
         IccInv, StepParity, Convention, PowerUp, Line
<1>7. IccInv'
  BY DEF LineType, SlotsType, CallType, HistoryType, RateInv, IccInv,
         ProbePcs, ResetPcs, Agreed
<1>8. ProbeInv'
  BY DEF LineType, SlotsType, CallType, HistoryType, RateInv, ParityInv,
         IccInv, ProbeInv, ProbePcs, ResetPcs, StepParity, Convention
<1>9. ProbeFinds'
  BY DEF LineType, SlotsType, CallType, HistoryType, IccInv, ProbePcs,
         ResetPcs, ProbeInv, ProbeFinds, RateInv
<1> QED
  BY <1>1, <1>2, <1>3, <1>4, <1>5, <1>6, <1>7, <1>8, <1>9 DEF IInv, TypeOK

\* The rate is negotiated.
LEMMA StepPps ==
    ASSUME IInv, Pps
    PROVE  IInv'
<1> USE ModelsAssumption, KindsAssumption DEF IInv, TypeOK, Pps, Attuned,
        Heard, Clear, line, slots, Slots, Last
<1>1. LineType'
  BY DEF LineType, SlotsType, CallType, HistoryType, PowerUp, Line
<1>a. \A c \in Requests \cup {Default} : Baudrate(c) \in Nat /\ Baudrates(c) # {}
  BY DriverRates DEF Baudrates
<1>b. \A c \in Requests \cup {Default} : \A b \in Baudrates(c) :
          b \in Nat /\ Agreed(b, Baudrate(c))
  BY DriverRates
<1>c. \/ /\ icc' = [icc EXCEPT ![at] = IF cards[at] = "foreign" THEN None ELSE @]
         /\ UNCHANGED <<speaks, misread>>
      \/ /\ icc' = [icc EXCEPT ![at] = None]
         /\ UNCHANGED <<speaks, misread>>
      \/ \E confirm, read \in Requests \cup {Default} :
            /\ speaks' = [speaks EXCEPT ![at] = Baudrate(confirm)]
            /\ \E b \in Baudrates(read) : icc' = [icc EXCEPT ![at] = b]
            /\ misread' = IF read = confirm THEN misread ELSE misread \cup {at}
  OBVIOUS
<1>d. /\ at \in Slots /\ at \in ready /\ pc = "pps" /\ UNCHANGED <<model, cards, ready, at>>
      /\ cards[at] # "sync" /\ model # "zwerg" /\ model \in Models
  BY DEF SlotsType, CallType, IccInv, ProbePcs, ResetPcs
<1>2. SlotsType'
  <2> USE <1>d DEF SlotsType
  <2> HIDE DEF Pps
  <2>1. CASE UNCHANGED <<speaks, misread>> /\ icc' = [icc EXCEPT ![at] = None]
    BY <2>1
  <2>2. CASE UNCHANGED <<speaks, misread>> /\ icc' = icc
    BY <2>2
  <2>3. CASE \E confirm, read \in Requests \cup {Default} :
                /\ speaks' = [speaks EXCEPT ![at] = Baudrate(confirm)]
                /\ \E b \in Baudrates(read) : icc' = [icc EXCEPT ![at] = b]
                /\ misread' = IF read = confirm THEN misread ELSE misread \cup {at}
    <3>1. PICK confirm \in Requests \cup {Default}, read \in Requests \cup {Default} :
              /\ speaks' = [speaks EXCEPT ![at] = Baudrate(confirm)]
              /\ \E b \in Baudrates(read) : icc' = [icc EXCEPT ![at] = b]
              /\ misread' = IF read = confirm THEN misread ELSE misread \cup {at}
      BY <2>3
    <3>2. PICK b \in Baudrates(read) : icc' = [icc EXCEPT ![at] = b]
      BY <3>1
    <3>3. b \in Nat /\ Baudrate(confirm) \in Nat
      BY <1>a, <1>b, <3>2
    <3> QED
      BY <3>1, <3>2, <3>3
  <2>4. icc' = [icc EXCEPT ![at] = IF cards[at] = "foreign" THEN None ELSE @]
          => icc' = [icc EXCEPT ![at] = None] \/ icc' = icc
    OBVIOUS
  <2> QED
    BY <1>c, <2>1, <2>2, <2>3, <2>4
<1>3. CallType'
  BY DEF LineType, SlotsType, CallType, HistoryType, Pcs, Requests
<1>4. HistoryType'
  BY DEF LineType, SlotsType, CallType, HistoryType
<1>5. RateInv'
  BY RatesAreSettable
     DEF LineType, SlotsType, CallType, HistoryType, RateInv, PowerUp, Line
<1>6. ParityInv'
  BY DEF LineType, SlotsType, CallType, HistoryType, RateInv, ParityInv,
         IccInv, StepParity, Convention, PowerUp, Line
<1>7. IccInv'
  <2>1. \A c \in Slots : icc'[c] # None /\ cards[c] # "sync" =>
            (c \notin misread' => Agreed(icc'[c], speaks'[c])) /\ model # "zwerg"
    <3>1. CASE /\ UNCHANGED <<speaks, misread>>
               /\ \A c \in Slots : icc'[c] \in {icc[c], None}
      BY <1>d, <3>1 DEF IccInv
    <3>2. CASE \E confirm, read \in Requests \cup {Default} :
                  /\ speaks' = [speaks EXCEPT ![at] = Baudrate(confirm)]
                  /\ \E b \in Baudrates(read) : icc' = [icc EXCEPT ![at] = b]
                  /\ misread' = IF read = confirm THEN misread ELSE misread \cup {at}
      <4>1. PICK confirm \in Requests \cup {Default}, read \in Requests \cup {Default} :
                /\ speaks' = [speaks EXCEPT ![at] = Baudrate(confirm)]
                /\ \E b \in Baudrates(read) : icc' = [icc EXCEPT ![at] = b]
                /\ misread' = IF read = confirm THEN misread ELSE misread \cup {at}
        BY <3>2
      <4>2. PICK b \in Baudrates(read) : icc' = [icc EXCEPT ![at] = b]
        BY <4>1
      <4>3. Agreed(b, Baudrate(read))
        BY <1>b, <4>2
      <4>4. \A c \in Slots : c # at =>
                icc'[c] = icc[c] /\ speaks'[c] = speaks[c]
                  /\ (c \notin misread' => c \notin misread)
        BY <4>1, <4>2 DEF SlotsType
      <4>5. /\ icc'[at] = b /\ speaks'[at] = Baudrate(confirm)
            /\ at \notin misread' => read = confirm
        BY <1>d, <4>1, <4>2 DEF SlotsType
      <4> QED
        BY <1>d, <4>3, <4>4, <4>5 DEF IccInv
    <3>3. icc' = [icc EXCEPT ![at] = None]
            \/ icc' = [icc EXCEPT ![at] = IF cards[at] = "foreign" THEN None ELSE @]
          => \A c \in Slots : icc'[c] \in {icc[c], None}
      BY <1>d DEF SlotsType
    <3> QED
      BY <1>c, <3>1, <3>2, <3>3
  <2> QED
    BY <2>1 DEF SlotsType, CallType, IccInv, ProbePcs, ResetPcs
<1>8. ProbeInv'
  BY DEF LineType, SlotsType, CallType, HistoryType, RateInv, ParityInv,
         IccInv, ProbeInv, ProbePcs, ResetPcs, StepParity, Convention
<1>9. ProbeFinds'
  <2>1. ask = None /\ cards[at] # "foreign" => icc'[at] # None
    BY NoneAssumption DEF CallType, SlotsType, IccInv, Rate
  <2>3. (\E c \in Requests \cup {Default} :
            \E b \in Baudrates(c) : icc' = [icc EXCEPT ![at] = b])
          => icc'[at] # None
    BY <1>b, NoneAssumption DEF CallType, SlotsType
  <2>4. op = "probe" /\ ~fault /\ cards[at] # "inverse" => Attuned(at)
    BY DEF LineType, SlotsType, CallType, RateInv, ParityInv, IccInv, ProbeInv, ProbePcs,
           ResetPcs, StepParity, Convention
  <2> QED
    BY <2>1, <2>3, <2>4 DEF HistoryType, ProbeFinds
<1> QED
  BY <1>1, <1>2, <1>3, <1>4, <1>5, <1>6, <1>7, <1>8, <1>9 DEF IInv, TypeOK

\* A command is begun.
LEMMA StepCommand ==
    ASSUME IInv, NEW s \in Slots, Command(s)
    PROVE  IInv'
<1> USE ModelsAssumption, KindsAssumption DEF IInv, TypeOK, Command, line,
        slots, Slots, Last
<1>1. LineType'
  BY DEF LineType, SlotsType, CallType, HistoryType, PowerUp, Line
<1>2. SlotsType'
  BY DEF LineType, SlotsType, CallType, HistoryType
<1>3. CallType'
  BY DEF LineType, SlotsType, CallType, HistoryType, Pcs, Requests
<1>4. HistoryType'
  BY DEF LineType, SlotsType, CallType, HistoryType
<1>5. RateInv'
  BY RatesAreSettable
     DEF LineType, SlotsType, CallType, HistoryType, RateInv, PowerUp, Line
<1>6. ParityInv'
  BY DEF LineType, SlotsType, CallType, HistoryType, RateInv, ParityInv,
         IccInv, StepParity, Convention, PowerUp, Line
<1>7. IccInv'
  BY DEF LineType, SlotsType, CallType, HistoryType, RateInv, IccInv,
         ProbePcs, ResetPcs
<1>8. ProbeInv'
  BY DEF LineType, SlotsType, CallType, HistoryType, RateInv, ParityInv,
         IccInv, ProbeInv, ProbePcs, ResetPcs, StepParity, Convention
<1>9. ProbeFinds'
  BY DEF LineType, SlotsType, CallType, HistoryType, IccInv, ProbePcs,
         ResetPcs, ProbeInv, ProbeFinds, RateInv
<1> QED
  BY <1>1, <1>2, <1>3, <1>4, <1>5, <1>6, <1>7, <1>8, <1>9 DEF IInv, TypeOK

\* The rate for a command to a memory card.
LEMMA StepSyncBegin ==
    ASSUME IInv, SyncBegin
    PROVE  IInv'
<1> USE ModelsAssumption, KindsAssumption DEF IInv, TypeOK, SyncBegin, line,
        slots, Slots, Last
<1>0. RateSet(SyncRate, "syncTalk", "syncTalk")
  BY RateStep DEF Rate, SyncRate
<1>1. LineType'
  BY <1>0, RatesAreSettable
     DEF LineType, SlotsType, CallType, HistoryType, RateSet
<1>2. SlotsType'
  BY <1>0, RatesAreSettable
     DEF LineType, SlotsType, CallType, HistoryType, RateSet
<1>3. CallType'
  BY <1>0, RatesAreSettable
     DEF LineType, SlotsType, CallType, HistoryType, Pcs, Requests, RateSet
<1>4. HistoryType'
  BY <1>0, RatesAreSettable
     DEF LineType, SlotsType, CallType, HistoryType, RateSet
<1>5. RateInv'
  BY <1>0, RatesAreSettable
     DEF LineType, SlotsType, CallType, HistoryType, RateInv, RateSet
<1>6. ParityInv'
  BY <1>0, RatesAreSettable
     DEF LineType, SlotsType, CallType, HistoryType, RateInv, ParityInv,
         IccInv, StepParity, Convention, RateSet
<1>7. IccInv'
  BY <1>0, RatesAreSettable
     DEF LineType, SlotsType, CallType, HistoryType, RateInv, IccInv,
         ProbePcs, ResetPcs, RateSet
<1>8. ProbeInv'
  BY <1>0, RatesAreSettable
     DEF LineType, SlotsType, CallType, HistoryType, RateInv, ParityInv,
         IccInv, ProbeInv, ProbePcs, ResetPcs, StepParity, Convention, RateSet
<1>9. ProbeFinds'
  BY <1>0, RatesAreSettable
     DEF LineType, SlotsType, CallType, HistoryType, IccInv, ProbePcs,
         ResetPcs, ProbeInv, ProbeFinds, RateInv, RateSet
<1> QED
  BY <1>1, <1>2, <1>3, <1>4, <1>5, <1>6, <1>7, <1>8, <1>9 DEF IInv, TypeOK

\* A memory card is read or written.
LEMMA StepSyncTalk ==
    ASSUME IInv, SyncTalk
    PROVE  IInv'
<1> USE ModelsAssumption, KindsAssumption DEF IInv, TypeOK, SyncTalk, Tell,
        Heard, Clear, Faulty, line, slots, Slots, Last
<1>1. LineType'
  BY DEF LineType, SlotsType, CallType, HistoryType, PowerUp, Line
<1>2. SlotsType'
  BY DEF LineType, SlotsType, CallType, HistoryType
<1>3. CallType'
  BY DEF LineType, SlotsType, CallType, HistoryType, Pcs, Requests
<1>4. HistoryType'
  BY DEF LineType, SlotsType, CallType, HistoryType
<1>5. RateInv'
  BY RatesAreSettable
     DEF LineType, SlotsType, CallType, HistoryType, RateInv, PowerUp, Line
<1>6. ParityInv'
  BY DEF LineType, SlotsType, CallType, HistoryType, RateInv, ParityInv,
         IccInv, StepParity, Convention, PowerUp, Line
<1>7. IccInv'
  BY DEF LineType, SlotsType, CallType, HistoryType, RateInv, IccInv,
         ProbePcs, ResetPcs
<1>8. ProbeInv'
  BY DEF LineType, SlotsType, CallType, HistoryType, RateInv, ParityInv,
         IccInv, ProbeInv, ProbePcs, ResetPcs, StepParity, Convention
<1>9. ProbeFinds'
  BY DEF LineType, SlotsType, CallType, HistoryType, IccInv, ProbePcs,
         ResetPcs, ProbeInv, ProbeFinds, RateInv
<1> QED
  BY <1>1, <1>2, <1>3, <1>4, <1>5, <1>6, <1>7, <1>8, <1>9 DEF IInv, TypeOK

\* The parity for a card of inverse convention.
LEMMA StepBeginParity ==
    ASSUME IInv, BeginParity
    PROVE  IInv'
<1> USE ModelsAssumption, KindsAssumption DEF IInv, TypeOK, BeginParity, line,
        slots, Slots, Last
<1>0. ParitySet("odd", "beginRate", "idle")
  BY ParityStep
<1>1. LineType'
  BY <1>0 DEF LineType, SlotsType, CallType, HistoryType, ParitySet
<1>2. SlotsType'
  BY <1>0 DEF LineType, SlotsType, CallType, HistoryType, ParitySet
<1>3. CallType'
  BY <1>0
     DEF LineType, SlotsType, CallType, HistoryType, Pcs, Requests, ParitySet
<1>4. HistoryType'
  BY <1>0 DEF LineType, SlotsType, CallType, HistoryType, ParitySet
<1>5. RateInv'
  BY <1>0, RatesAreSettable
     DEF LineType, SlotsType, CallType, HistoryType, RateInv, ParitySet
<1>6. ParityInv'
  BY <1>0
     DEF LineType, SlotsType, CallType, HistoryType, RateInv, ParityInv,
         IccInv, StepParity, Convention, ParitySet
<1>7. IccInv'
  BY <1>0
     DEF LineType, SlotsType, CallType, HistoryType, RateInv, IccInv,
         ProbePcs, ResetPcs, ParitySet
<1>8. ProbeInv'
  BY <1>0
     DEF LineType, SlotsType, CallType, HistoryType, RateInv, ParityInv,
         IccInv, ProbeInv, ProbePcs, ResetPcs, StepParity, Convention,
         ParitySet
<1>9. ProbeFinds'
  BY <1>0
     DEF LineType, SlotsType, CallType, HistoryType, IccInv, ProbePcs,
         ResetPcs, ProbeInv, ProbeFinds, RateInv, ParitySet
<1> QED
  BY <1>1, <1>2, <1>3, <1>4, <1>5, <1>6, <1>7, <1>8, <1>9 DEF IInv, TypeOK

\* The rate for a command to a processor card.
LEMMA StepBeginRate ==
    ASSUME IInv, BeginRate
    PROVE  IInv'
<1> USE ModelsAssumption, KindsAssumption DEF IInv, TypeOK, BeginRate, line,
        slots, Slots, Last
<1>0. RateSet(icc[at], "talk", "idle")
  BY RateStep DEF Rate, SyncRate, SlotsType, CallType, IccInv
<1>1. LineType'
  BY <1>0, RatesAreSettable
     DEF LineType, SlotsType, CallType, HistoryType, RateSet
<1>2. SlotsType'
  BY <1>0, RatesAreSettable
     DEF LineType, SlotsType, CallType, HistoryType, RateSet
<1>3. CallType'
  BY <1>0, RatesAreSettable
     DEF LineType, SlotsType, CallType, HistoryType, Pcs, Requests, RateSet
<1>4. HistoryType'
  BY <1>0, RatesAreSettable
     DEF LineType, SlotsType, CallType, HistoryType, RateSet
<1>5. RateInv'
  BY <1>0, RatesAreSettable
     DEF LineType, SlotsType, CallType, HistoryType, RateInv, RateSet
<1>6. ParityInv'
  BY <1>0, RatesAreSettable
     DEF LineType, SlotsType, CallType, HistoryType, RateInv, ParityInv,
         IccInv, StepParity, Convention, RateSet
<1>7. IccInv'
  BY <1>0, RatesAreSettable
     DEF LineType, SlotsType, CallType, HistoryType, RateInv, IccInv,
         ProbePcs, ResetPcs, RateSet
<1>8. ProbeInv'
  BY <1>0, RatesAreSettable
     DEF LineType, SlotsType, CallType, HistoryType, RateInv, ParityInv,
         IccInv, ProbeInv, ProbePcs, ResetPcs, StepParity, Convention, RateSet
<1>9. ProbeFinds'
  BY <1>0, RatesAreSettable
     DEF LineType, SlotsType, CallType, HistoryType, IccInv, ProbePcs,
         ResetPcs, ProbeInv, ProbeFinds, RateInv, RateSet
<1> QED
  BY <1>1, <1>2, <1>3, <1>4, <1>5, <1>6, <1>7, <1>8, <1>9 DEF IInv, TypeOK

\* The exchange with the card.
LEMMA StepTalk ==
    ASSUME IInv, Talk
    PROVE  IInv'
<1> USE ModelsAssumption, KindsAssumption DEF IInv, TypeOK, Talk, Drop, line,
        slots, Slots, Last
<1>1. LineType'
  BY DEF LineType, SlotsType, CallType, HistoryType, PowerUp, Line
<1>2. SlotsType'
  BY DEF LineType, SlotsType, CallType, HistoryType
<1>3. CallType'
  BY DEF LineType, SlotsType, CallType, HistoryType, Pcs, Requests
<1>4. HistoryType'
  BY DEF LineType, SlotsType, CallType, HistoryType
<1>5. RateInv'
  BY RatesAreSettable
     DEF LineType, SlotsType, CallType, HistoryType, RateInv, PowerUp, Line
<1>6. ParityInv'
  BY DEF LineType, SlotsType, CallType, HistoryType, RateInv, ParityInv,
         IccInv, StepParity, Convention, PowerUp, Line
<1>7. IccInv'
  BY DEF LineType, SlotsType, CallType, HistoryType, RateInv, IccInv,
         ProbePcs, ResetPcs
<1>8. ProbeInv'
  BY DEF LineType, SlotsType, CallType, HistoryType, RateInv, ParityInv,
         IccInv, ProbeInv, ProbePcs, ResetPcs, StepParity, Convention
<1>9. ProbeFinds'
  BY DEF LineType, SlotsType, CallType, HistoryType, IccInv, ProbePcs,
         ResetPcs, ProbeInv, ProbeFinds, RateInv
<1> QED
  BY <1>1, <1>2, <1>3, <1>4, <1>5, <1>6, <1>7, <1>8, <1>9 DEF IInv, TypeOK

\* The transmission is ended.
LEMMA StepEndTransmission ==
    ASSUME IInv, EndTransmission
    PROVE  IInv'
<1> USE ModelsAssumption, KindsAssumption DEF IInv, TypeOK, EndTransmission,
        Clear, line, slots, Slots, Last
<1>0. \/ cards[at] = "inverse" /\ ParitySet("even", "idle", "idle")
      \/ /\ cards[at] = "direct" /\ pc' = "idle" /\ fault' = fault
         /\ UNCHANGED <<line, why, dropped>>
  BY ParityStep
<1>1. LineType'
  BY <1>0 DEF LineType, SlotsType, CallType, HistoryType, ParitySet
<1>2. SlotsType'
  BY <1>0 DEF LineType, SlotsType, CallType, HistoryType, ParitySet
<1>3. CallType'
  BY <1>0
     DEF LineType, SlotsType, CallType, HistoryType, Pcs, Requests, ParitySet
<1>4. HistoryType'
  BY <1>0 DEF LineType, SlotsType, CallType, HistoryType, ParitySet
<1>5. RateInv'
  BY <1>0, RatesAreSettable
     DEF LineType, SlotsType, CallType, HistoryType, RateInv, ParitySet
<1>6. ParityInv'
  BY <1>0
     DEF LineType, SlotsType, CallType, HistoryType, RateInv, ParityInv,
         IccInv, StepParity, Convention, ParitySet
<1>7. IccInv'
  BY <1>0
     DEF LineType, SlotsType, CallType, HistoryType, RateInv, IccInv,
         ProbePcs, ResetPcs, ParitySet
<1>8. ProbeInv'
  BY <1>0
     DEF LineType, SlotsType, CallType, HistoryType, RateInv, ParityInv,
         IccInv, ProbeInv, ProbePcs, ResetPcs, StepParity, Convention,
         ParitySet
<1>9. ProbeFinds'
  BY <1>0
     DEF LineType, SlotsType, CallType, HistoryType, IccInv, ProbePcs,
         ResetPcs, ProbeInv, ProbeFinds, RateInv, ParitySet
<1> QED
  BY <1>1, <1>2, <1>3, <1>4, <1>5, <1>6, <1>7, <1>8, <1>9 DEF IInv, TypeOK

\* When the terminal is closed nothing has happened to the line.
LEMMA InitInvariant == Init => IInv
<1> SUFFICES ASSUME Init PROVE IInv
  OBVIOUS
<1> USE RatesAreSettable, ModelsAssumption DEF Init, PowerUp, Line, Slots
<1>1. LineType
  BY DEF LineType, Rate, MaxBaudrate, Bitrates, Steps
<1>2. SlotsType
  BY DEF SlotsType, Last, Rate
<1>3. HistoryType
  BY DEF HistoryType
<1>6. CallType
  BY DEF CallType, Last, Pcs
<1>4. RateInv /\ ParityInv
  BY DEF RateInv, ParityInv, StepParity
<1>5. IccInv /\ ProbeInv /\ ProbeFinds
  BY DEF IccInv, ProbeInv, ProbeFinds, ProbePcs, ResetPcs
<1> QED
  BY <1>1, <1>2, <1>3, <1>4, <1>5, <1>6 DEF IInv, TypeOK

\* Every step of the specification keeps IInv.
LEMMA NextInvariant == IInv /\ [Next]_vars => IInv'
<1> SUFFICES ASSUME IInv, [Next]_vars PROVE IInv'
  OBVIOUS
<1>1. CASE Initialise
  BY <1>1, StepOpen, StepClose, StepKernelReset, StepCloseSlot, StepInitProps,
     StepInitRate, StepInitParity, StepInitInfo, StepInitFails
     DEF Initialise
<1>2. CASE Probing
  <2>1. CASE TryParity
    BY <2>1, StepTryOdd, StepTryEven DEF TryParity
  <2>2. CASE \E s \in Slots : Release(s) \/ \E a \in Requests \cup {None} : Probe(s, a)
    BY <2>2, StepRelease, StepProbe
  <2> QED
    BY <1>2, <2>1, <2>2, StepSyncLed, StepSyncInitRate, StepSyncReset,
       StepAsyncLed, StepAsyncInitRate, StepActivate, StepAtr,
       StepRestoreParity, StepAsyncGreen, StepPps
       DEF Probing
<1>3. CASE Commands
  BY <1>3, StepCommand, StepSyncBegin, StepSyncTalk, StepBeginParity,
     StepBeginRate, StepTalk, StepEndTransmission
     DEF Commands
<1>4. CASE UNCHANGED vars
  BY <1>4
     DEF vars, line, slots, IInv, TypeOK, LineType, SlotsType, CallType, HistoryType,
         RateInv, ParityInv, IccInv, ProbeInv, ProbeFinds, StepParity, Convention, Last
<1> QED
  BY <1>1, <1>2, <1>3, <1>4 DEF Next

\* IInv holds in every reachable state, for every set of models, cards and factors.
THEOREM Invariant == Spec => []IInv
  BY InitInvariant, NextInvariant, PTL DEF Spec

\* Every variable of the driver, the port and the reader keeps its type; the cached
\* rate is never above the limit of SetBaudrate and port and reader only have rates
\* they know.
THEOREM TypeCorrect == Spec => []TypeOK
<1>1. IInv => TypeOK
  BY DEF IInv
<1> QED
  BY <1>1, Invariant, PTL

\* Between the calls port, cache and reader agree on rate and parity, unless one of
\* the three known events has parted them.
THEOREM LineStaysInAgreement == Spec => []LineAgrees
<1>1. IInv => LineAgrees
  BY DEF IInv, TypeOK, LineType, RateInv, ParityInv, StepParity, LineAgrees
<1> QED
  BY <1>1, Invariant, PTL

\* When BeginTransmission has succeeded the card is spoken to at its own rate and
\* parity.
THEOREM CardsAreReached == Spec => []CardReached
<1>1. IInv => CardReached
  <2> SUFFICES ASSUME IInv, pc = "talk", why = {}, at \notin misread
               PROVE  /\ port.rate = speaks[at] /\ reader.rate = speaks[at]
                      /\ ~dropped => /\ port.parity = Convention(at)
                                     /\ reader.parity = Convention(at)
    BY DEF CardReached
  <2>1. at \in Slots /\ model # "zwerg" /\ Agreed(icc[at], speaks[at])
    BY DEF IInv, TypeOK, CallType, Slots, Last, IccInv
  <2>2. icc[at] = port.rate /\ icc[at] = reader.rate
    BY DEF IInv, RateInv, IccInv
  <2>3. icc[at] \in Bitrates \cap Steps
    BY <2>2 DEF IInv, TypeOK, LineType
  <2>4. speaks[at] = icc[at]
    BY <2>1, <2>3 DEF Agreed
  <2>5. ~dropped => port.parity = Convention(at) /\ reader.parity = Convention(at)
    BY <2>1 DEF IInv, ParityInv, StepParity
  <2> QED
    BY <2>2, <2>4, <2>5
<1> QED
  BY <1>1, Invariant, PTL

\* CT_Slot_Probe finds every card when no fault comes in between.
THEOREM ProbesFindCards == Spec => []ProbeFinds
<1>1. IInv => ProbeFinds
  BY DEF IInv
<1> QED
  BY <1>1, Invariant, PTL

=============================================================================
