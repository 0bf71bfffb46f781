-------------------------- MODULE MemoryCardProofs --------------------------
(***************************************************************************)
(* Proofs about module MemoryCard, for cards of every size and with every  *)
(* number of trials. A lemma for each function says what it keeps of the   *)
(* card and of the ICC object, and what it may cost.                       *)
(***************************************************************************)
EXTENDS MemoryCard, TLAPS, WellFoundedInduction, SequenceTheorems

Results == {"OK", "IFD_ERROR", "PIN_ERROR", "BLOCKED_ERROR", "RO_ERROR", "DETECT_ERROR"}

\* What the functions work on.
States == [card : Card, icc : Icc, ret : Results, data : Seq(Bytes), trials : 0 .. MaxTrials,
           faulty : BOOLEAN, lost : 0 .. 2]

\* The driver believes that a card is on that is not.
Asleep(s) == s.icc.active /\ ~s.card.powered

\* The card and the ICC object keep what identifies them, and a card of three wires
\* stays on.
Same(s, r) ==
  /\ r.card.kind = s.card.kind
  /\ r.icc.type = s.icc.type /\ r.icc.length = s.icc.length
  /\ r.icc.page = s.icc.page /\ r.icc.ready = s.icc.ready
  /\ r.icc.type = "3W" /\ Asleep(r) => Asleep(s)

\* A function that has nothing to do with the PIN: it spends no trial, and only a
\* failure leaves a card asleep.
Quiet(s, r) ==
  /\ r \in States /\ Same(s, r)
  /\ r.card.pin = s.card.pin /\ r.card.trials = s.card.trials
  /\ r.icc.pin = s.icc.pin /\ r.icc.pin_ok = s.icc.pin_ok
  /\ r.ret = "OK" => r.faulty = s.faulty /\ (Asleep(r) => Asleep(s))
  /\ r.ret # "OK" => r.faulty = TRUE

-----------------------------------------------------------------------------
(* Exchanges. *)

\* One function after the other.
LEMMA QuietTwice ==
  ASSUME NEW s, NEW t, NEW r, Quiet(s, t), t.ret = "OK", Quiet(t, r)
  PROVE  Quiet(s, r)
BY DEF Quiet, Same

\* The record with another card, or marked as failed.
LEMMA RecordFacts ==
  ASSUME NEW s \in States, NEW c \in Card
  PROVE  /\ [s EXCEPT !.card = c] \in States
         /\ [s EXCEPT !.card = c].card = c /\ [s EXCEPT !.card = c].icc = s.icc
         /\ [s EXCEPT !.card = c].ret = s.ret /\ [s EXCEPT !.card = c].data = s.data
         /\ [s EXCEPT !.card = c].trials = s.trials /\ [s EXCEPT !.card = c].lost = s.lost
         /\ [s EXCEPT !.card = c].faulty = s.faulty
BY DEF States

\* The same for a failure.
LEMMA FailedFacts ==
  ASSUME NEW s \in States
  PROVE  /\ Failed(s) \in States
         /\ Failed(s).card = s.card /\ Failed(s).icc = s.icc /\ Failed(s).ret = "IFD_ERROR"
         /\ Failed(s).data = s.data /\ Failed(s).trials = s.trials /\ Failed(s).lost = s.lost
         /\ Failed(s).faulty = TRUE
BY DEF States, Failed, Results

\* An exchange succeeds and the card has acted, or fails at any point.
LEMMA ExchangeFacts ==
  ASSUME NEW s \in States, s.ret = "OK", NEW c \in Card, NEW r \in Exchange(s, c)
  PROVE  /\ r \in States
         /\ r.ret = "OK" \/ r.ret = "IFD_ERROR"
         /\ r.ret = "OK" => r.card = c /\ r.faulty = s.faulty
         /\ r.ret # "OK" => (r.card = c \/ r.card = s.card) /\ r.faulty = TRUE
<1> DEFINE t == [s EXCEPT !.card = c]
<1>1. t \in States /\ r \in {t, Failed(s), Failed(t)}
  BY RecordFacts DEF Exchange
<1>2. CASE r = t
  BY <1>2, RecordFacts
<1>3. CASE r = Failed(s)
  BY <1>3, FailedFacts
<1>4. CASE r = Failed(t)
  <2>1. t.card = c
    BY RecordFacts
  <2> HIDE DEF t
  <2> QED
    BY <1>1, <1>4, <2>1, FailedFacts
<1> QED
  BY <1>1, <1>2, <1>3, <1>4

\* It leaves everything else alone.
LEMMA ExchangeKeeps ==
  ASSUME NEW s \in States, s.ret = "OK", NEW c \in Card, NEW r \in Exchange(s, c)
  PROVE  r.icc = s.icc /\ r.data = s.data /\ r.trials = s.trials /\ r.lost = s.lost
<1> DEFINE t == [s EXCEPT !.card = c]
<1>1. t \in States /\ r \in {t, Failed(s), Failed(t)}
  BY RecordFacts DEF Exchange
<1>2. t.icc = s.icc /\ t.data = s.data /\ t.trials = s.trials /\ t.lost = s.lost
  BY RecordFacts
<1> HIDE DEF t
<1> QED
  BY <1>1, <1>2, FailedFacts

\* Power changes nothing but itself, and the card forgets the PIN without it.
LEMMA PowerFacts ==
  ASSUME NEW c \in Card
  PROVE  /\ PowerOn(c) \in Card /\ PowerOff(c) \in Card
         /\ PowerOn(c).powered = TRUE /\ PowerOn(c).kind = c.kind /\ PowerOn(c).pin = c.pin
         /\ PowerOn(c).trials = c.trials /\ PowerOn(c).mem = c.mem
         /\ PowerOff(c).powered = FALSE /\ PowerOff(c).kind = c.kind
         /\ PowerOff(c).pin = c.pin /\ PowerOff(c).trials = c.trials
         /\ PowerOff(c).mem = c.mem
BY DEF Card, PowerOn, PowerOff

\* The fields of a record of the model.
LEMMA FieldTypes ==
  ASSUME NEW s \in States
  PROVE  /\ s.card \in Card /\ s.icc \in Icc /\ s.ret \in Results /\ s.data \in Seq(Bytes)
         /\ s.trials \in 0 .. MaxTrials /\ s.faulty \in BOOLEAN /\ s.lost \in 0 .. 2
BY DEF States

\* An exchange that the card does not take notice of.
LEMMA TalkQuiet ==
  ASSUME NEW s \in States, s.ret = "OK", NEW r \in Exchange(s, s.card)
  PROVE  /\ Quiet(s, r) /\ r.icc = s.icc /\ r.card = s.card
         /\ r.data = s.data /\ r.trials = s.trials /\ r.lost = s.lost
<1> DEFINE c == s.card
<1>1. c \in Card /\ r \in Exchange(s, c)
  BY FieldTypes
<1> HIDE DEF c
<1>2. /\ r \in States
      /\ r.ret = "OK" => r.card = c /\ r.faulty = s.faulty
      /\ r.ret # "OK" => (r.card = c \/ r.card = s.card) /\ r.faulty = TRUE
  BY <1>1, ExchangeFacts
<1>3. r.icc = s.icc /\ r.data = s.data /\ r.trials = s.trials /\ r.lost = s.lost
  BY <1>1, ExchangeKeeps
<1> QED
  BY <1>2, <1>3 DEF Quiet, Same, Asleep, c

-----------------------------------------------------------------------------
(* Activation and release. *)

\* Changes of the flags of the ICC object.
LEMMA FlagFacts ==
  ASSUME NEW s \in States
  PROVE  /\ [s EXCEPT !.icc.active = TRUE] \in States
         /\ [s EXCEPT !.icc.active = TRUE].icc = [s.icc EXCEPT !.active = TRUE]
         /\ [s EXCEPT !.icc.active = TRUE].card = s.card
         /\ [s EXCEPT !.icc.active = TRUE].ret = s.ret
         /\ [s EXCEPT !.icc.active = TRUE].faulty = s.faulty
         /\ [s EXCEPT !.icc.active = TRUE].data = s.data
         /\ [s EXCEPT !.icc.active = TRUE].trials = s.trials
         /\ [s EXCEPT !.icc.active = TRUE].lost = s.lost
BY DEF States, Icc

\* After an activation the driver knows that the card is on.
LEMMA ActivateFacts ==
  ASSUME NEW s \in States, s.ret = "OK", NEW r \in Activate(s)
  PROVE  /\ Quiet(s, r)
         /\ r.ret = "OK" => r.icc.active /\ r.icc.pin_needed = s.icc.pin_needed
         /\ r.ret = "OK" /\ ~s.icc.active => r.card.powered
         /\ r.card.mem = s.card.mem /\ r.lost = s.lost
<1>1. CASE s.icc.active
  <2>1. r = s
    BY <1>1 DEF Activate
  <2> QED
    BY <1>1, <2>1, FieldTypes DEF Quiet, Same, Asleep
<1>2. CASE ~s.icc.active
  <2>1. PICK t \in Exchange(s, PowerOn(s.card)) :
          IF t.ret = "OK" THEN r = [t EXCEPT !.icc.active = TRUE] ELSE r = t
    BY <1>2 DEF Activate, Then
  <2>2. s.card \in Card
    BY FieldTypes
  <2>6. /\ PowerOn(s.card) \in Card /\ PowerOn(s.card).kind = s.card.kind
        /\ PowerOn(s.card).pin = s.card.pin /\ PowerOn(s.card).trials = s.card.trials
        /\ PowerOn(s.card).mem = s.card.mem /\ PowerOn(s.card).powered = TRUE
    BY <2>2, PowerFacts
  <2>3. /\ t \in States /\ t.icc = s.icc /\ t.lost = s.lost
        /\ t.ret = "OK" => t.card = PowerOn(s.card) /\ t.faulty = s.faulty
        /\ t.ret # "OK" => (t.card = PowerOn(s.card) \/ t.card = s.card) /\ t.faulty = TRUE
    BY <2>1, <2>2, <2>6, ExchangeFacts, ExchangeKeeps
  <2>4. CASE t.ret = "OK"
    <3>1. r = [t EXCEPT !.icc.active = TRUE]
      BY <2>1, <2>4
    <3>2. r \in States /\ r.icc = [t.icc EXCEPT !.active = TRUE] /\ r.card = t.card
          /\ r.ret = "OK" /\ r.faulty = t.faulty /\ r.lost = t.lost
      BY <2>3, <2>4, <3>1, FlagFacts
    <3>3. t.card = PowerOn(s.card) /\ t.faulty = s.faulty
      BY <2>3, <2>4
    <3>4. /\ r.icc.active /\ r.icc.type = s.icc.type /\ r.icc.length = s.icc.length
          /\ r.icc.page = s.icc.page /\ r.icc.ready = s.icc.ready /\ r.icc.pin = s.icc.pin
          /\ r.icc.pin_ok = s.icc.pin_ok /\ r.icc.pin_needed = s.icc.pin_needed
      BY <2>3, <3>2, FieldTypes DEF Icc
    <3>5. /\ r.card.kind = s.card.kind /\ r.card.pin = s.card.pin /\ r.card.powered
          /\ r.card.trials = s.card.trials /\ r.card.mem = s.card.mem
      BY <2>6, <3>2, <3>3
    <3> QED
      BY <2>3, <3>2, <3>3, <3>4, <3>5 DEF Quiet, Same, Asleep
  <2>5. CASE t.ret # "OK"
    <3>1. r = t /\ t.faulty = TRUE
          /\ (t.card = PowerOn(s.card) \/ t.card = s.card)
      BY <2>1, <2>3, <2>5
    <3>2. r.card.kind = s.card.kind /\ r.card.pin = s.card.pin
          /\ r.card.trials = s.card.trials /\ r.card.mem = s.card.mem
      BY <2>6, <3>1
    <3> QED
      BY <1>2, <2>3, <2>5, <3>1, <3>2 DEF Quiet, Same, Asleep
  <2> QED
    BY <2>4, <2>5
<1> QED
  BY <1>1, <1>2

\* The same for the release, which may not happen at all.
LEMMA ReleaseFlags ==
  ASSUME NEW s \in States
  PROVE  LET t == [s EXCEPT !.icc.pin_needed = TRUE, !.icc.active = FALSE]
         IN /\ t \in States
            /\ t.icc = [s.icc EXCEPT !.pin_needed = TRUE, !.active = FALSE]
            /\ t.card = s.card /\ t.ret = s.ret /\ t.faulty = s.faulty
            /\ t.data = s.data /\ t.trials = s.trials /\ t.lost = s.lost
BY DEF States, Icc

\* A card of two wires is off after a release, and the driver knows.
LEMMA ReleaseFacts ==
  ASSUME NEW s \in States, s.ret = "OK", NEW r \in Release(s)
  PROVE  /\ Quiet(s, r)
         /\ r.ret = "OK" /\ s.icc.type # "3W" => ~r.icc.active
         /\ r.card.mem = s.card.mem /\ r.data = s.data /\ r.lost = s.lost
<1>1. CASE ~NeedsDeactivate(s.icc)
  <2>1. r = s
    BY <1>1 DEF Release
  <2> QED
    BY <1>1, <2>1, FieldTypes DEF Quiet, Same, Asleep, NeedsDeactivate
<1>2. CASE NeedsDeactivate(s.icc)
  <2>1. PICK t \in Exchange(s, PowerOff(s.card)) :
          IF t.ret = "OK" THEN r = [t EXCEPT !.icc.pin_needed = TRUE, !.icc.active = FALSE]
          ELSE r = t
    BY <1>2 DEF Release, Then
  <2>2. s.card \in Card
    BY FieldTypes
  <2>6. /\ PowerOff(s.card) \in Card /\ PowerOff(s.card).kind = s.card.kind
        /\ PowerOff(s.card).pin = s.card.pin /\ PowerOff(s.card).trials = s.card.trials
        /\ PowerOff(s.card).mem = s.card.mem /\ PowerOff(s.card).powered = FALSE
    BY <2>2, PowerFacts
  <2>3. /\ t \in States /\ t.icc = s.icc /\ t.data = s.data /\ t.lost = s.lost
        /\ t.ret = "OK" => t.card = PowerOff(s.card) /\ t.faulty = s.faulty
        /\ t.ret # "OK" => (t.card = PowerOff(s.card) \/ t.card = s.card) /\ t.faulty = TRUE
    <3> DEFINE c == PowerOff(s.card)
    <3>1. c \in Card /\ t \in Exchange(s, c)
      BY <2>1, <2>6
    <3> HIDE DEF c
    <3>2. /\ t \in States
          /\ t.ret = "OK" => t.card = c /\ t.faulty = s.faulty
          /\ t.ret # "OK" => (t.card = c \/ t.card = s.card) /\ t.faulty = TRUE
      BY <3>1, ExchangeFacts, ZenonT(40)
    <3>3. t.icc = s.icc /\ t.data = s.data /\ t.lost = s.lost
      BY <3>1, ExchangeKeeps
    <3> QED
      BY <3>2, <3>3 DEF c
  <2>4. CASE t.ret = "OK"
    <3>1. r = [t EXCEPT !.icc.pin_needed = TRUE, !.icc.active = FALSE]
      BY <2>1, <2>4
    <3>2. /\ r \in States /\ r.icc = [t.icc EXCEPT !.pin_needed = TRUE, !.active = FALSE]
          /\ r.card = t.card /\ r.ret = "OK" /\ r.faulty = t.faulty
          /\ r.data = t.data /\ r.lost = t.lost
      BY <2>3, <2>4, <3>1, ReleaseFlags
    <3>3. t.card = PowerOff(s.card) /\ t.faulty = s.faulty
      BY <2>3, <2>4
    <3>4. /\ ~r.icc.active /\ r.icc.type = s.icc.type /\ r.icc.length = s.icc.length
          /\ r.icc.page = s.icc.page /\ r.icc.ready = s.icc.ready /\ r.icc.pin = s.icc.pin
          /\ r.icc.pin_ok = s.icc.pin_ok
      BY <2>3, <3>2, FieldTypes DEF Icc
    <3>5. /\ r.card.kind = s.card.kind /\ r.card.pin = s.card.pin
          /\ r.card.trials = s.card.trials /\ r.card.mem = s.card.mem
      BY <2>6, <3>2, <3>3
    <3> QED
      BY <2>3, <3>2, <3>3, <3>4, <3>5 DEF Quiet, Same, Asleep
  <2>5. CASE t.ret # "OK"
    <3>1. r = t /\ t.faulty = TRUE
          /\ (t.card = PowerOff(s.card) \/ t.card = s.card)
      BY <2>1, <2>3, <2>5
    <3>2. r.card.kind = s.card.kind /\ r.card.pin = s.card.pin
          /\ r.card.trials = s.card.trials /\ r.card.mem = s.card.mem
      BY <2>6, <3>1
    <3> QED
      BY <1>2, <2>3, <2>5, <3>1, <3>2 DEF Quiet, Same, Asleep, NeedsDeactivate
  <2> QED
    BY <2>4, <2>5
<1> QED
  BY <1>1, <1>2

-----------------------------------------------------------------------------
(* Reading. *)

\* What is read are bytes, also from a card that does not answer.
LEMMA BytesReadFacts ==
  ASSUME NEW s \in States, NEW a \in Nat, NEW n \in Nat, NEW d \in BytesRead(s, a, n)
  PROVE  d \in [1 .. n -> Bytes] /\ d \in Seq(Bytes)
<1>1. CASE s.icc.type # s.card.kind
  BY <1>1 DEF BytesRead
<1>2. CASE s.icc.type = s.card.kind
  <2>1. d = [k \in 1 .. n |-> IF Served(s.card) THEN s.card.mem[(a + k - 1) % Size] ELSE Blank]
    BY <1>2 DEF BytesRead
  <2>2. \A k \in 1 .. n : (a + k - 1) % Size \in Address
    BY SizeAssumption DEF Address
  <2>3. s.card.mem \in [Address -> Bytes]
    BY FieldTypes DEF Card
  <2>4. \A k \in 1 .. n : d[k] \in Bytes
    BY <2>1, <2>2, <2>3, BytesAssumption
  <2>5. d = [k \in 1 .. n |-> d[k]]
    BY <2>1
  <2> QED
    BY <2>4, <2>5
<1> QED
  BY <1>1, <1>2

\* A read from the reader.
LEMMA ReadBufferFacts ==
  ASSUME NEW s \in States, s.ret = "OK", NEW a \in Nat, NEW n \in Nat,
         NEW r \in ReadBuffer(s, a, n)
  PROVE  /\ Quiet(s, r) /\ r.card = s.card /\ r.icc = s.icc /\ r.lost = s.lost
         /\ r.ret = "OK" => r.data \in BytesRead(s, a, n)
<1>1. CASE r = Failed(s)
  BY <1>1, FailedFacts DEF Quiet, Same, Asleep
<1>2. CASE r # Failed(s)
  <2>1. PICK d \in BytesRead(s, a, n) : r = [s EXCEPT !.data = d]
    BY <1>2 DEF ReadBuffer
  <2>2. d \in Seq(Bytes)
    BY BytesReadFacts
  <2>3. /\ r \in States /\ r.card = s.card /\ r.icc = s.icc /\ r.ret = s.ret
        /\ r.faulty = s.faulty /\ r.data = d /\ r.lost = s.lost
    BY <2>1, <2>2 DEF States
  <2> QED
    BY <2>3 DEF Quiet, Same, Asleep
<1> QED
  BY <1>1, <1>2

\* The memory from an address on, which begins again behind its end.
Section(m, a, n) == [k \in 1 .. n |-> m[(a + k - 1) % Size]]

\* The driver does not believe a card to be on that does not answer.
Answers(s) == s.card.kind \in I2C \/ ~Asleep(s)

\* ICC_Sync_Read touches neither the memory nor the PIN, and reads what is in the memory
\* of a card that answers.
LEMMA ReadFacts ==
  ASSUME NEW s \in States, s.ret = "OK", NEW a \in Nat, NEW n \in Nat,
         NEW r \in ICC_Sync_Read(s, a, n)
  PROVE  /\ Quiet(s, r)
         /\ r.card.mem = s.card.mem /\ r.lost = s.lost
         /\ r.ret = "OK" => r.data \in [1 .. n -> Bytes]
         /\ r.ret = "OK" /\ s.icc.type = s.card.kind /\ Answers(s) =>
              r.data = Section(s.card.mem, a, n)
<1> DEFINE S1 == Activate(s)
           S2 == Then(S1, SetReadAddress)
           S3 == Then(S2, LAMBDA t : ReadBuffer(t, a, n))
<1>1. r \in Then(S3, Release)
  BY DEF ICC_Sync_Read
<1>2. ASSUME NEW t \in S2
      PROVE  /\ Quiet(s, t) /\ t.card.mem = s.card.mem /\ t.lost = s.lost
             /\ t.ret = "OK" /\ Answers(s) => Served(t.card)
  <2>1. PICK u \in S1 : IF u.ret = "OK" THEN t \in Exchange(u, u.card) ELSE t = u
    BY DEF Then, SetReadAddress
  <2>2. /\ Quiet(s, u) /\ u.card.mem = s.card.mem /\ u \in States /\ u.lost = s.lost
        /\ u.ret = "OK" => u.icc.active
    BY ActivateFacts DEF Quiet
  <2> HIDE DEF S1
  <2>3. CASE u.ret = "OK"
    <3>1. Quiet(u, t) /\ t.card = u.card /\ t.lost = u.lost
      BY <2>1, <2>2, <2>3, TalkQuiet
    <3>2. Answers(s) => Served(u.card)
      BY <2>2, <2>3 DEF Quiet, Same, Asleep, Answers, Served
    <3> QED
      BY <2>2, <2>3, <3>1, <3>2, QuietTwice
  <2> QED
    BY <2>1, <2>2, <2>3
<1>3. ASSUME NEW t \in S3
      PROVE  /\ Quiet(s, t) /\ t.card.mem = s.card.mem /\ t.lost = s.lost
             /\ t.ret = "OK" => t.data \in [1 .. n -> Bytes]
             /\ t.ret = "OK" /\ s.icc.type = s.card.kind /\ Answers(s) =>
                  t.data = Section(s.card.mem, a, n)
  <2>1. PICK u \in S2 : IF u.ret = "OK" THEN t \in ReadBuffer(u, a, n) ELSE t = u
    BY DEF Then
  <2>2. /\ Quiet(s, u) /\ u.card.mem = s.card.mem /\ u \in States /\ u.lost = s.lost
        /\ u.ret = "OK" /\ Answers(s) => Served(u.card)
    BY <1>2 DEF Quiet
  <2> HIDE DEF S2
  <2>3. CASE u.ret = "OK"
    <3>1. /\ Quiet(u, t) /\ t.card = u.card /\ t.lost = u.lost
          /\ t.ret = "OK" => t.data \in BytesRead(u, a, n)
      BY <2>1, <2>2, <2>3, ReadBufferFacts
    <3>2. t.ret = "OK" => t.data \in [1 .. n -> Bytes]
      BY <2>2, <3>1, BytesReadFacts
    <3>3. ASSUME t.ret = "OK", s.icc.type = s.card.kind, Answers(s)
          PROVE  t.data = Section(s.card.mem, a, n)
      <4>1. u.icc.type = u.card.kind /\ Served(u.card)
        BY <2>2, <2>3, <3>3 DEF Quiet, Same
      <4> QED
        BY <2>2, <3>1, <3>3, <4>1 DEF BytesRead, Section
    <3>4. Quiet(s, t)
      BY <2>2, <2>3, <3>1, QuietTwice
    <3> QED
      BY <2>2, <3>1, <3>2, <3>3, <3>4
  <2> QED
    BY <2>1, <2>2, <2>3
<1> HIDE DEF S3
<1>4. PICK t \in S3 : IF t.ret = "OK" THEN r \in Release(t) ELSE r = t
  BY <1>1 DEF Then
<1>5. Quiet(s, t) /\ t.card.mem = s.card.mem /\ t \in States /\ t.lost = s.lost
  BY <1>3 DEF Quiet
<1>6. CASE t.ret = "OK"
  <2>1. Quiet(t, r) /\ r.card.mem = t.card.mem /\ r.data = t.data /\ r.lost = t.lost
    BY <1>4, <1>5, <1>6, ReleaseFacts
  <2> QED
    BY <1>3, <1>5, <1>6, <2>1, QuietTwice
<1> QED
  BY <1>3, <1>4, <1>5, <1>6

-----------------------------------------------------------------------------
(* The PIN. *)

\* The PIN that the driver remembers, or the power of the card, is in doubt: one
\* more trial may be lost. What a card has cost so far.
Doubt(s) == (s.icc.pin_ok /\ s.icc.pin # s.card.pin) \/ Asleep(s)
Extra(b) == IF b THEN 1 ELSE 0
Cost(s) == MaxTrials - s.card.trials + Extra(Doubt(s))

\* A function that pays for a trial with a failure only.
Fair(s, r) ==
  /\ r \in States /\ Same(s, r) /\ r.card.pin = s.card.pin
  /\ r.ret = "OK" => r.faulty = s.faulty
  /\ ~s.faulty => Cost(r) <= Cost(s) + Extra(r.faulty)

\* The ICC object takes a card for one with a PIN only if it is.
Sound(s) == s.icc.type \in PinKinds => s.card.kind = s.icc.type

\* Trials are numbers.
LEMMA CostFacts ==
  ASSUME NEW s \in States
  PROVE  /\ s.card.trials \in Nat /\ MaxTrials - s.card.trials \in Nat
         /\ Cost(s) \in Nat /\ Extra(Doubt(s)) \in {0, 1}
         /\ MaxTrials - s.card.trials <= Cost(s) /\ Cost(s) <= MaxTrials - s.card.trials + 1
<1>1. s.card.trials \in 0 .. MaxTrials /\ MaxTrials \in Nat
  BY FieldTypes, TrialsAssumption DEF Card
<1>2. Extra(Doubt(s)) \in {0, 1}
  BY DEF Extra
<1> QED
  BY <1>1, <1>2 DEF Cost

\* A function that has nothing to do with the PIN is fair.
LEMMA QuietFair ==
  ASSUME NEW s \in States, NEW r, Quiet(s, r)
  PROVE  Fair(s, r) /\ (r.ret = "OK" /\ ~s.faulty => Cost(r) <= Cost(s))
<1>1. /\ r \in States /\ Same(s, r) /\ r.card.pin = s.card.pin
      /\ r.card.trials = s.card.trials
      /\ r.ret = "OK" => r.faulty = s.faulty
      /\ r.ret # "OK" => r.faulty
  BY DEF Quiet
<1>2. r.ret = "OK" => Cost(r) <= Cost(s)
  <2> SUFFICES ASSUME r.ret = "OK" PROVE Cost(r) <= Cost(s)
    OBVIOUS
  <2>1. Doubt(r) => Doubt(s)
    BY DEF Quiet, Doubt
  <2>2. Extra(Doubt(r)) <= Extra(Doubt(s))
    BY <2>1 DEF Extra
  <2> QED
    BY <1>1, <2>2, CostFacts DEF Cost
<1>3. r.ret # "OK" => Cost(r) <= Cost(s) + Extra(r.faulty)
  <2> SUFFICES ASSUME r.ret # "OK" PROVE Cost(r) <= Cost(s) + Extra(r.faulty)
    OBVIOUS
  <2>1. Extra(r.faulty) = 1
    BY <1>1 DEF Extra
  <2>2. /\ Cost(r) <= MaxTrials - r.card.trials + 1 /\ MaxTrials - s.card.trials <= Cost(s)
        /\ Cost(r) \in Nat /\ Cost(s) \in Nat /\ MaxTrials - s.card.trials \in Nat
    BY <1>1, CostFacts
  <2> QED
    BY <1>1, <2>1, <2>2
<1>4. r.ret = "OK" => Cost(r) <= Cost(s) + Extra(r.faulty)
  <2> SUFFICES ASSUME r.ret = "OK" PROVE Cost(r) <= Cost(s) + Extra(r.faulty)
    OBVIOUS
  <2>1. Extra(r.faulty) \in {0, 1} /\ Cost(r) \in Nat /\ Cost(s) \in Nat
    BY <1>1, CostFacts DEF Extra
  <2> QED
    BY <1>2, <2>1
<1> QED
  BY <1>1, <1>2, <1>3, <1>4 DEF Fair

\* One fair function after the other.
LEMMA FairTwice ==
  ASSUME NEW s \in States, NEW t, NEW r, Fair(s, t), t.ret = "OK", Fair(t, r)
  PROVE  Fair(s, r)
<1>1. r \in States /\ t \in States /\ Same(s, r) /\ r.card.pin = s.card.pin
  BY DEF Fair, Same
<1>2. r.ret = "OK" => r.faulty = s.faulty
  BY DEF Fair
<1>3. ASSUME ~s.faulty
      PROVE  Cost(r) <= Cost(s) + Extra(r.faulty)
  <2>1. ~t.faulty
    BY <1>3 DEF Fair
  <2>2. Cost(t) <= Cost(s) + 0
    BY <1>3, <2>1 DEF Fair, Extra
  <2>3. Cost(r) <= Cost(t) + Extra(r.faulty)
    BY <2>1 DEF Fair
  <2>4. Cost(r) \in Nat /\ Cost(t) \in Nat /\ Cost(s) \in Nat /\ Extra(r.faulty) \in {0, 1}
    BY <1>1, CostFacts DEF Extra
  <2> QED
    BY <2>2, <2>3, <2>4
<1> QED
  BY <1>1, <1>2, <1>3 DEF Fair

\* What the three writes of a PIN entry do to a card with a PIN.
LEMMA EntryFacts ==
  ASSUME NEW c \in Card, c.kind \in PinKinds, NEW trial \in 1 .. MaxTrials,
         c.powered => trial = c.trials, NEW pin
  PROVE  LET spent == Spent(c, trial)
             compared == Compared(spent, pin)
             restored == Restored(compared)
         IN /\ \A d \in {c, spent, compared, restored} :
                 /\ d \in Card /\ d.kind = c.kind /\ d.pin = c.pin /\ d.mem = c.mem
                 /\ d.powered = c.powered
                 /\ d.trials >= c.trials - 1
                 /\ ~c.powered => d.trials >= c.trials
            /\ c.powered /\ pin = c.pin => restored.unlocked /\ restored.trials = MaxTrials
            /\ c.powered /\ pin # c.pin => restored.trials = c.trials - 1
<1> DEFINE spent == Spent(c, trial)
           compared == Compared(spent, pin)
           restored == Restored(compared)
<1>1. Served(c) <=> c.powered
  BY DEF Served, PinKinds, I2C
<1>2. c.trials \in 0 .. MaxTrials /\ MaxTrials \in Nat
  BY TrialsAssumption DEF Card
<1>3. /\ spent \in Card /\ spent.kind = c.kind /\ spent.pin = c.pin /\ spent.mem = c.mem
      /\ spent.powered = c.powered
      /\ spent.trials = IF c.powered THEN c.trials - 1 ELSE c.trials
  <2>1. CASE c.powered
    <3>1. spent = [c EXCEPT !.trials = trial - 1] /\ trial - 1 \in 0 .. MaxTrials
      BY <1>1, <1>2, <2>1 DEF Spent
    <3> QED
      BY <2>1, <3>1 DEF Card
  <2>2. CASE ~c.powered
    BY <1>1, <2>2 DEF Spent
  <2> QED
    BY <2>1, <2>2
<1>4. Served(spent) <=> c.powered
  BY <1>3 DEF Served, PinKinds, I2C
<1>5. /\ compared \in Card /\ compared.kind = c.kind /\ compared.pin = c.pin
      /\ compared.mem = c.mem /\ compared.powered = c.powered
      /\ compared.trials = spent.trials
      /\ c.powered => (compared.unlocked <=> pin = c.pin)
  <2> HIDE DEF spent
  <2>1. CASE c.powered
    <3> DEFINE u == (pin = spent.pin)
    <3>1. u \in BOOLEAN
      OBVIOUS
    <3>2. compared = [spent EXCEPT !.unlocked = u]
      BY <1>4, <2>1 DEF Compared
    <3> HIDE DEF u
    <3>3. /\ compared \in Card /\ compared.kind = spent.kind /\ compared.pin = spent.pin
          /\ compared.mem = spent.mem /\ compared.powered = spent.powered
          /\ compared.trials = spent.trials /\ compared.unlocked = u
      BY <1>3, <3>1, <3>2 DEF Card
    <3> QED
      BY <1>3, <3>1, <3>3 DEF u
  <2>2. CASE ~c.powered
    BY <1>3, <1>4, <2>2 DEF Compared
  <2> QED
    BY <2>1, <2>2
<1>6. /\ restored \in Card /\ restored.kind = c.kind /\ restored.pin = c.pin
      /\ restored.mem = c.mem /\ restored.powered = c.powered
      /\ restored.unlocked = compared.unlocked
      /\ restored.trials = IF compared.unlocked THEN MaxTrials ELSE compared.trials
  <2> HIDE DEF compared
  <2>1. CASE compared.unlocked
    <3>1. restored = [compared EXCEPT !.trials = MaxTrials] /\ MaxTrials \in 0 .. MaxTrials
      BY <1>2, <2>1 DEF Restored
    <3> QED
      BY <1>5, <2>1, <3>1 DEF Card
  <2>2. CASE ~compared.unlocked
    BY <1>5, <2>2 DEF Restored
  <2> QED
    BY <2>1, <2>2
<1> HIDE DEF spent, compared, restored
<1>7. \A d \in {c, spent, compared, restored} :
        /\ d \in Card /\ d.kind = c.kind /\ d.pin = c.pin /\ d.mem = c.mem
        /\ d.powered = c.powered
  BY <1>3, <1>5, <1>6
<1>8. \A d \in {c, spent, compared, restored} :
        d.trials >= c.trials - 1 /\ (~c.powered => d.trials >= c.trials)
  BY <1>2, <1>3, <1>5, <1>6
<1>9. /\ c.powered /\ pin = c.pin => restored.unlocked /\ restored.trials = MaxTrials
      /\ c.powered /\ pin # c.pin => restored.trials = c.trials - 1
  BY <1>3, <1>5, <1>6
<1> QED
  BY <1>7, <1>8, <1>9 DEF spent, compared, restored

\* What IFD_Towitoko_EnterPin leaves alone, and that a card without power is spared.
LEMMA IFD_EnterPinKeeps ==
  ASSUME NEW s \in States, s.ret = "OK", s.card.kind \in PinKinds, s.trials # 0,
         s.trials = CounterRead(s.card), NEW pin, NEW r \in IFD_EnterPin(s, pin)
  PROVE  /\ r \in States /\ r.icc = s.icc /\ r.trials = s.trials /\ r.lost = s.lost
         /\ r.card.kind = s.card.kind /\ r.card.pin = s.card.pin /\ r.card.mem = s.card.mem
         /\ r.card.powered = s.card.powered
         /\ r.card.trials >= s.card.trials - 1
         /\ ~s.card.powered => r.card.trials >= s.card.trials
         /\ r.ret = "OK" => r.faulty = s.faulty
         /\ r.ret # "OK" => r.faulty = TRUE
<1> DEFINE c == s.card
           spent == Spent(c, s.trials)
           compared == Compared(spent, pin)
           restored == Restored(compared)
<1>1. c \in Card /\ s.trials \in 1 .. MaxTrials /\ (c.powered => s.trials = c.trials)
  BY FieldTypes DEF CounterRead, Served
<1>2. \A d \in {c, spent, compared, restored} :
         /\ d \in Card /\ d.kind = c.kind /\ d.pin = c.pin /\ d.mem = c.mem
         /\ d.powered = c.powered /\ d.trials >= c.trials - 1
         /\ ~c.powered => d.trials >= c.trials
  BY <1>1, EntryFacts
<1>3. PICK d \in {c, spent, compared, restored} :
        r = [s EXCEPT !.card = d] \/ r = Failed([s EXCEPT !.card = d])
  BY DEF IFD_EnterPin
<1> HIDE DEF spent, compared, restored
<1> DEFINE t == [s EXCEPT !.card = d]
<1>4. d \in Card
  BY <1>2
<1>5. /\ t \in States /\ t.icc = s.icc /\ t.trials = s.trials /\ t.lost = s.lost
      /\ t.card = d /\ t.ret = s.ret /\ t.faulty = s.faulty
  BY <1>4, RecordFacts
<1>6. r = t \/ r = Failed(t)
  BY <1>3
<1> HIDE DEF t
<1>7. /\ r \in States /\ r.icc = s.icc /\ r.trials = s.trials /\ r.lost = s.lost
      /\ r.card = d /\ (r.ret = "OK" => r.faulty = s.faulty)
      /\ (r.ret # "OK" => r.faulty = TRUE)
  BY <1>5, <1>6, FailedFacts
<1> QED
  BY <1>2, <1>7

\* The right PIN opens the card and sets the counter back, a wrong one costs a trial.
LEMMA IFD_EnterPinActs ==
  ASSUME NEW s \in States, s.ret = "OK", s.card.kind \in PinKinds, s.trials # 0,
         s.trials = CounterRead(s.card), NEW pin, NEW r \in IFD_EnterPin(s, pin),
         r.ret = "OK", s.card.powered
  PROVE  IF pin = s.card.pin THEN r.card.unlocked /\ r.card.trials = MaxTrials
         ELSE r.card.trials = s.card.trials - 1
<1> DEFINE c == s.card
           spent == Spent(c, s.trials)
           compared == Compared(spent, pin)
           restored == Restored(compared)
<1>1. c \in Card /\ s.trials \in 1 .. MaxTrials /\ (c.powered => s.trials = c.trials)
  BY FieldTypes DEF CounterRead, Served
<1>2. /\ \A d \in {c, spent, compared, restored} : d \in Card
      /\ c.powered /\ pin = c.pin => restored.unlocked /\ restored.trials = MaxTrials
      /\ c.powered /\ pin # c.pin => restored.trials = c.trials - 1
  BY <1>1, EntryFacts
<1>3. \/ r = [s EXCEPT !.card = restored]
      \/ \E d \in {c, spent, compared, restored} : r = Failed([s EXCEPT !.card = d])
  BY DEF IFD_EnterPin
<1> HIDE DEF spent, compared, restored
<1>4. \A d \in Card : Failed([s EXCEPT !.card = d]).ret # "OK"
  BY RecordFacts, FailedFacts
<1>5. r = [s EXCEPT !.card = restored]
  BY <1>2, <1>3, <1>4
<1>6. r.card = restored
  BY <1>2, <1>5, RecordFacts
<1> QED
  BY <1>2, <1>6

\* The trials are in the record.
LEMMA CountFacts ==
  ASSUME NEW s \in States, NEW n \in 0 .. MaxTrials
  PROVE  LET t == [s EXCEPT !.trials = n]
         IN /\ t \in States /\ t.icc = s.icc /\ t.card = s.card /\ t.ret = s.ret
            /\ t.faulty = s.faulty /\ t.trials = n /\ t.lost = s.lost
BY DEF States

\* The first part of ICC_Sync_EnterPin: the card is on and has trials left.
Counted(s) ==
  Then(Then(Activate(s), ReadErrorCounter),
       LAMBDA t : Stop([t EXCEPT !.trials = CounterRead(t.card)]))

\* What it leaves alone.
Untouched(s, t) ==
  /\ t \in States /\ Same(s, t) /\ t.card.pin = s.card.pin /\ t.card.trials = s.card.trials
  /\ t.card.mem = s.card.mem /\ t.icc.pin = s.icc.pin /\ t.icc.pin_ok = s.icc.pin_ok

\* So far only a failed exchange can cost anything, and a card that is blocked is spared.
LEMMA CountedFacts ==
  ASSUME NEW s \in States, s.ret = "OK", ~s.faulty, NEW t \in Counted(s)
  PROVE  /\ Untouched(s, t)
         /\ t.ret = "OK" => /\ t.icc.active /\ ~t.faulty /\ (Asleep(t) => Asleep(s))
                            /\ t.trials = CounterRead(t.card) /\ t.trials # 0
         /\ t.ret # "OK" => Cost(t) <= Cost(s) + Extra(t.faulty)
<1> DEFINE S1 == Activate(s)
           S2 == Then(S1, ReadErrorCounter)
<1>1. ASSUME NEW u \in S2
      PROVE  Quiet(s, u) /\ u.card.mem = s.card.mem /\ (u.ret = "OK" => u.icc.active)
  <2>1. PICK v \in S1 : IF v.ret = "OK" THEN u \in Exchange(v, v.card) ELSE u = v
    BY DEF Then, ReadErrorCounter
  <2>2. /\ Quiet(s, v) /\ v.card.mem = s.card.mem /\ v \in States
        /\ v.ret = "OK" => v.icc.active
    BY ActivateFacts DEF Quiet
  <2> HIDE DEF S1
  <2>3. CASE v.ret = "OK"
    <3>1. Quiet(v, u) /\ u.card = v.card /\ u.icc = v.icc
      BY <2>1, <2>2, <2>3, TalkQuiet
    <3> QED
      BY <2>2, <2>3, <3>1, QuietTwice
  <2> QED
    BY <2>1, <2>2, <2>3
<1> HIDE DEF S2
<1>2. PICK u \in S2 :
        IF u.ret = "OK" THEN t \in Stop([u EXCEPT !.trials = CounterRead(u.card)]) ELSE t = u
  BY DEF Counted, Then, S2
<1>3. /\ Quiet(s, u) /\ u \in States /\ u.card.mem = s.card.mem
      /\ u.ret = "OK" => u.icc.active
  BY <1>1 DEF Quiet
<1>4. CASE u.ret # "OK"
  <2>1. t = u
    BY <1>2, <1>4
  <2>2. Cost(t) <= Cost(s) + Extra(t.faulty)
    BY <1>3, <2>1, QuietFair DEF Fair
  <2> QED
    BY <1>3, <1>4, <2>1, <2>2 DEF Quiet, Untouched
<1>5. CASE u.ret = "OK"
  <2> DEFINE n == CounterRead(u.card)
             v == [u EXCEPT !.trials = n]
  <2>1. n \in 0 .. MaxTrials
    BY <1>3, FieldTypes, TrialsAssumption DEF CounterRead, Card
  <2> HIDE DEF n
  <2>2. /\ v \in States /\ v.icc = u.icc /\ v.card = u.card /\ v.ret = "OK"
        /\ v.faulty = u.faulty /\ v.trials = n
    BY <1>3, <1>5, <2>1, CountFacts
  <2>3. t \in Stop(v)
    BY <1>2, <1>5 DEF n
  <2> HIDE DEF v
  <2>4. u.faulty = s.faulty /\ (Asleep(u) => Asleep(s)) /\ u.icc.active
    BY <1>3, <1>5 DEF Quiet
  <2>5. CASE v.trials = 0
    <3>1. t = [v EXCEPT !.ret = "BLOCKED_ERROR"]
      BY <2>3, <2>5 DEF Stop
    <3>2. /\ t \in States /\ t.icc = u.icc /\ t.card = u.card /\ t.ret = "BLOCKED_ERROR"
          /\ t.faulty = u.faulty
      BY <2>2, <3>1 DEF States, Results
    <3>3. Cost(u) <= Cost(s) /\ Cost(t) = Cost(u)
      <4>1. Cost(u) <= Cost(s)
        BY <1>3, <1>5, QuietFair
      <4> QED
        BY <3>2, <4>1 DEF Cost, Doubt, Asleep
    <3>4. Cost(t) <= Cost(s) + Extra(t.faulty)
      <4>1. Extra(t.faulty) \in {0, 1} /\ Cost(t) \in Nat /\ Cost(s) \in Nat
        BY <3>2, CostFacts DEF Extra
      <4> QED
        BY <3>3, <4>1
    <3> QED
      BY <1>3, <3>2, <3>4 DEF Untouched, Quiet, Same, Asleep
  <2>6. CASE v.trials # 0
    <3>1. t = v
      BY <2>3, <2>6 DEF Stop
    <3>2. Untouched(s, t)
      BY <1>3, <2>2, <3>1 DEF Untouched, Quiet, Same, Asleep
    <3>3. t.icc.active /\ ~t.faulty /\ (Asleep(t) => Asleep(s))
      BY <2>2, <2>4, <3>1 DEF Asleep
    <3>4. t.trials = CounterRead(t.card) /\ t.trials # 0
      BY <2>2, <2>6, <3>1 DEF n
    <3> QED
      BY <2>2, <3>1, <3>2, <3>3, <3>4
  <2> QED
    BY <2>5, <2>6
<1> QED
  BY <1>4, <1>5

\* What Judge does to the record.
LEMMA JudgeFacts ==
  ASSUME NEW s \in States, s.ret = "OK", NEW pin \in Pins \union {<<>>}, NEW r \in Judge(s, pin)
  PROVE  /\ r \in States /\ Same(s, r) /\ r.card = s.card /\ r.faulty = s.faulty
         /\ r.icc.active = s.icc.active
         /\ r.ret = "OK" => /\ ~(CounterRead(s.card) < s.trials)
                            /\ r.icc.pin_ok /\ r.icc.pin = pin /\ ~r.icc.pin_needed
         /\ r.ret # "OK" => /\ CounterRead(s.card) < s.trials /\ ~r.icc.pin_ok
<1>1. s.icc \in Icc
  BY FieldTypes
<1>2. CASE CounterRead(s.card) < s.trials
  <2> DEFINE i == [s.icc EXCEPT !.pin_ok = FALSE]
  <2>1. r = [s EXCEPT !.icc = i, !.ret = "PIN_ERROR"]
    BY <1>2 DEF Judge
  <2>2. /\ i \in Icc /\ ~i.pin_ok /\ i.active = s.icc.active /\ i.type = s.icc.type
        /\ i.length = s.icc.length /\ i.page = s.icc.page /\ i.ready = s.icc.ready
    BY <1>1 DEF Icc
  <2> HIDE DEF i
  <2>3. r \in States /\ r.card = s.card /\ r.icc = i /\ r.ret = "PIN_ERROR" /\ r.faulty = s.faulty
    BY <2>1, <2>2 DEF States, Results
  <2> QED
    BY <1>2, <2>2, <2>3 DEF Same, Asleep
<1>3. CASE ~(CounterRead(s.card) < s.trials)
  <2> DEFINE i == [s.icc EXCEPT !.pin = pin, !.pin_ok = TRUE, !.pin_needed = FALSE]
  <2>1. r = [s EXCEPT !.icc = i]
    BY <1>3 DEF Judge
  <2>2. /\ i \in Icc /\ i.pin_ok /\ i.pin = pin /\ ~i.pin_needed /\ i.active = s.icc.active
        /\ i.type = s.icc.type
        /\ i.length = s.icc.length /\ i.page = s.icc.page /\ i.ready = s.icc.ready
    BY <1>1 DEF Icc
  <2> HIDE DEF i
  <2>3. r \in States /\ r.card = s.card /\ r.icc = i /\ r.ret = "OK" /\ r.faulty = s.faulty
    BY <2>1, <2>2 DEF States, Results
  <2> QED
    BY <1>3, <2>2, <2>3 DEF Same, Asleep
<1> QED
  BY <1>2, <1>3

\* ICC_Sync_EnterPin: what it leaves alone, and what it is worth when it succeeds.
Entered(s, pin, r) ==
  /\ r \in States /\ Same(s, r) /\ r.card.pin = s.card.pin /\ r.card.mem = s.card.mem
  /\ r.ret = "OK" => /\ ~r.faulty /\ Cost(r) <= Cost(s)
                     /\ s.icc.type \in PinKinds =>
                          r.icc.active /\ (r.card.powered => r.card.unlocked)
  /\ Cost(r) <= Cost(s) + Extra(r.faulty \/ (pin # s.card.pin /\ ~Doubt(s)))

\* The second part: the PIN goes to the card and the counter is read again.
LEMMA WritePinFacts ==
  ASSUME NEW s \in States, s.ret = "OK", ~s.faulty, s.icc.type \in PinKinds, Sound(s),
         s.trials # 0, s.trials = CounterRead(s.card), s.icc.active, NEW pin,
         NEW r \in Then(IFD_EnterPin(s, pin), ReadErrorCounter)
  PROVE  /\ r \in States /\ r.icc = s.icc /\ r.trials = s.trials
         /\ r.card.kind = s.card.kind /\ r.card.pin = s.card.pin /\ r.card.mem = s.card.mem
         /\ r.card.powered = s.card.powered
         /\ r.ret # "OK" => r.faulty /\ Cost(r) <= Cost(s) + 1
         /\ r.ret = "OK" =>
              /\ ~r.faulty
              /\ ~s.card.powered => r.card.trials >= s.card.trials
              /\ s.card.powered => IF pin = s.card.pin
                                   THEN r.card.unlocked /\ r.card.trials = MaxTrials
                                   ELSE r.card.trials = s.card.trials - 1
<1>0. s.card.kind \in PinKinds
  BY DEF Sound
<1> DEFINE S == IFD_EnterPin(s, pin)
<1>1. PICK t \in S : IF t.ret = "OK" THEN r \in Exchange(t, t.card) ELSE r = t
  BY DEF Then, ReadErrorCounter
<1>2. /\ t \in States /\ t.icc = s.icc /\ t.trials = s.trials
      /\ t.card.kind = s.card.kind /\ t.card.pin = s.card.pin /\ t.card.mem = s.card.mem
      /\ t.card.powered = s.card.powered
      /\ t.card.trials >= s.card.trials - 1
      /\ ~s.card.powered => t.card.trials >= s.card.trials
      /\ t.ret = "OK" => t.faulty = s.faulty
      /\ t.ret # "OK" => t.faulty = TRUE
  BY <1>0, <1>1, IFD_EnterPinKeeps
<1>3. t.ret = "OK" /\ s.card.powered =>
        IF pin = s.card.pin THEN t.card.unlocked /\ t.card.trials = MaxTrials
        ELSE t.card.trials = s.card.trials - 1
  BY <1>0, <1>1, IFD_EnterPinActs
<1> HIDE DEF S
<1>4. /\ r \in States /\ r.icc = t.icc /\ r.trials = t.trials /\ r.card = t.card
      /\ r.ret = "OK" => t.ret = "OK" /\ r.faulty = t.faulty
      /\ r.ret # "OK" => r.faulty = TRUE
  <2>1. CASE t.ret = "OK"
    <3>1. Quiet(t, r) /\ r.icc = t.icc /\ r.card = t.card /\ r.trials = t.trials
      BY <1>1, <1>2, <2>1, TalkQuiet
    <3> QED
      BY <2>1, <3>1 DEF Quiet
  <2>2. CASE t.ret # "OK"
    BY <1>1, <1>2, <2>2
  <2> QED
    BY <2>1, <2>2
<1>5. Cost(r) <= Cost(s) + 1
  <2>1. /\ r.card.trials \in Nat /\ s.card.trials \in Nat /\ MaxTrials \in Nat
        /\ Cost(s) \in Nat /\ Cost(r) \in Nat
        /\ MaxTrials - s.card.trials <= Cost(s) /\ Cost(r) <= MaxTrials - r.card.trials + 1
    BY <1>4, CostFacts, TrialsAssumption
  <2>2. CASE s.card.powered
    <3>1. Doubt(r) => Doubt(s)
      BY <1>2, <1>4, <2>2 DEF Doubt, Asleep
    <3>2. Extra(Doubt(r)) <= Extra(Doubt(s)) /\ Extra(Doubt(r)) \in {0, 1}
          /\ Extra(Doubt(s)) \in {0, 1}
      BY <3>1 DEF Extra
    <3>3. r.card.trials >= s.card.trials - 1
      BY <1>2, <1>4
    <3> QED
      BY <2>1, <3>2, <3>3 DEF Cost
  <2>3. CASE ~s.card.powered
    <3>1. r.card.trials >= s.card.trials
      BY <1>2, <1>4, <2>3
    <3> QED
      BY <2>1, <3>1
  <2> QED
    BY <2>2, <2>3
<1> QED
  BY <1>2, <1>3, <1>4, <1>5

\* The last part: the counter tells whether the PIN was right. A card without power
\* seems to have taken it, which the driver was in doubt about before.
LEMMA JudgedFacts ==
  ASSUME NEW s \in States, NEW t \in States, NEW u \in States,
         NEW pin \in Pins \union {<<>>}, NEW r \in Judge(u, pin),
         s.icc.type \in PinKinds, Sound(s), ~s.faulty,
         Untouched(s, t), t.icc.active, Asleep(t) => Asleep(s),
         t.trials = CounterRead(t.card),
         u.icc = t.icc, u.trials = t.trials, u.ret = "OK", ~u.faulty,
         u.card.kind = t.card.kind, u.card.pin = t.card.pin, u.card.mem = t.card.mem,
         u.card.powered = t.card.powered,
         ~t.card.powered => u.card.trials >= t.card.trials,
         t.card.powered => IF pin = t.card.pin
                           THEN u.card.unlocked /\ u.card.trials = MaxTrials
                           ELSE u.card.trials = t.card.trials - 1
  PROVE  Entered(s, pin, r)
<1>1. /\ r \in States /\ Same(u, r) /\ r.card = u.card /\ r.faulty = u.faulty
      /\ r.icc.active = u.icc.active
      /\ r.ret = "OK" => ~(CounterRead(u.card) < u.trials) /\ r.icc.pin_ok /\ r.icc.pin = pin
      /\ r.ret # "OK" => CounterRead(u.card) < u.trials /\ ~r.icc.pin_ok
  BY JudgeFacts
<1>2. /\ t.card.kind \in PinKinds /\ Same(s, t) /\ t.card.pin = s.card.pin
      /\ t.card.trials = s.card.trials /\ t.card.mem = s.card.mem
  BY DEF Untouched, Sound, Same
<1>3. (Served(t.card) <=> t.card.powered) /\ (Served(u.card) <=> t.card.powered)
  BY <1>2 DEF Served, PinKinds, I2C
<1>4. Same(s, r) /\ r.card.pin = s.card.pin /\ r.card.mem = s.card.mem /\ ~r.faulty
  BY <1>1, <1>2 DEF Same, Asleep
<1>5. /\ s.card.trials \in Nat /\ r.card.trials \in Nat /\ MaxTrials \in Nat
      /\ Cost(s) \in Nat /\ Cost(r) \in Nat /\ t.trials \in 0 .. MaxTrials
      /\ MaxTrials - s.card.trials <= Cost(s) /\ Cost(r) <= MaxTrials - r.card.trials + 1
  BY <1>1, CostFacts, FieldTypes, TrialsAssumption
<1> DEFINE e == Extra(r.faulty \/ (pin # s.card.pin /\ ~Doubt(s)))
<1>6. e \in {0, 1}
  BY DEF Extra
<1>7. CASE ~t.card.powered
  <2>1. CounterRead(u.card) = MaxTrials
    BY <1>3, <1>7 DEF CounterRead
  <2>2. r.ret = "OK"
    BY <1>1, <1>5, <2>1
  <2>3. Doubt(s)
    BY <1>7 DEF Asleep, Doubt
  <2>4. Cost(s) = MaxTrials - s.card.trials + 1
    BY <2>3 DEF Cost, Extra
  <2>5. r.card.trials >= s.card.trials
    BY <1>1, <1>2, <1>7
  <2>6. Cost(r) <= Cost(s)
    BY <1>5, <2>4, <2>5
  <2>7. Cost(r) <= Cost(s) + e
    BY <1>5, <1>6, <2>6
  <2> QED
    BY <1>1, <1>4, <1>7, <2>6, <2>7 DEF Entered
<1>8. CASE t.card.powered /\ pin = s.card.pin
  <2>1. u.card.unlocked /\ u.card.trials = MaxTrials
    BY <1>2, <1>8
  <2>2. CounterRead(u.card) = MaxTrials
    BY <1>3, <1>8, <2>1 DEF CounterRead
  <2>3. r.ret = "OK"
    BY <1>1, <1>5, <2>2
  <2>4. ~Doubt(r)
    BY <1>1, <1>2, <1>8, <2>3 DEF Doubt, Asleep
  <2>5. Cost(r) = 0
    BY <1>1, <1>5, <2>1, <2>4 DEF Cost, Extra
  <2>6. Cost(r) <= Cost(s) /\ Cost(r) <= Cost(s) + e
    BY <1>5, <1>6, <2>5
  <2> QED
    BY <1>1, <1>4, <1>8, <2>1, <2>6 DEF Entered
<1>9. CASE t.card.powered /\ pin # s.card.pin
  <2>1. u.card.trials = s.card.trials - 1
    BY <1>2, <1>9
  <2>2. CounterRead(u.card) < u.trials
    BY <1>2, <1>3, <1>5, <1>9, <2>1 DEF CounterRead
  <2>3. r.ret # "OK" /\ ~r.icc.pin_ok
    BY <1>1, <2>2
  <2>4. ~Doubt(r)
    BY <1>1, <1>9, <2>3 DEF Doubt, Asleep
  <2>5. Cost(r) = MaxTrials - s.card.trials + 1
    BY <1>1, <1>5, <2>1, <2>4 DEF Cost, Extra
  <2>6. Cost(r) <= Cost(s) + e
    <3>1. CASE Doubt(s)
      <4>1. Cost(s) = MaxTrials - s.card.trials + 1
        BY <3>1 DEF Cost, Extra
      <4> QED
        BY <1>5, <1>6, <2>5, <4>1
    <3>2. CASE ~Doubt(s)
      <4>1. e = 1
        BY <1>9, <3>2 DEF Extra
      <4> HIDE DEF e
      <4> QED
        BY <1>5, <2>5, <4>1, SMTT(30)
    <3> QED
      BY <3>1, <3>2
  <2> QED
    BY <1>1, <1>4, <2>3, <2>6 DEF Entered
<1> QED
  BY <1>7, <1>8, <1>9

\* ICC_Sync_EnterPin costs a trial only when an exchange failed, or when the PIN is
\* wrong and nothing was in doubt before.
LEMMA EnterPinFacts ==
  ASSUME NEW s \in States, s.ret = "OK", ~s.faulty, Sound(s),
         NEW pin \in Pins \union {<<>>}, NEW r \in ICC_Sync_EnterPin(s, pin)
  PROVE  Entered(s, pin, r)
<1>1. CASE s.icc.type \in I2C
  <2>1. r = s /\ s.icc.type \notin PinKinds
    BY <1>1 DEF ICC_Sync_EnterPin, I2C, PinKinds
  <2>2. Cost(s) \in Nat /\ Extra(r.faulty \/ (pin # s.card.pin /\ ~Doubt(s))) \in {0, 1}
    BY CostFacts DEF Extra
  <2>3. /\ Cost(s) <= Cost(s)
        /\ Cost(s) <= Cost(s) + Extra(r.faulty \/ (pin # s.card.pin /\ ~Doubt(s)))
    BY <2>2
  <2> QED
    BY <2>1, <2>3 DEF Entered, Same
<1>2. CASE s.icc.type \notin I2C
  <2>0. s.icc.type \in PinKinds
    BY <1>2, FieldTypes DEF Icc, Kinds
  <2> DEFINE S1 == Counted(s)
             S2 == Then(S1, LAMBDA t : IFD_EnterPin(t, pin))
             S3 == Then(S2, ReadErrorCounter)
  <2>1. r \in Then(S3, LAMBDA t : Judge(t, pin))
    BY <1>2 DEF ICC_Sync_EnterPin, Counted
  <2>2. ASSUME NEW u \in S3
        PROVE  \E t \in S1 : IF t.ret = "OK"
                             THEN u \in Then(IFD_EnterPin(t, pin), ReadErrorCounter)
                             ELSE u = t
    <3> HIDE DEF S1
    <3>1. PICK v \in S2 : IF v.ret = "OK" THEN u \in ReadErrorCounter(v) ELSE u = v
      BY DEF Then
    <3>2. PICK t \in S1 : IF t.ret = "OK" THEN v \in IFD_EnterPin(t, pin) ELSE v = t
      BY DEF Then
    <3>3. CASE t.ret = "OK"
      <4>1. u \in Then(IFD_EnterPin(t, pin), ReadErrorCounter)
        BY <3>1, <3>2, <3>3 DEF Then
      <4> QED
        BY <3>3, <4>1
    <3>4. CASE t.ret # "OK"
      BY <3>1, <3>2, <3>4
    <3> QED
      BY <3>3, <3>4
  <2> HIDE DEF S3
  <2>3. PICK u \in S3 : IF u.ret = "OK" THEN r \in Judge(u, pin) ELSE r = u
    BY <2>1 DEF Then
  <2> HIDE DEF S1
  <2>4. PICK t \in S1 : IF t.ret = "OK" THEN u \in Then(IFD_EnterPin(t, pin), ReadErrorCounter)
                        ELSE u = t
    BY <2>2
  <2>5. /\ Untouched(s, t) /\ t \in States
        /\ t.ret = "OK" => /\ t.icc.active /\ ~t.faulty /\ (Asleep(t) => Asleep(s))
                           /\ t.trials = CounterRead(t.card) /\ t.trials # 0
        /\ t.ret # "OK" => Cost(t) <= Cost(s) + Extra(t.faulty)
    BY CountedFacts DEF Untouched, S1
  <2> DEFINE e == Extra(r.faulty \/ (pin # s.card.pin /\ ~Doubt(s)))
  <2>6. CASE t.ret # "OK"
    <3>1. r = t
      BY <2>3, <2>4, <2>6
    <3>2. Extra(t.faulty) <= e /\ Extra(t.faulty) \in {0, 1} /\ e \in {0, 1}
      BY <3>1 DEF Extra
    <3> HIDE DEF e
    <3>3. Cost(r) <= Cost(s) + e
      <4>1. Cost(s) \in Nat /\ Cost(t) \in Nat
        BY <2>5, CostFacts
      <4>2. Cost(t) <= Cost(s) + Extra(t.faulty)
        BY <2>5, <2>6
      <4> QED
        BY <3>1, <3>2, <4>1, <4>2
    <3> QED
      BY <2>5, <2>6, <3>1, <3>3 DEF Entered, Untouched, e
  <2>7. CASE t.ret = "OK"
    <3>1. t.icc.type \in PinKinds /\ Sound(t)
      BY <2>0, <2>5 DEF Untouched, Same, Sound
    <3>2. u \in Then(IFD_EnterPin(t, pin), ReadErrorCounter)
      BY <2>4, <2>7
    <3>3. /\ u \in States /\ u.icc = t.icc /\ u.trials = t.trials
          /\ u.card.kind = t.card.kind /\ u.card.pin = t.card.pin /\ u.card.mem = t.card.mem
          /\ u.card.powered = t.card.powered
          /\ u.ret # "OK" => u.faulty /\ Cost(u) <= Cost(t) + 1
          /\ u.ret = "OK" =>
               /\ ~u.faulty
               /\ ~t.card.powered => u.card.trials >= t.card.trials
               /\ t.card.powered => IF pin = t.card.pin
                                    THEN u.card.unlocked /\ u.card.trials = MaxTrials
                                    ELSE u.card.trials = t.card.trials - 1
      BY <2>5, <2>7, <3>1, <3>2, WritePinFacts
    <3>4. CASE u.ret = "OK"
      BY <2>0, <2>3, <2>5, <2>7, <3>3, <3>4, JudgedFacts
    <3>5. CASE u.ret # "OK"
      <4>1. r = u /\ u.faulty
        BY <2>3, <3>3, <3>5
      <4>2. e = 1
        BY <4>1 DEF Extra
      <4> HIDE DEF e
      <4>3. Doubt(t) => Doubt(s)
        BY <2>5, <2>7 DEF Untouched, Doubt
      <4>4. /\ Extra(Doubt(t)) <= Extra(Doubt(s)) /\ Extra(Doubt(t)) \in {0, 1}
            /\ Extra(Doubt(s)) \in {0, 1}
        BY <4>3 DEF Extra
      <4>5. Cost(t) <= Cost(s)
        BY <2>5, <4>4, CostFacts DEF Cost, Untouched
      <4>6. Cost(r) <= Cost(s) + e
        <5>1. Cost(s) \in Nat /\ Cost(t) \in Nat /\ Cost(u) \in Nat
          BY <2>5, <3>3, CostFacts
        <5>2. Cost(u) <= Cost(t) + 1
          BY <3>3, <3>5
        <5> QED
          BY <4>1, <4>2, <4>5, <5>1, <5>2
      <4>7. Same(s, r) /\ r.card.pin = s.card.pin /\ r.card.mem = s.card.mem
        BY <2>5, <3>3, <4>1 DEF Same, Untouched, Asleep
      <4> QED
        BY <3>3, <3>5, <4>1, <4>6, <4>7 DEF Entered, e
    <3> QED
      BY <3>4, <3>5
  <2> QED
    BY <2>6, <2>7
<1> QED
  BY <1>1, <1>2

\* The driver enters the PIN by itself: only a failure can cost a trial.
LEMMA ReenterFacts ==
  ASSUME NEW s \in States, s.ret = "OK", Sound(s), ~s.faulty \/ s.icc.type \in I2C,
         NEW r \in Reenter(s)
  PROVE  Fair(s, r) /\ r.card.mem = s.card.mem
<1>1. CASE s.icc.active
  <2>1. r = s
    BY <1>1 DEF Reenter
  <2>2. Quiet(s, r)
    BY <2>1 DEF Quiet, Same
  <2> QED
    BY <2>1, <2>2, QuietFair
<1>2. CASE ~s.icc.active
  <2> DEFINE S == Activate(s)
  <2>1. PICK t \in S : IF t.ret = "OK"
                       THEN r \in IF t.icc.pin_ok /\ NeedsPin(t.icc)
                                  THEN ICC_Sync_EnterPin(t, t.icc.pin) ELSE {t}
                       ELSE r = t
    BY <1>2 DEF Reenter, Then
  <2>2. Quiet(s, t) /\ t.card.mem = s.card.mem /\ t \in States
    BY ActivateFacts DEF Quiet
  <2> HIDE DEF S
  <2>3. Fair(s, t)
    BY <2>2, QuietFair
  <2>4. CASE r = t
    BY <2>2, <2>3, <2>4
  <2>5. CASE r # t
    <3> DEFINE pin == t.icc.pin
    <3>1. /\ t.ret = "OK" /\ t.icc.pin_ok /\ NeedsPin(t.icc)
          /\ r \in ICC_Sync_EnterPin(t, pin)
      BY <2>1, <2>5
    <3>2. t.icc.type \in PinKinds /\ t.icc.type = s.icc.type /\ t.card.kind = s.card.kind
      BY <2>2, <3>1 DEF NeedsPin, Quiet, Same
    <3>3. ~s.faulty /\ ~t.faulty /\ Sound(t)
      BY <2>2, <3>1, <3>2 DEF PinKinds, I2C, Quiet, Sound
    <3>4. pin \in Pins \union {<<>>}
      BY <2>2, FieldTypes DEF Icc
    <3> HIDE DEF pin
    <3>5. Entered(t, pin, r)
      BY <2>2, <3>1, <3>3, <3>4, EnterPinFacts
    <3>6. pin # t.card.pin => Doubt(t)
      BY <3>1 DEF Doubt, pin
    <3>7. Extra(r.faulty \/ (pin # t.card.pin /\ ~Doubt(t))) = Extra(r.faulty)
      BY <3>6 DEF Extra
    <3>8. Fair(t, r)
      <4>1. r.faulty \in BOOLEAN /\ t.faulty \in BOOLEAN
        BY <2>2, <3>5, FieldTypes DEF Entered
      <4>2. r.ret = "OK" => r.faulty = t.faulty
        BY <3>3, <3>5, <4>1 DEF Entered
      <4> QED
        BY <3>5, <3>7, <4>2 DEF Fair, Entered
    <3>9. r.card.mem = t.card.mem
      BY <3>5 DEF Entered
    <3> QED
      BY <2>2, <2>3, <3>1, <3>8, <3>9, FairTwice
  <2> QED
    BY <2>4, <2>5
<1> QED
  BY <1>1, <1>2

\* The new PIN is on the card when the driver takes it for the right one, unless the card
\* has been without power all the time.
LEMMA ChangePinFacts ==
  ASSUME NEW s \in States, s.ret = "OK", ~s.faulty, Sound(s), NEW pin \in Pins,
         s.card.kind \in PinKinds => s.card.pin \in Pins,
         s.icc.type \in PinKinds => s.icc.active /\ (s.card.powered => s.card.unlocked),
         NEW r \in ICC_Sync_ChangePin(s, pin)
  PROVE  /\ r \in States /\ Same(s, r) /\ Cost(r) <= Cost(s) + Extra(r.faulty)
         /\ s.card.kind \in PinKinds => r.card.pin \in Pins
<1>1. CASE s.icc.type \in I2C
  <2>1. r = s
    BY <1>1 DEF ICC_Sync_ChangePin
  <2>2. Cost(s) <= Cost(s) + Extra(r.faulty)
    BY CostFacts DEF Extra
  <2> QED
    BY <2>1, <2>2 DEF Same
<1>2. CASE s.icc.type \notin I2C
  <2>0. s.icc.type \in PinKinds /\ s.card.kind \in PinKinds /\ s.card.pin \in Pins
    BY <1>2, FieldTypes DEF Icc, Kinds, Sound
  <2> DEFINE S1 == Reenter(s)
             S2 == Then(S1, LAMBDA t : IFD_ChangePin(t, pin))
             Knows(t) == [t EXCEPT !.icc.pin = pin, !.icc.pin_ok = TRUE, !.icc.pin_needed = FALSE]
  <2>1. r \in Then(S2, LAMBDA t : {Knows(t)})
    BY <1>2 DEF ICC_Sync_ChangePin
  <2>2. S1 = {s}
    BY <2>0 DEF Reenter
  <2>3. S2 = IFD_ChangePin(s, pin)
    <3> HIDE DEF S1
    <3> QED
      BY <2>2 DEF Then
  <2> HIDE DEF S2
  <2>4. PICK t \in S2 : IF t.ret = "OK" THEN r = Knows(t) ELSE r = t
    BY <2>1 DEF Then
  <2> DEFINE Set(p) == IF s.card.unlocked THEN [s EXCEPT !.card.pin = p] ELSE s
  <2>5. \/ t = Set(pin)
        \/ \E p \in {s.card.pin, pin, <<pin[1], s.card.pin[2]>>} : t = Failed(Set(p))
    BY <2>3 DEF IFD_ChangePin
  <2>6. <<pin[1], s.card.pin[2]>> \in Pins
    BY <2>0 DEF Pins
  <2>7. ASSUME NEW p \in Pins
        PROVE  /\ Set(p) \in States /\ Set(p).icc = s.icc /\ Set(p).ret = s.ret
               /\ Set(p).faulty = s.faulty /\ Set(p).card.kind = s.card.kind
               /\ Set(p).card.trials = s.card.trials /\ Set(p).card.powered = s.card.powered
               /\ Set(p).card.pin \in Pins
               /\ s.card.unlocked => Set(p).card.pin = p
    <3>1. CASE s.card.unlocked
      <4> DEFINE c == [s.card EXCEPT !.pin = p]
      <4>1. Set(p) = [s EXCEPT !.card = c]
        BY <3>1
      <4>2. /\ c \in Card /\ c.kind = s.card.kind /\ c.trials = s.card.trials
            /\ c.powered = s.card.powered /\ c.pin = p
        BY FieldTypes DEF Card
      <4> HIDE DEF c, Set
      <4> QED
        BY <4>1, <4>2, RecordFacts
    <3>2. CASE ~s.card.unlocked
      BY <2>0, <3>2
    <3> QED
      BY <3>1, <3>2
  <2> HIDE DEF Set
  <2>8. CASE t = Set(pin)
    <3>1. /\ t \in States /\ t.icc = s.icc /\ t.ret = "OK" /\ ~t.faulty
          /\ t.card.kind = s.card.kind /\ t.card.trials = s.card.trials
          /\ t.card.powered = s.card.powered /\ t.card.pin \in Pins
          /\ s.card.unlocked => t.card.pin = pin
      BY <2>7, <2>8
    <3> DEFINE i == [t.icc EXCEPT !.pin = pin, !.pin_ok = TRUE, !.pin_needed = FALSE]
    <3>2. r = [t EXCEPT !.icc = i]
      BY <2>4, <3>1
    <3>3. /\ i \in Icc /\ i.pin = pin /\ i.active = s.icc.active /\ i.type = s.icc.type
          /\ i.length = s.icc.length /\ i.page = s.icc.page /\ i.ready = s.icc.ready
      BY <3>1, FieldTypes DEF Icc
    <3> HIDE DEF i
    <3>4. r \in States /\ r.icc = i /\ r.card = t.card /\ r.faulty = t.faulty
      BY <3>1, <3>2, <3>3 DEF States
    <3>5. Doubt(r) => Doubt(s)
      BY <2>0, <3>1, <3>3, <3>4 DEF Doubt, Asleep
    <3>6. Extra(Doubt(r)) <= Extra(Doubt(s)) /\ Extra(r.faulty) = 0
      BY <3>1, <3>4, <3>5 DEF Extra
    <3>7. Cost(r) <= Cost(s) + Extra(r.faulty)
      <4>1. /\ Extra(Doubt(r)) \in {0, 1} /\ Extra(Doubt(s)) \in {0, 1}
            /\ MaxTrials - s.card.trials \in Nat /\ r.card.trials = s.card.trials
        BY <3>1, <3>4, CostFacts
      <4> QED
        BY <3>6, <4>1 DEF Cost
    <3> QED
      BY <3>1, <3>3, <3>4, <3>7 DEF Same, Asleep
  <2>9. ASSUME NEW p \in Pins, t = Failed(Set(p))
        PROVE  /\ r \in States /\ Same(s, r) /\ Cost(r) <= Cost(s) + Extra(r.faulty)
               /\ r.card.pin \in Pins
    <3>1. /\ t \in States /\ t.icc = s.icc /\ t.ret = "IFD_ERROR" /\ t.faulty = TRUE
          /\ t.card.kind = s.card.kind /\ t.card.trials = s.card.trials
          /\ t.card.powered = s.card.powered /\ t.card.pin \in Pins
      BY <2>7, <2>9, FailedFacts, ZenonT(40)
    <3>2. r = t
      BY <2>4, <3>1
    <3>3. /\ Cost(r) \in Nat /\ Cost(s) \in Nat /\ MaxTrials - s.card.trials \in Nat
          /\ Cost(r) <= MaxTrials - s.card.trials + 1 /\ MaxTrials - s.card.trials <= Cost(s)
          /\ Extra(r.faulty) = 1
      BY <3>1, <3>2, CostFacts DEF Extra
    <3>4. Cost(r) <= Cost(s) + Extra(r.faulty)
      BY <3>3
    <3> QED
      BY <3>1, <3>2, <3>4 DEF Same, Asleep
  <2> QED
    BY <2>0, <2>5, <2>6, <2>8, <2>9
<1> QED
  BY <1>1, <1>2

-----------------------------------------------------------------------------
(* Writing. *)

\* A set of positions has a last one.
LEMMA LastHit ==
  ASSUME NEW n \in Nat, NEW S \in SUBSET (1 .. n), S # {}
  PROVE  \E k \in S : \A j \in S : j <= k
<1> DEFINE T == {n - k : k \in S}
<1>1. T \subseteq Nat /\ T # {}
  <2>1. \A k \in S : n - k \in Nat
    OBVIOUS
  <2> QED
    BY <2>1
<1>2. PICK x \in T : \A y \in T : ~(<<y, x>> \in OpToRel(<, Nat))
  <2> HIDE DEF T
  <2> QED
    BY <1>1, NatLessThanWellFounded, WFMin
<1>3. \A y \in T : ~(y < x)
  BY <1>1, <1>2 DEF OpToRel
<1>4. PICK k \in S : x = n - k
  OBVIOUS
<1>5. ASSUME NEW j \in S PROVE j <= k
  <2>1. n - j \in T /\ j \in Int /\ k \in Int
    OBVIOUS
  <2>2. ~(n - j < n - k)
    BY <1>3, <1>4, <2>1
  <2> HIDE DEF T
  <2> QED
    BY <2>1, <2>2
<1> QED
  BY <1>5

\* A transfer changes nothing but the memory, wherever it lands.
LEMMA StoredFacts ==
  ASSUME NEW c \in Card, NEW a \in Nat, NEW d \in Seq(Bytes)
  PROVE  /\ Stored(c, a, d) \in Card
         /\ Stored(c, a, d).kind = c.kind /\ Stored(c, a, d).pin = c.pin
         /\ Stored(c, a, d).trials = c.trials /\ Stored(c, a, d).powered = c.powered
         /\ Stored(c, a, d).unlocked = c.unlocked
<1> DEFINE hits(i) == {k \in DOMAIN d : Lands(c, a, k) = i}
           m == [i \in Address |-> IF hits(i) = {} THEN c.mem[i]
                                   ELSE d[CHOOSE k \in hits(i) : \A j \in hits(i) : j <= k]]
<1>1. Stored(c, a, d) = [c EXCEPT !.mem = m]
  BY DEF Stored
<1>2. ASSUME NEW i \in Address
      PROVE  m[i] \in Bytes
  <2>1. CASE hits(i) = {}
    <3>1. c.mem[i] \in Bytes
      BY DEF Card
    <3> QED
      BY <2>1, <3>1
  <2>2. CASE hits(i) # {}
    <3> DEFINE H == hits(i)
    <3>1. H \in SUBSET (1 .. Len(d)) /\ Len(d) \in Nat /\ H # {}
      BY <2>2
    <3> HIDE DEF H
    <3>2. \E k \in H : \A j \in H : j <= k
      BY <3>1, LastHit
    <3>3. (CHOOSE k \in H : \A j \in H : j <= k) \in 1 .. Len(d)
      BY <3>1, <3>2
    <3>4. d[CHOOSE k \in H : \A j \in H : j <= k] \in Bytes
      BY <3>3
    <3> QED
      BY <2>2, <3>4 DEF H
  <2> QED
    BY <2>1, <2>2
<1>3. m \in [Address -> Bytes]
  <2>1. m = [i \in Address |-> m[i]]
    OBVIOUS
  <2> HIDE DEF m
  <2> QED
    BY <1>2, <2>1
<1> HIDE DEF m
<1> QED
  BY <1>1, <1>3 DEF Card

\* A write of the reader, whatever is left of it.
LEMMA WriteBufferFacts ==
  ASSUME NEW s \in States, s.ret = "OK", NEW a \in Nat, NEW d \in Seq(Bytes),
         NEW r \in WriteBuffer(s, a, d)
  PROVE  Quiet(s, r)
<1>0. ASSUME NEW x \in Transfers(s, a, d)
      PROVE  x[1] \in Nat /\ x[2] \in Seq(Bytes)
  <2>1. CASE s.icc.type = s.card.kind
    BY <2>1 DEF Transfers
  <2>2. CASE s.icc.type # s.card.kind
    <3> DEFINE e == SubSeq(d, 2, Len(d))
    <3>1. e \in Seq(Bytes)
      BY SubSeqProperties
    <3>2. PICK b \in Address : x = <<b, e>>
      BY <2>2 DEF Transfers
    <3> HIDE DEF e
    <3> QED
      BY <3>1, <3>2 DEF Address
  <2> QED
    BY <2>1, <2>2
<1> DEFINE After(x, n) == IF Accepts(s.card)
                          THEN [s EXCEPT !.card = Stored(@, x[1], SubSeq(x[2], 1, n))] ELSE s
<1>1. \/ \E x \in Transfers(s, a, d) : \E n \in 0 .. Len(x[2]) :
           r = After(x, n) \/ r = Failed(After(x, n))
      \/ r = [s EXCEPT !.lost = Least(@ + 1, 2)]
  <2>1. CASE r = [s EXCEPT !.lost = Least(@ + 1, 2)]
    BY <2>1
  <2>2. CASE r # [s EXCEPT !.lost = Least(@ + 1, 2)]
    <3>1. PICK x \in Transfers(s, a, d) : r \in Written(s, x)
      <4>1. r \notin Dropped(s)
        BY <2>2 DEF Dropped
      <4> QED
        BY <4>1 DEF WriteBuffer
    <3>2. Len(x[2]) \in 0 .. Len(x[2])
      BY <1>0, <3>1
    <3> QED
      BY <3>1, <3>2 DEF Written
  <2> QED
    BY <2>1, <2>2
<1>2. CASE r = [s EXCEPT !.lost = Least(@ + 1, 2)]
  <2>1. Least(s.lost + 1, 2) \in 0 .. 2
    BY FieldTypes DEF Least
  <2>2. r \in States /\ r.card = s.card /\ r.icc = s.icc /\ r.ret = s.ret /\ r.faulty = s.faulty
    BY <1>2, <2>1 DEF States
  <2> QED
    BY <2>2 DEF Quiet, Same, Asleep
<1>3. ASSUME NEW x \in Transfers(s, a, d), NEW n \in 0 .. Len(x[2]),
             r = After(x, n) \/ r = Failed(After(x, n))
      PROVE  Quiet(s, r)
  <2>1. x[1] \in Nat /\ x[2] \in Seq(Bytes)
    BY <1>0
  <2>2. SubSeq(x[2], 1, n) \in Seq(Bytes)
    BY <2>1, SubSeqProperties
  <2> DEFINE c == Stored(s.card, x[1], SubSeq(x[2], 1, n))
             t == After(x, n)
  <2>3. /\ c \in Card /\ c.kind = s.card.kind /\ c.pin = s.card.pin /\ c.trials = s.card.trials
        /\ c.powered = s.card.powered
    BY <2>1, <2>2, FieldTypes, StoredFacts
  <2>4. t = [s EXCEPT !.card = c] \/ t = s
    OBVIOUS
  <2> HIDE DEF c, After
  <2>5. /\ t \in States /\ t.icc = s.icc /\ t.ret = s.ret /\ t.faulty = s.faulty
        /\ t.card = c \/ t.card = s.card
    <3> HIDE DEF t
    <3>1. CASE t = s
      BY <3>1
    <3>2. CASE t = [s EXCEPT !.card = c]
      BY <2>3, <3>2, RecordFacts
    <3> QED
      BY <2>4, <3>1, <3>2
  <2> HIDE DEF t
  <2>6. /\ r \in States /\ r.icc = s.icc /\ r.card = t.card
        /\ r.ret = "OK" => r.faulty = s.faulty
        /\ r.ret # "OK" => r.faulty = TRUE
    BY <1>3, <2>5, FailedFacts DEF t
  <2> QED
    BY <2>3, <2>5, <2>6 DEF Quiet, Same, Asleep
<1> QED
  BY <1>1, <1>2, <1>3

\* A transfer that stays within a page and within the card.
Fits(c, a, d) == (a % CardPage(c)) + Len(d) <= CardPage(c) /\ a + Len(d) <= Size

\* A part of the bytes d has gone to the memory from address a on, and nothing else.
Partly(m, n, a, d) ==
  \A i \in Address : n[i] = m[i] \/ (i \in a .. a + Len(d) - 1 /\ n[i] = d[i - a + 1])

\* Small numbers are their own remainder.
LEMMA SmallMod ==
  ASSUME NEW m \in Nat \ {0}, NEW x \in 0 .. m - 1
  PROVE  x % m = x
OBVIOUS

\* Such a transfer puts every byte where it belongs.
LEMMA StoredAt ==
  ASSUME NEW c \in Card, NEW a \in Nat, NEW d \in Seq(Bytes), Fits(c, a, d), NEW i \in Address
  PROVE  Stored(c, a, d).mem[i] = IF i \in a .. a + Len(d) - 1 THEN d[i - a + 1] ELSE c.mem[i]
<1> DEFINE p == CardPage(c)
           hits == {k \in DOMAIN d : Lands(c, a, k) = i}
<1>1. p \in Nat \ {0} /\ Size \in Nat \ {0} /\ Len(d) \in Nat /\ DOMAIN d = 1 .. Len(d)
  BY PageAssumption, SizeAssumption DEF CardPage
<1>2. (a % p) + Len(d) <= p /\ a + Len(d) <= Size
  BY DEF Fits
<1>3. ASSUME NEW k \in 1 .. Len(d)
      PROVE  Lands(c, a, k) = a + k - 1
  <2> DEFINE o == a % p
             x == o + k - 1
  <2>1. Lands(c, a, k) = (a - o + (x % p)) % Size
    BY DEF Lands
  <2>2. o \in 0 .. p - 1
    BY <1>1
  <2> HIDE DEF p
  <2>3. x \in 0 .. p - 1
    BY <1>1, <1>2, <2>2
  <2>4. x % p = x
    BY <1>1, <2>3, SmallMod
  <2>5. a - o + x = a + k - 1 /\ a + k - 1 \in 0 .. Size - 1
    BY <1>1, <1>2, <2>2
  <2>6. (a + k - 1) % Size = a + k - 1
    BY <1>1, <2>5, SmallMod
  <2> QED
    BY <2>1, <2>4, <2>5, <2>6
<1>4. Stored(c, a, d).mem[i] =
        IF hits = {} THEN c.mem[i] ELSE d[CHOOSE k \in hits : \A j \in hits : j <= k]
  BY DEF Stored, Card
<1> HIDE DEF p
<1>5. i \in Int
  BY <1>1 DEF Address
<1>6. CASE i \in a .. a + Len(d) - 1
  <2> DEFINE x == i - a + 1
  <2>1. x \in 1 .. Len(d) /\ a + x - 1 = i
    BY <1>1, <1>6
  <2>2. x \in hits
    BY <1>1, <1>3, <2>1
  <2>3. \A k \in hits : k = x
    BY <1>1, <1>3, <2>1
  <2> HIDE DEF x, hits
  <2>4. \A j \in hits : j <= x
    BY <2>1, <2>3
  <2>5. (CHOOSE k \in hits : \A j \in hits : j <= k) = x
    BY <2>2, <2>3, <2>4
  <2> QED
    BY <1>4, <1>6, <2>2, <2>5 DEF x
<1>7. CASE i \notin a .. a + Len(d) - 1
  <2>1. \A k \in 1 .. Len(d) : a + k - 1 # i
    BY <1>1, <1>5, <1>7
  <2>2. hits = {}
    BY <1>1, <1>3, <2>1
  <2> QED
    BY <1>4, <1>7, <2>2
<1> QED
  BY <1>6, <1>7

\* A write of the reader changes the bytes it is for, all or some of them.
LEMMA WriteBufferStores ==
  ASSUME NEW s \in States, s.ret = "OK", NEW a \in Nat, NEW d \in Seq(Bytes),
         s.icc.type = s.card.kind, Fits(s.card, a, d), NEW r \in WriteBuffer(s, a, d)
  PROVE  Partly(s.card.mem, r.card.mem, a, d)
<1> DEFINE After(n) == IF Accepts(s.card)
                       THEN [s EXCEPT !.card = Stored(@, a, SubSeq(d, 1, n))] ELSE s
<1>0. Len(d) \in Nat /\ Len(d) \in 0 .. Len(d)
  OBVIOUS
<1>1. \/ \E n \in 0 .. Len(d) : r = After(n) \/ r = Failed(After(n))
      \/ r = [s EXCEPT !.lost = Least(@ + 1, 2)]
  <2>1. CASE r \in Dropped(s)
    BY <2>1 DEF Dropped
  <2>2. CASE r \notin Dropped(s)
    <3>1. r \in Written(s, <<a, d>>)
      BY <2>2 DEF WriteBuffer, Transfers
    <3>2. <<a, d>>[1] = a /\ <<a, d>>[2] = d
      OBVIOUS
    <3> QED
      BY <1>0, <3>1, <3>2 DEF Written
  <2> QED
    BY <2>1, <2>2
<1>2. CASE r = [s EXCEPT !.lost = Least(@ + 1, 2)]
  <2>1. r.card = s.card
    BY <1>2 DEF States
  <2> QED
    BY <2>1 DEF Partly
<1>3. ASSUME NEW n \in 0 .. Len(d), r = After(n) \/ r = Failed(After(n))
      PROVE  Partly(s.card.mem, r.card.mem, a, d)
  <2> DEFINE e == SubSeq(d, 1, n)
             c == Stored(s.card, a, e)
             t == After(n)
  <2>1. \A k \in 1 .. n : d[k] \in Bytes
    BY <1>0
  <2>2. /\ e \in Seq(Bytes)
        /\ Len(e) = n
        /\ \A k \in 1 .. n : e[k] = d[k]
    <3>1. CASE n = 0
      <4>1. e = <<>>
        BY <3>1, SubSeqProperties
      <4> QED
        BY <3>1, <4>1
    <3>2. CASE n # 0
      <4>1. 1 \in Int /\ n \in Int /\ 1 <= n /\ n - 1 + 1 = n
        BY <1>0, <3>2
      <4>2. SubSeq(d, 1, n) \in Seq(Bytes) /\ Len(SubSeq(d, 1, n)) = n
        BY <1>0, <2>1, <4>1, SubSeqProperties
      <4>3. \A k \in 1 .. n : SubSeq(d, 1, n)[k] = d[k]
        BY <1>0, <4>1
      <4> QED
        BY <4>2, <4>3
    <3> QED
      BY <3>1, <3>2
  <2> HIDE DEF e
  <2>3. s.card \in Card
    BY FieldTypes
  <2>4. Fits(s.card, a, e)
    <3>1. CardPage(s.card) \in Nat /\ a % CardPage(s.card) \in Nat /\ Size \in Nat
      BY PageAssumption, SizeAssumption DEF CardPage
    <3> QED
      BY <1>0, <2>2, <3>1 DEF Fits
  <2>5. Partly(s.card.mem, c.mem, a, d)
    <3>1. SUFFICES ASSUME NEW i \in Address
                   PROVE  c.mem[i] = s.card.mem[i]
                          \/ (i \in a .. a + Len(d) - 1 /\ c.mem[i] = d[i - a + 1])
      BY DEF Partly
    <3>2. c.mem[i] = IF i \in a .. a + Len(e) - 1 THEN e[i - a + 1] ELSE s.card.mem[i]
      BY <2>2, <2>3, <2>4, StoredAt
    <3>3. CASE i \in a .. a + Len(e) - 1
      <4>1. i - a + 1 \in 1 .. n /\ i \in a .. a + Len(d) - 1
        BY <1>0, <2>2, <3>3
      <4> QED
        BY <2>2, <3>2, <3>3, <4>1
    <3> QED
      BY <3>2, <3>3
  <2>6. c \in Card
    BY <2>2, <2>3, StoredFacts
  <2>7. t = [s EXCEPT !.card = c] \/ t = s
    BY DEF e
  <2> HIDE DEF c, After
  <2>8. t \in States /\ (t.card = c \/ t.card = s.card)
    <3> HIDE DEF t
    <3>1. CASE t = s
      BY <3>1
    <3>2. CASE t = [s EXCEPT !.card = c]
      BY <2>6, <3>2, RecordFacts
    <3> QED
      BY <2>7, <3>1, <3>2
  <2> HIDE DEF t
  <2>9. r.card = t.card
    BY <1>3, <2>8, FailedFacts DEF t
  <2> QED
    BY <2>5, <2>8, <2>9 DEF Partly
<1> QED
  BY <1>1, <1>2, <1>3

\* A write before it is read back: the card, the address, the bytes and the release.
Sent(s, a, d) ==
  Then(Then(Then(Reenter(s), SetWriteAddress), LAMBDA t : WriteBuffer(t, a, d)), Release)

\* It costs a trial only if an exchange failed, writes no byte but its own, and only a card of
\* three wires is still on after it.
LEMMA SentFacts ==
  ASSUME NEW s \in States, s.ret = "OK", Sound(s), ~s.faulty \/ s.icc.type \in I2C,
         NEW a \in Nat, NEW d \in Seq(Bytes), NEW r \in Sent(s, a, d)
  PROVE  /\ Fair(s, r)
         /\ r.ret = "OK" /\ s.icc.type # "3W" => ~r.icc.active
         /\ s.icc.type = s.card.kind /\ Fits(s.card, a, d) =>
              Partly(s.card.mem, r.card.mem, a, d)
<1> DEFINE S1 == Reenter(s)
           S2 == Then(S1, SetWriteAddress)
           S3 == Then(S2, LAMBDA t : WriteBuffer(t, a, d))
           Fine == s.icc.type = s.card.kind /\ Fits(s.card, a, d)
<1>1. r \in Then(S3, Release)
  BY DEF Sent
<1>2. ASSUME NEW t, NEW u, Fair(s, t), t.ret = "OK", Quiet(t, u)
      PROVE  Fair(s, u)
  <2>1. t \in States
    BY <1>2 DEF Fair
  <2>2. Fair(t, u)
    BY <1>2, <2>1, QuietFair
  <2> QED
    BY <1>2, <2>2, FairTwice
<1>3. ASSUME NEW t \in S2 PROVE Fair(s, t) /\ t.card.mem = s.card.mem
  <2>1. PICK u \in S1 : IF u.ret = "OK" THEN t \in Exchange(u, u.card) ELSE t = u
    BY DEF Then, SetWriteAddress
  <2>2. Fair(s, u) /\ u \in States /\ u.card.mem = s.card.mem
    BY ReenterFacts DEF Fair
  <2>3. u.ret = "OK" => Quiet(u, t) /\ t.card = u.card
    BY <2>1, <2>2, TalkQuiet
  <2> QED
    BY <1>2, <2>1, <2>2, <2>3
<1> HIDE DEF S2
<1>4. ASSUME NEW t \in S3
      PROVE  /\ Fair(s, t)
             /\ Fine => Partly(s.card.mem, t.card.mem, a, d)
  <2>1. PICK u \in S2 : IF u.ret = "OK" THEN t \in WriteBuffer(u, a, d) ELSE t = u
    BY DEF Then
  <2>2. Fair(s, u) /\ u \in States /\ u.card.mem = s.card.mem
    BY <1>3 DEF Fair
  <2>3. u.ret = "OK" => Quiet(u, t)
    BY <2>1, <2>2, WriteBufferFacts
  <2>4. Fair(s, t)
    BY <1>2, <2>1, <2>2, <2>3
  <2>5. ASSUME Fine PROVE Partly(s.card.mem, t.card.mem, a, d)
    <3>1. u.icc.type = u.card.kind /\ Fits(u.card, a, d)
      BY <2>2, <2>5 DEF Fair, Same, Fits, CardPage
    <3>2. CASE u.ret = "OK"
      BY <2>1, <2>2, <3>1, <3>2, WriteBufferStores
    <3>3. CASE u.ret # "OK"
      BY <2>1, <2>2, <3>3 DEF Partly
    <3> QED
      BY <3>2, <3>3
  <2> QED
    BY <2>4, <2>5
<1> HIDE DEF S3, Fine
<1>5. PICK u \in S3 : IF u.ret = "OK" THEN r \in Release(u) ELSE r = u
  BY <1>1 DEF Then
<1>6. /\ Fair(s, u) /\ u \in States /\ u.icc.type = s.icc.type
      /\ Fine => Partly(s.card.mem, u.card.mem, a, d)
  BY <1>4 DEF Fair, Same
<1>7. u.ret = "OK" => /\ Quiet(u, r) /\ r.card.mem = u.card.mem
                      /\ r.ret = "OK" /\ u.icc.type # "3W" => ~r.icc.active
  BY <1>5, <1>6, ReleaseFacts
<1>8. Fair(s, r)
  BY <1>2, <1>5, <1>6, <1>7
<1>9. r.card.mem = u.card.mem
  BY <1>5, <1>7
<1>10. r.ret = "OK" /\ s.icc.type # "3W" => ~r.icc.active
  BY <1>5, <1>6, <1>7
<1>11. Fine => Partly(s.card.mem, r.card.mem, a, d)
  BY <1>6, <1>9
<1> QED
  BY <1>8, <1>10, <1>11 DEF Fine

\* The body of the loop of ICC_Sync_Write costs a trial only if an exchange failed, writes no
\* byte but its own, and reads back what is in the card.
LEMMA WriteTryFacts ==
  ASSUME NEW s \in States, s.ret = "OK", Sound(s), ~s.faulty \/ s.icc.type \in I2C,
         NEW a \in Nat, NEW d \in Seq(Bytes), NEW r \in WriteTry(s, a, d)
  PROVE  /\ Fair(s, r)
         /\ s.icc.type = s.card.kind /\ Fits(s.card, a, d) =>
              /\ Partly(s.card.mem, r.card.mem, a, d)
              /\ r.ret = "OK" /\ (s.icc.type = "3W" => ~Asleep(s)) =>
                   r.data = Section(r.card.mem, a, Len(d))
<1> DEFINE S == Sent(s, a, d)
           n == Len(d)
           Fine == s.icc.type = s.card.kind /\ Fits(s.card, a, d)
<1>0. n \in Nat
  OBVIOUS
<1>1. PICK u \in S : IF u.ret = "OK" THEN r \in ICC_Sync_Read(u, a, n) ELSE r = u
  BY DEF WriteTry, Then, Sent
<1> HIDE DEF n
<1>2. /\ Fair(s, u)
      /\ u.ret = "OK" /\ s.icc.type # "3W" => ~u.icc.active
      /\ Fine => Partly(s.card.mem, u.card.mem, a, d)
  BY SentFacts
<1> HIDE DEF S, Fine
<1>3. u \in States /\ Same(s, u)
  BY <1>2 DEF Fair
<1>4. CASE u.ret # "OK"
  BY <1>1, <1>2, <1>4 DEF Fine
<1>5. CASE u.ret = "OK"
  <2>0. r \in ICC_Sync_Read(u, a, n)
    BY <1>1, <1>5
  <2>1. Quiet(u, r) /\ r.card.mem = u.card.mem
    BY <1>0, <1>3, <1>5, <2>0, ReadFacts
  <2>4. r.ret = "OK" /\ u.icc.type = u.card.kind /\ Answers(u) =>
          r.data = Section(u.card.mem, a, n)
    BY <1>0, <1>3, <1>5, <2>0, ReadFacts
  <2>2. Fair(s, r)
    BY <1>2, <1>3, <1>5, <2>1, QuietFair, FairTwice
  <2>3. ASSUME Fine, s.icc.type = "3W" => ~Asleep(s)
        PROVE  u.icc.type = u.card.kind /\ Answers(u)
    <3>1. u.icc.type = u.card.kind /\ u.icc.type = s.icc.type
      BY <1>3, <2>3 DEF Same, Fine
    <3>2. CASE s.icc.type = "3W"
      BY <1>3, <2>3, <3>1, <3>2 DEF Same, Answers
    <3>3. CASE s.icc.type # "3W"
      <4>1. ~u.icc.active
        BY <1>2, <1>5, <3>3
      <4> QED
        BY <3>1, <4>1 DEF Asleep, Answers
    <3> QED
      BY <3>1, <3>2, <3>3
  <2> QED
    BY <1>2, <2>1, <2>2, <2>3, <2>4 DEF Fine, n
<1> QED
  BY <1>4, <1>5

-----------------------------------------------------------------------------
(* A write that nothing disturbs. *)

\* Nothing has failed and no write was dropped.
Clean(s) == ~s.faulty /\ s.lost = 0

\* A function that leaves the memory as it was, unless something fails.
Kept(s, r) == Clean(r) => Clean(s) /\ r.card.mem = s.card.mem

\* One such function after the other.
LEMMA KeptTwice ==
  ASSUME NEW s, NEW t, NEW r, Kept(s, t), Kept(t, r)
  PROVE  Kept(s, r)
BY DEF Kept

\* A result that differs in nothing that matters for this.
LEMMA KeptSame ==
  ASSUME NEW s, NEW t, NEW r, Kept(s, t), r.card = t.card, r.faulty = t.faulty, r.lost = t.lost
  PROVE  Kept(s, r)
BY DEF Kept, Clean

\* The functions that write nothing are among them.
LEMMA QuietKept ==
  ASSUME NEW s \in States, NEW r, Quiet(s, r), r.card.mem = s.card.mem, r.lost = s.lost
  PROVE  Kept(s, r) /\ (Clean(r) => r.ret = "OK")
BY DEF Kept, Clean, Quiet

\* So are exchanges that have nothing to do with the memory.
LEMMA ExchangeKept ==
  ASSUME NEW s \in States, s.ret = "OK", NEW c \in Card, c.mem = s.card.mem,
         NEW r \in Exchange(s, c)
  PROVE  Kept(s, r)
<1>1. /\ r.ret = "OK" => r.card = c /\ r.faulty = s.faulty
      /\ r.ret # "OK" => r.faulty = TRUE
  BY ExchangeFacts
<1>2. r.lost = s.lost
  BY ExchangeKeeps
<1> QED
  BY <1>1, <1>2 DEF Kept, Clean

\* An I2C card is activated without a PIN.
LEMMA ReenterI2C ==
  ASSUME NEW s \in States, s.ret = "OK", s.icc.type \in I2C, NEW r \in Reenter(s)
  PROVE  Quiet(s, r) /\ r.card.mem = s.card.mem /\ r.lost = s.lost
<1>1. CASE s.icc.active
  <2>1. r = s
    BY <1>1 DEF Reenter
  <2> QED
    BY <2>1 DEF Quiet, Same
<1>2. CASE ~s.icc.active
  <2> DEFINE S == Activate(s)
  <2>1. PICK t \in S : IF t.ret = "OK"
                       THEN r \in IF t.icc.pin_ok /\ NeedsPin(t.icc)
                                  THEN ICC_Sync_EnterPin(t, t.icc.pin) ELSE {t}
                       ELSE r = t
    BY <1>2 DEF Reenter, Then
  <2>2. Quiet(s, t) /\ t.card.mem = s.card.mem /\ t.lost = s.lost
    BY ActivateFacts
  <2>3. ~NeedsPin(t.icc)
    BY <2>2 DEF Quiet, Same, NeedsPin, I2C, PinKinds
  <2> QED
    BY <2>1, <2>2, <2>3
<1> QED
  BY <1>1, <1>2

\* A byte that the card takes for a part of the address changes nothing.
LEMMA NothingStored ==
  ASSUME NEW c \in Card, NEW a
  PROVE  Stored(c, a, <<>>).mem = c.mem
<1>1. c.mem = [i \in Address |-> c.mem[i]]
  BY DEF Card
<1>2. Stored(c, a, <<>>).mem = [i \in Address |-> c.mem[i]]
  BY DEF Stored, Card
<1> QED
  BY <1>1, <1>2

\* The first byte of the memory is another one.
FirstByte(m, n, byte) == \A i \in Address : n[i] = IF i = 0 THEN byte ELSE m[i]

\* A byte that the reader writes without a failure, and that is not dropped, is in the card;
\* or nothing is, where the card takes it for a part of the address.
LEMMA WriteBufferClean ==
  ASSUME NEW s \in States, s.ret = "OK", s.icc.type \in I2C, NEW byte \in Bytes,
         NEW r \in WriteBuffer(s, 0, <<byte>>), Clean(r)
  PROVE  /\ Clean(s) /\ r.ret = "OK"
         /\ s.icc.type = s.card.kind => FirstByte(s.card.mem, r.card.mem, byte)
         /\ s.icc.type # s.card.kind => r.card.mem = s.card.mem
<1> DEFINE d == <<byte>>
<1>1. d \in Seq(Bytes) /\ Len(d) = 1 /\ d[1] = byte /\ SubSeq(d, 2, 1) = <<>>
  <2>1. d \in Seq(Bytes) /\ Len(d) = 1 /\ d[1] = byte
    OBVIOUS
  <2>2. SubSeq(d, 2, 1) = <<>>
    <3>1. 2 \in Int /\ 1 \in Int /\ 1 < 2
      OBVIOUS
    <3> HIDE DEF d
    <3> QED
      BY <3>1, SubSeqEmpty
  <2> QED
    BY <2>1, <2>2
<1>2. s.card \in Card /\ s.lost \in 0 .. 2 /\ s.faulty \in BOOLEAN
  BY FieldTypes
<1>3. r \notin Dropped(s)
  <2>1. SUFFICES ASSUME r = [s EXCEPT !.lost = Least(@ + 1, 2)] PROVE FALSE
    BY DEF Dropped
  <2>2. r.lost = Least(s.lost + 1, 2)
    BY <2>1 DEF States
  <2> QED
    BY <1>2, <2>2 DEF Clean, Least
<1>4. PICK x \in Transfers(s, 0, d) : r \in Written(s, x)
  BY <1>3 DEF WriteBuffer
<1> HIDE DEF d
<1>5. x[1] \in Nat /\ x[2] \in Seq(Bytes)
      /\ (s.icc.type = s.card.kind => x[1] = 0 /\ x[2] = d)
      /\ (s.icc.type # s.card.kind => x[2] = <<>>)
  <2>1. CASE s.icc.type = s.card.kind
    <3>1. x = <<0, d>>
      BY <2>1 DEF Transfers
    <3> QED
      BY <1>1, <2>1, <3>1
  <2>2. CASE s.icc.type # s.card.kind
    <3>1. PICK b \in Address : x = <<b, SubSeq(d, 2, 1)>>
      BY <1>1, <2>2 DEF Transfers
    <3>2. x = <<b, <<>>>>
      BY <1>1, <3>1
    <3> QED
      BY <2>2, <3>2 DEF Address
  <2> QED
    BY <2>1, <2>2
<1> DEFINE After(n) == IF Accepts(s.card)
                       THEN [s EXCEPT !.card = Stored(@, x[1], SubSeq(x[2], 1, n))] ELSE s
           m == Len(x[2])
<1>6. r = After(m) \/ \E n \in 0 .. m : r = Failed(After(n))
  BY <1>4 DEF Written
<1>7. m \in Nat /\ SubSeq(x[2], 1, m) = x[2]
  BY <1>5
<1>8. ASSUME NEW n \in 0 .. m
      PROVE  /\ After(n) \in States /\ After(n).ret = "OK"
             /\ After(n).faulty = s.faulty /\ After(n).lost = s.lost
             /\ After(n).card = IF Accepts(s.card) THEN Stored(s.card, x[1], SubSeq(x[2], 1, n))
                                ELSE s.card
  <2> DEFINE c == Stored(s.card, x[1], SubSeq(x[2], 1, n))
  <2>1. SubSeq(x[2], 1, n) \in Seq(Bytes)
    BY <1>5, <1>7, SubSeqProperties
  <2>2. c \in Card
    BY <1>2, <1>5, <2>1, StoredFacts
  <2>3. CASE Accepts(s.card)
    <3>1. After(n) = [s EXCEPT !.card = c]
      BY <2>3
    <3> HIDE DEF c, After
    <3>2. /\ After(n) \in States /\ After(n).ret = "OK"
          /\ After(n).faulty = s.faulty /\ After(n).lost = s.lost /\ After(n).card = c
      BY <2>2, <3>1, RecordFacts
    <3> QED
      BY <2>3, <3>2 DEF c
  <2>4. CASE ~Accepts(s.card)
    BY <2>4
  <2> QED
    BY <2>3, <2>4
<1> HIDE DEF After
<1>9. r = After(m)
  <2>1. ASSUME NEW n \in 0 .. m, r = Failed(After(n)) PROVE FALSE
    <3> DEFINE t == After(n)
    <3>1. t \in States /\ r = Failed(t)
      BY <1>8, <2>1
    <3> HIDE DEF t
    <3> QED
      BY <3>1, FailedFacts DEF Clean
  <2> QED
    BY <1>6, <2>1
<1>10. /\ r.ret = "OK" /\ r.faulty = s.faulty /\ r.lost = s.lost
       /\ r.card = IF Accepts(s.card) THEN Stored(s.card, x[1], x[2]) ELSE s.card
  <2>1. m \in 0 .. m
    BY <1>7
  <2> QED
    BY <1>7, <1>8, <1>9, <2>1
<1>11. Clean(s) /\ r.ret = "OK"
  BY <1>10 DEF Clean
<1>12. CASE s.icc.type = s.card.kind
  <2>1. Accepts(s.card)
    BY <1>12 DEF Accepts, Served
  <2>2. r.card = Stored(s.card, 0, d)
    BY <1>5, <1>10, <1>12, <2>1
  <2>3. Fits(s.card, 0, d)
    <3>1. CardPage(s.card) \in Nat \ {0} /\ Size \in Nat \ {0}
      BY PageAssumption, SizeAssumption DEF CardPage
    <3>2. 0 % CardPage(s.card) = 0
      BY <3>1, SmallMod
    <3> QED
      BY <1>1, <3>1, <3>2 DEF Fits
  <2>4. ASSUME NEW i \in Address
        PROVE  r.card.mem[i] = IF i = 0 THEN byte ELSE s.card.mem[i]
    <3> DEFINE z == 0
    <3>1. z \in Nat /\ Fits(s.card, z, d) /\ r.card = Stored(s.card, z, d)
      BY <2>2, <2>3
    <3> HIDE DEF z
    <3>2. r.card.mem[i] = IF i \in z .. z + Len(d) - 1 THEN d[i - z + 1] ELSE s.card.mem[i]
      <4> DEFINE c == s.card
      <4>1. c \in Card /\ d \in Seq(Bytes) /\ Fits(c, z, d)
        BY <1>1, <1>2, <3>1
      <4> HIDE DEF c
      <4>2. Stored(c, z, d).mem[i] = IF i \in z .. z + Len(d) - 1 THEN d[i - z + 1] ELSE c.mem[i]
        BY <3>1, <4>1, StoredAt
      <4> QED
        BY <3>1, <4>2 DEF c
    <3>3. i \in Int
      BY SizeAssumption DEF Address
    <3>4. CASE i = z
      <4>1. i \in z .. z + Len(d) - 1 /\ i - z + 1 = 1
        BY <1>1, <3>1, <3>4
      <4> QED
        BY <1>1, <3>2, <3>4, <4>1 DEF z
    <3>5. CASE i # z
      <4>1. i \notin z .. z + Len(d) - 1
        BY <1>1, <3>1, <3>3, <3>5
      <4> QED
        BY <3>2, <3>5, <4>1 DEF z
    <3> QED
      BY <3>4, <3>5
  <2> QED
    BY <1>11, <1>12, <2>4 DEF FirstByte
<1>13. CASE s.icc.type # s.card.kind
  <2>1. r.card.mem = s.card.mem
    BY <1>2, <1>5, <1>10, <1>13, NothingStored
  <2> QED
    BY <1>11, <1>13, <2>1
<1> QED
  BY <1>12, <1>13

\* The body of the loop in ICC_Sync_Write for one byte, when nothing is in the way.
LEMMA WriteTryClean ==
  ASSUME NEW s \in States, s.ret = "OK", s.icc.type \in I2C, NEW byte \in Bytes,
         NEW r \in WriteTry(s, 0, <<byte>>), Clean(r)
  PROVE  /\ Clean(s) /\ r.ret = "OK"
         /\ s.icc.type = s.card.kind => FirstByte(s.card.mem, r.card.mem, byte) /\ r.data = <<byte>>
         /\ s.icc.type # s.card.kind => r.card.mem = s.card.mem
<1> DEFINE d == <<byte>>
           S1 == Reenter(s)
           S2 == Then(S1, SetWriteAddress)
           S3 == Then(S2, LAMBDA t : WriteBuffer(t, 0, d))
           S4 == Then(S3, Release)
           Wrote(t) == /\ s.icc.type = s.card.kind => FirstByte(s.card.mem, t.card.mem, byte)
                       /\ s.icc.type # s.card.kind => t.card.mem = s.card.mem
<1>0. d \in Seq(Bytes) /\ Len(d) = 1 /\ 0 \in Nat /\ 1 \in Nat
  OBVIOUS
<1>1. r \in Then(S4, LAMBDA t : ICC_Sync_Read(t, 0, 1))
  BY <1>0 DEF WriteTry
<1>2. ASSUME NEW t \in S2
      PROVE  Quiet(s, t) /\ t.card.mem = s.card.mem /\ t.lost = s.lost
  <2>1. PICK u \in S1 : IF u.ret = "OK" THEN t \in Exchange(u, u.card) ELSE t = u
    BY DEF Then, SetWriteAddress
  <2>2. Quiet(s, u) /\ u.card.mem = s.card.mem /\ u.lost = s.lost /\ u \in States
    BY ReenterI2C DEF Quiet
  <2> HIDE DEF S1
  <2>3. CASE u.ret = "OK"
    <3>1. Quiet(u, t) /\ t.card = u.card /\ t.lost = u.lost
      BY <2>1, <2>2, <2>3, TalkQuiet
    <3> QED
      BY <2>2, <2>3, <3>1, QuietTwice
  <2> QED
    BY <2>1, <2>2, <2>3
<1> HIDE DEF S2
<1>3. ASSUME NEW t \in S3
      PROVE  Quiet(s, t) /\ (Clean(t) => Clean(s) /\ Wrote(t))
  <2>1. PICK u \in S2 : IF u.ret = "OK" THEN t \in WriteBuffer(u, 0, d) ELSE t = u
    BY DEF Then
  <2>2. /\ Quiet(s, u) /\ u.card.mem = s.card.mem /\ u \in States
        /\ u.icc.type = s.icc.type /\ u.card.kind = s.card.kind
    BY <1>2 DEF Quiet, Same
  <2>3. Clean(u) => Clean(s) /\ u.ret = "OK"
    BY <1>2, QuietKept DEF Kept
  <2>4. CASE u.ret # "OK"
    BY <2>1, <2>2, <2>3, <2>4
  <2>5. CASE u.ret = "OK"
    <3>1. t \in WriteBuffer(u, 0, d)
      BY <2>1, <2>5
    <3>2. Quiet(s, t)
      <4>1. Quiet(u, t)
        BY <1>0, <2>2, <2>5, <3>1, WriteBufferFacts
      <4> QED
        BY <2>2, <2>5, <4>1, QuietTwice
    <3>3. ASSUME Clean(t) PROVE Clean(s) /\ Wrote(t)
      <4>1. /\ Clean(u)
            /\ u.icc.type = u.card.kind => FirstByte(u.card.mem, t.card.mem, byte)
            /\ u.icc.type # u.card.kind => t.card.mem = u.card.mem
        BY <2>2, <2>5, <3>1, <3>3, WriteBufferClean
      <4> QED
        BY <2>2, <2>3, <4>1
    <3> QED
      BY <3>2, <3>3
  <2> QED
    BY <2>4, <2>5
<1> HIDE DEF S3
<1>4. PICK u \in S4 : IF u.ret = "OK" THEN r \in ICC_Sync_Read(u, 0, 1) ELSE r = u
  BY <1>1 DEF Then
<1>5. /\ Quiet(s, u) /\ u \in States
      /\ Clean(u) => Clean(s) /\ Wrote(u)
      /\ u.ret = "OK" => ~u.icc.active
  <2>1. PICK v \in S3 : IF v.ret = "OK" THEN u \in Release(v) ELSE u = v
    BY DEF Then
  <2>2. /\ Quiet(s, v) /\ v \in States /\ (Clean(v) => Clean(s) /\ Wrote(v))
        /\ v.icc.type \in I2C
    BY <1>3 DEF Quiet, Same
  <2>3. CASE v.ret # "OK"
    BY <2>1, <2>2, <2>3
  <2>4. CASE v.ret = "OK"
    <3>1. /\ Quiet(v, u) /\ u.card.mem = v.card.mem /\ u.lost = v.lost
          /\ u.ret = "OK" /\ v.icc.type # "3W" => ~u.icc.active
      BY <2>1, <2>2, <2>4, ReleaseFacts
    <3>2. v.icc.type # "3W"
      BY <2>2 DEF I2C
    <3>3. Kept(v, u) /\ Quiet(s, u) /\ u \in States
      BY <2>2, <2>4, <3>1, QuietKept, QuietTwice DEF Quiet
    <3>4. Clean(u) => Clean(s) /\ Wrote(u)
      BY <2>2, <3>1, <3>3 DEF Kept
    <3> QED
      BY <3>1, <3>2, <3>3, <3>4
  <2> QED
    BY <2>3, <2>4
<1> HIDE DEF S4, Wrote
<1>6. Clean(u) => u.ret = "OK"
  BY <1>5 DEF Quiet, Clean
<1>7. u.ret = "OK"
  BY <1>4, <1>6
<1>8. /\ Quiet(u, r) /\ r.card.mem = u.card.mem /\ r.lost = u.lost
      /\ r.ret = "OK" /\ u.icc.type = u.card.kind /\ Answers(u) =>
           r.data = Section(u.card.mem, 0, 1)
  BY <1>0, <1>4, <1>5, <1>7, ReadFacts
<1>9. Clean(u) /\ r.ret = "OK"
  BY <1>5, <1>8, QuietKept DEF Kept
<1>10. Clean(s) /\ Wrote(r)
  BY <1>5, <1>8, <1>9 DEF Wrote
<1>11. ASSUME s.icc.type = s.card.kind PROVE r.data = <<byte>>
  <2>1. u.icc.type = u.card.kind /\ Answers(u)
    BY <1>5, <1>7, <1>11 DEF Quiet, Same, Answers, Asleep
  <2>2. r.data = [k \in 1 .. 1 |-> u.card.mem[(0 + k - 1) % Size]]
    BY <1>8, <1>9, <2>1 DEF Section
  <2>3. u.card.mem[0] = byte
    <3>1. 0 \in Address
      BY SizeAssumption DEF Address
    <3> QED
      BY <1>5, <1>9, <1>11, <3>1 DEF Wrote, FirstByte
  <2>4. 0 % Size = 0
    BY SizeAssumption, SmallMod
  <2>5. \A k \in 1 .. 1 : u.card.mem[(0 + k - 1) % Size] = byte
    BY <2>3, <2>4
  <2>6. r.data = [k \in 1 .. 1 |-> byte]
    BY <2>2, <2>5
  <2> QED
    BY <2>6
<1> QED
  BY <1>9, <1>10, <1>11 DEF Wrote

-----------------------------------------------------------------------------
(* The probes. *)

\* A probe keeps the kind of the card, and takes it for an I2C card.
Probed(s, r) == r \in States /\ r.card.kind = s.card.kind /\ r.icc.type \in I2C

\* A caller that does not look at the result.
LEMMA IgnoreFacts ==
  ASSUME NEW r \in States
  PROVE  LET t == [r EXCEPT !.ret = "OK"]
         IN /\ t \in States /\ t.card = r.card /\ t.icc = r.icc /\ t.ret = "OK"
            /\ t.data = r.data /\ t.faulty = r.faulty /\ t.lost = r.lost
BY DEF States, Results

\* An exchange that leaves the card its kind.
LEMMA ExchangeProbed ==
  ASSUME NEW s \in States, s.ret = "OK", s.icc.type \in I2C,
         NEW c \in Card, c.kind = s.card.kind, NEW r \in Exchange(s, c)
  PROVE  Probed(s, r)
<1>1. r \in States /\ (r.card = c \/ r.card = s.card)
  BY ExchangeFacts, ZenonT(40)
<1>2. r.icc = s.icc
  BY ExchangeKeeps
<1> QED
  BY <1>1, <1>2 DEF Probed

\* The write of a byte in a probe.
LEMMA WriteByteFacts ==
  ASSUME NEW s \in States, s.ret = "OK", s.icc.type \in I2C, NEW byte \in Bytes,
         NEW r \in WriteByte(s, byte)
  PROVE  Probed(s, r)
<1>1. PICK t \in WriteTry(s, 0, <<byte>>) : r = t \/ r = [t EXCEPT !.ret = "RO_ERROR"]
  BY DEF WriteByte
<1>2. <<byte>> \in Seq(Bytes) /\ Sound(s)
  BY DEF Sound, I2C, PinKinds
<1>3. Fair(s, t)
  BY <1>1, <1>2, WriteTryFacts
<1>4. t \in States /\ t.card.kind = s.card.kind /\ t.icc.type = s.icc.type
  BY <1>3 DEF Fair, Same
<1>5. CASE r = t
  BY <1>4, <1>5 DEF Probed
<1>6. CASE r = [t EXCEPT !.ret = "RO_ERROR"]
  <2>1. r \in States /\ r.card = t.card /\ r.icc = t.icc
    BY <1>4, <1>6 DEF States, Results
  <2> QED
    BY <1>4, <2>1 DEF Probed
<1> QED
  BY <1>1, <1>5, <1>6

\* It leaves the type alone.
LEMMA WriteByteType ==
  ASSUME NEW s \in States, s.ret = "OK", s.icc.type \in I2C, NEW byte \in Bytes,
         NEW r \in WriteByte(s, byte)
  PROVE  r.icc.type = s.icc.type
<1>1. PICK t \in WriteTry(s, 0, <<byte>>) : r = t \/ r = [t EXCEPT !.ret = "RO_ERROR"]
  BY DEF WriteByte
<1>2. <<byte>> \in Seq(Bytes) /\ Sound(s)
  BY DEF Sound, I2C, PinKinds
<1>3. Fair(s, t)
  BY <1>1, <1>2, WriteTryFacts
<1>4. t \in States /\ t.icc.type = s.icc.type
  BY <1>3 DEF Fair, Same
<1> QED
  BY <1>1, <1>4 DEF States

\* A byte that is written without a disturbance.
LEMMA WriteByteClean ==
  ASSUME NEW s \in States, s.ret = "OK", s.icc.type \in I2C, NEW byte \in Bytes,
         NEW r \in WriteByte(s, byte), Clean(r)
  PROVE  /\ Clean(s)
         /\ s.icc.type = s.card.kind => FirstByte(s.card.mem, r.card.mem, byte) /\ r.ret = "OK"
         /\ s.icc.type # s.card.kind => r.card.mem = s.card.mem
<1>1. PICK t \in WriteTry(s, 0, <<byte>>) :
        r = IF t.ret = "OK" /\ t.data # <<byte>> THEN [t EXCEPT !.ret = "RO_ERROR"] ELSE t
  BY DEF WriteByte
<1>2. t \in States
  <2>1. <<byte>> \in Seq(Bytes) /\ Sound(s) /\ 0 \in Nat
    BY DEF Sound, I2C, PinKinds
  <2> QED
    BY <1>1, <2>1, WriteTryFacts DEF Fair
<1>3. r.card = t.card /\ r.faulty = t.faulty /\ r.lost = t.lost
  BY <1>1, <1>2 DEF States
<1>4. Clean(t)
  BY <1>3 DEF Clean
<1>5. /\ Clean(s) /\ t.ret = "OK"
      /\ s.icc.type = s.card.kind => FirstByte(s.card.mem, t.card.mem, byte) /\ t.data = <<byte>>
      /\ s.icc.type # s.card.kind => t.card.mem = s.card.mem
  BY <1>1, <1>4, WriteTryClean
<1> QED
  BY <1>1, <1>3, <1>5

\* The first byte is changed and set back.
LEMMA SetBackFacts ==
  ASSUME NEW m \in [Address -> Bytes], NEW n, NEW l \in [Address -> Bytes], NEW byte,
         FirstByte(m, n, byte), FirstByte(n, l, m[0])
  PROVE  l = m
<1>1. \A i \in Address : l[i] = m[i]
  BY DEF FirstByte
<1> QED
  BY <1>1

\* ProbeShort, whatever fails in it.
LEMMA ProbeShortFacts ==
  ASSUME NEW s \in States, s.ret = "OK", s.icc.type \in I2C, NEW r \in ProbeShort(s)
  PROVE  Probed(s, r) /\ Kept(s, r)
<1>0. PICK u \in ICC_Sync_Read(s, 0, 1) : \E orig \in Originals(u) : r \in TryByte(u, orig)
  BY DEF ProbeShort
<1>1. PICK orig \in Originals(u) : r \in TryByte(u, orig)
  BY <1>0
<1>12. PICK t \in WriteByte([u EXCEPT !.ret = "OK"], Changed(orig)) : r \in SetBack(t, orig)
  BY <1>1 DEF TryByte
<1>2. /\ Quiet(s, u) /\ u \in States /\ (u.ret = "OK" => u.data \in [1 .. 1 -> Bytes])
      /\ u.card.mem = s.card.mem /\ u.lost = s.lost
  <2> DEFINE z == 0
             e == 1
  <2>1. z \in Nat /\ e \in Nat /\ u \in ICC_Sync_Read(s, z, e)
    BY <1>0
  <2> HIDE DEF z, e
  <2>2. Quiet(s, u) /\ u.card.mem = s.card.mem /\ u.lost = s.lost
    BY <2>1, ReadFacts
  <2>3. u.ret = "OK" => u.data \in [1 .. e -> Bytes]
    BY <2>1, ReadFacts
  <2> QED
    BY <2>2, <2>3 DEF Quiet, e
<1>3. orig \in Bytes
  BY <1>1, <1>2 DEF Originals
<1>4. Changed(orig) \in Bytes
  BY BytesAssumption, <1>3 DEF Changed
<1> DEFINE v == [u EXCEPT !.ret = "OK"]
<1>5. /\ v \in States /\ v.card = u.card /\ v.icc = u.icc /\ v.ret = "OK"
      /\ v.faulty = u.faulty /\ v.lost = u.lost
  BY <1>2, IgnoreFacts
<1>6. u.card.kind = s.card.kind /\ u.icc.type = s.icc.type
  BY <1>2 DEF Quiet, Same
<1>7. t \in WriteByte(v, Changed(orig))
  BY <1>12
<1> HIDE DEF v
<1>8. Probed(v, t)
  BY <1>4, <1>5, <1>6, <1>7, WriteByteFacts
<1>9. t \in States /\ t.card.kind = s.card.kind /\ t.icc.type \in I2C
  BY <1>5, <1>6, <1>8 DEF Probed
<1>13. ASSUME Clean(t)
       PROVE  /\ Clean(s) /\ u.ret = "OK"
              /\ s.icc.type = s.card.kind =>
                   FirstByte(s.card.mem, t.card.mem, Changed(orig)) /\ t.ret = "OK"
              /\ s.icc.type # s.card.kind => t.card.mem = s.card.mem
  <2>1. /\ Clean(v)
        /\ v.icc.type = v.card.kind =>
             FirstByte(v.card.mem, t.card.mem, Changed(orig)) /\ t.ret = "OK"
        /\ v.icc.type # v.card.kind => t.card.mem = v.card.mem
    BY <1>4, <1>5, <1>6, <1>7, <1>13, WriteByteClean
  <2>2. Clean(u)
    BY <1>5, <2>1 DEF Clean
  <2>3. Clean(s) /\ u.ret = "OK"
    BY <1>2, <2>2, QuietKept DEF Kept
  <2> QED
    BY <1>2, <1>5, <1>6, <2>1, <2>3
<1>14. ASSUME u.ret = "OK", s.icc.type = s.card.kind
       PROVE  orig = s.card.mem[0]
  <2>1. orig = u.data[1]
    BY <1>1, <1>14 DEF Originals
  <2>2. 0 \in Nat /\ 1 \in Nat /\ Answers(s)
    BY <1>14 DEF Answers
  <2>3. u.data = Section(s.card.mem, 0, 1)
    BY <1>0, <1>14, <2>2, ReadFacts
  <2>4. u.data[1] = s.card.mem[(0 + 1 - 1) % Size]
    BY <2>3 DEF Section
  <2>5. (0 + 1 - 1) % Size = 0
    BY SizeAssumption, SmallMod
  <2> QED
    BY <2>1, <2>4, <2>5
<1>10. CASE t.ret = "OK"
  <2>1. PICK w \in WriteByte(t, orig) : r = [w EXCEPT !.ret = "OK"]
    BY <1>10, <1>12 DEF SetBack, Ignore
  <2>2. Probed(t, w)
    BY <1>3, <1>9, <1>10, <2>1, WriteByteFacts
  <2>3. w \in States /\ w.card.kind = s.card.kind /\ w.icc.type \in I2C
    BY <1>9, <2>2 DEF Probed
  <2>4. r \in States /\ r.card = w.card /\ r.icc = w.icc
    BY <2>1, <2>3, IgnoreFacts
  <2>5. ASSUME Clean(r) PROVE Clean(s) /\ r.card.mem = s.card.mem
    <3>1. Clean(w)
      <4>1. r.faulty = w.faulty /\ r.lost = w.lost
        BY <2>1, <2>3, IgnoreFacts
      <4> QED
        BY <2>5, <4>1 DEF Clean
    <3>2. /\ Clean(t)
          /\ t.icc.type = t.card.kind => FirstByte(t.card.mem, w.card.mem, orig)
          /\ t.icc.type # t.card.kind => w.card.mem = t.card.mem
      BY <1>3, <1>9, <1>10, <2>1, <3>1, WriteByteClean
    <3>3. t.icc.type = s.icc.type
      BY <1>4, <1>5, <1>6, <1>7, WriteByteType
    <3>4. CASE s.icc.type = s.card.kind
      <4>1. FirstByte(s.card.mem, t.card.mem, Changed(orig)) /\ Clean(s) /\ orig = s.card.mem[0]
        BY <1>13, <1>14, <3>2, <3>4
      <4>2. FirstByte(t.card.mem, w.card.mem, s.card.mem[0])
        BY <1>9, <3>2, <3>3, <3>4, <4>1
      <4>3. s.card.mem \in [Address -> Bytes] /\ w.card.mem \in [Address -> Bytes]
        BY <2>3, FieldTypes DEF Card
      <4> QED
        BY <2>4, <4>1, <4>2, <4>3, SetBackFacts
    <3>5. CASE s.icc.type # s.card.kind
      BY <1>9, <1>13, <2>4, <3>2, <3>3, <3>5
    <3> QED
      BY <3>4, <3>5
  <2> QED
    BY <2>3, <2>4, <2>5 DEF Probed, Kept
<1>11. CASE t.ret # "OK"
  <2> DEFINE i == [t.icc EXCEPT !.type = "I2C_LONG"]
  <2>1. r = [t EXCEPT !.icc = i, !.ret = "OK"]
    BY <1>11, <1>12 DEF SetBack
  <2>2. i \in Icc /\ i.type \in I2C
    BY <1>9, FieldTypes DEF Icc, Kinds, I2C, PinKinds
  <2> HIDE DEF i
  <2>3. r \in States /\ r.card = t.card /\ r.icc = i
    BY <1>9, <2>1, <2>2 DEF States, Results
  <2>4. r.faulty = t.faulty /\ r.lost = t.lost
    BY <1>9, <2>1 DEF States
  <2>5. Clean(r) => Clean(s) /\ r.card.mem = s.card.mem
    <3>1. Clean(r) => Clean(t)
      BY <2>4 DEF Clean
    <3> QED
      BY <1>11, <1>13, <2>3, <3>1
  <2> QED
    BY <1>9, <2>2, <2>3, <2>5 DEF Probed, Kept
<1> QED
  BY <1>10, <1>11

\* The probe for I2C cards. The status of the reader is not looked at.
LEMMA ProbeI2CFacts ==
  ASSUME NEW s \in States, s.ret = "OK", s.icc.type \in I2C, NEW r \in ProbeI2C(s)
  PROVE  Probed(s, r) /\ Kept(s, r)
<1>1. PICK p \in ProbeStatus(s) :
        r \in IF p.bit THEN Then(ProbeShort(p.s), LAMBDA t : Ignore(Exchange(t, PowerOn(t.card))))
              ELSE {[p.s EXCEPT !.ret = "DETECT_ERROR"]}
  BY DEF ProbeI2C
<1>2. p.s \in Ignore(Exchange(s, PowerOff(s.card)))
  BY <1>1 DEF ProbeStatus
<1> DEFINE u == p.s
<1>3. /\ u \in States /\ u.card.kind = s.card.kind /\ u.icc.type \in I2C /\ u.ret = "OK"
      /\ Kept(s, u)
  <2>1. PICK v \in Exchange(s, PowerOff(s.card)) : u = [v EXCEPT !.ret = "OK"]
    BY <1>2 DEF Ignore
  <2>2. /\ PowerOff(s.card) \in Card /\ PowerOff(s.card).kind = s.card.kind
        /\ PowerOff(s.card).mem = s.card.mem
    BY FieldTypes, PowerFacts
  <2>3. Probed(s, v)
    BY <2>1, <2>2, ExchangeProbed
  <2>5. Kept(s, v)
    BY <2>1, <2>2, ExchangeKept
  <2> HIDE DEF u
  <2>4. /\ u \in States /\ u.card = v.card /\ u.icc = v.icc /\ u.ret = "OK"
        /\ u.faulty = v.faulty /\ u.lost = v.lost
    BY <2>1, <2>3, IgnoreFacts DEF Probed
  <2>6. Kept(s, u)
    BY <2>4, <2>5, KeptSame
  <2> QED
    BY <2>3, <2>4, <2>6 DEF Probed
<1>4. \/ r = [u EXCEPT !.ret = "DETECT_ERROR"]
      \/ r \in Then(ProbeShort(u), LAMBDA t : Ignore(Exchange(t, PowerOn(t.card))))
  BY <1>1
<1> HIDE DEF u
<1>5. CASE r = [u EXCEPT !.ret = "DETECT_ERROR"]
  <2>1. /\ r \in States /\ r.card = u.card /\ r.icc = u.icc
        /\ r.faulty = u.faulty /\ r.lost = u.lost
    BY <1>3, <1>5 DEF States, Results
  <2>2. Kept(s, r)
    BY <1>3, <2>1, KeptSame
  <2> QED
    BY <1>3, <2>1, <2>2 DEF Probed
<1>6. CASE r \in Then(ProbeShort(u), LAMBDA t : Ignore(Exchange(t, PowerOn(t.card))))
  <2> DEFINE S == ProbeShort(u)
  <2>1. PICK t \in S : IF t.ret = "OK" THEN r \in Ignore(Exchange(t, PowerOn(t.card))) ELSE r = t
    BY <1>6 DEF Then
  <2>2. Probed(u, t) /\ Kept(u, t)
    BY <1>3, <2>1, ProbeShortFacts
  <2> HIDE DEF S
  <2>6. Kept(s, t)
    BY <1>3, <2>2, KeptTwice
  <2>3. t \in States /\ t.card.kind = s.card.kind /\ t.icc.type \in I2C
    BY <1>3, <2>2 DEF Probed
  <2>4. CASE t.ret # "OK"
    BY <2>1, <2>3, <2>4, <2>6 DEF Probed
  <2>5. CASE t.ret = "OK"
    <3>1. PICK v \in Exchange(t, PowerOn(t.card)) : r = [v EXCEPT !.ret = "OK"]
      BY <2>1, <2>5 DEF Ignore
    <3>2. /\ PowerOn(t.card) \in Card /\ PowerOn(t.card).kind = t.card.kind
          /\ PowerOn(t.card).mem = t.card.mem
      BY <2>3, FieldTypes, PowerFacts
    <3>5. Kept(t, v)
      BY <2>3, <2>5, <3>1, <3>2, ExchangeKept
    <3>3. Probed(t, v)
      BY <2>3, <2>5, <3>1, <3>2, ExchangeProbed
    <3>4. /\ r \in States /\ r.card = v.card /\ r.icc = v.icc
          /\ r.faulty = v.faulty /\ r.lost = v.lost
      BY <3>1, <3>3, IgnoreFacts DEF Probed
    <3>6. Kept(s, r)
      BY <2>6, <3>4, <3>5, KeptTwice, KeptSame
    <3> QED
      BY <2>3, <3>3, <3>4, <3>6 DEF Probed
  <2> QED
    BY <2>4, <2>5
<1> QED
  BY <1>4, <1>5, <1>6

\* How far the initialisation has come: a card with a PIN is known for what it is, keeps
\* its trials, and nothing about it is in doubt; any other is taken for an I2C card.
Begins(s, t) ==
  /\ t \in States /\ t.card.kind = s.card.kind
  /\ s.card.kind \in PinKinds =>
       /\ t.card.pin = s.card.pin /\ t.card.trials = s.card.trials
       /\ t.ret = "OK" => t.icc.type = s.card.kind /\ ~Doubt(t)
  /\ s.card.kind \notin PinKinds => t.icc.type \in I2C

\* A step that has nothing to do with the PIN.
LEMMA QuietBegins ==
  ASSUME NEW s, NEW t, NEW r, Begins(s, t), t.ret = "OK", Quiet(t, r)
  PROVE  Begins(s, r)
<1>1. r.ret = "OK" /\ Doubt(r) => Doubt(t)
  BY DEF Quiet, Doubt
<1> QED
  BY <1>1 DEF Begins, Quiet, Same

\* The object as the probe for a type begins it.
LEMMA BeganFacts ==
  ASSUME NEW s \in States, NEW k \in Kinds \ {"OTHER"}
  PROVE  /\ Began(s, k) \in States /\ Began(s, k).card = s.card /\ Began(s, k).ret = s.ret
         /\ Began(s, k).faulty = s.faulty /\ Began(s, k).lost = s.lost
         /\ Began(s, k).icc.type = k /\ ~Began(s, k).icc.pin_ok
<1> DEFINE i == [Cleared EXCEPT !.type = k, !.active = TRUE, !.pin_needed = TRUE]
<1>1. i \in Icc /\ i.type = k /\ ~i.pin_ok
  BY DEF Icc, Cleared
<1>2. Began(s, k) = [s EXCEPT !.icc = i]
  BY DEF Began
<1> HIDE DEF i
<1> QED
  BY <1>1, <1>2 DEF States

\* ICC_Sync_ProbeCardType on a card that is on.
LEMMA CardTypeFacts ==
  ASSUME NEW s \in States, s.ret = "OK", s.icc = Cleared, s.card.powered,
         NEW r \in ICC_Sync_ProbeCardType(s)
  PROVE  Begins(s, r) /\ Kept(s, r)
<1>0. s.card.kind \in Kinds
  BY FieldTypes DEF Card
<1>1. CASE s.card.kind \in PinKinds
  <2> DEFINE k == s.card.kind
  <2>0. k \notin I2C
    BY <1>1 DEF PinKinds, I2C
  <2>1. r = Began(s, k)
    BY <1>1, <2>0 DEF ICC_Sync_ProbeCardType
  <2>2. k \in Kinds \ {"OTHER"}
    BY <1>0, <1>1 DEF PinKinds
  <2> HIDE DEF k
  <2>3. /\ r \in States /\ r.card = s.card /\ r.ret = "OK" /\ r.icc.type = k /\ ~r.icc.pin_ok
        /\ r.faulty = s.faulty /\ r.lost = s.lost
    BY <2>1, <2>2, BeganFacts
  <2>4. ~Doubt(r)
    BY <2>3 DEF Doubt, Asleep
  <2>5. Kept(s, r)
    BY <2>3 DEF Kept, Clean
  <2> QED
    BY <1>1, <2>3, <2>4, <2>5 DEF Begins, k
<1>2. CASE s.card.kind \notin PinKinds
  <2>1. \/ r \in ProbeI2C(Began(s, "I2C_SHORT")) \/ r = [s EXCEPT !.ret = "DETECT_ERROR"]
        \/ r = Began(s, "I2C_SHORT")
    <3>1. CASE s.card.kind \in I2C
      BY <1>2, <3>1 DEF ICC_Sync_ProbeCardType
    <3>2. CASE s.card.kind \notin I2C
      BY <1>2, <3>2 DEF ICC_Sync_ProbeCardType
    <3> QED
      BY <3>1, <3>2
  <2> DEFINE k == "I2C_SHORT"
  <2>2. k \in Kinds \ {"OTHER"} /\ k \in I2C
    BY DEF Kinds, I2C
  <2>3. /\ Began(s, k) \in States /\ Began(s, k).card = s.card /\ Began(s, k).ret = "OK"
        /\ Began(s, k).icc.type \in I2C
        /\ Began(s, k).faulty = s.faulty /\ Began(s, k).lost = s.lost
    BY <2>2, BeganFacts
  <2>4. CASE r \in ProbeI2C(Began(s, k))
    <3>1. Probed(Began(s, k), r) /\ Kept(Began(s, k), r)
      BY <2>3, <2>4, ProbeI2CFacts
    <3>2. Kept(s, r)
      BY <2>3, <3>1 DEF Kept, Clean
    <3> QED
      BY <1>2, <2>3, <3>1, <3>2 DEF Probed, Begins
  <2>5. CASE r = [s EXCEPT !.ret = "DETECT_ERROR"]
    <3>1. /\ r \in States /\ r.card = s.card /\ r.icc = s.icc
          /\ r.faulty = s.faulty /\ r.lost = s.lost
      BY <2>5 DEF States, Results
    <3>2. Kept(s, r)
      BY <3>1 DEF Kept, Clean
    <3> QED
      BY <1>2, <3>1, <3>2 DEF Begins, Cleared, I2C
  <2>6. CASE r = Began(s, k)
    <3>1. Kept(s, r)
      BY <2>3, <2>6 DEF Kept, Clean
    <3> QED
      BY <1>2, <2>3, <2>6, <3>1 DEF Begins
  <2> QED
    BY <2>1, <2>4, <2>5, <2>6
<1> QED
  BY <1>1, <1>2

\* The size that was found changes no more than itself.
LEMMA MeasuredFacts ==
  ASSUME NEW s, NEW t, Begins(s, t), NEW r \in Measured(t)
  PROVE  Begins(s, r) /\ Kept(t, r)
<1>1. t \in States /\ t.icc \in Icc
  BY FieldTypes DEF Begins
<1>2. PICK n \in Lengths : r = [t EXCEPT !.icc.length = n]
  BY SizeAssumption DEF Measured
<1> DEFINE i == [t.icc EXCEPT !.length = n]
<1>3. r = [t EXCEPT !.icc = i]
  BY <1>2
<1>4. /\ i \in Icc /\ i.type = t.icc.type /\ i.pin_ok = t.icc.pin_ok /\ i.pin = t.icc.pin
      /\ i.active = t.icc.active
  BY <1>1 DEF Icc
<1> HIDE DEF i
<1>5. /\ r \in States /\ r.card = t.card /\ r.icc = i /\ r.ret = t.ret
      /\ r.faulty = t.faulty /\ r.lost = t.lost
  BY <1>1, <1>3, <1>4 DEF States
<1>6. Kept(t, r)
  BY <1>5 DEF Kept, Clean
<1> QED
  BY <1>4, <1>5, <1>6 DEF Begins, Doubt, Asleep

\* ICC_Sync_ProbeMemoryLength, and what it does with an I2C card.
LEMMA MemoryLengthFacts ==
  ASSUME NEW s, NEW t, Begins(s, t), t.ret = "OK", NEW r \in ICC_Sync_ProbeMemoryLength(t)
  PROVE  Begins(s, r) /\ Kept(t, r)
<1>0. t \in States /\ t.card.kind = s.card.kind /\ t.card \in Card
  BY FieldTypes DEF Begins
<1>1. CASE t.card.kind \in PinKinds
  BY <1>1, MeasuredFacts DEF ICC_Sync_ProbeMemoryLength
<1>2. CASE t.card.kind \notin PinKinds
  <2> DEFINE f == Failed([t EXCEPT !.card = PowerOff(@)])
             S == Exchange(t, PowerOn(t.card)) \union {f}
  <2>1. PICK u \in Ignore(S) : r \in Measured(u)
    BY <1>2 DEF ICC_Sync_ProbeMemoryLength
  <2>2. PICK v \in S : u = [v EXCEPT !.ret = "OK"]
    BY <2>1 DEF Ignore
  <2>3. t.icc.type \in I2C
    BY <1>0, <1>2 DEF Begins
  <2>4. /\ PowerOn(t.card) \in Card /\ PowerOn(t.card).kind = t.card.kind
        /\ PowerOn(t.card).mem = t.card.mem
        /\ PowerOff(t.card) \in Card /\ PowerOff(t.card).kind = t.card.kind
    BY <1>0, PowerFacts
  <2>5. Probed(t, v) /\ Kept(t, v)
    <3>1. CASE v \in Exchange(t, PowerOn(t.card))
      <4>1. Probed(t, v)
        BY <1>0, <2>3, <2>4, <3>1, ExchangeProbed
      <4>2. Kept(t, v)
        BY <1>0, <2>4, <3>1, ExchangeKept
      <4> QED
        BY <4>1, <4>2
    <3>2. CASE v = f
      <4> DEFINE w == [t EXCEPT !.card = PowerOff(t.card)]
      <4>1. w \in States /\ w.card = PowerOff(t.card) /\ w.icc = t.icc
        BY <1>0, <2>4, RecordFacts
      <4>2. v = Failed(w)
        BY <3>2
      <4> HIDE DEF w
      <4>3. v \in States /\ v.card = w.card /\ v.icc = w.icc /\ v.faulty = TRUE
        BY <4>1, <4>2, FailedFacts
      <4>4. Kept(t, v)
        BY <4>3 DEF Kept, Clean
      <4> QED
        BY <2>3, <2>4, <4>1, <4>3, <4>4 DEF Probed
    <3> QED
      BY <3>1, <3>2
  <2>6. /\ u \in States /\ u.card = v.card /\ u.icc = v.icc
        /\ u.faulty = v.faulty /\ u.lost = v.lost
    BY <2>2, <2>5, IgnoreFacts DEF Probed
  <2>7. Begins(s, u)
    BY <1>0, <1>2, <2>5, <2>6 DEF Begins, Probed
  <2>8. Kept(t, u)
    BY <2>5, <2>6, KeptSame
  <2>9. Begins(s, r) /\ Kept(u, r)
    BY <2>1, <2>7, MeasuredFacts
  <2> QED
    BY <2>8, <2>9, KeptTwice
<1> QED
  BY <1>1, <1>2

\* The page that goes with the type.
Paged(i) == i.page = IF i.type = "I2C_LONG" THEN PageLong ELSE PageShort

\* ICC_Sync_ProbePagemode.
LEMMA PagemodeFacts ==
  ASSUME NEW s, NEW t, Begins(s, t), NEW r \in ICC_Sync_ProbePagemode(t)
  PROVE  Begins(s, r) /\ Paged(r.icc) /\ Kept(t, r)
<1>1. t \in States /\ t.icc \in Icc
  BY FieldTypes DEF Begins
<1> DEFINE p == IF t.icc.type = "I2C_LONG" THEN PageLong ELSE PageShort
           i == [t.icc EXCEPT !.page = p]
<1>2. p \in {PageShort, PageLong}
  OBVIOUS
<1>3. r = [t EXCEPT !.icc = i]
  BY DEF ICC_Sync_ProbePagemode
<1> HIDE DEF p
<1>4. /\ i \in Icc /\ i.type = t.icc.type /\ i.pin_ok = t.icc.pin_ok /\ i.pin = t.icc.pin
      /\ i.active = t.icc.active /\ i.page = p
  BY <1>1, <1>2 DEF Icc
<1> HIDE DEF i
<1>5. /\ r \in States /\ r.card = t.card /\ r.icc = i /\ r.ret = t.ret
      /\ r.faulty = t.faulty /\ r.lost = t.lost
  BY <1>1, <1>3, <1>4 DEF States
<1>6. Paged(r.icc)
  BY <1>4, <1>5 DEF Paged, p
<1>7. Kept(t, r)
  BY <1>5 DEF Kept, Clean
<1> QED
  BY <1>4, <1>5, <1>6, <1>7 DEF Begins, Doubt, Asleep

\* Power and reset, before the probes.
Reset(s) ==
  Then(Then(Exchange(s, s.card), LAMBDA t : Exchange(t, PowerOn(t.card))),
       LAMBDA t : Exchange(t, t.card))

\* They leave the card on.
LEMMA ResetFacts ==
  ASSUME NEW s \in States, s.ret = "OK", NEW r \in Reset(s)
  PROVE  /\ r \in States /\ r.icc = s.icc /\ r.card.kind = s.card.kind
         /\ r.card.pin = s.card.pin /\ r.card.trials = s.card.trials
         /\ r.ret = "OK" => r.card.powered
<1> DEFINE S1 == Exchange(s, s.card)
           S2 == Then(S1, LAMBDA t : Exchange(t, PowerOn(t.card)))
<1>1. ASSUME NEW u \in S2
      PROVE  /\ u \in States /\ u.icc = s.icc /\ u.card.kind = s.card.kind
             /\ u.card.pin = s.card.pin /\ u.card.trials = s.card.trials
             /\ u.ret = "OK" => u.card.powered
  <2>1. PICK t \in S1 : IF t.ret = "OK" THEN u \in Exchange(t, PowerOn(t.card)) ELSE u = t
    BY DEF Then
  <2>2. t \in States /\ t.icc = s.icc /\ t.card = s.card /\ t.card \in Card
    BY <2>1, TalkQuiet, FieldTypes DEF Quiet
  <2> HIDE DEF S1
  <2>3. CASE t.ret # "OK"
    BY <2>1, <2>2, <2>3
  <2>4. CASE t.ret = "OK"
    <3> DEFINE c == PowerOn(t.card)
    <3>1. /\ c \in Card /\ c.powered /\ c.kind = t.card.kind /\ c.pin = t.card.pin
          /\ c.trials = t.card.trials
      BY <2>2, PowerFacts
    <3>2. u \in Exchange(t, c)
      BY <2>1, <2>4
    <3> HIDE DEF c
    <3>3. /\ u \in States
          /\ u.ret = "OK" => u.card = c
          /\ u.ret # "OK" => u.card = c \/ u.card = t.card
      <4>1. t \in States /\ c \in Card
        BY <2>2, <3>1
      <4> QED
        BY <2>4, <3>2, <4>1, ExchangeFacts, ZenonT(40)
    <3>4. u.icc = t.icc
      BY <2>2, <2>4, <3>1, <3>2, ExchangeKeeps
    <3> QED
      BY <2>2, <3>1, <3>3, <3>4
  <2> QED
    BY <2>3, <2>4
<1>2. PICK u \in S2 : IF u.ret = "OK" THEN r \in Exchange(u, u.card) ELSE r = u
  BY DEF Reset, Then
<1> HIDE DEF S2
<1>3. CASE u.ret = "OK"
  <2>1. r \in States /\ r.icc = u.icc /\ r.card = u.card
    BY <1>1, <1>2, <1>3, TalkQuiet DEF Quiet
  <2> QED
    BY <1>1, <1>3, <2>1
<1> QED
  BY <1>1, <1>2, <1>3

\* They write nothing.
LEMMA ResetKept ==
  ASSUME NEW s \in States, s.ret = "OK", NEW r \in Reset(s)
  PROVE  Kept(s, r)
<1> DEFINE S1 == Exchange(s, s.card)
           S2 == Then(S1, LAMBDA t : Exchange(t, PowerOn(t.card)))
<1>1. ASSUME NEW u \in S2 PROVE u \in States /\ Kept(s, u)
  <2>1. PICK t \in S1 : IF t.ret = "OK" THEN u \in Exchange(t, PowerOn(t.card)) ELSE u = t
    BY DEF Then
  <2>2. t \in States /\ Quiet(s, t) /\ t.card = s.card /\ t.lost = s.lost
    BY <2>1, TalkQuiet DEF Quiet
  <2>3. Kept(s, t)
    BY <2>2, QuietKept
  <2> HIDE DEF S1
  <2>4. CASE t.ret # "OK"
    BY <2>1, <2>2, <2>3, <2>4
  <2>5. CASE t.ret = "OK"
    <3> DEFINE c == PowerOn(t.card)
    <3>1. c \in Card /\ c.mem = t.card.mem
      BY <2>2, FieldTypes, PowerFacts
    <3>2. u \in Exchange(t, c)
      BY <2>1, <2>5
    <3> HIDE DEF c
    <3>3. u \in States
      BY <2>2, <2>5, <3>1, <3>2, ExchangeFacts
    <3>4. Kept(t, u)
      BY <2>2, <2>5, <3>1, <3>2, ExchangeKept
    <3> QED
      BY <2>3, <3>3, <3>4, KeptTwice
  <2> QED
    BY <2>4, <2>5
<1>2. PICK u \in S2 : IF u.ret = "OK" THEN r \in Exchange(u, u.card) ELSE r = u
  BY DEF Reset, Then
<1> HIDE DEF S2
<1>3. CASE u.ret = "OK"
  <2>1. Quiet(u, r) /\ r.card = u.card /\ r.lost = u.lost /\ u \in States
    BY <1>1, <1>2, <1>3, TalkQuiet
  <2>2. Kept(u, r)
    BY <2>1, QuietKept
  <2> QED
    BY <1>1, <2>2, KeptTwice
<1> QED
  BY <1>1, <1>2, <1>3

\* ICC_Sync_Init: a card with a PIN is initialised as what it is, without costs, or is
\* forgotten.
LEMMA InitFacts ==
  ASSUME NEW s \in States, s.ret = "OK", s.icc = Cleared, NEW r \in ICC_Sync_Init(s)
  PROVE  /\ r.card \in Card /\ r.icc \in Icc /\ r.card.kind = s.card.kind
         /\ s.card.kind \in PinKinds =>
              /\ r.card.pin = s.card.pin /\ r.card.trials = s.card.trials
              /\ r.icc.ready => r.icc.type = s.card.kind
              /\ ~Doubt(r)
         /\ s.card.kind \notin PinKinds => r.icc.type \in I2C
         /\ ~r.icc.ready => r.icc = Cleared
         /\ r.ret = "OK" \/ r.icc = Cleared
         /\ r.icc.ready => Paged(r.icc)
         /\ Kept(s, r)
<1> DEFINE S1 == Reset(s)
           S2 == Then(S1, ICC_Sync_ProbeCardType)
           S3 == Then(S2, ICC_Sync_ProbeMemoryLength)
           S4 == Then(S3, ICC_Sync_ProbePagemode)
           S5 == Then(S4, LAMBDA t : Exchange(t, t.card))
           S6 == Then(S5, Release)
           End(t) == IF t.ret = "OK" THEN [t EXCEPT !.icc.ready = TRUE]
                     ELSE [t EXCEPT !.icc = Cleared]
<1>1. PICK t \in S6 : r = End(t)
  BY DEF ICC_Sync_Init, Reset
<1>2. ASSUME NEW u \in S2 PROVE Begins(s, u) /\ Kept(s, u)
  <2>1. PICK v \in S1 : IF v.ret = "OK" THEN u \in ICC_Sync_ProbeCardType(v) ELSE u = v
    BY DEF Then
  <2>2. /\ v \in States /\ v.icc = Cleared /\ v.card.kind = s.card.kind
        /\ v.card.pin = s.card.pin /\ v.card.trials = s.card.trials
        /\ v.ret = "OK" => v.card.powered
    BY ResetFacts
  <2>5. Kept(s, v)
    BY ResetKept
  <2> HIDE DEF S1
  <2>3. CASE v.ret = "OK"
    <3>1. Begins(v, u) /\ Kept(v, u)
      BY <2>1, <2>2, <2>3, CardTypeFacts
    <3>2. Kept(s, u)
      BY <2>5, <3>1, KeptTwice
    <3> QED
      BY <2>2, <3>1, <3>2 DEF Begins
  <2>4. CASE v.ret # "OK"
    BY <2>1, <2>2, <2>4, <2>5 DEF Begins, Cleared, I2C
  <2> QED
    BY <2>3, <2>4
<1> HIDE DEF S2
<1>3. ASSUME NEW u \in S3 PROVE Begins(s, u) /\ Kept(s, u)
  <2>1. PICK v \in S2 : IF v.ret = "OK" THEN u \in ICC_Sync_ProbeMemoryLength(v) ELSE u = v
    BY DEF Then
  <2> QED
    BY <1>2, <2>1, MemoryLengthFacts, KeptTwice
<1> HIDE DEF S3
<1>4. ASSUME NEW u \in S4
      PROVE  Begins(s, u) /\ (u.ret = "OK" => Paged(u.icc)) /\ Kept(s, u)
  <2>1. PICK v \in S3 : IF v.ret = "OK" THEN u \in ICC_Sync_ProbePagemode(v) ELSE u = v
    BY DEF Then
  <2> QED
    BY <1>3, <2>1, PagemodeFacts, KeptTwice
<1> HIDE DEF S4
<1>5. ASSUME NEW u \in S5
      PROVE  Begins(s, u) /\ (u.ret = "OK" => Paged(u.icc)) /\ Kept(s, u)
  <2>1. PICK v \in S4 : IF v.ret = "OK" THEN u \in Exchange(v, v.card) ELSE u = v
    BY DEF Then
  <2>2. Begins(s, v) /\ v \in States /\ (v.ret = "OK" => Paged(v.icc)) /\ Kept(s, v)
    BY <1>4 DEF Begins
  <2>3. v.ret = "OK" => Quiet(v, u) /\ u.card = v.card /\ u.lost = v.lost
    BY <2>1, <2>2, TalkQuiet
  <2>4. v.ret = "OK" => Paged(u.icc)
    BY <2>2, <2>3 DEF Quiet, Same, Paged
  <2>5. Kept(s, u)
    BY <2>1, <2>2, <2>3, QuietKept, KeptTwice
  <2> QED
    BY <2>1, <2>2, <2>3, <2>4, <2>5, QuietBegins
<1> HIDE DEF S5
<1>6. Begins(s, t) /\ t \in States /\ (t.ret = "OK" => Paged(t.icc)) /\ Kept(s, t)
  <2>1. PICK v \in S5 : IF v.ret = "OK" THEN t \in Release(v) ELSE t = v
    BY DEF Then
  <2>2. Begins(s, v) /\ v \in States /\ (v.ret = "OK" => Paged(v.icc)) /\ Kept(s, v)
    BY <1>5 DEF Begins
  <2>3. v.ret = "OK" => Quiet(v, t) /\ t.card.mem = v.card.mem /\ t.lost = v.lost
    BY <2>1, <2>2, ReleaseFacts
  <2>6. Kept(s, t)
    BY <2>1, <2>2, <2>3, QuietKept, KeptTwice
  <2>4. Begins(s, t)
    BY <2>1, <2>2, <2>3, QuietBegins
  <2>5. v.ret = "OK" => Paged(t.icc)
    BY <2>2, <2>3 DEF Quiet, Same, Paged
  <2> QED
    BY <2>1, <2>4, <2>5, <2>6 DEF Begins
<1>7. CASE t.ret = "OK"
  <2> DEFINE i == [t.icc EXCEPT !.ready = TRUE]
  <2>1. r = [t EXCEPT !.icc = i]
    BY <1>1, <1>7
  <2>2. /\ i \in Icc /\ i.type = t.icc.type /\ i.pin_ok = t.icc.pin_ok /\ i.pin = t.icc.pin
        /\ i.active = t.icc.active /\ i.ready /\ i.page = t.icc.page
    BY <1>6, FieldTypes DEF Icc
  <2> HIDE DEF i
  <2>3. /\ r \in States /\ r.card = t.card /\ r.icc = i /\ r.ret = "OK"
        /\ r.faulty = t.faulty /\ r.lost = t.lost
    BY <1>6, <1>7, <2>1, <2>2 DEF States
  <2>4. r.card \in Card /\ r.icc \in Icc
    BY <2>3, FieldTypes
  <2>5. Paged(r.icc)
    BY <1>6, <1>7, <2>2, <2>3 DEF Paged
  <2>6. Kept(s, r)
    BY <1>6, <2>3, KeptSame
  <2> QED
    BY <1>6, <1>7, <2>2, <2>3, <2>4, <2>5, <2>6 DEF Begins, Doubt, Asleep
<1>8. CASE t.ret # "OK"
  <2>1. r = [t EXCEPT !.icc = Cleared]
    BY <1>1, <1>8
  <2>2. /\ Cleared \in Icc /\ Cleared.type \in I2C /\ ~Cleared.ready /\ ~Cleared.pin_ok
        /\ ~Cleared.active
    BY DEF Cleared, Icc, Kinds, I2C
  <2>3. /\ r \in States /\ r.card = t.card /\ r.icc = Cleared
        /\ r.faulty = t.faulty /\ r.lost = t.lost
    BY <1>6, <2>1, <2>2 DEF States
  <2>4. r.card \in Card /\ r.icc \in Icc
    BY <2>3, FieldTypes
  <2>5. Kept(s, r)
    BY <1>6, <2>3, KeptSame
  <2> QED
    BY <1>6, <1>8, <2>2, <2>3, <2>4, <2>5 DEF Begins, Doubt, Asleep
<1> QED
  BY <1>7, <1>8

-----------------------------------------------------------------------------
(* The commands. *)

\* Where a command begins.
LEMMA NowFacts ==
  ASSUME TypeOK, NEW n \in 0 .. 2
  PROVE  LET s == [Now EXCEPT !.lost = n]
         IN /\ s \in States /\ s.card = card /\ s.icc = icc /\ s.ret = "OK" /\ s.faulty = FALSE
            /\ Now \in States /\ Now.card = card /\ Now.icc = icc /\ Now.ret = "OK"
            /\ Now.faulty = FALSE
<1>1. card \in Card /\ icc \in Icc
  BY DEF TypeOK
<1>2. 0 \in 0 .. MaxTrials /\ 0 \in 0 .. 2 /\ <<>> \in Seq(Bytes)
  BY TrialsAssumption
<1>3. Now \in States /\ Now.card = card /\ Now.icc = icc /\ Now.ret = "OK" /\ Now.faulty = FALSE
  BY <1>1, <1>2 DEF Now, States, Results
<1> DEFINE s == [Now EXCEPT !.lost = n]
<1>4. /\ s \in States /\ s.card = Now.card /\ s.icc = Now.icc /\ s.ret = Now.ret
      /\ s.faulty = Now.faulty
  BY <1>3 DEF States
<1> QED
  BY <1>3, <1>4

\* The property in terms of costs.
LEMMA JustifiedFacts ==
  ASSUME NEW s, s.card = card, s.icc = icc
  PROVE  TrialsJustified <=>
           (card.kind \in PinKinds => strikes = MaxTrials \/ Cost(s) <= strikes)
BY DEF TrialsJustified, Cost, Doubt, Asleep, Extra

\* The same in the next state.
LEMMA JustifiedNext ==
  ASSUME NEW s, s.card = card', s.icc = icc'
  PROVE  TrialsJustified' <=>
           (card'.kind \in PinKinds => strikes' = MaxTrials \/ Cost(s) <= strikes')
BY DEF TrialsJustified, Cost, Doubt, Asleep, Extra

\* A command may cost as much as it is charged for.
LEMMA LeavesFacts ==
  ASSUME IInv, NEW r, NEW wrong, Leaves(r, wrong), r.card \in Card, r.icc \in Icc,
         r.card.kind = card.kind, NEW s, s.card = card, s.icc = icc, Cost(s) \in Nat,
         Cost(r) \in Nat,
         card.kind \in PinKinds => Cost(r) <= Cost(s) + Extra(r.faulty \/ wrong)
  PROVE  /\ card' = r.card /\ icc' = r.icc /\ card' \in Card /\ icc' \in Icc
         /\ strikes' \in 0 .. MaxTrials
         /\ before' \in [Address -> Bytes]
         /\ TrialsJustified'
<1>1. card' = r.card /\ icc' = r.icc
  BY DEF Leaves
<1>2. strikes \in 0 .. MaxTrials /\ MaxTrials \in Nat /\ before \in [Address -> Bytes]
  BY TrialsAssumption DEF IInv, TypeOK
<1> DEFINE e == Extra(card.kind \in PinKinds /\ (r.faulty \/ wrong))
<1>3. e \in {0, 1}
  BY DEF Extra
<1>4. strikes' = Least(strikes + e, MaxTrials)
  <2>1. CASE card.kind \in PinKinds /\ (r.faulty \/ wrong)
    <3>1. strikes' = Least(strikes + 1, MaxTrials)
      BY <2>1 DEF Leaves
    <3> QED
      BY <2>1, <3>1 DEF Extra
  <2>2. CASE ~(card.kind \in PinKinds /\ (r.faulty \/ wrong))
    <3>1. strikes' = Least(strikes, MaxTrials)
      BY <2>2 DEF Leaves
    <3>2. e = 0 /\ strikes + 0 = strikes
      BY <1>2, <2>2 DEF Extra
    <3> HIDE DEF e
    <3> QED
      BY <3>1, <3>2
  <2> QED
    BY <2>1, <2>2
<1>5. card.kind \in PinKinds => e = Extra(r.faulty \/ wrong)
  BY DEF Extra
<1> HIDE DEF e
<1>6. strikes' \in 0 .. MaxTrials /\ (strikes' = MaxTrials \/ strikes' = strikes + e)
  BY <1>2, <1>3, <1>4 DEF Least
<1>7. before' \in [Address -> Bytes]
  <2>1. before' = before \/ before' = r.card.mem
    BY DEF Leaves
  <2>2. r.card.mem \in [Address -> Bytes]
    BY DEF Card
  <2> QED
    BY <1>2, <2>1, <2>2
<1>8. TrialsJustified'
  <2>1. SUFFICES ASSUME card'.kind \in PinKinds, strikes' # MaxTrials
                 PROVE  Cost(r) <= strikes'
    BY <1>1, JustifiedNext
  <2>2. card.kind \in PinKinds
    BY <1>1, <2>1
  <2>3. strikes' = strikes + e
    BY <1>6, <2>1
  <2>4. strikes = MaxTrials \/ Cost(s) <= strikes
    BY <2>2, JustifiedFacts DEF IInv
  <2>5. strikes # MaxTrials
    BY <1>2, <1>3, <1>6, <2>1, <2>3
  <2>6. Cost(r) <= Cost(s) + e
    BY <1>5, <2>2
  <2> QED
    BY <1>2, <1>3, <2>3, <2>4, <2>5, <2>6
<1> QED
  BY <1>1, <1>6, <1>7, <1>8

\* What a command on an initialised card leaves as it was, and where it leaves the memory.
Held ==
  /\ card'.kind = card.kind
  /\ icc'.type = icc.type /\ icc'.length = icc.length
  /\ icc'.page = icc.page /\ icc'.ready = icc.ready
  /\ (icc'.type = "3W" /\ icc'.active => card'.powered)
       \/ ~(icc.type = "3W" /\ icc.active => card.powered)
  /\ before' = IF job'.busy THEN before ELSE card'.mem

\* A command on an initialised card.
LEMMA CommandFacts ==
  ASSUME IInv, icc.ready, NEW r \in States, NEW wrong, Leaves(r, wrong),
         NEW s \in States, s.card = card, s.icc = icc, Same(s, r),
         card.kind \in PinKinds => r.card.pin \in Pins,
         card.kind \in PinKinds => Cost(r) <= Cost(s) + Extra(r.faulty \/ wrong)
  PROVE  /\ card' \in Card /\ icc' \in Icc /\ strikes' \in 0 .. MaxTrials
         /\ before' \in [Address -> Bytes]
         /\ PinInv' /\ TrialsJustified' /\ Held
<1>1. r.card \in Card /\ r.icc \in Icc /\ Cost(s) \in Nat /\ Cost(r) \in Nat
  BY FieldTypes, CostFacts
<1>2. /\ r.card.kind = card.kind /\ r.icc.type = icc.type /\ r.icc.ready = icc.ready
  BY DEF Same
<1>3. /\ card' = r.card /\ icc' = r.icc /\ card' \in Card /\ icc' \in Icc
      /\ strikes' \in 0 .. MaxTrials
      /\ before' \in [Address -> Bytes]
      /\ TrialsJustified'
  BY <1>1, <1>2, LeavesFacts
<1>4. PinInv'
  BY <1>2, <1>3 DEF IInv, PinInv
<1>5. Held
  BY <1>2, <1>3 DEF Same, Asleep, Held, Leaves
<1> QED
  BY <1>3, <1>4, <1>5

\* The object before an initialisation.
LEMMA ClearedFacts ==
  /\ Cleared \in Icc /\ Cleared.type \in I2C /\ Cleared.type \notin PinKinds
  /\ ~Cleared.ready /\ ~Cleared.pin_ok /\ ~Cleared.active
BY DEF Cleared, Icc, Kinds, I2C, PinKinds

\* Costs of a card that nothing is in doubt about.
LEMMA NoDoubt ==
  ASSUME NEW r, NEW s \in States, r.card \in Card, r.card.trials = s.card.trials, ~Doubt(r),
         NEW b
  PROVE  Cost(r) \in Nat /\ Cost(r) <= Cost(s) + Extra(b)
<1>1. Extra(Doubt(r)) = 0 /\ Extra(b) \in {0, 1}
  BY DEF Extra
<1>2. MaxTrials - s.card.trials \in Nat /\ MaxTrials - s.card.trials <= Cost(s) /\ Cost(s) \in Nat
  BY CostFacts
<1> QED
  BY <1>1, <1>2 DEF Cost

\* Costs are numbers, also where only card and object are known.
LEMMA CostNat ==
  ASSUME NEW r, r.card \in Card
  PROVE  Cost(r) \in Nat
<1>1. r.card.trials \in 0 .. MaxTrials /\ MaxTrials \in Nat
  BY TrialsAssumption DEF Card
<1>2. Extra(Doubt(r)) \in {0, 1}
  BY DEF Extra
<1> QED
  BY <1>1, <1>2 DEF Cost

\* A card is initialised.
LEMMA StepStart ==
  ASSUME IInv, Start
  PROVE  IInv'
<1>1. PICK r \in ICC_Sync_Init(Now) :
        /\ Leaves(r, FALSE)
        /\ ps' = <<0, r.icc.length>>
        /\ settled' = (r.ret = "OK" /\ ~r.faulty /\ r.lost = 0)
  BY DEF Start
<1>2. TypeOK /\ PinInv /\ ~icc.ready /\ icc = Cleared /\ job' = job /\ rsp' = "none"
  BY DEF IInv, Start, PinInv
<1>3. Now \in States /\ Now.card = card /\ Now.icc = icc /\ Now.ret = "OK"
  <2>1. 0 \in 0 .. 2
    OBVIOUS
  <2> QED
    BY <1>2, <2>1, NowFacts
<1>4. Now.icc = Cleared
  BY <1>2, <1>3
<1>5. /\ r.card \in Card /\ r.icc \in Icc /\ r.card.kind = Now.card.kind
      /\ Now.card.kind \in PinKinds =>
              /\ r.card.pin = Now.card.pin /\ r.card.trials = Now.card.trials
              /\ r.icc.ready => r.icc.type = Now.card.kind
              /\ ~Doubt(r)
      /\ Now.card.kind \notin PinKinds => r.icc.type \in I2C
      /\ ~r.icc.ready => r.icc = Cleared
  BY <1>1, <1>3, <1>4, InitFacts
<1>6. Cost(r) \in Nat /\ Cost(Now) \in Nat
  BY <1>3, <1>5, CostNat, CostFacts
<1>7. card.kind \in PinKinds => Cost(r) <= Cost(Now) + Extra(r.faulty \/ FALSE)
  BY <1>3, <1>5, NoDoubt
<1>8. /\ card' = r.card /\ icc' = r.icc /\ card' \in Card /\ icc' \in Icc
      /\ strikes' \in 0 .. MaxTrials
      /\ before' \in [Address -> Bytes]
      /\ TrialsJustified'
  BY <1>1, <1>3, <1>5, <1>6, <1>7, LeavesFacts
<1>9. TypeOK'
  <2>1. settled' \in BOOLEAN
    BY <1>1
  <2>2. r.icc.length \in Lengths \union {0}
    BY <1>5 DEF Icc
  <2>3. ps' \in {0} \X (Lengths \union {0})
    BY <1>1, <2>2
  <2> QED
    BY <1>2, <1>8, <2>1, <2>3 DEF TypeOK
<1>10. PinInv'
  <2>1. ~job.busy
    BY <1>2 DEF PinInv
  <2>2. card.kind \in PinKinds => card.pin \in Pins
    BY <1>2 DEF PinInv
  <2>3. r.icc.type \in PinKinds => r.icc.type = card.kind
    <3>1. CASE card.kind \notin PinKinds
      BY <1>3, <1>5, <3>1 DEF I2C, PinKinds
    <3>2. CASE card.kind \in PinKinds
      BY <1>3, <1>5, <3>2, ClearedFacts
    <3> QED
      BY <3>1, <3>2
  <2> QED
    BY <1>2, <1>3, <1>5, <1>8, <2>1, <2>2, <2>3 DEF PinInv
<1> QED
  BY <1>8, <1>9, <1>10 DEF IInv

\* A card is given up.
LEMMA StepClose ==
  ASSUME IInv, Close
  PROVE  IInv' /\ icc' = Cleared /\ before' = card'.mem
<1> DEFINE S1 == Exchange(Now, PowerOff(card))
           S2 == Then(S1, LAMBDA t : Exchange(t, t.card))
<1>1. PICK u \in S2 : Leaves([u EXCEPT !.icc = Cleared], FALSE)
  BY DEF Close
<1>2. /\ TypeOK /\ PinInv /\ ~job.busy /\ job' = job /\ rsp' = "none" /\ ps' = <<0, 0>>
      /\ settled' = FALSE
  BY DEF IInv, Close, Idle
<1>3. Now \in States /\ Now.card = card /\ Now.icc = icc /\ Now.ret = "OK"
  <2>1. 0 \in 0 .. 2
    OBVIOUS
  <2> QED
    BY <1>2, <2>1, NowFacts
<1>4. /\ u \in States /\ u.card.kind = card.kind /\ u.card.pin = card.pin
      /\ u.card.trials = card.trials
  <2>1. PICK t \in S1 : IF t.ret = "OK" THEN u \in Exchange(t, t.card) ELSE u = t
    BY DEF Then
  <2> DEFINE c == PowerOff(card)
  <2>2. c \in Card /\ c.kind = card.kind /\ c.pin = card.pin /\ c.trials = card.trials
    BY <1>2, PowerFacts DEF TypeOK
  <2>3. t \in Exchange(Now, c)
    OBVIOUS
  <2> HIDE DEF c, S1
  <2>4. /\ t \in States
        /\ t.ret = "OK" => t.card = c
        /\ t.ret # "OK" => t.card = c \/ t.card = Now.card
    BY <1>3, <2>2, <2>3, ExchangeFacts
  <2>5. t.card.kind = card.kind /\ t.card.pin = card.pin /\ t.card.trials = card.trials
    BY <1>3, <2>2, <2>4
  <2>6. CASE t.ret = "OK"
    <3>1. Quiet(t, u) /\ u.card = t.card
      BY <2>1, <2>4, <2>6, TalkQuiet
    <3> QED
      BY <2>5, <3>1 DEF Quiet
  <2>7. CASE t.ret # "OK"
    BY <2>1, <2>4, <2>5, <2>7
  <2> QED
    BY <2>6, <2>7
<1> DEFINE r == [u EXCEPT !.icc = Cleared]
<1>5. r \in States /\ r.card = u.card /\ r.icc = Cleared
  BY <1>4, ClearedFacts DEF States
<1>6. Leaves(r, FALSE)
  BY <1>1
<1> HIDE DEF r
<1>7. r.card \in Card /\ r.icc \in Icc
  BY <1>5, FieldTypes
<1>8. ~Doubt(r)
  BY <1>5, ClearedFacts DEF Doubt, Asleep
<1>9. Cost(r) \in Nat /\ Cost(Now) \in Nat /\ Cost(r) <= Cost(Now) + Extra(r.faulty \/ FALSE)
  BY <1>3, <1>4, <1>5, <1>7, <1>8, NoDoubt, CostFacts
<1>10. /\ card' = r.card /\ icc' = r.icc /\ card' \in Card /\ icc' \in Icc
      /\ strikes' \in 0 .. MaxTrials
      /\ before' \in [Address -> Bytes]
      /\ TrialsJustified'
  <2>1. r.card.kind = card.kind
    BY <1>4, <1>5
  <2> QED
    BY <1>3, <1>6, <1>7, <1>9, <2>1, LeavesFacts
<1>11. TypeOK'
  <2>1. ps' \in {0} \X (Lengths \union {0})
    BY <1>2
  <2> QED
    BY <1>2, <1>10, <2>1 DEF TypeOK
<1>12. PinInv'
  BY <1>2, <1>4, <1>5, <1>10, ClearedFacts DEF PinInv
<1>13. before' = card'.mem
  BY <1>2, <1>6 DEF Leaves
<1> QED
  BY <1>5, <1>10, <1>11, <1>12, <1>13 DEF IInv

\* What is known when a command begins.
LEMMA ReadyFacts ==
  ASSUME IInv, icc.ready
  PROVE  /\ Now \in States /\ Now.card = card /\ Now.icc = icc /\ Now.ret = "OK"
         /\ Now.faulty = FALSE
         /\ Sound(Now)
<1>1. TypeOK /\ 0 \in 0 .. 2
  BY DEF IInv
<1>2. Now \in States /\ Now.card = card /\ Now.icc = icc /\ Now.ret = "OK" /\ Now.faulty = FALSE
  BY <1>1, NowFacts
<1>3. Sound(Now)
  BY <1>2 DEF Sound, IInv, PinInv
<1> QED
  BY <1>2, <1>3

\* The selected file begins and ends somewhere.
LEMMA FileFacts ==
  ASSUME TypeOK
  PROVE  ps[1] \in Nat /\ ps[2] \in Nat /\ (\A o \in Offsets : o \in Nat /\ Available(o) \in Nat)
<1>1. ps[1] \in Nat /\ ps[2] \in Nat
  <2>1. CASE ps \in Files
    <3>1. PICK p \in Paths : ps = <<p, Least(FileLength, Size - p)>>
      BY <2>1 DEF Files
    <3>2. p \in 0 .. Size - 1 /\ Size \in Nat /\ FileLength \in Nat
      BY FilesAssumption, SizeAssumption
    <3>3. Least(FileLength, Size - p) \in Nat
      BY <3>2 DEF Least
    <3> QED
      BY <3>1, <3>2, <3>3
  <2>2. CASE ps \in {0} \X (Lengths \union {0})
    <3>1. ps[1] = 0 /\ ps[2] \in Lengths \union {0}
      BY <2>2
    <3>2. \A n \in Lengths : n \in Nat
      BY SizeAssumption
    <3>3. ps[2] \in Nat
      BY <3>1, <3>2
    <3>4. ps[1] \in Nat
      BY <3>1
    <3> QED
      BY <3>3, <3>4
  <2> QED
    BY <2>1, <2>2 DEF TypeOK
<1>2. \A o \in Offsets : o \in Nat /\ Available(o) \in Nat
  BY <1>1, SizeAssumption DEF Offsets, Available
<1> QED
  BY <1>1, <1>2

\* A command that has nothing to do with the PIN.
LEMMA QuietCommand ==
  ASSUME IInv, icc.ready, NEW r, Leaves(r, FALSE), Fair(Now, r)
  PROVE  /\ card' \in Card /\ icc' \in Icc /\ strikes' \in 0 .. MaxTrials
         /\ before' \in [Address -> Bytes]
         /\ PinInv' /\ TrialsJustified' /\ Held /\ r.faulty \in BOOLEAN
<1>1. Now \in States /\ Now.card = card /\ Now.icc = icc /\ Now.ret = "OK" /\ Now.faulty = FALSE
  BY ReadyFacts
<1>2. r \in States /\ Same(Now, r) /\ r.card.pin = card.pin
      /\ Cost(r) <= Cost(Now) + Extra(r.faulty)
  BY <1>1 DEF Fair
<1>3. Extra(r.faulty \/ FALSE) = Extra(r.faulty)
  BY DEF Extra
<1>4. card.kind \in PinKinds => r.card.pin \in Pins
  BY <1>2 DEF IInv, PinInv
<1>5. Cost(r) <= Cost(Now) + Extra(r.faulty \/ FALSE)
  BY <1>2, <1>3
<1>6. r.faulty \in BOOLEAN
  BY <1>2, FieldTypes
<1> QED
  BY <1>1, <1>2, <1>4, <1>5, <1>6, CommandFacts

\* READ BINARY.
LEMMA StepRead ==
  ASSUME IInv, NEW o \in Offsets, NEW n \in 0 .. MaxData, ReadBinary(o, n)
  PROVE  IInv' /\ Held
<1>1. TypeOK /\ icc.ready /\ ps' = ps /\ job' = job
  BY DEF IInv, ReadBinary, Idle
<1> DEFINE a == ps[1] + o
           m == Least(n, Available(o))
<1>2. PICK r \in ICC_Sync_Read(Now, a, m) :
        /\ Leaves(r, FALSE) /\ settled' = ~r.faulty
        /\ rsp' = IF r.ret # "OK" THEN "6x" ELSE IF n > Available(o) THEN "62" ELSE "9000"
  BY DEF ReadBinary
<1>3. a \in Nat /\ m \in Nat
  <2>1. ps[1] \in Nat /\ o \in Nat /\ Available(o) \in Nat /\ n \in Nat
    BY <1>1, FileFacts, TransmitAssumption
  <2> QED
    BY <2>1 DEF Least
<1> HIDE DEF a, m
<1>4. Now \in States /\ Now.ret = "OK"
  BY <1>1, ReadyFacts
<1>5. Fair(Now, r)
  <2>1. Quiet(Now, r)
    BY <1>2, <1>3, <1>4, ReadFacts
  <2> QED
    BY <1>4, <2>1, QuietFair
<1>6. /\ card' \in Card /\ icc' \in Icc /\ strikes' \in 0 .. MaxTrials
      /\ before' \in [Address -> Bytes]
      /\ PinInv' /\ TrialsJustified' /\ Held /\ r.faulty \in BOOLEAN
  BY <1>1, <1>2, <1>5, QuietCommand
<1>7. TypeOK'
  <2>1. settled' \in BOOLEAN /\ rsp' \in {"none", "6x", "62", "9000"}
    BY <1>2
  <2> QED
    BY <1>1, <1>6, <2>1 DEF TypeOK
<1> QED
  BY <1>6, <1>7 DEF IInv

\* SELECT FILE.
LEMMA StepSelectFile ==
  ASSUME IInv, SelectFile
  PROVE  IInv' /\ Held
<1>1. TypeOK /\ icc.ready /\ job' = job
  BY DEF IInv, SelectFile, Idle
<1>2. PICK r \in ICC_Sync_Read(Now, 0, 1) :
        /\ Leaves(r, FALSE) /\ settled' = ~r.faulty
        /\ ps' \in Files \/ ps' = ps
        /\ rsp' = "6x" \/ rsp' = "9000"
  BY DEF SelectFile
<1>3. 0 \in Nat /\ 1 \in Nat
  OBVIOUS
<1>4. Now \in States /\ Now.ret = "OK"
  BY <1>1, ReadyFacts
<1>5. Fair(Now, r)
  <2>1. Quiet(Now, r)
    BY <1>2, <1>3, <1>4, ReadFacts
  <2> QED
    BY <1>4, <2>1, QuietFair
<1>6. /\ card' \in Card /\ icc' \in Icc /\ strikes' \in 0 .. MaxTrials
      /\ before' \in [Address -> Bytes]
      /\ PinInv' /\ TrialsJustified' /\ Held /\ r.faulty \in BOOLEAN
  BY <1>1, <1>2, <1>5, QuietCommand
<1>7. TypeOK'
  <2>1. settled' \in BOOLEAN /\ rsp' \in {"none", "6x", "62", "9000"}
    BY <1>2
  <2>2. ps' \in Files \union ({0} \X (Lengths \union {0}))
    BY <1>1, <1>2 DEF TypeOK
  <2> QED
    BY <1>1, <1>6, <2>1, <2>2 DEF TypeOK
<1> QED
  BY <1>6, <1>7 DEF IInv

\* VERIFY.
LEMMA StepVerify ==
  ASSUME IInv, NEW pin \in Pins, Verify(pin)
  PROVE  IInv' /\ Held
<1>1. TypeOK /\ icc.ready /\ ps' = ps /\ job' = job
  BY DEF IInv, Verify, Idle
<1>2. PICK r \in ICC_Sync_EnterPin(Now, pin) :
        /\ Leaves(r, pin # card.pin) /\ settled' = (settled /\ ~r.faulty)
        /\ rsp' = IF r.ret = "OK" THEN "9000" ELSE "6x"
  BY DEF Verify
<1>3. /\ Now \in States /\ Now.card = card /\ Now.icc = icc /\ Now.ret = "OK" /\ ~Now.faulty
      /\ Sound(Now)
  BY <1>1, ReadyFacts
<1>4. Entered(Now, pin, r)
  <2>1. pin \in Pins \union {<<>>}
    OBVIOUS
  <2> QED
    BY <1>2, <1>3, <2>1, EnterPinFacts
<1>5. r \in States /\ Same(Now, r) /\ r.card.pin = card.pin
      /\ Cost(r) <= Cost(Now) + Extra(r.faulty \/ (pin # card.pin /\ ~Doubt(Now)))
  BY <1>3, <1>4 DEF Entered
<1>6. Cost(r) <= Cost(Now) + Extra(r.faulty \/ pin # card.pin)
  <2>1. Cost(r) \in Nat /\ Cost(Now) \in Nat
    BY <1>3, <1>5, CostFacts
  <2>2. Extra(r.faulty \/ (pin # card.pin /\ ~Doubt(Now))) <= Extra(r.faulty \/ pin # card.pin)
        /\ Extra(r.faulty \/ (pin # card.pin /\ ~Doubt(Now))) \in {0, 1}
        /\ Extra(r.faulty \/ pin # card.pin) \in {0, 1}
    BY DEF Extra
  <2> QED
    BY <1>5, <2>1, <2>2
<1>7. card.kind \in PinKinds => r.card.pin \in Pins
  BY <1>5 DEF IInv, PinInv
<1>8. /\ card' \in Card /\ icc' \in Icc /\ strikes' \in 0 .. MaxTrials
      /\ before' \in [Address -> Bytes]
      /\ PinInv' /\ TrialsJustified' /\ Held
  BY <1>1, <1>2, <1>3, <1>5, <1>6, <1>7, CommandFacts
<1>9. TypeOK'
  <2>1. settled' \in BOOLEAN /\ rsp' \in {"none", "6x", "62", "9000"}
    BY <1>2
  <2> QED
    BY <1>1, <1>8, <2>1 DEF TypeOK
<1> QED
  BY <1>8, <1>9 DEF IInv

\* CHANGE VERIFY DATA: the old PIN is entered, and the new one set if that was right.
LEMMA StepChange ==
  ASSUME IInv, NEW pin \in Pins, NEW newpin \in Pins, ChangeVerifyData(pin, newpin)
  PROVE  IInv' /\ Held
<1>1. TypeOK /\ icc.ready /\ ps' = ps /\ job' = job
  BY DEF IInv, ChangeVerifyData, Idle
<1> DEFINE S == ICC_Sync_EnterPin(Now, pin)
<1>2. PICK r \in Then(S, LAMBDA t : ICC_Sync_ChangePin(t, newpin)) :
        /\ Leaves(r, pin # card.pin) /\ settled' = (settled /\ ~r.faulty)
        /\ rsp' = IF r.ret = "OK" THEN "9000" ELSE "6x"
  BY DEF ChangeVerifyData
<1>3. /\ Now \in States /\ Now.card = card /\ Now.icc = icc /\ Now.ret = "OK" /\ ~Now.faulty
      /\ Sound(Now)
  BY <1>1, ReadyFacts
<1>4. PICK t \in S : IF t.ret = "OK" THEN r \in ICC_Sync_ChangePin(t, newpin) ELSE r = t
  BY DEF Then
<1>5. Entered(Now, pin, t)
  <2>1. pin \in Pins \union {<<>>}
    OBVIOUS
  <2> QED
    BY <1>3, <1>4, <2>1, EnterPinFacts
<1> HIDE DEF S
<1>6. /\ t \in States /\ Same(Now, t) /\ t.card.pin = card.pin
      /\ Cost(t) <= Cost(Now) + Extra(t.faulty \/ (pin # card.pin /\ ~Doubt(Now)))
      /\ t.ret = "OK" => /\ ~t.faulty /\ Cost(t) <= Cost(Now)
                         /\ icc.type \in PinKinds =>
                              t.icc.active /\ (t.card.powered => t.card.unlocked)
  BY <1>3, <1>5 DEF Entered
<1>7. card.kind \in PinKinds => card.pin \in Pins
  BY DEF IInv, PinInv
<1> DEFINE e == Extra(r.faulty \/ pin # card.pin)
<1>8. /\ r \in States /\ Same(Now, r) /\ Cost(r) <= Cost(Now) + e
      /\ card.kind \in PinKinds => r.card.pin \in Pins
  <2>1. CASE t.ret # "OK"
    <3>1. r = t
      BY <1>4, <2>1
    <3>2. Cost(r) \in Nat /\ Cost(Now) \in Nat
      BY <1>3, <1>6, <3>1, CostFacts
    <3>3. Extra(t.faulty \/ (pin # card.pin /\ ~Doubt(Now))) <= e
          /\ Extra(t.faulty \/ (pin # card.pin /\ ~Doubt(Now))) \in {0, 1} /\ e \in {0, 1}
      BY <3>1 DEF Extra
    <3> HIDE DEF e
    <3>4. Cost(r) <= Cost(Now) + e
      BY <1>6, <3>1, <3>2, <3>3
    <3> QED
      BY <1>6, <1>7, <3>1, <3>4
  <2>2. CASE t.ret = "OK"
    <3>1. r \in ICC_Sync_ChangePin(t, newpin)
      BY <1>4, <2>2
    <3>2. /\ t.icc.type = icc.type /\ t.card.kind = card.kind /\ Sound(t)
      BY <1>3, <1>6 DEF Same, Sound
    <3>3. /\ r \in States /\ Same(t, r) /\ Cost(r) <= Cost(t) + Extra(r.faulty)
          /\ t.card.kind \in PinKinds => r.card.pin \in Pins
      BY <1>6, <1>7, <2>2, <3>1, <3>2, ChangePinFacts
    <3>4. Same(Now, r)
      BY <1>6, <3>3 DEF Same
    <3>5. Extra(r.faulty) <= e /\ Extra(r.faulty) \in {0, 1} /\ e \in {0, 1}
      BY DEF Extra
    <3> HIDE DEF e
    <3>6. Cost(r) \in Nat /\ Cost(Now) \in Nat /\ Cost(t) \in Nat
      BY <1>3, <1>6, <3>3, CostFacts
    <3>7. Cost(r) <= Cost(Now) + e
      BY <1>6, <2>2, <3>3, <3>5, <3>6
    <3> QED
      BY <3>2, <3>3, <3>4, <3>7
  <2> QED
    BY <2>1, <2>2
<1>9. /\ card' \in Card /\ icc' \in Icc /\ strikes' \in 0 .. MaxTrials
      /\ before' \in [Address -> Bytes]
      /\ PinInv' /\ TrialsJustified' /\ Held
  BY <1>1, <1>2, <1>3, <1>8, CommandFacts
<1>10. TypeOK'
  <2>1. settled' \in BOOLEAN /\ rsp' \in {"none", "6x", "62", "9000"}
    BY <1>2
  <2> QED
    BY <1>1, <1>9, <2>1 DEF TypeOK
<1> QED
  BY <1>9, <1>10 DEF IInv

\* The commands that leave card and object alone.
LEMMA StepIdle ==
  ASSUME IInv, SelectMaster \/ BadCommand
  PROVE  IInv'
<1>1. /\ card' = card /\ icc' = icc /\ job' = job /\ before' = before /\ settled' = settled
      /\ strikes' = strikes
  BY DEF SelectMaster, BadCommand
<1>2. rsp' \in {"none", "6x", "62", "9000"}
  BY DEF SelectMaster, BadCommand
<1>3. ps' \in Files \union ({0} \X (Lengths \union {0}))
  <2>1. icc.length \in Lengths \union {0}
    BY DEF IInv, TypeOK, Icc
  <2>2. CASE SelectMaster
    <3>1. <<0, icc.length>> \in {0} \X (Lengths \union {0})
      BY <2>1
    <3> QED
      BY <2>2, <3>1 DEF SelectMaster
  <2>3. CASE BadCommand
    BY <2>3 DEF BadCommand, IInv, TypeOK
  <2> QED
    BY <2>2, <2>3
<1>4. TypeOK'
  BY <1>1, <1>2, <1>3 DEF IInv, TypeOK
<1>5. PinInv' /\ TrialsJustified'
  BY <1>1 DEF IInv, PinInv, TrialsJustified
<1> QED
  BY <1>4, <1>5 DEF IInv

\* The data of an update.
LEMMA DataFacts ==
  /\ \A d \in Data : d \in Seq(Bytes) /\ Len(d) \in 0 .. MaxData
  /\ \A d \in Seq(Bytes) : Len(d) <= MaxData => d \in Data
<1>1. ASSUME NEW d \in Data PROVE d \in Seq(Bytes) /\ Len(d) \in 0 .. MaxData
  <2>1. PICK n \in 0 .. MaxData : d \in [1 .. n -> Bytes]
    BY DEF Data
  <2>2. n \in Nat
    BY TransmitAssumption
  <2>3. d \in Seq(Bytes) /\ Len(d) = n
    BY <2>1, <2>2
  <2> QED
    BY <2>3
<1>2. ASSUME NEW d \in Seq(Bytes), Len(d) <= MaxData PROVE d \in Data
  <2>1. d \in [1 .. Len(d) -> Bytes] /\ Len(d) \in 0 .. MaxData
    BY <1>2
  <2> DEFINE n == Len(d)
  <2>2. n \in 0 .. MaxData /\ d \in [1 .. n -> Bytes]
    BY <2>1
  <2> HIDE DEF n
  <2> QED
    BY <2>2 DEF Data
<1> QED
  BY <1>1, <1>2

\* The job in progress.
LEMMA JobFacts ==
  ASSUME TypeOK
  PROVE  /\ job.busy \in BOOLEAN /\ job.addr \in Nat /\ job.written \in Nat
         /\ job.retries \in 0 .. 1 /\ job.lost \in 0 .. 2 /\ job.short \in BOOLEAN
         /\ job.data \in Data /\ job.data \in Seq(Bytes) /\ Len(job.data) \in 0 .. MaxData
         /\ job.written <= Len(job.data)
<1>1. job \in Job
  BY DEF TypeOK
<1>2. /\ job.busy \in BOOLEAN /\ job.addr \in Nat /\ job.written \in Nat
      /\ job.retries \in 0 .. 1 /\ job.lost \in 0 .. 2 /\ job.short \in BOOLEAN
      /\ job.data \in Data /\ job.written <= Len(job.data)
  BY <1>1 DEF Job
<1> QED
  BY <1>2, DataFacts

\* No job.
LEMMA NoJobFacts == NoJob \in Job /\ ~NoJob.busy
<1>1. <<>> \in Seq(Bytes) /\ Len(<<>>) <= MaxData /\ Len(<<>>) = 0
  BY TransmitAssumption
<1>2. <<>> \in Data
  BY <1>1, DataFacts
<1> QED
  BY <1>1, <1>2 DEF NoJob, Job

\* UPDATE BINARY begins.
LEMMA StepUpdate ==
  ASSUME IInv, NEW o \in Offsets, NEW d \in Data, UpdateBinary(o, d)
  PROVE  IInv'
<1> DEFINE n == Least(Available(o), Len(d))
           e == SubSeq(d, 1, n)
           short == (n < Len(d))
           a == ps[1] + o
<1>1. /\ job' = [NoJob EXCEPT !.busy = TRUE, !.addr = a, !.data = e, !.short = short]
      /\ rsp' = "none" /\ icc.ready
      /\ card' = card /\ icc' = icc /\ ps' = ps /\ before' = before /\ settled' = settled
      /\ strikes' = strikes
  BY DEF UpdateBinary, Idle
<1>2. TypeOK /\ PinInv
  BY DEF IInv
<1>3. d \in Seq(Bytes) /\ Len(d) \in 0 .. MaxData /\ MaxData \in Nat
  BY DataFacts, TransmitAssumption
<1>4. ps[1] \in Nat /\ o \in Nat /\ Available(o) \in Nat
  BY <1>2, FileFacts
<1>5. n \in 0 .. Len(d) /\ a \in Nat
  BY <1>3, <1>4 DEF Least
<1>6. short \in BOOLEAN
  OBVIOUS
<1> HIDE DEF n, a, short
<1>7. e \in Seq(Bytes) /\ Len(e) = n
  <2>1. \A i \in 1 .. n : d[i] \in Bytes
    BY <1>3, <1>5
  <2>2. /\ SubSeq(d, 1, n) \in Seq(Bytes)
        /\ Len(SubSeq(d, 1, n)) = IF 1 <= n THEN n - 1 + 1 ELSE 0
    BY <1>3, <1>5, <2>1, SubSeqProperties
  <2> QED
    BY <1>3, <1>5, <2>2
<1> HIDE DEF e
<1>8. e \in Data /\ 0 <= Len(e)
  <2>1. Len(e) <= MaxData /\ 0 <= Len(e)
    BY <1>3, <1>5, <1>7
  <2> QED
    BY <1>7, <2>1, DataFacts
<1>9. job' \in Job /\ job'.busy
  <2>1. job' = [busy |-> TRUE, addr |-> a, data |-> e, written |-> 0, retries |-> 0,
                lost |-> 0, short |-> short]
    BY <1>1 DEF NoJob
  <2>2. 0 \in Nat /\ 0 \in 0 .. 1 /\ 0 \in 0 .. 2
    OBVIOUS
  <2> QED
    BY <1>5, <1>6, <1>8, <2>1, <2>2 DEF Job
<1>10. TypeOK'
  BY <1>1, <1>2, <1>9 DEF TypeOK
<1>11. PinInv' /\ TrialsJustified'
  BY <1>1 DEF IInv, PinInv, TrialsJustified
<1> QED
  BY <1>10, <1>11 DEF IInv

\* The parts of an update: at least one byte, never beyond the data.
LEMMA ChunkFacts ==
  ASSUME TypeOK, job.written < Len(job.data)
  PROVE  LET a == job.addr + job.written
             n == ToWrite(icc, a, Len(job.data) - job.written)
             d == SubSeq(job.data, job.written + 1, job.written + n)
         IN /\ a \in Nat /\ n \in 1 .. Len(job.data) - job.written
            /\ d \in Seq(Bytes) /\ Len(d) = n
<1> DEFINE a == job.addr + job.written
           left == Len(job.data) - job.written
           n == ToWrite(icc, a, left)
           d == SubSeq(job.data, job.written + 1, job.written + n)
<1>1. /\ job.addr \in Nat /\ job.written \in Nat /\ Len(job.data) \in Nat
      /\ job.data \in Seq(Bytes)
  BY JobFacts, TransmitAssumption
<1>2. a \in Nat /\ left \in Nat /\ left >= 1
  BY <1>1
<1>3. icc.page \in Nat \ {0} /\ MaxTransmit \in Nat \ {0}
  BY PageAssumption, TransmitAssumption DEF TypeOK, Icc
<1> HIDE DEF a, left
<1>4. a % icc.page \in 0 .. icc.page - 1
  BY <1>2, <1>3
<1>5. n \in 1 .. left
  BY <1>2, <1>3, <1>4 DEF ToWrite, Least
<1> HIDE DEF n
<1>6. \A i \in job.written + 1 .. job.written + n : job.data[i] \in Bytes
  BY <1>1, <1>5 DEF left
<1>7. d \in Seq(Bytes) /\ Len(d) = n
  <2> DEFINE x == job.written + 1
             y == job.written + n
  <2>1. x \in Int /\ y \in Int /\ x <= y /\ y - x + 1 = n
    BY <1>1, <1>2, <1>5
  <2>2. \A i \in x .. y : job.data[i] \in Bytes
    BY <1>6
  <2> HIDE DEF x, y
  <2>3. SubSeq(job.data, x, y) \in Seq(Bytes) /\ Len(SubSeq(job.data, x, y)) = n
    BY <2>1, <2>2, SubSeqProperties
  <2> QED
    BY <2>3 DEF x, y
<1> QED
  BY <1>2, <1>5, <1>7 DEF a, left, n

\* An update ends.
LEMMA StepEnds ==
  ASSUME IInv, UpdateEnds
  PROVE  IInv'
<1>1. /\ job' = NoJob /\ rsp' \in {"62", "9000"} /\ before' = card.mem
      /\ card' = card /\ icc' = icc /\ ps' = ps /\ strikes' = strikes
  BY DEF UpdateEnds, Reply
<1>2. settled' \in BOOLEAN
  BY DEF UpdateEnds
<1>3. card.mem \in [Address -> Bytes]
  BY DEF IInv, TypeOK, Card
<1>4. TypeOK'
  BY <1>1, <1>2, <1>3, NoJobFacts DEF IInv, TypeOK
<1>5. PinInv' /\ TrialsJustified'
  BY <1>1, NoJobFacts DEF IInv, PinInv, TrialsJustified
<1> QED
  BY <1>4, <1>5 DEF IInv

\* A turn of the loop costs a trial only if an exchange failed.
LEMMA ChunkFair ==
  ASSUME IInv, NEW a \in Nat, NEW d \in Seq(Bytes),
         NEW r \in WriteTry([Now EXCEPT !.lost = job.lost], a, d)
  PROVE  LET s == [Now EXCEPT !.lost = job.lost]
         IN s \in States /\ s.card = card /\ s.icc = icc /\ ~s.faulty /\ Fair(s, r)
<1> DEFINE s == [Now EXCEPT !.lost = job.lost]
<1>1. TypeOK /\ job.lost \in 0 .. 2
  BY JobFacts DEF IInv
<1>2. s \in States /\ s.card = card /\ s.icc = icc /\ s.ret = "OK" /\ ~s.faulty
  BY <1>1, NowFacts
<1> HIDE DEF s
<1>3. Sound(s)
  BY <1>2 DEF Sound, IInv, PinInv
<1>4. r \in WriteTry(s, a, d)
  BY DEF s
<1>5. Fair(s, r)
  BY <1>2, <1>3, <1>4, WriteTryFacts
<1> QED
  BY <1>2, <1>5 DEF s

\* What becomes of the job in a turn of the loop: it ends, goes on behind the bytes it
\* has written, or repeats them once.
LEMMA ChunkProgress ==
  ASSUME IInv, WriteChunk
  PROVE  /\ job' \in Job
         /\ rsp' \in {"none", "6x", "62", "9000"}
         /\ job'.busy =>
              \/ job'.written > job.written /\ job'.written <= Len(job.data) /\ job'.retries = 0
              \/ job'.written = job.written /\ job.retries = 0 /\ job'.retries = 1
<1> DEFINE a == job.addr + job.written
           n == ToWrite(icc, a, Len(job.data) - job.written)
           d == SubSeq(job.data, job.written + 1, job.written + n)
           s == [Now EXCEPT !.lost = job.lost]
           m == MaxRetries(icc, Len(job.data))
<1>0. TypeOK
  BY DEF IInv
<1>1. /\ job.busy \in BOOLEAN /\ job.addr \in Nat /\ job.written \in Nat
      /\ job.retries \in 0 .. 1 /\ job.lost \in 0 .. 2 /\ job.short \in BOOLEAN
      /\ job.data \in Data /\ job.written <= Len(job.data) /\ Len(job.data) \in Nat
  BY <1>0, JobFacts, TransmitAssumption
<1>2. job.written < Len(job.data) /\ job.busy
  BY DEF WriteChunk
<1>3. a \in Nat /\ n \in 1 .. Len(job.data) - job.written /\ d \in Seq(Bytes)
  BY <1>0, <1>2, ChunkFacts
<1>4. m \in {1, 2}
  BY DEF MaxRetries
<1>5. \/ job' = NoJob /\ rsp' = "62"
      \/ job' = [job EXCEPT !.written = @ + n, !.retries = 0, !.lost = 0] /\ rsp' = rsp
      \/ /\ job.retries + 1 < m /\ rsp' = rsp
         /\ \E r \in WriteTry(s, a, d) : job' = [job EXCEPT !.retries = @ + 1, !.lost = r.lost]
  BY DEF WriteChunk, Reply
<1>6. rsp \in {"none", "6x", "62", "9000"} /\ job \in Job
  BY <1>0 DEF TypeOK
<1> HIDE DEF n, m, d, a
<1>7. CASE job' = NoJob /\ rsp' = "62"
  BY <1>7, NoJobFacts
<1>8. CASE job' = [job EXCEPT !.written = @ + n, !.retries = 0, !.lost = 0] /\ rsp' = rsp
  <2> DEFINE w == job.written + n
  <2>1. w \in Nat /\ w > job.written /\ w <= Len(job.data)
    BY <1>1, <1>3
  <2>2. job' = [job EXCEPT !.written = w, !.retries = 0, !.lost = 0]
    BY <1>8
  <2>3. 0 \in 0 .. 1 /\ 0 \in 0 .. 2
    OBVIOUS
  <2> HIDE DEF w
  <2>4. job' \in Job /\ job'.written = w /\ job'.retries = 0
    BY <1>6, <2>1, <2>2, <2>3 DEF Job
  <2> QED
    BY <1>6, <1>8, <2>1, <2>4
<1>9. ASSUME job.retries + 1 < m, rsp' = rsp,
             NEW r \in WriteTry(s, a, d), job' = [job EXCEPT !.retries = @ + 1, !.lost = r.lost]
      PROVE  /\ job' \in Job /\ job'.written = job.written /\ job.retries = 0 /\ job'.retries = 1
  <2>1. job.retries = 0
    BY <1>1, <1>4, <1>9
  <2>2. r.lost \in 0 .. 2
    <3>1. Fair(s, r)
      BY <1>3, <1>9, ChunkFair
    <3> QED
      BY <3>1, FieldTypes DEF Fair
  <2>3. job' = [job EXCEPT !.retries = 1, !.lost = r.lost]
    BY <1>9, <2>1
  <2>4. 1 \in 0 .. 1
    OBVIOUS
  <2> QED
    BY <1>6, <2>1, <2>2, <2>3, <2>4 DEF Job
<1> QED
  BY <1>5, <1>6, <1>7, <1>8, <1>9

\* A turn of the loop in ICC_Sync_Write.
LEMMA StepChunk ==
  ASSUME IInv, WriteChunk
  PROVE  IInv' /\ Held
<1> DEFINE a == job.addr + job.written
           n == ToWrite(icc, a, Len(job.data) - job.written)
           d == SubSeq(job.data, job.written + 1, job.written + n)
           s == [Now EXCEPT !.lost = job.lost]
<1>1. /\ TypeOK /\ job.busy /\ job.written < Len(job.data) /\ icc.ready /\ ps' = ps
  BY DEF IInv, PinInv, WriteChunk
<1>2. PICK r \in WriteTry(s, a, d) :
        /\ Leaves(r, FALSE)
        /\ settled' = (settled /\ ~r.faulty /\ r.lost < MaxRetries(icc, Len(job.data)))
  BY DEF WriteChunk
<1>3. settled' \in BOOLEAN
  BY <1>2
<1>4. a \in Nat /\ d \in Seq(Bytes)
  BY <1>1, ChunkFacts
<1> HIDE DEF a, d
<1>5. s \in States /\ s.card = card /\ s.icc = icc /\ ~s.faulty /\ Fair(s, r)
  BY <1>2, <1>4, ChunkFair
<1> HIDE DEF s
<1>6. r \in States /\ Same(s, r) /\ r.card.pin = card.pin /\ Cost(r) <= Cost(s) + Extra(r.faulty)
  BY <1>5 DEF Fair
<1>7. Extra(r.faulty \/ FALSE) = Extra(r.faulty)
  BY DEF Extra
<1>8. card.kind \in PinKinds => r.card.pin \in Pins
  BY <1>6 DEF IInv, PinInv
<1>9. Cost(r) <= Cost(s) + Extra(r.faulty \/ FALSE)
  BY <1>6, <1>7
<1>10. /\ card' \in Card /\ icc' \in Icc /\ strikes' \in 0 .. MaxTrials
       /\ before' \in [Address -> Bytes]
       /\ PinInv' /\ TrialsJustified' /\ Held
  BY <1>1, <1>2, <1>5, <1>6, <1>8, <1>9, CommandFacts
<1>11. job' \in Job /\ rsp' \in {"none", "6x", "62", "9000"}
  BY ChunkProgress
<1>12. TypeOK'
  BY <1>1, <1>3, <1>10, <1>11 DEF TypeOK
<1> QED
  BY <1>10, <1>12 DEF IInv

-----------------------------------------------------------------------------
(* What an update writes. *)

\* The selected file is inside the card, if the card is what the driver takes it for.
LEMMA FileInside ==
  ASSUME IInv, ReadyInv, icc.ready, Matched
  PROVE  ps[1] \in Nat /\ ps[2] \in Nat /\ ps[1] + ps[2] <= Size
<1>1. ps \in Files \union {<<0, icc.length>>} /\ icc.length <= Size
  BY DEF ReadyInv, Matched
<1>2. ps[1] \in Nat /\ ps[2] \in Nat /\ Size \in Nat
  BY FileFacts, SizeAssumption DEF IInv
<1>3. CASE ps \in Files
  <2>1. PICK p \in Paths : ps = <<p, Least(FileLength, Size - p)>>
    BY <1>3 DEF Files
  <2>2. p \in 0 .. Size - 1 /\ FileLength \in Nat
    BY FilesAssumption
  <2>3. Least(FileLength, Size - p) <= Size - p
    BY <1>2, <2>2 DEF Least
  <2>4. ps[1] = p /\ ps[2] = Least(FileLength, Size - p)
    BY <2>1
  <2> QED
    BY <1>2, <2>2, <2>3, <2>4
<1>4. CASE ps = <<0, icc.length>>
  <2>1. ps[1] = 0 /\ ps[2] = icc.length
    BY <1>4
  <2> QED
    BY <1>1, <1>2, <2>1
<1> QED
  BY <1>1, <1>2, <1>3, <1>4

\* A command keeps what the initialisation found out.
LEMMA HeldReady ==
  ASSUME ReadyInv, Held, icc.ready, ps' \in Files \union {<<0, icc.length>>}
  PROVE  ReadyInv'
BY DEF ReadyInv, Held

\* Without an update there is nothing more to show.
LEMMA NotWriting ==
  ASSUME ReadyInv', ~job'.busy, before' = card'.mem
  PROVE  WriteInv'
BY DEF WriteInv, JobInv, UpdateInside, StoredInv

\* A command that is not an update.
LEMMA CommandWrites ==
  ASSUME WriteInv, Held, Idle, job' = job, ps' \in Files \union {ps, <<0, icc.length>>}
  PROVE  WriteInv'
<1>1. ReadyInv /\ icc.ready /\ ~job'.busy
  BY DEF WriteInv, Idle
<1>2. ps' \in Files \union {<<0, icc.length>>}
  BY <1>1 DEF ReadyInv
<1>3. before' = card'.mem
  BY <1>1 DEF Held
<1> QED
  BY <1>1, <1>2, <1>3, HeldReady, NotWriting

\* A card is initialised: the page goes with its type, and it is on if it has three wires.
LEMMA StartWrites ==
  ASSUME IInv, Start
  PROVE  WriteInv'
<1>1. PICK r \in ICC_Sync_Init(Now) : Leaves(r, FALSE) /\ ps' = <<0, r.icc.length>>
  BY DEF Start
<1>2. TypeOK /\ ~icc.ready /\ icc = Cleared /\ job' = job /\ ~job.busy
  BY DEF IInv, Start, PinInv
<1>3. Now \in States /\ Now.card = card /\ Now.icc = Cleared /\ Now.ret = "OK"
  <2>1. 0 \in 0 .. 2
    OBVIOUS
  <2> QED
    BY <1>2, <2>1, NowFacts
<1>4. /\ Now.card.kind \in PinKinds => ~Doubt(r)
      /\ Now.card.kind \notin PinKinds => r.icc.type \in I2C
      /\ r.icc.ready => Paged(r.icc)
  BY <1>1, <1>3, InitFacts
<1>5. card' = r.card /\ icc' = r.icc /\ before' = card'.mem
  BY <1>1, <1>2 DEF Leaves
<1>6. icc'.type = "3W" /\ icc'.active => card'.powered
  <2>1. CASE Now.card.kind \in PinKinds
    BY <1>4, <1>5, <2>1 DEF Doubt, Asleep
  <2>2. CASE Now.card.kind \notin PinKinds
    BY <1>4, <1>5, <2>2 DEF I2C
  <2> QED
    BY <2>1, <2>2
<1>7. ReadyInv'
  BY <1>1, <1>4, <1>5, <1>6 DEF ReadyInv, Paged
<1> QED
  BY <1>2, <1>5, <1>7, NotWriting

\* A card is given up.
LEMMA CloseWrites ==
  ASSUME IInv, Close
  PROVE  WriteInv'
<1>1. ~job'.busy
  BY DEF Close, Idle
<1>2. icc' = Cleared /\ before' = card'.mem
  BY StepClose
<1>3. ReadyInv'
  BY <1>2, ClearedFacts DEF ReadyInv, PinKinds
<1> QED
  BY <1>1, <1>2, <1>3, NotWriting

\* UPDATE BINARY begins, inside the selected file and with the memory as it is.
LEMMA UpdateWrites ==
  ASSUME IInv, WriteInv, NEW o \in Offsets, NEW x \in Data, UpdateBinary(o, x)
  PROVE  WriteInv'
<1> DEFINE n == Least(Available(o), Len(x))
           e == SubSeq(x, 1, n)
           short == (n < Len(x))
           a == ps[1] + o
<1>1. /\ job' = [NoJob EXCEPT !.busy = TRUE, !.addr = a, !.data = e, !.short = short]
      /\ rsp' = "none" /\ icc.ready /\ ~job.busy
      /\ card' = card /\ icc' = icc /\ ps' = ps /\ before' = before
  BY DEF UpdateBinary, Idle
<1>2. x \in Seq(Bytes) /\ Len(x) \in Nat
  BY DataFacts, TransmitAssumption
<1>3. ps[1] \in Nat /\ ps[2] \in Nat /\ o \in Nat /\ Available(o) \in Nat
  BY FileFacts DEF IInv
<1>4. n \in 0 .. Len(x) /\ n <= Available(o) /\ a \in Nat
  BY <1>2, <1>3 DEF Least
<1> HIDE DEF n, short
<1>5. Len(e) = n /\ (n = 0 => e = <<>>)
  <2>1. \A i \in 1 .. n : x[i] \in Bytes
    BY <1>2, <1>4
  <2>2. Len(SubSeq(x, 1, n)) = IF 1 <= n THEN n - 1 + 1 ELSE 0
    BY <1>2, <1>4, <2>1, SubSeqProperties
  <2>3. n = 0 => SubSeq(x, 1, n) = <<>>
    BY <1>2, SubSeqProperties
  <2> QED
    BY <1>2, <1>4, <2>2, <2>3
<1> HIDE DEF e, a
<1>6. job'.busy /\ job'.addr = a /\ job'.data = e /\ job'.written = 0
  BY <1>1 DEF NoJob
<1>7. e # <<>> => ps[1] <= a /\ a + Len(e) <= ps[1] + ps[2]
  <2> SUFFICES ASSUME e # <<>> PROVE ps[1] <= a /\ a + Len(e) <= ps[1] + ps[2]
    OBVIOUS
  <2>1. n >= 1
    BY <1>2, <1>4, <1>5
  <2>2. Available(o) = ps[2] - o
    BY <1>3, <1>4, <2>1 DEF Available
  <2> QED
    BY <1>2, <1>3, <1>4, <1>5, <2>2, SMTT(30) DEF a
<1>8. JobInv'
  BY <1>1, <1>6, <1>7 DEF JobInv
<1>9. ReadyInv'
  BY <1>1 DEF WriteInv, ReadyInv
<1>10. before = card.mem
  BY <1>1 DEF WriteInv, JobInv
<1>11. UpdateInside'
  BY <1>1, <1>10 DEF UpdateInside
<1>12. StoredInv'
  BY <1>6 DEF StoredInv
<1> QED
  BY <1>8, <1>9, <1>11, <1>12 DEF WriteInv

\* A part of an update stays within a page and within the card.
LEMMA ChunkFits ==
  ASSUME IInv, WriteInv, Matched, job.busy, job.written < Len(job.data)
  PROVE  LET a == job.addr + job.written
             n == ToWrite(icc, a, Len(job.data) - job.written)
             d == SubSeq(job.data, job.written + 1, job.written + n)
         IN Fits(card, a, d)
<1> DEFINE a == job.addr + job.written
           left == Len(job.data) - job.written
           n == ToWrite(icc, a, left)
           d == SubSeq(job.data, job.written + 1, job.written + n)
<1>1. TypeOK /\ icc.ready /\ ReadyInv /\ JobInv
  BY DEF IInv, PinInv, WriteInv
<1>3. a \in Nat /\ n \in 1 .. left /\ d \in Seq(Bytes) /\ Len(d) = n /\ n \in Nat
  BY <1>1, ChunkFacts
<1>4. /\ job.addr \in Nat /\ job.written \in Nat /\ Len(job.data) \in Nat
      /\ job.data \in Seq(Bytes)
  BY <1>1, JobFacts, TransmitAssumption
<1>5. icc.page = CardPage(card) /\ icc.page \in Nat \ {0} /\ MaxTransmit \in Nat
  BY <1>1, PageAssumption, TransmitAssumption DEF ReadyInv, Matched, CardPage
<1>6. a % icc.page \in 0 .. icc.page - 1 /\ left \in Nat
  <2>1. left \in Nat
    BY <1>4
  <2> HIDE DEF a
  <2> QED
    BY <1>3, <1>5, <2>1
<1>7. n <= icc.page - (a % icc.page)
  BY <1>4, <1>5, <1>6 DEF ToWrite, Least
<1>8. job.addr + Len(job.data) <= ps[1] + ps[2]
  <2>1. job.data # <<>>
    BY <1>4
  <2> QED
    BY <1>1, <2>1 DEF JobInv
<1>9. ps[1] \in Nat /\ ps[2] \in Nat /\ ps[1] + ps[2] <= Size /\ Size \in Nat
  BY <1>1, FileInside, SizeAssumption
<1>10. a + n <= Size
  <2>1. n \in Nat /\ n <= left /\ left = Len(job.data) - job.written
    BY <1>3, <1>4
  <2> HIDE DEF n, left
  <2>2. a + n <= job.addr + Len(job.data)
    BY <1>4, <2>1, SMTT(30)
  <2> DEFINE e == job.addr + Len(job.data)
             f == ps[1] + ps[2]
  <2>3. e \in Nat
    BY <1>4
  <2>4. f \in Nat /\ f <= Size
    BY <1>9
  <2>5. e <= f
    BY <1>8
  <2>6. a + n \in Nat
    <3> HIDE DEF a
    <3> QED
      BY <1>3, <2>1
  <2>7. a + n <= e
    BY <2>2
  <2> HIDE DEF a, e, f
  <2> QED
    BY <1>9, <2>3, <2>4, <2>5, <2>6, <2>7
<1>11. (a % icc.page) + n <= icc.page
  BY <1>3, <1>5, <1>6, <1>7
<1> HIDE DEF a, n, d, left
<1>12. Fits(card, a, d)
  BY <1>3, <1>5, <1>10, <1>11 DEF Fits
<1> QED
  BY <1>12 DEF a, n, d, left

\* A turn of the loop: all it changes are bytes of its part, to their new values, and when
\* it takes them for written they are all in the card.
LEMMA ChunkStores ==
  ASSUME IInv, WriteInv, Matched, WriteChunk
  PROVE  LET a == job.addr + job.written
             n == ToWrite(icc, a, Len(job.data) - job.written)
         IN /\ a \in Nat /\ n \in 1 .. Len(job.data) - job.written
            /\ \A i \in Address : card'.mem[i] # card.mem[i] =>
                 i \in a .. a + n - 1 /\ card'.mem[i] = job.data[i - job.addr + 1]
            /\ job'.busy /\ job'.written # job.written =>
                 /\ job'.written = job.written + n
                 /\ \A k \in 1 .. n : card'.mem[a + k - 1] = job.data[job.written + k]
<1> DEFINE a == job.addr + job.written
           left == Len(job.data) - job.written
           n == ToWrite(icc, a, left)
           d == SubSeq(job.data, job.written + 1, job.written + n)
           s == [Now EXCEPT !.lost = job.lost]
<1>1. /\ TypeOK /\ job.busy /\ job.written < Len(job.data) /\ icc.ready
      /\ ReadyInv /\ JobInv
  BY DEF IInv, PinInv, WriteChunk, WriteInv
<1>2. PICK r \in WriteTry(s, a, d) :
        /\ Leaves(r, FALSE)
        /\ \/ r.ret # "OK" /\ Reply("62")
           \/ r.ret = "OK" /\ r.data = d
              /\ job' = [job EXCEPT !.written = @ + n, !.retries = 0, !.lost = 0]
           \/ job' = [job EXCEPT !.retries = @ + 1, !.lost = r.lost]
           \/ Reply("62")
  BY DEF WriteChunk
<1>3. a \in Nat /\ n \in 1 .. left /\ d \in Seq(Bytes) /\ Len(d) = n /\ n \in Nat
  BY <1>1, ChunkFacts
<1>4. /\ job \in Job /\ job.addr \in Nat /\ job.written \in Nat /\ Len(job.data) \in Nat
      /\ job.data \in Seq(Bytes) /\ job.lost \in 0 .. 2
  BY <1>1, JobFacts, TransmitAssumption DEF TypeOK
<1>5. \A k \in 1 .. n : d[k] = job.data[job.written + k]
  <2> DEFINE x == job.written + 1
             y == job.written + n
  <2>0. n \in Nat /\ n >= 1 /\ n <= Len(job.data) - job.written
    BY <1>3, <1>4
  <2> HIDE DEF n, left
  <2>1. x \in Int /\ y \in Int /\ x <= y /\ y - x + 1 = n /\ 1 <= x /\ y <= Len(job.data)
    <3>1. job.written \in Nat /\ Len(job.data) \in Nat
      BY <1>4
    <3>2. x \in Int /\ 1 <= x
      BY <3>1
    <3>3. y \in Int
      BY <2>0, <3>1
    <3>4. x <= y /\ y - x + 1 = n
      BY <2>0, <3>1
    <3>5. y <= Len(job.data)
      BY <2>0, <3>1
    <3> QED
      BY <3>2, <3>3, <3>4, <3>5
  <2>3. \A k \in 1 .. n : x + k - 1 = job.written + k
    BY <1>4, <2>0
  <2> HIDE DEF x, y
  <2>2. \A i \in x .. y : job.data[i] \in Bytes
    BY <1>4, <2>1
  <2>4. \A k \in 1 .. (y - x + 1) : SubSeq(job.data, x, y)[k] = job.data[x + k - 1]
    BY <2>1, <2>2, SubSeqProperties
  <2> QED
    BY <2>1, <2>3, <2>4 DEF x, y
<1>6. Fits(card, a, d)
  BY <1>1, ChunkFits
<1> HIDE DEF n, d, left
<1>7. s \in States /\ s.card = card /\ s.icc = icc /\ s.ret = "OK" /\ ~s.faulty
  BY <1>1, <1>4, NowFacts
<1> HIDE DEF s
<1>8. Sound(s) /\ s.icc.type = s.card.kind /\ Fits(s.card, a, d)
      /\ (s.icc.type = "3W" => ~Asleep(s))
  BY <1>1, <1>6, <1>7 DEF Sound, Matched, ReadyInv, Asleep
<1> HIDE DEF a
<1>9. /\ Partly(s.card.mem, r.card.mem, a, d)
      /\ r.ret = "OK" => r.data = Section(r.card.mem, a, Len(d))
  BY <1>2, <1>3, <1>7, <1>8, WriteTryFacts
<1>10. card' = r.card
  BY <1>2 DEF Leaves
<1>11. ASSUME NEW i \in Address, card'.mem[i] # card.mem[i]
       PROVE  i \in a .. a + n - 1 /\ card'.mem[i] = job.data[i - job.addr + 1]
  <2>1. i \in a .. a + n - 1 /\ card'.mem[i] = d[i - a + 1]
    BY <1>3, <1>7, <1>9, <1>10, <1>11 DEF Partly
  <2>2. i - a + 1 \in 1 .. n /\ job.written + (i - a + 1) = i - job.addr + 1
    <3>1. i \in Int /\ a \in Nat /\ n \in Nat /\ a <= i /\ i <= a + n - 1 /\ a = job.addr + job.written
      BY <1>3, <2>1, SizeAssumption DEF a, Address
    <3>2. i - a + 1 \in 1 .. n
      BY <3>1
    <3>3. job.written \in Int /\ job.addr \in Int
      BY <1>4
    <3>4. job.written + (i - a + 1) = i - job.addr + 1
      BY <3>1, <3>3
    <3> QED
      BY <3>2, <3>4
  <2>3. d[i - a + 1] = job.data[i - job.addr + 1]
    BY <1>5, <2>2
  <2> QED
    BY <2>1, <2>3
<1>12. ASSUME job'.busy, job'.written # job.written
       PROVE  /\ job'.written = job.written + n
              /\ \A k \in 1 .. n : card'.mem[a + k - 1] = job.data[job.written + k]
  <2>1. r.ret = "OK" /\ r.data = d
        /\ job' = [job EXCEPT !.written = @ + n, !.retries = 0, !.lost = 0]
    BY <1>2, <1>4, <1>12, NoJobFacts DEF Reply, Job
  <2>2. job'.written = job.written + n
    BY <1>4, <2>1 DEF Job
  <2>3. ASSUME NEW k \in 1 .. n
        PROVE  card'.mem[a + k - 1] = job.data[job.written + k]
    <3>1. d = Section(card'.mem, a, n)
      BY <1>3, <1>9, <1>10, <2>1
    <3>2. d[k] = card'.mem[(a + k - 1) % Size]
      BY <3>1 DEF Section
    <3>3. a + n <= Size /\ Size \in Nat \ {0}
      BY <1>3, <1>6, SizeAssumption DEF Fits
    <3>4. a + k - 1 \in 0 .. Size - 1
      BY <1>3, <3>3
    <3>5. (a + k - 1) % Size = a + k - 1
      BY <3>3, <3>4, SmallMod
    <3> QED
      BY <1>5, <3>2, <3>5
  <2> QED
    BY <2>2, <2>3
<1>13. a \in Nat /\ n \in 1 .. Len(job.data) - job.written
  BY <1>3 DEF left
<1> QED
  BY <1>11, <1>12, <1>13 DEF a, n, left

\* What a turn of the loop leaves of the job.
LEMMA ChunkJob ==
  ASSUME IInv, WriteChunk
  PROVE  /\ ps' = ps
         /\ job'.busy => job'.addr = job.addr /\ job'.data = job.data /\ rsp' = rsp
         /\ rsp' = "62" \/ rsp' = rsp
<1> DEFINE a == job.addr + job.written
           n == ToWrite(icc, a, Len(job.data) - job.written)
           d == SubSeq(job.data, job.written + 1, job.written + n)
           s == [Now EXCEPT !.lost = job.lost]
<1>1. job \in Job /\ ps' = ps
  BY DEF IInv, TypeOK, WriteChunk
<1>2. \/ job' = NoJob /\ rsp' = "62"
      \/ job' = [job EXCEPT !.written = @ + n, !.retries = 0, !.lost = 0] /\ rsp' = rsp
      \/ /\ rsp' = rsp
         /\ \E r \in WriteTry(s, a, d) : job' = [job EXCEPT !.retries = @ + 1, !.lost = r.lost]
  BY DEF WriteChunk, Reply
<1> HIDE DEF a, n, d, s
<1> QED
  BY <1>1, <1>2, NoJobFacts DEF Job

\* A turn of the loop keeps to its place, and counts as written what is in the card.
LEMMA ChunkWrites ==
  ASSUME IInv, WriteInv, WriteChunk
  PROVE  WriteInv'
<1>1. /\ TypeOK /\ job.busy /\ icc.ready /\ ReadyInv /\ JobInv /\ UpdateInside /\ StoredInv
      /\ job.written < Len(job.data)
  BY DEF IInv, PinInv, WriteChunk, WriteInv
<1>2. Held
  BY StepChunk
<1>3. /\ ps' = ps
      /\ job'.busy => job'.addr = job.addr /\ job'.data = job.data /\ rsp' = rsp
  BY ChunkJob
<1>4. ReadyInv'
  <2>1. ps' \in Files \union {<<0, icc.length>>}
    BY <1>1, <1>3 DEF ReadyInv
  <2> QED
    BY <1>1, <1>2, <2>1, HeldReady
<1>5. CASE ~job'.busy
  BY <1>2, <1>4, <1>5, NotWriting DEF Held
<1>6. CASE job'.busy
  <2>1. job'.addr = job.addr /\ job'.data = job.data /\ rsp' = rsp /\ before' = before
    BY <1>2, <1>3, <1>6 DEF Held
  <2>2. JobInv'
    BY <1>1, <1>3, <1>6, <2>1 DEF JobInv
  <2>3. CASE ~Matched
    <3>1. ~Matched'
      BY <1>2, <2>3 DEF Held, Matched
    <3> QED
      BY <1>4, <2>2, <3>1 DEF WriteInv, UpdateInside, StoredInv
  <2>4. CASE Matched
    <3> DEFINE a == job.addr + job.written
               n == ToWrite(icc, a, Len(job.data) - job.written)
    <3>1. a \in Nat /\ n \in 1 .. Len(job.data) - job.written
      BY <2>4, ChunkStores
    <3>2. \A i \in Address : card'.mem[i] # card.mem[i] =>
            i \in a .. a + n - 1 /\ card'.mem[i] = job.data[i - job.addr + 1]
      BY <2>4, ChunkStores
    <3>3. job'.written # job.written =>
            /\ job'.written = job.written + n
            /\ \A k \in 1 .. n : card'.mem[a + k - 1] = job.data[job.written + k]
      BY <1>6, <2>4, ChunkStores
    <3> HIDE DEF n
    <3>4. /\ job.addr \in Nat /\ job.written \in Nat /\ Len(job.data) \in Nat
          /\ job.data \in Seq(Bytes)
      BY <1>1, JobFacts, TransmitAssumption
    <3>5. n \in Nat /\ n >= 1 /\ n <= Len(job.data) - job.written
      BY <3>1, <3>4
    <3>6. /\ ps[1] \in Nat /\ ps[2] \in Nat /\ ps[1] + ps[2] <= Size /\ Size \in Nat
      BY <1>1, <2>4, FileInside, SizeAssumption
    <3>7. ps[1] <= job.addr /\ job.addr + Len(job.data) <= ps[1] + ps[2]
      <4>1. job.data # <<>>
        BY <1>1, <3>4
      <4> QED
        BY <1>1, <4>1 DEF JobInv
    <3>8. ASSUME NEW i \in Address, i \in a .. a + n - 1
          PROVE  i \in Target \intersect File
      <4>1. i \in Int /\ a <= i /\ i <= a + n - 1
        BY <3>1, <3>5, <3>8
      <4>5. job.addr <= i
        BY <3>4, <4>1
      <4>6. i <= job.addr + Len(job.data) - 1
        BY <3>4, <3>5, <4>1
      <4>2. i - job.addr \in 0 .. Len(job.data) - 1 /\ job.addr + (i - job.addr) = i
        <5>1. job.addr \in Nat /\ Len(job.data) \in Nat
          BY <3>4
        <5> QED
          BY <4>1, <4>5, <4>6, <5>1
      <4>3. i \in Target
        BY <4>2 DEF Target
      <4>4. i \in ps[1] .. ps[1] + ps[2] - 1
        <5>1. ps[1] <= i
          BY <3>4, <3>6, <3>7, <4>1, <4>5
        <5>2. i <= ps[1] + ps[2] - 1
          <6> DEFINE e == job.addr + Len(job.data)
                     f == ps[1] + ps[2]
          <6>1. e \in Nat /\ f \in Nat
            BY <3>4, <3>6
          <6>2. e <= f /\ i <= e - 1 /\ i \in Int
            BY <3>4, <3>6, <3>7, <4>1, <4>6
          <6> HIDE DEF e, f
          <6>3. i <= f - 1
            BY <6>1, <6>2
          <6> QED
            BY <3>6, <4>1, <6>3 DEF f
        <5> QED
          BY <3>6, <4>1, <5>1, <5>2
      <4> QED
        BY <4>3, <4>4 DEF File
    <3>9. UpdateInside'
      <4>1. SUFFICES ASSUME NEW i \in Address, card'.mem[i] # before[i]
                     PROVE  /\ i \in Target \intersect File
                            /\ card'.mem[i] = job.data[i - job.addr + 1]
        BY <1>3, <2>1 DEF UpdateInside, Target, File
      <4>2. CASE card'.mem[i] = card.mem[i]
        BY <1>1, <2>4, <4>1, <4>2 DEF UpdateInside
      <4>3. CASE card'.mem[i] # card.mem[i]
        BY <3>2, <3>8, <4>3
      <4> QED
        BY <4>2, <4>3
    <3>10. ASSUME NEW k \in 1 .. job.written
           PROVE  card'.mem[job.addr + k - 1] = job.data[k]
      <4>1. card.mem[job.addr + k - 1] = job.data[k]
        BY <1>1, <2>4 DEF StoredInv
      <4>2. job.addr + k - 1 \in Address /\ job.addr + k - 1 < a
        <5> DEFINE i == job.addr + k - 1
                   e == job.addr + Len(job.data)
                   f == ps[1] + ps[2]
        <5>1. i \in Nat /\ i < a
          BY <3>4
        <5>2. a \in Nat
          BY <3>4
        <5>4. e \in Nat
          BY <3>4
        <5>5. f \in Nat /\ f <= Size
          BY <3>6
        <5>6. a < e
          BY <3>4, <3>5
        <5>7. e <= f
          BY <3>7
        <5> HIDE DEF a, e, f, i
        <5>8. i < f
          BY <5>1, <5>2, <5>4, <5>5, <5>6, <5>7
        <5>3. i \in Address
          BY <3>6, <5>1, <5>5, <5>8 DEF Address
        <5> QED
          BY <5>1, <5>3 DEF i
      <4>3. job.addr + k - 1 \notin a .. a + n - 1
        <5> HIDE DEF a
        <5> QED
          BY <3>1, <3>5, <4>2
      <4> QED
        BY <3>2, <4>1, <4>2, <4>3
    <3>11. StoredInv'
      <4>1. SUFFICES ASSUME NEW k \in 1 .. job'.written
                     PROVE  card'.mem[job.addr + k - 1] = job.data[k]
        BY <2>1 DEF StoredInv
      <4>2. CASE job'.written = job.written
        BY <3>10, <4>1, <4>2
      <4>3. CASE job'.written # job.written
        <5>1. job'.written = job.written + n /\ k \in Int /\ 1 <= k /\ k <= job.written + n
          BY <3>3, <3>4, <3>5, <4>1, <4>3
        <5>2. CASE k <= job.written
          <6>1. k \in 1 .. job.written
            BY <3>4, <5>1, <5>2
          <6> QED
            BY <3>10, <6>1
        <5>3. CASE ~(k <= job.written)
          <6> DEFINE l == k - job.written
          <6>1. l \in 1 .. n /\ a + l - 1 = job.addr + k - 1 /\ job.written + l = k
            BY <3>4, <3>5, <5>1, <5>3
          <6>2. card'.mem[a + l - 1] = job.data[job.written + l]
            BY <3>3, <4>3, <6>1
          <6> QED
            BY <6>1, <6>2
        <5> QED
          BY <5>2, <5>3
      <4> QED
        BY <4>2, <4>3
    <3> QED
      BY <1>4, <2>2, <3>9, <3>11 DEF WriteInv
  <2> QED
    BY <2>3, <2>4
<1> QED
  BY <1>5, <1>6

\* Every step keeps the invariant of the updates.
LEMMA NextWrites ==
  ASSUME IInv, WriteInv, [Next]_vars
  PROVE  WriteInv'
<1>1. CASE UNCHANGED vars
  BY <1>1 DEF vars, WriteInv, ReadyInv, JobInv, UpdateInside, StoredInv, Matched, Target, File
<1>2. CASE Start
  BY <1>2, StartWrites
<1>3. CASE Close
  BY <1>3, CloseWrites
<1>4. ASSUME NEW o \in Offsets, NEW n \in 0 .. MaxData, ReadBinary(o, n) PROVE WriteInv'
  <2>1. Held /\ Idle /\ job' = job /\ ps' = ps
    BY <1>4, StepRead DEF ReadBinary
  <2> QED
    BY <2>1, CommandWrites
<1>5. ASSUME NEW o \in Offsets, NEW d \in Data, UpdateBinary(o, d) PROVE WriteInv'
  BY <1>5, UpdateWrites
<1>6. CASE WriteChunk
  BY <1>6, ChunkWrites
<1>7. CASE UpdateEnds
  <2>1. ~job'.busy /\ before' = card'.mem
    BY <1>7, NoJobFacts DEF UpdateEnds, Reply
  <2>2. ReadyInv'
    BY <1>7 DEF UpdateEnds, WriteInv, ReadyInv
  <2> QED
    BY <2>1, <2>2, NotWriting
<1>8. CASE SelectFile
  <2>1. Held /\ Idle /\ job' = job /\ (ps' \in Files \/ ps' = ps)
    BY <1>8, StepSelectFile DEF SelectFile
  <2> QED
    BY <2>1, CommandWrites
<1>9. CASE SelectMaster \/ BadCommand
  <2>1. Idle /\ job' = job /\ card' = card /\ icc' = icc /\ before' = before
        /\ (ps' = ps \/ ps' = <<0, icc.length>>)
    BY <1>9 DEF SelectMaster, BadCommand
  <2>2. Held
    BY <2>1 DEF Held, Idle, WriteInv, JobInv
  <2> QED
    BY <2>1, <2>2, CommandWrites
<1>10. ASSUME NEW p \in Pins, Verify(p) PROVE WriteInv'
  <2>1. Held /\ Idle /\ job' = job /\ ps' = ps
    BY <1>10, StepVerify DEF Verify
  <2> QED
    BY <2>1, CommandWrites
<1>11. ASSUME NEW p \in Pins, NEW q \in Pins, ChangeVerifyData(p, q) PROVE WriteInv'
  <2>1. Held /\ Idle /\ job' = job /\ ps' = ps
    BY <1>11, StepChange DEF ChangeVerifyData
  <2> QED
    BY <2>1, CommandWrites
<1> QED
  BY <1>1, <1>2, <1>3, <1>4, <1>5, <1>6, <1>7, <1>8, <1>9, <1>10, <1>11 DEF Next

-----------------------------------------------------------------------------
(* What the driver believes of a card of two wires. *)

\* The driver has let go of the card and knows that the PIN is needed again.
Released(i) == ~i.active /\ i.pin_needed

\* A card that was on is let go of.
LEMMA ReleaseNeeds ==
  ASSUME NEW s \in States, s.ret = "OK", s.icc.type # "3W", s.icc.active,
         NEW r \in Release(s), r.ret = "OK"
  PROVE  Released(r.icc)
<1>1. NeedsDeactivate(s.icc)
  BY DEF NeedsDeactivate
<1>2. PICK t \in Exchange(s, PowerOff(s.card)) :
        IF t.ret = "OK" THEN r = [t EXCEPT !.icc.pin_needed = TRUE, !.icc.active = FALSE]
        ELSE r = t
  BY <1>1 DEF Release, Then
<1>3. t \in States
  <2> DEFINE c == PowerOff(s.card)
  <2>1. c \in Card /\ t \in Exchange(s, c)
    BY <1>2, FieldTypes, PowerFacts
  <2> HIDE DEF c
  <2> QED
    BY <2>1, ExchangeFacts
<1>4. r = [t EXCEPT !.icc.pin_needed = TRUE, !.icc.active = FALSE]
  BY <1>2
<1>5. r.icc = [t.icc EXCEPT !.pin_needed = TRUE, !.active = FALSE] /\ t.icc \in Icc
  BY <1>3, <1>4, ReleaseFlags, FieldTypes
<1> QED
  BY <1>5 DEF Released, Icc

\* ICC_Sync_Read lets go of the card, also of one that it found active.
LEMMA ReadReleases ==
  ASSUME NEW s \in States, s.ret = "OK", s.icc.type # "3W", NEW a \in Nat, NEW n \in Nat,
         NEW r \in ICC_Sync_Read(s, a, n), r.ret = "OK"
  PROVE  Released(r.icc)
<1> DEFINE S1 == Activate(s)
           S2 == Then(S1, SetReadAddress)
           S3 == Then(S2, LAMBDA t : ReadBuffer(t, a, n))
           On(t) == t \in States /\ (t.ret = "OK" => t.icc.active /\ t.icc.type # "3W")
<1>1. r \in Then(S3, Release)
  BY DEF ICC_Sync_Read
<1>2. ASSUME NEW t \in S2 PROVE On(t)
  <2>1. PICK u \in S1 : IF u.ret = "OK" THEN t \in Exchange(u, u.card) ELSE t = u
    BY DEF Then, SetReadAddress
  <2>2. On(u)
    BY ActivateFacts DEF Quiet, Same
  <2> HIDE DEF S1
  <2>3. u.ret = "OK" => t \in States /\ t.icc = u.icc
    BY <2>1, <2>2, TalkQuiet DEF Quiet
  <2> QED
    BY <2>1, <2>2, <2>3
<1> HIDE DEF S2
<1>3. ASSUME NEW t \in S3 PROVE On(t)
  <2>1. PICK u \in S2 : IF u.ret = "OK" THEN t \in ReadBuffer(u, a, n) ELSE t = u
    BY DEF Then
  <2>2. On(u)
    BY <1>2
  <2>3. ASSUME u.ret = "OK" PROVE t \in States /\ t.icc = u.icc
    <3>1. u \in States /\ t \in ReadBuffer(u, a, n)
      BY <2>1, <2>2, <2>3
    <3> HIDE DEF On
    <3>2. Quiet(u, t) /\ t.icc = u.icc
      BY <2>3, <3>1, ReadBufferFacts
    <3> QED
      BY <3>2 DEF Quiet
  <2> QED
    BY <2>1, <2>2, <2>3
<1> HIDE DEF S3
<1>4. PICK t \in S3 : IF t.ret = "OK" THEN r \in Release(t) ELSE r = t
  BY <1>1 DEF Then
<1>5. t.ret = "OK" /\ On(t)
  BY <1>3, <1>4
<1> QED
  BY <1>4, <1>5, ReleaseNeeds

\* The three parts of ICC_Sync_EnterPin, each of which may be the last.
LEMMA EnterPinParts ==
  ASSUME NEW s, NEW pin, s.icc.type \notin I2C, NEW r \in ICC_Sync_EnterPin(s, pin)
  PROVE  \E t \in Counted(s) :
           IF t.ret = "OK"
           THEN \E u \in Then(IFD_EnterPin(t, pin), ReadErrorCounter) :
                  IF u.ret = "OK" THEN r \in Judge(u, pin) ELSE r = u
           ELSE r = t
<1> DEFINE S1 == Counted(s)
           S2 == Then(S1, LAMBDA t : IFD_EnterPin(t, pin))
           S3 == Then(S2, ReadErrorCounter)
<1>1. r \in Then(S3, LAMBDA t : Judge(t, pin))
  BY DEF ICC_Sync_EnterPin, Counted
<1> HIDE DEF S1
<1>2. PICK u \in S3 : IF u.ret = "OK" THEN r \in Judge(u, pin) ELSE r = u
  BY <1>1 DEF Then
<1>3. PICK v \in S2 : IF v.ret = "OK" THEN u \in ReadErrorCounter(v) ELSE u = v
  BY DEF Then
<1>4. PICK t \in S1 : IF t.ret = "OK" THEN v \in IFD_EnterPin(t, pin) ELSE v = t
  BY DEF Then
<1> HIDE DEF S2, S3
<1>5. CASE t.ret = "OK"
  <2>1. u \in Then(IFD_EnterPin(t, pin), ReadErrorCounter)
    BY <1>3, <1>4, <1>5 DEF Then
  <2> QED
    BY <1>2, <1>5, <2>1 DEF S1
<1>6. CASE t.ret # "OK"
  BY <1>2, <1>3, <1>4, <1>6 DEF S1
<1> QED
  BY <1>5, <1>6

\* The first part, when no exchange fails: the card is on, or the last trial is gone.
LEMMA CountedKnown ==
  ASSUME NEW s \in States, s.ret = "OK", ~s.faulty, ~Asleep(s), NEW t \in Counted(s), ~t.faulty
  PROVE  t.icc.active /\ t.card.powered /\ (t.ret # "OK" => t.card.trials = 0)
<1> DEFINE S1 == Activate(s)
           S2 == Then(S1, ReadErrorCounter)
<1>1. ASSUME NEW u \in S2
      PROVE  Quiet(s, u) /\ (u.ret = "OK" => u.icc.active)
  <2>1. PICK v \in S1 : IF v.ret = "OK" THEN u \in Exchange(v, v.card) ELSE u = v
    BY DEF Then, ReadErrorCounter
  <2>2. Quiet(s, v) /\ v \in States /\ (v.ret = "OK" => v.icc.active)
    BY ActivateFacts DEF Quiet
  <2> HIDE DEF S1
  <2>3. CASE v.ret = "OK"
    <3>1. Quiet(v, u) /\ u.icc = v.icc
      BY <2>1, <2>2, <2>3, TalkQuiet
    <3> QED
      BY <2>2, <2>3, <3>1, QuietTwice
  <2> QED
    BY <2>1, <2>2, <2>3
<1> HIDE DEF S2
<1>2. PICK u \in S2 :
        IF u.ret = "OK" THEN t \in Stop([u EXCEPT !.trials = CounterRead(u.card)]) ELSE t = u
  BY DEF Counted, Then, S2
<1>3. Quiet(s, u) /\ u \in States /\ (u.ret = "OK" => u.icc.active)
  BY <1>1 DEF Quiet
<1>4. u.ret = "OK"
  BY <1>2, <1>3 DEF Quiet
<1>5. u.icc.active /\ u.card.powered
  BY <1>3, <1>4 DEF Quiet, Asleep
<1> DEFINE n == CounterRead(u.card)
           v == [u EXCEPT !.trials = n]
<1>6. n \in 0 .. MaxTrials /\ n = u.card.trials
  BY <1>3, <1>5, FieldTypes DEF CounterRead, Card, Served
<1> HIDE DEF n
<1>7. v \in States /\ v.icc = u.icc /\ v.card = u.card /\ v.ret = "OK" /\ v.trials = n
  BY <1>3, <1>4, <1>6, CountFacts
<1>8. t \in Stop(v)
  BY <1>2, <1>4 DEF n
<1> HIDE DEF v
<1>9. CASE v.trials = 0
  <2>1. t = [v EXCEPT !.ret = "BLOCKED_ERROR"]
    BY <1>8, <1>9 DEF Stop
  <2>2. t.icc = v.icc /\ t.card = v.card
    BY <1>7, <2>1 DEF States
  <2> QED
    BY <1>5, <1>6, <1>7, <1>9, <2>2
<1>10. CASE v.trials # 0
  <2>1. t = v
    BY <1>8, <1>10 DEF Stop
  <2> QED
    BY <1>5, <1>7, <2>1
<1> QED
  BY <1>9, <1>10

\* ICC_Sync_EnterPin on a card that the driver is right about, when no exchange fails: the
\* card is open if the driver believes in the PIN, and the right PIN is not refused.
LEMMA EnterPinKnown ==
  ASSUME NEW s \in States, s.ret = "OK", ~s.faulty, s.icc.type \in PinKinds, Sound(s),
         ~Asleep(s), NEW pin \in Pins \union {<<>>}, NEW r \in ICC_Sync_EnterPin(s, pin), ~r.faulty
  PROVE  /\ r.icc.active /\ r.card.powered
         /\ r.icc.pin_ok /\ r.card.trials > 0 => r.ret = "OK"
         /\ r.ret = "OK" => r.card.unlocked
         /\ pin = s.card.pin /\ s.card.trials > 0 => r.ret = "OK"
<1>0. s.icc.type \notin I2C
  BY DEF I2C, PinKinds
<1> DEFINE S == Counted(s)
<1>1. PICK t \in S :
        IF t.ret = "OK"
        THEN \E u \in Then(IFD_EnterPin(t, pin), ReadErrorCounter) :
               IF u.ret = "OK" THEN r \in Judge(u, pin) ELSE r = u
        ELSE r = t
  BY <1>0, EnterPinParts
<1>2. /\ Untouched(s, t) /\ t \in States
      /\ t.ret = "OK" => /\ t.icc.active /\ ~t.faulty
                         /\ t.trials = CounterRead(t.card) /\ t.trials # 0
  BY CountedFacts DEF Untouched
<1>3. ~t.faulty => t.icc.active /\ t.card.powered /\ (t.ret # "OK" => t.card.trials = 0)
  BY CountedKnown
<1> HIDE DEF S
<1>4. CASE t.ret # "OK"
  <2>1. r = t
    BY <1>1, <1>4
  <2>2. t.card.trials = 0 /\ s.card.trials = 0
    BY <1>2, <1>3, <1>4, <2>1 DEF Untouched
  <2> QED
    BY <1>3, <1>4, <2>1, <2>2
<1>5. CASE t.ret = "OK"
  <2>1. PICK u \in Then(IFD_EnterPin(t, pin), ReadErrorCounter) :
          IF u.ret = "OK" THEN r \in Judge(u, pin) ELSE r = u
    BY <1>1, <1>5
  <2>2. t.icc.type \in PinKinds /\ Sound(t) /\ t.card.pin = s.card.pin
    BY <1>2 DEF Untouched, Same, Sound
  <2>3. t.card.powered /\ t.icc.active
    BY <1>2, <1>3, <1>5
  <2>4. /\ u \in States /\ u.icc = t.icc /\ u.trials = t.trials
        /\ u.card.kind = t.card.kind /\ u.card.powered = t.card.powered
        /\ u.ret # "OK" => u.faulty
        /\ u.ret = "OK" => IF pin = t.card.pin
                           THEN u.card.unlocked /\ u.card.trials = MaxTrials
                           ELSE u.card.trials = t.card.trials - 1
    <3>1. /\ t \in States /\ ~t.faulty /\ t.trials # 0 /\ t.trials = CounterRead(t.card)
          /\ t.icc.active
      BY <1>2, <1>5
    <3>2. /\ u \in States /\ u.icc = t.icc /\ u.trials = t.trials
          /\ u.card.kind = t.card.kind /\ u.card.powered = t.card.powered
          /\ u.ret # "OK" => u.faulty
      BY <1>5, <2>1, <2>2, <3>1, WritePinFacts
    <3>3. u.ret = "OK" /\ t.card.powered => IF pin = t.card.pin
                           THEN u.card.unlocked /\ u.card.trials = MaxTrials
                           ELSE u.card.trials = t.card.trials - 1
      BY <1>5, <2>1, <2>2, <3>1, WritePinFacts
    <3> QED
      BY <2>3, <3>2, <3>3
  <2>5. u.ret = "OK" /\ r \in Judge(u, pin)
    BY <2>1, <2>4
  <2>6. /\ r.card = u.card /\ r.icc.active = u.icc.active
        /\ r.ret = "OK" => ~(CounterRead(u.card) < u.trials)
        /\ r.ret # "OK" => CounterRead(u.card) < u.trials /\ ~r.icc.pin_ok
    BY <2>4, <2>5, JudgeFacts
  <2>7. CounterRead(u.card) = u.card.trials /\ CounterRead(t.card) = t.card.trials
    BY <2>3, <2>4 DEF CounterRead, Served
  <2>8. t.card.trials \in 0 .. MaxTrials /\ MaxTrials \in Nat /\ t.trials = t.card.trials
    BY <1>2, <1>5, <2>7, FieldTypes, TrialsAssumption DEF Card
  <2>9. CASE pin = t.card.pin
    <3>1. u.card.unlocked /\ ~(CounterRead(u.card) < u.trials)
      BY <2>4, <2>5, <2>7, <2>8, <2>9
    <3> QED
      BY <2>3, <2>4, <2>6, <3>1
  <2>10. CASE pin # t.card.pin
    <3>1. CounterRead(u.card) < u.trials
      BY <2>4, <2>5, <2>7, <2>8, <2>10
    <3> QED
      BY <2>2, <2>3, <2>4, <2>6, <2>10, <3>1
  <2> QED
    BY <2>9, <2>10
<1> QED
  BY <1>4, <1>5

\* The driver enters the PIN by itself: what it believes stays right, and a card that the
\* remembered PIN opens is open.
LEMMA ReenterKnown ==
  ASSUME NEW s \in States, s.ret = "OK", ~s.faulty, s.icc.type = "2W", Sound(s),
         Known(s.card, s.icc), NEW r \in Reenter(s), ~r.faulty
  PROVE  /\ Known(r.card, r.icc)
         /\ s.icc.pin_ok /\ s.icc.pin = s.card.pin /\ s.card.trials > 0 =>
              r.ret = "OK" /\ r.card.powered /\ r.card.unlocked
<1>1. CASE s.icc.active
  <2>1. r = s
    BY <1>1 DEF Reenter
  <2> QED
    BY <1>1, <2>1 DEF Known
<1>2. CASE ~s.icc.active
  <2> DEFINE S == Activate(s)
  <2>1. PICK t \in S : IF t.ret = "OK"
                       THEN r \in IF t.icc.pin_ok /\ NeedsPin(t.icc)
                                  THEN ICC_Sync_EnterPin(t, t.icc.pin) ELSE {t}
                       ELSE r = t
    BY <1>2 DEF Reenter, Then
  <2>2. /\ Quiet(s, t)
        /\ t.ret = "OK" => t.icc.active /\ t.icc.pin_needed = s.icc.pin_needed /\ t.card.powered
    BY <1>2, ActivateFacts
  <2> HIDE DEF S
  <2>3. t.ret = "OK"
    BY <2>1, <2>2 DEF Quiet
  <2>4. /\ t \in States /\ ~t.faulty /\ t.icc.type = "2W" /\ Sound(t) /\ ~Asleep(t)
        /\ t.card.pin = s.card.pin /\ t.card.trials = s.card.trials
        /\ t.icc.pin = s.icc.pin /\ t.icc.pin_ok = s.icc.pin_ok
    BY <2>2, <2>3 DEF Quiet, Same, Sound, Asleep
  <2>5. NeedsPin(t.icc)
    BY <1>2, <2>2, <2>3, <2>4 DEF Known, NeedsPin, PinKinds
  <2>6. CASE ~t.icc.pin_ok
    <3>1. r = t
      BY <2>1, <2>3, <2>6
    <3> QED
      BY <2>2, <2>3, <2>4, <2>6, <3>1 DEF Known
  <2>7. CASE t.icc.pin_ok
    <3> DEFINE pin == t.icc.pin
    <3>1. r \in ICC_Sync_EnterPin(t, pin) /\ t.icc.type \in PinKinds
      BY <2>1, <2>3, <2>4, <2>5, <2>7 DEF PinKinds
    <3>2. pin \in Pins \union {<<>>}
      BY <2>4, FieldTypes DEF Icc
    <3> HIDE DEF pin
    <3>3. /\ r.icc.active /\ r.card.powered
          /\ r.icc.pin_ok /\ r.card.trials > 0 => r.ret = "OK"
          /\ r.ret = "OK" => r.card.unlocked
          /\ pin = t.card.pin /\ t.card.trials > 0 => r.ret = "OK"
      BY <2>3, <2>4, <3>1, <3>2, EnterPinKnown
    <3> QED
      BY <2>4, <3>3 DEF Known, pin
  <2> QED
    BY <2>6, <2>7
<1> QED
  BY <1>1, <1>2

\* CHANGE VERIFY DATA on a card that is open leaves it open.
LEMMA ChangePinKnown ==
  ASSUME NEW s \in States, s.ret = "OK", s.icc.type = "2W", s.icc.active, s.card.powered,
         s.card.unlocked, s.card.pin \in Pins, NEW pin \in Pins,
         NEW r \in ICC_Sync_ChangePin(s, pin), ~r.faulty
  PROVE  r.icc.active /\ r.card.powered /\ r.card.unlocked
<1> DEFINE S1 == Reenter(s)
           S2 == Then(S1, LAMBDA t : IFD_ChangePin(t, pin))
           Knows(t) == [t EXCEPT !.icc.pin = pin, !.icc.pin_ok = TRUE, !.icc.pin_needed = FALSE]
<1>0. s.icc.type \notin I2C
  BY DEF I2C
<1>1. r \in Then(S2, LAMBDA t : {Knows(t)})
  BY <1>0 DEF ICC_Sync_ChangePin
<1>2. S1 = {s}
  BY DEF Reenter
<1>3. S2 = IFD_ChangePin(s, pin)
  <2> HIDE DEF S1
  <2> QED
    BY <1>2 DEF Then
<1> HIDE DEF S2
<1>4. PICK t \in S2 : IF t.ret = "OK" THEN r = Knows(t) ELSE r = t
  BY <1>1 DEF Then
<1> DEFINE Set(p) == [s EXCEPT !.card.pin = p]
<1>5. t = Set(pin) \/ \E p \in {s.card.pin, pin} : t = Failed(Set(p))
  BY <1>3 DEF IFD_ChangePin
<1>6. ASSUME NEW p \in Pins
      PROVE  /\ Set(p) \in States /\ Set(p).icc = s.icc /\ Set(p).ret = "OK"
             /\ Set(p).card.powered /\ Set(p).card.unlocked
  <2> DEFINE c == [s.card EXCEPT !.pin = p]
  <2>1. Set(p) = [s EXCEPT !.card = c]
    OBVIOUS
  <2>2. c \in Card /\ c.powered /\ c.unlocked
    BY FieldTypes DEF Card
  <2> HIDE DEF c, Set
  <2> QED
    BY <2>1, <2>2, RecordFacts
<1> HIDE DEF Set
<1>7. t = Set(pin)
  <2>1. ASSUME NEW p \in Pins, t = Failed(Set(p)) PROVE FALSE
    <3> DEFINE u == Set(p)
    <3>1. u \in States /\ t = Failed(u)
      BY <1>6, <2>1
    <3> HIDE DEF u
    <3> QED
      BY <1>4, <3>1, FailedFacts
  <2> QED
    BY <1>5, <2>1
<1>8. t \in States /\ t.icc = s.icc /\ t.ret = "OK" /\ t.card.powered /\ t.card.unlocked
  BY <1>6, <1>7
<1> DEFINE i == [t.icc EXCEPT !.pin = pin, !.pin_ok = TRUE, !.pin_needed = FALSE]
<1>9. r = [t EXCEPT !.icc = i]
  BY <1>4, <1>8
<1>10. i.active
  BY <1>8, FieldTypes DEF Icc
<1> HIDE DEF i
<1> QED
  BY <1>8, <1>9, <1>10 DEF States

\* ICC_Sync_Init lets go of a card of two wires.
LEMMA InitReleases ==
  ASSUME NEW s \in States, s.ret = "OK", s.icc = Cleared, s.card.kind = "2W",
         NEW r \in ICC_Sync_Init(s), r.ret = "OK"
  PROVE  Released(r.icc)
<1> DEFINE S1 == Reset(s)
           S2 == Then(S1, ICC_Sync_ProbeCardType)
           S3 == Then(S2, ICC_Sync_ProbeMemoryLength)
           S4 == Then(S3, ICC_Sync_ProbePagemode)
           S5 == Then(S4, LAMBDA t : Exchange(t, t.card))
           S6 == Then(S5, Release)
           End(t) == IF t.ret = "OK" THEN [t EXCEPT !.icc.ready = TRUE]
                     ELSE [t EXCEPT !.icc = Cleared]
           On(t) == /\ t \in States /\ t.card.kind = "2W"
                    /\ t.ret = "OK" => t.icc.active /\ t.icc.type = "2W"
<1>1. PICK t \in S6 : r = End(t)
  BY DEF ICC_Sync_Init, Reset
<1>2. ASSUME NEW u \in S2 PROVE On(u)
  <2>1. PICK v \in S1 : IF v.ret = "OK" THEN u \in ICC_Sync_ProbeCardType(v) ELSE u = v
    BY DEF Then
  <2>2. v \in States /\ v.card.kind = "2W"
    BY ResetFacts
  <2> HIDE DEF S1
  <2>3. CASE v.ret = "OK"
    <3> DEFINE k == v.card.kind
    <3>0. k \in PinKinds /\ k \notin I2C /\ k = "2W"
      BY <2>2 DEF PinKinds, I2C
    <3>1. k \in Kinds \ {"OTHER"} /\ u = Began(v, k)
      BY <2>1, <2>3, <3>0 DEF ICC_Sync_ProbeCardType, Kinds
    <3> DEFINE i == [Cleared EXCEPT !.type = k, !.active = TRUE, !.pin_needed = TRUE]
    <3>2. u = [v EXCEPT !.icc = i]
      BY <3>1 DEF Began
    <3>3. i.active /\ i.type = "2W"
      BY <3>0 DEF Cleared
    <3> HIDE DEF i, k
    <3>4. u \in States /\ u.card = v.card
      BY <2>2, <3>1, BeganFacts
    <3>5. u.icc = i
      BY <2>2, <3>2 DEF States
    <3> QED
      BY <2>2, <3>3, <3>4, <3>5
  <2> QED
    BY <2>1, <2>2, <2>3
<1> HIDE DEF S2
<1>3. ASSUME NEW u \in S3 PROVE On(u)
  <2>1. PICK v \in S2 : IF v.ret = "OK" THEN u \in ICC_Sync_ProbeMemoryLength(v) ELSE u = v
    BY DEF Then
  <2>2. On(v)
    BY <1>2
  <2>3. CASE v.ret = "OK"
    <3>1. u \in Measured(v)
      BY <2>1, <2>2, <2>3 DEF ICC_Sync_ProbeMemoryLength, PinKinds
    <3>2. PICK n \in Lengths : u = [v EXCEPT !.icc.length = n]
      BY <3>1, SizeAssumption DEF Measured
    <3> DEFINE i == [v.icc EXCEPT !.length = n]
    <3>3. u = [v EXCEPT !.icc = i]
      BY <3>2
    <3>4. i \in Icc /\ i.active = v.icc.active /\ i.type = v.icc.type
      BY <2>2, FieldTypes DEF Icc
    <3> HIDE DEF i
    <3>5. u \in States /\ u.card = v.card /\ u.icc = i
      BY <2>2, <3>3, <3>4 DEF States
    <3> QED
      BY <2>2, <2>3, <3>4, <3>5
  <2> QED
    BY <2>1, <2>2, <2>3
<1> HIDE DEF S3
<1>4. ASSUME NEW u \in S4 PROVE On(u)
  <2>1. PICK v \in S3 : IF v.ret = "OK" THEN u \in ICC_Sync_ProbePagemode(v) ELSE u = v
    BY DEF Then
  <2>2. On(v)
    BY <1>3
  <2>3. CASE v.ret = "OK"
    <3> DEFINE p == IF v.icc.type = "I2C_LONG" THEN PageLong ELSE PageShort
               i == [v.icc EXCEPT !.page = p]
    <3>1. u = [v EXCEPT !.icc = i] /\ p \in {PageShort, PageLong}
      BY <2>1, <2>3 DEF ICC_Sync_ProbePagemode
    <3> HIDE DEF p
    <3>2. i \in Icc /\ i.active = v.icc.active /\ i.type = v.icc.type
      BY <2>2, <3>1, FieldTypes DEF Icc
    <3> HIDE DEF i
    <3>3. u \in States /\ u.card = v.card /\ u.icc = i
      BY <2>2, <3>1, <3>2 DEF States
    <3> QED
      BY <2>2, <2>3, <3>2, <3>3
  <2> QED
    BY <2>1, <2>2, <2>3
<1> HIDE DEF S4
<1>5. ASSUME NEW u \in S5 PROVE On(u)
  <2>1. PICK v \in S4 : IF v.ret = "OK" THEN u \in Exchange(v, v.card) ELSE u = v
    BY DEF Then
  <2>2. On(v)
    BY <1>4
  <2>3. v.ret = "OK" => u \in States /\ u.icc = v.icc /\ u.card = v.card
    BY <2>1, <2>2, TalkQuiet DEF Quiet
  <2> QED
    BY <2>1, <2>2, <2>3
<1> HIDE DEF S5
<1>6. PICK v \in S5 : IF v.ret = "OK" THEN t \in Release(v) ELSE t = v
  BY DEF Then
<1>7. On(v)
  BY <1>5
<1>8. t \in States
  <2>1. CASE v.ret = "OK"
    <3>1. v \in States
      BY <1>7
    <3>2. Quiet(v, t)
      BY <1>6, <2>1, <3>1, ReleaseFacts
    <3> QED
      BY <3>2 DEF Quiet
  <2> QED
    BY <1>6, <1>7, <2>1
<1>9. CASE t.ret = "OK"
  <2>1. v.ret = "OK" /\ t \in Release(v)
    BY <1>6, <1>9
  <2>2. Released(t.icc)
    BY <1>7, <1>9, <2>1, ReleaseNeeds
  <2> DEFINE i == [t.icc EXCEPT !.ready = TRUE]
  <2>3. r = [t EXCEPT !.icc = i]
    BY <1>1, <1>9
  <2>4. Released(i)
    BY <1>8, <2>2, FieldTypes DEF Icc, Released
  <2> HIDE DEF i
  <2> QED
    BY <1>8, <2>3, <2>4 DEF States
<1>10. CASE t.ret # "OK"
  <2>1. r = [t EXCEPT !.icc = Cleared]
    BY <1>1, <1>10
  <2>2. r.ret = t.ret
    BY <1>8, <2>1 DEF States
  <2> QED
    BY <1>10, <2>2
<1> QED
  BY <1>9, <1>10

\* All the bytes d are in the memory from address a on.
Holds(m, a, d) == \A i \in Address : i \in a .. a + Len(d) - 1 => m[i] = d[i - a + 1]

\* The write was dropped by a card of the I2C bus, which counts.
Missed(s, r) == s.card.kind \in I2C /\ r.lost = Least(s.lost + 1, 2)

\* A write of the reader that succeeds, on a card that accepts it: the bytes are all there,
\* or the card has dropped them.
LEMMA WriteBufferDone ==
  ASSUME NEW s \in States, s.ret = "OK", NEW a \in Nat, NEW d \in Seq(Bytes),
         s.icc.type = s.card.kind, Fits(s.card, a, d), Accepts(s.card),
         NEW r \in WriteBuffer(s, a, d), r.ret = "OK"
  PROVE  Holds(r.card.mem, a, d) \/ Missed(s, r)
<1>1. CASE r \in Dropped(s)
  <2>1. s.card.kind \in I2C /\ r = [s EXCEPT !.lost = Least(@ + 1, 2)]
    BY <1>1 DEF Dropped
  <2>2. r.lost = Least(s.lost + 1, 2)
    BY <2>1 DEF States
  <2> QED
    BY <2>1, <2>2 DEF Missed
<1>2. CASE r \notin Dropped(s)
  <2> DEFINE After(n) == [s EXCEPT !.card = Stored(@, a, SubSeq(d, 1, n))]
  <2>1. r \in Written(s, <<a, d>>)
    BY <1>2 DEF WriteBuffer, Transfers
  <2>2. <<a, d>>[1] = a /\ <<a, d>>[2] = d /\ Len(d) \in Nat
    OBVIOUS
  <2>3. r = After(Len(d)) \/ \E n \in 0 .. Len(d) : r = Failed(After(n))
    BY <2>1, <2>2 DEF Written
  <2>4. s.card \in Card
    BY FieldTypes
  <2>5. ASSUME NEW n \in 0 .. Len(d) PROVE Failed(After(n)).ret # "OK"
    <3> DEFINE c == Stored(s.card, a, SubSeq(d, 1, n))
               t == [s EXCEPT !.card = c]
    <3>1. SubSeq(d, 1, n) \in Seq(Bytes)
      BY <2>2, SubSeqProperties
    <3>2. c \in Card
      BY <2>4, <3>1, StoredFacts
    <3>3. After(n) = t
      OBVIOUS
    <3> HIDE DEF c, After
    <3>4. t \in States
      BY <3>2, RecordFacts
    <3> HIDE DEF t
    <3>5. Failed(t).ret = "IFD_ERROR"
      BY <3>4, FailedFacts
    <3> QED
      BY <3>3, <3>5
  <2>6. r = After(Len(d))
    BY <2>3, <2>5
  <2>7. SubSeq(d, 1, Len(d)) = d
    BY <2>2
  <2> DEFINE c == Stored(s.card, a, d)
  <2>8. r = [s EXCEPT !.card = c]
    BY <2>6, <2>7
  <2>9. c \in Card
    BY <2>4, StoredFacts
  <2>10. \A i \in Address : i \in a .. a + Len(d) - 1 => c.mem[i] = d[i - a + 1]
    BY <2>4, StoredAt
  <2> HIDE DEF c, After
  <2>11. r.card = c
    BY <2>8, <2>9, RecordFacts
  <2> QED
    BY <2>10, <2>11 DEF Holds
<1> QED
  BY <1>1, <1>2

\* What is read back is what was to be written, if it is all there.
LEMMA HoldsSection ==
  ASSUME NEW m, NEW a \in Nat, NEW d \in Seq(Bytes), a + Len(d) <= Size, Holds(m, a, d)
  PROVE  Section(m, a, Len(d)) = d
<1>0. Len(d) \in Nat /\ Size \in Nat \ {0}
  BY SizeAssumption
<1>1. ASSUME NEW k \in 1 .. Len(d) PROVE m[(a + k - 1) % Size] = d[k]
  <2> DEFINE i == a + k - 1
  <2>1. i \in 0 .. Size - 1 /\ i \in a .. a + Len(d) - 1 /\ i - a + 1 = k
    BY <1>0
  <2> HIDE DEF i
  <2>2. i % Size = i
    BY <1>0, <2>1, SmallMod
  <2>3. m[i] = d[k]
    BY <2>1 DEF Holds, Address
  <2> QED
    BY <2>2, <2>3 DEF i
<1>2. Section(m, a, Len(d)) = [k \in 1 .. Len(d) |-> d[k]]
  BY <1>1 DEF Section
<1> QED
  BY <1>2

\* What follows the entry of the PIN in a write fails only if an exchange does.
LEMMA SentParts ==
  ASSUME NEW s \in States, s.ret = "OK", Sound(s), ~s.faulty, NEW a \in Nat, NEW d \in Seq(Bytes),
         NEW r \in Sent(s, a, d)
  PROVE  /\ r.ret # "OK" => r.faulty \/ r \in Reenter(s)
         /\ r.ret = "OK" /\ s.icc.type = s.card.kind /\ Fits(s.card, a, d)
            /\ (\A u \in Reenter(s) : u.ret = "OK" => Accepts(u.card))
            => Holds(r.card.mem, a, d) \/ \E u \in Reenter(s) : Missed(u, r)
<1> DEFINE S1 == Reenter(s)
           S2 == Then(S1, SetWriteAddress)
           S3 == Then(S2, LAMBDA t : WriteBuffer(t, a, d))
<1>1. PICK t \in S3 : IF t.ret = "OK" THEN r \in Release(t) ELSE r = t
  BY DEF Sent, Then
<1>2. PICK u \in S2 : IF u.ret = "OK" THEN t \in WriteBuffer(u, a, d) ELSE t = u
  BY DEF Then
<1>3. PICK v \in S1 : IF v.ret = "OK" THEN u \in Exchange(v, v.card) ELSE u = v
  BY DEF Then, SetWriteAddress
<1>4. Fair(s, v) /\ v \in States
  BY ReenterFacts DEF Fair
<1> HIDE DEF S1, S2, S3
<1>5. CASE v.ret # "OK"
  <2>1. r = v
    BY <1>1, <1>2, <1>3, <1>5
  <2> QED
    BY <1>5, <2>1 DEF S1
<1>6. CASE v.ret = "OK"
  <2>1. Quiet(v, u) /\ u.card = v.card /\ u.icc = v.icc /\ u.lost = v.lost /\ u \in States
    BY <1>3, <1>4, <1>6, TalkQuiet DEF Quiet
  <2>2. u.ret = "OK" => Quiet(u, t) /\ t \in States
    <3> SUFFICES ASSUME u.ret = "OK" PROVE Quiet(u, t) /\ t \in States
      OBVIOUS
    <3>1. Quiet(u, t)
      BY <1>2, <2>1, WriteBufferFacts
    <3> QED
      BY <3>1 DEF Quiet
  <2>3. u.ret = "OK" /\ t.ret = "OK" => Quiet(t, r) /\ r.card.mem = t.card.mem /\ r.lost = t.lost
    BY <1>1, <2>2, ReleaseFacts
  <2>4. r.ret # "OK" => r.faulty
    BY <1>1, <1>2, <2>1, <2>2, <2>3 DEF Quiet
  <2>5. ASSUME r.ret = "OK", s.icc.type = s.card.kind, Fits(s.card, a, d),
               \A w \in Reenter(s) : w.ret = "OK" => Accepts(w.card)
        PROVE  Holds(r.card.mem, a, d) \/ \E w \in Reenter(s) : Missed(w, r)
    <3>1. Accepts(v.card) /\ v \in Reenter(s)
      BY <1>6, <2>5 DEF S1
    <3>2. t.ret = "OK" /\ u.ret = "OK"
      BY <1>1, <1>2, <2>5
    <3>3. u.icc.type = u.card.kind /\ Fits(u.card, a, d) /\ u.card.kind = s.card.kind
      BY <1>4, <2>1, <2>5 DEF Fair, Same, Fits, CardPage
    <3>4. Accepts(u.card) /\ t \in WriteBuffer(u, a, d)
      BY <1>2, <2>1, <3>1, <3>2
    <3>5. Holds(t.card.mem, a, d) \/ Missed(u, t)
      BY <2>1, <3>2, <3>3, <3>4, WriteBufferDone
    <3>6. r.card.mem = t.card.mem /\ r.lost = t.lost
      BY <2>3, <3>2
    <3>7. Missed(u, t) => Missed(v, r)
      BY <2>1, <3>6 DEF Missed
    <3> QED
      BY <3>1, <3>5, <3>6, <3>7
  <2> QED
    BY <2>4, <2>5
<1> QED
  BY <1>5, <1>6

\* A turn of the loop in ICC_Sync_Write: only a failed exchange or the entry of the PIN can
\* stop it, a card of two wires is let go of, and on a card that accepts the write it reads
\* back what it has written unless the card has dropped it.
LEMMA WriteTryDone ==
  ASSUME NEW s \in States, s.ret = "OK", Sound(s), ~s.faulty, NEW a \in Nat, NEW d \in Seq(Bytes),
         s.icc.type # "3W", NEW r \in WriteTry(s, a, d)
  PROVE  /\ r.ret # "OK" => r.faulty \/ r \in Reenter(s)
         /\ r.ret = "OK" => Released(r.icc)
         /\ r.ret = "OK" /\ s.icc.type = s.card.kind /\ Fits(s.card, a, d)
            /\ (\A u \in Reenter(s) : u.ret = "OK" => Accepts(u.card))
            => r.data = d \/ \E u \in Reenter(s) : Missed(u, r)
<1> DEFINE S == Sent(s, a, d)
           n == Len(d)
           Ready == /\ s.icc.type = s.card.kind /\ Fits(s.card, a, d)
                    /\ (\A u \in Reenter(s) : u.ret = "OK" => Accepts(u.card))
<1>0. n \in Nat
  OBVIOUS
<1>1. PICK t \in S : IF t.ret = "OK" THEN r \in ICC_Sync_Read(t, a, n) ELSE r = t
  BY DEF WriteTry, Then, Sent
<1>2. Fair(s, t) /\ t \in States
  BY SentFacts DEF Fair
<1>3. t.ret # "OK" => t.faulty \/ t \in Reenter(s)
  BY SentParts
<1>4. t.ret = "OK" /\ Ready => Holds(t.card.mem, a, d) \/ \E u \in Reenter(s) : Missed(u, t)
  BY SentParts
<1>5. r.ret = "OK" /\ Ready => r.data = Section(r.card.mem, a, n)
  BY WriteTryFacts
<1> HIDE DEF S, n, Ready
<1>6. CASE t.ret # "OK"
  BY <1>1, <1>3, <1>6
<1>7. CASE t.ret = "OK"
  <2>1. r \in ICC_Sync_Read(t, a, n) /\ t.icc.type # "3W"
    BY <1>1, <1>2, <1>7 DEF Fair, Same
  <2>2. Quiet(t, r) /\ r.card.mem = t.card.mem /\ r.lost = t.lost
    BY <1>0, <1>2, <1>7, <2>1, ReadFacts
  <2>3. r.ret = "OK" => Released(r.icc)
    BY <1>0, <1>2, <1>7, <2>1, ReadReleases
  <2>4. ASSUME r.ret = "OK", Ready
        PROVE  r.data = d \/ \E u \in Reenter(s) : Missed(u, r)
    <3>1. CASE Holds(t.card.mem, a, d)
      <4>1. a + Len(d) <= Size
        BY <2>4 DEF Ready, Fits
      <4>2. Section(r.card.mem, a, n) = d
        BY <2>2, <3>1, <4>1, HoldsSection DEF n
      <4> QED
        BY <1>5, <2>4, <4>2
    <3>2. CASE \E u \in Reenter(s) : Missed(u, t)
      BY <2>2, <3>2 DEF Missed
    <3> QED
      BY <1>4, <1>7, <2>4, <3>1, <3>2
  <2> QED
    BY <2>2, <2>3, <2>4 DEF Quiet, Ready
<1> QED
  BY <1>6, <1>7

\* The same for an I2C card, which needs no PIN.
LEMMA WriteTryI2C ==
  ASSUME NEW s \in States, s.ret = "OK", ~s.faulty, NEW a \in Nat, NEW d \in Seq(Bytes),
         s.icc.type \in I2C, NEW r \in WriteTry(s, a, d)
  PROVE  /\ r.ret # "OK" => r.faulty
         /\ r.ret = "OK" /\ s.icc.type = s.card.kind /\ Fits(s.card, a, d) =>
              r.data = d \/ r.lost = Least(s.lost + 1, 2)
<1>1. s.icc.type # "3W" /\ Sound(s)
  BY DEF I2C, PinKinds, Sound
<1>2. ASSUME NEW u \in Reenter(s)
      PROVE  Quiet(s, u) /\ u.lost = s.lost
  BY ReenterI2C
<1>3. r.ret # "OK" => r.faulty
  <2>1. r.ret # "OK" => r.faulty \/ r \in Reenter(s)
    BY <1>1, WriteTryDone
  <2> QED
    BY <1>2, <2>1 DEF Quiet
<1>4. ASSUME r.ret = "OK", s.icc.type = s.card.kind, Fits(s.card, a, d)
      PROVE  r.data = d \/ r.lost = Least(s.lost + 1, 2)
  <2>1. \A u \in Reenter(s) : u.ret = "OK" => Accepts(u.card)
    BY <1>2, <1>4 DEF Quiet, Same, Accepts, Served
  <2>2. r.data = d \/ \E u \in Reenter(s) : Missed(u, r)
    BY <1>1, <1>4, <2>1, WriteTryDone
  <2> QED
    BY <1>2, <2>2 DEF Missed
<1> QED
  BY <1>3, <1>4

\* The same for a card of two wires that the driver is right about.
LEMMA WriteTryKnown ==
  ASSUME NEW s \in States, s.ret = "OK", Sound(s), ~s.faulty, NEW a \in Nat, NEW d \in Seq(Bytes),
         s.icc.type = "2W", Known(s.card, s.icc), NEW r \in WriteTry(s, a, d), ~r.faulty
  PROVE  /\ Known(r.card, r.icc)
         /\ s.icc.pin_ok /\ s.icc.pin = s.card.pin /\ s.card.trials > 0 => r.ret = "OK"
         /\ s.icc.pin_ok /\ s.icc.pin = s.card.pin /\ s.card.trials > 0
            /\ s.icc.type = s.card.kind /\ Fits(s.card, a, d) => r.data = d
<1> DEFINE Open == s.icc.pin_ok /\ s.icc.pin = s.card.pin /\ s.card.trials > 0
<1>1. ASSUME NEW u \in Reenter(s)
      PROVE  /\ Fair(s, u) /\ u.card.kind = s.card.kind
             /\ ~u.faulty => Known(u.card, u.icc)
             /\ ~u.faulty /\ Open => u.ret = "OK" /\ u.card.powered /\ u.card.unlocked
  <2>1. Fair(s, u)
    BY ReenterFacts
  <2>2. ~u.faulty => /\ Known(u.card, u.icc)
                     /\ Open => u.ret = "OK" /\ u.card.powered /\ u.card.unlocked
    BY ReenterKnown
  <2> QED
    BY <2>1, <2>2 DEF Fair, Same
<1>2. /\ r.ret # "OK" => r.faulty \/ r \in Reenter(s)
      /\ r.ret = "OK" => Released(r.icc)
  BY WriteTryDone
<1>3. Known(r.card, r.icc)
  <2>1. CASE r.ret = "OK"
    BY <1>2, <2>1 DEF Known, Released
  <2>2. CASE r.ret # "OK"
    BY <1>1, <1>2, <2>2
  <2> QED
    BY <2>1, <2>2
<1>4. Open => r.ret = "OK"
  BY <1>1, <1>2
<1>5. ASSUME Open, s.icc.type = s.card.kind, Fits(s.card, a, d)
      PROVE  r.data = d
  <2>1. \A u \in Reenter(s) : u.ret = "OK" => Accepts(u.card)
    <3> SUFFICES ASSUME NEW u \in Reenter(s), u.ret = "OK" PROVE Accepts(u.card)
      OBVIOUS
    <3>1. ~u.faulty
      BY <1>1 DEF Fair
    <3> QED
      BY <1>1, <1>5, <3>1 DEF Accepts, Served
  <2>2. r.data = d \/ \E u \in Reenter(s) : Missed(u, r)
    BY <1>4, <1>5, <2>1, WriteTryDone
  <2>3. \A u \in Reenter(s) : ~Missed(u, r)
    BY <1>1, <1>5 DEF Missed, I2C
  <2> QED
    BY <2>2, <2>3
<1> QED
  BY <1>3, <1>4, <1>5

\* A command that is not an update.
LEMMA CommandFlags ==
  ASSUME Idle, job' = job, settled' /\ icc'.type = "2W" => Known(card', icc')
  PROVE  FlagInv'
BY DEF FlagInv, Idle

\* A card is initialised.
LEMMA StartFlags ==
  ASSUME IInv, IInv', Start
  PROVE  FlagInv'
<1>1. PICK r \in ICC_Sync_Init(Now) : Leaves(r, FALSE) /\ (settled' => r.ret = "OK")
  BY DEF Start
<1>2. TypeOK /\ icc = Cleared /\ job' = job /\ ~job.busy
  BY DEF IInv, Start, PinInv
<1>3. Now \in States /\ Now.card = card /\ Now.icc = Cleared /\ Now.ret = "OK"
  <2>1. 0 \in 0 .. 2
    OBVIOUS
  <2> QED
    BY <1>2, <2>1, NowFacts
<1>4. card' = r.card /\ icc' = r.icc /\ r.card.kind = card.kind
  <2>1. r.card.kind = Now.card.kind
    BY <1>1, <1>3, InitFacts
  <2> QED
    BY <1>1, <1>3, <2>1 DEF Leaves
<1>5. ASSUME settled', icc'.type = "2W" PROVE Known(card', icc')
  <2>1. Now.card.kind = "2W" /\ r.ret = "OK"
    BY <1>1, <1>3, <1>4, <1>5 DEF IInv, PinInv, PinKinds
  <2>2. Released(r.icc)
    BY <1>1, <1>3, <2>1, InitReleases
  <2> QED
    BY <1>4, <2>2 DEF Released, Known
<1> QED
  BY <1>2, <1>5 DEF FlagInv

\* READ BINARY and SELECT FILE.
LEMMA ReadFlags ==
  ASSUME IInv, Idle, job' = job, Held, NEW a \in Nat, NEW n \in Nat,
         NEW r \in ICC_Sync_Read(Now, a, n), Leaves(r, FALSE), settled' => ~r.faulty
  PROVE  FlagInv'
<1>1. Now \in States /\ Now.icc = icc /\ Now.ret = "OK" /\ icc' = r.icc
  BY ReadyFacts DEF Leaves, Idle
<1>2. ASSUME settled', icc'.type = "2W" PROVE Known(card', icc')
  <2>1. Quiet(Now, r)
    BY <1>1, ReadFacts
  <2>2. r.ret = "OK" /\ Now.icc.type # "3W"
    BY <1>1, <1>2, <2>1 DEF Quiet, Held
  <2>3. Released(r.icc)
    BY <1>1, <2>2, ReadReleases
  <2> QED
    BY <1>1, <2>3 DEF Released, Known
<1> QED
  BY <1>2, CommandFlags

\* The entry of a PIN by the application.
LEMMA VerifyKnown ==
  ASSUME IInv, icc.ready, icc.type = "2W", Known(card, icc), NEW pin \in Pins,
         NEW r \in ICC_Sync_EnterPin(Now, pin), ~r.faulty
  PROVE  /\ r \in States /\ Known(r.card, r.icc)
         /\ r.icc.type = "2W" /\ r.card.pin = card.pin /\ r.icc.active /\ r.card.powered
         /\ r.ret = "OK" => r.card.unlocked
<1>1. /\ Now \in States /\ Now.card = card /\ Now.icc = icc /\ Now.ret = "OK" /\ ~Now.faulty
      /\ Sound(Now)
  BY ReadyFacts
<1>2. pin \in Pins \union {<<>>} /\ Now.icc.type \in PinKinds /\ ~Asleep(Now)
  BY <1>1 DEF PinKinds, Asleep, Known
<1>3. Entered(Now, pin, r)
  BY <1>1, <1>2, EnterPinFacts
<1>4. /\ r.icc.active /\ r.card.powered
      /\ r.icc.pin_ok /\ r.card.trials > 0 => r.ret = "OK"
      /\ r.ret = "OK" => r.card.unlocked
  BY <1>1, <1>2, EnterPinKnown
<1> QED
  BY <1>1, <1>3, <1>4 DEF Entered, Same, Known

\* VERIFY.
LEMMA VerifyFlags ==
  ASSUME IInv, FlagInv, Held, NEW pin \in Pins, Verify(pin)
  PROVE  FlagInv'
<1>1. Idle /\ icc.ready /\ job' = job
  BY DEF Verify, Idle
<1>2. PICK r \in ICC_Sync_EnterPin(Now, pin) :
        card' = r.card /\ icc' = r.icc /\ settled' = (settled /\ ~r.faulty)
  BY DEF Verify, Leaves
<1>3. ASSUME settled', icc'.type = "2W" PROVE Known(card', icc')
  <2>1. icc.type = "2W" /\ Known(card, icc) /\ ~r.faulty
    BY <1>2, <1>3 DEF Held, FlagInv
  <2>2. Known(r.card, r.icc)
    BY <1>1, <1>2, <2>1, VerifyKnown
  <2> QED
    BY <1>2, <2>2
<1> QED
  BY <1>1, <1>3, CommandFlags

\* CHANGE VERIFY DATA.
LEMMA ChangeFlags ==
  ASSUME IInv, FlagInv, Held, NEW pin \in Pins, NEW newpin \in Pins, ChangeVerifyData(pin, newpin)
  PROVE  FlagInv'
<1>1. Idle /\ icc.ready /\ job' = job
  BY DEF ChangeVerifyData, Idle
<1> DEFINE S == ICC_Sync_EnterPin(Now, pin)
<1>2. PICK r \in Then(S, LAMBDA t : ICC_Sync_ChangePin(t, newpin)) :
        card' = r.card /\ icc' = r.icc /\ settled' = (settled /\ ~r.faulty)
  BY DEF ChangeVerifyData, Leaves
<1>3. PICK t \in S : IF t.ret = "OK" THEN r \in ICC_Sync_ChangePin(t, newpin) ELSE r = t
  BY DEF Then
<1>4. ASSUME settled', icc'.type = "2W" PROVE Known(card', icc')
  <2>1. icc.type = "2W" /\ Known(card, icc) /\ ~r.faulty
    BY <1>2, <1>4 DEF Held, FlagInv
  <2>2. t.ret = "OK" => ~t.faulty
    <3>1. /\ Now \in States /\ Now.ret = "OK" /\ ~Now.faulty /\ Sound(Now)
          /\ pin \in Pins \union {<<>>}
      BY <1>1, ReadyFacts
    <3>2. Entered(Now, pin, t)
      BY <1>3, <3>1, EnterPinFacts
    <3> QED
      BY <3>2 DEF Entered
  <2>3. ~t.faulty
    BY <1>3, <2>1, <2>2
  <2>4. /\ t \in States /\ Known(t.card, t.icc)
        /\ t.icc.type = "2W" /\ t.card.pin = card.pin /\ t.icc.active /\ t.card.powered
        /\ t.ret = "OK" => t.card.unlocked
    BY <1>1, <1>3, <2>1, <2>3, VerifyKnown
  <2> HIDE DEF S
  <2>5. CASE t.ret # "OK"
    BY <1>2, <1>3, <2>4, <2>5
  <2>6. CASE t.ret = "OK"
    <3>1. t.card.pin \in Pins
      BY <2>1, <2>4 DEF IInv, PinInv, PinKinds
    <3>2. r.icc.active /\ r.card.powered /\ r.card.unlocked
      BY <1>3, <2>1, <2>4, <2>6, <3>1, ChangePinKnown
    <3> QED
      BY <1>2, <3>2 DEF Known
  <2> QED
    BY <2>5, <2>6
<1> QED
  BY <1>1, <1>4, CommandFlags

\* How a turn of the loop ends: only a failed exchange, or a PIN that does not open the card,
\* is answered with 62, and each repetition stands for a write that the card dropped.
LEMMA ChunkFlags ==
  ASSUME IInv, WriteInv, FlagInv, Held, WriteChunk
  PROVE  /\ FlagInv'
         /\ settled /\ settled' /\ Matched /\ Writable => rsp' # "62"
<1> DEFINE a == job.addr + job.written
           n == ToWrite(icc, a, Len(job.data) - job.written)
           d == SubSeq(job.data, job.written + 1, job.written + n)
           s == [Now EXCEPT !.lost = job.lost]
           m == MaxRetries(icc, Len(job.data))
<1>1. /\ TypeOK /\ job.busy /\ job.written < Len(job.data) /\ icc.ready /\ rsp = "none"
  BY DEF IInv, PinInv, WriteChunk, WriteInv, JobInv
<1>2. PICK r \in WriteTry(s, a, d) :
        /\ \/ r.ret # "OK" /\ job' = NoJob /\ rsp' = "62"
           \/ /\ r.ret = "OK" /\ r.data = d /\ rsp' = rsp
              /\ job' = [job EXCEPT !.written = @ + n, !.retries = 0, !.lost = 0]
           \/ /\ r.ret = "OK" /\ r.data # d /\ rsp' = rsp
              /\ job' = [job EXCEPT !.retries = @ + 1, !.lost = r.lost]
           \/ /\ r.ret = "OK" /\ r.data # d /\ job.retries + 1 = m
              /\ job' = NoJob /\ rsp' = "62"
        /\ card' = r.card /\ icc' = r.icc
        /\ settled' = (settled /\ ~r.faulty /\ r.lost < m)
  BY DEF WriteChunk, Reply, Leaves
<1>3. a \in Nat /\ d \in Seq(Bytes)
  BY <1>1, ChunkFacts
<1>4. job \in Job /\ job.retries \in 0 .. 1 /\ job.lost \in 0 .. 2
  BY <1>1, JobFacts DEF TypeOK
<1>5. Matched => Fits(card, a, d)
  BY <1>1, ChunkFits
<1>6. /\ s \in States /\ s.card = card /\ s.icc = icc /\ s.ret = "OK" /\ ~s.faulty
      /\ s.lost = job.lost
  <2>1. s \in States /\ s.card = card /\ s.icc = icc /\ s.ret = "OK" /\ ~s.faulty
    BY <1>1, <1>4, NowFacts
  <2>2. s.lost = job.lost
    BY DEF Now
  <2> QED
    BY <2>1, <2>2
<1> HIDE DEF a, n, d, s, m
<1>7. Sound(s)
  BY <1>6 DEF Sound, IInv, PinInv
<1>8. icc'.type = icc.type /\ (Matched' <=> Matched)
  BY DEF Held, Matched
<1>9. icc.type # "3W" /\ r.ret = "OK" => Released(r.icc)
  BY <1>2, <1>3, <1>6, <1>7, WriteTryDone
<1>10. icc.type = "2W" /\ settled /\ ~r.faulty =>
         /\ Known(r.card, r.icc)
         /\ Writable => r.ret = "OK"
         /\ Writable /\ Matched => r.data = d
  <2> SUFFICES ASSUME icc.type = "2W", settled, ~r.faulty
               PROVE  /\ Known(r.card, r.icc)
                      /\ Writable => r.ret = "OK"
                      /\ Writable /\ Matched => r.data = d
    OBVIOUS
  <2>1. Known(s.card, s.icc) /\ s.icc.type = "2W"
    BY <1>6 DEF FlagInv
  <2>2. card.kind = "2W"
    BY DEF IInv, PinInv, PinKinds
  <2>3. Writable => s.icc.pin_ok /\ s.icc.pin = s.card.pin /\ s.card.trials > 0
    BY <1>6, <2>2 DEF Writable, I2C
  <2>4. /\ Known(r.card, r.icc)
        /\ s.icc.pin_ok /\ s.icc.pin = s.card.pin /\ s.card.trials > 0 => r.ret = "OK"
        /\ s.icc.pin_ok /\ s.icc.pin = s.card.pin /\ s.card.trials > 0
           /\ s.icc.type = s.card.kind /\ Fits(s.card, a, d) => r.data = d
    BY <1>2, <1>3, <1>6, <1>7, <2>1, WriteTryKnown
  <2> QED
    BY <1>5, <1>6, <2>2, <2>3, <2>4
<1>11. icc.type \in I2C =>
         /\ r.ret # "OK" => r.faulty
         /\ r.ret = "OK" /\ Matched => r.data = d \/ r.lost = job.retries + 1
  <2> SUFFICES ASSUME icc.type \in I2C
               PROVE  /\ r.ret # "OK" => r.faulty
                      /\ r.ret = "OK" /\ Matched => r.data = d \/ r.lost = job.retries + 1
    OBVIOUS
  <2>1. /\ r.ret # "OK" => r.faulty
        /\ r.ret = "OK" /\ s.icc.type = s.card.kind /\ Fits(s.card, a, d) =>
             r.data = d \/ r.lost = Least(s.lost + 1, 2)
    BY <1>2, <1>3, <1>6, WriteTryI2C
  <2>2. Matched => s.lost = job.retries
    BY <1>1, <1>6 DEF FlagInv
  <2>3. Least(job.retries + 1, 2) = job.retries + 1
    BY <1>4 DEF Least
  <2> QED
    BY <1>5, <1>6, <2>1, <2>2, <2>3 DEF Matched
<1>12. FlagInv'
  <2>1. settled' /\ icc'.type = "2W" => Known(card', icc')
    BY <1>2, <1>8, <1>10
  <2>2. job'.busy => r.ret = "OK"
    BY <1>2, NoJobFacts
  <2>3. job'.busy /\ icc'.type = "2W" => ~icc'.active /\ icc'.pin_needed
    BY <1>2, <1>8, <1>9, <2>2 DEF Released
  <2>4. job'.busy /\ Matched' /\ icc'.type \in I2C => job'.lost = job'.retries
    <3> SUFFICES ASSUME job'.busy, Matched', icc'.type \in I2C
                 PROVE  job'.lost = job'.retries
      OBVIOUS
    <3>1. CASE r.data = d
      <4>1. job' = [job EXCEPT !.written = @ + n, !.retries = 0, !.lost = 0]
        BY <1>2, <2>2, <3>1, NoJobFacts
      <4> QED
        BY <1>4, <4>1 DEF Job
    <3>2. CASE r.data # d
      <4>1. job' = [job EXCEPT !.retries = @ + 1, !.lost = r.lost]
        BY <1>2, <2>2, <3>2, NoJobFacts
      <4>2. r.lost = job.retries + 1
        BY <1>8, <1>11, <2>2, <3>2
      <4> QED
        BY <1>4, <4>1, <4>2 DEF Job
    <3> QED
      BY <3>1, <3>2
  <2> QED
    BY <2>1, <2>3, <2>4 DEF FlagInv
<1>13. ASSUME settled, settled', Matched, Writable PROVE rsp' # "62"
  <2>1. ~r.faulty /\ r.lost < m
    BY <1>2, <1>13
  <2>2. icc.type = "2W" \/ icc.type \in I2C
    BY <1>13 DEF Matched, Writable
  <2>3. r.ret = "OK"
    BY <1>10, <1>11, <1>13, <2>1, <2>2
  <2>4. r.data # d => r.lost = job.retries + 1
    BY <1>10, <1>11, <1>13, <2>1, <2>2, <2>3
  <2>5. ~(r.data # d /\ job.retries + 1 = m)
    <3> SUFFICES ASSUME r.data # d, job.retries + 1 = m PROVE FALSE
      OBVIOUS
    <3>1. r.lost = m /\ m \in Nat
      BY <1>4, <2>4
    <3> QED
      BY <2>1, <3>1
  <2> QED
    BY <1>1, <1>2, <2>3, <2>5
<1> QED
  BY <1>12, <1>13

\* Every step keeps it.
LEMMA NextFlags ==
  ASSUME IInv, IInv', WriteInv, FlagInv, [Next]_vars
  PROVE  FlagInv'
<1>1. CASE UNCHANGED vars
  BY <1>1 DEF vars, FlagInv, Matched
<1>2. CASE Start
  BY <1>2, StartFlags
<1>3. CASE Close
  BY <1>3, CommandFlags DEF Close
<1>4. ASSUME NEW o \in Offsets, NEW n \in 0 .. MaxData, ReadBinary(o, n) PROVE FlagInv'
  <2> DEFINE a == ps[1] + o
             m == Least(n, Available(o))
  <2>1. PICK r \in ICC_Sync_Read(Now, a, m) : Leaves(r, FALSE) /\ settled' = ~r.faulty
    BY <1>4 DEF ReadBinary
  <2>2. a \in Nat /\ m \in Nat
    <3>1. ps[1] \in Nat /\ o \in Nat /\ Available(o) \in Nat /\ n \in Nat
      BY FileFacts, TransmitAssumption DEF IInv
    <3> QED
      BY <3>1 DEF Least
  <2> HIDE DEF a, m
  <2>3. Held /\ Idle /\ job' = job
    BY <1>4, StepRead DEF ReadBinary
  <2> QED
    BY <2>1, <2>2, <2>3, ReadFlags
<1>5. ASSUME NEW o \in Offsets, NEW d \in Data, UpdateBinary(o, d) PROVE FlagInv'
  <2>1. /\ card' = card /\ icc' = icc /\ settled' = settled
        /\ job'.written = 0 /\ job'.lost = 0 /\ job'.retries = 0
    BY <1>5 DEF UpdateBinary, NoJob
  <2> QED
    BY <2>1 DEF FlagInv
<1>6. CASE WriteChunk
  BY <1>6, StepChunk, ChunkFlags
<1>7. CASE UpdateEnds
  <2>1. /\ card' = card /\ icc' = icc /\ ~job'.busy /\ job.busy
        /\ settled' = (settled \/ job.data # <<>>) /\ job.written = Len(job.data)
    BY <1>7, NoJobFacts DEF UpdateEnds, Reply
  <2>2. job.data # <<>> => job.written > 0
    BY <2>1, JobFacts DEF IInv
  <2> QED
    BY <2>1, <2>2 DEF FlagInv, Known
<1>8. CASE SelectFile
  <2> DEFINE z == 0
             n == 1
  <2>1. PICK r \in ICC_Sync_Read(Now, z, n) : Leaves(r, FALSE) /\ settled' = ~r.faulty
    BY <1>8 DEF SelectFile
  <2>2. z \in Nat /\ n \in Nat
    OBVIOUS
  <2> HIDE DEF z, n
  <2>3. Held /\ Idle /\ job' = job
    BY <1>8, StepSelectFile DEF SelectFile
  <2> QED
    BY <2>1, <2>2, <2>3, ReadFlags
<1>9. CASE SelectMaster \/ BadCommand
  BY <1>9, CommandFlags DEF SelectMaster, BadCommand, FlagInv
<1>10. ASSUME NEW p \in Pins, Verify(p) PROVE FlagInv'
  BY <1>10, StepVerify, VerifyFlags
<1>11. ASSUME NEW p \in Pins, NEW q \in Pins, ChangeVerifyData(p, q) PROVE FlagInv'
  BY <1>11, StepChange, ChangeFlags
<1> QED
  BY <1>1, <1>2, <1>3, <1>4, <1>5, <1>6, <1>7, <1>8, <1>9, <1>10, <1>11 DEF Next

-----------------------------------------------------------------------------
(* The theorems. *)

\* The invariant is there from the start, for a new card with all its trials.
LEMMA InitInv ==
  ASSUME Init
  PROVE  IInv
<1>1. PICK k \in Kinds, m \in [Address -> Bytes], p \in Pins :
        card = [kind |-> k, mem |-> m, powered |-> FALSE, unlocked |-> FALSE,
                pin |-> IF k \in PinKinds THEN p ELSE <<>>, trials |-> MaxTrials]
  BY DEF Init
<1>2. /\ icc = Cleared /\ ps = <<0, 0>> /\ job = NoJob /\ rsp = "none" /\ before = card.mem
      /\ settled = FALSE /\ strikes = 0
  BY DEF Init
<1>3. MaxTrials \in 0 .. MaxTrials /\ 0 \in 0 .. MaxTrials
  BY TrialsAssumption
<1> DEFINE q == IF k \in PinKinds THEN p ELSE <<>>
<1>4. q \in Pins \union {<<>>} /\ (k \in PinKinds => q \in Pins)
  OBVIOUS
<1>5. card = [kind |-> k, mem |-> m, powered |-> FALSE, unlocked |-> FALSE,
              pin |-> q, trials |-> MaxTrials]
  BY <1>1
<1> HIDE DEF q
<1>6. /\ card \in Card /\ card.kind = k /\ card.pin = q /\ card.trials = MaxTrials
      /\ card.mem \in [Address -> Bytes]
  BY <1>3, <1>4, <1>5 DEF Card
<1>7. TypeOK
  <2>1. <<0, 0>> \in {0} \X (Lengths \union {0})
    OBVIOUS
  <2> QED
    BY <1>2, <1>3, <1>6, <2>1, ClearedFacts, NoJobFacts DEF TypeOK
<1>8. PinInv
  BY <1>2, <1>4, <1>6, ClearedFacts, NoJobFacts DEF PinInv
<1>9. TrialsJustified
  <2>1. MaxTrials - card.trials = 0
    BY <1>3, <1>6
  <2>2. ~((icc.pin_ok /\ icc.pin # card.pin) \/ (icc.active /\ ~card.powered))
    BY <1>2, ClearedFacts
  <2> QED
    BY <1>2, <2>1, <2>2 DEF TrialsJustified
<1> QED
  BY <1>7, <1>8, <1>9 DEF IInv

\* Every step keeps it: a lemma for each command.
LEMMA NextInv ==
  ASSUME IInv, [Next]_vars
  PROVE  IInv'
<1>1. CASE UNCHANGED vars
  BY <1>1 DEF vars, IInv, TypeOK, PinInv, TrialsJustified
<1>2. CASE Start
  BY <1>2, StepStart
<1>3. CASE Close
  BY <1>3, StepClose
<1>4. ASSUME NEW o \in Offsets, NEW n \in 0 .. MaxData, ReadBinary(o, n) PROVE IInv'
  BY <1>4, StepRead
<1>5. ASSUME NEW o \in Offsets, NEW d \in Data, UpdateBinary(o, d) PROVE IInv'
  BY <1>5, StepUpdate
<1>6. CASE WriteChunk
  BY <1>6, StepChunk
<1>7. CASE UpdateEnds
  BY <1>7, StepEnds
<1>8. CASE SelectFile
  BY <1>8, StepSelectFile
<1>9. CASE SelectMaster \/ BadCommand
  BY <1>9, StepIdle
<1>10. ASSUME NEW p \in Pins, Verify(p) PROVE IInv'
  BY <1>10, StepVerify
<1>11. ASSUME NEW p \in Pins, NEW q \in Pins, ChangeVerifyData(p, q) PROVE IInv'
  BY <1>11, StepChange
<1> QED
  BY <1>1, <1>2, <1>3, <1>4, <1>5, <1>6, <1>7, <1>8, <1>9, <1>10, <1>11 DEF Next

\* The inductive invariant: types, which cards are driven as cards with a PIN, and the
\* account of the trials.
THEOREM Invariant == Spec => []IInv
<1>1. Init => IInv
  BY InitInv
<1>2. IInv /\ [Next]_vars => IInv'
  BY NextInv
<1> QED
  BY <1>1, <1>2, PTL DEF Spec

\* Card, ICC object and job keep their types; in particular what is read and written are
\* bytes of the card, and a part of an update is repeated once at most.
THEOREM TypeCorrect == Spec => []TypeOK
<1>1. IInv => TypeOK
  BY DEF IInv
<1> QED
  BY <1>1, Invariant, PTL

\* The driver spends no trial that a wrong PIN of the application or a failed exchange does
\* not account for.
THEOREM TrialsAreJustified == Spec => []TrialsJustified
<1>1. IInv => TrialsJustified
  BY DEF IInv
<1> QED
  BY <1>1, Invariant, PTL

\* Every other command waits until an update has ended, and all but the first for the
\* initialisation.
LEMMA OtherCommands ==
  ASSUME IInv, Next, ~WriteChunk, ~UpdateEnds
  PROVE  ~job.busy /\ (~Start => icc.ready)
<1>1. CASE Start
  BY <1>1 DEF Start, IInv, PinInv
<1>2. CASE Close \/ SelectFile \/ SelectMaster \/ BadCommand
  BY <1>2 DEF Close, SelectFile, SelectMaster, BadCommand, Idle
<1>3. ASSUME NEW o \in Offsets, NEW n \in 0 .. MaxData, ReadBinary(o, n) PROVE Idle
  BY <1>3 DEF ReadBinary
<1>4. ASSUME NEW o \in Offsets, NEW d \in Data, UpdateBinary(o, d) PROVE Idle
  BY <1>4 DEF UpdateBinary
<1>5. ASSUME NEW p \in Pins, Verify(p) PROVE Idle
  BY <1>5 DEF Verify
<1>6. ASSUME NEW p \in Pins, NEW q \in Pins, ChangeVerifyData(p, q) PROVE Idle
  BY <1>6 DEF ChangeVerifyData
<1> QED
  BY <1>1, <1>2, <1>3, <1>4, <1>5, <1>6 DEF Next, Idle

\* Every turn of the loop in ICC_Sync_Write but the last one gets on or uses up the one
\* repetition, on every card and for every size of page and transfer.
THEOREM UpdatesProgress == Spec => UpdateProgresses
<1> DEFINE Progress ==
      job.busy /\ job'.busy =>
        \/ job'.written > job.written /\ job'.written <= Len(job.data) /\ job'.retries = 0
        \/ job'.written = job.written /\ job.retries = 0 /\ job'.retries = 1
<1>1. ASSUME IInv, [Next]_vars
      PROVE  [Progress]_vars
  <2>1. CASE UNCHANGED vars
    BY <2>1
  <2>2. CASE WriteChunk
    BY <1>1, <2>2, ChunkProgress
  <2>3. CASE UpdateEnds
    BY <2>3, NoJobFacts DEF UpdateEnds, Reply
  <2>4. CASE Next /\ ~WriteChunk /\ ~UpdateEnds
    <3>1. ~job.busy
      BY <1>1, <2>4, OtherCommands
    <3> QED
      BY <3>1, SMTT(30)
  <2> QED
    BY <1>1, <2>1, <2>2, <2>3, <2>4
<1> QED
  BY <1>1, Invariant, PTL DEF Spec, UpdateProgresses

\* The invariant of the updates: the page and the file go with the card, and what an update
\* counts as written is there.
THEOREM WriteInvariant == Spec => []WriteInv
<1>1. Init => WriteInv
  BY ClearedFacts, NoJobFacts DEF Init, WriteInv, ReadyInv, JobInv, UpdateInside, StoredInv,
                                  PinKinds
<1>2. IInv /\ WriteInv /\ [Next]_vars => WriteInv'
  BY NextWrites
<1> QED
  BY <1>1, <1>2, Invariant, PTL DEF Spec

\* An update that is cut at the ends of the pages, repeated and broken off anywhere changes
\* no byte but those it was given, inside the selected file: for every size of the card,
\* of its pages and of a transfer.
THEOREM UpdatesInside == Spec => []UpdateInside
<1>1. WriteInv => UpdateInside
  BY DEF WriteInv
<1> QED
  BY <1>1, WriteInvariant, PTL

\* An update that is answered with 90 00 is in the card, and nothing else has changed.
THEOREM UpdatesStored == Spec => UpdateStored
<1> DEFINE Done == job.busy /\ Matched /\ rsp' = "9000" =>
                     \A i \in Address : card'.mem[i] = IF i \in Target
                                                      THEN job.data[i - job.addr + 1]
                                                      ELSE before[i]
<1>1. ASSUME IInv, WriteInv, [Next]_vars
      PROVE  [Done]_vars
  <2>1. CASE UNCHANGED vars
    BY <2>1
  <2>2. CASE WriteChunk
    <3>1. rsp' = "62" \/ rsp' = rsp
      BY <1>1, <2>2, ChunkJob
    <3>2. rsp = "none"
      BY <1>1, <2>2 DEF WriteChunk, WriteInv, JobInv
    <3> QED
      BY <3>1, <3>2
  <2>3. CASE UpdateEnds
    <3>1. SUFFICES ASSUME Matched, NEW i \in Address
                   PROVE  card'.mem[i] = IF i \in Target THEN job.data[i - job.addr + 1]
                                         ELSE before[i]
      OBVIOUS
    <3>2. /\ job.busy /\ job.written = Len(job.data) /\ card' = card
          /\ UpdateInside /\ StoredInv
      BY <1>1, <2>3 DEF UpdateEnds, WriteInv
    <3>3. job.addr \in Nat /\ Len(job.data) \in Nat /\ i \in Int
      BY <1>1, JobFacts, TransmitAssumption, SizeAssumption DEF IInv, Address
    <3>4. CASE i \in Target
      <4> DEFINE k == i - job.addr + 1
      <4>1. k \in 1 .. Len(job.data) /\ job.addr + k - 1 = i
        BY <3>3, <3>4, SMTT(30) DEF Target
      <4>2. card.mem[job.addr + k - 1] = job.data[k]
        BY <3>1, <3>2, <4>1 DEF StoredInv
      <4> QED
        BY <3>2, <3>4, <4>1, <4>2
    <3>5. CASE i \notin Target
      BY <3>1, <3>2, <3>5 DEF UpdateInside
    <3> QED
      BY <3>4, <3>5
  <2>4. CASE Next /\ ~WriteChunk /\ ~UpdateEnds
    <3>1. ~job.busy
      BY <1>1, <2>4, OtherCommands
    <3> QED
      BY <3>1
  <2> QED
    BY <1>1, <2>1, <2>2, <2>3, <2>4
<1> QED
  BY <1>1, Invariant, WriteInvariant, PTL DEF Spec, UpdateStored

\* The flags active, pin_ok and pin_needed follow what the card has forgotten, as long as no
\* exchange fails, and every repetition of a part stands for a write that the card dropped.
THEOREM FlagInvariant == Spec => []FlagInv
<1>1. Init => FlagInv
  BY ClearedFacts, NoJobFacts DEF Init, FlagInv, PinKinds
<1>2. IInv /\ IInv' /\ WriteInv /\ FlagInv /\ [Next]_vars => FlagInv'
  BY NextFlags
<1> QED
  BY <1>1, <1>2, Invariant, WriteInvariant, PTL DEF Spec

\* An update on a card that may be written, and with which no exchange fails, is carried out:
\* for every size of the card, of its pages and of a transfer, and for every PIN.
THEOREM UpdatesCarriedOut == Spec => UpdateCarriedOut
<1> DEFINE Done == job.busy /\ ~job.short /\ settled /\ settled' /\ Matched /\ Writable
                     => rsp' # "62"
<1>1. ASSUME IInv, WriteInv, FlagInv, [Next]_vars
      PROVE  [Done]_vars
  <2>1. CASE UNCHANGED vars
    BY <2>1
  <2>2. CASE WriteChunk
    BY <1>1, <2>2, StepChunk, ChunkFlags
  <2>3. CASE UpdateEnds
    BY <2>3 DEF UpdateEnds, Reply
  <2>4. CASE Next /\ ~WriteChunk /\ ~UpdateEnds
    <3>1. ~job.busy
      BY <1>1, <2>4, OtherCommands
    <3> QED
      BY <3>1
  <2> QED
    BY <1>1, <2>1, <2>2, <2>3, <2>4
<1> QED
  BY <1>1, Invariant, WriteInvariant, FlagInvariant, PTL DEF Spec, UpdateCarriedOut

\* Finding out the type of a card sets back the byte it changes: an initialisation in which
\* nothing fails leaves the memory as it was, whatever is in it and whichever the card is.
THEOREM ProbesPreserve == Spec => ProbePreserves
<1>1. ASSUME IInv, [Next]_vars
      PROVE  [~icc.ready /\ settled' => card'.mem = card.mem]_vars
  <2>1. CASE UNCHANGED vars
    BY <2>1
  <2>2. CASE Start
    <3>1. PICK r \in ICC_Sync_Init(Now) :
            /\ Leaves(r, FALSE)
            /\ settled' = (r.ret = "OK" /\ ~r.faulty /\ r.lost = 0)
      BY <2>2 DEF Start
    <3>2. TypeOK /\ icc = Cleared
      BY <1>1, <2>2 DEF IInv, Start, PinInv
    <3>3. Now \in States /\ Now.card = card /\ Now.icc = Cleared /\ Now.ret = "OK"
      <4>1. 0 \in 0 .. 2
        OBVIOUS
      <4> QED
        BY <3>2, <4>1, NowFacts
    <3>4. Kept(Now, r)
      BY <3>1, <3>3, InitFacts
    <3>5. card' = r.card
      BY <3>1 DEF Leaves
    <3> QED
      BY <3>1, <3>3, <3>4, <3>5 DEF Kept, Clean
  <2>3. CASE Next /\ ~Start
    <3>1. icc.ready
      <4>1. CASE WriteChunk \/ UpdateEnds
        BY <1>1, <4>1 DEF WriteChunk, UpdateEnds, IInv, PinInv
      <4>2. CASE ~WriteChunk /\ ~UpdateEnds
        BY <1>1, <2>3, <4>2, OtherCommands
      <4> QED
        BY <4>1, <4>2
    <3> QED
      BY <3>1, SMTT(30)
  <2> QED
    BY <1>1, <2>1, <2>2, <2>3
<1> QED
  BY <1>1, Invariant, PTL DEF Spec, ProbePreserves

=============================================================================
