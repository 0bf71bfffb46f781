----------------------------- MODULE MemoryCard -----------------------------
(***************************************************************************)
(* Memory cards: the ICC_Sync object (driver/icc_sync.c), the commands     *)
(* that Protocol_Sync carries out on it (driver/protocol_sync.c) and the   *)
(* exchanges with the reader they are made of (driver/ifd_towitoko.c).     *)
(*                                                                         *)
(* A function of icc_sync.c is an operator that takes what it may change,  *)
(* one record with the card, the ICC object and the result so far, and     *)
(* returns the set of records it may leave behind: an exchange with the    *)
(* reader may fail before or after the card has acted on it. Nobody else   *)
(* uses the card, so a function is one step of the model, except           *)
(* ICC_Sync_Write: each turn of its loop is a step (WriteChunk).           *)
(***************************************************************************)
EXTENDS Integers, Sequences

CONSTANTS
  Size,        \* bytes of memory of the card
  Lengths,     \* memory sizes the length probe may report
  PageShort,   \* range of the low byte of the address counter (256)
  PageLong,    \* page of a card with long addresses (64)
  MaxTransmit, \* ICC_SYNC_MAX_TRANSMIT (256)
  Bytes,       \* values of a byte
  Blank,       \* 0xFF, read from a card without power
  Halves,      \* a PIN is written in two parts on a 3W card
  MaxTrials,   \* error counter of a new card (3 for 2W, 8 for 3W)
  MaxData,     \* longest UPDATE BINARY
  Paths,       \* where the files that SELECT FILE finds begin
  FileLength   \* and how long they are

ASSUME SizeAssumption == Size \in Nat \ {0} /\ Size \in Lengths /\ Lengths \subseteq Nat
ASSUME PageAssumption == PageShort \in Nat \ {0} /\ PageLong \in Nat \ {0}
ASSUME TransmitAssumption == MaxTransmit \in Nat \ {0} /\ MaxData \in Nat
ASSUME BytesAssumption == Blank \in Bytes /\ Bytes # {Blank}
ASSUME TrialsAssumption == MaxTrials \in Nat \ {0}
ASSUME FilesAssumption == Paths \subseteq 0 .. Size - 1 /\ FileLength \in Nat

I2C == {"I2C_SHORT", "I2C_LONG"}
PinKinds == {"2W", "3W"}
Kinds == I2C \union PinKinds \union {"OTHER"}
Address == 0 .. Size - 1
Pins == Halves \X Halves
Data == UNION {[1 .. n -> Bytes] : n \in 0 .. MaxData}

Least(m, n) == IF m < n THEN m ELSE n

Files == {<<p, Least(FileLength, Size - p)>> : p \in Paths}

VARIABLES
  card,     \* the card in the reader
  icc,      \* struct ICC_Sync
  ps,       \* struct Protocol_Sync: path and length of the selected file
  job,      \* the ICC_Sync_Write in progress
  rsp,      \* status bytes of the last response
  before,   \* history: the memory when the update in progress began
  settled,  \* history: the last command went undisturbed and let go of the card
  strikes   \* history: commands that may have cost a trial, at most MaxTrials

vars == <<card, icc, ps, job, rsp, before, settled, strikes>>

-----------------------------------------------------------------------------
(* The card and the reader. *)

Card == [kind : Kinds, mem : [Address -> Bytes], powered : BOOLEAN,
         unlocked : BOOLEAN, pin : Pins \union {<<>>}, trials : 0 .. MaxTrials]

PowerOn(c) == [c EXCEPT !.powered = TRUE]
PowerOff(c) == [c EXCEPT !.powered = FALSE, !.unlocked = FALSE]

\* ICC_Sync_ProbeCardType reads an I2C card that it has just deactivated: the
\* reader serves such a card at any time, the others only while activated.
Served(c) == c.powered \/ c.kind \in I2C

Cleared == [type |-> "I2C_SHORT", length |-> 0, page |-> PageShort, pin |-> <<>>,
            pin_ok |-> FALSE, pin_needed |-> FALSE, active |-> FALSE, ready |-> FALSE]

\* What a function works on. "faulty": an exchange failed; "lost": the card
\* did not store a write that the reader acknowledged.
Now == [card |-> card, icc |-> icc, ret |-> "OK", data |-> <<>>, trials |-> 0,
        faulty |-> FALSE, lost |-> 0]

Failed(s) == [s EXCEPT !.ret = "IFD_ERROR", !.faulty = TRUE]

\* One exchange with the reader that turns the card into c.
Exchange(s, c) ==
  {[s EXCEPT !.card = c], Failed(s), Failed([s EXCEPT !.card = c])}

\* S, then Op where that went well. A caller that ignores a result goes on
\* with Ignore(S).
Then(S, Op(_)) == UNION {IF s.ret = "OK" THEN Op(s) ELSE {s} : s \in S}
Ignore(S) == {[s EXCEPT !.ret = "OK"] : s \in S}

-----------------------------------------------------------------------------
(* Power. *)

\* Mutant: pin_needed is not set when the card is deactivated.
ReleaseKeepsPin(s) ==
  IF s.icc.type # "3W" /\ s.icc.active
  THEN Then(Exchange(s, PowerOff(s.card)), LAMBDA t : {[t EXCEPT !.icc.active = FALSE]})
  ELSE {s}

NeedsPin(i) == i.type \in PinKinds /\ i.pin_needed
NeedsDeactivate(i) == i.type # "3W" /\ i.active

Activate(s) ==
  IF s.icc.active THEN {s}
  ELSE Then(Exchange(s, PowerOn(s.card)), LAMBDA t : {[t EXCEPT !.icc.active = TRUE]})

Release(s) ==
  IF NeedsDeactivate(s.icc)
  THEN Then(Exchange(s, PowerOff(s.card)),
            LAMBDA t : {[t EXCEPT !.icc.pin_needed = TRUE, !.icc.active = FALSE]})
  ELSE {s}

-----------------------------------------------------------------------------
(* Reading. *)

SetReadAddress(s) == Exchange(s, s.card)

\* A card that is driven with the wrong kind of address answers anything.
BytesRead(s, a, n) ==
  IF s.icc.type # s.card.kind THEN [1 .. n -> Bytes]
  ELSE {[k \in 1 .. n |-> IF Served(s.card) THEN s.card.mem[(a + k - 1) % Size] ELSE Blank]}

ReadBuffer(s, a, n) == {[s EXCEPT !.data = d] : d \in BytesRead(s, a, n)} \union {Failed(s)}

ICC_Sync_Read(s, a, n) ==
  Then(Then(Then(Activate(s), SetReadAddress), LAMBDA t : ReadBuffer(t, a, n)), Release)

-----------------------------------------------------------------------------
(* The PIN. *)

\* A card that is off is read as blank bytes, all bits of the counter set.
CounterRead(c) == IF Served(c) THEN c.trials ELSE MaxTrials

ReadErrorCounter(s) == Exchange(s, s.card)

\* The three writes of a PIN entry: the counter goes down, the card compares,
\* and the counter is set back, which the card allows after a match only.
Spent(c, trial) == IF Served(c) THEN [c EXCEPT !.trials = trial - 1] ELSE c
Compared(c, pin) == IF Served(c) THEN [c EXCEPT !.unlocked = (pin = c.pin)] ELSE c
Restored(c) == IF c.unlocked THEN [c EXCEPT !.trials = MaxTrials] ELSE c

IFD_EnterPin(s, pin) ==
  LET spent == Spent(s.card, s.trials)
      compared == Compared(spent, pin)
      restored == Restored(compared)
  IN {[s EXCEPT !.card = restored]}
       \union {Failed([s EXCEPT !.card = c]) : c \in {s.card, spent, compared, restored}}

\* Mutant: pin_ok is kept after a wrong PIN.
JudgeKeepsPinOk(s, pin) ==
  IF CounterRead(s.card) < s.trials THEN {[s EXCEPT !.ret = "PIN_ERROR"]}
  ELSE {[s EXCEPT !.icc.pin = pin, !.icc.pin_ok = TRUE, !.icc.pin_needed = FALSE]}

\* The counter is lower than it was before: the PIN was wrong.
Judge(s, pin) ==
  IF CounterRead(s.card) < s.trials
  THEN {[s EXCEPT !.icc.pin_ok = FALSE, !.ret = "PIN_ERROR"]}
  ELSE {[s EXCEPT !.icc.pin = pin, !.icc.pin_ok = TRUE, !.icc.pin_needed = FALSE]}

Stop(s) == IF s.trials = 0 THEN {[s EXCEPT !.ret = "BLOCKED_ERROR"]} ELSE {s}

ICC_Sync_EnterPin(s, pin) ==
  IF s.icc.type \in I2C THEN {s}
  ELSE LET counted == Then(Then(Activate(s), ReadErrorCounter),
                           LAMBDA t : Stop([t EXCEPT !.trials = CounterRead(t.card)]))
       IN Then(Then(Then(counted, LAMBDA t : IFD_EnterPin(t, pin)), ReadErrorCounter),
               LAMBDA t : Judge(t, pin))

\* A card that had to be activated gets the PIN the driver remembers again.
Reenter(s) ==
  IF s.icc.active THEN {s}
  ELSE Then(Activate(s), LAMBDA t : IF t.icc.pin_ok /\ NeedsPin(t.icc)
                                    THEN ICC_Sync_EnterPin(t, t.icc.pin) ELSE {t})

\* A 3W card takes the two halves of the PIN one by one.
IFD_ChangePin(s, pin) ==
  LET Set(p) == IF s.card.unlocked THEN [s EXCEPT !.card.pin = p] ELSE s
      partly == IF s.icc.type = "3W" THEN {<<pin[1], s.card.pin[2]>>} ELSE {}
  IN {Set(pin)} \union {Failed(Set(p)) : p \in {s.card.pin, pin} \union partly}

ICC_Sync_ChangePin(s, pin) ==
  IF s.icc.type \in I2C THEN {s}
  ELSE Then(Then(Reenter(s), LAMBDA t : IFD_ChangePin(t, pin)),
            LAMBDA t : {[t EXCEPT !.icc.pin = pin, !.icc.pin_ok = TRUE,
                                  !.icc.pin_needed = FALSE]})

-----------------------------------------------------------------------------
(* Writing. *)

SetWriteAddress(s) == Exchange(s, s.card)

CardPage(c) == IF c.kind = "I2C_LONG" THEN PageLong ELSE PageShort

\* Byte k of a transfer to address a: the address counter of the card does
\* not leave the page.
Lands(c, a, k) ==
  LET offset == a % CardPage(c)
  IN (a - offset + ((offset + k - 1) % CardPage(c))) % Size

Stored(c, a, d) ==
  [c EXCEPT !.mem = [i \in Address |->
     LET hits == {k \in DOMAIN d : Lands(c, a, k) = i}
     IN IF hits = {} THEN c.mem[i] ELSE d[CHOOSE k \in hits : \A j \in hits : j <= k]]]

\* Where a transfer goes and what is stored: a card that is driven with the
\* wrong kind of address takes the first byte for a part of the address.
Transfers(s, a, d) ==
  IF s.icc.type = s.card.kind THEN {<<a, d>>} ELSE {<<b, SubSeq(d, 2, Len(d))>> : b \in Address}

Accepts(c) == Served(c) /\ (c.kind \in I2C \/ c.unlocked)

\* A failure may leave a part of the bytes written.
Written(s, x) ==
  LET After(n) == IF Accepts(s.card)
                  THEN [s EXCEPT !.card = Stored(@, x[1], SubSeq(x[2], 1, n))] ELSE s
  IN {After(Len(x[2]))} \union {Failed(After(n)) : n \in 0 .. Len(x[2])}

\* An I2C card that is still busy with the write before drops this one.
Dropped(s) == IF s.card.kind \in I2C THEN {[s EXCEPT !.lost = Least(@ + 1, 2)]} ELSE {}

WriteBuffer(s, a, d) == (UNION {Written(s, x) : x \in Transfers(s, a, d)}) \union Dropped(s)

\* Mutant: what was written is not read back.
WriteTryUnread(s, a, d) ==
  {[t EXCEPT !.data = d] :
     t \in Then(Then(Then(Reenter(s), SetWriteAddress), LAMBDA t : WriteBuffer(t, a, d)), Release)}

\* The body of the do loop: write, let go of the card, read back.
WriteTry(s, a, d) ==
  Then(Then(Then(Then(Reenter(s), SetWriteAddress), LAMBDA t : WriteBuffer(t, a, d)),
            Release),
       LAMBDA t : ICC_Sync_Read(t, a, Len(d)))

\* Mutants: the end of the page is not looked at; the last byte of the page
\* is left out, so that a chunk may be empty.
ToWriteAcrossPages(i, a, left) == Least(MaxTransmit, left)
ToWriteToPageEnd(i, a, left) == Least(Least(MaxTransmit, left), i.page - 1 - (a % i.page))

\* Bytes of the next chunk: not more than a transfer holds and not beyond the
\* end of the page.
ToWrite(i, a, left) == Least(Least(MaxTransmit, left), i.page - (a % i.page))

MaxRetries(i, n) == IF n > 1 /\ i.type \in I2C THEN 2 ELSE 1

-----------------------------------------------------------------------------
(* Initialisation: ICC_Sync_Init and the probes. *)

Began(s, type) ==
  [s EXCEPT !.icc = [Cleared EXCEPT !.type = type, !.active = TRUE, !.pin_needed = TRUE]]

Changed(byte) == IF byte = Blank THEN CHOOSE b \in Bytes : b # Blank
                 ELSE CHOOSE b \in Bytes : b # byte

\* A single byte is not written twice.
WriteByte(s, byte) ==
  {IF t.ret = "OK" /\ t.data # <<byte>> THEN [t EXCEPT !.ret = "RO_ERROR"] ELSE t
   : t \in WriteTry(s, 0, <<byte>>)}

\* The byte that was read, or whatever the stack holds if the read failed.
Originals(s) == IF s.ret = "OK" THEN {s.data[1]} ELSE Bytes

\* Mutant: the byte is not set back.
ProbeShortForgets(s) ==
  UNION {UNION {Ignore(WriteByte([r EXCEPT !.ret = "OK"], Changed(orig))) : orig \in Originals(r)}
         : r \in ICC_Sync_Read(s, 0, 1)}

\* A failed write is taken for an answer, and the result of the last one is
\* not looked at.
SetBack(t, orig) ==
  IF t.ret = "OK" THEN Ignore(WriteByte(t, orig))
  ELSE {[t EXCEPT !.icc.type = "I2C_LONG", !.ret = "OK"]}
TryByte(r, orig) ==
  UNION {SetBack(t, orig) : t \in WriteByte([r EXCEPT !.ret = "OK"], Changed(orig))}

\* Is it a card with short addresses? One byte is changed and set back.
ProbeShort(s) ==
  UNION {UNION {TryByte(r, orig) : orig \in Originals(r)} : r \in ICC_Sync_Read(s, 0, 1)}

\* No result is looked at, and after a failed GetStatus the bit is undefined.
ProbeStatus(s) ==
  LET tried == Ignore(Exchange(s, PowerOff(s.card)))
  IN {[s |-> t, bit |-> s.card.kind \in I2C] : t \in tried}
       \union {[s |-> t, bit |-> b] : t \in {u \in tried : u.faulty}, b \in BOOLEAN}

ProbeI2C(s) ==
  UNION {IF p.bit THEN Then(ProbeShort(p.s), LAMBDA t : Ignore(Exchange(t, PowerOn(t.card))))
         ELSE {[p.s EXCEPT !.ret = "DETECT_ERROR"]}
         : p \in ProbeStatus(s)}

\* The ATR tells the type of a card with a PIN. An I2C card that has one, for the
\* protocol SDA, is taken for one with short addresses; one without is probed.
ICC_Sync_ProbeCardType(s) ==
  CASE s.card.kind \in PinKinds -> {Began(s, s.card.kind)}
    [] s.card.kind \in I2C -> ProbeI2C(Began(s, "I2C_SHORT"))
                               \union {Began(s, "I2C_SHORT")}
    [] OTHER -> {[s EXCEPT !.ret = "DETECT_ERROR"]}
       \union ProbeI2C(Began(s, "I2C_SHORT"))

Measured(t) ==
  {[t EXCEPT !.icc.length = n]
   : n \in IF t.faulty \/ t.icc.type # t.card.kind THEN Lengths ELSE {Size}}

\* The size comes from the ATR, or from addressing the card until it does not
\* answer, again without looking at results.
ICC_Sync_ProbeMemoryLength(s) ==
  IF s.card.kind \in PinKinds THEN Measured(s)
  ELSE UNION {Measured(t) : t \in
         Ignore(Exchange(s, PowerOn(s.card)) \union {Failed([s EXCEPT !.card = PowerOff(@)])})}

ICC_Sync_ProbePagemode(s) ==
  {[s EXCEPT !.icc.page = IF s.icc.type = "I2C_LONG" THEN PageLong ELSE PageShort]}

\* LED and baud rate, power, reset, probes, LED again and power off.
ICC_Sync_Init(s) ==
  LET powered == Then(Exchange(s, s.card), LAMBDA t : Exchange(t, PowerOn(t.card)))
      reset == Then(powered, LAMBDA t : Exchange(t, t.card))
      probed == Then(Then(Then(reset, ICC_Sync_ProbeCardType), ICC_Sync_ProbeMemoryLength),
                     ICC_Sync_ProbePagemode)
      released == Then(Then(probed, LAMBDA t : Exchange(t, t.card)), Release)
  IN {IF t.ret = "OK" THEN [t EXCEPT !.icc.ready = TRUE] ELSE [t EXCEPT !.icc = Cleared]
      : t \in released}

-----------------------------------------------------------------------------
(* The commands. *)

NoJob == [busy |-> FALSE, addr |-> 0, data |-> <<>>, written |-> 0, retries |-> 0,
          lost |-> 0, short |-> FALSE]

Init ==
  /\ \E k \in Kinds, m \in [Address -> Bytes], p \in Pins :
       card = [kind |-> k, mem |-> m, powered |-> FALSE, unlocked |-> FALSE,
               pin |-> IF k \in PinKinds THEN p ELSE <<>>, trials |-> MaxTrials]
  /\ icc = Cleared
  /\ ps = <<0, 0>>
  /\ job = NoJob
  /\ rsp = "none"
  /\ before = card.mem
  /\ settled = FALSE
  /\ strikes = 0

Idle == ~job.busy /\ icc.ready

\* A command leaves r behind, or has come so far. "wrong": it carried a PIN
\* that is not the card's.
Leaves(r, wrong) ==
  /\ card' = r.card
  /\ icc' = r.icc
  /\ before' = IF job'.busy THEN before ELSE r.card.mem
  /\ strikes' = Least(IF card.kind \in PinKinds /\ (r.faulty \/ wrong)
                     THEN strikes + 1 ELSE strikes, MaxTrials)

\* A card is found in the slot and its ICC object made.
Start ==
  /\ ~icc.ready
  /\ UNCHANGED job
  /\ \E r \in ICC_Sync_Init(Now) :
       /\ Leaves(r, FALSE)
       /\ ps' = <<0, r.icc.length>>
       /\ settled' = (r.ret = "OK" /\ ~r.faulty /\ r.lost = 0)
  /\ rsp' = "none"

\* The slot deletes the object whatever ICC_Sync_Close returns.
Close ==
  /\ Idle
  /\ UNCHANGED job
  /\ \E r \in Then(Exchange(Now, PowerOff(card)), LAMBDA t : Exchange(t, t.card)) :
       Leaves([r EXCEPT !.icc = Cleared], FALSE)
  /\ ps' = <<0, 0>>
  /\ settled' = FALSE
  /\ rsp' = "none"

Available(offset) == IF ps[2] > offset THEN ps[2] - offset ELSE 0

ReadBinary(offset, expected) ==
  /\ Idle
  /\ UNCHANGED <<ps, job>>
  /\ \E r \in ICC_Sync_Read(Now, ps[1] + offset, Least(expected, Available(offset))) :
       /\ Leaves(r, FALSE)
       /\ settled' = ~r.faulty
       /\ rsp' = IF r.ret # "OK" THEN "6x"
                 ELSE IF expected > Available(offset) THEN "62" ELSE "9000"

\* The directory is read from the card. What is found there is the business
\* of module DataSection.
SelectFile ==
  /\ Idle
  /\ UNCHANGED job
  /\ \E r \in ICC_Sync_Read(Now, 0, 1) :
       /\ Leaves(r, FALSE)
       /\ settled' = ~r.faulty
       /\ IF r.ret = "OK" THEN \/ ps' \in Files /\ rsp' = "9000"
                               \/ ps' = ps /\ rsp' = "6x"
          ELSE ps' = ps /\ rsp' = "6x"

\* The master file is selected without a look at the card.
SelectMaster ==
  /\ Idle
  /\ ps' = <<0, icc.length>>
  /\ rsp' = "9000"
  /\ UNCHANGED <<card, icc, job, before, settled, strikes>>

Verify(pin) ==
  /\ Idle
  /\ UNCHANGED <<ps, job>>
  /\ \E r \in ICC_Sync_EnterPin(Now, pin) :
       /\ Leaves(r, pin # card.pin)
       /\ settled' = (settled /\ ~r.faulty)
       /\ rsp' = IF r.ret = "OK" THEN "9000" ELSE "6x"

ChangeVerifyData(pin, newpin) ==
  /\ Idle
  /\ UNCHANGED <<ps, job>>
  /\ \E r \in Then(ICC_Sync_EnterPin(Now, pin), LAMBDA t : ICC_Sync_ChangePin(t, newpin)) :
       /\ Leaves(r, pin # card.pin)
       /\ settled' = (settled /\ ~r.faulty)
       /\ rsp' = IF r.ret = "OK" THEN "9000" ELSE "6x"

BadCommand ==
  /\ Idle
  /\ rsp' = "6x"
  /\ UNCHANGED <<card, icc, ps, job, before, settled, strikes>>

UpdateBinary(offset, d) ==
  LET n == Least(Available(offset), Len(d))
  IN /\ Idle
     /\ job' = [NoJob EXCEPT !.busy = TRUE, !.addr = ps[1] + offset,
                             !.data = SubSeq(d, 1, n), !.short = (n < Len(d))]
     /\ rsp' = "none"
     /\ UNCHANGED <<card, icc, ps, before, settled, strikes>>

Reply(sw) == job' = NoJob /\ rsp' = sw

\* One turn of the loop in ICC_Sync_Write.
WriteChunk ==
  LET a == job.addr + job.written
      n == ToWrite(icc, a, Len(job.data) - job.written)
      d == SubSeq(job.data, job.written + 1, job.written + n)
      s == [Now EXCEPT !.lost = job.lost]
  IN /\ job.busy /\ job.written < Len(job.data)
     /\ \E r \in WriteTry(s, a, d) :
          /\ \/ r.ret # "OK" /\ Reply("62")
             \/ /\ r.ret = "OK" /\ r.data = d
                /\ job' = [job EXCEPT !.written = @ + n, !.retries = 0, !.lost = 0]
                /\ UNCHANGED rsp
             \/ /\ r.ret = "OK" /\ r.data # d
                /\ job.retries + 1 < MaxRetries(icc, Len(job.data))
                /\ job' = [job EXCEPT !.retries = @ + 1, !.lost = r.lost]
                /\ UNCHANGED rsp
             \/ /\ r.ret = "OK" /\ r.data # d
                /\ job.retries + 1 = MaxRetries(icc, Len(job.data))
                /\ Reply("62")
          /\ Leaves(r, FALSE)
          /\ settled' = (settled /\ ~r.faulty
                        /\ r.lost < MaxRetries(icc, Len(job.data)))
  /\ UNCHANGED ps

UpdateEnds ==
  /\ job.busy /\ job.written = Len(job.data)
  /\ Reply(IF job.short THEN "62" ELSE "9000")
  /\ settled' = (settled \/ job.data # <<>>)
  /\ before' = card.mem
  /\ UNCHANGED <<card, icc, ps, strikes>>

Offsets == 0 .. Size

Next ==
  \/ Start
  \/ Close
  \/ \E o \in Offsets, n \in 0 .. MaxData : ReadBinary(o, n)
  \/ \E o \in Offsets, d \in Data : UpdateBinary(o, d)
  \/ WriteChunk
  \/ UpdateEnds
  \/ SelectFile
  \/ SelectMaster
  \/ \E p \in Pins : Verify(p)
  \/ \E p, q \in Pins : ChangeVerifyData(p, q)
  \/ BadCommand

Spec == Init /\ [][Next]_vars

-----------------------------------------------------------------------------
(* Properties. *)

\* struct ICC_Sync, and an ICC_Sync_Write that never runs past its data and
\* repeats a part once at most.
Icc == [type : Kinds \ {"OTHER"}, length : Lengths \union {0},
        page : {PageShort, PageLong}, pin : Pins \union {<<>>}, pin_ok : BOOLEAN,
        pin_needed : BOOLEAN, active : BOOLEAN, ready : BOOLEAN]
Job == {j \in [busy : BOOLEAN, addr : Nat, data : Data, written : Nat, retries : 0 .. 1,
               lost : 0 .. 2, short : BOOLEAN] : j.written <= Len(j.data)}

\* Every variable has its type.
TypeOK ==
  /\ card \in Card /\ icc \in Icc /\ job \in Job
  /\ ps \in Files \union ({0} \X (Lengths \union {0}))
  /\ rsp \in {"none", "6x", "62", "9000"}
  /\ before \in [Address -> Bytes]
  /\ settled \in BOOLEAN /\ strikes \in 0 .. MaxTrials

\* The probes came to the right result.
Matched == icc.type = card.kind /\ icc.length <= Size

Target == {job.addr + k : k \in 0 .. Len(job.data) - 1}
File == ps[1] .. ps[1] + ps[2] - 1

\* While UPDATE BINARY is at work (ICC_Sync_Write splits it at the ends of
\* pages, repeats parts and may be cut off at any exchange), no byte changes
\* but those it was given, each to its new value, inside the selected file.
UpdateInside ==
  job.busy /\ Matched =>
    \A i \in Address : card.mem[i] # before[i] =>
      i \in Target \intersect File /\ card.mem[i] = job.data[i - job.addr + 1]

\* UPDATE BINARY answers 90 00 only when all its bytes are in the card, also
\* when the card dropped a write, was locked or a part had to be repeated.
UpdateStored ==
  [][job.busy /\ Matched /\ rsp' = "9000" =>
       \A i \in Address : card'.mem[i] = IF i \in Target THEN job.data[i - job.addr + 1]
                                         ELSE before[i]]_vars

\* The driver enters the PIN it remembers by itself, before every part of a
\* write to a 2W card. The trials this costs, and the one that a PIN which
\* the driver wrongly believes in is going to cost, are never more than the
\* wrong PINs the application sent and the exchanges that failed: the driver
\* cannot block a card on its own.
TrialsJustified ==
  LET spent == MaxTrials - card.trials
      doubtful == (icc.pin_ok /\ icc.pin # card.pin) \/ (icc.active /\ ~card.powered)
  IN card.kind \in PinKinds =>
       strikes = MaxTrials \/ spent + (IF doubtful THEN 1 ELSE 0) <= strikes

\* The PIN of a 2W card has been presented; an I2C card needs none.
Writable ==
  \/ card.kind = "2W" /\ icc.pin_ok /\ icc.pin = card.pin /\ card.trials > 0
  \/ card.kind \in I2C

\* UPDATE BINARY on a card that may be written is carried out: the flags
\* active, pin_ok and pin_needed follow what the card has forgotten each time
\* it is deactivated, and one dropped write to an I2C card is made good. Only
\* a failed exchange, in this command or since the card was last let go of,
\* is an excuse: after an error the flags may be wrong for one command.
UpdateCarriedOut ==
  [][job.busy /\ ~job.short /\ settled /\ settled' /\ Matched /\ Writable
       => rsp' # "62"]_vars

\* Finding out the type of a card changes a byte of it and sets it back: an
\* initialisation in which nothing fails leaves the memory as it was.
ProbePreserves == [][~icc.ready /\ settled' => card'.mem = card.mem]_vars

\* UPDATE BINARY ends: each turn of the loop in ICC_Sync_Write but the last
\* one stores bytes, never more than there are, or uses up the one repetition
\* of the chunk; so no behaviour stays in the loop.
UpdateProgresses ==
  [][job.busy /\ job'.busy =>
       \/ job'.written > job.written /\ job'.written <= Len(job.data) /\ job'.retries = 0
       \/ job'.written = job.written /\ job.retries = 0 /\ job'.retries = 1]_vars

-----------------------------------------------------------------------------
(* The inductive invariant. *)

\* A card is driven as one with a PIN if and only if it is one, and the driver
\* knows nothing of a card that it has not initialised.
PinInv ==
  /\ card.kind \in PinKinds => card.pin \in Pins
  /\ icc.type \in PinKinds => icc.type = card.kind
  /\ icc.ready /\ card.kind \in PinKinds => icc.type = card.kind
  /\ ~icc.ready => icc = Cleared
  /\ job.busy => icc.ready

IInv == TypeOK /\ PinInv /\ TrialsJustified

\* What the initialisation found out: the page goes with the type, and the
\* selected file is one of the directory or the whole card. The driver knows
\* whether a 3W card is on: it never deactivates one.
ReadyInv ==
  /\ icc.ready => /\ icc.page = IF icc.type = "I2C_LONG" THEN PageLong ELSE PageShort
                  /\ ps \in Files \union {<<0, icc.length>>}
  /\ icc.type = "3W" /\ icc.active => card.powered

\* An update has its place in the selected file and has not been answered yet.
JobInv ==
  IF job.busy
  THEN /\ rsp = "none"
       /\ job.data # <<>> => /\ ps[1] <= job.addr
                             /\ job.addr + Len(job.data) <= ps[1] + ps[2]
  ELSE before = card.mem

\* What an update has written so far has been read back from the card.
StoredInv ==
  job.busy /\ Matched =>
    \A k \in 1 .. job.written : card.mem[job.addr + k - 1] = job.data[k]

\* The invariant behind the properties of updates, together with IInv.
WriteInv == ReadyInv /\ JobInv /\ UpdateInside /\ StoredInv

\* What the driver believes of a card of two wires: one that it has not let go
\* of is on, and open if the PIN it remembers is the right one.
Known(c, i) ==
  IF i.active THEN c.powered /\ (i.pin_ok /\ i.pin = c.pin /\ c.trials > 0 => c.unlocked)
  ELSE i.pin_needed

\* The belief is right after a command that went undisturbed, and a part of an
\* update that succeeds lets go of the card whatever came before. The repetitions
\* of a part are the writes that an I2C card has dropped.
FlagInv ==
  /\ settled /\ icc.type = "2W" => Known(card, icc)
  /\ job.busy /\ job.written > 0 /\ icc.type = "2W" => ~icc.active /\ icc.pin_needed
  /\ job.busy /\ Matched /\ icc.type \in I2C => job.lost = job.retries

=============================================================================
