----------------------------- MODULE ReaderLine -----------------------------
(* The line between the serial port, the reader and the cards: the baud rate  *)
(* and the parity of driver/ifd_towitoko.c and driver/io_serial.c, as         *)
(* driver/icc_async.c, driver/icc_sync.c, driver/pps.c and the slots use      *)
(* them. Two slots share one port. All calls run under the terminal's mutex,  *)
(* one after the other; each of their steps is an action.                     *)
(*                                                                            *)
(* The reader is external: it takes commands that arrive at its own baud      *)
(* rate, changes its rate and parity when told, and is powered by the port.   *)
EXTENDS Integers

CONSTANTS
    Models,       \* "ext2" has two slots, "zwerg" takes no processor cards
    Kinds,        \* the cards: "sync", and by convention "direct", "inverse";
                  \* a "foreign" one offers neither T=0 nor T=1
    Fs, Ds,       \* F and D of PPS; a fraction D is a multiple of F
    None

ASSUME ModelsAssumption == Models \subseteq {"ext2", "zwerg", "other"}
ASSUME KindsAssumption == Kinds \subseteq {"sync", "direct", "inverse", "foreign"}
ASSUME NoneAssumption == None \notin Nat
ASSUME FactorsAssumption == Fs \subseteq Nat \ {0} /\ Ds \subseteq {1, 2, 4, 8, 16}

VARIABLES
    model,        \* of the reader
    cards,        \* the card of each slot
    speaks,       \* the baud rate at which each card speaks
    cache,        \* io->props: the rate asked for and the parity
    port, reader, \* what the port and the reader really use
    ready,        \* slots whose IFD is initialised
    icc,          \* slot->icc: the baud rate the driver has for it, or None
    pc, op, at,   \* the step, the operation and its slot
    par,          \* the variable parity of ResetAsyncICC
    ask,          \* the F and D of the PPS request, or None
    \* history
    why,          \* what has made port and reader part since the power came on
    dropped,      \* a transmission has ended without its parity restored
    misread,      \* slots whose card has confirmed other factors than were read
    fault         \* this operation has met a fault, or an old one

line == <<cache, port, reader>>
slots == <<ready, icc, speaks, misread>>
vars == <<model, cards, line, slots, pc, op, at, par, ask, why, dropped, fault>>

Slots == {1, 2}
Last == IF model = "ext2" THEN 2 ELSE 1
Rate == 9600                           \* IFD_TOWITOKO_BAUDRATE
SyncRate == 115200                     \* ICC_SYNC_BAUDRATE
MaxBaudrate == 115200

\* The speeds of termios, B0 among them, and the steps of the reader.
Bitrates ==
    {0, 50, 75, 110, 134, 150, 200, 300, 600, 1200, 1800, 2400, 4800, 9600, 19200,
     38400, 57600, 115200, 230400}
Steps ==
    {1200, 2400, 4800, 6975, 9600, 14400, 19200, 28800, 38400, 57600, 115200}

\* IO_Serial_Bitrate rounds down, SetBaudrate rounds up.
PortRate(b) == CHOOSE r \in Bitrates :
    r <= b /\ \A q \in Bitrates : q <= b => q <= r
ReaderRate(b) == CHOOSE r \in Steps :
    b <= r /\ \A q \in Steps : b <= q => r <= q

Settable(b) == b <= MaxBaudrate /\ PortRate(b) = ReaderRate(b)

\* What the card speaks at F and D; the clock rate is 372 * 9600.
Baudrate(a) == (372 * 9600 * a.d) \div a.f

\* PPS_InitICC computes the same in floating point and cuts off the fraction. Where
\* the quotient is a whole number the result may be one less: how the work etu is
\* rounded depends on the build. On x86-64 9600 becomes 9599, and 38400 38399.
Baudrates(a) ==
    {Baudrate(a)} \cup (IF (372 * 9600 * a.d) % a.f = 0 THEN {Baudrate(a) - 1} ELSE {})

Line(r, p) == [rate |-> r, parity |-> p]
PowerUp == Line(Rate, "even")

Convention(s) == IF cards[s] = "inverse" THEN "odd" ELSE "even"

Init ==
    /\ model \in Models
    /\ cards \in [Slots -> Kinds]
    /\ speaks = [s \in Slots |-> Rate]
    /\ cache = PowerUp /\ port = PowerUp /\ reader = PowerUp
    /\ ready = {} /\ icc = [s \in Slots |-> None]
    /\ pc = "closed" /\ op = "none" /\ at = 1 /\ par = "even" /\ ask = None
    /\ why = {} /\ dropped = FALSE /\ misread = {} /\ fault = FALSE

-----------------------------------------------------------------------------
(* Steps of an operation. Every one of them may fail: the line is disturbed,  *)
(* or the reader does not hear at all. IO_Serial_SetProperties changes port   *)
(* and cache, or fails and changes neither.                                   *)

Heard == port.rate = reader.rate

Clear == fault' = fault
Faulty == fault' = (fault \/ Heard)

\* The operation is left while the line may still be at odd parity.
Drop == dropped' = (dropped \/ reader.parity = "odd")

\* A command that changes nothing on the line: SetLED, ActivateICC and so on.
Tell(next, fail) ==
    /\ \/ Heard /\ pc' = next /\ Clear
       \/ pc' = fail /\ Faulty
    /\ UNCHANGED <<line, why, dropped>>

\* IFD_Towitoko_SetBaudrate. The rate of the port is the one in the cache.
SetBaudrate(b, next, fail) ==
    \/ /\ b <= MaxBaudrate /\ cache.rate = b
       /\ pc' = next /\ Clear
       /\ UNCHANGED <<line, why, dropped>>
    \/ \* too fast, or the command is lost
       /\ b > MaxBaudrate \/ cache.rate # b
       /\ pc' = fail /\ Drop
       /\ fault' = (fault \/ (b <= MaxBaudrate /\ Heard))
       /\ UNCHANGED <<line, why>>
    \/ \* the reader has changed its rate; the answer is lost or the port is not set
       /\ b <= MaxBaudrate /\ cache.rate # b /\ Heard
       /\ reader' = [reader EXCEPT !.rate = ReaderRate(b)]
       /\ pc' = fail /\ Drop /\ Faulty
       /\ why' = why \cup {"rate"}
       /\ UNCHANGED <<cache, port>>
    \/ /\ b <= MaxBaudrate /\ cache.rate # b /\ Heard
       /\ reader' = [reader EXCEPT !.rate = ReaderRate(b)]
       /\ cache' = [cache EXCEPT !.rate = b]
       /\ port' = [port EXCEPT !.rate = PortRate(b)]
       /\ why' = IF Settable(b) THEN why ELSE why \cup {"rate"}
       /\ pc' = next /\ Clear
       /\ UNCHANGED dropped

\* IFD_Towitoko_SetParity: the port is set to even parity for the command and to
\* the odd one after it.
SetParity(p, next, fail) ==
    LET even(l) == [l EXCEPT !.parity = IF @ = "odd" THEN "even" ELSE @]
        final(l) == [l EXCEPT !.parity = IF even(l).parity = "even" THEN p ELSE @]
        told == [reader EXCEPT !.parity = p]
    IN  \/ /\ model = "zwerg" /\ at \in ready
           /\ pc' = fail /\ Clear
           /\ UNCHANGED <<line, why, dropped>>
        \/ /\ model # "zwerg" \/ at \notin ready
           /\ Heard
           /\ cache' = final(cache) /\ port' = final(port) /\ reader' = told
           /\ pc' = next /\ Clear
           /\ dropped' = FALSE
           /\ UNCHANGED why
        \/ /\ model # "zwerg" \/ at \notin ready
           /\ \/ UNCHANGED <<cache, port>>
              \/ cache' = even(cache) /\ port' = even(port)
           /\ reader' \in {reader} \cup (IF Heard THEN {told} ELSE {})
           /\ pc' = fail /\ Faulty
           /\ dropped' = TRUE
           /\ UNCHANGED why

-----------------------------------------------------------------------------
(* Opening, closing and resetting the terminal. *)

Open ==
    /\ pc = "closed"
    /\ pc' = "initProps" /\ op' = "open" /\ at' = 1 /\ fault' = FALSE
    /\ UNCHANGED <<model, cards, line, slots, par, ask, why, dropped>>

\* The reader loses its power with the port.
PowerOff ==
    /\ pc' = "closed"
    /\ cache' = PowerUp /\ port' = PowerUp /\ reader' = PowerUp
    /\ ready' = {} /\ icc' = [s \in Slots |-> None]
    /\ why' = {} /\ dropped' = FALSE

Close ==
    /\ pc = "idle"
    /\ PowerOff
    /\ op' = "none" /\ ask' = None
    /\ UNCHANGED <<model, cards, speaks, misread, at, par, fault>>

\* RESET CT of the kernel: every slot is closed and initialised again.
KernelReset ==
    /\ pc = "idle"
    /\ pc' = "closeSlot" /\ op' = "reset" /\ at' = 1 /\ ask' = None
    /\ fault' = (dropped \/ why # {})
    /\ UNCHANGED <<model, cards, line, slots, par, why, dropped>>

CloseSlot ==
    /\ pc = "closeSlot"
    /\ \/ at \in ready /\ Tell("initProps", "idle")
       \/ /\ at \notin ready /\ pc' = "initProps" /\ Clear
          /\ UNCHANGED <<line, why, dropped>>
    /\ ready' = ready \ {at} /\ icc' = [icc EXCEPT ![at] = None]
    /\ UNCHANGED <<model, cards, speaks, misread, op, at, par, ask>>

\* IFD_Towitoko_Init sets the port alone; the reader hears of it only if the rate
\* of the port changes in SetBaudrate.
InitProps ==
    /\ pc = "initProps"
    /\ \/ /\ cache' = PowerUp /\ port' = PowerUp
          /\ why' = IF reader.rate = Rate THEN why ELSE why \cup {"reset"}
          /\ pc' = "initRate" /\ Clear
       \/ /\ pc' = "initFails" /\ fault' = TRUE
          /\ UNCHANGED <<cache, port, why>>
    /\ UNCHANGED <<model, cards, reader, slots, op, at, par, ask, dropped>>

InitRate ==
    /\ pc = "initRate"
    /\ SetBaudrate(Rate, "initParity", "initFails")
    /\ UNCHANGED <<model, cards, slots, op, at, par, ask>>

InitParity ==
    /\ pc = "initParity"
    /\ SetParity("even", "initInfo", "initFails")
    /\ UNCHANGED <<model, cards, slots, op, at, par, ask>>

\* GetReaderInfo; a Kartenzwerg then works without parity.
InitInfo ==
    /\ pc = "initInfo"
    /\ \/ /\ Heard /\ Clear
          /\ ready' = ready \cup {at}
          /\ LET p == IF model = "zwerg" THEN "none" ELSE cache.parity IN
                cache' = [cache EXCEPT !.parity = p] /\ port' = [port EXCEPT !.parity = p]
          /\ IF at < Last
             THEN at' = at + 1 /\ pc' = IF op = "open" THEN "initProps" ELSE "closeSlot"
             ELSE at' = at /\ pc' = "idle"
       \/ /\ Faulty
          /\ pc' = "initFails"
          /\ UNCHANGED <<cache, port, ready, at>>
    /\ UNCHANGED <<model, cards, reader, icc, speaks, misread, op, par, ask, why,
                   dropped>>

\* CT_init closes the port again; RESET CT leaves the slot as it is.
InitFails ==
    /\ pc = "initFails"
    /\ \/ op = "open" /\ PowerOff
       \/ /\ op = "reset" /\ pc' = "idle"
          /\ UNCHANGED <<line, ready, icc, why, dropped>>
    /\ UNCHANGED <<model, cards, speaks, misread, op, at, par, ask, fault>>

-----------------------------------------------------------------------------
(* CT_Slot_Probe: memory cards first. *)

Probe(s, a) ==
    /\ pc = "idle" /\ s \in ready /\ icc[s] = None
    /\ pc' = "syncLed" /\ op' = "probe" /\ at' = s /\ ask' = a
    /\ fault' = (dropped \/ why # {})
    /\ UNCHANGED <<model, cards, line, slots, par, why, dropped>>

SyncLed ==
    /\ pc = "syncLed"
    /\ Tell("syncRate", "asyncLed")
    /\ UNCHANGED <<model, cards, slots, op, at, par, ask>>

SyncInitRate ==
    /\ pc = "syncRate"
    /\ SetBaudrate(SyncRate, "syncReset", "asyncLed")
    /\ UNCHANGED <<model, cards, slots, op, at, par, ask>>

\* The rest of ICC_Sync_Init, which a processor card does not pass.
SyncReset ==
    /\ pc = "syncReset"
    /\ \/ /\ cards[at] = "sync"
          /\ Tell("idle", "asyncLed")
          /\ icc' = [icc EXCEPT ![at] = IF pc' = "idle" THEN SyncRate ELSE None]
       \/ /\ cards[at] # "sync"
          /\ pc' = "asyncLed"
          /\ UNCHANGED <<line, why, dropped, fault, icc>>
    /\ UNCHANGED <<model, cards, ready, speaks, misread, op, at, par, ask>>

AsyncLed ==
    /\ pc = "asyncLed"
    /\ Tell("asyncRate", "idle")
    /\ UNCHANGED <<model, cards, slots, op, at, par, ask>>

AsyncInitRate ==
    /\ pc = "asyncRate"
    /\ SetBaudrate(Rate, "activate", "idle")
    /\ UNCHANGED <<model, cards, slots, op, at, par, ask>>

\* ResetAsyncICC takes it that the line is at even parity.
Activate ==
    /\ pc = "activate"
    /\ Tell(IF model = "zwerg" THEN "idle" ELSE "atr", "idle")
    /\ par' = "even"
    /\ speaks' = [speaks EXCEPT ![at] = Rate] /\ misread' = misread \ {at}
    /\ UNCHANGED <<model, cards, ready, icc, op, at, ask>>

\* Card, reader and port use the same parity and rate.
Attuned(s) ==
    /\ cards[s] # "sync"
    /\ Heard /\ reader.rate = speaks[s]
    /\ port.parity = Convention(s) /\ reader.parity = Convention(s)

\* Up to four resets, then the other parity.
Atr ==
    /\ pc = "atr"
    /\ \/ /\ Attuned(at)
          /\ pc' = IF par = "odd" THEN "restore" ELSE "asyncGreen"
          /\ par' = "even"
          /\ Clear
       \/ /\ pc' = IF par = "even" THEN "tryOdd" ELSE "tryEven"
          /\ par' = IF par = "even" THEN "odd" ELSE "even"
          /\ fault' = (fault \/ Attuned(at))
    /\ UNCHANGED <<model, cards, line, slots, op, at, ask, why, dropped>>

\* Whether the parity could be set is not looked at.
TryParity ==
    /\ \/ pc = "tryOdd" /\ SetParity("odd", "atr", "atr")
       \/ pc = "tryEven" /\ SetParity("even", "idle", "idle")
    /\ UNCHANGED <<model, cards, slots, op, at, par, ask>>

\* Mutant of RestoreParity: the parity of the card is kept.
MutKeepParity ==
    /\ pc = "restore"
    /\ pc' = "asyncGreen" /\ Clear
    /\ UNCHANGED <<model, cards, line, slots, op, at, par, ask, why, dropped>>

RestoreParity ==
    /\ pc = "restore"
    /\ SetParity("even", "asyncGreen", "idle")
    /\ UNCHANGED <<model, cards, slots, op, at, par, ask>>

AsyncGreen ==
    /\ pc = "asyncGreen"
    /\ Tell("pps", "idle")
    /\ icc' = [icc EXCEPT ![at] = IF pc' = "pps" THEN Rate ELSE None]
    /\ UNCHANGED <<model, cards, ready, speaks, misread, op, at, par, ask>>

Requests == [f : Fs, d : Ds]
Default == [f |-> 372, d |-> 1]

\* PPS_Perform. Without a request the first protocol of the ATR is used, at the rate
\* the card has; the driver knows T=0 and T=1. With one, the card confirms it,
\* confirms other factors or stays at the default ones. PPS_Match lets a confirm of
\* the length of the request pass whatever it says, and one without PPS1. The
\* exchange is made without BeginTransmission.
Pps ==
    /\ pc = "pps"
    /\ pc' = "idle"
    /\ \/ /\ ask = None /\ Clear
          /\ icc' = [icc EXCEPT ![at] = IF cards[at] = "foreign" THEN None ELSE @]
          /\ UNCHANGED <<speaks, misread>>
       \/ /\ ask # None /\ cards[at] # "foreign" /\ Attuned(at) /\ Clear
          /\ \E confirm, read \in Requests \cup {Default} :
                /\ speaks' = [speaks EXCEPT ![at] = Baudrate(confirm)]
                /\ \E b \in Baudrates(read) : icc' = [icc EXCEPT ![at] = b]
                /\ misread' = IF read = confirm THEN misread ELSE misread \cup {at}
       \/ \* no answer, one of another length with other factors, or another protocol
          /\ ask # None
          /\ icc' = [icc EXCEPT ![at] = None]
          /\ fault' = (fault \/ Attuned(at))
          /\ UNCHANGED <<speaks, misread>>
    /\ UNCHANGED <<model, cards, line, ready, op, at, par, ask, why, dropped>>

\* CT_Slot_Release: the ICC object goes, whatever the reader answers.
Release(s) ==
    /\ pc = "idle" /\ s \in ready /\ icc[s] # None
    /\ icc' = [icc EXCEPT ![s] = None]
    /\ op' = "none" /\ ask' = None
    /\ UNCHANGED <<model, cards, line, ready, speaks, misread, pc, at, par, why,
                   dropped, fault>>

-----------------------------------------------------------------------------
(* Commands to cards. *)

Command(s) ==
    /\ pc = "idle" /\ s \in ready /\ icc[s] # None
    /\ op' = "command" /\ at' = s /\ ask' = None /\ fault' = FALSE
    /\ \/ cards[s] = "sync" /\ pc' = "syncBegin"
       \/ cards[s] = "inverse" /\ pc' = "beginParity"
       \/ cards[s] = "direct" /\ pc' = "beginRate"
    /\ UNCHANGED <<model, cards, line, slots, par, why, dropped>>

\* Protocol_Sync_Command goes on whether the rate could be set or not.
SyncBegin ==
    /\ pc = "syncBegin"
    /\ SetBaudrate(SyncRate, "syncTalk", "syncTalk")
    /\ UNCHANGED <<model, cards, slots, op, at, par, ask>>

SyncTalk ==
    /\ pc = "syncTalk"
    /\ Tell("idle", "idle")
    /\ UNCHANGED <<model, cards, slots, op, at, par, ask>>

BeginParity ==
    /\ pc = "beginParity"
    /\ SetParity("odd", "beginRate", "idle")
    /\ UNCHANGED <<model, cards, slots, op, at, par, ask>>

\* Mutant of BeginRate: the line keeps the rate of the card used last.
MutKeepRate ==
    /\ pc = "beginRate"
    /\ pc' = "talk" /\ Clear
    /\ UNCHANGED <<model, cards, line, slots, op, at, par, ask, why, dropped>>

\* If the rate cannot be set the parity is not set back.
BeginRate ==
    /\ pc = "beginRate"
    /\ SetBaudrate(icc[at], "talk", "idle")
    /\ UNCHANGED <<model, cards, slots, op, at, par, ask>>

\* The exchange with the card. T=0 may return from the middle of it.
Talk ==
    /\ pc = "talk"
    /\ \/ pc' = "end" /\ UNCHANGED dropped
       \/ pc' = "idle" /\ Drop
    /\ UNCHANGED <<model, cards, line, slots, op, at, par, ask, why, fault>>

\* Mutant of EndTransmission: nothing is set back.
MutEndTransmission ==
    /\ pc = "end"
    /\ pc' = "idle" /\ Clear
    /\ UNCHANGED <<model, cards, line, slots, op, at, par, ask, why, dropped>>

EndTransmission ==
    /\ pc = "end"
    /\ \/ cards[at] = "inverse" /\ SetParity("even", "idle", "idle")
       \/ /\ cards[at] = "direct" /\ pc' = "idle" /\ Clear
          /\ UNCHANGED <<line, why, dropped>>
    /\ UNCHANGED <<model, cards, slots, op, at, par, ask>>

-----------------------------------------------------------------------------

Initialise ==
    Open \/ Close \/ KernelReset \/ CloseSlot \/ InitProps \/ InitRate \/ InitParity
      \/ InitInfo \/ InitFails

Probing ==
    \/ \E s \in Slots : Release(s) \/ \E a \in Requests \cup {None} : Probe(s, a)
    \/ SyncLed \/ SyncInitRate \/ SyncReset \/ AsyncLed \/ AsyncInitRate \/ Activate
    \/ Atr \/ TryParity \/ RestoreParity \/ AsyncGreen \/ Pps

Commands ==
    \/ \E s \in Slots : Command(s)
    \/ SyncBegin \/ SyncTalk \/ BeginParity \/ BeginRate \/ Talk \/ EndTransmission

Next == Initialise \/ Probing \/ Commands

Spec == Init /\ [][Next]_vars

-----------------------------------------------------------------------------
(* Properties *)

Pcs ==
    {"closed", "idle", "closeSlot", "initProps", "initRate", "initParity", "initInfo",
     "initFails", "syncLed", "syncRate", "syncReset", "asyncLed", "asyncRate",
     "activate", "atr", "tryOdd", "tryEven", "restore", "asyncGreen", "pps",
     "syncBegin", "syncTalk", "beginParity", "beginRate", "talk", "end"}

LineType ==
    /\ cache \in [rate : Nat, parity : {"even", "odd", "none"}]
    /\ cache.rate <= MaxBaudrate
    /\ port \in [rate : Bitrates, parity : {"even", "odd", "none"}]
    /\ reader \in [rate : Steps, parity : {"even", "odd"}]

SlotsType ==
    /\ model \in Models /\ cards \in [Slots -> Kinds] /\ speaks \in [Slots -> Nat]
    /\ ready \subseteq 1 .. Last /\ misread \subseteq Slots
    /\ icc \in [Slots -> Nat \cup {None}]
    /\ \A s \in Slots : icc[s] # None => s \in ready

CallType ==
    /\ pc \in Pcs /\ op \in {"none", "open", "reset", "probe", "command"}
    /\ at \in 1 .. Last /\ par \in {"even", "odd"}
    /\ ask \in Requests \cup {None}

HistoryType ==
    why \subseteq {"rate", "reset"} /\ dropped \in BOOLEAN /\ fault \in BOOLEAN

\* Every variable of the driver, the port and the reader keeps its type.
TypeOK == LineType /\ SlotsType /\ CallType /\ HistoryType

\* Between the calls the port, the cached properties and the reader agree on rate
\* and parity, whatever cards were used in whatever order and however many
\* commands were lost. Three things part them: the answer to a change of the rate
\* is lost or the rate is one the port or the reader does not have (as the 9599
\* that PPS makes of 9600 on x86-64), RESET CT of the kernel comes while the reader
\* is at another rate, and, for the parity alone, a transmission is not ended.
LineAgrees ==
    pc = "idle" /\ why = {} =>
        /\ port.rate = reader.rate /\ cache = port
        /\ ~dropped /\ model # "zwerg" => port.parity = "even" /\ reader.parity = "even"

\* When BeginTransmission has succeeded, port, reader and card use the same rate
\* and parity, although the card of the other slot may need others, and whatever
\* PPS_InitICC has made of the factors: a rate that is one off the card's parts port
\* and reader and never passes for the card's. It is not so for a card whose confirm
\* was misread, as PPS_Match lets it pass, nor while port and reader are parted.
CardReached ==
    pc = "talk" /\ why = {} /\ at \notin misread =>
        /\ port.rate = speaks[at] /\ reader.rate = speaks[at]
        /\ ~dropped => port.parity = Convention(at) /\ reader.parity = Convention(at)

\* A probe that meets no fault finds the card, also one of inverse convention, which
\* answers at the second parity only. A Kartenzwerg knows memory cards alone, a card
\* that offers neither T=0 nor T=1 is refused, and a PPS request goes out at even
\* parity, which no inverse card understands.
ProbeFinds ==
    /\ pc = "idle" /\ op = "probe" /\ ~fault /\ cards[at] # "foreign"
    /\ model = "zwerg" => cards[at] = "sync"
    /\ cards[at] = "inverse" => ask = None
    => icc[at] # None

-----------------------------------------------------------------------------
(* The inductive invariant *)

ProbePcs ==
    {"syncLed", "syncRate", "syncReset", "asyncLed", "asyncRate", "activate", "atr",
     "tryOdd", "tryEven", "restore", "asyncGreen", "pps"}

\* After the cold reset of a processor card.
ResetPcs == {"atr", "tryOdd", "tryEven", "restore", "asyncGreen", "pps"}

\* The cached rate is the one asked for; the port has its termios constant. Until
\* something parts them the reader has the same rate as both.
RateInv ==
    /\ port.rate = PortRate(cache.rate) /\ port.parity = cache.parity
    /\ why = {} => port.rate = reader.rate /\ cache.rate = port.rate

\* The parity at which each step finds port and reader.
StepParity ==
    IF pc \in {"beginRate", "talk", "end"} THEN Convention(at)
    ELSE IF pc = "atr" THEN par
    ELSE IF pc \in {"tryEven", "restore"} THEN "odd" ELSE "even"

\* Only a Kartenzwerg works without parity. On the others port and reader follow
\* the steps as long as every transmission is ended.
ParityInv ==
    model # "zwerg" =>
        /\ port.parity # "none"
        /\ ~dropped => port.parity = StepParity /\ reader.parity = StepParity

\* A rate of the driver that is not the card's is none port and reader can both have.
Agreed(b, r) == b = r \/ (b + 1 = r /\ b \notin Bitrates \cap Steps)

\* The ICC object of a processor card has the rate of its card, and where each
\* operation stands in it.
IccInv ==
    /\ \A s \in Slots : icc[s] # None /\ cards[s] # "sync" =>
          (s \notin misread => Agreed(icc[s], speaks[s])) /\ model # "zwerg"
    /\ pc \in ProbePcs => op = "probe" /\ at \in ready
    /\ op = "probe" => pc \in ProbePcs \cup {"idle"}
    /\ pc \in ProbePcs \ {"pps"} => icc[at] = None
    /\ pc \in ResetPcs => speaks[at] = Rate /\ model # "zwerg"
    /\ pc \in {"restore", "asyncGreen", "pps"} => cards[at] # "sync"
    /\ pc = "pps" => icc[at] = Rate
    /\ pc \in {"tryOdd", "tryEven"} => par = (IF pc = "tryOdd" THEN "odd" ELSE "even")
    /\ pc = "beginParity" => icc[at] # None /\ cards[at] = "inverse"
    /\ pc \in {"beginRate", "talk", "end"} => icc[at] # None /\ cards[at] # "sync"
    /\ pc = "talk" => cache.rate = icc[at]

\* How far a probe without a fault has come, and what it has seen of the card.
ProbeInv ==
    op = "probe" /\ ~fault =>
        /\ why = {} /\ ~dropped
        /\ pc \in {"asyncLed", "asyncRate", "activate"} \cup ResetPcs =>
              cards[at] # "sync"
        /\ pc \in {"activate"} \cup ResetPcs => cache.rate = Rate
        /\ pc = "tryOdd" \/ (pc = "atr" /\ par = "odd") => cards[at] = "inverse"
        /\ pc # "tryEven"

IInv ==
    /\ TypeOK /\ RateInv /\ ParityInv /\ IccInv /\ ProbeInv
    /\ ProbeFinds

=============================================================================
