# A verification project for the Towitoko smartcard driver

The repository is a user-space driver for Towitoko Chipdrive smartcard readers. It is
a C library with two programming interfaces (CT-API and the PC/SC IFD handler) on top of
a stack of objects: card terminal, slots, cards, protocols, reader, serial port. This
directory holds TLA+ modules translated from the sources, TLC configurations that check
them on small instances, and theorems whose proofs TLAPS checks. `PROJECT.json` lists the
parts, the runs, the mutants that show that each property can fail, the source lines of
every definition, the hazards and the theorems.

Paths below are relative to `src/src/`.

## 1. Inventory

| Part | Source | State | Operations |
|---|---|---|---|
| CT-API | `ct-api/ctapi.c`, `ct_list.c` | the list of open terminals, one mutex for it, one mutex per terminal | `CT_init`, `CT_close`, `CT_data` |
| Card terminal, slots | `ct-api/cardterminal.c`, `ct_slot.c` | slots, per slot the reader object, the card object, the protocol object | CT-BCS commands RESET CT, REQUEST ICC, GET STATUS, EJECT ICC; commands for a card |
| IFD handler | `ifd-handler/ifdhandler.c` | one context (protocol and cached ATR) and one mutex per reader | `IFDHCreateChannel`, `CloseChannel`, `GetCapabilities`, `PowerICC`, `SetProtocolParameters`, `TransmitToICC`, `Control`, `ICCPresence` |
| T=1 | `driver/protocol_t1.c`, `t1_block.c` | send sequence number, block and character waiting time | one command, chained both ways, with waiting time extensions |
| T=0 | `driver/protocol_t0.c` | working waiting time | one command, four cases, GET RESPONSE and ENVELOPE |
| Memory cards | `driver/icc_sync.c`, `protocol_sync.c`, `atr_sync.c` | type, size and page of the card, the PIN and three flags about it, the selected file | probes, read, page write with reading back, PIN verification and change, file selection |
| Processor cards | `driver/icc_async.c`, `pps.c`, `atr.c` | ATR, timings, baud rate | activation, ATR, parameter selection |
| Reader | `driver/ifd_towitoko.c` | type, slot, parity, last LED; the reader itself holds baud rate, presence and change bits | status, LED, power, parameters, transmit, receive |
| Serial port | `driver/io_serial.c` | cached properties, use counter | open, properties, read, write, close |
| APDU, TLV | `driver/apdu.c`, `tlv_object.c` | none (values) | cases and lengths of a command; objects in the memory of a card and the search for them |
| Tester, build | `test/tester.c`, `configure.ac` | none | not of interest here |

Interaction: an application calls CT-API, or the PC/SC resource manager calls the IFD
handler, which calls CT-API. `CT_data` finds the terminal in the list under the list mutex,
releases it, and runs the command under the terminal's mutex. `CardTerminal_Command`
serves the CT-BCS commands, `CT_Slot_Command` hands everything else to the protocol of the
slot. Cards are inserted and removed at any moment; the driver learns of it only from the
status bits of the reader, of which the change bit is cleared when it is read, also by a probe that
looks at another bit. All slots of
a terminal share one serial port.

What is hard here:

* three kinds of mutex, taken in nested and not nested ways, on functions with many exits;
  `CT_close` and `IFDHCloseChannel` free objects whose addresses others have taken;
* the cards move while the driver holds objects made for them;
* every exchange with the reader may fail, and most functions are sequences of several;
* T=1 keeps a sequence number on each side over a line that loses blocks, and changes
  timeouts on the way; lengths and times are 8 and 16 bits wide;
* T=0 turns one command into several, each a dialogue of single bytes that the card leads;
* rate and parity of the line are kept in three places (the cached properties, the port, the
  reader) and changed by commands that travel over that same line, for two cards at a time;
* a memory card forgets its PIN when it is deactivated, and the driver deactivates it after
  every access and enters the PIN again by itself, each time at the risk of a trial;
* what is read from a card (lengths in an ATR, lengths and addresses in a directory) decides
  where the driver reads next;
* waiting loops, for a card to come and for a card that asks for more time, must end.

What makes the parts correct: a terminal is allocated exactly while it is listed; nobody
uses a freed one; a port carries one command at a time; mutexes are given back; the driver
forgets a card once it has asked the reader; a context exists exactly while there is a
connection; a cached ATR is the last one the card sent; a T=1 command that succeeds was
carried out once and got its own answer, and one that fails had a reason to; a T=0 command
is carried out once, its answer is put together whole, and no card can overrun the buffer; port
and reader use the same rate and parity, those of the card in use while it is in use; an update
of a memory card changes its own bytes and is stored when it says so; the driver spends no PIN
trial of its own; a selected file lies in the card; the ATR that is kept is the whole answer of
the card, and the protocol runs with the parameters in it.

## 2. Modules

| Module | Models | Checked by |
|---|---|---|
| `CtApi` | `ctapi.c`, `ct_list.c`, any number of threads | runs `ctapi`, `ctapi_threads`; `CtApiProofs` |
| `CtApiAbs` | the promise of CT-API: atomic connections and commands | implemented by `CtApi` |
| `CardTerminal` | `cardterminal.c`, `ct_slot.c`, and the reader as they see it | run `cardterminal`; `CardTerminalProofs` |
| `ProtocolT1` | `protocol_t1.c`, `t1_block.c`, with a line and a card | run `t1`; `ProtocolT1Proofs` |
| `CardExchange` | the promise of a protocol handler | implemented by `ProtocolT1` |
| `IfdHandler` | `ifdhandler.c`, any number of threads, over atomic CT-API calls | runs `ifdhandler`, `ifd_create`; `IfdHandlerProofs` |
| `ProtocolT0` | `protocol_t0.c` in both builds, with a line and a card | runs `t0`, `t0_iso`; `ProtocolT0Proofs` |
| `ReaderLine` | rate and parity in `ifd_towitoko.c`, `io_serial.c`, `icc_async.c`, `icc_sync.c`, `pps.c` | run `readerline`; `ReaderLineProofs` |
| `MemoryCard` | `icc_sync.c`, the commands of `protocol_sync.c`, memory card functions of `ifd_towitoko.c` | run `memorycard`; `MemoryCardProofs` |
| `DataSection` | SELECT FILE of `protocol_sync.c`, `tlv_object.c` | run `datasection`; `DataSectionProofs` |
| `AnswerToReset` | reset of a processor card in `ifd_towitoko.c`, `atr.c`, the use of the ATR in `icc_async.c`, `pps.c`, `protocol_t0.c`, `protocol_t1.c`, `cardterminal.c` | run `atr` |
| `MCCtApi`, `MCProtocolT0` | instances: the ports of each number; the commands | |

The modules stack as the code does: `IfdHandler` uses the three CT-API calls as the single
steps `CtApiAbs` makes of them; `CtApi` leaves a command's result open; `CardTerminal` is one
command after the other because the terminal's mutex serialises them (`PortSerialized`); it
leaves the protocol's result open, and `ProtocolT0` and `ProtocolT1` look inside a protocol.
`ReaderLine` looks below `CardTerminal` and the protocols, at the line they all share.
`MemoryCard` and `AnswerToReset` look inside the steps `ProbeSync`, `ProbeType`, `ProbeLength`,
`ProbeAsync` and `SlotCommand` of `CardTerminal`; `DataSection` looks inside `SelectFile` of `MemoryCard`.

### CtApi

`nodes`, `elements` and `listExists` are the linked list of `ct_list.c` (a sequence instead
of pointers). A terminal is an address of the heap with a state, a port and a mutex;
`malloc` may hand a freed address out again. Each thread has a program counter and the
locals `ctn`, `pn`, `ct`, `ret`. Actions are cut where another thread can see a
difference: at every lock and unlock, at the opening and closing of the terminal, and at
the command. Failing `malloc` and failing exchanges are choices. `DataUndefined` is what
`CT_data` does with a terminal that was freed under it: the model stops.

`disciplined` says what the application promises: not to run `CT_close` on a number beside a
`CT_data` on the same number. It is chosen in `Init` and never changes. Nothing in the code
enforces it, which is the finding of `ctapi_threads`; the properties that need it name it.

### CardTerminal

State of the reader: slots, cards, change bits, power. State of the driver: `num_slots`, and
for each slot whether `slot->ifd`, `slot->icc` and `slot->protocol` exist and of which type.
A command is a sequence of steps, cut so that each reads the status of the reader once at most:
`Check` (`CT_Slot_Check`, one status request of its loop), `Release`, `CloseSlot`, `InitSlot`, and
the parts of `CT_Slot_Probe`. Of these, `ProbeSync` (LED, rate, activation and reset of
`ICC_Sync_Init`), `ProbeAsync` and `ProbeProtocol` are several exchanges in one step, none of which
reads the status. `ProbeType` and `ProbeLength` do: on a card without ATR, `ICC_Sync_Init` looks at
the data bit of the status to tell the type (`icc_sync.c:513`) and, in up to `MaxLengths` rounds, the
length of the memory (`icc_sync.c:598`), and discards the change bit that comes with it
(`ProbeStatus`). A status read of the probe that failed leaves an uninitialised value, which may
say anything. `Insert` and `Remove`
may happen between any two steps, also of a probe, and what a part of the probe saw need not be true of
the card that is there at its end. History variables: `moved` (the card an object was made for, or the
probe was begun with, has left), `consumed` (and its change bit was read by a probe, with a card in the
slot), `calm` (no card has moved since the command began), `broken` (the last kernel
reset failed). The reader is external. Assumed of it: a movement sets the change bit, the
status answer that reports it clears it, a status answer that does not arrive leaves it.

### ProtocolT1 and CardExchange

`Protocol_T1_Command` as steps between a send and a receive, with its locals. A command is a
number and its bytes are pairs of number and position, so that wrong, missing, repeated or
foreign bytes show. The card follows ISO 7816-3: it expects alternating numbers, chains its
answer, asks for time, may ask for what the driver does not implement. The line may lose or
damage a block, a send may fail, a card may be late; each is a fault, and their number is
bounded. `rate` is the rate that the ATR or a PPS has set, chosen anew whenever the card is reset.
The driver's waiting time (`Time`, `bwt`) is what `Protocol_T1_Init` computes from it and cuts to 16
bits; the card's (`CardBwt`) is that of ISO 7816-3, which counts periods of 372 clock cycles whatever
the rate is, and only the 11 etu beside it shrink. A block that failed to be sent is incomplete and not carried out. A write to
the port discards pending input (`IO_Serial_Write` flushes). After an error the application
resets the card, as `src/doc/ctapi.sgml:270-273` demands; without that neither side
resynchronises (see the hazard at `protocol_t1.c:411`).

`CardExchange` is the promise: a call succeeds only with the answer to its own command,
carried out once.

### IfdHandler

`context` is `NULL` or the cached ATR, `conn` the state of the number in CT-API. A function is
entered, locks, looks at the context, possibly calls CT-API, stores, unlocks. The functions
that hold the mutex over `CT_data` and those that release it first are kept apart.
`lastAtr` is the history of what the card answered, `spoiled` records a failed `malloc` or
`CT_close`. `IFDH_MAX_SLOTS` is 1 in the source. The choice of port from the channel number is
left out, and what two overlapping calls do inside CT-API is `CtApi`'s subject.

### ProtocolT0

`Protocol_T0_ExchangeTPDU` byte by byte: `Begin` (BeginTransmission and the header), then one
action per procedure byte (`Null`, `SW1`, `Data` for both ways of acknowledging, `Other`),
`SW2`, `End`. Around it the functions for the APDU cases: `fn` says which function, and which
place in it, waits for the response, and the `Respond...` actions go on from there. `Commands` are the cases and
lengths that `APDU_Cmd_Case`, `APDU_Cmd_Lc` and `APDU_Cmd_Le` can make of a command. Of the bytes only
their number is kept; 256 is the constant `Short`, so that a length byte is a number below it
and 0 means `Short`. Both values of `PROTOCOL_T0_ISO` are models (`iso`). The card is external:
when a TPDU arrives it chooses a `plan` that ISO 7816-3 allows (its data, 61, 6C, 67), and at
any step it may `Deviate` for good and then send anything (`strict` becomes false). The line may
fail at any byte (`excused`). `runs` and `total` are history: how often the card has carried the
command out and how long its answer is. The second turn of the GET RESPONSE loop of `Case3S`
reads a response that has been freed; there the model stops in `undefined`.

### ReaderLine

`cache` is `io->props`, `port` what termios was set to, `reader` what the reader uses; a rate is
a number of bits per second, rounded down by `IO_Serial_Bitrate` (`PortRate`) and up by
`SetBaudrate` (`ReaderRate`). The factors F and D give the card the quotient (`Baudrate`).
`PPS_InitICC` computes it in floating point and cuts off the fraction, so that the driver may get one less
than a whole quotient; which ones depends on the build, and `Baudrates` has both results. A fraction
D is expressed as a multiple of F; table entries without a value (0) do not occur. Each slot has a card of a kind
and of a rate it `speaks` at; a `foreign` one offers neither T=0 nor T=1 and is refused by
`PPS_InitProtocol`. `Pps` is the exchange of `PPS_Perform`: the card confirms the request, confirms something
else or stays at the default factors, and `PPS_Match` lets any confirm of the length of the request
pass. An operation (opening, kernel reset, probe with or without PPS, command, release) is a sequence of
steps, one per exchange with the reader, and each exchange may be lost on the way there or on the
way back. The reader is external. Assumed of it: it hears a command if and only if that arrives
at its own rate, it is at 9600 bps and even parity when the port powers it up, and it loses power
with the port. Of `IO_Serial_SetProperties`: it fails as a whole. The build is the default one
(memory cards are probed first, direct convention first). History: `why` (what has made port
and reader part), `dropped` (a transmission or a probe was left with its parity set), `misread` (the
card has confirmed other factors than the driver uses), `fault`.

### MemoryCard

The functions of `icc_sync.c` run to their end without anybody else at the card, so each is an
operator from a state (card, ICC object, result) to the set of states it may leave; `Then` goes
on where the step before went well, `Ignore` where the code does not look. `Written` and `Dropped`
are what a write leaves in the card when it arrives and when it does not. `ICC_Sync_ProbeCardType` takes
the word of an ATR, also for an I2C card whose ATR names it (`icc_sync.c:497`), and tries the others. Every
exchange with the reader may fail before the card has acted or after it, a PIN entry after each of its three
writes, a write after any of its bytes; an I2C card may drop a write that the reader
acknowledged. `ICC_Sync_Write` is one step per turn of its loop (`WriteChunk`), since its parts
are what the properties are about. The card is external: memory, power, whether the PIN has been
presented, the error counter; its address counter stays in a page. `Served` is an assumption
drawn from `ICC_Sync_ProbeCardType`, which reads an I2C card it has just deactivated: the reader
serves I2C cards at any time, the others only while activated. History: `before` (the memory when the
update began), `settled` (the last command met no failure), `strikes` (commands that may have
cost a trial).

### DataSection

SELECT FILE on a memory that is either an arbitrary short string of bytes or a well formed
directory (one application, one in a template, a sequence of templates with paths). TLV objects
are records with address, tag and the place of the value, as in `tlv_object.c`. The search through
a sequence is a step per template, because `aid_length` changes from one to the next;
`path_length`, which the code never sets, is chosen when the search begins, and then is the length of
the path read last, as `TLV_Object_GetValue` stores it (`tlv_object.c:167`). Each read may fail.

### AnswerToReset

The loop of `IFD_Towitoko_ResetAsyncICC`, one reset per step, in all builds
(`--enable-atr-check`, `--enable-atr-timings`, fixed convention). A card has a convention, a reset level, groups
of interface bytes with protocol types, and historical bytes; `Answer` writes its ATR as
ISO 7816-3 does, and the parser takes the bytes apart as `atr.c` does. Assumed of the card: it is
heard only under the parity of its convention and the level it answers, and may fall
silent after any byte. A damaged byte is not modelled: `atr.c` never compares TCK, so
such an ATR is taken as it is.

## 3. Runs

| Run | Checks | Instance |
|---|---|---|
| `ctapi` | `TypeOK`, `ListConsistent`, `NoLeak`, `NoDanglingTerminal`, `PortSerialized`, `MutexesReleased`, `ImplementsAbs` | 2 threads, 2 numbers with a port each, 2 addresses, disciplined and not |
| `ctapi_threads` | violation of `InterfacesThreadSafe` | 2 threads, 1 number, not disciplined |
| `cardterminal` | `NoLostChange`, `StatusResyncs`, `NoNullDereference`, `CommandsReturn` | readers with 1 and 2 slots, timeout 0 or 1, memory cards with and without ATR, 2 lengths to try |
| `t1` | `FailuresExcused`, `TimingsRestored`, `CommandsReturn`, `ImplementsExchange` | 9600 and 38399 bps, BWI 4, block size 2, commands of 1-5 and answers of 2-5 bytes, 3 commands, 2 faults, 2 requests for time |
| `ifdhandler` | `TypeOK`, `ContextMatches`, `AtrIsLatest`, `NoNullContext`, `MutexesReleased` | 3 threads, 1 reader, 1 ATR |
| `ifd_create` | violation of `AlreadyInitialised` | 1 thread |
| `t0` | `BufferInBounds`, `TransmissionEnded`, `CarriedOutOnce`, `AnswerComplete`, `CommandsReturn` | `Short` = 3, 14 commands of every case, answers of 0 to 8 bytes, 2 NULLs, both builds; commands and faults unlimited |
| `t0_iso` | violation of `IsoHandled` | one extended command, ISO build |
| `readerline` | `LineAgrees`, `CardReached`, `ProbeFinds` | the three kinds of reader, the four kinds of card in each slot, F = 372, D in {4, 16} |
| `memorycard` | `UpdateInside`, `UpdateStored`, `UpdateProgresses`, `UpdateCarriedOut`, `TrialsJustified`, `ProbePreserves` | cards of 3 bytes, pages of 2 and 4 bytes, updates of up to 2 bytes, 4 PINs, 2 trials; commands and failures unlimited |
| `datasection` | `FileInCard`, `SearchEnds`, `ApplicationFound` | every memory of up to 5 bytes from 5 values, directories with up to 2 applications, identifiers of 1 and 2 bytes; commands unlimited |
| `atr` | `AtrComplete`, `ParametersOffered`, `GivesUpLate` | up to 3 groups of interface bytes, protocols 0, 1 and 14, 4 builds that have every option once set and once not |

`TypeOK` is proved for every module with a proof module, and also an invariant of the runs of
`CtApi` and `IfdHandler`; in `AnswerToReset` it documents the state. The inductive invariants
`IInv`, and `WriteInv` and `FlagInv` of `MemoryCard`, were checked with TLC on the same instances before they were
proved.

Bounds, and why they suffice. CT-API: two threads are enough for every pair of calls, two
numbers for a node that is not the first, two addresses for reuse of a freed one and for an
exhausted heap; what is proved does not depend on them. Card terminal: two is
`CARDTERMINAL_MAX_SLOTS`; a timeout of one second runs the loop of `CT_Slot_Check` once and
past its end; with two lengths to try, a
probe reads the status three times, and a card can be exchanged before, between and after. T=1: with blocks of 2 bytes the lengths 1 to 5 give one, two and three blocks,
full, not full and exact; three commands show both parities of the sequence number after a
command of either parity; with BWI 4 and 9600 bps the waiting time is 1601 ms, of which 40 times
fits 16 bits and 41 times does not, and 38399 bps is what the driver makes of D = 4, at which
it waits 400 ms on a card that may take 1600. IFD handler: readers do not share
anything but the code, so one suffices; three threads let a create, a close and a power
command meet. T=0: with `Short` = 3 a length is below, at and above the limit of a short TPDU,
an envelope is full or not, and an answer takes up to three TPDUs; nothing else is bounded.
Reader line: all state is finite; the rates are 9600 and 9599 for the default factors, 38400 and 38399
for D = 4, that is a rate both ends have and one below it, which they round apart, and 153600 and 153599,
above what the reader has. Memory cards:
an update of two bytes lies in one page, or in two, of a card of three bytes with pages of two;
two values of a byte tell the old from the new, and one of them is the blank byte of a card
without power; two trials are enough to spend one wrongly. Data section: five bytes hold a tag, a
long length and a value, an object in an object, and two objects in a sequence. ATR: group 3 is
the last one of which anything is used; a fourth is parsed as the second and third are.

Fairness. A thread that is inside a function (weak fairness of `Proceed(t)`), a command in
progress (`Step`), the driver and the card (`Host`, `Card`; in `ProtocolT0` `Host`, whose steps
are those of the driver with the byte the card sends) keep going. Nobody has to call,
no card has to move, and no mutex is assumed to be fair: `MutexesReleased` says only that a
mutex is free again and again. The code justifies this because every read has a timeout.
`MemoryCard`, `DataSection` and `AnswerToReset` need no fairness: that a search or an update ends is said by a measure
(`SearchEnds`, `UpdateProgresses`), that the resets end is the shape of their loop.
Deadlock is checked in `readerline`, `memorycard` and `datasection`. Elsewhere it is off because the bounded runs end, and the
models stop at undefined behaviour; that nothing else stops is what the liveness properties say.

Findings (runs that must find a violation, details in `PROJECT.json`):

1. `ctapi_threads`: `CT_close` frees a terminal that a `CT_data` has looked up, against
   "The Interfaces are thread-safe" (`src/doc/design.sgml:305`).
2. `ifd_create`: after a `CT_close` that reported an error, `IFDHCreateChannel` succeeds
   without a connection, and the channel cannot be closed or opened again.
3. `t0_iso`: for a card with fewer bytes than an extended Le asks for, `Protocol_T0_Case3E`
   repeats GET RESPONSE for ever, because it never looks at the status words.

Other disagreements met while modelling, each an exception of a property or a case the models
contain, without a run of its own:

* REQUEST ICC answers 62 01, "Card already present and activated" (`doc/ctbcs.sgml:643`), from
  its ICC object alone (`cardterminal.c:527`), also when that card has left the slot.
* EJECT ICC succeeds at once for a slot without ICC object (`cardterminal.c:819`) and leaves a
  card powered that the probe activated and did not recognise (`icc_async.c:73`).
* RESET CT of the kernel sets the port to 9600 bps while the reader may be at another rate;
  `SetBaudrate` sees the port at the right rate and does not tell the reader
  (`ifd_towitoko.c:200`). Exception `reset` of `LineAgrees`.
* The probe of a memory card without ATR reads the status for its data bit and discards the change bit
  (`icc_sync.c:513`, `598`): a card exchanged before such a read passes for the first one, and GET STATUS does not
  find out. Exception `consumed` of `NoLostChange` and `StatusResyncs`.
* After a PPS to a higher rate `Protocol_T1_Init` multiplies 2^BWI * 960 by the shorter etu
  (`protocol_t1.c:121`, `137`), and the driver gives up on a card within its time. `Hasty` in
  `FailuresExcused`.
* On x86-64 `PPS_InitICC` makes 9599 of F = 372, D = 1, and 38399 of D = 4 (`pps.c:257-264`): `SetBaudrate`
  leaves the port at 4800 or 19200 and the reader at 9600 or 38400, and the reader hears nothing more until the
  port is closed. `why` of the line properties.
* `PPS_Match` compares with `memcmp` the wrong way round (`pps.c:226-232`): a confirm of the length of the
  request passes with other factors. When the driver then uses others than the card, `CardReached` names it
  (`misread`).
* REQUEST ICC with historical bytes of a memory card does not add the status bytes to the
  length of its answer (`cardterminal.c:652-653`, where lines 483 and 643 do).
* Historical bytes asked of a card that has none: `ATR_GetHistoricalBytes` returns without
  setting the length, which the caller uses (`atr.c:521`). `AtrComplete` names it.
* Without `--enable-atr-check` the result of the parser is ignored and it is handed one byte more
  than was read (`ifd_towitoko.c:557`): the ATR of a card that breaks off is used with fields
  nobody set. `AtrComplete` is about complete answers in that build.
* The ATR is lost, not freed, when the parity cannot be restored (`ifd_towitoko.c:611`).
* IFSC, waiting times and error detection are taken from group 3 even when it is announced for
  another protocol than T=1 (`protocol_t1.c:91`). `ParametersOffered` excepts such cards. D is 0
  for DI = 6 (`atr.c:58`), reserved when the code was written.
* A comparison shortens `aid_length` for all that follow, so a short identifier on the card
  makes a later one match by its first bytes, and `path_length` is never initialised
  (`protocol_sync.c:339-343`). `ApplicationFound` excepts both.
* The results of the exchanges in `ICC_Sync_ProbeCardType` are not looked at
  (`icc_sync.c:512-531`): after a failure the probe may leave the first byte of the card changed,
  or take the card for another type. `ProbePreserves` is about probes without a failure.

Two more places are named as exceptions in `NoNullDereference`, because without them the
property fails: REQUEST ICC for the second slot of a reader with one, and a slot after a kernel
reset that failed. `NoNullContext` has a third: `IFDHGetCapabilities` without a channel.
`NoLostChange` and `StatusResyncs` except a change bit that a probe has discarded, and nothing else.
`FailuresExcused` allows the driver to give up on a card within its time only at a rate above the default
one and where a waiting time does not fit 16 bits. `CommandsReturn` of T=0
excepts finding 3, and `LineAgrees`, `CardReached` and `ProbeFinds` name what parts port and
reader: a lost answer to a change of the rate, a rate that one of them does not have, the kernel reset above, a
transmission that is not ended; a misread PPS confirm, PPS for inverse cards, which is sent at the wrong
parity, and cards that offer neither T=0 nor T=1. `ParametersOffered` compares the waiting times of the character and of
the block with what the card offers, for cards that announce group 3 for T=1 or not at all.

## 4. Proofs

All for every value of the constants, from the assumptions in the modules only. In general: the
values that stand for `NULL` or for nothing differ from the others, and bounds are numbers.
Beyond that: each number has a set of ports (`CtApi`); there is at least one reader
(`IfdHandler`) and at least one slot (`CardTerminal`); at least one memory length is tried (`CardTerminal`); block sizes and lengths,
`Factor`, rates and multipliers are positive (`ProtocolT1`); a short length has at least two
values and the commands are `Commands` (`ProtocolT0`); F is positive and D one of 1, 2, 4, 8, 16, or a multiple of F in place of a fraction (`ReaderLine`); sizes,
pages and trials are positive and a byte can differ from the blank one (`MemoryCard`); memories
consist of bytes (`DataSection`). Every theorem about a property has the form
`Spec => []P` and follows from `Spec => []IInv`, the theorem `Invariant` of its module.

`CtApiProofs` proves `TypeOK`, `ListConsistent`, `NoLeak`, `NoDanglingTerminal` and
`PortSerialized` from the inductive invariant `IInv`. Its parts: the list mutex belongs to the
thread in a critical section (`LockInv`), so that at most one thread is between look-up and
insertion or between close and removal; in those sections the terminal in hand is new or is
listed (`CriticalInv`), without which appending could repeat a number and removing could take
another node; a closed terminal is on its way out (`ClosedInv`), which makes a listed one
usable; ports belong to numbers (`PortInv`); and, for the disciplined application, nobody closes
what a `CT_data` uses (`DisciplineInv`), so its terminal stays listed and its mutex stays its own
(`MutexInv`). There is one lemma per action that changes the list or the heap, `StepLocal` for
the others, and facts about `RemoveAt` and the look-up stated once. From the same invariant,
and from what a call in progress has in its locals (`ResultInv`), `Refinement` proves
`ImplementsAbs`: a number is connected to the port of the terminal listed under it (`Connected`);
calls and returns, the node added, the node removed, the end of `CT_data` and every error exit
are one step of `CtApiAbs` each, and all other steps change nothing there. An application that is
not disciplined is mapped to an interface nobody calls, so that the theorem says nothing of it.

`IfdHandlerProofs` proves `TypeOK`, `ContextMatches`, `AtrIsLatest` and `NoNullContext`. The
heart is `ChannelInv`: a context, or the thread about to allocate it, goes with a connection
or with exactly one thread that has disconnected and is about to free. That is why the late
lock of `IFDHCloseChannel` is harmless: a create in between finds the context still
there and takes its "another slot" branch, and a second close fails in `CT_close`. `AtrInv` says
that what is about to be stored is what the card said last, because the mutex is held
over `CT_data`.

`CardTerminalProofs` proves `NoLostChange`, `StatusResyncs` and `NoNullDereference`. `CallInv`: the
place inside a command says which command it is, and its slot is one the reader has, except for
a REQUEST ICC for a second slot. `PointerInv`: a card object has a reader object, a protocol
object has a card object, and reader objects exist except after a kernel reset that failed and
while the slots are closed and opened. `ProbeInv`: a probe runs only in a slot without another
card object, so the change bit that the status request before it clears is nobody else's. From there on the
object to be made counts as begun: a movement sets `moved`, and the change bit stays unless a status read of
the probe itself discards it, which is `consumed` and the only way a movement is lost. `Synced` and `ResyncInv`: as long as no card moves, every slot that GET STATUS has
passed is in order.

`ProtocolT1Proofs` proves `TimingsRestored`, `FailuresExcused` and, step by step, `ImplementsExchange`.
`TimingInv` says when the driver's waiting time is the extended one. `TimeSuffices` and `Patience`
are the arithmetic of the two clocks: up to the default rate what the driver computes, rounded down and
multiplied by the extension, is no less than what the card has, as long as it fits 16 bits
(`TimeoutExcused`). The heart is `PhaseInv`. While
nothing has failed, driver, line and card are in one of eight phases (`Sending`, `Chaining`,
`LastSent`, `Working`, `PartSent`, `Acknowledged`, `TimeAsked`, `TimeGranted`), each of which says
which block is on the line, what the card has collected, how much of the answer has arrived, and
that the two sequence numbers agree. After a fault the exchange is `Doomed`: it can only end in an
error, which is what keeps an old answer from being taken for a new one. The sequences are
treated with a few lemmas about parts of a command (`SubSeq` and concatenation). `Refinement`
maps the steps to those of `CardExchange`, nearly all of them to stuttering.

`ProtocolT0Proofs` proves `BufferInBounds`, `TransmissionEnded`, `CarriedOutOnce` and
`AnswerComplete`, in both builds and against a card that may deviate. `OpenInv` says
when a transmission is open, `FnInv` which function may wait for the response and with which
lengths, `AskInv` how many bytes the current TPDU asks for, and `PlanInv`, `ServeInv` and
`ResponseInv` what a card that follows ISO 7816-3 plans, what it has already delivered, and that this
is what the driver has put together.

`ReaderLineProofs` proves `LineAgrees`, `CardReached` and `ProbeFinds`. `RateInv`: port, cache and reader
have the same rate unless `why` names what has parted them. `ParityInv`: at each step of an
operation the parity is the one that this step needs (`StepParity`), unless an operation was
left. `IccInv` ties the rate an ICC object asks for to the card, `ProbeInv` says what a probe
has found out at each of its steps. Rounding of rates is one lemma each for `PortRate` and
`ReaderRate`. That a rate the driver has got wrong by one never passes for the card's is `OneOff` and
`DriverRates`: for no F and D is a rate that port and reader both have one below a whole quotient, so
the wrong rate parts them (`why`) instead of deceiving them. `IccInv` therefore says `Agreed`, not equal.

`DataSectionProofs` proves `FileInCard` and `SearchEnds`. `Objects` says that the value of each TLV
object in hand lies behind its own address and in the memory, `Opened` that every search
goes on strictly behind the object it has left. The search inside an object is a recursive function;
that it is defined and what it returns (`Forward`) is proved with the greatest address at which it
could fail, since the address grows with every call.

`MemoryCardProofs` proves `TrialsJustified`, `UpdateInside` and the action properties `UpdateProgresses`,
`UpdateStored`, `UpdateCarriedOut` and `ProbePreserves`, for every size of card, page and transfer. There is a lemma
for each function of `icc_sync.c`. Most functions are `Quiet`: they do not touch PIN, flags and error
counter. The others are `Fair`: compared by `Cost`, the spent trials and one more when the PIN that
the driver remembers may be wrong or the card may be asleep (`Doubt`), they get
dearer only with a failure that the history records. `PinInv` (a card is driven as one with PIN
if and only if it is one, and an object of unknown type remembers no PIN) lets the lemmas apply to every
command. `UpdateProgresses` follows from the piece of a page being at least one byte long, and
from the loop that repeats a piece once at most.

For what an update does to the memory, `WriteInv` is needed beside `IInv`. `UpdateInside` is not
inductive: that a piece stays in its page depends on the page found by the initialisation being
that of the type (`ReadyInv`); that it stays in the file, on where the command placed it (`JobInv`);
and that the bytes already counted are still there when the next piece, or its repetition, is cut
off, on each piece having been read back (`StoredInv`), which in turn is worth something only because
a card that is driven as what it is and answers is read truly (`ReadFacts`; for a 3W card this needs
`ReadyInv`, that it is never asleep while the driver believes it active). The address arithmetic
is in `StoredAt` and `WriteBufferStores`: inside a page, byte `k` of a transfer lands at address
`a + k - 1` and nowhere else, and a transfer that fails has stored a prefix. With `WriteInv`, `UpdateStored`
is the last step of the loop. `ProbePreserves` rests on `Kept`, which every function of the initialisation
satisfies: it leaves the memory alone, or something has failed or was dropped. The only one for
which this is not plain is `ProbeShort`, which writes a changed byte at address 0 and sets it back; a
card driven with the wrong kind of address stores neither.

`UpdateCarriedOut` needs of every function not only what it may do but that it succeeds when no
exchange fails. Why it should is a matter of what the driver remembers between exchanges, and `FlagInv`,
proved beside `IInv` and `WriteInv`, says what that is worth. After a command that went undisturbed,
the belief `Known` of a 2W card is right: one that is marked active is on, and open if the PIN that is
remembered is the right one; one that is not marked active is known to need the PIN again. A part of an
update that succeeded has ended in `ICC_Sync_Read`, which lets go of the card (`ReadReleases`), so an update
that was carried out sets the belief right even if a failure before it had left the flags wrong. For an
I2C card the repetitions of a part are exactly the writes it has dropped, so the second turn of the loop
cannot fail when only one is dropped (an update of a single byte has no second turn). With these, `WriteTryKnown` and `WriteTryI2C` show that a turn
of the loop stores its part, is repeated, or has seen a failed exchange or
as many dropped writes as there are turns. The
lemmas per function have names in `Known`, `Releases` and `Flags`.

Only model-checked:

* all liveness (`MutexesReleased`, `CommandsReturn`), out of the prover's reach;
* `ApplicationFound` of `DataSection` and everything about `AnswerToReset`: both compare a
  parser with the function that wrote its input, which for inputs of every length is an induction
  over data.

## 5. Plan

All modules of section 2 are done, and every safety property of the passing runs is proved but those of the
list above. `AtrComplete`, `ParametersOffered` and `GivesUpLate` all rest on one fact, that parsing
the complete answer of a card gives back what the card offers; a proof would have to unroll
`Rows` and the concatenation of the groups for each number of groups the parser allows.

## 6. Not modelled

The tester program and the build have no state of interest. `IFDHSetCapabilities` only returns.
The wording and the bytes of CT-BCS responses, the LEDs, debugging output and device names
are left out. Builds without pthreads are not considered: mutexes are assumed. The `select`
loops of the serial port and the plug and play identification are pure I/O. How `apdu.c` finds
case and lengths of a command in its bytes (`Commands` of `ProtocolT0` has the results), how `CT_data` cuts a response to the buffer of the caller
(it keeps the end) and how `IFD_Towitoko_Transmit` divides more than 255 bytes, which no protocol
sends, are left out: straight-line code without a history, where a model would repeat the code.
`atr_sync.c` reads four bytes; `DataSection` keeps whether they name a directory, and where.
