--------------------------- MODULE AnswerToReset ---------------------------
(***************************************************************************)
(* How a processor card is found and what the driver learns from it:       *)
(* IFD_Towitoko_ResetAsyncICC (driver/ifd_towitoko.c) resets the card up to*)
(* eight times, driver/atr.c takes the answer apart, ICC_Async_Init        *)
(* (driver/icc_async.c) accepts it, PPS_Perform without a request          *)
(* (driver/pps.c) chooses protocol and parameters from it, and CT-BCS      *)
(* returns it to the application (ct-api/cardterminal.c).                  *)
(*                                                                         *)
(* A step is one reset with the reading of its answer, or one of the calls *)
(* that follow. A card answers one level of the reset signal, is heard     *)
(* only under the parity of its convention, and may fall silent after any  *)
(* byte: the next read then times out. The contents of an answer are bytes;*)
(* pointers of the code count from 0, sequences from 1.                    *)
(***************************************************************************)
EXTENDS Integers, SequencesExt

CONSTANTS
  Builds,       \* sets of options: --enable-atr-check, --enable-atr-timings,
                \* --enable-card-convention=dir or inv
  Patterns,     \* which of TA, TB, TC a group of interface bytes may have
  Types,        \* protocol types a card may offer
  MaxGroups,    \* groups of interface bytes of a card
  MaxHistorical,\* historical bytes of a card
  None

ASSUME BuildAssumption ==
  \A b \in Builds : b \subseteq {"check", "timings", "dir", "inv"} /\ ~({"dir", "inv"} \subseteq b)
ASSUME CardAssumption ==
  /\ Patterns \subseteq SUBSET {"TA", "TB", "TC"} /\ Types \subseteq 0 .. 15
  /\ MaxGroups \in 1 .. 7 /\ MaxHistorical \in 0 .. 15

VARIABLES
  build,   \* the options the driver was compiled with
  card,    \* convention, level of the reset it answers, what it offers
  line,    \* parity port and reader are set to
  parity,  \* the parity being tried
  tries,   \* resets done under this parity
  atr,     \* the parsed answer; None when the driver holds none
  pps,     \* protocol and parameters in use; None before they are chosen
  rsp,     \* the answer returned to the application
  pc,
  silent,  \* history: answers that were not complete, up to two
  broken,  \* history: a command to the reader failed
  cut      \* history: the answer that was accepted was not complete

vars == <<build, card, line, parity, tries, atr, pps, rsp, pc, silent, broken, cut>>

-----------------------------------------------------------------------------
(* The card, by ISO 7816-3. *)

Chars == <<"TA", "TB", "TC">>

\* Interface bytes: distinct by their place, apart from the rates in TA1, the
\* IFSC in TA3 and the waiting times and check in TB3, TC3.
Value(c, i, x) ==
  CASE c = "TA" /\ i = 1 -> IF x THEN 148 ELSE 17
    [] c = "TA" /\ i = 3 -> IF x THEN 254 ELSE 0
    [] OTHER -> 16 * i + (IF c = "TA" THEN 1 ELSE IF c = "TB" THEN 2 ELSE 3)

HistoricalByte(i) == 200 + i
CheckByte == 99

\* Types are offered in ascending order.
Offers ==
  UNION {{g \in [1 .. n -> [has : Patterns, t : Types \cup {0}]] :
            g[1].t = 0 /\ \A i \in 2 .. n - 1 : g[i].t <= g[i + 1].t} : n \in 1 .. MaxGroups}

Cards ==
  {c \in [convention : {"direct", "inverse"}, level : {"low", "high"}, offer : Offers,
          x : BOOLEAN, hbn : 0 .. MaxHistorical] :
     c.x => \E i \in DOMAIN c.offer \cap {1, 3} : "TA" \in c.offer[i].has}

\* The byte that announces group i: T0 with the number of historical bytes, or
\* TDi-1 with the protocol type.
Announces(c, i) ==
  LET g == c.offer
      Bit(ch, v) == IF ch \in g[i].has THEN v ELSE 0
  IN  Bit("TA", 16) + Bit("TB", 32) + Bit("TC", 64) + (IF i < Len(g) THEN 128 ELSE 0)
        + (IF i = 1 THEN c.hbn ELSE g[i].t)

Group(c, i) ==
  LET present == SelectSeq(Chars, LAMBDA ch : ch \in c.offer[i].has)
  IN  [j \in DOMAIN present |-> Value(present[j], i, c.x)]
        \o (IF i < Len(c.offer) THEN <<Announces(c, i + 1)>> ELSE <<>>)

\* The answer of a card, as ISO 7816-3 writes it.
Answer(c) ==
  <<IF c.convention = "direct" THEN 59 ELSE 63, Announces(c, 1)>>
    \o FlattenSeq([i \in DOMAIN c.offer |-> Group(c, i)])
    \o [i \in 1 .. c.hbn |-> HistoricalByte(i)]
    \o (IF \E i \in DOMAIN c.offer : c.offer[i].t # 0 THEN <<CheckByte>> ELSE <<>>)

\* ~(INVERT_BYTE (b)): bits in the opposite order, and complemented.
Inverted(b) ==
  255 - MapThenSumSet(LAMBDA k : ((b \div 2^k) % 2) * 2^(7 - k), 0 .. 7)

\* What the serial port reads of it.
Sent(c) ==
  IF c.convention = "direct" THEN Answer(c)
  ELSE [i \in DOMAIN Answer(c) |-> Inverted(Answer(c)[i])]

Parity(c) == IF c.convention = "direct" THEN "even" ELSE "odd"

-----------------------------------------------------------------------------
(* atr.c *)

Has(td, k) == (td \div 2^(4 + k)) % 2 = 1

\* Where the pointer is after the bytes up to character k of the group that td
\* announces have been read.
At(r, k) == r.p + Quantify(0 .. k, LAMBDA j : Has(r.td, j))

\* All bytes of the group are there.
Fits(r, b) == At(r, 3) < Len(b)

\* The groups, each with the byte that announces it and the pointer before it.
\* Group 8 is refused only after it has been stored.
Rows(b) ==
  LET g[i \in 0 .. 7] ==
        IF i = 0 THEN <<[td |-> b[2], p |-> 1]>>
        ELSE LET rows == g[i - 1]
                 r == Last(rows)
             IN  IF Len(rows) < i \/ ~Fits(r, b) \/ ~Has(r.td, 3) THEN rows
                 ELSE Append(rows, [td |-> b[At(r, 3) + 1], p |-> At(r, 3)])
  IN  g[7]

\* An ATR of which only TS has been stored: pn has the value malloc left.
Unparsed(ts) == [TS |-> ts, T0 |-> None, ib |-> None, hb |-> None, TCK |-> None]

Unfit == [TS |-> None]

\* Mutant: TCK is expected when the first protocol is not T=0.
CheckExpectedFirst(rows) == Len(rows) > 1 /\ rows[2].td % 16 # 0

\* TCK follows when the last TDi does not say T=0.
CheckExpected(rows) == Len(rows) > 1 /\ Last(rows).td % 16 # 0

\* The bytes b of an answer taken apart. Both functions of the code do it this
\* way; a group, the historical bytes or TCK that do not fit end it.
Parse(b) ==
  LET rows == Rows(b)
      hbn == b[2] % 16
      p == At(Last(rows), 3)
      n == p + hbn + (IF CheckExpected(rows) THEN 1 ELSE 0)
  IN  IF Len(b) < 2 THEN Unfit
      ELSE IF ~Fits(Last(rows), b) \/ Has(Last(rows).td, 3) THEN Unparsed(b[1])
      ELSE [TS |-> b[1], T0 |-> b[2],
            ib |-> [i \in DOMAIN rows |-> [k \in 0 .. 3 |->
                      IF Has(rows[i].td, k) THEN b[At(rows[i], k) + 1] ELSE None]],
            hb |-> IF p + hbn < Len(b) THEN SubSeq(b, p + 2, p + 1 + hbn) ELSE None,
            TCK |-> IF ~CheckExpected(rows) THEN <<>>
                    ELSE IF n < Len(b) THEN <<b[n + 1]>> ELSE None]

Parsed(a) == a # Unfit /\ a.ib # None /\ a.hb # None /\ a.TCK # None

\* The first byte tells the convention.
Decoded(b) ==
  IF b # <<>> /\ b[1] = 3 THEN [i \in DOMAIN b |-> Inverted(b[i])] ELSE b

ATR_InitFromStream(b) ==
  IF b # <<>> /\ Decoded(b)[1] \in {59, 63} THEN Parse(Decoded(b)) ELSE Unfit

\* TS is not looked at.
ATR_InitFromArray(b) == Parse(Decoded(b))

pn(a) == Len(a.ib)

\* None stands for ATR_NOT_FOUND.
ATR_GetInterfaceByte(a, number, k) ==
  IF number > pn(a) \/ number < 1 THEN None ELSE a.ib[number][k]

\* Mutant: the type is taken from the TD of the group itself.
ProtocolTypeOwn(a, number) ==
  IF number > pn(a) \/ number < 2 THEN None
  ELSE IF a.ib[number][3] # None THEN a.ib[number][3] % 16 ELSE 0

ATR_GetProtocolType(a, number) ==
  IF number > pn(a) \/ number < 2 THEN None
  ELSE IF a.ib[number - 1][3] # None THEN a.ib[number - 1][3] % 16 ELSE 0

\* F, and D in 64ths.
atr_f_table == <<0, 372, 558, 744, 1116, 1488, 1860, 0, 0, 512, 768, 1024, 1536, 2048, 0, 0>>
atr_d_table == <<0, 64, 128, 256, 512, 1024, 0, 0, 0, 0, 32, 16, 8, 4, 2, 1>>

\* FI, DI and N of ATR_GetIntegerValue with the defaults of ATR_GetParameter.
ATR_GetParameter(a) ==
  LET ta == a.ib[1][0]
      tc == a.ib[1][2]
  IN  [f |-> IF ta # None THEN atr_f_table[(ta \div 16) + 1] ELSE 372,
       d |-> IF ta # None THEN atr_d_table[(ta % 16) + 1] ELSE 64,
       n |-> IF tc # None THEN tc ELSE 0]

ATR_GetRaw(a) ==
  <<a.TS, a.T0>>
    \o FlattenSeq([i \in DOMAIN a.ib |->
         SelectSeq([k \in 1 .. 4 |-> a.ib[i][k - 1]], LAMBDA v : v # None)])
    \o a.hb \o a.TCK

-----------------------------------------------------------------------------
(* IFD_Towitoko_ResetAsyncICC *)

Init ==
  /\ build \in Builds
  /\ card \in Cards
  /\ line = "even"
  /\ parity = (IF "inv" \in build THEN "odd" ELSE "even")
  /\ tries = 0
  /\ atr = None /\ pps = None /\ rsp = None
  /\ pc = (IF "inv" \in build THEN "setOdd" ELSE "reset")
  /\ silent = 0 /\ broken = FALSE /\ cut = FALSE

\* IFD_Towitoko_SetParity, which may fail.
SetParity(p, done, failed) ==
  \/ line' = p /\ pc' = done /\ UNCHANGED broken
  \/ broken' = TRUE /\ pc' = failed /\ UNCHANGED line

SetOdd ==
  /\ pc = "setOdd"
  /\ SetParity("odd", "reset", "failed")
  /\ UNCHANGED <<build, card, parity, tries, atr, pps, rsp, silent, cut>>

\* Low and high by turns.
Level == IF tries % 2 = 0 THEN "low" ELSE "high"

Hears == Level = card.level /\ line = Parity(card)

\* What ATR_New and the parser leave when b has been read: the answer is
\* accepted, or None. Without the check one byte is enough, the result of the
\* parser is not looked at, and it is given one byte more than was read.
Accepted(b) ==
  IF "check" \in build
  THEN LET a == ATR_InitFromStream(b) IN {IF Parsed(a) THEN a ELSE None}
  ELSE IF b = <<>> THEN {None}
  ELSE {ATR_InitFromArray(Append(b, v)) : v \in {0, 255}}

\* Mutant: each level is tried once.
LastTryOnce == tries = 1

LastTry == tries = 3

\* One reset, its answer read until the card falls silent.
Reset ==
  /\ pc = "reset"
  /\ LET sent == IF Hears THEN Sent(card) ELSE <<>>
     IN  \E k \in 0 .. Len(sent) : \E a \in Accepted(SubSeq(sent, 1, k)) :
           /\ atr' = a
           /\ tries' = IF a = None THEN tries + 1 ELSE 0
           /\ silent' = IF k < Len(sent) THEN Min({silent + 1, 2}) ELSE silent
           /\ cut' = (a # None /\ k < Len(sent))
           /\ pc' = IF a = None THEN (IF LastTry THEN "switch" ELSE "reset")
                    ELSE IF parity = "odd" THEN "restore" ELSE "convention"
  /\ UNCHANGED <<build, card, line, parity, pps, rsp, broken>>

\* The command could not be written: the loop is left.
ResetFails ==
  /\ pc = "reset"
  /\ broken' = TRUE
  /\ pc' = "switch"
  /\ UNCHANGED <<build, card, line, parity, tries, atr, pps, rsp, silent, cut>>

\* The other parity is tried, once, unless the convention is fixed. Whether it
\* could be set is not looked at.
Switch ==
  /\ pc = "switch"
  /\ tries' = 0
  /\ IF "dir" \in build
     THEN pc' = "failed" /\ UNCHANGED <<line, parity, broken>>
     ELSE LET p == IF parity = "even" THEN "odd" ELSE "even"
              next == IF p = "even" THEN "failed" ELSE "reset"
          IN  parity' = p /\ SetParity(p, next, next)
  /\ UNCHANGED <<build, card, atr, pps, rsp, silent, cut>>

\* A failure loses the ATR.
Restore ==
  /\ pc = "restore"
  /\ parity' = "even"
  /\ SetParity("even", "convention", "failed")
  /\ atr' = IF pc' = "failed" THEN None ELSE atr
  /\ UNCHANGED <<build, card, tries, pps, rsp, silent, cut>>

-----------------------------------------------------------------------------
(* ICC_Async_Init, PPS_Perform, CardTerminal_ResetCT and RequestICC *)

\* ATR_GetConvention, then the LED, which may fail.
GetConvention ==
  /\ pc = "convention"
  /\ \/ /\ atr.TS \in {59, 63}
        /\ pc' = "perform"
        /\ UNCHANGED <<atr, broken>>
     \/ /\ broken' = (broken \/ atr.TS \in {59, 63})
        /\ atr' = None
        /\ pc' = "failed"
  /\ UNCHANGED <<build, card, line, parity, tries, pps, rsp, silent, cut>>

Default(v, default) == IF v = None THEN default ELSE v

\* Protocol_T0_Init: the waiting time integer.
T0Init(a) ==
  [wi |-> IF "timings" \in build THEN Default(ATR_GetInterfaceByte(a, 2, 2), 10) ELSE 10]

\* Mutant of T1Init: the two halves of TB3 are taken for each other.
HalvesSwapped(a) ==
  LET ta == ATR_GetInterfaceByte(a, 3, 0)
      tb == IF "timings" \in build THEN ATR_GetInterfaceByte(a, 3, 1) ELSE None
      tc == ATR_GetInterfaceByte(a, 3, 2)
  IN  [ifsc |-> IF ta \in {None, 0, 255} THEN 32 ELSE Min({ta, 251}),
       cwi |-> IF tb = None THEN 13 ELSE tb \div 16,
       bwi |-> IF tb = None THEN 4 ELSE tb % 16,
       edc |-> IF tc = None THEN 0 ELSE tc % 2]

\* Protocol_T1_Init: block size, waiting time integers, error detection.
T1Init(a) ==
  LET ta == ATR_GetInterfaceByte(a, 3, 0)
      tb == IF "timings" \in build THEN ATR_GetInterfaceByte(a, 3, 1) ELSE None
      tc == ATR_GetInterfaceByte(a, 3, 2)
  IN  [ifsc |-> IF ta \in {None, 0, 255} THEN 32 ELSE Min({ta, 251}),
       cwi |-> IF tb = None THEN 13 ELSE tb % 16,
       bwi |-> IF tb = None THEN 4 ELSE tb \div 16,
       edc |-> IF tc = None THEN 0 ELSE tc % 2]

\* PPS_SelectFirstProtocol
FirstProtocol(a) == IF pn(a) > 1 THEN ATR_GetProtocolType(a, 2) ELSE 0

Parameters(a) ==
  IF "timings" \in build THEN ATR_GetParameter(a) ELSE [f |-> 372, d |-> 64, n |-> 0]

\* PPS_Perform when no exchange was asked for, with PPS_InitProtocol. Fields
\* that parsing never reached hold what malloc left.
Perform ==
  /\ pc = "perform"
  /\ \/ /\ atr.ib = None
        /\ pc' = "undefined"
        /\ UNCHANGED pps
     \/ /\ atr.ib # None
        /\ LET t == FirstProtocol(atr)
           IN  /\ pps' = [t |-> t, par |-> Parameters(atr),
                          init |-> IF t = 0 THEN T0Init(atr) ELSE IF t = 1 THEN T1Init(atr) ELSE None]
               /\ pc' = IF t \in {0, 1} THEN "ready" ELSE "unsupported"
  /\ UNCHANGED <<build, card, line, parity, tries, atr, rsp, silent, broken, cut>>

\* The complete ATR or its historical bytes are returned. When there is none of
\* these the length of the answer is never set.
Report ==
  /\ pc = "ready"
  /\ \/ /\ atr.hb # None /\ atr.TCK # None
        /\ rsp' = [asked |-> "atr", data |-> ATR_GetRaw(atr)]
        /\ pc' = "reported"
     \/ /\ atr.hb \notin {None, <<>>}
        /\ rsp' = [asked |-> "historical", data |-> atr.hb]
        /\ pc' = "reported"
     \/ /\ atr.hb \in {None, <<>>} \/ atr.TCK = None
        /\ pc' = "undefined"
        /\ UNCHANGED rsp
  /\ UNCHANGED <<build, card, line, parity, tries, atr, pps, silent, broken, cut>>

Next ==
  SetOdd \/ Reset \/ ResetFails \/ Switch \/ Restore \/ GetConvention \/ Perform \/ Report

Spec == Init /\ [][Next]_vars

-----------------------------------------------------------------------------
(* Properties *)

\* Until the next reset the driver holds the answer the card gave, byte by byte
\* and no more, although the end of it is only known from its contents, and
\* returns it to the application; with the check no field is used that parsing
\* did not set, apart from the length when historical bytes are asked of a card
\* without any. Without the check this holds of cards that answer completely:
\* the byte too many that the parser is given does not matter then.
AtrComplete ==
  "check" \in build \/ ~cut =>
    /\ pc \in {"perform", "ready", "reported", "unsupported"} =>
         Parsed(atr) /\ ATR_GetRaw(atr) = Answer(card)
    /\ rsp # None /\ rsp.asked = "historical" =>
         rsp.data = [i \in 1 .. card.hbn |-> HistoricalByte(i)]
    /\ pc = "undefined" => card.hbn = 0

Offered(c, i) ==
  IF i \in DOMAIN card.offer /\ c \in card.offer[i].has THEN Value(c, i, card.x) ELSE None

\* The protocol and the parameters in use are those the card offers first: F, D
\* and N of group 1, WI of group 2 for T=0; block size, character and block waiting
\* time (CWI and BWI) and error detection of group 3 for T=1. It is not so for a
\* card with T=1 whose group 3 is announced for another protocol, which the driver
\* takes for T=1 all the same: of such a card nothing is said but protocol, F, D, N.
ParametersOffered ==
  pps # None /\ ~cut =>
    LET ta1 == Offered("TA", 1)
        ta3 == Offered("TA", 3)
        tb3 == Offered("TB", 3)
    IN  /\ pps.t = IF Len(card.offer) > 1 THEN card.offer[2].t ELSE 0
        /\ "timings" \in build =>
             pps.par = [f |-> IF ta1 = 148 THEN 512 ELSE 372,
                        d |-> IF ta1 = 148 THEN 64 * 8 ELSE 64,
                        n |-> Default(Offered("TC", 1), 0)]
        /\ pps.t = 0 =>
             pps.init.wi = IF "timings" \in build THEN Default(Offered("TC", 2), 10) ELSE 10
        /\ pps.t = 1 /\ (Len(card.offer) > 2 => card.offer[3].t = 1) =>
             /\ pps.init.ifsc = CASE ta3 = 254 -> 251 [] OTHER -> 32
             /\ pps.init.cwi = IF "timings" \in build /\ tb3 # None THEN tb3 % 16 ELSE 13
             /\ pps.init.bwi = IF "timings" \in build /\ tb3 # None THEN tb3 \div 16 ELSE 4
             /\ pps.init.edc = IF Offered("TC", 3) # None THEN Offered("TC", 3) % 2 ELSE 0

\* A card is given up only when two of its answers were incomplete, a command to
\* the reader failed, or the build is for the other convention: the level of the
\* reset and the convention need not be known.
GivesUpLate ==
  pc = "failed" =>
    \/ broken \/ silent >= 2
    \/ "dir" \in build /\ card.convention = "inverse"
    \/ "inv" \in build /\ card.convention = "direct"

=============================================================================
