----------------------------- MODULE ProtocolT0 -----------------------------
(* The T=0 protocol (driver/protocol_t0.c): the exchange of one TPDU byte by  *)
(* procedure byte, and the mapping of the APDU cases onto TPDUs with reissued *)
(* commands, GET RESPONSE and ENVELOPE. "Case 2" sends data and "case 3"      *)
(* expects data, as in the source.                                            *)
(*                                                                            *)
(* Of the bytes only their number counts. 256 is Short here, so that a length *)
(* byte is a number below Short and 0 stands for Short. The card is external: *)
(* it follows ISO 7816-3 until it deviates, if it ever does.                  *)
EXTENDS Integers

CONSTANTS
    Builds,       \* whether PROTOCOL_T0_ISO is defined
    Short,        \* 256
    MaxNulls,     \* PROTOCOL_T0_MAX_NULLS
    Apdus,        \* the commands: [case, lc, le]
    Answers,      \* numbers of bytes a card answers with
    None

ASSUME BuildsAssumption == Builds \subseteq BOOLEAN
ASSUME ShortAssumption == Short \in Nat \ {0, 1}

\* What APDU_Cmd_Case, APDU_Cmd_Lc and APDU_Cmd_Le make of the bytes of a command:
\* an extended length has two bytes, and a length of 0 that is no Lc is the largest.
Commands ==
    LET short == 1 .. Short - 1
        extended == 1 .. Short * Short - 1
    IN  [case : {"1", "malformed"}, lc : {0}, le : {0}]
          \cup [case : {"2S"}, lc : short, le : {0}]
          \cup [case : {"3S"}, lc : {0}, le : short \cup {Short}]
          \cup [case : {"4S"}, lc : short, le : short \cup {Short}]
          \cup [case : {"2E"}, lc : extended, le : {0}]
          \cup [case : {"3E"}, lc : {0}, le : extended \cup {Short * Short}]
          \cup [case : {"4E"}, lc : extended, le : extended \cup {Short * Short}]

ASSUME ApdusAssumption == Apdus \subseteq Commands
ASSUME BoundsAssumption ==
    MaxNulls \in Nat \ {0} /\ Answers \subseteq Nat

VARIABLES
    iso,          \* the build
    \* Protocol_T0_Command and the case functions
    pc, ret,
    apdu,         \* the command
    fn,           \* the function, or the part of it, that waits for a response
    le,           \* Le of the command that Case3S or Case3E serves
    lx,           \* Lx of Case3E
    i,            \* bytes of the command enveloped before this TPDU
    rsp,          \* the response so far: [len, sw1, sw2], or None
    \* Protocol_T0_ExchangeTPDU
    tpdu,         \* [ins, send, len]: Lc or Le of the command
    nulls, sent, recv, sw1,
    got,          \* its response, or None after an error
    open,         \* after BeginTransmission and before EndTransmission
    \* the card
    strict,       \* it has not deviated from the protocol yet
    has,          \* bytes of its answer it still keeps
    plan,         \* how it is going to serve this TPDU
    \* history
    runs,         \* how often the card has carried this one out
    total,        \* the length of its answer
    excused       \* the line has failed during this command

case == <<ret, apdu, fn, le, lx, i, rsp>>
counters == <<nulls, sent, recv, sw1>>
exchange == <<tpdu, counters, got, open>>
card == <<strict, has, plan, runs, total>>
vars == <<iso, pc, case, exchange, card, excused>>

MaxResponse == Short + 2               \* PROTOCOL_T0_MAX_SHORT_RESPONSE
Least(a, b) == IF a <= b THEN a ELSE b
Byte(n) == n % Short
Length(b) == IF b = 0 THEN Short ELSE b
RawLen(a) == 7 + a.lc + (IF a.case = "4E" THEN 2 ELSE 0)
Response(l, s1, s2) == [len |-> l, sw1 |-> s1, sw2 |-> s2]
SW1s == {"90", "61", "67", "69", "6C"}

NoTpdu == [ins |-> "own", send |-> FALSE, len |-> 0]
NoPlan == [need |-> 0, sw1 |-> "90", sw2 |-> 0, has |-> 0, run |-> FALSE]
NoApdu == [case |-> "1", lc |-> 0, le |-> 0]

Init ==
    /\ iso \in Builds
    /\ pc = "idle" /\ ret = "none" /\ apdu = NoApdu /\ fn = "last"
    /\ le = 0 /\ lx = 0 /\ i = 0 /\ rsp = None
    /\ tpdu = NoTpdu /\ nulls = 0 /\ sent = 0 /\ recv = 0 /\ sw1 = "90"
    /\ got = None /\ open = FALSE
    /\ strict = TRUE /\ has = 0 /\ plan = NoPlan
    /\ runs = 0 /\ total = 0 /\ excused = FALSE

Fault == excused' = TRUE
NoFault == UNCHANGED excused

-----------------------------------------------------------------------------
(* Protocol_T0_Command *)

\* The function f issues a TPDU: one that sends n bytes, or one with P3 = b.
Send(f, ins, n) ==
    /\ pc' = "begin" /\ fn' = f
    /\ tpdu' = [ins |-> ins, send |-> TRUE, len |-> n]

Receive(f, ins, b) ==
    /\ pc' = "begin" /\ fn' = f
    /\ tpdu' = [ins |-> ins, send |-> FALSE, len |-> Length(b)]

\* Protocol_T0_Case3S and Protocol_T0_Case3E for a command with Le = l.
Case3S(ins, l) == le' = l /\ Receive("case3S", ins, Byte(l))

Case3E(ins, l) ==
    IF l <= Short THEN Case3S(ins, l)
                  ELSE le' = l /\ Receive("case3E", ins, 0)

\* The segment of the command from its byte k on.
Envelope(a, k) ==
    Send("case2E", "envelope", Least(Short - 1, RawLen(a) - k)) /\ i' = k

Dispatch(a) ==
    \/ a.case = "1" /\ Receive("last", "own", 0)
    \/ a.case = "2S" /\ Send("last", "own", a.lc)
    \/ a.case = "3S" /\ Case3S("own", a.le)
    \/ a.case = "4S" /\ Send("case4S", "own", a.lc)
    \/ /\ a.case \in {"2E", "4E"} /\ a.lc < Short
       /\ Send(IF a.case = "2E" THEN "last" ELSE "case4E", "own", a.lc)
    \/ a.case \in {"2E", "4E"} /\ a.lc >= Short /\ Envelope(a, 0)
    \/ a.case = "3E" /\ Case3E("own", a.le)

\* After an error the application resets the terminal before the next command.
Command(a) ==
    /\ pc = "idle" /\ ret # "error"
    /\ apdu' = a
    /\ le' = a.le /\ lx' = 0 /\ i' = 0 /\ rsp' = None
    /\ IF a.case = "malformed"
       THEN ret' = "error" /\ UNCHANGED <<pc, fn, tpdu>>
       ELSE ret' = "none" /\ Dispatch(a)
    /\ nulls' = 0 /\ sent' = 0 /\ recv' = 0 /\ sw1' = "90" /\ got' = None
    /\ has' = 0 /\ plan' = NoPlan /\ runs' = 0 /\ total' = 0
    /\ excused' = FALSE
    /\ UNCHANGED <<iso, open, strict>>

-----------------------------------------------------------------------------
(* The card. *)

\* SW2 of a card that names k bytes.
Named(k) == IF k < Short THEN k ELSE 0

\* How a card that has carried out a command with an answer of n bytes says so
\* after it has taken the data of the TPDU.
Announcements(n, need) ==
    {[need |-> need, sw1 |-> s, sw2 |-> IF s = "61" THEN Named(n) ELSE 0,
      has |-> n, run |-> TRUE] : s \in IF n = 0 THEN {"90"} ELSE {"61", "90"}}

\* It refuses the TPDU; it sends as much of its k bytes as the TPDU asks for and
\* announces the rest; it has only k, and wants the command again with that length.
Refuse == [NoPlan EXCEPT !.sw1 = "67"]

Part(k, run) ==
    [need |-> tpdu.len, sw1 |-> IF k = tpdu.len THEN "90" ELSE "61",
     sw2 |-> Named(k - tpdu.len), has |-> k - tpdu.len, run |-> run]

Exact(k) == [NoPlan EXCEPT !.sw1 = "6C", !.sw2 = Named(k), !.has = has]

\* The answers a card may give to the command.
Expected == IF apdu.le = 0 THEN {0} ELSE Answers

\* What a card may do with the TPDU: the data bytes it sends or takes, its status
\* and what it keeps for GET RESPONSE.
PlansReceive ==
    {Refuse}
      \cup {Part(k, TRUE) : k \in {k \in Expected : k >= tpdu.len}}
      \cup {Exact(k) : k \in {k \in Expected : 0 < k /\ k < tpdu.len}}
      \cup {a \in UNION {Announcements(k, 0) : k \in Expected} :
              a.sw1 = "61" \/ a.has = 0}

PlansAnnounce == UNION {Announcements(k, tpdu.len) : k \in Expected}

Plan ==
    \/ /\ tpdu.ins = "own" /\ ~tpdu.send
       /\ plan' \in PlansReceive
    \/ /\ tpdu.ins = "own" /\ tpdu.send
       /\ plan' \in {Refuse} \cup PlansAnnounce
    \/ /\ tpdu.ins = "envelope" /\ i + tpdu.len < RawLen(apdu)
       /\ plan' \in {Refuse, [NoPlan EXCEPT !.need = tpdu.len]}
    \/ /\ tpdu.ins = "envelope" /\ i + tpdu.len = RawLen(apdu)
       /\ plan' \in PlansAnnounce
    \/ tpdu.ins = "get" /\ has = 0 /\ plan' = [NoPlan EXCEPT !.sw1 = "69"]
    \/ tpdu.ins = "get" /\ has >= tpdu.len /\ plan' = Part(has, FALSE)
    \/ tpdu.ins = "get" /\ 0 < has /\ has < tpdu.len /\ plan' = Exact(has)

-----------------------------------------------------------------------------
(* Protocol_T0_ExchangeTPDU *)

\* An error of a TPDU ends the command, whatever function issued it.
Fail ==
    /\ pc' = "idle" /\ ret' = "error"
    /\ UNCHANGED <<apdu, fn, le, lx, i, rsp>>

\* The header is sent; the card decides what to do with it.
Begin ==
    /\ pc = "begin"
    /\ pc' = "procedure"
    /\ open' = TRUE
    /\ nulls' = 0 /\ sent' = 0 /\ recv' = 0
    /\ IF strict THEN Plan ELSE plan' = NoPlan
    /\ NoFault
    /\ UNCHANGED <<iso, case, tpdu, sw1, got, strict, has, runs, total>>

\* BeginTransmission fails, or the header cannot be sent and the transmission is
\* ended again.
BeginFails ==
    /\ pc = "begin"
    /\ Fault /\ Fail
    /\ open' = FALSE
    /\ UNCHANGED <<iso, tpdu, counters, got, card>>

\* The loop is left: with a response, or with an error.
Break(r) == pc' = "end" /\ got' = r /\ UNCHANGED <<case, open>>

\* A return out of the middle of the loop, without EndTransmission.
EarlyReturn == Fail /\ UNCHANGED <<got, open>>

Continue == UNCHANGED <<pc, case, got, open>>

\* Mutant of Null: the call returns at once.
MutNullReturns ==
    /\ pc = "procedure"
    /\ nulls' = nulls + 1
    /\ \/ nulls' >= MaxNulls /\ EarlyReturn
       \/ nulls' < MaxNulls /\ Continue
    /\ NoFault
    /\ UNCHANGED <<iso, tpdu, sent, recv, sw1, card>>

\* A NULL byte: the card asks for time, MaxNulls times at most.
Null ==
    /\ pc = "procedure"
    /\ nulls' = nulls + 1
    /\ \/ nulls' >= MaxNulls /\ Break(None)
       \/ nulls' < MaxNulls /\ Continue
    /\ NoFault
    /\ UNCHANGED <<iso, tpdu, sent, recv, sw1, card>>

\* Mutant of SW1: the end of the buffer is not looked at.
MutUncheckedSW1(s) ==
    /\ pc = "procedure"
    /\ IF strict THEN plan.need = 0 /\ s = plan.sw1 ELSE s \in SW1s
    /\ sw1' = s
    /\ recv' = recv + 1
    /\ pc' = "sw2" /\ UNCHANGED <<case, got, open>>
    /\ NoFault
    /\ UNCHANGED <<iso, tpdu, nulls, sent, card>>

\* A status byte. Without room for the second one the call ends at once.
SW1(s) ==
    /\ pc = "procedure"
    /\ IF strict THEN plan.need = 0 /\ s = plan.sw1 ELSE s \in SW1s
    /\ sw1' = s
    /\ recv' = recv + 1
    /\ \/ recv' >= MaxResponse /\ EarlyReturn
       \/ recv' < MaxResponse /\ pc' = "sw2" /\ UNCHANGED <<case, got, open>>
    /\ NoFault
    /\ UNCHANGED <<iso, tpdu, nulls, sent, card>>

\* The second one completes the response, and the card is done with the TPDU.
SW2(s) ==
    /\ pc = "sw2"
    /\ IF strict THEN s = plan.sw2 ELSE s \in 0 .. Short - 1
    /\ recv' = recv + 1
    /\ Break(Response(recv - 1, sw1, s))
    /\ has' = plan.has
    /\ IF plan.run
       THEN /\ runs' = runs + 1
            /\ total' = plan.has + IF tpdu.send THEN 0 ELSE recv - 1
       ELSE UNCHANGED <<runs, total>>
    /\ NoFault
    /\ plan' = NoPlan
    /\ UNCHANGED <<iso, tpdu, nulls, sent, sw1, strict>>

\* The card has n more bytes to ask for or to send.
Asked(n) == plan' = IF strict THEN [plan EXCEPT !.need = n] ELSE plan

\* INS: all remaining data bytes; the complement of INS: the next one. Data the
\* card did not ask for is an error that ends the call at once; a buffer that is
\* full ends the loop, and its last two bytes pass for the status.
Data(all) ==
    /\ pc = "procedure"
    /\ strict => plan.need > 0
    /\ nulls' = 0
    /\ LET step(n) == IF all THEN tpdu.len ELSE n + 1 IN
        \/ /\ tpdu.send /\ sent >= tpdu.len
           /\ EarlyReturn
           /\ UNCHANGED <<sent, recv, plan>>
        \/ /\ tpdu.send /\ sent < tpdu.len
           /\ sent' = step(sent)
           /\ Asked(tpdu.len - sent')
           /\ Continue
           /\ UNCHANGED recv
        \/ /\ ~tpdu.send
           /\ recv' = step(recv)
           /\ Asked(tpdu.len - recv')
           /\ \/ recv' < MaxResponse /\ Continue
              \/ /\ recv' = MaxResponse
                 /\ \E s \in SW1s, t \in 0 .. Short - 1 :
                      Break(Response(MaxResponse - 2, s, t))
           /\ UNCHANGED sent
    /\ NoFault
    /\ UNCHANGED <<iso, tpdu, sw1, strict, has, runs, total>>

\* A byte that is none of these; only a card that deviates sends one.
Other ==
    /\ pc = "procedure" /\ ~strict
    /\ Break(None)
    /\ NoFault
    /\ UNCHANGED <<iso, tpdu, counters, card>>

\* No byte comes in time, or data cannot be sent.
ExchangeFails ==
    /\ pc \in {"procedure", "sw2"}
    /\ Fault
    /\ Break(None)
    /\ UNCHANGED <<iso, tpdu, counters, card>>

\* The local variables of ExchangeTPDU are gone.
Clear == nulls' = 0 /\ sent' = 0 /\ recv' = 0 /\ sw1' = "90"

\* ICC_Async_Switch and ICC_Async_EndTransmission.
End ==
    /\ pc = "end"
    /\ open' = FALSE
    /\ IF got = None THEN Fail ELSE pc' = "respond" /\ UNCHANGED case
    /\ Clear
    /\ NoFault
    /\ UNCHANGED <<iso, tpdu, got, card>>

\* Either of them fails; the second is called even so.
EndFails ==
    /\ pc = "end"
    /\ Fault /\ Fail
    /\ open' \in BOOLEAN
    /\ Clear /\ got' = None
    /\ UNCHANGED <<iso, tpdu, card>>

Deviate ==
    /\ pc \in {"procedure", "sw2"} /\ strict
    /\ strict' = FALSE
    /\ has' = 0 /\ plan' = NoPlan /\ runs' = 0 /\ total' = 0
    /\ UNCHANGED <<iso, pc, case, exchange, excused>>

-----------------------------------------------------------------------------
(* What the case functions do with the response of a TPDU. *)

Return(r) ==
    /\ pc' = "idle" /\ ret' = "ok" /\ rsp' = r
    /\ UNCHANGED <<apdu, fn, le, lx, i, tpdu>>

Truncate(r, n) == IF 0 < n /\ n < r.len THEN [r EXCEPT !.len = n] ELSE r

\* Mutant of Append: the first response is overwritten.
MutAppendOverwrites(r, s) == s

\* APDU_Rsp_AppendData: the status of the second response replaces that of the
\* first.
Append(r, s) == [s EXCEPT !.len = r.len + s.len]

\* Case1, Case2S, and the functions whose last TPDU this is.
RespondLast == fn = "last" /\ Return(got)

\* Mutant of RespondCase3S: the command is issued again where GET RESPONSE is due.
MutRespondCase3S ==
    /\ fn = "case3S"
    /\ \/ (iso => got.sw1 \notin {"6C", "61"}) /\ Return(got)
       \/ /\ iso /\ got.sw1 \in {"6C", "61"}
          /\ Receive("reissue", tpdu.ins, got.sw2)
          /\ UNCHANGED <<ret, apdu, le, lx, i, rsp>>

\* 6C: the command again with the length the card has named. 61: the rest of the
\* answer with GET RESPONSE. Both are compiled in with PROTOCOL_T0_ISO only.
RespondCase3S ==
    /\ fn = "case3S"
    /\ \/ (iso => got.sw1 \notin {"6C", "61"}) /\ Return(got)
       \/ /\ iso /\ got.sw1 = "6C"
          /\ Receive("reissue", tpdu.ins, got.sw2)
          /\ UNCHANGED <<ret, apdu, le, lx, i, rsp>>
       \/ /\ iso /\ got.sw1 = "61"
          /\ rsp' = got
          /\ Receive("more3S", "get", got.sw2)
          /\ UNCHANGED <<ret, apdu, le, lx, i>>

RespondReissue == fn = "reissue" /\ Return(Truncate(got, le))

\* The loop of Case3S. Its second turn reads the length from a response that the
\* first one has deleted: the model stops there.
RespondMore3S ==
    /\ fn = "more3S"
    /\ LET r == Append(rsp, got) IN
        \/ r.len = 0 /\ Fail /\ UNCHANGED tpdu
        \/ r.len > 0 /\ r.sw1 # "61" /\ Return(Truncate(r, le))
        \/ r.len > 0 /\ r.sw1 = "61" /\ pc' = "undefined" /\ UNCHANGED <<case, tpdu>>

RespondCase4S ==
    /\ fn = "case4S"
    /\ \/ (iso => got.sw1 \notin {"90", "61"}) /\ Return(got)
       \/ /\ iso /\ got.sw1 = "61"
          /\ Receive("last", "get",
                     IF got.sw2 = 0 THEN Byte(le) ELSE Least(le, got.sw2))
          /\ UNCHANGED <<ret, apdu, le, lx, i, rsp>>
       \/ /\ iso /\ got.sw1 = "90"
          /\ Case3S("get", le)
          /\ UNCHANGED <<ret, apdu, lx, i, rsp>>

\* Mutant of RespondCase2E: i is not advanced.
MutRespondCase2E ==
    /\ fn = "case2E"
    /\ LET more == got.sw1 = "90" /\ i + tpdu.len < RawLen(apdu) IN
        \/ /\ more
           /\ Envelope(apdu, i)
           /\ UNCHANGED <<ret, apdu, le, lx, rsp>>
        \/ ~more /\ apdu.case = "2E" /\ Return(got)
        \/ /\ ~more /\ apdu.case = "4E"
           /\ fn' = "case4E"
           /\ UNCHANGED <<pc, ret, apdu, le, lx, i, rsp, tpdu>>

\* The next segment, or the response to the last one, or a refusal.
RespondCase2E ==
    /\ fn = "case2E"
    /\ LET more == got.sw1 = "90" /\ i + tpdu.len < RawLen(apdu) IN
        \/ /\ more
           /\ Envelope(apdu, i + tpdu.len)
           /\ UNCHANGED <<ret, apdu, le, lx, rsp>>
        \/ ~more /\ apdu.case = "2E" /\ Return(got)
        \/ /\ ~more /\ apdu.case = "4E"
           /\ fn' = "case4E"
           /\ UNCHANGED <<pc, ret, apdu, le, lx, i, rsp, tpdu>>

RespondCase4E ==
    /\ fn = "case4E"
    /\ \/ /\ got.sw1 = "61"
          /\ Case3E("get", IF got.sw2 # 0 THEN Least(got.sw2, le) ELSE le)
          /\ UNCHANGED <<ret, apdu, lx, i, rsp>>
       \/ got.sw1 \notin {"90", "61"} /\ Return(got)
       \/ /\ got.sw1 = "90"
          /\ Case3E("get", le)
          /\ UNCHANGED <<ret, apdu, lx, i, rsp>>

RespondCase3E ==
    /\ fn = "case3E"
    /\ \/ got.sw1 \notin {"6C", "61"} /\ Return(got)
       \/ /\ got.sw1 = "6C"
          /\ Receive("last", tpdu.ins, got.sw2)
          /\ UNCHANGED <<ret, apdu, le, lx, i, rsp>>
       \/ /\ got.sw1 = "61"
          /\ rsp' = got
          /\ lx' = Length(got.sw2)
          /\ Receive("more3E", "get", Byte(Least(le - got.len, lx')))
          /\ UNCHANGED <<ret, apdu, le, i>>

\* The loop of Case3E goes on until it has Le bytes, whatever the status.
RespondMore3E ==
    /\ fn = "more3E"
    /\ LET r == Append(rsp, got) IN
        \/ r.len = 0 /\ Fail /\ UNCHANGED tpdu
        \/ r.len > 0 /\ r.len >= le /\ Return(r)
        \/ /\ r.len > 0 /\ r.len < le
           /\ rsp' = r
           /\ Receive("more3E", "get", Byte(Least(le - r.len, lx)))
           /\ UNCHANGED <<ret, apdu, le, lx, i>>

Respond ==
    /\ pc = "respond"
    /\ \/ RespondLast \/ RespondCase3S \/ RespondReissue \/ RespondMore3S
       \/ RespondCase4S \/ RespondCase2E \/ RespondCase4E \/ RespondCase3E
       \/ RespondMore3E
    /\ NoFault
    /\ got' = IF pc' = "respond" THEN got ELSE None
    /\ UNCHANGED <<iso, counters, open, card>>

\* The application resets the terminal and the card.
Reset ==
    /\ pc = "idle" /\ ret = "error"
    /\ ret' = "none" /\ open' = FALSE
    /\ strict' = TRUE /\ has' = 0 /\ runs' = 0 /\ total' = 0
    /\ UNCHANGED <<iso, pc, apdu, fn, le, lx, i, rsp, tpdu, counters, got, plan,
                   excused>>

-----------------------------------------------------------------------------

Host ==
    \/ Begin \/ BeginFails \/ End \/ EndFails \/ Respond
    \/ Null \/ Other \/ ExchangeFails
    \/ \E all \in BOOLEAN : Data(all)
    \/ \E s \in SW1s : SW1(s)
    \/ \E s \in 0 .. Short - 1 : SW2(s)

Next == Host \/ Reset \/ Deviate \/ \E a \in Apdus : Command(a)

Spec == Init /\ [][Next]_vars

\* The driver goes on with a command.
FairSpec == Spec /\ WF_vars(Host)

-----------------------------------------------------------------------------
(* Properties *)

Bytes == 0 .. Short - 1
Rsp == [len : Nat, sw1 : SW1s, sw2 : Bytes]
Tpdus == [ins : {"own", "get", "envelope"}, send : BOOLEAN, len : 0 .. Short]
CardPlans == [need : Int, sw1 : SW1s, sw2 : Bytes, has : Nat, run : BOOLEAN]

\* The types of the state of the case functions, of ExchangeTPDU and of the card.
CaseType ==
    /\ iso \in BOOLEAN
    /\ pc \in {"idle", "begin", "procedure", "sw2", "end", "respond", "undefined"}
    /\ ret \in {"none", "ok", "error"}
    /\ apdu \in Commands
    /\ fn \in {"last", "case3S", "reissue", "more3S", "case4S", "case2E", "case4E",
              "case3E", "more3E"}
    /\ le \in Nat /\ lx \in 0 .. Short /\ i \in Nat /\ rsp \in Rsp \cup {None}

ExchangeType ==
    /\ tpdu \in Tpdus
    /\ nulls \in 0 .. MaxNulls /\ sent \in 0 .. Short /\ recv \in Nat
    /\ sw1 \in SW1s /\ got \in Rsp \cup {None} /\ open \in BOOLEAN

CardType ==
    /\ strict \in BOOLEAN /\ has \in Nat
    /\ plan \in CardPlans
    /\ runs \in Nat /\ total \in Nat
    /\ excused \in BOOLEAN

\* Every variable of the T=0 handler and of the card keeps its type.
TypeOK == CaseType /\ ExchangeType /\ CardType

\* "Let's be a bit paranoid with buffer sizes within this loop": whatever a card
\* sends, the procedure byte or status byte read next has room in the buffer of
\* ExchangeTPDU, and no more data is sent than the command has.
BufferInBounds ==
    /\ recv <= MaxResponse
    /\ pc \in {"procedure", "sw2"} => recv < MaxResponse
    /\ tpdu.send => sent <= tpdu.len

\* A transmission that was begun is ended, on every path, as long as the card
\* keeps to the protocol and the line works.
TransmissionEnded == pc = "idle" /\ open => ~strict \/ excused

\* The card carries out a command once: GET RESPONSE, ENVELOPE and the reissue
\* of a command neither repeat it nor leave it out.
CarriedOutOnce ==
    strict =>
        /\ runs <= 1
        /\ pc = "idle" /\ ret = "ok" /\ rsp.sw1 \in {"90", "61"} => runs = 1

\* A command that ends with the normal status has the whole answer of the card, or
\* as much of it as was asked for, however many TPDUs it took. Without
\* PROTOCOL_T0_ISO the application fetches the answer to a case 4S command itself.
AnswerComplete ==
    /\ strict /\ pc = "idle" /\ ret = "ok" /\ rsp.sw1 = "90"
    /\ iso \/ apdu.case # "4S"
    => rsp.len = Least(total, apdu.le)

\* Every command returns if the card keeps to the protocol, except where Case3E
\* goes on asking for bytes that the card does not have.
CommandsReturn ==
    \/ []<>(pc \in {"idle", "undefined"} \/ ~strict)
    \/ <>[](fn = "more3E" /\ total < le)

\* README says of the driver that it is able "to automatically handle T=0
\* transaction control TPDUs following ISO 7816-4": a command to a card that
\* follows it returns.
IsoHandled == []<>(pc = "idle" \/ ~strict)

-----------------------------------------------------------------------------
(* The inductive invariant. *)

\* A transmission is open only inside ExchangeTPDU, or after an error that only
\* a deviating card or the line can cause; the counters are fresh outside of it.
OpenInv ==
    /\ ret = "error" => pc = "idle"
    /\ pc = "procedure" => nulls < MaxNulls
    /\ pc \in {"begin", "respond"} => sent = 0 /\ recv = 0
    /\ pc = "sw2" => recv > 0
    /\ pc = "respond" => got # None
    /\ open => \/ pc \in {"procedure", "sw2", "end"}
               \/ pc = "idle" /\ ret = "error" /\ (~strict \/ excused)

Busy == pc \in {"begin", "procedure", "sw2", "end", "respond"}

\* What the function that waits for the response has issued, and for which Le.
FnInv ==
    Busy =>
        /\ apdu.case # "malformed"
        /\ fn = "last" => tpdu.ins # "envelope" /\ (tpdu.send => apdu.le = 0)
        /\ fn \in {"case3S", "reissue", "more3S", "case3E", "more3E"} =>
               /\ ~tpdu.send /\ tpdu.ins # "envelope"
               /\ 0 < le /\ le <= apdu.le
        /\ fn \in {"more3S", "more3E"} => tpdu.ins = "get" /\ rsp \in Rsp
        /\ fn \in {"case3E", "more3E"} => le > Short
        /\ fn = "more3E" => lx > 0
        /\ fn \in {"case4S", "case4E"} => tpdu.send /\ le = apdu.le
        /\ fn = "case4S" => apdu.case = "4S" /\ tpdu.ins = "own"
        /\ fn = "case4E" => /\ apdu.case = "4E"
                            /\ tpdu.ins = "own" \/ pc = "respond"
        /\ fn = "case2E" => /\ apdu.case \in {"2E", "4E"} /\ le = apdu.le
                            /\ tpdu.send /\ tpdu.ins = "envelope"
        /\ tpdu.ins = "envelope" => tpdu.send /\ i + tpdu.len <= RawLen(apdu)
        /\ tpdu.ins = "get" => ~tpdu.send /\ apdu.le > 0
        /\ ~tpdu.send => tpdu.len > 0

\* The bytes of the answer that earlier TPDUs have fetched.
Fetched == IF fn \in {"more3S", "more3E"} THEN rsp.len ELSE 0

\* The TPDU with which the card has all it needs to carry out the command.
Executes ==
    tpdu.ins = "own" \/ (tpdu.ins = "envelope" /\ i + tpdu.len = RawLen(apdu))

\* What the card has done and keeps as long as the TPDU has not come to its status:
\* GET RESPONSE follows the execution, everything else precedes it.
Unserved ==
    IF tpdu.ins = "get" THEN runs = 1 /\ total = Fetched + has
                        ELSE runs = 0 /\ total = 0 /\ has = 0

\* No TPDU asks for more than Le bytes in all, but for the GET RESPONSE of Case3S,
\* whose answer is cut. Case4E may have lowered Le to what the card has.
AskInv ==
    strict /\ Busy =>
        /\ ~tpdu.send /\ fn # "more3S" /\ apdu.le > 0 =>
               Fetched + tpdu.len <= apdu.le
        /\ fn = "more3E" => rsp.len < le
        /\ le = apdu.le \/ (runs = 1 /\ le = Least(total, apdu.le))
        /\ apdu.le = 0 => total = 0

\* The data bytes of the answer received in this TPDU, and all that will be.
Received == IF pc = "sw2" THEN recv - 1 ELSE recv
Sends == IF tpdu.send THEN 0 ELSE Received + plan.need

\* How a card that follows the protocol serves the TPDU.
PlanInv ==
    strict /\ pc \in {"procedure", "sw2"} =>
        /\ plan.need >= 0
        /\ plan.need > 0 =>
               plan.need = tpdu.len - IF tpdu.send THEN sent ELSE Received
        /\ tpdu.send => Received = 0
        /\ Received <= tpdu.len
        /\ pc = "sw2" => plan.need = 0 /\ sw1 = plan.sw1
        /\ plan.sw1 \in {"67", "69", "6C"} =>
               ~plan.run /\ plan.has = has /\ Sends = 0
        /\ plan.sw1 \in {"90", "61"} =>
               /\ plan.run <=> Executes
               /\ tpdu.ins = "get" => has = Sends + plan.has
        /\ plan.sw1 = "90" /\ (~tpdu.send \/ ~plan.run) => plan.has = 0
        /\ plan.sw1 = "61" => /\ plan.has > 0 /\ plan.sw2 = Named(plan.has)
                              /\ tpdu.ins = "envelope" => Executes
        /\ plan.sw1 = "6C" => ~tpdu.send /\ 0 < plan.sw2 /\ plan.sw2 < tpdu.len
        /\ apdu.le = 0 => plan.has = 0 /\ Sends = 0

ServeInv == strict /\ pc \in {"begin", "procedure", "sw2"} => Unserved

\* What the response of such a card says about what it has done.
ResponseInv ==
    strict /\ pc \in {"end", "respond"} /\ got # None =>
        /\ got.len <= tpdu.len /\ (tpdu.send => got.len = 0)
        /\ IF got.sw1 \in {"90", "61"} /\ (Executes \/ tpdu.ins = "get")
           THEN runs = 1 /\ total = Fetched + got.len + has
           ELSE Unserved /\ got.len = 0
        /\ got.sw1 = "90" /\ ~tpdu.send => has = 0
        /\ got.sw1 = "61" => /\ has > 0 /\ got.sw2 = Named(has)
                             /\ Executes \/ tpdu.ins = "get"
        /\ got.sw1 = "6C" => ~tpdu.send /\ 0 < got.sw2 /\ got.sw2 < tpdu.len
        /\ got.sw1 = "90" /\ fn = "case4E" => Executes

IInv ==
    /\ TypeOK /\ OpenInv /\ FnInv /\ AskInv /\ PlanInv /\ ServeInv /\ ResponseInv
    /\ BufferInBounds /\ TransmissionEnded /\ CarriedOutOnce /\ AnswerComplete
=============================================================================
