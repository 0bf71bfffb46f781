----------------------------- MODULE ProtocolT1 -----------------------------
(* The T=1 block protocol (driver/protocol_t1.c, driver/t1_block.c) between   *)
(* the driver and a card that follows ISO 7816-3, over a line that may lose   *)
(* or damage a block and over which a block may come too late.                *)
(*                                                                            *)
(* A command is a number; its bytes are pairs of the number and a position,   *)
(* so that bytes of different commands differ. The card is external.          *)
EXTENDS Integers, Sequences

CONSTANTS
    Ifsc,         \* t1->ifsc, bytes per I-block to the card
    Ifsd,         \* bytes per I-block from the card
    CmdLens,      \* lengths of commands
    RspLens,      \* lengths of responses
    Factor,       \* 2^BWI of the card's ATR
    Rates,        \* the baud rates a card and the driver may agree on
    Wtxs,         \* multipliers of the waiting time a card asks for
    MaxWtx,       \* bound on such requests in one command
    MaxFaults,    \* bound on the faults of the line
    MaxCommands,  \* bound on the commands issued
    None

ASSUME SizesAssumption == Ifsc \in Nat \ {0} /\ Ifsd \in Nat \ {0}
ASSUME LensAssumption == CmdLens \subseteq Nat \ {0} /\ RspLens \subseteq Nat \ {0}
ASSUME BoundsAssumption ==
    MaxWtx \in Nat /\ MaxFaults \in Nat /\ MaxCommands \in Nat

VARIABLES
    \* Protocol_T1 and the call of Protocol_T1_Command
    pc,
    cmd, len,     \* the command and its length
    ns,           \* t1->ns
    counter,      \* bytes already sent or received
    bytes, more,  \* size and chaining of the block at hand
    nr,           \* the number the next R-block asks for
    wtx,          \* the multiplier granted to the card, or 0
    buffer,       \* the response so far
    timeout,      \* block_timeout of the ICC_Async, in milliseconds
    rate,         \* icc->baudrate
    ret,          \* "none", "ok" or "error"
    \* the line
    toCard,       \* the block on its way to the card, or None
    toHost,       \* the blocks in the input of the serial port
    faults,
    \* the card
    card,         \* "wait", "busy", "asked" (for time) or "chaining"
    cardNs,       \* the number of the I-block it expects
    cardSn,       \* the number of the I-block it sends next
    partial,      \* the command received so far
    reply,        \* what it has still to send
    grant,        \* the time it may take for its next block
    asks,         \* the requests for time of this command
    \* history
    executed,     \* the last command the card has carried out; 0 if garbage
    excused       \* the line or the card gave a reason to fail

host == <<pc, cmd, len, ns, counter, bytes, more, nr, wtx, buffer, timeout, ret,
          rate>>
line == <<toCard, toHost, faults>>
icc == <<card, cardNs, cardSn, partial, reply, grant, asks, executed>>
vars == <<host, line, icc, excused>>

\* The next sequence number.
Flip(n) == (n + 1) % 2
Least(a, b) == IF a <= b THEN a ELSE b
Width == 65536                      \* unsigned short
ASSUME TimesAssumption ==
    Factor \in Nat \ {0} /\ Rates \subseteq Nat \ {0} /\ Wtxs \subseteq Nat \ {0}

\* The block waiting time as Protocol_T1_Init computes it, (2^BWI * 960 + 11) work
\* etu of 1000 / baudrate milliseconds, and t1->bwt, an unsigned short.
Time(r) == ((960 * Factor + 11) * 1000) \div r
bwt == Time(rate) % Width

\* The time the card has: ISO 7816-3 counts 2^BWI * 960 periods of 372 clock cycles,
\* which are 1/9600 s at any rate, and 11 etu. DefaultRate is the rate of a card
\* without a PPS; where one has agreed on more, Time is shorter than this.
DefaultRate == 9600
CardBwt == 100 * Factor + 11000 \div rate
Data(k, l) == [i \in 1 .. l |-> <<k, i>>]

\* The blocks of t1_block.c.
IBlock(n, m, inf) == [type |-> "I", n |-> n, more |-> m, inf |-> inf]
RBlock(error, n) == [type |-> "R", n |-> n, error |-> error]
SBlock(kind, inf) == [type |-> "S", kind |-> kind, inf |-> inf]

Bytes == (0 .. MaxCommands) \X Nat

\* The blocks the driver sends.
HostBlocks ==
    [type : {"I"}, n : 0 .. 1, more : BOOLEAN, inf : Seq(Bytes)]
      \cup [type : {"R"}, n : 0 .. 1, error : {"ok"}]
      \cup [type : {"S"}, kind : {"wtx_res"}, inf : Seq(Nat)]

ASSUME NoneAssumption == None \notin HostBlocks

Init ==
    /\ pc = "idle" /\ cmd = 0 /\ len = 0 /\ ns = 1
    /\ counter = 0 /\ bytes = 0 /\ more = FALSE /\ nr = 0 /\ wtx = 0
    /\ rate \in Rates
    /\ buffer = <<>> /\ timeout = bwt /\ ret = "none"
    /\ toCard = None /\ toHost = <<>> /\ faults = 0
    /\ card = "wait" /\ cardNs = 0 /\ cardSn = 0
    /\ partial = <<>> /\ reply = <<>> /\ grant = CardBwt /\ asks = 0
    /\ executed = 0 /\ excused = FALSE

\* Something the driver cannot help goes wrong.
Fault ==
    /\ faults < MaxFaults
    /\ faults' = faults + 1 /\ excused' = TRUE

-----------------------------------------------------------------------------
(* Protocol_T1_Command *)

\* The first block of a command. After an error the application resets first:
\* "Reset of the cardterminal is necessary".
Command(l) ==
    /\ pc = "idle" /\ ret # "error" /\ cmd < MaxCommands
    /\ cmd' = cmd + 1 /\ len' = l
    /\ ns' = Flip(ns)
    /\ counter' = 0
    /\ bytes' = Least(l, Ifsc)
    /\ more' = (l > Ifsc)
    /\ ret' = "none" /\ pc' = "send_i"
    /\ excused' = FALSE
    /\ UNCHANGED <<nr, wtx, buffer, timeout, rate, line, icc>>

Fail ==
    /\ pc' = "idle" /\ ret' = "error"
    /\ UNCHANGED <<cmd, len, ns, counter, bytes, more, nr, wtx, buffer, rate>>

\* Protocol_T1_SendBlock. IO_Serial_Write discards what is still in the input.
SendBlock(b) == toCard' = b /\ toHost' = <<>> /\ UNCHANGED <<faults, rate>>

\* Mutant of SendI: every block carries the bytes at the start of the command.
MutFirstBytes ==
    /\ pc = "send_i"
    /\ SendBlock(IBlock(ns, more, SubSeq(Data(cmd, len), 1, bytes)))
    /\ IF more
       THEN pc' = "await_r" /\ UNCHANGED <<counter, wtx, buffer>>
       ELSE pc' = "await_i" /\ counter' = 0 /\ wtx' = 0 /\ buffer' = <<>>
    /\ UNCHANGED <<cmd, len, ns, bytes, more, nr, timeout, ret, icc, excused>>

\* An I-block; after the last one the driver waits for the response.
SendI ==
    /\ pc = "send_i"
    /\ SendBlock(IBlock(ns, more, SubSeq(Data(cmd, len), counter + 1,
                                         counter + bytes)))
    /\ IF more
       THEN pc' = "await_r" /\ UNCHANGED <<counter, wtx, buffer>>
       ELSE pc' = "await_i" /\ counter' = 0 /\ wtx' = 0 /\ buffer' = <<>>
    /\ UNCHANGED <<cmd, len, ns, bytes, more, nr, timeout, ret, icc, excused>>

SendR ==
    /\ pc = "send_r"
    /\ SendBlock(RBlock("ok", nr))
    /\ pc' = "await_i"
    /\ UNCHANGED <<cmd, len, ns, counter, bytes, more, nr, wtx, buffer, timeout,
                   ret, icc, excused>>

\* The response to a request for time. If the multiplier is above 1 the timeout
\* is set to the product, an unsigned short.
SendWtx ==
    /\ pc = "send_wtx"
    /\ SendBlock(SBlock("wtx_res", <<wtx>>))
    /\ timeout' = IF wtx > 1 THEN (wtx * bwt) % Width ELSE timeout
    /\ pc' = "await_i"
    /\ UNCHANGED <<cmd, len, ns, counter, bytes, more, nr, wtx, buffer, ret, icc,
                   excused>>

SendFails ==
    /\ pc \in {"send_i", "send_r", "send_wtx"}
    /\ Fault
    /\ Fail
    /\ UNCHANGED <<toCard, toHost, timeout, icc>>

\* Protocol_T1_ReceiveBlock takes a block and puts the timings back. It looks
\* neither at the LRC nor at the sequence number.
ReceiveBlock ==
    /\ toHost # <<>>
    /\ toHost' = Tail(toHost)
    /\ timeout' = IF wtx > 1 \/ "inf" \in DOMAIN Head(toHost) THEN bwt ELSE timeout
    /\ UNCHANGED <<toCard, faults, rate>>

\* Mutant of AwaitR: t1->ns is not incremented between the blocks of a chain.
MutKeepNs ==
    /\ pc = "await_r"
    /\ ReceiveBlock
    /\ LET b == Head(toHost) IN
        \/ /\ b.type = "R" /\ b.error = "ok"
           /\ counter' = counter + bytes
           /\ bytes' = Least(len - counter', Ifsc)
           /\ more' = (len - counter' > Ifsc)
           /\ pc' = "send_i"
           /\ UNCHANGED <<cmd, len, ns, nr, wtx, buffer, ret>>
        \/ ~(b.type = "R" /\ b.error = "ok") /\ Fail
    /\ UNCHANGED <<icc, excused>>

\* While chaining: any positive R-block lets the next I-block go out.
AwaitR ==
    /\ pc = "await_r"
    /\ ReceiveBlock
    /\ LET b == Head(toHost) IN
        \/ /\ b.type = "R" /\ b.error = "ok"
           /\ ns' = Flip(ns)
           /\ counter' = counter + bytes
           /\ bytes' = Least(len - counter', Ifsc)
           /\ more' = (len - counter' > Ifsc)
           /\ pc' = "send_i"
           /\ UNCHANGED <<cmd, len, nr, wtx, buffer, ret>>
        \/ ~(b.type = "R" /\ b.error = "ok") /\ Fail
    /\ UNCHANGED <<icc, excused>>

\* The response: I-blocks, each of which is acknowledged if more follow, and
\* requests for time.
AwaitI ==
    /\ pc = "await_i"
    /\ ReceiveBlock
    /\ LET b == Head(toHost) IN
        \/ /\ b.type = "I"
           /\ nr' = Flip(b.n)
           /\ bytes' = Len(b.inf)
           /\ buffer' = buffer \o b.inf
           /\ counter' = counter + bytes'
           /\ more' = b.more
           /\ wtx' = IF wtx > 1 THEN 0 ELSE wtx
           /\ IF b.more THEN pc' = "send_r" /\ UNCHANGED ret
                        ELSE pc' = "idle" /\ ret' = "ok"
           /\ UNCHANGED <<cmd, len, ns>>
        \/ /\ b.type = "S" /\ b.kind = "wtx_req"
           /\ wtx' = b.inf[1]
           /\ pc' = "send_wtx"
           /\ UNCHANGED <<cmd, len, ns, counter, bytes, more, nr, buffer, ret>>
        \/ /\ b.type # "I"
           /\ ~(b.type = "S" /\ b.kind = "wtx_req")
           /\ Fail
    /\ UNCHANGED <<icc, excused>>

\* Nothing comes before the timeout: the block was lost, the driver waits less
\* than the card may take, or (a fault) the card takes longer than it may.
Silence ==
    /\ pc \in {"await_r", "await_i"}
    /\ toHost = <<>>
    /\ \/ /\ toCard = None /\ card \in {"wait", "chaining", "asked"}
          /\ UNCHANGED <<faults, excused>>
       \/ card = "busy" /\ timeout < grant /\ UNCHANGED <<faults, excused>>
       \/ card = "busy" /\ Fault

\* Mutant of Timeout: the timeout granted to the card stays after an error.
MutKeepTimeout ==
    /\ Silence
    /\ Fail
    /\ UNCHANGED <<timeout, toCard, toHost, icc>>

\* Mutant of Timeout: the driver starts to wait again.
MutWaitAgain ==
    /\ Silence
    /\ UNCHANGED <<host, toCard, toHost, icc>>

\* ICC_Async_Receive gives up, and so does the command.
Timeout ==
    /\ Silence
    /\ timeout' = IF pc = "await_i" /\ wtx > 1 THEN bwt ELSE timeout
    /\ Fail
    /\ UNCHANGED <<toCard, toHost, icc>>

\* The block comes, but ICC_Async_Switch or ICC_Async_EndTransmission fails.
ReceiveFails ==
    /\ pc \in {"await_r", "await_i"}
    /\ toHost # <<>>
    /\ toHost' = Tail(toHost)
    /\ Fault
    /\ timeout' = bwt
    /\ Fail
    /\ UNCHANGED <<toCard, icc>>

\* RESET CT, REQUEST ICC or EJECT ICC: a new Protocol_T1 (Protocol_T1_Init) for a
\* card that has been reset and may have agreed on another rate.
Reset ==
    /\ pc = "idle" /\ ret # "none"
    /\ rate' \in Rates
    /\ ns' = 1 /\ timeout' = bwt' /\ ret' = "none"
    /\ toCard' = None /\ toHost' = <<>>
    /\ card' = "wait" /\ cardNs' = 0 /\ cardSn' = 0
    /\ partial' = <<>> /\ reply' = <<>> /\ grant' = CardBwt' /\ asks' = 0
    /\ UNCHANGED <<pc, cmd, len, counter, bytes, more, nr, wtx, buffer, faults,
                   executed, excused>>

-----------------------------------------------------------------------------
(* The line. *)

\* A block to the card is lost, or it is damaged and the card says so.
LoseToCard ==
    /\ toCard # None
    /\ Fault
    /\ toCard' = None
    /\ \/ UNCHANGED toHost
       \/ toHost' = Append(toHost, RBlock("edc", cardNs))
    /\ UNCHANGED <<host, icc>>

LoseToHost ==
    /\ toHost # <<>>
    /\ Fault
    /\ toHost' = Tail(toHost)
    /\ UNCHANGED <<host, toCard, icc>>

-----------------------------------------------------------------------------
(* The card. *)

CardSends(b) == toHost' = Append(toHost, b)

\* It takes an I-block it expects, acknowledges a chained one and carries out a
\* complete command; it asks again for one with another number.
CardTakesI ==
    /\ toCard # None /\ toCard.type = "I" /\ card = "wait"
    /\ toCard' = None
    /\ IF toCard.n # cardNs
       THEN /\ CardSends(RBlock("other", cardNs))
            /\ UNCHANGED icc
       ELSE /\ cardNs' = Flip(cardNs)
            /\ IF toCard.more
               THEN /\ partial' = partial \o toCard.inf
                    /\ CardSends(RBlock("ok", cardNs'))
                    /\ UNCHANGED <<card, cardSn, reply, grant, asks, executed>>
               ELSE /\ executed' =
                         IF partial \o toCard.inf = Data(cmd, len) THEN cmd ELSE 0
                    /\ partial' = <<>>
                    /\ \E l \in RspLens : reply' = Data(executed', l)
                    /\ card' = "busy" /\ grant' = CardBwt /\ asks' = 0
                    /\ UNCHANGED <<toHost, cardSn>>
    /\ UNCHANGED <<host, faults, excused>>

\* The next part of the response.
CardAnswers ==
    /\ card = "busy"
    /\ LET part == SubSeq(reply, 1, Least(Ifsd, Len(reply))) IN
        /\ CardSends(IBlock(cardSn, Len(reply) > Ifsd, part))
        /\ reply' = SubSeq(reply, Len(part) + 1, Len(reply))
        /\ card' = IF Len(reply) > Ifsd THEN "chaining" ELSE "wait"
    /\ cardSn' = Flip(cardSn)
    /\ UNCHANGED <<host, toCard, faults, cardNs, partial, grant, asks, executed,
                   excused>>

\* It goes on when the part it sent is acknowledged.
CardTakesR ==
    /\ toCard # None /\ toCard.type = "R" /\ card = "chaining"
    /\ toCard' = None
    /\ IF toCard.n = cardSn
       THEN card' = "busy" /\ grant' = CardBwt /\ UNCHANGED toHost
       ELSE CardSends(RBlock("other", cardNs)) /\ UNCHANGED <<card, grant>>
    /\ UNCHANGED <<host, faults, cardNs, cardSn, partial, reply, asks, executed,
                   excused>>

\* It asks for more time while it works.
CardAsks ==
    /\ card = "busy" /\ asks < MaxWtx
    /\ \E w \in Wtxs : CardSends(SBlock("wtx_req", <<w>>))
    /\ card' = "asked" /\ asks' = asks + 1
    /\ UNCHANGED <<host, toCard, faults, cardNs, cardSn, partial, reply, grant,
                   executed, excused>>

CardTakesS ==
    /\ toCard # None /\ toCard.type = "S" /\ card = "asked"
    /\ toCard' = None
    /\ card' = "busy" /\ grant' = toCard.inf[1] * CardBwt
    /\ UNCHANGED <<host, toHost, faults, cardNs, cardSn, partial, reply, asks,
                   executed, excused>>

\* It asks for what the driver does not implement: another block size, or more
\* time within a chained command.
CardAsksMore ==
    /\ toCard # None /\ toCard.type = "I" /\ card = "wait"
    /\ toCard' = None
    /\ excused' = TRUE
    /\ \/ CardSends(SBlock("ifs_req", <<Ifsc>>))
       \/ toCard.more /\ CardSends(SBlock("wtx_req", <<1>>))
    /\ UNCHANGED <<host, faults, icc>>

-----------------------------------------------------------------------------

Host == SendI \/ SendR \/ SendWtx \/ SendFails \/ AwaitR \/ AwaitI \/ Timeout
          \/ ReceiveFails

Card == CardTakesI \/ CardAnswers \/ CardTakesR \/ CardAsks \/ CardTakesS
          \/ CardAsksMore

Next ==
    \/ \E l \in CmdLens : Command(l)
    \/ Host \/ Reset \/ LoseToCard \/ LoseToHost \/ Card

Spec == Init /\ [][Next]_vars

\* The driver and the card go on with what they are doing.
FairSpec == Spec /\ WF_vars(Host) /\ WF_vars(Card)

-----------------------------------------------------------------------------
(* Properties *)

HostType ==
    /\ pc \in {"idle", "send_i", "await_r", "await_i", "send_r", "send_wtx"}
    /\ cmd \in 0 .. MaxCommands /\ len \in Nat
    /\ ns \in 0 .. 1 /\ nr \in 0 .. 1
    /\ counter \in Nat /\ bytes \in Nat /\ more \in BOOLEAN
    /\ wtx \in Wtxs \cup {0, 1} /\ buffer \in Seq(Bytes)
    /\ timeout \in 0 .. Width - 1 /\ rate \in Rates /\ ret \in {"none", "ok", "error"}

CardType ==
    /\ card \in {"wait", "busy", "asked", "chaining"}
    /\ cardNs \in 0 .. 1 /\ cardSn \in 0 .. 1
    /\ partial \in Seq(Bytes) /\ reply \in Seq(Bytes)
    /\ grant \in Nat /\ asks \in 0 .. MaxWtx
    /\ executed \in 0 .. MaxCommands

\* Every variable of the driver, the line and the card keeps its type.
TypeOK == HostType /\ CardType /\ faults \in 0 .. MaxFaults /\ excused \in BOOLEAN

\* The waiting time, with the multiplier granted, is more than 16 bits hold.
Cut == (IF wtx > 1 THEN wtx ELSE 1) * Time(rate) >= Width

\* The driver gives up on a card that is within its time. The code does so in two
\* ways: Protocol_T1_Init and Protocol_T1_UpdateBWT cut their products to 16 bits,
\* and after a PPS to a higher rate Protocol_T1_Init multiplies by the shorter etu
\* what counts in periods of the default one (protocol_t1.c:121, 137).
Hasty == card = "busy" /\ timeout < grant /\ (rate > DefaultRate \/ Cut)

\* A command fails only when the line or the card gives a reason, or in those two
\* cases, for want of time: the sequence numbers of driver and card never part,
\* the driver refuses nothing it should take, and at the default rate it waits
\* no less than the card may take.
FailuresExcused ==
    [][ret # "error" /\ ret' = "error" => excused' \/ Hasty]_vars

\* A command leaves the block timeout as it found it, although requests for time
\* and the reading of information fields change it on the way.
TimingsRestored == pc = "idle" => timeout = bwt

\* Every command returns.
CommandsReturn == []<>(pc = "idle")

\* What a command returned: its own answer or something else.
Answered ==
    IF ret # "ok" THEN ret
    ELSE IF \E l \in RspLens : buffer = Data(cmd, l) THEN "own" ELSE "wrong"

Exchange == INSTANCE CardExchange
              WITH current <- IF pc = "idle" THEN 0 ELSE cmd,
                   issued <- cmd, result <- Answered

\* Whatever is chained, lost or late, a command that succeeds has been carried
\* out once, with every byte in its place, and has got its own answer.
ImplementsExchange == Exchange!ExchangeSpec

-----------------------------------------------------------------------------
(* The inductive invariant *)

\* The block timeout follows from where the driver is and the time it has granted.
TimingInv ==
    timeout = IF pc = "await_i" /\ wtx > 1 THEN (wtx * bwt) % Width ELSE bwt

\* Driver and card are between two commands, or in one that goes well: both agree
\* on the sequence numbers.
Quiet == toCard = None /\ toHost = <<>>

Synced == card = "wait" /\ partial = <<>> /\ cardNs = Flip(ns)

\* The command is on its way: the card has got the first n bytes of it.
Taken(n) ==
    /\ card = "wait" /\ executed < cmd
    /\ partial = SubSeq(Data(cmd, len), 1, n)

\* The card has carried out the command and has a part of the answer still to send;
\* inf is in between.
Answering(inf) ==
    /\ executed = cmd /\ partial = <<>> /\ cardNs = Flip(ns)
    /\ \E l \in RspLens : buffer \o (inf \o reply) = Data(cmd, l)

\* The block at hand, within the command.
AtHand ==
    /\ bytes \in 1 .. Ifsc /\ counter + bytes <= len
    /\ more = (counter + bytes < len)

Sending == Quiet /\ AtHand /\ Taken(counter) /\ cardNs = ns

\* An I-block of the chain has been sent, or its acknowledgement.
Chaining ==
    /\ AtHand /\ more
    /\ \/ /\ Taken(counter) /\ cardNs = ns /\ toHost = <<>>
          /\ toCard = IBlock(ns, TRUE, SubSeq(Data(cmd, len), counter + 1,
                                             counter + bytes))
       \/ /\ Taken(counter + bytes) /\ cardNs = Flip(ns) /\ toCard = None
          /\ toHost = <<RBlock("ok", cardNs)>>

\* The last I-block is on its way.
LastSent ==
    /\ card = "wait" /\ executed < cmd /\ cardNs = ns /\ toHost = <<>>
    /\ buffer = <<>> /\ wtx = 0
    /\ \E n \in 0 .. len :
          /\ partial = SubSeq(Data(cmd, len), 1, n)
          /\ toCard = IBlock(ns, FALSE, SubSeq(Data(cmd, len), n + 1, len))

Working ==
    /\ card = "busy" /\ Quiet /\ Answering(<<>>)
    /\ grant = IF wtx > 1 THEN wtx * CardBwt ELSE CardBwt

\* A part of the answer is on its way.
PartSent ==
    /\ toCard = None /\ toHost # <<>> /\ toHost[1].type = "I"
    /\ LET b == toHost[1] IN
          /\ toHost = <<IBlock(Flip(cardSn), b.more, b.inf)>>
          /\ b.inf \in Seq(Bytes) /\ b.more \in BOOLEAN
          /\ Answering(b.inf)
          /\ IF b.more THEN card = "chaining" ELSE card = "wait" /\ reply = <<>>

\* A part of the answer is acknowledged, or time is asked for and granted.
Acknowledged ==
    /\ card = "chaining" /\ Answering(<<>>) /\ wtx <= 1
    /\ toCard = RBlock("ok", cardSn) /\ toHost = <<>>

TimeAsked ==
    /\ card = "asked" /\ Answering(<<>>) /\ toCard = None
    /\ \E w \in Wtxs : toHost = <<SBlock("wtx_req", <<w>>)>>

TimeGranted ==
    /\ card = "asked" /\ Answering(<<>>) /\ wtx >= 1
    /\ toCard = SBlock("wtx_res", <<wtx>>) /\ toHost = <<>>

\* A command that has met no trouble.
Healthy ==
    /\ pc = "send_i" => Sending
    /\ pc = "await_r" => Chaining
    /\ pc = "await_i" =>
          LastSent \/ Working \/ PartSent \/ Acknowledged \/ TimeAsked \/ TimeGranted
    /\ pc = "send_r" =>
          Quiet /\ card = "chaining" /\ nr = cardSn /\ Answering(<<>>) /\ wtx <= 1
    /\ pc = "send_wtx" => Quiet /\ card = "asked" /\ Answering(<<>>) /\ wtx \in Wtxs

\* A command that cannot succeed any more: the driver gets what it refuses, or
\* nothing.
Doomed ==
    /\ pc \in {"await_r", "await_i"}
    /\ toCard = None /\ card # "busy"
    /\ \/ toHost = <<>>
       \/ toHost = <<RBlock("edc", cardNs)>>
       \/ toHost = <<SBlock("ifs_req", <<Ifsc>>)>>
       \/ toHost = <<SBlock("wtx_req", <<1>>)>> /\ pc = "await_r"

PhaseInv ==
    /\ executed <= cmd
    /\ pc # "idle" => cmd > 0 /\ ret = "none" /\ IF excused THEN Doomed ELSE Healthy
    /\ pc = "idle" /\ ret = "error" => toCard = None
    /\ pc = "idle" /\ ret # "error" => Quiet /\ Synced
    /\ ret = "ok" => pc = "idle" /\ \E l \in RspLens : buffer = Data(cmd, l)

IInv == TypeOK /\ TimingInv /\ PhaseInv
=============================================================================
