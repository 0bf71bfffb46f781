-------------------------- MODULE ProtocolT1Proofs --------------------------
(* Proofs about ProtocolT1, for every size of a block, every length of command  *)
(* and response, every waiting time and every number of faults: IInv is         *)
(* inductive, one lemma per action, it implies the invariants the model checker *)
(* checks, and every step implements one of CardExchange or changes nothing     *)
(* there.                                                                       *)
EXTENDS ProtocolT1, SequenceTheorems, TLAPS

\* There are two sequence numbers and Flip exchanges them.
LEMMA FlipFacts ==
    ASSUME NEW n \in 0 .. 1
    PROVE  Flip(n) \in 0 .. 1 /\ Flip(Flip(n)) = n /\ Flip(n) # n
<1>1. n = 0 \/ n = 1
  OBVIOUS
<1> QED
  BY <1>1 DEF Flip

\* The bytes of a command, and every slice of them, are bytes.
LEMMA DataFacts ==
    ASSUME NEW k \in 0 .. MaxCommands, NEW l \in Nat
    PROVE  /\ Data(k, l) \in Seq(Bytes) /\ Len(Data(k, l)) = l
           /\ \A m \in 0 .. l, n \in 0 .. l : m <= n =>
                 SubSeq(Data(k, l), m + 1, n) \in Seq(Bytes)
<1>1. \A i \in 1 .. l : Data(k, l)[i] \in Bytes
  BY DEF Data, Bytes
<1>2. Data(k, l) \in Seq(Bytes) /\ Len(Data(k, l)) = l
  BY <1>1 DEF Data
<1>3. ASSUME NEW m \in 0 .. l, NEW n \in 0 .. l, m <= n
      PROVE  SubSeq(Data(k, l), m + 1, n) \in Seq(Bytes)
  <2>1. \A i \in m + 1 .. n : Data(k, l)[i] \in Bytes
    BY <1>1
  <2> QED
    BY <2>1, SubSeqProperties
<1> QED
  BY <1>2, <1>3

\* What has been sent and the next block make what has been sent then.
LEMMA JoinSlices ==
    ASSUME NEW k \in 0 .. MaxCommands, NEW l \in Nat,
           NEW m \in 0 .. l, NEW n \in 0 .. l, m <= n
    PROVE  SubSeq(Data(k, l), 1, m) \o SubSeq(Data(k, l), m + 1, n)
             = SubSeq(Data(k, l), 1, n)
<1>1. Data(k, l) \in Seq(Bytes) /\ Len(Data(k, l)) = l
  BY DataFacts
<1>2. /\ 1 \in 1 .. Len(Data(k, l)) + 1
      /\ m \in 1 - 1 .. Len(Data(k, l)) /\ n \in m .. Len(Data(k, l))
  BY <1>1
<1> QED
  BY <1>1, <1>2, ConcatAdjacentSubSeq, SMTT(30)

\* Nothing and everything are slices.
LEMMA WholeSlices ==
    ASSUME NEW k \in 0 .. MaxCommands, NEW l \in Nat
    PROVE  SubSeq(Data(k, l), 1, 0) = <<>> /\ SubSeq(Data(k, l), 1, l) = Data(k, l)
  BY DataFacts, SubSeqEmpty, SubSeqFull, SMTT(30)

\* The part the card sends and what it keeps make what it had.
LEMMA SplitReply ==
    ASSUME NEW s \in Seq(Bytes), NEW n \in 0 .. Len(s)
    PROVE  /\ SubSeq(s, 1, n) \in Seq(Bytes) /\ Len(SubSeq(s, 1, n)) = n
           /\ SubSeq(s, n + 1, Len(s)) \in Seq(Bytes)
           /\ SubSeq(s, 1, n) \o SubSeq(s, n + 1, Len(s)) = s
           /\ n = Len(s) => SubSeq(s, n + 1, Len(s)) = <<>>
<1> Len(s) \in Nat
  OBVIOUS
<1>1. \A i \in 1 .. Len(s) : s[i] \in Bytes
  OBVIOUS
<1>2. (\A i \in 1 .. n : s[i] \in Bytes) /\ (\A i \in n + 1 .. Len(s) : s[i] \in Bytes)
  BY <1>1
<1>3. SubSeq(s, 1, n) \in Seq(Bytes) /\ Len(SubSeq(s, 1, n)) = n
  BY <1>2, SubSeqProperties
<1>4. SubSeq(s, n + 1, Len(s)) \in Seq(Bytes)
  BY <1>2, SubSeqProperties
<1>5. SubSeq(s, 1, n) \o SubSeq(s, n + 1, Len(s)) = SubSeq(s, 1, Len(s))
  <2>1. 1 \in 1 .. Len(s) + 1 /\ n \in 1 - 1 .. Len(s) /\ Len(s) \in n .. Len(s)
    OBVIOUS
  <2> QED
    BY <2>1, ConcatAdjacentSubSeq
<1>6. SubSeq(s, 1, Len(s)) = s
  BY SubSeqFull
<1>7. n = Len(s) => SubSeq(s, n + 1, Len(s)) = <<>>
  BY SubSeqEmpty
<1> QED
  BY <1>3, <1>4, <1>5, <1>6, <1>7

\* Concatenation is associative.
LEMMA Associative ==
    \A s, t, u \in Seq(Bytes) : (s \o t) \o u = s \o (t \o u)
  BY ConcatAssociative

\* The next block lies within the command, is not empty and is the last one exactly
\* if no byte is left.
LEMMA NextBlock ==
    ASSUME NEW l \in Nat, NEW c \in Nat, c < l
    PROVE  /\ Least(l - c, Ifsc) \in 1 .. Ifsc
           /\ c + Least(l - c, Ifsc) <= l
           /\ (l - c > Ifsc) <=> (c + Least(l - c, Ifsc) < l)
  BY SizesAssumption DEF Least

\* A quotient is the largest number that many divisors fit into the dividend.
LEMMA Quotient ==
    ASSUME NEW n \in Nat, NEW d \in Nat \ {0}
    PROVE  /\ n \div d \in Nat /\ (n \div d) * d <= n
           /\ \A m \in Nat : m * d <= n => m <= n \div d
<1> DEFINE q == n \div d
<1>1. q \in Int /\ n % d \in 0 .. d - 1 /\ n = d * q + (n % d)
  OBVIOUS
<1> HIDE DEF q
<1>2. ASSUME q < 0 PROVE FALSE
  <2>1. d * q <= d * (-1)
    BY <1>1, <1>2
  <2> QED
    BY <1>1, <2>1
<1>3. q * d <= n
  BY <1>1
<1>4. ASSUME NEW m \in Nat, m * d <= n, m > q PROVE FALSE
  <2>1. (q + 1) * d <= m * d
    BY <1>1, <1>4
  <2>2. (q + 1) * d = d * q + d
    BY <1>1
  <2> QED
    BY <1>1, <1>4, <2>1, <2>2
<1>5. q \in Nat /\ \A m \in Nat : m * d <= n => m <= q
  BY <1>1, <1>2, <1>4
<1> QED
  BY <1>3, <1>5 DEF q

\* A short holds what is left of a number, and the number if it fits.
LEMMA Shorts ==
    /\ Width \in Nat \ {0}
    /\ \A n \in Nat : n % Width \in 0 .. Width - 1 /\ (n < Width => n % Width = n)
<1>1. Width \in Nat \ {0}
  BY DEF Width
<1>2. \A n \in Nat : n % Width \in 0 .. Width - 1 /\ (n < Width => n % Width = n)
  BY <1>1
<1> QED
  BY <1>1, <1>2

\* The waiting times of any rate are natural numbers.
LEMMA Times ==
    ASSUME NEW n \in Rates
    PROVE  /\ Time(n) \in Nat /\ Time(n) % Width \in 0 .. Width - 1
           /\ 100 * Factor + 11000 \div n \in Nat
<1>1. n \in Nat \ {0} /\ (960 * Factor + 11) * 1000 \in Nat
  BY TimesAssumption
<1>2. 11000 \div n \in Nat /\ Time(n) \in Nat
  BY <1>1, Quotient DEF Time
<1>3. Time(n) % Width \in 0 .. Width - 1
  BY <1>2, Shorts
<1> QED
  BY <1>2, <1>3, TimesAssumption

\* The timeout is a short.
LEMMA TimeFacts ==
    ASSUME rate \in Rates
    PROVE  bwt \in 0 .. Width - 1 /\ bwt \in Nat /\ CardBwt \in Nat
  BY Times, Shorts DEF bwt, CardBwt

\* So is the product with a multiplier.
LEMMA Products ==
    ASSUME rate \in Rates, NEW w \in Nat
    PROVE  /\ (w * bwt) % Width \in 0 .. Width - 1 /\ (w * bwt) % Width \in Nat
           /\ w * CardBwt \in Nat /\ w * Time(rate) \in Nat
           /\ w = 1 => /\ (w * bwt) % Width = bwt /\ w * CardBwt = CardBwt
                      /\ w * Time(rate) = Time(rate)
<1>1. w * bwt \in Nat /\ w * CardBwt \in Nat /\ w * Time(rate) \in Nat
  BY Times, TimeFacts
<1>2. w = 1 => w * bwt = bwt /\ w * CardBwt = CardBwt /\ w * Time(rate) = Time(rate)
  BY Times, TimeFacts
<1>3. (w * bwt) % Width \in 0 .. Width - 1 /\ (w * bwt < Width => (w * bwt) % Width = w * bwt)
  BY <1>1, Shorts
<1>4. bwt \in Nat /\ bwt < Width
  BY TimeFacts, Shorts
<1> QED
  BY <1>1, <1>2, <1>3, <1>4, Shorts

\* Up to the default rate the driver computes no less than the card may take.
LEMMA TimeSuffices ==
    ASSUME rate \in Rates, rate <= DefaultRate
    PROVE  CardBwt <= Time(rate)
<1> DEFINE k == 100 * Factor
           q == 11000 \div rate
<1>1. k \in Nat /\ rate \in Nat \ {0}
  BY TimesAssumption
<1>2. q \in Nat /\ q * rate <= 11000
  BY <1>1, Quotient
<1>3. k * rate <= k * 9600
  BY <1>1 DEF DefaultRate
<1>4. k * 9600 = 960 * Factor * 1000
  BY TimesAssumption
<1> HIDE DEF k, q
<1>5. (k + q) * rate = k * rate + q * rate
  BY <1>1, <1>2
<1>6. (k + q) * rate <= (960 * Factor + 11) * 1000
  BY <1>1, <1>2, <1>3, <1>4, <1>5, TimesAssumption
<1>7. k + q \in Nat /\ (960 * Factor + 11) * 1000 \in Nat
  BY <1>1, <1>2, TimesAssumption
<1>8. k + q <= ((960 * Factor + 11) * 1000) \div rate
  BY <1>1, <1>6, <1>7, Quotient
<1> QED
  BY <1>8 DEF k, q, CardBwt, Time

\* A product that fits into a short is kept, so that the card gets its time.
LEMMA Patience ==
    ASSUME rate \in Rates, rate <= DefaultRate, NEW w \in Nat \ {0},
           w * Time(rate) < Width
    PROVE  (w * bwt) % Width >= w * CardBwt
<1> DEFINE t == Time(rate)
<1>1. t \in Nat /\ CardBwt \in Nat /\ CardBwt <= t
  BY Times, TimeFacts, TimeSuffices
<1> HIDE DEF t
<1>2. w * CardBwt <= w * t /\ t <= w * t /\ w * t \in Nat
  BY <1>1
<1>3. w * t < Width
  BY DEF t
<1>4. t < Width
  BY <1>1, <1>2, <1>3, Shorts
<1>5. bwt = t
  BY <1>1, <1>4, Shorts DEF bwt, t
<1>6. (w * bwt) % Width = w * t
  BY <1>2, <1>3, <1>5, Shorts
<1> QED
  BY <1>2, <1>6

\* The times follow from the rate.
LEMMA RateKept ==
    ASSUME IInv, UNCHANGED rate
    PROVE  /\ rate \in Rates /\ rate' = rate
           /\ bwt' = bwt /\ CardBwt' = CardBwt
  BY DEF IInv, TypeOK, HostType, bwt, CardBwt, Time

\* What the driver sends is not None.
LEMMA BlockFacts ==
    ASSUME NEW n \in 0 .. 1
    PROVE  /\ \A m \in BOOLEAN, inf \in Seq(Bytes) : IBlock(n, m, inf) # None
           /\ RBlock("ok", n) # None
           /\ \A w \in Nat : SBlock("wtx_res", <<w>>) # None
<1>1. ASSUME NEW m \in BOOLEAN, NEW inf \in Seq(Bytes)
      PROVE  IBlock(n, m, inf) \in HostBlocks
  BY DEF IBlock, HostBlocks
<1>2. RBlock("ok", n) \in HostBlocks
  BY DEF RBlock, HostBlocks
<1>3. ASSUME NEW w \in Nat PROVE SBlock("wtx_res", <<w>>) \in HostBlocks
  BY DEF SBlock, HostBlocks
<1> QED
  BY <1>1, <1>2, <1>3, NoneAssumption

\* With a block under way to the card, the state has one of the phases in which there
\* is one.
LEMMA PhaseBlocks ==
    ASSUME TypeOK, toCard = None
    PROVE  /\ ~LastSent /\ ~Acknowledged /\ ~TimeGranted
           /\ Chaining => toHost = <<RBlock("ok", cardNs)>>
<1> USE DEF TypeOK, HostType, CardType
<1>1. ~LastSent
  <2>1. \A n \in 0 .. len :
           IBlock(ns, FALSE, SubSeq(Data(cmd, len), n + 1, len)) # None
    <3> TAKE n \in 0 .. len
    <3>1. SubSeq(Data(cmd, len), n + 1, len) \in Seq(Bytes)
      BY DataFacts
    <3> QED
      BY <3>1, BlockFacts
  <2> QED
    BY <2>1 DEF LastSent
<1>2. ~Acknowledged
  BY BlockFacts DEF Acknowledged
<1>3. ~TimeGranted
  <2>1. wtx \in Nat
    BY TimesAssumption
  <2> QED
    BY <2>1, BlockFacts DEF TimeGranted
<1>4. Chaining => toHost = <<RBlock("ok", cardNs)>>
  <2> SUFFICES ASSUME Chaining PROVE toHost = <<RBlock("ok", cardNs)>>
    OBVIOUS
  <2>1. counter \in 0 .. len /\ counter + bytes \in 0 .. len
    BY DEF Chaining, AtHand
  <2>2. SubSeq(Data(cmd, len), counter + 1, counter + bytes) \in Seq(Bytes)
    BY <2>1, DataFacts
  <2>3. IBlock(ns, TRUE, SubSeq(Data(cmd, len), counter + 1, counter + bytes)) # None
    BY <2>2, BlockFacts
  <2> QED
    BY <2>3 DEF Chaining
<1> QED
  BY <1>1, <1>2, <1>3, <1>4

\* A command begins.
LEMMA StepCommand ==
    ASSUME IInv, NEW l \in CmdLens, Command(l)
    PROVE  IInv'
<1> USE SizesAssumption, LensAssumption, BoundsAssumption DEF IInv, TypeOK, Command
<1>r. rate \in Rates /\ rate' = rate /\ bwt' = bwt /\ CardBwt' = CardBwt
  BY RateKept DEF host
<1> USE <1>r
<1>1. l \in Nat \ {0} /\ bytes' \in 1 .. Ifsc /\ bytes' <= l /\ more' = (bytes' < l)
  BY DEF Least
<1>2. HostType'
  <2>1. more' \in BOOLEAN /\ ns' \in 0 .. 1
    BY FlipFacts DEF HostType
  <2> QED
    BY <1>1, <2>1 DEF HostType
<1>3. CardType' /\ faults' \in 0 .. MaxFaults /\ excused' \in BOOLEAN
  BY DEF CardType, line, icc
<1>4. TimingInv'
  BY DEF TimingInv
<1>5. Sending'
  <2>1. AtHand'
    BY <1>1 DEF AtHand
  <2>2. Quiet' /\ cardNs' = ns'
    BY FlipFacts DEF PhaseInv, HostType, Quiet, Synced, line, icc
  <2>3. Taken(counter)'
    <3>1. partial' = SubSeq(Data(cmd', len'), 1, counter')
      BY <1>1, <1>2, WholeSlices DEF PhaseInv, HostType, Synced, icc
    <3> QED
      BY <3>1, <1>2 DEF PhaseInv, HostType, CardType, Synced, Taken, icc
  <2> QED
    BY <2>1, <2>2, <2>3 DEF Sending
<1>6. PhaseInv'
  BY <1>5 DEF PhaseInv, Healthy, HostType, CardType, icc
<1> QED
  BY <1>2, <1>3, <1>4, <1>6

\* An I-block goes out.
LEMMA StepSendI ==
    ASSUME IInv, SendI
    PROVE  IInv'
<1> USE SizesAssumption, LensAssumption, BoundsAssumption, TimesAssumption
    DEF IInv, TypeOK, SendI, SendBlock, Fault
<1>r. rate \in Rates /\ rate' = rate /\ bwt' = bwt /\ CardBwt' = CardBwt
  BY RateKept DEF host
<1> USE <1>r
<1>0. ~excused /\ Sending
  BY DEF PhaseInv, Doomed, Healthy
<1>1. HostType'
  <2>1. CASE more
    BY <2>1 DEF HostType
  <2>2. CASE ~more
    BY <2>2 DEF HostType
  <2> QED
    BY <2>1, <2>2
<1>2. CardType' /\ faults' \in 0 .. MaxFaults /\ excused' \in BOOLEAN
  BY DEF CardType, icc
<1>3. TimingInv'
  BY DEF TimingInv
<1>4. CASE more
  <2>1. Chaining'
    BY <1>0, <1>4 DEF Sending, Chaining, AtHand, Taken, icc
  <2>2. PhaseInv'
    BY <1>0, <1>4, <2>1 DEF PhaseInv, Healthy, icc
  <2> QED
    BY <1>1, <1>2, <1>3, <1>4, <2>2 DEF PhaseInv
<1>5. CASE ~more
  <2>1. ~(counter + bytes < len) /\ counter + bytes <= len /\ bytes \in Nat
    BY <1>0, <1>5 DEF Sending, AtHand, HostType
  <2>2. counter \in 0 .. len /\ counter + bytes = len
    BY <2>1 DEF HostType
  <2>3. /\ partial' = SubSeq(Data(cmd', len'), 1, counter)
        /\ toCard' = IBlock(ns', FALSE, SubSeq(Data(cmd', len'), counter + 1, len'))
    BY <1>0, <1>5, <2>2 DEF Sending, Taken, icc, HostType
  <2>4. LastSent'
    BY <1>0, <1>5, <2>2, <2>3 DEF Sending, LastSent, Taken, icc
  <2>5. PhaseInv'
    BY <1>0, <1>5, <2>4 DEF PhaseInv, Healthy, icc
  <2> QED
    BY <1>1, <1>2, <1>3, <1>5, <2>5 DEF PhaseInv
<1> QED
  BY <1>4, <1>5 DEF HostType

\* An acknowledgement goes out.
LEMMA StepSendR ==
    ASSUME IInv, SendR
    PROVE  IInv'
<1> USE DEF IInv, TypeOK, SendR, SendBlock
<1>r. rate \in Rates /\ rate' = rate /\ bwt' = bwt /\ CardBwt' = CardBwt
  BY RateKept DEF host
<1> USE <1>r
<1>0. ~excused /\ card = "chaining" /\ nr = cardSn /\ Answering(<<>>) /\ wtx <= 1
  BY DEF PhaseInv, Doomed, Healthy
<1>1. HostType'
  BY DEF HostType
<1>2. CardType' /\ faults' \in 0 .. MaxFaults /\ excused' \in BOOLEAN
  BY DEF CardType, icc
<1>3. TimingInv'
  BY <1>0, TimesAssumption DEF TimingInv, HostType
<1>4. Acknowledged'
  BY <1>0 DEF Acknowledged, Answering, icc
<1>5. PhaseInv'
  BY <1>0, <1>4 DEF PhaseInv, Healthy, icc
<1> QED
  BY <1>1, <1>2, <1>3, <1>5

\* Time is granted.
LEMMA StepSendWtx ==
    ASSUME IInv, SendWtx
    PROVE  IInv'
<1> USE DEF IInv, TypeOK, SendWtx, SendBlock
<1>r. rate \in Rates /\ rate' = rate /\ bwt' = bwt /\ CardBwt' = CardBwt
  BY RateKept DEF host
<1> USE <1>r
<1>0. ~excused /\ card = "asked" /\ Answering(<<>>) /\ wtx \in Wtxs
  BY DEF PhaseInv, Doomed, Healthy
<1>a. wtx \in Nat \ {0}
  BY <1>0, TimesAssumption
<1>1. HostType'
  BY <1>a, Products DEF HostType
<1>2. CardType' /\ faults' \in 0 .. MaxFaults /\ excused' \in BOOLEAN
  BY DEF CardType, icc
<1>3. TimingInv'
  BY <1>a DEF TimingInv
<1>4. TimeGranted'
  BY <1>0, <1>a, SMTT(30) DEF TimeGranted, Answering, icc
<1>5. PhaseInv'
  BY <1>0, <1>4 DEF PhaseInv, Healthy, icc
<1> QED
  BY <1>1, <1>2, <1>3, <1>5

\* A block cannot be sent.
LEMMA StepSendFails ==
    ASSUME IInv, SendFails
    PROVE  IInv'
<1> USE DEF IInv, TypeOK, SendFails, Fault, Fail
<1>r. rate \in Rates /\ rate' = rate /\ bwt' = bwt /\ CardBwt' = CardBwt
  BY RateKept DEF host
<1> USE <1>r
<1>0. toCard = None
  BY DEF PhaseInv, Doomed, Healthy, Sending, Quiet
<1>1. HostType'
  BY DEF HostType
<1>2. CardType' /\ faults' \in 0 .. MaxFaults /\ excused' \in BOOLEAN
  BY BoundsAssumption DEF CardType, icc
<1>3. TimingInv'
  BY DEF TimingInv
<1>4. PhaseInv'
  BY <1>0 DEF PhaseInv, icc
<1> QED
  BY <1>1, <1>2, <1>3, <1>4

\* An acknowledgement is refused only in a command that something has happened to.
LEMMA RefusedR ==
    ASSUME IInv, AwaitR,
           ~(Head(toHost).type = "R" /\ Head(toHost).error = "ok")
    PROVE  excused
<1> SUFFICES ASSUME ~excused PROVE FALSE
  OBVIOUS
<1>1. toHost = <<RBlock("ok", cardNs)>>
  BY DEF IInv, PhaseInv, Healthy, Chaining, AwaitR, ReceiveBlock
<1> QED
  BY <1>1 DEF RBlock

\* What the driver gets while it waits for the answer is on its way from a card to
\* which nothing is under way.
LEMMA Incoming ==
    ASSUME IInv, AwaitI
    PROVE  toCard = None /\ (~excused => PartSent \/ TimeAsked)
  BY DEF IInv, AwaitI, ReceiveBlock, PhaseInv, Healthy, Doomed, LastSent, Working,
         PartSent, Acknowledged, TimeAsked, TimeGranted, Quiet

\* So is a part of the answer or a request for time.
LEMMA RefusedI ==
    ASSUME IInv, AwaitI,
           LET b == Head(toHost) IN
             b.type # "I" /\ ~(b.type = "S" /\ b.kind = "wtx_req")
    PROVE  excused
  BY Incoming DEF PartSent, TimeAsked, SBlock

\* The driver gets what it waits for in a chain, or gives up.
LEMMA StepAwaitR ==
    ASSUME IInv, AwaitR
    PROVE  IInv'
<1> USE SizesAssumption, BoundsAssumption DEF IInv, TypeOK, AwaitR, ReceiveBlock
<1>r. rate \in Rates /\ rate' = rate /\ bwt' = bwt /\ CardBwt' = CardBwt
  BY RateKept DEF host
<1> USE <1>r
<1> DEFINE b == Head(toHost)
<1>1. CardType' /\ faults' \in 0 .. MaxFaults /\ excused' \in BOOLEAN
  BY DEF CardType, icc
<1>2. timeout' = bwt
  BY DEF TimingInv
<1>3. CASE b.type = "R" /\ b.error = "ok"
  <2>1. ~excused /\ Chaining
    BY <1>3 DEF PhaseInv, Healthy, Doomed, RBlock, SBlock
  <2>2. toHost = <<RBlock("ok", cardNs)>> /\ Taken(counter + bytes) /\ toCard = None
    BY <2>1 DEF Chaining
  <2>3. cardNs = Flip(ns) /\ AtHand /\ more
    BY <2>1, <2>2 DEF Chaining
  <2>4. counter' = counter + bytes /\ counter' < len /\ bytes \in Nat
    BY <1>3, <2>3 DEF AtHand, HostType
  <2>5. AtHand' /\ more' \in BOOLEAN
    <3>1. /\ bytes' = Least(len - counter', Ifsc) /\ more' = (len - counter' > Ifsc)
          /\ len' = len /\ len - counter' \in Nat \ {0} /\ counter' \in Nat
      BY <1>3, <2>4 DEF HostType
    <3>2. bytes' \in 1 .. Ifsc /\ counter' + bytes' <= len
      BY <2>4, <3>1, NextBlock DEF HostType
    <3>3. (len - counter' > Ifsc) <=> (counter' + bytes' < len)
      BY <2>4, <3>1, NextBlock DEF HostType
    <3> QED
      BY <3>1, <3>2, <3>3 DEF AtHand
  <2>6. HostType'
    <3>1. ns' \in 0 .. 1 /\ timeout' \in 0 .. Width - 1
      BY <1>2, <1>3, FlipFacts, TimeFacts DEF HostType
    <3>2. counter' \in Nat /\ bytes' \in Nat /\ pc' = "send_i"
      BY <1>3, <2>4, <2>5 DEF HostType, AtHand
    <3> QED
      BY <1>3, <2>5, <3>1, <3>2 DEF HostType
  <2>7. Sending'
    BY <1>3, <2>2, <2>3, <2>4, <2>5 DEF Sending, Quiet, Taken, icc
  <2>8. PhaseInv'
    BY <1>3, <2>1, <2>7 DEF PhaseInv, Healthy, icc
  <2> QED
    BY <1>1, <1>2, <1>3, <2>6, <2>8 DEF TimingInv, PhaseInv
<1>4. CASE ~(b.type = "R" /\ b.error = "ok")
  <2>1. Fail
    BY <1>4
  <2>2. toCard = None
    BY DEF PhaseInv, Healthy, Doomed, Chaining
  <2>3. excused
    BY <1>4, RefusedR
  <2>4. HostType'
    BY <1>2, <2>1, TimeFacts DEF HostType, Fail
  <2>5. PhaseInv' /\ TimingInv'
    BY <1>2, <2>1, <2>2, <2>3 DEF Fail, PhaseInv, TimingInv, icc
  <2> QED
    BY <1>1, <2>4, <2>5
<1> QED
  BY <1>3, <1>4

\* The driver gets a part of the answer, a request for time, or gives up.
LEMMA StepAwaitI ==
    ASSUME IInv, AwaitI
    PROVE  IInv'
<1> USE BoundsAssumption DEF IInv, TypeOK, AwaitI, ReceiveBlock
<1>r. rate \in Rates /\ rate' = rate /\ bwt' = bwt /\ CardBwt' = CardBwt
  BY RateKept DEF host
<1> USE <1>r
<1> DEFINE b == Head(toHost)
<1>1. CardType' /\ faults' \in 0 .. MaxFaults /\ excused' \in BOOLEAN
  BY DEF CardType, icc
<1>2. toCard = None /\ (~excused => PartSent \/ TimeAsked)
  BY Incoming
<1>3. CASE b.type = "I"
  <2>1. ~excused /\ PartSent
    BY <1>2, <1>3 DEF PhaseInv, Doomed, RBlock, SBlock, TimeAsked
  <2>2. toHost[1] = b /\ b = IBlock(Flip(cardSn), b.more, b.inf)
    BY <2>1 DEF PartSent
  <2>3. b.inf \in Seq(Bytes) /\ b.more \in BOOLEAN /\ Answering(b.inf)
    BY <2>1, <2>2 DEF PartSent
  <2>4. b.n = Flip(cardSn) /\ "inf" \in DOMAIN b
    BY <2>2 DEF IBlock
  <2>5. /\ nr' = cardSn /\ bytes' = Len(b.inf) /\ buffer' = buffer \o b.inf
        /\ counter' = counter + bytes' /\ more' = b.more /\ timeout' = bwt
        /\ wtx' = IF wtx > 1 THEN 0 ELSE wtx
        /\ b.more => pc' = "send_r" /\ ret' = ret
        /\ ~b.more => pc' = "idle" /\ ret' = "ok"
        /\ UNCHANGED <<cmd, len, ns>>
    BY <1>3, <2>4, FlipFacts DEF CardType
  <2>6. HostType'
    <3>1. pc' \in {"idle", "send_r"} /\ ret' \in {"none", "ok", "error"}
      BY <2>3, <2>5 DEF HostType
    <3>2. buffer' \in Seq(Bytes) /\ bytes' \in Nat
      BY <2>3, <2>5 DEF HostType
    <3> QED
      BY <2>3, <2>5, <3>1, <3>2, TimeFacts DEF HostType, CardType
  <2>7. wtx' <= 1
    BY <2>5, TimesAssumption DEF HostType
  <2>8. TimingInv'
    BY <2>1, <2>3, <2>5 DEF TimingInv, PhaseInv
  <2>9. reply \in Seq(Bytes) /\ buffer \in Seq(Bytes)
    BY DEF HostType, CardType
  <2>10. toHost' = <<>>
    <3>1. toHost = <<b>>
      BY <2>1, <2>2 DEF PartSent
    <3>2. Tail(<<b>>) = <<>>
      OBVIOUS
    <3> HIDE DEF b
    <3> QED
      BY <3>1, <3>2
  <2>11. CASE b.more
    <3>1. <<>> \o reply = reply /\ (buffer \o b.inf) \o reply = buffer \o (b.inf \o reply)
      <4> HIDE DEF b
      <4>1. <<>> \o reply = reply
        BY <2>9, ConcatEmptySeq
      <4>2. (buffer \o b.inf) \o reply = buffer \o (b.inf \o reply)
        BY <2>3, <2>9, Associative
      <4> QED
        BY <4>1, <4>2
    <3>2. Answering(<<>>)'
      BY <2>3, <2>5, <3>1 DEF Answering, icc
    <3>3. Quiet' /\ card' = "chaining" /\ nr' = cardSn'
      BY <1>2, <2>1, <2>2, <2>5, <2>10, <2>11 DEF Quiet, PartSent, icc
    <3>4. PhaseInv'
      BY <2>1, <2>5, <2>7, <2>11, <3>2, <3>3 DEF PhaseInv, Healthy, icc
    <3> QED
      BY <1>1, <2>6, <2>8, <3>4
  <2>12. CASE ~b.more
    <3>1. card = "wait" /\ reply = <<>>
      BY <2>1, <2>2, <2>12 DEF PartSent
    <3>2. buffer' = buffer \o (b.inf \o reply)
      BY <2>3, <2>5, <3>1, ConcatEmptySeq
    <3>3. \E l \in RspLens : buffer' = Data(cmd', l)
      BY <2>3, <2>5, <3>2 DEF Answering
    <3>4. Quiet' /\ Synced'
      BY <1>2, <2>3, <2>5, <2>10, <3>1 DEF Quiet, Synced, Answering, icc
    <3>5. PhaseInv'
      BY <2>5, <2>12, <3>3, <3>4 DEF PhaseInv, icc
    <3> QED
      BY <1>1, <2>6, <2>8, <3>5
  <2> QED
    BY <2>3, <2>11, <2>12
<1>4. CASE b.type = "S" /\ b.kind = "wtx_req"
  <2>1. ~excused /\ TimeAsked
    BY <1>2, <1>4 DEF PhaseInv, Doomed, RBlock, SBlock, PartSent, IBlock
  <2>2. PICK w \in Wtxs : toHost = <<SBlock("wtx_req", <<w>>)>>
    BY <2>1 DEF TimeAsked
  <2>3. b.inf = <<w>> /\ "inf" \in DOMAIN b /\ toHost' = <<>>
    BY <2>2 DEF SBlock
  <2>4. /\ wtx' = w /\ pc' = "send_wtx" /\ timeout' = bwt
        /\ UNCHANGED <<cmd, len, ns, counter, bytes, more, nr, buffer, ret>>
    BY <1>4, <2>3
  <2>5. HostType'
    BY <2>4, TimeFacts DEF HostType
  <2>6. Quiet' /\ card' = "asked" /\ Answering(<<>>)'
    BY <1>2, <2>1, <2>3, <2>4 DEF Quiet, TimeAsked, Answering, icc
  <2>7. PhaseInv'
    BY <2>1, <2>4, <2>6 DEF PhaseInv, Healthy, icc
  <2> QED
    BY <1>1, <2>4, <2>5, <2>7 DEF TimingInv, PhaseInv
<1>5. CASE b.type # "I" /\ ~(b.type = "S" /\ b.kind = "wtx_req")
  <2>1. Fail
    BY <1>5
  <2>2. excused
    BY <1>5, RefusedI
  <2>3. timeout' = bwt
    BY <2>2 DEF TimingInv, PhaseInv, Doomed, RBlock, SBlock
  <2>4. HostType'
    BY <2>1, <2>3, TimeFacts DEF HostType, Fail
  <2>5. PhaseInv' /\ TimingInv'
    BY <1>2, <2>1, <2>2, <2>3 DEF Fail, PhaseInv, TimingInv, icc
  <2> QED
    BY <1>1, <2>4, <2>5
<1> QED
  BY <1>3, <1>4, <1>5

\* The driver gives up waiting.
LEMMA StepTimeout ==
    ASSUME IInv, Timeout
    PROVE  IInv'
<1> USE BoundsAssumption DEF IInv, TypeOK, Timeout, Silence, Fail, Fault
<1>r. rate \in Rates /\ rate' = rate /\ bwt' = bwt /\ CardBwt' = CardBwt
  BY RateKept DEF host
<1> USE <1>r
<1>1. CardType' /\ faults' \in 0 .. MaxFaults /\ excused' \in BOOLEAN
  <2>1. faults' = faults \/ (faults < MaxFaults /\ faults' = faults + 1)
    OBVIOUS
  <2>2. excused' \in BOOLEAN
    OBVIOUS
  <2>3. CardType'
    BY DEF CardType, icc
  <2> QED
    BY <2>1, <2>2, <2>3
<1>2. timeout' = bwt
  BY DEF TimingInv
<1>3. HostType'
  BY <1>2, TimeFacts DEF HostType
<1>4. toCard = None
  BY DEF PhaseInv, Healthy, Doomed, Chaining, Taken, LastSent, Working, PartSent,
         Acknowledged, TimeAsked, TimeGranted, Quiet
<1>5. PhaseInv' /\ TimingInv'
  BY <1>2, <1>4 DEF PhaseInv, TimingInv, icc
<1> QED
  BY <1>1, <1>3, <1>5

\* A block comes and the reader fails.
LEMMA StepReceiveFails ==
    ASSUME IInv, ReceiveFails
    PROVE  IInv'
<1> USE BoundsAssumption DEF IInv, TypeOK, ReceiveFails, Fail, Fault
<1>r. rate \in Rates /\ rate' = rate /\ bwt' = bwt /\ CardBwt' = CardBwt
  BY RateKept DEF host
<1> USE <1>r
<1>1. CardType' /\ faults' \in 0 .. MaxFaults /\ excused' \in BOOLEAN
  BY DEF CardType, icc
<1>2. HostType'
  BY TimeFacts DEF HostType
<1>3. toCard = None
  BY DEF PhaseInv, Healthy, Doomed, Chaining, LastSent, Working, PartSent,
         Acknowledged, TimeAsked, TimeGranted, Quiet
<1>4. PhaseInv' /\ TimingInv'
  BY <1>3 DEF PhaseInv, TimingInv, icc
<1> QED
  BY <1>1, <1>2, <1>4

\* The application resets the card.
LEMMA StepReset ==
    ASSUME IInv, Reset
    PROVE  IInv'
<1> USE BoundsAssumption DEF IInv, TypeOK, Reset
<1>0. bwt' \in 0 .. Width - 1 /\ CardBwt' \in Nat
  BY Times DEF bwt, CardBwt
<1>1. CardType' /\ faults' \in 0 .. MaxFaults /\ excused' \in BOOLEAN
  BY <1>0 DEF CardType
<1>2. HostType'
  BY <1>0 DEF HostType
<1>3. PhaseInv' /\ TimingInv'
  BY DEF PhaseInv, TimingInv, Quiet, Synced, Flip
<1> QED
  BY <1>1, <1>2, <1>3

\* Only a driver that waits has a block under way to the card, and then none comes
\* from it.
LEMMA OneWay ==
    ASSUME IInv, toCard # None
    PROVE  ~excused /\ pc \in {"await_r", "await_i"} /\ toHost = <<>> /\ card # "busy"
<1> USE DEF IInv, TypeOK
<1>1. pc # "idle" /\ ~excused
  BY DEF PhaseInv, Quiet, Doomed, HostType
<1>2. pc \in {"await_r", "await_i"}
  BY <1>1 DEF PhaseInv, Healthy, Sending, Quiet, HostType
<1> QED
  BY <1>1, <1>2 DEF PhaseInv, Healthy, Chaining, Taken, LastSent, Working, PartSent,
         Acknowledged, TimeAsked, TimeGranted, Quiet

\* A driver that has been sent something is waiting or has given up.
LEMMA Waiting ==
    ASSUME IInv, toHost # <<>>
    PROVE  \/ pc = "idle" /\ ret = "error" /\ toCard = None
           \/ pc \in {"await_r", "await_i"} /\ toCard = None /\ card # "busy"
<1> USE DEF IInv, TypeOK
<1>1. CASE pc = "idle"
  BY <1>1 DEF PhaseInv, Quiet
<1>2. CASE pc # "idle" /\ excused
  BY <1>2 DEF PhaseInv, Doomed
<1>3. CASE pc # "idle" /\ ~excused
  <2>1. pc \in {"await_r", "await_i"}
    BY <1>3 DEF PhaseInv, Healthy, Sending, Quiet, HostType
  <2>2. PartSent \/ TimeAsked \/ Chaining
    BY <1>3, <2>1 DEF PhaseInv, Healthy, LastSent, Working, Acknowledged, TimeGranted, Quiet
  <2> QED
    BY <2>1, <2>2 DEF PartSent, TimeAsked, Chaining, Taken
<1> QED
  BY <1>1, <1>2, <1>3

\* A block to the card is lost.
LEMMA StepLoseToCard ==
    ASSUME IInv, LoseToCard
    PROVE  IInv'
<1> USE BoundsAssumption DEF IInv, TypeOK, LoseToCard, Fault
<1>r. rate \in Rates /\ rate' = rate /\ bwt' = bwt /\ CardBwt' = CardBwt
  BY RateKept DEF host
<1> USE <1>r
<1>0. ~excused /\ pc \in {"await_r", "await_i"} /\ toHost = <<>> /\ card # "busy"
  BY OneWay
<1>1. HostType' /\ CardType' /\ faults' \in 0 .. MaxFaults /\ excused' \in BOOLEAN
  BY DEF HostType, CardType, host, icc
<1>2. toHost' = <<>> \/ toHost' = <<RBlock("edc", cardNs)>>
  <2>1. Append(<<>>, RBlock("edc", cardNs)) = <<RBlock("edc", cardNs)>>
    OBVIOUS
  <2> QED
    BY <1>0, <2>1
<1>3. Doomed'
  BY <1>0, <1>2 DEF Doomed, host, icc
<1>4. PhaseInv' /\ TimingInv'
  BY <1>0, <1>3 DEF PhaseInv, TimingInv, host, icc
<1> QED
  BY <1>1, <1>4

\* A block to the driver is lost.
LEMMA StepLoseToHost ==
    ASSUME IInv, LoseToHost
    PROVE  IInv'
<1> USE BoundsAssumption DEF IInv, TypeOK, LoseToHost, Fault
<1>r. rate \in Rates /\ rate' = rate /\ bwt' = bwt /\ CardBwt' = CardBwt
  BY RateKept DEF host
<1> USE <1>r
<1>1. HostType' /\ CardType' /\ faults' \in 0 .. MaxFaults /\ excused' \in BOOLEAN
  BY DEF HostType, CardType, host, icc
<1>2. pc # "idle" => Tail(toHost) = <<>>
  <2> SUFFICES ASSUME pc # "idle" PROVE Tail(toHost) = <<>>
    OBVIOUS
  <2>1. \E b : toHost = <<b>>
    <3>1. CASE excused
      BY <3>1 DEF PhaseInv, Doomed
    <3>2. CASE ~excused
      BY <3>2, Waiting DEF PhaseInv, Healthy, Chaining, LastSent, Working, PartSent,
             Acknowledged, TimeAsked, TimeGranted, Quiet
    <3> QED
      BY <3>1, <3>2
  <2> QED
    BY <2>1
<1>3. pc # "idle" => Doomed'
  BY <1>2, Waiting DEF Doomed, host, icc
<1>4. PhaseInv' /\ TimingInv'
  BY <1>3, Waiting DEF PhaseInv, TimingInv, host, icc
<1> QED
  BY <1>1, <1>4

\* The card takes an I-block: it acknowledges one of a chain and carries out a
\* command that is complete.
LEMMA StepCardTakesI ==
    ASSUME IInv, CardTakesI
    PROVE  IInv' /\ (executed' # executed => executed < cmd /\ executed' = cmd /\ pc # "idle")
<1> USE SizesAssumption, LensAssumption, BoundsAssumption
    DEF IInv, TypeOK, CardTakesI, CardSends
<1>r. rate \in Rates /\ rate' = rate /\ bwt' = bwt /\ CardBwt' = CardBwt
  BY RateKept DEF host
<1> USE <1>r
<1>0. ~excused /\ pc \in {"await_r", "await_i"} /\ toHost = <<>> /\ card # "busy"
  BY OneWay
<1>1. HostType' /\ faults' \in 0 .. MaxFaults /\ excused' \in BOOLEAN /\ TimingInv'
  BY DEF HostType, TimingInv, host
<1>2. (pc = "await_r" /\ Chaining) \/ (pc = "await_i" /\ LastSent)
  <2>1. Healthy /\ ~Working /\ ~PartSent /\ ~Acknowledged /\ ~TimeAsked /\ ~TimeGranted
    BY <1>0 DEF PhaseInv, Working, PartSent, Acknowledged, TimeAsked, TimeGranted
  <2> QED
    BY <1>0, <2>1 DEF Healthy
<1>3. CASE pc = "await_r" /\ Chaining
  <2>1. /\ Taken(counter) /\ cardNs = ns /\ AtHand /\ more
        /\ toCard = IBlock(ns, TRUE, SubSeq(Data(cmd, len), counter + 1, counter + bytes))
    BY <1>3 DEF Chaining
  <2>2. /\ toCard.n = cardNs /\ toCard.more
        /\ toCard.inf = SubSeq(Data(cmd, len), counter + 1, counter + bytes)
    BY <2>1 DEF IBlock
  <2>3. /\ cardNs' = Flip(cardNs) /\ partial' = partial \o toCard.inf
        /\ toHost' = Append(toHost, RBlock("ok", cardNs'))
        /\ UNCHANGED <<card, cardSn, reply, grant, asks, executed>>
    BY <2>2
  <2>4. counter \in 0 .. len /\ counter + bytes \in 0 .. len /\ counter <= counter + bytes
    BY <2>1 DEF AtHand, HostType
  <2>5. partial' = SubSeq(Data(cmd, len), 1, counter + bytes)
    <3>1. SubSeq(Data(cmd, len), 1, counter)
            \o SubSeq(Data(cmd, len), counter + 1, counter + bytes)
            = SubSeq(Data(cmd, len), 1, counter + bytes)
      BY <2>4, JoinSlices, SMTT(30) DEF HostType
    <3> QED
      BY <2>1, <2>2, <2>3, <3>1 DEF Taken
  <2>6. partial' \in Seq(Bytes)
    BY <2>4, <2>5, DataFacts DEF HostType
  <2>7. CardType'
    BY <2>3, <2>6, FlipFacts DEF CardType
  <2>8. toHost' = <<RBlock("ok", cardNs')>>
    BY <1>0, <2>3
  <2>9. Chaining'
    BY <2>1, <2>3, <2>5, <2>8 DEF Chaining, AtHand, Taken, host
  <2>10. PhaseInv'
    BY <1>0, <1>3, <2>3, <2>9 DEF PhaseInv, Healthy, host
  <2> QED
    BY <1>1, <2>3, <2>7, <2>10
<1>4. CASE pc = "await_i" /\ LastSent
  <2>1. PICK n \in 0 .. len :
           /\ partial = SubSeq(Data(cmd, len), 1, n)
           /\ toCard = IBlock(ns, FALSE, SubSeq(Data(cmd, len), n + 1, len))
    BY <1>4 DEF LastSent
  <2>2. /\ card = "wait" /\ executed < cmd /\ cardNs = ns /\ buffer = <<>> /\ wtx = 0
        /\ toCard.n = cardNs /\ ~toCard.more
        /\ toCard.inf = SubSeq(Data(cmd, len), n + 1, len)
    BY <1>4, <2>1 DEF LastSent, IBlock
  <2>3. partial \o toCard.inf = Data(cmd, len)
    <3>1. SubSeq(Data(cmd, len), 1, n) \o SubSeq(Data(cmd, len), n + 1, len)
            = SubSeq(Data(cmd, len), 1, len)
      <4>1. cmd \in 0 .. MaxCommands /\ len \in Nat /\ len \in 0 .. len /\ n <= len
        BY DEF HostType
      <4> QED
        BY <4>1, JoinSlices, ZenonT(40)
    <3>2. SubSeq(Data(cmd, len), 1, len) = Data(cmd, len)
      BY WholeSlices DEF HostType
    <3> QED
      BY <2>1, <2>2, <3>1, <3>2
  <2>4. /\ cardNs' = Flip(cardNs) /\ executed' = cmd /\ partial' = <<>>
        /\ \E l \in RspLens : reply' = Data(executed', l)
        /\ card' = "busy" /\ grant' = CardBwt /\ asks' = 0
        /\ UNCHANGED <<toHost, cardSn>>
    BY <2>2, <2>3
  <2>5. PICK l \in RspLens : reply' = Data(cmd, l)
    BY <2>4
  <2>6. reply' \in Seq(Bytes)
    BY <2>5, DataFacts DEF HostType
  <2>7. CardType'
    BY <2>4, <2>6, FlipFacts, TimeFacts DEF CardType, HostType
  <2>8. buffer' \o (<<>> \o reply') = Data(cmd', l)
    BY <2>2, <2>5, <2>6, ConcatEmptySeq DEF host
  <2>9. Answering(<<>>)'
    BY <2>2, <2>4, <2>8 DEF Answering, host
  <2>10. Working'
    BY <1>0, <2>2, <2>4, <2>9 DEF Working, Quiet, host
  <2>11. PhaseInv'
    BY <1>0, <1>4, <2>4, <2>10 DEF PhaseInv, Healthy, HostType, host
  <2> QED
    BY <1>1, <1>4, <2>2, <2>4, <2>7, <2>11
<1> QED
  BY <1>2, <1>3, <1>4

\* A card that works is waited for, or the driver has given up.
LEMMA Busy ==
    ASSUME IInv, card = "busy"
    PROVE  \/ pc = "idle" /\ ret = "error"
           \/ pc = "await_i" /\ ~excused /\ Working
<1> USE DEF IInv, TypeOK
<1>1. CASE pc = "idle"
  BY <1>1 DEF PhaseInv, Synced
<1>2. CASE pc # "idle"
  BY <1>2 DEF PhaseInv, Doomed, Healthy, HostType, Sending, Taken, Chaining, LastSent,
         PartSent, Acknowledged, TimeAsked, TimeGranted
<1> QED
  BY <1>1, <1>2

\* The card sends the next part of its answer.
LEMMA StepCardAnswers ==
    ASSUME IInv, CardAnswers
    PROVE  IInv'
<1> USE SizesAssumption, BoundsAssumption DEF IInv, TypeOK, CardAnswers, CardSends
<1>r. rate \in Rates /\ rate' = rate /\ bwt' = bwt /\ CardBwt' = CardBwt
  BY RateKept DEF host
<1> USE <1>r
<1> DEFINE n == Least(Ifsd, Len(reply))
           part == SubSeq(reply, 1, n)
<1>0. reply \in Seq(Bytes) /\ Len(reply) \in Nat /\ n \in 0 .. Len(reply)
      /\ (~(Len(reply) > Ifsd) => n = Len(reply))
  BY DEF CardType, Least
<1>1. /\ part \in Seq(Bytes) /\ Len(part) = n
      /\ reply' = SubSeq(reply, n + 1, Len(reply)) /\ reply' \in Seq(Bytes)
      /\ part \o reply' = reply
      /\ n = Len(reply) => reply' = <<>>
  BY <1>0, SplitReply
<1>2. HostType' /\ faults' \in 0 .. MaxFaults /\ excused' \in BOOLEAN /\ TimingInv'
  BY DEF HostType, TimingInv, host
<1>3. CardType'
  <2>1. card' \in {"wait", "chaining"}
    OBVIOUS
  <2> QED
    BY <1>1, <2>1, FlipFacts DEF CardType
<1>4. CASE pc = "idle" /\ ret = "error"
  <2>1. PhaseInv'
    BY <1>4 DEF PhaseInv, host
  <2> QED
    BY <1>2, <1>3, <2>1
<1>5. CASE pc = "await_i" /\ ~excused /\ Working
  <2> HIDE DEF n, part
  <2> DEFINE m == Len(reply) > Ifsd
  <2>0. m \in BOOLEAN
    OBVIOUS
  <2>1. toHost' = Append(toHost, IBlock(cardSn, m, part)) /\ toCard' = None /\ toHost = <<>>
    BY <1>5 DEF Working, Quiet, part, n
  <2>a. IF m THEN card' = "chaining" ELSE card' = "wait" /\ reply' = <<>>
    BY <1>0, <1>1
  <2> HIDE DEF m
  <2>2. toHost' = <<IBlock(cardSn, m, part)>>
    BY <2>1
  <2>3. /\ toHost'[1].type = "I" /\ toHost'[1].inf = part /\ toHost'[1].more = m
        /\ toHost' # <<>>
    <3>1. ASSUME NEW b PROVE <<b>>[1] = b /\ <<b>> # <<>>
      OBVIOUS
    <3>2. toHost'[1] = IBlock(cardSn, m, part) /\ toHost' # <<>>
      BY <2>2, <3>1, Zenon
    <3> QED
      BY <3>2 DEF IBlock
  <2>4. cardSn = Flip(cardSn')
    BY FlipFacts DEF CardType
  <2>5. toHost' = <<IBlock(Flip(cardSn'), toHost'[1].more, toHost'[1].inf)>>
    BY <2>2, <2>3, <2>4
  <2>6. <<>> \o reply = part \o reply'
    BY <1>0, <1>1, ConcatEmptySeq
  <2>7. /\ executed' = cmd' /\ partial' = <<>> /\ cardNs' = Flip(ns')
        /\ \E l \in RspLens : buffer' \o (part \o reply') = Data(cmd', l)
    BY <1>5, <2>6 DEF Working, Answering, host
  <2>8. Answering(toHost[1].inf)'
    BY <2>3, <2>7 DEF Answering
  <2>9. PartSent'
    BY <1>1, <2>0, <2>a, <2>1, <2>3, <2>5, <2>8 DEF PartSent
  <2>10. PhaseInv'
    BY <1>5, <2>9 DEF PhaseInv, Healthy, host
  <2> QED
    BY <1>2, <1>3, <2>10
<1> QED
  BY <1>4, <1>5, Busy

\* The card takes an acknowledgement.
LEMMA StepCardTakesR ==
    ASSUME IInv, CardTakesR
    PROVE  IInv'
<1> USE BoundsAssumption DEF IInv, TypeOK, CardTakesR, CardSends
<1>r. rate \in Rates /\ rate' = rate /\ bwt' = bwt /\ CardBwt' = CardBwt
  BY RateKept DEF host
<1> USE <1>r
<1>0. ~excused /\ pc \in {"await_r", "await_i"} /\ toHost = <<>> /\ card # "busy"
  BY OneWay
<1>1. HostType' /\ faults' \in 0 .. MaxFaults /\ excused' \in BOOLEAN /\ TimingInv'
  BY DEF HostType, TimingInv, host
<1>2. pc = "await_i" /\ Acknowledged
  BY <1>0 DEF PhaseInv, Healthy, Chaining, Taken, LastSent, Working, PartSent, TimeAsked,
         TimeGranted, Quiet, IBlock, SBlock
<1>3. toCard.n = cardSn
  BY <1>2 DEF Acknowledged, RBlock
<1>4. CardType'
  BY <1>3, TimeFacts DEF CardType
<1>5. Working'
  BY <1>0, <1>2, <1>3, TimesAssumption
     DEF Acknowledged, Working, Quiet, Answering, HostType, host
<1>6. PhaseInv'
  BY <1>0, <1>2, <1>5 DEF PhaseInv, Healthy, host
<1> QED
  BY <1>1, <1>4, <1>6

\* The card asks for time.
LEMMA StepCardAsks ==
    ASSUME IInv, CardAsks
    PROVE  IInv'
<1> USE BoundsAssumption DEF IInv, TypeOK, CardAsks, CardSends
<1>r. rate \in Rates /\ rate' = rate /\ bwt' = bwt /\ CardBwt' = CardBwt
  BY RateKept DEF host
<1> USE <1>r
<1>1. HostType' /\ faults' \in 0 .. MaxFaults /\ excused' \in BOOLEAN /\ TimingInv'
  BY DEF HostType, TimingInv, host
<1>2. CardType'
  BY DEF CardType
<1>3. CASE pc = "idle" /\ ret = "error"
  <2>1. PhaseInv'
    BY <1>3 DEF PhaseInv, host
  <2> QED
    BY <1>1, <1>2, <2>1
<1>4. CASE pc = "await_i" /\ ~excused /\ Working
  <2>1. PICK w \in Wtxs : toHost' = Append(toHost, SBlock("wtx_req", <<w>>))
    OBVIOUS
  <2>2. toHost' = <<SBlock("wtx_req", <<w>>)>>
    BY <1>4, <2>1 DEF Working, Quiet
  <2>3. TimeAsked'
    BY <1>4, <2>2 DEF TimeAsked, Working, Quiet, Answering, host
  <2>4. PhaseInv'
    BY <1>4, <2>3 DEF PhaseInv, Healthy, host
  <2> QED
    BY <1>1, <1>2, <2>4
<1> QED
  BY <1>3, <1>4, Busy

\* The card is granted time.
LEMMA StepCardTakesS ==
    ASSUME IInv, CardTakesS
    PROVE  IInv'
<1> USE BoundsAssumption DEF IInv, TypeOK, CardTakesS
<1>r. rate \in Rates /\ rate' = rate /\ bwt' = bwt /\ CardBwt' = CardBwt
  BY RateKept DEF host
<1> USE <1>r
<1>0. ~excused /\ pc \in {"await_r", "await_i"} /\ toHost = <<>> /\ card # "busy"
  BY OneWay
<1>1. HostType' /\ faults' \in 0 .. MaxFaults /\ excused' \in BOOLEAN /\ TimingInv'
  BY DEF HostType, TimingInv, host
<1>2. pc = "await_i" /\ TimeGranted
  BY <1>0 DEF PhaseInv, Healthy, Chaining, Taken, LastSent, Working, PartSent, TimeAsked,
         Acknowledged, Quiet, IBlock, RBlock
<1>3. wtx \in Nat /\ wtx >= 1 /\ grant' = wtx * CardBwt
  BY <1>2, TimesAssumption DEF TimeGranted, SBlock, HostType
<1>4. CardType'
  BY <1>3, Products DEF CardType
<1>5. grant' = IF wtx > 1 THEN wtx * CardBwt ELSE CardBwt
  BY <1>3, Products
<1>6. Working'
  BY <1>0, <1>2, <1>5 DEF TimeGranted, Working, Quiet, Answering, host
<1>7. PhaseInv'
  BY <1>0, <1>2, <1>6 DEF PhaseInv, Healthy, host
<1> QED
  BY <1>1, <1>4, <1>7

\* The card asks for what the driver does not implement.
LEMMA StepCardAsksMore ==
    ASSUME IInv, CardAsksMore
    PROVE  IInv'
<1> USE BoundsAssumption DEF IInv, TypeOK, CardAsksMore, CardSends
<1>r. rate \in Rates /\ rate' = rate /\ bwt' = bwt /\ CardBwt' = CardBwt
  BY RateKept DEF host
<1> USE <1>r
<1>0. ~excused /\ pc \in {"await_r", "await_i"} /\ toHost = <<>> /\ card # "busy"
  BY OneWay
<1>1. /\ HostType' /\ CardType' /\ faults' \in 0 .. MaxFaults /\ excused' \in BOOLEAN
      /\ TimingInv'
  BY DEF HostType, CardType, TimingInv, host, icc
<1>2. toCard.more => pc = "await_r"
  BY <1>0 DEF PhaseInv, Healthy, LastSent, Working, PartSent, TimeAsked, Acknowledged,
         TimeGranted, Quiet, IBlock, RBlock, SBlock
<1>3. \/ toHost' = <<SBlock("ifs_req", <<Ifsc>>)>>
      \/ toHost' = <<SBlock("wtx_req", <<1>>)>> /\ pc = "await_r"
  <2>1. CASE toHost' = Append(toHost, SBlock("ifs_req", <<Ifsc>>))
    BY <1>0, <2>1
  <2>2. CASE toCard.more /\ toHost' = Append(toHost, SBlock("wtx_req", <<1>>))
    BY <1>0, <1>2, <2>2
  <2> QED
    BY <2>1, <2>2
<1>4. Doomed'
  BY <1>0, <1>3 DEF Doomed, host, icc
<1>5. PhaseInv'
  BY <1>0, <1>4 DEF PhaseInv, host, icc
<1> QED
  BY <1>1, <1>5

\* Between two commands nothing is under way.
LEMMA InitInvariant == Init => IInv
<1> SUFFICES ASSUME Init PROVE IInv
  OBVIOUS
<1> USE BoundsAssumption DEF Init
<1>0. bwt \in 0 .. Width - 1 /\ CardBwt \in Nat /\ <<>> \in Seq(Bytes)
  BY TimeFacts
<1>1. HostType
  <2>1. more \in BOOLEAN
    OBVIOUS
  <2> QED
    BY <1>0, <2>1 DEF HostType
<1>2. CardType /\ faults \in 0 .. MaxFaults
  BY <1>0 DEF CardType
<1>4. excused \in BOOLEAN
  OBVIOUS
<1>3. TimingInv /\ PhaseInv
  BY DEF TimingInv, PhaseInv, Quiet, Synced, Flip
<1> QED
  BY <1>1, <1>2, <1>3, <1>4 DEF IInv, TypeOK

\* A step that changes nothing keeps IInv.
LEMMA StepStutter == IInv /\ UNCHANGED vars => IInv'
<1> SUFFICES ASSUME IInv, UNCHANGED vars PROVE IInv'
  OBVIOUS
<1> USE DEF IInv, vars, host, line, icc
<1>r. bwt' = bwt /\ CardBwt' = CardBwt
  BY RateKept
<1> USE <1>r
<1>1. TypeOK' /\ TimingInv'
  BY DEF TypeOK, HostType, CardType, TimingInv
<1>2. (Sending => Sending') /\ (Chaining => Chaining') /\ (LastSent => LastSent')
      /\ (Quiet => Quiet')
  BY DEF Sending, Chaining, LastSent, Quiet, AtHand, Taken
<1>3. Answering(<<>>) => Answering(<<>>)'
  BY DEF Answering
<1>4. /\ Working => Working'
      /\ Acknowledged => Acknowledged'
      /\ TimeAsked => TimeAsked'
      /\ TimeGranted => TimeGranted'
  BY <1>2, <1>3 DEF Working, Acknowledged, TimeAsked, TimeGranted
<1>5. PartSent => PartSent'
  BY DEF PartSent, Answering
<1>6. (Healthy => Healthy') /\ (Doomed => Doomed')
  BY <1>2, <1>3, <1>4, <1>5 DEF Healthy, Doomed
<1>7. PhaseInv'
  BY <1>2, <1>6 DEF PhaseInv, Synced
<1> QED
  BY <1>1, <1>7

\* Every step of the specification keeps IInv.
LEMMA NextInvariant == IInv /\ [Next]_vars => IInv'
<1> SUFFICES ASSUME IInv, [Next]_vars PROVE IInv'
  OBVIOUS
<1>1. CASE \E l \in CmdLens : Command(l)
  BY <1>1, StepCommand
<1>2. CASE Host
  BY <1>2, StepSendI, StepSendR, StepSendWtx, StepSendFails, StepAwaitR, StepAwaitI,
     StepTimeout, StepReceiveFails DEF Host
<1>3. CASE Reset \/ LoseToCard \/ LoseToHost
  BY <1>3, StepReset, StepLoseToCard, StepLoseToHost
<1>4. CASE Card
  BY <1>4, StepCardTakesI, StepCardAnswers, StepCardTakesR, StepCardAsks, StepCardTakesS,
     StepCardAsksMore DEF Card
<1>5. CASE UNCHANGED vars
  BY <1>5, StepStutter
<1> QED
  BY <1>1, <1>2, <1>3, <1>4, <1>5 DEF Next

\* IInv holds in every reachable state, for every value of the constants.
THEOREM Invariant == Spec => []IInv
  BY InitInvariant, NextInvariant, PTL DEF Spec

\* Every variable of the driver, the line and the card keeps its type.
THEOREM TypeCorrect == Spec => []TypeOK
<1>1. IInv => TypeOK
  BY DEF IInv
<1> QED
  BY <1>1, Invariant, PTL

\* A command leaves the block timeout as it found it, also when it fails after time
\* was granted to the card.
THEOREM TimingsAreRestored == Spec => []TimingsRestored
<1>1. IInv => TimingsRestored
  BY DEF IInv, TimingInv, TimingsRestored
<1> QED
  BY <1>1, Invariant, PTL

\* The driver gives up waiting only where something has happened, or on a card that
\* is within its time and has too much of it or too high a rate.
LEMMA TimeoutExcused ==
    ASSUME IInv, Timeout, ~excused'
    PROVE  Hasty
<1> USE DEF IInv, TypeOK, Timeout, Silence, Fail, Fault
<1>1. /\ ~excused /\ toHost = <<>> /\ pc \in {"await_r", "await_i"}
      /\ card \in {"wait", "chaining", "asked"} \/ timeout < grant
  OBVIOUS
<1>2. toCard = None
  BY DEF PhaseInv, Healthy, Doomed, Chaining, Taken, LastSent, Working, PartSent,
         Acknowledged, TimeAsked, TimeGranted, Quiet
<1>3. pc = "await_i" /\ Working
  <2>1. ~Chaining /\ ~PartSent /\ ~TimeAsked
    BY <1>1, <1>2, PhaseBlocks DEF PartSent, TimeAsked
  <2> QED
    BY <1>1, <1>2, <2>1, PhaseBlocks DEF PhaseInv, Healthy
<1>4. card = "busy" /\ timeout < grant
  BY <1>1, <1>3 DEF Working
<1>5. wtx \in Nat /\ rate \in Rates /\ rate \in Nat
  BY TimesAssumption DEF HostType
<1>6. ASSUME rate <= DefaultRate PROVE Cut
  <2>1. CASE wtx > 1
    <3>1. timeout = (wtx * bwt) % Width /\ grant = wtx * CardBwt
      BY <1>3, <2>1 DEF Working, TimingInv
    <3>2. /\ (wtx * bwt) % Width \in Nat /\ wtx * CardBwt \in Nat
          /\ wtx * Time(rate) \in Nat
      BY <1>5, Products
    <3>3. ~(wtx * Time(rate) < Width)
      BY <1>4, <1>5, <1>6, <2>1, <3>1, <3>2, Patience
    <3> QED
      BY <2>1, <3>2, <3>3, Shorts DEF Cut
  <2>2. CASE ~(wtx > 1)
    <3>1. timeout = bwt /\ grant = CardBwt
      BY <1>3, <2>2 DEF Working, TimingInv
    <3>2. /\ (1 * bwt) % Width = bwt /\ 1 * CardBwt = CardBwt
          /\ 1 * Time(rate) \in Nat
      BY <1>5, Products
    <3>3. ~(1 * Time(rate) < Width)
      BY <1>4, <1>5, <1>6, <3>1, <3>2, Patience, TimeFacts
    <3> QED
      BY <1>5, <2>2, <3>2, <3>3, Shorts DEF Cut
  <2> QED
    BY <2>1, <2>2
<1>7. rate > DefaultRate \/ rate <= DefaultRate
  BY <1>5 DEF DefaultRate
<1> QED
  BY <1>4, <1>6, <1>7 DEF Hasty

\* The same of every step.
LEMMA StepExcused ==
    ASSUME IInv, [Next]_vars, ret # "error", ret' = "error"
    PROVE  excused' \/ Hasty
<1>1. CASE \E l \in CmdLens : Command(l)
  BY <1>1 DEF Command
<1>2. CASE SendI \/ SendR \/ SendWtx
  BY <1>2 DEF SendI, SendR, SendWtx
<1>3. CASE SendFails \/ ReceiveFails
  BY <1>3 DEF SendFails, ReceiveFails, Fault
<1>4. CASE AwaitR
  <2>1. ~(Head(toHost).type = "R" /\ Head(toHost).error = "ok")
    BY <1>4 DEF AwaitR
  <2> QED
    BY <1>4, <2>1, RefusedR DEF AwaitR
<1>5. CASE AwaitI
  <2>1. LET b == Head(toHost) IN
          b.type # "I" /\ ~(b.type = "S" /\ b.kind = "wtx_req")
    BY <1>5 DEF AwaitI
  <2> QED
    BY <1>5, <2>1, RefusedI DEF AwaitI
<1>6. CASE Timeout
  BY <1>6, TimeoutExcused
<1>7. CASE Reset
  BY <1>7 DEF Reset
<1>8. CASE LoseToCard \/ LoseToHost \/ Card \/ UNCHANGED vars
  BY <1>8 DEF LoseToCard, LoseToHost, Card, CardTakesI, CardAnswers, CardTakesR,
              CardAsks, CardTakesS, CardAsksMore, vars, host
<1> QED
  BY <1>1, <1>2, <1>3, <1>4, <1>5, <1>6, <1>7, <1>8 DEF Next, Host

\* A command fails only for a reason outside the driver, or because the driver gives
\* up on a card within its time, and that only when a waiting time does not fit into
\* 16 bits or the card has agreed on a higher rate.
THEOREM FailuresAreExcused == Spec => FailuresExcused
<1>1. IInv /\ [Next]_vars => [ret # "error" /\ ret' = "error" => excused' \/ Hasty]_vars
  BY StepExcused
<1> QED
  BY <1>1, Invariant, PTL DEF Spec, FailuresExcused

-----------------------------------------------------------------------------
(* The refinement of CardExchange. *)

current == IF pc = "idle" THEN 0 ELSE cmd

\* A command issues the next number.
LEMMA RefinesIssue ==
    ASSUME IInv, NEW l \in CmdLens, Command(l)
    PROVE  Exchange!Issue
<1>1. current = 0 /\ cmd < MaxCommands /\ cmd' = cmd + 1 /\ current' = cmd'
  BY DEF Command, current
<1>2. Answered' = "none"
  BY DEF Command, Answered
<1>3. executed' = executed
  BY DEF Command, icc
<1> QED
  BY <1>1, <1>2, <1>3 DEF Exchange!Issue, current

\* A driver that gives up fails the command.
LEMMA RefinesFail ==
    ASSUME IInv, pc # "idle", Fail, UNCHANGED executed
    PROVE  Exchange!Fail
<1>1. current # 0 /\ current' = 0 /\ cmd' = cmd
  BY DEF IInv, TypeOK, HostType, PhaseInv, Fail, current
<1>2. Answered' = "error"
  BY DEF Fail, Answered
<1> QED
  BY <1>1, <1>2 DEF Exchange!Fail, current

\* A step that leaves the call and the card's work alone changes nothing there.
LEMMA RefinesNothing ==
    ASSUME ret # "ok", UNCHANGED <<cmd, ret, executed>>, pc = "idle" <=> pc' = "idle"
    PROVE  UNCHANGED Exchange!exchangeVars
<1>1. Answered' = Answered /\ current' = current
  BY DEF Answered, current
<1> QED
  BY <1>1 DEF Exchange!exchangeVars, current

\* The last part of the answer ends the command with its own answer.
LEMMA RefinesAwaitI ==
    ASSUME IInv, AwaitI
    PROVE  Exchange!ExchangeNext \/ UNCHANGED Exchange!exchangeVars
<1>1. CASE pc' = "idle" /\ ret' = "ok"
  <2>1. cmd' = cmd /\ executed' = executed /\ current' = 0 /\ pc = "await_i"
    BY <1>1 DEF AwaitI, icc, current, Fail
  <2>2. current # 0 /\ current = cmd
    BY <2>1 DEF IInv, TypeOK, HostType, PhaseInv, current
  <2>3. IInv'
    BY StepAwaitI
  <2>4. Answered' = "own"
    BY <1>1, <2>3 DEF IInv, PhaseInv, Answered
  <2>5. executed = cmd
    <3>0. Head(toHost).type = "I" /\ toHost # <<>>
      BY <1>1 DEF AwaitI, ReceiveBlock, Fail
    <3>1. ~excused
      BY <2>1, <3>0 DEF IInv, PhaseInv, Doomed, RBlock, SBlock
    <3>2. PartSent \/ TimeAsked
      BY <2>1, <3>1 DEF AwaitI, ReceiveBlock, IInv, PhaseInv, Healthy, LastSent, Working,
             Acknowledged, TimeGranted, Quiet
    <3> QED
      BY <3>2 DEF PartSent, TimeAsked, Answering
  <2>6. Exchange!Succeed
    BY <2>1, <2>2, <2>4, <2>5 DEF Exchange!Succeed, current
  <2> QED
    BY <2>6 DEF Exchange!ExchangeNext
<1>2. CASE Fail
  <2>1. pc # "idle" /\ UNCHANGED executed
    BY DEF AwaitI, icc
  <2> QED
    BY <1>2, <2>1, RefinesFail DEF Exchange!ExchangeNext
<1>3. CASE pc' # "idle"
  <2>1. UNCHANGED <<cmd, ret, executed>> /\ pc = "await_i"
    BY <1>3 DEF AwaitI, icc, Fail
  <2>2. ret # "ok"
    BY <2>1 DEF IInv, PhaseInv
  <2> QED
    BY <1>3, <2>1, <2>2, RefinesNothing
<1> QED
  BY <1>1, <1>2, <1>3 DEF AwaitI

\* What the driver does.
LEMMA RefinesHost ==
    ASSUME IInv, Host
    PROVE  Exchange!ExchangeNext \/ UNCHANGED Exchange!exchangeVars
<1>1. CASE SendI \/ SendR \/ SendWtx
  <2>1. UNCHANGED <<cmd, ret, executed>> /\ pc # "idle" /\ pc' # "idle"
    BY <1>1 DEF SendI, SendR, SendWtx, icc
  <2>2. ret # "ok"
    BY <2>1 DEF IInv, PhaseInv
  <2> QED
    BY <2>1, <2>2, RefinesNothing
<1>2. CASE SendFails \/ Timeout \/ ReceiveFails
  <2>1. pc # "idle" /\ Fail /\ UNCHANGED executed
    BY <1>2 DEF SendFails, Timeout, Silence, ReceiveFails, icc
  <2> QED
    BY <2>1, RefinesFail DEF Exchange!ExchangeNext
<1>3. CASE AwaitR
  <2>1. pc # "idle" /\ UNCHANGED executed
    BY <1>3 DEF AwaitR, icc
  <2>2. CASE Fail
    BY <2>1, <2>2, RefinesFail DEF Exchange!ExchangeNext
  <2>3. CASE ~Fail
    <3>1. UNCHANGED <<cmd, ret>> /\ pc' # "idle"
      BY <1>3, <2>3 DEF AwaitR
    <3>2. ret # "ok"
      BY <2>1 DEF IInv, PhaseInv
    <3> QED
      BY <2>1, <3>1, <3>2, RefinesNothing
  <2> QED
    BY <2>2, <2>3
<1>4. CASE AwaitI
  BY <1>4, RefinesAwaitI
<1> QED
  BY <1>1, <1>2, <1>3, <1>4 DEF Host

\* What the line and the card do: only the last block of a command is carried out.
LEMMA RefinesOthers ==
    ASSUME IInv, Reset \/ LoseToCard \/ LoseToHost \/ Card
    PROVE  Exchange!ExchangeNext \/ UNCHANGED Exchange!exchangeVars
<1>1. CASE Reset
  <2>1. current = 0 /\ current' = 0 /\ UNCHANGED <<cmd, executed>>
    BY <1>1 DEF Reset, current
  <2>2. Answered' = "none"
    BY <1>1 DEF Reset, Answered
  <2>3. Exchange!Forget
    BY <2>1, <2>2 DEF Exchange!Forget, current
  <2> QED
    BY <2>3 DEF Exchange!ExchangeNext
<1>2. CASE UNCHANGED <<host, executed>>
  <2>1. Answered' = Answered /\ current' = current /\ UNCHANGED <<cmd, executed>>
    BY <1>2 DEF Answered, current, host
  <2> QED
    BY <2>1 DEF Exchange!exchangeVars, current
<1>3. CASE CardTakesI /\ executed' # executed
  <2>1. executed < cmd /\ executed' = cmd /\ pc # "idle"
    BY <1>3, StepCardTakesI
  <2>2. Answered' = Answered /\ current' = current /\ current = cmd /\ UNCHANGED cmd
    BY <1>3, <2>1 DEF CardTakesI, Answered, current, host
  <2>3. current # 0
    BY <2>1, <2>2 DEF IInv, PhaseInv
  <2>4. Exchange!Execute
    BY <2>1, <2>2, <2>3 DEF Exchange!Execute, current
  <2> QED
    BY <2>4 DEF Exchange!ExchangeNext
<1>4. ASSUME ~Reset, ~(CardTakesI /\ executed' # executed)
      PROVE  UNCHANGED <<host, executed>>
  BY <1>4 DEF LoseToCard, LoseToHost, Card, CardTakesI, CardAnswers, CardTakesR, CardAsks,
         CardTakesS, CardAsksMore, icc
<1> QED
  BY <1>1, <1>2, <1>3, <1>4

\* Protocol_T1_Command keeps the promise of CardExchange: whatever is chained, lost or
\* late, a command that succeeds has been carried out once, with every byte in its
\* place, and has got its own answer.
THEOREM Refinement == Spec => ImplementsExchange
<1>1. Init => Exchange!ExchangeInit
  BY DEF Init, Exchange!ExchangeInit, Answered
<1>2. IInv /\ [Next]_vars => [Exchange!ExchangeNext]_Exchange!exchangeVars
  <2> SUFFICES ASSUME IInv, [Next]_vars
               PROVE  Exchange!ExchangeNext \/ UNCHANGED Exchange!exchangeVars
    OBVIOUS
  <2>1. CASE \E l \in CmdLens : Command(l)
    BY <2>1, RefinesIssue DEF Exchange!ExchangeNext
  <2>2. CASE UNCHANGED vars
    <3>1. Answered' = Answered /\ current' = current /\ UNCHANGED <<cmd, executed>>
      BY <2>2 DEF Answered, current, vars, host, icc
    <3> QED
      BY <3>1 DEF Exchange!exchangeVars, current
  <2> QED
    BY <2>1, <2>2, RefinesHost, RefinesOthers DEF Next
<1> QED
  BY <1>1, <1>2, Invariant, PTL DEF Spec, ImplementsExchange, Exchange!ExchangeSpec

=============================================================================
