------------------------- MODULE DataSectionProofs -------------------------
(***************************************************************************)
(* Proofs about module DataSection, for every directory address, every     *)
(* alphabet and every length of cards and identifiers.                     *)
(***************************************************************************)
EXTENDS DataSection, TLAPS, WellFoundedInduction

\* What a card holds are bytes.
LEMMA BytesOnCard ==
  ASSUME TypeOK
  PROVE  /\ N \in Nat
         /\ \A a \in 0 .. N - 1 : Byte(a) \in 0 .. 255
<1>1. mem \in Seq(0 .. 255)
  BY CardsAssumption DEF TypeOK, mem
<1> DEFINE B == 0 .. 255
<1>2. mem \in Seq(B)
  BY <1>1
<1> HIDE DEF B
<1>3. N \in Nat /\ \A a \in 0 .. N - 1 : Byte(a) \in B
  BY <1>2 DEF N, Byte
<1> QED
  BY <1>3 DEF B

\* A two byte number.
LEMMA TwoBytes == \A x, y \in 0 .. 255 : x \in Nat /\ x * 256 + y \in Nat
OBVIOUS

\* The last part of TLV_Object_New: an object whose value begins in the card is
\* cut to end there too.
LEMMA ObjectFacts ==
  ASSUME N \in Nat, NEW tag \in Nat, NEW a \in Nat, NEW value \in Nat, a + 2 <= value,
         NEW n \in Nat
  PROVE  /\ Object(tag, a, value, n) \in Objects \union {Null}
         /\ Object(tag, a, value, n) # Null => Object(tag, a, value, n).address = a
<1>1. CASE value >= N
  BY <1>1 DEF Object
<1>2. CASE ~(value >= N)
  <2> DEFINE o == [tag |-> tag, address |-> a, value |-> value, length |-> Least(n, N - value)]
  <2>1. Object(tag, a, value, n) = o
    BY <1>2 DEF Object
  <2>2. Least(n, N - value) \in Nat /\ value + Least(n, N - value) <= N
    BY <1>2 DEF Least
  <2>3. o \in Objects
    BY <1>2, <2>2 DEF Objects, End
  <2> QED
    BY <2>1, <2>3
<1> QED
  BY <1>1, <1>2

\* The same from the length field on, in each of its three forms.
LEMMA LengthFacts ==
  ASSUME TypeOK, NEW tag \in Nat, NEW a \in Nat, NEW l \in Nat, a + 1 <= l
  PROVE  /\ WithLength(tag, a, l) \in Objects \union {Null}
         /\ WithLength(tag, a, l) # Null => WithLength(tag, a, l).address = a
<1>1. CASE l >= N
  BY <1>1 DEF WithLength
<1>2. CASE ~(l >= N) /\ Byte(l) < 128
  <2>1. WithLength(tag, a, l) = Object(tag, a, l + 1, Byte(l))
    BY <1>2 DEF WithLength
  <2>2. N \in Nat /\ l + 1 \in Nat /\ a + 2 <= l + 1 /\ Byte(l) \in Nat
    BY <1>2, BytesOnCard
  <2> QED
    BY <2>1, <2>2, ObjectFacts
<1>3. CASE ~(l >= N) /\ ~(Byte(l) < 128) /\ Byte(l) = 129 /\ l + 1 < N
  <2>1. WithLength(tag, a, l) = Object(tag, a, l + 2, Byte(l + 1))
    BY <1>3 DEF WithLength
  <2>2. N \in Nat /\ l + 2 \in Nat /\ a + 2 <= l + 2 /\ Byte(l + 1) \in Nat
    BY <1>3, BytesOnCard
  <2> QED
    BY <2>1, <2>2, ObjectFacts
<1>4. CASE ~(l >= N) /\ ~(Byte(l) < 128) /\ Byte(l) = 130 /\ l + 2 < N
  <2>1. WithLength(tag, a, l) = Object(tag, a, l + 3, Byte(l + 1) * 256 + Byte(l + 2))
    BY <1>4 DEF WithLength
  <2>2. N \in Nat /\ l + 3 \in Nat /\ a + 2 <= l + 3
    BY <1>4, BytesOnCard
  <2>3. Byte(l + 1) \in 0 .. 255 /\ Byte(l + 2) \in 0 .. 255
    BY <1>4, BytesOnCard
  <2>4. Byte(l + 1) * 256 + Byte(l + 2) \in Nat
    BY <2>3, TwoBytes
  <2> QED
    BY <2>1, <2>2, <2>4, ObjectFacts
<1> QED
  BY <1>1, <1>2, <1>3, <1>4 DEF WithLength

\* TLV_Object_New returns NULL or an object that lies in the card, whatever the
\* bytes at the address are.
LEMMA NewFacts ==
  ASSUME TypeOK, NEW a \in Nat
  PROVE  /\ TLV_Object_New(a) \in Objects \union {Null}
         /\ TLV_Object_New(a) # Null => TLV_Object_New(a).address = a
<1>1. CASE a >= N
  BY <1>1 DEF TLV_Object_New
<1>2. CASE ~(a >= N) /\ Byte(a) % 32 # 31
  <2>1. TLV_Object_New(a) = WithLength(Byte(a), a, a + 1)
    BY <1>2 DEF TLV_Object_New
  <2>2. Byte(a) \in Nat
    BY <1>2, BytesOnCard
  <2> QED
    BY <2>1, <2>2, LengthFacts
<1>3. CASE ~(a >= N) /\ ~(Byte(a) % 32 # 31) /\ ~(a + 1 >= N)
  <2>1. TLV_Object_New(a) = WithLength(Byte(a) * 256 + Byte(a + 1), a, a + 2)
    BY <1>3 DEF TLV_Object_New
  <2>2. Byte(a) \in 0 .. 255 /\ Byte(a + 1) \in 0 .. 255
    BY <1>3, BytesOnCard
  <2>3. Byte(a) * 256 + Byte(a + 1) \in Nat
    BY <2>2, TwoBytes
  <2> QED
    BY <2>1, <2>3, LengthFacts
<1> QED
  BY <1>1, <1>2, <1>3 DEF TLV_Object_New

\* An object ends in the card, behind its address; NULL is none.
LEMMA EndFacts ==
  ASSUME TypeOK, NEW o \in Objects
  PROVE  /\ o # Null
         /\ End(o) \in Nat /\ End(o) <= N /\ o.address + 2 <= End(o)
         /\ o.address \in Nat /\ o.value \in Nat /\ o.length \in Nat
         /\ o.value < N
BY BytesOnCard DEF Objects, End, Null

\* A set of addresses has a greatest one: induction from the end of the card.
LEMMA Greatest ==
  ASSUME NEW n \in Nat, NEW S \in SUBSET (0 .. n), S # {}
  PROVE  \E a \in S : \A b \in S : b <= a
<1> DEFINE T == {n - a : a \in S}
<1>1. T \subseteq Nat /\ T # {}
  <2>1. \A a \in S : n - a \in Nat
    OBVIOUS
  <2> QED
    BY <2>1
<1>2. PICK x \in T : \A y \in T : ~(<<y, x>> \in OpToRel(<, Nat))
  <2> HIDE DEF T
  <2> QED
    BY <1>1, NatLessThanWellFounded, WFMin
<1>3. \A y \in T : ~(y < x)
  BY <1>1, <1>2 DEF OpToRel
<1>4. PICK a \in S : x = n - a
  OBVIOUS
<1>5. \A b \in S : b <= a
  BY <1>3, <1>4
<1> QED
  BY <1>5

\* f is the recursive function that goes to next until it may stop.
Follows(f, n, stop, val, next) ==
  f = [a \in 0 .. n |-> IF stop[a] THEN val[a] ELSE f[next[a]]]
Advances(n, stop, next) == \A a \in 0 .. n : ~stop[a] => next[a] \in a + 1 .. n

\* A recursive function on addresses whose every step goes forward exists, and
\* has only the values at which it stops.
LEMMA Forward ==
  ASSUME NEW n \in Nat, NEW R,
         NEW stop \in [0 .. n -> BOOLEAN], NEW val \in [0 .. n -> R], NEW next,
         Advances(n, stop, next)
  PROVE  /\ \E f : Follows(f, n, stop, val, next)
         /\ \A f : Follows(f, n, stop, val, next) => f \in [0 .. n -> R]
<1> USE DEF Advances
<1> DEFINE Fixed(f, k) == \A a \in k .. n : f[a] = IF stop[a] THEN val[a] ELSE f[next[a]]
           P(k) == \E f \in [k .. n -> R] : Fixed(f, k)
           Bad == {k \in 0 .. n : ~P(k)}
<1>1. Bad = {}
  <2>1. SUFFICES ASSUME Bad # {} PROVE FALSE
    OBVIOUS
  <2>2. PICK k \in Bad : \A b \in Bad : b <= k
    <3>1. Bad \in SUBSET (0 .. n)
      OBVIOUS
    <3> HIDE DEF Bad
    <3> QED
      BY <2>1, <3>1, Greatest
  <2>3. k \in 0 .. n /\ ~P(k)
    OBVIOUS
  <2>4. CASE k = n
    <3>1. stop[n]
      OBVIOUS
    <3> DEFINE g == [a \in k .. n |-> val[n]]
    <3>2. g \in [k .. n -> R] /\ Fixed(g, k)
      BY <2>4, <3>1
    <3> QED
      BY <2>3, <3>2
  <2>5. CASE k # n
    <3>1. k + 1 \in 0 .. n /\ k + 1 \notin Bad
      <4>1. k + 1 \in 0 .. n /\ ~(k + 1 <= k)
        BY <2>3, <2>5
      <4> HIDE DEF Bad
      <4> QED
        BY <2>2, <4>1
    <3>2. PICK f \in [k + 1 .. n -> R] : Fixed(f, k + 1)
      BY <3>1
    <3> DEFINE c == IF stop[k] THEN val[k] ELSE f[next[k]]
               g == [a \in k .. n |-> IF a = k THEN c ELSE f[a]]
    <3>3. c \in R
      BY <2>3
    <3>4. g \in [k .. n -> R]
      <4> HIDE DEF c
      <4> QED
        BY <2>3, <3>3
    <3>5. ASSUME NEW a \in k .. n PROVE g[a] = IF stop[a] THEN val[a] ELSE g[next[a]]
      <4>1. a \in 0 .. n
        BY <2>3
      <4>2. CASE a = k
        <5>1. g[a] = c
          BY <4>2
        <5>2. ~stop[k] => g[next[k]] = f[next[k]]
          BY <2>3
        <5> QED
          BY <4>2, <5>1, <5>2
      <4>3. CASE a # k
        <5>1. a \in k + 1 .. n
          BY <2>3, <4>3
        <5>2. g[a] = f[a] /\ f[a] = IF stop[a] THEN val[a] ELSE f[next[a]]
          BY <3>2, <4>3, <5>1
        <5>3. ~stop[a] => g[next[a]] = f[next[a]]
          BY <2>3, <4>1, <5>1
        <5> QED
          BY <5>2, <5>3
      <4> QED
        BY <4>2, <4>3
    <3>6. Fixed(g, k)
      <4> HIDE DEF g
      <4> QED
        BY <3>5
    <3> HIDE DEF g
    <3> QED
      BY <2>3, <3>4, <3>6
  <2> QED
    BY <2>4, <2>5
<1>2. \E f : f = [a \in 0 .. n |-> IF stop[a] THEN val[a] ELSE f[next[a]]]
  <2>1. P(0)
    <3> HIDE DEF P
    <3>1. 0 \in 0 .. n /\ 0 \notin Bad
      BY <1>1
    <3> QED
      BY <3>1
  <2>2. PICK f \in [0 .. n -> R] : Fixed(f, 0)
    BY <2>1
  <2>3. f = [a \in 0 .. n |-> IF stop[a] THEN val[a] ELSE f[next[a]]]
    BY <2>2
  <2> QED
    BY <2>3
<1>3. ASSUME NEW f, f = [a \in 0 .. n |-> IF stop[a] THEN val[a] ELSE f[next[a]]]
      PROVE  f \in [0 .. n -> R]
  <2> DEFINE Off == {a \in 0 .. n : f[a] \notin R}
  <2>1. \A a \in 0 .. n : f[a] = IF stop[a] THEN val[a] ELSE f[next[a]]
    BY <1>3
  <2>2. Off = {}
    <3>1. SUFFICES ASSUME Off # {} PROVE FALSE
      OBVIOUS
    <3>2. PICK a \in Off : \A b \in Off : b <= a
      <4>1. Off \in SUBSET (0 .. n)
        OBVIOUS
      <4> HIDE DEF Off
      <4> QED
        BY <3>1, <4>1, Greatest
    <3>3. a \in 0 .. n /\ f[a] \notin R
      OBVIOUS
    <3>4. ~stop[a] /\ next[a] \in a + 1 .. n /\ f[a] = f[next[a]]
      BY <2>1, <3>3
    <3>5. next[a] \in Off
      BY <3>3, <3>4
    <3>6. ~(next[a] <= a)
      BY <3>3, <3>4
    <3> HIDE DEF Off
    <3> QED
      BY <3>2, <3>5, <3>6
  <2>3. \A a \in 0 .. n : f[a] \in R
    BY <2>2
  <2>4. f = [a \in 0 .. n |-> f[a]]
    BY <1>3
  <2> QED
    BY <2>3, <2>4
<1> QED
  BY <1>2, <1>3 DEF Follows

\* The loop of TLV_Object_GetObjectByTag ends and returns NULL or an object in
\* the card: every turn moves the address forward, so the function that the
\* definition describes exists, and all its values are objects of the card.
LEMMA SearchFacts ==
  ASSUME TypeOK, NEW parent \in Objects, NEW tag
  PROVE  TLV_Object_GetObjectByTag(parent, tag) \in Objects \union {Null}
<1> DEFINE Body(f, a) ==
             LET o == TLV_Object_New(a)
             IN IF o = Null \/ o.tag = tag THEN o
                ELSE IF End(o) < End(parent) THEN f[End(o)] ELSE Null
           Loop == CHOOSE f : f = [a \in 0 .. N |-> Body(f, a)]
<1>1. TLV_Object_GetObjectByTag(parent, tag) = Loop[parent.value]
  BY DEF TLV_Object_GetObjectByTag
<1> DEFINE New(a) == TLV_Object_New(a)
           Hit(a) == New(a) = Null \/ New(a).tag = tag
           stop == [a \in 0 .. N |-> Hit(a) \/ ~(End(New(a)) < End(parent))]
           val == [a \in 0 .. N |-> IF Hit(a) THEN New(a) ELSE Null]
           next == [a \in 0 .. N |-> End(New(a))]
           R == Objects \union {Null}
<1>2. N \in Nat
  BY BytesOnCard
<1>3. \A a \in 0 .. N : New(a) \in R /\ (New(a) # Null => New(a).address = a)
  BY <1>2, NewFacts
<1>4. stop \in [0 .. N -> BOOLEAN] /\ val \in [0 .. N -> R]
  BY <1>3
<1>5. Advances(N, stop, next)
  <2> SUFFICES ASSUME NEW a \in 0 .. N, ~stop[a] PROVE next[a] \in a + 1 .. N
    BY DEF Advances
  <2>1. New(a) \in Objects /\ New(a).address = a
    BY <1>3
  <2>2. End(New(a)) \in a + 1 .. N
    BY <1>2, <2>1, EndFacts
  <2> QED
    BY <2>2
<1>6. \A f, a : a \in 0 .. N => Body(f, a) = IF stop[a] THEN val[a] ELSE f[next[a]]
  OBVIOUS
<1>7. \A f : [a \in 0 .. N |-> Body(f, a)]
               = [a \in 0 .. N |-> IF stop[a] THEN val[a] ELSE f[next[a]]]
  <2> HIDE DEF Body, stop, val, next
  <2> QED
    BY <1>6
<1> HIDE DEF Body, stop, val, next, R
<1>8. /\ \E f : Follows(f, N, stop, val, next)
      /\ \A f : Follows(f, N, stop, val, next) => f \in [0 .. N -> R]
  BY <1>2, <1>4, <1>5, Forward
<1>9. Loop = [a \in 0 .. N |-> Body(Loop, a)]
  <2>1. PICK f : Follows(f, N, stop, val, next)
    BY <1>8
  <2>2. f = [a \in 0 .. N |-> Body(f, a)]
    BY <1>7, <2>1 DEF Follows
  <2> QED
    BY <2>2
<1>10. Loop \in [0 .. N -> R]
  <2> HIDE DEF Loop
  <2>1. Follows(Loop, N, stop, val, next)
    BY <1>7, <1>9 DEF Follows
  <2> QED
    BY <1>8, <2>1
<1>11. parent.value \in 0 .. N
  BY <1>2, EndFacts
<1> QED
  BY <1>1, <1>10, <1>11 DEF R

-----------------------------------------------------------------------------
(* Steps. *)

\* What a step may select: nothing new, or an object of the card.
LEMMA FoundFacts ==
  ASSUME IInv, card' = card, NEW o \in Objects \union {Null}, Found(o)
  PROVE  path' \in Nat /\ length' \in Nat /\ sw' \in {"none", "9000", "6A82"} /\ FileInCard'
<1>1. CASE o = Null
  BY <1>1 DEF IInv, TypeOK, FileInCard, Found, NotFound, N, mem
<1>2. CASE o \in Objects
  <2>1. path' = o.address /\ length' = End(o) - o.address /\ sw' = "9000"
    BY <1>2, EndFacts DEF IInv, Found, RawLengthOf
  <2>2. N' = N
    BY DEF N, mem
  <2> QED
    BY <1>2, <2>1, <2>2, EndFacts DEF IInv, FileInCard
<1> QED
  BY <1>1, <1>2

\* The same for a file that is not found.
LEMMA NotFoundFacts ==
  ASSUME IInv, card' = card, UNCHANGED <<path, length>>
  PROVE  path' \in Nat /\ length' \in Nat /\ FileInCard'
BY DEF IInv, TypeOK, FileInCard, N, mem

\* The function returns: nothing is left of the search.
LEMMA ReturnFacts ==
  ASSUME IInv, Return, UNCHANGED <<card, atrOk>>, unread' \in BOOLEAN,
         path' \in Nat /\ length' \in Nat /\ sw' \in {"none", "9000", "6A82"} /\ FileInCard'
  PROVE  IInv'
<1>1. TypeOK'
  BY DEF IInv, TypeOK, Return
<1>2. Opened' /\ SearchEnds'
  BY DEF Return, Opened, SearchEnds
<1> QED
  BY <1>1, <1>2 DEF IInv

\* SELECT FILE by file identifier.
LEMMA StepFid ==
  ASSUME IInv, NEW fid, SelectFid(fid)
  PROVE  IInv'
<1>1. UNCHANGED <<card, atrOk, search, pc, turns>>
  BY DEF SelectFid
<1>2. N' = N /\ N \in Nat /\ DirRef \in Nat
  BY <1>1, BytesOnCard, DirRefAssumption DEF IInv, N, mem
<1>3. /\ path' \in Nat /\ length' \in Nat /\ sw' \in {"none", "9000", "6A82"}
      /\ FileInCard' /\ unread' \in BOOLEAN
  <2>1. CASE path' = 0 /\ length' = N /\ sw' = "9000" /\ unread' = FALSE
    <3>1. unread' \in BOOLEAN
      BY <2>1
    <3>2. path' = 0 /\ length' = N /\ sw' = "9000"
      BY <2>1
    <3> QED
      BY <1>2, <3>1, <3>2 DEF FileInCard
  <2>2. CASE /\ DirRef > 4 /\ N > 4
             /\ path' = 4 /\ length' = Least(DirRef, N) - 4 /\ sw' = "9000" /\ unread' = FALSE
    <3>1. unread' \in BOOLEAN
      BY <2>2
    <3>2. DirRef > 4 /\ N > 4 /\ path' = 4 /\ length' = Least(DirRef, N) - 4 /\ sw' = "9000"
      BY <2>2
    <3> QED
      BY <1>2, <3>1, <3>2 DEF FileInCard, Least
  <2>3. CASE NotFound /\ unread' \in BOOLEAN
    BY <1>1, <2>3, NotFoundFacts DEF NotFound
  <2>4. ASSUME NEW o \in Readable(TLV_Object_New(DirRef)), Found(o), unread' = (o = Null)
        PROVE  /\ path' \in Nat /\ length' \in Nat /\ sw' \in {"none", "9000", "6A82"}
               /\ FileInCard' /\ unread' \in BOOLEAN
    <3>1. o \in Objects \union {Null}
      BY <1>2, NewFacts DEF Readable, IInv
    <3> QED
      BY <1>1, <2>4, <3>1, FoundFacts
  <2> QED
    BY <2>1, <2>2, <2>3, <2>4 DEF SelectFid
<1>4. TypeOK'
  BY <1>1, <1>3 DEF IInv, TypeOK, search, Objects, N, mem
<1>5. Opened' /\ SearchEnds'
  BY <1>1 DEF IInv, Opened, SearchEnds, search, End
<1> QED
  BY <1>3, <1>4, <1>5 DEF IInv

\* SELECT FILE by application identifier: the directory.
LEMMA StepAid ==
  ASSUME IInv, NEW aid \in Aid, SelectAid(aid)
  PROVE  IInv'
<1>1. PICK o \in Readable(TLV_Object_New(DirRef)) :
       /\ unread' = (o = Null)
       /\ IF atrOk /\ o.tag \in {APPLICATION_ID, TEMPLATE, SEQUENCE}
          THEN /\ pc' = IF o.tag = SEQUENCE THEN "iterate" ELSE "mono"
               /\ want' = aid /\ aid_length' = Len(aid)
               /\ path_length' \in 0 .. 3
               /\ tlv_dir' = o /\ tlv_template' = Null
               /\ sw' = "none" /\ UNCHANGED <<path, length, turns>>
          ELSE Return /\ NotFound
  BY DEF SelectAid
<1>2. pc = "idle" /\ UNCHANGED <<card, atrOk>>
  BY DEF SelectAid
<1>3. o \in Objects \union {Null}
  BY NewFacts, DirRefAssumption DEF Readable, IInv
<1>4. Objects' = Objects
  BY <1>2 DEF Objects, End, N, mem
<1>5. CASE atrOk /\ o.tag \in {APPLICATION_ID, TEMPLATE, SEQUENCE}
  <2>1. o \in Objects
    BY <1>3, <1>5 DEF Null, APPLICATION_ID, TEMPLATE, SEQUENCE
  <2>2. Len(aid) \in Nat
    BY BoundAssumption DEF Aid
  <2>3. path' \in Nat /\ length' \in Nat /\ FileInCard'
    BY <1>1, <1>2, <1>5, NotFoundFacts
  <2>4. unread' \in BOOLEAN
    BY <1>1
  <2>5. /\ pc' \in {"mono", "iterate"} /\ want' \in Aid /\ aid_length' \in Nat
        /\ path_length' \in 0 .. 3 /\ tlv_dir' \in Objects /\ tlv_template' = Null
        /\ sw' = "none" /\ turns' = turns
    BY <1>1, <1>5, <2>1, <2>2
  <2>6. TypeOK'
    BY <1>2, <1>4, <2>3, <2>4, <2>5 DEF IInv, TypeOK
  <2>7. turns = 0 /\ turns' = 0
    BY <1>2, <2>5 DEF IInv, TypeOK, Opened
  <2>8. tlv_dir' # Null
    BY <1>1, <1>5, <2>1, EndFacts DEF IInv
  <2>9. Opened' /\ SearchEnds'
    BY <2>5, <2>7, <2>8 DEF Opened, SearchEnds
  <2> QED
    BY <2>3, <2>6, <2>9 DEF IInv
<1>6. CASE ~(atrOk /\ o.tag \in {APPLICATION_ID, TEMPLATE, SEQUENCE})
  <2>1. Return /\ NotFound /\ unread' \in BOOLEAN
    BY <1>1, <1>6
  <2>2. path' \in Nat /\ length' \in Nat /\ sw' \in {"none", "9000", "6A82"} /\ FileInCard'
    BY <1>2, <2>1, NotFoundFacts DEF NotFound
  <2> QED
    BY <1>2, <2>1, <2>2, ReturnFacts
<1> QED
  BY <1>5, <1>6

\* One application: the object behind the directory is selected.
LEMMA StepMono ==
  ASSUME IInv, SelectMono
  PROVE  IInv'
<1>1. PICK app \in Readable(TLV_Object_Shift(tlv_dir)) :
        unread' \in BOOLEAN /\ (Found(app) \/ NotFound)
  BY DEF SelectMono
<1>2. pc = "mono" /\ Return /\ UNCHANGED <<card, atrOk>>
  BY DEF SelectMono
<1>3. tlv_dir \in Objects
  BY <1>2 DEF IInv, Opened, TypeOK
<1>4. app \in Objects \union {Null}
  BY <1>3, EndFacts, NewFacts DEF IInv, Readable, TLV_Object_Shift
<1>5. path' \in Nat /\ length' \in Nat /\ sw' \in {"none", "9000", "6A82"} /\ FileInCard'
  BY <1>1, <1>2, <1>4, FoundFacts, NotFoundFacts DEF NotFound
<1> QED
  BY <1>1, <1>2, <1>5, ReturnFacts

\* Where a path leads there is nothing or an object of the card, however much of
\* the path is read.
LEMMA DestinationFacts ==
  ASSUME IInv, NEW p \in Objects, NEW app \in UNION {Readable(x) : x \in Destinations(p)}
  PROVE  app \in Objects \union {Null}
<1> DEFINE n == Least(path_length, p.length)
<1>1. n \in Nat /\ n <= p.length
  BY EndFacts DEF IInv, TypeOK, Least
<1>2. p.value \in Nat /\ p.length \in Nat /\ p.value + p.length <= N /\ N \in Nat
  BY EndFacts, BytesOnCard DEF IInv, End
<1>3. PICK x \in Destinations(p) : app \in {x, Null}
  BY DEF Readable
<1>4. \E a \in Nat : x = TLV_Object_New(a)
  <2> HIDE DEF n
  <2>1. CASE n = 0
    BY <1>2, <1>3, <2>1 DEF Destinations, n
  <2>2. CASE n = 1
    <3>1. Byte(p.value) \in Nat
      BY <1>1, <1>2, <2>2, BytesOnCard DEF IInv
    <3> QED
      BY <1>3, <2>2, <3>1 DEF Destinations, n
  <2>3. CASE n # 0 /\ n # 1
    <3>1. p.value + n - 2 \in 0 .. N - 1 /\ p.value + n - 1 \in 0 .. N - 1
      BY <1>1, <1>2, <2>3
    <3>2. Byte(p.value + n - 2) \in 0 .. 255 /\ Byte(p.value + n - 1) \in 0 .. 255
      BY <3>1, BytesOnCard DEF IInv
    <3>3. Byte(p.value + n - 2) * 256 + Byte(p.value + n - 1) \in Nat
      BY <3>2, TwoBytes
    <3> QED
      BY <1>3, <2>3, <3>3 DEF Destinations, n
  <2> QED
    BY <2>1, <2>2, <2>3
<1> QED
  BY <1>3, <1>4, NewFacts DEF IInv

\* One template of a sequence. The iterator moves forward by a header at least.
LEMMA StepIterate ==
  ASSUME IInv, SelectIterate
  PROVE  IInv'
<1>1. pc = "iterate" /\ UNCHANGED <<card, atrOk>>
  BY DEF SelectIterate
<1>2. tlv_dir \in Objects
  BY <1>1 DEF IInv, Opened, TypeOK
<1>3. PICK t \in Readable(TLV_Object_Iterate(tlv_dir, tlv_template)) :
       \/ /\ t = Null
          /\ Return /\ NotFound
          /\ unread' = (unread \/ TLV_Object_Iterate(tlv_dir, tlv_template) # Null)
       \/ /\ t # Null
          /\ \E o \in Readable(TLV_Object_GetObjectByTag(t, APPLICATION_ID)),
                p \in Readable(TLV_Object_GetObjectByTag(t, PATH)) : Turn(t, o, p)
  BY DEF SelectIterate
<1>4. CASE t = Null
  <2>1. Return /\ NotFound /\ unread' \in BOOLEAN
    BY <1>3, <1>4
  <2>2. path' \in Nat /\ length' \in Nat /\ sw' \in {"none", "9000", "6A82"} /\ FileInCard'
    BY <1>1, <2>1, NotFoundFacts DEF NotFound
  <2> QED
    BY <1>1, <2>1, <2>2, ReturnFacts
<1>5. CASE t # Null
  <2>1. PICK o \in Readable(TLV_Object_GetObjectByTag(t, APPLICATION_ID)),
             p \in Readable(TLV_Object_GetObjectByTag(t, PATH)) : Turn(t, o, p)
    BY <1>3, <1>5
  <2>2. t \in Objects /\ 2 * (turns + 1) <= End(t) - tlv_dir.value
    <3>1. CASE tlv_template = Null
      <4>1. t = TLV_Object_New(tlv_dir.value)
        BY <1>3, <1>5, <3>1 DEF Readable, TLV_Object_Iterate
      <4>2. t \in Objects /\ t.address = tlv_dir.value
        BY <1>2, <1>5, <4>1, EndFacts, NewFacts DEF IInv
      <4>3. turns = 0
        BY <3>1 DEF IInv, TypeOK, Opened
      <4>4. tlv_dir.value \in Nat /\ End(t) \in Nat /\ t.address + 2 <= End(t)
        BY <1>2, <4>2, EndFacts DEF IInv
      <4> QED
        BY <4>2, <4>3, <4>4
    <3>2. CASE tlv_template # Null
      <4>1. t = TLV_Object_New(End(tlv_template))
        BY <1>3, <1>5, <3>2 DEF Readable, TLV_Object_Iterate, TLV_Object_Shift
      <4>2. tlv_template \in Objects /\ turns > 0
        BY <3>2 DEF IInv, TypeOK, Opened
      <4>3. t \in Objects /\ t.address = End(tlv_template)
        BY <1>5, <4>1, <4>2, EndFacts, NewFacts DEF IInv
      <4>4. 2 * turns <= End(tlv_template) - tlv_dir.value
        BY <4>2 DEF IInv, SearchEnds
      <4>5. /\ tlv_dir.value \in Nat /\ End(t) \in Nat /\ t.address + 2 <= End(t)
            /\ End(tlv_template) \in Nat /\ turns \in Nat
        BY <1>2, <4>2, <4>3, EndFacts DEF IInv, TypeOK
      <4> QED
        BY <4>3, <4>4, <4>5
    <3> QED
      BY <3>1, <3>2
  <2>3. o \in Objects \union {Null} /\ p \in Objects \union {Null}
    BY <2>1, <2>2, SearchFacts DEF IInv, Readable
  <2>4. CASE /\ p # Null
             /\ \E app \in UNION {Readable(x) : x \in Destinations(p)} : Found(app) /\ Return
             /\ UNCHANGED unread
    <3>1. PICK app \in UNION {Readable(x) : x \in Destinations(p)} : Found(app) /\ Return
      BY <2>4
    <3>2. app \in Objects \union {Null}
      BY <2>3, <2>4, <3>1, DestinationFacts
    <3>3. path' \in Nat /\ length' \in Nat /\ sw' \in {"none", "9000", "6A82"} /\ FileInCard'
      BY <1>1, <3>1, <3>2, FoundFacts
    <3>4. unread' \in BOOLEAN
      BY <2>4 DEF IInv, TypeOK
    <3> QED
      BY <1>1, <3>1, <3>3, <3>4, ReturnFacts
  <2>5. CASE /\ unread' = (unread \/ o = Null \/ p = Null \/ Equal(o, Compared(o)))
             /\ tlv_template' = t /\ turns' = turns + 1
             /\ aid_length' = IF o = Null THEN aid_length ELSE Compared(o)
             /\ path_length' \in {path_length, Least(path_length, p.length)}
             /\ p = Null => path_length' = path_length
             /\ UNCHANGED <<path, length, sw, pc, want, tlv_dir>>
    <3>1. Objects' = Objects
      BY <1>1 DEF Objects, End, N, mem
    <3>2. unread' \in BOOLEAN
      BY <2>5
    <3>3. aid_length' \in Nat
      BY <2>3, <2>5, EndFacts DEF IInv, TypeOK, Compared, Least
    <3>4. path' \in Nat /\ length' \in Nat /\ FileInCard'
      BY <1>1, <2>5, NotFoundFacts
    <3>8. path_length' \in 0 .. 3
      <4>1. path_length \in 0 .. 3 /\ (p # Null => p.length \in Nat)
        BY <2>3, EndFacts DEF IInv, TypeOK
      <4> QED
        BY <2>5, <4>1 DEF Least
    <3>5. TypeOK'
      BY <1>1, <2>2, <2>5, <3>1, <3>2, <3>3, <3>4, <3>8 DEF IInv, TypeOK
    <3>6. Opened'
      BY <1>1, <2>2, <2>5, EndFacts DEF IInv, TypeOK, Opened
    <3>7. SearchEnds'
      BY <2>2, <2>5 DEF SearchEnds, End
    <3> QED
      BY <3>4, <3>5, <3>6, <3>7 DEF IInv
  <2> QED
    BY <2>1, <2>4, <2>5 DEF Turn
<1> QED
  BY <1>4, <1>5

\* The inductive invariant of SELECT FILE: what the iterator and the selected
\* file are, whatever bytes the card holds and whichever reads fail.
THEOREM Invariant == Spec => []IInv
<1>1. Init => IInv
  <2> SUFFICES ASSUME Init PROVE IInv
    OBVIOUS
  <2>1. mem \in Seq(0 .. 255)
    BY CardsAssumption DEF Init, mem
  <2>2. N \in Nat
    BY <2>1 DEF N
  <2>3. atrOk \in BOOLEAN /\ unread \in BOOLEAN
    BY DEF Init
  <2>4. TypeOK
    BY <2>2, <2>3 DEF Init, TypeOK
  <2>5. FileInCard
    BY <2>2 DEF Init, FileInCard
  <2>6. Opened /\ SearchEnds
    BY DEF Init, Opened, SearchEnds
  <2> QED
    BY <2>4, <2>5, <2>6 DEF IInv
<1>2. IInv /\ [Next]_vars => IInv'
  <2> SUFFICES ASSUME IInv, [Next]_vars PROVE IInv'
    OBVIOUS
  <2>1. CASE Next
    BY <2>1, StepFid, StepAid, StepMono, StepIterate DEF Next
  <2>2. CASE UNCHANGED vars
    <3>1. /\ UNCHANGED <<card, atrOk, path, length, want, aid_length, path_length,
                         tlv_dir, tlv_template, pc, sw, unread, turns>>
      BY <2>2 DEF vars, search
    <3>2. N' = N /\ Objects' = Objects
      BY <3>1 DEF N, mem, Objects, End
    <3> QED
      BY <3>1, <3>2 DEF IInv, TypeOK, FileInCard, Opened, SearchEnds, End
  <2> QED
    BY <2>1, <2>2
<1> QED
  BY <1>1, <1>2, PTL DEF Spec

\* Type correctness of SELECT FILE (Protocol_Sync_SelectFile).
THEOREM TypeCorrect == Spec => []TypeOK
<1>1. IInv => TypeOK
  BY DEF IInv
<1> QED
  BY <1>1, Invariant, PTL

\* The file that SELECT FILE leaves selected lies in the card, on every memory.
THEOREM FilesLieInCard == Spec => []FileInCard
<1>1. IInv => FileInCard
  BY DEF IInv
<1> QED
  BY <1>1, Invariant, PTL

\* The search through a sequence makes at most half as many turns as the
\* sequence has bytes, on every memory.
THEOREM SearchesEnd == Spec => []SearchEnds
<1>1. IInv => SearchEnds
  BY DEF IInv
<1> QED
  BY <1>1, Invariant, PTL

=============================================================================
