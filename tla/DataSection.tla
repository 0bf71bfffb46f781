---------------------------- MODULE DataSection ----------------------------
(***************************************************************************)
(* SELECT FILE on a memory card: Protocol_Sync_SelectFile                  *)
(* (driver/protocol_sync.c) looks for a file in the directory the card     *)
(* holds, a tree of BER-TLV objects (driver/tlv_object.c) whose address    *)
(* comes from the ATR (driver/atr_sync.c).                                 *)
(*                                                                         *)
(* The memory is any short string of bytes from a small alphabet, or a     *)
(* directory written the way the cards are: one application, one in a      *)
(* template, or a sequence of templates with the path of each. The search  *)
(* through a sequence is one step per template, since the length of the    *)
(* wanted identifier is changed on the way (aid_length). How the card is   *)
(* read is the business of module MemoryCard; here a read may only fail.   *)
(***************************************************************************)
EXTENDS Integers, Sequences, SequencesExt

CONSTANTS
  DirRef,      \* address of the directory, from H4 of the ATR
  Alphabet,    \* bytes of an arbitrary memory
  RawLength,   \* longest arbitrary memory behind the header
  AidBytes,    \* bytes of application identifiers
  MaxAid,      \* their greatest length
  MaxApps      \* applications of a card

ASSUME DirRefAssumption == DirRef \in 1 .. 127
ASSUME BytesAssumption == Alphabet \subseteq 0 .. 255 /\ AidBytes \subseteq 0 .. 255
ASSUME BoundAssumption == RawLength \in Nat /\ MaxAid \in Nat /\ MaxApps \in Nat

SEQUENCE == 48
APPLICATION_ID == 79
PATH == 81
TEMPLATE == 97
DATA == 83       \* TLV_OBJECT_TAG_DISCRETIONARY_DATA, what an application holds

Aid == UNION {[1 .. n -> AidBytes] : n \in 1 .. MaxAid}
Null == [tag |-> -1, address |-> 0, value |-> 0, length |-> 0]

VARIABLES
  card,         \* the memory and what was written to it
  atrOk,        \* the ATR names a directory
  path, length, \* the selected file
  want,         \* the wanted identifier; <<>> when another file is wanted
  aid_length,   \* how much of it is compared, changed by every comparison
  path_length,  \* never initialised by the code
  tlv_dir, tlv_template, \* the directory and the iterator over it
  pc, sw,
  unread,       \* history: a read failed during the command
  turns         \* history: templates looked at by the command

\* The variables of the function; they are gone when it returns.
search == <<want, aid_length, path_length, tlv_dir, tlv_template>>
vars == <<card, atrOk, path, length, search, pc, sw, unread, turns>>

-----------------------------------------------------------------------------
(* TLV objects. Addresses count from 0. *)

mem == card.mem
N == Len(mem)
Byte(a) == mem[a + 1]
Least(m, n) == IF m < n THEN m ELSE n

\* Mutant: the length is not cut to what the card holds.
ObjectUncut(tag, a, value, n) ==
  IF value >= N THEN Null ELSE [tag |-> tag, address |-> a, value |-> value, length |-> n]

\* The object whose header has been read: the length is cut to what the card
\* holds, an object without a byte of value is refused.
Object(tag, a, value, n) ==
  IF value >= N THEN Null
  ELSE [tag |-> tag, address |-> a, value |-> value, length |-> Least(n, N - value)]

\* The length field at l: one byte, or 81 or 82 and one or two bytes.
WithLength(tag, a, l) ==
  IF l >= N THEN Null
  ELSE IF Byte(l) < 128 THEN Object(tag, a, l + 1, Byte(l))
  ELSE IF Byte(l) = 129 /\ l + 1 < N THEN Object(tag, a, l + 2, Byte(l + 1))
  ELSE IF Byte(l) = 130 /\ l + 2 < N
       THEN Object(tag, a, l + 3, Byte(l + 1) * 256 + Byte(l + 2))
  ELSE Null

TLV_Object_New(a) ==
  IF a >= N THEN Null
  ELSE IF Byte(a) % 32 # 31 THEN WithLength(Byte(a), a, a + 1)
  ELSE IF a + 1 >= N THEN Null
  ELSE WithLength(Byte(a) * 256 + Byte(a + 1), a, a + 2)

End(o) == o.value + o.length
RawLengthOf(o) == End(o) - o.address

\* Mutant: the object itself again.
ShiftStays(o) == TLV_Object_New(o.address)

\* The next object on the same level.
TLV_Object_Shift(o) == TLV_Object_New(End(o))

TLV_Object_Iterate(parent, o) ==
  IF o = Null THEN TLV_Object_New(parent.value)
  ELSE IF End(o) < End(parent) THEN TLV_Object_Shift(o) ELSE Null

\* The first object within the parent that has this tag.
TLV_Object_GetObjectByTag(parent, tag) ==
  LET Search[a \in 0 .. N] ==
        LET o == TLV_Object_New(a)
        IN IF o = Null \/ o.tag = tag THEN o
           ELSE IF End(o) < End(parent) THEN Search[End(o)] ELSE Null
  IN Search[parent.value]

\* Mutant: the last byte is not compared.
EqualShort(o, n) == \A k \in 1 .. n - 1 : Byte(o.value + k - 1) = want[k]

\* The first n bytes of the value are those of the wanted identifier.
Equal(o, n) == \A k \in 1 .. n : Byte(o.value + k - 1) = want[k]

\* *length of TLV_Object_CompareValue afterwards.
Compared(o) == Least(aid_length, o.length)

-----------------------------------------------------------------------------
(* Cards. *)

Header == [k \in 1 .. DirRef |-> 0]
App == <<DATA, 1, 7>>
Tlv(tag, value) == <<tag, Len(value)>> \o value

\* The applications of a sequence lie behind it, in the same order.
Template(aid, at) == Tlv(TEMPLATE, Tlv(APPLICATION_ID, aid) \o Tlv(PATH, <<0, at>>))
Sequence(aids) ==
  LET size == DirRef + 2 + FoldLeft(LAMBDA n, aid : n + Len(aid) + 8, 0, aids)
      At(i) == size + (i - 1) * Len(App)
      entries == [i \in DOMAIN aids |-> Template(aids[i], At(i))]
  IN [mem |-> Header \o Tlv(SEQUENCE, FlattenSeq(entries))
                \o FlattenSeq([i \in DOMAIN aids |-> App]),
      aids |-> aids, files |-> [i \in DOMAIN aids |-> At(i)]]

Mono(dir, aid) == [mem |-> Header \o dir \o App, aids |-> <<aid>>, files |-> <<DirRef + Len(dir)>>]

Written ==
  {Mono(Tlv(APPLICATION_ID, aid), aid) : aid \in Aid}
    \union {Mono(Tlv(TEMPLATE, Tlv(APPLICATION_ID, aid)), aid) : aid \in Aid}
    \union {Sequence(aids) : aids \in UNION {[1 .. n -> Aid] : n \in 1 .. MaxApps}}

Arbitrary ==
  {[mem |-> Header \o raw, aids |-> <<>>, files |-> <<>>]
   : raw \in UNION {[1 .. n -> Alphabet] : n \in 0 .. RawLength}}

\* What is written on the cards are bytes: the lengths and places in a directory
\* fit in one.
ASSUME CardsAssumption == \A c \in Written \union Arbitrary : c.mem \in Seq(0 .. 255)

-----------------------------------------------------------------------------
(* SELECT FILE. *)

Init ==
  /\ card \in Written \union Arbitrary
  /\ atrOk \in BOOLEAN
  /\ path = 0 /\ length = N
  /\ want = <<>> /\ aid_length = 0 /\ path_length = 0
  /\ tlv_dir = Null /\ tlv_template = Null
  /\ pc = "idle" /\ sw = "none" /\ unread = FALSE /\ turns = 0

Return ==
  /\ pc' = "idle" /\ want' = <<>> /\ aid_length' = 0 /\ path_length' = 0
  /\ tlv_dir' = Null /\ tlv_template' = Null /\ turns' = 0

NotFound == sw' = "6A82" /\ UNCHANGED <<path, length>>

Found(o) ==
  IF o = Null THEN NotFound
  ELSE path' = o.address /\ length' = RawLengthOf(o) /\ sw' = "9000"

\* A read of the card may fail.
Readable(o) == {o, Null}

\* By file identifier: master file, ATR, DIR, any other; or with a P1 that is
\* not known.
SelectFid(fid) ==
  /\ pc = "idle"
  /\ \/ fid = "MF" /\ path' = 0 /\ length' = N /\ sw' = "9000" /\ unread' = FALSE
     \/ /\ fid = "ATR" /\ unread' = FALSE
        /\ IF atrOk /\ DirRef > 4 /\ N > 4
           THEN path' = 4 /\ length' = Least(DirRef, N) - 4 /\ sw' = "9000"
           ELSE NotFound
     \/ /\ fid = "DIR"
        /\ \E o \in Readable(TLV_Object_New(DirRef)) :
             /\ IF atrOk THEN Found(o) ELSE NotFound
             /\ unread' = (o = Null)
     \/ fid = "OTHER" /\ NotFound /\ unread' = FALSE
  /\ UNCHANGED <<card, atrOk, search, pc, turns>>

\* By application identifier: the directory is opened.
SelectAid(aid) ==
  /\ pc = "idle"
  /\ \E o \in Readable(TLV_Object_New(DirRef)) :
       /\ unread' = (o = Null)
       /\ IF atrOk /\ o.tag \in {APPLICATION_ID, TEMPLATE, SEQUENCE}
          THEN /\ pc' = IF o.tag = SEQUENCE THEN "iterate" ELSE "mono"
               /\ want' = aid /\ aid_length' = Len(aid)
               /\ path_length' \in 0 .. 3
               /\ tlv_dir' = o /\ tlv_template' = Null
               /\ sw' = "none" /\ UNCHANGED <<path, length, turns>>
          ELSE Return /\ NotFound
  /\ UNCHANGED <<card, atrOk>>

\* One application: its data follow the identifier or the template around it.
SelectMono ==
  /\ pc = "mono"
  /\ \E o \in Readable(IF tlv_dir.tag = APPLICATION_ID THEN tlv_dir
                       ELSE TLV_Object_GetObjectByTag(tlv_dir, APPLICATION_ID)),
        app \in Readable(TLV_Object_Shift(tlv_dir)) :
       /\ unread' = (o = Null \/ app = Null)
       /\ IF o # Null /\ Equal(o, Compared(o)) THEN Found(app) ELSE NotFound
  /\ Return
  /\ UNCHANGED <<card, atrOk>>

\* Where the path of a template leads. With a length of 0 in path_length the
\* buffer holds anything; the first two bytes are what the code takes.
Destinations(o) ==
  LET n == Least(path_length, o.length)
  IN IF n = 0 THEN {TLV_Object_New(a) : a \in 0 .. N}
     ELSE IF n = 1 THEN {TLV_Object_New(Byte(o.value))}
     ELSE {TLV_Object_New(Byte(o.value + n - 2) * 256 + Byte(o.value + n - 1))}

\* One template of a sequence. The length of a path that is read cuts the next one.
Turn(t, o, p) ==
  \/ /\ o # Null /\ Equal(o, Compared(o)) /\ p # Null
     /\ \E app \in UNION {Readable(x) : x \in Destinations(p)} :
          /\ app # Null
          /\ Found(app) /\ Return
     /\ UNCHANGED unread
  \/ /\ \/ o = Null \/ ~Equal(o, Compared(o)) \/ p = Null
        \/ \E app \in UNION {Readable(x) : x \in Destinations(p)} : app = Null
     /\ unread' = (unread \/ o = Null \/ p = Null \/ Equal(o, Compared(o)))
     /\ tlv_template' = t /\ turns' = turns + 1
     /\ aid_length' = IF o = Null THEN aid_length ELSE Compared(o)
     /\ path_length' = IF o # Null /\ Equal(o, Compared(o)) /\ p # Null
                       THEN Least(path_length, p.length) ELSE path_length
     /\ UNCHANGED <<path, length, sw, pc, want, tlv_dir>>

SelectIterate ==
  /\ pc = "iterate"
  /\ \E t \in Readable(TLV_Object_Iterate(tlv_dir, tlv_template)) :
       \/ /\ t = Null
          /\ Return /\ NotFound
          /\ unread' = (unread \/ TLV_Object_Iterate(tlv_dir, tlv_template) # Null)
       \/ /\ t # Null
          /\ \E o \in Readable(TLV_Object_GetObjectByTag(t, APPLICATION_ID)),
                p \in Readable(TLV_Object_GetObjectByTag(t, PATH)) : Turn(t, o, p)
  /\ UNCHANGED <<card, atrOk>>

Next ==
  \/ \E fid \in {"MF", "ATR", "DIR", "OTHER"} : SelectFid(fid)
  \/ \E aid \in Aid : SelectAid(aid)
  \/ SelectMono
  \/ SelectIterate

Spec == Init /\ [][Next]_vars

-----------------------------------------------------------------------------
(* Properties. *)

\* The selected file lies in the card, whatever bytes the directory holds:
\* READ and UPDATE BINARY add path and offset without looking at the size of
\* the card again.
FileInCard == path >= 0 /\ length >= 0 /\ path + length <= N

\* SELECT FILE by application identifier, on a card whose identifiers are as
\* long as the wanted one, selects the file of the first application that
\* has it, and finds none when there is none, provided that nothing fails
\* and that path_length, which is never initialised, does not cut the path.
ApplicationFound ==
  [][pc # "idle" /\ pc' = "idle" /\ ~unread' /\ path_length >= 2
       /\ card.aids # <<>> /\ (\A i \in DOMAIN card.aids : Len(card.aids[i]) = Len(want)) =>
     LET hits == {i \in DOMAIN card.aids : card.aids[i] = want}
     IN IF hits = {} THEN sw' = "6A82"
        ELSE /\ sw' = "9000" /\ length' = Len(App)
             /\ \E i \in hits : path' = card.files[i] /\ \A j \in hits : i <= j]_vars

\* The search ends on every memory: each turn leaves at least two bytes of the
\* sequence behind, so there are no more turns than that.
SearchEnds == turns > 0 => 2 * turns <= End(tlv_template) - tlv_dir.value

-----------------------------------------------------------------------------
(* The inductive invariant. *)

\* What TLV_Object_New may return: a header of at least two bytes and a value
\* that begins and ends in the card.
Objects ==
  {o \in [tag : Nat, address : Nat, value : Nat, length : Nat] :
     o.address + 2 <= o.value /\ o.value < N /\ End(o) <= N}

TypeOK ==
  /\ card \in Written \union Arbitrary
  /\ atrOk \in BOOLEAN /\ unread \in BOOLEAN
  /\ path \in Nat /\ length \in Nat
  /\ want \in Aid \union {<<>>} /\ aid_length \in Nat /\ path_length \in 0 .. 3
  /\ tlv_dir \in Objects \union {Null} /\ tlv_template \in Objects \union {Null}
  /\ pc \in {"idle", "mono", "iterate"} /\ sw \in {"none", "9000", "6A82"}
  /\ turns \in Nat

\* A directory is open while a search runs, and the iterator has moved if and
\* only if a template was looked at.
Opened ==
  /\ pc # "idle" => tlv_dir # Null
  /\ turns > 0 <=> tlv_template # Null
  /\ turns > 0 => pc = "iterate"

IInv == TypeOK /\ FileInCard /\ Opened /\ SearchEnds

=============================================================================
