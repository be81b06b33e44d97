-------------------------------- MODULE Sds --------------------------------
(***************************************************************************)
(* src/lib/sds: the string library under every line and every reply.  A    *)
(* string is a pointer to its bytes; a header in front of them holds its   *)
(* length and the room behind it, in fields as wide as its type says.      *)
(* There are five types; the type of a string is chosen by its size and    *)
(* the string moves when it outgrows it.                                   *)
(*                                                                         *)
(* Here is one string, and the array of tokens it was split into.  Both    *)
(* belong to one thread.  What lies in the block after the terminator is   *)
(* never read; allocations succeed.  Numbers are small: Limits[i] is the   *)
(* number of lengths the fields of the i-th type tell apart, 32, 256, ...  *)
(***************************************************************************)
EXTENDS Strings

CONSTANTS
  NULL,
  Limits,        \* of the types but the last, whose fields never wrap
  MAX_PREALLOC,  \* SDS_MAX_PREALLOC
  SLOTS,         \* tokens sdssplitlen starts with room for
  StaticBuf,     \* size of the buffer sdscatvprintf formats into first
  Pieces,        \* strings given to the functions
  MaxText        \* bound: length of the string

SDS_TYPE_5 == 1
SDS_TYPE_8 == 2
Types == 1..(Len(Limits) + 1)

ASSUME SdsBytes == NULL \notin Seq(Byte) /\ Pieces \subseteq Seq(Byte)
ASSUME SdsSizes ==
  /\ Limits \in Seq(Nat) /\ Len(Limits) > 0 /\ Limits[1] > 0
  /\ \A i, j \in 1..Len(Limits) : i < j => Limits[i] < Limits[j]
  /\ MAX_PREALLOC \in Nat /\ SLOTS \in Nat \ {0}
  /\ StaticBuf \in Nat /\ StaticBuf > 1 /\ MaxText \in Nat

VARIABLES
  s,       \* the string, or NULL
  tokens   \* what it was split into, or NULL

svars == <<s, tokens>>

\* A string: its header, the size of its block behind the header, and the
\* bytes written there, up to its terminator.
sdshdr == [type : Types, len : Nat, alloc : Nat, size : Nat, buf : Seq(Byte)]
ASSUME SdsNull == NULL \notin sdshdr

\* A number as a field of the header keeps it.
Stored(type, n) ==
  IF type \in DOMAIN Limits THEN n % Limits[type] ELSE n

Text(x) == SubSeq(x.buf, 1, x.len)
sdsavail(x) == IF x.type = SDS_TYPE_5 THEN 0 ELSE x.alloc - x.len

\* Mutant: a size of exactly the limit is taken to fit.
sdsReqType_Fits(n) ==
  CHOOSE i \in Types : /\ i \in DOMAIN Limits => n <= Limits[i]
                       /\ \A j \in 1..(i - 1) : n > Limits[j]
sdsReqType(n) ==
  CHOOSE i \in Types : /\ i \in DOMAIN Limits => n < Limits[i]
                       /\ \A j \in 1..(i - 1) : n >= Limits[j]

\* Type 5 has no room for alloc, and is not used for what will grow.
Appendable(type) == IF type = SDS_TYPE_5 THEN SDS_TYPE_8 ELSE type
Alloc(type, n) == IF type = SDS_TYPE_5 THEN 0 ELSE Stored(type, n)

sdsnewlen(init) ==
  LET n == Len(init)
      type == IF n = 0 THEN Appendable(sdsReqType(n)) ELSE sdsReqType(n)
  IN  [type |-> type, len |-> Stored(type, n), alloc |-> Alloc(type, n),
       size |-> n + 1, buf |-> Append(init, NUL)]

\* Room for n more bytes and the terminator: the block is extended in place,
\* or moved when its header must change.
\* Mutant: the string keeps its type as it grows.
sdsMakeRoomFor_SameType(x, n) ==
  LET need == x.len + n
      newlen == IF need < MAX_PREALLOC THEN 2 * need ELSE need + MAX_PREALLOC
  IN  IF sdsavail(x) >= n THEN x
      ELSE [x EXCEPT !.type = Appendable(@), !.size = newlen + 1,
                     !.alloc = Stored(Appendable(x.type), newlen)]
sdsMakeRoomFor(x, n) ==
  LET need == x.len + n
      newlen == IF need < MAX_PREALLOC THEN 2 * need ELSE need + MAX_PREALLOC
      type == Appendable(sdsReqType(newlen))
      moved == [type |-> type, len |-> Stored(type, x.len), alloc |-> x.alloc,
                size |-> newlen + 1, buf |-> SubSeq(x.buf, 1, x.len + 1)]
      grown == IF type = x.type THEN [x EXCEPT !.size = newlen + 1] ELSE moved
  IN  IF sdsavail(x) >= n THEN x
      ELSE [grown EXCEPT !.alloc = Stored(type, newlen)]

sdscatlen(x, t) ==
  LET room == sdsMakeRoomFor(x, Len(t))
  IN  [room EXCEPT !.len = Stored(room.type, x.len + Len(t)),
                   !.buf = SubSeq(@, 1, x.len) \o Append(t, NUL)]

\* sdscatvprintf formats into a buffer, and into one twice as large as long
\* as the last byte but one was overwritten; vsnprintf cuts what does not fit.
\* Mutant: the very last byte is looked at, which is always a terminator.
Fits_Last(t, buflen) == TRUE
Fits(t, buflen) == Len(t) <= buflen - 2
Doubling(first, n) ==
  LET buflen[k \in 0..n] == IF k = 0 THEN first ELSE 2 * buflen[k - 1]
  IN  buflen
Formatted(t, fmtlen) ==
  LET first == IF 2 * fmtlen > StaticBuf THEN 2 * fmtlen ELSE StaticBuf
      buflen == Doubling(first, Len(t))
      k == CHOOSE k \in 0..Len(t) : /\ Fits(t, buflen[k])
                                    /\ \A j \in 0..(k - 1) : ~Fits(t, buflen[j])
      room == buflen[k] - 1
  IN  IF Len(t) <= room THEN t ELSE SubSeq(t, 1, room)

sdstrim(x) ==
  LET t == Trimmed(Text(x))
  IN  [x EXCEPT !.buf = Append(t, NUL), !.len = Stored(x.type, Len(t))]

\* The tokens between the separators, in an array that doubles when there is
\* no room for one more and the last.
\* Mutant: room for one token is enough.
Room_One(slots, elements) == IF slots < elements THEN 2 * slots ELSE slots
Room(slots, elements) == IF slots < elements + 2 THEN 2 * slots ELSE slots
\* Made(t)[j] are the tokens made, and Slots(t)[j] the array, once the first j
\* bytes are looked at.
Made(t) ==
  LET made[j \in 0..Len(t)] ==
        IF j = 0 THEN <<>>
        ELSE IF t[j] = SP
          THEN Append(made[j - 1],
                      sdsnewlen(SubSeq(t, TokenStart(t, j - 1), j - 1)))
        ELSE made[j - 1]
  IN  made
Slots(t) ==
  LET slots[j \in 0..Len(t)] ==
        IF j = 0 THEN SLOTS ELSE Room(slots[j - 1], Len(Made(t)[j - 1]))
  IN  slots
sdssplitlen(t) ==
  LET n == Len(t)
      last == sdsnewlen(SubSeq(t, TokenStart(t, n), n))
  IN  [slots |-> Slots(t)[n],
       elems |-> IF n = 0 THEN <<>> ELSE Append(Made(t)[n], last)]

----------------------------------------------------------------------------
Init == s = NULL /\ tokens = NULL

\* sdsempty, sdsnew and sdsnewlen.
New(t) == /\ s = NULL /\ s' = sdsnewlen(t)
          /\ UNCHANGED tokens

\* The string is changed when it is not, or no longer, split.
Change(new) == /\ tokens = NULL /\ new.len <= MaxText
               /\ s' = new /\ UNCHANGED tokens

sdscat(t) == s # NULL /\ Change(sdscatlen(s, CString(t)))
sdscatprintf(t, fmtlen) ==
  s # NULL /\ Change(sdscatlen(s, Formatted(CString(t), fmtlen)))
Trim == s # NULL /\ Change(sdstrim(s))
sdsfree == s # NULL /\ tokens = NULL /\ s' = NULL /\ UNCHANGED tokens

Split == /\ s # NULL /\ tokens = NULL
         /\ tokens' = sdssplitlen(Text(s)) /\ UNCHANGED s
sdsfreesplitres == tokens # NULL /\ tokens' = NULL /\ UNCHANGED s

Next ==
  \/ \E t \in Pieces : \/ New(t) \/ sdscat(t)
                       \/ \E fmtlen \in {0, StaticBuf} : sdscatprintf(t, fmtlen)
  \/ Trim \/ sdsfree \/ Split \/ sdsfreesplitres

Spec == Init /\ [][Next]_svars
----------------------------------------------------------------------------
(* Properties *)

\* No field of the header wraps, the room it tells is the room there is, and
\* nothing is written behind the block: sdscatlen relies on the first two to
\* decide whether it may write.
WellFormed(x) ==
  /\ x.len + 1 = Len(x.buf) /\ x.buf[x.len + 1] = NUL
  /\ Len(x.buf) <= x.size
  /\ x.type # SDS_TYPE_5 => x.alloc + 1 = x.size
HeaderTrue == s # NULL => WellFormed(s)

\* What HeaderTrue rests on: a type that can tell the room there is, or for
\* type 5, which does not keep it, the length.
Fitting(x) ==
  x.type \in DOMAIN Limits =>
    (IF x.type = SDS_TYPE_5 THEN x.len ELSE x.alloc) < Limits[x.type]
HeaderInv == s # NULL => s \in sdshdr /\ WellFormed(s) /\ Fitting(s)

\* The tokens of a string fit in their array, contain no separator, and
\* joined by separators are the string; they are those of Strings.
Joined(texts) ==
  FlattenSeq([i \in DOMAIN texts |->
                IF i = 1 THEN texts[i] ELSE <<SP>> \o texts[i]])
SplitWhole ==
  (s # NULL /\ tokens # NULL) =>
    LET texts == [i \in DOMAIN tokens.elems |-> Text(tokens.elems[i])]
    IN  /\ Len(texts) <= tokens.slots
        /\ \A i \in DOMAIN texts : /\ WellFormed(tokens.elems[i])
                                   /\ ~Contains(texts[i], SP)
        /\ IF s.len = 0 THEN texts = <<>> ELSE Joined(texts) = Text(s)
        /\ texts = Tokens(Text(s))

\* What SplitWhole rests on: while there are tokens their string is there, and
\* they are its own.
TokensInv == tokens # NULL => s # NULL /\ tokens = sdssplitlen(Text(s))

\* Under its headers and blocks an sds string is the text that was put in:
\* each function does to the text what ByteString says, with the whole of its
\* argument, and splitting does nothing to it.
TextOf == INSTANCE ByteString WITH text <- IF s = NULL THEN NULL ELSE Text(s)
KeepsText ==
  [][/\ \A t \in Pieces :
          /\ New(t) => TextOf!BNew(t)
          /\ sdscat(t) => TextOf!BAppend(CString(t))
          /\ \A n \in {0, StaticBuf} :
               sdscatprintf(t, n) => TextOf!BAppend(CString(t))
     /\ Trim => TextOf!BTrim
     /\ sdsfree => TextOf!BFree
     /\ Split \/ sdsfreesplitres => UNCHANGED s]_svars
============================================================================
