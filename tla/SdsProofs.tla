----------------------------- MODULE SdsProofs -----------------------------
(***************************************************************************)
(* The string library keeps its headers true and the text it was given,    *)
(* for header types with fields of any width, strings of any bytes, and    *)
(* formatting buffers of any size: HeaderInv of Sds is inductive.  What it *)
(* splits a string into is all of the string, and fits the array.          *)
(***************************************************************************)
EXTENDS Sds, StringLemmas

----------------------------------------------------------------------------
(* Types and fields of headers *)

\* A number the fields of a type can keep.
Keeps(type, n) == type \in Types /\ (type \in DOMAIN Limits => n < Limits[type])

LEMMA LimitsType ==
  /\ Limits \in Seq(Nat) /\ Len(Limits) \in Nat \ {0}
  /\ DOMAIN Limits = 1..Len(Limits) /\ Types = 1..(Len(Limits) + 1)
  /\ \A i \in DOMAIN Limits : Limits[i] \in Nat
  /\ \A i, j \in DOMAIN Limits : i < j => Limits[i] < Limits[j]
  /\ Limits[1] > 0
<1>1. Limits \in Seq(Nat) /\ Len(Limits) > 0
  BY SdsSizes
<1>2. Len(Limits) \in Nat \ {0} /\ DOMAIN Limits = 1..Len(Limits)
  BY <1>1
<1> QED
  BY <1>1, <1>2, SdsSizes DEF Types

LEMMA StoredWhole ==
  ASSUME NEW n \in Nat, NEW type, Keeps(type, n)
  PROVE  Stored(type, n) = n
<1>1. CASE type \in DOMAIN Limits
  <2>1. Limits[type] \in Nat /\ n < Limits[type]
    BY <1>1, LimitsType DEF Keeps
  <2>2. n % Limits[type] = n
    BY <2>1
  <2> QED
    BY <1>1, <2>2 DEF Stored
<1>2. CASE type \notin DOMAIN Limits
  BY <1>2 DEF Stored
<1> QED
  BY <1>1, <1>2

LEMMA ReqTypeKeeps ==
  ASSUME NEW n \in Nat
  PROVE  Keeps(sdsReqType(n), n)
<1> DEFINE Enough == {i \in Types : i \in DOMAIN Limits => n < Limits[i]}
           Chosen(i) == /\ i \in DOMAIN Limits => n < Limits[i]
                        /\ \A j \in 1..(i - 1) : n >= Limits[j]
<1>1. Enough \subseteq Nat /\ Len(Limits) + 1 \in Enough
  BY LimitsType
<1>2. PICK i \in Enough : \A j \in Enough : i <= j
  BY <1>1, Least
<1>3. ASSUME NEW j \in 1..(i - 1) PROVE n >= Limits[j]
  <2>1. j \in Types /\ j < i
    BY <1>2, LimitsType
  <2>2. j \notin Enough
    BY <1>2, <2>1, LimitsType
  <2>3. j \in DOMAIN Limits /\ ~(n < Limits[j])
    BY <2>1, <2>2
  <2> QED
    BY <2>3, LimitsType
<1>4. \E j \in Types : Chosen(j)
  BY <1>2, <1>3
<1>5. (CHOOSE j \in Types : Chosen(j)) \in Types
      /\ Chosen(CHOOSE j \in Types : Chosen(j))
  BY <1>4
<1> QED
  BY <1>5 DEF Keeps, sdsReqType

\* The types of strings that grow keep more, and the room they have.
LEMMA AppendableKeeps ==
  ASSUME NEW n \in Nat, NEW type, Keeps(type, n)
  PROVE  Keeps(Appendable(type), n) /\ Appendable(type) # SDS_TYPE_5
<1>1. CASE type = SDS_TYPE_5
  <2>1. 1 \in DOMAIN Limits /\ 2 \in Types /\ n < Limits[1]
    BY <1>1, LimitsType DEF Keeps, SDS_TYPE_5
  <2>2. 2 \in DOMAIN Limits => n < Limits[2]
    <3>1. 2 \in DOMAIN Limits => Limits[1] < Limits[2]
      BY <2>1, LimitsType
    <3> QED
      BY <2>1, <3>1, LimitsType
  <2> QED
    BY <1>1, <2>1, <2>2 DEF Keeps, Appendable, SDS_TYPE_5, SDS_TYPE_8
<1>2. CASE type # SDS_TYPE_5
  BY <1>2 DEF Appendable
<1> QED
  BY <1>1, <1>2

\* Less is kept as well.
LEMMA KeepsLess ==
  ASSUME NEW type, NEW n \in Nat, NEW m \in Nat, m <= n, Keeps(type, n)
  PROVE  Keeps(type, m)
BY LimitsType DEF Keeps

----------------------------------------------------------------------------
(* What the functions return *)

\* A header that is true, and stays so when its string is appended to.
Header(x) == x \in sdshdr /\ WellFormed(x) /\ Fitting(x)

\* The text of a string and its terminator are what is in its buffer.
LEMMA HeaderText ==
  ASSUME NEW x, Header(x)
  PROVE  /\ x.type \in Types /\ x.len \in Nat /\ x.alloc \in Nat /\ x.size \in Nat
         /\ x.buf \in Seq(Byte) /\ Len(x.buf) = x.len + 1 /\ x.len + 1 <= x.size
         /\ x.type # SDS_TYPE_5 => x.alloc + 1 = x.size /\ x.len <= x.alloc
         /\ Keeps(x.type, x.len)
         /\ Text(x) \in Seq(Byte) /\ Len(Text(x)) = x.len
         /\ x.buf = Append(Text(x), NUL)
<1>1. /\ x.type \in Types /\ x.len \in Nat /\ x.alloc \in Nat /\ x.size \in Nat
      /\ x.buf \in Seq(Byte)
  BY DEF Header, sdshdr
<1>2. Len(x.buf) = x.len + 1 /\ x.len + 1 <= x.size /\ x.buf[x.len + 1] = NUL
  BY <1>1 DEF Header, WellFormed
<1>3. x.type # SDS_TYPE_5 => x.alloc + 1 = x.size /\ x.len <= x.alloc
  BY <1>1, <1>2 DEF Header, WellFormed
<1>4. Keeps(x.type, x.len)
  BY <1>1, <1>3, LimitsType DEF Header, Fitting, Keeps
<1>5. Text(x) \in Seq(Byte) /\ Len(Text(x)) = x.len
  BY <1>1, <1>2 DEF Text
<1>6. x.buf = Append(Text(x), NUL)
  BY <1>1, <1>2 DEF Text
<1> QED
  BY <1>1, <1>2, <1>3, <1>4, <1>5, <1>6

\* A text and its terminator under a header that keeps its length.
LEMMA HeaderOf ==
  ASSUME NEW x, NEW t \in Seq(Byte), NEW type, NEW alloc \in Nat, NEW size \in Nat,
         x = [type |-> type, len |-> Len(t), alloc |-> alloc, size |-> size,
              buf |-> Append(t, NUL)],
         Keeps(type, Len(t)), Len(t) < size,
         type # SDS_TYPE_5 => alloc + 1 = size /\ Keeps(type, alloc)
  PROVE  Header(x) /\ Text(x) = t
<1>1. Len(t) \in Nat /\ Append(t, NUL) \in Seq(Byte)
  BY DEF Byte
<1>2. x \in sdshdr
  BY <1>1 DEF sdshdr, Keeps
<1>3. WellFormed(x)
  BY <1>1 DEF WellFormed
<1>4. Fitting(x)
  BY DEF Fitting, Keeps
<1>5. Text(x) = t
  BY <1>1 DEF Text
<1> QED
  BY <1>2, <1>3, <1>4, <1>5 DEF Header

LEMMA NewTrue ==
  ASSUME NEW t \in Seq(Byte)
  PROVE  Header(sdsnewlen(t)) /\ Text(sdsnewlen(t)) = t
<1> DEFINE n == Len(t)
           type == IF n = 0 THEN Appendable(sdsReqType(n)) ELSE sdsReqType(n)
<1>1. n \in Nat /\ n < n + 1 /\ n + 1 \in Nat
  OBVIOUS
<1>2. Keeps(type, n)
  BY <1>1, ReqTypeKeeps, AppendableKeeps
<1>3. Stored(type, n) = n
  BY <1>1, <1>2, StoredWhole
<1>4. Alloc(type, n) = IF type = SDS_TYPE_5 THEN 0 ELSE n
  BY <1>3 DEF Alloc
<1>5. sdsnewlen(t) = [type |-> type, len |-> n, alloc |-> Alloc(type, n),
                      size |-> n + 1, buf |-> Append(t, NUL)]
  BY <1>3 DEF sdsnewlen
<1> HIDE DEF type
<1>6. Alloc(type, n) \in Nat /\ (type # SDS_TYPE_5 => Alloc(type, n) + 1 = n + 1)
  BY <1>1, <1>4
<1>7. type # SDS_TYPE_5 => Keeps(type, Alloc(type, n))
  BY <1>2, <1>4
<1> QED
  BY <1>1, <1>2, <1>5, <1>6, <1>7, HeaderOf

\* There is the room that was asked for, and what was there is there.
LEMMA RoomMade ==
  ASSUME NEW x, Header(x), NEW n \in Nat
  PROVE  LET room == sdsMakeRoomFor(x, n)
         IN  /\ room = [type |-> room.type, len |-> x.len, alloc |-> room.alloc,
                        size |-> room.size, buf |-> Append(Text(x), NUL)]
             /\ room.alloc \in Nat /\ room.size \in Nat
             /\ Keeps(room.type, x.len + n) /\ x.len + n < room.size
             /\ room.type # SDS_TYPE_5 => /\ room.alloc + 1 = room.size
                                          /\ Keeps(room.type, room.alloc)
<1> DEFINE need == x.len + n
           newlen == IF need < MAX_PREALLOC THEN 2 * need ELSE need + MAX_PREALLOC
           type == Appendable(sdsReqType(newlen))
           moved == [type |-> type, len |-> Stored(type, x.len), alloc |-> x.alloc,
                     size |-> newlen + 1, buf |-> SubSeq(x.buf, 1, x.len + 1)]
           grown == IF type = x.type THEN [x EXCEPT !.size = newlen + 1] ELSE moved
           room == sdsMakeRoomFor(x, n)
<1>1. /\ x.type \in Types /\ x.len \in Nat /\ x.alloc \in Nat /\ x.size \in Nat
      /\ x.buf \in Seq(Byte) /\ Len(x.buf) = x.len + 1 /\ x.len + 1 <= x.size
      /\ x.type # SDS_TYPE_5 => x.alloc + 1 = x.size /\ x.len <= x.alloc
      /\ Keeps(x.type, x.len) /\ x.buf = Append(Text(x), NUL)
  BY HeaderText
<1>2. x = [type |-> x.type, len |-> x.len, alloc |-> x.alloc, size |-> x.size,
           buf |-> x.buf]
  BY DEF Header, sdshdr
<1>3. CASE sdsavail(x) >= n
  <2>1. room = x
    BY <1>3 DEF sdsMakeRoomFor
  <2>2. CASE x.type = SDS_TYPE_5
    <3>1. n = 0 /\ need = x.len
      BY <1>1, <1>3, <2>2 DEF sdsavail
    <3> QED
      BY <1>1, <1>2, <2>1, <2>2, <3>1
  <2>3. CASE x.type # SDS_TYPE_5
    <3>1. need <= x.alloc /\ need \in Nat /\ x.alloc < x.size
      BY <1>1, <1>3, <2>3 DEF sdsavail
    <3>2. Keeps(x.type, x.alloc)
      BY <1>1, <2>3 DEF Header, Fitting, Keeps
    <3>3. Keeps(x.type, need)
      BY <1>1, <3>1, <3>2, KeepsLess
    <3> QED
      BY <1>1, <1>2, <2>1, <2>3, <3>1, <3>2, <3>3
  <2> QED
    BY <2>2, <2>3
<1>4. CASE ~(sdsavail(x) >= n)
  <2>1. need \in Nat /\ newlen \in Nat /\ need <= newlen /\ x.len <= newlen
    <3>1. need \in Nat /\ x.len <= need /\ MAX_PREALLOC \in Nat
      BY <1>1, SdsSizes
    <3> HIDE DEF need
    <3> QED
      BY <1>1, <3>1
  <2> HIDE DEF newlen
  <2>2. Keeps(type, newlen) /\ type # SDS_TYPE_5
    BY <2>1, ReqTypeKeeps, AppendableKeeps
  <2> HIDE DEF type
  <2>3. /\ Keeps(type, need) /\ Stored(type, newlen) = newlen
        /\ Stored(type, x.len) = x.len
    BY <1>1, <2>1, <2>2, KeepsLess, StoredWhole
  <2>4. SubSeq(x.buf, 1, x.len + 1) = x.buf
    BY <1>1
  <2>5. grown = [type |-> type, len |-> x.len, alloc |-> x.alloc,
                 size |-> newlen + 1, buf |-> x.buf]
    BY <1>2, <2>3, <2>4
  <2>6. room = [grown EXCEPT !.alloc = Stored(type, newlen)]
    BY <1>4 DEF sdsMakeRoomFor, type, newlen
  <2> HIDE DEF grown, room
  <2>7. room = [type |-> type, len |-> x.len, alloc |-> newlen,
                size |-> newlen + 1, buf |-> x.buf]
    BY <2>3, <2>5, <2>6
  <2>8. newlen + 1 \in Nat /\ need < newlen + 1
    BY <2>1
  <2> QED
    BY <1>1, <2>1, <2>2, <2>3, <2>7, <2>8 DEF room
<1> QED
  BY <1>3, <1>4

LEMMA CatTrue ==
  ASSUME NEW x, Header(x), NEW t \in Seq(Byte)
  PROVE  Header(sdscatlen(x, t)) /\ Text(sdscatlen(x, t)) = Text(x) \o t
<1> DEFINE room == sdsMakeRoomFor(x, Len(t))
<1>1. /\ room = [type |-> room.type, len |-> x.len, alloc |-> room.alloc,
                 size |-> room.size, buf |-> Append(Text(x), NUL)]
      /\ room.alloc \in Nat /\ room.size \in Nat
      /\ Keeps(room.type, x.len + Len(t)) /\ x.len + Len(t) < room.size
      /\ room.type # SDS_TYPE_5 => /\ room.alloc + 1 = room.size
                                   /\ Keeps(room.type, room.alloc)
  BY RoomMade
<1>2. x.len \in Nat /\ Text(x) \in Seq(Byte) /\ Len(Text(x)) = x.len
  BY HeaderText
<1>3. sdscatlen(x, t) = [room EXCEPT !.len = Stored(room.type, x.len + Len(t)),
                           !.buf = SubSeq(@, 1, x.len) \o Append(t, NUL)]
  BY DEF sdscatlen
<1> HIDE DEF room
<1>4. Stored(room.type, x.len + Len(t)) = x.len + Len(t)
  <2>1. x.len + Len(t) \in Nat
    BY <1>2
  <2> QED
    BY <1>1, <2>1, StoredWhole
<1>5. SubSeq(room.buf, 1, x.len) = Text(x)
  <2>1. room.buf = Append(Text(x), NUL)
    BY <1>1
  <2> QED
    BY <1>2, <2>1
<1>6. Text(x) \o Append(t, NUL) = Append(Text(x) \o t, NUL)
  BY <1>2
<1>7. Text(x) \o t \in Seq(Byte) /\ Len(Text(x) \o t) = x.len + Len(t)
  BY <1>2
<1>8. sdscatlen(x, t) = [type |-> room.type, len |-> Len(Text(x) \o t),
                         alloc |-> room.alloc, size |-> room.size,
                         buf |-> Append(Text(x) \o t, NUL)]
  BY <1>1, <1>3, <1>4, <1>5, <1>6, <1>7
<1> QED
  BY <1>1, <1>7, <1>8, HeaderOf

LEMMA TrimTrue ==
  ASSUME NEW x, Header(x)
  PROVE  Header(sdstrim(x)) /\ Text(sdstrim(x)) = Trimmed(Text(x))
<1> DEFINE t == Trimmed(Text(x))
<1>1. /\ x.type \in Types /\ x.len \in Nat /\ x.alloc \in Nat /\ x.size \in Nat
      /\ x.len + 1 <= x.size /\ Text(x) \in Seq(Byte) /\ Len(Text(x)) = x.len
      /\ x.type # SDS_TYPE_5 => x.alloc + 1 = x.size /\ x.len <= x.alloc
      /\ Keeps(x.type, x.len)
  BY HeaderText
<1>2. t \in Seq(Byte) /\ Len(t) <= x.len
  BY <1>1, TrimmedBytes
<1>3. sdstrim(x) = [x EXCEPT !.buf = Append(t, NUL), !.len = Stored(x.type, Len(t))]
  BY DEF sdstrim
<1> HIDE DEF t
<1>4. Keeps(x.type, Len(t)) /\ Stored(x.type, Len(t)) = Len(t)
  BY <1>1, <1>2, KeepsLess, StoredWhole
<1>5. sdstrim(x) = [type |-> x.type, len |-> Len(t), alloc |-> x.alloc,
                    size |-> x.size, buf |-> Append(t, NUL)]
  BY <1>3, <1>4 DEF Header, sdshdr
<1>6. x.type # SDS_TYPE_5 => Keeps(x.type, x.alloc)
  BY <1>1 DEF Header, Fitting, Keeps
<1>7. Len(t) < x.size
  BY <1>1, <1>2
<1> QED
  BY <1>1, <1>2, <1>4, <1>5, <1>6, <1>7, HeaderOf DEF t

----------------------------------------------------------------------------
(* Formatting *)

\* The sizes of the buffers, as far as they are looked at.
LEMMA DoublingIs ==
  ASSUME NEW first, NEW n \in Nat
  PROVE  LET b == Doubling(first, n)
         IN  b = [k \in 0..n |-> IF k = 0 THEN first ELSE 2 * b[k - 1]]
<1> DEFINE Is(b, m) == b = [k \in 0..m |-> IF k = 0 THEN first ELSE 2 * b[k - 1]]
           Missing == {m \in Nat : ~\E b : Is(b, m)}
<1>1. Missing = {}
  <2> SUFFICES ASSUME Missing # {} PROVE FALSE
    OBVIOUS
  <2>1. PICK m \in Missing : \A i \in Missing : m <= i
    BY Least
  <2>2. m # 0
    <3>1. Is([k \in 0..0 |-> first], 0)
      OBVIOUS
    <3> QED
      BY <2>1, <3>1
  <2>3. m \in Nat /\ m - 1 \in Nat /\ m - 1 \notin Missing
    <3>1. m \in Nat
      BY <2>1
    <3> HIDE DEF Missing
    <3> QED
      BY <2>1, <2>2, <3>1
  <2>4. PICK b : Is(b, m - 1)
    BY <2>3
  <2> DEFINE more == [k \in 0..m |-> IF k = 0 THEN first ELSE 2 * b[k - 1]]
  <2>5. \A k \in 0..(m - 1) : more[k] = b[k]
    BY <2>3, <2>4
  <2>6. ASSUME NEW k \in 0..m, k # 0 PROVE more[k - 1] = b[k - 1]
    <3>1. k - 1 \in 0..(m - 1)
      BY <2>3, <2>6
    <3> QED
      BY <2>5, <3>1
  <2>7. Is(more, m)
    BY <2>6
  <2> QED
    BY <2>1, <2>7
<1>2. \E b : Is(b, n)
  BY <1>1
<1>3. Is(CHOOSE b : Is(b, n), n)
  BY <1>2
<1>4. Doubling(first, n) = CHOOSE b : Is(b, n)
  BY DEF Doubling
<1> HIDE DEF Is
<1>5. Is(Doubling(first, n), n)
  BY <1>3, <1>4
<1> QED
  BY <1>5 DEF Is

\* They grow, so that anything fits in the end.
LEMMA DoublingGrows ==
  ASSUME NEW first \in Nat, first > 1, NEW n \in Nat
  PROVE  \A k \in 0..n : /\ Doubling(first, n)[k] \in Nat
                         /\ Doubling(first, n)[k] >= k + 2
<1> DEFINE b == Doubling(first, n)
           Small == {k \in 0..n : ~(b[k] \in Nat /\ b[k] >= k + 2)}
<1>1. /\ b[0] = first
      /\ \A k \in 0..n : k # 0 => b[k] = 2 * b[k - 1]
  <2>1. b = [k \in 0..n |-> IF k = 0 THEN first ELSE 2 * b[k - 1]]
    BY DoublingIs
  <2> HIDE DEF b
  <2> QED
    BY <2>1
<1> HIDE DEF b
<1> SUFFICES ASSUME Small # {} PROVE FALSE
  BY DEF b
<1>2. PICK k \in Small : \A i \in Small : k <= i
  <2>1. Small \subseteq Nat
    OBVIOUS
  <2> QED
    BY <2>1, Least
<1>3. k # 0
  BY <1>1, <1>2
<1>4. k - 1 \in 0..n /\ k \in 0..n /\ k - 1 \notin Small
  BY <1>2, <1>3
<1>5. b[k - 1] \in Nat /\ b[k - 1] >= (k - 1) + 2
  BY <1>4
<1>6. b[k] = 2 * b[k - 1]
  BY <1>1, <1>3, <1>4
<1> QED
  BY <1>2, <1>4, <1>5, <1>6

\* vsnprintf cuts nothing in the buffer that is used.
LEMMA FormattedWhole ==
  ASSUME NEW t \in Seq(Byte), NEW fmtlen \in Nat
  PROVE  Formatted(t, fmtlen) = t
<1> DEFINE first == IF 2 * fmtlen > StaticBuf THEN 2 * fmtlen ELSE StaticBuf
           n == Len(t)
           b == Doubling(first, n)
           Enough == {k \in 0..n : Fits(t, b[k])}
           Used(k) == /\ Fits(t, b[k])
                      /\ \A j \in 0..(k - 1) : ~Fits(t, b[j])
<1>1. first \in Nat /\ first > 1 /\ n \in Nat
  BY SdsSizes
<1> HIDE DEF first
<1>2. \A k \in 0..n : b[k] \in Nat /\ b[k] >= k + 2
  BY <1>1, DoublingGrows
<1>3. Formatted(t, fmtlen) =
        LET room == b[CHOOSE k \in 0..n : Used(k)] - 1
        IN  IF n <= room THEN t ELSE SubSeq(t, 1, room)
  BY DEF Formatted, first
<1> HIDE DEF n, b
<1>4. Enough \subseteq Nat /\ n \in Enough
  BY <1>1, <1>2 DEF Fits, n
<1>5. PICK k \in Enough : \A j \in Enough : k <= j
  BY <1>4, Least
<1>6. Used(k)
  <2>1. ASSUME NEW j \in 0..(k - 1) PROVE j \notin Enough /\ j \in 0..n
    BY <1>1, <1>5
  <2> QED
    BY <1>5, <2>1
<1>7. PICK c : c = CHOOSE j \in 0..n : Used(j)
  OBVIOUS
<1>8. c \in 0..n /\ Used(c)
  BY <1>5, <1>6, <1>7
<1>9. n <= b[c] - 1
  BY <1>1, <1>2, <1>8 DEF Fits, n
<1> HIDE DEF Used
<1> QED
  BY <1>3, <1>7, <1>9

----------------------------------------------------------------------------
(* Tokens *)

\* Tokens joined, and one more.
LEMMA JoinedAppend ==
  ASSUME NEW list \in Seq(Seq(Byte)), NEW x \in Seq(Byte)
  PROVE  /\ Joined(list) \in Seq(Byte)
         /\ Joined(Append(list, x)) = Joined(list) \o (IF list = <<>> THEN x ELSE <<SP>> \o x)
<1> DEFINE Separated(w) == [i \in DOMAIN w |-> IF i = 1 THEN w[i] ELSE <<SP>> \o w[i]]
           y == IF list = <<>> THEN x ELSE <<SP>> \o x
           t == Append(list, x)
<1>1. /\ Len(list) \in Nat /\ DOMAIN list = 1..Len(list) /\ \A i \in DOMAIN list : list[i] \in Seq(Byte)
      /\ DOMAIN t = 1..(Len(list) + 1) /\ t[Len(list) + 1] = x
      /\ \A i \in DOMAIN list : t[i] = list[i]
      /\ (list = <<>> <=> Len(list) = 0)
  OBVIOUS
<1>2. <<SP>> \in Seq(Byte) /\ \A w \in Seq(Byte) : <<SP>> \o w \in Seq(Byte)
  BY StringBytes DEF Byte
<1>3. y \in Seq(Byte)
  BY <1>2
<1>4. Separated(list) \in Seq(Seq(Byte)) /\ Len(Separated(list)) = Len(list)
  <2>1. \A i \in 1..Len(list) : Separated(list)[i] \in Seq(Byte)
    BY <1>1, <1>2
  <2>2. Separated(list) = [i \in 1..Len(list) |-> Separated(list)[i]]
    BY <1>1
  <2> HIDE DEF Separated
  <2> QED
    BY <1>1, <2>1, <2>2
<1> HIDE DEF t
<1>5. Separated(t) = Append(Separated(list), y)
  <2>1. \A i \in 1..(Len(list) + 1) :
          Separated(t)[i] = IF i = Len(list) + 1 THEN y ELSE Separated(list)[i]
    <3> SUFFICES ASSUME NEW i \in 1..(Len(list) + 1)
                 PROVE  Separated(t)[i] = IF i = Len(list) + 1 THEN y ELSE Separated(list)[i]
      OBVIOUS
    <3>1. Separated(t)[i] = IF i = 1 THEN t[i] ELSE <<SP>> \o t[i]
      BY <1>1
    <3>2. CASE i = Len(list) + 1
      BY <1>1, <3>1, <3>2
    <3>3. CASE i # Len(list) + 1
      <4>1. i \in DOMAIN list
        BY <1>1, <3>3
      <4>2. Separated(list)[i] = IF i = 1 THEN list[i] ELSE <<SP>> \o list[i]
        BY <4>1
      <4> QED
        BY <1>1, <3>1, <3>3, <4>1, <4>2
    <3> QED
      BY <3>2, <3>3
  <2>2. Separated(t) = [i \in 1..(Len(list) + 1) |-> Separated(t)[i]]
    BY <1>1
  <2> HIDE DEF Separated, y
  <2>3. Append(Separated(list), y) = [i \in 1..(Len(list) + 1) |->
                                     IF i = Len(list) + 1 THEN y ELSE Separated(list)[i]]
    <3>1. PICK q : q = Separated(list)
      OBVIOUS
    <3>2. q \in Seq(Seq(Byte)) /\ Len(q) = Len(list)
      BY <1>4, <3>1
    <3>3. PICK r : r = Append(q, y)
      OBVIOUS
    <3>4. /\ r \in Seq(Seq(Byte)) /\ Len(r) = Len(q) + 1 /\ r[Len(q) + 1] = y
          /\ \A i \in 1..Len(q) : r[i] = q[i]
      BY <1>3, <3>2, <3>3
    <3>5. r = [i \in 1..(Len(q) + 1) |-> r[i]]
      BY <3>4
    <3>6. \A i \in 1..(Len(q) + 1) : r[i] = IF i = Len(q) + 1 THEN y ELSE q[i]
      <4>1. Len(q) \in Nat
        BY <3>2
      <4>2. \A i \in 1..(Len(q) + 1) : i \in 1..Len(q) \/ i = Len(q) + 1
        BY <4>1
      <4> QED
        BY <3>4, <4>2
    <3> QED
      BY <3>1, <3>2, <3>3, <3>5, <3>6
  <2> QED
    BY <2>1, <2>2, <2>3
<1>6. Joined(list) = FlattenSeq(Separated(list)) /\ Joined(t) = FlattenSeq(Separated(t))
  BY DEF Joined
<1> HIDE DEF Separated, y
<1>7. /\ FlattenSeq(Separated(list)) \in Seq(Byte)
      /\ FlattenSeq(Append(Separated(list), y)) = FlattenSeq(Separated(list)) \o y
  BY <1>3, <1>4, Flattened
<1> QED
  BY <1>5, <1>6, <1>7 DEF t, y

\* The recursive functions of the model.
LEMMA MadeIs ==
  ASSUME NEW t \in Seq(Byte)
  PROVE  /\ Made(t)[0] = <<>>
         /\ \A j \in 1..Len(t) :
              Made(t)[j] = IF t[j] = SP
                             THEN Append(Made(t)[j - 1], sdsnewlen(Token(t, j - 1)))
                             ELSE Made(t)[j - 1]
<1> DEFINE n == Len(t)
           V == Seq(sdshdr)
           Is(f) == f = [j \in 0..n |->
                           IF j = 0 THEN <<>>
                           ELSE IF t[j] = SP
                             THEN Append(f[j - 1],
                                         sdsnewlen(SubSeq(t, TokenStart(t, j - 1), j - 1)))
                           ELSE f[j - 1]]
           step == [j \in 1..n |-> [a \in V |->
                      IF t[j] = SP THEN Append(a, sdsnewlen(Token(t, j - 1))) ELSE a]]
<1>1. n \in Nat /\ \A j \in 1..n : j - 1 \in 0..n
  OBVIOUS
<1>2. step \in [1..n -> [V -> V]]
  <2>1. \A j \in 1..n : sdsnewlen(Token(t, j - 1)) \in sdshdr
    <3> SUFFICES ASSUME NEW j \in 1..n PROVE sdsnewlen(Token(t, j - 1)) \in sdshdr
      OBVIOUS
    <3>1. Token(t, j - 1) \in Seq(Byte)
      BY <1>1, TokenSteps
    <3> QED
      BY <3>1, NewTrue DEF Header
  <2> HIDE DEF n
  <2>2. \A j \in 1..n : \A a \in V : Append(a, sdsnewlen(Token(t, j - 1))) \in V
    BY <2>1
  <2> QED
    BY <2>2
<1>3. PICK f \in [0..n -> V] : f[0] = <<>> /\ \A j \in 1..n : f[j] = step[j][f[j - 1]]
  <2>1. <<>> \in V
    OBVIOUS
  <2>2. PICK none : none = <<>>
    OBVIOUS
  <2> HIDE DEF n, V, step
  <2>3. \E f \in [0..n -> V] : Stepwise(f, n, none, step)
    BY <1>1, <1>2, <2>1, <2>2, Recursion
  <2> QED
    BY <2>2, <2>3 DEF Stepwise
<1>4. Is(f)
  <2>1. \A j \in 1..n : f[j - 1] \in V
    BY <1>1
  <2>2. \A j \in 1..n : f[j] = IF t[j] = SP THEN Append(f[j - 1], sdsnewlen(Token(t, j - 1)))
                                            ELSE f[j - 1]
    BY <1>3, <2>1
  <2>3. f = [j \in 0..n |-> f[j]] /\ \A j \in 0..n : j = 0 \/ j \in 1..n
    BY <1>1
  <2> HIDE DEF n, V, step
  <2> QED
    BY <1>3, <2>2, <2>3 DEF Token
<1>5. Made(t) = CHOOSE g : Is(g)
  BY DEF Made
<1> HIDE DEF Is
<1>6. Is(Made(t))
  BY <1>4, <1>5
<1>7. PICK g : g = Made(t)
  OBVIOUS
<1>8. g = [j \in 0..n |-> IF j = 0 THEN <<>>
                          ELSE IF t[j] = SP THEN Append(g[j - 1], sdsnewlen(Token(t, j - 1)))
                          ELSE g[j - 1]]
  BY <1>6, <1>7 DEF Is, Token
<1>9. g[0] = <<>>
  BY <1>1, <1>8
<1>10. ASSUME NEW j \in 1..n
       PROVE  g[j] = IF t[j] = SP THEN Append(g[j - 1], sdsnewlen(Token(t, j - 1)))
                                  ELSE g[j - 1]
  <2>1. j \in 0..n /\ j # 0
    BY <1>1
  <2> QED
    BY <1>8, <2>1, Zenon
<1> QED
  BY <1>7, <1>9, <1>10

LEMMA SlotsAre ==
  ASSUME NEW t \in Seq(Byte),
         \A j \in 0..Len(t) : Len(Made(t)[j]) \in Nat
  PROVE  /\ Slots(t)[0] = SLOTS
         /\ \A j \in 1..Len(t) :
              Slots(t)[j] = Room(Slots(t)[j - 1], Len(Made(t)[j - 1]))
<1> DEFINE n == Len(t)
           made(j) == Len(Made(t)[j])
           Is(f) == f = [j \in 0..n |-> IF j = 0 THEN SLOTS ELSE Room(f[j - 1], made(j - 1))]
           step == [j \in 1..n |-> [a \in Nat |-> Room(a, made(j - 1))]]
<1>1. n \in Nat /\ \A j \in 1..n : j - 1 \in 0..n
  OBVIOUS
<1>2. step \in [1..n -> [Nat -> Nat]]
  <2>1. \A j \in 1..n : made(j - 1) \in Nat
    BY <1>1
  <2> HIDE DEF n, made
  <2>2. \A j \in 1..n : \A a \in Nat : Room(a, made(j - 1)) \in Nat
    BY <2>1 DEF Room
  <2> QED
    BY <2>2
<1>3. PICK f \in [0..n -> Nat] : f[0] = SLOTS /\ \A j \in 1..n : f[j] = step[j][f[j - 1]]
  <2>1. SLOTS \in Nat
    BY SdsSizes
  <2> HIDE DEF n, step
  <2>2. \E f \in [0..n -> Nat] : Stepwise(f, n, SLOTS, step)
    BY <1>1, <1>2, <2>1, Recursion
  <2> QED
    BY <2>2 DEF Stepwise
<1>4. Is(f)
  <2>1. \A j \in 1..n : f[j - 1] \in Nat
    BY <1>1
  <2> HIDE DEF made
  <2>2. \A j \in 1..n : f[j] = Room(f[j - 1], made(j - 1))
    BY <1>3, <2>1
  <2>3. f = [j \in 0..n |-> f[j]] /\ \A j \in 0..n : j = 0 \/ j \in 1..n
    BY <1>1
  <2> HIDE DEF n, step
  <2> QED
    BY <1>3, <2>2, <2>3
<1>5. Slots(t) = CHOOSE g : Is(g)
  BY DEF Slots
<1> HIDE DEF Is, made
<1>6. Is(Slots(t))
  BY <1>4, <1>5
<1>7. PICK g : g = Slots(t)
  OBVIOUS
<1>8. g = [j \in 0..n |-> IF j = 0 THEN SLOTS ELSE Room(g[j - 1], made(j - 1))]
  BY <1>6, <1>7 DEF Is
<1>9. g[0] = SLOTS
  BY <1>1, <1>8
<1>10. ASSUME NEW j \in 1..n PROVE g[j] = Room(g[j - 1], made(j - 1))
  <2>1. j \in 0..n /\ j # 0
    BY <1>1
  <2> QED
    BY <1>8, <2>1, Zenon
<1> QED
  BY <1>7, <1>9, <1>10 DEF made

\* What was split after j bytes: the tokens made are those of Strings, and
\* with the token begun they are, joined, the bytes looked at.
SplitTo(t, j) ==
  /\ Cut(t)[j] \in Seq(Seq(Byte)) /\ Made(t)[j] \in Seq(sdshdr)
  /\ Len(Made(t)[j]) = Len(Cut(t)[j])
  /\ \A i \in 1..Len(Cut(t)[j]) : /\ Header(Made(t)[j][i])
                                  /\ Text(Made(t)[j][i]) = Cut(t)[j][i]
                                  /\ ~Contains(Cut(t)[j][i], SP)
  /\ Joined(Append(Cut(t)[j], Token(t, j))) = SubSeq(t, 1, j)

LEMMA SplitSteps ==
  ASSUME NEW t \in Seq(Byte)
  PROVE  \A j \in 0..Len(t) : SplitTo(t, j)
<1> DEFINE Bad == {j \in 0..Len(t) : ~SplitTo(t, j)}
<1> SUFFICES ASSUME Bad # {} PROVE FALSE
  OBVIOUS
<1>1. PICK j \in Bad : \A i \in Bad : j <= i
  <2>1. Bad \subseteq Nat
    OBVIOUS
  <2> QED
    BY <2>1, Least
<1>2. j \in 0..Len(t) /\ ~SplitTo(t, j) /\ j \in Nat /\ Len(t) \in Nat
  BY <1>1
<1>3. CASE j = 0
  <2>1. Cut(t)[0] = <<>> /\ Made(t)[0] = <<>> /\ Token(t, 0) = <<>>
    BY CutIs, MadeIs, TokenSteps
  <2>2. PICK none : none = <<>>
    OBVIOUS
  <2>3. /\ none \in Seq(Byte) /\ none \in Seq(Seq(Byte)) /\ none \in Seq(sdshdr)
        /\ Len(none) = 0 /\ SubSeq(t, 1, 0) = none /\ none \o none = none
    BY <2>2
  <2>4. Joined(Append(none, none)) = Joined(none) \o none
    BY <2>2, <2>3, JoinedAppend
  <2>5. Joined(none) = none
    BY <2>2 DEF Joined, FlattenSeq
  <2>6. SplitTo(t, 0)
    <3>1. Cut(t)[0] = none /\ Made(t)[0] = none /\ Token(t, 0) = none
      BY <2>1, <2>2
    <3>2. Joined(Append(none, none)) = SubSeq(t, 1, 0)
      BY <2>3, <2>4, <2>5
    <3>3. 1..Len(none) = {}
      BY <2>3
    <3> QED
      BY <2>3, <3>1, <3>2, <3>3 DEF SplitTo
  <2> QED
    BY <1>2, <1>3, <2>6
<1>4. CASE j # 0
  <2>1. j \in 1..Len(t) /\ j - 1 \in 0..Len(t) /\ j - 1 \notin Bad
    BY <1>1, <1>2, <1>4
  <2>2. SplitTo(t, j - 1)
    BY <2>1
  <2>3. PICK cut, made, token : /\ cut = Cut(t)[j - 1] /\ made = Made(t)[j - 1]
                                /\ token = Token(t, j - 1)
    OBVIOUS
  <2>4. /\ cut \in Seq(Seq(Byte)) /\ made \in Seq(sdshdr) /\ Len(made) = Len(cut)
        /\ \A i \in 1..Len(cut) : /\ Header(made[i]) /\ Text(made[i]) = cut[i]
                                  /\ ~Contains(cut[i], SP)
        /\ Joined(Append(cut, token)) = SubSeq(t, 1, j - 1)
    BY <2>2, <2>3 DEF SplitTo
  <2>5. token \in Seq(Byte) /\ ~Contains(token, SP)
    BY <2>1, <2>3, TokenSteps
  <2>6. t[j] \in Byte /\ SubSeq(t, 1, j) = Append(SubSeq(t, 1, j - 1), t[j])
    BY <1>2, <2>1
  <2>7. CASE t[j] = SP
    <3>1. PICK cut2, made2, x : /\ cut2 = Append(cut, token) /\ x = sdsnewlen(token)
                                /\ made2 = Append(made, x)
      OBVIOUS
    <3>2. Cut(t)[j] = cut2 /\ Made(t)[j] = made2 /\ Token(t, j) = <<>>
      BY <2>1, <2>3, <2>7, <3>1, CutIs, MadeIs, TokenSteps
    <3>3. Header(x) /\ x \in sdshdr /\ Text(x) = token
      BY <2>5, <3>1, NewTrue DEF Header
    <3>4. /\ cut2 \in Seq(Seq(Byte)) /\ Len(cut2) = Len(cut) + 1 /\ cut2[Len(cut) + 1] = token
          /\ made2 \in Seq(sdshdr) /\ Len(made2) = Len(cut) + 1 /\ made2[Len(cut) + 1] = x
          /\ \A i \in 1..Len(cut) : cut2[i] = cut[i] /\ made2[i] = made[i]
      BY <2>4, <2>5, <3>1, <3>3
    <3>5. \A i \in 1..(Len(cut) + 1) : i \in 1..Len(cut) \/ i = Len(cut) + 1
      BY <2>4
    <3>6. \A i \in 1..Len(cut2) : /\ Header(made2[i]) /\ Text(made2[i]) = cut2[i]
                                  /\ ~Contains(cut2[i], SP)
      BY <2>4, <2>5, <3>3, <3>4, <3>5
    <3>7. Joined(Append(cut2, <<>>)) = SubSeq(t, 1, j)
      <4>1. PICK none, one : none = <<>> /\ one = <<SP>>
        OBVIOUS
      <4>2. none \in Seq(Byte) /\ cut2 # <<>> /\ one \o none = one
        BY <3>4, <4>1
      <4>3. Joined(Append(cut2, none)) = Joined(cut2) \o (IF cut2 = <<>> THEN none ELSE one \o none)
        BY <3>4, <4>1, <4>2, JoinedAppend
      <4>4. PICK q : q = SubSeq(t, 1, j - 1)
        OBVIOUS
      <4>5. Joined(cut2) = q /\ q \in Seq(Byte)
        BY <2>4, <3>1, <4>4
      <4>6. q \o one = Append(q, SP)
        BY <4>1, <4>5
      <4> QED
        BY <2>6, <2>7, <4>1, <4>2, <4>3, <4>4, <4>5, <4>6
    <3>8. SplitTo(t, j)
      BY <3>2, <3>4, <3>6, <3>7 DEF SplitTo
    <3> QED
      BY <1>2, <3>8
  <2>8. CASE t[j] # SP
    <3>1. PICK token2 : token2 = Append(token, t[j])
      OBVIOUS
    <3>2. Cut(t)[j] = cut /\ Made(t)[j] = made /\ Token(t, j) = token2
      BY <2>1, <2>3, <2>8, <3>1, CutIs, MadeIs, TokenSteps
    <3>3. Joined(Append(cut, token2)) = SubSeq(t, 1, j)
      <4>1. token2 \in Seq(Byte)
        BY <2>5, <2>6, <3>1
      <4>2. PICK a, b, b2 : /\ a = Joined(cut)
                            /\ b = (IF cut = <<>> THEN token ELSE <<SP>> \o token)
                            /\ b2 = (IF cut = <<>> THEN token2 ELSE <<SP>> \o token2)
        OBVIOUS
      <4>3. /\ a \in Seq(Byte) /\ Joined(Append(cut, token)) = a \o b
            /\ Joined(Append(cut, token2)) = a \o b2
        BY <2>4, <2>5, <4>1, <4>2, JoinedAppend
      <4>4. b \in Seq(Byte) /\ b2 = Append(b, t[j])
        <5>1. <<SP>> \in Seq(Byte)
          BY StringBytes DEF Byte
        <5>2. PICK one : one = <<SP>>
          OBVIOUS
        <5>3. one \o token \in Seq(Byte) /\ one \o Append(token, t[j]) = Append(one \o token, t[j])
          BY <2>5, <2>6, <5>1, <5>2
        <5> QED
          BY <2>5, <3>1, <4>2, <5>2, <5>3
      <4>5. a \o Append(b, t[j]) = Append(a \o b, t[j])
        BY <2>6, <4>3, <4>4
      <4> QED
        BY <2>4, <2>6, <4>3, <4>4, <4>5
    <3>4. SplitTo(t, j)
      BY <2>4, <3>2, <3>3 DEF SplitTo
    <3> QED
      BY <1>2, <3>4
  <2> QED
    BY <2>7, <2>8
<1> QED
  BY <1>3, <1>4

\* The array has room for the token begun, too.
LEMMA SlotsEnough ==
  ASSUME NEW t \in Seq(Byte)
  PROVE  \A j \in 0..Len(t) :
           Slots(t)[j] \in Nat /\ Slots(t)[j] >= Len(Cut(t)[j]) + 1
<1> DEFINE Enough(j) == Slots(t)[j] \in Nat /\ Slots(t)[j] >= Len(Cut(t)[j]) + 1
           Bad == {j \in 0..Len(t) : ~Enough(j)}
<1> SUFFICES ASSUME Bad # {} PROVE FALSE
  OBVIOUS
<1>1. PICK j \in Bad : \A i \in Bad : j <= i
  <2>1. Bad \subseteq Nat
    OBVIOUS
  <2> HIDE DEF Bad
  <2> QED
    BY <2>1, Least
<1>2. j \in 0..Len(t) /\ ~Enough(j) /\ j \in Nat
  BY <1>1
<1>3. \A i \in 0..Len(t) : /\ Len(Cut(t)[i]) \in Nat /\ Len(Made(t)[i]) = Len(Cut(t)[i])
                           /\ Cut(t)[i] \in Seq(Seq(Byte))
  BY SplitSteps DEF SplitTo
<1>4. /\ Slots(t)[0] = SLOTS
      /\ \A i \in 1..Len(t) : Slots(t)[i] = Room(Slots(t)[i - 1], Len(Made(t)[i - 1]))
  BY <1>3, SlotsAre
<1>5. CASE j = 0
  <2>1. Cut(t)[0] = <<>> /\ Len(<<>>) = 0
    BY CutIs
  <2>2. SLOTS \in Nat /\ SLOTS >= 0 + 1
    BY SdsSizes
  <2> QED
    BY <1>2, <1>4, <1>5, <2>1, <2>2
<1>6. CASE j # 0
  <2>1. j \in 1..Len(t) /\ j - 1 \in 0..Len(t) /\ ~(j <= j - 1)
    BY <1>2, <1>6
  <2>2. Enough(j - 1)
    BY <1>1, <2>1
  <2>3. PICK slots, n : slots = Slots(t)[j - 1] /\ n = Len(Cut(t)[j - 1])
    OBVIOUS
  <2>4. slots \in Nat /\ n \in Nat /\ slots >= n + 1 /\ Slots(t)[j] = Room(slots, n)
    BY <1>3, <1>4, <2>1, <2>2, <2>3
  <2>5. Room(slots, n) \in Nat /\ Room(slots, n) >= n + 2
    BY <2>4 DEF Room
  <2>6. Len(Cut(t)[j]) <= n + 1
    <3>1. CASE t[j] = SP
      <4>1. PICK cut : cut = Cut(t)[j - 1]
        OBVIOUS
      <4>2. Cut(t)[j] = Append(cut, Token(t, j - 1)) /\ cut \in Seq(Seq(Byte))
        BY <1>3, <2>1, <3>1, <4>1, CutIs
      <4>3. Len(Append(cut, Token(t, j - 1))) = Len(cut) + 1
        BY <4>2
      <4> QED
        BY <2>3, <2>4, <4>1, <4>2, <4>3
    <3>2. CASE t[j] # SP
      BY <2>1, <2>3, <2>4, <3>2, CutIs
    <3> QED
      BY <3>1, <3>2
  <2>7. Len(Cut(t)[j]) \in Nat
    BY <1>2, <1>3
  <2> QED
    BY <1>2, <2>4, <2>5, <2>6, <2>7
<1> QED
  BY <1>5, <1>6

\* What the whole split returns.
Splits(k, t) ==
  LET texts == [i \in DOMAIN k.elems |-> Text(k.elems[i])]
  IN  /\ Len(texts) <= k.slots
      /\ \A i \in DOMAIN texts : WellFormed(k.elems[i]) /\ ~Contains(texts[i], SP)
      /\ IF t = <<>> THEN texts = <<>> ELSE Joined(texts) = t
      /\ texts = Tokens(t)

LEMMA SplitIs ==
  ASSUME NEW t \in Seq(Byte)
  PROVE  Splits(sdssplitlen(t), t)
<1> DEFINE n == Len(t)
<1>1. n \in Nat /\ n \in 0..n /\ (n = 0 <=> t = <<>>)
  OBVIOUS
<1>2. PICK k : k = sdssplitlen(t)
  OBVIOUS
<1>3. PICK cut, made, token, x : /\ cut = Cut(t)[n] /\ made = Made(t)[n]
                                 /\ token = Token(t, n) /\ x = sdsnewlen(token)
  OBVIOUS
<1>4. k.slots = Slots(t)[n] /\ k.elems = IF n = 0 THEN <<>> ELSE Append(made, x)
  BY <1>2, <1>3 DEF sdssplitlen, Token
<1>5. Tokens(t) = IF t = <<>> THEN <<>> ELSE Append(cut, token)
  BY <1>3 DEF Tokens
<1>6. /\ cut \in Seq(Seq(Byte)) /\ made \in Seq(sdshdr) /\ Len(made) = Len(cut)
      /\ \A i \in 1..Len(cut) : /\ Header(made[i]) /\ Text(made[i]) = cut[i]
                                /\ ~Contains(cut[i], SP)
      /\ Joined(Append(cut, token)) = SubSeq(t, 1, n)
  BY <1>1, <1>3, SplitSteps DEF SplitTo
<1>7. /\ token \in Seq(Byte) /\ ~Contains(token, SP)
      /\ Header(x) /\ x \in sdshdr /\ Text(x) = token
  BY <1>1, <1>3, TokenSteps, NewTrue DEF Header
<1>8. k.slots \in Nat /\ k.slots >= Len(cut) + 1
  BY <1>1, <1>3, <1>4, SlotsEnough
<1> HIDE DEF n
<1> DEFINE texts == [i \in DOMAIN k.elems |-> Text(k.elems[i])]
<1>9. CASE t = <<>>
  <2>1. k.elems = <<>> /\ Tokens(t) = <<>>
    BY <1>1, <1>4, <1>5, <1>9
  <2>2. texts = <<>> /\ DOMAIN texts = {} /\ Len(<<>>) = 0 /\ 0 <= k.slots
    BY <1>6, <1>8, <2>1
  <2> QED
    BY <1>2, <1>9, <2>1, <2>2 DEF Splits
<1>10. CASE t # <<>>
  <2>1. PICK elems, tokens2 : elems = Append(made, x) /\ tokens2 = Append(cut, token)
    OBVIOUS
  <2>2. k.elems = elems /\ Tokens(t) = tokens2
    BY <1>1, <1>4, <1>5, <1>10, <2>1
  <2>3. /\ tokens2 \in Seq(Seq(Byte)) /\ Len(tokens2) = Len(cut) + 1 /\ tokens2[Len(cut) + 1] = token
        /\ elems \in Seq(sdshdr) /\ Len(elems) = Len(cut) + 1 /\ elems[Len(cut) + 1] = x
        /\ \A i \in 1..Len(cut) : tokens2[i] = cut[i] /\ elems[i] = made[i]
        /\ Len(cut) \in Nat
    BY <1>6, <1>7, <2>1
  <2>4. \A i \in 1..(Len(cut) + 1) : i \in 1..Len(cut) \/ i = Len(cut) + 1
    BY <2>3
  <2>5. \A i \in 1..Len(tokens2) : /\ WellFormed(elems[i]) /\ Text(elems[i]) = tokens2[i]
                                   /\ ~Contains(tokens2[i], SP)
    BY <1>6, <1>7, <2>3, <2>4 DEF Header
  <2>6. DOMAIN elems = 1..Len(tokens2) /\ tokens2 = [i \in 1..Len(tokens2) |-> tokens2[i]]
    BY <2>3
  <2>7. texts = tokens2
    BY <2>2, <2>5, <2>6
  <2>8. Joined(tokens2) = t
    <3>1. SubSeq(t, 1, n) = t
      BY DEF n
    <3> QED
      BY <1>6, <2>1, <3>1
  <2>9. DOMAIN texts = 1..Len(tokens2) /\ Len(texts) <= k.slots
    BY <1>8, <2>3, <2>6, <2>7
  <2> HIDE DEF texts
  <2>10. \A i \in DOMAIN texts : WellFormed(k.elems[i]) /\ ~Contains(texts[i], SP)
    BY <2>2, <2>5, <2>7, <2>9
  <2> QED
    BY <1>2, <1>10, <2>2, <2>7, <2>8, <2>9, <2>10 DEF Splits, texts
<1> QED
  BY <1>9, <1>10

----------------------------------------------------------------------------
(* What a step makes of the string *)

LEMMA NewStep ==
  ASSUME NEW t \in Pieces, New(t)
  PROVE  HeaderInv' /\ s = NULL /\ s' # NULL /\ Text(s') = t
<1>1. t \in Seq(Byte) /\ s' = sdsnewlen(t) /\ s = NULL
  BY SdsBytes DEF New
<1>2. Header(s') /\ Text(s') = t
  BY <1>1, NewTrue
<1> QED
  BY <1>1, <1>2, SdsNull DEF HeaderInv, Header

LEMMA AppendStep ==
  ASSUME HeaderInv, s # NULL, NEW t \in Seq(Byte), Change(sdscatlen(s, t))
  PROVE  HeaderInv' /\ s' # NULL /\ Text(s') = Text(s) \o t
<1>1. Header(s) /\ s' = sdscatlen(s, t)
  BY DEF HeaderInv, Header, Change
<1>2. Header(s') /\ Text(s') = Text(s) \o t
  BY <1>1, CatTrue
<1> QED
  BY <1>2, SdsNull DEF HeaderInv, Header

LEMMA PiecesStep ==
  ASSUME HeaderInv, NEW t \in Pieces,
         sdscat(t) \/ \E n \in {0, StaticBuf} : sdscatprintf(t, n)
  PROVE  HeaderInv' /\ s # NULL /\ s' # NULL /\ Text(s') = Text(s) \o CString(t)
<1>1. CString(t) \in Seq(Byte)
  BY SdsBytes, CStringBytes
<1>2. \A n \in {0, StaticBuf} : Formatted(CString(t), n) = CString(t)
  BY <1>1, SdsSizes, FormattedWhole
<1>3. s # NULL /\ Change(sdscatlen(s, CString(t)))
  BY <1>2 DEF sdscat, sdscatprintf
<1> QED
  BY <1>1, <1>3, AppendStep

LEMMA TrimStep ==
  ASSUME HeaderInv, Trim
  PROVE  HeaderInv' /\ s # NULL /\ s' # NULL /\ Text(s') = Trimmed(Text(s))
<1>1. Header(s) /\ s' = sdstrim(s) /\ s # NULL
  BY DEF HeaderInv, Header, Change, Trim
<1>2. Header(s') /\ Text(s') = Trimmed(Text(s))
  BY <1>1, TrimTrue
<1> QED
  BY <1>1, <1>2, SdsNull DEF HeaderInv, Header

LEMMA InitHeader == Init => HeaderInv
BY DEF Init, HeaderInv

LEMMA NextHeader == HeaderInv /\ [Next]_svars => HeaderInv'
<1> SUFFICES ASSUME HeaderInv, [Next]_svars PROVE HeaderInv'
  OBVIOUS
<1>1. ASSUME NEW t \in Pieces, New(t) PROVE HeaderInv'
  BY <1>1, NewStep
<1>2. ASSUME NEW t \in Pieces,
             sdscat(t) \/ \E n \in {0, StaticBuf} : sdscatprintf(t, n)
      PROVE  HeaderInv'
  BY <1>2, PiecesStep
<1>3. CASE Trim
  BY <1>3, TrimStep
<1>4. CASE sdsfree
  BY <1>4 DEF sdsfree, HeaderInv
<1>5. CASE Split \/ sdsfreesplitres \/ UNCHANGED svars
  <2>1. s' = s
    BY <1>5 DEF Split, sdsfreesplitres, svars
  <2> QED
    BY <2>1 DEF HeaderInv
<1> QED
  BY <1>1, <1>2, <1>3, <1>4, <1>5 DEF Next

\* No field of a header wraps, a header tells the room that is behind it, and
\* sdscatlen writes into that room only.
THEOREM HeadersAreTrue == Spec => []HeaderTrue
<1>1. HeaderInv => HeaderTrue
  BY DEF HeaderInv, HeaderTrue
<1> QED
  BY <1>1, InitHeader, NextHeader, PTL DEF Spec

LEMMA NextTokens == TokensInv /\ [Next]_svars => TokensInv'
<1> SUFFICES ASSUME TokensInv, [Next]_svars PROVE TokensInv'
  OBVIOUS
<1>1. CASE \E t \in Pieces : \/ New(t) \/ sdscat(t)
                             \/ \E fmtlen \in {0, StaticBuf} : sdscatprintf(t, fmtlen)
  BY <1>1 DEF New, sdscat, sdscatprintf, Change, TokensInv
<1>2. CASE Trim \/ sdsfree
  BY <1>2 DEF Trim, sdsfree, Change, TokensInv
<1>3. CASE Split
  BY <1>3 DEF Split, TokensInv
<1>4. CASE sdsfreesplitres
  BY <1>4 DEF sdsfreesplitres, TokensInv
<1>5. CASE UNCHANGED svars
  BY <1>5 DEF svars, TokensInv
<1> QED
  BY <1>1, <1>2, <1>3, <1>4, <1>5 DEF Next

\* sdssplitlen never writes behind its array of tokens, however often it
\* doubles it; no token contains a separator, and joined by separators they
\* are the line that was split, byte for byte.
THEOREM LinesSplitWhole == Spec => []SplitWhole
<1>1. HeaderInv /\ TokensInv => SplitWhole
  <2> SUFFICES ASSUME HeaderInv, TokensInv, s # NULL, tokens # NULL PROVE SplitWhole
    BY DEF SplitWhole
  <2>1. PICK t, k : t = Text(s) /\ k = tokens
    OBVIOUS
  <2>2. t \in Seq(Byte) /\ Len(t) = s.len
    BY <2>1, HeaderText DEF HeaderInv, Header
  <2>3. Splits(k, t)
    BY <2>1, <2>2, SplitIs DEF TokensInv
  <2>4. s.len = 0 <=> t = <<>>
    BY <2>2
  <2> QED
    BY <2>1, <2>3, <2>4 DEF Splits, SplitWhole
<1>2. Init => TokensInv
  BY DEF Init, TokensInv
<1> QED
  BY <1>1, <1>2, InitHeader, NextHeader, NextTokens, PTL DEF Spec

\* Every function of the library does to the text what ByteString says, with
\* the whole of its argument, whichever type and buffer it uses.
THEOREM TextIsKept == Spec => KeepsText
<1>1. ASSUME HeaderInv, [Next]_svars
      PROVE  /\ \A t \in Pieces :
                  /\ New(t) => TextOf!BNew(t)
                  /\ sdscat(t) => TextOf!BAppend(CString(t))
                  /\ \A n \in {0, StaticBuf} :
                       sdscatprintf(t, n) => TextOf!BAppend(CString(t))
             /\ Trim => TextOf!BTrim
             /\ sdsfree => TextOf!BFree
             /\ Split \/ sdsfreesplitres => UNCHANGED s
  <2>1. s # NULL => Text(s) # NULL
    BY <1>1, HeaderText, SdsBytes DEF HeaderInv, Header
  <2>2. ASSUME NEW t \in Pieces, New(t) PROVE TextOf!BNew(t)
    BY <2>2, NewStep DEF TextOf!BNew
  <2>3. ASSUME NEW t \in Pieces,
               sdscat(t) \/ \E n \in {0, StaticBuf} : sdscatprintf(t, n)
        PROVE  TextOf!BAppend(CString(t))
    BY <1>1, <2>1, <2>3, PiecesStep DEF TextOf!BAppend
  <2>4. ASSUME Trim PROVE TextOf!BTrim
    <3>1. TextOf!Trimmed(Text(s)) = Trimmed(Text(s))
      BY DEF TextOf!Trimmed, Trimmed
    <3> QED
      BY <1>1, <2>1, <2>4, <3>1, TrimStep DEF TextOf!BTrim
  <2>5. ASSUME sdsfree PROVE TextOf!BFree
    BY <2>1, <2>5 DEF sdsfree, TextOf!BFree
  <2> QED
    BY <2>2, <2>3, <2>4, <2>5 DEF Split, sdsfreesplitres
<1> QED
  BY <1>1, InitHeader, NextHeader, PTL DEF Spec, KeepsText
============================================================================
