---------------------------- MODULE InputProofs ----------------------------
(***************************************************************************)
(* The lines handed to incoming_command are the lines that were sent, for  *)
(* any bytes but NUL, cut into chunks of any size: InputInv of             *)
(* InputProperties is inductive.  What parse_string makes of every line: the *)
(* lines for which it leaves something unset, branch by branch, and the    *)
(* arguments of every line the protocol has.                               *)
(***************************************************************************)
EXTENDS InputProperties, StringLemmas

----------------------------------------------------------------------------
(* Where lines end *)

\* All of a sequence without NUL is a C string.
LEMMA CStringWhole ==
  ASSUME NEW t \in Seq(Byte), ~Contains(t, NUL)
  PROVE  CString(t) = t
<1> DEFINE Before(n) == /\ \A i \in 1..n : t[i] # NUL
                        /\ n < Len(t) => t[n + 1] = NUL
<1>1. \A i \in 1..Len(t) : t[i] # NUL
  BY DEF Contains
<1>2. Len(t) \in 0..Len(t) /\ Before(Len(t))
  BY <1>1
<1>3. ASSUME NEW n \in 0..Len(t), Before(n) PROVE n = Len(t)
  BY <1>1, <1>3
<1> HIDE DEF Before
<1>4. (CHOOSE n \in 0..Len(t) : Before(n)) = Len(t)
  BY <1>2, <1>3
<1>5. CString(t) = SubSeq(t, 1, CHOOSE n \in 0..Len(t) : Before(n))
  BY DEF CString, Before
<1>6. SubSeq(t, 1, Len(t)) = t
  BY SubSeqFull
<1> QED
  BY <1>4, <1>5, <1>6

\* The place of the first LF.
FirstLF(s) == FirstOf(s, LF)

LEMMA FirstLFIs ==
  ASSUME NEW T, NEW s \in Seq(T)
  PROVE  \/ FirstLF(s) = 0 /\ ~Contains(s, LF)
         \/ /\ FirstLF(s) \in 1..Len(s) /\ s[FirstLF(s)] = LF
            /\ \A i \in 1..(FirstLF(s) - 1) : s[i] # LF
BY FirstOfIs DEF FirstLF

\* A sequence that ends in its only LF is one line.
LEMMA OneLineIs ==
  ASSUME NEW T, NEW s \in Seq(T), Len(s) > 0, s[Len(s)] = LF,
         \A i \in 1..(Len(s) - 1) : s[i] # LF
  PROVE  OneLine(s)
<1>1. Len(s) \in Nat /\ Len(s) \in 1..Len(s)
  OBVIOUS
<1>2. Contains(s, LF)
  BY <1>1 DEF Contains
<1>3. /\ FirstLF(s) \in 1..Len(s) /\ s[FirstLF(s)] = LF
  BY <1>2, FirstLFIs
<1>4. FirstLF(s) = Len(s)
  BY <1>1, <1>3
<1> QED
  BY <1>4 DEF OneLine, FirstLF, FirstOf

\* CR LF at the end of a sequence.
Ending(s) == Len(s) >= 2 /\ s[Len(s) - 1] = CR /\ s[Len(s)] = LF

LEMMA SuffixIs ==
  ASSUME NEW T, NEW s \in Seq(T), IsSuffix(<<CR, LF>>, s)
  PROVE  Ending(s)
<1> DEFINE r == Reverse(<<CR, LF>>)
           q == Reverse(s)
<1>1. Len(r) = 2 /\ r[1] = LF /\ r[2] = CR
  BY DEF Reverse
<1>2. /\ Len(q) = Len(s) /\ Len(s) \in Nat
      /\ \A i \in 1..Len(s) : q[i] = s[(Len(s) - i) + 1]
  BY DEF Reverse
<1>3. Len(r) <= Len(q) /\ SubSeq(r, 1, Len(r)) = SubSeq(q, 1, Len(r))
  BY DEF IsSuffix, IsPrefix
<1>4. r \in Seq({CR, LF}) /\ q \in Seq(T)
  BY DEF Reverse
<1> HIDE DEF r, q
<1>5. Len(s) >= 2
  BY <1>1, <1>2, <1>3
<1>6. /\ SubSeq(r, 1, 2)[1] = r[1] /\ SubSeq(r, 1, 2)[2] = r[2]
      /\ SubSeq(q, 1, 2)[1] = q[1] /\ SubSeq(q, 1, 2)[2] = q[2]
  <2>1. \A i \in 1..((2 - 1) + 1) : SubSeq(r, 1, 2)[i] = r[(1 + i) - 1]
    BY <1>4, <1>1, PartIs
  <2>2. \A i \in 1..((2 - 1) + 1) : SubSeq(q, 1, 2)[i] = q[(1 + i) - 1]
    BY <1>4, <1>2, <1>5, PartIs
  <2> QED
    BY <2>1, <2>2
<1>7. q[1] = LF /\ q[2] = CR
  BY <1>1, <1>3, <1>6
<1>8. q[1] = s[Len(s)] /\ q[2] = s[Len(s) - 1]
  BY <1>2, <1>5
<1> QED
  BY <1>5, <1>7, <1>8 DEF Ending

\* What becomes of a line, up to its LF, and that it can be told from it.
LEMMA StrippedLine ==
  ASSUME NEW full \in Seq(Byte), Len(full) > 0, full[Len(full)] = LF,
         \A i \in 1..(Len(full) - 1) : full[i] # LF, NEW piece
  PROVE  LET line == Stripped(full, piece)
         IN  /\ line \in Seq(Byte) /\ Unsent(line) = full
             /\ ~IsSuffix(<<CR, LF>>, line)
<1> DEFINE line == Stripped(full, piece)
           n == Len(full)
<1>1. n \in Nat /\ n > 0 /\ CR # LF
  BY InputBytes
<1>4. ASSUME n >= 2
      PROVE  LET two == SubSeq(full, n - 1, n)
             IN  /\ two \in Seq(Byte) /\ Len(two) = 2
                 /\ two[1] = full[n - 1] /\ two[2] = full[n]
  <2>1. n - 1 \in Nat \ {0} /\ n - 1 <= n + 1 /\ n <= Len(full)
    BY <1>1, <1>4
  <2>2. /\ (n - (n - 1)) + 1 = 2 /\ ((n - 1) + 1) - 1 = n - 1
        /\ ((n - 1) + 2) - 1 = n
    BY <1>1
  <2> HIDE DEF n
  <2> DEFINE two == SubSeq(full, n - 1, n)
  <2>3. /\ two \in Seq(Byte) /\ Len(two) = (n - (n - 1)) + 1
        /\ \A i \in 1..((n - (n - 1)) + 1) : two[i] = full[((n - 1) + i) - 1]
    <3> HIDE DEF two
    <3> SUFFICES /\ SubSeq(full, n - 1, n) \in Seq(Byte)
                 /\ Len(SubSeq(full, n - 1, n)) = (n - (n - 1)) + 1
                 /\ \A i \in 1..((n - (n - 1)) + 1) :
                      SubSeq(full, n - 1, n)[i] = full[((n - 1) + i) - 1]
      BY DEF two
    <3> QED
      BY <1>1, <2>1, PartIs
  <2> HIDE DEF two
  <2>4. two[1] = full[((n - 1) + 1) - 1] /\ two[2] = full[((n - 1) + 2) - 1]
    BY <2>2, <2>3
  <2> QED
    BY <2>2, <2>3, <2>4 DEF two
<1>2. CASE n >= 2 /\ SubSeq(full, n - 1, n) = <<CR, LF>>
  <2>1. line = SubSeq(full, 1, n - 2)
    BY <1>2 DEF Stripped
  <2>2. line \in Seq(Byte) /\ Len(line) = n - 2
        /\ \A i \in 1..(n - 2) : line[i] = full[i]
    <3>1. 1 \in Nat \ {0} /\ n - 2 \in Nat /\ 1 <= (n - 2) + 1 /\ n - 2 <= Len(full)
      BY <1>1, <1>2
    <3>2. ((n - 2) - 1) + 1 = n - 2 /\ \A i \in 1..(n - 2) : (1 + i) - 1 = i
      BY <3>1
    <3> HIDE DEF n, line
    <3>3. /\ SubSeq(full, 1, n - 2) \in Seq(Byte)
          /\ Len(SubSeq(full, 1, n - 2)) = ((n - 2) - 1) + 1
          /\ \A i \in 1..(((n - 2) - 1) + 1) :
               SubSeq(full, 1, n - 2)[i] = full[(1 + i) - 1]
      BY <3>1, PartIs
    <3> QED
      BY <2>1, <3>2, <3>3
  <2>3. full[n - 1] = CR /\ full[n] = LF
    <3>1. /\ SubSeq(full, n - 1, n)[1] = full[n - 1]
          /\ SubSeq(full, n - 1, n)[2] = full[n]
      BY <1>2, <1>4
    <3>2. <<CR, LF>>[1] = CR /\ <<CR, LF>>[2] = LF
      OBVIOUS
    <3> QED
      BY <1>2, <3>1, <3>2
  <2> HIDE DEF line
  <2>4. line \o <<CR, LF>> = full
    <3>1. /\ Len(line \o <<CR, LF>>) = n
          /\ \A i \in 1..(n - 2) : (line \o <<CR, LF>>)[i] = full[i]
          /\ (line \o <<CR, LF>>)[n - 1] = CR /\ (line \o <<CR, LF>>)[n] = LF
      BY <1>1, <1>2, <2>2
    <3>2. \A i \in 1..n : i \in 1..(n - 2) \/ i = n - 1 \/ i = n
      BY <1>1
    <3>3. line \o <<CR, LF>> \in Seq(Byte)
      BY <2>2, InputBytes DEF Byte
    <3>4. \A i \in 1..n : (line \o <<CR, LF>>)[i] = full[i]
      BY <2>3, <3>1, <3>2
    <3> HIDE DEF n
    <3> QED
      BY <3>1, <3>3, <3>4, SeqEqual DEF n
  <2>5. line = <<>> \/ line[Len(line)] # LF
    BY <1>1, <2>2
  <2>6. ~Ending(line)
    BY <1>1, <2>2 DEF Ending
  <2> QED
    BY <2>2, <2>4, <2>5, <2>6, SuffixIs DEF Unsent, line
<1>3. CASE ~(n >= 2 /\ SubSeq(full, n - 1, n) = <<CR, LF>>)
  <2>1. line = full
    BY <1>3 DEF Stripped
  <2>2. full # <<>>
    BY <1>1
  <2>3. Ending(full) => SubSeq(full, n - 1, n) = <<CR, LF>>
    <3> SUFFICES ASSUME Ending(full) PROVE SubSeq(full, n - 1, n) = <<CR, LF>>
      OBVIOUS
    <3>1. n >= 2 /\ full[n - 1] = CR /\ full[n] = LF
      BY DEF Ending
    <3>2. <<CR, LF>> \in Seq(Byte)
      BY InputBytes DEF Byte
    <3> DEFINE two == SubSeq(full, n - 1, n)
    <3>3. two \in Seq(Byte) /\ Len(two) = 2 /\ two[1] = CR /\ two[2] = LF
      BY <1>4, <3>1
    <3> HIDE DEF two
    <3>4. two = <<CR, LF>>
      BY <3>2, <3>3, SeqEqual
    <3> QED
      BY <3>4 DEF two
  <2>4. ~Ending(full)
    BY <1>3, <2>3 DEF Ending
  <2> QED
    BY <2>1, <2>2, <2>4, SuffixIs DEF Unsent
<1> QED
  BY <1>2, <1>3

----------------------------------------------------------------------------
(* LinesAsSent of a state, as an operator, and what keeps it *)

RawOf(ls) == [i \in DOMAIN ls |-> Unsent(ls[i])]
AsSent(ls, cs, buf, rec) ==
  /\ FlattenSeq(RawOf(ls)) \o cs \o buf = rec
  /\ \A i \in DOMAIN RawOf(ls) : OneLine(RawOf(ls)[i])
  /\ \A i \in DOMAIN ls : ~IsSuffix(<<CR, LF>>, ls[i])
  /\ ~Contains(cs, LF)

LEMMA ContainsOf ==
  ASSUME NEW T, NEW r \in Seq(T), NEW s \in Seq(T), NEW c
  PROVE  Contains(r \o s, c) <=> Contains(r, c) \/ Contains(s, c)
<1>1. /\ Len(r \o s) = Len(r) + Len(s) /\ Len(r) \in Nat /\ Len(s) \in Nat
      /\ \A i \in 1..(Len(r) + Len(s)) :
           (r \o s)[i] = IF i <= Len(r) THEN r[i] ELSE s[i - Len(r)]
  OBVIOUS
<1>2. ASSUME Contains(r, c) PROVE Contains(r \o s, c)
  <2>1. PICK i \in 1..Len(r) : r[i] = c
    BY <1>2 DEF Contains
  <2>2. i \in 1..Len(r \o s) /\ (r \o s)[i] = c
    BY <1>1, <2>1
  <2> QED
    BY <2>2 DEF Contains
<1>3. ASSUME Contains(s, c) PROVE Contains(r \o s, c)
  <2>1. PICK i \in 1..Len(s) : s[i] = c
    BY <1>3 DEF Contains
  <2>2. Len(r) + i \in 1..Len(r \o s) /\ (r \o s)[Len(r) + i] = c
    BY <1>1, <2>1
  <2> QED
    BY <2>2 DEF Contains
<1>4. ASSUME Contains(r \o s, c) PROVE Contains(r, c) \/ Contains(s, c)
  <2>1. PICK i \in 1..(Len(r) + Len(s)) : (r \o s)[i] = c
    BY <1>1, <1>4 DEF Contains
  <2>2. CASE i <= Len(r)
    BY <1>1, <2>1, <2>2 DEF Contains
  <2>3. CASE i > Len(r)
    <3>1. i - Len(r) \in 1..Len(s) /\ s[i - Len(r)] = c
      BY <1>1, <2>1, <2>3
    <3> QED
      BY <3>1 DEF Contains
  <2> QED
    BY <1>1, <2>1, <2>2, <2>3
<1> QED
  BY <1>2, <1>3, <1>4

\* Concatenation is associative, with names for the parts.
LEMMA Associative ==
  ASSUME NEW a \in Seq(Byte), NEW b \in Seq(Byte), NEW c \in Seq(Byte),
         NEW ab, ab = a \o b, NEW bc, bc = b \o c
  PROVE  ab \o c = a \o bc
<1>1. (a \o b) \o c = a \o (b \o c)
  BY ConcatAssociative
<1> QED
  BY <1>1

\* What is to come regrouped: the rest of a buffer joins the line it begins ...
LEMMA Joined ==
  ASSUME NEW a \in Seq(Byte), NEW b \in Seq(Byte), NEW c \in Seq(Byte)
  PROVE  a \o (b \o c) \o <<>> = a \o b \o c
<1> DEFINE ab == a \o b
           bc == b \o c
<1>1. ab = a \o b /\ bc = b \o c /\ bc \in Seq(Byte)
  OBVIOUS
<1> HIDE DEF ab, bc
<1>2. ab \o c = a \o bc
  BY <1>1, Associative
<1>3. a \o bc \in Seq(Byte)
  BY <1>1
<1>4. a \o bc \o <<>> = a \o bc
  BY <1>3, ConcatEmptySeq
<1> QED
  BY <1>2, <1>4 DEF ab, bc

\* ... and a line complete joins those before it.
Regrouped(a, b, c, d) == a \o (b \o c) \o <<>> \o d = a \o b \o (c \o d)
LEMMA JoinedAll ==
  ASSUME NEW a \in Seq(Byte), NEW b \in Seq(Byte), NEW c \in Seq(Byte),
         NEW d \in Seq(Byte)
  PROVE  Regrouped(a, b, c, d)
<1> DEFINE front == a \o b
           inner == b \o c
           back == c \o d
           first == a \o inner
           last == inner \o d
<1>1. front = a \o b
  OBVIOUS
<1>2. inner = b \o c
  OBVIOUS
<1>3. back = c \o d
  OBVIOUS
<1>4. inner \in Seq(Byte) /\ back \in Seq(Byte)
  OBVIOUS
<1>5. first = a \o inner /\ first \in Seq(Byte)
  OBVIOUS
<1>6. last = inner \o d
  OBVIOUS
<1> HIDE DEF front, inner, back, first, last
<1>7. (b \o c) \o d = b \o (c \o d)
  BY ConcatAssociative
<1>8. last = b \o back
  BY <1>2, <1>3, <1>6, <1>7
<1>9. front \o back = a \o last
  BY <1>1, <1>8, <1>4, Associative
<1>10. first \o d = a \o last
  BY <1>5, <1>6, <1>4, Associative
<1>11. first \o <<>> = first
  BY <1>5, ConcatEmptySeq
<1>12. first \o <<>> \o d = front \o back
  BY <1>9, <1>10, <1>11
<1> QED
  BY <1>12 DEF front, inner, back, first, Regrouped

LEMMA UnsentType ==
  ASSUME NEW line \in Seq(Byte)
  PROVE  Unsent(line) \in Seq(Byte)
<1>1. <<CR, LF>> \in Seq(Byte)
  BY InputBytes DEF Byte
<1> QED
  BY <1>1 DEF Unsent

LEMMA RawType ==
  ASSUME NEW ls \in Seq(Seq(Byte))
  PROVE  /\ RawOf(ls) \in Seq(Seq(Byte)) /\ Len(RawOf(ls)) = Len(ls)
         /\ FlattenSeq(RawOf(ls)) \in Seq(Byte)
<1>1. DOMAIN ls = 1..Len(ls) /\ Len(ls) \in Nat
  OBVIOUS
<1>2. \A i \in 1..Len(ls) : Unsent(ls[i]) \in Seq(Byte)
  BY UnsentType
<1>3. RawOf(ls) = [i \in 1..Len(ls) |-> Unsent(ls[i])]
  BY <1>1 DEF RawOf
<1>4. RawOf(ls) \in Seq(Seq(Byte)) /\ Len(RawOf(ls)) = Len(ls)
  BY <1>1, <1>2, <1>3
<1>5. <<>> \in Seq(Byte)
  OBVIOUS
<1> QED
  BY <1>4, <1>5, Flattened

LEMMA RawAppend ==
  ASSUME NEW ls \in Seq(Seq(Byte)), NEW line \in Seq(Byte)
  PROVE  RawOf(Append(ls, line)) = Append(RawOf(ls), Unsent(line))
<1> DEFINE more == Append(ls, line)
<1>1. /\ more \in Seq(Seq(Byte)) /\ Len(more) = Len(ls) + 1 /\ Len(ls) \in Nat
      /\ more[Len(ls) + 1] = line /\ \A i \in 1..Len(ls) : more[i] = ls[i]
      /\ DOMAIN more = 1..(Len(ls) + 1) /\ DOMAIN ls = 1..Len(ls)
  OBVIOUS
<1>2. Unsent(line) \in Seq(Byte)
  BY UnsentType
<1>3. /\ RawOf(ls) \in Seq(Seq(Byte)) /\ Len(RawOf(ls)) = Len(ls)
      /\ RawOf(more) \in Seq(Seq(Byte)) /\ Len(RawOf(more)) = Len(ls) + 1
  BY <1>1, RawType
<1>4. /\ \A i \in 1..Len(ls) : RawOf(ls)[i] = Unsent(ls[i])
      /\ \A i \in 1..(Len(ls) + 1) : RawOf(more)[i] = Unsent(more[i])
  BY <1>1 DEF RawOf
<1> HIDE DEF more
<1> DEFINE raw == Append(RawOf(ls), Unsent(line))
<1>5. /\ raw \in Seq(Seq(Byte)) /\ Len(raw) = Len(ls) + 1
      /\ raw[Len(ls) + 1] = Unsent(line)
      /\ \A i \in 1..Len(ls) : raw[i] = RawOf(ls)[i]
  BY <1>2, <1>3
<1> HIDE DEF raw
<1>6. ASSUME NEW i \in 1..(Len(ls) + 1) PROVE RawOf(more)[i] = raw[i]
  <2>1. i \in 1..Len(ls) \/ i = Len(ls) + 1
    BY <1>1
  <2> QED
    BY <1>1, <1>4, <1>5, <2>1
<1>7. RawOf(more) = raw
  BY <1>3, <1>5, <1>6, SeqEqual
<1> QED
  BY <1>7 DEF more, raw

\* recv returns more.
LEMMA ChunkReceived ==
  ASSUME NEW ls \in Seq(Seq(Byte)), NEW cs \in Seq(Byte), NEW rec \in Seq(Byte),
         AsSent(ls, cs, <<>>, rec), NEW chunk \in Seq(Byte)
  PROVE  AsSent(ls, cs, chunk, rec \o chunk)
<1> DEFINE raw == FlattenSeq(RawOf(ls))
<1>1. raw \in Seq(Byte)
  BY RawType
<1>2. raw \o cs \o <<>> = rec
  BY DEF AsSent
<1> HIDE DEF raw
<1>3. raw \o cs \in Seq(Byte)
  BY <1>1
<1>4. raw \o cs \o <<>> = raw \o cs
  BY <1>3, ConcatEmptySeq
<1>5. raw \o cs \o chunk = rec \o chunk
  BY <1>2, <1>4
<1> QED
  BY <1>5 DEF AsSent, raw

\* No LF in the buffer: it begins the next line.
LEMMA RestKept ==
  ASSUME NEW ls \in Seq(Seq(Byte)), NEW cs \in Seq(Byte), NEW buf \in Seq(Byte),
         NEW rec \in Seq(Byte), AsSent(ls, cs, buf, rec), ~Contains(rec, NUL),
         FirstLF(buf) = 0
  PROVE  CString(buf) = buf /\ AsSent(ls, cs \o CString(buf), <<>>, rec)
<1> DEFINE raw == FlattenSeq(RawOf(ls))
<1>1. raw \in Seq(Byte)
  BY RawType
<1>2. raw \o cs \o buf = rec
  BY DEF AsSent
<1> HIDE DEF raw
<1>3. raw \o cs \in Seq(Byte) /\ cs \o buf \in Seq(Byte)
  BY <1>1
<1>4. ~Contains(buf, NUL)
  BY <1>2, <1>3, ContainsOf
<1>5. CString(buf) = buf
  BY <1>4, CStringWhole
<1>6. raw \o (cs \o buf) \o <<>> = rec
  BY <1>1, <1>2, Joined
<1>7. ~Contains(cs \o buf, LF)
  <2>1. ~Contains(cs, LF)
    BY DEF AsSent
  <2>2. FirstLF(buf) \notin 1..Len(buf)
    OBVIOUS
  <2>3. ~Contains(buf, LF)
    BY <2>2, FirstLFIs
  <2> QED
    BY <2>1, <2>3, ContainsOf
<1> QED
  BY <1>5, <1>6, <1>7 DEF AsSent, raw

\* An LF in the buffer: what precedes it completes a line.
LEMMA LineDone ==
  ASSUME NEW ls \in Seq(Seq(Byte)), NEW cs \in Seq(Byte), NEW buf \in Seq(Byte),
         NEW rec \in Seq(Byte), AsSent(ls, cs, buf, rec), ~Contains(rec, NUL),
         FirstLF(buf) > 0
  PROVE  LET e     == FirstLF(buf)
             piece == CString(SubSeq(buf, 1, e))
             rest  == SubSeq(buf, e + 1, Len(buf))
             line  == Stripped(cs \o piece, piece)
         IN  line \in Seq(Byte) /\ rest \in Seq(Byte)
             /\ AsSent(Append(ls, line), <<>>, rest, rec)
<1> DEFINE e     == FirstLF(buf)
           part  == SubSeq(buf, 1, e)
           rest  == SubSeq(buf, e + 1, Len(buf))
           full  == cs \o part
           line  == Stripped(full, part)
           raw   == FlattenSeq(RawOf(ls))
<1>1. /\ e \in 1..Len(buf) /\ buf[e] = LF /\ \A i \in 1..(e - 1) : buf[i] # LF
  <2>1. FirstLF(buf) # 0
    OBVIOUS
  <2> QED
    BY <2>1, FirstLFIs
<1>2. Len(buf) \in Nat /\ Len(cs) \in Nat
  OBVIOUS
<1>3. raw \in Seq(Byte) /\ raw \o cs \o buf = rec
  BY RawType DEF AsSent
<1> HIDE DEF e, raw
<1>4. part \in Seq(Byte) /\ Len(part) = e /\ \A i \in 1..e : part[i] = buf[i]
  <2>1. /\ SubSeq(buf, 1, e) \in Seq(Byte) /\ Len(SubSeq(buf, 1, e)) = (e - 1) + 1
        /\ \A i \in 1..((e - 1) + 1) : SubSeq(buf, 1, e)[i] = buf[(1 + i) - 1]
    BY <1>1, <1>2, PartIs
  <2>2. (e - 1) + 1 = e /\ \A i \in 1..e : (1 + i) - 1 = i
    BY <1>1
  <2> QED
    BY <2>1, <2>2
<1>5. rest \in Seq(Byte)
  <2>1. e + 1 \in Nat \ {0} /\ e + 1 <= Len(buf) + 1
    BY <1>1, <1>2
  <2> QED
    BY <1>2, <2>1, PartIs
<1>6. part \o rest = buf
  <2>1. 1 \in 1..(Len(buf) + 1) /\ e \in (1 - 1)..Len(buf) /\ Len(buf) \in e..Len(buf)
    BY <1>1, <1>2
  <2>2. SubSeq(buf, 1, e) \o SubSeq(buf, e + 1, Len(buf)) = SubSeq(buf, 1, Len(buf))
    BY <2>1, ConcatAdjacentSubSeq
  <2> QED
    BY <2>2, SubSeqFull
<1> HIDE DEF part, rest
<1>7. CString(part) = part
  <2>1. raw \o cs \in Seq(Byte)
    BY <1>3
  <2>2. ~Contains(buf, NUL)
    BY <1>3, <2>1, ContainsOf
  <2>3. ~Contains(part, NUL)
    BY <1>4, <1>5, <1>6, <2>2, ContainsOf
  <2> QED
    BY <1>4, <2>3, CStringWhole
<1>8. /\ full \in Seq(Byte) /\ Len(full) > 0 /\ full[Len(full)] = LF
      /\ \A i \in 1..(Len(full) - 1) : full[i] # LF
  <2>1. /\ full \in Seq(Byte) /\ Len(full) = Len(cs) + e
        /\ \A i \in 1..(Len(cs) + e) :
             full[i] = IF i <= Len(cs) THEN cs[i] ELSE part[i - Len(cs)]
    BY <1>4
  <2> HIDE DEF full
  <2>2. \A i \in 1..Len(cs) : cs[i] # LF
    BY DEF AsSent, Contains
  <2>3. full[Len(cs) + e] = LF
    <3>1. /\ Len(cs) + e \in 1..(Len(cs) + e) /\ ~(Len(cs) + e <= Len(cs))
          /\ (Len(cs) + e) - Len(cs) = e /\ e \in 1..e
      BY <1>1, <1>2
    <3> QED
      BY <1>1, <1>4, <2>1, <3>1
  <2>4. ASSUME NEW i \in 1..((Len(cs) + e) - 1) PROVE full[i] # LF
    <3>1. i \in 1..(Len(cs) + e)
      BY <1>1, <1>2
    <3>2. CASE i <= Len(cs)
      BY <1>2, <2>1, <2>2, <3>1, <3>2
    <3>3. CASE i > Len(cs)
      <4>1. i - Len(cs) \in 1..(e - 1) /\ i - Len(cs) \in 1..e
        BY <1>1, <1>2, <3>3
      <4>2. full[i] = part[i - Len(cs)]
        BY <1>2, <2>1, <3>1, <3>3
      <4> QED
        BY <1>1, <1>4, <4>1, <4>2
    <3> QED
      BY <1>2, <3>2, <3>3
  <2> QED
    BY <1>1, <1>2, <2>1, <2>3, <2>4
<1> HIDE DEF full
<1>9. line \in Seq(Byte) /\ Unsent(line) = full /\ ~IsSuffix(<<CR, LF>>, line)
  BY <1>8, StrippedLine
<1> HIDE DEF line
<1>10. RawOf(Append(ls, line)) = Append(RawOf(ls), full)
  BY <1>9, RawAppend
<1>11. FlattenSeq(Append(RawOf(ls), full)) = raw \o full
  BY <1>8, RawType, Flattened DEF raw
<1>12. (raw \o full) \o <<>> \o rest = rec
  <2>1. raw \in Seq(Byte) /\ part \in Seq(Byte)
    BY <1>3, <1>4
  <2>2. Regrouped(raw, cs, part, rest)
    BY <1>5, <2>1, JoinedAll
  <2>3. raw \o (cs \o part) \o <<>> \o rest = raw \o cs \o buf
    BY <1>6, <2>2 DEF Regrouped
  <2>4. raw \o cs \o buf = rec
    BY <1>3
  <2> QED
    BY <2>3, <2>4 DEF full
<1>13. OneLine(full)
  BY <1>8, OneLineIs
<1>14. /\ \A i \in DOMAIN Append(RawOf(ls), full) : OneLine(Append(RawOf(ls), full)[i])
       /\ \A i \in DOMAIN Append(ls, line) : ~IsSuffix(<<CR, LF>>, Append(ls, line)[i])
  <2>1. /\ \A i \in DOMAIN RawOf(ls) : OneLine(RawOf(ls)[i])
        /\ \A i \in DOMAIN ls : ~IsSuffix(<<CR, LF>>, ls[i])
    BY DEF AsSent
  <2>2. ASSUME NEW s \in Seq(Seq(Byte)), NEW x \in Seq(Byte),
               NEW i \in DOMAIN Append(s, x)
        PROVE  \/ i \in DOMAIN s /\ Append(s, x)[i] = s[i]
               \/ Append(s, x)[i] = x
    OBVIOUS
  <2>3. RawOf(ls) \in Seq(Seq(Byte))
    BY RawType
  <2>4. ASSUME NEW i \in DOMAIN Append(RawOf(ls), full)
        PROVE  OneLine(Append(RawOf(ls), full)[i])
    BY <1>8, <1>13, <2>1, <2>2, <2>3, Zenon
  <2>5. ASSUME NEW i \in DOMAIN Append(ls, line)
        PROVE  ~IsSuffix(<<CR, LF>>, Append(ls, line)[i])
    BY <1>9, <2>1, <2>2, Zenon
  <2> QED
    BY <2>4, <2>5
<1>15. ~Contains(<<>>, LF)
  BY DEF Contains
<1>16. AsSent(Append(ls, line), <<>>, rest, rec)
  BY <1>10, <1>11, <1>12, <1>14, <1>15 DEF AsSent
<1> QED
  BY <1>5, <1>7, <1>9, <1>16 DEF e, part, rest, full, line

----------------------------------------------------------------------------
(* InputInv is inductive *)

\* InputInv with LinesAsSent written out for the values of the variables.
LEMMA InputInvIs ==
  InputInv <=>
    /\ stream \in Seq(Byte) /\ received \in Seq(Byte)
    /\ buffer \in Seq(Byte) /\ command_str \in Seq(Byte)
    /\ lines \in Seq(Seq(Byte))
    /\ \E n \in 0..Len(stream) : received = SubSeq(stream, 1, n)
    /\ thread = "recv" => buffer = <<>>
    /\ ~Contains(received, NUL) => AsSent(lines, command_str, buffer, received)
BY DEF InputInv, LinesAsSent, AsSent, RawOf

LEMMA InitInput == Init => InputInv
<1> SUFFICES ASSUME Init PROVE InputInv
  OBVIOUS
<1>1. /\ stream \in Seq(Byte) /\ received = <<>> /\ buffer = <<>>
      /\ command_str = <<>> /\ lines = <<>>
  BY InputBytes DEF Init
<1>2. <<>> \in Seq(Byte) /\ <<>> \in Seq(Seq(Byte))
  OBVIOUS
<1>3. 0 \in 0..Len(stream) /\ SubSeq(stream, 1, 0) = <<>>
  BY <1>1
<1>4. AsSent(<<>>, <<>>, <<>>, <<>>)
  <2>1. RawOf(<<>>) = <<>>
    BY DEF RawOf
  <2>2. FlattenSeq(<<>>) = <<>>
    BY DEF FlattenSeq
  <2>3. ~Contains(<<>>, LF)
    BY DEF Contains
  <2>4. <<>> \o <<>> \o <<>> = <<>>
    OBVIOUS
  <2>5. DOMAIN <<>> = {}
    OBVIOUS
  <2> QED
    BY <2>1, <2>2, <2>3, <2>4, <2>5 DEF AsSent
<1> QED
  BY <1>1, <1>2, <1>3, <1>4, InputInvIs

LEMMA ReceiveKeeps ==
  ASSUME InputInv, NEW n \in 1..Buffer, Receive(n)
  PROVE  InputInv'
<1>1. /\ stream \in Seq(Byte) /\ received \in Seq(Byte) /\ thread = "recv"
      /\ buffer = <<>>
  BY InputInvIs DEF Receive
<1>2. PICK k \in 0..Len(stream) : received = SubSeq(stream, 1, k)
  BY InputInvIs
<1>3. Len(stream) \in Nat /\ n \in Nat /\ n > 0
  BY <1>1, InputBytes
<1>4. Len(received) = k
  <2>1. Len(SubSeq(stream, 1, k)) = (k - 1) + 1
    BY <1>1, <1>3, PartIs
  <2> QED
    BY <1>2, <2>1
<1>5. k + n \in 0..Len(stream)
  BY <1>3, <1>4 DEF Receive
<1>6. /\ received' = SubSeq(stream, 1, k + n)
      /\ buffer' = SubSeq(stream, k + 1, k + n) /\ thread' = "busy"
      /\ stream' = stream /\ command_str' = command_str /\ lines' = lines
  BY <1>4 DEF Receive
<1>7. received' \in Seq(Byte) /\ buffer' \in Seq(Byte)
  <2>1. k + 1 \in Nat \ {0} /\ k + n \in Nat /\ k + 1 <= (k + n) + 1 /\ k + n <= Len(stream)
        /\ 1 <= (k + n) + 1
    BY <1>3, <1>5
  <2>2. SubSeq(stream, 1, k + n) \in Seq(Byte) /\ SubSeq(stream, k + 1, k + n) \in Seq(Byte)
    BY <1>1, <2>1, PartIs
  <2> QED
    BY <1>6, <2>2
<1>8. received' = received \o buffer'
  <2>1. 1 \in 1..(Len(stream) + 1) /\ k \in (1 - 1)..Len(stream) /\ k + n \in k..Len(stream)
    BY <1>3, <1>5
  <2>2. SubSeq(stream, 1, k) \o SubSeq(stream, k + 1, k + n) = SubSeq(stream, 1, k + n)
    BY <1>1, <2>1, ConcatAdjacentSubSeq
  <2> QED
    BY <1>2, <1>6, <2>2
<1>9. ASSUME ~Contains(received', NUL)
      PROVE  AsSent(lines, command_str, buffer', received')
  <2>1. ~Contains(received, NUL)
    BY <1>1, <1>7, <1>8, <1>9, ContainsOf
  <2>2. /\ command_str \in Seq(Byte) /\ lines \in Seq(Seq(Byte))
        /\ AsSent(lines, command_str, <<>>, received)
    BY <1>1, <2>1, InputInvIs
  <2>3. AsSent(lines, command_str, buffer', received \o buffer')
    BY <1>1, <1>7, <2>2, ChunkReceived
  <2> QED
    BY <1>8, <2>2, <2>3
<1>10. command_str \in Seq(Byte) /\ lines \in Seq(Seq(Byte))
  BY InputInvIs
<1>11. (/\ stream \in Seq(Byte) /\ received \in Seq(Byte)
        /\ buffer \in Seq(Byte) /\ command_str \in Seq(Byte)
        /\ lines \in Seq(Seq(Byte))
        /\ \E m \in 0..Len(stream) : received = SubSeq(stream, 1, m)
        /\ thread = "recv" => buffer = <<>>
        /\ ~Contains(received, NUL) => AsSent(lines, command_str, buffer, received))'
  BY <1>1, <1>5, <1>6, <1>7, <1>9, <1>10
<1> QED
  BY <1>11 DEF InputInv, LinesAsSent, AsSent, RawOf

LEMMA CloseKeeps ==
  ASSUME InputInv, Close
  PROVE  InputInv'
<1>1. /\ thread' = "ended" /\ stream' = stream /\ received' = received
      /\ buffer' = buffer /\ command_str' = command_str /\ lines' = lines
  BY DEF Close
<1> QED
  BY <1>1 DEF InputInv, LinesAsSent

\* Nothing a handler does makes the thread call recv.
LEMMA HandlerKeepsBuffer ==
  ASSUME NEW line, thread = "busy", incoming_command(line)
  PROVE  lines' = Append(lines, line) /\ thread' # "recv"
<1>1. PICK outcome : outcome = Outcome(parse_string(line), registered)
  OBVIOUS
<1> QED
  BY <1>1 DEF incoming_command

\* The line that is complete, and the rest of the buffer.
LEMMA LineBytes ==
  ASSUME InputInv, EndOfLine > 0,
         NEW piece, piece = CString(SubSeq(buffer, 1, EndOfLine))
  PROVE  /\ Stripped(command_str \o piece, piece) \in Seq(Byte)
         /\ SubSeq(buffer, EndOfLine + 1, Len(buffer)) \in Seq(Byte)
<1>1. buffer \in Seq(Byte) /\ command_str \in Seq(Byte)
  BY InputInvIs
<1>2. PICK e : e = EndOfLine
  OBVIOUS
<1>3. e \in 1..Len(buffer) /\ Len(buffer) \in Nat
  <2>1. EndOfLine = FirstLF(buffer)
    BY DEF EndOfLine, FirstLF, FirstOf
  <2>2. FirstLF(buffer) = 0 \/ FirstLF(buffer) \in 1..Len(buffer)
    BY <1>1, FirstLFIs
  <2> QED
    BY <1>1, <1>2, <2>1, <2>2
<1>4. SubSeq(buffer, 1, e) \in Seq(Byte) /\ SubSeq(buffer, e + 1, Len(buffer)) \in Seq(Byte)
  BY <1>1, <1>3
<1>5. piece \in Seq(Byte)
  BY <1>2, <1>4, CStringBytes
<1>6. PICK line : line = command_str \o piece
  OBVIOUS
<1>7. line \in Seq(Byte)
  BY <1>1, <1>5, <1>6
<1>8. Len(line) >= 2 => SubSeq(line, 1, Len(line) - 2) \in Seq(Byte)
  BY <1>7
<1>9. Stripped(line, piece) \in Seq(Byte)
  BY <1>7, <1>8 DEF Stripped
<1> QED
  BY <1>2, <1>4, <1>6, <1>9

LEMMA CompleteLineKeeps ==
  ASSUME InputInv, CompleteLine
  PROVE  InputInv'
<1> DEFINE Piece == CString(SubSeq(buffer, 1, EndOfLine))
<1>1. PICK line : line = Stripped(command_str \o Piece, Piece)
  OBVIOUS
<1>2. PICK rest : rest = SubSeq(buffer, EndOfLine + 1, Len(buffer))
  OBVIOUS
<1>3. /\ thread = "busy" /\ EndOfLine > 0 /\ incoming_command(line)
      /\ command_str' = <<>> /\ buffer' = rest
      /\ stream' = stream /\ received' = received
  BY <1>1, <1>2 DEF CompleteLine
<1>4. lines' = Append(lines, line) /\ thread' # "recv"
  BY <1>3, HandlerKeepsBuffer
<1>5. ASSUME ~Contains(received, NUL)
      PROVE  AsSent(Append(lines, line), <<>>, rest, received)
  <2>1. /\ buffer \in Seq(Byte) /\ command_str \in Seq(Byte)
        /\ lines \in Seq(Seq(Byte)) /\ received \in Seq(Byte)
        /\ AsSent(lines, command_str, buffer, received)
    BY <1>5, InputInvIs
  <2>2. EndOfLine = FirstLF(buffer) /\ FirstLF(buffer) > 0
    BY <1>3 DEF EndOfLine, FirstLF, FirstOf
  <2>3. /\ line \in Seq(Byte) /\ rest \in Seq(Byte)
        /\ AsSent(Append(lines, line), <<>>, rest, received)
    BY <1>1, <1>2, <1>5, <2>1, <2>2, LineDone
  <2> QED
    BY <2>1, <2>3
<1>6. /\ <<>> \in Seq(Byte) /\ rest \in Seq(Byte)
      /\ Append(lines, line) \in Seq(Seq(Byte))
  <2>1. lines \in Seq(Seq(Byte)) /\ <<>> \in Seq(Byte)
    BY InputInvIs
  <2>2. line \in Seq(Byte) /\ rest \in Seq(Byte)
    BY <1>1, <1>2, <1>3, LineBytes
  <2> QED
    BY <2>1, <2>2
<1>7. /\ stream \in Seq(Byte) /\ received \in Seq(Byte)
      /\ \E m \in 0..Len(stream) : received = SubSeq(stream, 1, m)
  BY InputInvIs
<1>8. (/\ stream \in Seq(Byte) /\ received \in Seq(Byte)
       /\ buffer \in Seq(Byte) /\ command_str \in Seq(Byte)
       /\ lines \in Seq(Seq(Byte))
       /\ \E m \in 0..Len(stream) : received = SubSeq(stream, 1, m)
       /\ thread = "recv" => buffer = <<>>
       /\ ~Contains(received, NUL) => AsSent(lines, command_str, buffer, received))'
  BY <1>3, <1>4, <1>5, <1>6, <1>7
<1> QED
  BY <1>8 DEF InputInv, LinesAsSent, AsSent, RawOf

LEMMA KeepRestKeeps ==
  ASSUME InputInv, KeepRest
  PROVE  InputInv'
<1>1. PICK kept : kept = command_str \o CString(buffer)
  OBVIOUS
<1>2. /\ EndOfLine = 0 /\ command_str' = kept /\ buffer' = <<>>
      /\ stream' = stream /\ received' = received /\ lines' = lines
  BY <1>1 DEF KeepRest
<1>3. ASSUME ~Contains(received, NUL)
      PROVE  AsSent(lines, kept, <<>>, received)
  <2>1. /\ buffer \in Seq(Byte) /\ command_str \in Seq(Byte)
        /\ lines \in Seq(Seq(Byte)) /\ received \in Seq(Byte)
        /\ AsSent(lines, command_str, buffer, received)
    BY <1>3, InputInvIs
  <2>2. FirstLF(buffer) = 0
    BY <1>2 DEF EndOfLine, FirstLF, FirstOf
  <2>3. CString(buffer) = buffer /\ AsSent(lines, kept, <<>>, received)
    BY <1>1, <1>3, <2>1, <2>2, RestKept
  <2> QED
    BY <1>1, <2>1, <2>3
<1>4. <<>> \in Seq(Byte) /\ kept \in Seq(Byte) /\ lines \in Seq(Seq(Byte))
  <2>1. /\ buffer \in Seq(Byte) /\ command_str \in Seq(Byte)
        /\ lines \in Seq(Seq(Byte))
    BY InputInvIs
  <2>2. CString(buffer) \in Seq(Byte)
    BY <2>1, CStringBytes
  <2> QED
    BY <1>1, <2>1, <2>2
<1>5. /\ stream \in Seq(Byte) /\ received \in Seq(Byte)
      /\ \E m \in 0..Len(stream) : received = SubSeq(stream, 1, m)
  BY InputInvIs
<1>6. (/\ stream \in Seq(Byte) /\ received \in Seq(Byte)
       /\ buffer \in Seq(Byte) /\ command_str \in Seq(Byte)
       /\ lines \in Seq(Seq(Byte))
       /\ \E m \in 0..Len(stream) : received = SubSeq(stream, 1, m)
       /\ thread = "recv" => buffer = <<>>
       /\ ~Contains(received, NUL) => AsSent(lines, command_str, buffer, received))'
  BY <1>2, <1>3, <1>4, <1>5
<1> QED
  BY <1>6 DEF InputInv, LinesAsSent, AsSent, RawOf

LEMMA InputAlways == Spec => []InputInv
<1>1. Init => InputInv
  BY InitInput
<1>2. InputInv /\ [Next]_ivars => InputInv'
  <2> SUFFICES ASSUME InputInv, [Next]_ivars PROVE InputInv'
    OBVIOUS
  <2>1. CASE \E n \in 1..Buffer : Receive(n)
    BY <2>1, ReceiveKeeps
  <2>2. CASE Close
    BY <2>2, CloseKeeps
  <2>3. CASE CompleteLine
    BY <2>3, CompleteLineKeeps
  <2>4. CASE KeepRest
    BY <2>4, KeepRestKeeps
  <2>5. CASE UNCHANGED ivars
    BY <2>5 DEF ivars, InputInv, LinesAsSent
  <2> QED
    BY <2>1, <2>2, <2>3, <2>4, <2>5 DEF Next
<1> QED
  BY <1>1, <1>2, PTL DEF Spec

\* Whatever a client sends, and however recv cuts it into chunks of any size:
\* the lines handed to incoming_command, with what is kept for the next one,
\* are what was received, unless a NUL was (the recv loop of
\* service_single_client).
THEOREM LinesArriveAsSent == Spec => []LinesAsSent
<1>1. InputInv => LinesAsSent
  BY DEF InputInv
<1> QED
  BY <1>1, InputAlways, PTL

----------------------------------------------------------------------------
(* What becomes of a parsed line *)

IsUb(r, isRegistered) == Outcome(r, isRegistered).kind = "ub"

\* Handlers and error handlers read what argv has, or what nobody wrote.
LEMMA ReadsAre ==
  ASSUME NEW argv
  PROVE  /\ \A type \in {"PING", "PONG", "LUSERS"} : Reads(type, argv) = 0
         /\ argv = NULL => Reads("WHOIS", argv) = 0
         /\ argv # NULL => Reads("WHOIS", argv) = 1
         /\ \A type \in {"NICK", "QUIT", "JOIN", "LIST"} : Reads(type, argv) = 1
         /\ \A type \in {"USER", "PRIVMSG", "OPER", "NOTICE", "PART"} :
              Reads(type, argv) = 2
         /\ Reads("MODE", argv) = 3
<1>1. ASSUME NEW type \in {"PING", "PONG", "LUSERS"} PROVE Reads(type, argv) = 0
  BY DEF Reads
<1>2. /\ argv = NULL => Reads("WHOIS", argv) = 0
      /\ argv # NULL => Reads("WHOIS", argv) = 1
  BY DEF Reads
<1>3. ASSUME NEW type \in {"NICK", "QUIT", "JOIN", "LIST"} PROVE Reads(type, argv) = 1
  BY DEF Reads
<1>4. ASSUME NEW type \in {"USER", "PRIVMSG", "OPER", "NOTICE", "PART"}
      PROVE  Reads(type, argv) = 2
  BY DEF Reads
<1>5. Reads("MODE", argv) = 3
  BY DEF Reads
<1> QED
  BY <1>1, <1>2, <1>3, <1>4, <1>5

LEMMA WildIsUb ==
  ASSUME NEW isRegistered
  PROVE  IsUb(Wild, isRegistered)
BY DEF IsUb, Outcome, Wild, Result, Call

LEMMA HandlerIsUb ==
  ASSUME NEW type \in Commands, NEW argv, NEW isRegistered
  PROVE  IsUb(Result(type, argv), isRegistered) <=>
           /\ type \in {"NICK", "USER"} \/ isRegistered
           /\ ~Readable(argv, Reads(type, argv))
<1>1. Result(type, argv).type = type /\ Result(type, argv).argv = argv
  BY DEF Result
<1>2. type # UNSET
  BY ParseValues
<1>3. \A kind, a, b : Call(kind, a, b).kind = kind
  BY DEF Call
<1>4. CASE type \in {"NICK", "USER"} \/ isRegistered
  <2>1. Outcome(Result(type, argv), isRegistered) =
          IF Readable(argv, Reads(type, argv)) THEN Call("handler", type, argv)
                                               ELSE Call("ub", UNSET, UNSET)
    BY <1>1, <1>2, <1>4 DEF Outcome
  <2> QED
    BY <1>3, <1>4, <2>1 DEF IsUb
<1>5. CASE ~(type \in {"NICK", "USER"} \/ isRegistered)
  <2>1. Outcome(Result(type, argv), isRegistered) = Call("error", "NOTREGISTERED", <<>>)
    BY <1>1, <1>2, <1>5 DEF Outcome
  <2> QED
    BY <1>3, <1>5, <2>1 DEF IsUb
<1> QED
  BY <1>4, <1>5

LEMMA ErrorIsUb ==
  ASSUME NEW type \in Errors, NEW argv, NEW isRegistered
  PROVE  IsUb(Result(type, argv), isRegistered) <=>
           type # "SILENTDROP" /\ ~Readable(argv, 1)
<1>1. Result(type, argv).type = type /\ Result(type, argv).argv = argv
  BY DEF Result
<1>2. type # UNSET /\ type \notin Commands
  BY ParseValues DEF Errors, Commands
<1>3. \A kind, a, b : Call(kind, a, b).kind = kind
  BY DEF Call
<1>4. Outcome(Result(type, argv), isRegistered) =
        IF type = "SILENTDROP" THEN Call("nothing", type, <<>>)
        ELSE IF Readable(argv, 1) THEN Call("error", type, <<argv[1]>>)
        ELSE Call("ub", UNSET, UNSET)
  BY <1>1, <1>2 DEF Outcome
<1> QED
  BY <1>3, <1>4 DEF IsUb

\* A result that has what its handler reads.
Good(r) ==
  \E type \in Commands \cup Errors, argv \in Argv :
    r = Result(type, argv) /\ Len(argv) >= IF type \in Commands THEN Reads(type, argv) ELSE 1

LEMMA GoodIsNotUb ==
  ASSUME NEW r, Good(r), NEW isRegistered
  PROVE  ~IsUb(r, isRegistered)
<1>1. PICK type \in Commands \cup Errors, argv \in Argv :
        r = Result(type, argv) /\ Len(argv) >= IF type \in Commands THEN Reads(type, argv) ELSE 1
  BY DEF Good
<1>2. argv # NULL /\ argv # UNSET
  BY ParseValues
<1>3. CASE type \in Commands
  <2>1. Readable(argv, Reads(type, argv))
    BY <1>1, <1>2, <1>3 DEF Readable
  <2> QED
    BY <1>1, <1>3, <2>1, HandlerIsUb
<1>4. CASE type \in Errors
  <2>1. type \notin Commands
    BY <1>4 DEF Errors, Commands
  <2>2. Readable(argv, 1)
    BY <1>1, <1>2, <2>1 DEF Readable
  <2> QED
    BY <1>1, <1>4, <2>2, ErrorIsUb
<1> QED
  BY <1>3, <1>4

\* What parse_string allocates: an error with one argument, or none.
LEMMA OneIsGood ==
  /\ \A type \in Errors, x \in Seq(Byte) \cup {NULL, "USER", "OPER", "JOIN", "PART", "MODE"} :
       Good(Result(type, <<x>>))
  /\ \A type \in Errors : Good(NoArgument(type))
  /\ \A verb \in {"USER", "OPER", "JOIN", "PART", "MODE"} : Good(NeedMoreParams(verb))
<1>1. ASSUME NEW type \in Errors,
             NEW x \in Seq(Byte) \cup {NULL, "USER", "OPER", "JOIN", "PART", "MODE"}
      PROVE  Good(Result(type, <<x>>))
  <2>1. type \notin Commands
    BY DEF Errors, Commands
  <2>2. <<x>> \in Argv /\ Len(<<x>>) = 1
    BY DEF Argv
  <2> QED
    BY <2>1, <2>2 DEF Good
<1>2. "NEEDMOREPARAMS" \in Errors
  BY DEF Errors
<1> QED
  BY <1>1, <1>2 DEF NoArgument, NeedMoreParams

\* A result a handler can use: an argument for each it reads.
LEMMA HandlerIsGood ==
  ASSUME NEW type \in Commands, NEW argv \in Argv, Len(argv) >= Reads(type, argv)
  PROVE  Good(Result(type, argv))
BY DEF Good

LEMMA ArgumentsAre ==
  ASSUME NEW words \in Seq(Seq(Byte)), NEW n \in Nat, n + 1 <= Len(words)
  PROVE  /\ Arguments(words, n) \in Argv /\ Len(Arguments(words, n)) = n
         /\ \A x \in Seq(Byte) \cup {NULL} :
              /\ Arguments(words, n) \o <<x>> \in Argv
              /\ Len(Arguments(words, n) \o <<x>>) = n + 1
<1> DEFINE V == Seq(Byte) \cup {NULL, "USER", "OPER", "JOIN", "PART", "MODE"}
<1>1. \A i \in 1..n : words[i + 1] \in Seq(Byte)
  <2>1. \A i \in 1..n : i + 1 \in 1..Len(words)
    OBVIOUS
  <2> QED
    BY <2>1
<1>2. \A i \in 1..n : CString(words[i + 1]) \in V
  BY <1>1, CStringBytes
<1>3. PICK a : a = Arguments(words, n)
  OBVIOUS
<1>4. a = [i \in 1..n |-> CString(words[i + 1])]
  BY <1>3 DEF Arguments
<1> HIDE DEF V
<1>5. a \in Seq(V) /\ Len(a) = n
  BY <1>2, <1>4
<1>6. ASSUME NEW x \in Seq(Byte) \cup {NULL}
      PROVE  a \o <<x>> \in Seq(V) /\ Len(a \o <<x>>) = n + 1
  <2>1. x \in V
    BY DEF V
  <2>2. <<x>> \in Seq(V) /\ Len(<<x>>) = 1
    BY <2>1
  <2> QED
    BY <1>5, <2>2
<1>7. Argv = Seq(V)
  BY DEF Argv, V
<1> QED
  BY <1>3, <1>5, <1>6, <1>7

LEMMA OneArgument ==
  ASSUME NEW words \in Seq(Seq(Byte)), Len(words) >= 2
  PROVE  /\ Arguments(words, 1) \in Argv /\ Len(Arguments(words, 1)) = 1
         /\ \A x \in Seq(Byte) \cup {NULL} :
              /\ Arguments(words, 1) \o <<x>> \in Argv
              /\ Len(Arguments(words, 1) \o <<x>>) = 2
<1>1. 1 \in Nat /\ 1 + 1 <= Len(words) /\ 1 + 1 = 2
  OBVIOUS
<1> QED
  BY <1>1, ArgumentsAre

----------------------------------------------------------------------------
(* The words of a line *)

\* A line that is parsed: something else than a space comes first.
Spoken(t) == t \in Seq(Byte) /\ t # <<>> /\ t[1] # SP

LEMMA WordsAre ==
  ASSUME NEW t, Spoken(t)
  PROVE  /\ Tokens(t) \in Seq(Seq(Byte)) /\ Len(Tokens(t)) \in Nat /\ Len(Tokens(t)) >= 1
         /\ Tokens(t)[1] \in Seq(Byte) /\ Tokens(t)[1] # <<>> /\ Tokens(t)[1][1] = t[1]
<1>1. t \in Seq(Byte) /\ t # <<>> /\ t[1] # SP
  BY DEF Spoken
<1>2. PICK words : words = Tokens(t)
  OBVIOUS
<1>3. words \in Seq(Seq(Byte)) /\ Len(words) \in Nat /\ Len(words) >= 1
  BY <1>1, <1>2, FirstToken
<1>4. words[1] \in Seq(Byte)
  BY <1>3
<1>5. CASE \A i \in 1..Len(t) : t[i] # SP
  <2>1. words[1] = t
    BY <1>1, <1>2, <1>5, FirstToken
  <2> QED
    BY <1>1, <1>2, <1>3, <1>4, <2>1
<1>6. CASE \E i \in 1..Len(t) : t[i] = SP
  <2>1. PICK q \in 1..Len(t) : FirstSP(t, q)
    BY <1>1, <1>6, FirstSPExists
  <2>2. q # 1 /\ q \in Nat /\ Len(t) \in Nat
    BY <1>1, <2>1 DEF FirstSP
  <2>3. words[1] = SubSeq(t, 1, q - 1)
    BY <1>1, <1>2, <2>1, FirstToken
  <2>4. q - 1 \in Nat /\ 1 \in Nat \ {0} /\ 1 <= (q - 1) + 1 /\ q - 1 <= Len(t)
        /\ 1 \in 1..(((q - 1) - 1) + 1) /\ (1 + 1) - 1 = 1
    BY <2>1, <2>2
  <2>5. PICK w : w = SubSeq(t, 1, q - 1)
    OBVIOUS
  <2>6. /\ Len(w) = ((q - 1) - 1) + 1
        /\ \A i \in 1..(((q - 1) - 1) + 1) : w[i] = t[(1 + i) - 1]
    BY <1>1, <2>4, <2>5, PartIs
  <2>7. w[1] = t[1] /\ Len(w) # 0
    BY <2>2, <2>4, <2>6
  <2>8. w # <<>>
    BY <2>7
  <2> QED
    BY <1>2, <1>3, <1>4, <2>3, <2>5, <2>7, <2>8
<1> QED
  BY <1>5, <1>6

LEMMA ColonIs ==
  ASSUME NEW t \in Seq(Byte)
  PROVE  \/ Colon(t) = 0 /\ \A i \in 1..Len(t) : t[i] # ":"
         \/ /\ Colon(t) \in 1..Len(t) /\ t[Colon(t)] = ":"
            /\ \A i \in 1..(Colon(t) - 1) : t[i] # ":"
<1>1. Colon(t) = FirstOf(t, ":")
  BY DEF Colon, FirstOf
<1> QED
  BY <1>1, FirstOfIs DEF Contains

\* What is before the colon and the character before it, and what is after it.
LEMMA FrontIs ==
  ASSUME NEW t \in Seq(Byte)
  PROVE  /\ first_part(t) \in Seq(Byte) /\ first_part(t) # <<>>
         /\ Len(first_part(t)) = 1 + IF Colon(t) > 1 THEN Colon(t) - 2 ELSE 0
         /\ \A i \in 1..(Colon(t) - 2) : first_part(t)[i] = t[i]
         /\ first_part(t)[Len(first_part(t))] = NUL
         /\ second_part(t) \in Seq(Byte)
<1>1. PICK c : c = Colon(t)
  OBVIOUS
<1>2. c \in 0..Len(t) /\ Len(t) \in Nat
  BY <1>1, ColonIs
<1>3. PICK s : s = SubSeq(t, 1, c - 2)
  OBVIOUS
<1>4. /\ s \in Seq(Byte) /\ Len(s) = IF c > 1 THEN c - 2 ELSE 0
      /\ \A i \in 1..(c - 2) : s[i] = t[i]
  <2>1. CASE c > 1
    <3>1. /\ c - 2 \in Nat /\ 1 \in Nat \ {0} /\ 1 <= (c - 2) + 1 /\ c - 2 <= Len(t)
          /\ ((c - 2) - 1) + 1 = c - 2
          /\ \A i \in 1..(c - 2) : (1 + i) - 1 = i
      BY <1>2, <2>1
    <3>2. /\ s \in Seq(Byte) /\ Len(s) = ((c - 2) - 1) + 1
          /\ \A i \in 1..(((c - 2) - 1) + 1) : s[i] = t[(1 + i) - 1]
      BY <1>3, <3>1, PartIs
    <3>3. Len(s) = c - 2 /\ \A i \in 1..(c - 2) : s[i] = t[i]
      BY <3>1, <3>2
    <3> QED
      BY <2>1, <3>2, <3>3
  <2>2. CASE ~(c > 1)
    <3>1. s = <<>>
      BY <1>2, <1>3, <2>2
    <3>2. \A i \in 1..(c - 2) : FALSE
      BY <1>2, <2>2
    <3> QED
      BY <2>2, <3>1, <3>2
  <2> QED
    BY <2>1, <2>2
<1>5. PICK f : f = s \o <<NUL>>
  OBVIOUS
<1>6. NUL \in Byte
  BY DEF Byte
<1>7. /\ f \in Seq(Byte) /\ Len(f) = Len(s) + 1 /\ f[Len(s) + 1] = NUL
      /\ \A i \in 1..Len(s) : f[i] = s[i]
  <2>1. s \in Seq(Byte)
    BY <1>4
  <2>2. f = Append(s, NUL)
    BY <1>5, <2>1
  <2> QED
    BY <1>6, <2>1, <2>2
<1>8. first_part(t) = f
  BY <1>1, <1>3, <1>5 DEF first_part
<1>9. f # <<>> /\ Len(f) = 1 + IF c > 1 THEN c - 2 ELSE 0
  <2>1. Len(f) = 1 + IF c > 1 THEN c - 2 ELSE 0
    BY <1>2, <1>4, <1>7
  <2>2. Len(f) # 0
    BY <1>2, <2>1
  <2>3. f # <<>>
    BY <2>2
  <2> QED
    BY <2>1, <2>3
<1>10. \A i \in 1..(c - 2) : f[i] = t[i]
  <2>1. \A i \in 1..(c - 2) : i \in 1..Len(s)
    BY <1>2, <1>4
  <2> QED
    BY <1>4, <1>7, <2>1
<1>11. second_part(t) \in Seq(Byte)
  <2>1. c + 1 \in Nat \ {0} /\ c + 1 <= Len(t) + 1 /\ Len(t) <= Len(t)
    BY <1>2
  <2>2. SubSeq(t, c + 1, Len(t)) \in Seq(Byte)
    BY <1>2, <2>1, PartIs
  <2> QED
    BY <1>1, <2>2 DEF second_part
<1> QED
  BY <1>1, <1>7, <1>8, <1>9, <1>10, <1>11

----------------------------------------------------------------------------
(* The branches of parse_string *)

LEMMA NickUb ==
  ASSUME NEW t, Spoken(t), NEW isRegistered
  PROVE  IsUb(NickLine(t), isRegistered) <=> Len(Tokens(t)) >= 3
<1>1. PICK words : words = Tokens(t)
  OBVIOUS
<1>2. words \in Seq(Seq(Byte)) /\ Len(words) \in Nat /\ Len(words) >= 1
  BY <1>1, WordsAre
<1>3. CASE Len(words) = 1
  <2>1. NickLine(t) = NoArgument("NONICKNAMEGIVEN")
    BY <1>1, <1>3 DEF NickLine
  <2>2. "NONICKNAMEGIVEN" \in Errors
    BY DEF Errors
  <2> QED
    BY <1>1, <1>3, <2>1, <2>2, OneIsGood, GoodIsNotUb
<1>4. CASE Len(words) = 2
  <2>1. NickLine(t) = Result("NICK", Arguments(words, 1))
    BY <1>1, <1>4 DEF NickLine
  <2>2. Arguments(words, 1) \in Argv /\ Len(Arguments(words, 1)) = 1
    <3>1. Len(words) >= 2
      BY <1>2, <1>4
    <3> QED
      BY <1>2, <3>1, OneArgument
  <2>3. Good(NickLine(t))
    BY <2>1, <2>2, ReadsAre, HandlerIsGood DEF Commands
  <2> QED
    BY <1>1, <1>4, <2>3, GoodIsNotUb
<1>5. CASE Len(words) >= 3
  <2>1. NickLine(t) = Wild
    <3>1. Len(words) # 1 /\ Len(words) # 2
      <4>1. \A n \in Nat : n >= 3 => n # 1 /\ n # 2
        OBVIOUS
      <4> QED
        BY <1>2, <1>5, <4>1
    <3> QED
      BY <1>1, <3>1 DEF NickLine
  <2> QED
    BY <1>1, <1>5, <2>1, WildIsUb
<1>6. Len(words) = 1 \/ Len(words) = 2 \/ Len(words) >= 3
  <2>1. \A n \in Nat : n >= 1 => n = 1 \/ n = 2 \/ n >= 3
    OBVIOUS
  <2> QED
    BY <1>2, <2>1
<1> QED
  BY <1>3, <1>4, <1>5, <1>6

LEMMA UserGood ==
  ASSUME NEW t, Spoken(t)
  PROVE  Good(UserLine(t))
<1>1. PICK front : front = Tokens(first_part(t))
  OBVIOUS
<1>2. front \in Seq(Seq(Byte)) /\ second_part(t) \in Seq(Byte)
  BY <1>1, FrontIs, FirstToken DEF Spoken
<1>3. CASE Colon(t) = 0 \/ Len(front) # 4
  <2>1. UserLine(t) = NeedMoreParams("USER")
    BY <1>1, <1>3 DEF UserLine
  <2> QED
    BY <2>1, OneIsGood
<1>4. CASE ~(Colon(t) = 0 \/ Len(front) # 4)
  <2>1. UserLine(t) = Result("USER", Arguments(front, 1) \o <<second_part(t)>>)
    BY <1>1, <1>4 DEF UserLine
  <2>2. PICK argv : argv = Arguments(front, 1) \o <<second_part(t)>>
    OBVIOUS
  <2>3. argv \in Argv /\ Len(argv) = 2
    <3>1. Len(front) = 4 /\ Len(front) >= 2
      BY <1>4
    <3> QED
      BY <1>2, <2>2, <3>1, OneArgument
  <2>4. Good(Result("USER", argv))
    BY <2>3, ReadsAre, HandlerIsGood DEF Commands
  <2> QED
    BY <2>1, <2>2, <2>4
<1> QED
  BY <1>3, <1>4

LEMMA QuitGood ==
  ASSUME NEW t, Spoken(t)
  PROVE  Good(QuitLine(t))
<1>1. second_part(t) \in Seq(Byte)
  BY FrontIs DEF Spoken
<1>2. PICK text : text = IF Colon(t) = 0 THEN NULL ELSE second_part(t)
  OBVIOUS
<1>3. QuitLine(t) = Result("QUIT", <<text>>)
  BY <1>2 DEF QuitLine, NoArgument
<1>4. <<text>> \in Argv /\ Len(<<text>>) = 1
  BY <1>1, <1>2 DEF Argv
<1> QED
  BY <1>3, <1>4, ReadsAre, HandlerIsGood DEF Commands

LEMMA OperGood ==
  ASSUME NEW t, Spoken(t)
  PROVE  Good(OperLine(t))
<1>1. PICK words : words = Tokens(t)
  OBVIOUS
<1>2. words \in Seq(Seq(Byte)) /\ Len(words) \in Nat
  BY <1>1, WordsAre
<1>3. CASE Len(words) < 3
  <2>1. OperLine(t) = NeedMoreParams("OPER")
    BY <1>1, <1>3 DEF OperLine
  <2> QED
    BY <2>1, OneIsGood
<1>4. CASE ~(Len(words) < 3)
  <2>1. OperLine(t) = Result("OPER", <<words[2], words[3]>>)
    BY <1>1, <1>4 DEF OperLine
  <2>2. words[2] \in Seq(Byte) /\ words[3] \in Seq(Byte)
    BY <1>2, <1>4
  <2>3. PICK argv : argv = <<words[2], words[3]>>
    OBVIOUS
  <2>4. argv \in Argv /\ Len(argv) = 2
    BY <2>2, <2>3 DEF Argv
  <2>5. "OPER" \in Commands /\ Reads("OPER", argv) = 2
    BY ReadsAre DEF Commands
  <2>6. Len(argv) >= Reads("OPER", argv)
    BY <2>4, <2>5
  <2>7. Good(Result("OPER", argv))
    BY <2>4, <2>5, <2>6, HandlerIsGood
  <2> QED
    BY <2>1, <2>3, <2>7
<1> QED
  BY <1>3, <1>4

LEMMA PingNotUb ==
  ASSUME NEW t, Spoken(t), NEW type \in {"PING", "PONG"}, NEW isRegistered
  PROVE  ~IsUb(PingLine(type, t), isRegistered)
<1>1. PICK argv : PingLine(type, t) = Result(type, argv)
  BY DEF PingLine
<1>2. type \in Commands /\ Readable(argv, Reads(type, argv))
  BY ReadsAre DEF Commands, Readable
<1> QED
  BY <1>1, <1>2, HandlerIsUb

LEMMA LusersNotUb ==
  ASSUME NEW t, NEW isRegistered
  PROVE  ~IsUb(LusersLine(t), isRegistered)
<1>1. CASE t = <<"LUSE", "RS">>
  <2>1. LusersLine(t) = Result("LUSERS", UNSET)
    BY <1>1 DEF LusersLine
  <2>2. "LUSERS" \in Commands /\ Readable(UNSET, Reads("LUSERS", UNSET))
    BY ReadsAre DEF Commands, Readable
  <2> QED
    BY <2>1, <2>2, HandlerIsUb
<1>2. CASE t # <<"LUSE", "RS">>
  <2>1. LusersLine(t) = NoArgument("UNKNOWNCOMMAND") /\ "UNKNOWNCOMMAND" \in Errors
    BY <1>2 DEF LusersLine, Errors
  <2> QED
    BY <2>1, OneIsGood, GoodIsNotUb
<1> QED
  BY <1>1, <1>2

LEMMA NoticeGood ==
  ASSUME NEW t, Spoken(t)
  PROVE  Good(NoticeLine(t))
<1>1. PICK front : front = Tokens(first_part(t))
  OBVIOUS
<1>2. /\ front \in Seq(Seq(Byte)) /\ Len(front) \in Nat /\ Len(front) >= 1
      /\ second_part(t) \in Seq(Byte)
  BY <1>1, FrontIs, FirstToken DEF Spoken
<1>3. front[1] \in Seq(Byte)
  BY <1>2
<1>4. {"SILENTDROP", "NOTEXTTOSEND", "UNKNOWNCOMMAND"} \subseteq Errors
  BY DEF Errors
<1>5. /\ Good(NoArgument("SILENTDROP")) /\ Good(NoArgument("NOTEXTTOSEND"))
      /\ Good(Result("UNKNOWNCOMMAND", <<front[1]>>))
  BY <1>3, <1>4, OneIsGood
<1>6. CASE Len(front) >= 2
  <2>1. PICK argv : argv = Arguments(front, 1) \o <<second_part(t)>>
    OBVIOUS
  <2>2. argv \in Argv /\ Len(argv) = 2
    BY <1>2, <1>6, <2>1, OneArgument
  <2>3. Good(Result("NOTICE", argv))
    BY <2>2, ReadsAre, HandlerIsGood DEF Commands
  <2> QED
    BY <1>1, <1>5, <2>1, <2>3 DEF NoticeLine
<1>7. CASE ~(Len(front) >= 2)
  <2>1. Len(front) < 2
    BY <1>2, <1>7
  <2> QED
    BY <1>1, <1>5, <2>1 DEF NoticeLine
<1> QED
  BY <1>6, <1>7

LEMMA JoinGood ==
  ASSUME NEW t, Spoken(t)
  PROVE  Good(JoinLine(t))
<1>1. PICK words : words = Tokens(t)
  OBVIOUS
<1>2. words \in Seq(Seq(Byte)) /\ Len(words) \in Nat
  BY <1>1, WordsAre
<1>3. CASE Len(words) < 2
  <2>1. JoinLine(t) = NeedMoreParams("JOIN")
    BY <1>1, <1>3 DEF JoinLine
  <2> QED
    BY <2>1, OneIsGood
<1>4. CASE ~(Len(words) < 2)
  <2>1. JoinLine(t) = Result("JOIN", Arguments(words, 1))
    BY <1>1, <1>4 DEF JoinLine
  <2>2. Arguments(words, 1) \in Argv /\ Len(Arguments(words, 1)) = 1
    <3>1. Len(words) >= 2
      BY <1>2, <1>4
    <3> QED
      BY <1>2, <3>1, OneArgument
  <2> QED
    BY <2>1, <2>2, ReadsAre, HandlerIsGood DEF Commands
<1> QED
  BY <1>3, <1>4

LEMMA PartGood ==
  ASSUME NEW t, Spoken(t)
  PROVE  Good(PartLine(t))
<1>1. PICK words : words = Tokens(IF Colon(t) = 0 THEN t ELSE first_part(t))
  OBVIOUS
<1>2. PICK text : text = IF Colon(t) = 0 THEN NULL ELSE second_part(t)
  OBVIOUS
<1>3. words \in Seq(Seq(Byte)) /\ Len(words) \in Nat /\ text \in Seq(Byte) \cup {NULL}
  BY <1>1, <1>2, FrontIs, FirstToken DEF Spoken
<1>4. CASE Len(words) < 2
  <2>1. PartLine(t) = Result("NEEDMOREPARAMS", <<"PART", NULL>>)
    BY <1>1, <1>4 DEF PartLine
  <2>2. <<"PART", NULL>> \in Argv /\ Len(<<"PART", NULL>>) = 2
    BY DEF Argv
  <2>3. "NEEDMOREPARAMS" \in Errors \ Commands
    BY DEF Errors, Commands
  <2> QED
    BY <2>1, <2>2, <2>3 DEF Good
<1>5. CASE ~(Len(words) < 2)
  <2>1. PICK argv : argv = Arguments(words, 1) \o <<text>>
    OBVIOUS
  <2>2. PartLine(t) = Result("PART", argv)
    BY <1>1, <1>2, <1>5, <2>1 DEF PartLine
  <2>3. argv \in Argv /\ Len(argv) = 2
    <3>1. Len(words) >= 2
      BY <1>3, <1>5
    <3> QED
      BY <1>3, <2>1, <3>1, OneArgument
  <2>4. Good(Result("PART", argv))
    BY <2>3, ReadsAre, HandlerIsGood DEF Commands
  <2> QED
    BY <2>2, <2>4
<1> QED
  BY <1>4, <1>5

LEMMA ModeGood ==
  ASSUME NEW t, Spoken(t)
  PROVE  Good(ModeLine(t))
<1>1. PICK words : words = Tokens(t)
  OBVIOUS
<1>2. words \in Seq(Seq(Byte)) /\ Len(words) \in Nat
  BY <1>1, WordsAre
<1>3. Good(NeedMoreParams("MODE")) /\ Good(NoArgument("UNKNOWNMODE"))
  BY OneIsGood DEF Errors
<1>4. CASE Len(words) < 4
  <2>1. ModeLine(t) = NeedMoreParams("MODE")
    BY <1>1, <1>4 DEF ModeLine
  <2> QED
    BY <1>3, <2>1
<1>5. CASE ~(Len(words) < 4)
  <2>0. 3 \in Nat /\ 3 + 1 <= Len(words)
    BY <1>2, <1>5
  <2>1. Arguments(words, 3) \in Argv /\ Len(Arguments(words, 3)) = 3
    BY <1>2, <2>0, ArgumentsAre
  <2>2. Good(Result("MODE", Arguments(words, 3)))
    BY <2>1, ReadsAre, HandlerIsGood DEF Commands
  <2>3. ModeLine(t) = NoArgument("UNKNOWNMODE") \/ ModeLine(t) = Result("MODE", Arguments(words, 3))
    BY <1>1, <1>5 DEF ModeLine
  <2> QED
    BY <1>3, <2>2, <2>3
<1> QED
  BY <1>4, <1>5

LEMMA ListUb ==
  ASSUME NEW t, Spoken(t), NEW isRegistered
  PROVE  IsUb(ListLine(t), isRegistered) <=> Len(Tokens(t)) >= 3 /\ isRegistered
<1>1. PICK words : words = Tokens(t)
  OBVIOUS
<1>2. words \in Seq(Seq(Byte)) /\ Len(words) \in Nat /\ Len(words) >= 1
  BY <1>1, WordsAre
<1>3. CASE Len(words) = 1
  <2>1. ListLine(t) = Result("LIST", <<NULL>>)
    BY <1>1, <1>3 DEF ListLine, NoArgument
  <2>2. <<NULL>> \in Argv /\ Len(<<NULL>>) = 1
    BY DEF Argv
  <2>3. Good(ListLine(t))
    BY <2>1, <2>2, ReadsAre, HandlerIsGood DEF Commands
  <2> QED
    BY <1>1, <1>3, <2>3, GoodIsNotUb
<1>4. CASE Len(words) = 2
  <2>1. ListLine(t) = Result("LIST", Arguments(words, 1))
    BY <1>1, <1>4 DEF ListLine
  <2>2. Arguments(words, 1) \in Argv /\ Len(Arguments(words, 1)) = 1
    <3>1. Len(words) >= 2
      BY <1>2, <1>4
    <3> QED
      BY <1>2, <3>1, OneArgument
  <2>3. Good(ListLine(t))
    BY <2>1, <2>2, ReadsAre, HandlerIsGood DEF Commands
  <2> QED
    BY <1>1, <1>4, <2>3, GoodIsNotUb
<1>5. CASE Len(words) >= 3
  <2>1. ListLine(t) = Result("LIST", UNSET)
    <3>1. Len(words) # 1 /\ Len(words) # 2
      <4>1. \A n \in Nat : n >= 3 => n # 1 /\ n # 2
        OBVIOUS
      <4> QED
        BY <1>2, <1>5, <4>1
    <3> QED
      BY <1>1, <3>1 DEF ListLine
  <2>2. "LIST" \in Commands /\ "LIST" \notin {"NICK", "USER"}
    BY DEF Commands
  <2>3. ~Readable(UNSET, Reads("LIST", UNSET))
    BY ReadsAre DEF Readable
  <2>4. IsUb(ListLine(t), isRegistered) <=> isRegistered
    BY <2>1, <2>2, <2>3, HandlerIsUb
  <2> QED
    BY <1>1, <1>5, <2>4
<1>6. Len(words) = 1 \/ Len(words) = 2 \/ Len(words) >= 3
  <2>1. \A n \in Nat : n >= 1 => n = 1 \/ n = 2 \/ n >= 3
    OBVIOUS
  <2> QED
    BY <1>2, <2>1
<1> QED
  BY <1>3, <1>4, <1>5, <1>6

LEMMA WhoisUb ==
  ASSUME NEW t, Spoken(t), t[1] = "WHOI", NEW isRegistered
  PROVE  IsUb(WhoisLine(t), isRegistered) <=>
           ~IsPrefix(<<"WHOI", "S">>, t) /\ Len(Tokens(t)) # 2
<1>1. PICK words : words = Tokens(t)
  OBVIOUS
<1>2. /\ words \in Seq(Seq(Byte)) /\ Len(words) \in Nat
      /\ t \in Seq(Byte) /\ Len(t) \in Nat
  BY <1>1, WordsAre DEF Spoken
<1>3. PICK argv : argv = IF Len(words) = 2 THEN Arguments(words, 1) ELSE NULL
  OBVIOUS
<1>4. Len(words) = 2 => argv \in Argv /\ Len(argv) = 1
  <2> SUFFICES ASSUME Len(words) = 2 PROVE argv \in Argv /\ Len(argv) = 1
    OBVIOUS
  <2>1. Len(words) >= 2
    OBVIOUS
  <2> QED
    BY <1>2, <1>3, <2>1, OneArgument
<1>5. IsPrefix(<<"WHOI", "S">>, t) <=> Len(t) >= 2 /\ t[2] = "S"
  BY <1>2 DEF IsPrefix
<1>6. CASE Len(t) >= 2 /\ t[2] = "S"
  <2>1. WhoisLine(t) = Result("WHOIS", argv)
    BY <1>1, <1>2, <1>3, <1>6 DEF WhoisLine
  <2>2. Readable(argv, Reads("WHOIS", argv))
    <3>1. CASE Len(words) = 2
      <4>1. argv # NULL /\ argv # UNSET
        BY <1>4, <3>1, ParseValues
      <4> QED
        BY <1>4, <3>1, <4>1, ReadsAre DEF Readable
    <3>2. CASE Len(words) # 2
      BY <1>3, <3>2, ReadsAre DEF Readable
    <3> QED
      BY <3>1, <3>2
  <2>3. "WHOIS" \in Commands
    BY DEF Commands
  <2> QED
    BY <1>5, <1>6, <2>1, <2>2, <2>3, HandlerIsUb
<1>7. CASE ~(Len(t) >= 2 /\ t[2] = "S")
  <2>1. WhoisLine(t) = Result("UNKNOWNCOMMAND", argv)
    BY <1>1, <1>2, <1>3, <1>7 DEF WhoisLine
  <2>2. "UNKNOWNCOMMAND" \in Errors /\ "UNKNOWNCOMMAND" # "SILENTDROP"
    BY DEF Errors
  <2>3. Readable(argv, 1) <=> Len(words) = 2
    BY <1>3, <1>4, ParseValues DEF Readable
  <2> QED
    BY <1>1, <1>5, <1>7, <2>1, <2>2, <2>3, ErrorIsUb
<1> QED
  BY <1>6, <1>7

\* Where the words of PRIVMSG begin, and what is before its colon.
LEMMA PrivFront ==
  ASSUME NEW t, Spoken(t), Tokens(t)[1] = <<"PRIV", "MSG">>, Len(Tokens(t)) >= 3,
         Colon(t) # 0
  PROVE  Len(Tokens(first_part(t))) < 2 <=> Colon(t) = 4
<1>1. t \in Seq(Byte) /\ Len(t) \in Nat /\ t # <<>>
  BY DEF Spoken
<1>2. PICK i \in 1..Len(t) : t[i] = SP
  <2> SUFFICES ASSUME \A i \in 1..Len(t) : t[i] # SP PROVE FALSE
    OBVIOUS
  <2>1. Tokens(t) = <<t>>
    BY <1>1, FirstToken
  <2>2. Len(Tokens(t)) = 1
    BY <2>1
  <2> QED
    BY <2>2
<1>3. PICK q \in 1..Len(t) : FirstSP(t, q)
  BY <1>1, <1>2, FirstSPExists
<1>4. SubSeq(t, 1, q - 1) = <<"PRIV", "MSG">>
  BY <1>1, <1>3, FirstToken
<1>5. q = 3 /\ t[1] = "PRIV" /\ t[2] = "MSG" /\ t[3] = SP
  <2>1. PICK w : w = SubSeq(t, 1, q - 1)
    OBVIOUS
  <2>2. q - 1 \in Nat /\ 1 \in Nat \ {0} /\ 1 <= (q - 1) + 1 /\ q - 1 <= Len(t)
        /\ ((q - 1) - 1) + 1 = q - 1 /\ (1 + 1) - 1 = 1 /\ (1 + 2) - 1 = 2
    BY <1>1
  <2>3. /\ Len(w) = ((q - 1) - 1) + 1
        /\ \A k \in 1..(((q - 1) - 1) + 1) : w[k] = t[(1 + k) - 1]
    BY <1>1, <2>1, <2>2, PartIs
  <2>4. Len(w) = 2 /\ w[1] = "PRIV" /\ w[2] = "MSG"
    <3>1. w = <<"PRIV", "MSG">>
      BY <1>4, <2>1
    <3> QED
      BY <3>1
  <2>5. q = 3
    <3>1. q - 1 = 2
      BY <2>2, <2>3, <2>4
    <3> QED
      BY <2>2, <3>1
  <2>6. ((q - 1) - 1) + 1 = 2 /\ 1 \in 1..2 /\ 2 \in 1..2
    BY <2>5
  <2>7. t[1] = "PRIV" /\ t[2] = "MSG"
    BY <2>2, <2>3, <2>4, <2>6
  <2> QED
    BY <1>3, <2>5, <2>7 DEF FirstSP
<1>6. PICK c : c = Colon(t)
  OBVIOUS
<1>7. c \in 1..Len(t) /\ t[c] = ":"
  BY <1>1, <1>6, ColonIs
<1>8. c >= 4 /\ c \in Nat
  <2>1. SP # ":" /\ "PRIV" # ":" /\ "MSG" # ":"
    BY ParseBytes DEF Letters
  <2>2. c # 1 /\ c # 2 /\ c # 3
    BY <1>5, <1>7, <2>1
  <2> QED
    BY <1>7, <2>2
<1>9. PICK f : f = first_part(t)
  OBVIOUS
<1>10. /\ f \in Seq(Byte) /\ f # <<>> /\ Len(f) = 1 + (c - 2)
       /\ \A k \in 1..(c - 2) : f[k] = t[k]
       /\ f[Len(f)] = NUL
  BY <1>1, <1>6, <1>8, <1>9, FrontIs
<1>11. CASE c = 4
  <2>1. Len(f) = 3 /\ f[1] = "PRIV" /\ f[2] = "MSG" /\ f[3] = NUL
    <3>1. 1 \in 1..(c - 2) /\ 2 \in 1..(c - 2) /\ 1 + (c - 2) = 3
      BY <1>11
    <3> QED
      BY <1>5, <1>10, <3>1
  <2>2. SP # "PRIV" /\ SP # "MSG" /\ SP # NUL
    BY ParseBytes, StringBytes DEF Letters
  <2>3. \A k \in 1..Len(f) : k = 1 \/ k = 2 \/ k = 3
    BY <2>1
  <2>4. \A k \in 1..Len(f) : f[k] # SP
    BY <2>1, <2>2, <2>3
  <2>5. Tokens(f) = <<f>>
    BY <1>10, <2>4, FirstToken
  <2>6. Len(Tokens(f)) = 1
    BY <2>5
  <2> QED
    BY <1>6, <1>9, <1>11, <2>6
<1>12. CASE c # 4
  <2>1. 3 \in 1..(c - 2) /\ 3 \in 1..Len(f)
    BY <1>8, <1>10, <1>12
  <2>2. f[3] = SP
    BY <1>5, <1>10, <2>1
  <2>3. PICK k \in 1..3 : FirstSP(f, k)
    BY <1>10, <2>1, <2>2, FirstSPExists
  <2>4. k \in 1..Len(f)
    BY <2>3 DEF FirstSP
  <2>5. Tokens(f) \in Seq(Seq(Byte)) /\ Len(Tokens(f)) >= 2
    BY <1>10, <2>3, <2>4, FirstToken
  <2>6. Len(Tokens(f)) \in Nat
    BY <2>5
  <2>7. ~(Len(Tokens(f)) < 2)
    BY <2>5, <2>6
  <2> QED
    BY <1>6, <1>9, <1>12, <2>7
<1> QED
  BY <1>11, <1>12

LEMMA PrivUb ==
  ASSUME NEW t, Spoken(t), NEW isRegistered
  PROVE  IsUb(PrivLine(t), isRegistered) <=>
           /\ Tokens(t)[1] = <<"PRIV", "MSG">> /\ Len(Tokens(t)) >= 3
           /\ Colon(t) \in {0, Len(Tokens(t)[1]) + 2}
<1>1. PICK words : words = Tokens(t)
  OBVIOUS
<1>2. PICK front : front = Tokens(first_part(t))
  OBVIOUS
<1>3. /\ words \in Seq(Seq(Byte)) /\ Len(words) \in Nat /\ Len(words) >= 1
      /\ words[1] \in Seq(Byte)
  BY <1>1, WordsAre
<1>4. front \in Seq(Seq(Byte)) /\ Len(front) \in Nat /\ second_part(t) \in Seq(Byte)
  BY <1>2, FrontIs, FirstToken DEF Spoken
<1>5. Len(words) = 1 \/ Len(words) = 2 \/ Len(words) >= 3
  <2>1. \A n \in Nat : n >= 1 => n = 1 \/ n = 2 \/ n >= 3
    OBVIOUS
  <2> QED
    BY <1>3, <2>1
<1>6. CASE words[1] # <<"PRIV", "MSG">>
  <2>1. PrivLine(t) = Result("UNKNOWNCOMMAND", <<words[1]>>)
    BY <1>1, <1>6 DEF PrivLine
  <2>2. Good(PrivLine(t))
    BY <1>3, <2>1, OneIsGood DEF Errors
  <2> QED
    BY <1>1, <1>6, <2>2, GoodIsNotUb
<1>7. CASE words[1] = <<"PRIV", "MSG">> /\ ~(Len(words) >= 3)
  <2>1. Len(words) = 1 \/ Len(words) = 2
    BY <1>5, <1>7
  <2>2. \/ PrivLine(t) = NoArgument("NOTEXTTOSEND")
        \/ PrivLine(t) = Result("NORECIPIENT", <<words[1]>>)
    BY <1>1, <1>7, <2>1 DEF PrivLine
  <2>3. Good(PrivLine(t))
    BY <1>3, <2>2, OneIsGood DEF Errors
  <2> QED
    BY <1>1, <1>7, <2>3, GoodIsNotUb
<1>8. CASE words[1] = <<"PRIV", "MSG">> /\ Len(words) >= 3
  <2>1. Len(words) # 1 /\ Len(words) # 2
    <3>1. \A n \in Nat : n >= 3 => n # 1 /\ n # 2
      OBVIOUS
    <3> QED
      BY <1>3, <1>8, <3>1
  <2>2. PrivLine(t) = IF Colon(t) = 0 \/ Len(front) < 2 THEN Wild
                      ELSE Result("PRIVMSG", Arguments(front, 1) \o <<second_part(t)>>)
    BY <1>1, <1>2, <1>8, <2>1 DEF PrivLine
  <2>3. Len(words[1]) + 2 = 4
    <3>1. Len(words[1]) = 2
      BY <1>8
    <3> QED
      BY <3>1
  <2>4. Colon(t) \in {0, 4} <=> Colon(t) = 0 \/ Len(front) < 2
    BY <1>1, <1>2, <1>8, PrivFront
  <2>5. CASE Colon(t) = 0 \/ Len(front) < 2
    BY <1>1, <1>8, <2>2, <2>3, <2>4, <2>5, WildIsUb
  <2>6. CASE ~(Colon(t) = 0 \/ Len(front) < 2)
    <3>1. PICK argv : argv = Arguments(front, 1) \o <<second_part(t)>>
      OBVIOUS
    <3>2. Len(front) >= 2
      BY <1>4, <2>6
    <3>3. argv \in Argv /\ Len(argv) = 2
      BY <1>4, <3>1, <3>2, OneArgument
    <3>4. Good(Result("PRIVMSG", argv))
      BY <3>3, ReadsAre, HandlerIsGood DEF Commands
    <3>5. PrivLine(t) = Result("PRIVMSG", argv)
      BY <2>2, <2>6, <3>1
    <3> QED
      BY <1>1, <2>3, <2>4, <2>6, <3>4, <3>5, GoodIsNotUb
  <2> QED
    BY <2>5, <2>6
<1> QED
  BY <1>6, <1>7, <1>8

\* parse_string and incoming_command on one line.
LEMMA WildIsDefective ==
  ASSUME NEW line \in Seq(Byte), NEW isRegistered
  PROVE  IsUb(parse_string(line), isRegistered) <=> Defective(line, isRegistered)
<1>1. PICK t : t = Trimmed(line)
  OBVIOUS
<1>2. t \in Seq(Byte)
  BY <1>1, TrimmedBytes
<1>3. PICK words : words = Tokens(t)
  OBVIOUS
<1>4. Defective(line, isRegistered) <=>
        /\ t # <<>>
        /\ \/ t[1] = "NICK" /\ Len(words) >= 3
           \/ t[1] = "LIST" /\ Len(words) >= 3 /\ isRegistered
           \/ /\ words[1] = <<"PRIV", "MSG">> /\ Len(words) >= 3
              /\ Colon(t) \in {0, Len(words[1]) + 2}
           \/ t[1] = "WHOI" /\ ~IsPrefix(<<"WHOI", "S">>, t) /\ Len(words) # 2
  BY <1>1, <1>3 DEF Defective
<1>5. CASE t = <<>>
  <2>1. parse_string(line) = NoArgument("SILENTDROP") /\ "SILENTDROP" \in Errors
    BY <1>1, <1>5 DEF parse_string, Errors
  <2> QED
    BY <1>4, <1>5, <2>1, OneIsGood, GoodIsNotUb
<1>6. CASE t # <<>>
  <2>1. Spoken(t)
    BY <1>1, <1>2, <1>6, TrimmedNeat DEF Spoken, Neat
  <2>2. /\ words \in Seq(Seq(Byte)) /\ words[1] \in Seq(Byte)
        /\ words[1][1] = t[1]
    BY <1>3, <2>1, WordsAre
  <2>3. words[1] = <<"PRIV", "MSG">> => t[1] = "PRIV"
    BY <2>2
  <2>4. PICK r : r = parse_string(line)
    OBVIOUS
  <2>5. CASE t[1] = "NICK"
    <3>1. r = NickLine(t)
      BY <1>1, <1>6, <2>4, <2>5 DEF parse_string
    <3>2. IsUb(r, isRegistered) <=> Len(words) >= 3
      BY <1>3, <2>1, <3>1, NickUb
    <3> QED
      BY <1>4, <1>6, <2>3, <2>4, <2>5, <3>2
  <2>6. CASE t[1] = "LIST"
    <3>1. r = ListLine(t)
      BY <1>1, <1>6, <2>4, <2>6 DEF parse_string
    <3>2. IsUb(r, isRegistered) <=> Len(words) >= 3 /\ isRegistered
      BY <1>3, <2>1, <3>1, ListUb
    <3> QED
      BY <1>4, <1>6, <2>3, <2>4, <2>6, <3>2
  <2>7. CASE t[1] = "PRIV"
    <3>1. r = PrivLine(t)
      BY <1>1, <1>6, <2>4, <2>7 DEF parse_string
    <3>2. IsUb(r, isRegistered) <=>
            /\ words[1] = <<"PRIV", "MSG">> /\ Len(words) >= 3
            /\ Colon(t) \in {0, Len(words[1]) + 2}
      BY <1>3, <2>1, <3>1, PrivUb
    <3> QED
      BY <1>4, <1>6, <2>4, <2>7, <3>2
  <2>8. CASE t[1] = "WHOI"
    <3>1. r = WhoisLine(t)
      BY <1>1, <1>6, <2>4, <2>8 DEF parse_string
    <3>2. IsUb(r, isRegistered) <=> ~IsPrefix(<<"WHOI", "S">>, t) /\ Len(words) # 2
      BY <1>3, <2>1, <2>8, <3>1, WhoisUb
    <3> QED
      BY <1>4, <1>6, <2>3, <2>4, <2>8, <3>2
  <2>9. CASE t[1] \notin {"NICK", "LIST", "PRIV", "WHOI"}
    <3>1. ~Defective(line, isRegistered)
      BY <1>4, <2>3, <2>9
    <3>2. CASE t[1] = "USER"
      <4>1. r = UserLine(t)
        BY <1>1, <1>6, <2>4, <3>2 DEF parse_string
      <4> QED
        BY <2>1, <2>4, <3>1, <4>1, UserGood, GoodIsNotUb
    <3>3. CASE t[1] = "QUIT"
      <4>1. r = QuitLine(t)
        BY <1>1, <1>6, <2>4, <3>3 DEF parse_string
      <4> QED
        BY <2>1, <2>4, <3>1, <4>1, QuitGood, GoodIsNotUb
    <3>4. CASE t[1] = "OPER"
      <4>1. r = OperLine(t)
        BY <1>1, <1>6, <2>4, <3>4 DEF parse_string
      <4> QED
        BY <2>1, <2>4, <3>1, <4>1, OperGood, GoodIsNotUb
    <3>5. CASE t[1] = "PING"
      <4>1. r = PingLine("PING", t)
        BY <1>1, <1>6, <2>4, <3>5 DEF parse_string
      <4> QED
        BY <2>1, <2>4, <3>1, <4>1, PingNotUb
    <3>6. CASE t[1] = "PONG"
      <4>1. r = PingLine("PONG", t)
        BY <1>1, <1>6, <2>4, <3>6 DEF parse_string
      <4> QED
        BY <2>1, <2>4, <3>1, <4>1, PingNotUb
    <3>7. CASE t[1] = "LUSE"
      <4>1. r = LusersLine(t)
        BY <1>1, <1>6, <2>4, <3>7 DEF parse_string
      <4> QED
        BY <2>4, <3>1, <4>1, LusersNotUb
    <3>8. CASE t[1] = "NOTI"
      <4>1. r = NoticeLine(t)
        BY <1>1, <1>6, <2>4, <3>8 DEF parse_string
      <4> QED
        BY <2>1, <2>4, <3>1, <4>1, NoticeGood, GoodIsNotUb
    <3>9. CASE t[1] = "JOIN"
      <4>1. r = JoinLine(t)
        BY <1>1, <1>6, <2>4, <3>9 DEF parse_string
      <4> QED
        BY <2>1, <2>4, <3>1, <4>1, JoinGood, GoodIsNotUb
    <3>10. CASE t[1] = "PART"
      <4>1. r = PartLine(t)
        BY <1>1, <1>6, <2>4, <3>10 DEF parse_string
      <4> QED
        BY <2>1, <2>4, <3>1, <4>1, PartGood, GoodIsNotUb
    <3>11. CASE t[1] = "MODE"
      <4>1. r = ModeLine(t)
        BY <1>1, <1>6, <2>4, <3>11 DEF parse_string
      <4> QED
        BY <2>1, <2>4, <3>1, <4>1, ModeGood, GoodIsNotUb
    <3>12. CASE t[1] \notin {"USER", "QUIT", "OPER", "PING", "PONG", "LUSE", "NOTI",
                            "JOIN", "PART", "MODE"}
      <4>1. r = Result("UNKNOWN", <<words[1]>>)
        BY <1>1, <1>3, <1>6, <2>4, <2>9, <3>12 DEF parse_string
      <4>2. Good(r)
        BY <2>2, <4>1, OneIsGood DEF Errors
      <4> QED
        BY <2>4, <3>1, <4>2, GoodIsNotUb
    <3> QED
      BY <2>9, <3>2, <3>3, <3>4, <3>5, <3>6, <3>7, <3>8, <3>9, <3>10, <3>11, <3>12
  <2> QED
    BY <2>5, <2>6, <2>7, <2>8, <2>9
<1> QED
  BY <1>5, <1>6

\* The lines handed on, and what became of them.
LEMMA Dispatched ==
  ASSUME InputInv, [Next]_ivars, lines' # lines
  PROVE  \E line \in Seq(Byte) :
           lines'[Len(lines')] = line /\ did' = Outcome(parse_string(line), registered)
<1>1. CompleteLine
  BY DEF Next, ivars, Receive, Close, KeepRest
<1>2. PICK piece : piece = CString(SubSeq(buffer, 1, EndOfLine))
  OBVIOUS
<1>3. PICK line : line = Stripped(command_str \o piece, piece)
  OBVIOUS
<1>4. EndOfLine > 0 /\ incoming_command(line)
  BY <1>1, <1>2, <1>3 DEF CompleteLine
<1>5. line \in Seq(Byte)
  BY <1>2, <1>3, <1>4, LineBytes
<1>6. lines' = Append(lines, line) /\ did' = Outcome(parse_string(line), registered)
  BY <1>4 DEF incoming_command
<1>7. Append(lines, line)[Len(Append(lines, line))] = line
  <2>1. lines \in Seq(Seq(Byte))
    BY InputInvIs
  <2> QED
    BY <1>5, <2>1
<1> QED
  BY <1>5, <1>6, <1>7

\* Of all lines there can be, those that make a handler use what parse_string
\* never wrote are NICK and LIST with too many arguments, PRIVMSG without its
\* colon in place and words that begin like WHOIS; everything else the handlers
\* read of argv is there, in all fifteen branches.
THEOREM WildIsExact == Spec => WildExactly
<1>1. ASSUME InputInv, [Next]_ivars, lines' # lines
      PROVE  did'.kind = "ub" <=> Defective(lines'[Len(lines')], registered)
  <2>1. PICK line \in Seq(Byte) :
          lines'[Len(lines')] = line /\ did' = Outcome(parse_string(line), registered)
    BY <1>1, Dispatched
  <2> QED
    BY <2>1, WildIsDefective DEF IsUb
<1>2. InputInv /\ [Next]_ivars =>
        [lines' # lines =>
           (did'.kind = "ub" <=> Defective(lines'[Len(lines')], registered))]_ivars
  BY <1>1
<1> QED
  BY <1>2, InputAlways, PTL DEF Spec, WildExactly

----------------------------------------------------------------------------
(* Lines as the protocol writes them *)

\* A line without a colon or a space at its ends, and its words.
Plain(x, words) ==
  /\ x \in Seq(Char) /\ words \in Seq(Seq(Char)) /\ x # <<>> /\ Len(words) >= 1
  /\ x[1] # SP /\ x[Len(x)] # SP /\ \A i \in 1..Len(x) : x[i] # ":"
  /\ Len(x) >= Len(words[1]) /\ \A i \in 1..Len(words[1]) : x[i] = words[1][i]
  /\ Tokens(x) = words

\* A word is neither empty nor has a space or colon in it.
Word(w) == w \in Seq(Char \ {SP, ":"}) /\ w # <<>>

\* What the protocol writes has no NUL, so that all of it is a C string.
LEMMA CharBytes ==
  ASSUME NEW w \in Seq(Char)
  PROVE  w \in Seq(Byte) /\ CString(w) = w /\ w # NULL /\ \A i \in 1..Len(w) : w[i] # NUL
<1>1. w \in Seq(Byte)
  BY DEF Byte
<1>2. \A i \in 1..Len(w) : w[i] # NUL
  <2>1. \A i \in 1..Len(w) : w[i] \in Char
    OBVIOUS
  <2> QED
    BY <2>1, StringBytes
<1>3. ~Contains(w, NUL)
  BY <1>2 DEF Contains
<1> QED
  BY <1>1, <1>2, <1>3, CStringWhole, ParseValues

LEMMA WordIs ==
  ASSUME NEW w, Word(w)
  PROVE  /\ w \in Seq(Char) /\ w # <<>> /\ Len(w) \in Nat \ {0}
         /\ \A i \in 1..Len(w) : w[i] # SP /\ w[i] # ":"
<1>1. w \in Seq(Char \ {SP, ":"}) /\ w # <<>>
  BY DEF Word
<1>2. \A i \in 1..Len(w) : w[i] \in Char \ {SP, ":"}
  BY <1>1
<1>3. w \in Seq(Char)
  BY <1>1
<1> QED
  BY <1>1, <1>2, <1>3

\* A verb alone is such a line, and another word keeps it one.
LEMMA PlainVerb ==
  ASSUME NEW w, Word(w)
  PROVE  Plain(w, <<w>>)
<1>1. /\ w \in Seq(Char) /\ w # <<>> /\ Len(w) \in Nat \ {0}
      /\ \A i \in 1..Len(w) : w[i] # SP /\ w[i] # ":"
  BY WordIs
<1>2. w \in Seq(Byte)
  BY <1>1, CharBytes
<1>3. Tokens(w) = <<w>>
  BY <1>1, <1>2, FirstToken
<1>4. <<w>> \in Seq(Seq(Char)) /\ Len(<<w>>) = 1 /\ <<w>>[1] = w
  BY <1>1
<1>5. 1 \in 1..Len(w) /\ Len(w) \in 1..Len(w) /\ Len(w) >= Len(w)
  BY <1>1
<1>6. w[1] # SP /\ w[Len(w)] # SP
  BY <1>1, <1>5
<1> QED
  BY <1>1, <1>3, <1>4, <1>5, <1>6 DEF Plain

LEMMA PlainWord ==
  ASSUME NEW x, NEW words, Plain(x, words), NEW w, Word(w)
  PROVE  Plain(x \o <<SP>> \o w, Append(words, w))
<1>1. /\ x \in Seq(Char) /\ words \in Seq(Seq(Char)) /\ x # <<>> /\ Len(words) >= 1
      /\ x[1] # SP /\ \A i \in 1..Len(x) : x[i] # ":"
      /\ Len(x) >= Len(words[1]) /\ \A i \in 1..Len(words[1]) : x[i] = words[1][i]
      /\ Tokens(x) = words
  BY DEF Plain
<1>2. /\ w \in Seq(Char) /\ w # <<>> /\ Len(w) \in Nat \ {0}
      /\ \A i \in 1..Len(w) : w[i] # SP /\ w[i] # ":"
  BY WordIs
<1>3. x \in Seq(Byte) /\ w \in Seq(Byte)
  BY <1>1, <1>2, CharBytes
<1>4. PICK z : z = x \o <<SP>> \o w
  OBVIOUS
<1>5. PICK m : m = Len(x)
  OBVIOUS
<1>6. PICK n : n = Len(w)
  OBVIOUS
<1>7. /\ Len(z) = m + 1 + n /\ z[m + 1] = SP
      /\ \A i \in 1..m : z[i] = x[i]
      /\ \A i \in 1..n : z[m + 1 + i] = w[i]
  BY <1>3, <1>4, <1>5, <1>6, SpacedIs DEF Spaced
<1>8. z \in Seq(Char)
  <2>1. <<SP>> \in Seq(Char)
    BY StringBytes
  <2>2. x \o <<SP>> \in Seq(Char)
    BY <1>1, <2>1
  <2> QED
    BY <1>2, <1>4, <2>2
<1>9. m \in Nat \ {0} /\ n \in Nat \ {0}
  BY <1>1, <1>2, <1>5, <1>6
<1>10. z # <<>> /\ z[1] = x[1] /\ z[Len(z)] = w[n]
  <2>1. 1 \in 1..m /\ n \in 1..n /\ m + 1 + n # 0
    BY <1>9
  <2>2. Len(z) # 0
    BY <1>7, <2>1
  <2>3. z # <<>>
    BY <2>2
  <2> QED
    BY <1>7, <2>1, <2>3
<1>11. ASSUME NEW i \in 1..Len(z) PROVE z[i] # ":"
  <2>1. i \in 1..(m + 1 + n)
    BY <1>7
  <2>2. i \in 1..m \/ i = m + 1 \/ (i - (m + 1) \in 1..n /\ m + 1 + (i - (m + 1)) = i)
    BY <1>9, <2>1
  <2>3. SP # ":"
    BY ParseBytes DEF Letters
  <2>4. CASE i \in 1..m
    BY <1>1, <1>5, <1>7, <2>4
  <2>5. CASE i = m + 1
    BY <1>7, <2>3, <2>5
  <2>6. CASE i - (m + 1) \in 1..n /\ m + 1 + (i - (m + 1)) = i
    BY <1>2, <1>6, <1>7, <2>6
  <2> QED
    BY <2>2, <2>4, <2>5, <2>6
<1>12. PICK more : more = Append(words, w)
  OBVIOUS
<1>13. /\ more \in Seq(Seq(Char)) /\ Len(more) >= 1 /\ more[1] = words[1]
  BY <1>1, <1>2, <1>12
<1>14. Tokens(z) = more
  BY <1>1, <1>2, <1>3, <1>4, <1>12, SpacedTokens
<1>15. Len(words[1]) \in Nat
  BY <1>1
<1>16. Len(z) >= Len(words[1]) /\ \A i \in 1..Len(words[1]) : i \in 1..m
  BY <1>1, <1>5, <1>7, <1>9, <1>15
<1>17. n \in 1..n
  BY <1>9
<1>18. z[Len(z)] # SP
  BY <1>2, <1>6, <1>10, <1>17
<1>19. \A i \in 1..Len(words[1]) : z[i] = words[1][i]
  BY <1>1, <1>7, <1>16
<1>20. Plain(z, more)
  BY <1>1, <1>8, <1>10, <1>11, <1>13, <1>14, <1>16, <1>18, <1>19 DEF Plain
<1> QED
  BY <1>4, <1>12, <1>20

\* A plain line is not changed by trimming.
LEMMA PlainParsed ==
  ASSUME NEW x, NEW words, Plain(x, words)
  PROVE  Trimmed(x) = x /\ x # <<>> /\ Colon(x) = 0
<1>1. /\ x \in Seq(Char) /\ x # <<>> /\ x[1] # SP /\ x[Len(x)] # SP
      /\ \A i \in 1..Len(x) : x[i] # ":"
  BY DEF Plain
<1>2. x \in Seq(Byte) /\ \A i \in 1..Len(x) : x[i] # NUL
  BY <1>1, CharBytes
<1>3. 1 \in 1..Len(x) /\ Len(x) \in 1..Len(x)
  BY <1>1
<1>4. Neat(x)
  BY <1>1, <1>2, <1>3 DEF Neat
<1>5. Colon(x) = 0
  BY <1>1, <1>2, ColonIs
<1> QED
  BY <1>1, <1>2, <1>4, <1>5, TrimmedNeat

\* A text behind it is found whole, and the line up to it.
Texted(x, text) == x \o <<SP>> \o (<<":">> \o text)
Closing(text) == text \in Seq(Char) /\ text # <<>> /\ text[Len(text)] # SP

LEMMA TextParsed ==
  ASSUME NEW x, NEW words, Plain(x, words), NEW text, Closing(text),
         NEW t, t = Texted(x, text)
  PROVE  /\ Trimmed(t) = t /\ t # <<>> /\ t[1] = x[1] /\ Colon(t) # 0
         /\ first_part(t) = x \o <<NUL>> /\ second_part(t) = text
         /\ Spoken(t) /\ Longer(words, Tokens(t))
<1>1. /\ x \in Seq(Char) /\ x # <<>> /\ x[1] # SP
      /\ \A i \in 1..Len(x) : x[i] # ":"
      /\ Tokens(x) = words
  BY DEF Plain
<1>2. /\ x \in Seq(Byte) /\ Len(x) \in Nat \ {0} /\ \A i \in 1..Len(x) : x[i] # NUL
  BY <1>1, CharBytes
<1>3. /\ text \in Seq(Char) /\ text # <<>> /\ text[Len(text)] # SP
  BY DEF Closing
<1>4. text \in Seq(Byte) /\ Len(text) \in Nat \ {0} /\ \A i \in 1..Len(text) : text[i] # NUL
  BY <1>3, CharBytes
<1>5. PICK u : u = <<":">> \o text
  OBVIOUS
<1>6. ":" \in Byte /\ ":" # SP
  BY ParseBytes DEF Letters, Byte
<1>7. PICK m : m = Len(x)
  OBVIOUS
<1>8. PICK n : n = Len(text)
  OBVIOUS
<1>9. /\ u \in Seq(Byte) /\ Len(u) = 1 + n /\ u[1] = ":"
      /\ \A i \in 1..n : u[1 + i] = text[i]
  <2>1. <<":">> \in Seq(Byte) /\ Len(<<":">>) = 1 /\ <<":">>[1] = ":"
    BY <1>6
  <2>2. u \in Seq(Byte)
    BY <1>4, <1>5, <2>1
  <2>3. Len(u) = 1 + n
    BY <1>4, <1>5, <1>8, <2>1
  <2>4. u[1] = ":"
    BY <1>4, <1>5, <2>1
  <2>5. \A i \in 1..n : u[1 + i] = text[i]
    BY <1>4, <1>5, <1>8, <2>1
  <2> QED
    BY <2>2, <2>3, <2>4, <2>5
<1>10. t = x \o <<SP>> \o u
  BY <1>5 DEF Texted
<1>11. /\ t \in Seq(Byte) /\ Len(t) = m + 1 + (1 + n) /\ t[m + 1] = SP
       /\ \A i \in 1..m : t[i] = x[i]
       /\ \A i \in 1..(1 + n) : t[m + 1 + i] = u[i]
  <2>1. Spaced(x, u, t)
    BY <1>2, <1>9, <1>10, SpacedIs
  <2> QED
    BY <1>7, <1>9, <2>1 DEF Spaced
<1>12. m \in Nat \ {0} /\ n \in Nat \ {0}
  BY <1>2, <1>4, <1>7, <1>8
<1>13. t[m + 2] = ":" /\ \A i \in 1..n : t[m + 2 + i] = text[i]
  <2>1. 1 \in 1..(1 + n) /\ m + 1 + 1 = m + 2
    BY <1>12
  <2>2. \A i \in 1..n : 1 + i \in 1..(1 + n) /\ m + 1 + (1 + i) = m + 2 + i
    BY <1>12
  <2>3. t[m + 2] = ":"
    BY <1>9, <1>11, <2>1
  <2>4. ASSUME NEW i \in 1..n PROVE t[m + 2 + i] = text[i]
    BY <1>9, <1>11, <2>2
  <2> QED
    BY <2>3, <2>4
<1>14. /\ t # <<>> /\ t[1] = x[1] /\ t[Len(t)] = text[n]
  <2>1. 1 \in 1..m /\ n \in 1..n /\ m + 1 + (1 + n) = m + 2 + n /\ m + 2 + n # 0
    BY <1>12
  <2>2. Len(t) # 0
    BY <1>11, <2>1
  <2>3. t # <<>>
    BY <2>2
  <2>4. t[Len(t)] = text[n]
    BY <1>11, <1>13, <2>1
  <2> QED
    BY <1>11, <2>1, <2>3, <2>4
<1>15. Neat(t)
  <2>1. 1 \in 1..Len(x) /\ Len(text) \in 1..Len(text)
    BY <1>2, <1>4
  <2>2. x[1] # NUL /\ text[Len(text)] # NUL
    BY <1>2, <1>4, <2>1
  <2> QED
    BY <1>1, <1>3, <1>8, <1>14, <2>2 DEF Neat
<1>16. Trimmed(t) = t
  BY <1>11, <1>14, <1>15, TrimmedNeat
<1>17. Colon(t) = m + 2
  <2>1. PICK c : c = Colon(t)
    OBVIOUS
  <2>2. \A i \in 1..(m + 1) : t[i] # ":"
    <3>1. \A i \in 1..(m + 1) : i \in 1..m \/ i = m + 1
      BY <1>12
    <3> QED
      BY <1>1, <1>6, <1>7, <1>11, <3>1
  <2>3. m + 2 \in 1..Len(t)
    BY <1>11, <1>12
  <2>4. c \in 1..Len(t) /\ t[c] = ":" /\ \A i \in 1..(c - 1) : t[i] # ":"
    BY <1>11, <1>13, <2>1, <2>3, ColonIs
  <2>5. c \notin 1..(m + 1)
    BY <2>2, <2>4
  <2>6. m + 2 \notin 1..(c - 1)
    BY <1>13, <2>4
  <2>7. c \in Nat /\ c >= 1
    BY <2>4
  <2>8. c = m + 2
    BY <1>12, <2>5, <2>6, <2>7
  <2> QED
    BY <2>1, <2>8
<1>18. SubSeq(t, 1, m) = x
  <2>1. 1 \in Nat \ {0} /\ m \in Nat /\ 1 <= m + 1 /\ m <= Len(t) /\ (m - 1) + 1 = m
    BY <1>11, <1>12
  <2>2. PICK s : s = SubSeq(t, 1, m)
    OBVIOUS
  <2>3. /\ s \in Seq(Byte) /\ Len(s) = (m - 1) + 1
        /\ \A i \in 1..((m - 1) + 1) : s[i] = t[(1 + i) - 1]
    BY <1>11, <2>1, <2>2, PartIs
  <2>4. \A i \in 1..m : (1 + i) - 1 = i
    OBVIOUS
  <2>5. Len(s) = Len(x) /\ \A i \in 1..Len(s) : s[i] = x[i]
    BY <1>7, <1>11, <2>1, <2>3, <2>4
  <2>6. s = x
    BY <1>2, <2>3, <2>5, SeqEqual
  <2> QED
    BY <2>2, <2>6
<1>19. first_part(t) = x \o <<NUL>>
  <2>1. (m + 2) - 2 = m
    BY <1>12
  <2> QED
    BY <1>17, <1>18, <2>1 DEF first_part
<1>20. second_part(t) = text
  <2>1. PICK k : k = m + 2 + 1
    OBVIOUS
  <2>2. PICK l : l = Len(t)
    OBVIOUS
  <2>3. /\ k \in Nat \ {0} /\ l \in Nat /\ k <= l + 1 /\ l <= Len(t) /\ (l - k) + 1 = n
    BY <1>11, <1>12, <2>1, <2>2
  <2>4. PICK s : s = SubSeq(t, k, l)
    OBVIOUS
  <2>5. /\ s \in Seq(Byte) /\ Len(s) = (l - k) + 1
        /\ \A i \in 1..((l - k) + 1) : s[i] = t[(k + i) - 1]
    BY <1>11, <2>3, <2>4, PartIs
  <2>6. \A i \in 1..n : (k + i) - 1 = m + 2 + i
    BY <1>12, <2>1
  <2>7. Len(s) = Len(text) /\ \A i \in 1..Len(s) : s[i] = text[i]
    BY <1>8, <1>13, <2>3, <2>5, <2>6
  <2>8. s = text
    BY <1>4, <2>5, <2>7, SeqEqual
  <2> QED
    BY <1>17, <2>1, <2>2, <2>4, <2>8 DEF second_part
<1>21. Longer(words, Tokens(t))
  BY <1>1, <1>2, <1>9, <1>10, SpacedTokens
<1>22. Colon(t) # 0
  BY <1>12, <1>17
<1> QED
  BY <1>1, <1>11, <1>14, <1>16, <1>19, <1>20, <1>21, <1>22 DEF Spoken

\* The terminator in front of the text ends the last word.
LEMMA FrontWords ==
  ASSUME NEW y, NEW words, Plain(y, words), NEW w, Word(w)
  PROVE  /\ Tokens((y \o <<SP>> \o w) \o <<NUL>>) = Append(words, w \o <<NUL>>)
         /\ w \o <<NUL>> \in Seq(Byte) /\ CString(w \o <<NUL>>) = w
<1>1. y \in Seq(Byte) /\ y # <<>> /\ Tokens(y) = words
  BY CharBytes DEF Plain
<1>2. w \in Seq(Char) /\ \A i \in 1..Len(w) : w[i] # SP
  BY WordIs
<1>3. w \in Seq(Byte) /\ Len(w) \in Nat /\ \A i \in 1..Len(w) : w[i] # NUL
  BY <1>2, CharBytes
<1>4. <<NUL>> \in Seq(Byte) /\ <<SP>> \in Seq(Byte) /\ NUL # SP
  BY StringBytes DEF Byte
<1>5. PICK v : v = w \o <<NUL>>
  OBVIOUS
<1>6. /\ v \in Seq(Byte) /\ Len(v) = Len(w) + 1 /\ v[Len(w) + 1] = NUL
      /\ \A i \in 1..Len(w) : v[i] = w[i]
  <2>1. v = Append(w, NUL) /\ NUL \in Byte
    BY <1>3, <1>5 DEF Byte
  <2> QED
    BY <1>3, <2>1
<1>7. PICK a : a = y \o <<SP>>
  OBVIOUS
<1>8. a \in Seq(Byte)
  BY <1>1, <1>4, <1>7
<1>9. PICK x : x = a \o w
  OBVIOUS
<1>10. x \o <<NUL>> = a \o v
  BY <1>3, <1>4, <1>5, <1>8, <1>9, Associative
<1>11. \A i \in 1..Len(v) : v[i] # SP
  <2>1. \A i \in 1..Len(v) : i \in 1..Len(w) \/ i = Len(w) + 1
    BY <1>3, <1>6
  <2> QED
    BY <1>2, <1>4, <1>6, <2>1
<1>12. Tokens(y \o <<SP>> \o v) = Append(words, v)
  BY <1>1, <1>6, <1>11, SpacedTokens
<1>13. CString(v) = w
  <2> DEFINE Ends(n) == /\ \A i \in 1..n : v[i] # NUL
                        /\ n < Len(v) => v[n + 1] = NUL
  <2>1. Len(w) \in 0..Len(v) /\ Ends(Len(w))
    BY <1>3, <1>6
  <2>2. ASSUME NEW n \in 0..Len(v), Ends(n) PROVE n = Len(w)
    <3>1. CASE n < Len(w)
      <4>1. n + 1 \in 1..Len(w) /\ n < Len(v)
        BY <1>3, <1>6, <3>1
      <4> QED
        BY <1>3, <1>6, <2>2, <4>1
    <3>2. CASE n > Len(w)
      <4>1. Len(w) + 1 \in 1..n
        BY <1>3, <3>2
      <4> QED
        BY <1>6, <2>2, <4>1
    <3> QED
      BY <1>3, <3>1, <3>2
  <2> HIDE DEF Ends
  <2>3. (CHOOSE n \in 0..Len(v) : Ends(n)) = Len(w)
    BY <2>1, <2>2
  <2>4. CString(v) = SubSeq(v, 1, CHOOSE n \in 0..Len(v) : Ends(n))
    BY DEF CString, Ends
  <2>5. SubSeq(v, 1, Len(w)) = w
    <3>1. 1 \in Nat \ {0} /\ 1 <= Len(w) + 1 /\ Len(w) <= Len(v) /\ (Len(w) - 1) + 1 = Len(w)
      BY <1>3, <1>6
    <3>2. PICK s : s = SubSeq(v, 1, Len(w))
      OBVIOUS
    <3>3. /\ s \in Seq(Byte) /\ Len(s) = (Len(w) - 1) + 1
          /\ \A i \in 1..((Len(w) - 1) + 1) : s[i] = v[(1 + i) - 1]
      BY <1>3, <1>6, <3>1, <3>2, PartIs
    <3>4. \A i \in 1..Len(w) : (1 + i) - 1 = i
      BY <1>3
    <3>5. Len(s) = Len(w) /\ \A i \in 1..Len(s) : s[i] = w[i]
      BY <1>6, <3>1, <3>3, <3>4
    <3>6. s = w
      BY <1>3, <3>3, <3>5, SeqEqual
    <3> QED
      BY <3>2, <3>6
  <2> QED
    BY <2>3, <2>4, <2>5
<1> QED
  BY <1>5, <1>6, <1>7, <1>9, <1>10, <1>12, <1>13

\* Arguments are the words after the first.
LEMMA ArgumentOne ==
  ASSUME NEW words \in Seq(Seq(Byte)), Len(words) >= 2
  PROVE  Arguments(words, 1) = <<CString(words[2])>>
BY DEF Arguments

LEMMA ArgumentsThree ==
  ASSUME NEW words \in Seq(Seq(Byte)), Len(words) = 4
  PROVE  Arguments(words, 3) = <<CString(words[2]), CString(words[3]), CString(words[4])>>
<1>1. PICK a : a = Arguments(words, 3)
  OBVIOUS
<1>2. a = [i \in 1..3 |-> CString(words[i + 1])]
  BY <1>1 DEF Arguments
<1>3. \A i \in 1..3 : i = 1 \/ i = 2 \/ i = 3
  OBVIOUS
<1>4. a[1] = CString(words[2]) /\ a[2] = CString(words[3]) /\ a[3] = CString(words[4])
  BY <1>2
<1>5. PICK c : c = <<CString(words[2]), CString(words[3]), CString(words[4])>>
  OBVIOUS
<1>6. DOMAIN c = 1..3 /\ c = [i \in 1..3 |-> c[i]]
  BY <1>5
<1>7. c[1] = a[1] /\ c[2] = a[2] /\ c[3] = a[3]
  BY <1>4, <1>5
<1>8. \A i \in 1..3 : c[i] = a[i]
  BY <1>3, <1>7
<1>9. a = [i \in 1..3 |-> a[i]]
  BY <1>2
<1>10. a = c
  BY <1>6, <1>8, <1>9
<1> QED
  BY <1>1, <1>5, <1>10

\* What Say makes of words.
Says(words) == [i \in DOMAIN words |-> <<SP>> \o words[i]]

LEMMA SaysIs ==
  ASSUME NEW words \in Seq(Seq(Char))
  PROVE  /\ Says(words) \in Seq(Seq(Char)) /\ Len(Says(words)) = Len(words)
         /\ \A i \in 1..Len(words) : Says(words)[i] = <<SP>> \o words[i]
<1>1. <<SP>> \in Seq(Char)
  BY StringBytes
<1>2. \A i \in 1..Len(words) : <<SP>> \o words[i] \in Seq(Char)
  BY <1>1
<1>3. Says(words) = [i \in 1..Len(words) |-> <<SP>> \o words[i]]
  BY DEF Says
<1>4. Len(words) \in Nat
  OBVIOUS
<1> QED
  BY <1>2, <1>3, <1>4

LEMMA SaysAppend ==
  ASSUME NEW words \in Seq(Seq(Char)), NEW w \in Seq(Char)
  PROVE  Says(Append(words, w)) = Append(Says(words), <<SP>> \o w)
<1>1. PICK more : more = Append(words, w)
  OBVIOUS
<1>2. PICK n : n = Len(words)
  OBVIOUS
<1>3. /\ more \in Seq(Seq(Char)) /\ Len(more) = n + 1 /\ n \in Nat
      /\ more[n + 1] = w /\ \A i \in 1..n : more[i] = words[i]
  BY <1>1, <1>2
<1>4. PICK part : part = <<SP>> \o w
  OBVIOUS
<1>5. part \in Seq(Char)
  BY <1>4, StringBytes
<1>6. PICK old : old = Says(words)
  OBVIOUS
<1>7. PICK new : new = Says(more)
  OBVIOUS
<1>8. /\ old \in Seq(Seq(Char)) /\ Len(old) = n
      /\ \A i \in 1..n : old[i] = <<SP>> \o words[i]
  BY <1>2, <1>6, SaysIs
<1>9. /\ new \in Seq(Seq(Char)) /\ Len(new) = n + 1
      /\ \A i \in 1..(n + 1) : new[i] = <<SP>> \o more[i]
  BY <1>3, <1>7, SaysIs
<1>10. PICK last : last = Append(old, part)
  OBVIOUS
<1>11. /\ last \in Seq(Seq(Char)) /\ Len(last) = n + 1 /\ last[n + 1] = part
       /\ \A i \in 1..n : last[i] = old[i]
  BY <1>5, <1>8, <1>10
<1>12. ASSUME NEW i \in 1..(n + 1) PROVE new[i] = last[i]
  <2>1. i \in 1..n \/ i = n + 1
    BY <1>3
  <2>2. CASE i \in 1..n
    <3>1. new[i] = <<SP>> \o words[i]
      BY <1>3, <1>9, <2>2
    <3> QED
      BY <1>8, <1>11, <2>2, <3>1
  <2>3. CASE i = n + 1
    <3>1. new[i] = <<SP>> \o w
      BY <1>3, <1>9, <2>3
    <3> QED
      BY <1>4, <1>11, <2>3, <3>1
  <2> QED
    BY <2>1, <2>2, <2>3
<1>13. new = last
  BY <1>9, <1>11, <1>12, SeqEqual
<1> QED
  BY <1>1, <1>4, <1>6, <1>7, <1>10, <1>13

LEMMA SayIs ==
  ASSUME NEW verb \in Seq(Char), NEW words \in Seq(Seq(Char))
  PROVE  /\ Say(verb, words, NULL) = verb \o FlattenSeq(Says(words))
         /\ Say(verb, words, NULL) \in Seq(Char)
<1>1. PICK flat : flat = FlattenSeq(Says(words))
  OBVIOUS
<1>2. flat \in Seq(Char)
  <2>1. <<>> \in Seq(Char)
    OBVIOUS
  <2>2. PICK s : s = Says(words)
    OBVIOUS
  <2>3. s \in Seq(Seq(Char))
    BY <2>2, SaysIs
  <2> QED
    BY <1>1, <2>1, <2>2, <2>3, Flattened
<1>3. verb \o flat \in Seq(Char)
  BY <1>2
<1>4. (verb \o flat) \o <<>> = verb \o flat
  BY <1>3, ConcatEmptySeq
<1>5. Say(verb, words, NULL) = (verb \o flat) \o <<>>
  BY <1>1 DEF Say, Says
<1> QED
  BY <1>1, <1>3, <1>4, <1>5

LEMMA SayVerb ==
  ASSUME NEW verb \in Seq(Char)
  PROVE  Say(verb, <<>>, NULL) = verb
<1>1. <<>> \in Seq(Seq(Char))
  OBVIOUS
<1>2. PICK s : s = Says(<<>>)
  OBVIOUS
<1>3. s \in Seq(Seq(Char)) /\ Len(s) = 0
  BY <1>1, <1>2, SaysIs
<1>4. s = <<>>
  BY <1>3
<1>5. FlattenSeq(s) = <<>>
  BY <1>4 DEF FlattenSeq
<1>6. verb \o <<>> = verb
  BY ConcatEmptySeq
<1> QED
  BY <1>1, <1>2, <1>5, <1>6, SayIs

LEMMA SayWord ==
  ASSUME NEW verb \in Seq(Char), NEW words \in Seq(Seq(Char)), NEW w \in Seq(Char)
  PROVE  Say(verb, Append(words, w), NULL) = Say(verb, words, NULL) \o <<SP>> \o w
<1>1. Append(words, w) \in Seq(Seq(Char))
  OBVIOUS
<1>2. <<SP>> \in Seq(Char) /\ <<SP>> \in Seq(Byte)
  BY StringBytes DEF Byte
<1>3. PICK part : part = <<SP>> \o w
  OBVIOUS
<1>4. part \in Seq(Char)
  BY <1>2, <1>3
<1>5. PICK s : s = Says(words)
  OBVIOUS
<1>6. s \in Seq(Seq(Char))
  BY <1>5, SaysIs
<1>7. PICK flat : flat = FlattenSeq(s)
  OBVIOUS
<1>8. flat \in Seq(Char) /\ FlattenSeq(Append(s, part)) = flat \o part
  BY <1>4, <1>6, <1>7, Flattened
<1>9. PICK said : said = verb \o flat
  OBVIOUS
<1>10. Say(verb, words, NULL) = said /\ said \in Seq(Char)
  BY <1>5, <1>7, <1>8, <1>9, SayIs
<1>11. Say(verb, Append(words, w), NULL) = verb \o (flat \o part)
  <2>1. Says(Append(words, w)) = Append(s, part)
    BY <1>3, <1>5, SaysAppend
  <2> QED
    BY <1>1, <1>8, <2>1, SayIs
<1>12. verb \in Seq(Byte) /\ flat \in Seq(Byte) /\ part \in Seq(Byte)
       /\ said \in Seq(Byte) /\ w \in Seq(Byte)
  BY <1>4, <1>8, <1>10, CharBytes
<1>13. PICK end : end = flat \o part
  OBVIOUS
<1>14. said \o part = verb \o end
  BY <1>9, <1>12, <1>13, Associative
<1>15. PICK begun : begun = said \o <<SP>>
  OBVIOUS
<1>16. begun \o w = said \o part
  BY <1>2, <1>3, <1>12, <1>15, Associative
<1> QED
  BY <1>10, <1>11, <1>13, <1>14, <1>15, <1>16

LEMMA SayText ==
  ASSUME NEW verb \in Seq(Char), NEW words \in Seq(Seq(Char)), NEW text \in Seq(Char)
  PROVE  Say(verb, words, text) = Texted(Say(verb, words, NULL), text)
<1>1. text # NULL /\ text \in Seq(Byte)
  BY CharBytes
<1>2. PICK said : said = Say(verb, words, NULL)
  OBVIOUS
<1>3. said \in Seq(Char) /\ said = verb \o FlattenSeq(Says(words))
  BY <1>2, SayIs
<1>4. Say(verb, words, text) = said \o (<<SP, ":">> \o text)
  BY <1>1, <1>3 DEF Say, Says
<1>5. /\ <<SP>> \in Seq(Byte) /\ <<":">> \in Seq(Byte) /\ <<SP>> \o <<":">> = <<SP, ":">>
      /\ <<SP, ":">> \in Seq(Byte)
  <2>1. SP \in Byte
    BY StringBytes DEF Byte
  <2>2. ":" \in Byte
    BY ParseBytes DEF Letters, Byte
  <2>3. <<SP>> \in Seq(Byte) /\ <<":">> \in Seq(Byte)
    BY <2>1, <2>2
  <2>4. <<SP, ":">> \in Seq(Byte)
    BY <2>1, <2>2
  <2>5. <<SP>> \o <<":">> = <<SP, ":">>
    <3>1. PICK c : c = <<SP>> \o <<":">>
      OBVIOUS
    <3>2. c \in Seq(Byte) /\ Len(c) = 2 /\ c[1] = SP /\ c[2] = ":"
      BY <2>3, <3>1
    <3>3. PICK d : d = <<SP, ":">>
      OBVIOUS
    <3>4. d \in Seq(Byte) /\ Len(d) = 2 /\ d[1] = SP /\ d[2] = ":"
      BY <2>4, <3>3
    <3>5. \A i \in 1..2 : i = 1 \/ i = 2
      OBVIOUS
    <3>6. \A i \in 1..Len(c) : c[i] = d[i]
      BY <3>2, <3>4, <3>5
    <3>7. c = d
      BY <3>2, <3>4, <3>6, SeqEqual
    <3> QED
      BY <3>1, <3>3, <3>7
  <2> QED
    BY <2>3, <2>4, <2>5
<1>6. PICK u : u = <<":">> \o text
  OBVIOUS
<1>7. u \in Seq(Byte) /\ said \in Seq(Byte)
  BY <1>1, <1>3, <1>5, <1>6, CharBytes
<1>8. PICK mark : mark = <<SP, ":">>
  OBVIOUS
<1>9. PICK rest : rest = <<SP>> \o u
  OBVIOUS
<1>10. mark \o text = rest
  BY <1>1, <1>5, <1>6, <1>8, <1>9, Associative
<1>11. PICK begun : begun = said \o <<SP>>
  OBVIOUS
<1>12. begun \o u = said \o rest
  BY <1>5, <1>7, <1>9, <1>11, Associative
<1> QED
  BY <1>2, <1>4, <1>6, <1>8, <1>10, <1>11, <1>12 DEF Texted

----------------------------------------------------------------------------
(* A handler gets what was meant *)

\* Its handler is called with the arguments, if the client may send it.
Reached(line, type, argv) ==
  \A isRegistered :
    Outcome(parse_string(line), isRegistered) =
      IF isRegistered \/ type \in {"NICK", "USER"}
        THEN Call("handler", type, argv) ELSE Call("error", "NOTREGISTERED", <<>>)

LEMMA HandlerReached ==
  ASSUME NEW line, NEW type \in Commands, NEW argv \in Argv,
         Len(argv) >= Reads(type, argv), parse_string(line) = Result(type, argv)
  PROVE  Reached(line, type, argv)
<1>1. Result(type, argv).type = type /\ Result(type, argv).argv = argv
  BY DEF Result
<1>2. type # UNSET /\ argv # NULL /\ argv # UNSET
  BY ParseValues
<1>3. Readable(argv, Reads(type, argv))
  BY <1>2 DEF Readable
<1>4. PICK r : r = parse_string(line)
  OBVIOUS
<1>5. r.type = type /\ r.argv = argv
  BY <1>1, <1>4
<1>6. ASSUME NEW isRegistered
      PROVE  Outcome(r, isRegistered) =
               IF isRegistered \/ type \in {"NICK", "USER"}
                 THEN Call("handler", type, argv)
                 ELSE Call("error", "NOTREGISTERED", <<>>)
  <2>1. CASE isRegistered \/ type \in {"NICK", "USER"}
    BY <1>2, <1>3, <1>5, <2>1 DEF Outcome
  <2>2. CASE ~(isRegistered \/ type \in {"NICK", "USER"})
    BY <1>2, <1>5, <2>2 DEF Outcome
  <2> QED
    BY <2>1, <2>2
<1> QED
  BY <1>4, <1>6 DEF Reached

\* The first word begins the line.
LEMMA PlainBegins ==
  ASSUME NEW x, NEW words, Plain(x, words), NEW verb, words[1] = verb
  PROVE  /\ x \in Seq(Char) /\ x # <<>> /\ Tokens(x) = words
         /\ words \in Seq(Seq(Char)) /\ words \in Seq(Seq(Byte))
         /\ Len(x) \in Nat /\ Len(x) >= Len(verb)
         /\ \A i \in 1..Len(verb) : x[i] = verb[i]
<1>1. /\ x \in Seq(Char) /\ x # <<>> /\ Tokens(x) = words
      /\ words \in Seq(Seq(Char))
      /\ Len(x) >= Len(verb) /\ \A i \in 1..Len(verb) : x[i] = verb[i]
  BY DEF Plain
<1>2. Seq(Char) \subseteq Seq(Byte)
  BY CharBytes
<1>3. words \in Seq(Seq(Byte))
  BY <1>1, <1>2
<1> QED
  BY <1>1, <1>3

\* Sequences written out.
LEMMA Appended ==
  ASSUME NEW T
  PROVE  /\ <<>> \in Seq(T)
         /\ \A a \in T : Append(<<>>, a) = <<a>> /\ <<a>> \in Seq(T)
         /\ \A a, b \in T : Append(<<a>>, b) = <<a, b>> /\ <<a, b>> \in Seq(T)
         /\ \A a, b, c \in T :
              Append(<<a, b>>, c) = <<a, b, c>> /\ <<a, b, c>> \in Seq(T)
         /\ \A a, b, c, d \in T : Append(<<a, b, c>>, d) = <<a, b, c, d>>
<1>1. <<>> \in Seq(T)
  OBVIOUS
<1>2. ASSUME NEW a \in T
      PROVE  Append(<<>>, a) = <<a>> /\ <<a>> \in Seq(T)
  <2>1. PICK s : s = Append(<<>>, a)
    OBVIOUS
  <2>2. PICK t : t = <<a>>
    OBVIOUS
  <2>3. <<>> \in Seq(T)
    OBVIOUS
  <2>4. s \in Seq(T) /\ Len(s) = 1 /\ s[1] = a
    BY <2>1, <2>3
  <2>5. t \in Seq(T) /\ Len(t) = 1 /\ t[1] = a
    BY <2>2
  <2>6. \A i \in 1..1 : i = 1
    OBVIOUS
  <2>7. \A i \in 1..Len(s) : s[i] = t[i]
    BY <2>4, <2>5, <2>6
  <2>8. s = t
    BY <2>4, <2>5, <2>7, SeqEqual
  <2> QED
    BY <2>1, <2>2, <2>5, <2>8
<1>3. ASSUME NEW a \in T, NEW b \in T
      PROVE  Append(<<a>>, b) = <<a, b>> /\ <<a, b>> \in Seq(T)
  <2>1. PICK s : s = Append(<<a>>, b)
    OBVIOUS
  <2>2. PICK t : t = <<a, b>>
    OBVIOUS
  <2>3. <<a>> \in Seq(T)
    OBVIOUS
  <2>4. s \in Seq(T) /\ Len(s) = 2 /\ s[1] = a /\ s[2] = b
    BY <2>1, <2>3
  <2>5. t \in Seq(T) /\ Len(t) = 2 /\ t[1] = a /\ t[2] = b
    BY <2>2
  <2>6. \A i \in 1..2 : i = 1 \/ i = 2
    OBVIOUS
  <2>7. \A i \in 1..Len(s) : s[i] = t[i]
    BY <2>4, <2>5, <2>6
  <2>8. s = t
    BY <2>4, <2>5, <2>7, SeqEqual
  <2> QED
    BY <2>1, <2>2, <2>5, <2>8
<1>4. ASSUME NEW a \in T, NEW b \in T, NEW c \in T
      PROVE  Append(<<a, b>>, c) = <<a, b, c>> /\ <<a, b, c>> \in Seq(T)
  <2>1. PICK s : s = Append(<<a, b>>, c)
    OBVIOUS
  <2>2. PICK t : t = <<a, b, c>>
    OBVIOUS
  <2>3. <<a, b>> \in Seq(T)
    OBVIOUS
  <2>4. s \in Seq(T) /\ Len(s) = 3 /\ s[1] = a /\ s[2] = b /\ s[3] = c
    BY <2>1, <2>3
  <2>5. t \in Seq(T) /\ Len(t) = 3 /\ t[1] = a /\ t[2] = b /\ t[3] = c
    BY <2>2
  <2>6. \A i \in 1..3 : i = 1 \/ i = 2 \/ i = 3
    OBVIOUS
  <2>7. \A i \in 1..Len(s) : s[i] = t[i]
    BY <2>4, <2>5, <2>6
  <2>8. s = t
    BY <2>4, <2>5, <2>7, SeqEqual
  <2> QED
    BY <2>1, <2>2, <2>5, <2>8
<1>5. ASSUME NEW a \in T, NEW b \in T, NEW c \in T, NEW d \in T
      PROVE  Append(<<a, b, c>>, d) = <<a, b, c, d>> /\ <<a, b, c, d>> \in Seq(T)
  <2>1. PICK s : s = Append(<<a, b, c>>, d)
    OBVIOUS
  <2>2. PICK t : t = <<a, b, c, d>>
    OBVIOUS
  <2>3. <<a, b, c>> \in Seq(T)
    OBVIOUS
  <2>4. s \in Seq(T) /\ Len(s) = 4 /\ s[1] = a /\ s[2] = b /\ s[3] = c /\ s[4] = d
    BY <2>1, <2>3
  <2>5. t \in Seq(T) /\ Len(t) = 4 /\ t[1] = a /\ t[2] = b /\ t[3] = c /\ t[4] = d
    BY <2>2
  <2>6. \A i \in 1..4 : i = 1 \/ i = 2 \/ i = 3 \/ i = 4
    OBVIOUS
  <2>7. \A i \in 1..Len(s) : s[i] = t[i]
    BY <2>4, <2>5, <2>6
  <2>8. s = t
    BY <2>4, <2>5, <2>7, SeqEqual
  <2> QED
    BY <2>1, <2>2, <2>5, <2>8
<1> QED
  BY <1>1, <1>2, <1>3, <1>4, <1>5

\* A verb and its words.
LEMMA OneWord ==
  ASSUME NEW verb, Word(verb), NEW a, Word(a)
  PROVE  /\ Plain(Say(verb, <<a>>, NULL), <<verb, a>>)
         /\ Say(verb, <<a>>, NULL) = verb \o <<SP>> \o a
<1>1. verb \in Seq(Char) /\ a \in Seq(Char)
  BY WordIs
<1>2. <<>> \in Seq(Seq(Char)) /\ Append(<<>>, a) = <<a>> /\ Append(<<verb>>, a) = <<verb, a>>
  BY <1>1, Appended
<1>3. Say(verb, <<a>>, NULL) = verb \o <<SP>> \o a
  <2>1. Say(verb, Append(<<>>, a), NULL) = Say(verb, <<>>, NULL) \o <<SP>> \o a
    BY <1>1, <1>2, SayWord
  <2> QED
    BY <1>1, <1>2, <2>1, SayVerb
<1>4. Plain(verb \o <<SP>> \o a, Append(<<verb>>, a))
  BY PlainVerb, PlainWord
<1> QED
  BY <1>2, <1>3, <1>4

LEMMA TwoWords ==
  ASSUME NEW verb, Word(verb), NEW a, Word(a), NEW b, Word(b)
  PROVE  Plain(Say(verb, <<a, b>>, NULL), <<verb, a, b>>)
<1>1. verb \in Seq(Char) /\ a \in Seq(Char) /\ b \in Seq(Char)
  BY WordIs
<1>2. /\ <<a>> \in Seq(Seq(Char)) /\ Append(<<a>>, b) = <<a, b>>
      /\ Append(<<verb, a>>, b) = <<verb, a, b>>
  BY <1>1, Appended
<1>3. Say(verb, <<a, b>>, NULL) = Say(verb, <<a>>, NULL) \o <<SP>> \o b
  BY <1>1, <1>2, SayWord
<1>4. Plain(Say(verb, <<a>>, NULL) \o <<SP>> \o b, Append(<<verb, a>>, b))
  BY OneWord, PlainWord
<1> QED
  BY <1>2, <1>3, <1>4

LEMMA ThreeWords ==
  ASSUME NEW verb, Word(verb), NEW a, Word(a), NEW b, Word(b), NEW c, Word(c)
  PROVE  Plain(Say(verb, <<a, b, c>>, NULL), <<verb, a, b, c>>)
<1>1. verb \in Seq(Char) /\ a \in Seq(Char) /\ b \in Seq(Char) /\ c \in Seq(Char)
  BY WordIs
<1>2. /\ <<a, b>> \in Seq(Seq(Char)) /\ Append(<<a, b>>, c) = <<a, b, c>>
      /\ Append(<<verb, a, b>>, c) = <<verb, a, b, c>>
  BY <1>1, Appended
<1>3. Say(verb, <<a, b, c>>, NULL) = Say(verb, <<a, b>>, NULL) \o <<SP>> \o c
  BY <1>1, <1>2, SayWord
<1>4. Plain(Say(verb, <<a, b>>, NULL) \o <<SP>> \o c, Append(<<verb, a, b>>, c))
  BY TwoWords, PlainWord
<1> QED
  BY <1>2, <1>3, <1>4

\* The verbs are words, too.
LEMMA Verbs ==
  /\ \A c \in Letters \ {":"} : Word(<<c>>) /\ Len(<<c>>) = 1 /\ <<c>>[1] = c
  /\ \A c, d \in Letters \ {":"} :
       Word(<<c, d>>) /\ Len(<<c, d>>) = 2 /\ <<c, d>>[1] = c /\ <<c, d>>[2] = d
<1>1. Letters \ {":"} \subseteq Char \ {SP, ":"}
  BY ParseBytes
<1>2. ASSUME NEW c \in Letters \ {":"}
      PROVE  Word(<<c>>) /\ Len(<<c>>) = 1 /\ <<c>>[1] = c
  BY <1>1 DEF Word
<1>3. ASSUME NEW c \in Letters \ {":"}, NEW d \in Letters \ {":"}
      PROVE  Word(<<c, d>>) /\ Len(<<c, d>>) = 2 /\ <<c, d>>[1] = c /\ <<c, d>>[2] = d
  BY <1>1 DEF Word
<1> QED
  BY <1>2, <1>3

\* Arguments of a handler.
LEMMA ArgvIs ==
  /\ \A x \in Seq(Char) \cup {NULL} : <<x>> \in Argv /\ Len(<<x>>) = 1
  /\ \A x, y \in Seq(Char) \cup {NULL} : <<x, y>> \in Argv /\ Len(<<x, y>>) = 2
  /\ \A x, y, z \in Seq(Char) : <<x, y, z>> \in Argv /\ Len(<<x, y, z>>) = 3
<1> DEFINE V == Seq(Byte) \cup {NULL, "USER", "OPER", "JOIN", "PART", "MODE"}
<1>1. Seq(Char) \cup {NULL} \subseteq V /\ Argv = Seq(V)
  BY CharBytes DEF Argv
<1> HIDE DEF V
<1>2. \A x \in V : <<x>> \in Seq(V) /\ Len(<<x>>) = 1
  OBVIOUS
<1>3. \A x, y \in V : <<x, y>> \in Seq(V) /\ Len(<<x, y>>) = 2
  OBVIOUS
<1>4. \A x, y, z \in V : <<x, y, z>> \in Seq(V) /\ Len(<<x, y, z>>) = 3
  OBVIOUS
<1> QED
  BY <1>1, <1>2, <1>3, <1>4

----------------------------------------------------------------------------
(* Each command *)

\* A line of a verb and one word.
VerbAndWord(x, verb, a) ==
  /\ Trimmed(x) = x /\ x # <<>> /\ Colon(x) = 0
  /\ Len(x) \in Nat /\ Len(x) >= Len(verb) /\ \A i \in 1..Len(verb) : x[i] = verb[i]
  /\ Len(Tokens(x)) = 2 /\ Arguments(Tokens(x), 1) = <<a>>

LEMMA VerbAndWordIs ==
  ASSUME NEW verb, Word(verb), NEW a, Word(a)
  PROVE  VerbAndWord(Say(verb, <<a>>, NULL), verb, a)
<1>1. PICK x : x = Say(verb, <<a>>, NULL)
  OBVIOUS
<1>2. PICK words : words = <<verb, a>>
  OBVIOUS
<1>3. words[1] = verb /\ words[2] = a /\ Len(words) = 2 /\ Plain(x, words)
  BY <1>1, <1>2, OneWord
<1>4. /\ Tokens(x) = words /\ words \in Seq(Seq(Byte))
      /\ Len(x) \in Nat /\ Len(x) >= Len(verb) /\ \A i \in 1..Len(verb) : x[i] = verb[i]
  BY <1>3, PlainBegins
<1>5. Trimmed(x) = x /\ x # <<>> /\ Colon(x) = 0
  BY <1>3, PlainParsed
<1>6. Arguments(words, 1) = <<CString(words[2])>>
  <2>1. Len(words) >= 2
    BY <1>3
  <2> QED
    BY <1>4, <2>1, ArgumentOne
<1>7. CString(a) = a
  BY WordIs, CharBytes
<1> QED
  BY <1>1, <1>3, <1>4, <1>5, <1>6, <1>7 DEF VerbAndWord

\* A line of a verb, one word and a text.
TextLine(t, verb, a, text) ==
  /\ Trimmed(t) = t /\ t # <<>> /\ Spoken(t) /\ t[1] = verb[1]
  /\ Colon(t) # 0 /\ second_part(t) = text
  /\ Len(Tokens(first_part(t))) = 2 /\ Tokens(first_part(t))[1] = verb
  /\ Arguments(Tokens(first_part(t)), 1) = <<a>>
  /\ Len(Tokens(t)) \in Nat /\ Len(Tokens(t)) >= 3 /\ Tokens(t)[1] = verb

LEMMA TextLineIs ==
  ASSUME NEW verb, Word(verb), NEW a, Word(a), NEW text, Closing(text)
  PROVE  TextLine(Say(verb, <<a>>, text), verb, a, text)
<1>1. PICK x : x = Say(verb, <<a>>, NULL)
  OBVIOUS
<1>2. PICK words : words = <<verb, a>>
  OBVIOUS
<1>3. words[1] = verb /\ words[2] = a /\ Len(words) = 2 /\ Plain(x, words)
  BY <1>1, <1>2, OneWord
<1>4. verb \in Seq(Char) /\ a \in Seq(Char) /\ Len(verb) \in Nat \ {0} /\ text \in Seq(Char)
  BY WordIs DEF Closing
<1>5. PICK t : t = Say(verb, <<a>>, text)
  OBVIOUS
<1>6. t = Texted(x, text)
  <2>1. <<a>> \in Seq(Seq(Char))
    BY <1>4
  <2> QED
    BY <1>1, <1>4, <1>5, <2>1, SayText
<1>7. /\ Trimmed(t) = t /\ t # <<>> /\ t[1] = x[1] /\ Colon(t) # 0
      /\ first_part(t) = x \o <<NUL>> /\ second_part(t) = text
      /\ Spoken(t) /\ Longer(words, Tokens(t))
  BY <1>3, <1>6, TextParsed
<1>8. x[1] = verb[1]
  <2>1. \A i \in 1..Len(verb) : x[i] = verb[i]
    BY <1>3, PlainBegins
  <2> QED
    BY <1>4, <2>1
<1>9. PICK v : v = a \o <<NUL>>
  OBVIOUS
<1>10. Plain(verb, <<verb>>) /\ x = verb \o <<SP>> \o a
  BY <1>1, PlainVerb, OneWord
<1>11. /\ Tokens((verb \o <<SP>> \o a) \o <<NUL>>) = Append(<<verb>>, v)
       /\ v \in Seq(Byte) /\ CString(v) = a
  BY <1>9, <1>10, FrontWords
<1>12. PICK front : front = Tokens(first_part(t))
  OBVIOUS
<1>13. verb \in Seq(Byte)
  BY <1>4, CharBytes
<1>14. front = <<verb, v>>
  <2>1. Append(<<verb>>, v) = <<verb, v>>
    BY <1>11, <1>13, Appended
  <2> QED
    BY <1>7, <1>10, <1>11, <1>12, <2>1
<1>15. front \in Seq(Seq(Byte)) /\ Len(front) = 2 /\ front[1] = verb /\ front[2] = v
  BY <1>11, <1>13, <1>14
<1>16. Arguments(front, 1) = <<a>>
  <2>1. Len(front) >= 2
    BY <1>15
  <2>2. Arguments(front, 1) = <<CString(front[2])>>
    BY <1>15, <2>1, ArgumentOne
  <2> QED
    BY <1>11, <1>15, <2>2
<1>17. Len(Tokens(t)) \in Nat
  BY <1>7, WordsAre
<1>18. Len(Tokens(t)) >= 3 /\ Tokens(t)[1] = verb
  BY <1>3, <1>7, <1>17 DEF Longer
<1> QED
  BY <1>5, <1>7, <1>8, <1>12, <1>15, <1>16, <1>17, <1>18 DEF TextLine

\* How argv is put together.
LEMMA TwoJoined ==
  ASSUME NEW T, NEW a \in T, NEW b \in T
  PROVE  <<a>> \o <<b>> = <<a, b>>
<1>1. PICK s : s = <<a>> \o <<b>>
  OBVIOUS
<1>2. PICK t : t = <<a, b>>
  OBVIOUS
<1>3. <<a>> \in Seq(T) /\ <<b>> \in Seq(T)
  OBVIOUS
<1>4. s \in Seq(T) /\ Len(s) = 2 /\ s[1] = a /\ s[2] = b
  BY <1>1, <1>3
<1>5. t \in Seq(T) /\ Len(t) = 2 /\ t[1] = a /\ t[2] = b
  BY <1>2
<1>6. \A i \in 1..2 : i = 1 \/ i = 2
  OBVIOUS
<1>7. \A i \in 1..Len(s) : s[i] = t[i]
  BY <1>4, <1>5, <1>6
<1> QED
  BY <1>1, <1>2, <1>4, <1>5, <1>7, SeqEqual

\* The commands of one word.
LEMMA NickMeant ==
  ASSUME NEW a, Word(a)
  PROVE  Reached(Say(<<"NICK">>, <<a>>, NULL), "NICK", <<a>>)
<1>1. PICK verb : verb = <<"NICK">>
  OBVIOUS
<1>2. Word(verb) /\ Len(verb) = 1 /\ verb[1] = "NICK"
  <2>1. {"NICK"} \subseteq Letters \ {":"}
    BY DEF Letters
  <2> QED
    BY <1>1, <2>1, Verbs
<1>3. PICK x : x = Say(verb, <<a>>, NULL)
  OBVIOUS
<1>4. VerbAndWord(x, verb, a)
  BY <1>2, <1>3, VerbAndWordIs
<1>5. x[1] = "NICK"
  BY <1>2, <1>4 DEF VerbAndWord
<1>6. parse_string(x) = NickLine(x)
  BY <1>4, <1>5 DEF VerbAndWord, parse_string
<1>7. NickLine(x) = Result("NICK", <<a>>)
  BY <1>4 DEF VerbAndWord, NickLine
<1>8. <<a>> \in Argv /\ Len(<<a>>) = 1 /\ "NICK" \in Commands
  BY WordIs, ArgvIs DEF Commands
<1> QED
  BY <1>1, <1>3, <1>6, <1>7, <1>8, ReadsAre, HandlerReached

LEMMA JoinMeant ==
  ASSUME NEW a, Word(a)
  PROVE  Reached(Say(<<"JOIN">>, <<a>>, NULL), "JOIN", <<a>>)
<1>1. PICK verb : verb = <<"JOIN">>
  OBVIOUS
<1>2. Word(verb) /\ Len(verb) = 1 /\ verb[1] = "JOIN"
  <2>1. {"JOIN"} \subseteq Letters \ {":"}
    BY DEF Letters
  <2> QED
    BY <1>1, <2>1, Verbs
<1>3. PICK x : x = Say(verb, <<a>>, NULL)
  OBVIOUS
<1>4. VerbAndWord(x, verb, a)
  BY <1>2, <1>3, VerbAndWordIs
<1>5. x[1] = "JOIN"
  BY <1>2, <1>4 DEF VerbAndWord
<1>6. parse_string(x) = JoinLine(x)
  BY <1>4, <1>5 DEF VerbAndWord, parse_string
<1>7. JoinLine(x) = Result("JOIN", <<a>>)
  BY <1>4 DEF VerbAndWord, JoinLine
<1>8. <<a>> \in Argv /\ Len(<<a>>) = 1 /\ "JOIN" \in Commands
  BY WordIs, ArgvIs DEF Commands
<1> QED
  BY <1>1, <1>3, <1>6, <1>7, <1>8, ReadsAre, HandlerReached

LEMMA ListMeant ==
  ASSUME NEW a, Word(a)
  PROVE  Reached(Say(<<"LIST">>, <<a>>, NULL), "LIST", <<a>>)
<1>1. PICK verb : verb = <<"LIST">>
  OBVIOUS
<1>2. Word(verb) /\ Len(verb) = 1 /\ verb[1] = "LIST"
  <2>1. {"LIST"} \subseteq Letters \ {":"}
    BY DEF Letters
  <2> QED
    BY <1>1, <2>1, Verbs
<1>3. PICK x : x = Say(verb, <<a>>, NULL)
  OBVIOUS
<1>4. VerbAndWord(x, verb, a)
  BY <1>2, <1>3, VerbAndWordIs
<1>5. x[1] = "LIST"
  BY <1>2, <1>4 DEF VerbAndWord
<1>6. parse_string(x) = ListLine(x)
  BY <1>4, <1>5 DEF VerbAndWord, parse_string
<1>7. ListLine(x) = Result("LIST", <<a>>)
  BY <1>4 DEF VerbAndWord, ListLine
<1>8. <<a>> \in Argv /\ Len(<<a>>) = 1 /\ "LIST" \in Commands
  BY WordIs, ArgvIs DEF Commands
<1> QED
  BY <1>1, <1>3, <1>6, <1>7, <1>8, ReadsAre, HandlerReached

LEMMA WhoisMeant ==
  ASSUME NEW a, Word(a)
  PROVE  Reached(Say(<<"WHOI", "S">>, <<a>>, NULL), "WHOIS", <<a>>)
<1>1. PICK verb : verb = <<"WHOI", "S">>
  OBVIOUS
<1>2. Word(verb) /\ Len(verb) = 2 /\ verb[1] = "WHOI" /\ verb[2] = "S"
  <2>1. {"WHOI", "S"} \subseteq Letters \ {":"}
    BY DEF Letters
  <2> QED
    BY <1>1, <2>1, Verbs
<1>3. PICK x : x = Say(verb, <<a>>, NULL)
  OBVIOUS
<1>4. VerbAndWord(x, verb, a)
  BY <1>2, <1>3, VerbAndWordIs
<1>5. x[1] = "WHOI" /\ x[2] = "S"
  BY <1>2, <1>4 DEF VerbAndWord
<1>6. parse_string(x) = WhoisLine(x)
  BY <1>4, <1>5 DEF VerbAndWord, parse_string
<1>7. WhoisLine(x) = Result("WHOIS", <<a>>)
  BY <1>2, <1>4, <1>5 DEF VerbAndWord, WhoisLine
<1>8. <<a>> \in Argv /\ Len(<<a>>) = 1 /\ "WHOIS" \in Commands
  BY WordIs, ArgvIs DEF Commands
<1> QED
  BY <1>1, <1>3, <1>6, <1>7, <1>8, ParseValues, ReadsAre, HandlerReached

LEMMA PartMeant ==
  ASSUME NEW a, Word(a)
  PROVE  Reached(Say(<<"PART">>, <<a>>, NULL), "PART", <<a, NULL>>)
<1>1. PICK verb : verb = <<"PART">>
  OBVIOUS
<1>2. Word(verb) /\ Len(verb) = 1 /\ verb[1] = "PART"
  <2>1. {"PART"} \subseteq Letters \ {":"}
    BY DEF Letters
  <2> QED
    BY <1>1, <2>1, Verbs
<1>3. PICK x : x = Say(verb, <<a>>, NULL)
  OBVIOUS
<1>4. VerbAndWord(x, verb, a)
  BY <1>2, <1>3, VerbAndWordIs
<1>5. x[1] = "PART"
  BY <1>2, <1>4 DEF VerbAndWord
<1>6. parse_string(x) = PartLine(x)
  BY <1>4, <1>5 DEF VerbAndWord, parse_string
<1>7. PartLine(x) = Result("PART", <<a, NULL>>)
  <2>1. a \in Seq(Char) \cup {NULL} /\ NULL \in Seq(Char) \cup {NULL}
    BY WordIs
  <2>2. <<a>> \o <<NULL>> = <<a, NULL>>
    BY <2>1, TwoJoined
  <2>3. PartLine(x) = Result("PART", <<a>> \o <<NULL>>)
    BY <1>4 DEF VerbAndWord, PartLine
  <2> QED
    BY <2>2, <2>3
<1>8. <<a, NULL>> \in Argv /\ Len(<<a, NULL>>) = 2 /\ "PART" \in Commands
  BY WordIs, ArgvIs DEF Commands
<1> QED
  BY <1>1, <1>3, <1>6, <1>7, <1>8, ReadsAre, HandlerReached

\* The commands of a word and a text.
LEMMA PrivMsgMeant ==
  ASSUME NEW a, Word(a), NEW text, Closing(text)
  PROVE  Reached(Say(<<"PRIV", "MSG">>, <<a>>, text), "PRIVMSG", <<a, text>>)
<1>1. PICK verb : verb = <<"PRIV", "MSG">>
  OBVIOUS
<1>2. Word(verb) /\ Len(verb) = 2 /\ verb[1] = "PRIV"
  <2>1. {"PRIV", "MSG"} \subseteq Letters \ {":"}
    BY DEF Letters
  <2> QED
    BY <1>1, <2>1, Verbs
<1>3. PICK t : t = Say(verb, <<a>>, text)
  OBVIOUS
<1>4. TextLine(t, verb, a, text)
  BY <1>2, <1>3, TextLineIs
<1>5. t[1] = "PRIV"
  BY <1>2, <1>4 DEF TextLine
<1>6. parse_string(t) = PrivLine(t)
  BY <1>4, <1>5 DEF TextLine, parse_string
<1>7. a \in Seq(Char) /\ text \in Seq(Char) /\ text # <<>>
  BY WordIs DEF Closing
<1>8. <<a>> \o <<text>> = <<a, text>>
  BY <1>7, TwoJoined
<1>9. PrivLine(t) = Result("PRIVMSG", <<a>> \o <<text>>)
  <2>1. Tokens(t)[1] = <<"PRIV", "MSG">> /\ Len(Tokens(t)) # 1 /\ Len(Tokens(t)) # 2
    <3>1. \A n \in Nat : n >= 3 => n # 1 /\ n # 2
      OBVIOUS
    <3> QED
      BY <1>1, <1>4, <3>1 DEF TextLine
  <2>2. ~(Len(Tokens(first_part(t))) < 2) /\ Colon(t) # 0
    BY <1>4 DEF TextLine
  <2> QED
    BY <1>4, <2>1, <2>2 DEF TextLine, PrivLine
<1>10. PICK argv : argv = <<a, text>>
  OBVIOUS
<1>11. argv \in Argv /\ Len(argv) >= Reads("PRIVMSG", argv) /\ "PRIVMSG" \in Commands
  <2>1. argv \in Argv /\ Len(argv) = 2
    BY <1>7, <1>10, ArgvIs
  <2> QED
    BY <2>1, ReadsAre DEF Commands
<1> QED
  BY <1>1, <1>3, <1>6, <1>8, <1>9, <1>10, <1>11, HandlerReached

LEMMA NoticeMeant ==
  ASSUME NEW a, Word(a), NEW text, Closing(text)
  PROVE  Reached(Say(<<"NOTI", "CE">>, <<a>>, text), "NOTICE", <<a, text>>)
<1>1. PICK verb : verb = <<"NOTI", "CE">>
  OBVIOUS
<1>2. Word(verb) /\ Len(verb) = 2 /\ verb[1] = "NOTI"
  <2>1. {"NOTI", "CE"} \subseteq Letters \ {":"}
    BY DEF Letters
  <2> QED
    BY <1>1, <2>1, Verbs
<1>3. PICK t : t = Say(verb, <<a>>, text)
  OBVIOUS
<1>4. TextLine(t, verb, a, text)
  BY <1>2, <1>3, TextLineIs
<1>5. t[1] = "NOTI"
  BY <1>2, <1>4 DEF TextLine
<1>6. parse_string(t) = NoticeLine(t)
  BY <1>4, <1>5 DEF TextLine, parse_string
<1>7. a \in Seq(Char) /\ text \in Seq(Char) /\ text # <<>>
  BY WordIs DEF Closing
<1>8. <<a>> \o <<text>> = <<a, text>>
  BY <1>7, TwoJoined
<1>9. NoticeLine(t) = Result("NOTICE", <<a>> \o <<text>>)
  <2>1. CString(verb) = verb
    BY <1>2, WordIs, CharBytes
  <2>2. ~(Len(Tokens(first_part(t))) < 2) /\ Colon(t) # 0 /\ second_part(t) # <<>>
    BY <1>4, <1>7 DEF TextLine
  <2> QED
    BY <1>1, <1>4, <2>1, <2>2 DEF TextLine, NoticeLine
<1>10. PICK argv : argv = <<a, text>>
  OBVIOUS
<1>11. argv \in Argv /\ Len(argv) >= Reads("NOTICE", argv) /\ "NOTICE" \in Commands
  <2>1. argv \in Argv /\ Len(argv) = 2
    BY <1>7, <1>10, ArgvIs
  <2> QED
    BY <2>1, ReadsAre DEF Commands
<1> QED
  BY <1>1, <1>3, <1>6, <1>8, <1>9, <1>10, <1>11, HandlerReached

LEMMA PartTextMeant ==
  ASSUME NEW a, Word(a), NEW text, Closing(text)
  PROVE  Reached(Say(<<"PART">>, <<a>>, text), "PART", <<a, text>>)
<1>1. PICK verb : verb = <<"PART">>
  OBVIOUS
<1>2. Word(verb) /\ Len(verb) = 1 /\ verb[1] = "PART"
  <2>1. {"PART"} \subseteq Letters \ {":"}
    BY DEF Letters
  <2> QED
    BY <1>1, <2>1, Verbs
<1>3. PICK t : t = Say(verb, <<a>>, text)
  OBVIOUS
<1>4. TextLine(t, verb, a, text)
  BY <1>2, <1>3, TextLineIs
<1>5. t[1] = "PART"
  BY <1>2, <1>4 DEF TextLine
<1>6. parse_string(t) = PartLine(t)
  BY <1>4, <1>5 DEF TextLine, parse_string
<1>7. a \in Seq(Char) /\ text \in Seq(Char) /\ text # <<>>
  BY WordIs DEF Closing
<1>8. <<a>> \o <<text>> = <<a, text>>
  BY <1>7, TwoJoined
<1>9. PartLine(t) = Result("PART", <<a>> \o <<text>>)
  <2>1. ~(Len(Tokens(first_part(t))) < 2) /\ Colon(t) # 0
    BY <1>4 DEF TextLine
  <2> QED
    BY <1>4, <2>1 DEF TextLine, PartLine
<1>10. PICK argv : argv = <<a, text>>
  OBVIOUS
<1>11. argv \in Argv /\ Len(argv) >= Reads("PART", argv) /\ "PART" \in Commands
  <2>1. argv \in Argv /\ Len(argv) = 2
    BY <1>7, <1>10, ArgvIs
  <2> QED
    BY <2>1, ReadsAre DEF Commands
<1> QED
  BY <1>1, <1>3, <1>6, <1>8, <1>9, <1>10, <1>11, HandlerReached

\* QUIT, with and without a text.
LEMMA QuitMeant ==
  Reached(Say(<<"QUIT">>, <<>>, NULL), "QUIT", <<NULL>>)
<1>1. PICK verb : verb = <<"QUIT">>
  OBVIOUS
<1>2. Word(verb) /\ Len(verb) = 1 /\ verb[1] = "QUIT"
  <2>1. {"QUIT"} \subseteq Letters \ {":"}
    BY DEF Letters
  <2> QED
    BY <1>1, <2>1, Verbs
<1>3. Plain(verb, <<verb>>)
  BY <1>2, PlainVerb
<1>4. Trimmed(verb) = verb /\ verb # <<>> /\ Colon(verb) = 0
  BY <1>3, PlainParsed
<1>5. Say(verb, <<>>, NULL) = verb
  BY <1>2, WordIs, SayVerb
<1>6. parse_string(verb) = QuitLine(verb)
  BY <1>2, <1>4 DEF parse_string
<1>7. QuitLine(verb) = Result("QUIT", <<NULL>>)
  BY <1>4 DEF QuitLine, NoArgument
<1>8. PICK argv : argv = <<NULL>>
  OBVIOUS
<1>9. argv \in Argv /\ Len(argv) >= Reads("QUIT", argv) /\ "QUIT" \in Commands
  <2>1. argv \in Argv /\ Len(argv) = 1
    BY <1>8, ArgvIs
  <2> QED
    BY <2>1, ReadsAre DEF Commands
<1> QED
  BY <1>1, <1>5, <1>6, <1>7, <1>8, <1>9, HandlerReached

LEMMA QuitTextMeant ==
  ASSUME NEW text, Closing(text)
  PROVE  Reached(Say(<<"QUIT">>, <<>>, text), "QUIT", <<text>>)
<1>1. PICK verb : verb = <<"QUIT">>
  OBVIOUS
<1>2. Word(verb) /\ Len(verb) = 1 /\ verb[1] = "QUIT"
  <2>1. {"QUIT"} \subseteq Letters \ {":"}
    BY DEF Letters
  <2> QED
    BY <1>1, <2>1, Verbs
<1>3. Plain(verb, <<verb>>)
  BY <1>2, PlainVerb
<1>4. verb \in Seq(Char) /\ text \in Seq(Char) /\ <<>> \in Seq(Seq(Char))
  BY <1>2, WordIs DEF Closing
<1>5. PICK t : t = Say(verb, <<>>, text)
  OBVIOUS
<1>6. t = Texted(verb, text)
  <2>1. PICK none : none = <<>>
    OBVIOUS
  <2>2. Say(verb, none, text) = Texted(Say(verb, none, NULL), text)
    BY <1>4, <2>1, SayText
  <2>3. Say(verb, none, NULL) = verb
    BY <1>4, <2>1, SayVerb
  <2> QED
    BY <1>5, <2>1, <2>2, <2>3
<1>7. Trimmed(t) = t /\ t # <<>> /\ t[1] = verb[1] /\ Colon(t) # 0 /\ second_part(t) = text
  BY <1>3, <1>6, TextParsed
<1>8. parse_string(t) = QuitLine(t)
  BY <1>2, <1>7 DEF parse_string
<1>9. QuitLine(t) = Result("QUIT", <<text>>)
  BY <1>7 DEF QuitLine
<1>10. PICK argv : argv = <<text>>
  OBVIOUS
<1>11. argv \in Argv /\ Len(argv) >= Reads("QUIT", argv) /\ "QUIT" \in Commands
  <2>1. argv \in Argv /\ Len(argv) = 1
    BY <1>4, <1>10, ArgvIs
  <2> QED
    BY <2>1, ReadsAre DEF Commands
<1> QED
  BY <1>1, <1>5, <1>8, <1>9, <1>10, <1>11, HandlerReached

\* The commands of more words.
LEMMA OperMeant ==
  ASSUME NEW a, Word(a), NEW b, Word(b)
  PROVE  Reached(Say(<<"OPER">>, <<a, b>>, NULL), "OPER", <<a, b>>)
<1>1. PICK verb : verb = <<"OPER">>
  OBVIOUS
<1>2. Word(verb) /\ Len(verb) = 1 /\ verb[1] = "OPER"
  <2>1. {"OPER"} \subseteq Letters \ {":"}
    BY DEF Letters
  <2> QED
    BY <1>1, <2>1, Verbs
<1>3. PICK x : x = Say(verb, <<a, b>>, NULL)
  OBVIOUS
<1>4. PICK words : words = <<verb, a, b>>
  OBVIOUS
<1>5. words[1] = verb /\ words[2] = a /\ words[3] = b /\ Len(words) = 3 /\ Plain(x, words)
  BY <1>2, <1>3, <1>4, TwoWords
<1>6. Tokens(x) = words /\ x[1] = "OPER"
  <2>1. Tokens(x) = words /\ \A i \in 1..Len(verb) : x[i] = verb[i]
    BY <1>5, PlainBegins
  <2> QED
    BY <1>2, <2>1
<1>7. parse_string(x) = OperLine(x)
  BY <1>5, <1>6, PlainParsed DEF parse_string
<1>8. OperLine(x) = Result("OPER", <<a, b>>)
  BY <1>5, <1>6 DEF OperLine
<1>9. PICK argv : argv = <<a, b>>
  OBVIOUS
<1>10. argv \in Argv /\ Len(argv) >= Reads("OPER", argv) /\ "OPER" \in Commands
  <2>1. argv \in Argv /\ Len(argv) = 2
    BY <1>9, WordIs, ArgvIs
  <2> QED
    BY <2>1, ReadsAre DEF Commands
<1> QED
  BY <1>1, <1>3, <1>7, <1>8, <1>9, <1>10, HandlerReached

LEMMA ModeMeant ==
  ASSUME NEW a, Word(a), NEW b, Word(b)
  PROVE  Reached(Say(<<"MODE">>, <<a, <<"+", "o">>, b>>, NULL), "MODE", <<a, <<"+", "o">>, b>>)
<1>1. PICK verb : verb = <<"MODE">>
  OBVIOUS
<1>2. PICK mode : mode = <<"+", "o">>
  OBVIOUS
<1>3. /\ Word(verb) /\ Len(verb) = 1 /\ verb[1] = "MODE"
      /\ Word(mode) /\ Len(mode) = 2 /\ mode[1] = "+" /\ mode[2] = "o"
  <2>1. {"MODE", "+", "o"} \subseteq Letters \ {":"}
    BY DEF Letters
  <2> QED
    BY <1>1, <1>2, <2>1, Verbs
<1>4. PICK x : x = Say(verb, <<a, mode, b>>, NULL)
  OBVIOUS
<1>5. PICK words : words = <<verb, a, mode, b>>
  OBVIOUS
<1>6. /\ words[1] = verb /\ words[2] = a /\ words[3] = mode /\ words[4] = b
      /\ Len(words) = 4
  BY <1>5
<1>7. Plain(x, words)
  BY <1>3, <1>4, <1>5, ThreeWords
<1>8. Tokens(x) = words /\ words \in Seq(Seq(Byte)) /\ x[1] = "MODE"
  <2>1. Tokens(x) = words /\ words \in Seq(Seq(Byte)) /\ \A i \in 1..Len(verb) : x[i] = verb[i]
    BY <1>6, <1>7, PlainBegins
  <2> QED
    BY <1>3, <2>1
<1>9. parse_string(x) = ModeLine(x)
  BY <1>7, <1>8, PlainParsed DEF parse_string
<1>10. Arguments(words, 3) = <<CString(words[2]), CString(words[3]), CString(words[4])>>
  BY <1>6, <1>8, ArgumentsThree
<1>11. CString(a) = a /\ CString(mode) = mode /\ CString(b) = b
  BY <1>3, WordIs, CharBytes
<1>12. ModeLine(x) = Result("MODE", Arguments(words, 3))
  <2>1. ~(Len(words) < 4) /\ Len(words[3]) = 2 /\ words[3][1] = "+" /\ words[3][2] = "o"
    BY <1>3, <1>6
  <2> QED
    BY <1>8, <2>1, Zenon DEF ModeLine
<1>13. PICK argv : argv = <<a, mode, b>>
  OBVIOUS
<1>14. argv \in Argv /\ Len(argv) >= Reads("MODE", argv) /\ "MODE" \in Commands
  <2>1. argv \in Argv /\ Len(argv) = 3
    BY <1>3, <1>13, WordIs, ArgvIs
  <2> QED
    BY <2>1, ReadsAre DEF Commands
<1>15. parse_string(x) = Result("MODE", argv)
  BY <1>6, <1>9, <1>10, <1>11, <1>12, <1>13
<1> QED
  BY <1>1, <1>2, <1>4, <1>13, <1>14, <1>15, HandlerReached

LEMMA UserMeant ==
  ASSUME NEW a, Word(a), NEW b, Word(b), NEW text, Closing(text)
  PROVE  Reached(Say(<<"USER">>, <<a, b, a>>, text), "USER", <<a, text>>)
<1>1. PICK verb : verb = <<"USER">>
  OBVIOUS
<1>2. Word(verb) /\ Len(verb) = 1 /\ verb[1] = "USER"
  <2>1. {"USER"} \subseteq Letters \ {":"}
    BY DEF Letters
  <2> QED
    BY <1>1, <2>1, Verbs
<1>3. verb \in Seq(Char) /\ a \in Seq(Char) /\ b \in Seq(Char) /\ text \in Seq(Char)
  BY <1>2, WordIs DEF Closing
<1>4. PICK x : x = Say(verb, <<a, b, a>>, NULL)
  OBVIOUS
<1>5. PICK y : y = Say(verb, <<a, b>>, NULL)
  OBVIOUS
<1>6. PICK words : words = <<verb, a, b, a>>
  OBVIOUS
<1>7. Plain(x, words)
  BY <1>2, <1>4, <1>6, ThreeWords
<1>8. words[1] = verb
  BY <1>6
<1>9. x = y \o <<SP>> \o a
  <2>1. PICK two : two = <<a, b>>
    OBVIOUS
  <2>2. two \in Seq(Seq(Char)) /\ Append(two, a) = <<a, b, a>>
    BY <1>3, <2>1, Appended
  <2>3. Say(verb, Append(two, a), NULL) = Say(verb, two, NULL) \o <<SP>> \o a
    BY <1>3, <2>2, SayWord
  <2> QED
    BY <1>4, <1>5, <2>1, <2>2, <2>3
<1>10. Plain(y, <<verb, a, b>>)
  BY <1>2, <1>5, TwoWords
<1>11. PICK t : t = Say(verb, <<a, b, a>>, text)
  OBVIOUS
<1>12. t = Texted(x, text)
  <2>1. <<a, b, a>> \in Seq(Seq(Char))
    BY <1>3
  <2> QED
    BY <1>3, <1>4, <1>11, <2>1, SayText
<1>13. /\ Trimmed(t) = t /\ t # <<>> /\ t[1] = x[1] /\ Colon(t) # 0
       /\ first_part(t) = x \o <<NUL>> /\ second_part(t) = text
  BY <1>7, <1>12, TextParsed
<1>14. x[1] = "USER"
  <2>1. \A i \in 1..Len(verb) : x[i] = verb[i]
    BY <1>7, <1>8, PlainBegins
  <2> QED
    BY <1>2, <2>1
<1>15. PICK v : v = a \o <<NUL>>
  OBVIOUS
<1>16. /\ Tokens((y \o <<SP>> \o a) \o <<NUL>>) = Append(<<verb, a, b>>, v)
       /\ v \in Seq(Byte) /\ CString(v) = a
  BY <1>10, <1>15, FrontWords
<1>17. verb \in Seq(Byte) /\ a \in Seq(Byte) /\ b \in Seq(Byte) /\ CString(a) = a
  BY <1>3, CharBytes
<1>18. PICK front : front = <<verb, a, b, v>>
  OBVIOUS
<1>19. Tokens(first_part(t)) = front
  <2>1. Append(<<verb, a, b>>, v) = <<verb, a, b, v>>
    BY <1>16, <1>17, Appended
  <2> QED
    BY <1>9, <1>13, <1>16, <1>18, <2>1
<1>20. front \in Seq(Seq(Byte)) /\ Len(front) = 4 /\ front[2] = a
  BY <1>16, <1>17, <1>18
<1>21. Arguments(front, 1) = <<a>>
  <2>1. Len(front) >= 2
    BY <1>20
  <2>2. Arguments(front, 1) = <<CString(front[2])>>
    BY <1>20, <2>1, ArgumentOne
  <2> QED
    BY <1>17, <1>20, <2>2
<1>22. parse_string(t) = UserLine(t)
  BY <1>13, <1>14 DEF parse_string
<1>23. UserLine(t) = Result("USER", <<a>> \o <<text>>)
  BY <1>13, <1>19, <1>20, <1>21 DEF UserLine
<1>24. <<a>> \o <<text>> = <<a, text>>
  BY <1>3, TwoJoined
<1>25. PICK argv : argv = <<a, text>>
  OBVIOUS
<1>26. argv \in Argv /\ Len(argv) >= Reads("USER", argv) /\ "USER" \in Commands
  <2>1. argv \in Argv /\ Len(argv) = 2
    BY <1>3, <1>25, ArgvIs
  <2> QED
    BY <2>1, ReadsAre DEF Commands
<1> QED
  BY <1>1, <1>11, <1>22, <1>23, <1>24, <1>25, <1>26, HandlerReached

\* Each of Promises.
LEMMA PromisesReached ==
  ASSUME NEW p \in Promises
  PROVE  Reached(p.line, p.type, p.argv)
<1> DEFINE Of(a, b, t) ==
             {Meant(<<"NICK">>, <<a>>, NULL, "NICK", <<a>>),
              Meant(<<"USER">>, <<a, b, a>>, t, "USER", <<a, t>>),
              Meant(<<"PRIV", "MSG">>, <<a>>, t, "PRIVMSG", <<a, t>>),
              Meant(<<"NOTI", "CE">>, <<a>>, t, "NOTICE", <<a, t>>),
              Meant(<<"QUIT">>, <<>>, NULL, "QUIT", <<NULL>>),
              Meant(<<"QUIT">>, <<>>, t, "QUIT", <<t>>),
              Meant(<<"OPER">>, <<a, b>>, NULL, "OPER", <<a, b>>),
              Meant(<<"WHOI", "S">>, <<a>>, NULL, "WHOIS", <<a>>),
              Meant(<<"JOIN">>, <<a>>, NULL, "JOIN", <<a>>),
              Meant(<<"PART">>, <<a>>, NULL, "PART", <<a, NULL>>),
              Meant(<<"PART">>, <<a>>, t, "PART", <<a, t>>),
              Meant(<<"MODE">>, <<a, <<"+", "o">>, b>>, NULL, "MODE",
                    <<a, <<"+", "o">>, b>>),
              Meant(<<"LIST">>, <<a>>, NULL, "LIST", <<a>>)}
<1>0. Promises = UNION {Of(a, b, t) : a \in Words, b \in Words, t \in Texts}
  BY DEF Promises
<1> HIDE DEF Of
<1>1. PICK a \in Words, b \in Words, t \in Texts : p \in Of(a, b, t)
  BY <1>0
<1>2. Word(a) /\ Word(b) /\ Closing(t)
  BY InputWords DEF Word, Closing
<1>3. ASSUME NEW verb, NEW words, NEW text, NEW type, NEW argv,
             Reached(Say(verb, words, text), type, argv),
             p = Meant(verb, words, text, type, argv)
      PROVE  Reached(p.line, p.type, p.argv)
  <2>1. p.line = Say(verb, words, text) /\ p.type = type /\ p.argv = argv
    BY <1>3 DEF Meant
  <2> QED
    BY <1>3, <2>1
<1>4. CASE p = Meant(<<"NICK">>, <<a>>, NULL, "NICK", <<a>>)
  BY <1>2, <1>3, <1>4, NickMeant
<1>5. CASE p = Meant(<<"USER">>, <<a, b, a>>, t, "USER", <<a, t>>)
  BY <1>2, <1>3, <1>5, UserMeant
<1>6. CASE p = Meant(<<"PRIV", "MSG">>, <<a>>, t, "PRIVMSG", <<a, t>>)
  BY <1>2, <1>3, <1>6, PrivMsgMeant
<1>7. CASE p = Meant(<<"NOTI", "CE">>, <<a>>, t, "NOTICE", <<a, t>>)
  BY <1>2, <1>3, <1>7, NoticeMeant
<1>8. CASE p = Meant(<<"QUIT">>, <<>>, NULL, "QUIT", <<NULL>>)
  BY <1>3, <1>8, QuitMeant
<1>9. CASE p = Meant(<<"QUIT">>, <<>>, t, "QUIT", <<t>>)
  BY <1>2, <1>3, <1>9, QuitTextMeant
<1>10. CASE p = Meant(<<"OPER">>, <<a, b>>, NULL, "OPER", <<a, b>>)
  BY <1>2, <1>3, <1>10, OperMeant
<1>11. CASE p = Meant(<<"WHOI", "S">>, <<a>>, NULL, "WHOIS", <<a>>)
  BY <1>2, <1>3, <1>11, WhoisMeant
<1>12. CASE p = Meant(<<"JOIN">>, <<a>>, NULL, "JOIN", <<a>>)
  BY <1>2, <1>3, <1>12, JoinMeant
<1>13. CASE p = Meant(<<"PART">>, <<a>>, NULL, "PART", <<a, NULL>>)
  BY <1>2, <1>3, <1>13, PartMeant
<1>14. CASE p = Meant(<<"PART">>, <<a>>, t, "PART", <<a, t>>)
  BY <1>2, <1>3, <1>14, PartTextMeant
<1>15. CASE p = Meant(<<"MODE">>, <<a, <<"+", "o">>, b>>, NULL, "MODE",
                      <<a, <<"+", "o">>, b>>)
  BY <1>2, <1>3, <1>15, ModeMeant
<1>16. CASE p = Meant(<<"LIST">>, <<a>>, NULL, "LIST", <<a>>)
  BY <1>2, <1>3, <1>16, ListMeant
<1> QED
  BY <1>1, <1>4, <1>5, <1>6, <1>7, <1>8, <1>9, <1>10, <1>11, <1>12, <1>13, <1>14, <1>15, <1>16
     DEF Of

\* Whatever the words and texts, a line of the protocol reaches the handler of
\* its command with its arguments whole.
THEOREM MeaningIsKept == Spec => MeaningKept
<1>1. ASSUME InputInv, [Next]_ivars, NEW p \in Promises,
             lines' # lines, lines'[Len(lines')] = p.line
      PROVE  IF registered \/ p.type \in {"NICK", "USER"}
               THEN did' = Call("handler", p.type, p.argv)
               ELSE did' = Call("error", "NOTREGISTERED", <<>>)
  <2>1. did' = Outcome(parse_string(p.line), registered)
    BY <1>1, Dispatched
  <2>2. Reached(p.line, p.type, p.argv)
    BY PromisesReached
  <2> QED
    BY <2>1, <2>2 DEF Reached
<1>2. InputInv /\ [Next]_ivars =>
        [\A p \in Promises :
           (lines' # lines /\ lines'[Len(lines')] = p.line)
             => IF registered \/ p.type \in {"NICK", "USER"}
                  THEN did' = Call("handler", p.type, p.argv)
                  ELSE did' = Call("error", "NOTREGISTERED", <<>>)]_ivars
  BY <1>1
<1> QED
  BY <1>2, InputAlways, PTL DEF Spec, MeaningKept
============================================================================
