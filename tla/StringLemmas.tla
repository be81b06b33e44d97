---------------------------- MODULE StringLemmas ----------------------------
(***************************************************************************)
(* What the functions of Strings compute, for strings of any bytes: behind *)
(* the proofs about the library and about the parser.                      *)
(***************************************************************************)
EXTENDS Strings, CommonLemmas, SequenceTheorems

\* Part of a sequence.
LEMMA PartIs ==
  ASSUME NEW T, NEW s \in Seq(T), NEW m \in Nat \ {0}, NEW n \in Nat,
         m <= n + 1, n <= Len(s)
  PROVE  /\ SubSeq(s, m, n) \in Seq(T) /\ Len(SubSeq(s, m, n)) = (n - m) + 1
         /\ \A i \in 1..((n - m) + 1) : SubSeq(s, m, n)[i] = s[(m + i) - 1]
<1>1. \A i \in m..n : s[i] \in T
  OBVIOUS
<1>2. m \in Int /\ n \in Int
  OBVIOUS
<1> QED
  BY <1>1, <1>2, SubSeqProperties

\* The place of the first x in a sequence.
FirstOf(s, x) == SelectInSeq(s, LAMBDA c : c = x)

LEMMA FirstOfIs ==
  ASSUME NEW T, NEW s \in Seq(T), NEW x
  PROVE  \/ FirstOf(s, x) = 0 /\ ~Contains(s, x)
         \/ /\ FirstOf(s, x) \in 1..Len(s) /\ s[FirstOf(s, x)] = x
            /\ \A i \in 1..(FirstOf(s, x) - 1) : s[i] # x
<1> DEFINE I == {i \in 1..Len(s) : s[i] = x}
<1>1. FirstOf(s, x) = IF I # {} THEN Min(I) ELSE 0
  BY DEF FirstOf, SelectInSeq
<1>2. CASE I = {}
  BY <1>1, <1>2 DEF Contains
<1>3. CASE I # {}
  <2>1. I \subseteq Nat
    OBVIOUS
  <2>2. \E i \in I : \A j \in I : i <= j
    BY <1>3, <2>1, Least
  <2>3. Min(I) \in I /\ \A j \in I : Min(I) <= j
    BY <2>2 DEF Min
  <2>4. PICK m : m = FirstOf(s, x)
    OBVIOUS
  <2>5. m \in I /\ \A j \in I : m <= j
    BY <1>1, <1>3, <2>3, <2>4
  <2>6. ASSUME NEW i \in 1..(m - 1) PROVE s[i] # x
    BY <2>5
  <2> QED
    BY <2>4, <2>5, <2>6
<1> QED
  BY <1>2, <1>3

----------------------------------------------------------------------------
(* C strings and what is left after trimming *)

\* The bytes before the first terminator, all if there is none.
LEMMA CStringBytes ==
  ASSUME NEW t \in Seq(Byte)
  PROVE  CString(t) \in Seq(Byte)
<1> DEFINE Ends == {n \in 0..Len(t) : n < Len(t) => t[n + 1] = NUL}
           Before(n) == /\ \A i \in 1..n : t[i] # NUL
                        /\ n < Len(t) => t[n + 1] = NUL
<1>1. Ends \subseteq Nat /\ Len(t) \in Ends
  OBVIOUS
<1>2. PICK n \in Ends : \A m \in Ends : n <= m
  BY <1>1, Least
<1>3. Before(n)
  <2> SUFFICES ASSUME NEW i \in 1..n, t[i] = NUL PROVE FALSE
    BY <1>2
  <2>1. i - 1 \in 0..Len(t) /\ (i - 1) + 1 = i /\ n \in Nat
    BY <1>2
  <2>2. i - 1 \in Ends
    BY <2>1
  <2> QED
    BY <1>2, <2>1, <2>2
<1>4. \E m \in 0..Len(t) : Before(m)
  BY <1>2, <1>3
<1>5. (CHOOSE m \in 0..Len(t) : Before(m)) \in 0..Len(t)
  BY <1>4
<1>6. \A m \in 0..Len(t) : SubSeq(t, 1, m) \in Seq(Byte)
  OBVIOUS
<1> HIDE DEF Before
<1>7. SubSeq(t, 1, CHOOSE m \in 0..Len(t) : Before(m)) \in Seq(Byte)
  BY <1>5, <1>6
<1> QED
  BY <1>7 DEF CString, Before

\* Nothing is trimmed to more than it was.
LEMMA TrimmedBytes ==
  ASSUME NEW t \in Seq(Byte)
  PROVE  Trimmed(t) \in Seq(Byte) /\ Len(Trimmed(t)) <= Len(t)
<1> DEFINE kept == {i \in DOMAIN t : t[i] \notin {SP, NUL}}
           a == CHOOSE i \in kept : \A j \in kept : i <= j
           b == CHOOSE i \in kept : \A j \in kept : i >= j
<1>1. CASE kept = {}
  BY <1>1 DEF Trimmed
<1>2. CASE kept # {}
  <2>1. kept \subseteq 1..Len(t) /\ kept \subseteq Nat /\ Len(t) \in Nat
    OBVIOUS
  <2>2. \E i \in kept : \A j \in kept : i <= j
    BY <1>2, <2>1, Least
  <2>3. \E i \in kept : \A j \in kept : i >= j
    <3> DEFINE ends == {Len(t) - i : i \in kept}
    <3>1. ends \subseteq Nat /\ ends # {}
      BY <1>2, <2>1
    <3>2. PICK e \in ends : \A f \in ends : e <= f
      BY <3>1, Least
    <3>3. PICK i \in kept : e = Len(t) - i
      BY <3>2
    <3>4. ASSUME NEW j \in kept PROVE i >= j
      <4>1. e <= Len(t) - j
        BY <3>2
      <4> QED
        BY <3>3, <4>1, <2>1
    <3> QED
      BY <3>4
  <2>4. a \in 1..Len(t) /\ b \in 1..Len(t)
    BY <2>1, <2>2, <2>3
  <2>5. Trimmed(t) = SubSeq(t, a, b)
    BY <1>2 DEF Trimmed
  <2> HIDE DEF a, b
  <2> QED
    BY <2>4, <2>5
<1> QED
  BY <1>1, <1>2

----------------------------------------------------------------------------
(* Tokens *)

\* A token starts after the last separator, and at no other place.
LEMMA TokenStartIs ==
  ASSUME NEW t \in Seq(Byte), NEW j \in 0..Len(t)
  PROVE  /\ TokenStart(t, j) \in 1..(j + 1)
         /\ TokenStart(t, j) > 1 => t[TokenStart(t, j) - 1] = SP
         /\ \A k \in TokenStart(t, j)..j : t[k] # SP
<1> DEFINE Clean == {i \in 1..(j + 1) : \A k \in i..j : t[k] # SP}
           Is(i) == /\ i > 1 => t[i - 1] = SP
                    /\ \A k \in i..j : t[k] # SP
<1>1. Clean \subseteq Nat /\ j + 1 \in Clean /\ j \in Nat
  OBVIOUS
<1>2. PICK i \in Clean : \A k \in Clean : i <= k
  BY <1>1, Least
<1>3. ASSUME i > 1 PROVE t[i - 1] = SP
  <2>1. i - 1 \in 1..(j + 1) /\ i \in Nat /\ ~(i <= i - 1)
    BY <1>2, <1>3
  <2>2. i - 1 \notin Clean
    BY <1>2, <2>1
  <2>3. PICK k \in (i - 1)..j : t[k] = SP
    BY <2>1, <2>2
  <2>4. k = i - 1
    BY <1>2, <2>1, <2>3
  <2> QED
    BY <2>3, <2>4
<1>4. \E m \in 1..(j + 1) : Is(m)
  BY <1>2, <1>3
<1> HIDE DEF Is
<1>5. (CHOOSE m \in 1..(j + 1) : Is(m)) \in 1..(j + 1) /\ Is(CHOOSE m \in 1..(j + 1) : Is(m))
  BY <1>4
<1>6. TokenStart(t, j) = CHOOSE m \in 1..(j + 1) : Is(m)
  BY DEF TokenStart, Is
<1> QED
  BY <1>5, <1>6 DEF Is

LEMMA TokenStartUnique ==
  ASSUME NEW t \in Seq(Byte), NEW j \in 0..Len(t), NEW i \in 1..(j + 1),
         i > 1 => t[i - 1] = SP, \A k \in i..j : t[k] # SP
  PROVE  TokenStart(t, j) = i
<1> DEFINE m == TokenStart(t, j)
<1>1. /\ m \in 1..(j + 1) /\ (m > 1 => t[m - 1] = SP) /\ \A k \in m..j : t[k] # SP
  BY TokenStartIs
<1>2. i \in Nat /\ j \in Nat /\ i <= j + 1
  OBVIOUS
<1> HIDE DEF m
<1>3. CASE m < i
  <2>1. i > 1 /\ i - 1 \in m..j
    BY <1>1, <1>2, <1>3
  <2> QED
    BY <1>1, <2>1
<1>4. CASE i < m
  <2>1. m > 1 /\ m - 1 \in i..j
    BY <1>1, <1>2, <1>4
  <2> QED
    BY <1>1, <2>1
<1>5. m = i \/ m < i \/ i < m
  BY <1>1, <1>2
<1> QED
  BY <1>3, <1>4, <1>5 DEF m

\* A separator ends a token, another byte is added to it.
LEMMA TokenSteps ==
  ASSUME NEW t \in Seq(Byte)
  PROVE  /\ Token(t, 0) = <<>>
         /\ \A j \in 1..Len(t) :
              Token(t, j) = IF t[j] = SP THEN <<>> ELSE Append(Token(t, j - 1), t[j])
         /\ \A j \in 0..Len(t) : Token(t, j) \in Seq(Byte) /\ ~Contains(Token(t, j), SP)
<1>1. Len(t) \in Nat /\ \A j \in 1..Len(t) : t[j] \in Byte
  OBVIOUS
<1>2. Token(t, 0) = <<>>
  <2>1. TokenStart(t, 0) \in 1..(0 + 1)
    BY <1>1, TokenStartIs
  <2>2. TokenStart(t, 0) = 1 /\ SubSeq(t, 1, 0) = <<>>
    BY <2>1
  <2> QED
    BY <2>2 DEF Token
<1>3. ASSUME NEW j \in 1..Len(t)
      PROVE  Token(t, j) = IF t[j] = SP THEN <<>> ELSE Append(Token(t, j - 1), t[j])
  <2>1. j \in Nat /\ j - 1 \in 0..Len(t) /\ j \in 0..Len(t)
    BY <1>1
  <2>2. CASE t[j] = SP
    <3>1. j + 1 \in 1..(j + 1) /\ (j + 1) - 1 = j /\ (j + 1)..j = {}
      BY <2>1
    <3>2. TokenStart(t, j) = j + 1
      BY <2>1, <2>2, <3>1, TokenStartUnique
    <3>3. SubSeq(t, j + 1, j) = <<>>
      BY <1>1
    <3> QED
      BY <2>2, <3>2, <3>3 DEF Token
  <2>3. CASE t[j] # SP
    <3>1. PICK i : i = TokenStart(t, j - 1)
      OBVIOUS
    <3>2. /\ i \in 1..((j - 1) + 1) /\ (i > 1 => t[i - 1] = SP)
          /\ \A k \in i..(j - 1) : t[k] # SP
      BY <2>1, <3>1, TokenStartIs
    <3>3. i \in 1..j /\ i \in 1..(j + 1) /\ \A k \in i..j : k = j \/ k \in i..(j - 1)
      BY <2>1, <3>2
    <3>4. \A k \in i..j : t[k] # SP
      BY <2>3, <3>2, <3>3
    <3>5. TokenStart(t, j) = i
      BY <2>1, <3>2, <3>3, <3>4, TokenStartUnique
    <3>6. SubSeq(t, i, j) = Append(SubSeq(t, i, j - 1), t[j])
      BY <1>1, <2>1, <3>3
    <3> QED
      BY <2>3, <3>1, <3>5, <3>6 DEF Token
  <2> QED
    BY <2>2, <2>3
<1>4. ASSUME NEW j \in 0..Len(t)
      PROVE  Token(t, j) \in Seq(Byte) /\ ~Contains(Token(t, j), SP)
  <2>1. PICK i : i = TokenStart(t, j)
    OBVIOUS
  <2>2. i \in 1..(j + 1) /\ \A k \in i..j : t[k] # SP
    BY <2>1, TokenStartIs
  <2>3. PICK s : s = SubSeq(t, i, j)
    OBVIOUS
  <2>4. s \in Seq(Byte) /\ \A k \in 1..Len(s) : (k + i) - 1 \in i..j /\ s[k] = t[(k + i) - 1]
    BY <1>1, <2>2, <2>3
  <2>5. ~Contains(s, SP)
    BY <2>2, <2>4 DEF Contains
  <2> QED
    BY <2>1, <2>3, <2>4, <2>5 DEF Token
<1> QED
  BY <1>2, <1>3, <1>4

\* The recursive function of the tokens.
LEMMA CutIs ==
  ASSUME NEW t \in Seq(Byte)
  PROVE  /\ Cut(t)[0] = <<>>
         /\ \A j \in 1..Len(t) :
              Cut(t)[j] = IF t[j] = SP THEN Append(Cut(t)[j - 1], Token(t, j - 1))
                                       ELSE Cut(t)[j - 1]
<1> DEFINE n == Len(t)
           V == Seq(Seq(Byte))
           Is(f) == f = [j \in 0..n |-> IF j = 0 THEN <<>>
                                        ELSE IF t[j] = SP
                                          THEN Append(f[j - 1], Token(t, j - 1))
                                        ELSE f[j - 1]]
           step == [j \in 1..n |-> [a \in V |-> IF t[j] = SP THEN Append(a, Token(t, j - 1))
                                                             ELSE a]]
<1>1. n \in Nat /\ \A j \in 1..n : j - 1 \in 0..n
  OBVIOUS
<1>2. step \in [1..n -> [V -> V]]
  <2>1. \A j \in 1..n : Token(t, j - 1) \in Seq(Byte)
    BY <1>1, TokenSteps
  <2> HIDE DEF n
  <2>2. \A j \in 1..n : \A a \in V : Append(a, Token(t, j - 1)) \in V
    BY <2>1
  <2> QED
    BY <2>2
<1>3. PICK f \in [0..n -> V] : f[0] = <<>> /\ \A j \in 1..n : f[j] = step[j][f[j - 1]]
  <2>1. <<>> \in V
    OBVIOUS
  <2>2. PICK none : none = <<>>
    OBVIOUS
  <2> HIDE DEF n, V, step
  <2>3. \E f \in [0..n -> V] : Stepwise(f, n, none, step)
    BY <1>1, <1>2, <2>1, <2>2, Recursion
  <2> QED
    BY <2>2, <2>3 DEF Stepwise
<1>4. Is(f)
  <2>1. \A j \in 1..n : f[j - 1] \in V
    BY <1>1
  <2>2. \A j \in 1..n : f[j] = IF t[j] = SP THEN Append(f[j - 1], Token(t, j - 1))
                                            ELSE f[j - 1]
    BY <1>3, <2>1
  <2>3. f = [j \in 0..n |-> f[j]] /\ \A j \in 0..n : j = 0 \/ j \in 1..n
    BY <1>1
  <2> HIDE DEF n, V, step
  <2> QED
    BY <1>3, <2>2, <2>3
<1>5. Cut(t) = CHOOSE g : Is(g)
  BY DEF Cut
<1> HIDE DEF Is
<1>6. Is(Cut(t))
  BY <1>4, <1>5
<1>7. PICK g : g = Cut(t)
  OBVIOUS
<1>8. g = [j \in 0..n |-> IF j = 0 THEN <<>>
                          ELSE IF t[j] = SP THEN Append(g[j - 1], Token(t, j - 1))
                          ELSE g[j - 1]]
  BY <1>6, <1>7 DEF Is
<1>9. g[0] = <<>>
  BY <1>1, <1>8
<1>10. ASSUME NEW j \in 1..n
       PROVE  g[j] = IF t[j] = SP THEN Append(g[j - 1], Token(t, j - 1)) ELSE g[j - 1]
  <2>1. j \in 0..n /\ j # 0
    BY <1>1
  <2> QED
    BY <1>8, <2>1, Zenon
<1> QED
  BY <1>7, <1>9, <1>10

\* The first separator of a string.
FirstSP(t, q) == q \in 1..Len(t) /\ t[q] = SP /\ \A i \in 1..(q - 1) : t[i] # SP

LEMMA FirstSPExists ==
  ASSUME NEW t \in Seq(Byte), NEW i \in 1..Len(t), t[i] = SP
  PROVE  \E q \in 1..i : FirstSP(t, q)
<1> DEFINE S == {k \in 1..i : t[k] = SP}
<1>1. S \subseteq Nat /\ S # {} /\ Len(t) \in Nat
  OBVIOUS
<1>2. PICK q \in S : \A k \in S : q <= k
  BY <1>1, Least
<1>3. ASSUME NEW k \in 1..(q - 1) PROVE t[k] # SP
  <2>1. k \in 1..i /\ ~(q <= k)
    BY <1>2
  <2> QED
    BY <1>2, <2>1
<1>4. q \in 1..i /\ q \in 1..Len(t) /\ t[q] = SP
  BY <1>1, <1>2
<1> QED
  BY <1>3, <1>4 DEF FirstSP

\* What was cut after some bytes: nothing before the first separator, and
\* from there on the first token stays.
CutSoFar(t, c, j) ==
  /\ c \in Seq(Seq(Byte))
  /\ \A q \in 1..Len(t) :
       FirstSP(t, q) =>
         IF j < q THEN c = <<>> ELSE Len(c) > 0 /\ c[1] = SubSeq(t, 1, q - 1)
  /\ (\A i \in 1..j : t[i] # SP) => c = <<>>

LEMMA CutSteps ==
  ASSUME NEW t \in Seq(Byte), NEW j \in 0..Len(t)
  PROVE  CutSoFar(t, Cut(t)[j], j)
<1> DEFINE Bad == {i \in 0..Len(t) : ~CutSoFar(t, Cut(t)[i], i)}
<1>1. PICK cut : cut = Cut(t)
  OBVIOUS
<1>2. /\ cut[0] = <<>>
      /\ \A i \in 1..Len(t) : cut[i] = IF t[i] = SP THEN Append(cut[i - 1], Token(t, i - 1))
                                                    ELSE cut[i - 1]
  BY <1>1, CutIs
<1>3. CutSoFar(t, cut[0], 0)
  <2>1. <<>> \in Seq(Seq(Byte)) /\ \A q \in 1..Len(t) : 0 < q
    OBVIOUS
  <2> QED
    BY <1>2, <2>1 DEF CutSoFar
<1>4. ASSUME NEW i \in 1..Len(t), CutSoFar(t, cut[i - 1], i - 1)
      PROVE  CutSoFar(t, cut[i], i)
  <2>1. PICK c : c = cut[i - 1]
    OBVIOUS
  <2>2. /\ i \in Nat /\ i - 1 \in 0..Len(t) /\ Len(t) \in Nat /\ c \in Seq(Seq(Byte))
        /\ i \in 1..i /\ \A k \in 1..(i - 1) : k \in 1..i
    BY <1>4, <2>1 DEF CutSoFar
  <2>3. CASE t[i] # SP
    <3>1. cut[i] = c
      BY <1>2, <2>1, <2>3
    <3>2. ASSUME NEW q \in 1..Len(t), FirstSP(t, q)
          PROVE  IF i < q THEN c = <<>> ELSE Len(c) > 0 /\ c[1] = SubSeq(t, 1, q - 1)
      <4>1. t[q] = SP /\ i # q
        BY <2>3, <3>2 DEF FirstSP
      <4>2. i < q <=> i - 1 < q
        BY <2>2, <4>1
      <4> QED
        BY <1>4, <2>1, <3>2, <4>2 DEF CutSoFar
    <3>3. ASSUME \A k \in 1..i : t[k] # SP PROVE c = <<>>
      BY <1>4, <2>1, <2>2, <3>3 DEF CutSoFar
    <3> QED
      BY <2>2, <3>1, <3>2, <3>3 DEF CutSoFar
  <2>4. CASE t[i] = SP
    <3>1. PICK w : w = Token(t, i - 1)
      OBVIOUS
    <3>2. w \in Seq(Byte) /\ cut[i] = Append(c, w)
      BY <1>2, <2>1, <2>2, <2>4, <3>1, TokenSteps
    <3>3. PICK d : d = Append(c, w)
      OBVIOUS
    <3>4. d \in Seq(Seq(Byte)) /\ Len(d) > 0 /\ d[1] = IF Len(c) > 0 THEN c[1] ELSE w
      BY <2>2, <3>2, <3>3
    <3>5. ASSUME NEW q \in 1..Len(t), FirstSP(t, q)
          PROVE  ~(i < q) /\ d[1] = SubSeq(t, 1, q - 1)
      <4>1. q \in Nat /\ \A k \in 1..(q - 1) : t[k] # SP
        BY <3>5 DEF FirstSP
      <4>2. ~(i < q)
        BY <2>2, <2>4, <4>1
      <4>3. CASE i = q
        <5>1. c = <<>>
          BY <1>4, <2>1, <2>2, <3>5, <4>3 DEF CutSoFar
        <5>2. 1 \in 1..((i - 1) + 1) /\ i - 1 \in 0..Len(t)
          BY <2>2
        <5>3. TokenStart(t, i - 1) = 1
          BY <4>1, <4>3, <5>2, TokenStartUnique
        <5> QED
          BY <3>1, <3>4, <4>2, <4>3, <5>1, <5>3 DEF Token
      <4>4. CASE i # q
        <5>1. ~(i - 1 < q)
          BY <2>2, <4>1, <4>2, <4>4
        <5>2. Len(c) > 0 /\ c[1] = SubSeq(t, 1, q - 1)
          BY <1>4, <2>1, <3>5, <5>1 DEF CutSoFar
        <5> QED
          BY <3>4, <4>2, <5>2
      <4> QED
        BY <4>3, <4>4
    <3> QED
      BY <2>2, <2>4, <3>2, <3>3, <3>4, <3>5 DEF CutSoFar
  <2> QED
    BY <2>3, <2>4
<1>5. Bad = {}
  <2> SUFFICES ASSUME Bad # {} PROVE FALSE
    OBVIOUS
  <2>1. Bad \subseteq Nat
    OBVIOUS
  <2>2. PICK i \in Bad : \A k \in Bad : i <= k
    BY <2>1, Least
  <2>3. i \in 0..Len(t) /\ ~CutSoFar(t, cut[i], i)
    BY <1>1, <2>2
  <2>4. i # 0
    BY <1>3, <2>3
  <2>5. i \in 1..Len(t) /\ i - 1 \in 0..Len(t) /\ ~(i <= i - 1)
    BY <2>3, <2>4
  <2>6. CutSoFar(t, cut[i - 1], i - 1)
    BY <1>1, <2>2, <2>5
  <2> QED
    BY <1>4, <2>3, <2>5, <2>6
<1> QED
  BY <1>5

\* A string with a separator has more tokens than the one before it; one
\* without is a token.
LEMMA FirstToken ==
  ASSUME NEW t \in Seq(Byte), t # <<>>
  PROVE  /\ Tokens(t) \in Seq(Seq(Byte)) /\ Len(Tokens(t)) >= 1
         /\ \A q \in 1..Len(t) :
              FirstSP(t, q) => Len(Tokens(t)) >= 2 /\ Tokens(t)[1] = SubSeq(t, 1, q - 1)
         /\ (\A i \in 1..Len(t) : t[i] # SP) => Tokens(t) = <<t>>
<1>1. PICK n : n = Len(t)
  OBVIOUS
<1>2. n \in Nat /\ n > 0 /\ n \in 0..Len(t)
  BY <1>1
<1>3. PICK c : c = Cut(t)[n]
  OBVIOUS
<1>4. PICK w : w = Token(t, n)
  OBVIOUS
<1>5. PICK d : d = Append(c, w)
  OBVIOUS
<1>6. Tokens(t) = d
  BY <1>1, <1>3, <1>4, <1>5 DEF Tokens
<1>7. CutSoFar(t, c, n) /\ w \in Seq(Byte)
  BY <1>2, <1>3, <1>4, CutSteps, TokenSteps
<1>8. c \in Seq(Seq(Byte))
  BY <1>7 DEF CutSoFar
<1>9. /\ d \in Seq(Seq(Byte)) /\ Len(d) = Len(c) + 1 /\ Len(c) \in Nat
      /\ Len(c) > 0 => d[1] = c[1]
  BY <1>5, <1>7, <1>8
<1>10. ASSUME NEW q \in 1..Len(t), FirstSP(t, q)
       PROVE  Len(d) >= 2 /\ d[1] = SubSeq(t, 1, q - 1)
  <2>1. ~(n < q)
    BY <1>1, <1>2
  <2>2. Len(c) > 0 /\ c[1] = SubSeq(t, 1, q - 1)
    BY <1>7, <1>10, <2>1 DEF CutSoFar
  <2> QED
    BY <1>9, <2>2
<1>11. ASSUME \A i \in 1..Len(t) : t[i] # SP
       PROVE  d = <<t>>
  <2>1. c = <<>>
    BY <1>1, <1>7, <1>11 DEF CutSoFar
  <2>2. TokenStart(t, n) = 1
    <3>1. 1 \in 1..(n + 1)
      BY <1>2
    <3> QED
      BY <1>1, <1>2, <1>11, <3>1, TokenStartUnique
  <2>3. w = t
    <3>1. SubSeq(t, 1, Len(t)) = t
      OBVIOUS
    <3> QED
      BY <1>1, <1>4, <2>2, <3>1 DEF Token
  <2> QED
    BY <1>5, <2>1, <2>3
<1> QED
  BY <1>6, <1>9, <1>10, <1>11

\* Two strings with a separator between them.
Spaced(x, y, z) ==
  /\ z \in Seq(Byte) /\ Len(z) = Len(x) + 1 + Len(y)
  /\ z[Len(x) + 1] = SP
  /\ \A i \in 1..Len(x) : z[i] = x[i]
  /\ \A i \in 1..Len(y) : z[Len(x) + 1 + i] = y[i]

LEMMA SpacedIs ==
  ASSUME NEW x \in Seq(Byte), NEW y \in Seq(Byte)
  PROVE  Spaced(x, y, x \o <<SP>> \o y)
<1>1. <<SP>> \in Seq(Byte) /\ Len(<<SP>>) = 1 /\ <<SP>>[1] = SP
  BY StringBytes DEF Byte
<1>2. PICK a : a = x \o <<SP>>
  OBVIOUS
<1>3. /\ a \in Seq(Byte) /\ Len(a) = Len(x) + 1 /\ a[Len(x) + 1] = SP
      /\ \A i \in 1..Len(x) : a[i] = x[i]
  BY <1>1, <1>2
<1>4. PICK z : z = a \o y
  OBVIOUS
<1>5. /\ z \in Seq(Byte) /\ Len(z) = Len(a) + Len(y)
      /\ \A i \in 1..Len(a) : z[i] = a[i]
      /\ \A i \in 1..Len(y) : z[Len(a) + i] = y[i]
  <2>0. a \in Seq(Byte)
    BY <1>3
  <2>1. /\ z \in Seq(Byte) /\ Len(z) = Len(a) + Len(y)
        /\ \A i \in 1..(Len(a) + Len(y)) : z[i] = IF i <= Len(a) THEN a[i] ELSE y[i - Len(a)]
    <3>1. /\ a \o y \in Seq(Byte) /\ Len(a \o y) = Len(a) + Len(y)
          /\ \A i \in 1..(Len(a) + Len(y)) :
               (a \o y)[i] = IF i <= Len(a) THEN a[i] ELSE y[i - Len(a)]
      BY <2>0
    <3> QED
      BY <1>4, <3>1
  <2>2. Len(a) \in Nat /\ Len(y) \in Nat
    BY <1>3
  <2>3. ASSUME NEW i \in 1..Len(y) PROVE z[Len(a) + i] = y[i]
    <3>1. /\ Len(a) + i \in 1..(Len(a) + Len(y)) /\ ~(Len(a) + i <= Len(a))
          /\ (Len(a) + i) - Len(a) = i
      BY <2>2
    <3> QED
      BY <2>1, <3>1
  <2>4. \A i \in 1..Len(a) : i \in 1..(Len(a) + Len(y)) /\ i <= Len(a)
    BY <2>2
  <2> QED
    BY <2>1, <2>3, <2>4
<1>6. Len(x) \in Nat /\ Len(y) \in Nat
  OBVIOUS
<1>7. Spaced(x, y, z)
  <2>1. Len(x) + 1 \in 1..Len(a) /\ \A i \in 1..Len(x) : i \in 1..Len(a)
    BY <1>3, <1>6
  <2> QED
    BY <1>3, <1>5, <1>6, <2>1 DEF Spaced
<1> QED
  BY <1>2, <1>4, <1>7

\* Up to the separator the same tokens are cut.
LEMMA SpacedCut ==
  ASSUME NEW x \in Seq(Byte), NEW y \in Seq(Byte), NEW z, Spaced(x, y, z), x # <<>>
  PROVE  Cut(z)[Len(x) + 1] = Tokens(x)
<1>1. PICK m : m = Len(x)
  OBVIOUS
<1>2. /\ m \in Nat /\ z \in Seq(Byte) /\ m + 1 \in 1..Len(z) /\ z[m + 1] = SP
      /\ \A i \in 1..m : z[i] = x[i] /\ i \in 1..Len(z)
      /\ Len(z) \in Nat
  BY <1>1 DEF Spaced
<1>3. ASSUME NEW j \in 0..m PROVE Token(z, j) = Token(x, j)
  <2>1. PICK i : i = TokenStart(x, j)
    OBVIOUS
  <2>2. /\ i \in 1..(j + 1) /\ (i > 1 => x[i - 1] = SP)
        /\ \A k \in i..j : x[k] # SP
    BY <1>1, <2>1, TokenStartIs
  <2>3. (i > 1 => z[i - 1] = SP) /\ \A k \in i..j : z[k] # SP
    <3>1. i > 1 => i - 1 \in 1..m
      BY <1>2, <2>2
    <3>2. \A k \in i..j : k \in 1..m
      BY <1>2, <2>2
    <3> QED
      BY <1>2, <2>2, <3>1, <3>2
  <2>4. TokenStart(z, j) = i
    <3>1. j \in 0..Len(z)
      BY <1>2
    <3> QED
      BY <1>2, <2>2, <2>3, <3>1, TokenStartUnique
  <2>5. SubSeq(z, i, j) = SubSeq(x, i, j)
    <3>1. i \in Nat /\ i >= 1 /\ j \in Nat /\ j <= Len(x) /\ j <= Len(z)
      BY <1>1, <1>2, <2>2
    <3>2. \A k \in i..j : k \in 1..m
      BY <1>1, <1>2, <3>1
    <3>3. \A k \in i..j : z[k] = x[k]
      BY <1>2, <3>2
    <3> QED
      BY <1>2, <3>1, <3>3
  <2> QED
    BY <2>1, <2>4, <2>5 DEF Token
<1>4. PICK cx : cx = Cut(x)
  OBVIOUS
<1>5. PICK cz : cz = Cut(z)
  OBVIOUS
<1>6. /\ cx[0] = <<>> /\ cz[0] = <<>>
      /\ \A j \in 1..m : cx[j] = IF x[j] = SP THEN Append(cx[j - 1], Token(x, j - 1))
                                             ELSE cx[j - 1]
      /\ \A j \in 1..Len(z) : cz[j] = IF z[j] = SP THEN Append(cz[j - 1], Token(z, j - 1))
                                                  ELSE cz[j - 1]
  BY <1>1, <1>2, <1>4, <1>5, CutIs
<1>7. cz[m] = cx[m]
  <2> DEFINE Bad == {j \in 0..m : cz[j] # cx[j]}
  <2> SUFFICES ASSUME Bad # {} PROVE FALSE
    BY <1>2
  <2>1. Bad \subseteq Nat
    OBVIOUS
  <2>2. PICK j \in Bad : \A k \in Bad : j <= k
    BY <2>1, Least
  <2>3. j \in 1..m /\ cz[j] # cx[j]
    BY <1>6, <2>2
  <2>4. j - 1 \in 0..m /\ ~(j <= j - 1)
    BY <1>2, <2>3
  <2>5. cz[j - 1] = cx[j - 1] /\ Token(z, j - 1) = Token(x, j - 1)
    BY <1>3, <2>2, <2>4
  <2>6. z[j] = x[j] /\ j \in 1..Len(z)
    BY <1>2, <2>3
  <2> QED
    BY <1>6, <2>3, <2>5, <2>6
<1>8. (m + 1) - 1 = m /\ m \in 0..m
  BY <1>2
<1>9. cz[m + 1] = Append(cx[m], Token(x, m))
  BY <1>2, <1>3, <1>6, <1>7, <1>8
<1> QED
  BY <1>1, <1>4, <1>5, <1>9 DEF Tokens

\* The tokens before a separator are the first of all tokens; what comes after
\* it is one more if it has no separator.
Longer(c, d) == Len(d) > Len(c) /\ \A i \in 1..Len(c) : d[i] = c[i]

LEMMA SpacedTokens ==
  ASSUME NEW x \in Seq(Byte), NEW y \in Seq(Byte), x # <<>>
  PROVE  /\ Longer(Tokens(x), Tokens(x \o <<SP>> \o y))
         /\ (\A i \in 1..Len(y) : y[i] # SP)
              => Tokens(x \o <<SP>> \o y) = Append(Tokens(x), y)
<1>1. PICK z : z = x \o <<SP>> \o y
  OBVIOUS
<1>2. PICK m : m = Len(x)
  OBVIOUS
<1>3. PICK n : n = Len(z)
  OBVIOUS
<1>4. Spaced(x, y, z)
  BY <1>1, SpacedIs
<1>5. /\ m \in Nat /\ n \in Nat /\ z \in Seq(Byte) /\ m + 1 \in 1..n /\ z # <<>>
      /\ z[m + 1] = SP /\ n = m + 1 + Len(y)
      /\ \A i \in 1..Len(y) : z[m + 1 + i] = y[i]
  BY <1>2, <1>3, <1>4 DEF Spaced
<1>6. PICK c : c = Tokens(x)
  OBVIOUS
<1>7. PICK cz : cz = Cut(z)
  OBVIOUS
<1>8. c \in Seq(Seq(Byte)) /\ cz[m + 1] = c
  BY <1>2, <1>4, <1>6, <1>7, SpacedCut, FirstToken
<1>9. \A j \in 1..n : cz[j] = IF z[j] = SP THEN Append(cz[j - 1], Token(z, j - 1))
                                           ELSE cz[j - 1]
  BY <1>3, <1>5, <1>7, CutIs
<1> DEFINE Goes(d) == /\ d \in Seq(Seq(Byte)) /\ Len(d) >= Len(c)
                      /\ \A i \in 1..Len(c) : d[i] = c[i]
                      /\ (\A i \in 1..Len(y) : y[i] # SP) => d = c
<1>10. Goes(cz[n])
  <2> DEFINE Bad == {j \in (m + 1)..n : ~Goes(cz[j])}
  <2>0. n \in (m + 1)..n
    BY <1>5
  <2> SUFFICES ASSUME Bad # {} PROVE FALSE
    <3> HIDE DEF Goes
    <3> QED
      BY <2>0
  <2>1. Bad \subseteq Nat
    BY <1>5
  <2>2. PICK j \in Bad : \A k \in Bad : j <= k
    BY <2>1, Least
  <2>3. j \in (m + 1)..n /\ ~Goes(cz[j])
    BY <2>2
  <2>4. j # m + 1
    BY <1>8, <2>3
  <2>5. /\ j \in 1..n /\ j - 1 \in (m + 1)..n /\ ~(j <= j - 1) /\ j - 1 \in 0..Len(z)
        /\ j - (m + 1) \in 1..Len(y) /\ m + 1 + (j - (m + 1)) = j
    BY <1>3, <1>5, <2>3, <2>4
  <2>6. PICK d : d = cz[j - 1]
    OBVIOUS
  <2>7. Goes(d)
    BY <2>2, <2>5, <2>6
  <2>8. PICK w : w = Token(z, j - 1)
    OBVIOUS
  <2>9. w \in Seq(Byte)
    BY <1>5, <2>5, <2>8, TokenSteps
  <2>10. z[j] = y[j - (m + 1)]
    BY <1>5, <2>5
  <2>11. CASE z[j] = SP
    <3>1. cz[j] = Append(d, w)
      BY <1>9, <2>5, <2>6, <2>8, <2>11
    <3>2. PICK e : e = Append(d, w)
      OBVIOUS
    <3>3. /\ e \in Seq(Seq(Byte)) /\ Len(e) = Len(d) + 1
          /\ \A i \in 1..Len(d) : e[i] = d[i]
      BY <2>7, <2>9, <3>2
    <3>4. Len(c) \in Nat /\ Len(d) \in Nat /\ Len(d) >= Len(c)
      BY <1>8, <2>7
    <3>5. Len(e) >= Len(c) /\ \A i \in 1..Len(c) : i \in 1..Len(d)
      BY <3>3, <3>4
    <3>6. \A i \in 1..Len(c) : e[i] = c[i]
      BY <2>7, <3>3, <3>5
    <3>7. ~(\A i \in 1..Len(y) : y[i] # SP)
      BY <2>5, <2>10, <2>11
    <3> QED
      BY <2>3, <3>1, <3>2, <3>3, <3>5, <3>6, <3>7
  <2>12. CASE z[j] # SP
    BY <1>9, <2>3, <2>5, <2>6, <2>7, <2>12
  <2> QED
    BY <2>11, <2>12
<1>11. PICK d : d = cz[n]
  OBVIOUS
<1>12. PICK w : w = Token(z, n)
  OBVIOUS
<1>13. w \in Seq(Byte)
  <2>1. n \in 0..Len(z)
    BY <1>3, <1>5
  <2> QED
    BY <1>5, <1>12, <2>1, TokenSteps
<1>14. Tokens(z) = Append(d, w)
  BY <1>3, <1>5, <1>7, <1>11, <1>12 DEF Tokens
<1>15. PICK e : e = Append(d, w)
  OBVIOUS
<1>16. Longer(c, e)
  <2>1. /\ d \in Seq(Seq(Byte)) /\ Len(d) >= Len(c) /\ Len(c) \in Nat
        /\ \A i \in 1..Len(c) : d[i] = c[i]
    BY <1>8, <1>10, <1>11
  <2>2. Len(e) = Len(d) + 1 /\ Len(d) \in Nat /\ \A i \in 1..Len(d) : e[i] = d[i]
    BY <1>13, <1>15, <2>1
  <2>3. Len(e) > Len(c) /\ \A i \in 1..Len(c) : i \in 1..Len(d)
    BY <2>1, <2>2
  <2> QED
    BY <2>1, <2>2, <2>3 DEF Longer
<1>17. ASSUME \A i \in 1..Len(y) : y[i] # SP
       PROVE  d = c /\ w = y
  <2>1. d = c
    BY <1>10, <1>11, <1>17
  <2>2. m + 2 \in 1..(n + 1) /\ m + 2 > 1 /\ (m + 2) - 1 = m + 1 /\ n \in 0..Len(z)
    BY <1>3, <1>5
  <2>3. \A k \in (m + 2)..n : z[k] # SP
    <3> SUFFICES ASSUME NEW k \in (m + 2)..n PROVE z[k] # SP
      OBVIOUS
    <3>1. k - (m + 1) \in 1..Len(y) /\ m + 1 + (k - (m + 1)) = k
      BY <1>5
    <3>2. z[k] = y[k - (m + 1)]
      BY <1>5, <3>1
    <3> QED
      BY <1>17, <3>1, <3>2
  <2>4. TokenStart(z, n) = m + 2
    BY <1>5, <2>2, <2>3, TokenStartUnique
  <2>5. SubSeq(z, m + 2, n) = y
    <3>0. PICK k : k = m + 2
      OBVIOUS
    <3>1. PICK v : v = SubSeq(z, k, n)
      OBVIOUS
    <3>2. /\ v \in Seq(Byte) /\ Len(v) = n - (m + 1)
          /\ \A i \in 1..Len(v) : v[i] = z[m + 1 + i]
      <4>1. /\ \A i \in 1..(n - (m + 1)) : (k + i) - 1 = m + 1 + i
            /\ (n - k) + 1 = n - (m + 1) /\ k \in Nat \ {0} /\ k <= n + 1 /\ n <= Len(z)
        BY <1>3, <1>5, <3>0
      <4>2. /\ v \in Seq(Byte) /\ Len(v) = (n - k) + 1
            /\ \A i \in 1..((n - k) + 1) : v[i] = z[(k + i) - 1]
        BY <1>5, <3>1, <4>1, PartIs
      <4> QED
        BY <4>1, <4>2
    <3>3. Len(v) = Len(y) /\ \A i \in 1..Len(y) : v[i] = y[i]
      BY <1>5, <3>2
    <3>4. v = y
      BY <3>2, <3>3
    <3> QED
      BY <3>0, <3>1, <3>4
  <2> QED
    BY <1>12, <2>1, <2>4, <2>5 DEF Token
<1> QED
  BY <1>1, <1>6, <1>14, <1>15, <1>16, <1>17

----------------------------------------------------------------------------
(* Trimming *)

\* What is left begins and ends with another byte; a string that does is left.
Neat(t) == t[1] \notin {SP, NUL} /\ t[Len(t)] \notin {SP, NUL}

LEMMA TrimmedNeat ==
  ASSUME NEW t \in Seq(Byte)
  PROVE  /\ Trimmed(t) # <<>> => Neat(Trimmed(t))
         /\ t # <<>> /\ Neat(t) => Trimmed(t) = t
<1> DEFINE kept == {i \in DOMAIN t : t[i] \notin {SP, NUL}}
           First(i) == \A j \in kept : i <= j
           Final(i) == \A j \in kept : i >= j
<1>1. Len(t) \in Nat /\ DOMAIN t = 1..Len(t) /\ kept \subseteq 1..Len(t) /\ kept \subseteq Nat
  OBVIOUS
<1>2. CASE kept = {}
  <2>1. Trimmed(t) = <<>>
    BY <1>2 DEF Trimmed
  <2>2. t # <<>> => ~Neat(t)
    BY <1>1, <1>2 DEF Neat
  <2> QED
    BY <2>1, <2>2
<1>3. CASE kept # {}
  <2>1. \E i \in kept : First(i)
    BY <1>1, <1>3, Least
  <2>2. \E i \in kept : Final(i)
    <3> DEFINE ends == {Len(t) - i : i \in kept}
    <3>1. ends \subseteq Nat /\ ends # {}
      BY <1>1, <1>3
    <3>2. PICK e \in ends : \A f \in ends : e <= f
      BY <3>1, Least
    <3>3. PICK i \in kept : e = Len(t) - i
      BY <3>2
    <3>4. ASSUME NEW j \in kept PROVE i >= j
      <4>1. e <= Len(t) - j
        BY <3>2
      <4> QED
        BY <3>3, <4>1, <1>1
    <3> QED
      BY <3>4
  <2>3. PICK a : a = CHOOSE i \in kept : First(i)
    OBVIOUS
  <2>4. PICK b : b = CHOOSE i \in kept : Final(i)
    OBVIOUS
  <2>5. Trimmed(t) = SubSeq(t, a, b)
    BY <1>3, <2>3, <2>4 DEF Trimmed
  <2>6. a \in kept /\ First(a) /\ b \in kept /\ Final(b)
    BY <2>1, <2>2, <2>3, <2>4
  <2>7. a \in 1..Len(t) /\ b \in 1..Len(t) /\ a <= b
    BY <1>1, <2>6
  <2>8. Neat(SubSeq(t, a, b))
    <3>1. PICK s : s = SubSeq(t, a, b)
      OBVIOUS
    <3>2. Len(s) = (b - a) + 1 /\ \A i \in 1..((b - a) + 1) : s[i] = t[(a + i) - 1]
      BY <1>1, <2>7, <3>1
    <3>3. /\ (a + 1) - 1 = a /\ (a + ((b - a) + 1)) - 1 = b
          /\ 1 \in 1..((b - a) + 1) /\ (b - a) + 1 \in 1..((b - a) + 1)
      BY <1>1, <2>7
    <3>4. s[1] = t[a] /\ s[Len(s)] = t[b]
      BY <3>2, <3>3
    <3> QED
      BY <2>6, <3>1, <3>4 DEF Neat
  <2>9. ASSUME t # <<>>, Neat(t) PROVE a = 1 /\ b = Len(t)
    <3>1. 1 \in kept /\ Len(t) \in kept
      BY <1>1, <2>9 DEF Neat
    <3>2. a <= 1 /\ b >= Len(t)
      BY <2>6, <3>1
    <3>3. a \in Nat /\ b \in Nat /\ Len(t) \in Nat /\ 1 <= a /\ b <= Len(t)
      BY <1>1, <2>7
    <3> HIDE DEF kept
    <3> QED
      BY <3>2, <3>3
  <2>10. SubSeq(t, 1, Len(t)) = t
    OBVIOUS
  <2> QED
    BY <2>5, <2>8, <2>9, <2>10
<1> QED
  BY <1>2, <1>3
============================================================================
