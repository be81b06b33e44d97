---------------------------- MODULE CommonLemmas ----------------------------
(***************************************************************************)
(* What the proofs of several components rest on: a set of numbers has a   *)
(* least, which stands for induction; a recursive function exists; and     *)
(* what FlattenSeq computes.                                               *)
(***************************************************************************)
EXTENDS Integers, SequencesExt, WellFoundedInduction, TLAPS

\* Every nonempty set of numbers has a least element.
LEMMA Least ==
  ASSUME NEW S, S \subseteq Nat, S # {}
  PROVE  \E d \in S : \A e \in S : d <= e
<1> DEFINE R == {p \in Nat \X Nat : p[1] < p[2]}
<1>1. IsWellFoundedOn(R, Nat)
  BY NatLessThanWellFounded, Zenon DEF OpToRel
<1>2. \A a, b \in Nat : a < b => <<a, b>> \in R
  OBVIOUS
<1> HIDE DEF R
<1>3. PICK d \in S : \A e \in S : ~(<<e, d>> \in R)
  BY <1>1, WFMin
<1>4. ASSUME NEW e \in S PROVE d <= e
  <2>1. d \in Nat /\ e \in Nat /\ ~(e < d)
    BY <1>2, <1>3
  <2> QED
    BY <2>1
<1> QED
  BY <1>4

----------------------------------------------------------------------------
(* Recursive functions *)

\* There is a function that starts at a value and goes on step by step.
Stepwise(f, n, base, step) ==
  f[0] = base /\ \A j \in 1..n : f[j] = step[j][f[j - 1]]

LEMMA Recursion ==
  ASSUME NEW V, NEW n \in Nat, NEW base \in V, NEW step \in [1..n -> [V -> V]]
  PROVE  \E f \in [0..n -> V] : Stepwise(f, n, base, step)
<1> DEFINE Is(f, m) == /\ f \in [0..m -> V] /\ f[0] = base
                       /\ \A j \in 1..m : f[j] = step[j][f[j - 1]]
           Missing == {m \in 0..n : ~\E f : Is(f, m)}
<1>1. Missing = {}
  <2> SUFFICES ASSUME Missing # {} PROVE FALSE
    OBVIOUS
  <2>1. PICK m \in Missing : \A i \in Missing : m <= i
    <3>1. Missing \subseteq Nat
      OBVIOUS
    <3> HIDE DEF Missing
    <3> QED
      BY <3>1, Least
  <2>2. m # 0
    <3>1. Is([j \in 0..0 |-> base], 0)
      OBVIOUS
    <3> QED
      BY <2>1, <3>1
  <2>3. m \in 1..n /\ m - 1 \in 0..n /\ m - 1 \notin Missing
    <3>1. m \in 0..n
      BY <2>1
    <3> HIDE DEF Missing
    <3> QED
      BY <2>1, <2>2, <3>1
  <2>4. PICK f : Is(f, m - 1)
    BY <2>3
  <2> DEFINE more == [j \in 0..m |-> IF j = m THEN step[m][f[m - 1]] ELSE f[j]]
  <2>5. f[m - 1] \in V /\ step[m] \in [V -> V] /\ step[m][f[m - 1]] \in V
    BY <2>3, <2>4
  <2>6. \A j \in 0..m : j # m => j \in 0..(m - 1) /\ more[j] = f[j]
    BY <2>3
  <2>7. more \in [0..m -> V]
    BY <2>4, <2>5, <2>6
  <2>8. ASSUME NEW j \in 1..m PROVE more[j] = step[j][more[j - 1]]
    <3>1. j - 1 \in 0..m /\ j - 1 # m /\ j \in 0..m
      BY <2>3
    <3>2. CASE j = m
      BY <2>3, <2>6, <3>1, <3>2
    <3>3. CASE j # m
      <4>1. j \in 1..(m - 1)
        BY <2>3, <3>3
      <4> QED
        BY <2>4, <2>6, <3>1, <3>3, <4>1
    <3> QED
      BY <3>2, <3>3
  <2>9. more[0] = base
    BY <2>3, <2>4, <2>6
  <2>10. Is(more, m)
    BY <2>7, <2>8, <2>9
  <2> QED
    BY <2>1, <2>10
<1>2. PICK f : Is(f, n)
  BY <1>1
<1> QED
  BY <1>2 DEF Stepwise

----------------------------------------------------------------------------
(* FlattenSeq *)

\* The concatenations FlattenSeq computes of the first i sequences.
Flat(s) == CHOOSE f : f = [i \in 1..Len(s) |-> IF i = 1 THEN s[i] ELSE f[i - 1] \o s[i]]

LEMMA FlatIs ==
  ASSUME NEW T, NEW s \in Seq(T)
  PROVE  Flat(s) = [i \in 1..Len(s) |-> IF i = 1 THEN s[i] ELSE Flat(s)[i - 1] \o s[i]]
<1> DEFINE Is(f, m) == f = [i \in 1..m |-> IF i = 1 THEN s[i] ELSE f[i - 1] \o s[i]]
           Missing == {m \in Nat : ~\E f : Is(f, m)}
<1>1. Missing = {}
  <2> SUFFICES ASSUME Missing # {} PROVE FALSE
    OBVIOUS
  <2>1. PICK m \in Missing : \A i \in Missing : m <= i
    BY Least
  <2>2. m # 0
    <3>1. Is([i \in 1..0 |-> s[i]], 0)
      OBVIOUS
    <3> QED
      BY <2>1, <3>1
  <2>3. m \in Nat /\ m - 1 \in Nat /\ m - 1 \notin Missing
    <3>1. m \in Nat
      BY <2>1
    <3> HIDE DEF Missing
    <3> QED
      BY <2>1, <2>2, <3>1
  <2>4. PICK f : Is(f, m - 1)
    BY <2>3
  <2> DEFINE more == [i \in 1..m |-> IF i = 1 THEN s[i] ELSE f[i - 1] \o s[i]]
  <2>5. ASSUME NEW i \in 1..(m - 1) PROVE more[i] = f[i]
    <3>1. i \in 1..m
      BY <2>3
    <3>2. more[i] = IF i = 1 THEN s[i] ELSE f[i - 1] \o s[i]
      BY <3>1
    <3>3. f[i] = IF i = 1 THEN s[i] ELSE f[i - 1] \o s[i]
      BY <2>4
    <3> QED
      BY <3>2, <3>3
  <2>6. ASSUME NEW i \in 1..m, i # 1 PROVE more[i - 1] = f[i - 1]
    <3>1. i - 1 \in 1..(m - 1)
      BY <2>3, <2>6
    <3> QED
      BY <2>5, <3>1
  <2>7. Is(more, m)
    BY <2>6
  <2> QED
    BY <2>1, <2>7
<1>2. Len(s) \in Nat
  OBVIOUS
<1>3. \E f : Is(f, Len(s))
  BY <1>1, <1>2
<1>4. Is(CHOOSE f : Is(f, Len(s)), Len(s))
  BY <1>3
<1>5. Flat(s) = CHOOSE f : Is(f, Len(s))
  BY DEF Flat
<1> HIDE DEF Is
<1>6. Is(Flat(s), Len(s))
  BY <1>4, <1>5
<1> QED
  BY <1>6 DEF Is

\* Step by step.
LEMMA FlatSteps ==
  ASSUME NEW T, NEW s \in Seq(T)
  PROVE  /\ Len(s) > 0 => Flat(s)[1] = s[1]
         /\ \A i \in 1..Len(s) : i # 1 => Flat(s)[i] = Flat(s)[i - 1] \o s[i]
<1> DEFINE f == Flat(s)
<1>1. f = [i \in 1..Len(s) |-> IF i = 1 THEN s[i] ELSE f[i - 1] \o s[i]]
  BY FlatIs
<1>2. Len(s) \in Nat
  OBVIOUS
<1> HIDE DEF f
<1>3. Len(s) > 0 => f[1] = s[1]
  BY <1>1, <1>2
<1>4. \A i \in 1..Len(s) : i # 1 => f[i] = f[i - 1] \o s[i]
  BY <1>1, <1>2
<1> QED
  BY <1>3, <1>4 DEF f

LEMMA FlatType ==
  ASSUME NEW B, NEW s \in Seq(Seq(B))
  PROVE  \A i \in 1..Len(s) : Flat(s)[i] \in Seq(B)
<1> DEFINE Bad == {i \in 1..Len(s) : Flat(s)[i] \notin Seq(B)}
<1> SUFFICES ASSUME Bad # {} PROVE FALSE
  OBVIOUS
<1>1. PICK i \in Bad : \A j \in Bad : i <= j
  <2>1. Bad \subseteq Nat
    OBVIOUS
  <2> QED
    BY <2>1, Least
<1>2. i \in 1..Len(s) /\ s[i] \in Seq(B) /\ Flat(s)[i] \notin Seq(B)
  BY <1>1
<1>3. i # 1
  <2>1. Len(s) > 0 => Flat(s)[1] = s[1]
    BY FlatSteps
  <2> QED
    BY <1>2, <2>1
<1>4. i - 1 \in 1..Len(s) /\ i - 1 \notin Bad
  BY <1>1, <1>2, <1>3
<1>5. Flat(s)[i] = Flat(s)[i - 1] \o s[i]
  BY <1>2, <1>3, FlatSteps
<1> QED
  BY <1>2, <1>4, <1>5

\* One sequence more changes nothing of the others.
LEMMA FlatAppend ==
  ASSUME NEW T, NEW s \in Seq(T), NEW x \in T
  PROVE  \A i \in 1..Len(s) : Flat(Append(s, x))[i] = Flat(s)[i]
<1> DEFINE t == Append(s, x)
           Differ == {i \in 1..Len(s) : Flat(t)[i] # Flat(s)[i]}
<1>1. /\ t \in Seq(T) /\ Len(t) = Len(s) + 1 /\ Len(s) \in Nat
      /\ \A i \in 1..Len(s) : t[i] = s[i]
  OBVIOUS
<1> HIDE DEF t
<1> SUFFICES ASSUME Differ # {} PROVE FALSE
  BY DEF t
<1>2. PICK i \in Differ : \A j \in Differ : i <= j
  <2>1. Differ \subseteq Nat
    OBVIOUS
  <2> QED
    BY <2>1, Least
<1>3. i \in 1..Len(s) /\ i \in 1..Len(t)
  BY <1>1, <1>2
<1>4. i # 1
  <2>1. Len(s) > 0 => Flat(s)[1] = s[1]
    BY FlatSteps
  <2>2. Len(t) > 0 => Flat(t)[1] = t[1]
    BY <1>1, FlatSteps
  <2> QED
    BY <1>1, <1>2, <1>3, <2>1, <2>2
<1>5. i - 1 \in 1..Len(s) /\ i - 1 \notin Differ
  BY <1>2, <1>3, <1>4
<1>6. Flat(s)[i] = Flat(s)[i - 1] \o s[i] /\ Flat(t)[i] = Flat(t)[i - 1] \o t[i]
  BY <1>1, <1>3, <1>4, FlatSteps
<1> QED
  BY <1>1, <1>2, <1>3, <1>5, <1>6

\* What FlattenSeq makes of some sequences and one more.
LEMMA Flattened ==
  ASSUME NEW B, NEW s \in Seq(Seq(B)), NEW x \in Seq(B)
  PROVE  /\ FlattenSeq(s) \in Seq(B)
         /\ FlattenSeq(Append(s, x)) = FlattenSeq(s) \o x
<1> DEFINE t == Append(s, x)
           n == Len(s)
<1>1. /\ t \in Seq(Seq(B)) /\ Len(t) = n + 1 /\ n \in Nat /\ t[n + 1] = x
  OBVIOUS
<1>2. /\ FlattenSeq(s) = IF n = 0 THEN s ELSE Flat(s)[n]
      /\ FlattenSeq(t) = IF Len(t) = 0 THEN t ELSE Flat(t)[Len(t)]
  BY DEF FlattenSeq, Flat
<1>3. \A i \in 1..n : Flat(s)[i] \in Seq(B) /\ Flat(t)[i] = Flat(s)[i]
  BY FlatType, FlatAppend
<1>4. /\ Flat(t)[1] = t[1]
      /\ n + 1 # 1 => Flat(t)[n + 1] = Flat(t)[(n + 1) - 1] \o t[n + 1]
  <2>1. n + 1 \in 1..Len(t) /\ Len(t) > 0
    BY <1>1
  <2> HIDE DEF t, n
  <2> QED
    BY <1>1, <2>1, FlatSteps
<1>5. CASE n = 0
  <2>1. s = <<>> /\ FlattenSeq(s) = <<>>
    BY <1>2, <1>5
  <2>2. FlattenSeq(t) = x
    BY <1>1, <1>2, <1>4, <1>5
  <2>3. <<>> \o x = x /\ <<>> \in Seq(B)
    OBVIOUS
  <2> HIDE DEF n
  <2> QED
    BY <2>1, <2>2, <2>3
<1>6. CASE n # 0
  <2>1. n \in 1..n /\ (n + 1) - 1 = n /\ n + 1 # 1 /\ n + 1 # 0
    BY <1>1, <1>6
  <2> HIDE DEF n, t
  <2>2. FlattenSeq(s) = Flat(s)[n] /\ FlattenSeq(t) = Flat(t)[n + 1]
    BY <1>1, <1>2, <1>6, <2>1
  <2>3. FlattenSeq(t) = FlattenSeq(s) \o x
    BY <1>1, <1>3, <1>4, <2>1, <2>2
  <2>4. FlattenSeq(s) \in Seq(B)
    BY <1>3, <2>1, <2>2
  <2> QED
    BY <2>3, <2>4 DEF t
<1> QED
  BY <1>5, <1>6

\* The elements of a concatenation.
LEMMA ConcatElements ==
  ASSUME NEW B, NEW r \in Seq(B), NEW s \in Seq(B)
  PROVE  /\ Range(r \o s) = Range(r) \cup Range(s)
         /\ IsInjective(r) /\ IsInjective(s) /\ Range(r) \cap Range(s) = {}
              => IsInjective(r \o s)
<1> DEFINE t == r \o s
           m == Len(r)
           n == Len(s)
<1>1. /\ m \in Nat /\ n \in Nat /\ DOMAIN r = 1..m /\ DOMAIN s = 1..n
      /\ DOMAIN t = 1..(m + n)
      /\ \A i \in 1..(m + n) : t[i] = IF i <= m THEN r[i] ELSE s[i - m]
  OBVIOUS
<1> HIDE DEF t, m, n
<1>2. ASSUME NEW i \in 1..(m + n)
      PROVE  \/ i \in 1..m /\ t[i] = r[i]
             \/ i - m \in 1..n /\ t[i] = s[i - m] /\ i > m
  <2>1. i <= m \/ (i > m /\ i - m \in 1..n /\ i \in Nat)
    BY <1>1
  <2> QED
    BY <1>1, <2>1
<1>3. \A i \in 1..m : i \in 1..(m + n) /\ t[i] = r[i]
  BY <1>1
<1>4. ASSUME NEW i \in 1..n PROVE m + i \in 1..(m + n) /\ t[m + i] = s[i]
  <2>1. m + i \in 1..(m + n) /\ ~(m + i <= m) /\ (m + i) - m = i
    BY <1>1
  <2> QED
    BY <1>1, <2>1
<1>5. Range(t) = Range(r) \cup Range(s)
  <2>1. ASSUME NEW x \in Range(t) PROVE x \in Range(r) \cup Range(s)
    <3>1. PICK i \in 1..(m + n) : x = t[i]
      BY <1>1 DEF Range
    <3> QED
      BY <1>1, <1>2, <3>1 DEF Range
  <2>2. ASSUME NEW x \in Range(r) \cup Range(s) PROVE x \in Range(t)
    <3>1. (\E i \in 1..m : x = r[i]) \/ (\E i \in 1..n : x = s[i])
      BY <1>1 DEF Range
    <3>2. \E i \in 1..(m + n) : x = t[i]
      BY <1>3, <1>4, <3>1
    <3> QED
      BY <1>1, <3>2 DEF Range
  <2> QED
    BY <2>1, <2>2
<1>6. ASSUME IsInjective(r), IsInjective(s), Range(r) \cap Range(s) = {},
             NEW i \in 1..(m + n), NEW j \in 1..(m + n), t[i] = t[j]
      PROVE  i = j
  <2>1. \A k \in 1..m : r[k] \in Range(r)
    BY <1>1 DEF Range
  <2>2. \A k \in 1..n : s[k] \in Range(s)
    BY <1>1 DEF Range
  <2>3. CASE i \in 1..m /\ j \in 1..m
    BY <1>1, <1>3, <1>6, <2>3 DEF IsInjective
  <2>4. CASE i > m /\ j > m
    <3>1. i - m \in 1..n /\ j - m \in 1..n /\ s[i - m] = s[j - m]
      BY <1>1, <1>2, <1>6, <2>4
    <3>2. i - m = j - m
      BY <1>1, <1>6, <3>1 DEF IsInjective
    <3> QED
      BY <1>1, <3>2
  <2>5. CASE i \in 1..m /\ j > m
    BY <1>1, <1>2, <1>6, <2>1, <2>2, <2>5
  <2>6. CASE i > m /\ j \in 1..m
    BY <1>1, <1>2, <1>6, <2>1, <2>2, <2>6
  <2>7. (i \in 1..m \/ i > m) /\ (j \in 1..m \/ j > m)
    BY <1>2
  <2> QED
    BY <2>3, <2>4, <2>5, <2>6, <2>7
<1> QED
  BY <1>1, <1>5, <1>6 DEF IsInjective, t

\* FlattenSeq keeps all elements, and has none twice if the sequences do not.
LEMMA FlatElements ==
  ASSUME NEW B, NEW s \in Seq(Seq(B)),
         \A i \in 1..Len(s) : IsInjective(s[i]),
         \A i, j \in 1..Len(s) : i # j => Range(s[i]) \cap Range(s[j]) = {}
  PROVE  /\ FlattenSeq(s) \in Seq(B) /\ IsInjective(FlattenSeq(s))
         /\ Range(FlattenSeq(s)) = UNION {Range(s[i]) : i \in 1..Len(s)}
<1> DEFINE f == Flat(s)
           n == Len(s)
           Upto(i) == UNION {Range(s[j]) : j \in 1..i}
           Bad == {i \in 1..n : ~(IsInjective(f[i]) /\ Range(f[i]) = Upto(i))}
<1>1. n \in Nat /\ \A i \in 1..n : s[i] \in Seq(B) /\ f[i] \in Seq(B)
  BY FlatType
<1>2. /\ n > 0 => f[1] = s[1]
      /\ \A i \in 1..n : i # 1 => f[i] = f[i - 1] \o s[i]
  BY FlatSteps
<1>3. FlattenSeq(s) = IF n = 0 THEN s ELSE f[n]
  BY DEF FlattenSeq, Flat
<1> HIDE DEF f, n
<1>4. Bad = {}
  <2> SUFFICES ASSUME Bad # {} PROVE FALSE
    OBVIOUS
  <2>1. PICK i \in Bad : \A j \in Bad : i <= j
    <3>1. Bad \subseteq Nat
      BY <1>1
    <3> QED
      BY <3>1, Least
  <2>2. i \in 1..n /\ ~(IsInjective(f[i]) /\ Range(f[i]) = Upto(i))
    BY <2>1
  <2>3. CASE i = 1
    <3>1. f[i] = s[1] /\ 1..i = {1}
      BY <1>1, <1>2, <2>2, <2>3
    <3> QED
      BY <2>2, <2>3, <3>1 DEF n
  <2>4. CASE i # 1
    <3>1. i - 1 \in 1..n /\ 1..i = (1..(i - 1)) \cup {i} /\ i \notin 1..(i - 1)
          /\ 1..(i - 1) \subseteq 1..n
      BY <1>1, <2>2, <2>4
    <3>2. IsInjective(f[i - 1]) /\ Range(f[i - 1]) = Upto(i - 1)
      <4>1. ~(i <= i - 1)
        BY <1>1, <2>2
      <4> QED
        BY <2>1, <3>1, <4>1
    <3>3. f[i] = f[i - 1] \o s[i] /\ f[i - 1] \in Seq(B) /\ s[i] \in Seq(B)
      BY <1>1, <1>2, <2>2, <2>4, <3>1
    <3>4. Upto(i) = Upto(i - 1) \cup Range(s[i])
      BY <3>1
    <3>5. Upto(i - 1) \cap Range(s[i]) = {} /\ IsInjective(s[i])
      <4>1. ASSUME NEW x \in Upto(i - 1) PROVE x \notin Range(s[i])
        <5>1. PICK j \in 1..(i - 1) : x \in Range(s[j])
          OBVIOUS
        <5>2. j \in 1..Len(s) /\ i \in 1..Len(s) /\ j # i
          BY <2>2, <3>1 DEF n
        <5>3. Range(s[j]) \cap Range(s[i]) = {}
          BY <5>2
        <5> QED
          BY <5>1, <5>3
      <4>2. IsInjective(s[i])
        BY <2>2 DEF n
      <4> QED
        BY <4>1, <4>2
    <3> HIDE DEF Upto
    <3> QED
      BY <2>2, <3>2, <3>3, <3>4, <3>5, ConcatElements
  <2> QED
    BY <2>3, <2>4
<1>5. CASE n = 0
  <2>1. s = <<>> /\ FlattenSeq(s) = <<>>
    BY <1>3, <1>5 DEF n
  <2>2. DOMAIN <<>> = {} /\ <<>> \in Seq(B) /\ 1..Len(s) = {}
    BY <1>5 DEF n
  <2>3. FlattenSeq(s) \in Seq(B) /\ DOMAIN FlattenSeq(s) = {}
    BY <2>1, <2>2
  <2> QED
    BY <2>2, <2>3 DEF IsInjective, Range
<1>6. CASE n # 0
  <2>1. n \in 1..n /\ FlattenSeq(s) = f[n]
    BY <1>1, <1>3, <1>6
  <2>2. IsInjective(f[n]) /\ Range(f[n]) = Upto(n) /\ f[n] \in Seq(B)
    BY <1>1, <1>4, <2>1
  <2> QED
    BY <2>1, <2>2 DEF n
<1> QED
  BY <1>5, <1>6
============================================================================
