------------------------------ MODULE Strings ------------------------------
(***************************************************************************)
(* Sequences of bytes, and the functions on them that the parser is built  *)
(* from, by their results.  Sds shows how the library computes them.       *)
(***************************************************************************)
EXTENDS Integers, Sequences, SequencesExt

CONSTANTS
  Char,   \* characters
  NUL,    \* the byte that ends a C string
  SP      \* the character that separates tokens and is trimmed

Byte == Char \cup {NUL}

ASSUME StringBytes == SP \in Char /\ NUL \notin Char

\* What a function that takes a C string sees of bytes.
CString(t) ==
  LET n == CHOOSE n \in 0..Len(t) : /\ \A i \in 1..n : t[i] # NUL
                                    /\ n < Len(t) => t[n + 1] = NUL
  IN  SubSeq(t, 1, n)

\* sdstrim(t, " "): strchr finds the terminator of the set of characters too,
\* so NUL bytes at the ends go as well.
Trimmed(t) ==
  LET kept == {i \in DOMAIN t : t[i] \notin {SP, NUL}}
  IN  IF kept = {} THEN <<>>
      ELSE SubSeq(t, CHOOSE i \in kept : \A j \in kept : i <= j,
                     CHOOSE i \in kept : \A j \in kept : i >= j)

\* sdssplitlen(t, Len(t), " ", 1): the tokens between the separators.
\* Cut(t)[j] are those that end at one of the first j bytes; the next starts
\* at TokenStart(t, j), after the last separator among them.
TokenStart(t, j) ==
  CHOOSE i \in 1..(j + 1) : /\ i > 1 => t[i - 1] = SP
                            /\ \A k \in i..j : t[k] # SP
Token(t, j) == SubSeq(t, TokenStart(t, j), j)
Cut(t) ==
  LET cut[j \in 0..Len(t)] ==
        IF j = 0 THEN <<>>
        ELSE IF t[j] = SP THEN Append(cut[j - 1], Token(t, j - 1))
        ELSE cut[j - 1]
  IN  cut
Tokens(t) ==
  IF t = <<>> THEN <<>> ELSE Append(Cut(t)[Len(t)], Token(t, Len(t)))
============================================================================
