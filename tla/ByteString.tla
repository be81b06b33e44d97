----------------------------- MODULE ByteString -----------------------------
(***************************************************************************)
(* What the server takes an sds string to be: its text, which grows at the *)
(* end, is trimmed, and is cut into tokens; nothing else changes it.       *)
(***************************************************************************)
EXTENDS Strings

CONSTANT NULL   \* no string

VARIABLE text

BInit == text = NULL

BNew(t)  == text = NULL /\ text' = t
BFree    == text # NULL /\ text' = NULL
BAppend(t) == text # NULL /\ text' = text \o t

BTrim == text # NULL /\ text' = Trimmed(text)

BNext ==
  \/ \E t \in Seq(Byte) : BNew(t)
  \/ \E t \in Seq(Char) : BAppend(t)
  \/ BTrim \/ BFree

BSpec == BInit /\ [][BNext]_text
============================================================================
