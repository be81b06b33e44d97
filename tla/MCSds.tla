------------------------------- MODULE MCSds -------------------------------
(***************************************************************************)
(* An instance of Sds for TLC: all strings of at most two bytes are      *)
(* appended to strings of at most MaxText, which passes every limit.       *)
(***************************************************************************)
EXTENDS Sds

MCLimits == <<2, 3, 6>>
MCPieces == {<<>>} \cup [1..1 -> Byte] \cup [1..2 -> Byte]
============================================================================
