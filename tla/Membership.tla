----------------------------- MODULE Membership -----------------------------
(***************************************************************************)
(* What the server promises about who is in which channel while nobody     *)
(* sends PART: a registered user joins channels, one at a time; QUIT takes *)
(* it out of every channel it is in, one at a time, before it is gone; and *)
(* nobody is taken out by the act of another.                              *)
(***************************************************************************)
CONSTANTS User, ChanName

VARIABLES
  stage,   \* of each user: "out", "in", "leaving", "gone"
  member   \* the <<user, channel name>> pairs

mvars == <<stage, member>>

MInit == stage \in [User -> {"out", "in"}] /\ member = {}

Move(u, from, to) == stage[u] = from /\ stage' = [stage EXCEPT ![u] = to]

Enter(u) == Move(u, "out", "in") /\ UNCHANGED member
Join(u, n) == /\ stage[u] = "in" /\ member' = member \cup {<<u, n>>}
              /\ UNCHANGED stage
Quit(u) == Move(u, "in", "leaving") /\ UNCHANGED member
Drop(u, n) == /\ stage[u] = "leaving" /\ member' = member \ {<<u, n>>}
              /\ UNCHANGED stage
Gone(u) == /\ \A n \in ChanName : <<u, n>> \notin member
           /\ Move(u, "leaving", "gone") /\ UNCHANGED member

MNext == \E u \in User :
  \/ Enter(u) \/ Quit(u) \/ Gone(u)
  \/ \E n \in ChanName : Join(u, n) \/ Drop(u, n)

MSpec == MInit /\ [][MNext]_mvars
============================================================================
