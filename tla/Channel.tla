------------------------------ MODULE Channel ------------------------------
(***************************************************************************)
(* src/src/commands/channel.c: JOIN, OPER, MODE, PART and LIST.  A channel *)
(* found in one section is used in later ones through the pointer kept in  *)
(* loc[u].here, whatever became of it in between.                          *)
(***************************************************************************)
EXTENDS Context

(* command_join: lookup and insertion are one critical section.  A channel *)
(* is never freed, so a new one is always a new object.                    *)

NewChannel(u, n) ==
  [channel_name |-> n, user_count |-> 1,
   channel_users |-> [i \in Slot |-> IF i = 0 THEN u ELSE NULL],
   operator_socket |-> user[u].client_socket, founder |-> u]

\* Mutant: the channel is created without looking it up.
JoinNew_Blind(u, n) ==
  /\ Dispatch(u, "JOIN") /\ lock = NULL
  /\ \E c \in Chan :
       /\ chan[c].channel_name = NULL
       /\ \A d \in Chan : d < c => chan[d].channel_name # NULL
       /\ chan' = [chan EXCEPT ![c] = NewChannel(u, n)]
       /\ linked' = linked \cup {c}
  /\ UNCHANGED <<proc, lock, ctx, table, hh_next, user, pc, loc, announced>>

JoinNew(u, n) ==
  /\ Dispatch(u, "JOIN") /\ lock = NULL
  /\ HashFind(n) = {}
  /\ \E c \in Chan :
       /\ chan[c].channel_name = NULL
       /\ \A d \in Chan : d < c => chan[d].channel_name # NULL
       /\ chan' = [chan EXCEPT ![c] = NewChannel(u, n)]
       /\ linked' = linked \cup {c}
  /\ UNCHANGED <<proc, lock, ctx, table, hh_next, user, pc, loc, announced>>

\* Mutant: the loop leaves out the last member.
SameNick_Short(c, u) ==
  \E i \in 0..(chan[c].user_count - 2) :
    user[chan[c].channel_users[i]].nickname = user[u].nickname

SameNick(c, u) ==
  \E v \in Members(c) : user[v].nickname = user[u].nickname

\* The new pointer goes into the slot user_count named before; a slot the
\* array does not have is heap memory beside it.
JoinMember(u, n) ==
  /\ Dispatch(u, "JOIN") /\ lock = NULL
  /\ \E c \in HashFind(n) :
       /\ ~SameNick(c, u)
       /\ chan[c].user_count < MaxSlot
       /\ chan' = [chan EXCEPT
            ![c].channel_users[chan[c].user_count] = u,
            ![c].user_count = @ + 1]
       /\ IF chan[c].user_count \in 0..(Capacity - 1) THEN UNCHANGED proc
                                                      ELSE proc' \in {Harmed, "dead"}
  /\ UNCHANGED <<lock, ctx, table, linked, hh_next, user, pc, loc, announced>>

\* A member of that nickname is there already: the handler returns from
\* inside the critical section.
JoinAgain(u, n) ==
  /\ Dispatch(u, "JOIN") /\ "REJOIN" \in Inputs /\ lock = NULL
  /\ \E c \in HashFind(n) : SameNick(c, u)
  /\ lock' = u
  /\ UNCHANGED <<proc, ctx, table, channels, user, pc, loc, announced>>

----------------------------------------------------------------------------
(* command_oper with the right password; a wrong one changes nothing.      *)

OperGrant(u) ==
  /\ Dispatch(u, "OPER") /\ lock = NULL
  /\ ctx.operators < MaxOper
  /\ ctx' = [ctx EXCEPT !.operators = @ + 1]
  /\ user' = [user EXCEPT ![u].is_operator = TRUE]
  /\ UNCHANGED <<proc, lock, table, channels, pc, loc, announced>>

----------------------------------------------------------------------------
(* command_mode.  The parser lets only the flag +o through, so the branch  *)
(* for other flags, which takes a lock already held, is never run.         *)

ModeFind(u, n, target) ==
  /\ Dispatch(u, "MODE") /\ lock = NULL
  /\ \E c \in HashFind(n) :          \* none: 403
       loc' = [loc EXCEPT ![u].here = c, ![u].nick = target]
  /\ Goto(u, "mode_member")
  /\ UNCHANGED <<proc, lock, ctx, table, channels, user, announced>>

\* Mutant: whoever is an operator need not be a member.
ModeMember_Oper(u) ==
  /\ At(u, "mode_member") /\ lock = NULL
  /\ IF u \in Members(loc[u].here) \/ user[u].is_operator
       THEN Goto(u, "mode_grant") /\ UNCHANGED loc ELSE Return(u)
  /\ UNCHANGED <<proc, lock, ctx, table, channels, user, announced>>

ModeMember(u) ==
  /\ At(u, "mode_member") /\ lock = NULL
  /\ IF u \in Members(loc[u].here)
       THEN Goto(u, "mode_grant") /\ UNCHANGED loc
       ELSE Return(u)                \* 441
  /\ UNCHANGED <<proc, lock, ctx, table, channels, user, announced>>

MayMode(c, u) ==
  chan[c].operator_socket = user[u].client_socket \/ user[u].is_operator

\* The change is relayed to every member; no state records it.
ModeGrant(u) ==
  LET c == loc[u].here
      n == loc[u].nick
  IN
  /\ At(u, "mode_grant") /\ lock = NULL
  /\ announced' = IF /\ MayMode(c, u)                             \* 482
                     /\ \E v \in Members(c) : user[v].nickname = n  \* 441
                    THEN {<<c, n>>} ELSE {}
  /\ Return(u)
  /\ UNCHANGED <<proc, lock, ctx, table, channels, user>>

----------------------------------------------------------------------------
(* command_part: the array is compacted in one section, the count lowered  *)
(* in a second, the empty channel removed in a third.                      *)

PartFind(u, n) ==
  /\ Dispatch(u, "PART") /\ lock = NULL
  /\ \E c \in HashFind(n) : loc' = [loc EXCEPT ![u].here = c]   \* none: 403
  /\ Goto(u, "part_shift")
  /\ UNCHANGED <<proc, lock, ctx, table, channels, user, announced>>

PartShift(u) ==
  LET c == loc[u].here IN
  /\ At(u, "part_shift") /\ lock = NULL
  /\ chan' = [chan EXCEPT ![c].channel_users = Shifted(c, u)]
  /\ IF u \in Members(c) THEN Goto(u, "part_leave") /\ UNCHANGED loc
                         ELSE Return(u)                         \* 442
  /\ UNCHANGED <<proc, lock, ctx, table, linked, hh_next, user, announced>>

PartLeave(u) ==
  LET c == loc[u].here IN
  /\ At(u, "part_leave") /\ lock = NULL
  /\ chan[c].user_count > -MaxSlot
  /\ chan' = [chan EXCEPT
       ![c].channel_users = Cut(@, chan[c].user_count - 1),
       ![c].user_count = @ - 1]
  /\ Goto(u, "part_delete")
  /\ UNCHANGED <<proc, lock, ctx, table, linked, hh_next, user, loc, announced>>

\* Mutant: the channel goes with its last member but one.
PartDelete_Early(u) ==
  LET c == loc[u].here IN
  /\ At(u, "part_delete") /\ lock = NULL
  /\ IF chan[c].user_count \in {0, 1} THEN Unlink(c)
                                     ELSE UNCHANGED <<proc, linked, hh_next>>
  /\ Return(u)
  /\ UNCHANGED <<lock, ctx, table, chan, user, announced>>

PartDelete(u) ==
  LET c == loc[u].here IN
  /\ At(u, "part_delete") /\ lock = NULL
  /\ IF chan[c].user_count = 0 THEN Unlink(c)
                               ELSE UNCHANGED <<proc, linked, hh_next>>
  /\ Return(u)
  /\ UNCHANGED <<lock, ctx, table, chan, user, announced>>

----------------------------------------------------------------------------
(* command_list of one channel dereferences what the lookup returned.      *)
(* LIST of an existing channel, or of all of them, changes nothing.        *)

ListMissing(u, n) ==
  /\ Dispatch(u, "LIST") /\ lock = NULL
  /\ HashFind(n) = {}
  /\ proc' = "dead"
  /\ UNCHANGED <<lock, ctx, table, channels, user, pc, loc, announced>>

----------------------------------------------------------------------------
ChannelInput(u) ==
  \/ \E n \in ChanName :
       \/ JoinNew(u, n) \/ JoinMember(u, n) \/ JoinAgain(u, n)
       \/ PartFind(u, n) \/ ListMissing(u, n)
       \/ \E target \in Nick : ModeFind(u, n, target)
  \/ OperGrant(u)
ChannelStep(u) ==
  \/ ModeMember(u) \/ ModeGrant(u)
  \/ PartShift(u) \/ PartLeave(u) \/ PartDelete(u)
============================================================================
