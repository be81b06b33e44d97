------------------------------ MODULE Message ------------------------------
(***************************************************************************)
(* src/src/commands/message.c, as far as its handlers hold ctx->lock or    *)
(* change what other threads see.                                          *)
(***************************************************************************)
EXTENDS Context

\* command_notice to an existing channel: the handler returns from inside
\* the critical section, member or not.
NoticeChannel(u, n) ==
  /\ Dispatch(u, "NOTICE") /\ lock = NULL
  /\ HashFind(n) # {}
  /\ lock' = u
  /\ UNCHANGED <<proc, ctx, table, channels, user, pc, loc, announced>>

\* command_lusers, run at the end of a registration.
Lusers(u) ==
  /\ At(u, "lusers") /\ lock = NULL
  /\ Return(u)
  /\ UNCHANGED <<proc, lock, ctx, table, channels, user, announced>>

MessageInput(u) == \E n \in ChanName : NoticeChannel(u, n)
MessageStep(u) == Lusers(u)
============================================================================
