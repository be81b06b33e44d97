------------------------------ MODULE Register ------------------------------
(***************************************************************************)
(* src/src/commands/register.c: NICK, USER and QUIT.  Replies carry no     *)
(* state and are left out.                                                 *)
(***************************************************************************)
EXTENDS Context

(* command_nick.  The lookup of the wanted nickname, of the old one, the   *)
(* removal, the assignment and the insertion are separate steps: the lock  *)
(* is released between them.                                               *)

NickLookup(u, n) ==
  /\ Dispatch(u, "NICK") /\ lock = NULL
  /\ loc' = [loc EXCEPT ![u].nick = n, ![u].taken = InTable(n)]
  /\ Goto(u, "nick_count")
  /\ UNCHANGED <<proc, lock, ctx, table, channels, user, announced>>

\* Mutant: a refused NICK takes the connection out of active again.
NickCount_Uncount(u) ==
  /\ At(u, "nick_count")
  /\ user[u].comed \/ lock = NULL
  /\ user' = [user EXCEPT ![u].comed = TRUE]
  /\ ctx' = [ctx EXCEPT !.active = IF loc[u].taken THEN @ - 1
                                   ELSE IF user[u].comed THEN @ ELSE @ + 1]
  /\ IF loc[u].taken THEN Return(u)
                     ELSE Goto(u, "nick_old") /\ UNCHANGED loc
  /\ UNCHANGED <<proc, lock, table, channels, announced>>

NickCount(u) ==
  /\ At(u, "nick_count")
  /\ user[u].comed \/ lock = NULL
  /\ user' = [user EXCEPT ![u].comed = TRUE]
  /\ ctx' = [ctx EXCEPT !.active = IF user[u].comed THEN @ ELSE @ + 1]
  /\ IF loc[u].taken THEN Return(u)      \* 433
                     ELSE Goto(u, "nick_old") /\ UNCHANGED loc
  /\ UNCHANGED <<proc, lock, table, channels, announced>>

\* Mutant: the entry under the old nickname is left in the table.
NickFindOld_Keep(u) ==
  /\ At(u, "nick_old")
  /\ user[u].nickname = NULL \/ lock = NULL
  /\ Goto(u, "nick_assign")
  /\ UNCHANGED <<proc, lock, ctx, table, channels, user, loc, announced>>

NickFindOld(u) ==
  /\ At(u, "nick_old")
  /\ user[u].nickname = NULL \/ lock = NULL
  /\ Goto(u, IF user[u].nickname # NULL /\ InTable(user[u].nickname)
               THEN "nick_delete" ELSE "nick_assign")
  /\ UNCHANGED <<proc, lock, ctx, table, channels, user, loc, announced>>

\* The object removed is the caller's own, whoever the lookup found.
NickDelete(u) ==
  /\ At(u, "nick_delete") /\ lock = NULL
  /\ HashDelete(u)
  /\ Goto(u, "nick_assign")
  /\ UNCHANGED <<lock, ctx, channels, user, loc, announced>>

\* Mutant: only a registration inserts, a change of nickname does not.
NickAssign_FirstOnly(u) ==
  /\ At(u, "nick_assign")
  /\ user' = [user EXCEPT ![u].nickname = loc[u].nick]
  /\ IF user[u].username /\ ~user[u].registered
       THEN Goto(u, "nick_add") /\ UNCHANGED loc ELSE Return(u)
  /\ UNCHANGED <<proc, lock, ctx, table, channels, announced>>

NickAssign(u) ==
  /\ At(u, "nick_assign")
  /\ user' = [user EXCEPT ![u].nickname = loc[u].nick]
  /\ IF user[u].username THEN Goto(u, "nick_add") /\ UNCHANGED loc
                         ELSE Return(u)
  /\ UNCHANGED <<proc, lock, ctx, table, channels, announced>>

NickAdd(u) ==
  /\ At(u, "nick_add") /\ lock = NULL
  /\ HashAdd(u, user[u].nickname)
  /\ IF user[u].registered
       THEN Return(u) /\ UNCHANGED <<ctx, user>>
       ELSE /\ user' = [user EXCEPT ![u].registered = TRUE]
            /\ ctx' = [ctx EXCEPT !.num_connections = @ + 1]
            /\ Goto(u, "lusers") /\ UNCHANGED loc
  /\ UNCHANGED <<proc, lock, channels, announced>>

----------------------------------------------------------------------------
(* command_user.  It inserts without looking the nickname up, and counts   *)
(* the registration in a later section, after the welcome.                 *)

\* Mutant: USER counts the connection as active whether NICK did or not.
UserBegin_Recount(u) ==
  /\ Dispatch(u, "USER") /\ lock = NULL
  /\ user' = [user EXCEPT ![u].comed = TRUE,
                          ![u].username = @ \/ ~user[u].registered]
  /\ ctx' = [ctx EXCEPT !.active = @ + 1]
  /\ Goto(u, IF ~user[u].registered /\ user[u].nickname # NULL
               THEN "user_add" ELSE "recv")
  /\ UNCHANGED <<proc, lock, table, channels, loc, announced>>

UserBegin(u) ==
  /\ Dispatch(u, "USER") /\ lock = NULL
  /\ user' = [user EXCEPT ![u].comed = TRUE,
                          ![u].username = @ \/ ~user[u].registered]
  /\ ctx' = [ctx EXCEPT !.active = IF user[u].comed THEN @ ELSE @ + 1]
  /\ Goto(u, IF ~user[u].registered /\ user[u].nickname # NULL
               THEN "user_add" ELSE "recv")
  /\ UNCHANGED <<proc, lock, table, channels, loc, announced>>

UserAdd(u) ==
  /\ At(u, "user_add") /\ lock = NULL
  /\ HashAdd(u, user[u].nickname)
  /\ Goto(u, "user_welcome")
  /\ UNCHANGED <<proc, lock, ctx, channels, user, loc, announced>>

UserWelcome(u) ==
  /\ At(u, "user_welcome") /\ lock = NULL
  /\ user' = [user EXCEPT ![u].registered = TRUE]
  /\ ctx' = [ctx EXCEPT !.num_connections = @ + 1]
  /\ Goto(u, "user_verify")
  /\ UNCHANGED <<proc, lock, table, channels, loc, announced>>

\* The lookup of what was just inserted; when it is missing the code logs
\* the nickname of the head of the table, which may be NULL.
UserVerify(u) ==
  /\ At(u, "user_verify") /\ lock = NULL
  /\ proc' = IF \A v \in User : table[v] = NULL THEN "dead" ELSE proc
  /\ Goto(u, "lusers")
  /\ UNCHANGED <<lock, ctx, table, channels, user, loc, announced>>

----------------------------------------------------------------------------
(* command_quit.  It walks the channel list with the following channel     *)
(* read ahead, and lets go of the lock to relay the QUIT to the members    *)
(* that remain.  The users table keeps the entry.                          *)

QuitBegin(u) ==
  /\ Dispatch(u, "QUIT") /\ lock = NULL
  /\ lock' = u
  /\ loc' = [loc EXCEPT ![u].here = FirstLinked, ![u].next = After(FirstLinked)]
  /\ Goto(u, "quit_visit")
  /\ UNCHANGED <<proc, ctx, table, channels, user, announced>>

\* Mutant: the walk steps over the channel it read ahead.
Advance_Skip(u) == loc' = [loc EXCEPT ![u].here = After(loc[u].next),
                                      ![u].next = After(After(loc[u].next))]

Advance(u) == loc' = [loc EXCEPT ![u].here = loc[u].next,
                                 ![u].next = After(loc[u].next)]

QuitPass(u) ==
  LET c == loc[u].here IN
  /\ At(u, "quit_visit") /\ c # NoChan /\ u \notin Members(c)
  /\ Advance(u)
  /\ UNCHANGED <<proc, lock, ctx, table, channels, user, pc, announced>>

QuitLeave(u) ==
  LET c == loc[u].here IN
  /\ At(u, "quit_visit") /\ c # NoChan /\ u \in Members(c)
  /\ chan' = [chan EXCEPT
       ![c].channel_users = Cut(Shifted(c, u), chan[c].user_count - 1),
       ![c].user_count = @ - 1]
  /\ IF chan[c].user_count = 1
       THEN Unlink(c) /\ Advance(u) /\ UNCHANGED <<lock, pc>>
       ELSE /\ lock' = NULL /\ Goto(u, "quit_relay")
            /\ UNCHANGED <<proc, linked, hh_next, loc>>
  /\ UNCHANGED <<ctx, table, user, announced>>

QuitRelock(u) ==
  /\ At(u, "quit_relay") /\ lock = NULL
  /\ lock' = u
  /\ Advance(u)
  /\ Goto(u, "quit_visit")
  /\ UNCHANGED <<proc, ctx, table, channels, user, announced>>

\* Mutant: the last section of the walk is left without unlocking.
QuitEnd_KeepLock(u) ==
  /\ At(u, "quit_visit") /\ loc[u].here = NoChan
  /\ ctx' = [ctx EXCEPT !.num_connections = @ - 1]
  /\ Goto(u, "quit_close")
  /\ UNCHANGED <<proc, lock, table, channels, user, loc, announced>>

QuitEnd(u) ==
  /\ At(u, "quit_visit") /\ loc[u].here = NoChan
  /\ ctx' = [ctx EXCEPT !.num_connections = @ - 1]
  /\ lock' = NULL
  /\ Goto(u, "quit_close")
  /\ UNCHANGED <<proc, table, channels, user, loc, announced>>

\* individual_lock is destroyed, the socket closed, the thread gone.
QuitClose(u) ==
  /\ At(u, "quit_close")
  /\ user' = [user EXCEPT ![u].individual_lock = FALSE]
  /\ Goto(u, "exited")
  /\ loc' = [loc EXCEPT ![u] = NoLocals]
  /\ UNCHANGED <<proc, lock, ctx, table, channels, announced>>

----------------------------------------------------------------------------
RegisterInput(u) ==
  (\E n \in Nick : NickLookup(u, n)) \/ UserBegin(u) \/ QuitBegin(u)
RegisterStep(u) ==
  \/ NickCount(u) \/ NickFindOld(u) \/ NickDelete(u)
  \/ NickAssign(u) \/ NickAdd(u)
  \/ UserAdd(u) \/ UserWelcome(u) \/ UserVerify(u)
  \/ QuitPass(u) \/ QuitLeave(u) \/ QuitRelock(u) \/ QuitEnd(u)
  \/ QuitClose(u)
============================================================================
