-------------------------- MODULE ServerProperties --------------------------
(***************************************************************************)
(* What is checked of the server by the instances of MCServer and proved   *)
(* of it in ServerProofs.                                                  *)
(***************************************************************************)
EXTENDS Server

\* Every variable stays within its type.
TypeOK ==
  /\ proc \in {"ok", "ub", "torn", "dead"}
  /\ lock \in User \cup {NULL}
  /\ ctx \in server_ctx_t
  /\ table \in [User -> Nick \cup {NULL}]
  /\ linked \subseteq Chan
  /\ hh_next \in [Chan -> Chan \cup {NoChan}]
  /\ chan \in [Chan -> channel_t]
  /\ user \in [User -> user_t]
  /\ pc \in [User -> Label]
  /\ loc \in [User -> Locals]
  /\ announced \subseteq Chan \X Nick

\* The locals a handler needs later are set while it is in the middle.
LocalsSet ==
  \A u \in User :
    /\ pc[u] \in {"quit_relay", "part_shift", "part_leave", "part_delete",
                 "mode_member", "mode_grant"} => loc[u].here \in Chan
    /\ pc[u] \in {"mode_member", "mode_grant"} => loc[u].nick \in Nick

----------------------------------------------------------------------------
(* Registration *)

\* The users command_quit has taken out of the count.
HasQuit(u) == pc[u] = "quit_close" \/ ~user[u].individual_lock

Accepted == {u \in User : pc[u] \notin {"unborn", "refused"}}
Heard == {u \in User : user[u].comed}
Counted == {u \in User : user[u].registered /\ ~HasQuit(u)}

\* What the counters of server_ctx_t count: clients every connection that was
\* accepted and not refused a thread, active every one that ever sent NICK or
\* USER, and num_connections each from its registration to its QUIT, whichever
\* of the two commands registered it and however the threads interleave.  None
\* is lowered when a connection ends in another way.
CountersExact ==
  /\ ctx.clients = Cardinality(Accepted)
  /\ ctx.active = Cardinality(Heard)
  /\ ctx.num_connections = Cardinality(Counted)

\* A user_t is never linked into the table a second time, which would make
\* its bucket a cycle: NICK and USER insert only what is not linked.
NoDoubleInsert ==
  \A u \in User : pc[u] \in {"nick_add", "user_add"} => table[u] = NULL

\* Until undefined behaviour occurs, a registered user is found under the
\* nickname it holds, except between the removal and the insertion of its
\* own NICK.
RegisteredFindable ==
  proc = "ok" => \A u \in User :
    user[u].registered /\ pc[u] \notin {"nick_assign", "nick_add"}
      => table[u] = user[u].nickname /\ table[u] # NULL

\* Why the two above hold: where in its handlers a thread is linked, is
\* registered and has a nickname.
TableInv ==
  \A u \in User :
    /\ pc[u] \in {"nick_count", "nick_old", "nick_delete", "nick_assign"}
         => loc[u].nick \in Nick
    /\ (pc[u] \in {"nick_add", "user_add", "user_welcome"} \/ user[u].registered)
         => user[u].username /\ user[u].nickname \in Nick
    /\ pc[u] \in {"user_add", "user_welcome"} => ~user[u].registered
    /\ table[u] # NULL =>
         /\ table[u] = user[u].nickname
         /\ pc[u] \notin {"nick_assign", "nick_add", "user_add"}
         /\ user[u].registered \/ pc[u] = "user_welcome"
    /\ proc = "ok" /\ pc[u] = "user_welcome" => table[u] # NULL
    /\ proc = "ok" /\ user[u].registered
         => table[u] # NULL \/ pc[u] \in {"nick_assign", "nick_add"}

\* Why CountersExact holds: only a registered user quits, and only an exited
\* one has no individual_lock.
QuitInv ==
  \A u \in User :
    /\ ~user[u].individual_lock => pc[u] = "exited"
    /\ pc[u] \in {"quit_visit", "quit_relay", "quit_close"} => user[u].registered

\* Every command a thread has begun is finished, unless the process dies.
CommandReturns ==
  \A u \in User : pc[u] \notin Outside ~> pc[u] \in Outside \/ proc = "dead"

\* NICK and USER leave no two users linked under one nickname, as the reply
\* ":Nickname is already in use" of err_NICKNAMEINUSE promises.
UniqueNickname ==
  \A u, v \in User : table[u] # NULL /\ table[u] = table[v] => u = v

----------------------------------------------------------------------------
(* Channels *)

\* Members that speak of a channel by its name speak of the same one: of two
\* channels of a name at most one is listed or has members.  JOIN creates a
\* channel in the section that misses it, and PART and QUIT take it off the list
\* in one that finds it empty.  That holds until undefined behaviour occurs or
\* a channel is deleted twice.
InUse == linked \cup {c \in Chan : chan[c].user_count > 0}
UniqueChannelName ==
  proc = "ok" => \A c, d \in InUse :
    chan[c].channel_name = chan[d].channel_name => c = d

\* While nobody sends PART, a listed channel has as many different members
\* as it counts, and at least one.
CountIsMembers ==
  \A c \in linked :
    /\ chan[c].user_count > 0
    /\ chan[c].user_count = Cardinality(Members(c))

\* command_quit walks the list with the next channel read ahead and without
\* the lock at times, and still leaves its user in no listed channel.
QuitLeavesAll ==
  \A u \in User : HasQuit(u) => \A c \in linked : u \notin Members(c)

\* The step with which thread u leaves this place.
Finishes(u, label) == pc[u] = label /\ pc'[u] # label

\* command_mode looks membership up in one section and acts on it in a later
\* one; while nobody sends PART what it found still holds then.
ModeByMember ==
  [][\A u \in User : \A p \in announced' :
       Finishes(u, "mode_grant") => u \in Members(p[1])]_vars

\* A channel off the list counts no members.  PART lowers the count in one
\* section and removes the channel in a later one, which reads it again; a JOIN
\* that came between keeps the channel listed, one that comes after creates
\* another channel.  (Until undefined behaviour or a second deletion.)
UnlinkedEmpty ==
  proc = "ok" => \A c \in Chan \ linked : chan[c].user_count <= 0

\* Only who created a channel and who sent OPER change its modes: that is
\* what "You're not channel operator" tells the others.
FounderOrOperator ==
  [][\A u \in User : \A p \in announced' :
       Finishes(u, "mode_grant") =>
         chan[p[1]].founder = u \/ user[u].is_operator]_vars

\* "command_part - Leave the channel": whoever PART returns to is not a
\* member any more.
PartLeaves ==
  [][\A u \in User, c \in Chan :
       Finishes(u, "part_delete") /\ loc[u].here = c
         => u \notin Members(c)']_vars

----------------------------------------------------------------------------
(* Why these hold while nobody sends PART *)

\* Channels are allocated in the order of the list, and what an unlinked one
\* keeps as hh.next is no further on than the next that is linked.
Made(c) == chan[c].channel_name # NULL
ListInv ==
  /\ \A c \in linked : Made(c)
  /\ \A c, d \in Chan : Made(d) /\ c < d => Made(c)
  /\ \A c \in Chan : ~Made(c) => chan[c].user_count = 0
  /\ \A x \in Chan \ linked : hh_next[x] # NoChan =>
       Made(hh_next[x]) /\ \A d \in linked : d > x => hh_next[x] <= d

\* A channel is listed as long as it has members, and has each of them once.
ArrayInv ==
  \A c \in Chan :
    /\ c \in linked <=> chan[c].user_count > 0
    /\ \A i, j \in 0..(chan[c].user_count - 1) :
         chan[c].channel_users[i] = chan[c].channel_users[j] => i = j

\* No channel u is in comes before x in the list.
Ahead(u, x) ==
  \A c \in linked : u \in Members(c) => x # NoChan /\ x <= c

\* The walk of u in S, the channels that were listed at some time since its
\* QUIT began: from one that is unlinked it goes on in S, or it ends where only
\* channels follow that were made since.
Walks(u, S) ==
  /\ linked \subseteq S
  /\ {loc[u].here, loc[u].next} \subseteq S \cup {NoChan}
  /\ \A x \in S \ linked :
       /\ hh_next[x] \in S \cup {NoChan}
       /\ hh_next[x] = NoChan => \A c \in linked : c > x => u \notin Members(c)
QuitPath ==
  \A u \in User :
    /\ pc[u] \in {"quit_visit", "quit_relay"} => \E S \in SUBSET Chan : Walks(u, S)
    /\ pc[u] = "quit_visit" => /\ lock = u /\ loc[u].next = After(loc[u].here)
                               /\ Ahead(u, loc[u].here)
    /\ pc[u] = "quit_relay" => Ahead(u, loc[u].next)

\* Who is about to set a mode is still a member.
ModeInv ==
  \A u \in User : pc[u] = "mode_grant" => u \in Members(loc[u].here)

ChannelInv == ListInv /\ ArrayInv /\ QuitPath /\ QuitLeavesAll /\ ModeInv

----------------------------------------------------------------------------
(* The abstract specification *)

Stage(u) == IF HasQuit(u) THEN "gone"
            ELSE IF pc[u] \in {"quit_visit", "quit_relay"} THEN "leaving"
            ELSE IF user[u].registered THEN "in" ELSE "out"

Abstract == INSTANCE Membership WITH
  stage  <- [u \in User |-> Stage(u)],
  member <- {p \in User \X ChanName :
               \E c \in HashFind(p[2]) : p[1] \in Members(c)}

\* Without PART the server implements Membership: JOIN adds its own user and
\* nobody else, only QUIT of a user takes that user out, and it is counted
\* out only when it is in no channel.
KeepsMembership == Abstract!MSpec
============================================================================
