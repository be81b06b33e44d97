------------------------- MODULE DeliveryProperties -------------------------
(***************************************************************************)
(* What clients see: properties of Delivery over written, what has been    *)
(* written to each connection.                                             *)
(***************************************************************************)
EXTENDS Delivery

\* The descriptor of c is also that of a user_t whose thread has ended, or was
\* before it was accepted again.
Shared(c) == \E u \in User \ {c} : fd[u] = fd[c]

\* What a client receives are whole replies: two threads that answer it at
\* once do not mix their lines, whatever part of a line one send writes.  That
\* holds until its individual_lock is destroyed, and not where an ended user_t
\* has its descriptor, since that has a lock of its own.
Private(c) == life[c] # "new" /\ ilock[c] # DESTROYED /\ ~Shared(c)
SameReply(p, q) == p.to = q.to /\ p.reply = q.reply
Whole(c) ==
  \A i \in 1..(Len(written[c]) - 1) :
    LET p == written[c][i]  q == written[c][i + 1]
    IN  IF p.piece = 1 THEN SameReply(p, q) /\ q.piece = 2 ELSE q.piece = 1
WholeReplies == \A c \in User : Private(c) => Whole(c)

\* All members see the messages, modes and nicknames of a channel in one
\* order: a relay holds ctx->lock from the first receiver to the last.
Ordered == {"PRIVMSG", "MODE", "NICK"}
Places(c, r) == {i \in DOMAIN written[c] : written[c][i].reply = r}
Before(c, r, q) == \A i \in Places(c, r), j \in Places(c, q) : i < j
SameOrder ==
  LET seen(c) == {r \in {p.reply : p \in ToSet(written[c])} : r.line \in Ordered}
  IN  \A c, d \in User :
        \A r, q \in seen(c) \cap seen(d) : Before(c, r, q) => ~Before(d, q, r)

\* A message to a channel arrives at its members and nowhere else, although
\* descriptors are used again, as long as everybody who leaves says QUIT:
\* that takes the user out of the channel before its descriptor is closed.
\* (A JOIN or QUIT, relayed without the lock, may go astray all the same.)
MembersOnly ==
  (\A u \in User : life[u] # "lost") =>
    \A c \in User : \A p \in ToSet(written[c]) :
      p.reply.line \in Ordered => p.to = c

\* When a JOIN is over and nobody left meanwhile, every member that can be
\* sent to has been told of it once, the newcomer included, and however many
\* joined after it.  The loop reads the array without the lock.  (What it was
\* told in place of a user_t that ended, on whose descriptor it is, is extra.)
Told(pieces, v, u, n) ==
  Cardinality({i \in DOMAIN pieces :
    pieces[i].piece = 2 /\ pieces[i].to = v
      /\ pieces[i].reply = [line |-> "JOIN", from |-> u, command |-> n]})
JoinTold ==
  [][\A u \in User : (pc[u] = "join" /\ pc'[u] = "recv" /\ calm[u]) =>
       \A v \in ToSet(members) :
         life[v] = "open" /\ up[v]
           => Told(written[v], v, u, commands[u]) = 1]_dvars

\* Every command returns if clients read what they are sent: the locks of two
\* receivers and ctx->lock are never waited for in a circle.
Busy(u) == life[u] = "open" /\ (pc[u] # "recv" \/ todo[u] # <<>>)
SendersReturn ==
  (\E u \in User : Busy(u))
    ~> (slow # {} \/ proc = "dead" \/ \A u \in User : ~Busy(u))
----------------------------------------------------------------------------
(* What WholeReplies rests on *)

\* A descriptor stands for a connection that has it and is open, and the other
\* way round.
Descriptors ==
  /\ \A u \in User : fd[u] = NULL <=> life[u] = "new"
  /\ \A f \in Fd : sock[f] # NULL => fd[sock[f]] = f /\ life[sock[f]] = "open"
  /\ \A u \in User : life[u] = "open" => sock[fd[u]] = u

\* Nobody sends to a user that has not come yet.
NothingEarly ==
  /\ \A i \in DOMAIN members : life[members[i]] # "new"
  /\ \A u \in User : \A i \in DOMAIN todo[u] : life[todo[u][i].to] # "new"
  /\ \A u \in User : life[u] = "new" => written[u] = <<>> /\ ilock[u] = NULL

\* A thread is in the middle of one line at most, and has that receiver's
\* individual_lock; who has one is in the middle of a line to its owner.
Open(u) == todo[u] # <<>> /\ Out(u).left = 2
OneOpen ==
  /\ \A u \in User : \A i \in DOMAIN todo[u] : i # 1 => todo[u][i].left = 1
  /\ \A u \in User : Open(u) => ilock[Out(u).to] \in {u, DESTROYED}
  /\ \A v, u \in User : ilock[v] = u => Open(u) /\ Out(u).to = v

\* While c can be written to, the line its connection ends in is complete, or
\* is the one that the holder of its individual_lock is in the middle of.
Receiving(c) == up[c] /\ sock[fd[c]] = c
Ends(c) ==
  LET p == written[c][Len(written[c])]
  IN  IF ilock[c] = NULL THEN written[c] = <<>> \/ p.piece = 2
      ELSE /\ written[c] # <<>> /\ p.piece = 1
           /\ SameReply(p, Out(ilock[c]))

WholeInv ==
  /\ TypeOK /\ Descriptors /\ NothingEarly /\ OneOpen
  /\ \A c \in User : Private(c) => Whole(c) /\ (Receiving(c) => Ends(c))

\* What MembersOnly rests on: who is in a section that sends has ctx->lock, and
\* what it relays is for members, who are connected as long as nobody is lost,
\* since who is leaving is no member any more.
Gone == {"quit", "destroy", "close"}
Relays ==
  /\ \A u \in User : pc[u] \in Holding => lock = u
  /\ \A u \in User : \A i \in DOMAIN todo[u] :
       todo[u][i].reply.line \in Ordered
         => lock = u /\ Contains(members, todo[u][i].to)
Members ==
  /\ IsInjective(members)
  /\ \A i \in DOMAIN members : life[members[i]] = "open"
  /\ \A u \in User : pc[u] \in Gone => ~Contains(members, u)
MembersInv ==
  /\ WholeInv /\ Relays
  /\ (\A u \in User : life[u] # "lost") => Members /\ MembersOnly

\* What SameOrder rests on: of two relays, every connection has the pieces of
\* the same one first, also of one that is still being sent, since nobody else
\* relays then.  A relay differs from those before it: its sender has counted
\* one more command, or was not yet past the first section of this PRIVMSG.
Written == UNION {{p.reply : p \in ToSet(written[c])} : c \in User}
First(r, q) == \A c \in User : Before(c, r, q)
Counted(r) ==
  /\ r.command <= commands[r.from]
  /\ r.line = "PRIVMSG" /\ pc[r.from] = "relay" => r.command < commands[r.from]
Current(u) ==
  \A i \in DOMAIN todo[u] :
    LET r == todo[u][i].reply
    IN  /\ r.from = u /\ Counted(r)
        /\ r.line \in Ordered =>
             /\ \A q \in Written : q.line \in Ordered /\ q # r => First(q, r)
             /\ \A j \in DOMAIN todo[u] :
                  todo[u][j].reply.line \in Ordered => todo[u][j].reply = r
OrderInv ==
  /\ MembersInv
  /\ \A r \in Written : Counted(r)
  /\ \A r, q \in Written :
       r.line \in Ordered /\ q.line \in Ordered /\ r # q => First(r, q) \/ First(q, r)
  /\ \A u \in User : Current(u)

\* What JoinTold rests on: members differ, and while a JOIN tells them and
\* nobody has left, everybody who can be sent to was told of it once if its
\* place in the array has been passed, and not at all otherwise.
JoinReply(u) == [line |-> "JOIN", from |-> u, command |-> commands[u]]
Passed(u, v) ==
  \E i \in DOMAIN members :
    members[i] = v /\ i < (IF todo[u] = <<>> THEN at[u] ELSE at[u] - 1)
Telling(u) ==
  /\ at[u] <= Len(members) + 1
  /\ todo[u] # <<>> =>
       /\ Len(todo[u]) = 1 /\ Out(u).reply = JoinReply(u)
       /\ at[u] > 1 /\ Out(u).to = members[at[u] - 1]
  /\ \A v \in User : life[v] = "open" /\ up[v] =>
       Told(written[v], v, u, commands[u]) = IF Passed(u, v) THEN 1 ELSE 0
JoinInv ==
  /\ OrderInv /\ IsInjective(members)
  /\ \A u \in User : life[u] = "new" => pc[u] = "recv"
  /\ \A u \in User : pc[u] = "join" /\ calm[u] => Telling(u)
============================================================================
