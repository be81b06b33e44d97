------------------------------ MODULE Delivery ------------------------------
(***************************************************************************)
(* Who receives which lines: the sending functions of reply.c and the      *)
(* handlers as far as they send.  ctx->lock, one channel with its members, *)
(* the individual_lock of each user_t, the descriptors and the sockets     *)
(* behind them.                                                            *)
(*                                                                         *)
(* A user is a connection, its thread and its user_t.  What NICK and USER  *)
(* do to the table and the counters is in Register; PART, whose three      *)
(* sections are in Channel, would add one more relay under the lock.  A    *)
(* user_t whose thread ended is read as it was, or ends the process.       *)
(***************************************************************************)
EXTENDS Replies, FiniteSets, SequencesExt

CONSTANTS
  User, Fd, NULL, DESTROYED,
  Queries,      \* answers that clients ask the server for
  Scenarios,    \* what clients and connections do: inputs[u], and slow; the
                \* users registered at the start in the order of their
                \* arrival: early; and those in the channel: members
  Room,         \* pieces a socket buffers before send blocks
  MaxCommands   \* bound: commands of one client but those that register it

ASSUME DeliveryConstants ==
  /\ IsFiniteSet(User)
  /\ \A s \in Scenarios :
       /\ s.early \in Seq(User) /\ IsInjective(s.early)
       /\ DOMAIN s.early \subseteq Fd
       /\ s.members \in Seq(ToSet(s.early)) /\ IsInjective(s.members)
  /\ Fd \subseteq Nat /\ NULL \notin User \cup Fd
  /\ DESTROYED \notin User \cup {NULL}
  /\ Queries \subseteq QueryReplies
  /\ Room \in Nat /\ MaxCommands \in Nat

VARIABLES
  proc,      \* "ok" or "dead"
  lock,      \* ctx->lock: NULL or the user whose thread holds it
  ilock,     \* individual_lock of each user_t: NULL, its holder or DESTROYED
  life,      \* "new", "open", "quit", or "lost" without a QUIT
  fd,        \* client_socket
  sock,      \* the connection each descriptor stands for, or NULL
  inputs,    \* what the client and the connection of each user do
  slow,      \* clients that do not read what they are sent
  up,        \* whether the client's end is there
  reg,       \* what the user has sent of NICK and USER, "full" after both
  written,   \* history: the pieces written to each connection
  members,   \* channel_users[0 .. user_count - 1] of the channel
  pc,        \* what each thread does next
  todo,      \* what it has to send before
  at,        \* index of its loop over the members
  commands,  \* commands its client has sent
  calm       \* history: no member left since its JOIN

peers == <<inputs, slow, life, fd, sock, up, reg>>
dvars == <<proc, lock, ilock, peers, written, members,
           pc, todo, at, commands, calm>>

\* A line that answers or relays the current command of u.
Reply(u, line) ==
  [line |-> line, from |-> u,
   command |-> IF pc[u] = "recv" THEN commands[u] + 1 ELSE commands[u]]
To(v, reply) == [to |-> v, reply |-> reply, left |-> 1]
ToAll(s, reply) == [i \in DOMAIN s |-> To(s[i], reply)]
Answer(u, lines) == [i \in DOMAIN lines |-> To(u, Reply(u, lines[i]))]

Ready(u) == proc = "ok" /\ life[u] = "open" /\ todo[u] = <<>>
At(u, where) == Ready(u) /\ pc[u] = where
Goto(u, where) == pc' = [pc EXCEPT ![u] = where]
Sending(u, out) == todo' = [todo EXCEPT ![u] = out]
Counts(u) == /\ At(u, "recv") /\ commands[u] < MaxCommands
             /\ commands' = [commands EXCEPT ![u] = @ + 1]
Dispatch(u) == Counts(u) /\ reg[u] = "full"

Place(u) == CHOOSE i \in DOMAIN members : members[i] = u
Without(u) == IF Contains(members, u) THEN RemoveAt(members, Place(u)) ELSE members

\* A reply that is sent, a call that sends it, and a piece that was written.
Said == [line : Line, from : User, command : Nat]
Pending == [to : User, reply : Said, left : {1, 2}]
Piece == [to : User, reply : Said, piece : {1, 2}]

\* What a thread can do next.
Where == {"recv", "relay", "unlock", "greeted", "lusers", "renaming", "rename",
          "whois", "whoised", "listed", "join", "quit", "destroy", "close"}

TypeOK ==
  /\ proc \in {"ok", "dead"} /\ lock \in User \cup {NULL}
  /\ ilock \in [User -> User \cup {NULL, DESTROYED}]
  /\ life \in [User -> {"new", "open", "quit", "lost"}]
  /\ fd \in [User -> Fd \cup {NULL}] /\ sock \in [Fd -> User \cup {NULL}]
  /\ up \in [User -> BOOLEAN] /\ reg \in [User -> {"none", "nick", "user", "full"}]
  /\ written \in [User -> Seq(Piece)] /\ members \in Seq(User) /\ pc \in [User -> Where]
  /\ todo \in [User -> Seq(Pending)] /\ at \in [User -> Nat \ {0}]
  /\ commands \in [User -> 0..MaxCommands] /\ calm \in [User -> BOOLEAN]

----------------------------------------------------------------------------
(* Connections *)

FreeFd == CHOOSE f \in Fd : /\ sock[f] = NULL
                            /\ \A g \in Fd : sock[g] = NULL => f <= g

\* accept returns the least descriptor that is free.
Accept(v) ==
  /\ proc = "ok" /\ life[v] = "new" /\ \E f \in Fd : sock[f] = NULL
  /\ life' = [life EXCEPT ![v] = "open"]
  /\ fd' = [fd EXCEPT ![v] = FreeFd] /\ sock' = [sock EXCEPT ![FreeFd] = v]
  /\ Goto(v, "recv")
  /\ UNCHANGED <<proc, lock, ilock, inputs, slow, up, reg, written, members,
                 todo, at, commands, calm>>

\* The client's end goes away.
Reset(c) ==
  /\ "RESET" \in inputs[c] /\ life[c] = "open" /\ up[c]
  /\ up' = [up EXCEPT ![c] = FALSE]
  /\ UNCHANGED <<proc, lock, ilock, life, fd, sock, inputs, slow, reg, written,
                 members, pc, todo, at, commands, calm>>

\* recv returns 0 or -1: the descriptor is closed and nothing else is done.
Disconnect(u) ==
  /\ "CLOSE" \in inputs[u] \/ ~up[u]
  /\ At(u, "recv")
  /\ life' = [life EXCEPT ![u] = "lost"] /\ sock' = [sock EXCEPT ![fd[u]] = NULL]
  /\ UNCHANGED <<proc, lock, ilock, fd, inputs, slow, up, reg, written, members,
                 pc, todo, at, commands, calm>>

----------------------------------------------------------------------------
(* safe_send and sendall *)

Out(u) == Head(todo[u])
Done(u) == todo' = [todo EXCEPT ![u] = Tail(@)]

\* send writes one more piece to the connection behind the descriptor; a send
\* that writes two is two that nothing comes between.  The lock is taken with
\* the first and released with the last; a destroyed one is neither.
\* Mutant: the lock is released between two sends.
Unlocked_Each(m, u, more) == IF m \in {u, NULL} THEN NULL ELSE m
Unlocked(m, u, more) ==
  IF m \in {u, NULL} THEN (IF more THEN u ELSE NULL) ELSE m

Send(u) ==
  LET m == Out(u)  c == sock[fd[m.to]]  more == m.left = 1
  IN  /\ proc = "ok" /\ todo[u] # <<>> /\ c # NULL
      /\ up[c] /\ (c \in slow => Len(written[c]) < Room)
      /\ ilock[m.to] \in {NULL, u, DESTROYED}
      /\ written' = [written EXCEPT ![c] =
           Append(@, [to |-> m.to, reply |-> m.reply, piece |-> m.left])]
      /\ IF more THEN todo' = [todo EXCEPT ![u][1].left = 2] ELSE Done(u)
      /\ ilock' = [ilock EXCEPT ![m.to] = Unlocked(@, u, more)]
      /\ UNCHANGED <<proc, lock, peers, members, pc, at, commands, calm>>

\* send returns -1: the descriptor is closed, or the client's end is gone;
\* the rest of the line is dropped.
SendFails(u) ==
  LET m == Out(u)  c == sock[fd[m.to]]
  IN  /\ proc = "ok" /\ todo[u] # <<>>
      /\ ilock[m.to] \in {NULL, u, DESTROYED}
      /\ IF c = NULL THEN TRUE ELSE ~up[c]
      /\ Done(u) /\ ilock' = [ilock EXCEPT ![m.to] = Unlocked(@, u, FALSE)]
      /\ UNCHANGED <<proc, lock, peers, written, members,
                     pc, at, commands, calm>>

\* A second send to an end that is gone raises SIGPIPE, which nobody catches;
\* and the user_t of a thread that ended may be unmapped.
SendKills(u) ==
  LET m == Out(u)  c == sock[fd[m.to]]
  IN  /\ "KILL" \in inputs[u]
      /\ proc = "ok" /\ todo[u] # <<>>
      /\ \/ life[m.to] \in {"quit", "lost"}
         \/ c # NULL /\ c \in {v \in User : ~up[v]}
      /\ proc' = "dead"
      /\ UNCHANGED <<lock, ilock, peers, written, members,
                     pc, todo, at, commands, calm>>

----------------------------------------------------------------------------
(* Handlers *)

\* Commands that only answer their client, when they have no lock any more.
Query(u, lines) ==
  /\ "QUERY" \in inputs[u] /\ Counts(u)
  /\ IF reg[u] = "full" THEN lines # NotRegistered
                        ELSE lines \in UnregisteredReplies
  /\ lines \in LocklessReplies \/ lock = NULL
  /\ Sending(u, Answer(u, lines))
  /\ UNCHANGED <<proc, lock, ilock, peers, written, members, pc, at, calm>>

\* The first NICK or USER is only remembered.  The other one registers: NICK
\* sends the welcome in the section that inserts the user, USER after it.
Registers(u, from, to) ==
  /\ "REGISTER" \in inputs[u] /\ At(u, "recv") /\ lock = NULL
  /\ reg[u] = from /\ reg' = [reg EXCEPT ![u] = to]
  /\ UNCHANGED <<proc, ilock, inputs, slow, life, fd, sock, up, written, members,
                 at, commands, calm>>
Remember(u) ==
  /\ \E first \in {"nick", "user"} : Registers(u, "none", first)
  /\ UNCHANGED <<lock, todo, pc>>
Greeting(u) ==
  [i \in DOMAIN Welcome |->
     To(u, [line |-> Welcome[i], from |-> u, command |-> commands[u]])]
NickGreets(u) ==
  /\ Registers(u, "user", "full")
  /\ Sending(u, Greeting(u)) /\ lock' = u /\ Goto(u, "greeted")
UserGreets(u) ==
  /\ Registers(u, "nick", "full")
  /\ Sending(u, Greeting(u)) /\ Goto(u, "lusers") /\ UNCHANGED lock

\* Sections that send nothing follow, one after the other: those of LUSERS,
\* before which USER has two, or the one in which NICK inserts the user again.
Resume(u) ==
  /\ pc[u] \in {"lusers", "rename"} /\ At(u, pc[u]) /\ lock = NULL
  /\ Sending(u, Answer(u, IF pc[u] = "lusers" THEN LusersReplies \o NoMotd ELSE <<>>))
  /\ Goto(u, "recv")
  /\ UNCHANGED <<proc, lock, ilock, peers, written, members, at, commands, calm>>

\* LIST sends the channels in a section of the lock.
AnswerLocked(u, lines, where) ==
  /\ lock = NULL /\ lock' = u /\ Sending(u, Answer(u, lines)) /\ Goto(u, where)
  /\ UNCHANGED <<proc, ilock, peers, written, members, at, calm>>
Channels(replies) == IF members = <<>> THEN <<>> ELSE replies
List(u) ==
  /\ "LIST" \in inputs[u] /\ Dispatch(u)
  /\ AnswerLocked(u, Channels(ListReplies), "listed")

\* Of one channel it answers after the section that looks it up, and reads
\* through NULL when there is none of that name.
ListNamed(u) ==
  /\ "LIST" \in inputs[u] /\ Dispatch(u) /\ lock = NULL
  /\ \/ /\ members # <<>> /\ Sending(u, Answer(u, ListReplies \o ListEnd))
        /\ UNCHANGED proc
     \/ "KILL" \in inputs[u] /\ proc' = "dead" /\ UNCHANGED todo
  /\ UNCHANGED <<lock, ilock, peers, written, members, pc, at, calm>>

\* WHOIS of a user that is found: one section to find it, one for the channels,
\* all there are.
Whois(u) ==
  /\ "WHOIS" \in inputs[u] /\ Dispatch(u) /\ lock = NULL
  /\ \E isOperator \in BOOLEAN : Sending(u, Answer(u, WhoisUser(isOperator)))
  /\ Goto(u, "whois")
  /\ UNCHANGED <<proc, lock, ilock, peers, written, members, at, calm>>
ListChannels(u) ==
  /\ At(u, "whois") /\ AnswerLocked(u, Channels(WhoisChannels), "whoised")
  /\ UNCHANGED commands

\* PRIVMSG and NOTICE to a user: the pointer is looked up under the lock and
\* used after it.  The table has who came and registered, also those who left,
\* but not who is changing its nickname.
InTable(v) == life[v] # "new" /\ reg[v] = "full" /\ pc[v] # "rename"
Message(u, v) ==
  /\ "MESSAGE" \in inputs[u] /\ Dispatch(u) /\ lock = NULL /\ InTable(v)
  /\ Sending(u, <<To(v, Reply(u, "NOTICE"))>>)
  /\ UNCHANGED <<proc, lock, ilock, peers, written, members, pc, at, calm>>

\* PRIVMSG to the channel: one section finds whether the sender is a member.
Privmsg(u) ==
  /\ "PRIVMSG" \in inputs[u] /\ Dispatch(u) /\ lock = NULL
  /\ IF Contains(members, u)
       THEN Goto(u, "relay") /\ UNCHANGED todo
       ELSE /\ Sending(u, Answer(u, IF members = <<>> THEN <<"401">> ELSE <<"404">>))
            /\ UNCHANGED pc
  /\ UNCHANGED <<proc, lock, ilock, peers, written, members, at, calm>>

\* Another one relays, with the lock held while it sends.
\* Mutant: the lock is not taken again.
PrivmsgRelay_Unlocked(u) ==
  /\ At(u, "relay") /\ lock = NULL
  /\ Sending(u, ToAll(Without(u), Reply(u, "PRIVMSG")))
  /\ Goto(u, "recv")
  /\ UNCHANGED <<proc, lock, ilock, peers, written, members, at,
                 commands, calm>>
PrivmsgRelay(u) ==
  /\ At(u, "relay") /\ lock = NULL /\ lock' = u
  /\ Sending(u, ToAll(Without(u), Reply(u, "PRIVMSG")))
  /\ Goto(u, "unlock")
  /\ UNCHANGED <<proc, ilock, peers, written, members, at, commands, calm>>

\* MODE tells all members, in the section that found the right to.  NICK tells
\* them once for each member from its own place in the array on.
Announce(u, line) ==
  LET n == Len(members)
      times == IF line = "NICK" THEN n + 1 - Place(u) ELSE 1
  IN  /\ line \in inputs[u] /\ Dispatch(u) /\ lock = NULL /\ lock' = u
      /\ Contains(members, u)
      /\ Sending(u, ToAll([i \in 1..(times * n) |-> members[((i - 1) % n) + 1]],
                          Reply(u, line)))
      /\ Goto(u, IF line = "NICK" THEN "renaming" ELSE "unlock")
      /\ UNCHANGED <<proc, ilock, peers, written, members, at, calm>>

\* The end of a section that sent lines: the lines after it, or where the
\* handler takes the lock again.
Rest(where) ==
  CASE where = "listed" -> ListEnd
    [] where = "whoised" -> EndOfWhois
    [] OTHER -> <<>>
After(where) ==
  CASE where = "greeted" -> "lusers" [] where = "renaming" -> "rename"
    [] OTHER -> "recv"
Holding == {"greeted", "listed", "whoised", "unlock", "renaming"}

\* Mutant: a relay to oneself alone returns early.
Unlock_Alone(u) ==
  /\ pc[u] \in Holding /\ At(u, pc[u])
  /\ lock' = IF pc[u] = "unlock" /\ Len(members) = 1 THEN lock ELSE NULL
  /\ Sending(u, Answer(u, Rest(pc[u]))) /\ Goto(u, After(pc[u]))
  /\ UNCHANGED <<proc, ilock, peers, written, members, at, commands, calm>>
Unlock(u) ==
  /\ pc[u] \in Holding /\ At(u, pc[u])
  /\ lock' = NULL
  /\ Sending(u, Answer(u, Rest(pc[u]))) /\ Goto(u, After(pc[u]))
  /\ UNCHANGED <<proc, ilock, peers, written, members, at, commands, calm>>

\* JOIN: the newcomer is appended under the lock; who is told of it is read
\* from the array afterwards, one after the other.
Join(u) ==
  /\ "JOIN" \in inputs[u] /\ Dispatch(u) /\ lock = NULL /\ ~Contains(members, u)
  /\ members' = Append(members, u) /\ calm' = [calm EXCEPT ![u] = TRUE]
  /\ at' = [at EXCEPT ![u] = 1]
  /\ IF members = <<>>
       THEN Sending(u, Answer(u, <<"JOIN">> \o NamesReplies)) /\ UNCHANGED pc
       ELSE Goto(u, "join") /\ UNCHANGED todo
  /\ UNCHANGED <<proc, lock, ilock, peers, written>>

TellNext(u, line) ==
  /\ at[u] <= Len(members)
  /\ Sending(u, <<To(members[at[u]], Reply(u, line))>>)
  /\ at' = [at EXCEPT ![u] = @ + 1] /\ UNCHANGED pc

\* Mutant: the loop stops before the last member, the newcomer.
JoinLoop_Short(u) ==
  /\ At(u, "join")
  /\ IF at[u] < Len(members) THEN TellNext(u, "JOIN")
       ELSE Sending(u, Answer(u, NamesReplies)) /\ Goto(u, "recv") /\ UNCHANGED at
  /\ UNCHANGED <<proc, lock, ilock, peers, written, members, commands, calm>>
JoinLoop(u) ==
  /\ At(u, "join")
  /\ \/ TellNext(u, "JOIN")
     \/ /\ at[u] > Len(members) /\ Sending(u, Answer(u, NamesReplies))
        /\ Goto(u, "recv") /\ UNCHANGED at
  /\ UNCHANGED <<proc, lock, ilock, peers, written, members, commands, calm>>

\* QUIT: the user is taken out under the lock and the rest told without it.
\* Mutant: the last of the array stays in it.
Quit_LastStays(u) ==
  LET rest == IF ~Contains(members, u) THEN members
              ELSE IF Place(u) = Len(members) THEN members ELSE Without(u)
  IN  /\ "QUIT" \in inputs[u] /\ Dispatch(u) /\ lock = NULL
      /\ members' = rest
      /\ calm' = IF rest = members THEN calm ELSE [v \in User |-> FALSE]
      /\ at' = [at EXCEPT ![u] = 1]
      /\ IF rest \notin {<<>>, members}
           THEN Goto(u, "quit") /\ UNCHANGED todo
           ELSE Goto(u, "destroy") /\ Sending(u, Answer(u, QuitError))
      /\ UNCHANGED <<proc, lock, ilock, peers, written>>
Quit(u) ==
  LET rest == Without(u)
  IN  /\ "QUIT" \in inputs[u] /\ Dispatch(u) /\ lock = NULL
      /\ members' = rest
      /\ calm' = IF rest = members THEN calm ELSE [v \in User |-> FALSE]
      /\ at' = [at EXCEPT ![u] = 1]
      /\ IF rest \notin {<<>>, members}
           THEN Goto(u, "quit") /\ UNCHANGED todo
           ELSE Goto(u, "destroy") /\ Sending(u, Answer(u, QuitError))
      /\ UNCHANGED <<proc, lock, ilock, peers, written>>
QuitLoop(u) ==
  /\ At(u, "quit")
  /\ \/ TellNext(u, "QUIT")
     \/ /\ at[u] > Len(members) /\ lock = NULL
        /\ Sending(u, Answer(u, QuitError)) /\ Goto(u, "destroy") /\ UNCHANGED at
  /\ UNCHANGED <<proc, lock, ilock, peers, written, members, commands, calm>>

\* Then its individual_lock goes, unless somebody holds it, and its socket.
QuitDestroy(u) ==
  /\ At(u, "destroy") /\ Goto(u, "close")
  /\ ilock' = [ilock EXCEPT ![u] = IF @ = NULL THEN DESTROYED ELSE @]
  /\ UNCHANGED <<proc, lock, peers, written, members, todo, at,
                 commands, calm>>
QuitClose(u) ==
  /\ At(u, "close")
  /\ life' = [life EXCEPT ![u] = "quit"] /\ sock' = [sock EXCEPT ![fd[u]] = NULL]
  /\ UNCHANGED <<proc, lock, ilock, fd, inputs, slow, up, reg, written, members,
                 pc, todo, at, commands, calm>>

----------------------------------------------------------------------------
\* Some have connected and registered, and are in the channel or not.
Connected(early) ==
  /\ sock = [f \in Fd |-> IF f \in DOMAIN early THEN early[f] ELSE NULL]
  /\ fd = [u \in User |-> IF Contains(early, u)
             THEN CHOOSE f \in DOMAIN early : early[f] = u ELSE NULL]
  /\ life = [u \in User |-> IF Contains(early, u) THEN "open" ELSE "new"]
  /\ reg = [u \in User |-> IF Contains(early, u) THEN "full" ELSE "none"]
Init ==
  /\ \E s \in Scenarios :
       inputs = s.inputs /\ slow = s.slow /\ members = s.members /\ Connected(s.early)
  /\ proc = "ok" /\ lock = NULL /\ ilock = [u \in User |-> NULL]
  /\ up = [u \in User |-> TRUE] /\ written = [u \in User |-> <<>>]
  /\ pc = [u \in User |-> "recv"]
  /\ todo = [u \in User |-> <<>>] /\ at = [u \in User |-> 1]
  /\ commands = [u \in User |-> 0] /\ calm = [u \in User |-> FALSE]

Client(u) ==
  \/ \E lines \in Queries : Query(u, lines)
  \/ \E v \in User : Message(u, v)
  \/ Remember(u) \/ NickGreets(u) \/ UserGreets(u)
  \/ List(u) \/ ListNamed(u) \/ Whois(u)
  \/ Privmsg(u) \/ Announce(u, "MODE") \/ Announce(u, "NICK")
  \/ Join(u) \/ Quit(u)
  \/ Accept(u) \/ Reset(u) \/ Disconnect(u) \/ SendKills(u)
Step(u) ==
  \/ Send(u) \/ SendFails(u)
  \/ Resume(u) \/ ListChannels(u) \/ PrivmsgRelay(u) \/ Unlock(u) \/ JoinLoop(u)
  \/ QuitLoop(u) \/ QuitDestroy(u) \/ QuitClose(u)
Next == \E u \in User : Client(u) \/ Step(u)

\* Runnable threads run.  Clients that are not slow read what they are sent.
Fairness == \A u \in User : WF_dvars(Step(u))
Spec == Init /\ [][Next]_dvars /\ Fairness
============================================================================
