----------------------------- MODULE OrderProofs -----------------------------
(***************************************************************************)
(* All members see relays in one order, and a JOIN that nobody leaves in   *)
(* the middle of tells each of them once, for any number of connections,   *)
(* descriptors and commands, and sockets of any size: OrderInv and JoinInv *)
(* of DeliveryProperties are inductive.  Handlers only choose what waits   *)
(* to be sent; Send is the one action that writes.                         *)
(***************************************************************************)
EXTENDS DeliveryProofs, FiniteSetTheorems

----------------------------------------------------------------------------
(* Replies that wait and replies that were written *)

\* The replies a thread has to send are replies to its own command.
LEMMA CountedType ==
  ASSUME TypeOK, NEW r \in Said
  PROVE  r.from \in User /\ r.command \in Nat /\ commands[r.from] \in Nat
BY DeliveryConstants DEF TypeOK, Said

\* What was written is a reply.
LEMMA WrittenSaid ==
  ASSUME TypeOK, NEW r \in Written
  PROVE  r \in Said
<1>1. PICK c \in User : r \in {p.reply : p \in ToSet(written[c])}
  BY DEF Written
<1>2. PICK p \in ToSet(written[c]) : r = p.reply
  BY <1>1
<1>3. written[c] \in Seq(Piece)
  BY DEF TypeOK
<1>4. p \in Piece
  BY <1>2, <1>3 DEF ToSet
<1> QED
  BY <1>2, <1>4 DEF Piece

\* What was not written is behind everything.
LEMMA UnwrittenLast ==
  ASSUME NEW r, r \notin Written, NEW q
  PROVE  First(q, r)
<1>1. ASSUME NEW c \in User PROVE Places(c, r) = {}
  BY DEF Places, Written, ToSet
<1> QED
  BY <1>1 DEF First, Before

\* What a step that writes nothing leaves as it was.
LEMMA SameWritten ==
  ASSUME UNCHANGED written
  PROVE  /\ Written' = Written
         /\ \A r, q : First(r, q)' = First(r, q)
<1>1. Written' = Written
  BY DEF Written
<1>2. ASSUME NEW c, NEW r PROVE Places(c, r)' = Places(c, r)
  BY DEF Places
<1> QED
  BY <1>1, <1>2 DEF First, Before

----------------------------------------------------------------------------
(* Steps that write nothing *)

\* Counted replies stay so, when counters do not go back and a thread gets to
\* the second section of PRIVMSG only with a command more.
CountsOn(u) ==
  /\ \A w \in User : w # u => commands'[w] = commands[w] /\ pc'[w] = pc[w]
  /\ commands[u] <= commands'[u]
  /\ pc'[u] = "relay" => \/ pc[u] = "relay" /\ commands'[u] = commands[u]
                         \/ commands[u] < commands'[u]

LEMMA StaysCounted ==
  ASSUME TypeOK, TypeOK', NEW u \in User, CountsOn(u), NEW r \in Said, Counted(r)
  PROVE  Counted(r)'
<1>1. /\ r.from \in User /\ r.command \in Nat
      /\ commands[r.from] \in Nat /\ commands'[r.from] \in Nat
  BY DeliveryConstants DEF TypeOK, Said
<1>2. CASE r.from = u
  BY <1>1, <1>2 DEF Counted, CountsOn
<1>3. CASE r.from # u
  BY <1>1, <1>3 DEF Counted, CountsOn
<1> QED
  BY <1>2, <1>3

\* The step of a thread that queues what is in order.
LEMMA Unwritten ==
  ASSUME OrderInv, MembersInv', UNCHANGED written, NEW u \in User, CountsOn(u),
         \A w \in User : w # u => todo'[w] = todo[w],
         Current(u)'
  PROVE  OrderInv'
<1>1. TypeOK /\ TypeOK'
  BY DEF OrderInv, MembersInv, WholeInv
<1>2. Written' = Written /\ \A r, q : First(r, q)' = First(r, q)
  BY SameWritten
<1>3. ASSUME NEW r \in Written PROVE Counted(r)'
  BY <1>1, WrittenSaid, StaysCounted DEF OrderInv
<1>4. ASSUME NEW w \in User PROVE Current(w)'
  <2>1. CASE w = u
    BY <2>1
  <2>2. CASE w # u
    <3>1. todo'[w] = todo[w]
      BY <2>2
    <3>2. ASSUME NEW i \in DOMAIN todo[w] PROVE Counted(todo[w][i].reply)'
      <4>1. PICK r \in Said : r = todo[w][i].reply
        BY <1>1, PendingType
      <4>2. Counted(r)
        BY <4>1 DEF OrderInv, Current
      <4>3. Counted(r)'
        BY <4>2, <1>1, StaysCounted
      <4>4. r.from \in User
        BY <4>1 DEF Said
      <4> QED
        BY <4>1, <4>3, <3>1 DEF Counted
    <3> QED
      BY <3>1, <3>2, <1>2 DEF OrderInv, Current
  <2> QED
    BY <2>1, <2>2
<1>5. \A r \in Written' : Counted(r)'
  BY <1>2, <1>3
<1>6. \A r, q \in Written' :
        r.line \in Ordered /\ q.line \in Ordered /\ r # q
          => First(r, q)' \/ First(q, r)'
  BY <1>2 DEF OrderInv
<1> QED
  BY <1>4, <1>5, <1>6 DEF OrderInv

\* A step that queues nothing new.
LEMMA Drains ==
  ASSUME OrderInv, MembersInv', NEW u \in User, UNCHANGED <<written, commands>>,
         \A w \in User : w # u => pc'[w] = pc[w] /\ todo'[w] = todo[w],
         pc'[u] = "relay" => pc[u] = "relay", Queues
  PROVE  OrderInv'
<1>1. CountsOn(u)
  <2>1. commands[u] \in Nat
    BY DeliveryConstants DEF OrderInv, MembersInv, WholeInv, TypeOK
  <2> QED
    BY <2>1 DEF CountsOn
<1>2. Written' = Written /\ \A r, q : First(r, q)' = First(r, q)
  BY SameWritten
<1>3. ASSUME NEW i \in DOMAIN todo'[u]
      PROVE  \E j \in DOMAIN todo[u] : todo'[u][i].reply = todo[u][j].reply
  BY DEF Queues
<1>4. ASSUME NEW i \in DOMAIN todo'[u], NEW r, r = todo'[u][i].reply
      PROVE  /\ r.from = u /\ Counted(r)'
             /\ r.line \in Ordered =>
                  /\ \A q \in Written' : q.line \in Ordered /\ q # r => First(q, r)'
                  /\ \A k \in DOMAIN todo'[u] :
                       todo'[u][k].reply.line \in Ordered => todo'[u][k].reply = r
  <2>1. PICK j \in DOMAIN todo[u] : r = todo[u][j].reply
    BY <1>3, <1>4
  <2>2. /\ r.from = u /\ Counted(r)
        /\ r.line \in Ordered =>
             /\ \A q \in Written : q.line \in Ordered /\ q # r => First(q, r)
             /\ \A k \in DOMAIN todo[u] :
                  todo[u][k].reply.line \in Ordered => todo[u][k].reply = r
    BY <2>1 DEF OrderInv, Current
  <2>3. Counted(r)'
    BY <2>2 DEF Counted
  <2>4. ASSUME r.line \in Ordered, NEW k \in DOMAIN todo'[u],
               todo'[u][k].reply.line \in Ordered
        PROVE  todo'[u][k].reply = r
    BY <1>3, <2>2, <2>4
  <2>5. ASSUME r.line \in Ordered, NEW q \in Written', q.line \in Ordered, q # r
        PROVE  First(q, r)'
    BY <1>2, <2>2, <2>5
  <2> QED
    BY <2>2, <2>3, <2>4, <2>5
<1>5. Current(u)'
  BY <1>4 DEF Current
<1> QED
  BY <1>1, <1>5, Unwritten

\* What a handler queues answers or relays the command of its thread.
Own(u, out) == \A i \in DOMAIN out : out[i].reply = Reply(u, out[i].reply.line)

LEMMA OwnReplies ==
  ASSUME NEW u \in User
  PROVE  /\ Own(u, <<>>)
         /\ \A lines : Own(u, Answer(u, lines))
         /\ \A v, line : Own(u, <<To(v, Reply(u, line))>>)
         /\ \A s, line : Own(u, ToAll(s, Reply(u, line)))
<1>1. \A line : Reply(u, line).line = line
  BY DEF Reply
<1>2. \A v, r : To(v, r).reply = r
  BY DEF To
<1> QED
  BY <1>1, <1>2 DEF Own, Answer, ToAll

\* A step of a handler: answers, or one relay, which nobody has seen before.
LEMMA Handles ==
  ASSUME OrderInv, MembersInv', NEW u \in User, Ready(u),
         NEW out, Sending(u, out), Own(u, out), UNCHANGED written,
         Counts(u) \/ (pc[u] # "recv" /\ UNCHANGED commands),
         \A w \in User : w # u => pc'[w] = pc[w],
         pc'[u] = "relay" => Counts(u) /\ out = <<>>,
         \/ Unordered(out)
         \/ /\ \A i, j \in DOMAIN out : out[i].reply = out[j].reply
            /\ \/ Counts(u)
               \/ /\ pc[u] = "relay"
                  /\ \A i \in DOMAIN out : out[i].reply.line = "PRIVMSG"
  PROVE  OrderInv'
<1>1. TypeOK
  BY DEF OrderInv, MembersInv, WholeInv
<1>2. \A w \in User : todo'[w] = IF w = u THEN out ELSE todo[w]
  BY <1>1 DEF TypeOK, Sending
<1>3. /\ \A w \in User : w # u => commands'[w] = commands[w]
      /\ commands[u] \in Nat /\ commands'[u] \in Nat
      /\ \/ Counts(u) /\ commands'[u] = commands[u] + 1 /\ pc[u] = "recv"
         \/ pc[u] # "recv" /\ commands'[u] = commands[u]
  <2>1. commands \in [User -> 0..MaxCommands] /\ commands[u] \in Nat
    BY <1>1, DeliveryConstants DEF TypeOK
  <2>2. CASE Counts(u)
    BY <2>1, <2>2 DEF Counts, At
  <2>3. CASE pc[u] # "recv" /\ UNCHANGED commands
    BY <2>1, <2>3
  <2> QED
    BY <2>2, <2>3
<1>4. CountsOn(u)
  <2>1. pc'[u] = "relay" => pc[u] = "recv"
    BY DEF Counts, At
  <2> QED
    BY <1>3, <2>1 DEF CountsOn
<1>5. ASSUME NEW i \in DOMAIN out
      PROVE  /\ out[i].reply.from = u /\ out[i].reply.command = commands'[u]
             /\ pc'[u] # "relay"
  <2>1. out[i].reply = Reply(u, out[i].reply.line)
    BY DEF Own
  <2>2. \A line : Reply(u, line).from = u /\ Reply(u, line).command = commands'[u]
    BY <1>3 DEF Reply
  <2>3. out # <<>>
    OBVIOUS
  <2> QED
    BY <2>1, <2>2, <2>3
<1>6. ASSUME NEW i \in DOMAIN out, out[i].reply.line \in Ordered
      PROVE  out[i].reply \notin Written /\ \A j \in DOMAIN out :
               out[i].reply = out[j].reply
  <2>1. \A j \in DOMAIN out : out[i].reply = out[j].reply
    BY <1>6 DEF Unordered
  <2>2. Counts(u) \/ (pc[u] = "relay" /\ out[i].reply.line = "PRIVMSG")
    BY <1>6 DEF Unordered
  <2>3. ASSUME out[i].reply \in Written PROVE FALSE
    <3>1. Counted(out[i].reply)
      BY <2>3 DEF OrderInv
    <3>2. commands'[u] <= commands[u]
      BY <3>1, <1>5 DEF Counted
    <3>3. pc[u] = "relay" /\ out[i].reply.line = "PRIVMSG"
            => commands'[u] < commands[u]
      BY <3>1, <1>5 DEF Counted
    <3> QED
      BY <1>3, <2>2, <3>2, <3>3 DEF Counts, At
  <2> QED
    BY <2>1, <2>3
<1>7. \A i \in DOMAIN out : Counted(out[i].reply)'
  BY <1>3, <1>5 DEF Counted
<1>8. Written' = Written /\ \A r, q : First(r, q)' = First(r, q)
  BY SameWritten
<1>9. ASSUME NEW i \in DOMAIN out, out[i].reply.line \in Ordered, NEW q
      PROVE  First(q, out[i].reply)'
  <2>1. First(q, out[i].reply)
    BY <1>6, <1>9, UnwrittenLast
  <2> QED
    BY <2>1, <1>8
<1>10. todo'[u] = out
  BY <1>2
<1>11. Current(u)'
  BY <1>5, <1>6, <1>7, <1>9, <1>10 DEF Current
<1> QED
  BY <1>2, <1>4, <1>11, Unwritten

----------------------------------------------------------------------------
(* Handlers *)

LEMMA QueryOrder ==
  ASSUME OrderInv, MembersInv', NEW u \in User, NEW lines \in Queries,
         Query(u, lines)
  PROVE  OrderInv'
<1>1. Ready(u) /\ Unordered(Answer(u, lines)) /\ pc[u] = "recv"
  BY AnswersUnordered, AnswerUnordered, DeliveryConstants
     DEF Query, Counts, At
<1> QED
  BY <1>1, OwnReplies, Handles DEF Query

LEMMA MessageOrder ==
  ASSUME OrderInv, MembersInv', NEW u \in User, NEW v \in User, Message(u, v)
  PROVE  OrderInv'
<1>1. Ready(u) /\ Unordered(<<To(v, Reply(u, "NOTICE"))>>) /\ pc[u] = "recv"
  BY DEF Message, Dispatch, Counts, At, Unordered, To, Reply, Ordered
<1> QED
  BY <1>1, OwnReplies, Handles DEF Message, Dispatch

\* Answers in a section of the lock.
LEMMA LockedOrder ==
  ASSUME OrderInv, MembersInv', NEW u \in User, Ready(u),
         NEW lines \in Seq(Line \ Ordered), NEW where \in Holding,
         AnswerLocked(u, lines, where),
         Counts(u) \/ (pc[u] # "recv" /\ UNCHANGED commands)
  PROVE  OrderInv'
<1>1. \A w \in User : pc'[w] = IF w = u THEN where ELSE pc[w]
  BY WentOn DEF AnswerLocked, OrderInv, MembersInv, WholeInv
<1>2. where # "relay"
  BY DEF Holding
<1>3. Unordered(Answer(u, lines))
  BY AnswerUnordered
<1> QED
  BY <1>1, <1>2, <1>3, OwnReplies, Handles DEF AnswerLocked

LEMMA SectionsOrder ==
  ASSUME OrderInv, MembersInv', NEW u \in User,
         List(u) \/ ListNamed(u) \/ ListChannels(u)
  PROVE  OrderInv'
<1>1. {"listed", "whoised"} \subseteq Holding
  BY DEF Holding
<1>2. CASE ListNamed(u)
  <2>1. /\ Ready(u) /\ Counts(u) /\ pc[u] = "recv"
        /\ UNCHANGED <<written, pc>>
    BY <1>2 DEF ListNamed, Dispatch, Counts, At
  <2>2. Unordered(Answer(u, ListReplies \o ListEnd))
    BY AnswersUnordered, AnswerUnordered
  <2>3. Unordered(<<>>)
    BY DEF Unordered
  <2>4. \/ Sending(u, <<>>)
        \/ Sending(u, Answer(u, ListReplies \o ListEnd))
    BY <1>2, <2>1, Nothing DEF ListNamed, OrderInv, MembersInv
  <2> QED
    BY <2>1, <2>2, <2>3, <2>4, OwnReplies, Handles
<1>3. CASE List(u)
  <2>1. Ready(u) /\ Channels(ListReplies) \in Seq(Line \ Ordered)
    BY <1>3, AnswersUnordered DEF List, Dispatch, Counts, At, Channels
  <2> QED
    BY <1>1, <1>3, <2>1, LockedOrder DEF List, Dispatch
<1>4. CASE ListChannels(u)
  <2>1. /\ Ready(u) /\ Channels(WhoisChannels) \in Seq(Line \ Ordered)
        /\ pc[u] # "recv"
    BY <1>4, AnswersUnordered DEF ListChannels, At, Channels
  <2> QED
    BY <1>1, <1>4, <2>1, LockedOrder DEF ListChannels
<1> QED
  BY <1>2, <1>3, <1>4

LEMMA WhoisOrder ==
  ASSUME OrderInv, MembersInv', NEW u \in User, Whois(u)
  PROVE  OrderInv'
<1>1. PICK b \in BOOLEAN : Sending(u, Answer(u, WhoisUser(b)))
  BY DEF Whois
<1>2. Unordered(Answer(u, WhoisUser(b)))
  BY AnswersUnordered, AnswerUnordered
<1>3. \A w \in User : pc'[w] = IF w = u THEN "whois" ELSE pc[w]
  BY WentOn DEF Whois, OrderInv, MembersInv, WholeInv
<1>4. Ready(u)
  BY DEF Whois, Dispatch, Counts, At
<1> QED
  BY <1>1, <1>2, <1>3, <1>4, OwnReplies, Handles DEF Whois, Dispatch

LEMMA PrivmsgOrder ==
  ASSUME OrderInv, MembersInv', NEW u \in User, Privmsg(u)
  PROVE  OrderInv'
<1>1. Ready(u) /\ pc[u] = "recv" /\ Counts(u)
  BY DEF Privmsg, Dispatch, Counts, At
<1>2. CASE Contains(members, u)
  <2>1. \A w \in User : pc'[w] = IF w = u THEN "relay" ELSE pc[w]
    BY <1>2, WentOn DEF Privmsg, OrderInv, MembersInv, WholeInv
  <2>2. Sending(u, <<>>) /\ Unordered(<<>>)
    BY <1>1, <1>2, Nothing DEF Privmsg, OrderInv, MembersInv, Unordered
  <2> QED
    BY <2>1, <2>2, <1>1, OwnReplies, Handles DEF Privmsg
<1>3. CASE ~Contains(members, u)
  <2> DEFINE lines == IF members = <<>> THEN <<"401">> ELSE <<"404">>
  <2>1. lines \in Seq(Line \ Ordered)
    BY AnswersUnordered
  <2>2. Unordered(Answer(u, lines))
    BY <2>1, AnswerUnordered
  <2>3. Sending(u, Answer(u, lines)) /\ UNCHANGED <<pc, written>>
    BY <1>3 DEF Privmsg
  <2> QED
    BY <2>2, <2>3, <1>1, OwnReplies, Handles
<1> QED
  BY <1>2, <1>3

LEMMA PrivmsgRelayOrder ==
  ASSUME OrderInv, MembersInv', NEW u \in User, PrivmsgRelay(u)
  PROVE  OrderInv'
<1> DEFINE out == ToAll(Without(u), Reply(u, "PRIVMSG"))
<1>1. Ready(u) /\ pc[u] = "relay" /\ UNCHANGED <<commands, written>> /\ Sending(u, out)
  BY DEF PrivmsgRelay, At
<1>2. \A w \in User : pc'[w] = IF w = u THEN "unlock" ELSE pc[w]
  BY WentOn DEF PrivmsgRelay, OrderInv, MembersInv, WholeInv
<1>3. \A i \in DOMAIN out : /\ out[i].reply = Reply(u, "PRIVMSG")
                            /\ out[i].reply.line = "PRIVMSG"
  BY DEF ToAll, To, Reply
<1>4. Own(u, out)
  BY OwnReplies
<1> HIDE DEF out
<1> QED
  BY <1>1, <1>2, <1>3, <1>4, Handles

LEMMA AnnounceOrder ==
  ASSUME OrderInv, MembersInv', NEW u \in User, NEW line, Announce(u, line)
  PROVE  OrderInv'
<1>1. PICK s : Sending(u, ToAll(s, Reply(u, line)))
  BY DEF Announce
<1> DEFINE out == ToAll(s, Reply(u, line))
<1>2. Ready(u) /\ Counts(u) /\ UNCHANGED written
  BY DEF Announce, Dispatch, Counts, At
<1>3. \A w \in User : pc'[w] =
        IF w = u THEN (IF line = "NICK" THEN "renaming" ELSE "unlock") ELSE pc[w]
  BY WentOn DEF Announce, OrderInv, MembersInv, WholeInv
<1>4. \A i \in DOMAIN out : out[i].reply = Reply(u, line)
  BY DEF ToAll, To
<1>5. Own(u, out) /\ Sending(u, out)
  BY <1>1, OwnReplies
<1> HIDE DEF out
<1> QED
  BY <1>2, <1>3, <1>4, <1>5, Handles

LEMMA UnlockOrder ==
  ASSUME OrderInv, MembersInv', NEW u \in User, Unlock(u)
  PROVE  OrderInv'
<1>1. Ready(u) /\ pc[u] \in Holding /\ pc[u] # "recv"
  BY DEF Unlock, At, Holding
<1>2. Unordered(Answer(u, Rest(pc[u])))
  <2>1. Rest(pc[u]) \in Seq(Line \ Ordered)
    BY <1>1, AnswersUnordered DEF Rest, Holding
  <2> QED
    BY <2>1, AnswerUnordered
<1>3. \A w \in User : pc'[w] = IF w = u THEN After(pc[u]) ELSE pc[w]
  BY WentOn DEF Unlock, OrderInv, MembersInv, WholeInv
<1>4. After(pc[u]) # "relay"
  BY DEF After
<1> QED
  BY <1>1, <1>2, <1>3, <1>4, OwnReplies, Handles DEF Unlock

LEMMA ResumeOrder ==
  ASSUME OrderInv, MembersInv', NEW u \in User, Resume(u)
  PROVE  OrderInv'
<1> DEFINE lines == IF pc[u] = "lusers" THEN LusersReplies \o NoMotd ELSE <<>>
<1>1. lines \in Seq(Line \ Ordered)
  BY AnswersUnordered
<1>2. Sending(u, Answer(u, lines))
  BY DEF Resume
<1> HIDE DEF lines
<1>3. Unordered(Answer(u, lines))
  BY <1>1, AnswerUnordered
<1>4. \A w \in User : pc'[w] = IF w = u THEN "recv" ELSE pc[w]
  BY WentOn DEF Resume, OrderInv, MembersInv, WholeInv
<1>5. Ready(u) /\ pc[u] # "recv" /\ UNCHANGED <<commands, written>>
  BY DEF Resume, At
<1> QED
  BY <1>2, <1>3, <1>4, <1>5, OwnReplies, Handles

\* The welcome belongs to the last command that was counted, or to none.
LEMMA RegistersOrder ==
  ASSUME OrderInv, MembersInv', NEW u \in User, NEW from, NEW to,
         Registers(u, from, to), NEW out, Sending(u, out), Unordered(out),
         \A i \in DOMAIN out :
           out[i].reply.from = u /\ out[i].reply.command = commands[u],
         NEW where \in {"recv", "greeted", "lusers"}, Goto(u, where)
  PROVE  OrderInv'
<1>1. TypeOK /\ UNCHANGED <<written, commands>>
  BY DEF Registers, OrderInv, MembersInv, WholeInv
<1>2. commands[u] \in Nat
  BY <1>1, DeliveryConstants DEF TypeOK
<1>3. \A w \in User : pc'[w] = IF w = u THEN where ELSE pc[w]
  BY <1>1, WentOn
<1>4. \A w \in User : todo'[w] = IF w = u THEN out ELSE todo[w]
  BY <1>1 DEF TypeOK, Sending
<1>5. CountsOn(u)
  BY <1>1, <1>2, <1>3 DEF CountsOn
<1>6. \A i \in DOMAIN out : Counted(out[i].reply)'
  BY <1>1, <1>2, <1>3 DEF Counted
<1>7. todo'[u] = out
  BY <1>4
<1>8. Current(u)'
  BY <1>6, <1>7 DEF Current, Unordered
<1> QED
  BY <1>1, <1>4, <1>5, <1>8, Unwritten

LEMMA RememberOrder ==
  ASSUME OrderInv, MembersInv', NEW u \in User, Remember(u)
  PROVE  OrderInv'
<1>1. PICK first \in {"nick", "user"} : Registers(u, "none", first)
  BY DEF Remember
<1>2. Ready(u) /\ pc[u] = "recv" /\ UNCHANGED <<todo, pc>>
  BY <1>1 DEF Remember, Registers, At
<1>3. Goto(u, "recv") /\ Sending(u, <<>>) /\ Unordered(<<>>)
  BY <1>2, Nothing DEF Goto, Unordered, OrderInv, MembersInv, WholeInv, TypeOK
<1> QED
  BY <1>1, <1>3, RegistersOrder

LEMMA GreetOrder ==
  ASSUME OrderInv, MembersInv', NEW u \in User, NickGreets(u) \/ UserGreets(u)
  PROVE  OrderInv'
<1>1. \A i \in DOMAIN Welcome : Welcome[i] \notin Ordered
  BY AnswersUnordered
<1>2. /\ Unordered(Greeting(u))
      /\ \A i \in DOMAIN Greeting(u) :
           Greeting(u)[i].reply.from = u /\ Greeting(u)[i].reply.command = commands[u]
  BY <1>1 DEF Unordered, Greeting, To
<1>3. CASE NickGreets(u)
  BY <1>2, <1>3, RegistersOrder DEF NickGreets
<1>4. CASE UserGreets(u)
  BY <1>2, <1>4, RegistersOrder DEF UserGreets
<1> QED
  BY <1>3, <1>4

LEMMA TellNextOrder ==
  ASSUME OrderInv, MembersInv', NEW u \in User, Ready(u), pc[u] \notin {"recv", "relay"},
         NEW line, line \notin Ordered, TellNext(u, line),
         UNCHANGED <<written, commands>>
  PROVE  OrderInv'
<1>1. Unordered(<<To(members[at[u]], Reply(u, line))>>)
  BY DEF Unordered, To, Reply
<1> QED
  BY <1>1, OwnReplies, Handles DEF TellNext

\* Steps of JOIN and QUIT that answer, or go into their loop.
LEMMA LoopsOrder ==
  ASSUME OrderInv, MembersInv', NEW u \in User,
         Join(u) \/ JoinLoop(u) \/ Quit(u) \/ QuitLoop(u)
  PROVE  OrderInv'
<1>1. /\ Ready(u) /\ UNCHANGED written /\ pc[u] # "relay"
      /\ Counts(u) \/ (pc[u] # "recv" /\ UNCHANGED commands)
  BY DEF Join, JoinLoop, Quit, QuitLoop, Dispatch, Counts, At
<1>2. ASSUME NEW line \in {"JOIN", "QUIT"}, TellNext(u, line), pc[u] # "recv",
             UNCHANGED commands
      PROVE  OrderInv'
  BY <1>1, <1>2, TellNextOrder DEF Ordered
<1>3. ASSUME NEW lines \in Seq(Line \ Ordered),
             Sending(u, Answer(u, lines)) \/ UNCHANGED todo,
             NEW where \in {"recv", "join", "quit", "destroy"},
             Goto(u, where) \/ UNCHANGED pc
      PROVE  OrderInv'
  <2>1. PICK out : Sending(u, out) /\ Unordered(out) /\ Own(u, out)
    <3>1. CASE UNCHANGED todo
      <4>1. Sending(u, <<>>) /\ Unordered(<<>>)
        BY <1>1, <3>1, Nothing DEF OrderInv, MembersInv, Unordered
      <4> QED
        BY <4>1, OwnReplies
    <3>2. CASE Sending(u, Answer(u, lines))
      BY <3>2, AnswerUnordered, OwnReplies
    <3> QED
      BY <1>3, <3>1, <3>2
  <2>2. (\A w \in User : w # u => pc'[w] = pc[w]) /\ pc'[u] # "relay"
    <3>1. CASE UNCHANGED pc
      BY <1>1, <3>1
    <3>2. CASE Goto(u, where)
      <4>1. \A w \in User : pc'[w] = IF w = u THEN where ELSE pc[w]
        BY <3>2, WentOn DEF OrderInv, MembersInv, WholeInv
      <4> QED
        BY <4>1
    <3> QED
      BY <1>3, <3>1, <3>2
  <2> QED
    BY <1>1, <2>1, <2>2, Handles
<1>4. CASE Join(u)
  BY <1>3, <1>4, AnswersUnordered DEF Join
<1>5. CASE JoinLoop(u)
  <2>1. CASE TellNext(u, "JOIN")
    BY <1>2, <1>5, <2>1 DEF JoinLoop, At
  <2>2. CASE Sending(u, Answer(u, NamesReplies)) /\ Goto(u, "recv")
    BY <1>3, <2>2, AnswersUnordered
  <2> QED
    BY <1>5, <2>1, <2>2 DEF JoinLoop
<1>6. CASE Quit(u)
  BY <1>3, <1>6, AnswersUnordered DEF Quit
<1>7. CASE QuitLoop(u)
  <2>1. CASE TellNext(u, "QUIT")
    BY <1>2, <1>7, <2>1 DEF QuitLoop, At
  <2>2. CASE Sending(u, Answer(u, QuitError)) /\ Goto(u, "destroy")
    BY <1>3, <2>2, AnswersUnordered
  <2> QED
    BY <1>7, <2>1, <2>2 DEF QuitLoop
<1> QED
  BY <1>4, <1>5, <1>6, <1>7

----------------------------------------------------------------------------
(* Sending *)

\* One more piece of r at the end of the connection c.
Adds(c, r) ==
  \A d \in User :
    /\ \A q : q # r => Places(d, q)' = Places(d, q)
    /\ Places(d, r)' \subseteq
         Places(d, r) \cup (IF d = c THEN {Len(written[c]) + 1} ELSE {})

LEMMA SendAdds ==
  ASSUME TypeOK, NEW c \in User, NEW piece,
         \A d \in User : written'[d] = IF d = c THEN Append(written[c], piece)
                                       ELSE written[d]
  PROVE  Adds(c, piece.reply) /\ Written' \subseteq Written \cup {piece.reply}
<1> DEFINE n == Len(written[c])
<1>1. /\ written[c] \in Seq(Piece) /\ n \in Nat /\ DOMAIN written[c] = 1..n
      /\ written'[c] = Append(written[c], piece)
  <2>1. written[c] \in Seq(Piece)
    BY DEF TypeOK
  <2>2. n \in Nat /\ DOMAIN written[c] = 1..n
    BY <2>1
  <2>3. written'[c] = Append(written[c], piece)
    OBVIOUS
  <2> QED
    BY <2>1, <2>2, <2>3
<1>2. /\ DOMAIN written'[c] = 1..(n + 1) /\ written'[c][n + 1] = piece
      /\ \A i \in 1..n : written'[c][i] = written[c][i]
  BY <1>1
<1>3. \A i : i \in 1..(n + 1) <=> i \in 1..n \/ i = n + 1
  BY <1>1
<1> HIDE DEF n
<1>4. ASSUME NEW d \in User, NEW q
      PROVE  Places(d, q)' = Places(d, q)
               \cup (IF d = c /\ q = piece.reply THEN {n + 1} ELSE {})
  <2>1. CASE d = c
    BY <1>1, <1>2, <1>3, <2>1 DEF Places
  <2>2. CASE d # c
    <3>1. written'[d] = written[d]
      BY <2>2
    <3> QED
      BY <2>2, <3>1 DEF Places
  <2> QED
    BY <2>1, <2>2
<1>5. Adds(c, piece.reply)
  <2>1. ASSUME NEW d \in User, NEW q, q # piece.reply
        PROVE  Places(d, q)' = Places(d, q)
    <3>1. Places(d, q)' = Places(d, q) \cup {}
      BY <1>4, <2>1
    <3> QED
      BY <3>1
  <2>2. ASSUME NEW d \in User
        PROVE  Places(d, piece.reply)' \subseteq
                 Places(d, piece.reply) \cup (IF d = c THEN {n + 1} ELSE {})
    BY <1>4
  <2> QED
    BY <2>1, <2>2 DEF Adds, n
<1>6. ASSUME NEW r, r \in Written' PROVE r \in Written \cup {piece.reply}
  <2>1. PICK d \in User : \E i \in DOMAIN written'[d] : r = written'[d][i].reply
    BY <1>6 DEF Written, ToSet
  <2>2. Places(d, r)' # {}
    BY <2>1 DEF Places
  <2>3. r # piece.reply => Places(d, r) # {}
    BY <1>4, <2>2
  <2>4. Places(d, r) # {} => r \in Written
    BY DEF Places, Written, ToSet
  <2> QED
    BY <2>3, <2>4
<1> QED
  BY <1>5, <1>6

\* What is first stays first when another reply goes on.
LEMMA StaysFirst ==
  ASSUME TypeOK, NEW c \in User, NEW r, Adds(c, r), NEW q, q # r, NEW x, First(q, x)
  PROVE  First(q, x)'
<1>1. ASSUME NEW d \in User, NEW i \in Places(d, q)', NEW j \in Places(d, x)'
      PROVE  i < j
  <2>1. i \in Places(d, q)
    BY <1>1 DEF Adds
  <2>2. CASE j \in Places(d, x)
    BY <2>1, <2>2 DEF First, Before
  <2>3. CASE j \notin Places(d, x)
    <3>1. d = c /\ j = Len(written[c]) + 1
      <4>1. x = r
        BY <1>1, <2>3 DEF Adds
      <4> QED
        BY <4>1, <1>1, <2>3 DEF Adds
    <3>2. written[c] \in Seq(Piece) /\ i \in DOMAIN written[c]
      BY <2>1, <3>1 DEF TypeOK, Places
    <3> QED
      BY <3>1, <3>2
  <2> QED
    BY <2>2, <2>3
<1> QED
  BY <1>1 DEF First, Before

LEMMA SendOrder ==
  ASSUME OrderInv, MembersInv', NEW u \in User, Send(u)
  PROVE  OrderInv'
<1>0. TypeOK /\ WholeInv /\ UNCHANGED <<lock, pc, commands>>
  BY DEF OrderInv, MembersInv, WholeInv, Send
<1>1. PICK r : r = Out(u).reply
  OBVIOUS
<1>2. PICK c \in User : Adds(c, r) /\ Written' \subseteq Written \cup {r}
  <2> DEFINE m == Out(u)
             piece == [to |-> m.to, reply |-> m.reply, piece |-> m.left]
  <2>1. PICK c \in User :
          \A d \in User : written'[d] = IF d = c THEN Append(written[c], piece)
                                        ELSE written[d]
    BY <1>0, Writes
  <2>2. piece.reply = r
    BY <1>1
  <2> HIDE DEF piece
  <2> QED
    BY <2>1, <2>2, <1>0, SendAdds
<1>3. PICK k \in DOMAIN todo[u] : r = todo[u][k].reply
  BY <1>0, <1>1, Writes
<1>4. /\ Counted(r) /\ r.from = u
      /\ r.line \in Ordered =>
           /\ lock = u
           /\ \A q \in Written : q.line \in Ordered /\ q # r => First(q, r)
           /\ \A j \in DOMAIN todo[u] :
                todo[u][j].reply.line \in Ordered => todo[u][j].reply = r
  BY <1>3 DEF OrderInv, Current, MembersInv, Relays
<1>5. \A x : Counted(x) => Counted(x)'
  BY <1>0 DEF Counted
<1>6. \A x \in Written' : Counted(x)'
  BY <1>2, <1>4, <1>5 DEF OrderInv
<1>7. \A q, x : q # r /\ First(q, x) => First(q, x)'
  BY <1>0, <1>2, StaysFirst
<1>8. ASSUME NEW x \in Written', NEW q \in Written',
             x.line \in Ordered, q.line \in Ordered, x # q
      PROVE  First(x, q)' \/ First(q, x)'
  <2>1. CASE x = r
    BY <1>2, <1>4, <1>7, <1>8, <2>1
  <2>2. CASE q = r
    BY <1>2, <1>4, <1>7, <1>8, <2>2
  <2>3. CASE x # r /\ q # r
    <3>1. First(x, q) \/ First(q, x)
      BY <1>2, <1>8, <2>3 DEF OrderInv
    <3> QED
      BY <1>7, <2>3, <3>1
  <2> QED
    BY <2>1, <2>2, <2>3
<1>9. ASSUME NEW w \in User PROVE Current(w)'
  <2>1. Queues
    BY <1>0, SendQueues
  <2>2. ASSUME NEW i \in DOMAIN todo'[w], NEW x, x = todo'[w][i].reply
        PROVE  /\ x.from = w /\ Counted(x)'
               /\ x.line \in Ordered =>
                    /\ \A q \in Written' : q.line \in Ordered /\ q # x => First(q, x)'
                    /\ \A j \in DOMAIN todo'[w] :
                         todo'[w][j].reply.line \in Ordered => todo'[w][j].reply = x
    <3>1. PICK h \in DOMAIN todo[w] : x = todo[w][h].reply
      BY <2>1, <2>2 DEF Queues
    <3>2. /\ x.from = w /\ Counted(x)
          /\ x.line \in Ordered =>
               /\ lock = w
               /\ \A q \in Written : q.line \in Ordered /\ q # x => First(q, x)
               /\ \A j \in DOMAIN todo[w] :
                    todo[w][j].reply.line \in Ordered => todo[w][j].reply = x
      BY <3>1 DEF OrderInv, Current, MembersInv, Relays
    <3>3. ASSUME x.line \in Ordered, NEW q \in Written', q.line \in Ordered, q # x
          PROVE  First(q, x)'
      <4>1. q # r
        <5> SUFFICES ASSUME q = r PROVE FALSE
          OBVIOUS
        <5>1. w = u
          BY <1>4, <3>2, <3>3
        <5> QED
          BY <1>4, <3>1, <3>3, <5>1
      <4> QED
        BY <4>1, <1>2, <1>7, <3>2, <3>3
    <3>4. ASSUME x.line \in Ordered, NEW j \in DOMAIN todo'[w],
                 todo'[w][j].reply.line \in Ordered
          PROVE  todo'[w][j].reply = x
      <4>1. PICK g \in DOMAIN todo[w] : todo'[w][j].reply = todo[w][g].reply
        BY <2>1 DEF Queues
      <4> QED
        BY <4>1, <3>2, <3>4
    <3> QED
      BY <1>5, <3>2, <3>3, <3>4
  <2> QED
    BY <2>2 DEF Current
<1> QED
  BY <1>6, <1>8, <1>9 DEF OrderInv

----------------------------------------------------------------------------
(* Connections, and steps that queue nothing *)

LEMMA QuietOrder ==
  ASSUME OrderInv, MembersInv', NEW u \in User,
         \/ Accept(u) \/ Reset(u) \/ Disconnect(u) \/ SendKills(u)
         \/ QuitDestroy(u) \/ QuitClose(u)
  PROVE  OrderInv'
<1>1. UNCHANGED <<todo, written, commands>>
  BY DEF Accept, Reset, Disconnect, SendKills, QuitDestroy, QuitClose
<1>2. Queues
  BY <1>1 DEF Queues
<1>3. PICK where \in {"recv", "close"} : UNCHANGED pc \/ Goto(u, where)
  BY DEF Accept, Reset, Disconnect, SendKills, QuitDestroy, QuitClose
<1>4. /\ \A w \in User : w # u => pc'[w] = pc[w]
      /\ pc'[u] = "relay" => pc[u] = "relay"
  <2>1. CASE UNCHANGED pc
    BY <2>1
  <2>2. CASE Goto(u, where)
    <3>1. \A w \in User : pc'[w] = IF w = u THEN where ELSE pc[w]
      BY <2>2, WentOn DEF OrderInv, MembersInv, WholeInv
    <3> QED
      BY <3>1
  <2> QED
    BY <1>3, <2>1, <2>2
<1> QED
  BY <1>1, <1>2, <1>4, Drains

LEMMA SendFailsOrder ==
  ASSUME OrderInv, MembersInv', NEW u \in User, SendFails(u)
  PROVE  OrderInv'
<1>1. Queues /\ \A w \in User : w # u => todo'[w] = todo[w]
  BY SendFailsQueues DEF OrderInv, MembersInv
<1> QED
  BY <1>1, Drains DEF SendFails

----------------------------------------------------------------------------
LEMMA InitOrder == Init => OrderInv
<1> SUFFICES ASSUME Init PROVE OrderInv
  OBVIOUS
<1>1. MembersInv
  BY InitMembers
<1>2. \A u \in User : todo[u] = <<>> /\ written[u] = <<>>
  BY DEF Init
<1>3. Written = {}
  BY <1>2 DEF Written, ToSet
<1> QED
  BY <1>1, <1>2, <1>3 DEF OrderInv, Current

LEMMA NextOrder == OrderInv /\ [Next]_dvars => OrderInv'
<1> SUFFICES ASSUME OrderInv, [Next]_dvars PROVE OrderInv'
  OBVIOUS
<1>0. MembersInv'
  BY NextMembers DEF OrderInv
<1>1. ASSUME UNCHANGED dvars PROVE OrderInv'
  <2>1. UNCHANGED <<written, todo, pc, commands>>
    BY <1>1 DEF dvars
  <2>2. Written' = Written /\ \A r, q : First(r, q)' = First(r, q)
    BY <2>1, SameWritten
  <2>3. \A r : Counted(r) => Counted(r)'
    BY <2>1 DEF Counted
  <2>4. \A u \in User : Current(u)'
    BY <2>1, <2>2, <2>3 DEF Current, Counted, OrderInv
  <2> QED
    BY <1>0, <2>2, <2>3, <2>4 DEF OrderInv
<1>2. ASSUME NEW u \in User, Client(u) PROVE OrderInv'
  <2>1. CASE \E lines \in Queries : Query(u, lines)
    BY <2>1, <1>0, QueryOrder
  <2>2. CASE \E v \in User : Message(u, v)
    BY <2>2, <1>0, MessageOrder
  <2>3. CASE List(u) \/ ListNamed(u) \/ Whois(u)
    BY <2>3, <1>0, SectionsOrder, WhoisOrder
  <2>4. CASE Privmsg(u)
    BY <2>4, <1>0, PrivmsgOrder
  <2>5. CASE Announce(u, "MODE") \/ Announce(u, "NICK")
    BY <2>5, <1>0, AnnounceOrder
  <2>6. CASE Join(u) \/ Quit(u)
    BY <2>6, <1>0, LoopsOrder
  <2>7. CASE Accept(u) \/ Reset(u) \/ Disconnect(u) \/ SendKills(u)
    BY <2>7, <1>0, QuietOrder
  <2>8. CASE Remember(u) \/ NickGreets(u) \/ UserGreets(u)
    BY <2>8, <1>0, RememberOrder, GreetOrder
  <2> QED
    BY <1>2, <2>1, <2>2, <2>3, <2>4, <2>5, <2>6, <2>7, <2>8 DEF Client
<1>3. ASSUME NEW u \in User, Step(u) PROVE OrderInv'
  <2>1. CASE Send(u) \/ SendFails(u)
    BY <2>1, <1>0, SendOrder, SendFailsOrder
  <2>2. CASE Resume(u) \/ ListChannels(u) \/ PrivmsgRelay(u) \/ Unlock(u)
    BY <2>2, <1>0, ResumeOrder, SectionsOrder, PrivmsgRelayOrder, UnlockOrder
  <2>3. CASE JoinLoop(u) \/ QuitLoop(u)
    BY <2>3, <1>0, LoopsOrder
  <2>4. CASE QuitDestroy(u) \/ QuitClose(u)
    BY <2>4, <1>0, QuietOrder
  <2> QED
    BY <1>3, <2>1, <2>2, <2>3, <2>4 DEF Step
<1> QED
  BY <1>1, <1>2, <1>3 DEF Next

\* Two clients that both see two messages, modes or nicknames of a channel see
\* them in the same order, whatever threads do in between.
THEOREM RelaysInOneOrder == Spec => []SameOrder
<1>1. ASSUME OrderInv PROVE SameOrder
  <2> SUFFICES ASSUME NEW c \in User, NEW d \in User, NEW r, NEW q,
                      Places(c, r) # {}, Places(c, q) # {},
                      Places(d, r) # {}, Places(d, q) # {},
                      r.line \in Ordered, q.line \in Ordered,
                      Before(c, r, q), Before(d, q, r)
               PROVE  FALSE
    BY DEF SameOrder, Places, ToSet
  <2>1. r \in Written /\ q \in Written
    BY DEF Places, Written, ToSet
  <2>2. \A b \in User : \A x : \A i \in Places(b, x) : i \in Nat
    <3>1. written \in [User -> Seq(Piece)]
      BY <1>1 DEF OrderInv, MembersInv, WholeInv, TypeOK
    <3>2. \A b \in User : \A i \in DOMAIN written[b] : i \in Nat
      BY <3>1
    <3> QED
      BY <3>2 DEF Places
  <2>3. r # q
    BY <2>2 DEF Before
  <2>4. First(r, q) \/ First(q, r)
    BY <1>1, <2>1, <2>3 DEF OrderInv
  <2> QED
    BY <2>2, <2>4 DEF First, Before
<1> QED
  BY <1>1, InitOrder, NextOrder, PTL DEF Spec

----------------------------------------------------------------------------
(* JOIN tells its members once *)

\* One more piece may be one more that was told.
LEMMA ToldMore ==
  ASSUME NEW pieces \in Seq(Piece), NEW p, NEW v, NEW u, NEW n
  PROVE  LET told == p.piece = 2 /\ p.to = v
                       /\ p.reply = [line |-> "JOIN", from |-> u, command |-> n]
         IN  /\ Told(pieces, v, u, n) \in Nat
             /\ Told(Append(pieces, p), v, u, n)
                  = Told(pieces, v, u, n) + (IF told THEN 1 ELSE 0)
<1> DEFINE Tells(x) == x.piece = 2 /\ x.to = v
                         /\ x.reply = [line |-> "JOIN", from |-> u, command |-> n]
           more == Append(pieces, p)
           l == Len(pieces)
           S == {i \in DOMAIN pieces : Tells(pieces[i])}
           T == {i \in DOMAIN more : Tells(more[i])}
<1>1. Told(pieces, v, u, n) = Cardinality(S) /\ Told(more, v, u, n) = Cardinality(T)
  BY DEF Told
<1>0. l \in Nat
  OBVIOUS
<1>2. DOMAIN pieces = 1..l /\ DOMAIN more = 1..(l + 1)
      /\ more[l + 1] = p /\ \A i \in 1..l : more[i] = pieces[i]
  OBVIOUS
<1> HIDE DEF Tells, more, l
<1>3. S \subseteq 1..l /\ l + 1 \notin 1..l
  <2>1. S \subseteq 1..l
    BY <1>2
  <2>2. l + 1 \notin 1..l
    BY <1>0
  <2> QED
    BY <2>1, <2>2
<1>4. IsFiniteSet(S)
  BY <1>0, <1>3, FS_Interval, FS_Subset
<1>5. (Tells(p) => T = S \cup {l + 1}) /\ (~Tells(p) => T = S)
  <2>1. \A i : i \in 1..(l + 1) <=> i \in 1..l \/ i = l + 1
    BY <1>0
  <2>2. CASE Tells(p)
    BY <1>2, <2>1, <2>2
  <2>3. CASE ~Tells(p)
    BY <1>2, <2>1, <2>3
  <2> QED
    BY <2>2, <2>3
<1>6. Cardinality(S) \in Nat
  BY <1>4, FS_CardinalityType
<1>7. ASSUME Tells(p) PROVE Cardinality(T) = Cardinality(S) + 1
  <2>1. l + 1 \notin S
    BY <1>3
  <2>2. T = S \cup {l + 1}
    BY <1>5, <1>7
  <2> HIDE DEF S, T
  <2>3. Cardinality(S \cup {l + 1}) = Cardinality(S) + 1
    BY <1>4, <2>1, FS_AddElement
  <2> QED
    BY <2>2, <2>3
<1>8. ASSUME ~Tells(p) PROVE Cardinality(T) = Cardinality(S) + 0
  <2>1. T = S
    BY <1>5, <1>8
  <2> HIDE DEF S, T
  <2> QED
    BY <1>6, <2>1
<1> HIDE DEF S, T
<1> QED
  BY <1>1, <1>6, <1>7, <1>8 DEF Tells, more

LEMMA ToldNone ==
  ASSUME NEW pieces, NEW v, NEW u, NEW n,
         \A i \in DOMAIN pieces :
           pieces[i].reply # [line |-> "JOIN", from |-> u, command |-> n]
  PROVE  Told(pieces, v, u, n) = 0
<1> DEFINE S == {i \in DOMAIN pieces :
                   pieces[i].piece = 2 /\ pieces[i].to = v
                   /\ pieces[i].reply = [line |-> "JOIN", from |-> u, command |-> n]}
<1>1. S = {}
  OBVIOUS
<1>2. Told(pieces, v, u, n) = Cardinality(S)
  BY DEF Told
<1> QED
  BY <1>1, <1>2, FS_EmptySet

----------------------------------------------------------------------------
(* Steps of others *)

\* A step leaves what u does as it was, and tells nobody for it, ...
Same(u) ==
  /\ pc'[u] = pc[u] /\ todo'[u] = todo[u] /\ at'[u] = at[u]
  /\ commands'[u] = commands[u] /\ (calm'[u] => calm[u])
  /\ \A v \in User : \A n :
       Told(written'[v], v, u, n) = Told(written[v], v, u, n)
\* ... nobody leaves the channel of a JOIN that is calm, ...
Grows == \/ UNCHANGED members
         \/ \E w \in User : members' = Append(members, w)
         \/ \A w \in User : ~calm'[w]
\* ... and who can be sent to could be before, or is new.
Reaches ==
  \A v \in User : life'[v] = "open" /\ up'[v] =>
    \/ life[v] = "open" /\ up[v]
    \/ life[v] = "new" /\ UNCHANGED <<written, members>>

LEMMA StillTelling ==
  ASSUME JoinInv, NEW u \in User, Same(u), Grows, Reaches,
         pc'[u] = "join", calm'[u]
  PROVE  Telling(u)'
<1>1. Telling(u) /\ pc[u] = "join" /\ calm[u]
  BY DEF Same, JoinInv
<1>2. TypeOK /\ NothingEarly
  BY DEF JoinInv, OrderInv, MembersInv, WholeInv
<1>3. /\ members \in Seq(User) /\ at[u] \in Nat \ {0} /\ Len(members) \in Nat
      /\ DOMAIN members = 1..Len(members)
  BY <1>2 DEF TypeOK
<1>4. /\ at'[u] = at[u] /\ todo'[u] = todo[u] /\ commands'[u] = commands[u]
  BY DEF Same
<1>5. /\ Len(members) <= Len(members')
      /\ \A i \in 1..Len(members) : i \in DOMAIN members' /\ members'[i] = members[i]
      /\ DOMAIN members' \subseteq Nat
  <2>1. CASE UNCHANGED members
    BY <1>3, <2>1
  <2>2. CASE \E w \in User : members' = Append(members, w)
    BY <1>3, <2>2
  <2> QED
    BY <2>1, <2>2 DEF Grows
<1>6. at[u] <= Len(members) + 1
  BY <1>1 DEF Telling
<1>7. at'[u] <= Len(members') + 1
  <2>1. Len(members') \in Nat
    BY <1>3 DEF Grows
  <2> QED
    BY <1>3, <1>4, <1>5, <1>6, <2>1
<1>8. ASSUME todo'[u] # <<>>
      PROVE  /\ Len(todo'[u]) = 1 /\ Out(u)'.reply = JoinReply(u)'
             /\ at'[u] > 1 /\ Out(u)'.to = members'[at'[u] - 1]
  <2>1. /\ Len(todo[u]) = 1 /\ Out(u).reply = JoinReply(u)
        /\ at[u] > 1 /\ Out(u).to = members[at[u] - 1]
    BY <1>1, <1>4, <1>8 DEF Telling
  <2>2. at[u] - 1 \in 1..Len(members)
    BY <1>3, <1>6, <2>1
  <2>3. members'[at[u] - 1] = members[at[u] - 1]
    BY <1>5, <2>2
  <2>4. Out(u)' = Out(u) /\ JoinReply(u)' = JoinReply(u)
    BY <1>4 DEF Out, JoinReply
  <2> QED
    BY <1>4, <2>1, <2>3, <2>4
<1>9. ASSUME NEW v \in User, life'[v] = "open", up'[v]
      PROVE  Told(written'[v], v, u, commands'[u]) = IF Passed(u, v)' THEN 1 ELSE 0
  <2>1. Passed(u, v)' <=> Passed(u, v)
    <3> DEFINE past == IF todo[u] = <<>> THEN at[u] ELSE at[u] - 1
    <3>1. past \in Nat /\ past <= Len(members) + 1
      BY <1>3, <1>6
    <3>2. /\ Passed(u, v) <=> \E i \in DOMAIN members : members[i] = v /\ i < past
          /\ Passed(u, v)' <=> \E i \in DOMAIN members' : members'[i] = v /\ i < past
      BY <1>4 DEF Passed
    <3> HIDE DEF past
    <3>3. ASSUME NEW i \in DOMAIN members', i < past
          PROVE  i \in DOMAIN members /\ members'[i] = members[i]
      <4>1. i \in 1..Len(members)
        <5>1. i >= 1
          BY <1>3, <3>3 DEF Grows
        <5> QED
          BY <1>3, <1>5, <3>1, <3>3, <5>1
      <4> QED
        BY <1>3, <1>5, <4>1
    <3> QED
      BY <1>3, <1>5, <3>2, <3>3
  <2>2. Told(written'[v], v, u, commands'[u]) = Told(written[v], v, u, commands[u])
    BY <1>4 DEF Same
  <2>3. CASE life[v] = "open" /\ up[v]
    BY <1>1, <2>1, <2>2, <2>3 DEF Telling
  <2>4. CASE life[v] = "new"
    <3>1. written[v] = <<>> /\ \A i \in DOMAIN members : members[i] # v
      BY <1>2, <2>4 DEF NothingEarly
    <3>2. Told(written[v], v, u, commands[u]) = 0
      <4>1. PICK n : n = commands[u]
        OBVIOUS
      <4>2. DOMAIN <<>> = {}
        OBVIOUS
      <4>3. Told(<<>>, v, u, n) = 0
        BY <4>2, ToldNone
      <4> QED
        BY <3>1, <4>1, <4>3
    <3>3. ~Passed(u, v)
      BY <3>1 DEF Passed
    <3> QED
      BY <2>1, <2>2, <3>2, <3>3
  <2> QED
    BY <1>9, <2>3, <2>4 DEF Reaches
<1> QED
  BY <1>7, <1>8, <1>9 DEF Telling

\* A step of a, or of the connection of a.
LEMMA JoinStep ==
  ASSUME JoinInv, OrderInv', NEW a \in User,
         \A u \in User : u # a => Same(u), Grows, Reaches,
         IsInjective(members)',
         \A w \in User : life'[w] = "new" => life[w] = "new",
         pc'[a] = pc[a] \/ life'[a] # "new",
         pc'[a] = "join" /\ calm'[a] => Telling(a)'
  PROVE  JoinInv'
<1>1. ASSUME NEW u \in User, pc'[u] = "join", calm'[u] PROVE Telling(u)'
  BY <1>1, StillTelling
<1>2. ASSUME NEW u \in User, life'[u] = "new" PROVE pc'[u] = "recv"
  BY <1>2 DEF JoinInv, Same
<1> QED
  BY <1>1, <1>2 DEF JoinInv

----------------------------------------------------------------------------
(* Who is in the channel *)

LEMMA AppendDiffers ==
  ASSUME NEW s \in Seq(User), IsInjective(s), NEW u \in User, ~Contains(s, u)
  PROVE  IsInjective(Append(s, u))
<1>1. /\ DOMAIN s = 1..Len(s) /\ Len(s) \in Nat
      /\ DOMAIN Append(s, u) = 1..(Len(s) + 1) /\ Append(s, u)[Len(s) + 1] = u
      /\ \A i \in 1..Len(s) : Append(s, u)[i] = s[i]
  OBVIOUS
<1>2. \A i \in 1..Len(s) : s[i] # u
  BY DEF Contains
<1> SUFFICES ASSUME NEW i \in 1..(Len(s) + 1), NEW j \in 1..(Len(s) + 1),
                    Append(s, u)[i] = Append(s, u)[j]
             PROVE  i = j
  BY <1>1 DEF IsInjective
<1>3. (i \in 1..Len(s) \/ i = Len(s) + 1) /\ (j \in 1..Len(s) \/ j = Len(s) + 1)
  BY <1>1
<1> QED
  BY <1>1, <1>2, <1>3 DEF IsInjective

LEMMA WithoutDiffers ==
  ASSUME members \in Seq(User), IsInjective(members), NEW u \in User
  PROVE  IsInjective(Without(u))
<1>1. /\ Without(u) \in Seq(User)
      /\ \A i \in DOMAIN Without(u) : /\ Was(u, i) \in DOMAIN members
                                      /\ Without(u)[i] = members[Was(u, i)]
      /\ Contains(members, u) => Place(u) \in DOMAIN members
  BY WithoutIs
<1> SUFFICES ASSUME NEW i \in DOMAIN Without(u), NEW j \in DOMAIN Without(u),
                    Without(u)[i] = Without(u)[j]
             PROVE  i = j
  BY DEF IsInjective
<1>2. Was(u, i) = Was(u, j)
  BY <1>1 DEF IsInjective
<1>3. i \in Nat /\ j \in Nat /\ (Contains(members, u) => Place(u) \in Nat)
  BY <1>1
<1> QED
  BY <1>2, <1>3 DEF Was

----------------------------------------------------------------------------
(* Steps outside the loop of JOIN *)

\* Who writes nothing tells nobody.
LEMMA Silent ==
  ASSUME UNCHANGED written, NEW u \in User,
         pc'[u] = pc[u], todo'[u] = todo[u], at'[u] = at[u],
         commands'[u] = commands[u], calm'[u] => calm[u]
  PROVE  Same(u)
BY DEF Same

\* A step of the thread of a that writes nothing ...
Quietly(a) ==
  /\ Ready(a) /\ UNCHANGED <<life, up, written, members, calm>>
  /\ \A w \in User : w # a => /\ pc'[w] = pc[w] /\ todo'[w] = todo[w]
                              /\ at'[w] = at[w] /\ commands'[w] = commands[w]

\* ... and is not in the loop of JOIN afterwards, or goes on in it.
LEMMA OutsideJoin ==
  ASSUME JoinInv, OrderInv', NEW a \in User, Quietly(a),
         pc'[a] = "join" /\ calm'[a] => Telling(a)'
  PROVE  JoinInv'
<1>1. \A u \in User : u # a => Same(u)
  BY Silent DEF Quietly
<1>2. Grows /\ Reaches
  BY DEF Grows, Reaches, Quietly
<1>3. IsInjective(members)'
  BY DEF JoinInv, IsInjective, Quietly
<1>4. /\ \A w \in User : life'[w] = "new" => life[w] = "new"
      /\ pc'[a] = pc[a] \/ life'[a] # "new"
  BY DEF Ready, Quietly
<1> QED
  BY <1>1, <1>2, <1>3, <1>4, JoinStep

LEMMA HandlersJoin ==
  ASSUME JoinInv, OrderInv', NEW a \in User,
         \/ \E lines \in Queries : Query(a, lines)
         \/ \E v \in User : Message(a, v)
         \/ Remember(a) \/ NickGreets(a) \/ UserGreets(a) \/ Resume(a)
         \/ List(a) \/ ListNamed(a) \/ Whois(a) \/ ListChannels(a) \/ Privmsg(a)
         \/ PrivmsgRelay(a) \/ Announce(a, "MODE") \/ Announce(a, "NICK")
         \/ Unlock(a)
  PROVE  JoinInv'
<1>1. Ready(a) /\ UNCHANGED <<life, up, written, members, calm>> /\ UNCHANGED at
      /\ pc[a] # "join"
  BY DEF Query, Message, Remember, NickGreets, UserGreets, Registers, Resume, List,
         ListNamed, Whois, ListChannels, Privmsg, PrivmsgRelay, Announce, Unlock,
         Holding, AnswerLocked, Dispatch, Counts, At, peers
<1>2. TypeOK
  BY DEF JoinInv, OrderInv, MembersInv, WholeInv
<1>3. \/ UNCHANGED commands
      \/ commands' = [commands EXCEPT ![a] = @ + 1]
  BY DEF Query, Message, Remember, NickGreets, UserGreets, Registers, Resume, List,
         ListNamed, Whois, ListChannels, Privmsg, PrivmsgRelay, Announce, Unlock,
         AnswerLocked, Dispatch, Counts
<1>4. UNCHANGED todo \/ \E out : Sending(a, out)
  BY DEF Query, Message, Remember, NickGreets, UserGreets, Resume, List,
         ListNamed, Whois, ListChannels, Privmsg, PrivmsgRelay, Announce, Unlock,
         AnswerLocked
<1>5. \/ UNCHANGED pc
      \/ \E where \in Where \ {"join"} : Goto(a, where)
  <2>1. {"greeted", "lusers", "recv", "listed", "whois", "whoised", "relay", "unlock",
         "renaming", "rename"} \subseteq Where \ {"join"}
    BY DEF Where
  <2> QED
    BY <2>1 DEF Query, Message, Remember, NickGreets, UserGreets, Resume, List,
           ListNamed, Whois, ListChannels, Privmsg, PrivmsgRelay, Announce, Unlock,
           AnswerLocked, After
<1>6. ASSUME NEW w \in User, w # a
      PROVE  /\ pc'[w] = pc[w] /\ todo'[w] = todo[w]
             /\ at'[w] = at[w] /\ commands'[w] = commands[w]
  BY <1>1, <1>2, <1>3, <1>4, <1>5, <1>6 DEF TypeOK, Sending, Goto
<1>7. pc'[a] # "join"
  BY <1>1, <1>2, <1>5 DEF TypeOK, Goto
<1>8. Quietly(a)
  BY <1>1, <1>6 DEF Quietly
<1> QED
  BY <1>7, <1>8, OutsideJoin

\* Connections, and the end of a JOIN or QUIT.
LEMMA QuietJoin ==
  ASSUME JoinInv, OrderInv', NEW a \in User,
         \/ Accept(a) \/ Reset(a) \/ Disconnect(a) \/ SendKills(a)
         \/ QuitDestroy(a) \/ QuitClose(a)
  PROVE  JoinInv'
<1>1. UNCHANGED <<written, members, todo, at, commands, calm>>
  BY DEF Accept, Reset, Disconnect, SendKills, QuitDestroy, QuitClose
<1>2. TypeOK
  BY DEF JoinInv, OrderInv, MembersInv, WholeInv
<1>3. /\ \A w \in User : w # a => pc'[w] = pc[w]
      /\ pc'[a] = pc[a] \/ pc'[a] \in {"recv", "close"}
      /\ pc'[a] = pc[a] \/ life'[a] # "new"
  BY <1>2 DEF TypeOK, Accept, Reset, Disconnect, SendKills, QuitDestroy, QuitClose,
              Goto, At, Ready, peers
<1>4. /\ \A w \in User : life'[w] = "new" => life[w] = "new"
      /\ \A w \in User : life'[w] = "open" /\ up'[w] =>
           \/ life[w] = "open" /\ up[w]
           \/ life[w] = "new"
  BY <1>2 DEF TypeOK, Accept, Reset, Disconnect, SendKills, QuitDestroy, QuitClose,
              peers
<1>5. \A u \in User : pc'[u] = pc[u] => Same(u)
  BY <1>1, Silent
<1>6. Grows /\ Reaches
  BY <1>1, <1>4 DEF Grows, Reaches
<1>7. IsInjective(members)'
  BY <1>1 DEF JoinInv, IsInjective
<1>8. pc'[a] = "join" /\ calm'[a] => Telling(a)'
  BY <1>3, <1>5, <1>6, StillTelling
<1> QED
  BY <1>3, <1>4, <1>5, <1>6, <1>7, <1>8, JoinStep

LEMMA QuitJoin ==
  ASSUME JoinInv, OrderInv', NEW a \in User, Quit(a) \/ QuitLoop(a)
  PROVE  JoinInv'
<1>1. TypeOK
  BY DEF JoinInv, OrderInv, MembersInv, WholeInv
<1>2. Ready(a) /\ UNCHANGED <<peers, written>>
  BY DEF Quit, QuitLoop, Dispatch, Counts, At
<1>3. ASSUME NEW w \in User, w # a
      PROVE  /\ pc'[w] = pc[w] /\ todo'[w] = todo[w]
             /\ at'[w] = at[w] /\ commands'[w] = commands[w]
  BY <1>1, <1>3 DEF TypeOK, Quit, QuitLoop, TellNext, Dispatch, Counts, Sending, Goto
<1>4. pc'[a] # "join"
  BY <1>1 DEF TypeOK, Quit, QuitLoop, TellNext, At, Goto
<1>5. CASE Quit(a)
  <2>1. \/ UNCHANGED <<members, calm>>
        \/ \A w \in User : ~calm'[w]
    BY <1>5 DEF Quit
  <2>2. \A w \in User : calm'[w] => calm[w]
    BY <2>1
  <2>3. \A u \in User : u # a => Same(u)
    BY <1>2, <1>3, <2>2, Silent
  <2>4. Grows /\ Reaches
    BY <1>2, <2>1 DEF Grows, Reaches, peers
  <2>5. IsInjective(members)'
    <3>1. IsInjective(Without(a))
      BY <1>1, WithoutDiffers DEF JoinInv, TypeOK
    <3>2. members' = Without(a)
      BY <1>5 DEF Quit
    <3> QED
      BY <3>1, <3>2 DEF IsInjective
  <2>6. /\ \A w \in User : life'[w] = "new" => life[w] = "new"
        /\ pc'[a] = pc[a] \/ life'[a] # "new"
    BY <1>2 DEF Ready, peers
  <2>7. pc'[a] = "join" /\ calm'[a] => Telling(a)'
    BY <1>4
  <2> QED
    BY <2>3, <2>4, <2>5, <2>6, <2>7, JoinStep
<1>6. CASE QuitLoop(a)
  <2>1. UNCHANGED <<peers, written, members, calm>>
    BY <1>2, <1>6 DEF QuitLoop
  <2>2. Quietly(a)
    BY <1>2, <1>3, <2>1 DEF Quietly, peers
  <2> QED
    BY <1>4, <2>2, OutsideJoin
<1> QED
  BY <1>5, <1>6

----------------------------------------------------------------------------
(* JOIN: the newcomer, then its loop *)

LEMMA JoinStarts ==
  ASSUME JoinInv, OrderInv', NEW a \in User, Join(a)
  PROVE  JoinInv'
<1>1. TypeOK
  BY DEF JoinInv, OrderInv, MembersInv, WholeInv
<1>2. /\ Ready(a) /\ pc[a] = "recv" /\ UNCHANGED <<peers, written>>
      /\ ~Contains(members, a) /\ members' = Append(members, a)
      /\ commands'[a] = commands[a] + 1 /\ at'[a] = 1
  BY <1>1 DEF Join, Dispatch, Counts, At, TypeOK
<1>3. ASSUME NEW w \in User, w # a
      PROVE  /\ pc'[w] = pc[w] /\ todo'[w] = todo[w] /\ at'[w] = at[w]
             /\ commands'[w] = commands[w] /\ calm'[w] = calm[w]
  BY <1>1, <1>3 DEF TypeOK, Join, Dispatch, Counts, Sending, Goto
<1>4. \A u \in User : u # a => Same(u)
  BY <1>2, <1>3, Silent
<1>5. Grows /\ Reaches
  BY <1>2 DEF Grows, Reaches, peers
<1>6. IsInjective(members)'
  <2>1. IsInjective(Append(members, a))
    BY <1>1, <1>2, AppendDiffers DEF JoinInv, TypeOK
  <2> QED
    BY <1>2, <2>1 DEF IsInjective
<1>7. /\ \A w \in User : life'[w] = "new" => life[w] = "new"
      /\ pc'[a] = pc[a] \/ life'[a] # "new"
  BY <1>2 DEF Ready, peers
<1>8. ASSUME pc'[a] = "join" PROVE Telling(a)'
  <2>1. todo'[a] = <<>>
    BY <1>1, <1>2, <1>8 DEF TypeOK, Join, Ready
  <2>2. Len(members') \in Nat /\ DOMAIN members' = 1..Len(members')
    BY <1>1, <1>2 DEF TypeOK
  <2>3. at'[a] <= Len(members') + 1
    BY <1>2, <2>2
  <2>4. ASSUME NEW v \in User PROVE ~Passed(a, v)'
    BY <1>2, <2>1, <2>2 DEF Passed
  <2>5. ASSUME NEW v \in User PROVE Told(written'[v], v, a, commands'[a]) = 0
    <3>1. PICK n : n = commands'[a]
      OBVIOUS
    <3>2. ASSUME NEW i \in DOMAIN written[v],
                 written[v][i].reply = [line |-> "JOIN", from |-> a, command |-> n]
          PROVE  FALSE
      <4>1. written[v][i].reply \in Written
        BY DEF Written, ToSet
      <4>2. n <= commands[a]
        BY <3>2, <4>1 DEF JoinInv, OrderInv, Counted
      <4>3. commands[a] \in Nat
        BY <1>1, DeliveryConstants DEF TypeOK
      <4> QED
        BY <1>2, <3>1, <4>2, <4>3
    <3>3. Told(written[v], v, a, n) = 0
      BY <3>2, ToldNone
    <3> QED
      BY <1>2, <3>1, <3>3
  <2> QED
    BY <2>1, <2>3, <2>4, <2>5 DEF Telling
<1> QED
  BY <1>4, <1>5, <1>6, <1>7, <1>8, JoinStep

LEMMA JoinGoesOn ==
  ASSUME JoinInv, OrderInv', NEW a \in User, JoinLoop(a)
  PROVE  JoinInv'
<1>1. TypeOK
  BY DEF JoinInv, OrderInv, MembersInv, WholeInv
<1>2. /\ Ready(a) /\ pc[a] = "join" /\ todo[a] = <<>>
      /\ UNCHANGED <<peers, written, members, commands, calm>>
  BY DEF JoinLoop, At, Ready
<1>3. ASSUME NEW w \in User, w # a
      PROVE  /\ pc'[w] = pc[w] /\ todo'[w] = todo[w]
             /\ at'[w] = at[w] /\ commands'[w] = commands[w]
  BY <1>1, <1>3 DEF TypeOK, JoinLoop, TellNext, Sending, Goto
<1>4. Quietly(a)
  BY <1>2, <1>3 DEF Quietly, peers
<1>5. ASSUME TellNext(a, "JOIN"), calm'[a] PROVE Telling(a)'
  <2>1. Telling(a)
    BY <1>2, <1>5 DEF JoinInv
  <2>2. /\ at[a] \in Nat \ {0} /\ Len(members) \in Nat /\ at[a] <= Len(members)
        /\ at'[a] = at[a] + 1
    BY <1>1, <1>5 DEF TypeOK, TellNext
  <2>3. todo'[a] = <<To(members[at[a]], JoinReply(a))>>
    <3>1. Reply(a, "JOIN") = JoinReply(a)
      BY <1>2 DEF Reply, JoinReply
    <3> QED
      BY <1>1, <1>5, <3>1 DEF TypeOK, TellNext, Sending
  <2>4. todo'[a] # <<>> /\ Len(todo'[a]) = 1
        /\ Out(a)' = To(members[at[a]], JoinReply(a))
    BY <2>3 DEF Out
  <2>5. JoinReply(a)' = JoinReply(a)
    BY <1>2 DEF JoinReply
  <2>6. /\ Out(a)'.reply = JoinReply(a)' /\ at'[a] > 1
        /\ Out(a)'.to = members'[at'[a] - 1]
    <3>1. at'[a] - 1 = at[a] /\ at'[a] > 1
      BY <2>2
    <3> QED
      BY <1>2, <2>4, <2>5, <3>1 DEF To
  <2>7. ASSUME NEW v \in User PROVE Passed(a, v)' <=> Passed(a, v)
    <3>1. (at'[a] - 1) = at[a]
      BY <2>2
    <3> QED
      BY <1>2, <2>4, <3>1 DEF Passed
  <2>8. at'[a] <= Len(members') + 1
    BY <1>2, <2>2
  <2>9. ASSUME NEW v \in User, life'[v] = "open", up'[v]
        PROVE  Told(written'[v], v, a, commands'[a]) = IF Passed(a, v)' THEN 1 ELSE 0
    <3>1. life[v] = "open" /\ up[v]
      BY <1>2, <2>9 DEF peers
    <3>2. Told(written[v], v, a, commands[a]) = IF Passed(a, v) THEN 1 ELSE 0
      BY <2>1, <3>1 DEF Telling
    <3> QED
      BY <1>2, <2>7, <3>2
  <2> QED
    BY <2>4, <2>6, <2>8, <2>9 DEF Telling
<1>6. ASSUME pc'[a] = "join" PROVE TellNext(a, "JOIN")
  BY <1>1, <1>6 DEF TypeOK, JoinLoop, Goto
<1> QED
  BY <1>4, <1>5, <1>6, OutsideJoin

----------------------------------------------------------------------------
(* Sending *)

LEMMA LastOne == \A s \in Seq(Pending) : Len(s) = 1 => Tail(s) = <<>>
<1> SUFFICES ASSUME NEW s \in Seq(Pending), Len(s) = 1 PROVE Tail(s) = <<>>
  OBVIOUS
<1>1. Tail(s) \in Seq(Pending) /\ Len(Tail(s)) = 0
  OBVIOUS
<1>2. \A t \in Seq(Pending) : Len(t) = 0 => t = <<>>
  OBVIOUS
<1> QED
  BY <1>1, <1>2

\* When the line is sent or dropped, its receiver has been passed too.
LEMMA PassedNext ==
  ASSUME JoinInv, NEW u \in User, Telling(u), todo[u] # <<>>, todo'[u] = <<>>,
         at'[u] = at[u], UNCHANGED members, NEW v \in User
  PROVE  /\ Passed(u, v)' <=> Passed(u, v) \/ Out(u).to = v
         /\ Out(u).to = v => ~Passed(u, v)
<1>1. TypeOK /\ IsInjective(members)
  BY DEF JoinInv, OrderInv, MembersInv, WholeInv
<1>2. PICK k : k = at[u] - 1
  OBVIOUS
<1>3. /\ k \in DOMAIN members /\ Out(u).to = members[k]
      /\ at[u] = k + 1 /\ DOMAIN members \subseteq Nat
  <2>1. members \in Seq(User) /\ at[u] \in Nat
    BY <1>1 DEF TypeOK
  <2>2. /\ Len(members) \in Nat /\ DOMAIN members = 1..Len(members)
    BY <2>1
  <2>3. at[u] <= Len(members) + 1 /\ at[u] > 1 /\ Out(u).to = members[k]
    BY <1>2 DEF Telling
  <2>4. k \in 1..Len(members) /\ at[u] = k + 1
    BY <1>2, <2>1, <2>2, <2>3
  <2> QED
    BY <2>2, <2>3, <2>4
<1>4. /\ Passed(u, v)' <=> \E i \in DOMAIN members : members[i] = v /\ i < at[u]
      /\ Passed(u, v) <=> \E i \in DOMAIN members : members[i] = v /\ i < k
  BY <1>2 DEF Passed
<1>5. \A i \in DOMAIN members : i < at[u] <=> i < k \/ i = k
  <2>1. k \in Nat /\ \A i \in DOMAIN members : i \in Nat
    BY <1>3
  <2> QED
    BY <1>3, <2>1
<1>6. \A i \in DOMAIN members : members[i] = members[k] => i = k
  BY <1>1, <1>3 DEF IsInjective
<1>7. ~(k < k)
  BY <1>3
<1> QED
  BY <1>3, <1>4, <1>5, <1>6, <1>7

LEMMA SendJoin ==
  ASSUME JoinInv, OrderInv', NEW a \in User, Send(a)
  PROVE  JoinInv'
<1> DEFINE m == Out(a)
           c == sock[fd[m.to]]
           piece == [to |-> m.to, reply |-> m.reply, piece |-> m.left]
<1>1. /\ TypeOK /\ WholeInv /\ IsInjective(members)
      /\ UNCHANGED <<peers, members, pc, at, commands, calm>>
  BY DEF JoinInv, OrderInv, MembersInv, WholeInv, Send
<1>2. /\ todo[a] \in Seq(Pending) /\ todo[a] # <<>>
      /\ m = todo[a][1] /\ 1 \in DOMAIN todo[a] /\ m.to \in User
      /\ c \in User
      /\ \A d \in User : written'[d] = IF d = c THEN Append(written[c], piece)
                                       ELSE written[d]
  BY <1>1, Writes
<1>3. \A w \in User : w # a => todo'[w] = todo[w]
  BY <1>1, SendQueues
<1>4. m.reply.from = a
  <2>1. todo[a][1].reply.from = a
    BY <1>2 DEF JoinInv, OrderInv, Current
  <2> QED
    BY <1>2, <2>1
<1> HIDE DEF m, c
<1>5. ASSUME NEW v \in User, NEW u, NEW n
      PROVE  /\ Told(written[v], v, u, n) \in Nat
             /\ Told(written'[v], v, u, n) =
                  Told(written[v], v, u, n)
                    + (IF v = c /\ m.left = 2 /\ m.to = v
                          /\ m.reply = [line |-> "JOIN", from |-> u, command |-> n]
                       THEN 1 ELSE 0)
  <2>1. written[v] \in Seq(Piece)
    BY <1>1 DEF TypeOK
  <2>2. PICK p : p = piece
    OBVIOUS
  <2>3. p.piece = m.left /\ p.to = m.to /\ p.reply = m.reply
    BY <2>2
  <2> HIDE DEF piece
  <2>4. /\ Told(written[v], v, u, n) \in Nat
        /\ Told(Append(written[v], p), v, u, n) =
             Told(written[v], v, u, n)
               + (IF m.left = 2 /\ m.to = v
                     /\ m.reply = [line |-> "JOIN", from |-> u, command |-> n]
                  THEN 1 ELSE 0)
    BY <2>1, <2>3, ToldMore
  <2>5. CASE v = c
    <3>1. written'[v] = Append(written[v], p)
      BY <1>2, <2>2, <2>5
    <3> QED
      BY <2>4, <2>5, <3>1
  <2>6. CASE v # c
    <3>1. written'[v] = written[v]
      BY <1>2, <2>6
    <3> QED
      BY <2>4, <2>6, <3>1
  <2> QED
    BY <2>5, <2>6
<1>6. ASSUME NEW u \in User, u # a PROVE Same(u)
  <2>1. ASSUME NEW v \in User, NEW n
        PROVE  Told(written'[v], v, u, n) = Told(written[v], v, u, n)
    <3>1. m.reply # [line |-> "JOIN", from |-> u, command |-> n]
      BY <1>4, <1>6
    <3> QED
      BY <1>5, <3>1
  <2> QED
    BY <1>1, <1>3, <1>6, <2>1 DEF Same
<1>7. /\ Grows /\ Reaches /\ pc'[a] = pc[a]
      /\ \A w \in User : life'[w] = "new" => life[w] = "new"
  BY <1>1 DEF Grows, Reaches, peers
<1>8. IsInjective(members)'
  BY <1>1 DEF IsInjective
<1>9. ASSUME pc'[a] = "join", calm'[a] PROVE Telling(a)'
  <2>1. /\ Telling(a) /\ at'[a] = at[a] /\ at'[a] <= Len(members') + 1
        /\ members' = members
    BY <1>1, <1>9 DEF JoinInv, Telling
  <2>2. /\ Len(todo[a]) = 1 /\ m.reply = JoinReply(a)
        /\ at[a] > 1 /\ m.to = members[at[a] - 1]
    BY <1>2, <2>1 DEF Telling, m
  <2>3. JoinReply(a)' = JoinReply(a)
        /\ JoinReply(a) = [line |-> "JOIN", from |-> a, command |-> commands'[a]]
    BY <1>1 DEF JoinReply
  <2>4. ASSUME NEW v \in User, life'[v] = "open", up'[v]
        PROVE  /\ life[v] = "open" /\ up[v] /\ sock[fd[v]] = v
               /\ Told(written[v], v, a, commands'[a]) = IF Passed(a, v) THEN 1 ELSE 0
    <3>1. life[v] = "open" /\ up[v]
      BY <1>1, <2>4 DEF peers
    <3>2. sock[fd[v]] = v
      BY <1>1, <3>1 DEF WholeInv, Descriptors
    <3>3. Told(written[v], v, a, commands[a]) = IF Passed(a, v) THEN 1 ELSE 0
      BY <2>1, <3>1 DEF Telling
    <3> QED
      BY <1>1, <3>1, <3>2, <3>3
  <2>5. CASE m.left = 1
    <3>1. todo'[a] = [todo[a] EXCEPT ![1] = [todo[a][1] EXCEPT !.left = 2]]
      BY <1>1, <2>5 DEF TypeOK, Send, m
    <3>2. /\ todo'[a] # <<>> /\ Len(todo'[a]) = 1
          /\ Out(a)' = [todo[a][1] EXCEPT !.left = 2]
      BY <1>2, <2>2, <3>1 DEF Out
    <3>3. Out(a)'.reply = JoinReply(a)' /\ Out(a)'.to = m.to
      <4>1. todo[a][1] \in Pending
        BY <1>2
      <4> QED
        BY <1>2, <2>2, <2>3, <3>2, <4>1 DEF Pending
    <3>4. ASSUME NEW v \in User PROVE Passed(a, v)' <=> Passed(a, v)
      BY <1>2, <2>1, <3>2 DEF Passed
    <3>5. ASSUME NEW v \in User, life'[v] = "open", up'[v]
          PROVE  Told(written'[v], v, a, commands'[a])
                   = IF Passed(a, v)' THEN 1 ELSE 0
      BY <1>5, <2>4, <2>5, <3>4, <3>5
    <3> QED
      BY <2>1, <2>2, <3>2, <3>3, <3>5 DEF Telling
  <2>6. CASE m.left # 1
    <3>1. m.left = 2
      BY <1>1, <1>2, <2>6, OutType DEF m
    <3>2. todo'[a] = <<>>
      <4>1. todo'[a] = Tail(todo[a])
        BY <1>1, <2>6 DEF TypeOK, Send, Done, m
      <4> QED
        BY <1>2, <2>2, <4>1, LastOne
    <3>3. ASSUME NEW v \in User
          PROVE  /\ Passed(a, v)' <=> Passed(a, v) \/ m.to = v
                 /\ m.to = v => ~Passed(a, v)
      BY <1>2, <2>1, <3>2, PassedNext DEF m
    <3>4. ASSUME NEW v \in User, life'[v] = "open", up'[v]
          PROVE  Told(written'[v], v, a, commands'[a])
                   = IF Passed(a, v)' THEN 1 ELSE 0
      <4>1. m.to = v => v = c
        BY <2>4, <3>4 DEF c
      <4> QED
        BY <1>5, <2>2, <2>3, <2>4, <3>1, <3>3, <3>4, <4>1
    <3> QED
      BY <2>1, <3>2, <3>4 DEF Telling
  <2> QED
    BY <2>5, <2>6
<1> QED
  BY <1>6, <1>7, <1>8, <1>9, JoinStep

LEMMA SendFailsJoin ==
  ASSUME JoinInv, OrderInv', NEW a \in User, SendFails(a)
  PROVE  JoinInv'
<1>1. /\ TypeOK /\ WholeInv /\ IsInjective(members) /\ todo[a] # <<>>
      /\ UNCHANGED <<peers, written, members, pc, at, commands, calm>>
  BY DEF JoinInv, OrderInv, MembersInv, WholeInv, SendFails
<1>2. \A w \in User : todo'[w] = IF w = a THEN Tail(todo[a]) ELSE todo[w]
  BY <1>1, DoneEarly DEF SendFails
<1>3. \A u \in User : u # a => Same(u)
  BY <1>1, <1>2, Silent
<1>4. /\ Grows /\ Reaches /\ pc'[a] = pc[a]
      /\ \A w \in User : life'[w] = "new" => life[w] = "new"
  BY <1>1 DEF Grows, Reaches, peers
<1>5. IsInjective(members)'
  BY <1>1 DEF IsInjective
<1>6. ASSUME pc'[a] = "join", calm'[a] PROVE Telling(a)'
  <2>1. /\ Telling(a) /\ at'[a] = at[a] /\ at'[a] <= Len(members') + 1
        /\ Len(todo[a]) = 1
    BY <1>1, <1>6 DEF JoinInv, Telling
  <2>2. todo'[a] = <<>>
    <3>1. todo[a] \in Seq(Pending)
      BY <1>1 DEF TypeOK
    <3> QED
      BY <1>2, <2>1, <3>1, LastOne
  <2>3. ASSUME NEW v \in User, life'[v] = "open", up'[v]
        PROVE  Told(written'[v], v, a, commands'[a]) = IF Passed(a, v)' THEN 1 ELSE 0
    <3>1. life[v] = "open" /\ up[v]
      BY <1>1, <2>3 DEF peers
    <3>2. sock[fd[v]] = v
      BY <1>1, <3>1 DEF WholeInv, Descriptors
    <3>3. Out(a).to # v
      BY <3>1, <3>2, DeliveryConstants DEF SendFails
    <3>4. Passed(a, v)' <=> Passed(a, v)
      BY <1>1, <2>1, <2>2, <3>3, PassedNext
    <3>5. Told(written[v], v, a, commands[a]) = IF Passed(a, v) THEN 1 ELSE 0
      BY <2>1, <3>1 DEF Telling
    <3> QED
      BY <1>1, <3>4, <3>5
  <2> QED
    BY <2>1, <2>2, <2>3 DEF Telling
<1> QED
  BY <1>3, <1>4, <1>5, <1>6, JoinStep

----------------------------------------------------------------------------
LEMMA InitJoin == Init => JoinInv
BY InitOrder, DeliveryConstants DEF Init, JoinInv

LEMMA NextJoin == JoinInv /\ [Next]_dvars => JoinInv'
<1> SUFFICES ASSUME JoinInv, [Next]_dvars PROVE JoinInv'
  OBVIOUS
<1>0. OrderInv'
  BY NextOrder DEF JoinInv
<1>1. ASSUME UNCHANGED dvars PROVE JoinInv'
  <2>1. UNCHANGED <<peers, written, members, pc, todo, at, commands, calm>>
    BY <1>1 DEF dvars
  <2>2. ASSUME NEW u \in User, pc[u] = "join", calm[u] PROVE Telling(u)'
    <3>1. Telling(u)
      BY <2>2 DEF JoinInv
    <3> QED
      BY <2>1, <3>1 DEF Telling, Passed, Out, JoinReply, peers
  <2> QED
    BY <1>0, <2>1, <2>2 DEF JoinInv, IsInjective, peers
<1>2. ASSUME NEW u \in User, Client(u) PROVE JoinInv'
  <2>1. CASE \/ \E lines \in Queries : Query(u, lines)
             \/ \E v \in User : Message(u, v)
             \/ Remember(u) \/ NickGreets(u) \/ UserGreets(u)
             \/ List(u) \/ ListNamed(u) \/ Whois(u)
             \/ Privmsg(u) \/ Announce(u, "MODE") \/ Announce(u, "NICK")
    BY <2>1, <1>0, HandlersJoin
  <2>2. CASE Join(u)
    BY <2>2, <1>0, JoinStarts
  <2>3. CASE Quit(u)
    BY <2>3, <1>0, QuitJoin
  <2>4. CASE Accept(u) \/ Reset(u) \/ Disconnect(u) \/ SendKills(u)
    BY <2>4, <1>0, QuietJoin
  <2> QED
    BY <1>2, <2>1, <2>2, <2>3, <2>4 DEF Client
<1>3. ASSUME NEW u \in User, Step(u) PROVE JoinInv'
  <2>1. CASE Send(u)
    BY <2>1, <1>0, SendJoin
  <2>2. CASE SendFails(u)
    BY <2>2, <1>0, SendFailsJoin
  <2>3. CASE Resume(u) \/ ListChannels(u) \/ PrivmsgRelay(u) \/ Unlock(u)
    BY <2>3, <1>0, HandlersJoin
  <2>4. CASE JoinLoop(u)
    BY <2>4, <1>0, JoinGoesOn
  <2>5. CASE QuitLoop(u)
    BY <2>5, <1>0, QuitJoin
  <2>6. CASE QuitDestroy(u) \/ QuitClose(u)
    BY <2>6, <1>0, QuietJoin
  <2> QED
    BY <1>3, <2>1, <2>2, <2>3, <2>4, <2>5, <2>6 DEF Step
<1> QED
  BY <1>1, <1>2, <1>3 DEF Next

\* A JOIN is over when its loop has passed every member.
LEMMA JoinEnds ==
  ASSUME JoinInv, [Next]_dvars, NEW u \in User, pc[u] = "join", pc'[u] = "recv", calm[u],
         NEW v \in ToSet(members), life[v] = "open", up[v]
  PROVE  Told(written[v], v, u, commands[u]) = 1
<1>1. TypeOK /\ Telling(u) /\ members \in Seq(User) /\ v \in User
  <2>1. TypeOK /\ Telling(u)
    BY DEF JoinInv, OrderInv, MembersInv, WholeInv
  <2>2. members \in Seq(User)
    BY <2>1 DEF TypeOK
  <2> QED
    BY <2>1, <2>2 DEF ToSet
<1>2. pc'[u] # pc[u] /\ life[u] # "new"
  BY DEF JoinInv
<1>3. ASSUME NEW w \in User, w # u, pc' # pc, \E where : Goto(w, where) PROVE FALSE
  BY <1>1, <1>2, <1>3 DEF TypeOK, Goto
<1>4. JoinLoop(u)
  <2>1. PICK w \in User : Client(w) \/ Step(w)
    BY <1>2 DEF Next, dvars
  <2>2. UNCHANGED pc \/ \E where : Goto(w, where)
    BY <2>1 DEF Client, Step, Query, Message, Remember, NickGreets, UserGreets, Resume,
       List, ListNamed, Whois, Privmsg, Announce, Join, Quit, Accept, Reset, Disconnect, SendKills, Send, SendFails,
       ListChannels, PrivmsgRelay, Unlock, JoinLoop, QuitLoop, TellNext,
       QuitDestroy, QuitClose, AnswerLocked
  <2>3. w = u
    BY <1>2, <1>3, <2>2
  <2>4. ~Client(u)
    BY <1>2 DEF Client, Query, Message, Remember, NickGreets, UserGreets, Registers,
       List, ListNamed, Whois, Privmsg, Announce, Join, Quit, Accept, Reset,
       Disconnect, SendKills, Dispatch, Counts, At
  <2>5. CASE Step(u)
    BY <1>2, <2>5 DEF Step, Send, SendFails, Resume, ListChannels, PrivmsgRelay, Unlock,
       Holding,
       QuitLoop, QuitDestroy, QuitClose, At
  <2> QED
    BY <2>1, <2>3, <2>4, <2>5
<1>5. at[u] > Len(members) /\ todo[u] = <<>>
  BY <1>2, <1>4 DEF JoinLoop, TellNext, At, Ready
<1>6. Passed(u, v)
  <2>1. PICK i \in DOMAIN members : members[i] = v
    BY DEF ToSet
  <2>2. i \in 1..Len(members) /\ Len(members) \in Nat
    BY <1>1
  <2>3. at[u] \in Nat
    BY <1>1 DEF TypeOK
  <2>4. i < at[u]
    BY <1>5, <2>2, <2>3
  <2> QED
    BY <1>5, <2>1, <2>4 DEF Passed
<1> QED
  BY <1>1, <1>6 DEF Telling

\* A client that joins is announced to every member that can be sent to, once,
\* itself included, if nobody leaves while the array is read without the lock.
THEOREM JoinsAreTold == Spec => JoinTold
<1> DEFINE Over == \A u \in User : (pc[u] = "join" /\ pc'[u] = "recv" /\ calm[u]) =>
                     \A v \in ToSet(members) :
                       life[v] = "open" /\ up[v]
                         => Told(written[v], v, u, commands[u]) = 1
<1>1. JoinInv /\ [Next]_dvars => [Over]_dvars
  BY JoinEnds
<1>2. Init => JoinInv
  BY InitJoin
<1>3. JoinInv /\ [Next]_dvars => JoinInv'
  BY NextJoin
<1>4. Spec => [][Over]_dvars
  BY <1>1, <1>2, <1>3, PTL DEF Spec
<1> QED
  BY <1>4 DEF JoinTold
============================================================================
