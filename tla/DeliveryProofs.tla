--------------------------- MODULE DeliveryProofs ---------------------------
(***************************************************************************)
(* Replies arrive whole and relays reach members only, for any number of   *)
(* connections, descriptors and commands, and sockets of any size:         *)
(* WholeInv, and on top of it MembersInv, of DeliveryProperties are        *)
(* inductive.  Handlers only queue what they send, so one lemma is enough  *)
(* for all of them; Send, SendFails and QuitDestroy change the locks.      *)
(***************************************************************************)
EXTENDS DeliveryProperties, CommonLemmas

----------------------------------------------------------------------------
(* What handlers queue *)

\* Lines to users that have come, none of them begun.
Fresh(out) ==
  /\ out \in Seq(Pending)
  /\ \A i \in DOMAIN out : out[i].left = 1 /\ life[out[i].to] # "new"

\* A step that leaves the connections and what was written alone.
Local ==
  /\ UNCHANGED <<ilock, life, fd, sock, up, written>>
  /\ proc' \in {"ok", "dead"} /\ lock' \in User \cup {NULL}
  /\ pc' \in [User -> Where] /\ at' \in [User -> Nat \ {0}]
  /\ commands' \in [User -> 0..MaxCommands] /\ calm' \in [User -> BOOLEAN]
  /\ reg' \in [User -> {"none", "nick", "user", "full"}] /\ members' \in Seq(User)
  /\ \A i \in DOMAIN members' : life[members'[i]] # "new"

\* What waits to be sent is a line to somebody, or the rest of one.
LEMMA PendingType ==
  ASSUME TypeOK, NEW u \in User, NEW i \in DOMAIN todo[u]
  PROVE  /\ todo[u][i].to \in User /\ todo[u][i].reply \in Said
         /\ todo[u][i].left \in {1, 2}
<1>1. todo[u] \in Seq(Pending)
  BY DEF TypeOK
<1>2. todo[u][i] \in Pending
  BY <1>1
<1> QED
  BY <1>2 DEF Pending

LEMMA OutType ==
  ASSUME TypeOK, NEW u \in User, todo[u] # <<>>
  PROVE  /\ Out(u) = todo[u][1]
         /\ Out(u).to \in User /\ Out(u).reply \in Said /\ Out(u).left \in {1, 2}
<1>1. todo[u] \in Seq(Pending)
  BY DEF TypeOK
<1>2. 1 \in DOMAIN todo[u] /\ Out(u) = todo[u][1]
  BY <1>1 DEF Out
<1> QED
  BY <1>2, PendingType

\* What Reply builds is a reply.
LEMMA ReplyType ==
  ASSUME TypeOK, NEW u \in User, NEW line \in Line
  PROVE  Reply(u, line) \in Said
BY DeliveryConstants DEF TypeOK, Reply, Said

\* Answers to a user that is connected are fresh.
LEMMA AnswerFresh ==
  ASSUME TypeOK, NEW u \in User, life[u] = "open", NEW lines \in Seq(Line)
  PROVE  Fresh(Answer(u, lines))
<1>1. ASSUME NEW i \in DOMAIN lines PROVE Reply(u, lines[i]) \in Said
  <2>1. lines[i] \in Line
    OBVIOUS
  <2> QED
    BY <2>1, ReplyType
<1>2. \A i \in 1..Len(lines) : To(u, Reply(u, lines[i])) \in Pending
  BY <1>1 DEF To, Pending
<1>3. Answer(u, lines) = [i \in 1..Len(lines) |-> To(u, Reply(u, lines[i]))]
  BY DEF Answer
<1>4. Answer(u, lines) \in Seq(Pending)
  BY <1>2, <1>3
<1> QED
  BY <1>3, <1>4 DEF Fresh, To

\* So is a line to each of some users that have come.
LEMMA ToAllFresh ==
  ASSUME NEW s \in Seq(User), NEW r \in Said,
         \A i \in DOMAIN s : life[s[i]] # "new"
  PROVE  Fresh(ToAll(s, r))
<1>1. ToAll(s, r) = [i \in 1..Len(s) |-> To(s[i], r)]
  BY DEF ToAll
<1>2. \A i \in 1..Len(s) : To(s[i], r) \in Pending
  BY DEF To, Pending
<1> QED
  BY <1>1, <1>2 DEF Fresh, To

----------------------------------------------------------------------------
(* Steps that change no individual_lock *)

\* A thread that has nothing to send queues fresh lines, perhaps none.
LEMMA Queued ==
  ASSUME WholeInv, NEW u \in User, Ready(u), NEW out, Fresh(out),
         Sending(u, out), Local
  PROVE  WholeInv'
<1>1. TypeOK'
  BY DEF WholeInv, TypeOK, Local, Sending, Fresh
<1>2. Descriptors'
  BY DEF WholeInv, Descriptors, Local
<1>3. \A v \in User : todo'[v] = IF v = u THEN out ELSE todo[v]
  BY DEF WholeInv, TypeOK, Sending
<1>4. todo[u] = <<>>
  BY DEF Ready
<1>5. NothingEarly'
  <2>1. ASSUME NEW v \in User, NEW i \in DOMAIN todo'[v]
        PROVE  life[todo'[v][i].to] # "new"
    BY <1>3 DEF WholeInv, NothingEarly, Fresh
  <2> QED
    BY <2>1 DEF WholeInv, NothingEarly, Local
<1>6. \A v \in User : Open(v) <=> Open(v)'
  BY <1>3, <1>4 DEF Open, Out, Fresh
<1>7. \A v \in User : Open(v) => Out(v)' = Out(v)
  BY <1>3, <1>4 DEF Open, Out
<1>8. OneOpen'
  <2>1. \A v \in User : \A i \in DOMAIN todo'[v] : i # 1 => todo'[v][i].left = 1
    BY <1>3 DEF WholeInv, OneOpen, Fresh
  <2>2. \A v \in User : Open(v)' => ilock'[Out(v)'.to] \in {v, DESTROYED}
    BY <1>6, <1>7 DEF WholeInv, OneOpen, Local
  <2>3. \A v, w \in User : ilock'[v] = w => Open(w)' /\ Out(w)'.to = v
    BY <1>6, <1>7 DEF WholeInv, OneOpen, Local
  <2> QED
    BY <2>1, <2>2, <2>3 DEF OneOpen
<1>9. ASSUME NEW c \in User, Private(c)'
      PROVE  Whole(c)' /\ (Receiving(c)' => Ends(c)')
  <2>1. Private(c)
    BY <1>9 DEF Private, Shared, Local
  <2>2. Whole(c)'
    BY <2>1 DEF WholeInv, Whole, Local
  <2>3. ASSUME Receiving(c)' PROVE Ends(c)'
    <3>1. Ends(c)
      BY <2>1, <2>3 DEF WholeInv, Receiving, Local
    <3>2. CASE ilock[c] = NULL
      BY <3>1, <3>2 DEF Ends, Local
    <3>3. CASE ilock[c] # NULL
      <4>1. ilock[c] \in User
        BY <3>3, <2>1 DEF WholeInv, TypeOK, Private
      <4>2. Out(ilock[c])' = Out(ilock[c])
        BY <4>1, <1>7 DEF WholeInv, OneOpen, Local
      <4> QED
        BY <3>1, <3>3, <4>2 DEF Ends, Local, SameReply
    <3> QED
      BY <3>2, <3>3
  <2> QED
    BY <2>2, <2>3
<1> QED
  BY <1>1, <1>2, <1>5, <1>8, <1>9 DEF WholeInv
----------------------------------------------------------------------------
(* Connections that come and go *)

\* A step that sends nothing and takes or releases no lock of a receiver, and
\* after which fewer can be written to, or as many.
LEMMA Fewer ==
  ASSUME WholeInv, TypeOK', Descriptors',
         UNCHANGED <<ilock, fd, written, todo, members>>,
         \A v \in User : life'[v] = "new" <=> life[v] = "new",
         \A c \in User : life[c] # "new" /\ Receiving(c)' => Receiving(c)
  PROVE  WholeInv'
<1>1. NothingEarly'
  <2>1. \A i \in DOMAIN members : members[i] \in User
    BY DEF WholeInv, TypeOK
  <2>2. \A v \in User : \A i \in DOMAIN todo[v] : todo[v][i].to \in User
    BY PendingType DEF WholeInv
  <2> QED
    BY <2>1, <2>2 DEF WholeInv, NothingEarly
<1>2. OneOpen'
  BY DEF WholeInv, OneOpen, Open, Out
<1>3. ASSUME NEW c \in User, Private(c)'
      PROVE  Whole(c)' /\ (Receiving(c)' => Ends(c)')
  <2>1. Private(c) /\ life[c] # "new"
    BY <1>3 DEF Private, Shared
  <2>2. Whole(c)' = Whole(c) /\ Ends(c)' = Ends(c)
    BY DEF Whole, Ends, SameReply, Out
  <2> QED
    BY <2>1, <2>2 DEF WholeInv
<1> QED
  BY <1>1, <1>2, <1>3 DEF WholeInv

\* A descriptor that is closed stands for nothing.
LEMMA Closed ==
  ASSUME WholeInv, NEW u \in User, life[u] = "open", TypeOK',
         NEW how \in {"quit", "lost"}, life' = [life EXCEPT ![u] = how],
         sock' = [sock EXCEPT ![fd[u]] = NULL],
         UNCHANGED <<ilock, fd, up, written, todo, members>>
  PROVE  WholeInv'
<1>1. fd[u] \in Fd /\ sock[fd[u]] = u
  BY DEF WholeInv, TypeOK, Descriptors
<1>2. \A v \in User : life'[v] = IF v = u THEN how ELSE life[v]
  BY DEF WholeInv, TypeOK
<1>3. \A f \in Fd : sock'[f] = IF f = fd[u] THEN NULL ELSE sock[f]
  BY DEF WholeInv, TypeOK
<1>4. Descriptors'
  <2>1. ASSUME NEW f \in Fd, sock'[f] # NULL
        PROVE  fd[sock'[f]] = f /\ life'[sock'[f]] = "open"
    <3>1. sock'[f] = sock[f] /\ f # fd[u] /\ sock[f] \in User
      BY <1>3, <2>1 DEF WholeInv, TypeOK
    <3>2. fd[sock[f]] = f /\ life[sock[f]] = "open"
      BY <3>1, <2>1 DEF WholeInv, Descriptors
    <3> QED
      BY <3>1, <3>2, <1>2
  <2>2. ASSUME NEW v \in User, life'[v] = "open" PROVE sock'[fd[v]] = v
    <3>1. v # u /\ life[v] = "open"
      BY <1>2, <2>2
    <3>2. sock[fd[v]] = v /\ fd[v] \in Fd
      BY <3>1 DEF WholeInv, TypeOK, Descriptors
    <3> QED
      BY <3>1, <3>2, <1>1, <1>3
  <2>3. \A v \in User : fd[v] = NULL <=> life'[v] = "new"
    BY <1>2 DEF WholeInv, Descriptors
  <2> QED
    BY <2>1, <2>2, <2>3 DEF Descriptors
<1>5. \A v \in User : life'[v] = "new" <=> life[v] = "new"
  BY <1>2
<1>6. ASSUME NEW c \in User, life[c] # "new", Receiving(c)' PROVE Receiving(c)
  <2>1. up[c] /\ sock'[fd[c]] = c
    BY <1>6 DEF Receiving
  <2>2. fd[c] \in Fd
    BY <1>6 DEF WholeInv, TypeOK, Descriptors
  <2> QED
    BY <2>1, <2>2, <1>3, DeliveryConstants DEF Receiving
<1> QED
  BY <1>4, <1>5, <1>6, Fewer

\* accept returns a descriptor that was free.
LEMMA FreeFdFree ==
  ASSUME \E f \in Fd : sock[f] = NULL
  PROVE  FreeFd \in Fd /\ sock[FreeFd] = NULL
<1> DEFINE S == {f \in Fd : sock[f] = NULL}
<1>1. S \subseteq Nat /\ S # {}
  BY DeliveryConstants
<1>2. \E f \in S : \A g \in S : f <= g
  BY <1>1, Least
<1>3. \E f \in Fd : sock[f] = NULL /\ \A g \in Fd : sock[g] = NULL => f <= g
  BY <1>2
<1> QED
  BY <1>3 DEF FreeFd

\* A new connection has no part in what was there.
LEMMA AcceptWhole ==
  ASSUME WholeInv, NEW v \in User, Accept(v)
  PROVE  WholeInv'
<1>0. FreeFd \in Fd /\ sock[FreeFd] = NULL /\ life[v] = "new" /\ fd[v] = NULL
  BY FreeFdFree DEF Accept, WholeInv, Descriptors
<1>1. TypeOK'
  <2>1. TypeOK /\ life' = [life EXCEPT ![v] = "open"]
        /\ fd' = [fd EXCEPT ![v] = FreeFd] /\ sock' = [sock EXCEPT ![FreeFd] = v]
        /\ pc' = [pc EXCEPT ![v] = "recv"]
        /\ UNCHANGED <<proc, lock, ilock, up, reg, written, members, todo, at,
                       commands, calm>>
    BY DEF WholeInv, Accept, Goto
  <2>2. /\ life' \in [User -> {"new", "open", "quit", "lost"}]
        /\ fd' \in [User -> Fd \cup {NULL}] /\ sock' \in [Fd -> User \cup {NULL}]
        /\ pc' \in [User -> Where]
    <3>1. life' \in [User -> {"new", "open", "quit", "lost"}]
      BY <2>1 DEF TypeOK
    <3>2. fd' \in [User -> Fd \cup {NULL}]
      BY <1>0, <2>1 DEF TypeOK
    <3>3. sock' \in [Fd -> User \cup {NULL}]
      BY <1>0, <2>1 DEF TypeOK
    <3>4. pc' \in [User -> Where]
      BY <2>1 DEF TypeOK, Where
    <3> QED
      BY <3>1, <3>2, <3>3, <3>4
  <2> QED
    BY <2>1, <2>2 DEF TypeOK
<1> DEFINE f == FreeFd
<1> HIDE DEF f
<1>2. /\ \A u \in User : life'[u] = IF u = v THEN "open" ELSE life[u]
      /\ \A u \in User : fd'[u] = IF u = v THEN f ELSE fd[u]
      /\ \A g \in Fd : sock'[g] = IF g = f THEN v ELSE sock[g]
      /\ f \in Fd /\ sock[f] = NULL
  BY <1>0 DEF Accept, WholeInv, TypeOK, f
<1>3. UNCHANGED <<ilock, up, written, members, todo>>
  BY DEF Accept
<1>4. Descriptors'
  <2>1. \A u \in User : fd'[u] = NULL <=> life'[u] = "new"
    BY <1>2, DeliveryConstants DEF WholeInv, Descriptors
  <2>2. ASSUME NEW g \in Fd, sock'[g] # NULL
        PROVE  fd'[sock'[g]] = g /\ life'[sock'[g]] = "open"
    <3>1. CASE g = f
      BY <3>1, <1>2
    <3>2. CASE g # f
      <4>1. sock'[g] = sock[g] /\ sock[g] \in User
        BY <3>2, <2>2, <1>2 DEF WholeInv, TypeOK
      <4>2. fd[sock[g]] = g /\ life[sock[g]] = "open"
        BY <4>1, <2>2 DEF WholeInv, Descriptors
      <4> QED
        BY <4>1, <4>2, <1>0, <1>2
    <3> QED
      BY <3>1, <3>2
  <2>3. ASSUME NEW u \in User, life'[u] = "open" PROVE sock'[fd'[u]] = u
    <3>1. CASE u = v
      BY <3>1, <1>2
    <3>2. CASE u # v
      <4>1. life[u] = "open" /\ fd'[u] = fd[u]
        BY <3>2, <2>3, <1>2
      <4>2. sock[fd[u]] = u /\ fd[u] \in Fd
        BY <4>1 DEF WholeInv, TypeOK, Descriptors
      <4> QED
        BY <4>1, <4>2, <1>2, DeliveryConstants
    <3> QED
      BY <3>1, <3>2
  <2> QED
    BY <2>1, <2>2, <2>3 DEF Descriptors
<1>5. NothingEarly'
  <2>1. \A i \in DOMAIN members : members[i] \in User
    BY DEF WholeInv, TypeOK
  <2>2. \A u \in User : \A i \in DOMAIN todo[u] : todo[u][i].to \in User
    BY PendingType DEF WholeInv
  <2> QED
    BY <2>1, <2>2, <1>2, <1>3 DEF WholeInv, NothingEarly
<1>6. OneOpen'
  BY <1>3 DEF WholeInv, OneOpen, Open, Out
<1>7. ASSUME NEW c \in User, Private(c)'
      PROVE  Whole(c)' /\ (Receiving(c)' => Ends(c)')
  <2>0. Whole(c)' = Whole(c) /\ Ends(c)' = Ends(c)
    BY <1>3 DEF Whole, Ends, SameReply, Out
  <2>1. CASE c = v
    <3>1. written[c] = <<>> /\ ilock[c] = NULL
      BY <2>1, <1>0 DEF WholeInv, NothingEarly
    <3>2. Whole(c) /\ Ends(c)
      BY <3>1 DEF Whole, Ends
    <3> QED
      BY <3>2, <2>0
  <2>2. CASE c # v
    <3>1. life[c] # "new" /\ fd'[c] = fd[c] /\ fd[c] \in Fd
      BY <2>2, <1>2, <1>7 DEF Private, WholeInv, TypeOK, Descriptors
    <3>2. ~Shared(c)
      BY <3>1, <1>0, <1>2, <1>7, DeliveryConstants DEF Private, Shared
    <3>3. Private(c)
      BY <3>1, <3>2, <1>3, <1>7 DEF Private
    <3>4. Receiving(c)' => Receiving(c)
      BY <3>1, <2>2, <1>2, <1>3 DEF Receiving
    <3> QED
      BY <3>3, <3>4, <2>0 DEF WholeInv
  <2> QED
    BY <2>1, <2>2
<1> QED
  BY <1>1, <1>4, <1>5, <1>6, <1>7 DEF WholeInv

\* The client's end goes away.
LEMMA ResetWhole ==
  ASSUME WholeInv, NEW c \in User, Reset(c)
  PROVE  WholeInv'
<1>1. TypeOK'
  BY DEF WholeInv, TypeOK, Reset
<1>2. Descriptors'
  BY DEF WholeInv, Descriptors, Reset
<1>3. \A d \in User : Receiving(d)' => Receiving(d)
  BY DEF WholeInv, TypeOK, Reset, Receiving
<1> QED
  BY <1>1, <1>2, <1>3, Fewer DEF Reset

\* The client is gone without QUIT.
LEMMA DisconnectWhole ==
  ASSUME WholeInv, NEW u \in User, Disconnect(u)
  PROVE  WholeInv'
<1>1. life[u] = "open" /\ "lost" \in {"quit", "lost"}
  BY DEF Disconnect, At, Ready
<1>2. TypeOK'
  BY DEF WholeInv, TypeOK, Disconnect
<1> QED
  BY <1>1, <1>2, Closed DEF Disconnect

\* QUIT closes the socket.
LEMMA QuitCloseWhole ==
  ASSUME WholeInv, NEW u \in User, QuitClose(u)
  PROVE  WholeInv'
<1>1. life[u] = "open" /\ "quit" \in {"quit", "lost"}
  BY DEF QuitClose, At, Ready
<1>2. TypeOK'
  BY DEF WholeInv, TypeOK, QuitClose
<1> QED
  BY <1>1, <1>2, Closed DEF QuitClose

\* The process ends.
LEMMA SendKillsWhole ==
  ASSUME WholeInv, NEW u \in User, SendKills(u)
  PROVE  WholeInv'
<1>1. TypeOK'
  BY DEF WholeInv, TypeOK, SendKills, peers
<1>2. Descriptors'
  BY DEF WholeInv, Descriptors, SendKills, peers
<1> QED
  BY <1>1, <1>2, Fewer DEF SendKills, peers, Receiving

----------------------------------------------------------------------------
(* Steps that change an individual_lock *)

\* QUIT destroys a lock that nobody holds: nobody was in the middle of a line
\* to its owner, and nothing is promised to it afterwards.
LEMMA QuitDestroyWhole ==
  ASSUME WholeInv, NEW u \in User, QuitDestroy(u)
  PROVE  WholeInv'
<1>0. /\ UNCHANGED <<life, fd, sock, up, written, members, todo>>
      /\ \A v \in User : ilock'[v] = IF v = u /\ ilock[u] = NULL
                                      THEN DESTROYED ELSE ilock[v]
      /\ life[u] = "open"
  BY DEF QuitDestroy, At, Ready, peers, WholeInv, TypeOK
<1>1. TypeOK'
  BY DEF WholeInv, TypeOK, QuitDestroy, Goto, peers, Where
<1>2. Descriptors'
  BY <1>0 DEF WholeInv, Descriptors
<1>3. NothingEarly'
  <2>1. \A v \in User : life[v] = "new" => ilock'[v] = ilock[v]
    BY <1>0
  <2> QED
    BY <1>0, <2>1 DEF WholeInv, NothingEarly
<1>4. OneOpen'
  <2>1. \A v \in User : Open(v)' = Open(v) /\ Out(v)' = Out(v)
    BY <1>0 DEF Open, Out
  <2>2. ASSUME NEW v \in User, Open(v) PROVE ilock'[Out(v).to] \in {v, DESTROYED}
    <3>1. ilock[Out(v).to] \in {v, DESTROYED}
      BY <2>2 DEF WholeInv, OneOpen
    <3>2. Out(v).to \in User
      BY <2>2, OutType DEF WholeInv, Open
    <3> QED
      BY <3>1, <3>2, <1>0, DeliveryConstants
  <2>3. ASSUME NEW v \in User, NEW w \in User, ilock'[v] = w
        PROVE  Open(w) /\ Out(w).to = v
    BY <2>3, <1>0, DeliveryConstants DEF WholeInv, OneOpen
  <2> QED
    BY <1>0, <2>1, <2>2, <2>3 DEF WholeInv, OneOpen
<1>5. ASSUME NEW c \in User, Private(c)'
      PROVE  Whole(c)' /\ (Receiving(c)' => Ends(c)')
  <2>1. ilock'[c] = ilock[c]
    BY <1>0, <1>5 DEF Private
  <2>2. Private(c)
    BY <2>1, <1>0, <1>5 DEF Private, Shared
  <2>3. Whole(c)' = Whole(c) /\ Ends(c)' = Ends(c) /\ Receiving(c)' = Receiving(c)
    BY <2>1, <1>0 DEF Whole, Ends, SameReply, Out, Receiving
  <2> QED
    BY <2>2, <2>3 DEF WholeInv
<1> QED
  BY <1>1, <1>2, <1>3, <1>4, <1>5 DEF WholeInv

\* The lock of another receiver is not that of the thread that sends.
LEMMA Elsewhere ==
  ASSUME OneOpen, TypeOK, NEW u \in User, NEW v \in User, Out(u).to # v
  PROVE  ilock[v] # u
BY DEF OneOpen

\* How the connection of another receiver ends is as it was.
LEMMA OthersEnd ==
  ASSUME WholeInv, NEW u \in User, NEW c \in User, Out(u).to # c,
         ilock'[c] = ilock[c], ilock[c] # DESTROYED, written'[c] = written[c],
         \A w \in User : w # u => todo'[w] = todo[w], Ends(c)
  PROVE  Ends(c)'
<1>1. ilock[c] # u
  BY Elsewhere DEF WholeInv
<1>2. ilock[c] = NULL \/ ilock[c] \in User
  BY DEF WholeInv, TypeOK
<1>3. ilock[c] \in User => Out(ilock[c])' = Out(ilock[c])
  BY <1>1 DEF Out
<1> QED
  BY <1>1, <1>2, <1>3 DEF Ends, SameReply

\* The end of a line, written or not.
LEMMA Finished ==
  ASSUME WholeInv, NEW u \in User, todo[u] # <<>>,
         ilock[Out(u).to] \in {NULL, u, DESTROYED}, Done(u),
         ilock' = [ilock EXCEPT ![Out(u).to] = Unlocked(@, u, FALSE)]
  PROVE  /\ todo' \in [User -> Seq(Pending)] /\ OneOpen'
         /\ ilock' \in [User -> User \cup {NULL, DESTROYED}]
<1> DEFINE v == Out(u).to
<1>0. v \in User /\ todo[u] \in Seq(Pending)
  BY OutType DEF WholeInv, TypeOK
<1> HIDE DEF v
<1>1. /\ \A x \in User : ilock'[x] = IF x = v THEN Unlocked(ilock[v], u, FALSE)
                                      ELSE ilock[x]
      /\ \A w \in User : todo'[w] = IF w = u THEN Tail(todo[u]) ELSE todo[w]
  BY <1>0 DEF Done, WholeInv, TypeOK, v
<1>2. Unlocked(ilock[v], u, FALSE) = IF ilock[v] = DESTROYED THEN DESTROYED ELSE NULL
  BY DeliveryConstants DEF Unlocked, v
<1>3. Tail(todo[u]) \in Seq(Pending)
  BY <1>0
<1>4. todo' \in [User -> Seq(Pending)]
  BY <1>3 DEF Done, WholeInv, TypeOK
<1>5. ilock' \in [User -> User \cup {NULL, DESTROYED}]
  BY <1>0, <1>2 DEF WholeInv, TypeOK, v
<1>6. \A i \in DOMAIN Tail(todo[u]) : Tail(todo[u])[i].left = 1
  <2>1. ASSUME NEW i \in DOMAIN Tail(todo[u]) PROVE Tail(todo[u])[i].left = 1
    <3>1. i + 1 \in DOMAIN todo[u] /\ i + 1 # 1 /\ Tail(todo[u])[i] = todo[u][i + 1]
      BY <1>0
    <3> QED
      BY <3>1 DEF WholeInv, OneOpen
  <2> QED
    BY <2>1
<1>7. ~Open(u)'
  <2>1. CASE Tail(todo[u]) = <<>>
    BY <2>1, <1>1 DEF Open
  <2>2. CASE Tail(todo[u]) # <<>>
    <3>1. 1 \in DOMAIN Tail(todo[u]) /\ Head(Tail(todo[u])) = Tail(todo[u])[1]
      BY <2>2, <1>3
    <3>2. Head(Tail(todo[u])).left = 1
      BY <3>1, <1>6
    <3>3. todo'[u] = Tail(todo[u])
      BY <1>1
    <3> QED
      BY <3>2, <3>3 DEF Open, Out
  <2> QED
    BY <2>1, <2>2
<1>8. \A w \in User : w # u => Open(w)' = Open(w) /\ Out(w)' = Out(w)
  BY <1>1 DEF Open, Out
<1>9. OneOpen'
  <2>1. ASSUME NEW w \in User, NEW i \in DOMAIN todo'[w], i # 1
        PROVE  todo'[w][i].left = 1
    <3>1. CASE w = u
      BY <3>1, <1>1, <1>6
    <3>2. CASE w # u
      BY <3>2, <2>1, <1>1 DEF WholeInv, OneOpen
    <3> QED
      BY <3>1, <3>2
  <2>2. ASSUME NEW w \in User, Open(w)'
        PROVE  ilock'[Out(w)'.to] \in {w, DESTROYED}
    <3>1. w # u /\ Open(w) /\ Out(w)' = Out(w)
      BY <2>2, <1>7, <1>8
    <3>2. Out(w).to \in User /\ ilock[Out(w).to] \in {w, DESTROYED}
      BY <3>1, OutType DEF WholeInv, OneOpen, Open
    <3>3. CASE Out(w).to = v
      BY <3>1, <3>2, <3>3, <1>1, <1>2, DeliveryConstants DEF v
    <3>4. CASE Out(w).to # v
      BY <3>1, <3>2, <3>4, <1>1
    <3> QED
      BY <3>3, <3>4
  <2>3. ASSUME NEW x \in User, NEW w \in User, ilock'[x] = w
        PROVE  Open(w)' /\ Out(w)'.to = x
    <3>1. x # v
      BY <2>3, <1>0, <1>1, <1>2, DeliveryConstants
    <3>2. Open(w) /\ Out(w).to = x
      <4>1. ilock[x] = w
        BY <3>1, <2>3, <1>1
      <4> QED
        BY <4>1 DEF WholeInv, OneOpen
    <3>3. w # u
      BY <3>1, <3>2 DEF v
    <3> QED
      BY <3>2, <3>3, <1>8
  <2> QED
    BY <2>1, <2>2, <2>3 DEF OneOpen
<1> QED
  BY <1>4, <1>5, <1>9

\* A line that could not be written, or not the rest of it.  Its receiver
\* cannot be written to any more, if it has the descriptor alone.
LEMMA SendFailsWhole ==
  ASSUME WholeInv, NEW u \in User, SendFails(u)
  PROVE  WholeInv'
<1> DEFINE v == Out(u).to
<1>0. /\ todo[u] # <<>> /\ v \in User /\ todo[u] \in Seq(Pending)
      /\ UNCHANGED <<proc, lock, life, fd, sock, up, reg, written, members, pc,
                     at, commands, calm>>
  BY OutType DEF SendFails, peers, WholeInv, TypeOK
<1>1. /\ todo' \in [User -> Seq(Pending)] /\ OneOpen'
      /\ ilock' \in [User -> User \cup {NULL, DESTROYED}]
  BY <1>0, Finished DEF SendFails
<1>2. TypeOK' /\ Descriptors'
  BY <1>0, <1>1 DEF WholeInv, TypeOK, Descriptors
<1>3. /\ \A x \in User : x # v => ilock'[x] = ilock[x]
      /\ ilock'[v] = Unlocked(ilock[v], u, FALSE)
      /\ \A w \in User : todo'[w] = IF w = u THEN Tail(todo[u]) ELSE todo[w]
  BY <1>0 DEF SendFails, Done, WholeInv, TypeOK
<1>4. NothingEarly'
  <2>1. life[v] # "new"
    BY <1>0, OutType DEF WholeInv, NothingEarly
  <2>2. \A i \in DOMAIN Tail(todo[u]) : life[Tail(todo[u])[i].to] # "new"
    BY <1>0 DEF WholeInv, NothingEarly
  <2>3. ASSUME NEW w \in User, NEW i \in DOMAIN todo'[w]
        PROVE  life[todo'[w][i].to] # "new"
    <3>1. CASE w = u
      BY <3>1, <2>2, <1>3
    <3>2. CASE w # u
      BY <3>2, <1>3 DEF WholeInv, NothingEarly
    <3> QED
      BY <3>1, <3>2
  <2> QED
    BY <2>1, <2>3, <1>0, <1>3 DEF WholeInv, NothingEarly
<1>5. ASSUME NEW c \in User, Private(c)'
      PROVE  Whole(c)' /\ (Receiving(c)' => Ends(c)')
  <2>1. Private(c)
    BY <1>0, <1>3, <1>5, DeliveryConstants DEF Private, Shared, Unlocked
  <2>2. Whole(c)
    BY <2>1 DEF WholeInv
  <2>3. Whole(c)'
    BY <2>2, <1>0 DEF Whole, SameReply
  <2>4. CASE c = v
    <3>1. sock[fd[c]] = NULL \/ ~up[sock[fd[c]]]
      BY <2>4 DEF SendFails
    <3>2. ~Receiving(c)'
      BY <3>1, <1>0, DeliveryConstants DEF Receiving
    <3> QED
      BY <2>3, <3>2
  <2>5. CASE c # v
    <3>1. Receiving(c)' = Receiving(c)
      BY <1>0 DEF Receiving
    <3>2. Receiving(c) => Ends(c)
      BY <2>1 DEF WholeInv
    <3>3. Ends(c) => Ends(c)'
      BY <2>1, <2>5, <1>0, <1>3, OthersEnd DEF Private
    <3> QED
      BY <2>3, <3>1, <3>2, <3>3
  <2> QED
    BY <2>3, <2>4, <2>5
<1> QED
  BY <1>1, <1>2, <1>4, <1>5 DEF WholeInv

\* What is left to send is for users that have come.
LEMMA DoneEarly ==
  ASSUME WholeInv, NEW u \in User, todo[u] # <<>>, Done(u)
  PROVE  /\ \A w \in User : \A i \in DOMAIN todo'[w] : life[todo'[w][i].to] # "new"
         /\ \A w \in User : todo'[w] = IF w = u THEN Tail(todo[u]) ELSE todo[w]
<1>0. todo[u] \in Seq(Pending)
  BY DEF WholeInv, TypeOK
<1>1. \A w \in User : todo'[w] = IF w = u THEN Tail(todo[u]) ELSE todo[w]
  BY DEF Done, WholeInv, TypeOK
<1>2. \A i \in DOMAIN Tail(todo[u]) : life[Tail(todo[u])[i].to] # "new"
  BY <1>0 DEF WholeInv, NothingEarly
<1>3. ASSUME NEW w \in User, NEW i \in DOMAIN todo'[w]
      PROVE  life[todo'[w][i].to] # "new"
  <2>1. CASE w = u
    BY <2>1, <1>1, <1>2
  <2>2. CASE w # u
    BY <2>2, <1>1 DEF WholeInv, NothingEarly
  <2> QED
    BY <2>1, <2>2
<1> QED
  BY <1>1, <1>3

\* The first piece of a line: the lock was free, and is the sender's then.
LEMMA Begun ==
  ASSUME WholeInv, NEW u \in User, todo[u] # <<>>, Out(u).left = 1,
         ilock[Out(u).to] \in {NULL, u, DESTROYED},
         todo' = [todo EXCEPT ![u][1].left = 2],
         ilock' = [ilock EXCEPT ![Out(u).to] = Unlocked(@, u, TRUE)]
  PROVE  /\ todo' \in [User -> Seq(Pending)] /\ OneOpen'
         /\ ilock' \in [User -> User \cup {NULL, DESTROYED}]
         /\ \A w \in User : \A i \in DOMAIN todo'[w] : life[todo'[w][i].to] # "new"
         /\ \A w \in User : w # u => todo'[w] = todo[w]
         /\ todo'[u] # <<>> /\ Out(u)'.to = Out(u).to /\ Out(u)'.reply = Out(u).reply
<1> DEFINE v == Out(u).to
           first == [todo[u][1] EXCEPT !.left = 2]
           begun == [todo[u] EXCEPT ![1] = first]
<1>0. /\ v \in User /\ todo[u] \in Seq(Pending) /\ 1 \in DOMAIN todo[u]
      /\ Out(u) = todo[u][1] /\ todo[u][1] \in Pending
  BY OutType DEF WholeInv, TypeOK
<1>1. first \in Pending /\ first.to = v /\ first.left = 2
      /\ first.reply = Out(u).reply
  BY <1>0 DEF Pending
<1>2. /\ begun \in Seq(Pending) /\ begun # <<>> /\ begun[1] = first
      /\ DOMAIN begun = DOMAIN todo[u]
      /\ \A i \in DOMAIN begun : i # 1 => begun[i] = todo[u][i]
  BY <1>0, <1>1
<1>3. \A w \in User : todo'[w] = IF w = u THEN begun ELSE todo[w]
  BY DEF WholeInv, TypeOK
<1>4. todo' \in [User -> Seq(Pending)]
  BY <1>2 DEF WholeInv, TypeOK
<1>5. ilock' \in [User -> User \cup {NULL, DESTROYED}]
  BY <1>0 DEF WholeInv, TypeOK, Unlocked
<1>6. \A x \in User : ilock'[x] = IF x # v THEN ilock[x]
                   ELSE IF ilock[v] = DESTROYED THEN DESTROYED ELSE u
  BY <1>0, DeliveryConstants DEF WholeInv, TypeOK, Unlocked
<1> HIDE DEF v, first, begun
<1>7. Open(u)' /\ Out(u)' = first
  BY <1>1, <1>2, <1>3 DEF Open, Out
<1>8. \A w \in User : w # u => Open(w)' = Open(w) /\ Out(w)' = Out(w)
  BY <1>3 DEF Open, Out
<1>9. ~Open(u)
  BY DEF Open
<1>10. OneOpen'
  <2>1. ASSUME NEW w \in User, NEW i \in DOMAIN todo'[w], i # 1
        PROVE  todo'[w][i].left = 1
    <3>1. CASE w = u
      <4>1. i \in DOMAIN todo[u] /\ todo'[w][i] = todo[u][i]
        BY <3>1, <2>1, <1>2, <1>3
      <4> QED
        BY <4>1, <2>1 DEF WholeInv, OneOpen
    <3>2. CASE w # u
      BY <3>2, <2>1, <1>3 DEF WholeInv, OneOpen
    <3> QED
      BY <3>1, <3>2
  <2>2. ASSUME NEW w \in User, Open(w)'
        PROVE  ilock'[Out(w)'.to] \in {w, DESTROYED}
    <3>1. CASE w = u
      BY <3>1, <1>0, <1>1, <1>6, <1>7
    <3>2. CASE w # u
      <4>1. Open(w) /\ Out(w)' = Out(w)
        BY <3>2, <2>2, <1>8
      <4>2. Out(w).to \in User /\ ilock[Out(w).to] \in {w, DESTROYED}
        BY <4>1, OutType DEF WholeInv, OneOpen, Open
      <4>3. CASE Out(w).to = v
        <5>1. ilock[v] = DESTROYED
          BY <4>2, <4>3, <3>2, DeliveryConstants DEF v
        <5> QED
          BY <5>1, <4>1, <4>3, <1>0, <1>6
      <4>4. CASE Out(w).to # v
        BY <4>1, <4>2, <4>4, <1>6
      <4> QED
        BY <4>3, <4>4
    <3> QED
      BY <3>1, <3>2
  <2>3. ASSUME NEW x \in User, NEW w \in User, ilock'[x] = w
        PROVE  Open(w)' /\ Out(w)'.to = x
    <3>1. CASE x = v
      <4>1. w = u
        BY <3>1, <2>3, <1>0, <1>6, DeliveryConstants
      <4> QED
        BY <4>1, <3>1, <1>1, <1>7
    <3>2. CASE x # v
      <4>1. ilock[x] = w
        BY <3>2, <2>3, <1>6
      <4>2. Open(w) /\ Out(w).to = x
        BY <4>1 DEF WholeInv, OneOpen
      <4>3. w # u
        BY <4>2, <1>9
      <4> QED
        BY <4>2, <4>3, <1>8
    <3> QED
      BY <3>1, <3>2
  <2> QED
    BY <2>1, <2>2, <2>3 DEF OneOpen
<1>11. ASSUME NEW w \in User, NEW i \in DOMAIN todo'[w]
       PROVE  life[todo'[w][i].to] # "new"
  <2>1. CASE w # u
    BY <2>1, <1>3 DEF WholeInv, NothingEarly
  <2>2. CASE w = u /\ i = 1
    BY <2>2, <1>0, <1>1, <1>2, <1>3 DEF WholeInv, NothingEarly, v
  <2>3. CASE w = u /\ i # 1
    <3>1. i \in DOMAIN todo[u] /\ todo'[w][i] = todo[u][i]
      BY <2>3, <1>2, <1>3
    <3> QED
      BY <3>1 DEF WholeInv, NothingEarly
  <2> QED
    BY <2>1, <2>2, <2>3
<1> QED
  BY <1>1, <1>2, <1>3, <1>4, <1>5, <1>7, <1>10, <1>11 DEF v

\* Another piece: the first of a line after a whole one, or the last after the
\* first of the same.
LEMMA SendWhole ==
  ASSUME WholeInv, NEW u \in User, Send(u)
  PROVE  WholeInv'
<1> DEFINE v == Out(u).to
           d == sock[fd[v]]
           piece == [to |-> v, reply |-> Out(u).reply, piece |-> Out(u).left]
<1>0. /\ todo[u] # <<>> /\ todo[u] \in Seq(Pending) /\ 1 \in DOMAIN todo[u]
      /\ Out(u) = todo[u][1] /\ Out(u).left \in {1, 2}
      /\ v \in User /\ Out(u).reply \in Said
      /\ UNCHANGED <<proc, lock, life, fd, sock, up, reg, members, pc, at,
                     commands, calm>>
  <2>1. todo[u] # <<>> /\ todo[u] \in Seq(Pending)
    BY DEF Send, WholeInv, TypeOK
  <2>2. 1 \in DOMAIN todo[u]
    BY <2>1
  <2> QED
    BY <2>1, <2>2, OutType DEF Send, peers, WholeInv
<1>1. /\ d \in User /\ fd[d] = fd[v] /\ life[d] = "open"
      /\ fd[v] \in Fd
  <2>1. life[v] # "new"
    BY <1>0 DEF WholeInv, NothingEarly
  <2>2. fd[v] \in Fd
    BY <1>0, <2>1 DEF WholeInv, TypeOK, Descriptors
  <2>3. d # NULL
    BY DEF Send
  <2> QED
    BY <2>2, <2>3 DEF WholeInv, TypeOK, Descriptors
<1>2. piece \in Piece
  BY <1>0 DEF Piece
<1>3. /\ \A x \in User : ilock'[x] =
           IF x = v THEN Unlocked(ilock[v], u, Out(u).left = 1) ELSE ilock[x]
      /\ \A c \in User : written'[c] =
           IF c = d THEN Append(written[d], piece) ELSE written[c]
      /\ written' \in [User -> Seq(Piece)]
      /\ ilock[v] \in {NULL, u, DESTROYED}
  <2>1. ilock[v] \in {NULL, u, DESTROYED}
    BY DEF Send
  <2>2. ilock' = [ilock EXCEPT ![v] = Unlocked(@, u, Out(u).left = 1)]
    BY DEF Send
  <2>3. written' = [written EXCEPT ![d] = Append(@, piece)]
    BY DEF Send
  <2>4. Append(written[d], piece) \in Seq(Piece)
    BY <1>1, <1>2 DEF WholeInv, TypeOK
  <2> QED
    BY <2>1, <2>2, <2>3, <2>4, <1>0, <1>1 DEF WholeInv, TypeOK
<1>4. /\ todo' \in [User -> Seq(Pending)] /\ OneOpen'
      /\ ilock' \in [User -> User \cup {NULL, DESTROYED}]
      /\ \A w \in User : \A i \in DOMAIN todo'[w] : life[todo'[w][i].to] # "new"
      /\ \A w \in User : w # u => todo'[w] = todo[w]
      /\ Out(u).left = 1 =>
           todo'[u] # <<>> /\ Out(u)'.to = v /\ Out(u)'.reply = Out(u).reply
  <2>1. CASE Out(u).left = 1
    <3>1. /\ todo' = [todo EXCEPT ![u][1].left = 2]
          /\ ilock' = [ilock EXCEPT ![v] = Unlocked(@, u, TRUE)]
          /\ ilock[v] \in {NULL, u, DESTROYED}
      BY <2>1 DEF Send
    <3> QED
      BY <2>1, <3>1, <1>0, Begun
  <2>2. CASE Out(u).left = 2
    <3>1. /\ Done(u) /\ ilock' = [ilock EXCEPT ![v] = Unlocked(@, u, FALSE)]
          /\ ilock[v] \in {NULL, u, DESTROYED}
      <4>1. (Out(u).left = 1) = FALSE
        BY <2>2
      <4> QED
        BY <4>1 DEF Send
    <3>2. todo' \in [User -> Seq(Pending)] /\ OneOpen'
          /\ ilock' \in [User -> User \cup {NULL, DESTROYED}]
      BY <3>1, <1>0, Finished
    <3>3. /\ \A w \in User : \A i \in DOMAIN todo'[w] : life[todo'[w][i].to] # "new"
          /\ \A w \in User : todo'[w] = IF w = u THEN Tail(todo[u]) ELSE todo[w]
      BY <3>1, <1>0, DoneEarly
    <3> QED
      BY <2>2, <3>2, <3>3
  <2> QED
    BY <2>1, <2>2, <1>0
<1> HIDE DEF v, d, piece
<1>5. TypeOK' /\ Descriptors'
  BY <1>0, <1>3, <1>4 DEF WholeInv, TypeOK, Descriptors
<1>6. NothingEarly'
  <2>1. life[v] # "new"
    BY <1>0 DEF WholeInv, NothingEarly, v
  <2>2. \A x \in User : life'[x] = "new" => written'[x] = <<>> /\ ilock'[x] = NULL
    BY <2>1, <1>0, <1>1, <1>3 DEF WholeInv, NothingEarly
  <2> QED
    BY <2>2, <1>0, <1>4 DEF WholeInv, NothingEarly
<1>7. ASSUME NEW c \in User, Private(c)', c = d
      PROVE  Whole(c)' /\ (Receiving(c)' => Ends(c)')
  <2>1. Private(c) /\ c = v
    BY <1>0, <1>1, <1>3, <1>7, DeliveryConstants
       DEF Private, Shared, Unlocked
  <2>2. Whole(c) /\ up[c] /\ sock[fd[c]] = c
    BY <2>1, <1>7 DEF WholeInv, Send, d, v
  <2>3. Ends(c)
    BY <2>1, <2>2 DEF WholeInv, Receiving
  <2> DEFINE n == Len(written[c])
             p == written[c][n]
  <2>4. /\ written[c] \in Seq(Piece) /\ written'[c] = Append(written[c], piece)
        /\ Len(written'[c]) = n + 1 /\ n \in Nat /\ written'[c][n + 1] = piece
        /\ \A i \in 1..n : written'[c][i] = written[c][i]
        /\ written[c] # <<>> => n > 0
    <3>1. written[c] \in Seq(Piece) /\ written'[c] = Append(written[c], piece)
      BY <1>3, <1>7 DEF WholeInv, TypeOK
    <3> QED
      BY <3>1, <1>2
  <2>5. ASSUME written[c] = <<>> \/ (IF p.piece = 1
                                     THEN SameReply(p, piece) /\ piece.piece = 2
                                     ELSE piece.piece = 1)
        PROVE  Whole(c)'
    <3>1. ASSUME NEW i \in 1..n
          PROVE  LET x == written'[c][i]  y == written'[c][i + 1]
                 IN  IF x.piece = 1 THEN SameReply(x, y) /\ y.piece = 2
                     ELSE y.piece = 1
      <4>1. CASE i = n
        BY <4>1, <2>4, <2>5 DEF SameReply
      <4>2. CASE i # n
        <5>1. i \in 1..(n - 1) /\ i \in 1..n /\ i + 1 \in 1..n
          BY <4>2, <2>4
        <5>2. written'[c][i] = written[c][i] /\ written'[c][i + 1] = written[c][i + 1]
          BY <5>1, <2>4
        <5>3. LET x == written[c][i]  y == written[c][i + 1]
              IN  IF x.piece = 1 THEN SameReply(x, y) /\ y.piece = 2
                  ELSE y.piece = 1
          BY <5>1, <2>2 DEF Whole
        <5> QED
          BY <5>2, <5>3 DEF SameReply
      <4> QED
        BY <4>1, <4>2
    <3> QED
      BY <3>1, <2>4 DEF Whole, SameReply
  <2>6. CASE Out(u).left = 1
    <3>1. ilock[c] = NULL
      BY <2>1, <2>6, <1>3, DeliveryConstants DEF Private, WholeInv, OneOpen, Open
    <3>2. written[c] = <<>> \/ p.piece = 2
      BY <3>1, <2>3 DEF Ends
    <3>3. piece.piece = 1 /\ piece.to = v /\ piece.reply = Out(u).reply
      BY <2>6 DEF piece
    <3>4. ilock'[c] = u /\ u # NULL
      BY <3>1, <2>1, <2>6, <1>3, DeliveryConstants DEF Unlocked
    <3>5. written'[c] # <<>> /\ written'[c][Len(written'[c])] = piece
      BY <2>4
    <3>6. SameReply(piece, Out(u)')
      BY <3>3, <2>6, <1>4 DEF SameReply
    <3>7. Ends(c)'
      BY <3>3, <3>4, <3>5, <3>6 DEF Ends, SameReply
    <3> QED
      BY <3>2, <3>3, <3>7, <2>5
  <2>7. CASE Out(u).left = 2
    <3>1. ilock[c] = u /\ u # NULL
      BY <2>1, <2>7, <1>0, DeliveryConstants
         DEF Private, WholeInv, OneOpen, Open, v
    <3>2. written[c] # <<>> /\ p.piece = 1 /\ SameReply(p, Out(u))
      BY <3>1, <2>3 DEF Ends
    <3>3. piece.piece = 2 /\ piece.to = v /\ piece.reply = Out(u).reply
      BY <2>7 DEF piece
    <3>4. ilock'[c] = NULL
      BY <3>1, <2>1, <2>7, <1>3, DeliveryConstants DEF Unlocked
    <3>5. written'[c][Len(written'[c])] = piece
      BY <2>4
    <3>6. SameReply(p, piece)
      BY <3>2, <3>3 DEF SameReply, v
    <3>7. Ends(c)'
      BY <3>3, <3>4, <3>5 DEF Ends
    <3> QED
      BY <3>2, <3>3, <3>6, <3>7, <2>5
  <2> QED
    BY <2>6, <2>7, <1>0
<1>8. ASSUME NEW c \in User, Private(c)', c # d
      PROVE  Whole(c)' /\ (Receiving(c)' => Ends(c)')
  <2>1. written'[c] = written[c]
    BY <1>3, <1>8
  <2>2. Private(c)
    BY <1>0, <1>3, <1>8, DeliveryConstants DEF Private, Shared, Unlocked
  <2>3. Whole(c)'
    BY <2>1, <2>2 DEF WholeInv, Whole, SameReply
  <2>4. Receiving(c)' = Receiving(c)
    BY <1>0 DEF Receiving
  <2>5. CASE c = v
    BY <2>3, <2>4, <2>5, <1>8 DEF Receiving, d
  <2>6. CASE c # v
    <3>1. ilock'[c] = ilock[c] /\ ilock[c] # DESTROYED
      BY <2>2, <2>6, <1>3 DEF Private
    <3>2. Receiving(c) => Ends(c)
      BY <2>2 DEF WholeInv
    <3>3. Ends(c) => Ends(c)'
      BY <3>1, <2>1, <2>6, <1>4, OthersEnd DEF v
    <3> QED
      BY <2>3, <2>4, <3>2, <3>3
  <2> QED
    BY <2>5, <2>6
<1> QED
  BY <1>4, <1>5, <1>6, <1>7, <1>8 DEF WholeInv

----------------------------------------------------------------------------
(* Handlers *)

\* The answers to commands are sequences of lines, and none of these is a line
\* that is relayed in order.
LEMMA AnswersUnordered ==
  /\ QueryReplies \subseteq Seq(Line \ Ordered)
  /\ Welcome \in Seq(Line \ Ordered) /\ ListReplies \in Seq(Line \ Ordered)
  /\ ListEnd \in Seq(Line \ Ordered)
  /\ \A b \in BOOLEAN : WhoisUser(b) \in Seq(Line \ Ordered)
  /\ WhoisChannels \in Seq(Line \ Ordered) /\ EndOfWhois \in Seq(Line \ Ordered)
  /\ LusersReplies \o NoMotd \in Seq(Line \ Ordered)
  /\ ListReplies \o ListEnd \in Seq(Line \ Ordered)
  /\ QuitError \in Seq(Line \ Ordered)
  /\ NamesReplies \in Seq(Line \ Ordered)
  /\ <<"JOIN">> \o NamesReplies \in Seq(Line \ Ordered)
  /\ <<"401">> \in Seq(Line \ Ordered) /\ <<"404">> \in Seq(Line \ Ordered)
<1> DEFINE L == Line \ Ordered
<1>1. /\ {"001", "002", "003", "004", "251", "252", "253", "254", "255", "422"}
           \subseteq L
      /\ {"311", "312", "313", "319", "318", "322", "323", "353", "366", "381",
          "PONG", "ERROR", "JOIN"} \subseteq L
      /\ LineRefusals \subseteq L /\ Refusals \subseteq L
      /\ {"401", "404"} \subseteq Refusals
  BY DEF Line, LineRefusals, Refusals, Ordered
<1> HIDE DEF L
<1> USE <1>1
<1>2. LusersReplies \in Seq(L) /\ NoMotd \in Seq(L)
  BY DEF LusersReplies, NoMotd
<1>3. /\ Welcome \in Seq(L) /\ ListReplies \in Seq(L)
      /\ ListEnd \in Seq(L) /\ WhoisChannels \in Seq(L)
      /\ EndOfWhois \in Seq(L) /\ QuitError \in Seq(L)
  BY DEF Welcome, ListReplies, ListEnd, WhoisChannels, EndOfWhois, QuitError
<1>4. NamesReplies \in Seq(L) /\ <<"JOIN">> \in Seq(L)
  BY DEF NamesReplies
<1>5. <<"401">> \in Seq(L) /\ <<"404">> \in Seq(L)
  OBVIOUS
<1>6. \A b \in BOOLEAN : WhoisUser(b) \in Seq(L)
  <2>1. <<"311", "312">> \in Seq(L) /\ <<"313">> \in Seq(L)
    OBVIOUS
  <2> QED
    BY <2>1 DEF WhoisUser
<1>7. QueryReplies \subseteq Seq(L)
  <2>1. Pong \in Seq(L) /\ YoureOper \in Seq(L)
    BY DEF Pong, YoureOper
  <2>2. \A l \in L : <<l>> \in Seq(L)
    OBVIOUS
  <2> QED
    BY <2>1, <2>2, <1>2 DEF QueryReplies, LocklessReplies
<1>8. /\ LusersReplies \o NoMotd \in Seq(L) /\ <<"JOIN">> \o NamesReplies \in Seq(L)
      /\ ListReplies \o ListEnd \in Seq(L)
  BY <1>2, <1>3, <1>4
<1> QED
  BY <1>2, <1>3, <1>4, <1>5, <1>6, <1>7, <1>8 DEF L

LEMMA AnswersAreLines ==
  /\ QueryReplies \subseteq Seq(Line)
  /\ Welcome \in Seq(Line) /\ ListReplies \in Seq(Line) /\ ListEnd \in Seq(Line)
  /\ \A b \in BOOLEAN : WhoisUser(b) \in Seq(Line)
  /\ WhoisChannels \in Seq(Line) /\ EndOfWhois \in Seq(Line)
  /\ LusersReplies \o NoMotd \in Seq(Line) /\ QuitError \in Seq(Line)
  /\ ListReplies \o ListEnd \in Seq(Line)
  /\ NamesReplies \in Seq(Line) /\ <<"JOIN">> \o NamesReplies \in Seq(Line)
  /\ <<"401">> \in Seq(Line) /\ <<"404">> \in Seq(Line)
<1>1. Seq(Line \ Ordered) \subseteq Seq(Line)
  OBVIOUS
<1> QED
  BY <1>1, AnswersUnordered

\* A thread that queues nothing.
LEMMA Nothing ==
  ASSUME WholeInv, NEW u \in User, Ready(u), UNCHANGED todo
  PROVE  Sending(u, <<>>) /\ Fresh(<<>>)
BY DEF WholeInv, TypeOK, Ready, Sending, Fresh

\* A command has come from a client that is connected.
LEMMA Dispatched ==
  ASSUME WholeInv, NEW u \in User, Counts(u) \/ Dispatch(u)
  PROVE  Ready(u) /\ life[u] = "open" /\ commands' \in [User -> 0..MaxCommands]
<1>1. Counts(u)
  BY DEF Dispatch
<1>2. /\ commands \in [User -> 0..MaxCommands] /\ commands[u] < MaxCommands
      /\ commands' = [commands EXCEPT ![u] = @ + 1]
  BY <1>1 DEF Counts, WholeInv, TypeOK
<1>3. commands[u] + 1 \in 0..MaxCommands
  BY <1>2, DeliveryConstants
<1> QED
  BY <1>1, <1>2, <1>3 DEF Counts, At, Ready

LEMMA Went ==
  ASSUME WholeInv, NEW u \in User, NEW where \in Where, Goto(u, where)
  PROVE  pc' \in [User -> Where]
BY DEF WholeInv, TypeOK, Goto

\* A step that leaves the channel alone too.
LEMMA StaysLocal ==
  ASSUME WholeInv, UNCHANGED <<proc, ilock, peers, written, members>>,
         lock' \in User \cup {NULL}, pc' \in [User -> Where],
         at' \in [User -> Nat \ {0}], commands' \in [User -> 0..MaxCommands],
         calm' \in [User -> BOOLEAN]
  PROVE  Local
BY DEF WholeInv, TypeOK, NothingEarly, Local, peers

\* Commands that are answered at once.
LEMMA QueryWhole ==
  ASSUME WholeInv, NEW u \in User, NEW lines \in Queries, Query(u, lines)
  PROVE  WholeInv'
<1>1. Ready(u) /\ life[u] = "open" /\ commands' \in [User -> 0..MaxCommands]
  BY Dispatched DEF Query
<1>2. Fresh(Answer(u, lines))
  BY <1>1, AnswerFresh, AnswersAreLines, DeliveryConstants DEF WholeInv
<1>3. Local
  BY <1>1, StaysLocal DEF Query, WholeInv, TypeOK
<1> QED
  BY <1>1, <1>2, <1>3, Queued DEF Query

\* A section that answers.
LEMMA AnswerLockedWhole ==
  ASSUME WholeInv, NEW u \in User, Ready(u), life[u] = "open",
         NEW lines \in Seq(Line), NEW where \in Where,
         AnswerLocked(u, lines, where), commands' \in [User -> 0..MaxCommands]
  PROVE  WholeInv'
<1>1. Fresh(Answer(u, lines))
  BY AnswerFresh DEF WholeInv
<1>2. pc' \in [User -> Where]
  BY Went DEF AnswerLocked
<1>3. Local
  BY <1>2, StaysLocal DEF AnswerLocked, WholeInv, TypeOK
<1> QED
  BY <1>1, <1>3, Queued DEF AnswerLocked

LEMMA ChannelsLines ==
  ASSUME NEW lines \in Seq(Line)
  PROVE  Channels(lines) \in Seq(Line)
BY DEF Channels

\* What the first NICK or USER is remembered in belongs to nobody else.
LEMMA RegistersLocal ==
  ASSUME WholeInv, NEW u \in User, NEW from,
         NEW to \in {"none", "nick", "user", "full"}, Registers(u, from, to),
         lock' \in User \cup {NULL}, pc' \in [User -> Where]
  PROVE  Local /\ Ready(u) /\ life[u] = "open"
BY DEF Registers, At, Ready, Local, WholeInv, TypeOK, NothingEarly

LEMMA RememberWhole ==
  ASSUME WholeInv, NEW u \in User, Remember(u)
  PROVE  WholeInv'
<1>1. PICK first \in {"nick", "user"} : Registers(u, "none", first)
  BY DEF Remember
<1>2. UNCHANGED <<lock, todo, pc>>
  BY DEF Remember
<1>3. Local /\ Ready(u)
  BY <1>1, <1>2, RegistersLocal DEF WholeInv, TypeOK
<1> QED
  BY <1>2, <1>3, Nothing, Queued

\* The welcome of a user that is registered, whatever it is an answer to.
LEMMA GreetingFresh ==
  ASSUME WholeInv, NEW u \in User, life[u] = "open"
  PROVE  Fresh(Greeting(u))
<1> DEFINE said(i) == [line |-> Welcome[i], from |-> u, command |-> commands[u]]
<1>1. Welcome \in Seq(Line) /\ commands[u] \in Nat
  BY AnswersAreLines, DeliveryConstants DEF WholeInv, TypeOK
<1>2. \A i \in DOMAIN Welcome : said(i) \in Said
  BY <1>1 DEF Said
<1> HIDE DEF said
<1>3. \A i \in 1..Len(Welcome) : To(u, said(i)) \in Pending
  <2>1. DOMAIN Welcome = 1..Len(Welcome)
    BY <1>1
  <2>2. \A x \in Said : To(u, x) \in Pending
    BY DEF To, Pending
  <2> QED
    BY <2>1, <2>2, <1>2
<1>4. Greeting(u) = [i \in 1..Len(Welcome) |-> To(u, said(i))]
  BY <1>1 DEF Greeting, said
<1>5. Greeting(u) \in Seq(Pending)
  BY <1>1, <1>3, <1>4
<1> QED
  BY <1>4, <1>5 DEF Fresh, To

LEMMA GreetWhole ==
  ASSUME WholeInv, NEW u \in User, NickGreets(u) \/ UserGreets(u)
  PROVE  WholeInv'
<1>1. PICK from \in {"nick", "user"}, where \in {"greeted", "lusers"} :
        Registers(u, from, "full") /\ Goto(u, where)
  BY DEF NickGreets, UserGreets
<1>2. lock' \in User \cup {NULL} /\ Sending(u, Greeting(u))
  BY DEF NickGreets, UserGreets, WholeInv, TypeOK
<1>3. pc' \in [User -> Where]
  <2>1. where \in Where
    BY DEF Where
  <2> QED
    BY <1>1, <2>1, Went
<1>4. Local /\ Ready(u) /\ life[u] = "open"
  BY <1>1, <1>2, <1>3, RegistersLocal
<1> QED
  BY <1>2, <1>4, GreetingFresh, Queued

\* LUSERS, and the end of NICK.
LEMMA ResumeWhole ==
  ASSUME WholeInv, NEW u \in User, Resume(u)
  PROVE  WholeInv'
<1> DEFINE lines == IF pc[u] = "lusers" THEN LusersReplies \o NoMotd ELSE <<>>
<1>1. Ready(u) /\ life[u] = "open"
  BY DEF Resume, At, Ready
<1>2. lines \in Seq(Line)
  BY AnswersAreLines
<1> HIDE DEF lines
<1>3. Fresh(Answer(u, lines))
  BY <1>1, <1>2, AnswerFresh DEF WholeInv
<1>4. pc' \in [User -> Where]
  <2>1. "recv" \in Where
    BY DEF Where
  <2> QED
    BY <2>1, Went DEF Resume
<1>5. Local
  BY <1>4, StaysLocal DEF Resume, WholeInv, TypeOK
<1>6. Sending(u, Answer(u, lines))
  BY DEF Resume, lines
<1> QED
  BY <1>1, <1>3, <1>5, <1>6, Queued

LEMMA ListWhole ==
  ASSUME WholeInv, NEW u \in User, List(u)
  PROVE  WholeInv'
<1>1. "listed" \in Where
  BY DEF Where
<1>2. Channels(ListReplies) \in Seq(Line)
  BY AnswersAreLines, ChannelsLines
<1> QED
  BY <1>1, <1>2, Dispatched, AnswerLockedWhole DEF List

LEMMA ListNamedWhole ==
  ASSUME WholeInv, NEW u \in User, ListNamed(u)
  PROVE  WholeInv'
<1>1. Ready(u) /\ life[u] = "open" /\ commands' \in [User -> 0..MaxCommands]
  BY Dispatched DEF ListNamed
<1>2. Local
  BY <1>1 DEF ListNamed, peers, Local, WholeInv, TypeOK, NothingEarly
<1>3. CASE Sending(u, Answer(u, ListReplies \o ListEnd))
  <2>1. Fresh(Answer(u, ListReplies \o ListEnd))
    BY <1>1, AnswersAreLines, AnswerFresh DEF WholeInv
  <2> QED
    BY <2>1, <1>1, <1>2, <1>3, Queued
<1>4. CASE UNCHANGED todo
  BY <1>1, <1>2, <1>4, Nothing, Queued
<1> QED
  BY <1>3, <1>4 DEF ListNamed

\* The two sections of WHOIS.
LEMMA WhoisWhole ==
  ASSUME WholeInv, NEW u \in User, Whois(u)
  PROVE  WholeInv'
<1>1. Ready(u) /\ life[u] = "open" /\ commands' \in [User -> 0..MaxCommands]
  BY Dispatched DEF Whois
<1>2. PICK b \in BOOLEAN : Sending(u, Answer(u, WhoisUser(b)))
  BY DEF Whois
<1>3. Fresh(Answer(u, WhoisUser(b)))
  BY <1>1, AnswersAreLines, AnswerFresh DEF WholeInv
<1>4. pc' \in [User -> Where]
  <2>1. "whois" \in Where
    BY DEF Where
  <2> QED
    BY <2>1, Went DEF Whois
<1>5. Local
  BY <1>1, <1>4, StaysLocal DEF Whois, WholeInv, TypeOK
<1> QED
  BY <1>1, <1>2, <1>3, <1>5, Queued

LEMMA ListChannelsWhole ==
  ASSUME WholeInv, NEW u \in User, ListChannels(u)
  PROVE  WholeInv'
<1>1. Ready(u) /\ life[u] = "open" /\ commands' \in [User -> 0..MaxCommands]
  BY DEF ListChannels, At, Ready, WholeInv, TypeOK
<1>2. Channels(WhoisChannels) \in Seq(Line) /\ "whoised" \in Where
  BY AnswersAreLines, ChannelsLines DEF Where
<1> QED
  BY <1>1, <1>2, AnswerLockedWhole DEF ListChannels

\* PRIVMSG or NOTICE to a user that has come, and may have gone.
LEMMA MessageWhole ==
  ASSUME WholeInv, NEW u \in User, NEW v \in User, Message(u, v)
  PROVE  WholeInv'
<1>1. Ready(u) /\ life[u] = "open" /\ commands' \in [User -> 0..MaxCommands]
  BY Dispatched DEF Message
<1>2. Reply(u, "NOTICE") \in Said
  <2>1. "NOTICE" \in Line
    BY DEF Line
  <2> QED
    BY <2>1, ReplyType DEF WholeInv
<1>3. To(v, Reply(u, "NOTICE")) \in Pending /\ life[v] # "new"
  BY <1>2 DEF To, Pending, Message, InTable
<1>4. Fresh(<<To(v, Reply(u, "NOTICE"))>>)
  BY <1>3 DEF Fresh, To
<1>5. Local
  BY <1>1, StaysLocal DEF Message, WholeInv, TypeOK
<1> QED
  BY <1>1, <1>4, <1>5, Queued DEF Message

\* PRIVMSG to a channel finds the membership, ...
LEMMA PrivmsgWhole ==
  ASSUME WholeInv, NEW u \in User, Privmsg(u)
  PROVE  WholeInv'
<1>1. Ready(u) /\ life[u] = "open" /\ commands' \in [User -> 0..MaxCommands]
  BY Dispatched DEF Privmsg
<1>2. CASE Contains(members, u)
  <2>1. "relay" \in Where
    BY DEF Where
  <2>2. pc' \in [User -> Where]
    BY <2>1, <1>2, Went DEF Privmsg
  <2>3. Local
    BY <2>2, <1>1, StaysLocal DEF Privmsg, WholeInv, TypeOK
  <2> QED
    BY <2>3, <1>1, <1>2, Nothing, Queued DEF Privmsg
<1>3. CASE ~Contains(members, u)
  <2> DEFINE lines == IF members = <<>> THEN <<"401">> ELSE <<"404">>
  <2>1. lines \in Seq(Line)
    BY AnswersAreLines
  <2>2. Fresh(Answer(u, lines))
    BY <2>1, <1>1, AnswerFresh DEF WholeInv
  <2>3. Local
    BY <1>1, <1>3, StaysLocal DEF Privmsg, WholeInv, TypeOK
  <2> QED
    BY <2>2, <2>3, <1>1, <1>3, Queued DEF Privmsg
<1> QED
  BY <1>2, <1>3

\* The member at place i once u is taken out was at the same place, or the next.
Was(u, i) == IF Contains(members, u) /\ i >= Place(u) THEN i + 1 ELSE i

LEMMA WithoutIs ==
  ASSUME members \in Seq(User), NEW u \in User
  PROVE  /\ Without(u) \in Seq(User)
         /\ \A i \in DOMAIN Without(u) : /\ Was(u, i) \in DOMAIN members
                                         /\ Without(u)[i] = members[Was(u, i)]
         /\ Contains(members, u) => /\ Place(u) \in DOMAIN members
                                    /\ members[Place(u)] = u
<1>1. CASE Contains(members, u)
  <2> DEFINE p == Place(u)
  <2>1. p \in 1..Len(members) /\ members[p] = u
    BY <1>1 DEF Contains, Place
  <2> HIDE DEF p
  <2> DEFINE front == SubSeq(members, 1, p - 1)
             back == SubSeq(members, p + 1, Len(members))
  <2>2. /\ front \in Seq(User) /\ Len(front) = p - 1
        /\ \A i \in 1..(p - 1) : front[i] = members[i]
    BY <2>1
  <2>3. /\ back \in Seq(User) /\ Len(back) = Len(members) - p
        /\ \A i \in 1..(Len(members) - p) : back[i] = members[i + p]
    BY <2>1
  <2>4. Without(u) = front \o back
    BY <1>1 DEF Without, RemoveAt, p
  <2> HIDE DEF front, back
  <2>5. ASSUME NEW i \in DOMAIN (front \o back)
        PROVE  /\ Was(u, i) \in DOMAIN members
               /\ (front \o back)[i] = members[Was(u, i)]
    <3>1. i \in 1..(Len(members) - 1) /\ Len(members) \in Nat
      BY <2>1, <2>2, <2>3
    <3>2. Was(u, i) = IF i >= p THEN i + 1 ELSE i
      BY <1>1 DEF Was, p
    <3>3. CASE i < p
      BY <3>1, <3>2, <3>3, <2>1, <2>2, <2>3
    <3>4. CASE i >= p
      <4>1. (front \o back)[i] = back[i - (p - 1)]
        BY <3>1, <3>4, <2>1, <2>2, <2>3
      <4>2. back[i - (p - 1)] = members[i + 1] /\ i + 1 \in DOMAIN members
        BY <3>1, <3>4, <2>1, <2>3
      <4> QED
        BY <4>1, <4>2, <3>2, <3>4
    <3> QED
      BY <3>1, <3>3, <3>4, <2>1
  <2>6. Without(u) \in Seq(User)
    BY <2>2, <2>3, <2>4
  <2> QED
    BY <2>1, <2>4, <2>5, <2>6, <1>1 DEF p
<1>2. CASE ~Contains(members, u)
  BY <1>2 DEF Without, Was
<1> QED
  BY <1>1, <1>2

\* A channel without one of its members is one of users that have come.
LEMMA WithoutType ==
  ASSUME WholeInv, NEW u \in User
  PROVE  /\ Without(u) \in Seq(User)
         /\ \A i \in DOMAIN Without(u) : life[Without(u)[i]] # "new"
BY WithoutIs DEF WholeInv, TypeOK, NothingEarly

\* ... and relays to the others.
LEMMA PrivmsgRelayWhole ==
  ASSUME WholeInv, NEW u \in User, PrivmsgRelay(u)
  PROVE  WholeInv'
<1>1. Ready(u) /\ "PRIVMSG" \in Line /\ "unlock" \in Where
  BY DEF PrivmsgRelay, At, Line, Where
<1>2. Reply(u, "PRIVMSG") \in Said
  BY <1>1, ReplyType DEF WholeInv
<1>3. Fresh(ToAll(Without(u), Reply(u, "PRIVMSG")))
  BY <1>2, WithoutType, ToAllFresh
<1>4. pc' \in [User -> Where]
  BY <1>1, Went DEF PrivmsgRelay
<1>5. Local
  BY <1>4, StaysLocal DEF PrivmsgRelay, WholeInv, TypeOK
<1> QED
  BY <1>1, <1>3, <1>5, Queued DEF PrivmsgRelay

\* MODE and NICK are relayed to members, once or several times.
LEMMA AnnounceWhole ==
  ASSUME WholeInv, NEW u \in User, NEW line \in {"MODE", "NICK"},
         Announce(u, line)
  PROVE  WholeInv'
<1> DEFINE n == Len(members)
           times == IF line = "NICK" THEN n + 1 - Place(u) ELSE 1
           those == [i \in 1..(times * n) |-> members[((i - 1) % n) + 1]]
<1>0. Ready(u) /\ commands' \in [User -> 0..MaxCommands]
  BY Dispatched DEF Announce
<1>1. /\ members \in Seq(User) /\ Place(u) \in 1..n /\ n \in Nat /\ n > 0
      /\ \A i \in DOMAIN members : members[i] \in User /\ life[members[i]] # "new"
  <2>1. members \in Seq(User) /\ Contains(members, u)
    BY DEF Announce, WholeInv, TypeOK
  <2>2. Place(u) \in 1..n
    BY <2>1 DEF Contains, Place
  <2> QED
    BY <2>1, <2>2 DEF WholeInv, NothingEarly
<1>2. times \in Nat
  BY <1>1
<1>3. \A i \in Nat : (i % n) + 1 \in 1..n
  BY <1>1
<1> HIDE DEF n, times
<1>4. times * n \in Nat
  BY <1>1, <1>2
<1>5. ASSUME NEW i \in 1..(times * n)
      PROVE  /\ members[((i - 1) % n) + 1] \in User
             /\ life[members[((i - 1) % n) + 1]] # "new"
  <2>1. i - 1 \in Nat
    BY <1>4
  <2>2. ((i - 1) % n) + 1 \in DOMAIN members
    BY <2>1, <1>1, <1>3 DEF n
  <2> QED
    BY <2>2, <1>1
<1>6. those \in Seq(User) /\ \A i \in DOMAIN those : life[those[i]] # "new"
  BY <1>4, <1>5
<1>7. Reply(u, line) \in Said
  <2>1. line \in Line
    BY DEF Line
  <2> QED
    BY <2>1, ReplyType DEF WholeInv
<1>8. Fresh(ToAll(those, Reply(u, line)))
  BY <1>6, <1>7, ToAllFresh
<1>9. pc' \in [User -> Where]
  <2>1. "unlock" \in Where /\ "renaming" \in Where
    BY DEF Where
  <2> QED
    BY <2>1, Went DEF Announce
<1>10. Local
  BY <1>0, <1>9, StaysLocal DEF Announce, WholeInv, TypeOK
<1>11. Sending(u, ToAll(those, Reply(u, line)))
  BY DEF Announce, n, times
<1> QED
  BY <1>0, <1>8, <1>10, <1>11, Queued

\* The end of a section.
LEMMA UnlockWhole ==
  ASSUME WholeInv, NEW u \in User, Unlock(u)
  PROVE  WholeInv'
<1>1. Ready(u) /\ life[u] = "open"
  BY DEF Unlock, At, Ready
<1>2. Rest(pc[u]) \in Seq(Line)
  <2>1. ListEnd \in Seq(Line) /\ EndOfWhois \in Seq(Line) /\ <<>> \in Seq(Line)
    BY AnswersAreLines
  <2> QED
    BY <2>1 DEF Rest
<1>3. Fresh(Answer(u, Rest(pc[u])))
  BY <1>1, <1>2, AnswerFresh DEF WholeInv
<1>4. pc' \in [User -> Where]
  <2>1. After(pc[u]) \in Where
    BY DEF After, Where
  <2> QED
    BY <2>1, Went DEF Unlock
<1>5. Local
  BY <1>4, StaysLocal DEF Unlock, WholeInv, TypeOK
<1> QED
  BY <1>1, <1>3, <1>5, Queued DEF Unlock

\* JOIN: the newcomer is a member, and has come.
LEMMA JoinWhole ==
  ASSUME WholeInv, NEW u \in User, Join(u)
  PROVE  WholeInv'
<1>1. Ready(u) /\ life[u] = "open" /\ commands' \in [User -> 0..MaxCommands]
  BY Dispatched DEF Join
<1>2. /\ members' \in Seq(User)
      /\ \A i \in DOMAIN members' : life[members'[i]] # "new"
  <2>1. /\ members' = Append(members, u) /\ members \in Seq(User)
        /\ \A i \in DOMAIN members : life[members[i]] # "new"
    BY DEF Join, WholeInv, TypeOK, NothingEarly
  <2>2. Append(members, u) \in Seq(User) /\ Len(Append(members, u)) = Len(members) + 1
    BY <2>1
  <2>3. ASSUME NEW i \in DOMAIN Append(members, u)
        PROVE  life[Append(members, u)[i]] # "new"
    <3>1. i \in 1..(Len(members) + 1) /\ Len(members) \in Nat
      BY <2>1, <2>2
    <3>2. CASE i = Len(members) + 1
      <4>1. Append(members, u)[i] = u
        BY <2>1, <3>2
      <4> QED
        BY <4>1, <1>1
    <3>3. CASE i # Len(members) + 1
      <4>1. i \in DOMAIN members /\ Append(members, u)[i] = members[i]
        BY <2>1, <3>1, <3>3
      <4> QED
        BY <4>1, <2>1
    <3> QED
      BY <3>2, <3>3
  <2> QED
    BY <2>1, <2>2, <2>3
<1>3. /\ at' \in [User -> Nat \ {0}] /\ calm' \in [User -> BOOLEAN]
      /\ UNCHANGED <<proc, lock, ilock, peers, written>>
  BY DEF Join, WholeInv, TypeOK
<1>4. ASSUME pc' \in [User -> Where] PROVE Local
  BY <1>1, <1>2, <1>3, <1>4 DEF Local, peers, WholeInv, TypeOK
<1>5. CASE members = <<>>
  <2>1. Local
    BY <1>4, <1>5 DEF Join, WholeInv, TypeOK
  <2>2. Fresh(Answer(u, <<"JOIN">> \o NamesReplies))
    BY <1>1, AnswersAreLines, AnswerFresh DEF WholeInv
  <2> QED
    BY <2>1, <2>2, <1>1, <1>5, Queued DEF Join
<1>6. CASE members # <<>>
  <2>1. "join" \in Where
    BY DEF Where
  <2>2. Local
    BY <2>1, <1>4, <1>6, Went DEF Join
  <2> QED
    BY <2>2, <1>1, <1>6, Nothing, Queued DEF Join
<1> QED
  BY <1>5, <1>6

\* One turn of a loop over the members, as they are then.
LEMMA TellNextWhole ==
  ASSUME WholeInv, NEW u \in User, Ready(u), NEW line \in Line,
         TellNext(u, line),
         UNCHANGED <<proc, lock, ilock, peers, written, members, commands, calm>>
  PROVE  WholeInv'
<1>1. at[u] \in Nat \ {0} /\ at[u] <= Len(members) /\ members \in Seq(User)
  BY DEF TellNext, WholeInv, TypeOK
<1>2. at[u] \in DOMAIN members
  BY <1>1
<1>3. members[at[u]] \in User /\ life[members[at[u]]] # "new"
  BY <1>1, <1>2 DEF WholeInv, NothingEarly
<1>4. Reply(u, line) \in Said
  BY ReplyType DEF WholeInv
<1>5. Fresh(<<To(members[at[u]], Reply(u, line))>>)
  <2>1. To(members[at[u]], Reply(u, line)) \in Pending
    BY <1>3, <1>4 DEF To, Pending
  <2> QED
    BY <2>1, <1>3 DEF Fresh, To
<1>6. at' \in [User -> Nat \ {0}]
  <2>1. at' = [at EXCEPT ![u] = at[u] + 1] /\ at \in [User -> Nat \ {0}]
    BY DEF TellNext, WholeInv, TypeOK
  <2>2. at[u] + 1 \in Nat \ {0}
    BY <1>1
  <2> QED
    BY <2>1, <2>2
<1>7. Local
  BY <1>6, StaysLocal DEF TellNext, WholeInv, TypeOK
<1> QED
  BY <1>5, <1>7, Queued DEF TellNext

LEMMA JoinLoopWhole ==
  ASSUME WholeInv, NEW u \in User, JoinLoop(u)
  PROVE  WholeInv'
<1>1. /\ Ready(u) /\ life[u] = "open" /\ "JOIN" \in Line /\ "recv" \in Where
      /\ UNCHANGED <<proc, lock, ilock, peers, written, members, commands, calm>>
  BY DEF JoinLoop, At, Ready, Line, Where
<1>2. CASE TellNext(u, "JOIN")
  BY <1>1, <1>2, TellNextWhole
<1>3. CASE ~TellNext(u, "JOIN")
  <2>1. Sending(u, Answer(u, NamesReplies)) /\ Goto(u, "recv") /\ UNCHANGED at
    BY <1>3 DEF JoinLoop
  <2>2. Fresh(Answer(u, NamesReplies))
    BY <1>1, AnswersAreLines, AnswerFresh DEF WholeInv
  <2>3. Local
    BY <2>1, <1>1, Went, StaysLocal DEF WholeInv, TypeOK
  <2> QED
    BY <2>1, <2>2, <2>3, <1>1, Queued
<1> QED
  BY <1>2, <1>3

\* QUIT: the user is no member afterwards.
LEMMA QuitWhole ==
  ASSUME WholeInv, NEW u \in User, Quit(u)
  PROVE  WholeInv'
<1>1. Ready(u) /\ life[u] = "open" /\ commands' \in [User -> 0..MaxCommands]
  BY Dispatched DEF Quit
<1>2. /\ members' \in Seq(User)
      /\ \A i \in DOMAIN members' : life[members'[i]] # "new"
  BY WithoutType DEF Quit
<1>3. /\ at' \in [User -> Nat \ {0}] /\ calm' \in [User -> BOOLEAN]
      /\ UNCHANGED <<proc, lock, ilock, peers, written>>
  BY DEF Quit, WholeInv, TypeOK
<1>4. pc' \in [User -> Where]
  <2>1. "quit" \in Where /\ "destroy" \in Where
    BY DEF Where
  <2> QED
    BY <2>1, Went DEF Quit
<1>5. Local
  BY <1>1, <1>2, <1>3, <1>4 DEF Local, peers, WholeInv, TypeOK
<1>6. CASE UNCHANGED todo
  BY <1>1, <1>5, <1>6, Nothing, Queued
<1>7. CASE Sending(u, Answer(u, QuitError))
  <2>1. Fresh(Answer(u, QuitError))
    BY <1>1, AnswersAreLines, AnswerFresh DEF WholeInv
  <2> QED
    BY <2>1, <1>1, <1>5, <1>7, Queued
<1> QED
  BY <1>6, <1>7 DEF Quit

LEMMA QuitLoopWhole ==
  ASSUME WholeInv, NEW u \in User, QuitLoop(u)
  PROVE  WholeInv'
<1>1. /\ Ready(u) /\ life[u] = "open" /\ "QUIT" \in Line /\ "destroy" \in Where
      /\ UNCHANGED <<proc, lock, ilock, peers, written, members, commands, calm>>
  BY DEF QuitLoop, At, Ready, Line, Where
<1>2. CASE TellNext(u, "QUIT")
  BY <1>1, <1>2, TellNextWhole
<1>3. CASE ~TellNext(u, "QUIT")
  <2>1. Sending(u, Answer(u, QuitError)) /\ Goto(u, "destroy") /\ UNCHANGED at
    BY <1>3 DEF QuitLoop
  <2>2. Fresh(Answer(u, QuitError))
    BY <1>1, AnswersAreLines, AnswerFresh DEF WholeInv
  <2>3. Local
    BY <2>1, <1>1, Went, StaysLocal DEF WholeInv, TypeOK
  <2> QED
    BY <2>1, <2>2, <2>3, <1>1, Queued
<1> QED
  BY <1>2, <1>3

----------------------------------------------------------------------------
\* At the start nothing was written, and who is connected has a descriptor.
LEMMA InitWhole == Init => WholeInv
<1> SUFFICES ASSUME Init PROVE WholeInv
  OBVIOUS
<1>0. PICK s \in Scenarios : members = s.members /\ Connected(s.early)
  BY DEF Init
<1> DEFINE early == s.early
<1>1. /\ early \in Seq(User) /\ IsInjective(early) /\ DOMAIN early \subseteq Fd
      /\ \A f \in DOMAIN early : early[f] \in User
      /\ members \in Seq(ToSet(early)) /\ Connected(early)
  BY <1>0, DeliveryConstants
<1> HIDE DEF early
<1>2. \A u \in User : Contains(early, u) <=> \E f \in DOMAIN early : early[f] = u
  BY <1>1 DEF Contains
<1>3. ASSUME NEW u \in User
      PROVE  IF Contains(early, u)
               THEN fd[u] \in DOMAIN early /\ early[fd[u]] = u /\ life[u] = "open"
               ELSE fd[u] = NULL /\ life[u] = "new"
  BY <1>1, <1>2 DEF Connected
<1>4. \A f \in Fd : sock[f] = IF f \in DOMAIN early THEN early[f] ELSE NULL
  BY <1>1 DEF Connected
<1>5. /\ members \in Seq(User)
      /\ \A i \in DOMAIN members : Contains(early, members[i])
  <2>1. \A i \in DOMAIN members : members[i] \in ToSet(early)
    BY <1>1
  <2>2. \A i \in DOMAIN members : members[i] \in User /\ Contains(early, members[i])
    BY <2>1, <1>1, <1>2 DEF ToSet
  <2>3. ToSet(early) \subseteq User
    BY <1>1 DEF ToSet
  <2> QED
    BY <2>2, <2>3, <1>1
<1>6. TypeOK
  <2>1. fd \in [User -> Fd \cup {NULL}] /\ sock \in [Fd -> User \cup {NULL}]
    BY <1>1, <1>3 DEF Connected
  <2>2. /\ written \in [User -> Seq(Piece)] /\ todo \in [User -> Seq(Pending)]
        /\ pc \in [User -> Where]
    BY DEF Init, Where
  <2>3. /\ at \in [User -> Nat \ {0}] /\ commands \in [User -> 0..MaxCommands]
        /\ life \in [User -> {"new", "open", "quit", "lost"}]
        /\ ilock \in [User -> User \cup {NULL, DESTROYED}]
        /\ up \in [User -> BOOLEAN] /\ calm \in [User -> BOOLEAN]
        /\ proc \in {"ok", "dead"} /\ lock \in User \cup {NULL}
        /\ reg \in [User -> {"none", "nick", "user", "full"}]
    BY <1>1, DeliveryConstants DEF Init, Connected
  <2> QED
    BY <2>1, <2>2, <2>3, <1>5 DEF TypeOK
<1>7. Descriptors
  <2>1. \A u \in User : fd[u] = NULL <=> life[u] = "new"
    BY <1>1, <1>3, DeliveryConstants
  <2>2. ASSUME NEW f \in Fd, sock[f] # NULL
        PROVE  fd[sock[f]] = f /\ life[sock[f]] = "open"
    <3>1. f \in DOMAIN early /\ sock[f] = early[f] /\ sock[f] \in User
      BY <2>2, <1>1, <1>4
    <3>2. Contains(early, sock[f])
      BY <3>1, <1>2
    <3>3. fd[sock[f]] \in DOMAIN early /\ early[fd[sock[f]]] = early[f]
          /\ life[sock[f]] = "open"
      BY <3>1, <3>2, <1>3
    <3> QED
      BY <3>1, <3>3, <1>1 DEF IsInjective
  <2>3. ASSUME NEW u \in User, life[u] = "open" PROVE sock[fd[u]] = u
    <3>1. fd[u] \in DOMAIN early /\ early[fd[u]] = u
      BY <2>3, <1>3
    <3> QED
      BY <3>1, <1>1, <1>4
  <2> QED
    BY <2>1, <2>2, <2>3 DEF Descriptors
<1>8. \A u \in User : todo[u] = <<>> /\ written[u] = <<>> /\ ilock[u] = NULL
  BY DEF Init
<1>9. NothingEarly
  <2>1. \A i \in DOMAIN members : life[members[i]] # "new"
    BY <1>3, <1>5
  <2> QED
    BY <2>1, <1>8 DEF NothingEarly
<1>10. OneOpen
  BY <1>8, DeliveryConstants DEF OneOpen, Open
<1>11. \A c \in User : Whole(c) /\ Ends(c)
  BY <1>8 DEF Whole, Ends
<1> QED
  BY <1>6, <1>7, <1>9, <1>10, <1>11 DEF WholeInv

\* One step of any thread or client.
LEMMA NextWhole == WholeInv /\ [Next]_dvars => WholeInv'
<1> SUFFICES ASSUME WholeInv, [Next]_dvars PROVE WholeInv'
  OBVIOUS
<1>1. ASSUME UNCHANGED dvars PROVE WholeInv'
  <2>1. TypeOK' /\ Descriptors'
    BY <1>1 DEF WholeInv, TypeOK, Descriptors, dvars, peers
  <2> QED
    BY <1>1, <2>1, Fewer DEF dvars, peers, Receiving
<1>2. ASSUME NEW u \in User, Client(u) PROVE WholeInv'
  <2>1. CASE \E lines \in Queries : Query(u, lines)
    BY <2>1, QueryWhole
  <2>2. CASE \E v \in User : Message(u, v)
    BY <2>2, MessageWhole
  <2>3. CASE List(u) \/ ListNamed(u) \/ Whois(u)
    BY <2>3, ListWhole, ListNamedWhole, WhoisWhole
  <2>4. CASE Privmsg(u)
    BY <2>4, PrivmsgWhole
  <2>5. CASE Announce(u, "MODE") \/ Announce(u, "NICK")
    BY <2>5, AnnounceWhole
  <2>6. CASE Join(u) \/ Quit(u)
    BY <2>6, JoinWhole, QuitWhole
  <2>7. CASE Accept(u) \/ Reset(u) \/ Disconnect(u) \/ SendKills(u)
    BY <2>7, AcceptWhole, ResetWhole, DisconnectWhole, SendKillsWhole
  <2>8. CASE Remember(u) \/ NickGreets(u) \/ UserGreets(u)
    BY <2>8, RememberWhole, GreetWhole
  <2> QED
    BY <1>2, <2>1, <2>2, <2>3, <2>4, <2>5, <2>6, <2>7, <2>8 DEF Client
<1>3. ASSUME NEW u \in User, Step(u) PROVE WholeInv'
  <2>1. CASE Send(u) \/ SendFails(u)
    BY <2>1, SendWhole, SendFailsWhole
  <2>2. CASE Resume(u) \/ ListChannels(u) \/ PrivmsgRelay(u) \/ Unlock(u)
    BY <2>2, ResumeWhole, ListChannelsWhole, PrivmsgRelayWhole, UnlockWhole
  <2>3. CASE JoinLoop(u) \/ QuitLoop(u)
    BY <2>3, JoinLoopWhole, QuitLoopWhole
  <2>4. CASE QuitDestroy(u) \/ QuitClose(u)
    BY <2>4, QuitDestroyWhole, QuitCloseWhole
  <2> QED
    BY <1>3, <2>1, <2>2, <2>3, <2>4 DEF Step
<1> QED
  BY <1>1, <1>2, <1>3 DEF Next

\* The variables of Delivery keep their types.
THEOREM DeliveryTypes == Spec => []TypeOK
<1>1. WholeInv => TypeOK
  BY DEF WholeInv
<1> QED
  BY <1>1, InitWhole, NextWhole, PTL DEF Spec

\* What a client receives are whole replies, whatever threads write to it at
\* once, as long as its individual_lock is there and no user_t whose thread
\* has ended has its descriptor.
THEOREM RepliesAreWhole == Spec => []WholeReplies
<1>1. WholeInv => WholeReplies
  BY DEF WholeInv, WholeReplies
<1> QED
  BY <1>1, InitWhole, NextWhole, PTL DEF Spec

----------------------------------------------------------------------------
(* Relays reach members only, whoever uses their descriptors again:        *)
(* MembersInv of DeliveryProperties is inductive.  Types and descriptors   *)
(* are those of WholeInv.                                                  *)

(* What is queued and what stays *)

\* What a thread queues that is not a relay needs no lock.
Unordered(out) == \A i \in DOMAIN out : out[i].reply.line \notin Ordered

LEMMA AnswerUnordered ==
  ASSUME NEW u \in User, NEW lines \in Seq(Line \ Ordered)
  PROVE  Unordered(Answer(u, lines))
BY DEF Unordered, Answer, To, Reply

\* A step of one thread that writes nothing, and changes the lock or the
\* channel only if no other has the lock.
LEMMA Acts ==
  ASSUME MembersInv, WholeInv', NEW u \in User, Ready(u), NEW out, Sending(u, out),
         UNCHANGED <<life, written>>,
         lock \in {NULL, u} \/ UNCHANGED <<lock, members>>,
         \A w \in User : w # u => pc'[w] = pc[w],
         pc'[u] \in Holding => lock' = u,
         \A i \in DOMAIN out :
           out[i].reply.line \in Ordered => lock' = u /\ Contains(members', out[i].to),
         Members => Members'
  PROVE  MembersInv'
<1>1. \A w \in User : todo'[w] = IF w = u THEN out ELSE todo[w]
  BY DEF MembersInv, WholeInv, TypeOK, Sending
<1>2. ASSUME NEW w \in User, pc'[w] \in Holding PROVE lock' = w
  BY <1>2, DeliveryConstants DEF MembersInv, Relays
<1>3. ASSUME NEW w \in User, NEW i \in DOMAIN todo'[w],
             todo'[w][i].reply.line \in Ordered
      PROVE  lock' = w /\ Contains(members', todo'[w][i].to)
  <2>1. CASE w = u
    BY <2>1, <1>1, <1>3
  <2>2. CASE w # u
    <3>1. todo'[w] = todo[w]
      BY <2>2, <1>1
    <3>2. lock = w /\ Contains(members, todo[w][i].to)
      BY <3>1, <1>3 DEF MembersInv, Relays
    <3>3. UNCHANGED <<lock, members>>
      BY <3>2, <2>2, DeliveryConstants
    <3> QED
      BY <3>1, <3>2, <3>3 DEF Contains
  <2> QED
    BY <2>1, <2>2
<1>4. MembersOnly => MembersOnly'
  BY DEF MembersOnly
<1> QED
  BY <1>2, <1>3, <1>4 DEF MembersInv, Relays

\* The channel and who may be in it stay the same.
LEMMA Stay ==
  ASSUME NEW u \in User, UNCHANGED <<life, members>>, Members,
         \A w \in User : w # u => pc'[w] = pc[w],
         pc'[u] \in Gone => pc[u] \in Gone
  PROVE  Members'
BY DEF Members, IsInjective, Contains

LEMMA WentOn ==
  ASSUME TypeOK, NEW u \in User, NEW where, Goto(u, where)
  PROVE  \A w \in User : pc'[w] = IF w = u THEN where ELSE pc[w]
BY DEF TypeOK, Goto

----------------------------------------------------------------------------
(* Handlers *)

\* Steps that queue answers, or nothing, and leave the lock and the channel.
LEMMA Answers ==
  ASSUME MembersInv, WholeInv', NEW u \in User, Ready(u), NEW out,
         Sending(u, out), Unordered(out),
         UNCHANGED <<life, written, lock, members>>,
         \A w \in User : w # u => pc'[w] = pc[w],
         pc'[u] \in Holding => pc[u] \in Holding,
         pc'[u] \in Gone => pc[u] \in Gone
  PROVE  MembersInv'
<1>1. Members => Members'
  BY Stay
<1>2. pc'[u] \in Holding => lock' = u
  BY DEF MembersInv, Relays
<1> QED
  BY <1>1, <1>2, Acts DEF Unordered

LEMMA QueryMembers ==
  ASSUME MembersInv, WholeInv', NEW u \in User, NEW lines \in Queries,
         Query(u, lines)
  PROVE  MembersInv'
<1>1. Ready(u) /\ Unordered(Answer(u, lines))
  BY AnswersUnordered, AnswerUnordered, DeliveryConstants
     DEF Query, Counts, At
<1> QED
  BY <1>1, Answers DEF Query, peers

LEMMA MessageMembers ==
  ASSUME MembersInv, WholeInv', NEW u \in User, NEW v \in User, Message(u, v)
  PROVE  MembersInv'
<1>1. Ready(u) /\ Unordered(<<To(v, Reply(u, "NOTICE"))>>)
  BY DEF Message, Dispatch, Counts, At, Unordered, To, Reply, Ordered
<1> QED
  BY <1>1, Answers DEF Message, peers

\* Steps into a section that answers.
LEMMA LockedMembers ==
  ASSUME MembersInv, WholeInv', NEW u \in User, Ready(u),
         NEW lines \in Seq(Line \ Ordered), NEW where \in Holding,
         AnswerLocked(u, lines, where)
  PROVE  MembersInv'
<1>1. \A w \in User : pc'[w] = IF w = u THEN where ELSE pc[w]
  BY WentOn DEF AnswerLocked, MembersInv, WholeInv
<1>2. where \notin Gone
  BY DEF Holding, Gone
<1>3. Members => Members'
  BY <1>1, <1>2, Stay DEF AnswerLocked, peers
<1>4. Unordered(Answer(u, lines))
  BY AnswerUnordered
<1> QED
  BY <1>1, <1>3, <1>4, Acts DEF AnswerLocked, peers, Unordered

\* What registers a user is answered to nobody but that user.
LEMMA RegistersMembers ==
  ASSUME MembersInv, WholeInv', NEW u \in User, NEW from, NEW to,
         Registers(u, from, to), NEW out, Sending(u, out), Unordered(out),
         NEW where \in {"recv", "greeted", "lusers"}, Goto(u, where),
         lock' = IF where = "greeted" THEN u ELSE lock
  PROVE  MembersInv'
<1>1. Ready(u) /\ lock = NULL /\ UNCHANGED <<life, written, members>>
  BY DEF Registers, At
<1>2. \A w \in User : pc'[w] = IF w = u THEN where ELSE pc[w]
  BY WentOn DEF MembersInv, WholeInv
<1>3. where \notin Gone /\ (where \in Holding => where = "greeted")
  BY DEF Holding, Gone
<1>4. Members => Members'
  BY <1>1, <1>2, <1>3, Stay
<1> QED
  BY <1>1, <1>2, <1>3, <1>4, Acts DEF Unordered

LEMMA RememberMembers ==
  ASSUME MembersInv, WholeInv', NEW u \in User, Remember(u)
  PROVE  MembersInv'
<1>1. PICK first \in {"nick", "user"} : Registers(u, "none", first)
  BY DEF Remember
<1>2. Ready(u) /\ pc[u] = "recv" /\ UNCHANGED <<lock, todo, pc>>
  BY <1>1 DEF Remember, Registers, At
<1>3. Goto(u, "recv") /\ Sending(u, <<>>) /\ Unordered(<<>>)
  BY <1>2, Nothing DEF Goto, Unordered, MembersInv, WholeInv, TypeOK
<1> QED
  BY <1>1, <1>2, <1>3, RegistersMembers

LEMMA GreetMembers ==
  ASSUME MembersInv, WholeInv', NEW u \in User, NickGreets(u) \/ UserGreets(u)
  PROVE  MembersInv'
<1>1. \A i \in DOMAIN Welcome : Welcome[i] \notin Ordered
  BY AnswersUnordered
<1>2. Unordered(Greeting(u))
  BY <1>1 DEF Unordered, Greeting, To
<1>3. CASE NickGreets(u)
  BY <1>2, <1>3, RegistersMembers DEF NickGreets
<1>4. CASE UserGreets(u)
  BY <1>2, <1>4, RegistersMembers DEF UserGreets
<1> QED
  BY <1>3, <1>4

LEMMA ResumeMembers ==
  ASSUME MembersInv, WholeInv', NEW u \in User, Resume(u)
  PROVE  MembersInv'
<1> DEFINE lines == IF pc[u] = "lusers" THEN LusersReplies \o NoMotd ELSE <<>>
<1>1. lines \in Seq(Line \ Ordered)
  BY AnswersUnordered
<1>2. Sending(u, Answer(u, lines))
  BY DEF Resume
<1> HIDE DEF lines
<1>3. Unordered(Answer(u, lines))
  BY <1>1, AnswerUnordered
<1>4. \A w \in User : pc'[w] = IF w = u THEN "recv" ELSE pc[w]
  BY WentOn DEF Resume, MembersInv, WholeInv
<1>5. "recv" \notin Holding /\ "recv" \notin Gone
  BY DEF Holding, Gone
<1>6. Ready(u)
  BY DEF Resume, At
<1> QED
  BY <1>2, <1>3, <1>4, <1>5, <1>6, Answers DEF Resume, peers

LEMMA ListMembers ==
  ASSUME MembersInv, WholeInv', NEW u \in User, List(u) \/ ListChannels(u)
  PROVE  MembersInv'
<1>1. Ready(u) /\ "listed" \in Holding /\ "whoised" \in Holding
  BY DEF List, ListChannels, Dispatch, Counts, At, Holding
<1>2. /\ Channels(ListReplies) \in Seq(Line \ Ordered)
      /\ Channels(WhoisChannels) \in Seq(Line \ Ordered)
  BY AnswersUnordered DEF Channels
<1> QED
  BY <1>1, <1>2, LockedMembers DEF List, ListChannels

LEMMA ListNamedMembers ==
  ASSUME MembersInv, WholeInv', NEW u \in User, ListNamed(u)
  PROVE  MembersInv'
<1>1. Ready(u)
  BY DEF ListNamed, Dispatch, Counts, At
<1>2. Unordered(<<>>) /\ Unordered(Answer(u, ListReplies \o ListEnd))
  <2>1. Unordered(Answer(u, ListReplies \o ListEnd))
    BY AnswersUnordered, AnswerUnordered
  <2> QED
    BY <2>1 DEF Unordered
<1>3. \/ Sending(u, <<>>)
      \/ Sending(u, Answer(u, ListReplies \o ListEnd))
  BY <1>1, Nothing DEF ListNamed, MembersInv
<1> QED
  BY <1>1, <1>2, <1>3, Answers DEF ListNamed, peers

LEMMA WhoisMembers ==
  ASSUME MembersInv, WholeInv', NEW u \in User, Whois(u)
  PROVE  MembersInv'
<1>1. PICK b \in BOOLEAN : Sending(u, Answer(u, WhoisUser(b)))
  BY DEF Whois
<1>2. Unordered(Answer(u, WhoisUser(b)))
  BY AnswersUnordered, AnswerUnordered
<1>3. \A w \in User : pc'[w] = IF w = u THEN "whois" ELSE pc[w]
  BY WentOn DEF Whois, MembersInv, WholeInv
<1>4. "whois" \notin Holding /\ "whois" \notin Gone
  BY DEF Holding, Gone
<1>5. Ready(u)
  BY DEF Whois, Dispatch, Counts, At
<1> QED
  BY <1>1, <1>2, <1>3, <1>4, <1>5, Answers DEF Whois, peers

LEMMA PrivmsgMembers ==
  ASSUME MembersInv, WholeInv', NEW u \in User, Privmsg(u)
  PROVE  MembersInv'
<1>1. Ready(u)
  BY DEF Privmsg, Dispatch, Counts, At
<1>2. CASE Contains(members, u)
  <2>1. \A w \in User : pc'[w] = IF w = u THEN "relay" ELSE pc[w]
    BY <1>2, WentOn DEF Privmsg, MembersInv, WholeInv
  <2>2. "relay" \notin Holding /\ "relay" \notin Gone
    BY DEF Holding, Gone
  <2>3. Sending(u, <<>>)
    BY <1>1, <1>2, Nothing DEF Privmsg, MembersInv
  <2>4. Unordered(<<>>)
    BY DEF Unordered
  <2> QED
    BY <2>1, <2>2, <2>3, <2>4, <1>1, Answers DEF Privmsg, peers
<1>3. CASE ~Contains(members, u)
  <2> DEFINE lines == IF members = <<>> THEN <<"401">> ELSE <<"404">>
  <2>1. Unordered(Answer(u, lines))
    <3>1. lines \in Seq(Line \ Ordered)
      BY AnswersUnordered
    <3> QED
      BY <3>1, AnswerUnordered
  <2> QED
    BY <2>1, <1>1, <1>3, Answers DEF Privmsg, peers
<1> QED
  BY <1>2, <1>3

\* Relays, which begin with nobody in a section.
LEMMA RelayMembers ==
  ASSUME MembersInv, WholeInv', NEW u \in User, Ready(u), lock = NULL, lock' = u,
         NEW s, \A i \in DOMAIN s : Contains(members, s[i]),
         NEW r, Sending(u, ToAll(s, r)),
         NEW where \in {"unlock", "renaming"}, Goto(u, where),
         UNCHANGED <<life, written, members>>
  PROVE  MembersInv'
<1>1. \A w \in User : pc'[w] = IF w = u THEN where ELSE pc[w]
  BY WentOn DEF MembersInv, WholeInv
<1>2. where \notin Gone
  BY DEF Gone
<1>3. Members => Members'
  BY <1>1, <1>2, Stay
<1>4. \A i \in DOMAIN ToAll(s, r) : Contains(members', ToAll(s, r)[i].to)
  BY DEF ToAll, To
<1> QED
  BY <1>1, <1>3, <1>4, Acts

LEMMA PrivmsgRelayMembers ==
  ASSUME MembersInv, WholeInv', NEW u \in User, PrivmsgRelay(u)
  PROVE  MembersInv'
<1>1. members \in Seq(User)
  BY DEF MembersInv, WholeInv, TypeOK
<1>2. \A i \in DOMAIN members : Contains(members, members[i])
  BY <1>1 DEF Contains
<1>3. \A i \in DOMAIN Without(u) : Contains(members, Without(u)[i])
  BY <1>1, <1>2, WithoutIs
<1> QED
  BY <1>3, RelayMembers DEF PrivmsgRelay, At, peers

LEMMA AnnounceMembers ==
  ASSUME MembersInv, WholeInv', NEW u \in User, NEW line, Announce(u, line)
  PROVE  MembersInv'
<1> DEFINE n == Len(members)
           times == IF line = "NICK" THEN n + 1 - Place(u) ELSE 1
           those == [i \in 1..(times * n) |-> members[((i - 1) % n) + 1]]
<1>1. members \in Seq(User) /\ Contains(members, u)
  BY DEF Announce, MembersInv, WholeInv, TypeOK
<1>2. Place(u) \in 1..n /\ n \in Nat /\ n > 0
  BY <1>1, WithoutIs
<1>3. times \in Nat /\ \A i \in Nat : (i % n) + 1 \in DOMAIN members
  BY <1>1, <1>2
<1> HIDE DEF n, times
<1>4. \A i \in 1..(times * n) : i - 1 \in Nat
  BY <1>2, <1>3
<1>5. \A i \in DOMAIN members : Contains(members, members[i])
  BY <1>1 DEF Contains
<1>6. \A i \in DOMAIN those : Contains(members, those[i])
  BY <1>3, <1>4, <1>5
<1>7. Sending(u, ToAll(those, Reply(u, line)))
  BY DEF Announce, n, times
<1>8. Ready(u)
  BY DEF Announce, Dispatch, Counts, At
<1> QED
  BY <1>6, <1>7, <1>8, RelayMembers DEF Announce, peers

LEMMA UnlockMembers ==
  ASSUME MembersInv, WholeInv', NEW u \in User, Unlock(u)
  PROVE  MembersInv'
<1>1. Ready(u) /\ pc[u] \in Holding
  BY DEF Unlock, At, Holding
<1>2. lock = u
  BY <1>1 DEF MembersInv, Relays
<1>3. Unordered(Answer(u, Rest(pc[u])))
  <2>1. Rest(pc[u]) \in Seq(Line \ Ordered)
    BY <1>1, AnswersUnordered DEF Rest, Holding
  <2> QED
    BY <2>1, AnswerUnordered
<1>4. \A w \in User : pc'[w] = IF w = u THEN After(pc[u]) ELSE pc[w]
  BY WentOn DEF Unlock, MembersInv, WholeInv
<1>5. After(pc[u]) \notin Holding /\ After(pc[u]) \notin Gone
  BY DEF After, Holding, Gone
<1>6. Members => Members'
  BY <1>4, <1>5, Stay DEF Unlock, peers
<1> QED
  BY <1>1, <1>2, <1>3, <1>4, <1>5, <1>6, Acts DEF Unlock, peers, Unordered

\* JOIN appends a user that is connected and no member yet.
LEMMA JoinMembers ==
  ASSUME MembersInv, WholeInv', NEW u \in User, Join(u)
  PROVE  MembersInv'
<1>1. /\ Ready(u) /\ life[u] = "open" /\ pc[u] = "recv"
      /\ members' = Append(members, u) /\ members \in Seq(User)
      /\ ~Contains(members, u) /\ lock = NULL
      /\ UNCHANGED <<life, written, lock>>
  BY DEF Join, Dispatch, Counts, At, Ready, peers, MembersInv, WholeInv, TypeOK
<1>2. /\ "recv" \notin Gone /\ "join" \notin Gone
      /\ "recv" \notin Holding /\ "join" \notin Holding
  BY DEF Gone, Holding
<1>3. /\ \A w \in User : w # u => pc'[w] = pc[w]
      /\ pc'[u] \in {"recv", "join"}
  <2>1. CASE UNCHANGED pc
    BY <2>1, <1>1
  <2>2. CASE Goto(u, "join")
    BY <2>2, WentOn DEF MembersInv, WholeInv
  <2> QED
    BY <2>1, <2>2 DEF Join
<1>4. /\ DOMAIN members' = 1..(Len(members) + 1) /\ Len(members) \in Nat
      /\ \A i \in 1..Len(members) : members'[i] = members[i]
      /\ members'[Len(members) + 1] = u /\ Len(members') = Len(members) + 1
      /\ DOMAIN members = 1..Len(members)
  BY <1>1
<1>5. Members => Members'
  <2> SUFFICES ASSUME Members PROVE Members'
    OBVIOUS
  <2>1. ASSUME NEW i \in DOMAIN members', NEW j \in DOMAIN members',
               members'[i] = members'[j]
        PROVE  i = j
    BY <1>1, <1>4, <2>1 DEF Members, IsInjective, Contains
  <2>2. \A i \in DOMAIN members' : life'[members'[i]] = "open"
    BY <1>1, <1>4 DEF Members
  <2>3. ASSUME NEW w \in User, pc'[w] \in Gone PROVE ~Contains(members', w)
    <3>1. w # u /\ pc[w] \in Gone
      BY <2>3, <1>2, <1>3
    <3>2. ~Contains(members, w)
      BY <3>1 DEF Members
    <3> QED
      BY <3>1, <3>2, <1>4 DEF Contains
  <2> QED
    BY <2>1, <2>2, <2>3 DEF Members, IsInjective
<1>6. PICK out : Sending(u, out) /\ Unordered(out)
  <2>1. CASE UNCHANGED todo
    <3>1. Unordered(<<>>)
      BY DEF Unordered
    <3> QED
      BY <2>1, <3>1, <1>1, Nothing DEF MembersInv
  <2>2. CASE Sending(u, Answer(u, <<"JOIN">> \o NamesReplies))
    BY <2>2, AnswersUnordered, AnswerUnordered
  <2> QED
    BY <2>1, <2>2 DEF Join
<1>7. pc'[u] \notin Holding
  BY <1>2, <1>3
<1> QED
  BY <1>1, <1>3, <1>5, <1>6, <1>7, Acts DEF Unordered

\* The loops of JOIN and QUIT do not relay in order.
LEMMA TellNextMembers ==
  ASSUME MembersInv, WholeInv', NEW u \in User, Ready(u),
         NEW line, line \notin Ordered, TellNext(u, line),
         UNCHANGED <<peers, written, lock, members>>
  PROVE  MembersInv'
<1>1. Unordered(<<To(members[at[u]], Reply(u, line))>>)
  BY DEF Unordered, To, Reply
<1> QED
  BY <1>1, Answers DEF TellNext, peers

LEMMA JoinLoopMembers ==
  ASSUME MembersInv, WholeInv', NEW u \in User, JoinLoop(u)
  PROVE  MembersInv'
<1>1. /\ Ready(u) /\ "JOIN" \notin Ordered
      /\ UNCHANGED <<peers, written, lock, members>>
  BY DEF JoinLoop, At, Ordered
<1>2. CASE TellNext(u, "JOIN")
  BY <1>1, <1>2, TellNextMembers
<1>3. CASE Sending(u, Answer(u, NamesReplies)) /\ Goto(u, "recv")
  <2>1. \A w \in User : pc'[w] = IF w = u THEN "recv" ELSE pc[w]
    BY <1>3, WentOn DEF MembersInv, WholeInv
  <2>2. "recv" \notin Holding /\ "recv" \notin Gone
    BY DEF Holding, Gone
  <2>3. Unordered(Answer(u, NamesReplies))
    BY AnswersUnordered, AnswerUnordered
  <2> QED
    BY <2>1, <2>2, <2>3, <1>1, <1>3, Answers DEF peers
<1> QED
  BY <1>2, <1>3 DEF JoinLoop

\* QUIT takes its user out, who was in the channel once at most.
LEMMA QuitMembers ==
  ASSUME MembersInv, WholeInv', NEW u \in User, Quit(u)
  PROVE  MembersInv'
<1>1. /\ Ready(u) /\ members' = Without(u) /\ members \in Seq(User)
      /\ lock = NULL /\ UNCHANGED <<life, written, lock>>
  BY DEF Quit, Dispatch, Counts, At, peers, MembersInv, WholeInv, TypeOK
<1>2. /\ \A w \in User : w # u => pc'[w] = pc[w]
      /\ pc'[u] \in {"quit", "destroy"}
  BY WentOn DEF Quit, MembersInv, WholeInv
<1>3. /\ members' \in Seq(User)
      /\ \A i \in DOMAIN members' : /\ Was(u, i) \in DOMAIN members
                                    /\ members'[i] = members[Was(u, i)]
  BY <1>1, WithoutIs
<1>4. ASSUME NEW w \in User, Contains(members', w) PROVE Contains(members, w)
  BY <1>1, <1>3, <1>4 DEF Contains
<1>5. Members => Members'
  <2> SUFFICES ASSUME Members PROVE Members'
    OBVIOUS
  <2>1. ASSUME NEW i \in DOMAIN members', NEW j \in DOMAIN members',
               members'[i] = members'[j]
        PROVE  i = j
    <3>1. Was(u, i) = Was(u, j)
      BY <2>1, <1>3 DEF Members, IsInjective
    <3>2. i \in Nat /\ j \in Nat /\ (Contains(members, u) => Place(u) \in Nat)
      BY <1>1, <1>3, WithoutIs
    <3> QED
      BY <3>1, <3>2 DEF Was
  <2>2. \A i \in DOMAIN members' : life'[members'[i]] = "open"
    BY <1>1, <1>3 DEF Members
  <2>3. ~Contains(members', u)
    <3> SUFFICES ASSUME NEW i \in DOMAIN members', members'[i] = u PROVE FALSE
      BY <1>3 DEF Contains
    <3>1. members[Was(u, i)] = u /\ Was(u, i) \in DOMAIN members
      BY <1>3
    <3>2. Contains(members, u)
      BY <3>1, <1>1 DEF Contains
    <3>3. Place(u) \in DOMAIN members /\ members[Place(u)] = u
      BY <3>2, <1>1, WithoutIs
    <3>4. Was(u, i) = Place(u)
      BY <3>1, <3>3 DEF Members, IsInjective
    <3>5. i \in Nat /\ Place(u) \in Nat
      BY <3>3, <1>1, <1>3
    <3> QED
      BY <3>2, <3>4, <3>5 DEF Was
  <2>4. ASSUME NEW w \in User, pc'[w] \in Gone PROVE ~Contains(members', w)
    <3>1. CASE w = u
      BY <3>1, <2>3
    <3>2. CASE w # u
      BY <3>2, <2>4, <1>2, <1>4 DEF Members
    <3> QED
      BY <3>1, <3>2
  <2> QED
    BY <2>1, <2>2, <2>4 DEF Members, IsInjective
<1>6. PICK out : Sending(u, out) /\ Unordered(out)
  <2>1. CASE UNCHANGED todo
    <3>1. Unordered(<<>>)
      BY DEF Unordered
    <3> QED
      BY <2>1, <3>1, <1>1, Nothing DEF MembersInv
  <2>2. CASE Sending(u, Answer(u, QuitError))
    BY <2>2, AnswersUnordered, AnswerUnordered
  <2> QED
    BY <2>1, <2>2 DEF Quit
<1>7. pc'[u] \notin Holding
  BY <1>2 DEF Holding
<1> QED
  BY <1>1, <1>2, <1>5, <1>6, <1>7, Acts DEF Unordered

LEMMA QuitLoopMembers ==
  ASSUME MembersInv, WholeInv', NEW u \in User, QuitLoop(u)
  PROVE  MembersInv'
<1>1. /\ Ready(u) /\ "QUIT" \notin Ordered /\ pc[u] \in Gone
      /\ UNCHANGED <<peers, written, lock, members>>
  BY DEF QuitLoop, At, Ordered, Gone
<1>2. CASE TellNext(u, "QUIT")
  BY <1>1, <1>2, TellNextMembers
<1>3. CASE Sending(u, Answer(u, QuitError)) /\ Goto(u, "destroy")
  <2>1. \A w \in User : pc'[w] = IF w = u THEN "destroy" ELSE pc[w]
    BY <1>3, WentOn DEF MembersInv, WholeInv
  <2>2. "destroy" \notin Holding
    BY DEF Holding
  <2>3. Unordered(Answer(u, QuitError))
    BY AnswersUnordered, AnswerUnordered
  <2> QED
    BY <2>1, <2>2, <2>3, <1>1, <1>3, Answers DEF peers
<1> QED
  BY <1>2, <1>3 DEF QuitLoop
----------------------------------------------------------------------------
(* Sending and connections *)

NobodyLost == \A u \in User : life[u] # "lost"

\* What is queued of a thread was queued of it before, for the same receiver.
Queues ==
  \A w \in User : \A i \in DOMAIN todo'[w] :
    \E j \in DOMAIN todo[w] : /\ todo'[w][i].to = todo[w][j].to
                              /\ todo'[w][i].reply = todo[w][j].reply

\* Steps that change neither the lock nor the channel and queue nothing.
LEMMA Keeps ==
  ASSUME MembersInv, WholeInv', UNCHANGED <<lock, members>>, Queues,
         \A w \in User : pc'[w] \in Holding => pc[w] \in Holding,
         NobodyLost' => NobodyLost /\ Members' /\ MembersOnly'
  PROVE  MembersInv'
<1>1. \A w \in User : pc'[w] \in Holding => lock' = w
  BY DEF MembersInv, Relays
<1>2. ASSUME NEW w \in User, NEW i \in DOMAIN todo'[w],
             todo'[w][i].reply.line \in Ordered
      PROVE  lock' = w /\ Contains(members', todo'[w][i].to)
  <2>1. PICK j \in DOMAIN todo[w] : /\ todo'[w][i].to = todo[w][j].to
                                    /\ todo'[w][i].reply = todo[w][j].reply
    BY DEF Queues
  <2>2. lock = w /\ Contains(members, todo[w][j].to)
    BY <2>1, <1>2 DEF MembersInv, Relays
  <2> QED
    BY <2>1, <2>2 DEF Contains
<1> QED
  BY <1>1, <1>2 DEF MembersInv, Relays, NobodyLost

\* A step of the connection, or of nobody: the queues and what was written stay.
LEMMA Connects ==
  ASSUME MembersInv, WholeInv', UNCHANGED <<lock, members, todo, written>>,
         \A w \in User : pc'[w] # pc[w] => pc'[w] \notin Holding,
         NobodyLost' => NobodyLost, NobodyLost' /\ Members => Members'
  PROVE  MembersInv'
<1>1. Queues
  BY DEF Queues
<1>2. MembersOnly /\ NobodyLost => MembersOnly'
  BY DEF MembersOnly, NobodyLost
<1>3. NobodyLost => Members /\ MembersOnly
  BY DEF MembersInv, NobodyLost
<1> QED
  BY <1>1, <1>2, <1>3, Keeps

LEMMA AcceptMembers ==
  ASSUME MembersInv, WholeInv', NEW v \in User, Accept(v)
  PROVE  MembersInv'
<1>1. \A w \in User : life'[w] = IF w = v THEN "open" ELSE life[w]
  BY DEF Accept, MembersInv, WholeInv, TypeOK
<1>2. \A w \in User : pc'[w] = IF w = v THEN "recv" ELSE pc[w]
  BY WentOn DEF Accept, MembersInv, WholeInv
<1>3. "recv" \notin Holding /\ "recv" \notin Gone
  BY DEF Holding, Gone
<1>4. NobodyLost' => NobodyLost
  BY <1>1 DEF NobodyLost, Accept
<1>5. Members => Members'
  <2>1. \A i \in DOMAIN members : members[i] \in User
    BY DEF MembersInv, WholeInv, TypeOK
  <2>2. members' = members
    BY DEF Accept
  <2> QED
    BY <2>1, <2>2, <1>1, <1>2, <1>3 DEF Members
<1> QED
  BY <1>2, <1>3, <1>4, <1>5, Connects DEF Accept

LEMMA ResetMembers ==
  ASSUME MembersInv, WholeInv', NEW c \in User, Reset(c)
  PROVE  MembersInv'
BY Connects DEF Reset, NobodyLost, Members

LEMMA DisconnectMembers ==
  ASSUME MembersInv, WholeInv', NEW u \in User, Disconnect(u)
  PROVE  MembersInv'
<1>1. life'[u] = "lost"
  BY DEF Disconnect, MembersInv, WholeInv, TypeOK
<1> QED
  BY <1>1, Connects DEF Disconnect, NobodyLost

LEMMA SendKillsMembers ==
  ASSUME MembersInv, WholeInv', NEW u \in User, SendKills(u)
  PROVE  MembersInv'
BY Connects DEF SendKills, peers, NobodyLost, Members

\* What send writes, and where.
LEMMA Writes ==
  ASSUME WholeInv, NEW u \in User, Send(u)
  PROVE  LET m == Out(u)  c == sock[fd[m.to]]
         IN  /\ todo[u] \in Seq(Pending) /\ todo[u] # <<>>
             /\ m = todo[u][1] /\ 1 \in DOMAIN todo[u] /\ m.to \in User
             /\ c \in User
             /\ \A d \in User : written'[d] = IF d = c
                  THEN Append(written[c],
                              [to |-> m.to, reply |-> m.reply, piece |-> m.left])
                  ELSE written[d]
<1> DEFINE m == Out(u)
           c == sock[fd[m.to]]
           piece == [to |-> m.to, reply |-> m.reply, piece |-> m.left]
<1>1. /\ todo[u] \in Seq(Pending) /\ todo[u] # <<>>
      /\ m = todo[u][1] /\ 1 \in DOMAIN todo[u] /\ m.to \in User
  <2>1. todo[u] \in Seq(Pending) /\ todo[u] # <<>>
    BY DEF Send, WholeInv, TypeOK
  <2>2. m = todo[u][1] /\ 1 \in DOMAIN todo[u] /\ todo[u][1] \in Pending
    BY <2>1 DEF Out
  <2> QED
    BY <2>1, <2>2 DEF Pending
<1>2. c \in User /\ fd[m.to] \in Fd
  <2>1. life[m.to] # "new"
    BY <1>1 DEF WholeInv, NothingEarly
  <2>2. fd[m.to] \in Fd
    BY <1>1, <2>1 DEF WholeInv, TypeOK, Descriptors
  <2> QED
    BY <2>2 DEF Send, WholeInv, TypeOK
<1>3. written' = [written EXCEPT ![c] = Append(@, piece)]
  BY DEF Send
<1>4. \A d \in User : written'[d] = IF d = c THEN Append(written[c], piece)
                                    ELSE written[d]
  BY <1>2, <1>3 DEF WholeInv, TypeOK
<1> QED
  BY <1>1, <1>2, <1>4

\* A line that is begun stays first, one that is complete goes.
LEMMA SendQueues ==
  ASSUME WholeInv, NEW u \in User, Send(u)
  PROVE  Queues /\ \A w \in User : w # u => todo'[w] = todo[w]
<1> DEFINE m == Out(u)
<1>1. /\ todo[u] \in Seq(Pending) /\ todo[u] # <<>>
      /\ m = todo[u][1] /\ 1 \in DOMAIN todo[u]
  BY Writes
<1>2. ASSUME NEW w \in User, w # u PROVE todo'[w] = todo[w]
  <2>1. \/ todo' = [todo EXCEPT ![u][1].left = 2]
        \/ todo' = [todo EXCEPT ![u] = Tail(@)]
    BY DEF Send, Done
  <2>2. todo \in [User -> Seq(Pending)]
    BY DEF WholeInv, TypeOK
  <2> HIDE DEF m
  <2> QED
    BY <1>2, <2>1, <2>2
<1>3. ASSUME NEW i \in DOMAIN todo'[u]
      PROVE  \E j \in DOMAIN todo[u] : /\ todo'[u][i].to = todo[u][j].to
                                       /\ todo'[u][i].reply = todo[u][j].reply
  <2>1. CASE m.left = 1
    <3>1. todo'[u] = [todo[u] EXCEPT ![1] = [todo[u][1] EXCEPT !.left = 2]]
      BY <2>1 DEF Send, WholeInv, TypeOK
    <3>2. i \in DOMAIN todo[u]
      BY <3>1
    <3>3. /\ todo[u][i] \in Pending
          /\ todo'[u][i] = IF i = 1 THEN [todo[u][1] EXCEPT !.left = 2]
                           ELSE todo[u][i]
      BY <3>1, <3>2, <1>1
    <3>4. todo'[u][i].to = todo[u][i].to /\ todo'[u][i].reply = todo[u][i].reply
      BY <3>3 DEF Pending
    <3> QED
      BY <3>2, <3>4
  <2>2. CASE m.left # 1
    <3>1. todo'[u] = Tail(todo[u])
      BY <2>2 DEF Send, Done, WholeInv, TypeOK
    <3>2. i + 1 \in DOMAIN todo[u] /\ todo'[u][i] = todo[u][i + 1]
      BY <3>1, <1>1
    <3> QED
      BY <3>2
  <2> QED
    BY <2>1, <2>2
<1> QED
  BY <1>2, <1>3 DEF Queues

\* The receiver of a relay is connected, and its descriptor is its own.
LEMMA SendMembers ==
  ASSUME MembersInv, WholeInv', NEW u \in User, Send(u)
  PROVE  MembersInv'
<1> DEFINE m == Out(u)
           c == sock[fd[m.to]]
           piece == [to |-> m.to, reply |-> m.reply, piece |-> m.left]
<1>1. /\ m = todo[u][1] /\ 1 \in DOMAIN todo[u] /\ m.to \in User
      /\ c \in User
      /\ \A d \in User : written'[d] = IF d = c THEN Append(written[c], piece)
                                       ELSE written[d]
  BY Writes DEF MembersInv
<1>2. Queues
  BY SendQueues DEF MembersInv
<1>3. NobodyLost' = NobodyLost /\ Members' = Members
  BY DEF Send, peers, NobodyLost, Members
<1>4. ASSUME NobodyLost, Members, MembersOnly PROVE MembersOnly'
  <2>1. piece.reply.line \in Ordered => piece.to = c
    <3> SUFFICES ASSUME m.reply.line \in Ordered PROVE m.to = c
      OBVIOUS
    <3>1. Contains(members, m.to)
      BY <1>1 DEF MembersInv, Relays
    <3>2. members \in Seq(User)
      BY DEF MembersInv, WholeInv, TypeOK
    <3>3. life[m.to] = "open"
      BY <3>1, <3>2, <1>4 DEF Members, Contains
    <3> QED
      BY <3>3, <1>1 DEF MembersInv, WholeInv, Descriptors
  <2>2. ASSUME NEW d \in User, NEW p \in ToSet(written'[d]), p.reply.line \in Ordered
        PROVE  p.to = d
    <3>1. \A q \in ToSet(written[d]) : q.reply.line \in Ordered => q.to = d
      BY <1>4 DEF MembersOnly, NobodyLost
    <3>2. CASE d # c
      BY <3>2, <3>1, <2>2, <1>1
    <3>3. CASE d = c
      <4>1. written'[d] = Append(written[d], piece) /\ written[d] \in Seq(Piece)
        BY <3>3, <1>1 DEF MembersInv, WholeInv, TypeOK
      <4> HIDE DEF piece, c
      <4>2. p \in ToSet(written[d]) \/ p = piece
        <5>1. PICK i \in DOMAIN written'[d] : p = written'[d][i]
          BY DEF ToSet
        <5>2. i \in 1..(Len(written[d]) + 1) /\ Len(written[d]) \in Nat
          BY <4>1, <5>1
        <5>3. i \in 1..Len(written[d]) => p = written[d][i]
          BY <4>1, <5>1
        <5>4. i = Len(written[d]) + 1 => p = piece
          BY <4>1, <5>1
        <5>5. DOMAIN written[d] = 1..Len(written[d])
          BY <4>1
        <5> QED
          BY <5>2, <5>3, <5>4, <5>5 DEF ToSet
      <4> QED
        BY <4>2, <3>1, <3>3, <2>1, <2>2
    <3> QED
      BY <3>2, <3>3
  <2> QED
    BY <2>2 DEF MembersOnly
<1>5. UNCHANGED <<lock, members, pc>>
  BY DEF Send
<1>6. NobodyLost => Members /\ MembersOnly
  BY DEF MembersInv, NobodyLost
<1> QED
  BY <1>2, <1>3, <1>4, <1>5, <1>6, Keeps

LEMMA SendFailsQueues ==
  ASSUME WholeInv, NEW u \in User, SendFails(u)
  PROVE  Queues /\ \A w \in User : w # u => todo'[w] = todo[w]
<1>1. \A w \in User : todo'[w] = IF w = u THEN Tail(todo[u]) ELSE todo[w]
  BY DoneEarly DEF SendFails
<1>2. todo[u] \in Seq(Pending) /\ todo[u] # <<>>
  BY DEF SendFails, WholeInv, TypeOK
<1>3. \A i \in DOMAIN Tail(todo[u]) :
        i + 1 \in DOMAIN todo[u] /\ Tail(todo[u])[i] = todo[u][i + 1]
  BY <1>2
<1>4. ASSUME NEW i \in DOMAIN todo'[u]
      PROVE  \E j \in DOMAIN todo[u] : todo'[u][i] = todo[u][j]
  BY <1>1, <1>3
<1> QED
  BY <1>1, <1>4 DEF Queues

LEMMA SendFailsMembers ==
  ASSUME MembersInv, WholeInv', NEW u \in User, SendFails(u)
  PROVE  MembersInv'
<1>1. Queues
  BY SendFailsQueues DEF MembersInv
<1>2. NobodyLost' = NobodyLost /\ Members' = Members
  BY DEF SendFails, peers, NobodyLost, Members
<1>3. MembersOnly' = MembersOnly
  BY DEF SendFails, peers, MembersOnly
<1>4. NobodyLost => Members /\ MembersOnly
  BY DEF MembersInv, NobodyLost
<1>5. UNCHANGED <<lock, members, pc>>
  BY DEF SendFails
<1> QED
  BY <1>1, <1>2, <1>3, <1>4, <1>5, Keeps

LEMMA QuitDestroyMembers ==
  ASSUME MembersInv, WholeInv', NEW u \in User, QuitDestroy(u)
  PROVE  MembersInv'
<1>1. \A w \in User : pc'[w] = IF w = u THEN "close" ELSE pc[w]
  BY WentOn DEF QuitDestroy, MembersInv, WholeInv
<1>2. "close" \notin Holding /\ pc[u] \in Gone
  BY DEF QuitDestroy, At, Holding, Gone
<1>3. Members => Members'
  BY <1>1, <1>2, Stay DEF QuitDestroy, peers
<1>4. NobodyLost' => NobodyLost
  BY DEF QuitDestroy, peers, NobodyLost
<1> QED
  BY <1>1, <1>2, <1>3, <1>4, Connects DEF QuitDestroy

LEMMA QuitCloseMembers ==
  ASSUME MembersInv, WholeInv', NEW u \in User, QuitClose(u)
  PROVE  MembersInv'
<1>1. \A w \in User : life'[w] = IF w = u THEN "quit" ELSE life[w]
  BY DEF QuitClose, MembersInv, WholeInv, TypeOK
<1>2. NobodyLost' => NobodyLost
  BY <1>1 DEF NobodyLost, QuitClose, At, Ready
<1>3. Members => Members'
  <2> SUFFICES ASSUME Members PROVE Members'
    OBVIOUS
  <2>1. pc[u] \in Gone /\ UNCHANGED <<members, pc>> /\ members \in Seq(User)
    BY DEF QuitClose, At, Gone, MembersInv, WholeInv, TypeOK
  <2>2. ~Contains(members, u)
    BY <2>1 DEF Members
  <2>3. \A i \in DOMAIN members : members[i] \in User /\ members[i] # u
    BY <2>1, <2>2 DEF Contains
  <2>4. \A i \in DOMAIN members : life'[members[i]] = "open"
    BY <2>3, <1>1 DEF Members
  <2> QED
    BY <2>1, <2>4 DEF Members
<1> QED
  BY <1>2, <1>3, Connects DEF QuitClose

----------------------------------------------------------------------------
LEMMA InitMembers == Init => MembersInv
<1> SUFFICES ASSUME Init PROVE MembersInv
  OBVIOUS
<1>1. WholeInv
  BY InitWhole
<1>2. \A u \in User : /\ todo[u] = <<>> /\ written[u] = <<>> /\ pc[u] = "recv"
  BY DEF Init
<1>3. "recv" \notin Holding /\ "recv" \notin Gone
  BY DEF Holding, Gone
<1>4. Relays
  BY <1>2, <1>3 DEF Relays
<1>5. MembersOnly
  BY <1>2 DEF MembersOnly, ToSet
<1>6. IsInjective(members)
  BY DeliveryConstants DEF Init
<1>7. ASSUME NEW i \in DOMAIN members PROVE life[members[i]] = "open"
  <2>1. members[i] \in User /\ life[members[i]] # "new"
    BY <1>1 DEF WholeInv, NothingEarly, TypeOK
  <2> QED
    BY <2>1 DEF Init, Connected
<1>8. Members
  BY <1>2, <1>3, <1>6, <1>7 DEF Members
<1> QED
  BY <1>1, <1>4, <1>5, <1>8 DEF MembersInv

\* One step of any thread or client.
LEMMA NextMembers == MembersInv /\ [Next]_dvars => MembersInv'
<1> SUFFICES ASSUME MembersInv, [Next]_dvars PROVE MembersInv'
  OBVIOUS
<1>0. WholeInv'
  BY NextWhole DEF MembersInv
<1>1. ASSUME UNCHANGED dvars PROVE MembersInv'
  BY <1>0, <1>1, Connects DEF dvars, peers, NobodyLost, Members
<1>2. ASSUME NEW u \in User, Client(u) PROVE MembersInv'
  <2>1. CASE \E lines \in Queries : Query(u, lines)
    BY <2>1, <1>0, QueryMembers
  <2>2. CASE \E v \in User : Message(u, v)
    BY <2>2, <1>0, MessageMembers
  <2>3. CASE List(u) \/ ListNamed(u) \/ Whois(u)
    BY <2>3, <1>0, ListMembers, ListNamedMembers, WhoisMembers
  <2>4. CASE Privmsg(u)
    BY <2>4, <1>0, PrivmsgMembers
  <2>5. CASE Announce(u, "MODE") \/ Announce(u, "NICK")
    BY <2>5, <1>0, AnnounceMembers
  <2>6. CASE Join(u) \/ Quit(u)
    BY <2>6, <1>0, JoinMembers, QuitMembers
  <2>7. CASE Accept(u) \/ Reset(u) \/ Disconnect(u) \/ SendKills(u)
    BY <2>7, <1>0, AcceptMembers, ResetMembers, DisconnectMembers, SendKillsMembers
  <2>8. CASE Remember(u) \/ NickGreets(u) \/ UserGreets(u)
    BY <2>8, <1>0, RememberMembers, GreetMembers
  <2> QED
    BY <1>2, <2>1, <2>2, <2>3, <2>4, <2>5, <2>6, <2>7, <2>8 DEF Client
<1>3. ASSUME NEW u \in User, Step(u) PROVE MembersInv'
  <2>1. CASE Send(u) \/ SendFails(u)
    BY <2>1, <1>0, SendMembers, SendFailsMembers
  <2>2. CASE Resume(u) \/ ListChannels(u) \/ PrivmsgRelay(u) \/ Unlock(u)
    BY <2>2, <1>0, ResumeMembers, ListMembers, PrivmsgRelayMembers, UnlockMembers
  <2>3. CASE JoinLoop(u) \/ QuitLoop(u)
    BY <2>3, <1>0, JoinLoopMembers, QuitLoopMembers
  <2>4. CASE QuitDestroy(u) \/ QuitClose(u)
    BY <2>4, <1>0, QuitDestroyMembers, QuitCloseMembers
  <2> QED
    BY <1>3, <2>1, <2>2, <2>3, <2>4 DEF Step
<1> QED
  BY <1>1, <1>2, <1>3 DEF Next

\* A message to a channel, a change of mode or of nickname arrives at members
\* and nowhere else, whoever has their descriptors afterwards, while everybody
\* who leaves says QUIT.
THEOREM RelaysReachMembers == Spec => []MembersOnly
<1>1. MembersInv => MembersOnly
  BY DEF MembersInv, MembersOnly
<1> QED
  BY <1>1, InitMembers, NextMembers, PTL DEF Spec
============================================================================
