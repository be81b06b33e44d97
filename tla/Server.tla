------------------------------- MODULE Server -------------------------------
(***************************************************************************)
(* src/src/main.c and src/src/server.c: the accept loop, the life of a     *)
(* client thread, and the composition of the handlers into one system.     *)
(***************************************************************************)
EXTENDS Register, Channel, Message

\* The connection is there and its socket open.
Connected(u) == pc[u] \notin {"unborn", "refused", "exited"}

\* The main thread waits for the next connection.
Accepting == \A u \in User : pc[u] \notin {"accepted", "refused"}

\* accept returns the lowest free descriptor, and the connection is counted.
\* client_socket is stored when the first bytes arrive, before any command.
Accept(u) ==
  /\ At(u, "unborn") /\ "ACCEPT" \in Inputs /\ Accepting
  /\ \E f \in Fd :
       LET open == {user[v].client_socket : v \in {w \in User : Connected(w)}}
       IN  /\ f \notin open
           /\ \A g \in Fd : g < f => g \in open
           /\ user' = [user EXCEPT ![u].client_socket = f]
  /\ ctx' = [ctx EXCEPT !.clients = @ + 1]
  /\ Goto(u, "accepted")
  /\ UNCHANGED <<proc, lock, table, channels, loc, announced>>

\* pthread_create starts its thread, or fails: then the connection is counted
\* back and its socket closed.
ThreadStart(u) ==
  /\ At(u, "accepted") /\ Goto(u, "recv")
  /\ UNCHANGED <<proc, lock, ctx, table, channels, user, loc, announced>>
\* Mutant: the connection is not counted back.
ThreadFail_Count(u) ==
  /\ At(u, "accepted") /\ "EXHAUST" \in Inputs
  /\ Goto(u, "refused")
  /\ UNCHANGED <<proc, lock, ctx, table, channels, user, loc, announced>>
ThreadFail(u) ==
  /\ At(u, "accepted") /\ "EXHAUST" \in Inputs
  /\ ctx' = [ctx EXCEPT !.clients = @ - 1]
  /\ Goto(u, "refused")
  /\ UNCHANGED <<proc, lock, table, channels, user, loc, announced>>

\* main returns after that, and exits when accept fails.
Exit(u) ==
  /\ At(u, "refused") /\ proc' = "dead"
  /\ UNCHANGED <<lock, ctx, table, channels, user, pc, loc, announced>>
AcceptFail ==
  /\ proc # "dead" /\ "EXHAUST" \in Inputs /\ Accepting
  /\ proc' = "dead"
  /\ UNCHANGED <<lock, ctx, table, channels, user, pc, loc, announced>>

\* recv returns 0 or -1: the thread closes its socket and exits, and
\* everything that points to its user_t stays.
Close(u) ==
  /\ At(u, "recv") /\ "CLOSE" \in Inputs
  /\ Goto(u, "exited")
  /\ UNCHANGED <<proc, lock, ctx, table, channels, user, loc, announced>>

\* The user_t of an exited thread is still linked in the table or still a
\* member: reading it finds what the dead stack holds, which is what was
\* there, or kills the process.
ReadExited(u) ==
  /\ proc # "dead" /\ "OVERWRITE" \in Inputs
  /\ Connected(u) /\ pc[u] # "accepted"
  /\ \E v \in User :
       /\ pc[v] = "exited"
       /\ table[v] # NULL \/ \E c \in linked : v \in Members(c)
  /\ proc' = "dead"
  /\ UNCHANGED <<lock, ctx, table, channels, user, pc, loc, announced>>

Connection(u) == \/ Accept(u) \/ ThreadStart(u) \/ ThreadFail(u) \/ Exit(u)
                 \/ Close(u) \/ ReadExited(u)
Arrive(u) == \/ Connection(u)
             \/ RegisterInput(u) \/ ChannelInput(u) \/ MessageInput(u)
Continue(u) == RegisterStep(u) \/ ChannelStep(u) \/ MessageStep(u)

Next == (\E u \in User : Arrive(u) \/ Continue(u)) \/ AcceptFail \/ Stray

\* A thread inside a handler is scheduled and gets the lock it waits for
\* when the lock stays free; clients need not send anything.
Fairness == \A u \in User : WF_vars(Continue(u))

Spec == Init /\ [][Next]_vars /\ Fairness

============================================================================
