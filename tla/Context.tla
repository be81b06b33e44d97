------------------------------ MODULE Context ------------------------------
(***************************************************************************)
(* The state every client thread of the server shares: server_ctx_t with   *)
(* its lock, its counters and its two hash tables, the user_t each thread  *)
(* keeps on its own stack, the channel_t objects of the heap, and where    *)
(* each thread is in the handler it is running.                            *)
(*                                                                         *)
(* A step is one critical section of ctx->lock, with the thread's own work *)
(* around it, or one unlocked access to shared memory.  A section that     *)
(* takes and releases the lock is guarded by lock = NULL; lock holds a     *)
(* thread only between the steps of a section that spans several.          *)
(***************************************************************************)
EXTENDS Integers, FiniteSets

CONSTANTS
  User,      \* client connections: one thread, one user_t each
  Nick,      \* nicknames
  ChanName,  \* channel names
  Fd,        \* file descriptors
  Inputs,    \* what clients and the operating system may do in a run
  Capacity,  \* slots allocated for channel_users (30 in channel.c)
  MaxChan,   \* bound: channels created in a behaviour
  MaxSlot,   \* bound: |user_count| of a channel
  MaxOper,   \* bound: successful OPER commands
  NULL

ASSUME FiniteUsers == IsFiniteSet(User)
ASSUME FdNumbers   == Fd \subseteq Nat
ASSUME NullApart   == NULL \notin User \cup Nick \cup ChanName
ASSUME Bounds      == /\ Capacity \in Nat /\ MaxSlot \in Nat \ {0}
                      /\ MaxChan \in Nat  /\ MaxOper \in Nat

VARIABLES
  proc,      \* "ok", "ub" after undefined behaviour, "torn" when a channel
             \* was deleted twice, "dead"
  lock,      \* holder of ctx->lock, or NULL
  ctx,       \* the counters of server_ctx_t
  table,     \* *ctx->users: the key each user_t is linked under, or NULL
  linked,    \* *ctx->channels: the channel_t objects it links
  hh_next,   \* hh.next left behind in a channel_t that was unlinked
  chan,      \* channel_t objects
  user,      \* user_t of each connection
  pc,        \* where each thread is
  loc,       \* locals of the handler each thread is running
  announced  \* history: <<channel, nick>> that the last MODE to return relayed

vars == <<proc, lock, ctx, table, linked, hh_next, chan, user, pc, loc,
          announced>>
channels == <<linked, hh_next, chan>>

Chan == 1..MaxChan      \* in order of creation, which is list order
NoChan == 0             \* a NULL struct channel_t *
Slot == -MaxSlot..MaxSlot

Outside == {"unborn", "accepted", "refused", "recv", "exited"}
Label == Outside \cup
  {"nick_count", "nick_old", "nick_delete", "nick_assign", "nick_add",
   "user_add", "user_welcome", "user_verify", "lusers",
   "quit_visit", "quit_relay", "quit_close",
   "part_shift", "part_leave", "part_delete", "mode_member", "mode_grant"}

server_ctx_t == [num_connections: Int, clients: Int, operators: Nat,
                 active: Nat]
user_t == [nickname: Nick \cup {NULL}, username: BOOLEAN,
           client_socket: Fd \cup {-1}, comed: BOOLEAN, registered: BOOLEAN,
           is_operator: BOOLEAN, individual_lock: BOOLEAN]
channel_t == [channel_name: ChanName \cup {NULL},
              channel_users: [Slot -> User \cup {NULL}],
              user_count: Slot, operator_socket: Fd \cup {-1},
              founder: User \cup {NULL}]    \* history: who created it
Locals == [nick: Nick \cup {NULL}, taken: BOOLEAN,
           here: Chan \cup {NoChan}, next: Chan \cup {NoChan}]

\* A user_t as service_single_client fills it in.
NewUser == [nickname |-> NULL, username |-> FALSE, client_socket |-> -1,
            comed |-> FALSE, registered |-> FALSE, is_operator |-> FALSE,
            individual_lock |-> TRUE]
\* A channel_t not allocated yet.
NoChannel == [channel_name |-> NULL, channel_users |-> [i \in Slot |-> NULL],
              user_count |-> 0, operator_socket |-> -1, founder |-> NULL]
NoLocals == [nick |-> NULL, taken |-> FALSE, here |-> NoChan,
             next |-> NoChan]

Init ==
  /\ proc = "ok" /\ lock = NULL
  /\ ctx = [num_connections |-> 0, clients |-> 0, operators |-> 0,
            active |-> 0]
  /\ table = [u \in User |-> NULL]
  /\ linked = {} /\ hh_next = [c \in Chan |-> NoChan]
  /\ chan = [c \in Chan |-> NoChannel]
  /\ user = [u \in User |-> NewUser]
  /\ pc = [u \in User |-> "unborn"] /\ loc = [u \in User |-> NoLocals]
  /\ announced = {}

----------------------------------------------------------------------------
(* Threads *)

\* What proc is after undefined behaviour that leaves the process alive.
Harmed == IF proc = "torn" THEN "torn" ELSE "ub"

At(u, label) == proc # "dead" /\ pc[u] = label
Goto(u, label) == pc' = [pc EXCEPT ![u] = label]
Return(u) == Goto(u, "recv") /\ loc' = [loc EXCEPT ![u] = NoLocals]

\* incoming_command: what the thread does with a line of this type, which
\* it refuses with 451 until the user is registered.
Dispatch(u, command) ==
  /\ At(u, "recv") /\ command \in Inputs
  /\ command \in {"NICK", "USER"} \/ user[u].registered

----------------------------------------------------------------------------
(* The users table: uthash keyed by nickname, user_t linked in place *)

InTable(n) == \E u \in User : table[u] = n

HashAdd(u, n) == table' = [table EXCEPT ![u] = n]

\* HASH_DELETE works on the handle inside the user_t, linked or not.  With a
\* handle that was never linked it follows whatever the stack held: all zero
\* makes it free the table it finds, anything else kills the process.
HashDelete(u) ==
  IF table[u] # NULL
    THEN table' = [table EXCEPT ![u] = NULL] /\ UNCHANGED proc
    ELSE \/ /\ \E v \in User : table[v] # NULL
            /\ proc' = Harmed /\ table' = [v \in User |-> NULL]
         \/ proc' = "dead" /\ UNCHANGED table

----------------------------------------------------------------------------
(* The channels table and the member array of a channel *)

HashFind(n) == {c \in linked : chan[c].channel_name = n}

\* hh.next: the following linked channel, or what it was at the unlinking.
After(c) ==
  IF c = NoChan THEN NoChan
  ELSE IF c \notin linked THEN hh_next[c]
  ELSE IF \A d \in linked : d <= c THEN NoChan
  ELSE CHOOSE d \in linked : d > c /\ \A e \in linked : e > c => d <= e
FirstLinked == IF linked = {} THEN NoChan
        ELSE CHOOSE d \in linked : \A e \in linked : d <= e

Members(c) == {chan[c].channel_users[i] : i \in 0..(chan[c].user_count - 1)}

\* A slot above user_count is never read before JOIN writes it, and is NULL
\* here: the array once its count is n.
Cut(a, n) == [i \in Slot |-> IF i < n THEN a[i] ELSE NULL]

\* The loop that moves every slot after the first one holding u down by one;
\* the last slot keeps its value.
\* Mutant: the loop starts to move one slot too late.
Shifted_Late(c, u) ==
  LET a == chan[c].channel_users
  IN  [i \in Slot |->
         IF i < chan[c].user_count - 1 /\ \E k \in 0..(i - 1) : a[k] = u
           THEN a[i + 1] ELSE a[i]]

Shifted(c, u) ==
  LET a == chan[c].channel_users
  IN  [i \in Slot |->
         IF i < chan[c].user_count - 1 /\ \E k \in 0..i : a[k] = u
           THEN a[i + 1] ELSE a[i]]

\* HASH_DELETE of a channel.  Done again to an object already unlinked it
\* dereferences the head of an empty table, or works on the neighbours the
\* object once had: see Stray.
Unlink(c) ==
  IF c \in linked
    THEN /\ hh_next' = [hh_next EXCEPT ![c] = After(c)]
         /\ linked' = linked \ {c}
         /\ UNCHANGED proc
    ELSE /\ proc' \in IF linked = {} THEN {"dead"} ELSE {"torn", "dead"}
         /\ UNCHANGED <<linked, hh_next>>

\* A second deletion sets the head, or next of the object that once came
\* before, to the object that once came after, which may be off the list by
\* now; it moves the tail, behind which JOIN appends, and the bucket chain in
\* the same way; and an object that was alone frees the table of the others.
\* From then on every lookup and every walk may find other channels than the
\* last, dropped ones and unlinked ones among them: Stray is no step of a
\* thread, it chooses what the next one finds.  hh.next always leads on to an
\* object made later, so that a walk meets what it finds in order of creation.
Stray ==
  /\ proc = "torn"
  /\ LET made == {c \in Chan : chan[c].channel_name # NULL}
     IN  \/ /\ linked' \in SUBSET made
            /\ hh_next' \in [Chan -> made \cup {NoChan}]
            /\ \A c \in Chan : hh_next'[c] # NoChan =>
                 c \in made \ linked' /\ c < hh_next'[c]
            /\ UNCHANGED proc
         \/ proc' = "dead" /\ UNCHANGED <<linked, hh_next>>
  /\ UNCHANGED <<lock, ctx, table, chan, user, pc, loc, announced>>
============================================================================
