# simpleIRC in TLA+

A verification development for the IRC server in `src/src`: TLA+ modules
translated from its C code, TLC configurations that check small instances, and
TLAPS proofs for every size. Source lines below are of `src/src/…`.

## 1. The system

simpleIRC is one process with one thread per client. `main` accepts connections
and starts a thread for each; the thread reads lines, parses them and runs one
handler per line. All threads share one `server_ctx_t`, guarded (mostly) by one
mutex, `ctx->lock`. A `user_t` lives on the stack of its thread and is linked by
pointer into the shared users table and into the member arrays of channels; a
`channel_t` is on the heap and never freed.

| Component | State | Operations | Talks to | Hard parts |
|---|---|---|---|---|
| Shared context (`utils/reply.h`, uthash) | counters, users table, channel list, the lock | find, add, delete, iterate | every handler | nothing protects a table against an entry whose memory is gone, a double insertion or a double deletion |
| Registration (`commands/register.c`) | `nickname`, `username`, `comed`, `registered` of a user; users table; `active`, `num_connections` | NICK, USER, QUIT | context, channels, LUSERS | a lookup and what depends on it are in different critical sections; QUIT walks the channels and drops the lock on the way |
| Channels (`commands/channel.c`) | member array, count, `operator_socket`; the channel list; `operators` | JOIN, OPER, MODE, PART, LIST | context, members' `user_t` | PART is three critical sections; 30 slots; descriptor numbers as identity |
| Messages (`commands/message.c`) | none of its own | PRIVMSG, NOTICE, PING, PONG, LUSERS, WHOIS | context, receivers' sockets | pointers used after the unlock; an early return inside a section |
| Client thread (`server.c`) | line buffer, its `user_t` | receive, dispatch, disconnect | parser, handlers | lines cut anywhere by `recv`; its stack is referenced after it ended |
| Accept loop (`main.c`) | `clients` | accept, create a thread | client threads | `clients` is updated without the lock, failures end the process |
| Parser (`utils/parse.c`) | none | `parse_string` | client thread, sds | results left uninitialised for some lines; terminators written into the line |
| Replies (`utils/reply.c`) | `individual_lock` of a receiver | `safe_send`, one function per reply | sockets | partial writes by several threads, a broken pipe, a destroyed mutex, a reused descriptor |
| Strings (`lib/sds`) | a header before the bytes | create, append, format, trim, split, free | parser, replies | header types change as a string grows; formatting buffer; token array |
| Hash tables (`lib/uthash`) | elements linked twice, an array of buckets | the four macros the server uses | context | the array doubles in the middle of an addition |
| Logging (`utils/log.c`), `lib/ut` | – | – | – | output; headers nobody uses |

What makes each correct:

* **context**: the counters count what they are raised and lowered for, whoever
  raises them; a user is linked at most once, a name is listed at most once.
* **registration**: a nickname belongs to one user; a registered user can be
  found; a user is counted once however it registered.
* **channels**: a member is who joined and has not left; nobody is removed by
  somebody else's command; a channel on the list has members, one off it has
  none; who may set modes is who founded the channel or is an operator.
* **threads**: every command returns; no command keeps the lock; lines are what
  was sent, however it arrived.
* **parser**: the handler finds the arguments it reads, and they are whole.
* **replies**: lines do not mix; members see a channel in one order; nobody is
  sent what is meant for another.
* **libraries**: a string is the text put into it, a table finds what was added.

`PROJECT.json` lists the hazards behind these at their lines, with the
properties that cover each.

## 2. Modules

| Module | Contents |
|---|---|
| `Context` | constants, variables, `Init`; the users table, the channel list and the member arrays as the handlers treat them; `Dispatch`, the guard of `incoming_command` |
| `Register` | `command_nick`, `command_user`, `command_quit` |
| `Channel` | `command_join`, `command_oper`, `command_mode`, `command_part`, `command_list` |
| `Message` | the handlers of `message.c` that keep the lock or count |
| `Server` | accept loop, life of a thread; composes the handlers: `Next`, `Fairness`, `Spec` |
| `Membership` | abstract specification: who is in which channel while nobody sends PART |
| `ServerProperties` | the properties of `Server`, the auxiliary invariants, the refinement mapping to `Membership` |
| `Replies` | which lines answer which command |
| `Delivery` | `sendall`, `safe_send`, `individual_lock`, sockets, and every handler as far as it sends |
| `DeliveryProperties` | its properties: what clients see, and the invariants they rest on |
| `Strings` | bytes, and the functions on them by their results |
| `Parse` | `parse_string`: every line to a type and an `argv` |
| `Input` | the `recv` loop and `incoming_command`: bytes to handlers |
| `InputProperties` | its properties |
| `ByteString` | abstract specification of an sds string |
| `Sds` | `lib/sds` as far as the server calls it; shown to keep the text as `ByteString` does |
| `HashTable` | abstract specification of a uthash table; `Context` is written on top of it |
| `Uthash` | the macros of `lib/uthash` the server expands; shown to implement `HashTable` |
| `MCServer`, `MCDelivery`, `MCInput`, `MCSds`, `MCUthash` | instances for TLC |
| `ServerProofs` | theorems about `Server`: tables and counters; channels and the refinement |
| `DeliveryProofs`, `OrderProofs` | theorems about `Delivery`: whole lines and their receivers; what the members see |
| `InputProofs` | theorems about `Input` and `Parse` |
| `SdsProofs`, `UthashProofs` | theorems about the libraries |
| `StringLemmas` | what the functions of `Strings` compute |
| `CommonLemmas` | a set of numbers has a least, which stands for induction; a recursive function exists; `FlattenSeq` |

The system is modelled at four levels that meet at what each takes for granted
of the next. `Input` turns bytes into calls of handlers with arguments;
`Server` runs handlers and is about what they do to shared state; `Delivery`
runs the same handlers, reduced to one channel, and is about what they send.
`Server` and `Delivery` share nothing but the code: their product would have
far more states than both and nothing to say that one of them does not. Below,
`Uthash` and `Sds` show that the libraries do what `Context`, `Parse` and
`Replies` take them to do.

### How state and actions correspond to the code: `Server`

One action is one critical section of `ctx->lock` together with the work of the
thread on its own data before and after it, up to the next access to shared
memory. `pc[u]` names the section a thread enters next, `loc[u]` the locals it
carries there. A section that begins and ends in one action is guarded by
`lock = NULL`; `lock` holds a thread only between the actions of `command_quit`
and after a handler that returned without unlocking. Sections that only copy
pointers out of `ctx` (the first of most handlers) do nothing and are left out.

* `user` is the `user_t` of each thread. Strings are model values; `username`
  is whether one was given. `table[u]` is the key `u` is linked under in
  `*ctx->users`, so two users may be linked under one key, as uthash allows.
* `chan` holds the `channel_t` objects in the order of their creation, which is
  the order of the list; `linked` are those on the list. `hh_next` is the
  pointer an object keeps when it is unlinked, which `command_quit` may follow.
* `user_count` may become negative, and JOIN writes to whatever slot it names.
  Slots at and above the count are never read before JOIN writes them; they are
  `NULL` in the model (`Cut`), which merges states no run of the code tells
  apart.
* `accept` and `pthread_create` are two steps (`Accept`, then `ThreadStart` or
  `ThreadFail`): in between the connection is counted in `clients` and has no
  thread yet. The accept loop does one after the other, so it waits (`Accepting`)
  until it has. A thread that cannot be created counts the connection back, and
  `main` returns then (`Exit`), as it exits when `accept` fails (`AcceptFail`);
  threads go on until it has.
* `proc` is `"ub"` after undefined behaviour that let the process go on,
  `"torn"` after a channel was deleted twice, and `"dead"` after either (or
  `exit`) ended the process. What each case of undefined behaviour may do is a
  choice:
  - `HASH_DELETE` of a `user_t` never linked (`register.c:41`) reads a handle
    that was never written: if it happens to be zero the table is freed,
    otherwise a wild pointer ends the process;
  - a second `HASH_DELETE` of a channel (`channel.c:219`) works on the neighbours
    the object had when it was first unlinked (`uthash.h:464`–`476`). With the
    list a, b, d, of which a was unlinked and then b, and b created again behind
    d, it makes the old b the head: a channel that was off the list is on it
    again, and two listed ones have one name. The tail and the bucket chains are
    rewritten likewise, so that a walk, a lookup and the next insertion may each
    see another list. `Unlink` makes `proc` `"torn"` (or ends the process, as
    it must when the list is empty and there is no table to read), and from then
    on `Stray` may put any set of the channels ever made on the list, with any
    `hh.next` in the others, before every step, or end the process. What it keeps
    is that `hh.next` leads on to channels made later, since every pointer the
    deletion copies does;
  - a member written outside the array hits unused memory or ends the process;
  - a `user_t` whose thread ended is read as it was, or kills the process at
    any later time (`ReadExited`).
* Two history variables: `announced`, the modes relayed, and `founder` of a
  channel.

Inputs are the members of `Inputs`: which commands clients send, whether
connections come, close or break the server's memory in a run. A command stands
for a line the parser accepts, from any thread that is in `recv`. `REJOIN`
stands for a JOIN that finds its nickname in the channel, which stops the whole
server; it is separate so that runs can look past it, as `NOTICE` (to a
channel) and `LIST` (of a missing one) are.

### `Delivery`

`todo[u]` is what a thread has to send before it goes on to `pc[u]`: one entry
is one call of a reply function. A reply is one `safe_send`; what TCP may do to
it is modelled by two pieces, one `send` each. A `send` that writes the whole
line is the two steps with none between.

* `sock[f]` is the connection behind descriptor `f`, so that a `user_t` whose
  `client_socket` was closed, or was given to another connection, can be sent
  to. `accept` takes the least free descriptor, as the kernel does.
* `ilock[v]` is `individual_lock` of `v`, or `DESTROYED`: from then on it keeps
  nobody out. QUIT destroys it only where nobody holds it, since
  `pthread_mutex_destroy` refuses a mutex that is locked.
* `lock` is `ctx->lock`. It is held across the sending of a relay (PRIVMSG, MODE,
  NICK), of all channels to LIST, of the channels of WHOIS, and of the welcome
  that NICK sends (`Holding`). It is not held across the welcome that USER sends
  (`register.c:124`), the answer to LIST of one channel (`ListNamed`), or the
  loops of JOIN and QUIT, which read the array again for every member. A removal
  shifts the array in one step: a loop that reads in the middle of the shift sees
  a member twice, as it does when it reads before and after.
* `reg[u]` is what a client has sent of NICK and USER. The first of them is
  remembered (`Remember`), the other registers and greets: `NickGreets` inside
  the section that inserts the user, `UserGreets` after it. The numbers of LUSERS
  follow in sections of their own, for which the thread may have to wait again
  (`Resume`). Until then every other command is refused with 451. A NICK that
  only renames relays the new name, and inserts the user again in a later section
  (`"rename"`): meanwhile nobody finds it (`InTable`).
* `up` is FALSE when the client's end is gone; the first `send` then fails, and
  `SendKills` is the SIGPIPE of another, or the fault of reading a `user_t` on
  a stack that was unmapped.
* `slow` are clients that do not read: their sockets fill up (`Room`) and
  `send` blocks.
* Sections of the lock that send nothing and follow one another without any
  send between (the two USER has before those of LUSERS, the one NICK removes
  its old entry in) are one step: what they do is in `Server`.
* Left out: PART, which relays under the lock like MODE, and the handlers that
  never return (NOTICE to a channel and JOIN of one's own channel), which stop
  everything.

### `Input`, `Parse`

A line is a sequence of bytes. `parse_string` compares four letters, so these
are one character (`"NICK"`), and so is what is left of a longer name (`"MSG"`
in `PRIVMSG`): whatever else a client sends takes the same paths as the
remaining characters. `UNSET` is a value nobody wrote: the server may do
anything with it (`"ub"`). A buffer is at most `Buffer` bytes instead of 100.
`registered` may be either at the start; a NICK or USER may set it.

### `Sds`, `Uthash`

`Sds` has one string and its tokens. The limits of the header types (32, 256,
65536, 2^32) are `Limits`, and the sizes of the preallocation, of the formatting
buffer and of the token array are constants, so that TLC crosses each of them
with short strings. `Uthash` keeps all links in the elements as the macros do,
under every hash function into `HashValue`. An addition that finds its chain
full doubles the array inside the same step, as the macro does under the lock.

## 3. What is checked

Deadlock is not checked in `MCServer`, `MCDelivery` and `MCInput`: once every
client has quit, or an early return has kept the lock, or the thread has ended,
there really is nothing left to do.

| Run | Checks | Instance |
|---|---|---|
| `register` | `CountersExact`, `NoDoubleInsert`, `RegisteredFindable` | 3 connections from nothing, 2 nicknames; NICK, USER, QUIT, disconnection, threads that cannot be created |
| `quitting` | `CountIsMembers`, `QuitLeavesAll`, refinement of `Membership` (`KeepsMembership`) | 3 registered users, 3 channel names, 3 channels in all; channels created anew after they were removed |
| `modes` | `ModeByMember` | 3 registered users; MODE against JOIN, QUIT, OPER, disconnection |
| `commands` | `CommandReturns` (liveness), `TypeOK` | one registered user and one that arrives, one channel; NICK, USER, JOIN, PART, QUIT |
| `channels` | `UniqueChannelName`, `UnlinkedEmpty` | 2 registered users, 2 channel names, 2 channels in all; JOIN, PART, QUIT, the commands that keep the lock or end the process, disconnection, and what second deletions do |
| `delivery` | `WholeReplies`, `SameOrder`, `MembersOnly`, `JoinTold`, `SendersReturn` (liveness) | 3 connections, one of them arriving in half of them; ten scenarios of who does what, each with every choice of who is in the channel, in either order |
| `input` | `LinesAsSent`, `WildExactly`, `MeaningKept` | every stream of 5 bytes of four kinds, and a few thousand lines of every command, in chunks of up to 3 bytes |
| `sds` | `HeaderTrue`, `SplitWhole`, `KeepsText` | strings of up to 6 bytes, every argument of up to 2, NUL bytes included |
| `uthash` | `Fsck`, `FindsAdded`, refinement of `HashTable` (`KeepsOrder`) | 4 elements, 3 keys, 4 hash values, arrays of 1 to 8 buckets, chains doubling at 2 |

What the less obvious ones say:

* `CountersExact` says what the counters count, which is less than what they are
  reported as: nothing lowers `clients` and `active` when a client leaves, nor
  `num_connections` when it leaves without QUIT, and LUSERS shows them as present
  (`reply.c:354`, `402`). It holds in every state, the one between raising
  `clients` and the answer of `pthread_create` included.
* `UniqueChannelName` is about channels in use, listed or not: a member of an
  unlisted channel would speak to other people than those who joined that name
  later. With `UnlinkedEmpty` it says that the three sections of PART and the one
  of JOIN fit together. Both end with undefined behaviour or a second deletion,
  which sets the list to what it once was: from there on neither holds, and
  nothing is claimed but types. `channels` has two names so that a deleted
  channel had neighbours.
* `WholeReplies`: what one connection receives is whole lines, whichever
  threads write to it, unless its `individual_lock` was destroyed or an ended
  `user_t` has its descriptor. Both exceptions happen, and lines do mix then.
* `SameOrder`: two members never see two messages, modes or nickname changes of
  the channel in opposite orders.
* `MembersOnly`: a relay under the lock reaches members only, although
  descriptors are used again. It needs QUIT to take the user out before it
  closes the socket, and fails for users who leave without QUIT, since nothing
  takes those out: that is the condition it is stated under.
* `JoinTold`: the loop of JOIN, which reads the array without the lock while
  others append to it, tells every member that can be sent to once if nobody
  leaves meanwhile. When somebody does, one may be told twice and another not.
* `SendersReturn`: no circle of waiting among `ctx->lock` and the locks of the
  receivers.
* `WildExactly`: of all lines exactly those of four malformed shapes make the
  server use what the parser never wrote. The equivalence is the point: every
  other agreement between the fifteen branches of the parser and what the
  handlers read of `argv` is thereby checked too.
* `MeaningKept` is about lines as the protocol has them, with a space before the
  colon of the text. Without the space the last argument before it loses a
  character; the parser of the model does that too, and nothing is claimed.
* `LinesAsSent`: CR and LF in different chunks, several lines in one, a line in
  many. With a NUL byte `sdscat` loses the rest of the chunk: the exception.

Why these bounds: a race needs two threads, and a third to be the bystander
whose entry is found, deleted or shifted, who makes a channel outlive a
departure, or who receives from both. Two channels make the walk of QUIT read
ahead to a channel another thread removes, and `MaxChan` lets a name be created
again after its channel is gone; `Capacity` is less than the number of users in
`quitting`, so that the member array overflows there, and counts fall below zero
in `commands` and `channels`, which have PART; two nicknames for three users
make them collide. Where the users start registered (`Early`), they start in a
state that accepting them and their NICK and USER in turn leads to; `register`
does without. After a second deletion `channels` follows the process as long as
every channel counts one member or none (`Followed`), which lets each channel
still be joined, left and deleted again. `MaxSlot` bounds `|user_count|`,
`MaxChan` the channels ever created, `MaxOper` the successful OPERs,
`MaxCommands` the commands of a client in `delivery` that are not its
registration and `Room` the pieces a socket holds, `MaxText` the string in `sds`
and `MaxBuckets` the array in `uthash`. The scenarios of `delivery` pair the
commands that meet: every two of a relay under the lock, a loop without it, a
departure and an arrival occur in one. Lines of 5 bytes hold two line ends and a
byte around each, which is all that the cutting of lines tells apart; three
arguments of any shape go one beyond what any branch of the parser counts,
except MODE and USER, which have lines of their own.

Each property has a mutant: one definition changed as a slip in the code would,
which makes TLC find the property violated.

### Where the code does not do what it says

The runs that end in a counterexample, with the line whose promise is broken:

| Run | Property | What happens |
|---|---|---|
| `unique_nick` | `UniqueNickname` | NICK (`register.c:21`–`69`) checks and inserts in different sections and USER (`:120`) does not check: one nickname, two users, against ":Nickname is already in use" (`utils/reply.c:151`) |
| `part_leaves` | `PartLeaves` | after a PART that raced another command the user is still a member (`channel.c:191`–`214`), against "Leave the channel" (`channel.h:82`) |
| `founder` | `FounderOrOperator` | a newcomer with the descriptor number of a founder who left sets modes (`channel.c:127`), against "You're not channel operator" (`utils/reply.c:534`) |

Other defects need no search: the code does the wrong thing every time, and the
model has an action or a condition that says so instead of a run.

* LIST of a missing channel ends the process (`channel.c:246`, `ListMissing`,
  `ListNamed`).
* Two PARTs that both read a count of zero (`channel.c:218`) delete the channel
  twice, which puts the list back to what it once was (`Stray`).
* A client that goes away without QUIT stays in the users table and in its
  channels, and LUSERS counts it as a user and as a client; one that quits stays
  in the table and in `clients` (`reply.c:354`, `402`).
* The 31st member of a channel is written beside the array, and two PARTs can
  lower the count below zero, after which JOIN writes before it (`JoinMember`).
* The reply 472 has its last word behind the CR LF (`reply.c:555`), so that it
  becomes the beginning of the client's next line. 501 is never sent.
* NOTICE to a channel (`message.c:104`, `NoticeChannel`) and JOIN of one's own
  channel (`channel.c:49`, `JoinAgain`) keep the lock for ever.
* MODE +o is announced and stored nowhere (`ModeGrant`); a sign other than `+`
  is told by looking at the wrong character (`parse.c`, `ModeLine`).
* The four shapes of line in `Defective`.
* NICK relays the new name once for every member from its own place in the
  array on, so that members hear of it several times (`Announce`).
* WHOIS answers with all channels there are (`ListChannels`).
* A client that goes away while it is sent to ends the process (`SendKills`),
  and one that does not read stops everybody once a relay reaches it
  (`SendersReturn` is stated for clients that read).
* A JOIN or QUIT, relayed without the lock, can reach a connection that is not
  a member: `MembersOnly` is not stated for them.

### Fairness

In `Server`, `Fairness` is weak fairness of every step a thread takes inside a
handler, and of nothing else: the kernel schedules a runnable thread eventually,
and no client has to send or close anything. Weak fairness is enough although
threads compete for the lock: each connection quits at most once, so after
finitely many long sections the lock is free in every state, and a waiting
thread is enabled for good. The handlers of `commands` are those that can
return; NOTICE, LIST and JOIN of one's own channel are left out because they do
not.

In `Delivery` it is weak fairness of `Step(u)`: what a thread does once its
client has sent a command, each `send` included. Whether a `send` can go on is
up to the reader: clients outside `slow` always leave room, and
`SendersReturn` claims nothing where one is slow or the process has died.
Starvation is no concern, again because clients send finitely many commands.

## 4. What is proved

Every theorem is of the form `Spec => …` and holds for all values of the
constants that satisfy the assumptions of the component's module. Each rests on
an inductive invariant that is stated beside the properties and was checked by
TLC on an instance before it was proved; the proof has a lemma per action and one that
puts them together along `Next`.

### `Server`

For every finite set of users, any nicknames, channels, descriptors, inputs and
bounds (finitely many users; descriptors are numbers; `NULL` is none of them; the
bounds are numbers, `MaxSlot` not zero):

| Theorem | Establishes | Invariant |
|---|---|---|
| `TypeCorrect` | `[]TypeOK` | `TypeInv` |
| `NamesUnique` | `[]UniqueChannelName` | `ListedOnce`, with `UnlinkedEmpty` |
| `NeverInsertedTwice` | `[]NoDoubleInsert` | `TableInv` |
| `RegisteredFound` | `[]RegisteredFindable` | `TableInv` |
| `CountersAreExact` | `[]CountersExact` | `QuitInv` |
| `UnlinkedIsEmpty` | `[]UnlinkedEmpty` | itself |
| `QuitLeaves` | `[]QuitLeavesAll`, without PART | `ChannelInv` |
| `CountsAreMembers` | `[]CountIsMembers`, without PART | `ChannelInv` |
| `ModesByMembers` | `ModeByMember`, without PART | `ChannelInv` |
| `MembershipKept` | refinement of `Membership`, without PART | `ChannelInv` |

"Without PART" is the hypothesis `"PART" \notin Inputs`. It cannot be dropped:
`part_leaves` shows PART breaking the channel, after which none of the four
holds. Everything else a client can send is allowed, the commands that keep the
lock and the undefined behaviour of registration included. Nothing needs to be
assumed of second deletions: without PART there are none (`Untorn`, proved along
with the rest), since QUIT deletes a channel in the section that found it listed.

* `TypeOK` is not inductive: `mode_grant` announces `loc[u].nick`, and PART
  writes to `chan[loc[u].here]`. `TypeInv` adds `LocalsSet`, that the locals a
  later section uses are set. The proof begins with lemmas on the channel list
  (`After` and `FirstLinked` are a `CHOOSE` of a least element) and on the member arrays.
* `UniqueChannelName` follows from two invariants. `ListedOnce` is its half about
  listed channels, and inductive with `TypeInv` until a channel is deleted twice:
  JOIN is the only action that adds to the list, it adds a name it has just not
  found, no action renames a channel, and a deletion takes its own channel off
  (`UnlinkOk`). That an unlisted channel is not in use is `UnlinkedEmpty`, whose
  proof has a lemma per group of handlers: the sections of PART that have found a
  channel go on lowering its count after it is unlinked, and a JOIN that could
  raise it finds listed channels only. `Stray` is no case of either: it needs
  `proc = "torn"`, which is not the state they are about.
* `NoDoubleInsert` and `RegisteredFindable` follow from `TableInv`, which says
  where in its NICK or USER a user is linked, registered and named. The clauses
  needed to close the induction are that a linked user is registered or between
  the two sections of USER, and that it is never linked where an insertion is
  next. `proc = "ok"` is a hypothesis only where a table freed by a wild
  deletion would matter: that nobody is inserted twice holds even after it.
* `CountersExact` needs `QuitInv`: only a registered user can be in QUIT, and a
  user without `individual_lock` has exited. The actions that change a counter
  or a counted set change each by one element (`OneMore`, `OneLess`); between
  `Accept` and `ThreadFail` the counted set is that of the connections whose
  thread may still be refused (`CountThreadFail`). The others preserve a frame
  (`CountFrame`).
* `QuitLeavesAll` is about a walk along a list that others change whenever the
  walk lets go of the lock, with the next channel read ahead. `ListInv` says
  that channels are listed in the order they were made in, and that what an
  unlinked channel keeps as `hh.next` skips no channel that is linked later in
  the list (`HASH_DELETE` leaves that field as it was). `QuitPath` says that no
  channel the user is in comes before the one the walk reads next (`Ahead`).
  The hard case is a next channel that was itself unlinked: the walk goes on
  through its old `hh.next`. `Walks` names a set that contains every channel
  listed since the walk began and that those links do not leave, except to the
  end of the list, beyond which the user is in no channel. `ArrayInv` keeps the arrays free of duplicates, so that
  taking out one entry takes out the user.
* `CountIsMembers` follows from `ArrayInv` by a bijection between the slots below
  the count and the members. `ModeByMember` needs `ModeInv`: a thread about to
  set a mode is a member, since only its own QUIT could end that; `ModeGrants`
  says that it is no other action with which a thread leaves that section.
* `MembershipKept` is shown step by step: `Init` maps to `MInit`, and each action
  to a step of `Membership` or a stutter. JOIN maps to a step that adds its own
  user; a section of the walk of QUIT takes its own user out of one channel, or
  of none; the section that counts it out is the step to `"gone"`, for which
  `QuitLeavesAll` provides that it is in no channel; a channel that is removed
  had no members left.

### `Delivery`

For any users, descriptors, scenarios, socket buffers and numbers of commands
satisfying `DeliveryConstants` (those whom a scenario has connected at the start
differ and have the first descriptors, its members are among them and differ;
`Queries` are answers of `Replies`):

| Theorem | Establishes | Invariant |
|---|---|---|
| `DeliveryTypes` | `[]TypeOK` | `WholeInv` |
| `RepliesAreWhole` | `[]WholeReplies` | `WholeInv` |
| `RelaysReachMembers` | `[]MembersOnly` | `MembersInv` |
| `RelaysInOneOrder` | `[]SameOrder` | `OrderInv` |
| `JoinsAreTold` | `JoinTold` | `JoinInv` |

Each invariant contains the one before.

* `WholeReplies` is not inductive: whether the next piece may be written depends
  on who is in the middle of a line. `WholeInv` adds that while a connection can
  be written to, its last line is complete or is the one that the holder of its
  `individual_lock` has begun (`Ends`); that a thread has begun one line at most
  and holds that lock, unless it was destroyed (`OneOpen`); that descriptors and
  open connections belong to each other (`Descriptors`); and that nobody is sent
  to before it was accepted (`NothingEarly`), so that a new connection starts
  with an empty stream and a free lock. Handlers only queue lines that nobody has
  begun, and change none of this: one lemma (`Queued`) covers all of them, and
  what is left are `Send`, `SendFails`, `QuitDestroy` and the connections.
* `MembersOnly` needs, with `WholeInv`, that who is in a section that sends has
  `ctx->lock`, that what is queued of a relay is for members (`Relays`), and that
  members differ, are connected, and are not on their way out (`Members`). Then
  the receiver of a relay is connected when its turn comes, and `Descriptors`
  makes its descriptor its own. `Members` differ because JOIN looks first, and
  that is why QUIT, which takes out one entry, takes out the user. Once somebody
  was lost without a QUIT nothing of `Members` is claimed.
* `SameOrder` compares what two connections have seen; the invariant says more,
  about all connections at once: of two relays written anywhere, every
  connection has all pieces of the same one first (`First`), and a relay that is
  still being sent comes after all others that were written. That is what
  `ctx->lock` around the sending is for: `Relays` makes the thread with a relay
  in its queue the holder, so there is no other. What makes a new relay differ
  from those written before is the number of its command (`Counted`), where
  PRIVMSG needs its own clause: it relays in a second section of the command.
* `JoinTold` is about a loop without the lock. `JoinInv` says of a loop at
  position `at` that everybody who can be sent to has been told once if its
  place in the array is below `at` (`Passed`), and not at all otherwise; a line
  that is queued and not yet complete counts as not told. While nobody leaves,
  the array only grows at its end (`Grows`), and members differ
  (`AppendDiffers`, `WithoutDiffers`), so that a place belongs to one member.
  The step that completes a line raises the count of its receiver, whose
  descriptor is its own by `Descriptors`, and of nobody else. A connection
  accepted meanwhile has an empty stream and no place yet.

### `Input`

For any characters, streams, chunk sizes and buffers (`InputBytes`,
`StringBytes`: CR and LF are two of the characters, a NUL is none), and where
the parser is concerned, whatever else a character may be and any set of words
and texts (`ParseBytes`, `ParseValues`: the letters it compares are characters
and not the space, `UNSET` and `NULL` are not what they stand beside;
`InputWords`: a word has no space or colon, a text does not end in a space, and
neither is empty):

| Theorem | Establishes | Invariant |
|---|---|---|
| `LinesArriveAsSent` | `[]LinesAsSent` | `InputInv` |
| `WildIsExact` | `WildExactly` | `InputInv` |
| `MeaningIsKept` | `MeaningKept` | `InputInv` |

`LinesAsSent` is not inductive. `InputInv` adds that buffers and lines are
bytes, that what was received is a prefix of the stream and that the thread
calls `recv` only with an empty buffer. `Receive` moves bytes from the
stream to the buffer, `CompleteLine` from the buffer to a line, together with
what was kept, and `KeepRest` to what is kept: each time the proof regroups one
concatenation (`Regrouped`). A line that lost its CR LF gets it back in
`Unsent`, whether the CR came with the LF or in a chunk before, and a line with a
bare LF kept it. What
`FlattenSeq` gives for one more sequence is in `CommonLemmas`. It is a recursive
function; that it is one at all lengths is shown by a least counterexample
(`Least`), since the induction theorems of the library cannot be instantiated.

* `WildExactly` is a statement about every line, so its proof has a lemma per
  branch of `parse_string`: what the branch returns, how many arguments the
  handler of that type reads (`Reads`), and that they are there (`Good`) or that
  the line is one of the four shapes of `Defective`. Most branches need only the
  number of words. PRIVMSG needs more: it counts the words in front of the
  colon, after a terminator was written over the byte before it, and `PrivFront`
  shows that this count is less than two exactly if the colon begins the second
  word. The words of a line and of its front are compared by what the first
  token of a string is and what is left (`FirstToken`); whether a line begins
  like `WHOIS` is decided on its letters.
* `MeaningKept` goes the other way, from words to the line. `Say` is built word
  by word (`SayWord`), each adding one token (`SpacedTokens`) and leaving a line
  that trimming does not change and that has no colon (`Plain`). With a text
  behind it, the first colon is the one that begins the text (`TextParsed`), so
  the text is found whole even with colons and spaces in it; the terminator
  overwrites the space in front of the colon, ends the last word, and reading
  that word as a C string gives it back (`FrontWords`). What remains is a lemma
  per command, that the branch taken is its own, and `HandlerReached`, that the
  dispatch then calls the handler or refuses a client that is not registered.

### `Sds`

For any bytes, header limits and sizes satisfying `SdsBytes` and `SdsSizes`:

| Theorem | Establishes | Invariant |
|---|---|---|
| `HeadersAreTrue` | `[]HeaderTrue` | `HeaderInv` |
| `LinesSplitWhole` | `[]SplitWhole` | `TokensInv` |
| `TextIsKept` | refinement of `ByteString` (`KeepsText`) | `HeaderInv` |

`HeaderTrue` is not inductive: a string at the limit of its header would wrap at
the next append. `HeaderInv` adds `Fitting`: the room a header keeps, or for
type 5, which keeps none, the length, is below the limit of its type. The
refinement is shown function by function; for `sdscatvprintf` it says that the
doubling of the buffer ends (`Doubling` exceeds any length, again by a least
counterexample) and that the test of the last byte but one is right, so that
`vsnprintf` has cut nothing when its result is appended.

`SplitWhole` is about the loop of `sdssplitlen`: after each byte the tokens made
and the one that is being read, put together with the separators between them,
are the string up to there (`SplitSteps`, with `JoinedAppend` for the step at a
separator), and the array has room for all of them (`SlotsEnough`), so that the
last token, which is stored after the loop, has a slot too. `TokensInv` says that
the tokens of a state are those of the string it has.

### `Uthash`

For any elements, keys, hash function, initial number of buckets and threshold
satisfying `UthashSizes` and `UthashData` (finitely many elements, sizes that are
not zero, hash values that are numbers):

| Theorem | Establishes | Invariant |
|---|---|---|
| `TableIsSound` | `[]Fsck` | `TableInv` |
| `LookupsFind` | `[]FindsAdded` | `TableInv` |
| `OrderedTable` | refinement of `HashTable` (`KeepsOrder`) | `TableInv` |

`Fsck` is not inductive: it says nothing of which chain an element is in, nor
that no element is met twice. `TableInv` says that the list holds each element
once, that every element of it, and no other, is in exactly the chain of its
hash value, and that all these lists are linked forth and back. A list is
defined by walking along links, and the proof goes the other way: `WalkIs` says
that the walk along links that fit a sequence is that sequence (no more steps
than elements, since it meets none twice), so each macro is shown to fit a
sequence known beforehand: the old one with an element appended (`ListAppend`),
put in front (`ListPush`) or taken out (`ListRemove`). These three serve the
list and the chains alike. The doubling (`ExpandKeeps`) is a loop of `ListPush`
over all elements into empty buckets; its invariant (`MoveKeeps`) is `TableInv`
for the elements moved so far, while the links of those not moved yet are still
those of the old array and the order of the whole list is not touched.

### Model-checked only

`CommandReturns` and `SendersReturn`: liveness under fairness, which is out of
the prover's reach. The three runs that end in a counterexample have nothing to
prove. Everything else that the runs check is a theorem.

Whatever a proof is about is written without RECURSIVE operators, since the
prover loses its SMT backend in a module that has one: walks, tokens and
folds are recursive functions, and what such a function computes at every
argument is shown from `Recursion` and `Least`.

## 5. What is not modelled

* The words of replies (`reply.c`): a reply is its numeric, and the string one
  `safe_send` was given, whether it is a line or, for 472, a line and a word.
  Left out with them
  are `get_client_host_info`, whose result lives in a static buffer of
  `gethostbyaddr`, the walk over the members that NAMES prints, and the numbers
  LUSERS reads after its critical section, which may be of different moments.
* Data races on `int`s and pointers have the outcomes of single aligned loads
  and stores, as the compilers of the platforms the server builds on produce.
* Allocations succeed (the code checks none of its own), and memory the parser
  and the handlers never free costs nothing.
* `free_parsed_command`, and those functions of sds and macros of uthash
  (sorting, selection, Bloom filters, ordered insertion, the other hash
  functions) that nothing calls. `lib/ut` is included nowhere.
* Options, logging, socket setup: they run once or only print.

## 6. Plan

Done: everything above. Not planned: refinement of `Membership` with PART, since
PART breaks it (`part_leaves`), and a proof of the two liveness properties.
