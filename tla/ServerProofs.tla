---------------------------- MODULE ServerProofs ----------------------------
(***************************************************************************)
(* Type correctness and safety of the server, for any number of            *)
(* connections, nicknames, channels and slots, whatever the clients send:  *)
(* one lemma for each action, after facts about the channel list and the   *)
(* member arrays.                                                          *)
(*                                                                         *)
(* The second half is about who is in which channel.  A channel taken off  *)
(* the list is empty, whatever clients send; while nobody sends PART,      *)
(* counts and arrays agree, QUIT leaves every channel although it walks    *)
(* the list without the lock at times, and the server implements           *)
(* Membership.                                                             *)
(***************************************************************************)
EXTENDS ServerProperties, FiniteSetTheorems, CommonLemmas

----------------------------------------------------------------------------
(* The channel list and the member arrays *)

\* hh.next and the head of the list are channels or NULL.
LEMMA AfterType ==
  ASSUME TypeOK, NEW c \in Chan \cup {NoChan}
  PROVE  After(c) \in Chan \cup {NoChan}
<1>1. CASE c = NoChan
  BY <1>1 DEF After
<1>2. CASE c # NoChan /\ c \notin linked
  BY <1>2 DEF After, TypeOK
<1>3. CASE c \in linked /\ \A d \in linked : d <= c
  BY <1>3 DEF After
<1>4. CASE c \in linked /\ ~(\A d \in linked : d <= c)
  <2> DEFINE S == {d \in linked : d > c}
  <2>0. linked \subseteq Nat
    BY Bounds DEF TypeOK, Chan
  <2>1. PICK d \in linked : ~(d <= c)
    BY <1>4
  <2>2. d \in Nat /\ c \in Nat
    BY <1>4, <2>0
  <2>3. S # {} /\ S \subseteq Nat
    <3>1. d > c
      BY <2>1, <2>2
    <3> QED
      BY <3>1, <2>0
  <2>4. \E e \in S : \A g \in S : e <= g
    BY <2>3, Least
  <2>5. \E e \in linked : e > c /\ \A g \in linked : g > c => e <= g
    BY <2>4
  <2>6. After(c) \in linked
    BY <1>4, <2>5, <2>2 DEF After, NoChan, Chan, TypeOK
  <2> QED
    BY <2>6 DEF TypeOK
<1> QED
  BY <1>1, <1>2, <1>3, <1>4

\* The head of the channel list, where QUIT starts, is a channel or NULL.
LEMMA HeadType ==
  ASSUME TypeOK
  PROVE  FirstLinked \in Chan \cup {NoChan}
<1>1. CASE linked = {}
  BY <1>1 DEF FirstLinked
<1>2. CASE linked # {}
  <2>1. linked \subseteq Nat
    BY Bounds DEF TypeOK, Chan
  <2>2. \E d \in linked : \A e \in linked : d <= e
    BY <1>2, <2>1, Least
  <2>3. FirstLinked \in linked
    BY <1>2, <2>2 DEF FirstLinked
  <2> QED
    BY <2>3 DEF TypeOK
<1> QED
  BY <1>1, <1>2

\* The loop of PART and QUIT that closes the gap writes only users or NULL.
LEMMA ShiftedType ==
  ASSUME TypeOK, NEW c \in Chan, NEW u \in User
  PROVE  Shifted(c, u) \in [Slot -> User \cup {NULL}]
<1>1. chan[c] \in channel_t
  BY DEF TypeOK
<1>2. chan[c].channel_users \in [Slot -> User \cup {NULL}]
      /\ chan[c].user_count \in Slot
  BY <1>1 DEF channel_t
<1>3. ASSUME NEW i \in Slot, i < chan[c].user_count - 1
      PROVE  i + 1 \in Slot
  BY <1>2, <1>3, Bounds DEF Slot
<1> QED
  BY <1>2, <1>3 DEF Shifted

\* Dropping the slots at and above a count leaves an array of users.
LEMMA CutType ==
  ASSUME NEW a \in [Slot -> User \cup {NULL}], NEW n
  PROVE  Cut(a, n) \in [Slot -> User \cup {NULL}]
BY DEF Cut

\* A channel with a member counts at least one.
LEMMA MemberCounts ==
  ASSUME TypeOK, NEW c \in Chan, NEW u \in Members(c)
  PROVE  chan[c].user_count \in Slot /\ chan[c].user_count >= 1
         /\ chan[c].user_count - 1 \in Slot
<1>1. chan[c].user_count \in Slot
  BY DEF TypeOK, channel_t
<1>2. PICK i \in 0..(chan[c].user_count - 1) : TRUE
  BY DEF Members
<1> QED
  BY <1>1, <1>2, Bounds DEF Slot

\* Writing the array and the count of one channel keeps the type of all.
LEMMA ChannelUpdate ==
  ASSUME TypeOK, NEW c \in Chan, NEW a \in [Slot -> User \cup {NULL}],
         NEW k \in Slot,
         chan' = [chan EXCEPT ![c].channel_users = a, ![c].user_count = k]
  PROVE  chan' \in [Chan -> channel_t]
<1>1. [chan[c] EXCEPT !.channel_users = a, !.user_count = k] \in channel_t
  <2>1. chan[c] \in channel_t
    BY DEF TypeOK
  <2> QED
    BY <2>1 DEF channel_t
<1>2. chan' = [chan EXCEPT ![c] =
                 [chan[c] EXCEPT !.channel_users = a, !.user_count = k]]
  BY DEF TypeOK
<1> QED
  BY <1>1, <1>2 DEF TypeOK

\* HASH_DELETE of a channel, even of one unlinked before, keeps the types of
\* the list.
LEMMA UnlinkType ==
  ASSUME TypeOK, NEW c \in Chan, Unlink(c)
  PROVE  /\ proc' \in {"ok", "ub", "torn", "dead"}
         /\ linked' \subseteq linked
         /\ hh_next' \in [Chan -> Chan \cup {NoChan}]
<1>1. \A d \in Chan : After(d) \in Chan \cup {NoChan}
  BY AfterType
<1> QED
  BY <1>1 DEF Unlink, TypeOK

\* HASH_DELETE of a user_t, linked or not, keeps the types of the table.
LEMMA HashDeleteType ==
  ASSUME TypeOK, NEW u \in User, HashDelete(u)
  PROVE  /\ proc' \in {"ok", "ub", "torn", "dead"}
         /\ table' \in [User -> Nick \cup {NULL}]
BY DEF HashDelete, Harmed, TypeOK

----------------------------------------------------------------------------
(* Types *)

TypeInv == TypeOK /\ LocalsSet

\* A thread between two commands has well-typed locals.
LEMMA NoLocalsType == NoLocals \in Locals
BY DEF NoLocals, Locals

\* NickLookup keeps the types.
LEMMA NickLookupType ==
  ASSUME TypeInv, NEW u \in User, NEW n \in Nick, NickLookup(u, n)
  PROVE  TypeInv'
<1>1. pc' \in [User -> Label]
  BY DEF NickLookup, TypeInv, TypeOK, Goto, Return, Label, Outside
<1>2. loc' \in [User -> Locals]
  BY NoLocalsType DEF NickLookup, TypeInv, TypeOK, Return, Locals, InTable
<1>3. LocalsSet'
  BY DEF NickLookup, TypeInv, TypeOK, LocalsSet, Locals, Goto, Return, Dispatch, At, NoLocals, InTable
<1> QED
  BY <1>1, <1>2, <1>3 DEF NickLookup, TypeInv, TypeOK, channels

\* NickCount keeps the types.
LEMMA NickCountType ==
  ASSUME TypeInv, NEW u \in User, NickCount(u)
  PROVE  TypeInv'
<1>1. pc' \in [User -> Label]
  BY DEF NickCount, TypeInv, TypeOK, Goto, Return, Label, Outside
<1>2. loc' \in [User -> Locals]
  BY NoLocalsType DEF NickCount, TypeInv, TypeOK, Return, Locals
<1>3. user' \in [User -> user_t]
  BY DEF NickCount, TypeInv, TypeOK, user_t
<1>4. ctx' \in server_ctx_t
  BY DEF NickCount, TypeInv, TypeOK, server_ctx_t
<1>5. LocalsSet'
  BY DEF NickCount, TypeInv, TypeOK, LocalsSet, Locals, Goto, Return, Dispatch, At, NoLocals
<1> QED
  BY <1>1, <1>2, <1>3, <1>4, <1>5 DEF NickCount, TypeInv, TypeOK, channels

\* NickFindOld keeps the types.
LEMMA NickFindOldType ==
  ASSUME TypeInv, NEW u \in User, NickFindOld(u)
  PROVE  TypeInv'
<1>1. pc' \in [User -> Label]
  BY DEF NickFindOld, TypeInv, TypeOK, Goto, Label, Outside
<1>2. LocalsSet'
  BY DEF NickFindOld, TypeInv, TypeOK, LocalsSet, Locals, Goto, Return, Dispatch, At, NoLocals
<1> QED
  BY <1>1, <1>2 DEF NickFindOld, TypeInv, TypeOK, channels

\* NickDelete keeps the types.
LEMMA NickDeleteType ==
  ASSUME TypeInv, NEW u \in User, NickDelete(u)
  PROVE  TypeInv'
<1>1. pc' \in [User -> Label]
  BY DEF NickDelete, TypeInv, TypeOK, Goto, Label, Outside
<1>2. proc' \in {"ok", "ub", "torn", "dead"} /\ table' \in [User -> Nick \cup {NULL}]
  BY HashDeleteType DEF NickDelete, TypeInv
<1>3. LocalsSet'
  BY DEF NickDelete, TypeInv, TypeOK, LocalsSet, Locals, Goto, Return, Dispatch, At, NoLocals
<1> QED
  BY <1>1, <1>2, <1>3 DEF NickDelete, TypeInv, TypeOK, channels

\* NickAssign keeps the types.
LEMMA NickAssignType ==
  ASSUME TypeInv, NEW u \in User, NickAssign(u)
  PROVE  TypeInv'
<1>1. pc' \in [User -> Label]
  BY DEF NickAssign, TypeInv, TypeOK, Goto, Return, Label, Outside
<1>2. loc' \in [User -> Locals]
  BY NoLocalsType DEF NickAssign, TypeInv, TypeOK, Return, Locals
<1>3. user' \in [User -> user_t]
  BY DEF NickAssign, TypeInv, TypeOK, user_t, Locals
<1>4. LocalsSet'
  BY DEF NickAssign, TypeInv, TypeOK, LocalsSet, Locals, Goto, Return, Dispatch, At, NoLocals
<1> QED
  BY <1>1, <1>2, <1>3, <1>4 DEF NickAssign, TypeInv, TypeOK, channels

\* NickAdd keeps the types.
LEMMA NickAddType ==
  ASSUME TypeInv, NEW u \in User, NickAdd(u)
  PROVE  TypeInv'
<1>1. pc' \in [User -> Label]
  BY DEF NickAdd, TypeInv, TypeOK, Goto, Return, Label, Outside
<1>2. loc' \in [User -> Locals]
  BY NoLocalsType DEF NickAdd, TypeInv, TypeOK, Return, Locals
<1>3. user' \in [User -> user_t]
  <2>1. CASE user[u].registered
    BY <2>1 DEF NickAdd, TypeInv, TypeOK
  <2>2. CASE ~user[u].registered
    <3>1. user' = [user EXCEPT ![u].registered = TRUE]
      BY <2>2 DEF NickAdd
    <3> QED
      BY <3>1 DEF TypeInv, TypeOK, user_t
  <2> QED
    BY <2>1, <2>2
<1>4. ctx' \in server_ctx_t
  BY DEF NickAdd, TypeInv, TypeOK, server_ctx_t
<1>5. table' \in [User -> Nick \cup {NULL}]
  BY DEF NickAdd, TypeInv, TypeOK, HashAdd, user_t
<1>6. LocalsSet'
  BY DEF NickAdd, TypeInv, TypeOK, LocalsSet, Locals, Goto, Return, Dispatch, At, NoLocals
<1> QED
  BY <1>1, <1>2, <1>3, <1>4, <1>5, <1>6 DEF NickAdd, TypeInv, TypeOK, channels

\* UserBegin keeps the types.
LEMMA UserBeginType ==
  ASSUME TypeInv, NEW u \in User, UserBegin(u)
  PROVE  TypeInv'
<1>1. pc' \in [User -> Label]
  BY DEF UserBegin, TypeInv, TypeOK, Goto, Label, Outside
<1>2. user' \in [User -> user_t]
  <2> DEFINE named == user[u].username \/ ~user[u].registered
  <2>1. user' = [user EXCEPT ![u].comed = TRUE, ![u].username = named]
    BY DEF UserBegin
  <2>2. named \in BOOLEAN
    OBVIOUS
  <2> HIDE DEF named
  <2> QED
    BY <2>1, <2>2 DEF TypeInv, TypeOK, user_t
<1>3. ctx' \in server_ctx_t
  BY DEF UserBegin, TypeInv, TypeOK, server_ctx_t
<1>4. LocalsSet'
  BY DEF UserBegin, TypeInv, TypeOK, LocalsSet, Locals, Goto, Return, Dispatch, At, NoLocals
<1> QED
  BY <1>1, <1>2, <1>3, <1>4 DEF UserBegin, TypeInv, TypeOK, channels

\* UserAdd keeps the types.
LEMMA UserAddType ==
  ASSUME TypeInv, NEW u \in User, UserAdd(u)
  PROVE  TypeInv'
<1>1. pc' \in [User -> Label]
  BY DEF UserAdd, TypeInv, TypeOK, Goto, Label, Outside
<1>2. table' \in [User -> Nick \cup {NULL}]
  BY DEF UserAdd, TypeInv, TypeOK, HashAdd, user_t
<1>3. LocalsSet'
  BY DEF UserAdd, TypeInv, TypeOK, LocalsSet, Locals, Goto, Return, Dispatch, At, NoLocals
<1> QED
  BY <1>1, <1>2, <1>3 DEF UserAdd, TypeInv, TypeOK, channels

\* UserWelcome keeps the types.
LEMMA UserWelcomeType ==
  ASSUME TypeInv, NEW u \in User, UserWelcome(u)
  PROVE  TypeInv'
<1>1. pc' \in [User -> Label]
  BY DEF UserWelcome, TypeInv, TypeOK, Goto, Label, Outside
<1>2. user' \in [User -> user_t]
  BY DEF UserWelcome, TypeInv, TypeOK, user_t
<1>3. ctx' \in server_ctx_t
  BY DEF UserWelcome, TypeInv, TypeOK, server_ctx_t
<1>4. LocalsSet'
  BY DEF UserWelcome, TypeInv, TypeOK, LocalsSet, Locals, Goto, Return, Dispatch, At, NoLocals
<1> QED
  BY <1>1, <1>2, <1>3, <1>4 DEF UserWelcome, TypeInv, TypeOK, channels

\* UserVerify keeps the types.
LEMMA UserVerifyType ==
  ASSUME TypeInv, NEW u \in User, UserVerify(u)
  PROVE  TypeInv'
<1>1. pc' \in [User -> Label]
  BY DEF UserVerify, TypeInv, TypeOK, Goto, Label, Outside
<1>2. LocalsSet'
  BY DEF UserVerify, TypeInv, TypeOK, LocalsSet, Locals, Goto, Return, Dispatch, At, NoLocals
<1> QED
  BY <1>1, <1>2 DEF UserVerify, TypeInv, TypeOK, channels

\* QuitBegin keeps the types.
LEMMA QuitBeginType ==
  ASSUME TypeInv, NEW u \in User, QuitBegin(u)
  PROVE  TypeInv'
<1>1. FirstLinked \in Chan \cup {NoChan} /\ After(FirstLinked) \in Chan \cup {NoChan}
  BY AfterType, HeadType DEF TypeInv
<1>2. pc' \in [User -> Label]
  BY DEF QuitBegin, TypeInv, TypeOK, Goto, Return, Label, Outside
<1>3. loc' \in [User -> Locals]
  BY NoLocalsType, <1>1 DEF QuitBegin, TypeInv, TypeOK, Return, Locals
<1>4. LocalsSet'
  BY <1>1 DEF QuitBegin, TypeInv, TypeOK, LocalsSet, Locals, Goto, Return, Dispatch, At, NoLocals
<1> QED
  BY <1>1, <1>2, <1>3, <1>4 DEF QuitBegin, TypeInv, TypeOK, channels

\* QuitPass keeps the types.
LEMMA QuitPassType ==
  ASSUME TypeInv, NEW u \in User, QuitPass(u)
  PROVE  TypeInv'
<1>1. loc[u].next \in Chan \cup {NoChan}
      /\ After(loc[u].next) \in Chan \cup {NoChan}
  BY AfterType DEF TypeInv, TypeOK, Locals
<1>2. loc' \in [User -> Locals]
  BY NoLocalsType, <1>1 DEF QuitPass, TypeInv, TypeOK, Return, Locals, Advance
<1>3. LocalsSet'
  BY <1>1 DEF QuitPass, TypeInv, TypeOK, LocalsSet, Locals, Goto, Return, Dispatch, At, NoLocals, Advance
<1> QED
  BY <1>1, <1>2, <1>3 DEF QuitPass, TypeInv, TypeOK, channels

\* QuitLeave keeps the types.
LEMMA QuitLeaveType ==
  ASSUME TypeInv, NEW u \in User, QuitLeave(u)
  PROVE  TypeInv'
<1>1. loc[u].next \in Chan \cup {NoChan}
      /\ After(loc[u].next) \in Chan \cup {NoChan}
  BY AfterType DEF TypeInv, TypeOK, Locals
<1>2. pc' \in [User -> Label]
  BY DEF QuitLeave, TypeInv, TypeOK, Goto, Return, Label, Outside
<1>3. loc' \in [User -> Locals]
  BY NoLocalsType, <1>1 DEF QuitLeave, TypeInv, TypeOK, Return, Locals, Advance
<1>4. chan' \in [Chan -> channel_t]
  <2> DEFINE c == loc[u].here
  <2>1. c \in Chan /\ u \in Members(c)
    BY DEF QuitLeave, TypeInv, TypeOK, Locals
  <2>2. Shifted(c, u) \in [Slot -> User \cup {NULL}]
    BY <2>1, ShiftedType DEF TypeInv
  <2>3. Cut(Shifted(c, u), chan[c].user_count - 1) \in [Slot -> User \cup {NULL}]
    BY <2>2, CutType
  <2>4. chan[c].user_count - 1 \in Slot
    BY <2>1, MemberCounts DEF TypeInv
  <2> QED
    BY <2>1, <2>3, <2>4, ChannelUpdate DEF QuitLeave, TypeInv
<1>5. proc' \in {"ok", "ub", "torn", "dead"} /\ linked' \subseteq Chan
      /\ hh_next' \in [Chan -> Chan \cup {NoChan}]
  BY UnlinkType DEF QuitLeave, TypeInv, TypeOK, LocalsSet, Locals
<1>6. LocalsSet'
  BY <1>1 DEF QuitLeave, TypeInv, TypeOK, LocalsSet, Locals, Goto, Return, Dispatch, At, NoLocals, Advance
<1> QED
  BY <1>1, <1>2, <1>3, <1>4, <1>5, <1>6 DEF QuitLeave, TypeInv, TypeOK, channels

\* QuitRelock keeps the types.
LEMMA QuitRelockType ==
  ASSUME TypeInv, NEW u \in User, QuitRelock(u)
  PROVE  TypeInv'
<1>1. loc[u].next \in Chan \cup {NoChan}
      /\ After(loc[u].next) \in Chan \cup {NoChan}
  BY AfterType DEF TypeInv, TypeOK, Locals
<1>2. pc' \in [User -> Label]
  BY DEF QuitRelock, TypeInv, TypeOK, Goto, Return, Label, Outside
<1>3. loc' \in [User -> Locals]
  BY NoLocalsType, <1>1 DEF QuitRelock, TypeInv, TypeOK, Return, Locals, Advance
<1>4. LocalsSet'
  BY <1>1 DEF QuitRelock, TypeInv, TypeOK, LocalsSet, Locals, Goto, Return, Dispatch, At, NoLocals, Advance
<1> QED
  BY <1>1, <1>2, <1>3, <1>4 DEF QuitRelock, TypeInv, TypeOK, channels

\* QuitEnd keeps the types.
LEMMA QuitEndType ==
  ASSUME TypeInv, NEW u \in User, QuitEnd(u)
  PROVE  TypeInv'
<1>1. pc' \in [User -> Label]
  BY DEF QuitEnd, TypeInv, TypeOK, Goto, Label, Outside
<1>2. ctx' \in server_ctx_t
  BY DEF QuitEnd, TypeInv, TypeOK, server_ctx_t
<1>3. LocalsSet'
  BY DEF QuitEnd, TypeInv, TypeOK, LocalsSet, Locals, Goto, Return, Dispatch, At, NoLocals
<1> QED
  BY <1>1, <1>2, <1>3 DEF QuitEnd, TypeInv, TypeOK, channels

\* QuitClose keeps the types.
LEMMA QuitCloseType ==
  ASSUME TypeInv, NEW u \in User, QuitClose(u)
  PROVE  TypeInv'
<1>1. pc' \in [User -> Label]
  BY DEF QuitClose, TypeInv, TypeOK, Goto, Return, Label, Outside
<1>2. loc' \in [User -> Locals]
  BY NoLocalsType DEF QuitClose, TypeInv, TypeOK, Return, Locals
<1>3. user' \in [User -> user_t]
  BY DEF QuitClose, TypeInv, TypeOK, user_t
<1>4. LocalsSet'
  BY DEF QuitClose, TypeInv, TypeOK, LocalsSet, Locals, Goto, Return, Dispatch, At, NoLocals
<1> QED
  BY <1>1, <1>2, <1>3, <1>4 DEF QuitClose, TypeInv, TypeOK, channels

\* JoinNew keeps the types.
LEMMA JoinNewType ==
  ASSUME TypeInv, NEW u \in User, NEW n \in ChanName, JoinNew(u, n)
  PROVE  TypeInv'
<1>1. user[u].client_socket \in Fd \cup {-1}
  BY DEF TypeInv, TypeOK, user_t
<1>2. NewChannel(u, n) \in channel_t
  BY <1>1, Bounds DEF NewChannel, channel_t, Slot
<1>3. chan' \in [Chan -> channel_t]
  BY <1>2 DEF JoinNew, TypeInv, TypeOK
<1>4. linked' \subseteq Chan
  BY DEF JoinNew, TypeInv, TypeOK
<1> QED
  BY <1>3, <1>4 DEF JoinNew, TypeInv, TypeOK, LocalsSet, channels

\* JoinMember keeps the types.
LEMMA JoinMemberType ==
  ASSUME TypeInv, NEW u \in User, NEW n \in ChanName, JoinMember(u, n)
  PROVE  TypeInv'
<1>1. chan' \in [Chan -> channel_t]
  <2>1. PICK c \in Chan :
          /\ chan[c].user_count < MaxSlot
          /\ chan' = [chan EXCEPT ![c].channel_users[chan[c].user_count] = u,
                                  ![c].user_count = @ + 1]
    BY DEF JoinMember, HashFind, TypeInv, TypeOK
  <2> DEFINE a == [chan[c].channel_users EXCEPT ![chan[c].user_count] = u]
             k == chan[c].user_count + 1
  <2>2. k \in Slot
    BY <2>1, Bounds DEF TypeInv, TypeOK, channel_t, Slot
  <2>3. a \in [Slot -> User \cup {NULL}]
    BY DEF TypeInv, TypeOK, channel_t
  <2>4. chan' = [chan EXCEPT ![c].channel_users = a, ![c].user_count = k]
    BY <2>1 DEF TypeInv, TypeOK
  <2> HIDE DEF a, k
  <2> QED
    BY <2>2, <2>3, <2>4, ChannelUpdate DEF TypeInv
<1> QED
  BY <1>1 DEF JoinMember, Harmed, TypeInv, TypeOK, LocalsSet, channels

\* JoinAgain keeps the types.
LEMMA JoinAgainType ==
  ASSUME TypeInv, NEW u \in User, NEW n \in ChanName, JoinAgain(u, n)
  PROVE  TypeInv'
BY DEF JoinAgain, TypeInv, TypeOK, LocalsSet, channels

\* OperGrant keeps the types.
LEMMA OperGrantType ==
  ASSUME TypeInv, NEW u \in User, OperGrant(u)
  PROVE  TypeInv'
<1>1. user' \in [User -> user_t]
  BY DEF OperGrant, TypeInv, TypeOK, user_t
<1>2. ctx' \in server_ctx_t
  BY DEF OperGrant, TypeInv, TypeOK, server_ctx_t
<1> QED
  BY <1>1, <1>2 DEF OperGrant, TypeInv, TypeOK, LocalsSet, channels

\* ModeFind keeps the types.
LEMMA ModeFindType ==
  ASSUME TypeInv, NEW u \in User, NEW n \in ChanName, NEW t \in Nick, ModeFind(u, n, t)
  PROVE  TypeInv'
<1>1. pc' \in [User -> Label]
  BY DEF ModeFind, TypeInv, TypeOK, Goto, Return, Label, Outside
<1>2. loc' \in [User -> Locals]
  <2>1. PICK c \in Chan : loc' = [loc EXCEPT ![u].here = c, ![u].nick = t]
    BY DEF ModeFind, HashFind, TypeInv, TypeOK
  <2>2. [loc[u] EXCEPT !.here = c, !.nick = t] \in Locals
    BY DEF TypeInv, TypeOK, Locals
  <2>3. loc' = [loc EXCEPT ![u] = [loc[u] EXCEPT !.here = c, !.nick = t]]
    BY <2>1 DEF TypeInv, TypeOK
  <2> QED
    BY <2>2, <2>3 DEF TypeInv, TypeOK
<1>3. LocalsSet'
  BY DEF ModeFind, TypeInv, TypeOK, LocalsSet, Locals, Goto, Return, Dispatch, At, NoLocals, HashFind
<1> QED
  BY <1>1, <1>2, <1>3 DEF ModeFind, TypeInv, TypeOK, channels

\* ModeMember keeps the types.
LEMMA ModeMemberType ==
  ASSUME TypeInv, NEW u \in User, ModeMember(u)
  PROVE  TypeInv'
<1>1. pc' \in [User -> Label]
  BY DEF ModeMember, TypeInv, TypeOK, Goto, Return, Label, Outside
<1>2. loc' \in [User -> Locals]
  BY NoLocalsType DEF ModeMember, TypeInv, TypeOK, Return, Locals
<1>3. LocalsSet'
  BY DEF ModeMember, TypeInv, TypeOK, LocalsSet, Locals, Goto, Return, Dispatch, At, NoLocals
<1> QED
  BY <1>1, <1>2, <1>3 DEF ModeMember, TypeInv, TypeOK, channels

\* ModeGrant keeps the types.
LEMMA ModeGrantType ==
  ASSUME TypeInv, NEW u \in User, ModeGrant(u)
  PROVE  TypeInv'
<1>1. pc' \in [User -> Label]
  BY DEF ModeGrant, TypeInv, TypeOK, Goto, Return, Label, Outside
<1>2. loc' \in [User -> Locals]
  BY NoLocalsType DEF ModeGrant, TypeInv, TypeOK, Return, Locals
<1>3. announced' \subseteq Chan \X Nick
  <2>1. loc[u].here \in Chan /\ loc[u].nick \in Nick
    BY DEF ModeGrant, At, TypeInv, LocalsSet
  <2> QED
    BY <2>1 DEF ModeGrant, TypeInv, TypeOK
<1>4. LocalsSet'
  BY DEF ModeGrant, TypeInv, TypeOK, LocalsSet, Locals, Goto, Return, Dispatch, At, NoLocals
<1> QED
  BY <1>1, <1>2, <1>3, <1>4 DEF ModeGrant, TypeInv, TypeOK, channels

\* PartFind keeps the types.
LEMMA PartFindType ==
  ASSUME TypeInv, NEW u \in User, NEW n \in ChanName, PartFind(u, n)
  PROVE  TypeInv'
<1>1. pc' \in [User -> Label]
  BY DEF PartFind, TypeInv, TypeOK, Goto, Return, Label, Outside
<1>2. loc' \in [User -> Locals]
  <2>1. PICK c \in Chan : loc' = [loc EXCEPT ![u].here = c]
    BY DEF PartFind, HashFind, TypeInv, TypeOK
  <2>2. loc[u] \in Locals
    BY DEF TypeInv, TypeOK
  <2>3. [loc[u] EXCEPT !.here = c] \in Locals
    BY <2>2 DEF Locals
  <2> QED
    BY <2>1, <2>3 DEF TypeInv, TypeOK
<1>3. LocalsSet'
  BY DEF PartFind, TypeInv, TypeOK, LocalsSet, Locals, Goto, Return, Dispatch, At, NoLocals, HashFind
<1> QED
  BY <1>1, <1>2, <1>3 DEF PartFind, TypeInv, TypeOK, channels

\* PartShift keeps the types.
LEMMA PartShiftType ==
  ASSUME TypeInv, NEW u \in User, PartShift(u)
  PROVE  TypeInv'
<1>1. pc' \in [User -> Label]
  BY DEF PartShift, TypeInv, TypeOK, Goto, Return, Label, Outside
<1>2. loc' \in [User -> Locals]
  BY NoLocalsType DEF PartShift, TypeInv, TypeOK, Return, Locals
<1>3. chan' \in [Chan -> channel_t]
  <2>1. loc[u].here \in Chan
    BY DEF PartShift, At, TypeInv, LocalsSet
  <2> DEFINE c == loc[u].here
             a == Shifted(c, u)
  <2>2. a \in [Slot -> User \cup {NULL}]
    BY <2>1, ShiftedType DEF TypeInv
  <2>3. chan' = [chan EXCEPT ![c] = [chan[c] EXCEPT !.channel_users = a]]
    BY <2>1 DEF PartShift, TypeInv, TypeOK
  <2>4. chan[c] \in channel_t
    BY <2>1 DEF TypeInv, TypeOK
  <2> HIDE DEF a, c
  <2>5. [chan[c] EXCEPT !.channel_users = a] \in channel_t
    BY <2>2, <2>4 DEF channel_t
  <2> QED
    BY <2>3, <2>5 DEF TypeInv, TypeOK
<1>4. LocalsSet'
  BY DEF PartShift, TypeInv, TypeOK, LocalsSet, Locals, Goto, Return, Dispatch, At, NoLocals
<1> QED
  BY <1>1, <1>2, <1>3, <1>4 DEF PartShift, TypeInv, TypeOK, channels

\* PartLeave keeps the types.
LEMMA PartLeaveType ==
  ASSUME TypeInv, NEW u \in User, PartLeave(u)
  PROVE  TypeInv'
<1>1. pc' \in [User -> Label]
  BY DEF PartLeave, TypeInv, TypeOK, Goto, Label, Outside
<1>2. chan' \in [Chan -> channel_t]
  <2> DEFINE c == loc[u].here
  <2>1. c \in Chan
    BY DEF PartLeave, At, TypeInv, LocalsSet
  <2>2. /\ chan[c].user_count - 1 \in Slot
        /\ chan[c].channel_users \in [Slot -> User \cup {NULL}]
    BY <2>1, Bounds DEF PartLeave, TypeInv, TypeOK, channel_t, Slot
  <2>3. Cut(chan[c].channel_users, chan[c].user_count - 1)
          \in [Slot -> User \cup {NULL}]
    BY <2>2, CutType
  <2> QED
    BY <2>1, <2>2, <2>3, ChannelUpdate DEF PartLeave, TypeInv
<1>3. LocalsSet'
  BY DEF PartLeave, TypeInv, TypeOK, LocalsSet, Locals, Goto, Return, Dispatch, At, NoLocals
<1> QED
  BY <1>1, <1>2, <1>3 DEF PartLeave, TypeInv, TypeOK, channels

\* PartDelete keeps the types.
LEMMA PartDeleteType ==
  ASSUME TypeInv, NEW u \in User, PartDelete(u)
  PROVE  TypeInv'
<1>1. pc' \in [User -> Label]
  BY DEF PartDelete, TypeInv, TypeOK, Goto, Return, Label, Outside
<1>2. loc' \in [User -> Locals]
  BY NoLocalsType DEF PartDelete, TypeInv, TypeOK, Return, Locals
<1>3. proc' \in {"ok", "ub", "torn", "dead"} /\ linked' \subseteq Chan
      /\ hh_next' \in [Chan -> Chan \cup {NoChan}]
  <2>1. loc[u].here \in Chan
    BY DEF PartDelete, At, TypeInv, LocalsSet
  <2> QED
    BY <2>1, UnlinkType DEF PartDelete, TypeInv, TypeOK
<1>4. LocalsSet'
  BY DEF PartDelete, TypeInv, TypeOK, LocalsSet, Locals, Goto, Return, Dispatch, At, NoLocals
<1> QED
  BY <1>1, <1>2, <1>3, <1>4 DEF PartDelete, TypeInv, TypeOK, channels

\* ListMissing keeps the types.
LEMMA ListMissingType ==
  ASSUME TypeInv, NEW u \in User, NEW n \in ChanName, ListMissing(u, n)
  PROVE  TypeInv'
BY DEF ListMissing, TypeInv, TypeOK, LocalsSet, channels

\* NoticeChannel keeps the types.
LEMMA NoticeChannelType ==
  ASSUME TypeInv, NEW u \in User, NEW n \in ChanName, NoticeChannel(u, n)
  PROVE  TypeInv'
BY DEF NoticeChannel, TypeInv, TypeOK, LocalsSet, channels

\* Lusers keeps the types.
LEMMA LusersType ==
  ASSUME TypeInv, NEW u \in User, Lusers(u)
  PROVE  TypeInv'
<1>1. pc' \in [User -> Label]
  BY DEF Lusers, TypeInv, TypeOK, Goto, Return, Label, Outside
<1>2. loc' \in [User -> Locals]
  BY NoLocalsType DEF Lusers, TypeInv, TypeOK, Return, Locals
<1>3. LocalsSet'
  BY DEF Lusers, TypeInv, TypeOK, LocalsSet, Locals, Goto, Return, Dispatch, At, NoLocals
<1> QED
  BY <1>1, <1>2, <1>3 DEF Lusers, TypeInv, TypeOK, channels

\* Accept keeps the types.
LEMMA AcceptType ==
  ASSUME TypeInv, NEW u \in User, Accept(u)
  PROVE  TypeInv'
<1>1. pc' \in [User -> Label]
  BY DEF Accept, TypeInv, TypeOK, Goto, Label, Outside
<1>2. user' \in [User -> user_t]
  BY DEF Accept, TypeInv, TypeOK, user_t
<1>3. ctx' \in server_ctx_t
  BY DEF Accept, TypeInv, TypeOK, server_ctx_t
<1>4. LocalsSet'
  BY DEF Accept, TypeInv, TypeOK, LocalsSet, Locals, Goto, Return, Dispatch, At, NoLocals
<1> QED
  BY <1>1, <1>2, <1>3, <1>4 DEF Accept, TypeInv, TypeOK, channels

\* pthread_create and its failure keep the types.
LEMMA ThreadType ==
  ASSUME TypeInv, NEW u \in User, ThreadStart(u) \/ ThreadFail(u) \/ Exit(u)
  PROVE  TypeInv'
<1>1. pc' \in [User -> Label]
  BY DEF ThreadStart, ThreadFail, Exit, TypeInv, TypeOK, Goto, Label, Outside
<1>2. ctx' \in server_ctx_t
  BY DEF ThreadStart, ThreadFail, Exit, TypeInv, TypeOK, server_ctx_t
<1>3. LocalsSet'
  BY DEF ThreadStart, ThreadFail, Exit, TypeInv, TypeOK, LocalsSet, Goto, At
<1>4. proc' \in {"ok", "ub", "torn", "dead"}
  BY DEF ThreadStart, ThreadFail, Exit, TypeInv, TypeOK
<1> QED
  BY <1>1, <1>2, <1>3, <1>4
     DEF ThreadStart, ThreadFail, Exit, TypeInv, TypeOK, channels

\* Close keeps the types.
LEMMA CloseType ==
  ASSUME TypeInv, NEW u \in User, Close(u)
  PROVE  TypeInv'
<1>1. pc' \in [User -> Label]
  BY DEF Close, TypeInv, TypeOK, Goto, Label, Outside
<1>2. LocalsSet'
  BY DEF Close, TypeInv, TypeOK, LocalsSet, Locals, Goto, Return, Dispatch, At, NoLocals
<1> QED
  BY <1>1, <1>2 DEF Close, TypeInv, TypeOK, channels

\* ReadExited keeps the types.
LEMMA ReadExitedType ==
  ASSUME TypeInv, NEW u \in User, ReadExited(u)
  PROVE  TypeInv'
BY DEF ReadExited, TypeInv, TypeOK, LocalsSet, channels

\* The context main sets up is well typed.
LEMMA TypeInit == Init => TypeInv
<1> SUFFICES ASSUME Init PROVE TypeInv
  OBVIOUS
<1>1. ctx \in server_ctx_t
  BY DEF Init, server_ctx_t
<1>2. chan \in [Chan -> channel_t]
  BY Bounds DEF Init, NoChannel, channel_t, Slot
<1>3. user \in [User -> user_t]
  BY DEF Init, NewUser, user_t
<1>4. loc \in [User -> Locals]
  BY NoLocalsType DEF Init
<1> QED
  BY <1>1, <1>2, <1>3, <1>4
     DEF Init, TypeInv, TypeOK, LocalsSet, Label, Outside

\* Every step of the server keeps the types and the locals in use.
LEMMA TypeNext == TypeInv /\ [Next]_vars => TypeInv'
<1> SUFFICES ASSUME TypeInv, [Next]_vars PROVE TypeInv'
  OBVIOUS
<1>1. ASSUME NEW u \in User, RegisterInput(u) \/ RegisterStep(u)
      PROVE  TypeInv'
  BY <1>1, NickLookupType, NickCountType, NickFindOldType, NickDeleteType, NickAssignType, NickAddType, UserBeginType, UserAddType, UserWelcomeType, UserVerifyType, QuitBeginType, QuitPassType, QuitLeaveType, QuitRelockType, QuitEndType, QuitCloseType DEF RegisterInput, RegisterStep
<1>2. ASSUME NEW u \in User, ChannelInput(u) \/ ChannelStep(u)
      PROVE  TypeInv'
  BY <1>2, JoinNewType, JoinMemberType, JoinAgainType, OperGrantType, ModeFindType, ModeMemberType, ModeGrantType, PartFindType, PartShiftType, PartLeaveType, PartDeleteType, ListMissingType DEF ChannelInput, ChannelStep
<1>3. ASSUME NEW u \in User, MessageInput(u) \/ MessageStep(u)
      PROVE  TypeInv'
  BY <1>3, NoticeChannelType, LusersType DEF MessageInput, MessageStep
<1>4. ASSUME NEW u \in User, Connection(u)
      PROVE  TypeInv'
  BY <1>4, AcceptType, ThreadType, CloseType, ReadExitedType DEF Connection
<1>5. CASE AcceptFail
  BY <1>5 DEF AcceptFail, TypeInv, TypeOK, LocalsSet, channels
<1>7. CASE Stray
  BY <1>7 DEF Stray, TypeInv, TypeOK, LocalsSet
<1>6. CASE UNCHANGED vars
  BY <1>6 DEF vars, TypeInv, TypeOK, LocalsSet, Members
<1> QED
  BY <1>1, <1>2, <1>3, <1>4, <1>5, <1>6, <1>7 DEF Next, Arrive, Continue

\* Every variable stays within its type, and a handler between two of its
\* critical sections holds the channel and the nickname it goes on with.
THEOREM TypeCorrect == Spec => []TypeOK
<1>1. TypeInv => TypeOK
  BY DEF TypeInv
<1> QED
  BY <1>1, TypeInit, TypeNext, PTL DEF Spec

----------------------------------------------------------------------------
(* Channel names *)

\* A channel that is removed was on the list, or the process is not well.
LEMMA UnlinkOk ==
  ASSUME NEW c, Unlink(c), proc' \in {"ok", "ub"}
  PROVE  proc' = proc /\ c \in linked /\ linked' = linked \ {c}
BY DEF Unlink

\* Two listed channels have different names, as long as the process is alive
\* and no channel was deleted twice.
ListedOnce ==
  proc \in {"ok", "ub"} => \A c, d \in linked :
    chan[c].channel_name = chan[d].channel_name => c = d

\* Only JOIN of a name no listed channel has adds to the list, and a
\* channel keeps its name.
LEMMA NamesStep ==
  ASSUME TypeInv, ListedOnce, [Next]_vars
  PROVE  ListedOnce'
<1> SUFFICES ASSUME proc' \in {"ok", "ub"} PROVE ListedOnce'
  BY DEF ListedOnce
<1>1. ASSUME NEW u \in User, NEW n \in ChanName, JoinNew(u, n)
      PROVE  ListedOnce'
  <2>1. PICK c \in Chan : /\ chan' = [chan EXCEPT ![c] = NewChannel(u, n)]
                          /\ linked' = linked \cup {c}
    BY <1>1 DEF JoinNew
  <2>2. \A d \in linked : chan[d].channel_name # n
    BY <1>1 DEF JoinNew, HashFind
  <2>3. chan'[c].channel_name = n /\ \A d \in linked \ {c} : chan'[d] = chan[d]
    BY <2>1 DEF NewChannel, TypeInv, TypeOK
  <2>4. proc \in {"ok", "ub"}
    BY <1>1 DEF JoinNew
  <2> QED
    BY <2>1, <2>2, <2>3, <2>4 DEF ListedOnce
<1>2. SUFFICES ASSUME \A u \in User, n \in ChanName : ~JoinNew(u, n)
      PROVE  ListedOnce'
  BY <1>1
<1>3. /\ proc \in {"ok", "ub"} /\ linked' \subseteq linked
      /\ \A c \in Chan : chan'[c].channel_name = chan[c].channel_name
  <2>1. ASSUME NEW u \in User, RegisterInput(u) \/ RegisterStep(u)
        PROVE  <1>3!1 /\ <1>3!2
    <3>1. CASE QuitLeave(u)
      <4>1. proc \in {"ok", "ub"} /\ linked' \subseteq linked
        BY <3>1, UnlinkOk DEF QuitLeave
      <4> QED
        BY <3>1, <4>1 DEF QuitLeave, TypeInv, TypeOK, channel_t
    <3>2. CASE NickDelete(u) \/ UserVerify(u)
      BY <3>2 DEF NickDelete, HashDelete, Harmed, UserVerify, At, TypeInv,
           TypeOK, channels
    <3>3. CASE ~(QuitLeave(u) \/ NickDelete(u) \/ UserVerify(u))
      BY <2>1, <3>3 DEF RegisterInput, RegisterStep, NickLookup, NickCount,
           NickFindOld, NickAssign, NickAdd, UserBegin, UserAdd,
           UserWelcome, QuitBegin, QuitPass, QuitRelock, QuitEnd,
           QuitClose, channels
    <3> QED
      BY <3>1, <3>2, <3>3
  <2>2. ASSUME NEW u \in User, ChannelInput(u) \/ ChannelStep(u)
        PROVE  <1>3!1 /\ <1>3!2
    <3>1. CASE \E n \in ChanName : JoinMember(u, n)
      <4>1. proc \in {"ok", "ub"} /\ linked' \subseteq linked
        BY <3>1 DEF JoinMember, Harmed, Dispatch, At, TypeInv, TypeOK
      <4> QED
        BY <3>1, <4>1 DEF JoinMember, TypeInv, TypeOK, channel_t
    <3>2. CASE PartShift(u)
      BY <3>2 DEF PartShift, TypeInv, TypeOK, channel_t
    <3>3. CASE PartLeave(u)
      BY <3>3 DEF PartLeave, TypeInv, TypeOK, channel_t
    <3>4. CASE PartDelete(u)
      BY <3>4, UnlinkOk DEF PartDelete
    <3>5. CASE OperGrant(u) \/ ModeMember(u) \/ ModeGrant(u)
      BY <3>5 DEF OperGrant, ModeMember, ModeGrant, channels
    <3>6. CASE \E n \in ChanName : JoinAgain(u, n) \/ PartFind(u, n)
                 \/ ListMissing(u, n) \/ \E t \in Nick : ModeFind(u, n, t)
      BY <3>6 DEF JoinAgain, PartFind, ListMissing, ModeFind, channels
    <3> QED
      BY <1>2, <2>2, <3>1, <3>2, <3>3, <3>4, <3>5, <3>6
         DEF ChannelInput, ChannelStep
  <2>3. ASSUME NEW u \in User, MessageInput(u) \/ MessageStep(u)
        PROVE  <1>3!1 /\ <1>3!2
    BY <2>3 DEF MessageInput, MessageStep, NoticeChannel, Lusers, channels
  <2>4. ASSUME NEW u \in User, Connection(u)
        PROVE  <1>3!1 /\ <1>3!2
    BY <2>4 DEF Connection, Accept, ThreadStart, ThreadFail, Exit, Close,
         ReadExited, channels
  <2>5. CASE AcceptFail \/ Stray \/ UNCHANGED vars
    BY <2>5 DEF AcceptFail, Stray, vars, channels
  <2> QED
    BY <2>1, <2>2, <2>3, <2>4, <2>5 DEF Next, Arrive, Continue
<1> QED
  BY <1>3 DEF ListedOnce, TypeInv, TypeOK

\* Two listed channels never have one name then.
LEMMA ListedAlways == Spec => []ListedOnce
<1>1. Init => ListedOnce
  BY DEF Init, ListedOnce
<1> QED
  BY <1>1, TypeInit, TypeNext, NamesStep, PTL DEF Spec

----------------------------------------------------------------------------
(* The users table *)

\* What every handler but NICK and USER leaves as it is for TableInv.
TableFrame ==
  /\ UNCHANGED table
  /\ proc' = "ok" => proc = "ok"
  /\ \A v \in User :
       /\ user'[v].nickname = user[v].nickname
       /\ user'[v].username = user[v].username
       /\ user'[v].registered = user[v].registered
       /\ \/ pc'[v] = pc[v] /\ loc'[v] = loc[v]
          \/ /\ pc[v] \notin {"nick_assign", "nick_add", "user_welcome"}
             /\ pc'[v] \notin {"nick_count", "nick_old", "nick_delete",
                  "nick_assign", "nick_add", "user_add", "user_welcome"}

\* A step that leaves the table, the nicknames and the places of NICK and USER
\* alone keeps TableInv.
LEMMA TableKept ==
  ASSUME TableInv, TableFrame
  PROVE  TableInv'
BY DEF TableInv, TableFrame

\* The sections of NICK keep TableInv: it inserts after it removed.
LEMMA TableNick ==
  ASSUME TypeInv, TableInv, NEW u \in User,
         \/ \E n \in Nick : NickLookup(u, n)
         \/ NickCount(u) \/ NickFindOld(u) \/ NickDelete(u)
         \/ NickAssign(u) \/ NickAdd(u)
  PROVE  TableInv'
<1>1. ASSUME NEW n \in Nick, NickLookup(u, n) PROVE TableInv'
  <2>1. loc'[u].nick = n /\ \A v \in User \ {u} : loc'[v] = loc[v]
    BY <1>1 DEF NickLookup, TypeInv, TypeOK, Locals
  <2>2. \A v \in User : pc'[v] = IF v = u THEN "nick_count" ELSE pc[v]
    BY <1>1 DEF NickLookup, Goto, TypeInv, TypeOK
  <2>3. pc[u] = "recv" /\ UNCHANGED <<proc, table, user>>
    BY <1>1 DEF NickLookup, Dispatch, At
  <2> QED
    BY <2>1, <2>2, <2>3 DEF TableInv
<1>2. CASE NickCount(u)
  BY <1>2 DEF NickCount, At, Goto, Return, TableInv, TypeInv, TypeOK, user_t
<1>3. CASE NickFindOld(u)
  BY <1>3, NullApart DEF NickFindOld, InTable, At, Goto, TableInv, TypeInv, TypeOK
<1>4. CASE NickDelete(u)
  BY <1>4 DEF NickDelete, HashDelete, Harmed, At, Goto, TableInv, TypeInv, TypeOK
<1>5. CASE NickAssign(u)
  BY <1>5 DEF NickAssign, At, Goto, Return, TableInv, TypeInv, TypeOK, user_t
<1>6. CASE NickAdd(u)
  BY <1>6, NullApart DEF NickAdd, HashAdd, At, Goto, Return, TableInv, TypeInv, TypeOK, user_t
<1> QED
  BY <1>1, <1>2, <1>3, <1>4, <1>5, <1>6

\* The sections of USER keep TableInv: it inserts before it registers.
LEMMA TableUser ==
  ASSUME TypeInv, TableInv, NEW u \in User,
         UserBegin(u) \/ UserAdd(u) \/ UserWelcome(u) \/ UserVerify(u)
  PROVE  TableInv'
<1>1. CASE UserBegin(u)
  BY <1>1 DEF UserBegin, Dispatch, At, Goto, TableInv, TypeInv, TypeOK, user_t
<1>2. CASE UserAdd(u)
  BY <1>2, NullApart DEF UserAdd, HashAdd, At, Goto, TableInv, TypeInv, TypeOK
<1>3. CASE UserWelcome(u)
  BY <1>3 DEF UserWelcome, At, Goto, TableInv, TypeInv, TypeOK, user_t
<1>4. CASE UserVerify(u)
  BY <1>4 DEF UserVerify, At, Goto, TableInv, TypeInv, TypeOK
<1> QED
  BY <1>1, <1>2, <1>3, <1>4

\* QUIT leaves the users table alone.
LEMMA TableQuit ==
  ASSUME TypeInv, TableInv, NEW u \in User,
         \/ QuitBegin(u) \/ QuitPass(u) \/ QuitLeave(u)
         \/ QuitRelock(u) \/ QuitEnd(u) \/ QuitClose(u)
  PROVE  TableFrame
<1>1. CASE QuitBegin(u)
  BY <1>1 DEF QuitBegin, Dispatch, At, Goto, TableFrame, TypeInv, TypeOK
<1>2. CASE QuitPass(u)
  BY <1>2 DEF QuitPass, At, Advance, TableFrame, TypeInv, TypeOK
<1>3. CASE QuitLeave(u)
  BY <1>3 DEF QuitLeave, Unlink, At, Goto, Advance, TableFrame, TypeInv, TypeOK
<1>4. CASE QuitRelock(u)
  BY <1>4 DEF QuitRelock, At, Goto, Advance, TableFrame, TypeInv, TypeOK
<1>5. CASE QuitEnd(u)
  BY <1>5 DEF QuitEnd, At, Goto, TableFrame, TypeInv, TypeOK
<1>6. CASE QuitClose(u)
  BY <1>6 DEF QuitClose, At, Goto, TableFrame, TypeInv, TypeOK, user_t
<1> QED
  BY <1>1, <1>2, <1>3, <1>4, <1>5, <1>6

\* The handlers of channel.c leave the users table alone.
LEMMA TableChannel ==
  ASSUME TypeInv, TableInv, NEW u \in User, ChannelInput(u) \/ ChannelStep(u)
  PROVE  TableFrame
<1>1. ASSUME NEW n \in ChanName,
             JoinNew(u, n) \/ JoinMember(u, n) \/ JoinAgain(u, n)
               \/ ListMissing(u, n)
      PROVE  TableFrame
  BY <1>1 DEF JoinNew, JoinMember, Harmed, JoinAgain, ListMissing, TableFrame, channels
<1>2. ASSUME NEW n \in ChanName, PartFind(u, n) PROVE TableFrame
  BY <1>2 DEF PartFind, Dispatch, At, Goto, TableFrame, TypeInv, TypeOK
<1>3. ASSUME NEW n \in ChanName, NEW t \in Nick, ModeFind(u, n, t)
      PROVE  TableFrame
  BY <1>3 DEF ModeFind, Dispatch, At, Goto, TableFrame, TypeInv, TypeOK
<1>4. CASE OperGrant(u)
  BY <1>4 DEF OperGrant, TableFrame, TypeInv, TypeOK, user_t
<1>5. CASE ModeMember(u) \/ ModeGrant(u)
  BY <1>5 DEF ModeMember, ModeGrant, At, Goto, Return, TableFrame, TypeInv, TypeOK
<1>6. CASE PartShift(u) \/ PartLeave(u)
  BY <1>6 DEF PartShift, PartLeave, At, Goto, Return, TableFrame, TypeInv, TypeOK
<1>7. CASE PartDelete(u)
  BY <1>7 DEF PartDelete, Unlink, At, Goto, Return, TableFrame, TypeInv, TypeOK
<1> QED
  BY <1>1, <1>2, <1>3, <1>4, <1>5, <1>6, <1>7 DEF ChannelInput, ChannelStep

\* So do the other handlers, accept, disconnection and a dead process.
LEMMA TableRest ==
  ASSUME TypeInv, TableInv,
         \/ \E u \in User : \/ MessageInput(u) \/ MessageStep(u)
                            \/ Connection(u)
         \/ AcceptFail \/ Stray \/ UNCHANGED vars
  PROVE  TableFrame
<1>1. ASSUME NEW u \in User, MessageInput(u) \/ MessageStep(u)
      PROVE  TableFrame
  BY <1>1 DEF MessageInput, MessageStep, NoticeChannel, Lusers, At, Goto,
       Return, TableFrame, TypeInv, TypeOK, channels
<1>2. ASSUME NEW u \in User, Accept(u) PROVE TableFrame
  BY <1>2 DEF Accept, At, Goto, TableFrame, TypeInv, TypeOK, user_t
<1>3. ASSUME NEW u \in User, Close(u) \/ ReadExited(u) PROVE TableFrame
  BY <1>3 DEF Close, ReadExited, At, Goto, TableFrame, TypeInv, TypeOK
<1>5. ASSUME NEW u \in User, ThreadStart(u) \/ ThreadFail(u) \/ Exit(u)
      PROVE  TableFrame
  BY <1>5 DEF ThreadStart, ThreadFail, Exit, At, Goto, TableFrame, TypeInv, TypeOK
<1>4. CASE AcceptFail \/ Stray \/ UNCHANGED vars
  BY <1>4 DEF AcceptFail, Stray, vars, TableFrame
<1> QED
  BY <1>1, <1>2, <1>3, <1>4, <1>5 DEF Connection

\* Every step of the server keeps TableInv.
LEMMA TableStep == TypeInv /\ TableInv /\ [Next]_vars => TableInv'
<1> SUFFICES ASSUME TypeInv, TableInv, [Next]_vars PROVE TableInv'
  OBVIOUS
<1>1. ASSUME NEW u \in User, RegisterInput(u) \/ RegisterStep(u)
      PROVE  TableInv'
  <2>1. CASE \/ QuitBegin(u) \/ QuitPass(u) \/ QuitLeave(u)
             \/ QuitRelock(u) \/ QuitEnd(u) \/ QuitClose(u)
    BY <2>1, TableQuit, TableKept
  <2> QED
    BY <1>1, <2>1, TableNick, TableUser DEF RegisterInput, RegisterStep
<1>2. ASSUME NEW u \in User, ChannelInput(u) \/ ChannelStep(u)
      PROVE  TableInv'
  BY <1>2, TableChannel, TableKept
<1>3. CASE \/ \E u \in User : \/ MessageInput(u) \/ MessageStep(u)
                               \/ Connection(u)
           \/ AcceptFail \/ Stray \/ UNCHANGED vars
  BY <1>3, TableRest, TableKept
<1> QED
  BY <1>1, <1>2, <1>3 DEF Next, Arrive, Continue

\* TableInv is an invariant.
LEMMA TableAlways == Spec => []TableInv
<1>1. Init => TableInv
  BY DEF Init, NewUser, TableInv
<1> QED
  BY <1>1, TypeInit, TypeNext, TableStep, PTL DEF Spec

\* NICK and USER never link a user_t that is linked already, although each
\* removes and inserts in sections of its own and USER looks nothing up.
THEOREM NeverInsertedTwice == Spec => []NoDoubleInsert
<1>1. TableInv => NoDoubleInsert
  BY DEF TableInv, NoDoubleInsert
<1> QED
  BY <1>1, TableAlways, PTL

\* A registered user is in the table under its nickname, but for the gap in
\* its own NICK, as long as no undefined behaviour has occurred.
THEOREM RegisteredFound == Spec => []RegisteredFindable
<1>1. TableInv => RegisteredFindable
  BY DEF TableInv, RegisteredFindable
<1> QED
  BY <1>1, TableAlways, PTL

----------------------------------------------------------------------------
(* The counters *)

\* A set that gains an element has one more.
LEMMA OneMore ==
  ASSUME NEW S \in SUBSET User, NEW u \in User \ S
  PROVE  Cardinality(S \cup {u}) = Cardinality(S) + 1
<1>1. IsFiniteSet(S)
  BY FiniteUsers, FS_Subset
<1> QED
  BY <1>1, FS_AddElement

\* A set that loses an element has one less.
LEMMA OneLess ==
  ASSUME NEW S \in SUBSET User, NEW u \in S
  PROVE  Cardinality(S \ {u}) = Cardinality(S) - 1
<1>1. IsFiniteSet(S)
  BY FiniteUsers, FS_Subset
<1> QED
  BY <1>1, FS_RemoveElement

\* What every step but eight leaves as it is for CountersExact and QuitInv.
CountFrame ==
  /\ ctx'.clients = ctx.clients /\ ctx'.active = ctx.active
  /\ ctx'.num_connections = ctx.num_connections
  /\ \A v \in User :
       /\ user'[v].comed = user[v].comed
       /\ user'[v].registered = user[v].registered
       /\ user'[v].individual_lock = user[v].individual_lock
       /\ \/ pc'[v] = pc[v]
          \/ /\ pc[v] \notin {"unborn", "refused", "exited", "quit_close"}
             /\ pc'[v] \notin {"unborn", "refused", "quit_close"}
             /\ pc'[v] \in {"quit_visit", "quit_relay"} => user[v].registered

\* A step that changes neither a counter nor who is counted keeps the counts.
LEMMA CountKept ==
  ASSUME CountersExact, QuitInv, CountFrame
  PROVE  CountersExact' /\ QuitInv'
<1>1. Accepted' = Accepted /\ Heard' = Heard
  BY DEF CountFrame, Accepted, Heard
<1>2. Counted' = Counted
  BY DEF CountFrame, Counted, HasQuit
<1>3. QuitInv'
  BY DEF CountFrame, QuitInv
<1> QED
  BY <1>1, <1>2, <1>3 DEF CountersExact, CountFrame

\* Accept adds one to clients and one connection.
LEMMA CountAccept ==
  ASSUME TypeInv, CountersExact, QuitInv, NEW u \in User, Accept(u)
  PROVE  CountersExact' /\ QuitInv'
<1>1. /\ ctx' = [ctx EXCEPT !.clients = @ + 1]
      /\ pc[u] = "unborn" /\ pc' = [pc EXCEPT ![u] = "accepted"]
  BY DEF Accept, At, Goto
<1>2. PICK f \in Fd : user' = [user EXCEPT ![u].client_socket = f]
  BY DEF Accept
<1>3. Accepted' = Accepted \cup {u} /\ u \notin Accepted
  BY <1>1 DEF Accepted, TypeInv, TypeOK
<1>4. \A v \in User : /\ user'[v].comed = user[v].comed
                      /\ user'[v].registered = user[v].registered
                      /\ user'[v].individual_lock = user[v].individual_lock
  BY <1>2 DEF TypeInv, TypeOK, user_t
<1>5. Heard' = Heard
  BY <1>4 DEF Heard
<1>6. Counted' = Counted
  BY <1>1, <1>4 DEF Counted, HasQuit, TypeInv, TypeOK
<1>7. Cardinality(Accepted') = Cardinality(Accepted) + 1
  BY <1>3, OneMore DEF Accepted
<1>8. QuitInv'
  BY <1>1, <1>4 DEF QuitInv, TypeInv, TypeOK
<1> QED
  BY <1>1, <1>5, <1>6, <1>7, <1>8
     DEF CountersExact, TypeInv, TypeOK, server_ctx_t

\* A connection that is refused a thread is counted back.
LEMMA CountThreadFail ==
  ASSUME TypeInv, CountersExact, QuitInv, NEW u \in User, ThreadFail(u)
  PROVE  CountersExact' /\ QuitInv'
<1>1. /\ ctx' = [ctx EXCEPT !.clients = @ - 1] /\ user' = user
      /\ pc[u] = "accepted" /\ pc' = [pc EXCEPT ![u] = "refused"]
  BY DEF ThreadFail, At, Goto
<1>2. Accepted' = Accepted \ {u} /\ u \in Accepted
  BY <1>1 DEF Accepted, TypeInv, TypeOK
<1>3. Heard' = Heard /\ Counted' = Counted
  BY <1>1 DEF Heard, Counted, HasQuit, TypeInv, TypeOK
<1>4. Cardinality(Accepted') = Cardinality(Accepted) - 1
  BY <1>2, OneLess DEF Accepted
<1>5. QuitInv'
  BY <1>1 DEF QuitInv, TypeInv, TypeOK
<1> QED
  BY <1>1, <1>3, <1>4, <1>5 DEF CountersExact, TypeInv, TypeOK, server_ctx_t

\* NICK and USER count a connection the first time it is heard of.
LEMMA CountHeard ==
  ASSUME TypeInv, CountersExact, QuitInv, NEW u \in User,
         NickCount(u) \/ UserBegin(u)
  PROVE  CountersExact' /\ QuitInv'
<1>1. /\ ctx' = [ctx EXCEPT !.active = IF user[u].comed THEN @ ELSE @ + 1]
      /\ user'[u].comed
      /\ \A v \in User \ {u} : user'[v].comed = user[v].comed
      /\ \A v \in User :
           /\ user'[v].registered = user[v].registered
           /\ user'[v].individual_lock = user[v].individual_lock
           /\ \/ pc'[v] = pc[v]
              \/ /\ pc[v] \in {"recv", "nick_count"}
                 /\ pc'[v] \in {"recv", "nick_old", "user_add"}
  <2>1. CASE NickCount(u)
    BY <2>1 DEF NickCount, At, Goto, Return, TypeInv, TypeOK, user_t
  <2>2. CASE UserBegin(u)
    BY <2>2 DEF UserBegin, Dispatch, At, Goto, TypeInv, TypeOK, user_t
  <2> QED
    BY <2>1, <2>2
<1>2. Heard' = Heard \cup {u}
  BY <1>1 DEF Heard
<1>3. Accepted' = Accepted /\ Counted' = Counted
  BY <1>1 DEF Accepted, Counted, HasQuit
<1>4. QuitInv'
  BY <1>1 DEF QuitInv
<1>5. CASE user[u].comed
  <2>1. Heard' = Heard
    BY <1>2, <1>5 DEF Heard
  <2> QED
    BY <1>1, <1>3, <1>4, <1>5, <2>1
       DEF CountersExact, TypeInv, TypeOK, server_ctx_t
<1>6. CASE ~user[u].comed
  <2>1. Cardinality(Heard') = Cardinality(Heard) + 1
    BY <1>2, <1>6, OneMore DEF Heard
  <2> QED
    BY <1>1, <1>3, <1>4, <1>6, <2>1
       DEF CountersExact, TypeInv, TypeOK, server_ctx_t
<1> QED
  BY <1>5, <1>6

\* A registration, by NICK or by USER, is counted once.
LEMMA CountRegistered ==
  ASSUME TypeInv, TableInv, CountersExact, QuitInv, NEW u \in User,
         (NickAdd(u) /\ ~user[u].registered) \/ UserWelcome(u)
  PROVE  CountersExact' /\ QuitInv'
<1>1. /\ ctx' = [ctx EXCEPT !.num_connections = @ + 1]
      /\ user' = [user EXCEPT ![u].registered = TRUE]
      /\ ~user[u].registered
      /\ pc[u] \in {"nick_add", "user_welcome"}
      /\ \E l \in {"lusers", "user_verify"} : pc' = [pc EXCEPT ![u] = l]
  BY DEF NickAdd, UserWelcome, At, Goto, TableInv
<1>2. /\ user'[u].registered
      /\ \A v \in User \ {u} : user'[v].registered = user[v].registered
      /\ \A v \in User :
           /\ user'[v].comed = user[v].comed
           /\ user'[v].individual_lock = user[v].individual_lock
           /\ \/ pc'[v] = pc[v]
              \/ /\ pc[v] \in {"nick_add", "user_welcome"}
                 /\ pc'[v] \in {"lusers", "user_verify"}
  BY <1>1 DEF TypeInv, TypeOK, user_t
<1>3. Accepted' = Accepted /\ Heard' = Heard
  BY <1>2 DEF Accepted, Heard
<1>4. user[u].individual_lock /\ pc'[u] # "quit_close"
  BY <1>1, <1>2 DEF QuitInv
<1>5. Counted' = Counted \cup {u} /\ u \notin Counted
  BY <1>1, <1>2, <1>4 DEF Counted, HasQuit
<1>6. Cardinality(Counted') = Cardinality(Counted) + 1
  BY <1>5, OneMore DEF Counted
<1>7. QuitInv'
  BY <1>2 DEF QuitInv
<1> QED
  BY <1>1, <1>3, <1>6, <1>7
     DEF CountersExact, TypeInv, TypeOK, server_ctx_t

\* The walk of QUIT takes its user out of num_connections once, at its end.
LEMMA CountQuit ==
  ASSUME TypeInv, CountersExact, QuitInv, NEW u \in User, QuitEnd(u)
  PROVE  CountersExact' /\ QuitInv'
<1>1. /\ ctx' = [ctx EXCEPT !.num_connections = @ - 1]
      /\ pc[u] = "quit_visit" /\ pc' = [pc EXCEPT ![u] = "quit_close"]
      /\ user' = user
  BY DEF QuitEnd, At, Goto
<1>2. user[u].registered /\ user[u].individual_lock
  BY <1>1 DEF QuitInv
<1>3. Accepted' = Accepted /\ Heard' = Heard
  BY <1>1 DEF Accepted, Heard, TypeInv, TypeOK
<1>4. Counted' = Counted \ {u} /\ u \in Counted
  BY <1>1, <1>2 DEF Counted, HasQuit, TypeInv, TypeOK
<1>5. Cardinality(Counted') = Cardinality(Counted) - 1
  BY <1>4, OneLess DEF Counted
<1>6. QuitInv'
  BY <1>1, <1>2 DEF QuitInv, TypeInv, TypeOK
<1> QED
  BY <1>1, <1>3, <1>5, <1>6
     DEF CountersExact, TypeInv, TypeOK, server_ctx_t

\* Destroying individual_lock after that changes no count.
LEMMA CountClose ==
  ASSUME TypeInv, CountersExact, QuitInv, NEW u \in User, QuitClose(u)
  PROVE  CountersExact' /\ QuitInv'
<1>1. /\ pc[u] = "quit_close" /\ pc' = [pc EXCEPT ![u] = "exited"]
      /\ user' = [user EXCEPT ![u].individual_lock = FALSE]
      /\ ctx' = ctx
  BY DEF QuitClose, At, Goto
<1>2. /\ ~user'[u].individual_lock
      /\ \A v \in User \ {u} : user'[v] = user[v]
      /\ \A v \in User : /\ user'[v].comed = user[v].comed
                         /\ user'[v].registered = user[v].registered
  BY <1>1 DEF TypeInv, TypeOK, user_t
<1>3. Accepted' = Accepted /\ Heard' = Heard /\ Counted' = Counted
  BY <1>1, <1>2 DEF Accepted, Heard, Counted, HasQuit, TypeInv, TypeOK
<1>4. QuitInv'
  BY <1>1, <1>2 DEF QuitInv, TypeInv, TypeOK
<1> QED
  BY <1>1, <1>3, <1>4 DEF CountersExact

\* The handlers of register.c keep the counts.
LEMMA CountRegister ==
  ASSUME TypeInv, QuitInv, NEW u \in User,
         \/ \E n \in Nick : NickLookup(u, n)
         \/ NickFindOld(u) \/ NickDelete(u) \/ NickAssign(u)
         \/ NickAdd(u) /\ user[u].registered
         \/ UserAdd(u) \/ UserVerify(u)
         \/ QuitBegin(u) \/ QuitPass(u) \/ QuitLeave(u) \/ QuitRelock(u)
  PROVE  CountFrame
<1>1. ASSUME NEW n \in Nick, NickLookup(u, n) PROVE CountFrame
  BY <1>1 DEF NickLookup, Dispatch, At, Goto, CountFrame, TypeInv, TypeOK
<1>2. CASE NickFindOld(u) \/ NickDelete(u)
  BY <1>2 DEF NickFindOld, NickDelete, At, Goto, CountFrame, TypeInv, TypeOK
<1>3. CASE NickAssign(u)
  BY <1>3 DEF NickAssign, At, Goto, Return, CountFrame, TypeInv, TypeOK, user_t
<1>4. CASE NickAdd(u) /\ user[u].registered
  BY <1>4 DEF NickAdd, At, Goto, Return, CountFrame, TypeInv, TypeOK
<1>5. CASE UserAdd(u) \/ UserVerify(u)
  BY <1>5 DEF UserAdd, UserVerify, At, Goto, CountFrame, TypeInv, TypeOK
<1>6. CASE QuitBegin(u)
  BY <1>6 DEF QuitBegin, Dispatch, At, Goto, CountFrame, TypeInv, TypeOK
<1>7. CASE QuitPass(u) \/ QuitLeave(u) \/ QuitRelock(u)
  BY <1>7 DEF QuitPass, QuitLeave, QuitRelock, At, Goto, CountFrame, QuitInv,
       TypeInv, TypeOK
<1> QED
  BY <1>1, <1>2, <1>3, <1>4, <1>5, <1>6, <1>7

\* The handlers of channel.c keep the counts: OPER counts operators only.
LEMMA CountChannel ==
  ASSUME TypeInv, NEW u \in User, ChannelInput(u) \/ ChannelStep(u)
  PROVE  CountFrame
<1>1. ASSUME NEW n \in ChanName,
             JoinNew(u, n) \/ JoinMember(u, n) \/ JoinAgain(u, n)
               \/ ListMissing(u, n)
      PROVE  CountFrame
  BY <1>1 DEF JoinNew, JoinMember, JoinAgain, ListMissing, CountFrame, channels
<1>2. ASSUME NEW n \in ChanName, PartFind(u, n) PROVE CountFrame
  BY <1>2 DEF PartFind, Dispatch, At, Goto, CountFrame, TypeInv, TypeOK
<1>3. ASSUME NEW n \in ChanName, NEW t \in Nick, ModeFind(u, n, t)
      PROVE  CountFrame
  BY <1>3 DEF ModeFind, Dispatch, At, Goto, CountFrame, TypeInv, TypeOK
<1>4. CASE OperGrant(u)
  BY <1>4 DEF OperGrant, CountFrame, TypeInv, TypeOK, user_t, server_ctx_t
<1>5. CASE ModeMember(u) \/ ModeGrant(u)
  BY <1>5 DEF ModeMember, ModeGrant, At, Goto, Return, CountFrame, TypeInv, TypeOK
<1>6. CASE PartShift(u) \/ PartLeave(u) \/ PartDelete(u)
  BY <1>6 DEF PartShift, PartLeave, PartDelete, At, Goto, Return, CountFrame,
       TypeInv, TypeOK
<1> QED
  BY <1>1, <1>2, <1>3, <1>4, <1>5, <1>6 DEF ChannelInput, ChannelStep

\* So do the other handlers, a new thread, disconnection and a dead process.
LEMMA CountRest ==
  ASSUME TypeInv,
         \/ \E u \in User : \/ MessageInput(u) \/ MessageStep(u) \/ Exit(u)
                            \/ ThreadStart(u) \/ Close(u) \/ ReadExited(u)
         \/ AcceptFail \/ Stray \/ UNCHANGED vars
  PROVE  CountFrame
<1>1. ASSUME NEW u \in User, MessageInput(u) \/ MessageStep(u)
      PROVE  CountFrame
  BY <1>1 DEF MessageInput, MessageStep, NoticeChannel, Lusers, At, Goto,
       Return, CountFrame, TypeInv, TypeOK, channels
<1>2. ASSUME NEW u \in User, ThreadStart(u) \/ Exit(u) \/ Close(u) \/ ReadExited(u)
      PROVE  CountFrame
  BY <1>2 DEF ThreadStart, Exit, Close, ReadExited, At, Goto, CountFrame,
       TypeInv, TypeOK
<1>3. CASE AcceptFail \/ Stray \/ UNCHANGED vars
  BY <1>3 DEF AcceptFail, Stray, vars, CountFrame
<1> QED
  BY <1>1, <1>2, <1>3

\* Every step of the server keeps the counts exact.
LEMMA CountStep ==
  ASSUME TypeInv, TableInv, CountersExact, QuitInv, [Next]_vars
  PROVE  CountersExact' /\ QuitInv'
<1>1. ASSUME NEW u \in User, RegisterInput(u) \/ RegisterStep(u)
      PROVE  CountersExact' /\ QuitInv'
  <2>1. CASE NickCount(u) \/ UserBegin(u)
    BY <2>1, CountHeard
  <2>2. CASE (NickAdd(u) /\ ~user[u].registered) \/ UserWelcome(u)
    BY <2>2, CountRegistered
  <2>3. CASE QuitEnd(u) \/ QuitClose(u)
    BY <2>3, CountQuit, CountClose
  <2> QED
    BY <1>1, <2>1, <2>2, <2>3, CountRegister, CountKept
       DEF RegisterInput, RegisterStep
<1>2. ASSUME NEW u \in User, ChannelInput(u) \/ ChannelStep(u)
      PROVE  CountersExact' /\ QuitInv'
  BY <1>2, CountChannel, CountKept
<1>3. ASSUME NEW u \in User, Accept(u) \/ ThreadFail(u)
      PROVE  CountersExact' /\ QuitInv'
  BY <1>3, CountAccept, CountThreadFail
<1>4. CASE \/ \E u \in User : \/ MessageInput(u) \/ MessageStep(u) \/ Exit(u)
                               \/ ThreadStart(u) \/ Close(u) \/ ReadExited(u)
           \/ AcceptFail \/ Stray \/ UNCHANGED vars
  BY <1>4, CountRest, CountKept
<1> QED
  BY <1>1, <1>2, <1>3, <1>4 DEF Next, Arrive, Continue, Connection

\* CountersExact and QuitInv are invariants.
LEMMA QuitAlways == Spec => [](CountersExact /\ QuitInv)
<1>1. Init => CountersExact /\ QuitInv
  <2> SUFFICES ASSUME Init PROVE CountersExact /\ QuitInv
    OBVIOUS
  <2>1. Accepted = {} /\ Heard = {} /\ Counted = {}
    BY DEF Init, NewUser, Accepted, Heard, Counted
  <2> QED
    BY <2>1, FS_EmptySet DEF Init, NewUser, CountersExact, QuitInv
<1>2. TypeInv /\ TableInv /\ CountersExact /\ QuitInv /\ [Next]_vars
        => CountersExact' /\ QuitInv'
  BY CountStep
<1> QED
  BY <1>1, <1>2, TypeInit, TypeNext, TableAlways, PTL DEF Spec

\* clients, active and num_connections are exact in every state: each
\* connection is counted once in each, whichever thread runs when.
THEOREM CountersAreExact == Spec => []CountersExact
BY QuitAlways, PTL

----------------------------------------------------------------------------
(* Where a channel stands in the list *)

NextIn(L, c) ==
  IF \A d \in L : d <= c THEN NoChan
  ELSE CHOOSE d \in L : d > c /\ \A e \in L : e > c => d <= e

\* The next channel in a list, or NULL behind the last.
LEMMA NextIs ==
  ASSUME NEW L, L \subseteq Nat, NEW c \in L
  PROVE  \/ NextIn(L, c) = NoChan /\ \A d \in L : ~(d > c)
         \/ /\ NextIn(L, c) \in L /\ NextIn(L, c) > c
            /\ \A d \in L : d > c => NextIn(L, c) <= d
<1>1. CASE \A d \in L : d <= c
  <2>1. \A d \in L : ~(d > c)
    BY <1>1
  <2> QED
    BY <1>1, <2>1 DEF NextIn
<1>2. CASE ~(\A d \in L : d <= c)
  <2> DEFINE S == {d \in L : d > c}
  <2>0. PICK d \in L : ~(d <= c)
    BY <1>2
  <2>1. S # {} /\ S \subseteq Nat
    <3>1. d > c
      BY <2>0
    <3> QED
      BY <3>1
  <2>2. \E e \in S : \A g \in S : e <= g
    BY <2>1, Least
  <2>3. \E e \in L : e > c /\ \A g \in L : g > c => e <= g
    BY <2>2
  <2>4. NextIn(L, c) = CHOOSE e \in L : e > c /\ \A g \in L : g > c => e <= g
    BY <1>2 DEF NextIn
  <2> QED
    BY <2>3, <2>4
<1> QED
  BY <1>1, <1>2

\* A list less one of its channels: those behind it keep what follows them.
LEMMA NextKept ==
  ASSUME NEW L, L \subseteq Nat, NoChan \notin L, NEW c \in L, NEW d \in L, d > c
  PROVE  NextIn(L \ {c}, d) = NextIn(L, d)
<1> DEFINE a == NextIn(L, d)
           b == NextIn(L \ {c}, d)
<1>1. \/ a = NoChan /\ \A e \in L : ~(e > d)
      \/ a \in L /\ a > d /\ \A e \in L : e > d => a <= e
  BY NextIs
<1>2. d \in L \ {c}
  OBVIOUS
<1>3. \/ b = NoChan /\ \A e \in L \ {c} : ~(e > d)
      \/ b \in L \ {c} /\ b > d /\ \A e \in L \ {c} : e > d => b <= e
  BY <1>2, NextIs
<1>4. \A e \in L : e > d => e \in L \ {c}
  OBVIOUS
<1> SUFFICES a = b
  OBVIOUS
<1> HIDE DEF a, b
<1>5. CASE a = NoChan /\ \A e \in L : ~(e > d)
  BY <1>3, <1>5
<1>6. CASE a \in L /\ a > d /\ \A e \in L : e > d => a <= e
  <2>1. a \in L \ {c}
    BY <1>4, <1>6
  <2>2. b \in L \ {c} /\ b > d /\ b <= a
    BY <1>3, <1>6, <2>1
  <2>3. a <= b
    BY <1>6, <2>2
  <2> QED
    BY <2>1, <2>2, <2>3
<1> QED
  BY <1>1, <1>5, <1>6

\* hh.next of a channel on the list is the next one, or NULL for the last.
LEMMA AfterLinked ==
  ASSUME TypeOK, NEW c \in linked
  PROVE  \/ After(c) = NoChan /\ \A d \in linked : ~(d > c)
         \/ /\ After(c) \in linked /\ After(c) > c
            /\ \A d \in linked : d > c => After(c) <= d
<1>1. linked \subseteq Nat /\ c # NoChan
  BY Bounds DEF TypeOK, Chan, NoChan
<1>2. After(c) = NextIn(linked, c)
  BY <1>1 DEF After, NextIn
<1> QED
  BY <1>1, <1>2, NextIs

\* The head of the list is its first channel.
LEMMA HeadLinked ==
  ASSUME TypeOK
  PROVE  \/ FirstLinked = NoChan /\ linked = {}
         \/ FirstLinked \in linked /\ \A d \in linked : FirstLinked <= d
<1>0. linked \subseteq Nat
  BY Bounds DEF TypeOK, Chan
<1>1. CASE linked # {}
  <2>1. \E d \in linked : \A e \in linked : d <= e
    BY <1>0, <1>1, Least
  <2> QED
    BY <1>1, <2>1 DEF FirstLinked
<1> QED
  BY <1>1 DEF FirstLinked

\* HASH_DELETE leaves hh.next of the channels behind as it is.
LEMMA AfterUnlinked ==
  ASSUME TypeOK, NEW c \in linked, linked' = linked \ {c},
         NEW d \in linked, d > c
  PROVE  After(d)' = After(d)
<1>1. linked \subseteq Nat /\ NoChan \notin linked /\ d # NoChan /\ d \in linked'
  BY Bounds DEF TypeOK, Chan, NoChan
<1>2. After(d) = NextIn(linked, d)
  BY <1>1 DEF After, NextIn
<1>3. After(d)' = NextIn(linked', d)
  BY <1>1 DEF After, NextIn
<1> QED
  BY <1>1, <1>2, <1>3, NextKept

----------------------------------------------------------------------------
(* The member array *)

Count(c) == chan[c].user_count
Slots(c) == chan[c].channel_users

LEMMA ArrayType ==
  ASSUME TypeOK, NEW c \in Chan
  PROVE  /\ Slots(c) \in [Slot -> User \cup {NULL}] /\ Count(c) \in Slot
         /\ Count(c) \in Int /\ 0..(Count(c) - 1) \subseteq Slot
         /\ Members(c) = {Slots(c)[i] : i \in 0..(Count(c) - 1)}
<1>1. chan[c] \in channel_t
  BY DEF TypeOK
<1>2. Slots(c) \in [Slot -> User \cup {NULL}] /\ Count(c) \in Slot
  BY <1>1 DEF channel_t, Slots, Count
<1> QED
  BY <1>2, Bounds DEF Slot, Slots, Count, Members

\* A newcomer in the slot behind the last.
LEMMA ArrayJoin ==
  ASSUME TypeOK, TypeOK', NEW c \in Chan, NEW u \in User, Count(c) >= 0,
         Count(c) < MaxSlot,
         chan' = [chan EXCEPT ![c].channel_users[chan[c].user_count] = u,
                              ![c].user_count = @ + 1]
  PROVE  /\ Count(c)' = Count(c) + 1 /\ Members(c)' = Members(c) \cup {u}
         /\ \A i \in Slot : Slots(c)'[i] = IF i = Count(c) THEN u ELSE Slots(c)[i]
         /\ \A d \in Chan \ {c} : chan'[d] = chan[d] /\ Members(d)' = Members(d)
         /\ \A d \in Chan : chan'[d].channel_name = chan[d].channel_name
<1>1. /\ Slots(c) \in [Slot -> User \cup {NULL}] /\ Count(c) \in Slot
      /\ Count(c) \in Int /\ chan[c] \in channel_t
  BY ArrayType DEF TypeOK
<1>2. chan'[c] = [chan[c] EXCEPT !.channel_users = [@ EXCEPT ![chan[c].user_count] = u],
                                 !.user_count = @ + 1]
  BY DEF TypeOK
<1>3. /\ Count(c)' = Count(c) + 1
      /\ Slots(c)' = [Slots(c) EXCEPT ![Count(c)] = u]
      /\ chan'[c].channel_name = chan[c].channel_name
  BY <1>1, <1>2 DEF Count, Slots, channel_t
<1>4. \A d \in Chan \ {c} : chan'[d] = chan[d]
  BY DEF TypeOK
<1>5. \A i \in Slot : Slots(c)'[i] = IF i = Count(c) THEN u ELSE Slots(c)[i]
  BY <1>1, <1>3
<1>6. /\ Members(c) = {Slots(c)[i] : i \in 0..(Count(c) - 1)}
      /\ Members(c)' = {Slots(c)'[i] : i \in 0..(Count(c)' - 1)}
      /\ 0..(Count(c) - 1) \subseteq Slot
  BY ArrayType DEF Members, Slots, Count
<1>7. 0..(Count(c)' - 1) = 0..(Count(c) - 1) \cup {Count(c)}
  BY <1>1, <1>3
<1>8. Members(c)' = Members(c) \cup {u}
  <2>1. Slots(c)'[Count(c)] = u
    BY <1>1, <1>5
  <2>2. \A i \in 0..(Count(c) - 1) : Slots(c)'[i] = Slots(c)[i]
    BY <1>1, <1>5, <1>6
  <2> QED
    BY <1>6, <1>7, <2>1, <2>2
<1>9. \A d \in Chan \ {c} : Members(d)' = Members(d)
  BY <1>4 DEF Members
<1>10. \A d \in Chan : chan'[d].channel_name = chan[d].channel_name
  BY <1>3, <1>4
<1> QED
  BY <1>3, <1>4, <1>5, <1>8, <1>9, <1>10

\* QUIT closes the gap its user leaves: the others keep their order.
LEMMA ArrayLeave ==
  ASSUME TypeOK, TypeOK', NEW c \in Chan, NEW u \in Members(c),
         \A i, j \in 0..(Count(c) - 1) : Slots(c)[i] = Slots(c)[j] => i = j,
         chan' = [chan EXCEPT
           ![c].channel_users = Cut(Shifted(c, u), chan[c].user_count - 1),
           ![c].user_count = @ - 1]
  PROVE  /\ Count(c)' = Count(c) - 1 /\ Members(c)' = Members(c) \ {u}
         /\ \A i, j \in 0..(Count(c)' - 1) : Slots(c)'[i] = Slots(c)'[j] => i = j
         /\ \A d \in Chan \ {c} : chan'[d] = chan[d] /\ Members(d)' = Members(d)
         /\ \A d \in Chan : chan'[d].channel_name = chan[d].channel_name
<1>1. /\ Slots(c) \in [Slot -> User \cup {NULL}] /\ Count(c) \in Slot
      /\ Count(c) \in Int /\ chan[c] \in channel_t
      /\ 0..(Count(c) - 1) \subseteq Slot
      /\ Members(c) = {Slots(c)[i] : i \in 0..(Count(c) - 1)}
      /\ Slot \subseteq Int
  BY ArrayType DEF TypeOK, Slot
<1>2. chan'[c] = [chan[c] EXCEPT
        !.channel_users = Cut(Shifted(c, u), chan[c].user_count - 1),
        !.user_count = @ - 1]
  BY DEF TypeOK
<1>3. /\ Count(c)' = Count(c) - 1
      /\ Slots(c)' = Cut(Shifted(c, u), Count(c) - 1)
      /\ chan'[c].channel_name = chan[c].channel_name
  BY <1>1, <1>2 DEF Count, Slots, channel_t
<1>4. \A d \in Chan \ {c} : chan'[d] = chan[d]
  BY DEF TypeOK
<1>5. PICK k \in 0..(Count(c) - 1) : Slots(c)[k] = u
  BY <1>1
<1>6. ASSUME NEW i \in 0..(Count(c)' - 1)
      PROVE  /\ i \in Slot /\ i \in 0..(Count(c) - 1) /\ i + 1 \in 0..(Count(c) - 1)
             /\ Slots(c)'[i] = IF k <= i THEN Slots(c)[i + 1] ELSE Slots(c)[i]
  <2>1. i \in 0..(Count(c) - 1) /\ i + 1 \in 0..(Count(c) - 1) /\ i \in Slot
        /\ i < Count(c) - 1 /\ i \in Int
    BY <1>1, <1>3
  <2>2. (\E j \in 0..i : Slots(c)[j] = u) <=> k <= i
    <3>1. ASSUME NEW j \in 0..i, Slots(c)[j] = u PROVE j = k
      BY <3>1, <2>1, <1>1, <1>5
    <3> QED
      BY <3>1, <2>1, <1>1, <1>5
  <2>3. Slots(c)'[i] = Shifted(c, u)[i]
    BY <2>1, <1>3 DEF Cut
  <2>4. Shifted(c, u)[i] = IF \E j \in 0..i : Slots(c)[j] = u
                             THEN Slots(c)[i + 1] ELSE Slots(c)[i]
    BY <2>1 DEF Shifted, Slots, Count
  <2> QED
    BY <2>1, <2>2, <2>3, <2>4
<1> DEFINE Was(i) == IF k <= i THEN i + 1 ELSE i
<1>7. \A i \in 0..(Count(c)' - 1) : /\ Was(i) \in 0..(Count(c) - 1) /\ Was(i) # k
                                    /\ Slots(c)'[i] = Slots(c)[Was(i)]
  BY <1>1, <1>5, <1>6
<1>8. \A i, j \in 0..(Count(c)' - 1) : Slots(c)'[i] = Slots(c)'[j] => i = j
  <2>1. \A i, j \in 0..(Count(c)' - 1) : Was(i) = Was(j) => i = j
    BY <1>1, <1>3, <1>5
  <2> QED
    BY <1>7, <2>1
<1>9. Members(c)' = Members(c) \ {u}
  <2>0. Members(c)' = {Slots(c)'[i] : i \in 0..(Count(c)' - 1)}
    BY DEF Members, Slots, Count
  <2>1. ASSUME NEW v \in Members(c)' PROVE v \in Members(c) \ {u}
    <3>1. PICK i \in 0..(Count(c)' - 1) : v = Slots(c)[Was(i)] /\ Was(i) # k
                                          /\ Was(i) \in 0..(Count(c) - 1)
      BY <2>0, <1>7
    <3> QED
      BY <3>1, <1>1, <1>5
  <2>2. ASSUME NEW v \in Members(c) \ {u} PROVE v \in Members(c)'
    <3>1. PICK j \in 0..(Count(c) - 1) : v = Slots(c)[j] /\ j # k
      BY <1>1, <1>5
    <3>2. PICK i \in 0..(Count(c)' - 1) : Was(i) = j
      <4>1. CASE j < k
        BY <4>1, <1>1, <1>3, <1>5
      <4>2. CASE j > k
        <5>1. j - 1 \in 0..(Count(c)' - 1) /\ Was(j - 1) = j
          BY <4>2, <1>1, <1>3, <1>5
        <5> QED
          BY <5>1
      <4> QED
        BY <3>1, <4>1, <4>2, <1>1
    <3> QED
      BY <3>1, <3>2, <1>7, <2>0
  <2> QED
    BY <2>1, <2>2
<1>10. ASSUME NEW d \in Chan \ {c} PROVE Members(d)' = Members(d)
  <2>1. chan'[d] = chan[d]
    BY <1>4
  <2> HIDE DEF Was
  <2> QED
    BY <2>1, Zenon DEF Members
<1>11. \A d \in Chan : chan'[d].channel_name = chan[d].channel_name
  BY <1>3, <1>4
<1> QED
  BY <1>3, <1>4, <1>8, <1>9, <1>10, <1>11

----------------------------------------------------------------------------
(* Channels off the list *)

\* A step that takes only empty channels off the list and lets none that is
\* off it grow.
EmptyFrame ==
  proc' = "ok" =>
    /\ proc = "ok"
    /\ \A c \in Chan \ linked' :
         (c \notin linked /\ Count(c)' <= Count(c)) \/ Count(c)' <= 0

LEMMA EmptyKept ==
  ASSUME TypeOK, UnlinkedEmpty, EmptyFrame, TypeOK'
  PROVE  UnlinkedEmpty'
<1> SUFFICES ASSUME proc' = "ok", NEW c \in Chan, c \notin linked'
             PROVE  Count(c)' <= 0
  BY DEF UnlinkedEmpty, Count
<1>1. chan[c] \in channel_t /\ chan'[c] \in channel_t
  BY DEF TypeOK
<1>2. Count(c) \in Int /\ Count(c)' \in Int
  BY <1>1 DEF channel_t, Slot, Count
<1>3. (c \notin linked /\ Count(c)' <= Count(c)) \/ Count(c)' <= 0
  BY DEF EmptyFrame
<1>4. c \notin linked => Count(c) <= 0
  BY DEF EmptyFrame, UnlinkedEmpty, Count
<1> QED
  BY <1>2, <1>3, <1>4

\* A step that counts one user less in a channel.
LEMMA CountDown ==
  ASSUME TypeOK, NEW c \in Chan, NEW a,
         chan' = [chan EXCEPT ![c].channel_users = a, ![c].user_count = @ - 1]
  PROVE  \A d \in Chan : /\ Count(d) \in Int
                         /\ Count(d)' = IF d = c THEN Count(d) - 1 ELSE Count(d)
<1>1. \A d \in Chan : Count(d) \in Int
  BY ArrayType
<1>2. chan[c] \in channel_t
  BY DEF TypeOK
<1>3. chan'[c] = [chan[c] EXCEPT !.channel_users = a, !.user_count = @ - 1]
  BY DEF TypeOK
<1>4. chan'[c].user_count = chan[c].user_count - 1
  BY <1>2, <1>3 DEF channel_t
<1>5. \A d \in Chan \ {c} : chan'[d] = chan[d]
  BY DEF TypeOK
<1>6. Count(c)' = Count(c) - 1
  BY <1>4 DEF Count
<1>7. ASSUME NEW d \in Chan \ {c} PROVE Count(d)' = Count(d)
  BY <1>5 DEF Count
<1> QED
  BY <1>1, <1>6, <1>7

\* A step that leaves the channels alone and does not heal the process.
LEMMA EmptyUnchanged ==
  ASSUME TypeOK, channels' = channels, proc' = "ok" => proc = "ok"
  PROVE  EmptyFrame
<1>1. linked' = linked /\ chan' = chan
  BY DEF channels
<1>2. \A c \in Chan : Count(c)' = Count(c) /\ Count(c) \in Int
  BY <1>1 DEF Count, TypeOK, channel_t, Slot
<1> QED
  BY <1>1, <1>2 DEF EmptyFrame

\* QUIT takes a channel off the list with its last member only.
LEMMA EmptyQuit ==
  ASSUME TypeInv, UnlinkedEmpty, NEW u \in User, QuitLeave(u)
  PROVE  EmptyFrame
<1> DEFINE c == loc[u].here
<1>1. c \in Chan /\ u \in Members(c)
  BY DEF QuitLeave, TypeInv, TypeOK, Locals
<1>2. Count(c) \in Int /\ Count(c) >= 1
  BY <1>1, MemberCounts, ArrayType DEF TypeInv, Count
<1>3. \A d \in Chan : /\ Count(d) \in Int
                      /\ Count(d)' = IF d = c THEN Count(d) - 1 ELSE Count(d)
  BY <1>1, CountDown DEF QuitLeave, TypeInv
<1>5. CASE Count(c) = 1
  <2>1. Unlink(c)
    BY <1>5 DEF QuitLeave, Count
  <2>2. proc' = "ok" => proc = "ok" /\ linked' = linked \ {c}
    BY <2>1, UnlinkOk
  <2> HIDE DEF c
  <2> QED
    BY <1>1, <1>3, <1>5, <2>2 DEF EmptyFrame
<1>6. CASE Count(c) # 1
  <2>1. proc' = proc /\ linked' = linked
    BY <1>6 DEF QuitLeave, Count
  <2> HIDE DEF c
  <2>2. ASSUME NEW d \in Chan \ linked'
        PROVE  d \notin linked /\ Count(d)' <= Count(d)
    BY <1>1, <1>3, <2>1
  <2> QED
    BY <2>1, <2>2 DEF EmptyFrame
<1> QED
  BY <1>5, <1>6

\* PART takes a channel off the list when it counts nobody then.
LEMMA EmptyPart ==
  ASSUME TypeInv, UnlinkedEmpty, NEW u \in User,
         PartShift(u) \/ PartLeave(u) \/ PartDelete(u)
  PROVE  EmptyFrame
<1> DEFINE c == loc[u].here
<1>1. c \in Chan
  BY DEF PartShift, PartLeave, PartDelete, At, TypeInv, LocalsSet
<1>2. \A d \in Chan : Count(d) \in Int /\ chan[d] \in channel_t
  BY ArrayType DEF TypeInv, TypeOK
<1>3. CASE PartShift(u)
  <2>1. chan' = [chan EXCEPT ![c].channel_users = Shifted(c, u)]
        /\ proc' = proc /\ linked' = linked
    BY <1>3 DEF PartShift
  <2>2. \A d \in Chan : Count(d)' = Count(d)
    BY <2>1, <1>1, <1>2 DEF Count, channel_t, TypeInv, TypeOK
  <2> QED
    BY <2>1, <2>2, <1>2 DEF EmptyFrame
<1>4. CASE PartLeave(u)
  <2>1. proc' = proc /\ linked' = linked
    BY <1>4 DEF PartLeave
  <2>2. \A d \in Chan : Count(d)' = IF d = c THEN Count(d) - 1 ELSE Count(d)
    BY <1>1, <1>4, CountDown DEF PartLeave, TypeInv
  <2> HIDE DEF c
  <2>3. ASSUME NEW d \in Chan \ linked'
        PROVE  d \notin linked /\ Count(d)' <= Count(d)
    BY <1>1, <1>2, <2>1, <2>2
  <2> QED
    BY <2>1, <2>3 DEF EmptyFrame
<1>5. CASE PartDelete(u)
  <2>1. \A d \in Chan : Count(d)' = Count(d)
    BY <1>5 DEF PartDelete, Count
  <2>2. CASE Count(c) = 0
    <3>1. Unlink(c)
      BY <1>5, <2>2 DEF PartDelete, Count
    <3>2. proc' = "ok" => proc = "ok" /\ linked' = linked \ {c}
      BY <3>1, UnlinkOk
    <3> HIDE DEF c
    <3> QED
      BY <1>1, <1>2, <2>1, <2>2, <3>2 DEF EmptyFrame
  <2>3. CASE Count(c) # 0
    BY <1>2, <1>5, <2>1, <2>3 DEF PartDelete, Count, EmptyFrame
  <2> QED
    BY <2>2, <2>3
<1> QED
  BY <1>3, <1>4, <1>5

\* JOIN finds its channel on the list, or puts it there.
LEMMA EmptyJoin ==
  ASSUME TypeInv, NEW u \in User, NEW n \in ChanName,
         JoinNew(u, n) \/ JoinMember(u, n)
  PROVE  EmptyFrame
<1>1. PICK c \in Chan : /\ c \in linked'
                        /\ \A d \in Chan \ {c} : chan'[d] = chan[d]
  <2>1. CASE JoinNew(u, n)
    BY <2>1 DEF JoinNew, TypeInv, TypeOK
  <2>2. CASE JoinMember(u, n)
    BY <2>2 DEF JoinMember, HashFind, TypeInv, TypeOK
  <2> QED
    BY <2>1, <2>2
<1>2. linked \subseteq linked' /\ (proc' = "ok" => proc = "ok")
  <2>1. CASE JoinNew(u, n)
    BY <2>1 DEF JoinNew
  <2>2. CASE JoinMember(u, n)
    <3>1. linked' = linked
      BY <2>2 DEF JoinMember
    <3>2. proc' = proc \/ proc' \in {"ub", "torn", "dead"}
      BY <2>2 DEF JoinMember, Harmed
    <3> QED
      BY <3>1, <3>2
  <2> QED
    BY <2>1, <2>2
<1>3. \A d \in Chan : Count(d) \in Int
  BY ArrayType DEF TypeInv
<1>4. \A d \in Chan \ linked' : d \notin linked /\ Count(d)' = Count(d)
  BY <1>1, <1>2 DEF Count
<1> QED
  BY <1>2, <1>3, <1>4 DEF EmptyFrame

\* Every step of the server keeps the channels off the list empty.
LEMMA EmptyStep == TypeInv /\ UnlinkedEmpty /\ [Next]_vars => UnlinkedEmpty'
<1> SUFFICES ASSUME TypeInv, UnlinkedEmpty, [Next]_vars PROVE UnlinkedEmpty'
  OBVIOUS
<1>1. ASSUME NEW u \in User, RegisterInput(u) \/ RegisterStep(u)
      PROVE  EmptyFrame
  <2>1. CASE QuitLeave(u)
    BY <2>1, EmptyQuit
  <2>2. CASE NickDelete(u) \/ UserVerify(u)
    BY <2>2, EmptyUnchanged DEF NickDelete, HashDelete, Harmed, UserVerify, TypeInv
  <2>3. CASE ~(QuitLeave(u) \/ NickDelete(u) \/ UserVerify(u))
    BY <1>1, <2>3, EmptyUnchanged DEF RegisterInput, RegisterStep, NickLookup,
         NickCount, NickFindOld, NickAssign, NickAdd, UserBegin, UserAdd,
         UserWelcome, QuitBegin, QuitPass, QuitRelock, QuitEnd, QuitClose,
         TypeInv
  <2> QED
    BY <2>1, <2>2, <2>3
<1>2. ASSUME NEW u \in User, ChannelInput(u) \/ ChannelStep(u)
      PROVE  EmptyFrame
  <2>1. CASE PartShift(u) \/ PartLeave(u) \/ PartDelete(u)
    BY <2>1, EmptyPart
  <2>2. CASE \E n \in ChanName : JoinNew(u, n) \/ JoinMember(u, n)
    BY <2>2, EmptyJoin
  <2>3. CASE OperGrant(u) \/ ModeMember(u) \/ ModeGrant(u)
    BY <2>3, EmptyUnchanged DEF OperGrant, ModeMember, ModeGrant, TypeInv
  <2>4. CASE \E n \in ChanName : JoinAgain(u, n) \/ PartFind(u, n)
               \/ ListMissing(u, n) \/ \E t \in Nick : ModeFind(u, n, t)
    BY <2>4, EmptyUnchanged DEF JoinAgain, PartFind, ListMissing, ModeFind, TypeInv
  <2> QED
    BY <1>2, <2>1, <2>2, <2>3, <2>4 DEF ChannelInput, ChannelStep
<1>3. ASSUME NEW u \in User, MessageInput(u) \/ MessageStep(u)
      PROVE  EmptyFrame
  BY <1>3, EmptyUnchanged DEF MessageInput, MessageStep, NoticeChannel, Lusers, TypeInv
<1>4. ASSUME NEW u \in User, Connection(u)
      PROVE  EmptyFrame
  BY <1>4, EmptyUnchanged DEF Connection, Accept, ThreadStart, ThreadFail, Exit, Close, ReadExited, TypeInv
<1>5. ASSUME AcceptFail \/ Stray \/ UNCHANGED vars PROVE EmptyFrame
  <2>1. CASE Stray
    BY <2>1 DEF Stray, EmptyFrame
  <2>2. CASE AcceptFail \/ UNCHANGED vars
    <3>1. linked' = linked /\ hh_next' = hh_next /\ chan' = chan
          /\ (proc' = "ok" => proc = "ok")
      BY <2>2 DEF AcceptFail, vars, channels
    <3>2. channels' = channels
      BY <3>1 DEF channels
    <3> QED
      BY <3>1, <3>2, EmptyUnchanged DEF TypeInv
  <2> QED
    BY <1>5, <2>1, <2>2
<1>6. EmptyFrame
  BY <1>1, <1>2, <1>3, <1>4, <1>5 DEF Next, Arrive, Continue
<1> QED
  BY <1>6, EmptyKept, TypeNext DEF TypeInv

\* No channel is taken off the list while it has members, whatever is sent:
\* PART decides with the count it reads in the section that removes.
THEOREM UnlinkedIsEmpty == Spec => []UnlinkedEmpty
<1>1. Init => UnlinkedEmpty
  BY DEF Init, NoChannel, UnlinkedEmpty
<1> QED
  BY <1>1, TypeInit, TypeNext, EmptyStep, PTL DEF Spec

\* Whatever JOIN, PART and QUIT do to the list at the same time, no two
\* channels of one name are in use: one off the list has no members, and two on
\* the list have different names.
THEOREM NamesUnique == Spec => []UniqueChannelName
<1>1. TypeOK /\ UnlinkedEmpty /\ ListedOnce => UniqueChannelName
  <2> SUFFICES ASSUME TypeOK, UnlinkedEmpty, ListedOnce, proc = "ok",
                      NEW c \in InUse, NEW d \in InUse,
                      chan[c].channel_name = chan[d].channel_name
               PROVE  c = d
    BY DEF UniqueChannelName
  <2>1. \A e \in Chan : Count(e) \in Int
    BY ArrayType
  <2>2. \A e \in Chan \ linked : ~(Count(e) > 0)
    BY <2>1 DEF UnlinkedEmpty, Count
  <2>3. InUse \subseteq linked
    BY <2>2 DEF InUse, Count, TypeOK
  <2> QED
    BY <2>3 DEF ListedOnce
<1> QED
  BY <1>1, TypeCorrect, UnlinkedIsEmpty, ListedAlways, PTL

----------------------------------------------------------------------------
(* Without PART: the list and the arrays *)

\* Only listed channels have members.
LEMMA MemberLinked ==
  ASSUME TypeOK, ArrayInv, NEW c \in Chan, NEW v \in Members(c)
  PROVE  c \in linked
<1>1. \E i \in 0..(Count(c) - 1) : TRUE
  BY DEF Members, Count
<1>2. Count(c) \in Int
  BY ArrayType
<1>3. Count(c) > 0
  BY <1>1, <1>2
<1> QED
  BY <1>3 DEF ArrayInv, Count

\* What a step does to the hh.next an unlinked channel keeps: nothing, or it
\* is the one that unlinked it.
ListFrame ==
  /\ linked' \subseteq Chan
  /\ \A x \in Chan \ linked' : \/ x \notin linked /\ hh_next'[x] = hh_next[x]
                               \/ x \in linked /\ hh_next'[x] = After(x)

\* JOIN allocates the next object and links it as the last.
LEMMA ListGrows ==
  ASSUME TypeOK, ListInv, NEW u \in User, NEW n \in ChanName, JoinNew(u, n)
  PROVE  /\ ListInv' /\ ListFrame /\ lock = NULL
         /\ \E c \in Chan : /\ chan'[c].channel_name = n
                            /\ Members(c) = {} /\ Members(c)' = {u} /\ Count(c)' = 1
                            /\ linked' = linked \cup {c} /\ c \notin linked
                            /\ \A d \in Chan \ {c} : /\ chan'[d] = chan[d]
                                                     /\ Members(d)' = Members(d)
<1>1. PICK c \in Chan :
        /\ ~Made(c) /\ \A d \in Chan : d < c => Made(d)
        /\ chan' = [chan EXCEPT ![c] = NewChannel(u, n)]
        /\ linked' = linked \cup {c}
  BY DEF JoinNew, Made
<1>2. hh_next' = hh_next /\ lock = NULL
  BY DEF JoinNew
<1>3. /\ chan'[c] = NewChannel(u, n) /\ chan'[c].channel_name = n
      /\ \A d \in Chan \ {c} : chan'[d] = chan[d]
  BY <1>1 DEF TypeOK, NewChannel
<1>4. Chan \subseteq Nat /\ linked \subseteq Chan
  BY Bounds DEF Chan, TypeOK
<1>5. Members(c)' = {u} /\ Count(c)' = 1
  <2>1. chan'[c].user_count = 1
        /\ chan'[c].channel_users = [i \in Slot |-> IF i = 0 THEN u ELSE NULL]
    BY <1>3 DEF NewChannel
  <2>2. 0 \in Slot /\ 0..(1 - 1) = {0}
    BY Bounds DEF Slot
  <2> QED
    BY <2>1, <2>2 DEF Members, Count
<1>6. Members(c) = {}
  <2>1. chan[c].user_count = 0
    BY <1>1 DEF ListInv
  <2> QED
    BY <2>1 DEF Members
<1>7. Made(c)' /\ (\A d \in Chan \ {c} : Made(d)' <=> Made(d))
  <2>1. chan'[c].channel_name = n
    BY <1>3 DEF NewChannel
  <2> QED
    BY <1>3, <2>1, NullApart DEF Made
<1>8. ASSUME NEW d \in Chan \ {c} PROVE Members(d)' = Members(d)
  BY <1>3 DEF Members
<1>9. c \notin linked
  BY <1>1 DEF ListInv
<1>10. ListInv'
  <2>1. \A d \in linked' : Made(d)'
    BY <1>1, <1>4, <1>7 DEF ListInv
  <2>2. ASSUME NEW d \in Chan, NEW e \in Chan, Made(e)', d < e PROVE Made(d)'
    BY <1>1, <1>4, <1>7, <2>2 DEF ListInv
  <2>3. ASSUME NEW d \in Chan, ~Made(d)' PROVE chan'[d].user_count = 0
    BY <1>3, <1>7, <2>3 DEF ListInv
  <2>4. ASSUME NEW x \in Chan \ linked', hh_next'[x] # NoChan
        PROVE  /\ chan'[hh_next'[x]].channel_name # NULL
             /\ \A d \in linked' : d > x => hh_next'[x] <= d
    <3>1. x \in Chan \ linked /\ hh_next[x] # NoChan /\ hh_next[x] \in Chan
      BY <1>1, <1>2, <2>4 DEF TypeOK
    <3>2. Made(hh_next[x]) /\ \A d \in linked : d > x => hh_next[x] <= d
      BY <3>1 DEF ListInv
    <3>3. hh_next[x] # c
      BY <1>1, <3>2
    <3>4. ~(c < hh_next[x])
      BY <1>1, <3>1, <3>2 DEF ListInv
    <3>5. chan'[hh_next[x]].channel_name # NULL
      BY <1>3, <3>1, <3>2, <3>3 DEF Made
    <3>6. hh_next[x] \in Nat /\ c \in Nat
      BY <1>4, <3>1
    <3>7. hh_next[x] <= c
      BY <3>4, <3>6
    <3> QED
      BY <1>1, <1>2, <3>2, <3>5, <3>7
  <2> QED
    BY <2>1, <2>2, <2>3, <2>4 DEF ListInv, Made
<1>11. ListFrame
  BY <1>1, <1>2, <1>4 DEF ListFrame
<1> QED
  BY <1>1, <1>2, <1>3, <1>5, <1>6, <1>8, <1>9, <1>10, <1>11

\* A step that allocates nothing and links nothing.
LEMMA ListShrinks ==
  ASSUME TypeOK, ListInv, ListFrame, linked' \subseteq linked,
         \A d \in Chan : chan'[d].channel_name = chan[d].channel_name,
         \A d \in Chan \ linked : chan'[d] = chan[d]
  PROVE  ListInv'
<1>1. Chan \subseteq Nat /\ linked \subseteq Chan /\ NoChan \notin Chan
  BY Bounds DEF Chan, NoChan, TypeOK
<1>2. \A d \in Chan : Made(d)' <=> Made(d)
  BY DEF Made
<1>3. \A d \in linked' : Made(d)'
  BY <1>1, <1>2 DEF ListInv
<1>4. \A d, e \in Chan : Made(e)' /\ d < e => Made(d)'
  BY <1>2 DEF ListInv
<1>5. ASSUME NEW d \in Chan, ~Made(d)' PROVE chan'[d].user_count = 0
  BY <1>2, <1>5 DEF ListInv
<1>6. ASSUME NEW x \in Chan \ linked', hh_next'[x] # NoChan
      PROVE  /\ chan'[hh_next'[x]].channel_name # NULL
             /\ \A d \in linked' : d > x => hh_next'[x] <= d
  <2>1. CASE x \notin linked
    <3>1. hh_next'[x] = hh_next[x]
      BY <2>1 DEF ListFrame
    <3>2. hh_next[x] \in Chan
      BY <3>1, <1>6 DEF TypeOK
    <3>3. Made(hh_next[x]) /\ \A d \in linked : d > x => hh_next[x] <= d
      BY <1>6, <2>1, <3>1 DEF ListInv
    <3>4. chan'[hh_next[x]].channel_name # NULL
      BY <3>2, <3>3 DEF Made
    <3> QED
      BY <3>1, <3>3, <3>4
  <2>2. CASE x \in linked
    <3>1. hh_next'[x] = After(x)
      BY <2>2 DEF ListFrame
    <3>2. After(x) \in linked /\ \A d \in linked : d > x => After(x) <= d
      BY <1>6, <2>2, <3>1, AfterLinked
    <3>3. chan[After(x)].channel_name # NULL
      BY <3>2 DEF ListInv, Made
    <3>4. chan'[After(x)].channel_name # NULL
      BY <1>1, <3>2, <3>3
    <3> QED
      BY <3>1, <3>2, <3>4
  <2> QED
    BY <2>1, <2>2
<1> QED
  BY <1>3, <1>4, <1>5, <1>6 DEF ListInv, Made

----------------------------------------------------------------------------
(* Without PART: the walk of QUIT *)

\* What ChannelInv says of one connection.
UserInv(v) ==
  /\ pc[v] \in {"quit_visit", "quit_relay"} => \E S \in SUBSET Chan : Walks(v, S)
  /\ pc[v] = "quit_visit" => /\ lock = v /\ loc[v].next = After(loc[v].here)
                             /\ Ahead(v, loc[v].here)
  /\ pc[v] = "quit_relay" => Ahead(v, loc[v].next)
  /\ HasQuit(v) => \A c \in linked : v \notin Members(c)
  /\ pc[v] = "mode_grant" => v \in Members(loc[v].here)

\* hh.next never leads out of the channels the walk may meet.
LEMMA AfterStays ==
  ASSUME TypeOK, NEW v \in User, NEW S \in SUBSET Chan, Walks(v, S),
         NEW x \in S \cup {NoChan}
  PROVE  After(x) \in S \cup {NoChan}
<1>1. CASE x \in linked
  BY <1>1, AfterLinked DEF Walks
<1>2. CASE x \notin linked
  <2>1. CASE x = NoChan
    BY <2>1 DEF After
  <2>2. CASE x # NoChan
    BY <1>2, <2>2 DEF After, Walks
  <2> QED
    BY <2>1, <2>2
<1> QED
  BY <1>1, <1>2

\* What lies ahead of a channel its user is not in lies ahead of the next.
LEMMA AheadMoves ==
  ASSUME TypeOK, ListInv, NEW v \in User, NEW S \in SUBSET Chan, Walks(v, S),
         NEW x \in S, Ahead(v, x), v \notin Members(x)
  PROVE  Ahead(v, After(x))
<1>1. Chan \subseteq Nat /\ linked \subseteq Chan /\ x # NoChan
  BY Bounds DEF Chan, NoChan, TypeOK
<1> SUFFICES ASSUME NEW c \in linked, v \in Members(c)
             PROVE  After(x) # NoChan /\ After(x) <= c
  BY DEF Ahead
<1>2. x <= c /\ x # c
  BY DEF Ahead
<1>3. c > x
  <2>1. x \in Nat /\ c \in Nat
    BY <1>1
  <2> QED
    BY <1>2, <2>1
<1>4. CASE x \in linked
  BY <1>3, <1>4, AfterLinked, <1>1 DEF TypeOK, NoChan
<1>5. CASE x \notin linked
  <2>1. After(x) = hh_next[x]
    BY <1>1, <1>5 DEF After
  <2>2. hh_next[x] # NoChan
    BY <1>3, <1>5 DEF Walks
  <2>3. hh_next[x] <= c
    BY <1>3, <1>5, <2>2 DEF ListInv
  <2> QED
    BY <2>1, <2>2, <2>3
<1> QED
  BY <1>4, <1>5

\* A walk goes on in the channels it could meet before and those listed now.
LEMMA WalkKept ==
  ASSUME TypeOK, ArrayInv, ListFrame, NEW v \in User,
         NEW S \in SUBSET Chan, Walks(v, S),
         \A c \in linked' : v \in Members(c)' => v \in Members(c),
         loc'[v].here \in S \cup {NoChan}, loc'[v].next \in S \cup {NoChan}
  PROVE  \E T \in SUBSET Chan : Walks(v, T)'
<1>1. PICK T \in SUBSET Chan : T = S \cup linked'
  BY DEF ListFrame
<1>2. linked \subseteq S
  BY DEF Walks
<1>3. ASSUME NEW x \in T \ linked'
      PROVE  /\ hh_next'[x] \in T \cup {NoChan}
             /\ hh_next'[x] = NoChan
                  => \A c \in linked' : c > x => v \notin Members(c)'
  <2>0. x \in S /\ x \in Chan
    BY <1>1
  <2>1. SUFFICES /\ hh_next'[x] \in S \cup {NoChan}
                 /\ hh_next'[x] = NoChan => \A c \in linked : c > x => v \notin Members(c)
    <3>1. ASSUME NEW c \in linked', v \in Members(c)'
          PROVE  c \in linked /\ v \in Members(c)
      BY <3>1, MemberLinked DEF ListFrame
    <3> QED
      BY <1>1, <3>1
  <2>2. CASE x \notin linked
    <3>1. hh_next'[x] = hh_next[x]
      BY <1>3, <2>0, <2>2 DEF ListFrame
    <3> QED
      BY <2>0, <2>2, <3>1 DEF Walks
  <2>3. CASE x \in linked
    <3>1. hh_next'[x] = After(x)
      BY <1>3, <2>0, <2>3 DEF ListFrame
    <3>2. \/ After(x) = NoChan /\ \A d \in linked : ~(d > x)
          \/ After(x) \in linked
      BY <2>3, AfterLinked
    <3>3. NoChan \notin linked
      BY DEF TypeOK, Chan, NoChan
    <3> QED
      BY <1>2, <3>1, <3>2, <3>3
  <2> QED
    BY <2>2, <2>3
<1>4. Walks(v, T)'
  BY <1>1, <1>3 DEF Walks
<1> QED
  BY <1>4

\* A thread that does nothing while another changes a channel's members or
\* the list keeps what ChannelInv says of it.
LEMMA UserKept ==
  ASSUME TypeOK, LocalsSet, ArrayInv, ListFrame, NEW v \in User, UserInv(v),
         pc[v] # "quit_visit", pc'[v] = pc[v], loc'[v] = loc[v],
         user'[v] = user[v],
         \A c \in Chan : v \in Members(c)' <=> v \in Members(c)
  PROVE  UserInv(v)'
<1>1. \A c \in linked' : v \in Members(c)' => c \in linked /\ v \in Members(c)
  BY MemberLinked DEF ListFrame
<1>2. pc[v] = "quit_relay" => \E T \in SUBSET Chan : Walks(v, T)'
  <2> SUFFICES ASSUME pc[v] = "quit_relay"
               PROVE  \E T \in SUBSET Chan : Walks(v, T)'
    OBVIOUS
  <2>1. PICK S \in SUBSET Chan : Walks(v, S)
    BY DEF UserInv
  <2>2. loc'[v].here \in S \cup {NoChan} /\ loc'[v].next \in S \cup {NoChan}
    BY <2>1 DEF Walks
  <2> QED
    BY <1>1, <2>1, <2>2, WalkKept
<1>3. pc[v] = "quit_relay" => Ahead(v, loc[v].next)'
  BY <1>1 DEF UserInv, Ahead
<1>4. HasQuit(v)' => \A c \in linked' : v \notin Members(c)'
  BY <1>1 DEF UserInv, HasQuit
<1>5. pc[v] = "mode_grant" => v \in Members(loc[v].here)'
  <2> SUFFICES ASSUME pc[v] = "mode_grant" PROVE v \in Members(loc[v].here)'
    OBVIOUS
  <2>1. loc[v].here \in Chan /\ v \in Members(loc[v].here)
    BY DEF UserInv, LocalsSet
  <2> QED
    BY <2>1 DEF Members
<1> QED
  BY <1>2, <1>3, <1>4, <1>5 DEF UserInv

\* A thread at no place of QUIT or MODE that matters, or still there.
Other(v) ==
  /\ pc'[v] \in {"quit_visit", "quit_relay", "mode_grant"}
       => pc'[v] = pc[v] /\ loc'[v] = loc[v]
  /\ pc[v] = "quit_visit" => lock' = lock
  /\ HasQuit(v)' => HasQuit(v)

\* While the channels stay as they are, such a thread keeps what ChannelInv
\* says of it.
LEMMA OtherKept ==
  ASSUME channels' = channels, NEW v \in User, Other(v), UserInv(v)
  PROVE  UserInv(v)'
<1>1. linked' = linked /\ hh_next' = hh_next /\ chan' = chan
  BY DEF channels
<1>2. pc'[v] \in {"quit_visit", "quit_relay"} => \E S \in SUBSET Chan : Walks(v, S)'
  BY <1>1 DEF Other, UserInv, Walks, Members
<1>3. pc'[v] = "quit_visit" => lock' = v /\ loc'[v].next = After(loc[v].here)'
                               /\ Ahead(v, loc[v].here)'
  BY <1>1 DEF Other, UserInv, After, Ahead, Members
<1>4. pc'[v] = "quit_relay" => Ahead(v, loc[v].next)'
  BY <1>1 DEF Other, UserInv, Ahead, Members
<1>5. HasQuit(v)' => \A c \in linked : v \notin Members(c)'
  BY <1>1 DEF Other, UserInv, Members
<1>6. pc'[v] = "mode_grant" => v \in Members(loc[v].here)'
  BY <1>1 DEF Other, UserInv, Members
<1> QED
  BY <1>1, <1>2, <1>3, <1>4, <1>5, <1>6 DEF UserInv, Other

\* ChannelInv, one connection at a time.
LEMMA ChannelInvParts ==
  ChannelInv <=> ListInv /\ ArrayInv /\ \A v \in User : UserInv(v)
BY DEF ChannelInv, QuitPath, QuitLeavesAll, ModeInv, UserInv

\* A step that leaves the channels alone keeps ChannelInv when it keeps what
\* that says of the thread that takes it.
LEMMA StillKept ==
  ASSUME ChannelInv, channels' = channels,
         \A v \in User : Other(v) \/ UserInv(v)'
  PROVE  ChannelInv'
<1>1. linked' = linked /\ hh_next' = hh_next /\ chan' = chan
  BY DEF channels
<1>2. ListInv /\ ArrayInv /\ \A v \in User : UserInv(v)
  BY ChannelInvParts
<1>3. ListInv'
  BY <1>1, <1>2 DEF ListInv, Made
<1>4. ArrayInv'
  BY <1>1, <1>2 DEF ArrayInv
<1>5. \A v \in User : UserInv(v)'
  BY <1>2, OtherKept
<1> QED
  BY <1>3, <1>4, <1>5
     DEF ChannelInv, QuitPath, QuitLeavesAll, ModeInv, UserInv

\* QUIT starts at the head of the list.
LEMMA QuitBeginInv ==
  ASSUME TypeInv, QuitInv, ChannelInv, NEW u \in User, QuitBegin(u)
  PROVE  ChannelInv'
<1>1. /\ pc[u] = "recv" /\ lock = NULL /\ lock' = u
      /\ channels' = channels /\ user' = user
      /\ pc' = [pc EXCEPT ![u] = "quit_visit"]
      /\ loc' = [loc EXCEPT ![u].here = FirstLinked, ![u].next = After(FirstLinked)]
  BY DEF QuitBegin, Dispatch, At, Goto
<1>2. linked' = linked /\ hh_next' = hh_next /\ chan' = chan
  BY <1>1 DEF channels
<1>3. /\ pc'[u] = "quit_visit" /\ loc'[u].here = FirstLinked /\ loc'[u].next = After(FirstLinked)
      /\ \A v \in User \ {u} : pc'[v] = pc[v] /\ loc'[v] = loc[v]
  BY <1>1 DEF TypeInv, TypeOK, Locals
<1>4. ASSUME NEW v \in User \ {u} PROVE Other(v)
  <2>1. pc[v] # "quit_visit"
    BY <1>1, NullApart DEF ChannelInv, QuitPath
  <2> QED
    BY <1>1, <1>3, <2>1 DEF Other, HasQuit
<1>5. ~HasQuit(u)'
  BY <1>1, <1>3 DEF HasQuit, QuitInv
<1>6. PICK S \in SUBSET Chan : S = linked
  BY DEF TypeInv, TypeOK
<1>7. /\ FirstLinked \in S \cup {NoChan} /\ After(FirstLinked) \in S \cup {NoChan}
      /\ \A c \in linked : FirstLinked # NoChan /\ FirstLinked <= c
  <2>1. NoChan \notin linked /\ After(NoChan) = NoChan
    BY DEF TypeInv, TypeOK, Chan, NoChan, After
  <2> QED
    BY <1>6, <2>1, HeadLinked, AfterLinked DEF TypeInv
<1>8. Walks(u, S)'
  BY <1>2, <1>3, <1>6, <1>7 DEF Walks
<1>9. Ahead(u, loc[u].here)'
  BY <1>2, <1>3, <1>7 DEF Ahead
<1>10. loc'[u].next = After(loc[u].here)'
  BY <1>2, <1>3 DEF After
<1>11. UserInv(u)'
  BY <1>1, <1>3, <1>5, <1>8, <1>9, <1>10 DEF UserInv
<1> QED
  BY <1>1, <1>4, <1>11, StillKept

\* QUIT goes on to the channel read ahead: from one its user is not in, or
\* with the lock taken again.
LEMMA QuitAdvanceInv ==
  ASSUME TypeInv, QuitInv, ChannelInv, NEW u \in User,
         QuitPass(u) \/ QuitRelock(u)
  PROVE  ChannelInv'
<1>1. /\ pc[u] \in {"quit_visit", "quit_relay"} /\ lock' = u
      /\ lock = NULL \/ lock = u
      /\ channels' = channels /\ user' = user /\ Advance(u)
      /\ pc'[u] = "quit_visit" /\ \A v \in User \ {u} : pc'[v] = pc[v]
  BY DEF QuitPass, QuitRelock, At, Goto, TypeInv, TypeOK, ChannelInv, QuitPath
<1>2. linked' = linked /\ hh_next' = hh_next /\ chan' = chan
  BY <1>1 DEF channels
<1>3. /\ loc'[u].here = loc[u].next /\ loc'[u].next = After(loc[u].next)
      /\ \A v \in User \ {u} : loc'[v] = loc[v]
  BY <1>1 DEF Advance, TypeInv, TypeOK, Locals
<1>4. ASSUME NEW v \in User \ {u} PROVE Other(v)
  <2>1. pc[v] # "quit_visit"
    BY <1>1, NullApart DEF ChannelInv, QuitPath
  <2> QED
    BY <1>1, <1>3, <2>1 DEF Other, HasQuit
<1>5. ~HasQuit(u)'
  BY <1>1 DEF HasQuit, QuitInv
<1>6. PICK S \in SUBSET Chan : Walks(u, S)
  BY <1>1 DEF ChannelInv, QuitPath
<1>7. loc[u].next \in S \cup {NoChan} /\ After(loc[u].next) \in S \cup {NoChan}
  BY <1>6, AfterStays DEF Walks, TypeInv
<1>8. Walks(u, S)'
  BY <1>2, <1>3, <1>6, <1>7 DEF Walks, Members
<1>9. Ahead(u, loc[u].next)
  <2>1. CASE QuitRelock(u)
    BY <2>1 DEF QuitRelock, At, ChannelInv, QuitPath
  <2>2. CASE QuitPass(u)
    <3>1. /\ loc[u].here # NoChan /\ u \notin Members(loc[u].here)
          /\ loc[u].next = After(loc[u].here) /\ Ahead(u, loc[u].here)
      BY <2>2 DEF QuitPass, At, ChannelInv, QuitPath
    <3>2. loc[u].here \in S
      BY <1>6, <3>1 DEF Walks
    <3> QED
      BY <1>6, <3>1, <3>2, AheadMoves DEF TypeInv, ChannelInv
  <2> QED
    BY <2>1, <2>2
<1>10. Ahead(u, loc[u].here)'
  BY <1>2, <1>3, <1>9 DEF Ahead, Members
<1>11. loc'[u].next = After(loc[u].here)'
  BY <1>2, <1>3 DEF After
<1>12. UserInv(u)'
  BY <1>1, <1>5, <1>8, <1>10, <1>11 DEF UserInv
<1> QED
  BY <1>1, <1>4, <1>12, StillKept

\* QUIT counts its user out when no channel is ahead.
LEMMA QuitEndInv ==
  ASSUME TypeInv, QuitInv, ChannelInv, NEW u \in User, QuitEnd(u)
  PROVE  ChannelInv'
<1>1. /\ pc[u] = "quit_visit" /\ loc[u].here = NoChan
      /\ channels' = channels /\ user' = user /\ loc' = loc /\ lock = u
      /\ pc'[u] = "quit_close" /\ \A v \in User \ {u} : pc'[v] = pc[v]
  BY DEF QuitEnd, At, Goto, TypeInv, TypeOK, ChannelInv, QuitPath
<1>2. ASSUME NEW v \in User \ {u} PROVE Other(v)
  BY <1>1 DEF Other, HasQuit, ChannelInv, QuitPath
<1>3. \A c \in linked : u \notin Members(c)
  BY <1>1 DEF ChannelInv, QuitPath, Ahead
<1>4. linked' = linked /\ chan' = chan
  BY <1>1 DEF channels
<1>5. UserInv(u)'
  BY <1>1, <1>3, <1>4 DEF UserInv, Members
<1> QED
  BY <1>1, <1>2, <1>5, StillKept

\* MODE goes on with a membership it looked up.
LEMMA ModeMemberInv ==
  ASSUME TypeInv, QuitInv, ChannelInv, NEW u \in User, ModeMember(u)
  PROVE  ChannelInv'
<1>1. /\ pc[u] = "mode_member" /\ lock' = lock
      /\ channels' = channels /\ user' = user
      /\ \A v \in User \ {u} : pc'[v] = pc[v] /\ loc'[v] = loc[v]
      /\ \/ pc'[u] = "mode_grant" /\ loc' = loc /\ u \in Members(loc[u].here)
         \/ pc'[u] = "recv"
  BY DEF ModeMember, At, Goto, Return, TypeInv, TypeOK
<1>2. ASSUME NEW v \in User \ {u} PROVE Other(v)
  BY <1>1 DEF Other, HasQuit
<1>3. ~HasQuit(u)'
  BY <1>1 DEF HasQuit, QuitInv
<1>4. UserInv(u)'
  BY <1>1, <1>3 DEF UserInv, Members, channels
<1> QED
  BY <1>1, <1>2, <1>4, StillKept

\* What QUIT does to the channel it is at.
LEMMA LeaveEffect ==
  ASSUME TypeInv, TypeInv', ChannelInv, NEW u \in User, QuitLeave(u)
  PROVE  \E c \in linked :
           /\ c = loc[u].here /\ c \in Chan /\ u \in Members(c)
           /\ Count(c) > 0 /\ Count(c) \in Int
           /\ Count(c)' = Count(c) - 1 /\ Members(c)' = Members(c) \ {u}
           /\ \A i, j \in 0..(Count(c)' - 1) : Slots(c)'[i] = Slots(c)'[j] => i = j
           /\ \A d \in Chan \ {c} : chan'[d] = chan[d] /\ Members(d)' = Members(d)
           /\ \A d \in Chan : chan'[d].channel_name = chan[d].channel_name
<1>0. TypeOK /\ TypeOK' /\ ArrayInv
  BY DEF TypeInv, ChannelInv
<1>1. PICK c \in Chan : c = loc[u].here
  BY DEF QuitLeave, TypeInv, TypeOK, Locals
<1>2. /\ u \in Members(c)
      /\ chan' = [chan EXCEPT
           ![c].channel_users = Cut(Shifted(c, u), chan[c].user_count - 1),
           ![c].user_count = @ - 1]
  BY <1>1 DEF QuitLeave
<1>3. c \in linked
  BY <1>0, <1>2, MemberLinked
<1>4. /\ \A i, j \in 0..(Count(c) - 1) : Slots(c)[i] = Slots(c)[j] => i = j
      /\ Count(c) > 0 /\ Count(c) \in Int
  BY <1>0, <1>3, ArrayType DEF ArrayInv, Count, Slots
<1>5. /\ Count(c)' = Count(c) - 1 /\ Members(c)' = Members(c) \ {u}
      /\ \A i, j \in 0..(Count(c)' - 1) : Slots(c)'[i] = Slots(c)'[j] => i = j
      /\ \A d \in Chan \ {c} : chan'[d] = chan[d] /\ Members(d)' = Members(d)
      /\ \A d \in Chan : chan'[d].channel_name = chan[d].channel_name
  BY <1>0, <1>2, <1>4, ArrayLeave
<1> QED
  BY <1>1, <1>2, <1>3, <1>4, <1>5

\* QUIT leaves the channel it is at; of the list it takes an empty one.
LEMMA QuitLeaveInv ==
  ASSUME TypeInv, TypeInv', QuitInv, ChannelInv, NEW u \in User, QuitLeave(u)
  PROVE  ChannelInv'
<1>0. TypeOK /\ TypeOK' /\ ListInv /\ ArrayInv /\ \A v \in User : UserInv(v)
  BY ChannelInvParts DEF TypeInv
<1>1. PICK c \in linked :
           /\ c = loc[u].here /\ c \in Chan /\ u \in Members(c)
           /\ Count(c) > 0 /\ Count(c) \in Int
           /\ Count(c)' = Count(c) - 1 /\ Members(c)' = Members(c) \ {u}
           /\ \A i, j \in 0..(Count(c)' - 1) : Slots(c)'[i] = Slots(c)'[j] => i = j
           /\ \A d \in Chan \ {c} : chan'[d] = chan[d] /\ Members(d)' = Members(d)
           /\ \A d \in Chan : chan'[d].channel_name = chan[d].channel_name
  BY LeaveEffect
<1>2. /\ pc[u] = "quit_visit" /\ lock = u /\ u \in Members(c)
      /\ user' = user /\ loc[u].next = After(c) /\ Ahead(u, c)
  BY <1>1 DEF QuitLeave, At, TypeInv, TypeOK, ChannelInv, QuitPath
<1>3. \A v \in User \ {u} : /\ pc[v] # "quit_visit"
                            /\ pc'[v] = pc[v] /\ loc'[v] = loc[v]
                            /\ \A d \in Chan : v \in Members(d)' <=> v \in Members(d)
  <2>1. ASSUME NEW v \in User \ {u}
        PROVE  pc[v] # "quit_visit" /\ pc'[v] = pc[v] /\ loc'[v] = loc[v]
    BY <1>2 DEF QuitLeave, Goto, Advance, TypeInv, TypeOK, ChannelInv, QuitPath
  <2> QED
    BY <1>1, <2>1
<1>4. \/ /\ Count(c) = 1 /\ linked' = linked \ {c}
         /\ hh_next' = [hh_next EXCEPT ![c] = After(c)]
         /\ lock' = u /\ pc' = pc
         /\ loc'[u].here = After(c) /\ loc'[u].next = After(After(c))
      \/ /\ Count(c) # 1 /\ linked' = linked /\ hh_next' = hh_next
         /\ pc'[u] = "quit_relay" /\ loc' = loc
  <2>1. CASE Count(c) = 1
    <3>1. Unlink(c) /\ Advance(u) /\ lock' = lock /\ pc' = pc
      BY <1>1, <2>1 DEF QuitLeave, Count
    <3>2. loc'[u].here = loc[u].next /\ loc'[u].next = After(loc[u].next)
      BY <3>1 DEF Advance, TypeInv, TypeOK, Locals
    <3> QED
      BY <1>2, <1>1, <2>1, <3>1, <3>2 DEF Unlink
  <2>2. CASE Count(c) # 1
    BY <1>1, <2>2 DEF QuitLeave, Count, Goto, TypeInv, TypeOK
  <2> QED
    BY <2>1, <2>2
<1>5. ListFrame
  <2>1. \A x \in Chan \ linked' : \/ x \notin linked /\ hh_next'[x] = hh_next[x]
                                  \/ x \in linked /\ hh_next'[x] = After(x)
    <3>1. hh_next \in [Chan -> Chan \cup {NoChan}] /\ c \in Chan
      BY <1>0, <1>1 DEF TypeOK
    <3>2. CASE linked' = linked /\ hh_next' = hh_next
      BY <3>2
    <3>3. CASE linked' = linked \ {c} /\ hh_next' = [hh_next EXCEPT ![c] = After(c)]
      <4>1. hh_next'[c] = After(c) /\ \A x \in Chan \ {c} : hh_next'[x] = hh_next[x]
        BY <3>1, <3>3
      <4> QED
        BY <1>1, <3>3, <4>1
    <3> QED
      BY <1>4, <3>2, <3>3
  <2> QED
    BY <1>0, <2>1 DEF ListFrame, TypeOK
<1>6. ListInv'
  <2>1. linked' \subseteq linked
    BY <1>4
  <2>2. \A d \in Chan \ linked : chan'[d] = chan[d]
    BY <1>1
  <2> QED
    BY <1>0, <1>1, <1>5, <2>1, <2>2, ListShrinks
<1>7. ArrayInv'
  <2>1. ASSUME NEW d \in Chan, d # c
        PROVE  /\ d \in linked' <=> chan'[d].user_count > 0
               /\ \A i, j \in 0..(chan'[d].user_count - 1) :
                    chan'[d].channel_users[i] = chan'[d].channel_users[j] => i = j
    <3>1. chan'[d] = chan[d] /\ (d \in linked' <=> d \in linked)
      BY <1>1, <1>4, <2>1
    <3> QED
      BY <1>0, <3>1 DEF ArrayInv
  <2>2. c \in linked' <=> Count(c)' > 0
    BY <1>1, <1>4
  <2> QED
    BY <1>1, <2>1, <2>2 DEF ArrayInv, Count, Slots
<1>8. \A v \in User \ {u} : UserInv(v)'
  BY <1>0, <1>2, <1>3, <1>5, UserKept DEF TypeInv
<1>9. ~HasQuit(u)'
  BY <1>2, <1>4 DEF HasQuit, QuitInv
<1>10. Chan \subseteq Nat /\ linked \subseteq Chan /\ NoChan \notin Chan
  BY Bounds DEF Chan, NoChan, TypeInv, TypeOK
<1>11. \A d \in linked' : u \in Members(d)'
         => /\ d \in linked /\ d > c
            /\ After(c) \in linked /\ After(c) > c /\ After(c) <= d
  <2> SUFFICES ASSUME NEW d \in linked', u \in Members(d)'
               PROVE  /\ d \in linked /\ d > c /\ After(c) \in linked
                      /\ After(c) > c /\ After(c) <= d
    OBVIOUS
  <2>1. d # c /\ d \in linked /\ u \in Members(d)
    BY <1>1, <1>4, <1>10
  <2>2. d > c
    <3>1. c <= d
      BY <1>2, <2>1 DEF Ahead
    <3>2. c \in Nat /\ d \in Nat
      BY <1>10, <2>1
    <3> QED
      BY <2>1, <3>1, <3>2
  <2> QED
    BY <1>0, <1>1, <2>1, <2>2, AfterLinked
<1>12. \E T \in SUBSET Chan : Walks(u, T)'
  <2>1. PICK S \in SUBSET Chan : Walks(u, S)
    BY <1>0, <1>2 DEF UserInv
  <2>2. loc[u].here \in S \cup {NoChan} /\ loc[u].next \in S \cup {NoChan}
    BY <2>1 DEF Walks
  <2>3. After(c) \in S \cup {NoChan} /\ After(After(c)) \in S \cup {NoChan}
    BY <1>0, <1>2, <2>1, <2>2, AfterStays
  <2>4. loc'[u].here \in S \cup {NoChan} /\ loc'[u].next \in S \cup {NoChan}
    BY <1>4, <2>2, <2>3
  <2>5. \A d \in linked' : u \in Members(d)' => u \in Members(d)
    BY <1>1, <1>4, <1>10
  <2> QED
    BY <1>0, <1>5, <2>1, <2>4, <2>5, WalkKept
<1>13. UserInv(u)'
  <2>1. CASE Count(c) = 1
    <3>1. Ahead(u, loc[u].here)'
      BY <1>4, <1>10, <1>11, <2>1 DEF Ahead
    <3>2. loc'[u].next = After(loc[u].here)'
      <4>1. PICK d \in Chan \cup {NoChan} : d = After(c)
        BY <1>0, <1>1, AfterType
      <4>2. \/ d = NoChan
            \/ d \in linked /\ d > c
        BY <1>0, <1>1, <4>1, AfterLinked
      <4>3. After(d)' = After(d)
        <5>1. CASE d = NoChan
          BY <5>1 DEF After
        <5>2. CASE d \in linked /\ d > c
          BY <1>0, <1>1, <1>4, <2>1, <5>2, AfterUnlinked
        <5> QED
          BY <4>2, <5>1, <5>2
      <4>4. loc'[u].here = d /\ loc'[u].next = After(d)
        BY <1>4, <2>1, <4>1
      <4>5. After(loc[u].here)' = After(d)'
        BY <4>4 DEF After
      <4> QED
        BY <4>3, <4>4, <4>5
    <3>3. lock' = u /\ pc'[u] = "quit_visit"
      BY <1>2, <1>4, <2>1
    <3> QED
      BY <1>9, <1>12, <3>1, <3>2, <3>3 DEF UserInv
  <2>2. CASE Count(c) # 1
    <3>1. loc'[u].next = After(c) /\ pc'[u] = "quit_relay"
      BY <1>2, <1>4, <2>2
    <3>2. Ahead(u, loc[u].next)'
      BY <1>10, <1>11, <3>1 DEF Ahead
    <3> QED
      BY <1>9, <1>12, <3>1, <3>2 DEF UserInv
  <2> QED
    BY <2>1, <2>2
<1> QED
  BY <1>6, <1>7, <1>8, <1>13
     DEF ChannelInv, QuitPath, QuitLeavesAll, ModeInv, UserInv

\* JOIN of a name no listed channel has.
LEMMA JoinNewInv ==
  ASSUME TypeInv, QuitInv, ChannelInv,
         NEW u \in User, NEW n \in ChanName, JoinNew(u, n)
  PROVE  ChannelInv'
<1>0. TypeOK /\ LocalsSet /\ ListInv /\ ArrayInv /\ \A v \in User : UserInv(v)
  BY ChannelInvParts DEF TypeInv
<1>1. ListInv' /\ ListFrame /\ lock = NULL
  BY <1>0, ListGrows
<1>2. PICK c \in Chan :
        /\ Members(c) = {} /\ Members(c)' = {u} /\ Count(c)' = 1
        /\ linked' = linked \cup {c} /\ c \notin linked
        /\ \A d \in Chan \ {c} : chan'[d] = chan[d] /\ Members(d)' = Members(d)
  BY <1>0, ListGrows
<1>3. pc[u] = "recv" /\ pc' = pc /\ loc' = loc /\ user' = user
  BY DEF JoinNew, Dispatch, At
<1>4. ArrayInv'
  <2>1. ASSUME NEW d \in Chan, d # c
        PROVE  /\ d \in linked' <=> chan'[d].user_count > 0
               /\ \A i, j \in 0..(chan'[d].user_count - 1) :
                    chan'[d].channel_users[i] = chan'[d].channel_users[j] => i = j
    <3>1. chan'[d] = chan[d] /\ (d \in linked' <=> d \in linked)
      BY <1>2, <2>1
    <3> QED
      BY <1>0, <3>1 DEF ArrayInv
  <2>2. c \in linked' /\ chan'[c].user_count = 1
    BY <1>2 DEF Count
  <2>3. \A i, j \in 0..(1 - 1) : i = j
    OBVIOUS
  <2> QED
    BY <2>1, <2>2, <2>3 DEF ArrayInv
<1>5. ASSUME NEW v \in User \ {u} PROVE UserInv(v)'
  <2>1. \A d \in Chan : v \in Members(d)' <=> v \in Members(d)
    BY <1>2
  <2>2. pc[v] # "quit_visit"
    BY <1>0, <1>1, NullApart DEF UserInv
  <2> QED
    BY <1>0, <1>1, <1>3, <2>1, <2>2, UserKept
<1>6. UserInv(u)'
  BY <1>3 DEF UserInv, HasQuit, QuitInv
<1> QED
  BY <1>1, <1>4, <1>5, <1>6
     DEF ChannelInv, QuitPath, QuitLeavesAll, ModeInv, UserInv

\* What JOIN does to a channel it finds.
LEMMA JoinEffect ==
  ASSUME TypeInv, TypeInv', ChannelInv,
         NEW u \in User, NEW n \in ChanName, JoinMember(u, n)
  PROVE  \E c \in linked :
           /\ c \in Chan /\ chan[c].channel_name = n /\ u \notin Members(c)
           /\ Count(c) \in Int /\ Count(c) > 0
           /\ 0..(Count(c) - 1) \subseteq Slot /\ Count(c) \in Slot
           /\ Count(c)' = Count(c) + 1 /\ Members(c)' = Members(c) \cup {u}
           /\ \A i \in Slot : Slots(c)'[i] = IF i = Count(c) THEN u ELSE Slots(c)[i]
           /\ \A d \in Chan \ {c} : chan'[d] = chan[d] /\ Members(d)' = Members(d)
           /\ \A d \in Chan : chan'[d].channel_name = chan[d].channel_name
<1>0. TypeOK /\ TypeOK' /\ ArrayInv /\ linked \subseteq Chan
  BY DEF TypeInv, TypeOK, ChannelInv
<1>1. PICK c \in linked :
        /\ chan[c].channel_name = n
        /\ ~SameNick(c, u) /\ chan[c].user_count < MaxSlot
        /\ chan' = [chan EXCEPT ![c].channel_users[chan[c].user_count] = u,
                                ![c].user_count = @ + 1]
  BY DEF JoinMember, HashFind
<1>2. u \notin Members(c)
  BY <1>1 DEF SameNick
<1>3. Count(c) \in Int /\ Count(c) > 0 /\ Count(c) < MaxSlot
      /\ 0..(Count(c) - 1) \subseteq Slot /\ Count(c) \in Slot
  BY <1>0, <1>1, ArrayType DEF ArrayInv, Count
<1>4. /\ Count(c)' = Count(c) + 1 /\ Members(c)' = Members(c) \cup {u}
      /\ \A i \in Slot : Slots(c)'[i] = IF i = Count(c) THEN u ELSE Slots(c)[i]
      /\ \A d \in Chan \ {c} : chan'[d] = chan[d] /\ Members(d)' = Members(d)
      /\ \A d \in Chan : chan'[d].channel_name = chan[d].channel_name
  <2>1. Count(c) >= 0
    BY <1>3
  <2> QED
    BY <1>0, <1>1, <1>3, <2>1, ArrayJoin DEF Count
<1> QED
  BY <1>0, <1>1, <1>2, <1>3, <1>4

\* JOIN of a listed channel by who is not in it yet.
LEMMA JoinMemberInv ==
  ASSUME TypeInv, TypeInv', QuitInv, ChannelInv,
         NEW u \in User, NEW n \in ChanName, JoinMember(u, n)
  PROVE  ChannelInv'
<1>0. TypeOK /\ TypeOK' /\ LocalsSet /\ ListInv /\ ArrayInv
      /\ \A v \in User : UserInv(v)
  BY ChannelInvParts DEF TypeInv
<1>1. PICK c \in linked :
           /\ c \in Chan /\ chan[c].channel_name = n /\ u \notin Members(c)
           /\ Count(c) \in Int /\ Count(c) > 0
           /\ 0..(Count(c) - 1) \subseteq Slot /\ Count(c) \in Slot
           /\ Count(c)' = Count(c) + 1 /\ Members(c)' = Members(c) \cup {u}
           /\ \A i \in Slot : Slots(c)'[i] = IF i = Count(c) THEN u ELSE Slots(c)[i]
           /\ \A d \in Chan \ {c} : chan'[d] = chan[d] /\ Members(d)' = Members(d)
           /\ \A d \in Chan : chan'[d].channel_name = chan[d].channel_name
  BY JoinEffect
<1>2. /\ pc[u] = "recv" /\ pc' = pc /\ loc' = loc /\ user' = user
      /\ lock = NULL /\ linked' = linked /\ hh_next' = hh_next /\ c \in Chan
  BY <1>1 DEF JoinMember, Dispatch, At
<1>3. ListFrame
  BY <1>0, <1>2 DEF ListFrame, TypeOK
<1>4. ListInv'
  BY <1>0, <1>1, <1>2, <1>3, ListShrinks
<1>5. ArrayInv'
  <2>1. ASSUME NEW d \in Chan, d # c
        PROVE  /\ d \in linked' <=> chan'[d].user_count > 0
               /\ \A i, j \in 0..(chan'[d].user_count - 1) :
                    chan'[d].channel_users[i] = chan'[d].channel_users[j] => i = j
    <3>1. chan'[d] = chan[d]
      BY <1>1, <2>1
    <3> QED
      BY <1>0, <1>2, <3>1 DEF ArrayInv
  <2>2. c \in linked' /\ Count(c)' > 0
    BY <1>2, <1>1
  <2>3. ASSUME NEW i \in 0..(Count(c)' - 1), NEW j \in 0..(Count(c)' - 1),
               Slots(c)'[i] = Slots(c)'[j]
        PROVE  i = j
    <3>1. \A k \in 0..(Count(c)' - 1) : k \in 0..(Count(c) - 1) \/ k = Count(c)
      BY <1>1
    <3>2. Slots(c)'[Count(c)] = u
      BY <1>1
    <3>3. \A k \in 0..(Count(c) - 1) :
            Slots(c)'[k] = Slots(c)[k] /\ Slots(c)[k] # u /\ k # Count(c)
      <4>1. \A k \in 0..(Count(c) - 1) : Slots(c)[k] \in Members(c)
        BY DEF Members, Slots, Count
      <4> QED
        BY <1>1, <4>1
    <3>4. \A k, l \in 0..(Count(c) - 1) : Slots(c)[k] = Slots(c)[l] => k = l
      BY <1>0, <1>2 DEF ArrayInv, Slots, Count
    <3> QED
      BY <2>3, <3>1, <3>2, <3>3, <3>4
  <2> QED
    BY <2>1, <2>2, <2>3 DEF ArrayInv, Count, Slots
<1>6. ASSUME NEW v \in User \ {u} PROVE UserInv(v)'
  <2>1. \A d \in Chan : v \in Members(d)' <=> v \in Members(d)
    BY <1>1
  <2>2. pc[v] # "quit_visit"
    BY <1>0, <1>2, NullApart DEF UserInv
  <2> QED
    BY <1>0, <1>2, <1>3, <2>1, <2>2, UserKept
<1>7. UserInv(u)'
  BY <1>2 DEF UserInv, HasQuit, QuitInv
<1> QED
  BY <1>4, <1>5, <1>6, <1>7
     DEF ChannelInv, QuitPath, QuitLeavesAll, ModeInv, UserInv

----------------------------------------------------------------------------
(* Without PART: every step *)

\* No thread is inside command_part.
NoParts ==
  \A u \in User : pc[u] \notin {"part_shift", "part_leave", "part_delete"}

\* A step that leaves the channels alone and is none of QUIT's or MODE's.
Quiet == channels' = channels /\ \A v \in User : Other(v)

\* The handlers of register.c before QUIT, and its last step.
LEMMA QuietRegister ==
  ASSUME TypeInv, QuitInv, ChannelInv, NEW u \in User,
         RegisterInput(u) \/ RegisterStep(u),
         ~QuitBegin(u), ~QuitPass(u), ~QuitLeave(u), ~QuitRelock(u), ~QuitEnd(u)
  PROVE  Quiet
<1>1. ASSUME NEW n \in Nick, NickLookup(u, n) PROVE Quiet
  BY <1>1 DEF NickLookup, Dispatch, At, Goto, Quiet, Other, HasQuit, TypeInv, TypeOK
<1>2. CASE NickCount(u)
  BY <1>2 DEF NickCount, At, Goto, Return, Quiet, Other, HasQuit, TypeInv, TypeOK, user_t
<1>3. CASE NickFindOld(u) \/ NickDelete(u)
  BY <1>3 DEF NickFindOld, NickDelete, At, Goto, Quiet, Other, HasQuit, TypeInv, TypeOK
<1>4. CASE NickAssign(u)
  BY <1>4 DEF NickAssign, At, Goto, Return, Quiet, Other, HasQuit, TypeInv, TypeOK, user_t
<1>5. CASE NickAdd(u)
  <2>1. CASE user[u].registered
    BY <1>5, <2>1 DEF NickAdd, At, Goto, Return, Quiet, Other, HasQuit, TypeInv, TypeOK
  <2>2. CASE ~user[u].registered
    BY <1>5, <2>2 DEF NickAdd, At, Goto, Quiet, Other, HasQuit, TypeInv, TypeOK, user_t
  <2> QED
    BY <2>1, <2>2
<1>6. CASE UserBegin(u)
  BY <1>6 DEF UserBegin, Dispatch, At, Goto, Quiet, Other, HasQuit, TypeInv, TypeOK, user_t
<1>7. CASE UserAdd(u) \/ UserVerify(u)
  BY <1>7 DEF UserAdd, UserVerify, At, Goto, Quiet, Other, HasQuit, TypeInv, TypeOK
<1>8. CASE UserWelcome(u)
  BY <1>8 DEF UserWelcome, At, Goto, Quiet, Other, HasQuit, TypeInv, TypeOK, user_t
<1>9. CASE QuitClose(u)
  BY <1>9 DEF QuitClose, At, Goto, Quiet, Other, HasQuit, TypeInv, TypeOK, user_t
<1> QED
  BY <1>1, <1>2, <1>3, <1>4, <1>5, <1>6, <1>7, <1>8, <1>9
     DEF RegisterInput, RegisterStep

\* The handlers of channel.c but JOIN and the lookup of MODE.
LEMMA QuietChannel ==
  ASSUME TypeInv, ChannelInv, NEW u \in User,
         \/ OperGrant(u) \/ ModeGrant(u)
         \/ \E n \in ChanName : \/ JoinAgain(u, n) \/ PartFind(u, n)
                                \/ ListMissing(u, n)
                                \/ \E t \in Nick : ModeFind(u, n, t)
  PROVE  Quiet
<1>1. CASE OperGrant(u)
  BY <1>1 DEF OperGrant, Quiet, Other, HasQuit, TypeInv, TypeOK, user_t
<1>2. CASE ModeGrant(u)
  BY <1>2 DEF ModeGrant, At, Goto, Return, Quiet, Other, HasQuit, TypeInv, TypeOK
<1>3. ASSUME NEW n \in ChanName, JoinAgain(u, n) PROVE Quiet
  BY <1>3, NullApart DEF JoinAgain, Dispatch, At, Quiet, Other, HasQuit, ChannelInv, QuitPath
<1>4. ASSUME NEW n \in ChanName, ListMissing(u, n) PROVE Quiet
  BY <1>4 DEF ListMissing, Quiet, Other, HasQuit
<1>5. ASSUME NEW n \in ChanName, PartFind(u, n) PROVE Quiet
  BY <1>5 DEF PartFind, Dispatch, At, Goto, Quiet, Other, HasQuit, TypeInv, TypeOK
<1>6. ASSUME NEW n \in ChanName, NEW t \in Nick, ModeFind(u, n, t) PROVE Quiet
  BY <1>6 DEF ModeFind, Dispatch, At, Goto, Quiet, Other, HasQuit, TypeInv, TypeOK
<1> QED
  BY <1>1, <1>2, <1>3, <1>4, <1>5, <1>6

\* All other steps.
LEMMA QuietRest ==
  ASSUME TypeInv, QuitInv, ChannelInv,
         \/ \E u \in User : \/ MessageInput(u) \/ MessageStep(u)
                            \/ Connection(u)
         \/ AcceptFail \/ UNCHANGED vars
  PROVE  Quiet
<1>1. ASSUME NEW u \in User, MessageInput(u) PROVE Quiet
  BY <1>1, NullApart DEF MessageInput, NoticeChannel, Quiet, Other, HasQuit, ChannelInv, QuitPath
<1>2. ASSUME NEW u \in User, MessageStep(u) PROVE Quiet
  BY <1>2 DEF MessageStep, Lusers, At, Goto, Return, Quiet, Other, HasQuit, TypeInv, TypeOK
<1>3. ASSUME NEW u \in User, Accept(u) PROVE Quiet
  BY <1>3 DEF Accept, At, Goto, Quiet, Other, HasQuit, TypeInv, TypeOK, user_t
<1>4. ASSUME NEW u \in User, Close(u) \/ ReadExited(u) PROVE Quiet
  BY <1>4 DEF Close, ReadExited, At, Goto, Quiet, Other, HasQuit, TypeInv, TypeOK
<1>6. ASSUME NEW u \in User, ThreadStart(u) \/ ThreadFail(u) \/ Exit(u)
      PROVE  Quiet
  BY <1>6 DEF ThreadStart, ThreadFail, Exit, At, Goto, Quiet, Other, HasQuit,
       TypeInv, TypeOK
<1>5. ASSUME AcceptFail \/ UNCHANGED vars PROVE Quiet
  BY <1>5 DEF AcceptFail, vars, channels, Quiet, Other, HasQuit
<1> QED
  BY <1>1, <1>2, <1>3, <1>4, <1>5, <1>6 DEF Connection

\* While nobody sends PART no thread gets into command_part.
LEMMA NoPartsStep ==
  ASSUME "PART" \notin Inputs, TypeInv, NoParts, [Next]_vars
  PROVE  NoParts'
<1>1. ASSUME NEW u \in User, RegisterInput(u) \/ RegisterStep(u)
      PROVE  NoParts'
  <2>1. CASE \E n \in Nick : NickLookup(u, n)
    BY <2>1 DEF NickLookup, Goto, NoParts, TypeInv, TypeOK
  <2>2. CASE NickCount(u) \/ NickFindOld(u) \/ NickDelete(u)
    BY <2>2 DEF NickCount, NickFindOld, NickDelete, Goto, Return, NoParts, TypeInv, TypeOK
  <2>3. CASE NickAssign(u) \/ NickAdd(u)
    BY <2>3 DEF NickAssign, NickAdd, Goto, Return, NoParts, TypeInv, TypeOK
  <2>4. CASE UserBegin(u) \/ UserAdd(u) \/ UserWelcome(u) \/ UserVerify(u)
    BY <2>4 DEF UserBegin, UserAdd, UserWelcome, UserVerify, Goto, NoParts, TypeInv, TypeOK
  <2>5. CASE QuitBegin(u) \/ QuitPass(u) \/ QuitLeave(u)
    BY <2>5 DEF QuitBegin, QuitPass, QuitLeave, Goto, NoParts, TypeInv, TypeOK
  <2>6. CASE QuitRelock(u) \/ QuitEnd(u) \/ QuitClose(u)
    BY <2>6 DEF QuitRelock, QuitEnd, QuitClose, Goto, NoParts, TypeInv, TypeOK
  <2> QED
    BY <1>1, <2>1, <2>2, <2>3, <2>4, <2>5, <2>6 DEF RegisterInput, RegisterStep
<1>2. ASSUME NEW u \in User, ChannelInput(u) \/ ChannelStep(u)
      PROVE  NoParts'
  <2>1. CASE \E n \in ChanName : JoinNew(u, n) \/ JoinMember(u, n)
               \/ JoinAgain(u, n) \/ ListMissing(u, n)
    BY <2>1 DEF JoinNew, JoinMember, JoinAgain, ListMissing, NoParts
  <2>2. CASE \E n \in ChanName : PartFind(u, n)
    BY <2>2 DEF PartFind, Dispatch
  <2>3. CASE \E n \in ChanName, t \in Nick : ModeFind(u, n, t)
    BY <2>3 DEF ModeFind, Goto, NoParts, TypeInv, TypeOK
  <2>4. CASE OperGrant(u) \/ ModeMember(u) \/ ModeGrant(u)
    BY <2>4 DEF OperGrant, ModeMember, ModeGrant, Goto, Return, NoParts, TypeInv, TypeOK
  <2>5. CASE PartShift(u) \/ PartLeave(u) \/ PartDelete(u)
    BY <2>5 DEF PartShift, PartLeave, PartDelete, At, NoParts
  <2> QED
    BY <1>2, <2>1, <2>2, <2>3, <2>4, <2>5 DEF ChannelInput, ChannelStep
<1>3. ASSUME NEW u \in User, \/ MessageInput(u) \/ MessageStep(u)
                             \/ Connection(u)
      PROVE  NoParts'
  BY <1>3 DEF MessageInput, MessageStep, NoticeChannel, Lusers, Connection,
       Accept, ThreadStart, ThreadFail, Exit, Close, ReadExited, Goto, Return,
       NoParts, TypeInv, TypeOK
<1>4. CASE AcceptFail \/ Stray \/ UNCHANGED vars
  BY <1>4 DEF AcceptFail, Stray, vars, NoParts
<1> QED
  BY <1>1, <1>2, <1>3, <1>4 DEF Next, Arrive, Continue

\* No channel was deleted twice.
Untorn == proc # "torn"

\* Without PART a channel is deleted only by QUIT, and on the list then.
LEMMA UntornStep ==
  ASSUME TypeInv, NoParts, ChannelInv, Untorn, [Next]_vars
  PROVE  Untorn'
<1>1. ASSUME NEW u \in User, RegisterInput(u) \/ RegisterStep(u)
      PROVE  Untorn'
  <2>1. CASE QuitLeave(u)
    <3>1. CASE chan[loc[u].here].user_count = 1
      <4>1. loc[u].here \in Chan /\ Unlink(loc[u].here)
        BY <2>1, <3>1 DEF QuitLeave, TypeInv, TypeOK, Locals
      <4>2. loc[u].here \in linked
        BY <3>1, <4>1 DEF ChannelInv, ArrayInv
      <4> QED
        BY <4>1, <4>2 DEF Unlink, Untorn
    <3>2. CASE chan[loc[u].here].user_count # 1
      BY <2>1, <3>2 DEF QuitLeave, Untorn
    <3> QED
      BY <3>1, <3>2
  <2>2. CASE NickDelete(u) \/ UserVerify(u)
    BY <2>2 DEF NickDelete, HashDelete, Harmed, UserVerify, Untorn
  <2>3. CASE ~(QuitLeave(u) \/ NickDelete(u) \/ UserVerify(u))
    BY <1>1, <2>3 DEF RegisterInput, RegisterStep, NickLookup, NickCount,
         NickFindOld, NickAssign, NickAdd, UserBegin, UserAdd, UserWelcome,
         QuitBegin, QuitPass, QuitRelock, QuitEnd, QuitClose, Untorn
  <2> QED
    BY <2>1, <2>2, <2>3
<1>2. ASSUME NEW u \in User, ChannelInput(u) \/ ChannelStep(u)
      PROVE  Untorn'
  <2>1. CASE \E n \in ChanName : JoinMember(u, n)
    BY <2>1 DEF JoinMember, Harmed, Untorn
  <2>2. CASE PartShift(u) \/ PartLeave(u) \/ PartDelete(u)
    BY <2>2 DEF PartShift, PartLeave, PartDelete, At, NoParts
  <2>3. CASE ~\E n \in ChanName : JoinMember(u, n)
    BY <1>2, <2>2, <2>3 DEF ChannelInput, ChannelStep, JoinNew, JoinAgain,
         ListMissing, OperGrant, ModeFind, ModeMember, ModeGrant, PartFind, Untorn
  <2> QED
    BY <2>1, <2>3
<1>3. ASSUME NEW u \in User, \/ MessageInput(u) \/ MessageStep(u)
                             \/ Connection(u)
      PROVE  Untorn'
  BY <1>3 DEF MessageInput, MessageStep, NoticeChannel, Lusers, Connection,
       Accept, ThreadStart, ThreadFail, Exit, Close, ReadExited, Untorn
<1>4. CASE AcceptFail \/ Stray \/ UNCHANGED vars
  BY <1>4 DEF AcceptFail, Stray, vars, Untorn
<1> QED
  BY <1>1, <1>2, <1>3, <1>4 DEF Next, Arrive, Continue

\* Every step keeps what is true of the channels without PART.
LEMMA ChannelNext ==
  ASSUME TypeInv, QuitInv, NoParts, ChannelInv, Untorn, [Next]_vars
  PROVE  ChannelInv'
<1>0. TypeInv'
  BY TypeNext
<1>1. Quiet => ChannelInv'
  BY StillKept DEF Quiet
<1>2. ASSUME NEW u \in User, RegisterInput(u) \/ RegisterStep(u)
      PROVE  ChannelInv'
  <2>1. CASE QuitPass(u) \/ QuitRelock(u)
    BY <2>1, QuitAdvanceInv
  <2>2. CASE QuitBegin(u) \/ QuitLeave(u) \/ QuitEnd(u)
    BY <1>0, <2>2, QuitBeginInv, QuitLeaveInv, QuitEndInv
  <2> QED
    BY <1>1, <1>2, <2>1, <2>2, QuietRegister
<1>3. ASSUME NEW u \in User, ChannelInput(u) \/ ChannelStep(u)
      PROVE  ChannelInv'
  <2>1. CASE \E n \in ChanName : JoinNew(u, n) \/ JoinMember(u, n)
    BY <1>0, <2>1, JoinNewInv, JoinMemberInv
  <2>2. CASE ModeMember(u)
    BY <2>2, ModeMemberInv
  <2>3. CASE PartShift(u) \/ PartLeave(u) \/ PartDelete(u)
    BY <2>3 DEF PartShift, PartLeave, PartDelete, At, NoParts
  <2> QED
    BY <1>1, <1>3, <2>1, <2>2, <2>3, QuietChannel DEF ChannelInput, ChannelStep
<1>4. CASE \/ \E u \in User : \/ MessageInput(u) \/ MessageStep(u)
                              \/ Connection(u)
           \/ AcceptFail \/ UNCHANGED vars
  BY <1>1, <1>4, QuietRest
<1>5. ~Stray
  BY DEF Stray, Untorn
<1> QED
  BY <1>2, <1>3, <1>4, <1>5 DEF Next, Arrive, Continue

\* There are no channels at first.
LEMMA ChannelInit == Init => NoParts /\ ChannelInv /\ Untorn
<1> SUFFICES ASSUME Init PROVE NoParts /\ ChannelInv /\ Untorn
  OBVIOUS
<1>1. linked = {} /\ \A u \in User : pc[u] = "unborn"
  BY DEF Init
<1>2. \A c \in Chan : /\ chan[c].channel_name = NULL /\ chan[c].user_count = 0
                      /\ hh_next[c] = NoChan
  BY DEF Init, NoChannel
<1>3. ListInv
  BY <1>1, <1>2 DEF ListInv, Made
<1>4. ArrayInv
  BY <1>1, <1>2 DEF ArrayInv
<1> QED
  BY <1>1, <1>3, <1>4
     DEF Init, ChannelInv, QuitPath, QuitLeavesAll, ModeInv, HasQuit, NoParts,
         Untorn

\* While nobody sends PART, ChannelInv is an invariant.
LEMMA ChannelAlways ==
  ASSUME "PART" \notin Inputs
  PROVE  Spec => []ChannelInv
<1>1. TypeInv /\ QuitInv /\ NoParts /\ ChannelInv /\ Untorn /\ [Next]_vars
        => NoParts' /\ ChannelInv' /\ Untorn'
  BY NoPartsStep, ChannelNext, UntornStep
<1> QED
  BY <1>1, ChannelInit, TypeInit, TypeNext, QuitAlways, PTL DEF Spec

\* QUIT leaves every channel, although others join, quit and remove channels
\* whenever it lets go of the lock.
THEOREM QuitLeaves ==
  ASSUME "PART" \notin Inputs
  PROVE  Spec => []QuitLeavesAll
<1>1. ChannelInv => QuitLeavesAll
  BY DEF ChannelInv
<1> QED
  BY <1>1, ChannelAlways, PTL

\* As many different members as the channel counts: the slots number them.
LEMMA CountsMembers ==
  ASSUME TypeOK, ChannelInv, NEW c \in linked
  PROVE  Count(c) > 0 /\ Count(c) = Cardinality(Members(c))
<1> DEFINE n == Count(c)
           f == [i \in 1..n |-> Slots(c)[i - 1]]
<1>1. c \in Chan /\ n > 0 /\ n \in Nat
  BY ArrayType DEF TypeOK, ChannelInv, ArrayInv, Count
<1>2. Members(c) = {Slots(c)[i] : i \in 0..(n - 1)}
  BY <1>1, ArrayType
<1>3. \A i, j \in 0..(n - 1) : Slots(c)[i] = Slots(c)[j] => i = j
  BY <1>1 DEF ChannelInv, ArrayInv, Count, Slots
<1> HIDE DEF n
<1>4. \A i \in 1..n : i - 1 \in 0..(n - 1) /\ f[i] = Slots(c)[i - 1]
  BY <1>1
<1>5. f \in Bijection(1..n, Members(c))
  <2>1. f \in [1..n -> Members(c)]
    BY <1>2, <1>4
  <2>2. \A i, j \in 1..n : f[i] = f[j] => i = j
    BY <1>1, <1>3, <1>4
  <2>3. ASSUME NEW v \in Members(c) PROVE \E i \in 1..n : f[i] = v
    <3>1. PICK k \in 0..(n - 1) : v = Slots(c)[k]
      BY <1>2
    <3>2. k + 1 \in 1..n /\ (k + 1) - 1 = k
      BY <1>1, <3>1
    <3> QED
      BY <1>4, <3>1, <3>2
  <2> QED
    BY <2>1, <2>2, <2>3 DEF Bijection, Injection, Surjection, IsInjective
<1>6. Cardinality(Members(c)) = n
  BY <1>1, <1>5, FS_CountingElements DEF ExistsBijection
<1> QED
  BY <1>1, <1>6 DEF n

\* A listed channel has a member and counts each of them once: user_count and
\* the array always change together.
THEOREM CountsAreMembers ==
  ASSUME "PART" \notin Inputs
  PROVE  Spec => []CountIsMembers
<1>1. TypeInv /\ ChannelInv => CountIsMembers
  BY CountsMembers DEF CountIsMembers, Count, TypeInv
<1> QED
  BY <1>1, ChannelAlways, TypeInit, TypeNext, PTL DEF Spec

\* A thread leaves the last section of MODE by that section.
LEMMA ModeGrants ==
  ASSUME TypeInv, [Next]_vars, NEW u \in User, Finishes(u, "mode_grant")
  PROVE  ModeGrant(u)
<1>0. pc[u] = "mode_grant" /\ pc'[u] # pc[u] /\ pc \in [User -> Label]
  BY DEF Finishes, TypeInv, TypeOK
<1>1. ASSUME NEW v \in User, RegisterInput(v) \/ RegisterStep(v)
      PROVE  FALSE
  <2>1. CASE \/ \E n \in Nick : NickLookup(v, n)
             \/ NickCount(v) \/ NickFindOld(v) \/ NickDelete(v)
             \/ NickAssign(v) \/ NickAdd(v)
    BY <1>0, <2>1 DEF NickLookup, NickCount, NickFindOld, NickDelete,
         NickAssign, NickAdd, Dispatch, At, Goto, Return
  <2>2. CASE UserBegin(v) \/ UserAdd(v) \/ UserWelcome(v) \/ UserVerify(v)
    BY <1>0, <2>2 DEF UserBegin, UserAdd, UserWelcome, UserVerify, Dispatch,
         At, Goto
  <2>3. CASE \/ QuitBegin(v) \/ QuitPass(v) \/ QuitLeave(v)
             \/ QuitRelock(v) \/ QuitEnd(v) \/ QuitClose(v)
    BY <1>0, <2>3 DEF QuitBegin, QuitPass, QuitLeave, QuitRelock, QuitEnd,
         QuitClose, Dispatch, At, Goto
  <2> QED
    BY <1>1, <2>1, <2>2, <2>3 DEF RegisterInput, RegisterStep
<1>2. ASSUME NEW v \in User, ChannelInput(v) \/ ChannelStep(v)
      PROVE  v = u /\ ModeGrant(v)
  <2>1. CASE \/ OperGrant(v)
             \/ \E n \in ChanName :
                  \/ JoinNew(v, n) \/ JoinMember(v, n) \/ JoinAgain(v, n)
                  \/ PartFind(v, n) \/ ListMissing(v, n)
                  \/ \E t \in Nick : ModeFind(v, n, t)
    BY <1>0, <2>1 DEF OperGrant, JoinNew, JoinMember, JoinAgain, PartFind,
         ListMissing, ModeFind, Dispatch, At, Goto
  <2>2. CASE \/ ModeMember(v) \/ PartShift(v) \/ PartLeave(v)
             \/ PartDelete(v)
    BY <1>0, <2>2 DEF ModeMember, PartShift, PartLeave, PartDelete, At, Goto,
         Return
  <2>3. CASE ModeGrant(v)
    BY <1>0, <2>3 DEF ModeGrant, At, Goto, Return
  <2> QED
    BY <1>2, <2>1, <2>2, <2>3 DEF ChannelInput, ChannelStep
<1>3. ASSUME NEW v \in User, \/ MessageInput(v) \/ MessageStep(v)
                             \/ Connection(v)
      PROVE  FALSE
  BY <1>0, <1>3 DEF MessageInput, MessageStep, NoticeChannel, Lusers,
       Connection, Accept, ThreadStart, ThreadFail, Exit, Close, ReadExited,
       Dispatch, At, Goto, Return
<1>4. CASE AcceptFail \/ Stray \/ UNCHANGED vars
  BY <1>0, <1>4 DEF AcceptFail, Stray, vars
<1> QED
  BY <1>1, <1>2, <1>3, <1>4 DEF Next, Arrive, Continue

\* Who sets a mode is a member when it is set, although MODE looked that up
\* in a section before and QUITs of others shift the array in between.
THEOREM ModesByMembers ==
  ASSUME "PART" \notin Inputs
  PROVE  Spec => ModeByMember
<1>1. ASSUME TypeInv, ChannelInv, [Next]_vars
      PROVE  [\A u \in User : \A p \in announced' :
                Finishes(u, "mode_grant") => u \in Members(p[1])]_vars
  <2> SUFFICES ASSUME NEW u \in User, NEW p \in announced',
                      Finishes(u, "mode_grant")
               PROVE  u \in Members(p[1])
    OBVIOUS
  <2>1. ModeGrant(u)
    BY <1>1, ModeGrants
  <2>2. p = <<loc[u].here, loc[u].nick>>
    BY <2>1 DEF ModeGrant
  <2>3. u \in Members(loc[u].here)
    BY <1>1, <2>1 DEF ModeGrant, At, ChannelInv, ModeInv
  <2> QED
    BY <2>2, <2>3
<1> QED
  BY <1>1, ChannelAlways, TypeInit, TypeNext, PTL DEF Spec, ModeByMember

----------------------------------------------------------------------------
(* Without PART: the abstract specification *)

\* What the mapping of ServerProperties makes of a state.
Stages == [u \in User |-> Stage(u)]
Pairs == {p \in User \X ChanName : \E c \in HashFind(p[2]) : p[1] \in Members(c)}

\* The invariants a step of the server is taken under.
ServerInv ==
  /\ TypeInv /\ TableInv /\ QuitInv /\ ListedOnce
  /\ NoParts /\ ChannelInv /\ Untorn

\* A step that changes nobody's stage.
StageFrame ==
  \A v \in User :
    /\ HasQuit(v)' <=> HasQuit(v)
    /\ pc'[v] \in {"quit_visit", "quit_relay"} <=> pc[v] \in {"quit_visit", "quit_relay"}
    /\ user'[v].registered = user[v].registered

LEMMA StagesKept ==
  ASSUME StageFrame
  PROVE  Stages' = Stages
<1>1. \A v \in User : Stage(v)' = Stage(v)
  BY DEF StageFrame, Stage
<1> QED
  BY <1>1 DEF Stages

\* A step that moves one connection from a stage to another.
LEMMA StageMoves ==
  ASSUME NEW u \in User, \A v \in User \ {u} : Stage(v)' = Stage(v)
  PROVE  Stages' = [Stages EXCEPT ![u] = Stage(u)'] /\ Stages[u] = Stage(u)
BY DEF Stages

\* A step that leaves the channels alone changes nobody's membership.
LEMMA PairsKept ==
  ASSUME channels' = channels
  PROVE  Pairs' = Pairs
BY DEF channels, Pairs, HashFind, Members

\* What the mapping makes of a step that changes neither.
LEMMA Stutters ==
  ASSUME Stages' = Stages, Pairs' = Pairs
  PROVE  UNCHANGED Abstract!mvars
BY DEF Abstract!mvars, Stages, Pairs

\* A registration.
LEMMA EnterSteps ==
  ASSUME ServerInv, NEW u \in User,
         (NickAdd(u) /\ ~user[u].registered) \/ UserWelcome(u)
  PROVE  Abstract!Enter(u)
<1>1. /\ pc[u] \in {"nick_add", "user_welcome"} /\ ~user[u].registered
      /\ channels' = channels /\ user' = [user EXCEPT ![u].registered = TRUE]
      /\ \E l \in {"lusers", "user_verify"} : pc' = [pc EXCEPT ![u] = l]
  BY DEF NickAdd, UserWelcome, At, Goto, ServerInv, TableInv
<1>2. /\ user'[u].registered /\ user'[u].individual_lock = user[u].individual_lock
      /\ pc'[u] \in {"lusers", "user_verify"}
      /\ \A v \in User \ {u} : user'[v] = user[v] /\ pc'[v] = pc[v]
  BY <1>1 DEF ServerInv, TypeInv, TypeOK, user_t
<1>3. user[u].individual_lock
  BY <1>1 DEF ServerInv, QuitInv
<1>4. Stage(u) = "out" /\ Stage(u)' = "in"
  BY <1>1, <1>2, <1>3 DEF Stage, HasQuit
<1>5. \A v \in User \ {u} : Stage(v)' = Stage(v)
  BY <1>2 DEF Stage, HasQuit
<1>6. Stages[u] = "out" /\ Stages' = [Stages EXCEPT ![u] = "in"]
  BY <1>4, <1>5, StageMoves
<1> QED
  BY <1>1, <1>6, PairsKept DEF Abstract!Enter, Abstract!Move, Stages, Pairs

\* The beginning of a QUIT.
LEMMA QuitSteps ==
  ASSUME ServerInv, NEW u \in User, QuitBegin(u)
  PROVE  Abstract!Quit(u)
<1>1. /\ pc[u] = "recv" /\ user[u].registered
      /\ channels' = channels /\ user' = user /\ pc' = [pc EXCEPT ![u] = "quit_visit"]
  BY DEF QuitBegin, Dispatch, At, Goto
<1>2. pc'[u] = "quit_visit" /\ \A v \in User \ {u} : pc'[v] = pc[v]
  BY <1>1 DEF ServerInv, TypeInv, TypeOK
<1>3. user[u].individual_lock
  BY <1>1 DEF ServerInv, QuitInv
<1>4. Stage(u) = "in" /\ Stage(u)' = "leaving"
  BY <1>1, <1>2, <1>3 DEF Stage, HasQuit
<1>5. \A v \in User \ {u} : Stage(v)' = Stage(v)
  BY <1>1, <1>2 DEF Stage, HasQuit
<1>6. Stages[u] = "in" /\ Stages' = [Stages EXCEPT ![u] = "leaving"]
  BY <1>4, <1>5, StageMoves
<1> QED
  BY <1>1, <1>6, PairsKept DEF Abstract!Quit, Abstract!Move, Stages, Pairs

\* The end of its walk, with its user in no channel.
LEMMA GoneSteps ==
  ASSUME ServerInv, ChannelInv', NEW u \in User, QuitEnd(u)
  PROVE  Abstract!Gone(u)
<1>1. /\ pc[u] = "quit_visit" /\ channels' = channels /\ user' = user
      /\ pc' = [pc EXCEPT ![u] = "quit_close"]
  BY DEF QuitEnd, At, Goto
<1>2. pc'[u] = "quit_close" /\ \A v \in User \ {u} : pc'[v] = pc[v]
  BY <1>1 DEF ServerInv, TypeInv, TypeOK
<1>3. user[u].individual_lock
  BY <1>1 DEF ServerInv, QuitInv
<1>4. Stage(u) = "leaving" /\ Stage(u)' = "gone"
  BY <1>1, <1>2, <1>3 DEF Stage, HasQuit
<1>5. \A v \in User \ {u} : Stage(v)' = Stage(v)
  BY <1>1, <1>2 DEF Stage, HasQuit
<1>6. Stages[u] = "leaving" /\ Stages' = [Stages EXCEPT ![u] = "gone"]
  BY <1>4, <1>5, StageMoves
<1>7. ASSUME NEW n \in ChanName PROVE <<u, n>> \notin Pairs
  <2>1. \A c \in linked : u \notin Members(c)
    <3>1. \A c \in linked' : u \notin Members(c)'
      BY <1>2 DEF ChannelInv, QuitLeavesAll, HasQuit
    <3> QED
      BY <1>1, <3>1 DEF channels, Members
  <2> QED
    BY <2>1 DEF Pairs, HashFind
<1> QED
  BY <1>1, <1>6, <1>7, PairsKept DEF Abstract!Gone, Abstract!Move, Stages, Pairs

\* Who is in a channel of a name.
LEMMA PairsIs ==
  ASSUME NEW v \in User, NEW m \in ChanName
  PROVE  <<v, m>> \in Pairs
           <=> \E d \in linked : chan[d].channel_name = m /\ v \in Members(d)
BY DEF Pairs, HashFind

\* Leaving one channel.
LEMMA DropSteps ==
  ASSUME ServerInv, TypeInv', ChannelInv', NEW u \in User, QuitLeave(u)
  PROVE  \E n \in ChanName : Abstract!Drop(u, n)
<1>0. TypeInv /\ ChannelInv /\ TypeOK' /\ ArrayInv' /\ linked \subseteq Chan
      /\ \A d, e \in linked : chan[d].channel_name = chan[e].channel_name => d = e
  BY DEF ServerInv, TypeInv, TypeOK, ChannelInv, ListedOnce, Untorn, QuitLeave, At
<1>1. PICK c \in linked :
        /\ c = loc[u].here /\ c \in Chan /\ u \in Members(c)
        /\ Members(c)' = Members(c) \ {u} /\ Count(c)' = Count(c) - 1
        /\ Count(c) \in Int
        /\ \A d \in Chan \ {c} : Members(d)' = Members(d)
        /\ \A d \in Chan : chan'[d].channel_name = chan[d].channel_name
  BY <1>0, LeaveEffect
<1>2. PICK n \in ChanName : n = chan[c].channel_name
  BY <1>0, <1>1 DEF TypeInv, TypeOK, channel_t, ChannelInv, ListInv, Made
<1>3. /\ linked' \subseteq linked /\ \A d \in linked \ {c} : d \in linked'
      /\ Members(c)' # {} => c \in linked'
  <2>1. CASE Count(c) = 1
    <3>1. Unlink(c)
      BY <1>1, <2>1 DEF QuitLeave, Count
    <3>2. Members(c)' = {}
      BY <1>1, <2>1 DEF Members, Count
    <3> QED
      BY <1>1, <3>1, <3>2 DEF Unlink
  <2>2. CASE Count(c) # 1
    BY <1>1, <2>2 DEF QuitLeave, Count
  <2> QED
    BY <2>1, <2>2
<1>4. \A v \in User, m \in ChanName :
        <<v, m>> \in Pairs' <=> \E d \in linked' : chan'[d].channel_name = m /\ v \in Members(d)'
  BY DEF Pairs, HashFind
<1>5. ASSUME NEW v \in User, NEW m \in ChanName
      PROVE  <<v, m>> \in Pairs' <=> <<v, m>> \in Pairs /\ <<v, m>> # <<u, n>>
  <2>1. ASSUME <<v, m>> \in Pairs'
        PROVE  <<v, m>> \in Pairs /\ <<v, m>> # <<u, n>>
    <3>1. PICK d \in linked' : chan'[d].channel_name = m /\ v \in Members(d)'
      BY <1>4, <2>1
    <3>2. d \in linked /\ d \in Chan /\ chan[d].channel_name = m /\ v \in Members(d)
      BY <1>0, <1>1, <1>3, <3>1
    <3>3. ~(v = u /\ m = n)
      <4>1. d = c => v # u
        BY <1>1, <3>1
      <4>2. m = n => d = c
        BY <1>0, <1>1, <1>2, <3>2
      <4> QED
        BY <4>1, <4>2
    <3> QED
      BY <3>2, <3>3, PairsIs
  <2>2. ASSUME <<v, m>> \in Pairs, <<v, m>> # <<u, n>>
        PROVE  <<v, m>> \in Pairs'
    <3>1. PICK d \in linked : chan[d].channel_name = m /\ v \in Members(d)
      BY <2>2, PairsIs
    <3>2. d = c => v # u
      BY <1>2, <2>2, <3>1
    <3>3. d \in Chan /\ v \in Members(d)' /\ chan'[d].channel_name = m
      BY <1>0, <1>1, <3>1, <3>2
    <3>4. d \in linked'
      BY <1>3, <3>1, <3>3
    <3> QED
      BY <1>4, <3>3, <3>4
  <2> QED
    BY <2>1, <2>2
<1>6. Pairs' = Pairs \ {<<u, n>>}
  <2>1. Pairs \subseteq User \X ChanName /\ Pairs' \subseteq User \X ChanName
    BY DEF Pairs
  <2>2. \A p \in User \X ChanName : p \in Pairs' <=> p \in Pairs /\ p # <<u, n>>
    BY <1>5
  <2> QED
    BY <2>1, <2>2
<1>7. /\ pc[u] = "quit_visit" /\ user' = user
      /\ pc'[u] \in {"quit_visit", "quit_relay"}
      /\ \A v \in User \ {u} : pc'[v] = pc[v]
  BY <1>0 DEF QuitLeave, At, Goto, TypeInv, TypeOK
<1>8. user[u].individual_lock
  BY <1>7 DEF ServerInv, QuitInv
<1>9. Stages' = Stages
  BY <1>7, StagesKept DEF StageFrame, HasQuit
<1>10. Stages[u] = "leaving"
  BY <1>7, <1>8 DEF Stages, Stage, HasQuit
<1> QED
  BY <1>6, <1>9, <1>10 DEF Abstract!Drop, Stages, Pairs

\* Joining a channel, found or created.
LEMMA JoinSteps ==
  ASSUME ServerInv, TypeInv', NEW u \in User, NEW n \in ChanName,
         JoinNew(u, n) \/ JoinMember(u, n)
  PROVE  Abstract!Join(u, n)
<1>0. TypeInv /\ TypeOK /\ ChannelInv /\ ListInv /\ linked \subseteq Chan
  BY DEF ServerInv, TypeInv, TypeOK, ChannelInv
<1>1. PICK c \in Chan :
        /\ chan'[c].channel_name = n /\ linked' = linked \cup {c}
        /\ Members(c)' = (IF c \in linked THEN Members(c) ELSE {}) \cup {u}
        /\ c \in linked => chan[c].channel_name = n
        /\ \A d \in Chan \ {c} : chan'[d] = chan[d] /\ Members(d)' = Members(d)
  <2>1. CASE JoinNew(u, n)
    BY <1>0, <2>1, ListGrows
  <2>2. CASE JoinMember(u, n)
    <3>1. linked' = linked
      BY <2>2 DEF JoinMember
    <3> QED
      BY <1>0, <2>2, <3>1, JoinEffect
  <2> QED
    BY <2>1, <2>2
<1>2. \A v \in User, m \in ChanName :
        <<v, m>> \in Pairs' <=> \E d \in linked' : chan'[d].channel_name = m /\ v \in Members(d)'
  BY DEF Pairs, HashFind
<1>3. ASSUME NEW v \in User, NEW m \in ChanName
      PROVE  <<v, m>> \in Pairs' <=> <<v, m>> \in Pairs \/ <<v, m>> = <<u, n>>
  <2>1. ASSUME NEW d \in linked', chan'[d].channel_name = m, v \in Members(d)'
        PROVE  <<v, m>> \in Pairs \/ <<v, m>> = <<u, n>>
    <3>1. CASE d = c
      BY <1>1, <2>1, <3>1, PairsIs
    <3>2. CASE d # c
      BY <1>0, <1>1, <2>1, <3>2, PairsIs
    <3> QED
      BY <3>1, <3>2
  <2>2. ASSUME NEW d \in linked, chan[d].channel_name = m, v \in Members(d)
        PROVE  <<v, m>> \in Pairs'
    <3>1. CASE d = c
      BY <1>1, <1>2, <2>2, <3>1
    <3>2. CASE d # c
      BY <1>0, <1>1, <1>2, <2>2, <3>2
    <3> QED
      BY <3>1, <3>2
  <2>3. <<u, n>> \in Pairs'
    BY <1>1, <1>2
  <2> QED
    BY <1>2, <2>1, <2>2, <2>3, PairsIs
<1>4. Pairs' = Pairs \cup {<<u, n>>}
  <2>1. Pairs \subseteq User \X ChanName /\ Pairs' \subseteq User \X ChanName
    BY DEF Pairs
  <2>2. \A p \in User \X ChanName : p \in Pairs' <=> p \in Pairs \/ p = <<u, n>>
    BY <1>3
  <2>3. <<u, n>> \in User \X ChanName
    OBVIOUS
  <2> QED
    BY <2>1, <2>2, <2>3
<1>5. pc[u] = "recv" /\ user[u].registered /\ pc' = pc /\ user' = user
  BY DEF JoinNew, JoinMember, Dispatch, At
<1>6. user[u].individual_lock
  BY <1>5 DEF ServerInv, QuitInv
<1>7. Stages' = Stages
  BY <1>5, StagesKept DEF StageFrame, HasQuit
<1>8. Stages[u] = "in"
  BY <1>5, <1>6 DEF Stages, Stage, HasQuit
<1> QED
  BY <1>4, <1>7, <1>8 DEF Abstract!Join, Stages, Pairs

\* The other steps of register.c are no event for Membership.
LEMMA StillRegister ==
  ASSUME ServerInv, NEW u \in User, RegisterInput(u) \/ RegisterStep(u),
         ~(NickAdd(u) /\ ~user[u].registered), ~UserWelcome(u),
         ~QuitBegin(u), ~QuitLeave(u), ~QuitEnd(u)
  PROVE  StageFrame /\ channels' = channels
<1>0. TypeOK /\ QuitInv
  BY DEF ServerInv, TypeInv
<1>1. ASSUME NEW n \in Nick, NickLookup(u, n) PROVE StageFrame
  BY <1>0, <1>1 DEF NickLookup, Dispatch, At, Goto, StageFrame, HasQuit, TypeOK
<1>2. CASE NickCount(u)
  BY <1>0, <1>2 DEF NickCount, At, Goto, Return, StageFrame, HasQuit, TypeOK, user_t
<1>3. CASE NickFindOld(u) \/ NickDelete(u)
  BY <1>0, <1>3 DEF NickFindOld, NickDelete, At, Goto, StageFrame, HasQuit, TypeOK
<1>4. CASE NickAssign(u)
  BY <1>0, <1>4 DEF NickAssign, At, Goto, Return, StageFrame, HasQuit, TypeOK, user_t
<1>5. CASE NickAdd(u)
  BY <1>0, <1>5 DEF NickAdd, At, Goto, Return, StageFrame, HasQuit, TypeOK
<1>6. CASE UserBegin(u)
  BY <1>0, <1>6 DEF UserBegin, Dispatch, At, Goto, StageFrame, HasQuit, TypeOK, user_t
<1>7. CASE UserAdd(u) \/ UserVerify(u)
  BY <1>0, <1>7 DEF UserAdd, UserVerify, At, Goto, StageFrame, HasQuit, TypeOK
<1>8. CASE QuitPass(u) \/ QuitRelock(u)
  BY <1>0, <1>8 DEF QuitPass, QuitRelock, At, Goto, StageFrame, HasQuit, TypeOK
<1>9. CASE QuitClose(u)
  BY <1>0, <1>9 DEF QuitClose, At, Goto, StageFrame, HasQuit, TypeOK, user_t
<1>10. StageFrame
  BY <1>1, <1>2, <1>3, <1>4, <1>5, <1>6, <1>7, <1>8, <1>9
     DEF RegisterInput, RegisterStep
<1>11. channels' = channels
  BY DEF RegisterInput, RegisterStep, NickLookup, NickCount, NickFindOld,
       NickDelete, NickAssign, NickAdd, UserBegin, UserAdd, UserVerify,
       QuitPass, QuitRelock, QuitClose
<1> QED
  BY <1>10, <1>11

\* Nor are those of channel.c but JOIN.
LEMMA StillChannel ==
  ASSUME ServerInv, NEW u \in User, ChannelInput(u) \/ ChannelStep(u),
         ~\E n \in ChanName : JoinNew(u, n) \/ JoinMember(u, n)
  PROVE  StageFrame /\ channels' = channels
<1>0. TypeOK /\ NoParts
  BY DEF ServerInv, TypeInv
<1>1. CASE OperGrant(u)
  BY <1>0, <1>1 DEF OperGrant, StageFrame, HasQuit, TypeOK, user_t
<1>2. CASE ModeMember(u) \/ ModeGrant(u)
  BY <1>0, <1>2 DEF ModeMember, ModeGrant, At, Goto, Return, StageFrame, HasQuit, TypeOK
<1>3. CASE \E n \in ChanName : JoinAgain(u, n) \/ ListMissing(u, n)
  BY <1>3 DEF JoinAgain, ListMissing, StageFrame, HasQuit
<1>4. CASE \E n \in ChanName : PartFind(u, n)
  BY <1>0, <1>4 DEF PartFind, Dispatch, At, Goto, StageFrame, HasQuit, TypeOK
<1>5. CASE \E n \in ChanName, t \in Nick : ModeFind(u, n, t)
  BY <1>0, <1>5 DEF ModeFind, Dispatch, At, Goto, StageFrame, HasQuit, TypeOK
<1>6. CASE PartShift(u) \/ PartLeave(u) \/ PartDelete(u)
  BY <1>0, <1>6 DEF PartShift, PartLeave, PartDelete, At, NoParts
<1> QED
  BY <1>1, <1>2, <1>3, <1>4, <1>5, <1>6 DEF ChannelInput, ChannelStep

\* Nor is what else a thread or the accept loop does.
LEMMA StillRest ==
  ASSUME ServerInv,
         \/ \E u \in User : \/ MessageInput(u) \/ MessageStep(u)
                            \/ Connection(u)
         \/ AcceptFail \/ Stray \/ UNCHANGED vars
  PROVE  StageFrame /\ channels' = channels
<1>0. TypeOK
  BY DEF ServerInv, TypeInv
<1>1. ASSUME NEW u \in User, MessageInput(u) \/ MessageStep(u)
      PROVE  StageFrame /\ channels' = channels
  BY <1>0, <1>1 DEF MessageInput, MessageStep, NoticeChannel, Lusers, At, Goto,
       Return, StageFrame, HasQuit, TypeOK
<1>2. ASSUME NEW u \in User, Accept(u)
      PROVE  StageFrame /\ channels' = channels
  BY <1>0, <1>2 DEF Accept, At, Goto, StageFrame, HasQuit, TypeOK, user_t
<1>3. ASSUME NEW u \in User, Close(u) \/ ReadExited(u)
      PROVE  StageFrame /\ channels' = channels
  BY <1>0, <1>3 DEF Close, ReadExited, At, Goto, StageFrame, HasQuit, TypeOK
<1>5. ASSUME NEW u \in User, ThreadStart(u) \/ ThreadFail(u) \/ Exit(u)
      PROVE  StageFrame /\ channels' = channels
  BY <1>0, <1>5 DEF ThreadStart, ThreadFail, Exit, At, Goto, StageFrame,
       HasQuit, TypeOK
<1>4. ASSUME AcceptFail \/ UNCHANGED vars
      PROVE  StageFrame /\ channels' = channels
  BY <1>4 DEF AcceptFail, vars, channels, StageFrame, HasQuit
<1>6. ~Stray
  BY DEF Stray, ServerInv, Untorn
<1> QED
  BY <1>1, <1>2, <1>3, <1>4, <1>5, <1>6 DEF Connection

\* Every step of the server is a step of Membership or none.
LEMMA MembershipStep ==
  ASSUME ServerInv, TypeInv', ChannelInv', [Next]_vars
  PROVE  [Abstract!MNext]_(Abstract!mvars)
<1>1. StageFrame /\ channels' = channels => UNCHANGED Abstract!mvars
  BY StagesKept, PairsKept, Stutters
<1>2. ASSUME NEW u \in User, RegisterInput(u) \/ RegisterStep(u)
      PROVE  [Abstract!MNext]_(Abstract!mvars)
  <2>1. CASE (NickAdd(u) /\ ~user[u].registered) \/ UserWelcome(u)
    BY <2>1, EnterSteps DEF Abstract!MNext
  <2>2. CASE QuitBegin(u)
    BY <2>2, QuitSteps DEF Abstract!MNext
  <2>3. CASE QuitLeave(u)
    BY <2>3, DropSteps DEF Abstract!MNext
  <2>4. CASE QuitEnd(u)
    BY <2>4, GoneSteps DEF Abstract!MNext
  <2> QED
    BY <1>1, <1>2, <2>1, <2>2, <2>3, <2>4, StillRegister
<1>3. ASSUME NEW u \in User, ChannelInput(u) \/ ChannelStep(u)
      PROVE  [Abstract!MNext]_(Abstract!mvars)
  <2>1. CASE \E n \in ChanName : JoinNew(u, n) \/ JoinMember(u, n)
    BY <2>1, JoinSteps DEF Abstract!MNext
  <2> QED
    BY <1>1, <1>3, <2>1, StillChannel
<1>4. CASE \/ \E u \in User : \/ MessageInput(u) \/ MessageStep(u)
                              \/ Connection(u)
           \/ AcceptFail \/ Stray \/ UNCHANGED vars
  BY <1>1, <1>4, StillRest
<1> QED
  BY <1>2, <1>3, <1>4 DEF Next, Arrive, Continue

\* The server implements Membership while nobody sends PART: JOIN adds its
\* own user and nobody else, QUIT takes its user out of every channel before
\* it is counted out, and no thread takes another's user out.
THEOREM MembershipKept ==
  ASSUME "PART" \notin Inputs
  PROVE  Spec => KeepsMembership
<1>1. Init => Abstract!MInit
  <2> SUFFICES ASSUME Init PROVE Abstract!MInit
    OBVIOUS
  <2>1. \A u \in User : Stage(u) = "out"
    BY DEF Init, NewUser, Stage, HasQuit
  <2>2. Stages \in [User -> {"out", "in"}]
    BY <2>1 DEF Stages
  <2>3. Pairs = {}
    BY DEF Init, Pairs, HashFind
  <2> QED
    BY <2>2, <2>3 DEF Abstract!MInit, Stages, Pairs
<1>2. ServerInv /\ TypeInv' /\ ChannelInv' /\ [Next]_vars
        => [Abstract!MNext]_(Abstract!mvars)
  BY MembershipStep
<1>3. Spec => []ServerInv
  <2>1. TypeInv /\ QuitInv /\ NoParts /\ ChannelInv /\ Untorn /\ [Next]_vars
          => NoParts' /\ ChannelInv' /\ Untorn'
    BY NoPartsStep, ChannelNext, UntornStep
  <2>2. TypeInv /\ TableInv /\ QuitInv /\ ListedOnce /\ NoParts /\ ChannelInv
          /\ Untorn <=> ServerInv
    BY DEF ServerInv
  <2> QED
    BY <2>1, <2>2, ChannelInit, TypeInit, TypeNext, TableAlways, QuitAlways,
       ListedAlways, PTL DEF Spec
<1>4. ServerInv => TypeInv /\ ChannelInv
  BY DEF ServerInv
<1> QED
  BY <1>1, <1>2, <1>3, <1>4, PTL DEF Spec, KeepsMembership, Abstract!MSpec
============================================================================
