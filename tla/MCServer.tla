------------------------------ MODULE MCServer ------------------------------
(***************************************************************************)
(* Instances of the server for TLC.  The connections in Early start        *)
(* registered and idle, with nicknames and descriptors of their own, as    *)
(* they are after ACCEPT, NICK and USER in turn; the others start unborn.  *)
(***************************************************************************)
EXTENDS ServerProperties, TLC, Functions

CONSTANT Early

NickOf == CHOOSE f \in Injection(Early, Nick) : TRUE
LowestFds == {f \in Fd : Cardinality({g \in Fd : g < f}) < Cardinality(Early)}

InitEarly ==
  \E sock \in Injection(Early, LowestFds) :
    /\ proc = "ok" /\ lock = NULL
    /\ ctx = [num_connections |-> Cardinality(Early),
              clients |-> Cardinality(Early), operators |-> 0,
              active |-> Cardinality(Early)]
    /\ table = [u \in User |-> IF u \in Early THEN NickOf[u] ELSE NULL]
    /\ linked = {} /\ hh_next = [c \in Chan |-> NoChan]
    /\ chan = [c \in Chan |-> NoChannel]
    /\ user = [u \in User |->
                 IF u \in Early
                   THEN [NewUser EXCEPT !.nickname = NickOf[u],
                           !.username = TRUE, !.client_socket = sock[u],
                           !.comed = TRUE, !.registered = TRUE]
                   ELSE NewUser]
    /\ pc = [u \in User |-> IF u \in Early THEN "recv" ELSE "unborn"]
    /\ loc = [u \in User |-> NoLocals]
    /\ announced = {}

SpecEarly == InitEarly /\ [][Next]_vars /\ Fairness

\* Bound: what follows the second deletion of a channel is followed as long as
\* every channel counts one member or none.
Followed ==
  proc = "torn" => \A c \in Chan : chan[c].user_count \in {0, 1}

\* Two early connections change places together with their nicknames; the
\* others, the remaining nicknames and the channel names are alike.
Swap(p) == [x \in Early \cup Range(NickOf) |->
              IF x \in Early THEN p[x]
              ELSE NickOf[p[CHOOSE u \in Early : NickOf[u] = x]]]
Symmetry == {Swap(p) : p \in Permutations(Early)}
              \cup Permutations(User \ Early)
              \cup Permutations(Nick \ Range(NickOf))
              \cup Permutations(ChanName)
============================================================================
