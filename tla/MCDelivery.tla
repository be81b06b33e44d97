----------------------------- MODULE MCDelivery -----------------------------
(***************************************************************************)
(* Instances of Delivery for TLC: two users are registered, in the channel *)
(* or not, and a third is, outside it, or arrives during the run, on a     *)
(* descriptor of its own or one that was used before.                      *)
(***************************************************************************)
EXTENDS DeliveryProperties

CONSTANTS ann, bob, eve
MCQueries == {Pong, YoureOper, NotRegistered}
Two == <<ann, bob>>
Three == <<ann, bob, eve>>
Does(early, x, y, z, s) ==
  {[early |-> early, members |-> m, slow |-> s,
    inputs |-> [u \in User |-> CASE u = ann -> x [] u = bob -> y [] u = eve -> z]] :
     m \in {<<>>, <<ann>>, <<bob>>, <<ann, bob>>, <<bob, ann>>}}
MCScenarios == UNION
  {\* Members speak, quit and join.
   Does(Three, {"PRIVMSG", "QUIT"}, {"MODE"}, {"JOIN"}, {}),
   Does(Three, {"NICK"}, {"PRIVMSG", "QUIT"}, {"JOIN"}, {}),
   \* Two join at once.
   Does(Three, {"JOIN"}, {}, {"JOIN"}, {}),
   \* A member quits, and its descriptor is used again.
   Does(Two, {"PRIVMSG", "QUIT"}, {"MODE"}, {"QUERY"}, {}),
   Does(Two, {"QUIT"}, {"MESSAGE", "KILL"}, {"QUERY"}, {}),
   \* Connections end without QUIT.
   Does(Two, {"CLOSE"}, {"PRIVMSG", "KILL"}, {"REGISTER", "JOIN"}, {}),
   Does(Two, {"MODE", "RESET"}, {"PRIVMSG", "KILL"}, {"QUERY"}, {}),
   \* A client registers, is renamed or sent a message meanwhile.
   Does(Two, {"NICK"}, {"MESSAGE"}, {"REGISTER"}, {}),
   \* Answers under the lock and after it.
   Does(Three, {"LIST", "KILL"}, {"WHOIS", "QUIT"}, {"JOIN"}, {}),
   \* A client does not read.
   Does(Three, {"MODE"}, {}, {"JOIN", "QUERY"}, {bob})}
============================================================================
