------------------------------ MODULE Replies ------------------------------
(***************************************************************************)
(* src/utils/reply.c: the lines each command is answered with.  Every      *)
(* function there builds one string and hands it to safe_send.  That whole *)
(* string is a line here, named by its numeric or its command; its words   *)
(* are left out.  (That of 472 has more words behind its CR LF, which the  *)
(* client reads as the beginning of the next line.  501 is built by a      *)
(* function nobody calls.)                                                 *)
(***************************************************************************)
EXTENDS Integers, Sequences

\* Sequences of lines for the client whose command it is, one safe_send each.
Welcome == <<"001", "002", "003", "004">>
LusersReplies == <<"251", "252", "253", "254", "255">>
NoMotd == <<"422">>
WhoisUser(isOperator) == <<"311", "312">> \o (IF isOperator THEN <<"313">> ELSE <<>>)
WhoisChannels == <<"319">>
EndOfWhois == <<"318">>
ListReplies == <<"322">>
ListEnd == <<"323">>
NamesReplies == <<"353", "366">>
YoureOper == <<"381">>
Pong == <<"PONG">>
QuitError == <<"ERROR">>

\* Refusals, one line each: of incoming_command for what the parser found
\* wrong, where SILENTDROP is none, and of the handlers.
LineRefusals == {"411", "412", "421", "431", "451", "461", "472"}
Refusals == {"401", "403", "404", "433", "441", "442", "462", "464", "482"}

\* What a client is answered before it is registered: any command but NICK and
\* USER that the parser found nothing wrong with is refused.
NotRegistered == <<"451">>
UnregisteredReplies == {<<line>> : line \in LineRefusals \cup {"433"}}

\* Answers that are sent while the thread has no lock, and those of them for
\* which it did not have one before.
LocklessReplies == {Pong} \cup {<<line>> : line \in LineRefusals}
QueryReplies ==
  LocklessReplies \cup {LusersReplies, YoureOper}
                  \cup {<<line>> : line \in Refusals}

\* All the lines the server sends: answers, and what is relayed.
Line ==
  {"001", "002", "003", "004", "251", "252", "253", "254", "255", "422",
   "311", "312", "313", "319", "318", "322", "323", "353", "366", "381",
   "PONG", "ERROR", "JOIN", "QUIT", "NICK", "MODE", "PRIVMSG", "NOTICE"}
    \cup LineRefusals \cup Refusals
============================================================================
