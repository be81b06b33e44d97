------------------------------- MODULE Parse -------------------------------
(***************************************************************************)
(* src/utils/parse.c: what parse_string makes of a line.  The four letters *)
(* it tells commands by are one character here, "NICK", and so is what is  *)
(* left of a longer name, "MSG".  The result is a type and the array argv; *)
(* UNSET is what was allocated and never written, or read where nothing    *)
(* was allocated: any value at all.  argc is read by nobody.               *)
(***************************************************************************)
EXTENDS Strings

CONSTANTS NULL, UNSET

\* COMMAND_... and ERRORTYPE_...: what a parsed line can be.
Commands == {"NICK", "USER", "PRIVMSG", "QUIT", "OPER", "PING", "PONG",
             "LUSERS", "WHOIS", "NOTICE", "JOIN", "PART", "MODE", "LIST"}
Errors == {"NONICKNAMEGIVEN", "NOTEXTTOSEND", "NEEDMOREPARAMS", "NORECIPIENT",
           "UNKNOWNCOMMAND", "UNKNOWNMODE", "UNKNOWN", "SILENTDROP"}

\* The characters that make a difference to parse_string, and what it allocates.
Letters == {"NICK", "USER", "PRIV", "MSG", "QUIT", "OPER", "PING", "PONG", "LUSE",
            "RS", "WHOI", "S", "NOTI", "CE", "JOIN", "PART", "MODE", "LIST",
            ":", "+", "-", "o"}
Argv == Seq(Seq(Byte) \cup {NULL, "USER", "OPER", "JOIN", "PART", "MODE"})

ASSUME ParseBytes == Letters \subseteq Char \ {SP}
ASSUME ParseValues == /\ UNSET \notin Commands \cup Errors
                      /\ NULL \notin Seq(Byte) \cup Argv /\ UNSET \notin Argv

Result(type, argv) == [type |-> type, argv |-> argv]
NeedMoreParams(verb) == Result("NEEDMOREPARAMS", <<verb>>)
NoArgument(type) == Result(type, <<NULL>>)
Wild == Result(UNSET, UNSET)

Colon(line) == SelectInSeq(line, LAMBDA c : c = ":")
\* first_part, whose last character is overwritten by the terminator, and
\* second_part.
\* Mutant: the terminator is put behind it.
first_part_Whole(line) == SubSeq(line, 1, Colon(line) - 1) \o <<NUL>>
first_part(line) == SubSeq(line, 1, Colon(line) - 2) \o <<NUL>>
second_part(line) == SubSeq(line, Colon(line) + 1, Len(line))

\* strndup of tokens[1], tokens[2], ... of n tokens.
Arguments(tokens, n) == [i \in 1..n |-> CString(tokens[i + 1])]

NickLine(line) ==
  LET t == Tokens(line)
  IN  CASE Len(t) = 1 -> NoArgument("NONICKNAMEGIVEN")
        [] Len(t) = 2 -> Result("NICK", Arguments(t, 1))
        [] OTHER      -> Wild

UserLine(line) ==
  LET t == Tokens(first_part(line))
  IN  IF Colon(line) = 0 \/ Len(t) # 4 THEN NeedMoreParams("USER")
      ELSE Result("USER", Arguments(t, 1) \o <<second_part(line)>>)

\* Without a colon strchr returns NULL and its distance to the line is a
\* length; with the colon too early there is no tokens[1].
PrivLine(line) ==
  LET t == Tokens(line)  front == Tokens(first_part(line))
  IN  IF t[1] # <<"PRIV", "MSG">> THEN Result("UNKNOWNCOMMAND", <<t[1]>>)
      ELSE IF Len(t) = 2 THEN NoArgument("NOTEXTTOSEND")
      ELSE IF Len(t) = 1 THEN Result("NORECIPIENT", <<t[1]>>)
      ELSE IF Colon(line) = 0 \/ Len(front) < 2 THEN Wild
      ELSE Result("PRIVMSG", Arguments(front, 1) \o <<second_part(line)>>)

QuitLine(line) ==
  IF Colon(line) = 0 THEN NoArgument("QUIT") ELSE Result("QUIT", <<second_part(line)>>)

OperLine(line) ==
  LET t == Tokens(line)
  IN  IF Len(t) < 3 THEN NeedMoreParams("OPER") ELSE Result("OPER", <<t[2], t[3]>>)

\* PING and PONG.
PingLine(type, line) ==
  LET n == Len(Tokens(line)) - 1
  IN  Result(type, IF n \in {1, 2} THEN Arguments(Tokens(line), n) ELSE UNSET)

LusersLine(line) ==
  IF line = <<"LUSE", "RS">> THEN Result("LUSERS", UNSET)
                             ELSE NoArgument("UNKNOWNCOMMAND")

\* The argument of an unknown command is replaced too.
\* Mutant: it is kept.
WhoisLine_Return(line) ==
  LET t == Tokens(line)
  IN  IF Len(line) < 2 \/ line[2] # "S" THEN NoArgument("UNKNOWNCOMMAND")
      ELSE Result("WHOIS", IF Len(t) = 2 THEN Arguments(t, 1) ELSE NULL)
WhoisLine(line) ==
  LET t == Tokens(line)
      type == IF Len(line) < 2 THEN "UNKNOWNCOMMAND"
              ELSE IF line[2] # "S" THEN "UNKNOWNCOMMAND" ELSE "WHOIS"
  IN  Result(type, IF Len(t) = 2 THEN Arguments(t, 1) ELSE NULL)

NoticeLine(line) ==
  LET t == Tokens(first_part(line))
  IN  IF Colon(line) = 0 THEN NoArgument("SILENTDROP")
      ELSE IF second_part(line) = <<>> THEN NoArgument("NOTEXTTOSEND")
      ELSE IF CString(t[1]) # <<"NOTI", "CE">> THEN Result("UNKNOWNCOMMAND", <<t[1]>>)
      ELSE IF Len(t) < 2 THEN NoArgument("SILENTDROP")
      ELSE Result("NOTICE", Arguments(t, 1) \o <<second_part(line)>>)

JoinLine(line) ==
  LET t == Tokens(line)
  IN  IF Len(t) < 2 THEN NeedMoreParams("JOIN") ELSE Result("JOIN", Arguments(t, 1))

\* Short of arguments, the array has one or two entries; the second, which is
\* always written, lies within what malloc gives for one.
PartLine(line) ==
  LET t == Tokens(IF Colon(line) = 0 THEN line ELSE first_part(line))
      text == IF Colon(line) = 0 THEN NULL ELSE second_part(line)
  IN  IF Len(t) < 2 THEN Result("NEEDMOREPARAMS", <<"PART", NULL>>)
      ELSE Result("PART", Arguments(t, 1) \o <<text>>)

\* The sign must be a plus: the second test is of the wrong character.
ModeLine(line) ==
  LET t == Tokens(line)
  IN  IF Len(t) < 4 THEN NeedMoreParams("MODE")
      ELSE IF Len(t[3]) # 2 THEN NoArgument("UNKNOWNMODE")
      ELSE IF (t[3][1] # "+" /\ t[3][2] # "-") \/ t[3][2] # "o"
        THEN NoArgument("UNKNOWNMODE")
      ELSE Result("MODE", Arguments(t, 3))

ListLine(line) ==
  LET t == Tokens(line)
  IN  CASE Len(t) = 1 -> NoArgument("LIST")
        [] Len(t) = 2 -> Result("LIST", Arguments(t, 1))
        [] OTHER      -> Result("LIST", UNSET)

parse_string(str) ==
  LET line == Trimmed(str)
  IN  IF line = <<>> THEN NoArgument("SILENTDROP")
      ELSE CASE line[1] = "NICK" -> NickLine(line)
             [] line[1] = "USER" -> UserLine(line)
             [] line[1] = "PRIV" -> PrivLine(line)
             [] line[1] = "QUIT" -> QuitLine(line)
             [] line[1] = "OPER" -> OperLine(line)
             [] line[1] = "PING" -> PingLine("PING", line)
             [] line[1] = "PONG" -> PingLine("PONG", line)
             [] line[1] = "LUSE" -> LusersLine(line)
             [] line[1] = "WHOI" -> WhoisLine(line)
             [] line[1] = "NOTI" -> NoticeLine(line)
             [] line[1] = "JOIN" -> JoinLine(line)
             [] line[1] = "PART" -> PartLine(line)
             [] line[1] = "MODE" -> ModeLine(line)
             [] line[1] = "LIST" -> ListLine(line)
             [] OTHER -> Result("UNKNOWN", <<Tokens(line)[1]>>)
============================================================================
