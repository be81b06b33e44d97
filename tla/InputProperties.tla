-------------------------- MODULE InputProperties --------------------------
(***************************************************************************)
(* Properties of Input.  Unsent, Defective and Promises say what they say  *)
(* of a line by its shape, not by running the parser.                      *)
(***************************************************************************)
EXTENDS Input

CONSTANTS Words, Texts   \* parameters, and texts that may end a line

ASSUME InputWords ==
  /\ \A w \in Words : w \in Seq(Char \ {SP, ":"}) /\ w # <<>>
  /\ \A t \in Texts : t \in Seq(Char) /\ t # <<>> /\ t[Len(t)] # SP

\* The lines handed on are what was sent, in order, each up to its LF, with
\* nothing lost, repeated or moved between lines, however the bytes were cut
\* into chunks; CR LF is not part of a line.  Only NUL bytes are an exception:
\* they take the rest of their chunk up to the LF with them.
Unsent(line) == IF line = <<>> \/ line[Len(line)] # LF THEN line \o <<CR, LF>> ELSE line
OneLine(raw) == SelectInSeq(raw, LAMBDA c : c = LF) = Len(raw)
LinesAsSent ==
  ~Contains(received, NUL) =>
    LET raw == [i \in DOMAIN lines |-> Unsent(lines[i])]
    IN  /\ FlattenSeq(raw) \o command_str \o buffer = received
        /\ \A i \in DOMAIN raw : OneLine(raw[i])
        /\ \A i \in DOMAIN lines : ~IsSuffix(<<CR, LF>>, lines[i])
        /\ ~Contains(command_str, LF)

\* What LinesAsSent rests on: what was received is what was sent, so far, and
\* a thread calls recv when it has looked at all of the buffer.
InputInv ==
  /\ {stream, received, buffer, command_str} \subseteq Seq(Byte)
  /\ lines \in Seq(Seq(Byte))
  /\ \E n \in 0..Len(stream) : received = SubSeq(stream, 1, n)
  /\ thread = "recv" => buffer = <<>>
  /\ LinesAsSent

\* The lines that make the server use a pointer nobody wrote, by their words
\* and what the client may do: NICK with two arguments or more; LIST with two
\* or more; PRIVMSG of several words with no colon or one that begins the
\* second; and a word that begins with WHOI, not WHOIS, with any number of
\* arguments but one.  The first, third and last need no registration.
Defective(line, isRegistered) ==
  LET t == Trimmed(line)  words == Tokens(t)  n == Len(words)
      colon == Colon(t)
  IN  /\ t # <<>>
      /\ \/ t[1] = "NICK" /\ n >= 3
         \/ t[1] = "LIST" /\ n >= 3 /\ isRegistered
         \/ /\ words[1] = <<"PRIV", "MSG">> /\ n >= 3
            /\ colon \in {0, Len(words[1]) + 2}
         \/ t[1] = "WHOI" /\ ~IsPrefix(<<"WHOI", "S">>, t) /\ n # 2

\* A dispatched line uses such a pointer exactly if it is one of them: every
\* other contract between the parser and the handlers is kept.
WildExactly ==
  [][lines' # lines =>
       (did'.kind = "ub" <=> Defective(lines'[Len(lines')], registered))]_ivars

\* Lines as the protocol writes them, with the command and the arguments they
\* stand for.
Say(verb, words, text) ==
  verb \o FlattenSeq([i \in DOMAIN words |-> <<SP>> \o words[i]])
    \o (IF text = NULL THEN <<>> ELSE <<SP, ":">> \o text)
Meant(verb, words, text, type, argv) ==
  [line |-> Say(verb, words, text), type |-> type, argv |-> argv]
Promises ==
  UNION {{Meant(<<"NICK">>, <<a>>, NULL, "NICK", <<a>>),
          Meant(<<"USER">>, <<a, b, a>>, t, "USER", <<a, t>>),
          Meant(<<"PRIV", "MSG">>, <<a>>, t, "PRIVMSG", <<a, t>>),
          Meant(<<"NOTI", "CE">>, <<a>>, t, "NOTICE", <<a, t>>),
          Meant(<<"QUIT">>, <<>>, NULL, "QUIT", <<NULL>>),
          Meant(<<"QUIT">>, <<>>, t, "QUIT", <<t>>),
          Meant(<<"OPER">>, <<a, b>>, NULL, "OPER", <<a, b>>),
          Meant(<<"WHOI", "S">>, <<a>>, NULL, "WHOIS", <<a>>),
          Meant(<<"JOIN">>, <<a>>, NULL, "JOIN", <<a>>),
          Meant(<<"PART">>, <<a>>, NULL, "PART", <<a, NULL>>),
          Meant(<<"PART">>, <<a>>, t, "PART", <<a, t>>),
          Meant(<<"MODE">>, <<a, <<"+", "o">>, b>>, NULL, "MODE",
                <<a, <<"+", "o">>, b>>),
          Meant(<<"LIST">>, <<a>>, NULL, "LIST", <<a>>)}
         : a \in Words, b \in Words, t \in Texts}

\* A line as the protocol writes it reaches the handler of its command with
\* its arguments whole, once the client may send it: cutting at the colon and
\* overwriting the character before it loses none of them.
MeaningKept ==
  [][\A p \in Promises :
       (lines' # lines /\ lines'[Len(lines')] = p.line)
         => IF registered \/ p.type \in {"NICK", "USER"}
              THEN did' = Call("handler", p.type, p.argv)
              ELSE did' = Call("error", "NOTREGISTERED", <<>>)]_ivars
============================================================================
