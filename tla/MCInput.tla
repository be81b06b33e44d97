------------------------------ MODULE MCInput ------------------------------
(***************************************************************************)
(* An instance of Input for TLC.  Short streams of anything show how lines *)
(* are cut; one line of each command, with any arguments of a few shapes,  *)
(* how they are parsed.                                                    *)
(***************************************************************************)
EXTENDS InputProperties

MCChar == {"x", "+", "o", "-", ":", "sp", "cr", "lf", "MSG", "RS", "S", "CE",
           "NICK", "USER", "PRIV", "QUIT", "OPER", "PING", "PONG", "LUSE",
           "WHOI", "NOTI", "JOIN", "PART", "MODE", "LIST"}

Of(chars, n) == UNION {[1..i -> chars] : i \in 0..n}
Cuts == Of({"x", "cr", "lf", "nul"}, 5)

Verbs == {<<v>> : v \in {"x", "NICK", "USER", "PRIV", "QUIT", "OPER", "PING",
                         "PONG", "LUSE", "WHOI", "NOTI", "JOIN", "PART", "MODE",
                         "LIST"}}
         \cup {<<"PRIV", "MSG">>, <<"LUSE", "RS">>, <<"WHOI", "S">>,
               <<"NOTI", "CE">>}
Shapes == {<<"sp">>, <<"sp", "x">>, <<"sp", ":">>, <<"sp", ":", "x">>,
           <<"x", ":">>, <<"sp", "x", ":", "x">>}
Modes == {<<"sp", s, "o">> : s \in {"+", "-", "x"}} \cup {<<"sp", "+", "x">>}
Lines ==
  {v \o FlattenSeq(s) : v \in Verbs, s \in Of(Shapes, 3)}
    \cup {<<v>> \o <<"sp", "x">> \o m \o s :
            v \in {"MODE", "x"}, m \in Modes, s \in {<<>>} \cup Shapes}
    \cup {<<"USER", "sp", "x", "sp", "x">> \o FlattenSeq(s) : s \in Of(Shapes, 3)}
MCStreams ==
  Cuts \cup {l \o <<"cr", "lf">> : l \in Lines \cup {p.line : p \in Promises}}

MCWords == {<<"x">>, <<"x", "x">>}
MCTexts == {<<"x">>, <<"x", ":", "x">>, <<"x", "sp", "x">>}
============================================================================
