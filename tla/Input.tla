------------------------------- MODULE Input -------------------------------
(***************************************************************************)
(* How the bytes of a client become calls of handlers: the recv loop of    *)
(* service_single_client, which assembles lines from chunks, and           *)
(* incoming_command, which has a line parsed and picks a handler.  One     *)
(* client, whose bytes are chosen at the start; what handlers do is in     *)
(* Server and Delivery.                                                    *)
(***************************************************************************)
EXTENDS Parse

CONSTANTS
  CR, LF,
  Streams,   \* what a client may send
  Buffer     \* bytes one recv returns at most, 100 in the code

ASSUME InputBytes == /\ {CR, LF} \subseteq Char /\ CR # LF
                     /\ Streams \subseteq Seq(Byte) /\ Buffer \in Nat \ {0}

VARIABLES
  stream,       \* all the client will send
  received,     \* the part of it that was received
  buffer,       \* of what recv returned, the part not looked at
  command_str,  \* beginning of a line
  registered,   \* of the user_t
  lines,        \* history: the lines handed to incoming_command
  did,          \* history: what became of the last of them
  thread        \* "recv", "busy" with a buffer, "ended", or the process "dead"

ivars == <<stream, received, buffer, command_str, registered, lines, did, thread>>

\* Entries of argv a handler takes to be there.  WHOIS tests argv first.
Reads(type, argv) ==
  CASE type \in {"PING", "PONG", "LUSERS"} -> 0
    [] type = "WHOIS" -> IF argv = NULL THEN 0 ELSE 1
    [] type \in {"NICK", "QUIT", "JOIN", "LIST"} -> 1
    [] type \in {"USER", "PRIVMSG", "OPER", "NOTICE", "PART"} -> 2
    [] type = "MODE" -> 3

Readable(argv, n) == n = 0 \/ (argv \notin {NULL, UNSET} /\ n <= Len(argv))

\* What incoming_command does with a parsed line: call a handler, or an error
\* handler with argv[0], nothing, or what nobody can tell ("ub").
Call(kind, type, argv) == [kind |-> kind, type |-> type, argv |-> argv]
Outcome(r, isRegistered) ==
  IF r.type = UNSET THEN Call("ub", UNSET, UNSET)
  ELSE IF r.type \in Commands \ {"NICK", "USER"} /\ ~isRegistered
    THEN Call("error", "NOTREGISTERED", <<>>)
  ELSE IF r.type \in Commands
    THEN IF Readable(r.argv, Reads(r.type, r.argv))
           THEN Call("handler", r.type, r.argv) ELSE Call("ub", UNSET, UNSET)
  ELSE IF r.type = "SILENTDROP" THEN Call("nothing", r.type, <<>>)
  ELSE IF Readable(r.argv, 1) THEN Call("error", r.type, <<r.argv[1]>>)
  ELSE Call("ub", UNSET, UNSET)

incoming_command(line) ==
  LET outcome == Outcome(parse_string(line), registered)
  IN  /\ lines' = Append(lines, line) /\ did' = outcome
      /\ CASE outcome.kind = "ub" ->
                /\ thread' \in {"busy", "dead"} /\ registered' \in BOOLEAN
           [] outcome.kind = "handler" /\ outcome.type = "QUIT" ->
                thread' = "ended" /\ UNCHANGED registered
           [] outcome.kind = "handler" /\ outcome.type \in {"NICK", "USER"} ->
                registered' \in {registered, TRUE} /\ UNCHANGED thread
           [] OTHER -> UNCHANGED <<registered, thread>>

\* The first recv, or any later one between two lines, when the client may have
\* registered.
Init ==
  /\ stream \in Streams /\ received = <<>> /\ buffer = <<>>
  /\ command_str = <<>> /\ lines = <<>> /\ thread = "recv"
  /\ registered \in BOOLEAN /\ did = Call("nothing", NULL, <<>>)

\* recv returns some of what was sent, ...
Receive(n) ==
  /\ thread = "recv" /\ Len(received) + n <= Len(stream)
  /\ received' = SubSeq(stream, 1, Len(received) + n)
  /\ buffer' = SubSeq(stream, Len(received) + 1, Len(received) + n)
  /\ thread' = "busy"
  /\ UNCHANGED <<stream, command_str, registered, lines, did>>

\* ... or 0 or -1: the client closed, or the connection failed.
Close ==
  /\ thread = "recv" /\ thread' = "ended"
  /\ UNCHANGED <<stream, received, buffer, command_str, registered, lines, did>>

\* CR LF is cut off a line; LF alone stays.
\* Mutant: the last chunk is looked at, not the line.
Stripped_Chunk(line, piece) ==
  IF Len(piece) >= 2 /\ SubSeq(piece, Len(piece) - 1, Len(piece)) = <<CR, LF>>
    THEN SubSeq(line, 1, Len(line) - 2) ELSE line
Stripped(line, piece) ==
  IF Len(line) >= 2 /\ SubSeq(line, Len(line) - 1, Len(line)) = <<CR, LF>>
    THEN SubSeq(line, 1, Len(line) - 2) ELSE line

EndOfLine == SelectInSeq(buffer, LAMBDA c : c = LF)

\* The buffer up to the first LF completes a line.
CompleteLine ==
  LET piece == CString(SubSeq(buffer, 1, EndOfLine))
  IN  /\ thread = "busy" /\ EndOfLine > 0
      /\ incoming_command(Stripped(command_str \o piece, piece))
      /\ command_str' = <<>>
      /\ buffer' = SubSeq(buffer, EndOfLine + 1, Len(buffer))
      /\ UNCHANGED <<stream, received>>

\* The rest of it begins the next one.
KeepRest ==
  /\ thread = "busy" /\ EndOfLine = 0
  /\ command_str' = command_str \o CString(buffer)
  /\ buffer' = <<>> /\ thread' = "recv"
  /\ UNCHANGED <<stream, received, registered, lines, did>>

Next == (\E n \in 1..Buffer : Receive(n)) \/ Close \/ CompleteLine \/ KeepRest

Spec == Init /\ [][Next]_ivars
============================================================================
