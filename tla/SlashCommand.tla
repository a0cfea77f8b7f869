---------------------------- MODULE SlashCommand ----------------------------
(***************************************************************************)
(* The text of commands: parse_slash_command (native/src/command_router    *)
(* .cpp), which splits a line into a name and its arguments, and           *)
(* control_command_line (native/src/runtime.cpp), which writes the line    *)
(* for a command.invoke request so that the same parser can read it.       *)
(*                                                                         *)
(* A text is a sequence of bytes.  The parser tells apart a slash, blanks, *)
(* the quote, the backslash, control bytes and letters of either case,     *)
(* each named by a string, and treats all others alike.                    *)
(***************************************************************************)
EXTENDS Naturals, SequencesExt

CONSTANTS
  Byte,        \* the bytes of texts
  MaxLine,     \* 2048: bytes of a line
  MaxToken,    \* 512: bytes of a token
  MaxTokens,   \* 32: tokens that have been completed before the line ends
  MaxName      \* 32: bytes of a command's name

Blanks == {"space", "tab"}
Escapable == {"backslash", "quote", "space"}
Letters == {"a", "b", "A", "B"}

ASSUME SlashAssumptions ==
  /\ {MaxLine, MaxToken, MaxTokens, MaxName} \subseteq Nat \ {0}
  /\ Blanks \cup Escapable \cup Letters \cup {"slash", "control"} \subseteq Byte

Lower(c) == CASE c = "A" -> "a" [] c = "B" -> "b" [] OTHER -> c
Canonical(name) == [i \in DOMAIN name |-> Lower(name[i])]

(* A loop over the elements of seq: FoldLeft, as a recursive function. *)
Loop(body(_, _), start, seq) ==
  LET after[n \in 0 .. Len(seq)] == IF n = 0 THEN start ELSE body(after[n - 1], seq[n])
  IN after[Len(seq)]

-----------------------------------------------------------------------------
(* flush: a token is completed; an empty one is not kept. *)
Flush(s) ==
  IF s.current = <<>> THEN s
  ELSE [s EXCEPT !.tokens = Append(@, s.current), !.current = <<>>]

Push(s, c) == [s EXCEPT !.current = Append(@, c)]

(* The loop body for byte c; once bad, the parser has returned an error. *)
ParseByte(s, c) ==
  LET read ==
        IF c = "control" THEN [s EXCEPT !.bad = TRUE]
        ELSE IF s.escaped
             THEN [Push(s, c) EXCEPT !.escaped = FALSE, !.bad = c \notin Escapable]
        ELSE IF c = "backslash" THEN [s EXCEPT !.escaped = TRUE]
        ELSE IF c = "quote" THEN [s EXCEPT !.quoted = ~@]
        ELSE IF ~s.quoted /\ c \in Blanks THEN Flush(s)
        ELSE [Push(s, c) EXCEPT !.bad = Len(s.current) >= MaxToken]
  IN IF s.bad THEN s ELSE [read EXCEPT !.bad = @ \/ Len(read.tokens) > MaxTokens]

Start == [tokens |-> <<>>, current |-> <<>>, quoted |-> FALSE, escaped |-> FALSE,
          bad |-> FALSE]
Run(s, bytes) == Loop(ParseByte, s, bytes)

(* The tokens of a line, name first; none if it is not a command. *)
Parse(text) ==
  LET end == Run(Start, Tail(text))
  IN IF \/ text = <<>> \/ Head(text) # "slash" \/ Len(text) > MaxLine
        \/ end.bad \/ end.escaped \/ end.quoted
     THEN <<>> ELSE Flush(end).tokens

-----------------------------------------------------------------------------
(* Mutant of Escaped: the quote is not escaped. *)
EscapeNoQuote(c) == IF c = "backslash" THEN <<"backslash", c>> ELSE <<c>>

(* What is written for one byte of an argument. *)
Escaped(c) == IF c \in {"backslash", "quote"} THEN <<"backslash", c>> ELSE <<c>>

AppendEscaped(line, c) == line \o Escaped(c)
EscapedText(arg) == Loop(AppendEscaped, <<>>, arg)
AppendQuoted(line, arg) == line \o (<<"space", "quote">> \o EscapedText(arg) \o <<"quote">>)

(* The line for a request; none if the request is refused. *)
ControlCommandLine(command, args) ==
  LET line == Loop(AppendQuoted, <<"slash">> \o command, args)
  IN IF \/ command = <<>> \/ Len(command) > MaxName \/ Len(args) > MaxTokens
        \/ \E i \in DOMAIN args : Len(args[i]) > MaxToken \/ Contains(args[i], "control")
        \/ Len(line) > MaxLine
     THEN <<>> ELSE line
=============================================================================
