------------------------------- MODULE MCLexemes -------------------------------
(* Every text up to a length from an alphabet, and every challenge of a few bytes, *)
(* written byte by byte.                                                       *)
EXTENDS Lexemes

VARIABLE lexeme  \* "number", "string", "escape" or "challenge": what is written

lexemeVars == <<lexeme, text, bytes>>

HexSpelled == (48 .. 57) \cup {97, 66, 67, 100, 69, 102}

\* What a text begins with, the bytes it goes on with, and how long it may get.
Prefix == [number |-> <<>>, string |-> <<Quote>>, escape |-> <<>>, challenge |-> <<>>]
Alphabet ==
  [number |-> {43, 45, 46, 48, 49, 101}, string |-> {34, 92, 117, 68, 98},
   escape |-> HexSpelled, challenge |-> {0, 1, 62, 91, 127, 128, 251, 255}]
Longest == [number |-> 6, string |-> 8, escape |-> 4, challenge |-> 4]

NoLexeme == lexeme = "number" /\ text = <<>> /\ bytes = <<>>

InitLexeme ==
  /\ lexeme \in DOMAIN Prefix
  /\ text = Prefix[lexeme]
  /\ bytes = <<>>

\* A string that has ended is not written on.
WriteLexeme ==
  /\ UNCHANGED lexeme
  /\ lexeme = "string" => ValidateString(text, 1) = Fail
  /\ \E b \in Alphabet[lexeme] :
       IF lexeme = "challenge"
         THEN Len(bytes) < Longest[lexeme] /\ bytes' = Append(bytes, b) /\ UNCHANGED text
         ELSE Len(text) < Longest[lexeme] /\ text' = Append(text, b) /\ UNCHANGED bytes

=============================================================================
