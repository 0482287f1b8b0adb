-------------------------------- MODULE Scanner --------------------------------
(***************************************************************************)
(* The strings and numbers of the strict scanner of clientDataJSON             *)
(* (root_verify/client_data.rs), on bytes. A position is an index into the      *)
(* document; the methods of Scanner become operators from a position to the     *)
(* position after what they read, or to Fail. No byte is at Fail or past the    *)
(* end, so a failure runs through every later step as `?` does.                *)
(***************************************************************************)
EXTENDS Integers, Sequences, SequencesExt

Byte == 0 .. 255

Quote == 34
Minus == 45
Dot == 46
Zero == 48
Backslash == 92
LowerU == 117

Controls == 0 .. 31
Digits == 48 .. 57
Exponents == {69, 101}
Signs == {43, 45}

\* " \ / b f n r t and what they stand for.
Unescaped ==
  [e \in {34, 92, 47, 98, 102, 110, 114, 116} |->
     CASE e \in {34, 92, 47} -> e
       [] e = 98 -> 8 [] e = 102 -> 12 [] e = 110 -> 10 [] e = 114 -> 13 [] e = 116 -> 9]

\* Code points that are halves of a pair: D800 .. DFFF.
SURROGATES == 55296 .. 57343

HexDigits == Digits \cup (65 .. 70) \cup (97 .. 102)
HexValue(c) == IF c \in Digits THEN c - 48 ELSE IF c < 97 THEN c - 55 ELSE c - 87

Fail == 0
NoByte == -1

At(d, i) == IF i \in DOMAIN d THEN d[i] ELSE NoByte

\* The first position from i on with another byte than these.
SkipAll(d, i, bytes) ==
  CHOOSE j \in i .. Len(d) + 1 :
    At(d, j) \notin bytes /\ \A k \in i .. j - 1 : At(d, k) \in bytes

-----------------------------------------------------------------------------
(* Strings. *)

\* The four digits of a \u escape.
IsHex(d, i) == \A k \in 0 .. 3 : At(d, i + k) \in HexDigits

CodePoint(d, i) ==
  4096 * HexValue(At(d, i)) + 256 * HexValue(At(d, i + 1))
    + 16 * HexValue(At(d, i + 2)) + HexValue(At(d, i + 3))

\* Mutant: two bytes for a code point that needs three.
Utf8TooShort(cp) ==
  IF cp < 128 THEN <<cp>>
  ELSE IF cp <= 2048 THEN <<192 + (cp \div 64), 128 + (cp % 64)>>
  ELSE <<224 + (cp \div 4096), 128 + ((cp \div 64) % 64), 128 + (cp % 64)>>

\* push_utf8.
Utf8(cp) ==
  IF cp < 128 THEN <<cp>>
  ELSE IF cp < 2048 THEN <<192 + (cp \div 64), 128 + (cp % 64)>>
  ELSE <<224 + (cp \div 4096), 128 + ((cp \div 64) % 64), 128 + (cp % 64)>>

BadString == [at |-> Fail, out |-> <<>>]

\* One turn of parse_string's loop that does not end the string: the bytes that it
\* decodes at i, and where it goes on.
ParsedUnit(d, i) ==
  LET c == At(d, i)
      e == At(d, i + 1)
      cp == CodePoint(d, i + 2)
  IN  IF c \notin Controls \cup {Backslash, NoByte} THEN [at |-> i + 1, out |-> <<c>>]
      ELSE IF c = Backslash /\ e \in DOMAIN Unescaped
        THEN [at |-> i + 2, out |-> <<Unescaped[e]>>]
      ELSE IF c = Backslash /\ e = LowerU /\ IsHex(d, i + 2) /\ cp \notin SURROGATES
        THEN [at |-> i + 6, out |-> Utf8(cp)]
      ELSE BadString

\* parse_string, from the opening quote: where the string ends, and what it says.
ParseString(d, i) ==
  LET end[j \in 0 .. Len(d) + 1] ==
        IF j = Fail THEN Fail
        ELSE IF At(d, j) = Quote THEN j + 1
        ELSE end[ParsedUnit(d, j).at]
      out[j \in 0 .. Len(d) + 1] ==
        IF j = Fail \/ At(d, j) = Quote THEN <<>>
        ELSE ParsedUnit(d, j).out \o out[ParsedUnit(d, j).at]
  IN  IF At(d, i) = Quote THEN [at |-> end[i + 1], out |-> out[i + 1]] ELSE BadString

\* Mutant: the validator is not aware of escapes.
ValidUnitNoEscapes(d, i) == IF At(d, i) \notin Controls \cup {NoByte} THEN i + 1 ELSE Fail

\* One turn of validate_string's loop: the same grammar without decoding; a lone
\* surrogate half passes.
ValidUnit(d, i) ==
  LET c == At(d, i)
      e == At(d, i + 1)
  IN  IF c \notin Controls \cup {Backslash, NoByte} THEN i + 1
      ELSE IF c = Backslash /\ e \in DOMAIN Unescaped THEN i + 2
      ELSE IF c = Backslash /\ e = LowerU /\ IsHex(d, i + 2) THEN i + 6
      ELSE Fail

ValidateString(d, i) ==
  LET rest[j \in 0 .. Len(d) + 1] ==
        IF j = Fail THEN Fail
        ELSE IF At(d, j) = Quote THEN j + 1
        ELSE rest[ValidUnit(d, j)]
  IN  IF At(d, i) = Quote THEN rest[i + 1] ELSE Fail

Base64Url == Digits \cup (65 .. 90) \cup (97 .. 122) \cup {45, 95}

IsBase64UrlNoPad(v) == v # <<>> /\ \A k \in DOMAIN v : v[k] \in Base64Url

-----------------------------------------------------------------------------
(* Numbers. *)

SomeDigits(d, i) == IF At(d, i) \in Digits THEN SkipAll(d, i, Digits) ELSE Fail

\* Mutant: a leading zero may be followed by digits.
ValidateNumberLoose(d, i) ==
  LET int == SomeDigits(d, IF At(d, i) = Minus THEN i + 1 ELSE i)
      frac == IF At(d, int) = Dot THEN SomeDigits(d, int + 1) ELSE int
      digits == IF At(d, frac + 1) \in Signs THEN frac + 2 ELSE frac + 1
  IN  IF At(d, frac) \in Exponents THEN SomeDigits(d, digits) ELSE frac

ValidateNumber(d, i) ==
  LET first == IF At(d, i) = Minus THEN i + 1 ELSE i
      int == IF At(d, first) = Zero THEN first + 1 ELSE SomeDigits(d, first)
      frac == IF At(d, int) = Dot THEN SomeDigits(d, int + 1) ELSE int
      digits == IF At(d, frac + 1) \in Signs THEN frac + 2 ELSE frac + 1
  IN  IF At(d, frac) \in Exponents THEN SomeDigits(d, digits) ELSE frac

-----------------------------------------------------------------------------
(* UTF-8. *)

\* core::str::from_utf8, one character: what UTF-8 can spell, shortest form, no
\* surrogates.
Continuation == 128 .. 191
Utf8Char(c) ==
  \/ Len(c) = 1 /\ c[1] < 128
  \/ Len(c) = 2 /\ c[1] \in 194 .. 223 /\ c[2] \in Continuation
  \/ /\ Len(c) = 3 /\ c[1] \in 224 .. 239 /\ {c[2], c[3]} \subseteq Continuation
     /\ c[1] = 224 => c[2] >= 160
     /\ c[1] = 237 => c[2] < 160
  \/ /\ Len(c) = 4 /\ c[1] \in 240 .. 244 /\ {c[2], c[3], c[4]} \subseteq Continuation
     /\ c[1] = 240 => c[2] >= 144
     /\ c[1] = 244 => c[2] < 144

=============================================================================
