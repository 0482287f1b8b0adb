-------------------------------- MODULE Lexemes --------------------------------
(***************************************************************************)
(* Any text, read by the scanner as a number, as a string and as an escape; and *)
(* any bytes, written as a challenge by the program and by its client, and read  *)
(* back by the scanner (root_verify/client_data.rs, transcript.rs; packages/core *)
(* transcript.ts).                                                            *)
(***************************************************************************)
EXTENDS Transcript, JsonLexemes

VARIABLES
  text,    \* what the scanner is given
  bytes    \* what a challenge is made from

AnyText == text \in Seq(Byte) /\ bytes \in Seq(Byte)

Rewrite == text' \in Seq(Byte) /\ bytes' \in Seq(Byte)

LexemesSpec == AnyText /\ [][Rewrite]_<<text, bytes>>

-----------------------------------------------------------------------------
(* Numbers and strings. *)

\* Where the scanner says a number ends, a number ends, and it goes no further
\* than digits, point and exponent do; where no number begins, it says so
\* (client_data.rs validate_number: no 01, 1., .5, -, 1e, 1e+).
NumbersAreJson ==
  LET end == ValidateNumber(text, 1)
      numbers == {k \in 1 .. Len(text) : IsNumber(SubSeq(text, 1, k))}
  IN  /\ end # Fail => end - 1 \in numbers
      /\ Len(text) \in numbers => end = Len(text) + 1

\* A string the decoder takes is one the validator takes, to the same byte, and the
\* other way round unless it names half a surrogate pair (client_data.rs
\* parse_string, validate_string: "the same grammar ... laxer" in one respect).
StringsAgree ==
  LET parsed == ParseString(text, 1)
      valid == ValidateString(text, 1)
  IN  /\ parsed.at # Fail => parsed.at = valid
      /\ valid # Fail =>
           (parsed.at = Fail <=> ~SurrogateFree(text, [from |-> 1, to |-> valid - 1]))

\* The code point that a UTF-8 character numbers.
Number(c) ==
  CASE Len(c) = 1 -> c[1]
    [] Len(c) = 2 -> 64 * (c[1] % 32) + (c[2] % 64)
    [] Len(c) = 3 -> 4096 * (c[1] % 16) + 64 * (c[2] % 64) + (c[3] % 64)

\* A \u escape decodes to the one UTF-8 character, in its shortest form, that its
\* four digits number, and to nothing when they number half of a pair
\* (client_data.rs hex4, push_utf8; D800 .. DFFF).
EscapesSpellUtf8 ==
  (Len(text) = 4 /\ IsHex(text, 1)) =>
    LET parsed == ParseString(<<Quote, Backslash, LowerU>> \o text \o <<Quote>>, 1)
        cp == CodePoint(text, 1)
    IN  IF cp \in SURROGATES THEN parsed.at = Fail
        ELSE parsed.at = 9 /\ Utf8Char(parsed.out) /\ Number(parsed.out) = cp

-----------------------------------------------------------------------------
(* Challenges. *)

\* RFC 4648: the bits in a row, first of the first byte first, zeros at the end, six
\* to a character.
Bit(i) ==
  IF i > 8 * Len(bytes) THEN 0
  ELSE (bytes[((i - 1) \div 8) + 1] \div 2 ^ (7 - ((i - 1) % 8))) % 2

InBits ==
  [k \in 1 .. ((8 * Len(bytes) + 5) \div 6) |->
     B64URL(32 * Bit(6 * k - 5) + 16 * Bit(6 * k - 4) + 8 * Bit(6 * k - 3)
            + 4 * Bit(6 * k - 2) + 2 * Bit(6 * k - 1) + Bit(6 * k))]

\* Program and client write a challenge alike and as RFC 4648 says, and the scanner
\* reads it back out of clientDataJSON as it was written: no character of it needs an
\* escape or is refused (transcript.rs b64url_no_pad, transcript.ts challengeB64Url,
\* client_data.rs is_b64url_no_pad).
ChallengesSurvive ==
  LET challenge == B64UrlNoPad(bytes)
      read == ParseString(<<Quote>> \o challenge \o <<Quote>>, 1)
  IN  /\ challenge = InBits
      /\ ChallengeB64Url(bytes) = challenge
      /\ read.at = Len(challenge) + 3 /\ read.out = challenge
      /\ bytes # <<>> => IsBase64UrlNoPad(challenge)

=============================================================================
