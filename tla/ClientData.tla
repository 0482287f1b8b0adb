------------------------------ MODULE ClientData ------------------------------
(***************************************************************************)
(* The strict scanner of clientDataJSON (root_verify/client_data.rs): whole    *)
(* values and the document, over the strings and numbers of Scanner.           *)
(***************************************************************************)
EXTENDS Scanner

CONSTANTS
  MAX_CLIENT_DATA_LEN,   \* 512
  MAX_JSON_DEPTH,        \* 16
  TYPE_KEY, CHALLENGE_KEY, ORIGIN_KEY, CROSS_ORIGIN_KEY,   \* the keys read, as bytes
  TRUE_LIT, FALSE_LIT, NULL_LIT            \* the literals, as bytes

ASSUME ClientDataAssumption ==
  /\ MAX_CLIENT_DATA_LEN \in Nat /\ MAX_JSON_DEPTH \in Nat
  /\ \A s \in {TYPE_KEY, CHALLENGE_KEY, ORIGIN_KEY, CROSS_ORIGIN_KEY, TRUE_LIT, FALSE_LIT, NULL_LIT} :
       s \in Seq(Byte) /\ s # <<>>
  /\ IsInjective(<<TYPE_KEY, CHALLENGE_KEY, ORIGIN_KEY, CROSS_ORIGIN_KEY>>)
  /\ IsInjective(<<TRUE_LIT[1], FALSE_LIT[1], NULL_LIT[1]>>)

Comma == 44
Colon == 58
LBracket == 91
RBracket == 93
LBrace == 123
RBrace == 125

Whitespace == {32, 9, 10, 13}
Openers == {LBrace, LBracket}

\* Mutant: an array is closed as an object is.
CloserOfObject(opener) == RBrace

CloserOf(opener) == IF opener = LBrace THEN RBrace ELSE RBracket

Expect(d, i, want) == IF At(d, i) = want THEN i + 1 ELSE Fail

SkipWs(d, i) == SkipAll(d, i, Whitespace)

ExpectLiteral(d, i, lit) ==
  IF \A k \in DOMAIN lit : At(d, i + k - 1) = lit[k] THEN i + Len(lit) ELSE Fail

-----------------------------------------------------------------------------
(* Whole values. *)

Scalar(d, i) ==
  LET c == At(d, i)
  IN  CASE c = Quote -> ValidateString(d, i)
        [] c = TRUE_LIT[1] -> ExpectLiteral(d, i, TRUE_LIT)
        [] c = FALSE_LIT[1] -> ExpectLiteral(d, i, FALSE_LIT)
        [] c = NULL_LIT[1] -> ExpectLiteral(d, i, NULL_LIT)
        [] c \in Digits \cup {Minus} -> ValidateNumber(d, i)
        [] OTHER -> Fail

MemberKeyAndColon(d, i) ==
  Expect(d, SkipWs(d, ValidateString(d, SkipWs(d, i))), Colon)

\* What comes next inside a container: a value, after its key in an object.
NextElement(d, i, opener) == IF opener = LBrace THEN MemberKeyAndColon(d, i) ELSE i

RECURSIVE ValueFrom(_, _, _), ValueEnded(_, _, _)

\* A value begins at i, inside the containers whose openers are on the stack.
ValueFrom(d, i, stack) ==
  LET v == SkipWs(d, i)
      c == At(d, v)
      inside == SkipWs(d, v + 1)
  IN  IF c \notin Openers THEN ValueEnded(d, Scalar(d, v), stack)
      ELSE IF Len(stack) = MAX_JSON_DEPTH THEN Fail
      ELSE IF At(d, inside) = CloserOf(c) THEN ValueEnded(d, inside + 1, stack)
      ELSE ValueFrom(d, NextElement(d, inside, c), Append(stack, c))

\* A value ended before i: close its container, or go on after a comma.
ValueEnded(d, i, stack) ==
  LET j == SkipWs(d, i)
      opener == Last(stack)
  IN  IF i = Fail \/ stack = <<>> THEN i
      ELSE IF At(d, j) = CloserOf(opener) THEN ValueEnded(d, j + 1, Front(stack))
      ELSE IF At(d, j) = Comma THEN ValueFrom(d, NextElement(d, j + 1, opener), stack)
      ELSE Fail

SkipValue(d, i) == ValueFrom(d, i, <<>>)

-----------------------------------------------------------------------------
(* The document. *)

\* The value of crossOrigin.
ParseBool(d, i) ==
  LET isTrue == ExpectLiteral(d, i, TRUE_LIT)
  IN  IF isTrue # Fail THEN [at |-> isTrue, out |-> TRUE]
      ELSE [at |-> ExpectLiteral(d, i, FALSE_LIT), out |-> FALSE]

Rejected == [at |-> Fail]

\* Mutant: a key seen before is taken again, and the last one counts.
KeyAllowedAnyway(key, got) == TRUE

KeyAllowed(key, got) == key \notin got.seen

\* A member with this decoded key at depth 0; got is what was read before it.
Member(d, key, got) ==
  LET i == SkipWs(d, Expect(d, SkipWs(d, key.at), Colon))
      str == ParseString(d, i)
      bool == ParseBool(d, i)
      read == [got EXCEPT !.seen = @ \cup {key.out}]
  IN  IF key.at = Fail \/ ~KeyAllowed(key.out, got) THEN Rejected
      ELSE CASE key.out = TYPE_KEY -> [read EXCEPT !.at = str.at, !.typ = <<str.out>>]
        [] key.out = CHALLENGE_KEY ->
             [read EXCEPT !.at = IF IsBase64UrlNoPad(str.out) THEN str.at ELSE Fail,
                          !.challenge = <<str.out>>]
        [] key.out = ORIGIN_KEY -> [read EXCEPT !.at = str.at, !.origin = <<str.out>>]
        [] key.out = CROSS_ORIGIN_KEY ->
             [read EXCEPT !.at = bool.at, !.cross_origin_true = bool.out]
        [] OTHER -> [read EXCEPT !.at = SkipValue(d, i)]

RECURSIVE Members(_, _)
Members(d, got) ==
  LET i == SkipWs(d, got.at)
      k == IF got.seen = {} THEN i ELSE SkipWs(d, Expect(d, i, Comma))
  IN  IF got.at = Fail THEN Rejected
      ELSE IF At(d, i) = RBrace THEN [got EXCEPT !.at = i + 1]
      ELSE Members(d, Member(d, ParseString(d, k), got))

\* core::str::from_utf8.
RECURSIVE IsUtf8From(_, _)
IsUtf8From(d, i) ==
  \/ i > Len(d)
  \/ \E j \in i .. i + 3 :
       j <= Len(d) /\ Utf8Char(SubSeq(d, i, j)) /\ IsUtf8From(d, j + 1)

NothingRead ==
  [seen |-> {}, typ |-> <<>>, challenge |-> <<>>, origin |-> <<>>,
   cross_origin_true |-> FALSE]

\* parse_strict: the unique decoded depth-0 values, or Rejected.
ParseStrict(d) ==
  LET body == Expect(d, SkipWs(d, 1), LBrace)
      got == Members(d, NothingRead @@ [at |-> body])
  IN  IF \/ Len(d) > MAX_CLIENT_DATA_LEN
         \/ ~IsUtf8From(d, 1)
         \/ got.at = Fail
         \/ SkipWs(d, got.at) # Len(d) + 1
         \/ <<>> \in {got.typ, got.challenge, got.origin}
        THEN Rejected
        ELSE [typ |-> got.typ[1], challenge |-> got.challenge[1],
              origin |-> got.origin[1], cross_origin_true |-> got.cross_origin_true]

Accepts(d) == ParseStrict(d) # Rejected

=============================================================================
