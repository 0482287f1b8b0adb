------------------------------ MODULE StrictJson ------------------------------
(***************************************************************************)
(* What the scanner of ClientData promises, said without scanning: a document *)
(* is cut into tokens by counting quotes and backslashes, and is the client    *)
(* data of a passkey when every token may stand where it stands. A reference   *)
(* to compare ParseStrict with, written from the grammar of JSON and the rules *)
(* (a) to (g) at the head of root_verify/client_data.rs.                       *)
(***************************************************************************)
EXTENDS ClientData, JsonLexemes

\* Kinds of tokens: a structural byte is its own.
Text == Quote
Bare == 0
Structural == {LBrace, RBrace, LBracket, RBracket, Colon, Comma}

\* The positions of a set, in order.
Ascending(S) ==
  IF S = {} THEN <<>> ELSE SelectSeq([p \in 1 .. Max(S) |-> p], LAMBDA p : p \in S)

\* Opening and closing quotes alternate; a string runs from one to the next.
Quotes(d) == Ascending({p \in DOMAIN d : d[p] = Quote /\ ~Escaped(d, p)})
Strings(d) ==
  LET q == Quotes(d)
  IN  {<<q[2 * n - 1], q[2 * n]>> : n \in 1 .. Len(q) \div 2}

\* The tokens in order, each with the bytes from .. to of the document.
Tokens(d) ==
  LET strings == Strings(d)
      quoted == UNION {s[1] .. s[2] : s \in strings}
      bare == {p \in DOMAIN d \ quoted : d[p] \notin Structural \cup Whitespace}
      Kind(p) == IF p \in quoted THEN Text ELSE IF p \in bare THEN Bare ELSE d[p]
      Ends(p) ==
        CASE p \in quoted -> (CHOOSE s \in strings : s[1] = p)[2]
          [] p \in bare -> Min({q \in p + 1 .. Len(d) + 1 : q \notin bare}) - 1
          [] OTHER -> p
      starts == {s[1] : s \in strings} \cup {p \in bare : p - 1 \notin bare}
                  \cup {p \in DOMAIN d \ quoted : d[p] \in Structural}
      at == Ascending(starts)
  IN  [n \in DOMAIN at |-> [kind |-> Kind(at[n]), from |-> at[n], to |-> Ends(at[n])]]

Pairs == {<<LBrace, RBrace>>, <<LBracket, RBracket>>}
Opens(t) == t.kind \in Openers
Closes(t) == t.kind \in {RBrace, RBracket}

\* How many containers are open before the n-th token, and the innermost one.
Depth(T, n) ==
  Cardinality({m \in 1 .. n - 1 : Opens(T[m])}) - Cardinality({m \in 1 .. n - 1 : Closes(T[m])})
Enclosing(T, n) ==
  Max({m \in 1 .. n - 1 : Opens(T[m]) /\ Depth(T, m) + 1 = Depth(T, n)})

IsKey(T, n) ==
  /\ T[n].kind = Text
  /\ T[Enclosing(T, n)].kind = LBrace
  /\ T[n - 1].kind \in {LBrace, Comma}

EndsValue(T, n) ==
  Closes(T[n]) \/ T[n].kind = Bare \/ (T[n].kind = Text /\ ~IsKey(T, n))

\* The n-th token may follow the one before it, inside its container.
MayStand(T, n) ==
  LET container == T[Enclosing(T, n)].kind
      before == T[n - 1].kind
  IN  /\ Depth(T, n) >= 1
      /\ CASE T[n].kind = Colon -> IsKey(T, n - 1)
           [] T[n].kind = Comma -> n > 2 /\ EndsValue(T, n - 1)
           [] Closes(T[n]) ->
                /\ <<container, T[n].kind>> \in Pairs
                /\ n - 1 = Enclosing(T, n) \/ EndsValue(T, n - 1)
           [] OTHER -> IF container = LBrace THEN IsKey(T, n) \/ before = Colon
                       ELSE before \in {LBracket, Comma}

BracketsAndCommas(T) ==
  /\ T # <<>> /\ T[1].kind = LBrace
  /\ T[Len(T)].kind = RBrace /\ Depth(T, Len(T)) = 1
  /\ \A n \in 2 .. Len(T) : MayStand(T, n) /\ (Opens(T[n]) => Depth(T, n) <= MAX_JSON_DEPTH)

\* Inside a string: no control bytes, and every escape is a legal one.
StringOK(d, t) ==
  \A p \in t.from + 1 .. t.to - 1 :
    /\ d[p] \notin Controls
    /\ (d[p] = Backslash /\ ~Escaped(d, p)) =>
         d[p + 1] \in DOMAIN Unescaped \/ (d[p + 1] = LowerU /\ IsHex(d, p + 2))

Bytes(d, t) == SubSeq(d, t.from, t.to)

TokenOK(d, t) ==
  CASE t.kind = Text -> StringOK(d, t)
    [] t.kind = Bare -> \/ Bytes(d, t) \in {TRUE_LIT, FALSE_LIT, NULL_LIT}
                          \/ IsNumber(Bytes(d, t))
    [] OTHER -> TRUE

\* What a whole string spells.
Spelled(d, t) ==
  LET unicode == UnicodeEscapes(d, t)
      hex == UNION {p + 2 .. p + 5 : p \in unicode}
      units == Ascending({p \in t.from + 1 .. t.to - 1 : ~Escaped(d, p) /\ p \notin hex})
  IN  FlattenSeq([n \in DOMAIN units |->
        CASE units[n] \in unicode -> Utf8(CodePoint(d, units[n] + 2))
          [] d[units[n]] = Backslash -> <<Unescaped[d[units[n] + 1]]>>
          [] OTHER -> <<d[units[n]]>>])

\* The value under a decoded depth-0 key, in what a passkey may have signed.
GenuineValue(d, key, value) ==
  /\ key \in {TYPE_KEY, CHALLENGE_KEY, ORIGIN_KEY} => value.kind = Text /\ SurrogateFree(d, value)
  /\ key = CHALLENGE_KEY => IsBase64UrlNoPad(Spelled(d, value))
  /\ key = CROSS_ORIGIN_KEY => value.kind = Bare /\ Bytes(d, value) \in {TRUE_LIT, FALSE_LIT}

\* The depth-0 keys, decoded, by the token that spells them.
TopKeys(d, T) ==
  [n \in {m \in DOMAIN T : m > 1 /\ Depth(T, m) = 1 /\ IsKey(T, m)} |-> Spelled(d, T[n])]

GenuineKeys(d, T, keys) ==
  /\ \A n \in DOMAIN keys : SurrogateFree(d, T[n]) /\ GenuineValue(d, keys[n], T[n + 2])
  /\ IsInjective(keys)
  /\ {TYPE_KEY, CHALLENGE_KEY, ORIGIN_KEY} \subseteq {keys[n] : n \in DOMAIN keys}

InLanguage(d) ==
  LET T == Tokens(d)
  IN  /\ Len(d) <= MAX_CLIENT_DATA_LEN
      /\ IsUtf8From(d, 1)
      /\ Len(Quotes(d)) % 2 = 0
      /\ BracketsAndCommas(T)
      /\ \A n \in DOMAIN T : TokenOK(d, T[n])
      /\ GenuineKeys(d, T, TopKeys(d, T))

\* What the tokens of a document say at depth 0, under these keys.
TopValues(d, T, keys) ==
  LET value == [n \in DOMAIN keys |-> T[n + 2]]
      Under(key) == CHOOSE n \in DOMAIN keys : keys[n] = key
      said == [key \in {TYPE_KEY, CHALLENGE_KEY, ORIGIN_KEY} |-> Spelled(d, value[Under(key)])]
  IN  [typ |-> said[TYPE_KEY], challenge |-> said[CHALLENGE_KEY], origin |-> said[ORIGIN_KEY],
       cross_origin_true |-> \E n \in DOMAIN keys :
         keys[n] = CROSS_ORIGIN_KEY /\ Bytes(d, value[n]) = TRUE_LIT]

Meaning(d) == LET T == Tokens(d) IN TopValues(d, T, TopKeys(d, T))

=============================================================================
