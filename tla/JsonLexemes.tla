------------------------------ MODULE JsonLexemes ------------------------------
(***************************************************************************)
(* The numbers and strings of JSON, said without scanning: what the operators  *)
(* of Scanner are compared with.                                              *)
(***************************************************************************)
EXTENDS Scanner, FiniteSetsExt

\* An odd run of backslashes before a byte escapes it.
Escaped(d, p) ==
  (p - 1 - Max({q \in 0 .. p - 1 : q = 0 \/ At(d, q) # Backslash})) % 2 = 1

\* The \u escapes of the string in a token.
UnicodeEscapes(d, t) ==
  {p \in t.from + 1 .. t.to - 1 :
     d[p] = Backslash /\ ~Escaped(d, p) /\ At(d, p + 1) = LowerU}

SurrogateFree(d, t) == \A p \in UnicodeEscapes(d, t) : CodePoint(d, p + 2) \notin SURROGATES

AllDigits(s) == s # <<>> /\ \A k \in DOMAIN s : s[k] \in Digits

\* -?(0|[1-9][0-9]*)(\.[0-9]+)?([eE][+-]?[0-9]+)?
IsNumber(s) ==
  \E a \in 0 .. 1, b, c \in 0 .. Len(s) :
    LET int == SubSeq(s, a + 1, b)
        frac == SubSeq(s, b + 1, c)
        exp == SubSeq(s, c + 1, Len(s))
    IN  /\ a <= b /\ b <= c
        /\ a = 1 => s[1] = Minus
        /\ AllDigits(int) /\ (int[1] = Zero => Len(int) = 1)
        /\ frac = <<>> \/ (frac[1] = Dot /\ AllDigits(Tail(frac)))
        /\ \/ exp = <<>>
           \/ /\ exp[1] \in Exponents
              /\ \/ AllDigits(Tail(exp))
                 \/ Len(exp) > 1 /\ exp[2] \in Signs /\ AllDigits(SubSeq(exp, 3, Len(exp)))

=============================================================================
