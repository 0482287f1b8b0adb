----------------------------- MODULE MCClientData -----------------------------
(* ParseStrict against the reference of StrictJson, over documents made from    *)
(* well-formed ones by one or two single-byte edits. Keys are one byte long ("y" *)
(* for type, "c", "o", "x"), literals two; everything else is as in the code.    *)
EXTENDS StrictJson

VARIABLES
  doc,    \* a document
  edits   \* how many edits more it may get

docVars == <<doc, edits>>

\* The bytes an edit may insert or write over another: all that a scanner could tell
\* apart, and where two edits are made, those that end or hide what was there.
AnyBytes ==
  {9, 31, 32, 34, 44, 45, 46, 47, 48, 49, 57, 58, 91, 92, 93, 97, 98, 99, 101, 111, 114, 116,
   117, 120, 121, 123, 125, 169, 195}
StructuralBytes == {34, 44, 92, 125}

Edited(d) == doc' = d /\ edits' = edits - 1

Insert(bytes) == \E k \in 1 .. Len(doc) + 1, b \in bytes : Edited(InsertAt(doc, k, b))
Delete == \E k \in 1 .. Len(doc) : Edited(RemoveAt(doc, k))
Overwrite(bytes) == \E k \in 1 .. Len(doc), b \in bytes : Edited(ReplaceAt(doc, k, b))

-----------------------------------------------------------------------------
(* Values for the constants, and the documents that the edits start from. *)

MCType == <<121>>
MCChallenge == <<99>>
MCOrigin == <<111>>
MCCrossOrigin == <<120>>
MCTrue == <<116, 114>>
MCFalse == <<102, 97>>
MCNull == <<110, 117>>

Str(s) == <<Quote>> \o s \o <<Quote>>
KV(k, v) == Str(k) \o <<Colon>> \o v
List(items) ==
  FoldLeft(LAMBDA done, item : IF done = <<>> THEN item ELSE done \o <<Comma>> \o item,
           <<>>, items)
Obj(members) == <<LBrace>> \o List(members) \o <<RBrace>>
Arr(items) == <<LBracket>> \o List(items) \o <<RBracket>>
Escape(hex) == <<Backslash, LowerU>> \o hex

Letter == <<98>>
Signed3 == <<KV(MCType, Str(Letter)), KV(MCChallenge, Str(Letter)), KV(MCOrigin, Str(Letter))>>

\* {"y":"b","c":"b","o":"b"} with an unknown member, with a crossOrigin, and with
\* keys that are spelled with escapes.
MCPlain == {Obj(Signed3 \o <<KV(Letter, <<Zero>>)>>)}
MCCross == Obj(Signed3 \o <<KV(MCCrossOrigin, MCFalse)>>)
MCEscapedKeys ==
  Obj(<<KV(MCOrigin, Str(<<Backslash, 47>>)),
        KV(Escape(<<48, 48, 55, 57>>), Str(Escape(<<48, 48, 101, 57>>))),
        KV(MCChallenge, Str(Letter))>>)

\* An unknown member: nested objects that name the keys, strings that end in an
\* escaped quote, lists, numbers, literals; containers inside one another up to
\* the limit. A plain string, whose key an edit turns into a second one of another.
MCPlainString == Obj(<<KV(Letter, Str(Letter))>> \o Signed3)
MCNested ==
  Obj(<<KV(Letter, Obj(<<KV(MCOrigin, Arr(<<>>))>>))>> \o Signed3)
MCEscapedQuote ==
  Obj(<<KV(Letter, Str(<<Backslash, Quote, Comma, Backslash, Quote, MCOrigin[1],
                         Backslash, Backslash>>))>> \o Signed3)
MCListed ==
  Obj(Signed3 \o <<KV(Letter, Arr(<<<<Minus, 49, Dot, 48>>, Str(<<Backslash, Backslash>>),
                                    MCNull>>))>>)
MCDeepest(closed) == Obj(<<KV(Letter, Arr(<<Arr(closed)>>))>> \o Signed3)
MCAtLimit == MCDeepest(<<>>)
MCTooDeep == MCDeepest(<<Arr(<<>>)>>)
MCSpread == <<32>> \o Obj(<<KV(Letter, Arr(<<Obj(<<>>)>>))>> \o Signed3) \o <<10>>
MCUtf8 == Obj(<<KV(<<195, 169>>, <<Zero>>)>> \o Signed3)

MCRich ==
  {MCPlainString, MCCross, MCEscapedKeys, MCNested, MCEscapedQuote, MCListed, MCAtLimit,
   MCTooDeep, MCSpread, MCUtf8}

-----------------------------------------------------------------------------

InitClientData ==
  \/ doc \in MCPlain /\ edits = 2
  \/ doc \in MCRich /\ edits = 1

EditClientData ==
  /\ edits > 0
  /\ LET bytes == IF edits = 2 \/ doc \notin MCRich THEN StructuralBytes ELSE AnyBytes
     IN  Insert(bytes) \/ Delete \/ Overwrite(bytes)

-----------------------------------------------------------------------------

\* A document the program accepts is one strict JSON object, and the values it
\* takes are the ones the document gives at depth 0, decoded, once
\* (client_data.rs parse_strict: no key of a nested object or of a string with
\* escaped quotes, no later duplicate, no escaped spelling of a key gets in).
AcceptsOnlyTheGenuine == Accepts(doc) => InLanguage(doc) /\ ParseStrict(doc) = Meaning(doc)

\* A document a passkey may have signed is accepted: escapes, blanks, unknown
\* members and nesting up to the limit refuse nobody (client_data.rs parse_strict).
AcceptsAllTheGenuine == InLanguage(doc) => Accepts(doc)

=============================================================================
