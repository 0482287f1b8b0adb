------------------------------ MODULE MCFunctions ------------------------------
(* The functions of the program and of its client that keep no state, each given *)
(* inputs of its own: a behaviour is about one of them and builds up its input    *)
(* step by step.                                                               *)
EXTENDS MCPolicy, MCClientData, MCLexemes, MCTranscript

VARIABLE about   \* the function

vars == <<about, policyVars, docVars, lexemeVars, documentVars, mirrorVars>>

Functions ==
  {"PolicyArgs::expand", "parse_strict", "Scanner", "transcript_hash", "transcriptHash"}

Init ==
  /\ about \in Functions
  /\ IF about = "PolicyArgs::expand" THEN InitPolicy ELSE NoPolicy
  /\ IF about = "parse_strict" THEN InitClientData ELSE doc = <<>> /\ edits = 0
  /\ IF about = "Scanner" THEN InitLexeme ELSE NoLexeme
  /\ IF about = "transcript_hash" THEN InitDocument ELSE NoDocument
  /\ IF about = "transcriptHash" THEN InitMirror ELSE NoInput

Next ==
  \/ /\ about = "PolicyArgs::expand" /\ Create
     /\ UNCHANGED <<about, docVars, lexemeVars, documentVars, mirrorVars>>
  \/ /\ about = "parse_strict" /\ EditClientData
     /\ UNCHANGED <<about, policyVars, lexemeVars, documentVars, mirrorVars>>
  \/ /\ about = "Scanner" /\ WriteLexeme
     /\ UNCHANGED <<about, policyVars, docVars, documentVars, mirrorVars>>
  \/ /\ about = "transcript_hash" /\ ChooseDocument(MCDocuments)
     /\ UNCHANGED <<about, policyVars, docVars, lexemeVars, mirrorVars>>
  \/ /\ about = "transcriptHash" /\ ChangeInput
     /\ UNCHANGED <<about, policyVars, docVars, lexemeVars, documentVars>>

Spec == Init /\ [][Next]_vars

=============================================================================
