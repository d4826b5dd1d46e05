----------------------------- MODULE MCFrontEnd -----------------------------
(***************************************************************************)
(* The pure parts of the compiler and the library, one input at a time.    *)
(***************************************************************************)
EXTENDS MCLexer, MCFlow, MCExpressions, MCDeclarations, MCNames, MCCode, MCHosts

Parts == {"LexText", "ReadTokens", "AnalyzeMember", "SpreadEffects", "Assign", "Resolve", "BindExpression", "BindMember", "Compute", "ReadLiteral",
          "Implement", "Lay", "Collect", "CollectEnum", "BindNames", "BindUses", "Encode", "Intern", "Layout", "Compare", "Load", "Start", "Enter", "Converse"}
Init == job \in {Question(part) : part \in Parts}
Next ==
  \/ LexText \/ ReadTokens
  \/ AnalyzeMember \/ SpreadEffects
  \/ Assign \/ Resolve
  \/ BindExpression \/ BindMember
  \/ Compute \/ ReadLiteral
  \/ Implement \/ Lay
  \/ Collect \/ CollectEnum
  \/ BindNames \/ BindUses
  \/ Encode \/ Intern
  \/ Layout
  \/ Compare \/ Load
  \/ Start \/ Enter \/ Converse
Spec == Init /\ [][Next]_job
=============================================================================
