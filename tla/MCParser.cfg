\* Well-formed programs and every fragment of at most three tokens.
CONSTANTS
  Sources <- AllSources
  MaxExpressionDepth = 5
  MaxExpressionOperators = 3
  MaxBlockDepth = 3
  MaxLinkedExpressionDepth = 4
  Length = 3
SPECIFICATION Spec
INVARIANTS WellFormedParsed SkipsReported
PROPERTY Terminates
CHECK_DEADLOCK FALSE
