CONSTANTS
  Conns = {"c1", "c2"}
  Docs = {d1, d2}
  Characters <- MCCharacters
  Contents <- MCContents
  Positions <- MCPositions
  Inserted <- MCInserted
  Kinds = {"initialize", "notification", "exit"}
  MaxThreads = 2
  Budgets <- MCBudgets
  Fickle = {"c1"}
SPECIFICATION Spec
INVARIANTS AnswersSound DiagnosticsCurrent
PROPERTIES RequestsAnswered ConnectionsEnd
CHECK_DEADLOCK FALSE
