\* Every block of three statements in each position, and larger bodies.
CONSTANTS
  MaxEvents = 7
  BlockLength = 4
  Bodies <- AllBodies
  Compile <- Lower
SPECIFICATION Spec
INVARIANTS LoweringExact
CHECK_DEADLOCK FALSE
