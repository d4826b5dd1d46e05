CONSTANTS
  Words = {"n"}
  TextLength = 4
  ReaderSteps = 4
  MaxRounds = 3
  None = "none"
  Platform = "windows"
  IntBits = 4
  CharBits = 3
  ByteBits = 2
  VolumeBits = 2
  LiteralLength = 5
  Found <- FoundMethod
  Fate <- FateOf
  BodyFor <- BodyOf
  ImplementationsFor <- ImplementationsOf
  BindingFor <- BindingOf
  NoSymbol = NoSymbol
  WideChar = 2
  LaidFor <- LaidOf
  ReadFor <- ReadOf
  LoadedFor <- LoadedOf
  MaxLines = 2
  HostedFor <- HostedOf
  CollectedFor <- CollectedOf
  BoundFor <- BoundOf
SPECIFICATION Spec
INVARIANTS TokensExact FlowSound ResolutionSound WellTyped AcceptedImplements SlotsExact ReadersSeeEmitted LayoutsAgree LoadOrderSound HostsSound MembersPlaced NamesResolved
PROPERTY ValuesExact
CHECK_DEADLOCK FALSE
