\* Every boot graph over two organs and the Spine, circular ones too
CONSTANTS
  a = a
  typo = typo
  Unknown = {typo}
  Organ = {a, b}
  Spine = Spine
  MaxRetries = 2
  Registered = {a, b, Spine}
  AskedFor <- MC_AskedFor
SPECIFICATION FleetFairSpec
CHECK_DEADLOCK FALSE
INVARIANTS
  SortRight
  ReadyWasComplete
PROPERTIES
  CompletePasses
  StartEnds
  ChildrenEnd
