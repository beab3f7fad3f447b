SPECIFICATION SteadySafetySpec
CONSTANTS
  Procs = {p1, p2}
  Commands = {"create", "delete"}
  MaxClaims = 2
  Alloc = "dev"
  SandboxNames = {"dev"}
  Policies = {"Delete"}
  Legacies = {"none"}
INVARIANTS
  OneManagedRecord
  Exclusive
  RetiredInv
PROPERTIES
  RecordOutlivesStorage
  BoundRecordFixed
  CustodyKept
SYMMETRY Symmetry
