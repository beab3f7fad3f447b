SPECIFICATION Spec
CONSTANTS
  Procs = {p1}
  Commands = {"connect", "disconnect", "delete"}
  Sandboxes = {s1, s2}
  Identities = {i1, i2}
  Authorized = {i1}
  HostKeys = {k1, k2}
  MaxMachines = 3
  Overlap = FALSE
  Nil = Nil
INVARIANTS
  IncludeInv
  TypeOK
  ConnectedIsComplete
  IncludeFollowsRecord
  OneMachine
  NoStrayFiles
PROPERTIES
  PinKept
  ConnectedKept
  MachineGoesFirst
SYMMETRY Symmetry
