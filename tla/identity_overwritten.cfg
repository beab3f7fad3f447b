SPECIFICATION Spec
CONSTANTS
  Procs = {p1, p2}
  Commands = {"connect"}
  Sandboxes = {s1}
  Identities = {i1, i2}
  Authorized = {i1, i2}
  HostKeys = {k1}
  MaxMachines = 2
  Overlap = TRUE
  Nil = Nil
PROPERTY ConnectedKept
