SPECIFICATION FairSpec
CONSTANTS
  Procs = {p1, p2}
  Commands = {"connect"}
  Sandboxes = {s1, s2}
  Identities = {i1, i2}
  Authorized = {i1}
  HostKeys = {k1}
  MaxMachines = 2
  Overlap = FALSE
  Nil = Nil
PROPERTY ConnectCompletes
