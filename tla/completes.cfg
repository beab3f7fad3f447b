SPECIFICATION WantedSpec
CONSTANTS
  Procs = {p1, p2}
  Commands = {"create", "stop", "resume", "delete"}
  MaxClaims = 1
  Alloc = "dev"
  SandboxNames = {"dev", "standby"}
  Policies = {"Delete"}
  Legacies = {"none"}
CHECK_DEADLOCK FALSE
PROPERTIES
  Created
  DeletedForGood
  EraseOnlyRetired
