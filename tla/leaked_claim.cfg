SPECIFICATION AllocatedSpec
CONSTANTS
  Procs = {p1}
  Commands = {"create", "delete"}
  MaxClaims = 2
  Alloc = "dev"
  SandboxNames = {"dev"}
  Policies = {"Delete"}
  Legacies = {"none"}
CHECK_DEADLOCK FALSE
PROPERTY BoundIsDeleted
