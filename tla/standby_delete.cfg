SPECIFICATION AllocatedSpec
CONSTANTS
  Procs = {p1}
  Commands = {"delete"}
  MaxClaims = 1
  Alloc = "dev"
  SandboxNames = {"standby"}
  Policies = {"Delete"}
  Legacies = {"none"}
CHECK_DEADLOCK FALSE
PROPERTY RetainedIsErased
