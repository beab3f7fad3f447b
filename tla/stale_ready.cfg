SPECIFICATION AllocatedSafetySpec
CONSTANTS
  Procs = {p1}
  Commands = {"create", "stop"}
  MaxClaims = 1
  Alloc = "dev"
  SandboxNames = {"dev"}
  Policies = {"Delete"}
  Legacies = {"none"}
INVARIANT SuspendedIsDetached
