SPECIFICATION FairStatusSpec
CONSTANTS
  Procs = {p1}
  Commands = {"create", "connect", "stop", "delete"}
  MaxClaims = 1
  Alloc = "dev"
  SandboxNames = {"dev"}
  Policies = {"Delete"}
  Legacies = {"none"}
INVARIANTS
  StatusTypeOK
  StatusInv
  MissingIsReal
  ReadyWasAttached
  StoppedCanResume
PROPERTY ListSettles
