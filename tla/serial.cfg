SPECIFICATION NamedSpec
CONSTANTS
  Procs = {p1}
  Commands = {"create", "connect", "disconnect", "stop", "resume", "delete"}
  MaxClaims = 2
  Alloc = "dev"
  SandboxNames = {"dev", "standby"}
  Policies = {"Delete", "Retain"}
  Legacies = {"none", "available", "restoring"}
INVARIANTS
  TypeOK
  SerialInv
  DeletionOnRecord
  NoLinkLeftBehind
  EnabledIsLive
  StoppedIsDetached
PROPERTIES
  CustodyKept
  NeverReadopted
  EraseOnlyRetired
