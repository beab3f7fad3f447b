SPECIFICATION Spec
CONSTANTS
  Containers <- MCContainers
  Volumes <- MCVolumes
  Claims <- MCClaims
  Ports = {0, 22, 65536}
  Nil = "nil"
CHECK_DEADLOCK FALSE
INVARIANTS
  GateTypeOK
  ApprovedIsServed
