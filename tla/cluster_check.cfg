SPECIFICATION Spec
CONSTANTS
  Probes <- MCProbes
  Groups = {"agents"}
  Advisories = {"limits"}
  Permissions = {"get", "list", "create"}
  Slots = 2
CHECK_DEADLOCK FALSE
INVARIANTS
  CheckTypeOK
  PassedIsTrue
  RefusalIsReal
PROPERTY CheckEnds
