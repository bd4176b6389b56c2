\* The loader process ends between two steps.
CONSTANTS
  None = None
  Cores = {1, 2}
  Version <- MCVersion2
  Channel <- MCChannel2
  LocalChannel = "production"
  Peers = {p1}
  Faults = {"crash"}
SPECIFICATION Spec
CHECK_DEADLOCK FALSE
INVARIANT Restartable
