\* A handler between the two locks of distributable_core.
CONSTANTS
  None = None
  Cores = {1, 2}
  Version <- MCVersion
  Channel <- MCChannel
  LocalChannel = "production"
  Peers = {}
  Faults = {}
SPECIFICATION FairTransferSpec
CHECK_DEADLOCK FALSE
PROPERTY NoProbationServed
CONSTRAINT OnlyUpgrades
