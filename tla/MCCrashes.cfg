\* Loader: crashes at every step, unreliable promotion.
\* LogWatch: three lines, of which two failures ban, over a channel of one.
CONSTANTS
  None = None
  Cores = {1, 2}
  Version <- MCVersion2
  Channel <- MCChannel2
  LocalChannel = "production"
  Peers = {p1}
  Faults = {"crash", "snapshot", "promote", "marker"}
  LineKinds = {"head", "tail", "whole", "unreadable"}
  FailuresToBan = 2
  DetectionSlots = 1
  LogFaults = {"rotate", "cut", "stop", "crash", "torn"}
  MaxLines = 3
SPECIFICATION CrashesSpec
CHECK_DEADLOCK FALSE
INVARIANTS
  CrashesTypeOK
  ProbationIsRecoverable
  DiskAgreesWithMemory
  
PROPERTIES
  PeerSyncOnlyUpgrades
  ReplacedCoreIsKept
  FailuresBan
