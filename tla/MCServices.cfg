\* Governance: votes of every posture, weak and confident ones; quorum 2 of at most 3.
\* TraceyGuard: two devices, one worker; three requests, three faults.
\* TraceyBan: bans of one tick imposed at times 0 and 1; the second host restarts.
\* Continuum: three slices, three cycles, five plans.
\* Autoscale: two nodes, three hosts, two recruited per tick, one restart.
CONSTANTS
  Configs <- MCConfigs
  Bases = {75, 98}
  Confidences = {40, 90}
  Quorum = 2
  MinConfidence = 50
  Support = 60
  MaxVotes = 3
  Agents = {1, 2}
  Addresses = {1}
  IgnoreLists <- MCIgnoreLists
  MaxRetry = 2
  Softened = FALSE
  Durations = {1}
  EnforceRemote = TRUE
  Lag = 1
  Horizon = 1
  EndOfTime = 2
  Restarting = {2}
  Operated = {1}
  BanFaults = {"firewall", "crash", "torn"}
  Never = Never
  NoBan = NoBan
  Devices = {1, 2}
  Kinds = {1, 2}
  MaxSamples = 1
  MaxParallel = 1
  ChannelCapacity = 1
  MaxReliability = 2
  QuarantineBelow = 1
  SuspectBelow = 1
  TrustedFrom = 2
  FirstReliability = 2
  ImmediateFailures = 2
  DeepPasses = 2
  MaxRequests = 3
  MaxFaults = 3
  SliceCount = 3
  LinkFaults = {"unreachable", "unanswered", "refused"}
  MaxCycles = 3
  MaxPlans = 5
  NoSlice = NoSlice
  ScalingNodes = {1, 2}
  RecruitHosts = 3
  PerTick = 2
  SignalCounts = {1, 5}
  MaxReboots = 1
SPECIFICATION ServicesSpec
INVARIANTS
  ServicesTypeOK
  
  NoBanOutlivesItsOrigin
  QuarantinedAfterFailures
  CompletedWasApplied
  NoMoreThanCalledFor
PROPERTIES
  PostureIsBacked
  
  ReleasedAfterDeepTest
  ForceScanRuns
  SoundDevicesRecover
  EverySliceReported
  
