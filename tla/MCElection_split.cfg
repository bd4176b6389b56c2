\* Every node hears every other a millisecond late; nothing is lost.
CONSTANTS
  NoNode = NoNode
  Nodes = {1, 2, 3}
  MaxCoordinators = 2
  Merit <- MCMerit
  Latencies = {0, 1}
  LatencyScore <- MCLatencyScore
  Delays <- MCDelaysOne
  LossyLinks = {}
  Probe <- MCProbe
  ProbeShare = 20
  MaxStarts = 0
SPECIFICATION FairElectionSpec
CHECK_DEADLOCK FALSE
PROPERTIES
  SplitBrainReconciled
