\* Loader: no crash of it; cores exit at any time, the marker may not be written.
\* Two builds share a version.
\* Election: three nodes, sub-millisecond links with some jitter and loss, one restart;
\* all nodes may stop for good.
CONSTANTS
  None = None
  Cores = {1, 2, 3}
  Version <- MCVersion3
  Channel <- MCChannel3
  LocalChannel = "production"
  Peers = {p1}
  Faults = {"marker"}
  NoNode = NoNode
  Nodes = {1, 2, 3}
  MaxCoordinators = 2
  Merit <- MCMerit
  Latencies = {0, 1}
  LatencyScore <- MCLatencyScore
  Delays <- MCDelays
  LossyLinks <- MCLossy
  Probe <- MCProbe
  ProbeShare = 20
  MaxStarts = 1
SPECIFICATION ProgressSpec
CHECK_DEADLOCK FALSE
INVARIANTS
  ElectionTypeOK
  EventsAreShared
  OneManagedCore
PROPERTIES
  SurvivorsSettle
  ProbationEnds
  ServiceResumes
