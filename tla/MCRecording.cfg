\* Swarm: two events, three agents, quorum 2: a third assessment follows the decision;
\* the bus holds one event, so that slow agents lag.
\* Storage: five records of two tasks over a channel of one, with and without archives.
\* Export: three records at one node, two nodes whose views of the exporter change once.
CONSTANTS
  None = None
  Events = {1, 2}
  Id <- MCIdDistinct
  Agents = {1, 2, 3}
  Quorum = 2
  BusCapacity = 1
  ChannelCapacity = 2
  Roles <- MCRoles
  NoFile = NoFile
  Summary = 0
  Senders = {1, 2}
  Capacity = 1
  BufferSize = 1
  MaxBytes = 1
  Budget = 3
  RetainLines = 2
  Limits = {0, 2}
  MaxRecords = 5
  MaxStorageFaults = 1
  MaxRestarts = 1
  StorageFaults = {"write", "io", "crash"}
  ExportNodes = {1, 2}
  NoExporter = NoExporter
  Emitters = {1}
  FirstViews <- MCFirstViews
  MaxQueue = 2
  MaxBatch = 2
  BatchTtl = 0
  SeenTtl = 0
  SeriesTtl = 1
  MaxEmitted = 2
  MaxViews = 1
  MaxLost = 1
  ExportHorizon = 1
SPECIFICATION RecordingSpec
CHECK_DEADLOCK FALSE
INVARIANTS
  RecordingTypeOK
  CountedOnce
  RecordsAccountedFor
PROPERTIES
  AssessmentsResolved
  ImplementsRecordLog
  SendersProceed
  PendingReachesExporter
