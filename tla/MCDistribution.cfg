\* Transfer: a fetch beside every step of a provider that upgrades itself.
\* Threat: three loaders and two subjects, files and announcements of one entry.
\* Update: two releases of which four files are offered, four processes, two failures.
CONSTANTS
  None = None
  Cores = {1, 2}
  Version <- MCVersion
  Channel <- MCChannel
  LocalChannel = "production"
  Peers = {}
  Faults = {}
  l1 = l1
  l2 = l2
  l3 = l3
  Loaders = {l1, l2, l3}
  x1 = x1
  x2 = x2
  Subjects = {x1, x2}
  Risks = {60, 100}
  BlockFrom = 60
  ReporterQuorum = 2
  SavedEntries = 1
  AnnouncedEntries = 1
  RemoteTtl = 0
  ThreatHorizon = 1
  MaxIncidents = 2
  MaxMishaps = 1
  Releases = {1, 2}
  Nothing = Nothing
  Torn = Torn
  MaxProcesses = 4
  MaxOffers = 4
  MaxFailures = 2
SPECIFICATION DistributionSpec
CHECK_DEADLOCK FALSE
INVARIANTS
  DistributionTypeOK
  SuspicionNeedsRollout
  VerifiedWasActive
  HearsayRestsOnIncidents
  ExperienceIsKept
  ReplacedByReady
PROPERTIES
  RestartKeepsRelease
CONSTRAINT OnlyUpgrades
SYMMETRY Interchangeable
