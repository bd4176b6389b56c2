\* Two producers whose counters start alike (sensors.rs:11, telemetry.rs:41).
CONSTANTS
  None = None
  Events = {1,2}
  Id <- MCIdShared
  Agents = {1,2}
  Quorum = 2
  BusCapacity = 2
  ChannelCapacity = 2
  Roles <- MCRolesSole
SPECIFICATION Spec
INVARIANT OneEventPerDecision
