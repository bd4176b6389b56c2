\* A node that always leads alone; one event and one agent more than the quorum.
CONSTANTS
  None = None
  Events = {1}
  Id <- MCIdDistinct
  Agents = {1,2,3}
  Quorum = 2
  BusCapacity = 2
  ChannelCapacity = 2
  Roles <- MCRolesSole
SPECIFICATION Spec
INVARIANT QuorumIsFinal
