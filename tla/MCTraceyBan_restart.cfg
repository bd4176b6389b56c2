\* Nothing fails: the second host is stopped and started while its bans run out.
CONSTANTS
  Agents = {1, 2}
  Addresses = {1}
  IgnoreLists <- MCIgnoreLists
  MaxRetry = 2
  Softened = FALSE
  Durations = {1}
  EnforceRemote = TRUE
  Lag = 1
  Horizon = 1
  EndOfTime = 2
  Restarting = {2}
  Operated = {1}
  BanFaults = {}
  Never = Never
  NoBan = NoBan
SPECIFICATION BanSpec
INVARIANT ClearedOnlyByUnban
