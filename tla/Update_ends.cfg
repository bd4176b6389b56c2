\* An agent that updates itself without a supervisor, or with one.
CONSTANTS
  Releases = {1}
  Nothing = Nothing
  Torn = Torn
  MaxProcesses = 2
  MaxOffers = 2
  MaxFailures = 0
SPECIFICATION FairUpdateSpec
CHECK_DEADLOCK FALSE
PROPERTIES ReplacedProcessEnds
