\* One partition that is assigned and taken away.
CONSTANTS
  Partitions = {p1}
  Listeners = {l1}
  MaxGenerations = 1
  MaxAssignments = 2
  MaxOverlapping = 0
  Services <- MCServices
SPECIFICATION FairSpec
PROPERTY StopCompletes
CHECK_DEADLOCK FALSE
