CONSTANTS
  a = a  b = b  busy = busy
  Boards <- MCBoards
  Versions <- MCVersions
  Lines <- MCLines
  Targets <- MCTargets
  Enabled <- MCEnabled
SPECIFICATION FairSpec
INVARIANTS TypeOK ProbersTakeTurns StaleOnceAtMost ShutdownIsOrderly
PROPERTIES ReloadEnds ShutdownEnds BoardsProbed
