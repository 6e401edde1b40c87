CONSTANTS
  a = a  b = b  busy = busy
  Boards <- MCBoards
  Versions <- MCVersions
  Lines <- MCLines
  Targets <- MCTargets
  Enabled <- MCEnabled
SPECIFICATION Spec
INVARIANT DeletedBoardForgotten
