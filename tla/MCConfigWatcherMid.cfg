CONSTANTS
  v1 = v1  v2 = v2  v3 = v3  broken = broken  torn = torn
  Empty = Empty  Absent = Absent
  Good <- MCGood
  Broken <- MCBroken
  Torn <- MCTorn
  First = v1
  MaxSaves = 3
SPECIFICATION Spec
INVARIANT MidSaveRejected
