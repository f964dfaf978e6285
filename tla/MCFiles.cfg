CONSTANTS
  Tasks = {t1, t2}
  Names = {1, 2, 3}
  MAX_FDS = 4
  UserPaths <- MCPaths
  OpenFlags <- MCFlags
  Bytes = {7, 8}
  MaxLen = 2
  MaxDepth = 2
  BufLens = {4, 5, 9}
SYMMETRY Symmetry
SPECIFICATION MCSpec
INVARIANTS CopyIsCurrent PositionInData GetdentsSound
PROPERTIES NothingLost DescriptorStable
