SPECIFICATION Spec
CONSTANTS
  MaxBatch = 2
  MaxData = 2
  MaxRank = 2
  MockSize = 2
INVARIANTS
  TypeOK
  AsAlone
  LikeNew
