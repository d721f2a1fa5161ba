SPECIFICATION KSpec
CONSTANTS
  None = None
  bge = bge
  other = other
  north = north
  east = east
  space = space
  zero = zero
  Ids = {1, 2, 3, 120, 121, 122, 123, 140, 141, 142, 143, 220, 221, 222, 223, 240, 241, 242, 243}
  Models = {bge, other}
  Model = bge
  Vectors = {north, east, space, zero}
  Zero = {zero}
  Width <- MCWidth
  Similarity <- MCSimilarity
  Offered <- MCOffered
  MaxBatch = 2
  MaxTopK = 2
  MaxChars = 8
  OverlapChars = 2
  MinFill = 4
  Categories <- MCCategories
  REQUIRED_SECTIONS <- MCSections
  Fields <- MCFields
  Values <- MCValues
  Slugs <- MCSlugs
  Corpora <- MCCorpora
  ChunkId <- MCChunkId
  IndexLimit = 4
  BatchSize = 2
  Encode <- MCEncode
INVARIANTS
  StoreConsistent
  AnswerIsTopK
  ChunksCover
  IndexFaithful
PROPERTIES
  PrepareEnds
CHECK_DEADLOCK FALSE
