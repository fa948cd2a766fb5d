SPECIFICATION Spec
CONSTANTS
  ENTRY_COUNT = 5
  WORD = 4
  Pages = {0, 1, 2}
  IntKeys = {}
  StrKeys = {"s"}
  BlobKeys = {"b"}
  IntVals = {1}
  StrVals = {1, 2}
  BlobVals = {1, 2}
  SzLen = 1
  BlobLen = 2
  MaxSeq = 3
  FailedBlobs = FALSE
INVARIANTS
  Mountable
  NoDuplicates
  CachesSound
  ReadsNewest
  ChunksTidy
PROPERTIES
  KeyValueStore
