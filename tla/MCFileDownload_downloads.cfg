SPECIFICATION FairSpec
CHECK_DEADLOCK FALSE
CONSTANTS
  f = f
  g = g
  h = h
  x = x
  y = y
  Threads = {t, u}
  Files = {f, g}
  Own = {h}
  Chunks = {x, y}
  ChunksOf <- SharedChunk
  Searched = {g}
  MaxReplies = 2
  None = none
  Nil = nil
INVARIANTS TypeOK OneDownloadPerFile ChunkMapAscends 
PROPERTY SendingEnds
