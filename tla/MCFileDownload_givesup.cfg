SPECIFICATION Spec
CHECK_DEADLOCK FALSE
CONSTANTS
  f = f
  g = g
  h = h
  x = x
  y = y
  Threads = {t}
  Files = {f, g}
  Own = {h}
  Chunks = {x, y}
  ChunksOf <- RepeatedChunk
  Searched = {}
  MaxReplies = 1
  None = none
  Nil = nil
PROPERTY GivesUpToAnother
