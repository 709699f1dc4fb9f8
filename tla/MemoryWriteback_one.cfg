CONSTANTS
  w1 = w1
  t1 = t1
  t2 = t2
  t3 = t3
  b1 = b1
  b2 = b2
  Workers = {w1}
  Turns = {t1, t2, t3}
  Buffers = {b1, b2}
  BufferOf <- TwoSessions
  RunTurns = {t3}
  Blank = {t2}
  BufferTurns = 2
  BufferChars = 3
  ChunkSize = 2
  MaxFaults = 2
SPECIFICATION FairSpec
INVARIANTS AcceptedIsKept LossesAreFaults
PROPERTIES ImplementsPromise AcceptedGetStored
