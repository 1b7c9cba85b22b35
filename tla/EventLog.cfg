SPECIFICATION FairSpec
CONSTANTS
  c1 = c1
  c2 = c2
  s1 = s1
  s2 = s2
  Writer = {v1, v2}
  NoWriter = NoWriter
  Candidate = {c1, c2}
  Stream = {s1, s2}
  Watched <- MCWatched
  After <- MCAfter
  BatchLimit = 2
  MaxSequence = 4
  MaxDrops = 1
INVARIANTS
  ReceivedIsTheLog
PROPERTIES
  CommitsInOrder
  EveryEventArrives
CHECK_DEADLOCK FALSE
