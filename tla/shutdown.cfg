\* One handler that recovered once and stays connected.
SPECIFICATION FairSpec
CONSTANTS
  h1 = h1
  h2 = h2
  Handlers = {h1}
  ListenBacklog = 4
  MaxSeq = 15
  Messages = 2
  MessagesPerPacket = 1
  SkipEvery = 0
  Limits = {0}
  Strays = {}
PROPERTY GraceEnds
CHECK_DEADLOCK FALSE
