\* One handler, five packets of one message.
SPECIFICATION FairSpec
CONSTANTS
  h1 = h1
  h2 = h2
  Handlers = {h1}
  ListenBacklog = 1
  MaxSeq = 15
  Messages = 5
  MessagesPerPacket = 1
  SkipEvery = 0
  Limits = {0, 2}
  Strays <- MCStrays
PROPERTIES
  GapIsFilled
  ShutdownCompletes
CHECK_DEADLOCK FALSE
