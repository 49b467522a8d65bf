\* Two handlers, each with a gap: the second waits for as long as the first
\* stays connected.
SPECIFICATION FairSpec
CONSTANTS
  h1 = h1
  h2 = h2
  Handlers = {h1, h2}
  ListenBacklog = 4
  MaxSeq = 15
  Messages = 2
  MessagesPerPacket = 1
  SkipEvery = 0
  Limits = {0}
  Strays = {}
PROPERTY RequestAnswered
CHECK_DEADLOCK FALSE
