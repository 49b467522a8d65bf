\* One client, and a publisher with two packets to send.
SPECIFICATION RequestsSpec
CONSTANTS
  Handlers = {h1}
  ListenBacklog = 1
  MaxSeq = 3
  Messages = 2
  MessagesPerPacket = 1
  SkipEvery = 0
  Strays = {}
INVARIANT StampedThenSent
CHECK_DEADLOCK FALSE
