\* Sequence numbers of two bits, and ten packets.
SPECIFICATION Spec
CONSTANTS
  h1 = h1
  h2 = h2
  Handlers = {h1}
  ListenBacklog = 4
  MaxSeq = 3
  Messages = 10
  MessagesPerPacket = 1
  SkipEvery = 0
  Limits = {0}
  Strays = {}
INVARIANT StaleWasApplied
CHECK_DEADLOCK FALSE
