\* Three packets, the last of which has the largest sequence number, and two
\* clients that ask for any ranges, stored or not.
SPECIFICATION RequestsSpec
CONSTANTS
  Handlers = {h1, h2}
  ListenBacklog = 1
  MaxSeq = 3
  Messages = 3
  MessagesPerPacket = 1
  SkipEvery = 0
  Strays = {}
INVARIANTS
  AnswerIsSnapshot
  LookupVisitsOnce
PROPERTY LookupEnds
CHECK_DEADLOCK FALSE
