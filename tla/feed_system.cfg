\* Two handlers; four packets of at most two messages, every other one dropped
\* on purpose and any of them lost, repeated or reordered.
SPECIFICATION Spec
CONSTANTS
  h1 = h1
  h2 = h2
  Handlers = {h1, h2}
  ListenBacklog = 2
  MaxSeq = 15
  Messages = 7
  MessagesPerPacket = 2
  SkipEvery = 2
  Limits = {0, 3}
  Strays <- MCStrays
SYMMETRY HandlerSymmetry
INVARIANTS
  TypeOK
  AppliedIsPrefix
  StaleWasApplied
  NothingParkedAtRecv
  ReplayIsWhole
  FailsOnlyAfterStop
  SummaryAddsUp
PROPERTY FeedIsOrdered
CHECK_DEADLOCK FALSE
