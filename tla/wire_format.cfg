\* Packets of one, two and 42 messages.
SPECIFICATION WireSpec
CONSTANTS
  ByteValues = 8
  CharCode <- MCCharCode
  SeqNumValues <- MCSeqNums
  TscValues <- MCTscs
  Batches <- MCBatches
  Strays <- MCStrays
INVARIANTS
  ReadsWhatWasSent
  SerializersAgree
  OnlyWholePackets
  OnlyWellFormedMessages
  UnknownBytesRejected
CHECK_DEADLOCK FALSE
