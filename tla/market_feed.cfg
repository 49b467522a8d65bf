\* Five messages in packets of at most two, adds only until two orders live.
SPECIFICATION MarketSpec
CONSTANTS
  MinLive = 2
  BidPrices = {1, 2}
  AskPrices = {3}
  OrderQuantities = {1, 2}
  MaxOrders = 3
  Messages = 5
  MessagesPerPacket = 2
  Limits = {0, 3}
  OrderIds = {1, 2, 3}
  Prices = {1, 2, 3}
  MaxQuantity = 2
  AddQuantities = {1, 2}
  U32 = 7
INVARIANTS
  BookMirrorsGenerator
  NeverCrossed
  NextMessageIsValid
PROPERTY BookRunsOrderBook
CHECK_DEADLOCK FALSE
