\* Two packets of two messages each.
SPECIFICATION MarketSpec
CONSTANTS
  MinLive = 4
  BidPrices = {1, 2}
  AskPrices = {3}
  OrderQuantities = {1}
  MaxOrders = 4
  Messages = 4
  MessagesPerPacket = 2
  Limits = {0}
  OrderIds = {1, 2, 3, 4}
  Prices = {1, 2, 3}
  MaxQuantity = 1
  AddQuantities = {1}
  U32 = 5
INVARIANT BboSamplesArePackets
CHECK_DEADLOCK FALSE
