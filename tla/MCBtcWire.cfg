CONSTANTS
  Price = {1, 2}
  Quantity = {}
  OrderID = {1, 2}
  NoOrder = NoOrder
  Regrow = {80}
  MaxSlots = 80
  Submissions = {}
  Capacity = 3
  Messages <- MCMessages
  Bad = Bad
  Unit = 2
  IntMax = 3
  MaxMessages = 2
SPECIFICATION BtcSpec
INVARIANTS
  FirstEventsOnly
  BookWaitsForFeed
PROPERTIES
  BadMessageIsFatal
  FeedLossIsFatal
