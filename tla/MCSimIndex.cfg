CONSTANTS
  Price = {1}
  Quantity = {1}
  OrderID = {1, 2, 3, 4, 5}
  NoOrder = NoOrder
  Regrow = {4}
  MaxSlots = 10
  Submissions <- MCSubmissions
  MakerFee = 0
  TakerFee = 0
  QUANTITY = 1
  MaxCancels = 0
  MaxAmends = 0
  MaxQuotes = 0
  Careful = TRUE
SPECIFICATION SimSpec
INVARIANTS
  IndexExact
