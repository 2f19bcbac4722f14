CONSTANTS
  Price = {1, 2}
  Quantity = {1, 2}
  OrderID = {1, 2, 3, 4}
  NoOrder = NoOrder
  Regrow = {6}
  MaxSlots = 10
  Submissions <- MCSubmissions
  MakerFee = 1
  TakerFee = 3
  QUANTITY = 2
  MaxCancels = 2
  MaxAmends = 0
  MaxQuotes = 1
  Careful = FALSE
SPECIFICATION SimSpec
INVARIANTS
  FillsTold
