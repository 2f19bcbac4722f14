CONSTANTS
  Price = {1}
  Quantity = {1}
  OrderID = {1, 2, 3, 4}
  NoOrder = NoOrder
  Regrow = {80}
  MaxSlots = 4
  Submissions <- MCSubmissions
SPECIFICATION MintingSpec
INVARIANTS
  IndexExact
