CONSTANTS
  Price = {1, 2}
  Quantity = {0, 1, 2}
  OrderID = {1, 2, 3, 4}
  NoOrder = NoOrder
  Regrow = {4}
  MaxSlots = 4
  Submissions <- MCSubmissions
SPECIFICATION CarefulSpec
INVARIANTS
  IndexExact
  TopOfBookExact
PROPERTIES
  PriceTime
  AddReturns
