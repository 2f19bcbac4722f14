CONSTANTS
  Price = {1, 2}
  Quantity = {0, 1, 2}
  OrderID = {a, b, c, d}
  NoOrder = NoOrder
  Regrow = {80}
  MaxSlots = 3
  Submissions <- MCSubmissions
SYMMETRY IdSymmetry
SPECIFICATION Spec
INVARIANTS
  TypeOK
  Uncrossed
  HusksAtFront
  TradesInPriceOrder
