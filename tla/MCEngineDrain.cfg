CONSTANTS
  Price <- MCPrice
  Quantity = {12, 20, 30, 50, 60}
  OrderID = {1, 2, 3, 4, 5, 6, 7, 8, 9}
  NoOrder = NoOrder
  Regrow = {80}
  MaxSlots = 80
  Submissions = {}
  Sessions <- DrainSessions
  Capacity = 3
SPECIFICATION EngineSpec
INVARIANTS
  Drained
