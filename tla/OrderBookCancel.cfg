SPECIFICATION Spec
CONSTANTS
  None = None
  Users = {u1, u2}
  Symbols = {btc}
  Prices = {1, 2}
  MaxQty = 1
  ClientIds = {1, 2}
  Sides = {"Buy", "Sell"}
  OrderTypes = {"Limit"}
  MaxId = 4
  MaxIdGap = 0
  MAX_ARENA_ORDERS = 4
  MAX_PRICE_LEVELS = 2
INVARIANTS
  ClientIdReachesOrder
