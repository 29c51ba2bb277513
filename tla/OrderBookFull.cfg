SPECIFICATION Spec
CONSTANTS
  None = None
  Users = {u1, u2}
  Symbols = {btc}
  Prices = {0, 1, 2}
  MaxQty = 2
  ClientIds = {1}
  Sides = {"Sell", "Invalid"}
  OrderTypes = {"Limit", "Market"}
  MaxId = 4
  MaxIdGap = 0
  MAX_ARENA_ORDERS = 3
  MAX_PRICE_LEVELS = 2
SYMMETRY Symmetry
INVARIANTS
  TypeOK
  DepthExact
  RefusedBeforeTrading
PROPERTIES
  RefinesPriceTime
