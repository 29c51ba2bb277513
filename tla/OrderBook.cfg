SPECIFICATION FairSpec
CONSTANTS
  None = None
  Users = {u1, u2}
  Symbols = {btc}
  Prices = {1, 2, 3}
  MaxQty = 1
  ClientIds = {1}
  Sides = {"Buy", "Sell"}
  OrderTypes = {"Limit"}
  MaxId = 4
  MaxIdGap = 1
  MAX_ARENA_ORDERS = 3
  MAX_PRICE_LEVELS = 3
INVARIANTS
  SlotsExact
  ChainsExact
  IndexesExact
PROPERTIES
  RefinesPriceTime
  CallReturns
