SPECIFICATION XSpec
CONSTANTS
  None = None
  Users = {u1, u2}
  Symbols = {btc}
  Prices = {1, 2}
  MaxQty = 2
  ClientIds = {1}
  Sides = {"Buy", "Sell", "Invalid"}
  OrderTypes = {"Limit"}
  MaxId = 3
  MaxIdGap = 0
  InitialUsd = 4
  InitialAssets = 2
  MAX_ARENA_ORDERS = 4
  MAX_PRICE_LEVELS = 3
INVARIANTS
  NothingTrapped
