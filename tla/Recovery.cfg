SPECIFICATION RFairSpec
CONSTANTS
  None = None
  Users = {u1, u2}
  Symbols = {btc}
  Prices = {0, 1}
  MaxQty = 1
  ClientIds = {1}
  Sides = {"Buy", "Sell"}
  OrderTypes = {"Limit", "Market", "Deposit"}
  MaxId = 3
  MaxIdGap = 0
  InitialUsd = 1
  InitialAssets = 1
  MAX_ARENA_ORDERS = 1
  MAX_PRICE_LEVELS = 1
  MaxCrashes = 1
INVARIANTS
  RTypeOK
  ReplayAgrees
  IdsStayFresh
PROPERTIES
  RecoveryEnds
