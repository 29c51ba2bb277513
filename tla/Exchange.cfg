SPECIFICATION XSpec
CONSTANTS
  None = None
  Users = {u1, u2}
  Symbols = {btc}
  Prices = {0, 1, 2}
  MaxQty = 2
  ClientIds = {1}
  Sides = {"Buy", "Sell"}
  OrderTypes = {"Limit"}
  MaxId = 4
  MaxIdGap = 0
  InitialUsd = 4
  InitialAssets = 2
  MAX_ARENA_ORDERS = 3
  MAX_PRICE_LEVELS = 2
SYMMETRY Symmetry
INVARIANTS
  XTypeOK
  IdsUnique
  NoGhostClientIds
  LockedIsMargin
PROPERTIES
  FundsMoveOnlyByTrades
