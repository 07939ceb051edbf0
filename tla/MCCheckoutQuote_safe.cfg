SPECIFICATION Spec
CONSTANTS
  e1 = e1
  e2 = e2
  lego = lego
  near = near
  far = far
  Elements = {e1, e2}
  Sellers = {lego, near, far}
  Lego = lego
  Orders <- SmallOrders
  LegoOffers <- SmallLego
  ShopOffers <- SmallShops
  MaxPerItem = 3
  FreeFrom = 5
  FeeMin = 1
  FeePercent = 20
INVARIANTS
  TypeOK
  SplitIsWhole
  NothingLost
  StockRespected
  QuoteIsTrue
PROPERTIES
  ConsolidationSaves
CHECK_DEADLOCK FALSE
