\* README: a dedupe check stops double-crediting.
SPECIFICATION MCSpec
CONSTANTS
  anu = anu  ravi = ravi
  Customers = {anu, ravi}
  Orders = {o1}
  Riders = {raj}
  Workers = {w1, w2}
  NoOne = NoOne
  Referrer <- AnuReferredByRavi
  Subtotals = {2}
  WalletShare <- HalfOf
  DeliveryBonuses = {1}
  ReferralBonus = 1
  MinForBonus = 2
  RiderPosts = {"delivered"}
  BrokerMayFail = FALSE
  MayCrash = FALSE
  MaxRefunds = 1
  MaxGranted = 1
  Parts = {"all"}
INVARIANT PaidOnce
