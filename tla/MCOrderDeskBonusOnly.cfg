\* README: the wallet is bonus-only by design.
SPECIFICATION MCSpec
CONSTANTS
  anu = anu  ravi = ravi
  Customers = {anu}
  Orders = {o1, o2}
  Riders = {raj}
  Workers = {w1}
  NoOne = NoOne
  Referrer <- Nobody
  Subtotals = {2}
  WalletShare <- HalfOf
  DeliveryBonuses = {1}
  ReferralBonus = 1
  MinForBonus = 2
  RiderPosts = {"delivered"}
  BrokerMayFail = FALSE
  MayCrash = FALSE
  MaxRefunds = 2
  MaxGranted = 1
  Parts = {"all"}
INVARIANT BonusOnly
