\* One request at a time: each handler is one step of the order book.
SPECIFICATION MCSpec
CONSTANTS
  anu = anu  ravi = ravi
  Customers = {anu, ravi}
  Orders = {o1, o2}
  Riders = {raj}
  Workers = {w1}
  NoOne = NoOne
  Referrer <- AnuReferredByRavi
  Subtotals = {2, 4}
  WalletShare <- HalfOf
  DeliveryBonuses = {0, 1}
  ReferralBonus = 3
  MinForBonus = 3
  RiderPosts = {"placed", "confirmed", "out_for_delivery", "delivered", "cancelled"}
  BrokerMayFail = FALSE
  MayCrash = FALSE
  MaxRefunds = 2
  MaxGranted = 0
  Parts = {"all"}
PROPERTY ImplementsBook
PROPERTY ImplementsAccount
