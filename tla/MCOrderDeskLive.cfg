\* Two workers that serve on: every request ends, a delivered order is rewarded.
SPECIFICATION MCFairSpec
CONSTANTS
  anu = anu  ravi = ravi
  Customers = {anu, ravi}
  Orders = {o1}
  Riders = {raj}
  Workers = {w1, w2}
  NoOne = NoOne
  Referrer <- AnuReferredByRavi
  Subtotals = {2}
  WalletShare <- HalfOf
  DeliveryBonuses = {1}
  ReferralBonus = 1
  MinForBonus = 2
  RiderPosts = {"out_for_delivery", "delivered"}
  BrokerMayFail = FALSE
  MayCrash = FALSE
  MaxRefunds = 1
  MaxGranted = 1
  Parts = {"all"}
PROPERTY RequestsFinish
PROPERTY DeliveryBonusPaid
PROPERTY ReferralPaid
