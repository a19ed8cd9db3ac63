\* Two workers: rewards raced for, refunds, a broker that may be down, deaths.
SPECIFICATION MCSpec
CONSTANTS
  anu = anu  ravi = ravi
  Customers = {anu, ravi}
  Orders = {o1, o2}
  Riders = {raj}
  Workers = {w1, w2}
  NoOne = NoOne
  Referrer <- AnuReferredByRavi
  Subtotals = {2}
  WalletShare <- HalfOf
  DeliveryBonuses = {1}
  ReferralBonus = 1
  MinForBonus = 2
  RiderPosts = {"out_for_delivery", "delivered"}
  BrokerMayFail = TRUE
  MayCrash = TRUE
  MaxRefunds = 1
  MaxGranted = 1
  Parts = {"rewards", "refunds"}
SYMMETRY Symmetry
INVARIANTS TypeOK LedgerAddsUp RewardOnlyAfterDelivery RewardsBounded
PROPERTIES RefundClosesOrder ImplementsWallet
