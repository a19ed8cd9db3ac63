\* Two requests of one wallet overlap: the second write loses the first.
SPECIFICATION MCRequestSpec
CONSTANTS
  Customers = {anu}
  Workers = {w1, w2}
  Amounts = {1}
  NoWallet = NoWallet
  MayCrash = FALSE
  MaxGranted = 2
  MaxOverspent = 1
INVARIANT Audited
