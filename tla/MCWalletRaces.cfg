\* Overlapping requests and crashes.
SPECIFICATION MCSpec
CONSTANTS
  Customers = {anu, ravi}
  Workers = {w1, w2}
  Amounts = {1, 2}
  NoWallet = NoWallet
  MayCrash = TRUE
  MaxGranted = 3
  MaxOverspent = 2
SYMMETRY Symmetry
INVARIANTS TypeOK Solvent Backed
