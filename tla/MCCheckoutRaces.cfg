\* Two workers, one browser, two orders, staff at work.
SPECIFICATION MCSpec
CONSTANTS
  tomato = tomato  onion = onion
  Browsers = {anu}
  Variants = {tomato, onion}
  Orders = {o1, o2}
  Workers = {w1, w2}
  NoOne = NoOne
  Prices <- TwoPrices
  Steps <- LessOrMore
  Counts = {0, 1}
  Balances = {9}
  Settings <- TwoSettings
  MaxQuantity = 1
SYMMETRY Symmetry
INVARIANTS TypeOK FairlyCharged CartKept
PROPERTY OrderIsCart
