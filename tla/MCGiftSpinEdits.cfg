\* Two spins while staff edit and delete gifts, orders move on and workers die.
SPECIFICATION MCFairSpec
CONSTANTS
  Orders = {o1, o2}
  Gifts = {cup, spoon}
  Workers = {w1, w2}
  NoOne = NoOne
  Fits <- FitAll
  FirstStock <- OneOfEach
  Restocks = {1}
  AdminEdits = TRUE
  AdminDeletes = TRUE
  MaxSupplied = 2
INVARIANTS TypeOK WinnerHoldsBoth StockAddsUp 
PROPERTY OneGiftPerSpin
PROPERTY SpinsFinish
