\* Two requests at a time, three codes, a limit of two tries, one failure.
SPECIFICATION MCSpec
CONSTANTS
  Requests = {r1, r2}
  Cooldown = 2
  Validity = 2
  MaxTries = 2
  MaxCodes = 3
  MaxLosses = 1
INVARIANTS TypeOK CodesBounded TriesCounted HasWallet InvitedIsReferred
PROPERTIES CodeArrives
