SPECIFICATION Spec
CONSTANTS
  a = a
  b = b
  c = c
  e = e
  x = x
  NIL = NIL
  None = None
  Validators = {a, b, c}
  Deposit <- UnequalDeposits
  MinPercentage = 70
  MAX_ROUND = 2
  Proposer <- ProposerRepeats
  Values = {e}
  EmptyProposal = e
  MaxRestarts = 0
  MIN_BLOCK_DEPOSIT = 50
  MIN_VALIDATORS = 3
  MAX_VALIDATORS = 128
VIEW LiveState
SYMMETRY Interchangeable
PROPERTIES LockedInRound ImplementsFinality
