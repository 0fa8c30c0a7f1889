SPECIFICATION Spec
CONSTANTS
  a = a
  b = b
  c = c
  e = e
  x = x
  NIL = NIL
  None = None
  Validators = {a, b, c}
  Deposit <- EqualDeposits
  MinPercentage = 60
  MAX_ROUND = 2
  Proposer <- ProposerRepeats
  Values = {e, x}
  EmptyProposal = e
  MaxRestarts = 0
  MIN_BLOCK_DEPOSIT = 15
  MIN_VALIDATORS = 3
  MAX_VALIDATORS = 128
CONSTRAINTS FirstRound NobodyDecided
SYMMETRY Interchangeable
INVARIANTS TypeOK Certified AssembledBlockValidates
