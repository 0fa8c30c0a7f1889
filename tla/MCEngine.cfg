SPECIFICATION Spec
CONSTANTS
  d1 = d1  v1 = v1  w = w  d3 = d3
  e1 = e1  e3 = e3
  ZERO_ADDRESS = ZERO_ADDRESS
  STAKING_CONTRACT_ADDRESS = STAKING_CONTRACT_ADDRESS
  CONVERSION_CONTRACT_ADDRESS = CONVERSION_CONTRACT_ADDRESS
  ZERO_HASH = ZERO_HASH
  NoKey = NoKey
  Addresses = {d1, d3, v1, w}
  Genesis <- GenesisBalances
  GenesisValidator <- OneDepositor
  Funds <- NewDepositor
  EthAddresses = {e1, e3}
  snapshotAmount <- Snapshot
  RestOfSnapshot = 2
  GasFee = 1
  TXN_FEE_CUTTOFF_BLOCK = 2
  MINIMUM_DEPOSIT = 4
  WITHDRAWAL_BLOCK_DELAY_V1 = 0
  WITHDRAWAL_BLOCK_DELAY = 1
  STAKING_CONTRACT_V2_CUTOFF_BLOCK = 2
  MIN_VALIDATORS = 1
  MAX_VALIDATORS = 1
  MIN_VALIDATOR_DEPOSIT = 3
  MIN_BLOCK_DEPOSIT = 3
  BLOCK_PROPOSER_OFFLINE_NIL_BLOCK_MULTIPLIER = 2
  BLOCK_PROPOSER_OFFLINE_MAX_DELAY_BLOCK_COUNT = 4
  BLOCK_PROPOSER_OFFLINE_MAX_DELAY_BLOCK_COUNT_V2 = 4
  BLOCK_PROPOSER_OFFLINE_V2_START_BLOCK = 0
  rewardStartBlockNumber = 1
  slashStartBlockNumber = 1
  VALIDATOR_NIL_BLOCK_START_BLOCK = 3
  BLOCK_PROPOSER_NIL_BLOCK_START_BLOCK = 4
  slashAmount = 2
  TxnFeeRewardsPercentage = 50
  totalCoin = 20
  percentageChangeYear = 1
  percentageDefault = 20
  percentageDivided = 2
  blockYearly = 1
  CONSENSUS_CONTEXT_START_BLOCK = 0
  CONSENSUS_CONTEXT_MAX_BLOCK_COUNT = 2
  CONTEXT_BASED_START_BLOCK = 2
  CONTEXT_BASED_BLOCK_THRESHOLD = 1
  Amounts = {2, 4}
  TransferAmounts = {5}
  RandomBytes = {0, 255}
  MaxTxs = 2
  MaxNumber = 4
  MaxRequestNumber = 2
  MaxFullNumber = 2
CONSTRAINT Bounded
CHECK_DEADLOCK FALSE
INVARIANTS
  CoinsConserved
  ContractSolvent
  VotingWeightBacked
  ValidatorsListable
  SnapshotBacked
  WindowExact
  ContextAvailable
PROPERTY ConvertedOnce
PROPERTY NilBlocksFollowValidator
