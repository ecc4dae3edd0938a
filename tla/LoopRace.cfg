CONSTANTS
  u1 = u1
  k1 = k1
  k2 = k2
  b1 = b1
  usd = usd
  Registry = Registry
  Vault = Vault
  Users = {u1}
  Keepers = {k1, k2}
  Borrowers = {b1}
  Assets = {usd}
  NoConfig = NoConfig
  Nobody = Nobody
  RegistryAddr = Registry
  VaultAddr = Vault
  Accounts <- MCAccounts
  RegistryConfigs <- MCRegistry
  VaultConfigs <- MCVault
  InitialBalance <- MCThinBalance
  Amounts <- MCAmounts
  Deposits <- MCDeposit
  ResponseTimes = {0, 1}
  Routes = {}
  Positions <- MCPositions
  Worlds <- MCRace
  Denom = 2
  Pct = 1
  U64Max = 9
  MaxTime = 1
  MaxProfit = 99
  MaxReserves = 1
  MaxRestarts = 0
SPECIFICATION LoopSpec
SYMMETRY MCSymmetry
INVARIANTS
  OnlyLosersOwe
