CONSTANTS
  u1 = u1
  k1 = k1
  b1 = b1
  usd = usd
  Registry = Registry
  Vault = Vault
  Users = {u1}
  Keepers = {k1}
  Borrowers = {b1}
  Assets = {usd}
  NoConfig = NoConfig
  Nobody = Nobody
  RegistryAddr = Registry
  VaultAddr = Vault
  Accounts <- MCAccounts
  RegistryConfigs <- MCRegistry
  VaultConfigs <- MCVault
  InitialBalance <- MCBalance
  Amounts <- MCAmounts
  Deposits <- MCDeposit
  ResponseTimes = {0, 1}
  Routes = {}
  Positions <- MCPositions
  Worlds <- MCWorlds
  Denom = 2
  Pct = 1
  U64Max = 9
  MaxTime = 0
  MaxProfit = 99
  MaxReserves = 1
  MaxRestarts = 1
SPECIFICATION FairLoopSpec
INVARIANTS
  LoopTypeOK
  DrawnWhileFilling
  CountedFillsHappened
PROPERTIES
  CyclesEnd
  CapitalReturns
