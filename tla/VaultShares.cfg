CONSTANTS
  u1 = u1
  u2 = u2
  k1 = k1
  Registry = Registry
  Vault = Vault
  Market = Market
  Users = {u1, u2}
  Keepers = {k1}
  NoConfig = NoConfig
  RegistryAddr = Registry
  VaultAddr = Vault
  Accounts <- MCAccounts
  RegistryConfigs <- MCSharesRegistry
  VaultConfigs <- MCSharesVault
  InitialBalance <- MCSharesBalance
  Amounts <- MCAmounts
  ResponseTimes = {0}
  Routes <- MCSharesRoutes
  U64Max = 1
  MaxTime = 1
  MaxProfit = 2
SPECIFICATION Spec
SYMMETRY MCSymmetry
INVARIANTS
  TypeOK
  SharesAddUp
  ShareWorthAtLeastOne
PROPERTIES
  SharePriceNeverFalls
  IsSharePool
