CONSTANTS
  u1 = u1
  k1 = k1
  k2 = k2
  Registry = Registry
  Vault = Vault
  Market = Market
  Users = {u1}
  Keepers = {k1, k2}
  NoConfig = NoConfig
  RegistryAddr = Registry
  VaultAddr = Vault
  Accounts <- MCAccounts
  RegistryConfigs <- MCDrawsRegistry
  VaultConfigs <- MCDrawsVault
  InitialBalance <- MCDrawsBalance
  Amounts <- MCAmounts
  ResponseTimes = {0}
  Routes <- MCDrawsRoutes
  U64Max = 1
  MaxTime = 1
  MaxProfit = 1
SPECIFICATION Spec
SYMMETRY MCSymmetry
INVARIANTS
  CashConserved
  ActiveLiqIsOut
  DrawsTracked
  StakesBacked
  RosterCoherent
  IdleVaultPays
  CreditBacked
