CONSTANTS
  w1 = w1
  w2 = w2
  Registry = Registry
  Vault = Vault
  NoConfig = NoConfig
  NoWallet = NoWallet
  Null = Null
  Wallets = {w1, w2}
  Users = {w1, w2}
  Keepers = {w1, w2}
  RegistryAddr = Registry
  VaultAddr = Vault
  Accounts <- MCAccounts
  RegistryConfigs <- MCRegistry
  VaultConfigs <- MCVault
  InitialBalance <- MCBalance
  Amounts = {2}
  ResponseTimes = {0}
  Routes = {}
  U64Max = 1
  MaxTime = 3
  MaxProfit = 1
  Typed = {2}
  Deposited = 2
  Cent = 3
  Worlds <- MCWorlds
SPECIFICATION PageSpec
INVARIANTS
  PageTypeOK
  CardTellsTheTruth
  NoDoubleSubmit
  BusyMeansBusy
  NoPollInVain
  NoVainRefusal
