CONSTANTS
  a = a
  b = b
  Null = Null
  Demo = {a}
  DemoStat <- MCDemoStat
  Reports <- MCReports
  KeeperRecords <- MCKeeperRecords
  Factors <- MCFactors
  MaxFactor = 20
  MaxFetches = 3
SPECIFICATION SiteSpec
INVARIANTS
  LiveFeedIsReported
