CONSTANTS
  c1 = c1
  c2 = c2
  Ips <- MCIps
  Limits <- MCLimits
  TrustedSets <- MCTrusted
  MaxTracked = 1
  GlobalMax = 2
  Horizon = 3
SPECIFICATION FairSpec
INVARIANTS TypeOK TableBounded AddressWithinLimit BurstBounded
PROPERTIES BlockServed StaleForgotten
