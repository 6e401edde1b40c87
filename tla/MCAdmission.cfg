CONSTANTS
  c1 = c1  c2 = c2  c3 = c3  proxy = proxy  home = home
  Conns <- MCConns
  Hosts <- MCHosts
  HostOf <- MCHostOf
  Versions <- MCVersions
  MaxTotal <- MCMaxTotal
  MaxPerIP <- MCMaxPerIP
  Trusted <- MCTrusted
SPECIFICATION FairSpec
INVARIANTS TypeOK BooksBalance CeilingsHold SessionsReachable
PROPERTY SlotsDrain
