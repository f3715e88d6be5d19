SPECIFICATION ServerSpec
CONSTANTS
  c1 = c1  c2 = c2  c3 = c3  c4 = c4
  k1 = k1  k2 = k2
  r1 = r1  r2 = r2
  old1 = old1  old2 = old2
  NoKey = NoKey
  Conns <- MCConns
  Legacy <- MCLegacy
  Repos <- MCRepos
  Payload <- MCPayload
INVARIANTS
  KeyImpliesRow
  AckImpliesRow
  DuplicateOnlyIfExposed
  HistoryCurrent
