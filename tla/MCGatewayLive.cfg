CONSTANTS
  Bridges = {b1}
  Keys = {k1, k2}
  Workers = {}
  Maintainers = {m1}
  ForceModes = {FALSE}
  Tokens = {t1, t2, t3, t4}
  Read = Read
  NoToken = NoToken
  NoKey = NoKey
  NoLease = NoLease
SPECIFICATION FairSpec
INVARIANT NoStrandedTokens
PROPERTIES DrainEnds BridgesUnwind
