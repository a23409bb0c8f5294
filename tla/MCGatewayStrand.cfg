CONSTANTS
  Bridges = {b1}
  Keys = {k1}
  Workers = {w1}
  Maintainers = {m1}
  ForceModes = {FALSE, TRUE}
  Tokens = {t1, t2, t3, t4}
  Read = Read
  NoToken = NoToken
  NoKey = NoKey
  NoLease = NoLease
SPECIFICATION Spec
CHECK_DEADLOCK FALSE
INVARIANT NoStrandedTokens
