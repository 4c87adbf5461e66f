SPECIFICATION MCSpec
CONSTANTS
  cid = cid
  key = key
  tx = tx
  odd = odd
  k1 = k1
  k2 = k2
  Nothing = Nothing
  Request = {r1}
  Contract = {k1, k2}
  Content <- Contents
  Format <- FormatTable
  BaseEnabled = TRUE
  KuboUrl = TRUE
  MaxCalls = 3
  MaxEdits = 2
INVARIANTS TypeOK ResolvedWasThere KuboFailsNothing
PROPERTIES CacheCatchesUp RequestsEnd
