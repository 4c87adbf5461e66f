SPECIFICATION Spec
CONSTANTS
  shop = shop
  ring1 = ring1
  ring2 = ring2
  sub = sub
  name = name
  eth = eth
  com = com
  NoDomain = NoDomain
  Request = {r1}
  Domain <- Domains
  EnsName <- EnsNames
  Suffixes <- SuffixTable
  Canonical <- Links
  Contested = {}
  MaxHops = 5
  MaxAge = 0
  Socials = TRUE
  DataUrl = FALSE
INVARIANTS CycleDetected
