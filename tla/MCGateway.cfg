SPECIFICATION FairSpec
CONSTANTS
  shop = shop
  ring1 = ring1
  ring2 = ring2
  sub = sub
  name = name
  eth = eth
  com = com
  NoDomain = NoDomain
  Request = {r1, r2}
  Domain <- Domains
  EnsName <- EnsNames
  Suffixes <- SuffixTable
  Canonical <- Links
  Contested = {name}
  MaxHops = 2
  MaxAge = 0
  Socials = FALSE
  DataUrl = TRUE
INVARIANTS TypeOK BlacklistEnforced
PROPERTY RequestsAnswered
