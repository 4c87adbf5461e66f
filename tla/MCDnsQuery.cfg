SPECIFICATION FairSpec
CONSTANTS
  name = name
  eth = eth
  com = com
  prefixed = prefixed
  twice = twice
  NoDomain = NoDomain
  Request = {r1}
  Domain <- Domains
  EnsName = {name, prefixed, twice}
  Suffixes <- SuffixTable
  Canonical <- NoLinks
  DohDomain <- Resolved
  Contested = {name, eth}
  Packet <- Packets
  MaxQuestions = 2
  MaxAge = 1
INVARIANTS TypeOK BlacklistEnforced AnswersFollowQuestions
PROPERTY RequestsAnswered
