SPECIFICATION FairSpec
CONSTANTS
  Tabs = {t1, t2}
  Workers = {1, 2, 3, 4}
  NoWorker = 0
  MaxHops = 3
INVARIANTS TypeOK VerifiedFetchIsSet TrustlessIsVerified ReloadIsServed
PROPERTIES PageSettles EventsAnswered
