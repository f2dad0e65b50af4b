SPECIFICATION FairSpec
CONSTANTS
  Volumes = {v1, v2, v3}
  IPods = {v1, v2}
  Mobiles = {v2}
  ITunes = ITunes
  MaxPlugs = 1
  Nil = Nil
INVARIANTS
  NewestHeard
  EveryPairCrossed
  FirstFetcherShowsAll
PROPERTIES
  RefinesReading
  EveryMountLookedAt
CHECK_DEADLOCK FALSE
