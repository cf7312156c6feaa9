SPECIFICATION FairSpec
CONSTANTS
  w1 = w1
  i1 = i1
  i2 = i2
  poll = poll
  s1 = s1
  NoWorker = NoWorker
  NoToken = NoToken
  NoInstance = NoInstance
  Workers = {w1}
  Instances = {i1,i2}
  Poll = poll
  Senders = {s1}
  Reaches <- Apart
  Tokens = {1,2,3,4}
  TTL = 2
  MaxEntries = 1
  MinInterval = 2
  HealthyAfter = 3
  InactiveAfter = 4
  StatusAfter = 5
  WorkerRegion <- OneRegion
  MaxFaults = 1
INVARIANTS TypeOK CacheIndexed 
PROPERTIES AcceptedTokensAreRecent RotationPurges RevocationSettles 
