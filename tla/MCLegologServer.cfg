SPECIFICATION FairSpec
CONSTANTS
  p1 = p1
  p2 = p2
  alice = alice
  mail = mail
  site = site
  h1 = h1
  h2 = h2
  h3 = h3
  c1 = c1
  c2 = c2
  None = None
  Partitions = {p1, p2}
  Users = {alice}
  Ids = {mail, site}
  PartitionOf <- MCPartitionOf
  Clients = {c1, c2}
  Callers <- MCCallers
  Preloaded <- MCPreloaded
  Handlers = {h1, h2, h3}
  Faulty = {h3}
INVARIANTS
  PositionsAgree
  PublishedPosIsExact
  SequentialStoreIsExact
  
PROPERTIES
  PartitionsAreDirectories
  AcceptedBecomesProvable
  UpdateEpochsEnd
CHECK_DEADLOCK FALSE
