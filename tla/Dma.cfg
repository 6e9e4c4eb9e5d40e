SPECIFICATION Spec
CONSTANTS
  c1 = c1
  c2 = c2
  c3 = c3
  Clients <- ThreeClients
  NumChannels = 4
  NumGroups = 2
  DescPerGroup = 3
  MaxMaps = 2
  NumWidth = 5
  Requests <- MixedRequests
CONSTRAINT RaceOfTwo
SYMMETRY ClientSymmetry3
INVARIANTS RegistersMapped NothingLeft NothingReserved
PROPERTIES PoolSpec
