SPECIFICATION FairSpec
CONSTANTS
  NumThreads = 2
  Hosts <- StayingHost
  MaxStarts = 1
  NumChunks = 2
  MaxVersion = 4
PROPERTIES EveryActionEnds
