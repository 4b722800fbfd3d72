SPECIFICATION Spec
CONSTANTS
  MaxEpisode = 2
  MaxSamples = 4
  MaxEvents = 2
  RingSize = 3
INVARIANTS TypeOK CoveredMeansListed
PROPERTIES IsCatalogue
CHECK_DEADLOCK FALSE
