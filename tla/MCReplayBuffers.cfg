CONSTANTS
  Capacity = 4
  MaxPushed = 13
  MaxBatch = 5
SPECIFICATION MCSpec
INVARIANTS RecencyOrder SequencesStayInEpisode GoalsFromSameEpisode FinishedEpisodesKept
PROPERTIES ExtraGoesToNewest RefinesWindow
