SPECIFICATION FairSpec
CONSTANTS
  Nil = Nil
  h1 = h1
  h2 = h2
  Hashes <- TwoTorrents
  Torrents <- SomeLooks
  Full = 1
  MaxChanges = 3
  MaxMishaps = 2
  MaxPurges = 1
INVARIANT TypeOK
INVARIANT StoryContinues
INVARIANT StoryIsCurrent
INVARIANT RemovalsConfirmed
INVARIANT SavedIsTracked
INVARIANT OneCompletion
PROPERTY TrackingConverges
