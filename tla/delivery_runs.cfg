CONSTANTS
  Volumes = 2
  AlbumLimit = 3
  GroupLimit = 3
  Plans <- SomePlans
SPECIFICATION FairSpec
INVARIANTS ArrivesInOrder DeletedIsStored ReceiptsAreKept CompletedIsComplete NothingInDoubt
CHECK_DEADLOCK FALSE
