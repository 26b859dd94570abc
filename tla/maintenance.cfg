CONSTANTS
  u = u
  album = album
  other = other
  c = c
  k1 = k1
  k2 = k2
  Event = {album, other}
  Output = {album, other}
  Ascending = {album}
  Pieces <- TwoPieces
  Destination = {c}
  Dispatcher = {}
  BatchLimit = 2
  MaxAttempts = 1
  Lease = 1
  MaxAdmin = 1
  ListLimit = 1
SPECIFICATION Spec
INVARIANTS LandsAtMostOnce ClosedIsMirrored
PROPERTIES ClosedChannelsAreQuiet MaintenanceSettles
CHECK_DEADLOCK FALSE
