CONSTANTS
  FormatId = {1, 2, 3, 4, 5}
  LowerAllowed = TRUE
  SearchOffers <- MCSearchOffers
  Requests <- MCRequests
  MaxVisits = 1024
  Offers <- MCOffers
  ModeOrder <- MCModes
  ExplicitAllowed = TRUE
  MaxFile = 2
  MaxSource = 3
  MaxDrift = 2
  Item = {1, 2, 3, 4}
  Images = {1, 2}
  Measured = {1}
  Source = {"instagram", "stories", "twitter"}
  MaxItems = 3
  MaxEdits = 3
  MaxTries = 2
  Work = {w1}
  Scratch = {s1}
  Sweeper = {"worker"}
  MaxStarts = 3
  Provider = {"instagram", "youtube"}
  Watched = {"instagram"}
  RecoveryNotifications = TRUE
  OtherRefresher = {"panel"}
  MaxEvents = 2
  Client = {"bot", "worker"}
SPECIFICATION HostSpec
INVARIANTS
  SearchFindsBest
  OfferIsKept
  OneVersion
  WorkSurvives
  WritesSurvive
  RefusalIsTold
  LogoutOnce
  RunningIsServed
CHECK_DEADLOCK FALSE
