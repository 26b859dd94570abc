CONSTANTS
  u = u
  User = {u}
  Order = {11}
  Owner <- OneOwner
  Amount <- UsualAmount
  Toman = {11}
  Months = 2
  Gift = {1, 2}
  Suspensions = {u}
  Checker = {"cron", "callback", "manual"}
  Selling = TRUE
  Settings <- OnlyHooshPay
  Life = 1
  MaxTime = 2
  MaxQueries = 1
  BatchSize = 2
  MaxDeaths = 1
SPECIFICATION TwoAtATimeSpec
PROPERTIES SettledUnlessOvertaken
INVARIANTS BillingInv ProjectionIsCurrent PaidTimeIsContinuous
CHECK_DEADLOCK FALSE
