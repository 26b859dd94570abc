CONSTANTS
  u = u
  User = {u}
  Order = {11}
  Owner <- OneOwner
  Amount <- UsualAmount
  Toman = {11}
  Months = 2
  Gift = {1}
  Suspensions = {u}
  Checker = {"cron", "callback"}
  Selling = TRUE
  Settings <- OnlyHooshPay
  Life = 1
  MaxTime = 2
  MaxQueries = 2
  BatchSize = 2
  MaxDeaths = 1
SPECIFICATION BillingSpec
PROPERTIES TerminalIsFixed
CHECK_DEADLOCK FALSE
