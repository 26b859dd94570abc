CONSTANTS
  u1 = u1
  u2 = u2
  User = {u1, u2}
  Sender = {u1}
  Topic = {"item", "profile"}
  RateLimit = 2
  MaxRows = 3
  MaxMenus = 3
  MaxChanges = 1
  l1 = l1
  l2 = l2
  j1 = j1
  j2 = j2
  j3 = j3
  k1 = k1
  k2 = k2
  r1 = r1
  r2 = r2
  Login = {l1, l2}
  Job = {j1, j2, j3}
  Private = {j2}
  Inspected <- Continues
  LeaseTime = 1
  MaxTime = 2
  MaxTries = 2
  MaxLeaves = 1
  MaxDeaths = 1
  Link = {k1, k2}
  Request = {r1, r2}
  LinkLife = 1
  ClockSkew = 0
  SessionLife = 2
  AttemptLife = 1
  MaxBrowsers = 1
  MaxAttempts = 3
SPECIFICATION Spec
INVARIANTS SessionsAreExclusive ExpiredWasRefused OperatorIsLastResort CompanionInv PrivateStaysPrivate GivenIsQueued
SYMMETRY Alike
CHECK_DEADLOCK FALSE
