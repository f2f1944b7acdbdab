CONSTANTS
  u1 = u1  u2 = u2  e1 = e1  e2 = e2  p1 = p1
  Ids = {u1, u2}
  Emails = {e1, e2}
  Passwords = {p1}
  Requests = {r1, r2}
  Services <- MCServices
  Dtos <- MCDtos
  Routes <- MCRoutes
  Seed <- MCSeed
  NoRow = NoRow
  Garbage = Garbage
  NoToken = NoToken
  Life = 1
  MaxClock = 1
  MaxCalls = 4
SPECIFICATION Spec
INVARIANT AdminServed
