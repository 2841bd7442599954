SPECIFICATION HouseSpec
CHECK_DEADLOCK FALSE
CONSTANTS
  Parts = {"staff"}
  Accounts = {a1, a2}
  Founders = {a1}
  Persons = {p1, p2}
  Roles = {admin, desk}
  Administrator = admin
  Tokens = {t1, t2}
  Origins = {o1}
  Requests = {q1, q2}
  MaxFailures = 2
  Nobody = Nobody
  p1 = p1
  p2 = p2
  Document <- OwnDocument
  Horizon = 2
  PunchKeys = {t1, t2}
  Reports = {q1, q2}
  Ttl = 1
  Grace = 1
  Gap = 1
  ByHand = {1}
  Named <- Unsaid
  Vehicles = {t1, t2}
  Slots = {l1, l2}
  Lodgings = {s1}
  Fees = {0, 1}
  Clerks = {c1}
  NoStay = NoStay
  Events <- TwoEvents
  Spaces = {h1}
  Staff = {a1}
  Times <- Times3
  Margins <- SetupOnly
  None = None
  MaxVersion = 4
INVARIANT AlwaysAnAdministrator
