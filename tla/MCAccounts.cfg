SPECIFICATION Spec
CONSTANTS
  Tenant = {ta, tb}
  Name = {n1, n2}
  Member = {m1}
  Admin = {p1, p2}
  NoOne = NoOne
  Phone = {n1, n2}
  Code = {c1, c2}
  UserName = {n1, n2}
  Account = {ta, tb}
  Applicant = {p1, p2}
  NoCode = NoCode
  Operator = {u1, u2}
  PRole = {r1}
  PMenu = {k1, k2}
  Desk = {p1, p2}
  Chief = u1
  Top = Top
  ta = ta
  tb = tb
  k2 = k2
  fa = fa
  fb = fb
  ra = ra
  rb = rb
  i1 = i1
  i2 = i2
  Firm = {fa, fb}
  Item = {i1, i2}
  Parent <- Pages
  Dirs = {i1}
  Root = Root
  Role = {ra, rb, rc}
  AdminRole <- Admins
  Staff = {s1}
  Worker = {p1, p2}
  Nobody0 = Nobody0
SYMMETRY Symmetry
INVARIANTS
  OneAnswer
  MembersFollow
  UsedOnce
  PlatformHolds
  GrantsHold
CHECK_DEADLOCK FALSE
