SPECIFICATION Spec
CONSTANTS
  s1 = s1
  r1 = r1
  t1 = t1
  u1 = u1
  c1 = c1
  c2 = c2
  p1 = p1
  Task = {t1}
  Spot = {s1}
  Stocked = {r1}
  SpotOf <- OneSpot
  GoodOf <- OneGood
  Asked <- OneTask
  Hand = {h1, h2}
  NoTask = NoTask
  NoStock = NoStock
  MaxReconnects = 3
  MaxOutages = 2
  Server = {p1, p2}
  User = {u1, u2}
  Company = {"ours", "theirs"}
  TenantOf <- Colleagues
  Conn = {c1, c2}
  Notice = {n1}
  Beats = 0
  Sendings = 2
  Everyone = Everyone
  Nobody = Nobody
  Points = 2
  Request = {q1, q2, q3}
INVARIANTS
  CountIsHonest
  AtMostPoints
PROPERTIES
  NoticesFit
  TasksEnd
  HeardAgainInTurn
  StreamsServed
  Reopens
CHECK_DEADLOCK FALSE
