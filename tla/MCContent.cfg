SPECIFICATION ContentSpec
CONSTANTS
  b1 = b1
  k1 = k1
  s1 = s1
  t1 = t1
  Post = {p1}
  Text = {t1, t2}
  Section = {s1, s2}
  SectionCode = {k1, k2}
  Visitor = {v1}
  Verdict = {"published", "offline"}
  Editor = {e1, e2}
  MaxViews = 2
  Site = {c1, c2}
  Job = {j1}
  Inquiry = {q1}
  Remark = {NoRemark, r1}
  NoRemark = NoRemark
  Good = {g1, g2}
  OthersGoods = {g2}
  Shelf = {b1, b2, b3}
  OthersShelves = {b3}
  Hand = {e1, e2}
  Spot = {l1, l2, l3}
  Lessee = {a1, a2}
  Shelves = {1}
  Levels = {1, 2}
  Mover = {e1, e2}
SYMMETRY Symmetry
INVARIANTS
  ReviewsHold
  ViewsAddUp
  CodesNameOne
PROPERTIES
  SiteHolds
