SPECIFICATION Spec
CONSTANTS
  u1 = u1
  u2 = u2
  u3 = u3
  a1 = a1
  a2 = a2
  s1 = s1
  s2 = s2
  k1 = k1
  d1 = d1
  v1 = v1
  UnitId = {u1, u2, u3}
  OwnUnits = {u1, u2}
  UnitCode = {s1, s2}
  ProductId = {a1, a2}
  Sku = {s1, s2}
  Ratio = {3333, 20000}
  Quantity = {1996}
  Caller = {p1, p2}
  MaxBookings = 2
  NoUnit = NoUnit
  Category = {k1, k2}
  OwnCategories = {k1}
  Attr = {a1, a2}
  OwnAttrs = {a1}
  Item = {i1}
  Option = {o1, o2}
  Value = {v1, v2}
  Clerk = {p1, p2}
  SheetCategory = {k1}
  PictureId = {d1}
  Entry <- Filled0
  MaxEntries = 2
  Blank0 = Blank0
  Text0 = Text0
SYMMETRY Symmetry
INVARIANTS
  StockKeepsUnit
  RoundingBounded
  CatalogueHolds
  RowsAsEntered
CHECK_DEADLOCK FALSE
