SPECIFICATION Spec
CONSTANTS
  g1 = g1
  g2 = g2
  x1 = x1
  x2 = x2
  c1 = c1
  Controller = {c1}
  Lamp = {l1, l2}
  ControllerOf <- OneController
  Place = {x1, x2}
  Good = {g1, g2}
  Stores <- TwoGoods
  Safety <- Alert
  MaxAvail = 1
  Chore = {k1, k2}
  NoPlace = NoPlace
  NoLamp = NoLamp
SYMMETRY Symmetry
INVARIANTS
  LampsRight
CHECK_DEADLOCK FALSE
