SPECIFICATION Spec
CONSTANTS
  a = a
  b = b
  o1 = o1
  o2 = o2
  p1 = p1
  p2 = p2
  Location = {p1, p2}
  NoLocation = NoLocation
  NoOrder = NoOrder
  NoTx = NoTx
  Sku = {a}
  Order = {o1, o2}
  Worker = {w1}
  Clerk = {c1, c2}
  StartRow <- ManualStart
  MaxLedger = 3
  Items <- SingleItems
  CreateStatus = {"PENDING_CONFIRM"}
  CreateSource = {"ADMIN"}
  CreateType = {"STANDARD"}
  MiniappOrder = {o1, o2}
  Target = {"CONFIRMED", "PENDING_SHIPMENT", "SHIPPED", "CANCELLED"}
  PatchSource = {}
  PatchType = {"STANDARD"}
  Overlap = FALSE
  DeleteHeld = TRUE
  Amount = {1, 2}
  ManualLocation = {p1, p2}
  MaxRemove = 1
  Keeper = {}
  StatusChoice = {}
  Renames = FALSE
  Removes = FALSE
  SafetyLevel = {0, 1, 2}
SYMMETRY AlikeClerks
INVARIANTS
  TypeOK
  LedgerExplainsStock
  LocationsAddUp
  StatusShowsStock
  ViewsAgree
PROPERTIES
  KeepsOpenBook
