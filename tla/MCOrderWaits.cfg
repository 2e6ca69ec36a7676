SPECIFICATION OrdFairSpec
CONSTANTS
  a = a
  b = b
  o1 = o1
  o2 = o2
  p1 = p1
  p2 = p2
  Location = {p1, p2}
  NoLocation = NoLocation
  NoOrder = NoOrder
  NoTx = NoTx
  Sku = {a, b}
  Order = {o1, o2}
  Worker = {w1, w2}
  Clerk = {}
  StartRow <- CrossStart
  MaxLedger = 6
  Items <- CrossItems
  CreateStatus = {"PENDING_CONFIRM"}
  CreateSource = {"ADMIN"}
  CreateType = {"STANDARD"}
  MiniappOrder = {}
  Target = {"CONFIRMED", "CANCELLED"}
  PatchSource = {}
  PatchType = {"STANDARD"}
  Overlap = TRUE
  DeleteHeld = TRUE
INVARIANTS
  NoDirtyRows
PROPERTIES
  RequestsEnd
