SPECIFICATION OrdSpec
CONSTANTS
  a = a
  b = b
  o1 = o1
  o2 = o2
  p1 = p1
  p2 = p2
  Location = {p1, p2}
  NoLocation = NoLocation
  NoOrder = NoOrder
  NoTx = NoTx
  Sku = {a}
  Order = {o1}
  Worker = {w1, w2, w3}
  Clerk = {}
  StartRow <- AmpleStart
  MaxLedger = 4
  Items <- OneSkuItems
  CreateStatus = {"PENDING_CONFIRM"}
  CreateSource = {"ADMIN"}
  CreateType = {"STANDARD"}
  MiniappOrder = {}
  Target = {"CONFIRMED", "PENDING_SHIPMENT", "SHIPPED", "CANCELLED"}
  PatchSource = {}
  PatchType = {"STANDARD"}
  Overlap = TRUE
  DeleteHeld = TRUE
SYMMETRY Interchangeable
INVARIANTS
  LedgerExplainsHolds
  StockCovered
