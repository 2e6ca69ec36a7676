SPECIFICATION OrdSpec
CONSTANTS
  a = a
  b = b
  o1 = o1
  o2 = o2
  p1 = p1
  p2 = p2
  Location = {p1, p2}
  NoLocation = NoLocation
  NoOrder = NoOrder
  NoTx = NoTx
  Sku = {a}
  Order = {o1, o2}
  Worker = {w1, w2}
  Clerk = {}
  StartRow <- OneSkuStart
  MaxLedger = 5
  Items <- OneSkuItems
  CreateStatus = {"PENDING_CONFIRM", "PENDING_REVIEW", "REJECTED", "CONFIRMED", "PROCESSING", "STOCK_LOCKED", "OUT_OF_STOCK", "PENDING_SCHEDULE", "SCHEDULED", "PRODUCING", "PRODUCED", "PENDING_SHIPMENT", "SHIPPED", "COMPLETED", "CANCELLED"}
  CreateSource = {"ADMIN"}
  CreateType = {"STANDARD"}
  MiniappOrder = {o1}
  Target = {"PENDING_CONFIRM", "PENDING_REVIEW", "REJECTED", "CONFIRMED", "PROCESSING", "STOCK_LOCKED", "OUT_OF_STOCK", "PENDING_SCHEDULE", "SCHEDULED", "PRODUCING", "PRODUCED", "PENDING_SHIPMENT", "SHIPPED", "COMPLETED", "CANCELLED"}
  PatchSource = {"ADMIN", "MINIAPP"}
  PatchType = {"STANDARD", "CUSTOM"}
  Overlap = FALSE
  DeleteHeld = TRUE
SYMMETRY Interchangeable
INVARIANTS
  HoldMatchesLedger
  StatusTellsStock
PROPERTIES
  TerminalIsFinal
  KeepsBook
