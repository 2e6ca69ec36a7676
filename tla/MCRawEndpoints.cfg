SPECIFICATION RawSpec
CONSTANTS
  a = a
  b = b
  o1 = o1
  o2 = o2
  p1 = p1
  p2 = p2
  Location = {p1, p2}
  NoLocation = NoLocation
  NoOrder = NoOrder
  NoTx = NoTx
  Sku = {a}
  Order = {o1, o2}
  Worker = {w1}
  Clerk = {}
  StartRow <- AmpleStart
  MaxLedger = 4
  Items <- OneSkuItems
  CreateStatus = {"PENDING_CONFIRM"}
  CreateSource = {"ADMIN"}
  CreateType = {"STANDARD"}
  MiniappOrder = {o1}
  Target = {"CONFIRMED", "PENDING_SHIPMENT", "SHIPPED", "COMPLETED", "CANCELLED"}
  PatchSource = {}
  PatchType = {"STANDARD"}
  Overlap = FALSE
  DeleteHeld = TRUE
  Amount = {1}
  ManualLocation = {p1, p2}
  MaxRemove = 1
  Keeper = {k1}
  StatusChoice = {"DISABLED"}
  Renames = TRUE
  Removes = TRUE
INVARIANTS
  DeductedAtMostOnce
  GoneHoldsNoStock
