\* Any message the wire format can carry, zero-quantity Adds included.
SPECIFICATION Spec
CONSTANTS
  o1 = o1
  o2 = o2
  o3 = o3
  OrderIds = {o1, o2, o3}
  Prices = {1, 2, 3}
  MaxQuantity = 2
  AddQuantities = {0, 1, 2}
  U32 = 8
SYMMETRY IdSymmetry
INVARIANTS
  TypeOK
  LevelsMatchOrders
  NoOrphanLevel
  BboIsBestOrder
