\* Two orders of 2 at one price, where a level can hold at most 3.
SPECIFICATION Spec
CONSTANTS
  o1 = o1
  o2 = o2
  o3 = o3
  OrderIds = {o1, o2}
  Prices = {1}
  MaxQuantity = 2
  AddQuantities = {1, 2}
  U32 = 4
INVARIANT LevelsMatchOrders
