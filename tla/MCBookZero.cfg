SPECIFICATION Spec
CONSTANTS
  id1 = id1
  id2 = id2
  id3 = id3
  Ids <- MCIds
  Prices = {1, 2}
  Quantities = {0, 1, 2}
  Amounts = {0, 1, 2}
  MaxMessages = 8
SYMMETRY MCSymmetry
INVARIANT BestSizeIsSum
