\* Two workers, two clients, two items.
CONSTANTS
  i1 = i1  i2 = i2
  Workers = {w1, w2}
  Clients = {c1, c2}
  Items = {i1, i2}
  Batches <- MCBatches
  NoItem = NoItem
SPECIFICATION Spec
INVARIANTS TypeOK NoUseAfterFree CountsExact ExactlyOnce
PROPERTIES CallsReturn Implements
