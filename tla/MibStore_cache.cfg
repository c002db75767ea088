SPECIFICATION FairStoreSpec
CONSTANTS
  Writer = {w1, w2}
  Key = {k, s}
  Sortable = {k}
  Entry = {e1, e2}
  Missing = Missing
  Quietly = TRUE
  Faults = TRUE
  MaxInbox = 2
INVARIANTS
  StoreTypeOK
  CacheSortable
  StaleOnlyIfTold
PROPERTIES
  Converges
