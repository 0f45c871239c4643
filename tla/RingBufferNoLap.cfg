\* No more records than slots and no Reset: no slot is used twice.
SPECIFICATION FairSpec
CONSTANTS
  Producers = {p1, p2}
  Consumers = {c1, c2}
  Capacity = 4
  MaxRecords = 3
  MaxResets = 0
INVARIANTS IntactDelivery
PROPERTIES EveryPushIsPopped
