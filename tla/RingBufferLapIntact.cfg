\* One producer and one consumer, one record more than slots.
SPECIFICATION Spec
CONSTANTS
  Producers = {p1}
  Consumers = {c1}
  Capacity = 2
  MaxRecords = 3
  MaxResets = 0
INVARIANT IntactDelivery
