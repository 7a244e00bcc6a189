SPECIFICATION ListSpec
CONSTANTS
  Payload = {"a", "b"}
  WindowSize = 2
  MaxWrites = 3
INVARIANTS
  AckKept
  ListsAreSets
PROPERTIES
  ImplementsFifo
  AllDelivered
