\* Four calls over two processes; blank lines and lines with the id of another call
\* are left out (see KeepsContract).
SPECIFICATION Spec
CONSTANTS
  Kinds = {"call", "huge", "raw", "hugeRaw", "scalar"}
  MaxCalls = 4
  MaxStarts = 2
CHECK_DEADLOCK FALSE
INVARIANTS
  TypeOK
  QueueIsThePendingMap
PROPERTIES
  KeepsContract
  EveryCallSettles
