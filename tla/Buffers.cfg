\* Three cores, of which the last, that ties prefer, is watched, and two
\* subtasks that can be told apart.
SPECIFICATION Spec
CONSTANTS
  Element = {m1, m2}
  NCores = 3
  MaxSize = 3
  Capacity = 2
  Watched = 2
INVARIANTS
  IndexExact
  ActiveBusy
  ActiveAtFront
  BoundedCapacity
PROPERTIES
  IsQueue
