\* Three workers, two clients, four tasks: tasks queue up behind the workers.
CONSTANTS
  Workers = {w1, w2, w3}
  Clients = {c1, c2}
  Tasks = {k1, k2, k3, k4}
SPECIFICATION LiveSpec
INVARIANTS
  TasksAreInOnePlace
  DestroyedIsDrained
  WorkIsNoticed
PROPERTIES
  FuturesBecomeReady
  DestructorReturns
CHECK_DEADLOCK FALSE
