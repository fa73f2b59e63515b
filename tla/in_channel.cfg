SPECIFICATION Spec
CONSTANTS
  Processes = {p, q}
  Later = {q}
  MaxAttached = 3
  MaxEvents = 4
INVARIANT AttachedAreActivated
CHECK_DEADLOCK FALSE
