SPECIFICATION Spec
CONSTANTS
  Volumes = {50, 100}
  QUEUE_LENGTH = 4
  Tasks = {t1, t2, t3}
  NULL = NULL
SYMMETRY AnyHandle
INVARIANT TypeOK
INVARIANT Settled
INVARIANT DeletesTheTask
