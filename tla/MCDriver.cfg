\* Two clients with a connection each, and three result sets between them, so
\* that an id is given out again while another is in use.
SPECIFICATION Spec
SYMMETRY Symmetry
\* The bounds on what is ever made let the clients run out of calls.
CHECK_DEADLOCK FALSE
CONSTANTS
  Client = {c1, c2}
  Idle = Idle
  MaxConnections = 2
  MaxStatements = 1
  MaxResultSets = 3
  MaxUpdates = 1
  MaxTx = 2
  MaxPoisoned = 1
INVARIANTS
  HandlesReachTheirObjects
  UpdatesAreWholeOrAnnounced
  LeftLocksAreLateReads
