CONSTANTS
  Threads = {t1, t2}
  Builds = {"module", "intree"}
  Refusals <- MCRefusals
  MaxActive = 1
  MaxCalls = 2
  MaxPublishes = 2
CONSTRAINT OneConcern
SYMMETRY Symmetry
CHECK_DEADLOCK FALSE
SPECIFICATION Spec
INVARIANTS
  EachCallIsHandledOnce
  
  ArgumentsAreReadAsProbed
  ReferencesAreDropped
