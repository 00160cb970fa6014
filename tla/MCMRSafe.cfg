SPECIFICATION Spec
CONSTANTS
  w1 = w1
  w2 = w2
  Worker <- TwoWorkers
  NMap = 1
  NReduce = 1
  Mishap = {"crash", "lapse"}
  MaxMishaps = 1
  Staggered = FALSE
  Faults = TRUE
SYMMETRY Symmetry
INVARIANTS
  TypeOK
  PhaseOrder
  FinishMeansDone
