SPECIFICATION FairSpec
CONSTANTS
  w1 = w1
  w2 = w2
  Worker <- TwoWorkers
  NMap = 1
  NReduce = 1
  Mishap = {"crash"}
  MaxMishaps = 1
  Staggered = TRUE
  Faults = FALSE
PROPERTY
  JobFinishes
