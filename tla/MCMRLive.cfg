SPECIFICATION FairSpec
CONSTANTS
  w1 = w1
  w2 = w2
  Worker <- TwoWorkers
  NMap = 2
  NReduce = 1
  Mishap = {}
  MaxMishaps = 0
  Staggered = FALSE
  Faults = FALSE
PROPERTY
  JobFinishes
