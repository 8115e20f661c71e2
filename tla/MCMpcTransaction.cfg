SPECIFICATION FairSpec
CONSTANTS
  Cycles = {c1, c2, c3, c4}
  Zeros = Zeros
  Applied = Applied
  MaxIterSqp = 2
INVARIANTS RetainedUsable CandidateBuildsOnRetained
PROPERTIES ImplementsStore Recovers
