SPECIFICATION FairSpec
CONSTANTS
  Settle = 2
  Oversample = 2
  Preempt = FALSE
  MaxEnter = 3
INVARIANTS
  IInv
  ResultsFromOwnSamples
PROPERTIES
  StagesInOrder
  Commissions
