SPECIFICATION Spec
CONSTANTS
  Settle = 2
  Oversample = 2
  Preempt = TRUE
  MaxEnter = 1
PROPERTY StagesInOrder
