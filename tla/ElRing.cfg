SPECIFICATION Spec
CONSTANTS
  Capacity = 6
  MaxBytes = 15
INVARIANTS
  ReadsInOrder
  ReservedSlotsAreFree
  IInv
PROPERTY ImplementsFifo
