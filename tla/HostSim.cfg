SPECIFICATION Spec
CONSTANTS
  MaxTimers = 2
  Periods = {1, 3, 4}
  Slice = 4
  Now = 50
  Word = 100
  MaxTime = 10
  MaxCalls = 3
  None = None
  SampleDepth = 2
  Decimations = {0, 2}
  CounterMod = 3
INVARIANTS EveryTimerIsCalled WindowIsEven
PROPERTIES KeepsRate TriggerNeedsFall
CHECK_DEADLOCK FALSE
