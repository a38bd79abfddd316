SPECIFICATION FairSpec
CONSTANTS
  c1 = c1  c2 = c2  k1 = k1  k2 = k2
  Nil = Nil
  Room = Room
  Members <- OneSided
  Options <- Both
  BroadcastSize = 1
  Callers <- TwoCallers
  Calls <- Mixed
  Idlers <- OneIdle
CHECK_DEADLOCK FALSE
INVARIANT TypeOK
INVARIANT ExactlyOnce
INVARIANT SameRoutineOrder
PROPERTY CallReturns
