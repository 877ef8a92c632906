CONSTANTS
  Num = 2
  IdxWrap = 4
  Rings = {r1, r2}
  Plain = Plain
  ParkMax = 2
  SigMax = 1
  MaxRequests = 3
  MaxRestarts = 1
SPECIFICATION Spec
CHECK_DEADLOCK FALSE
INVARIANT JoinFindsOutstanding
