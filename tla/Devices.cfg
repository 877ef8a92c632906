CONSTANTS
  N = 2
  TxSize = 4
  RxSize = 4
  Wrap = 8
  Lengths = {1, 2}
  DumpMax = 2
  BatchSize = 3
  GonePolls = 2
  MaxSent = 2
  MaxReplies = 3
  MaxGuests = 2
  OutSize = 2
  InSize = 2
  CountWrap = 4
  Writers = {tty, printk}
  Nobody = Nobody
  MaxCount = 2
  MaxOut = 4
  MaxIn = 3
  Num = 2
  IdxWrap = 4
  Rings = {r1, r2}
  Plain = Plain
  ParkMax = 1
  SigMax = 1
  MaxRequests = 3
  MaxRestarts = 1
SPECIFICATION DevicesSpec
CHECK_DEADLOCK FALSE
INVARIANTS TypesOK  FramesComplete RequestsAccounted FencesKept
PROPERTIES FramesInOrder 
