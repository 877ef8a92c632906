CONSTANTS
  N = 2
  TxSize = 4
  RxSize = 2
  Wrap = 8
  Lengths = {1}
  DumpMax = 2
  BatchSize = 3
  GonePolls = 1
  MaxSent = 2
  MaxReplies = 3
  MaxGuests = 1
  OutSize = 2
  InSize = 2
  CountWrap = 4
  Writers = {tty, printk}
  Nobody = Nobody
  MaxCount = 1
  MaxOut = 3
  MaxIn = 2
  Num = 2
  IdxWrap = 4
  Rings = {r1, r2}
  Plain = Plain
  ParkMax = 2
  SigMax = 1
  MaxRequests = 2
  MaxRestarts = 1
SPECIFICATION DevicesLive
CHECK_DEADLOCK FALSE
PROPERTIES  FramesArrive  RequestsComplete
