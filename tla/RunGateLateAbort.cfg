SPECIFICATION Spec
CONSTANTS
  b1 = b1  b2 = b2  p1 = p1  p2 = p2  t1 = t1  t2 = t2  s1 = s1
  NoCore = NoCore  NoThread = NoThread
  Boots = {b1, b2}
  Pollers = {}
  Testers = {}
  Stoppers = {s1}
  NLanes = 1
  SlotOf <- SameLane
  Cores <- TwoCores
  CoreOfTest <- TestCores
INVARIANT AdmissionClosedFirst
