\* kill acts on the next owner of a reused pid.
CONSTANTS
  a1 = a1
  a2 = a2
  b1 = b1
  s0 = s0
  s4 = s4
  pa = pa
  pb = pb
  p0 = p0
  p4 = p4
  NoInc = NoInc
  NoPid = NoPid
  Inc = {a1, a2, b1, s0, s4}
  Pid = {pa, pb, p0, p4}
  PidOf <- WindowsPids
  Kids = {}
  Foreign = {s0, s4}
  System = {s0, s4}
  StillActive = {a1}
  Lingering = {b1}
  Shielded = {a2}
  Guarded = {b1}
  Capacity = 4
  Epoch = 5
  Idle = {s0}
  Wow64 = {a2}
  MaxTick = 1
  BootTimes = {1}
SPECIFICATION QuerySpec
INVARIANTS ActIsChecked
