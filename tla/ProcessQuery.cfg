\* Two pids with two incarnations each, parents and children, two processes
\* of another user, long and short names.
CONSTANTS
  a1 = a1
  a2 = a2
  b1 = b1
  b2 = b2
  pa = pa
  pb = pb
  NoInc = NoInc
  Inc = {a1, a2, b1, b2}
  Pid = {pa, pb}
  PidOf <- FamilyPids
  ParentOf <- FamilyParents
  Kids = {}
  Foreign = {a2, b1}
  MaxTick = 1
  BootTimes = {0}
  LongNames = {a1, b2}
  SameComm <- FamilyComm
SPECIFICATION Spec
INVARIANTS TypeOK WhatErrorsTell MixedOnlyByReuse
