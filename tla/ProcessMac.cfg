\* A pid that is used twice, first by a process of the caller's group, the
\* process of another user, the kernel task, and a clock that may be set back.
CONSTANTS
  a1 = a1
  a2 = a2
  f1 = f1
  k0 = k0
  pa = pa
  pf = pf
  p0 = p0
  NoInc = NoInc
  NoPid = NoPid
  Inc = {a1, a2, f1, k0}
  Pid = {pa, pf, p0}
  PidOf <- MacPids
  Kids = {}
  Foreign = {f1, k0}
  KernelTask = {k0}
  Group = {a1}
  MaxTick = 1
  BootTimes = {1, 2}
SPECIFICATION Spec
INVARIANTS TypeOK WhereSignalsGo WhatErrorsTell
