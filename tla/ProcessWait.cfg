\* No pid is reused, waitpid is not interrupted and other parents collect
\* their children: every wait for a terminated process returns, whatever
\* happens to the clock.
CONSTANTS
  a1 = a1
  a2 = a2
  b1 = b1
  pa = pa
  pb = pb
  NoInc = NoInc
  NoPid = NoPid
  Inc = {a1, b1}
  Pid = {pa, pb}
  PidOf <- DistinctPids
  Kids = {a1}
  Foreign = {}
  MaxTick = 1
  BootTimes = {1, 2}
  Task = {t1}
  Interrupts = FALSE
  Sent = {"Term", "Kill"}
SPECIFICATION ReapedSpec
PROPERTIES WaitReturns
