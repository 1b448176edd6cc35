\* Two tasks with a handle each that suspend, resume and kill; two
\* incarnations of one pid, the first another user's, the second a child of
\* the program; nobody sets the clock.
CONSTANTS
  a1 = a1
  a2 = a2
  b1 = b1
  pa = pa
  pb = pb
  NoInc = NoInc
  NoPid = NoPid
  Inc = {a1, a2}
  Pid = {pa}
  PidOf <- ReusedPid
  Kids = {a2}
  Foreign = {a1}
  MaxTick = 1
  BootTimes = {1}
  Task = {t1, t2}
  Interrupts = TRUE
  Sent = {"Stop", "Cont", "Kill"}
SPECIFICATION Spec
SYMMETRY TaskSymmetry
INVARIANTS TypeOK HandlesIdentify WaitOkMeansGone
  WrongTargetOnlyByLateReuse ReuseIsRefused VerdictIsTrue
