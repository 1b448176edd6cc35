\* The list of processes of macOS grows between the two system calls.
CONSTANTS
  e1 = e1
  e2 = e2
  e3 = e3
  e4 = e4
  Entry = {e1, e2, e3, e4}
  Skipped = {e3}
  Bare = {e2}
  InitialCap = 1
  MaxChanges = 3
  MaxFailures = 1
SPECIFICATION AllSpec
INVARIANTS ProcessListFits
