\* Lists of up to four entries that change up to twice during a call; one
\* system call of it may fail.
CONSTANTS
  e1 = e1
  e2 = e2
  e3 = e3
  e4 = e4
  Entry = {e1, e2, e3, e4}
  Skipped = {e3}
  Bare = {e2}
  InitialCap = 1
  MaxChanges = 2
  MaxFailures = 1
SPECIFICATION AllSpec
INVARIANTS AllTypeOK UndisturbedCallIsExact 
  EverythingIsGivenBack WhichErrorsAreOwn
PROPERTIES EveryCallReturns
