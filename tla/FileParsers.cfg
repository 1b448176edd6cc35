\* Two arguments and two entries of the environment at most.
CONSTANTS
  Words <- MCWords
  Entries <- MCEntries
  MaxArgs = 2
SPECIFICATION Spec
INVARIANTS TypeOK ParsedIsExact StringsSurvive
CHECK_DEADLOCK FALSE
