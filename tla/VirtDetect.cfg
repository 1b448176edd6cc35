SPECIFICATION DetectSpec
CONSTANTS
  Archs <- MCArchs
  Machines <- MCMachines
INVARIANT DetectTypeOK
INVARIANT NothingMissed
INVARIANT VerdictIsRight
