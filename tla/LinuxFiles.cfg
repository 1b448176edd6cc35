\* A device comes or goes during a call.
CONSTANTS
  Slots <- MCSlots
  Devices <- MCDevices
  Beside <- MCBeside
  Globbed = {"cpu0", "cpu1"}
  NoDev = {"tmpfs", "zfs"}
  MaxChanges = 1
SPECIFICATION Spec
INVARIANTS TypeOK ItemsAreExact CountsAreExact OneRoot
PROPERTIES CallReturns
CHECK_DEADLOCK FALSE
