CONSTANTS
  Base = 4
  IntSize = 2
  SizeSize = 2
  NumberSize = 2
  Booleans <- MCBooleans
  Ints <- MCInts
  Numbers <- MCNumbers
  Strings <- MCStrings
  Arrays <- MCArrays
  Capacities = {0, 5}
  GrowFactors = {0, 1, 4}
  MaxCapacity = 11
  Copied = {timeout, true, v}
  Cloned = {a}
  Unsupported = {u}
  Timeout = timeout
  True = true
  MaxValues = 2
  Faults = {"stack", "callee", "message"}
  MaxProtected = 1
SPECIFICATION DeliverySpec
INVARIANTS
  DeliveryTypeOK
  AddedIsPushed
  FitsCapacity
  ValuesArrive
  ErrorsNameTheValue
  StackIsRestored
  MessagesAreFreed
  InterruptsAsAsked
