CONSTANTS
  Bytes = {a, b}
  Zero = Zero
  BufSize = 4
  MaxChunk = 3
  Profiles <- AllProfiles
SPECIFICATION Spec
INVARIANTS
  TypeOK
  NoLostWakeup
  WaiterCounted
PROPERTIES
  ImplementsQueue
  DeliversFront
  WriteReleased
