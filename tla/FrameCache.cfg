CONSTANTS
  Producers = {p1, p2}
  Consumers = {c1}
  Frames = {f1, f2}
  NoFrame = NoFrame
  NoSlot = NoSlot
  Size = 3
SPECIFICATION Spec
INVARIANTS
  TypeOK
  LiveSlotsOnly
  CountersAccount
  NoLostWakeup
  BeginPointerStable
PROPERTIES
  ImplementsQueue
  PushReleased
