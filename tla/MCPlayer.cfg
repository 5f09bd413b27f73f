\* Three buffers of which two must stay usable, so that one may be set aside, and
\* another after waking the disk has failed once.
SPECIFICATION FairSpec
CONSTANTS
  Count = 3
  LowLevel = 2
  MaxFailures = 1
INVARIANTS
  TypeOK
  BuffersAccounted
  RecycleLeavesRoom
  DsiHasBuffer
  ConfiguredFirst
  PendingHeld
  NoReadAsleep
PROPERTIES
  OrphanedInSilence
  LeftAlone
