\* Three buffers, for which the setup makes one the low level.
SPECIFICATION FairSpec
CONSTANTS
  Count = 3
  LowLevel = 1
  MaxFailures = 0
PROPERTY DsiGetsBuffer
