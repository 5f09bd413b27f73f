CONSTANTS
  Bytes = {a, b}
  Zero = Zero
  BufSize = 4
  MaxChunk = 3
  Profiles <- PlayerProfiles
SPECIFICATION Spec
INVARIANT WriterSleepsForSpace
