\* Every file of one or two ordinary tracks of six codings, numbered 1 or 2, default or
\* not; of one odd track numbered 0 to 2, alone or before or behind an ordinary one;
\* and five files of three tracks; the children of an entry in any order.
SPECIFICATION Spec
CONSTANT Files <- MCFiles
CHECK_DEADLOCK FALSE
INVARIANTS
  TypeOK
  SelectionLeadsBack
  FirstClaimWins
  NoWildAccess
  ParsingOpensVideo
  ExitExplained
  UnreadIsClosed
