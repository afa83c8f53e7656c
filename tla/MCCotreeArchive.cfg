CONSTANTS
  MaxRows = 2
  Lengths = {0, 2}
SPECIFICATION ArchiveSpec
CHECK_DEADLOCK FALSE
INVARIANT ArchiveInv
