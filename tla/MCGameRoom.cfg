CONSTANTS
  Sessions = {1, 2}
  MaxChats = 1
  MaxBreaks = 1
SPECIFICATION Spec
CHECK_DEADLOCK FALSE
INVARIANT RoomInv
PROPERTY RefinesChatRoom
