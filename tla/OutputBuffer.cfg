SPECIFICATION BufferSpec
CONSTANTS
  MaxSize = 5
  MaxLines = 3
  Width = 64
  MaxChunk = 3
  MaxAppended = 11
INVARIANTS BufferInv HoldsTheEnd RecentIsEnd SizeDrift
CHECK_DEADLOCK FALSE
