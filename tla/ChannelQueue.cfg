\* Six tokens through three slots in chunks of two, three sending and two
\* receiving warps: the ring wraps and has no room for two chunks at a time.
\* Every selection is tried.
CONSTANTS
  NumTokens = 6
  NumSlots = 3
  MaxSend = 2
  NumSendWarps = 3
  NumRecvWarps = 2
  MaxOffset = 1
SPECIFICATION FairSpec
INVARIANTS TypeOK UnreadSlotsIntact RowsCorrect WarpsShareTail SendHeadCorrect IInv
PROPERTIES IsTokenStream AllDelivered
