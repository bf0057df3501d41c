SPECIFICATION Spec
CONSTANTS
  Senders = {dispatcher, session}
  Bytes <- MCBytes
  Bodies <- MCBodies
  Junk <- MCJunk
  Base = 2
  SizeLimit = 8
  MaxSends = 2
INVARIANT TypeOK
INVARIANT NothingAfterJunk
INVARIANT OvertakenByOthersOnly
PROPERTY ImplementsStream
CHECK_DEADLOCK FALSE
