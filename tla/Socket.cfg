SPECIFICATION SocketSpec
CONSTANTS
  Sender = sender
  Receiver = receiver
  Destroyer = destroyer
  MaxSends = 3
INVARIANT NoUseAfterClose
INVARIANT LostByErrorOnly
PROPERTY CloseEnds
PROPERTY ReceiverEnds
CHECK_DEADLOCK FALSE
