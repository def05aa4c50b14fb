CONSTANTS
  Listener = Listener
  Conns = {1, 2}
  Addresses = 2
  SndBuf = 2
  MaxBytes = 4
SPECIFICATION Spec
INVARIANT EchoInv
INVARIANT EchoInOrder
INVARIANT EchoComplete
PROPERTY SendAllSummary
PROPERTY HangUpIsClosed
