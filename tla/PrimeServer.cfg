CONSTANTS
  Listener = Listener
  Conns = {1, 2}
  Addresses = 1
  Requests <- MCRequests
  MaxInt = 127
  MaxPieces = 6
SPECIFICATION Spec
INVARIANT AnswersAreOwn
INVARIANT MalformedIsLast
INVARIANT PrimeInv
INVARIANT PrimeByDefinition
INVARIANT LinesAreAnswered
