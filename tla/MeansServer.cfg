CONSTANTS
  None = None
  FirstHalf = FirstHalf
  Listener = Listener
  Conns = {1, 2, 3}
  Addresses = 1
  Messages <- MCMessages
  InitCapacity = 1
  MaxLoad = 8
SPECIFICATION Spec
INVARIANT ListInv
INVARIANT MeansInv
INVARIANT Framed
INVARIANT WholeIsProcessed
INVARIANT QueryByDefinition
PROPERTY ImplementsMeansService
