CONSTANTS
  thread1 = thread1
  thread2 = thread2
  get     = get
  set     = set
  Producers <- MCProducers
  Messages  <- MCMessages
  Null      = Null
  MaxNodes  = 5

SPECIFICATION QueueSpec

SYMMETRY MCSymmetry

INVARIANT QueueTypeOK
INVARIANT NoUseAfterFree
PROPERTY  KeepsPromise

\* The nodes run out.
CHECK_DEADLOCK FALSE
