\* One connection; the channels hold a frame or two.
CONSTANTS
  MaxCalls = 4
  ChanCap = 2
  DownCap = 1
  RxCap = 1
CHECK_DEADLOCK FALSE
SPECIFICATION Spec
INVARIANT OwnAnswers
PROPERTIES Resynchronises ImplementsCalls
