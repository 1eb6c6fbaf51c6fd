CONSTANTS
  r1 = r1
  r2 = r2
  None = None
  Requests <- TwoRequests
  Capacity = 1
  MaxInput = 2
  MaxQueue = 3
  MaxArguments = 0
SPECIFICATION Spec
SYMMETRY Symmetry
INVARIANTS
  TypeOK
  RecordIsKept
  ButtonsComeBack
PROPERTIES
  AnswersAreTrue
