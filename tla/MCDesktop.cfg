SPECIFICATION Spec
CONSTANTS
  Width = 4
  Height = 3
  Windows <- MCWindows
  Steps <- MCSteps
  Buttons = {1, 2}
INVARIANTS
  TypeOK
  FrontDragEnds
  FrontStaysReachable
PROPERTIES
  WindowsMoveWithCursor
