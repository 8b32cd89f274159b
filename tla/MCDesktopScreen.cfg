SPECIFICATION SpecOnScreen
CONSTANTS
  Width = 2
  Height = 3
  Windows <- MCWindows
  Steps <- MCSteps
  Buttons = {1}
  Word = 64
  CursorRows = 3
INVARIANTS
  UserHitsWhatIsSeen
  FillRectIsNaive
PROPERTIES
  ScreenCatchesUp
