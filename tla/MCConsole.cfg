SPECIFICATION Spec
CONSTANTS
  Bits = 16
  Chars <- MCChars
  NewLine = "n"
  Width = 2
  Height = 3
  HalfByte = 4
  Programs <- MCPrograms
  Typed = {"k"}
  Reports <- MCReports
  Moves <- MCMoves
  MaxInterrupts = 3
INVARIANTS
  ShowsWhatWasPrinted
  WritesStayInVideoMemory
  MouseShown
  NumbersReadBack
CHECK_DEADLOCK FALSE
