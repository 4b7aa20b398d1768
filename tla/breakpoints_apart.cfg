SPECIFICATION Spec
CONSTANTS
  Mapped = {1, 2, 3, 4, 5, 6, 7, 8, 11, 12}
  Site = {1, 3, 5, 7, 9, 11}
  Brk = Brk
  MaxSwBreaks = 3
  MayResend = FALSE
INVARIANTS TypeOK BreakpointsInPlace TableMatchesHost SavedWordsTrue
PROPERTY ImplementsSet
