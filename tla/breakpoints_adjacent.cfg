SPECIFICATION Spec
CONSTANTS
  Mapped = {1, 2, 3, 4}
  Site = {1, 2}
  Brk = Brk
  MaxSwBreaks = 3
  MayResend = FALSE
INVARIANT DetachRestoresText
