SPECIFICATION Spec
CONSTANTS
  Months <- MCMonths
  MonthDays = {1, 15, 28, 29, 30, 31}
  MaxLate = 62
INVARIANTS
  ChosenSlotKept
CHECK_DEADLOCK FALSE
