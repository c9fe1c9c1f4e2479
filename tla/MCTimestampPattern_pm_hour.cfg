SPECIFICATION Spec
CONSTANTS
  TestDates <- MCTestDates
  TestTimes <- MCTestTimesPM
  Tails <- MCTails
  BlankFields <- MCNoBlankFields
INVARIANT
  LineRoundTrip
