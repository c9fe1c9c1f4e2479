SPECIFICATION Spec
CONSTANTS
  TestDates <- MCTestDates
  TestTimes <- MCTestTimes
  Tails <- MCTails
  BlankFields <- MCNoBlankFields
INVARIANTS
  TypeOK
  FormatSearchRoundTrip
  LineRoundTrip
