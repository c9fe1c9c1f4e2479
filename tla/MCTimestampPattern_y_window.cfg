SPECIFICATION Spec
CONSTANTS
  TestDates <- MCTestDatesLate
  TestTimes <- MCTestTimes
  Tails <- MCTails
  BlankFields <- MCNoBlankFields
INVARIANT
  FormatSearchRoundTrip
