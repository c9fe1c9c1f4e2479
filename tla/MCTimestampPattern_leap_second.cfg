SPECIFICATION Spec
CONSTANTS
  TestDates <- MCTestDates
  TestTimes <- MCTestTimesLeapSecond
  Tails <- MCTails
  BlankFields <- MCNoBlankFields
INVARIANT
  LineRoundTrip
