SPECIFICATION Spec
CONSTANTS
  TestDates <- MCTestDatesOne
  TestTimes <- MCTestTimesOne
  Tails <- MCTails
  BlankFields <- MCBlankHour
INVARIANT
  LineRoundTrip
