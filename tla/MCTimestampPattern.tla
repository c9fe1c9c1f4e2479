------------------------- MODULE MCTimestampPattern -------------------------
(***************************************************************************)
(* Model values for TimestampPattern: the dates and times a logger prints. *)
(* The dates cover both sides of the epoch, both ends of the %y window     *)
(* (1969 and 2068), leap days in a leap century year and an ordinary leap  *)
(* year, a month whose full and short names coincide (May) and the year   *)
(* ends.  The times cover midnight, noon, the last millisecond before     *)
(* noon and midnight and one afternoon hour, so %I/%l/%p meet 0, 11, 12   *)
(* and a PM hour.                                                          *)
(***************************************************************************)
EXTENDS TimestampPattern

Date(y, m, d) == [year |-> y, month |-> m, day |-> d]
Time(h, mi, s, ms) == [hour |-> h, minute |-> mi, second |-> s, ms |-> ms]

MCTestDates ==
  { Date(2015, 2, 1), Date(1969, 12, 31), Date(1970, 1, 1), Date(2000, 2, 29),
    Date(2016, 2, 29), Date(1999, 12, 31), Date(2068, 12, 31), Date(2021, 5, 9) }

MCTestTimes ==
  { Time(0, 0, 0, 0), Time(1, 2, 3, 4), Time(11, 59, 59, 999), Time(12, 0, 0, 0),
    Time(14, 5, 6, 7), Time(23, 59, 59, 999) }

MCTails == {"", " content after"}

\* The hour after noon: 12-hour fields print 13:xx
MCTestTimesPM == {Time(13, 2, 3, 4)}

\* Years the spec's round-trip law names (1970..2099) beyond the %y window
MCTestDatesLate == {Date(2069, 1, 1), Date(2099, 12, 31)}

\* A leap second as a logger prints it
MCTestTimesLeapSecond == {Time(23, 59, 60, 0)}

\* Lines as a strftime logger prints them: no field left blank
MCNoBlankFields == {{}}

\* A line whose space-padded hour (%k) holds only its padding, for the
\* test's date and time
MCBlankHour == {{"k"}}
MCTestDatesOne == {Date(2015, 2, 1)}
MCTestTimesOne == {Time(1, 2, 3, 4)}

=============================================================================
