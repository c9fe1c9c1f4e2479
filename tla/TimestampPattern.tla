-------------------------- MODULE TimestampPattern --------------------------
(***************************************************************************)
(* TimestampPattern (src/src/TimestampPattern.cpp): the process-wide       *)
(* catalog of known timestamp patterns, the parser that recognises a       *)
(* timestamp at the start of a log line (after a preamble of N spaces) and *)
(* the formatter that re-inserts a timestamp into the line's content when  *)
(* the line is decompressed.                                               *)
(*                                                                         *)
(* Lines are TLA+ strings; a character is a one-character string taken     *)
(* with SubSeq.  Indices are the code's 0-based indices.  An epochtime_t   *)
(* (int64 milliseconds since 1970-01-01) is kept as the pair               *)
(* [day |-> d, ms |-> m] with 0 <= m < MsPerDay, which denotes the integer *)
(* d * MsPerDay + m; TLC's integers are 32 bits wide and the pair keeps    *)
(* every value of the int64 the code computes.                            *)
(*                                                                         *)
(* The state machine is the life of one line: a logger prints it, the      *)
(* compressor searches it (search_known_ts_patterns) and the decompressor  *)
(* rebuilds it (insert_formatted_timestamp), as the catalog test does.     *)
(* Lines are independent (the catalog is the only state the class keeps), *)
(* so a behaviour follows one line, chosen in Init; init() may run before *)
(* or after the search.                                                    *)
(***************************************************************************)
EXTENDS Integers, Sequences, FiniteSetsExt, TLC

CONSTANTS
  TestDates,   \* calendar dates a logger prints: [year, month, day]
  TestTimes,   \* times of day a logger prints: [hour, minute, second, ms]
  Tails,       \* text that follows the timestamp on the line
  BlankFields  \* sets of space-padded specifiers a line may hold as blanks only

VARIABLES
  known_ts_patterns, \* TimestampPattern::m_known_ts_patterns, <<>> until init()
  logged,            \* what the logger printed: pattern, date, time, tail
  log_line,          \* the raw line handed to the compressor
  found,             \* result of search_known_ts_patterns(log_line)
  restored,          \* result of insert_formatted_timestamp on the content
  phase,             \* "logged", "compressed" or "restored"
  searched_loaded    \* history: the catalog was loaded when the line was searched

vars == <<known_ts_patterns, logged, log_line, found, restored, phase, searched_loaded>>

-----------------------------------------------------------------------------
(* Characters, numbers and the built-in catalog                            *)

MsPerDay == 86400000

\* line[ix] with the code's 0-based index
Char(s, ix) == SubSeq(s, ix + 1, ix + 1)

DigitChars == "0123456789"
IsDigit(c) == \E d \in 0..9 : Char(DigitChars, d) = c
DigitValue(c) == CHOOSE d \in 0..9 : Char(DigitChars, d) = c

RECURSIVE SkipPadding(_, _, _, _)
SkipPadding(str, ix, end_ix, padding) ==
  IF ix < end_ix /\ Char(str, ix) = padding
  THEN SkipPadding(str, ix + 1, end_ix, padding) ELSE ix

RECURSIVE AccumulateDigits(_, _, _, _)
AccumulateDigits(str, ix, end_ix, value) ==
  IF ix >= end_ix THEN [ok |-> TRUE, value |-> value]
  ELSE IF ~IsDigit(Char(str, ix)) THEN [ok |-> FALSE, value |-> 0]
  ELSE AccumulateDigits(str, ix + 1, end_ix, value * 10 + DigitValue(Char(str, ix)))

\* convert_string_to_number: skip leading padding, then all digits.  A
\* field made only of padding converts to 0.
ConvertStringToNumber(str, begin_ix, end_ix, padding) ==
  AccumulateDigits(str, SkipPadding(str, begin_ix, end_ix, padding), end_ix, 0)

\* std::to_string
RECURSIVE NatToString(_)
NatToString(n) ==
  IF n < 10 THEN Char(DigitChars, n) ELSE NatToString(n \div 10) \o Char(DigitChars, n % 10)
IntToString(v) == IF v < 0 THEN "-" \o NatToString(-v) ELSE NatToString(v)

RECURSIVE Repeat(_, _)
Repeat(s, k) == IF k <= 0 THEN "" ELSE s \o Repeat(s, k - 1)

\* append_padded_value on an accumulator [error, text].  When the value has
\* more digits than the field, length - value_str.length() wraps around as a
\* size_t and std::string::append throws std::length_error.
AppendPaddedValue(value, padding_character, length, acc) ==
  LET value_str == IntToString(value) IN
  IF Len(value_str) > length THEN [acc EXCEPT !.error = "length_error"]
  ELSE [acc EXCEPT !.text = @ \o Repeat(padding_character, length - Len(value_str)) \o value_str]

AbbrevDaysOfWeek == <<"Sun", "Mon", "Tue", "Wed", "Thu", "Fri", "Sat">>
AbbrevMonthNames == <<"Jan", "Feb", "Mar", "Apr", "May", "Jun", "Jul", "Aug",
                      "Sep", "Oct", "Nov", "Dec">>
MonthNames == <<"January", "February", "March", "April", "May", "June", "July",
                "August", "September", "October", "November", "December">>

Pattern(n, f) == [num_spaces_before_ts |-> n, format |-> f]

\* The empty pattern of TimestampPattern::clear()
EmptyPattern == Pattern(0, "")

\* TimestampPattern::init, in catalog order
KnownTsPatterns ==
  << Pattern(0, "%Y-%m-%dT%H:%M:%S.%3"), Pattern(0, "%Y-%m-%dT%H:%M:%S,%3"),
     Pattern(0, "[%Y-%m-%dT%H:%M:%S"),   Pattern(0, "[%Y%m%d-%H:%M:%S]"),
     Pattern(0, "%Y-%m-%d %H:%M:%S,%3"), Pattern(0, "%Y-%m-%d %H:%M:%S.%3"),
     Pattern(0, "[%Y-%m-%d %H:%M:%S,%3]"), Pattern(0, "%Y-%m-%d %H:%M:%S"),
     Pattern(1, "%Y-%m-%d  %H:%M:%S"),   Pattern(0, "%Y/%m/%d %H:%M:%S"),
     Pattern(0, "%y/%m/%d %H:%M:%S"),    Pattern(0, "%y%m%d %k:%M:%S"),
     Pattern(0, "%d %b %Y %H:%M:%S,%3"), Pattern(0, "%b %d, %Y %l:%M:%S %p"),
     Pattern(0, "%B %d, %Y %H:%M"),      Pattern(1, "[%d/%b/%Y:%H:%M:%S"),
     Pattern(3, "[%d/%b/%Y:%H:%M:%S"),   Pattern(3, "[%d/%m/%Y:%H:%M:%S"),
     Pattern(2, "%Y-%m-%d %H:%M:%S,%3"), Pattern(6, "%Y-%m-%d %H:%M:%S"),
     Pattern(1, "%Y-%m-%d %H:%M:%S"),    Pattern(4, "%a %b %e %H:%M:%S %Y"),
     Pattern(0, "<<<%Y-%m-%d %H:%M:%S:%3"), Pattern(0, "%b %d %H:%M:%S") >>

-----------------------------------------------------------------------------
(* The calendar of the date library (sys_days, year_month_day, weekday).   *)

IsLeap(y) == y % 4 = 0 /\ (y % 100 # 0 \/ y % 400 = 0)
LastDayOfMonth(y, m) ==
  IF m = 2 THEN (IF IsLeap(y) THEN 29 ELSE 28)
  ELSE IF m \in {4, 6, 9, 11} THEN 30 ELSE 31

\* date::year_month_day::ok()
YearMonthDayOk(y, m, d) ==
  /\ y \in -32767..32767
  /\ m \in 1..12
  /\ d \in 1..LastDayOfMonth(y, m)

\* sys_days(y/m/d) - sys_days(1970/1/1): days_from_civil
DaysFromCivil(y0, m, d) ==
  LET y   == IF m <= 2 THEN y0 - 1 ELSE y0
      era == y \div 400
      yoe == y - era * 400
      doy == (153 * (IF m > 2 THEN m - 3 ELSE m + 9) + 2) \div 5 + d - 1
      doe == yoe * 365 + yoe \div 4 - yoe \div 100 + doy
  IN era * 146097 + doe - 719468

\* year_month_day(sys_days): civil_from_days
CivilFromDays(z0) ==
  LET z   == z0 + 719468
      era == z \div 146097
      doe == z - era * 146097
      yoe == (doe - doe \div 1460 + doe \div 36524 - doe \div 146096) \div 365
      doy == doe - (365 * yoe + yoe \div 4 - yoe \div 100)
      mp  == (5 * doy + 2) \div 153
      m   == IF mp < 10 THEN mp + 3 ELSE mp - 9
  IN [year  |-> yoe + era * 400 + (IF m <= 2 THEN 1 ELSE 0),
      month |-> m,
      date  |-> doy - (153 * mp + 2) \div 5 + 1]

\* The int64 days * MsPerDay + ms_of_day, kept as a normalised pair
EpochTime(days, ms_of_day) ==
  [day |-> days + ms_of_day \div MsPerDay, ms |-> ms_of_day % MsPerDay]

-----------------------------------------------------------------------------
(* parse_timestamp                                                         *)

\* The loop that skips the preamble: stop after the N-th space or at the
\* end of the string; ix is the first index after the preamble.
RECURSIVE FindTsBegin(_, _, _, _)
FindTsBegin(s, n, ix, num_spaces_found) ==
  IF num_spaces_found < n /\ ix < Len(s)
  THEN FindTsBegin(s, n, ix + 1, num_spaces_found + (IF Char(s, ix) = " " THEN 1 ELSE 0))
  ELSE [ix |-> ix, num_spaces_found |-> num_spaces_found]

\* The parser's locals, with their initial values
ParseStart(ix) ==
  [ok |-> TRUE, ix |-> ix, date |-> 1, month |-> 1, year |-> 1970, hour |-> 0,
   uses_12_hour_clock |-> FALSE, minute |-> 0, second |-> 0, millisecond |-> 0,
   is_pm |-> FALSE]

Fail(st) == [st EXCEPT !.ok = FALSE]

NumField(len, pad, lo, hi, var) == [len |-> len, pad |-> pad, lo |-> lo, hi |-> hi, var |-> var]

\* The fixed-width numeric specifiers: width, padding, accepted range, the
\* local they set
NumericFields ==
     ("y" :> NumField(2, "0", 0, 99, "year"))  @@ ("Y" :> NumField(4, "0", 0, 9999, "year"))
  @@ ("m" :> NumField(2, "0", 1, 12, "month")) @@ ("d" :> NumField(2, "0", 1, 31, "date"))
  @@ ("e" :> NumField(2, " ", 1, 31, "date"))  @@ ("H" :> NumField(2, "0", 0, 23, "hour"))
  @@ ("k" :> NumField(2, " ", 0, 23, "hour"))  @@ ("I" :> NumField(2, "0", 1, 12, "hour"))
  @@ ("l" :> NumField(2, " ", 1, 12, "hour"))  @@ ("M" :> NumField(2, "0", 0, 59, "minute"))
  @@ ("S" :> NumField(2, "0", 0, 60, "second")) @@ ("3" :> NumField(3, "0", 0, 999, "millisecond"))

\* Mutant: a pivot of 70 (1969 read back as 2069)
MutantYearOfCentury(value) == IF value > 69 THEN value + 1900 ELSE value + 2000

\* %y: 69..99 are the 1900s, 00..68 the 2000s
YearOfCentury(value) == IF value >= 69 THEN value + 1900 ELSE value + 2000

ParseNumericField(c, line, st) ==
  LET f     == NumericFields[c]
      value == ConvertStringToNumber(line, st.ix, st.ix + f.len, f.pad)
  IN IF \/ st.ix + f.len > Len(line)
        \/ ~value.ok \/ value.value < f.lo \/ value.value > f.hi
     THEN Fail(st)
     ELSE [st EXCEPT !.ix = @ + f.len,
                     ![f.var] = IF c = "y" THEN YearOfCentury(value.value) ELSE value.value,
                     !.uses_12_hour_clock = @ \/ c \in {"I", "l"}]

\* The specifiers that match one of a list of names; the first name equal to
\* the text at ix wins (line.compare(ix, length, name) == 0)
NameFields ==
  ("B" :> MonthNames) @@ ("b" :> AbbrevMonthNames) @@ ("a" :> AbbrevDaysOfWeek)
  @@ ("p" :> <<"AM", "PM">>)

ParseNameField(c, line, st) ==
  LET names == NameFields[c]
      hits  == {i \in 1..Len(names) : /\ st.ix + Len(names[i]) <= Len(line)
                                      /\ SubSeq(line, st.ix + 1, st.ix + Len(names[i])) = names[i]}
      i     == Min(hits)
      next  == [st EXCEPT !.ix = @ + Len(names[i])]
  IN CASE hits = {}        -> Fail(st)
       [] c \in {"B", "b"} -> [next EXCEPT !.month = i]
       [] c = "p"          -> [next EXCEPT !.is_pm = (i = 2)]
       [] OTHER            -> next    \* %a: the weekday is read and ignored

ParseField(c, line, st) ==
  CASE c = "%"                   -> IF Char(line, st.ix) = "%" THEN [st EXCEPT !.ix = @ + 1] ELSE Fail(st)
    [] c \in DOMAIN NumericFields -> ParseNumericField(c, line, st)
    [] c \in DOMAIN NameFields    -> ParseNameField(c, line, st)
    [] OTHER                      -> Fail(st)

\* The loop over the format: it runs while both the format and the line have
\* characters left; the whole format must have been consumed.
RECURSIVE ParseFormat(_, _, _, _, _)
ParseFormat(fmt, line, format_ix, is_specifier, st) ==
  CASE ~st.ok -> st
    [] format_ix >= Len(fmt) \/ st.ix >= Len(line) ->
         IF format_ix < Len(fmt) THEN Fail(st) ELSE st
    [] is_specifier ->
         ParseFormat(fmt, line, format_ix + 1, FALSE, ParseField(Char(fmt, format_ix), line, st))
    [] Char(fmt, format_ix) = "%" -> ParseFormat(fmt, line, format_ix + 1, TRUE, st)
    [] Char(fmt, format_ix) # Char(line, st.ix) -> Fail(st)
    [] OTHER -> ParseFormat(fmt, line, format_ix + 1, FALSE, [st EXCEPT !.ix = @ + 1])

\* 12 AM is hour 0, 12 PM is 12, every other PM hour is + 12
HourOnClock(st) ==
  CASE ~st.uses_12_hour_clock -> st.hour
    [] st.hour = 12           -> IF st.is_pm THEN 12 ELSE 0
    [] st.is_pm               -> st.hour + 12
    [] OTHER                  -> st.hour

\* What a search returns: the pattern, the timestamp and its position
NoTimestamp ==
  [matched |-> FALSE, pattern |-> EmptyPattern, timestamp |-> EpochTime(0, 0),
   begin |-> -1, end |-> -1]

ParseTimestamp(pattern, line) ==
  LET n      == pattern.num_spaces_before_ts
      preamb == FindTsBegin(line, n, 0, 0)
      st     == ParseFormat(pattern.format, line, 0, FALSE, ParseStart(preamb.ix))
      hour   == HourOnClock(st)
  IN IF \/ preamb.num_spaces_found < n
        \/ ~st.ok
        \/ ~YearMonthDayOk(st.year, st.month, st.date)
     THEN NoTimestamp
     ELSE [matched   |-> TRUE,
           pattern   |-> pattern,
           timestamp |-> EpochTime(DaysFromCivil(st.year, st.month, st.date),
                                   hour * 3600000 + st.minute * 60000
                                   + st.second * 1000 + st.millisecond),
           begin     |-> preamb.ix,
           end       |-> st.ix]

\* search_known_ts_patterns: the first pattern of the catalog that parses
RECURSIVE SearchFrom(_, _, _)
SearchFrom(patterns, line, i) ==
  IF i > Len(patterns) THEN NoTimestamp
  ELSE LET r == ParseTimestamp(patterns[i], line)
       IN IF r.matched THEN r ELSE SearchFrom(patterns, line, i + 1)

SearchKnownTsPatterns(patterns, line) == SearchFrom(patterns, line, 1)

-----------------------------------------------------------------------------
(* insert_formatted_timestamp                                              *)

\* The parts of the timestamp the formatter prints
TimestampParts(timestamp) ==
  LET ymd == CivilFromDays(timestamp.day) IN
  [year   |-> ymd.year, month |-> ymd.month, date |-> ymd.date,
   day_of_week_ix |-> (timestamp.day + 4) % 7,
   hour   |-> timestamp.ms \div 3600000,
   minute |-> (timestamp.ms \div 60000) % 60,
   second |-> (timestamp.ms \div 1000) % 60,
   millisecond |-> timestamp.ms % 1000]

\* Mutant: midnight printed as 00 on a 12-hour clock
MutantHourOf12HourClock(hour) == IF hour > 13 THEN hour - 12 ELSE hour

\* %I and %l: hour 0 prints as 12 and hours above 13 lose 12
HourOf12HourClock(hour) ==
  IF hour = 0 THEN 12 ELSE IF hour > 13 THEN hour - 12 ELSE hour

\* The zero- or space-padded numeric specifiers: padding, width, value
PaddedValue(c, t) ==
  CASE c = "y" -> <<"0", 2, IF t.year >= 2000 THEN t.year - 2000 ELSE t.year - 1900>>
    [] c = "Y" -> <<"0", 4, t.year>>
    [] c = "m" -> <<"0", 2, t.month>>
    [] c = "d" -> <<"0", 2, t.date>>
    [] c = "e" -> <<" ", 2, t.date>>
    [] c = "H" -> <<"0", 2, t.hour>>
    [] c = "k" -> <<" ", 2, t.hour>>
    [] c = "I" -> <<"0", 2, HourOf12HourClock(t.hour)>>
    [] c = "l" -> <<" ", 2, HourOf12HourClock(t.hour)>>
    [] c = "M" -> <<"0", 2, t.minute>>
    [] c = "S" -> <<"0", 2, t.second>>
    [] c = "3" -> <<"0", 3, t.millisecond>>

\* The specifiers printed as a name
NamedValue(c, t) ==
  CASE c = "%" -> "%"
    [] c = "B" -> MonthNames[t.month]
    [] c = "b" -> AbbrevMonthNames[t.month]
    [] c = "a" -> AbbrevDaysOfWeek[t.day_of_week_ix + 1]
    [] c = "p" -> IF t.hour > 11 THEN "PM" ELSE "AM"

FormatField(c, t, acc) ==
  CASE c \in {"%", "B", "b", "a", "p"} -> [acc EXCEPT !.text = @ \o NamedValue(c, t)]
    [] c \in DOMAIN NumericFields ->
         AppendPaddedValue(PaddedValue(c, t)[3], PaddedValue(c, t)[1], PaddedValue(c, t)[2], acc)
    [] OTHER -> [acc EXCEPT !.error = "unsupported"]

RECURSIVE FormatLoop(_, _, _, _, _)
FormatLoop(fmt, t, format_ix, is_specifier, acc) ==
  CASE acc.error # "" \/ format_ix >= Len(fmt) -> acc
    [] is_specifier -> FormatLoop(fmt, t, format_ix + 1, FALSE, FormatField(Char(fmt, format_ix), t, acc))
    [] Char(fmt, format_ix) = "%" -> FormatLoop(fmt, t, format_ix + 1, TRUE, acc)
    [] OTHER -> FormatLoop(fmt, t, format_ix + 1, FALSE, [acc EXCEPT !.text = @ \o Char(fmt, format_ix)])

\* The message with the timestamp inserted after the N-th space; on an
\* exception ("too_few_spaces", "unsupported", "length_error") msg is left
\* as it was.
InsertFormattedTimestamp(pattern, timestamp, msg) ==
  LET n      == pattern.num_spaces_before_ts
      preamb == FindTsBegin(msg, n, 0, 0)
      acc    == FormatLoop(pattern.format, TimestampParts(timestamp), 0, FALSE,
                           [error |-> "", text |-> SubSeq(msg, 1, preamb.ix)])
  IN CASE preamb.num_spaces_found < n -> [error |-> "too_few_spaces", text |-> msg]
       [] acc.error # ""             -> [acc EXCEPT !.text = msg]
       [] OTHER -> [acc EXCEPT !.text = @ \o SubSeq(msg, preamb.ix + 1, Len(msg))]

-----------------------------------------------------------------------------
(* The lines a logger prints (strftime-style, the reference the catalog    *)
(* formats stand for), and what a parser must make of them                 *)

\* A preamble holding exactly N spaces
Preamble(n) == Repeat("- ", n)

\* Days from 1970-01-01: 365 a year plus the leap days of the years between
\* (Gregorian leap years up to year n: n div 4 - n div 100 + n div 400),
\* then the lengths of the months before m
LeapYearsUpTo(n) == n \div 4 - n \div 100 + n \div 400
DaysBeforeYear(y) == 365 * (y - 1970) + LeapYearsUpTo(y - 1) - LeapYearsUpTo(1969)
CalendarDays(y, m, d) ==
  DaysBeforeYear(y) + MapThenSumSet(LAMBDA k : LastDayOfMonth(y, k), 1..(m - 1)) + d - 1

Padded(v, pad, width) == Repeat(pad, width - Len(IntToString(v))) \o IntToString(v)
ClockHour12(h) == IF h % 12 = 0 THEN 12 ELSE h % 12

LoggerField(c, d, t) ==
  CASE c = "Y" -> Padded(d.year, "0", 4)
    [] c = "y" -> Padded(d.year % 100, "0", 2)
    [] c = "m" -> Padded(d.month, "0", 2)
    [] c = "B" -> MonthNames[d.month]
    [] c = "b" -> AbbrevMonthNames[d.month]
    [] c = "d" -> Padded(d.day, "0", 2)
    [] c = "e" -> Padded(d.day, " ", 2)
    [] c = "a" -> AbbrevDaysOfWeek[((CalendarDays(d.year, d.month, d.day) + 4) % 7) + 1]
    [] c = "H" -> Padded(t.hour, "0", 2)
    [] c = "k" -> Padded(t.hour, " ", 2)
    [] c = "I" -> Padded(ClockHour12(t.hour), "0", 2)
    [] c = "l" -> Padded(ClockHour12(t.hour), " ", 2)
    [] c = "p" -> IF t.hour < 12 THEN "AM" ELSE "PM"
    [] c = "M" -> Padded(t.minute, "0", 2)
    [] c = "S" -> Padded(t.second, "0", 2)
    [] c = "3" -> Padded(t.ms, "0", 3)
    [] c = "%" -> "%"

\* A field of the specifiers in blank is printed as two spaces, the text a
\* hand-edited or column-aligned line may carry where a padded number was
RECURSIVE LoggerText(_, _, _, _, _)
LoggerText(fmt, d, t, blank, ix) ==
  CASE ix >= Len(fmt)         -> ""
    [] Char(fmt, ix) = "%"    ->
         (IF Char(fmt, ix + 1) \in blank THEN "  " ELSE LoggerField(Char(fmt, ix + 1), d, t))
         \o LoggerText(fmt, d, t, blank, ix + 2)
    [] OTHER                  -> Char(fmt, ix) \o LoggerText(fmt, d, t, blank, ix + 1)

\* What the logger printed, and the line it printed
Logged == [pattern : Range(KnownTsPatterns), date : TestDates, time : TestTimes,
           tail : Tails, blank : BlankFields]
TimestampText(l) == LoggerText(l.pattern.format, l.date, l.time, l.blank, 0)
LoggedLine(l) == Preamble(l.pattern.num_spaces_before_ts) \o TimestampText(l) \o l.tail

\* The fields a format carries; the others keep the parser's defaults
Specifiers(fmt) == {Char(fmt, ix + 1) : ix \in {i \in 0..(Len(fmt) - 2) : Char(fmt, i) = "%"}}
Carries(l, cs) == Specifiers(l.pattern.format) \cap cs # {}
Shown(l, cs, v, default) == IF Carries(l, cs) THEN v ELSE default

ExpectedFields(l) ==
  [year   |-> Shown(l, {"Y", "y"}, l.date.year, 1970),
   month  |-> Shown(l, {"B", "b", "m"}, l.date.month, 1),
   day    |-> Shown(l, {"d", "e"}, l.date.day, 1),
   ms_of_day |-> Shown(l, {"H", "k", "I", "l"}, l.time.hour, 0) * 3600000
               + Shown(l, {"M"}, l.time.minute, 0) * 60000
               + Shown(l, {"S"}, l.time.second, 0) * 1000
               + Shown(l, {"3"}, l.time.ms, 0)]

ExpectedDateExists(l) ==
  LET f == ExpectedFields(l) IN f.day <= LastDayOfMonth(f.year, f.month)

ExpectedTimestamp(l) ==
  LET f == ExpectedFields(l) IN
  [day |-> CalendarDays(f.year, f.month, f.day) + f.ms_of_day \div MsPerDay,
   ms  |-> f.ms_of_day % MsPerDay]

-----------------------------------------------------------------------------
(* The life of a line                                                      *)

\* The content the catalog test hands back to the formatter: the text before
\* the timestamp, then end - begin characters of the text after it
Content(s, r) == SubSeq(s, 1, r.begin) \o SubSeq(s, r.end + 1, Min({Len(s), r.end + (r.end - r.begin)}))

NoRestore == [error |-> "", text |-> ""]

Init ==
  /\ known_ts_patterns = <<>>
  /\ \E l \in Logged : logged = l /\ log_line = LoggedLine(l)
  /\ found = NoTimestamp
  /\ restored = NoRestore
  /\ phase = "logged"
  /\ searched_loaded = FALSE

\* Mutant: init() appends the built-in patterns to the catalog it has
MutantTimestampPatternInit ==
  /\ known_ts_patterns' = known_ts_patterns \o KnownTsPatterns
  /\ UNCHANGED <<logged, log_line, found, restored, phase, searched_loaded>>

\* TimestampPattern::init: (re)load the built-in catalog
TimestampPatternInit ==
  /\ known_ts_patterns' = KnownTsPatterns
  /\ UNCHANGED <<logged, log_line, found, restored, phase, searched_loaded>>

\* The compressor looks for a timestamp: search_known_ts_patterns
Compress ==
  /\ phase = "logged"
  /\ found' = SearchKnownTsPatterns(known_ts_patterns, log_line)
  /\ searched_loaded' = (known_ts_patterns # <<>>)
  /\ phase' = "compressed"
  /\ UNCHANGED <<known_ts_patterns, logged, log_line, restored>>

\* The decompressor puts the timestamp back: insert_formatted_timestamp
Decompress ==
  /\ phase = "compressed"
  /\ found.matched
  /\ restored' = InsertFormattedTimestamp(found.pattern, found.timestamp, Content(log_line, found))
  /\ phase' = "restored"
  /\ UNCHANGED <<known_ts_patterns, logged, log_line, found, searched_loaded>>

Next ==
  \/ TimestampPatternInit
  \/ Compress
  \/ Decompress

Spec == Init /\ [][Next]_vars

-----------------------------------------------------------------------------
(* Properties                                                              *)

TypeOK ==
  /\ known_ts_patterns \in {<<>>, KnownTsPatterns}
  /\ logged \in Logged
  /\ log_line \in STRING
  /\ found.matched \in BOOLEAN
  /\ found.pattern \in Range(KnownTsPatterns) \cup {EmptyPattern}
  /\ restored.error \in {"", "too_few_spaces", "unsupported", "length_error"}
  /\ phase \in {"logged", "compressed", "restored"}
  /\ searched_loaded \in BOOLEAN

\* Search after format (spec section 8, property 1): once init() has loaded
\* the catalog, search_known_ts_patterns finds, in a line a logger printed
\* with catalog pattern p, the pattern p itself, the timestamp the printed
\* fields denote (fields p does not print keep parse_timestamp's defaults)
\* and the exact span of the printed text; when those fields name no real
\* date (Feb 29 without a year) no pattern matches.
FormatSearchRoundTrip ==
  (phase \in {"compressed", "restored"} /\ searched_loaded) =>
    LET begin == Len(Preamble(logged.pattern.num_spaces_before_ts)) IN
    IF ExpectedDateExists(logged)
    THEN found = [matched   |-> TRUE,
                  pattern   |-> logged.pattern,
                  timestamp |-> ExpectedTimestamp(logged),
                  begin     |-> begin,
                  end       |-> begin + Len(TimestampText(logged))]
    ELSE ~found.matched

\* Lossless timestamps (spec section 8, property 2): when a timestamp was
\* found, insert_formatted_timestamp on the line without it rebuilds the
\* original line byte for byte.
LineRoundTrip ==
  phase = "restored" => restored = [error |-> "", text |-> log_line]

=============================================================================
