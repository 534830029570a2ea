---------------------------- MODULE DecisionsProofs ----------------------------
(***************************************************************************)
(* What normalize_validity, compare_campaigns, the loaders of the registry  *)
(* files, evaluate_robots and _parse_decimal_token promise of every text,   *)
(* list of records, pair of files, robots.txt and number, and so of         *)
(* whatever is asked of them.                                               *)
(***************************************************************************)
EXTENDS MCDecisions, FiniteSetTheorems, SequenceTheorems, WellFoundedInduction, TLAPS

-----------------------------------------------------------------------------
(* Validity windows.                                                        *)

\* What the regular expressions find in a text, and the day it was read.
DatePart == [year : Int, month : Int, day : Int]

TextYears == Years \cup {0}

IsValidityText(text) ==
    /\ text.dates \in Seq(DatePart)
    /\ text.fullMonth # <<>> =>
          text.fullMonth[1].year \in TextYears /\ text.fullMonth[1].month \in 1..12

IsReference(reference) ==
    reference = <<>> \/ \E d \in DatePart : IsRealDate(d) /\ reference = <<d>>

\* What a list of two members holds.
LEMMA PairsAsSets == \A x, y : ToSet(<<x, y>>) = {x, y}
  <1> TAKE x, y
  <1>1. DOMAIN <<x, y>> = {1, 2}
    OBVIOUS
  <1> QED BY <1>1 DEF ToSet

\* A month has between 28 and 31 days.
LEMMA LastDays == \A year, month : LastDayOf(year, month) \in 28..31
  BY DEF LastDayOf

\* A year is a number.
LEMMA YearsAreNumbers == \A y \in Years : y \in Int
  BY DEF Years

\* The month and the day of a date.
LEMMA RealParts ==
    ASSUME NEW d, IsRealDate(d)
    PROVE d.month \in 1..12 /\ d.day \in 1..31
  <1>1. LastDayOf(d.year, d.month) \in 28..31
    BY LastDays
  <1>2. d.month \in 1..12 /\ d.day \in 1..LastDayOf(d.year, d.month)
    BY DEF IsRealDate
  <1> QED BY <1>1, <1>2

\* An ordinal is a number.
LEMMA OrdinalsAreNumbers ==
    ASSUME NEW d, IsRealDate(d)
    PROVE Ordinal(d) \in Int
  <1>1. d.year \in Int /\ d.month \in Int /\ d.day \in Int
    <2>1. d.year \in Years
      BY DEF IsRealDate
    <2> QED BY <2>1, YearsAreNumbers, RealParts
  <1>2. \A y, m, k \in Int : (y * 12 + m - 1) * 31 + k \in Int
    OBVIOUS
  <1> QED BY <1>1, <1>2, Zenon DEF Ordinal

\* The months of a year have their first and their last day on the calendar.
LEMMA MonthsAreReal ==
    ASSUME NEW year \in Years, NEW month \in 1..12
    PROVE LET first == Date(year, month, 1)
              last  == Date(year, month, LastDayOf(year, month))
          IN /\ IsRealDate(first) /\ IsRealDate(last)
             /\ Ordinal(first) <= Ordinal(last)
             /\ Ordinal(last) - Ordinal(first) < OrdinalYear
  <1>1. LastDayOf(year, month) \in 28..31
    BY LastDays
  <1>2. year \in Int
    BY YearsAreNumbers
  <1> DEFINE first == Date(year, month, 1)
             last  == Date(year, month, LastDayOf(year, month))
  <1>3. /\ Ordinal(first) = (year * 12 + month - 1) * 31 + 1
        /\ Ordinal(last) = (year * 12 + month - 1) * 31 + LastDayOf(year, month)
    BY DEF Date, Ordinal
  <1>4. IsRealDate(first) /\ IsRealDate(last)
    BY <1>1 DEF IsRealDate, Date
  <1> HIDE DEF first, last
  <1>5. Ordinal(first) <= Ordinal(last) /\ Ordinal(last) - Ordinal(first) < OrdinalYear
    BY <1>1, <1>2, <1>3 DEF OrdinalYear
  <1> QED BY <1>4, <1>5 DEF first, last

\* Two days of one year, or of a year and the next one, when their order tells
\* which: less than a year lies between them.
LEMMA YearsTurn ==
    ASSUME NEW first, NEW second, NEW a, NEW b,
           first.month \in 1..12, second.month \in 1..12,
           first.day \in 1..31, second.day \in 1..31,
           a \in Int,
           \/ Earlier(first, second) /\ b = a
           \/ ~Earlier(first, second) /\ b = a + 1
    PROVE /\ Ordinal(DateFromParts(first, a)) <= Ordinal(DateFromParts(second, b))
          /\ Ordinal(DateFromParts(second, b)) - Ordinal(DateFromParts(first, a)) < OrdinalYear
  <1>1. /\ Ordinal(DateFromParts(first, a)) = (a * 12 + first.month - 1) * 31 + first.day
        /\ Ordinal(DateFromParts(second, b)) = (b * 12 + second.month - 1) * 31 + second.day
    BY DEF Ordinal, DateFromParts, Date
  <1>2. /\ first.month \in Int /\ second.month \in Int
        /\ first.day \in Int /\ second.day \in Int
    OBVIOUS
  <1>3. \A m, n, c, d \in Int :
          m \in 1..12 /\ n \in 1..12 /\ c \in 1..31 /\ d \in 1..31
          /\ (\/ (m < n \/ (m = n /\ c <= d)) /\ b = a
              \/ ~(m < n \/ (m = n /\ c <= d)) /\ b = a + 1) =>
             /\ (a * 12 + m - 1) * 31 + c <= (b * 12 + n - 1) * 31 + d
             /\ ((b * 12 + n - 1) * 31 + d) - ((a * 12 + m - 1) * 31 + c) < 372
    BY SMT
  <1>4. /\ (a * 12 + first.month - 1) * 31 + first.day
              <= (b * 12 + second.month - 1) * 31 + second.day
        /\ ((b * 12 + second.month - 1) * 31 + second.day)
              - ((a * 12 + first.month - 1) * 31 + first.day) < 372
    BY <1>2, <1>3, Zenon DEF Earlier
  <1> QED BY <1>1, <1>4 DEF OrdinalYear

\* A resolved pair is real; when one of the dates states its year, the pair is
\* in its order and shorter than a year.
LEMMA PairsAreResolved ==
    ASSUME NEW first \in DatePart, NEW second \in DatePart, NEW reference,
           ResolveDatePair(first, second, reference) # <<>>
    PROVE \E a, b :
             /\ ResolveDatePair(first, second, reference) = <<a, b>>
             /\ IsRealDate(a) /\ IsRealDate(b)
             /\ (first.year = NotGiven) # (second.year = NotGiven) =>
                  /\ Ordinal(a) <= Ordinal(b)
                  /\ Ordinal(b) - Ordinal(a) < OrdinalYear
  <1> DEFINE neither == first.year = NotGiven /\ second.year = NotGiven
             firstYear ==
                 IF neither THEN reference[1].year
                 ELSE IF first.year # NotGiven THEN first.year
                 ELSE IF Earlier(first, second) THEN second.year ELSE second.year - 1
             secondYear ==
                 IF neither THEN reference[1].year
                 ELSE IF second.year # NotGiven THEN second.year
                 ELSE IF Earlier(first, second) THEN first.year ELSE first.year + 1
             a == Date(firstYear, first.month, first.day)
             b == Date(secondYear, second.month, second.day)
  <1>1. ResolveDatePair(first, second, reference) = <<a, b>>
    BY DEF ResolveDatePair, DateFromParts
  <1>2. IsRealDate(a) /\ IsRealDate(b)
    <2>1. \A d \in ToSet(<<a, b>>) : IsRealDate(d)
      BY DEF ResolveDatePair, DateFromParts
    <2>2. a \in ToSet(<<a, b>>) /\ b \in ToSet(<<a, b>>)
      BY PairsAsSets
    <2> QED BY <2>1, <2>2
  <1>3. ASSUME (first.year = NotGiven) # (second.year = NotGiven)
        PROVE Ordinal(a) <= Ordinal(b) /\ Ordinal(b) - Ordinal(a) < OrdinalYear
    <2>1. /\ first.month \in 1..12 /\ second.month \in 1..12
          /\ first.day \in 1..31 /\ second.day \in 1..31
      <3> HIDE DEF firstYear, secondYear
      <3> QED BY <1>2, RealParts DEF Date
    <2>2. \/ Earlier(first, second) /\ secondYear = firstYear
          \/ ~Earlier(first, second) /\ secondYear = firstYear + 1
      BY <1>3 DEF DatePart, NotGiven
    <2>3. firstYear \in Int
      BY <1>3 DEF DatePart, NotGiven
    <2>4. a = DateFromParts(first, firstYear) /\ b = DateFromParts(second, secondYear)
      BY DEF DateFromParts
    <2> HIDE DEF firstYear, secondYear, a, b
    <2> QED BY <2>1, <2>2, <2>3, <2>4, YearsTurn
  <1> QED BY <1>1, <1>2, <1>3

\* What WindowsAreOrdered says of a result, form by form.
OneYear(text) ==
    /\ text.sameMonth = <<>> /\ Len(text.dates) = 2
    /\ Cardinality({i \in 1..2 : text.dates[i].year = NotGiven}) = 1

OpenWindow(window) ==
    \E d : IsRealDate(d) /\ window \in {Window(<<>>, <<d>>), Window(<<d>>, <<>>)}

ClosedWindow(text, window) ==
    \E a, b : /\ IsRealDate(a) /\ IsRealDate(b) /\ window = Window(<<a>>, <<b>>)
              /\ Ordinal(a) <= Ordinal(b)
              /\ OneYear(text) => Ordinal(b) - Ordinal(a) < OrdinalYear

Orderly(text, result) ==
    /\ IsNormalized(result) => OpenWindow(result.value) \/ ClosedWindow(text, result.value)
    /\ OneYear(text) => result.reason # "reversed_validity_window"

\* What lists of no date and of one date hold.
LEMMA ShortListsAsSets == ToSet(<<>>) = {} /\ \A x : ToSet(<<x>>) = {x}
  <1>1. DOMAIN <<>> = {}
    OBVIOUS
  <1>2. \A x : DOMAIN <<x>> = {1}
    OBVIOUS
  <1> QED BY <1>1, <1>2 DEF ToSet

\* The forms are all there is to show.
LEMMA OrderlyIsOrdered ==
    ASSUME NEW text, NEW reference, Orderly(text, NormalizeValidity(text, reference))
    PROVE WindowsAreOrdered(text, reference)
  <1> DEFINE result == NormalizeValidity(text, reference)
             window == result.value
             dates  == ToSet(window.starts) \cup ToSet(window.ends)
  <1> HIDE DEF result
  <1>1. ASSUME IsNormalized(result)
        PROVE /\ dates # {} /\ \A d \in dates : IsRealDate(d)
              /\ window.starts # <<>> /\ window.ends # <<>> =>
                   /\ Ordinal(window.starts[1]) <= Ordinal(window.ends[1])
                   /\ OneYear(text) =>
                        Ordinal(window.ends[1]) - Ordinal(window.starts[1]) < OrdinalYear
    <2>1. CASE OpenWindow(window)
      <3>1. PICK d : IsRealDate(d) /\ window \in {Window(<<>>, <<d>>), Window(<<d>>, <<>>)}
        BY <2>1 DEF OpenWindow
      <3>2. CASE window.starts = <<>> /\ window.ends = <<d>>
        BY <3>1, <3>2, ShortListsAsSets
      <3>3. CASE window.starts = <<d>> /\ window.ends = <<>>
        BY <3>1, <3>3, ShortListsAsSets
      <3> QED BY <3>1, <3>2, <3>3 DEF Window
    <2>2. CASE ClosedWindow(text, window)
      <3>1. PICK a, b : /\ IsRealDate(a) /\ IsRealDate(b) /\ window = Window(<<a>>, <<b>>)
                        /\ Ordinal(a) <= Ordinal(b)
                        /\ OneYear(text) => Ordinal(b) - Ordinal(a) < OrdinalYear
        BY <2>2 DEF ClosedWindow
      <3>2. window.starts = <<a>> /\ window.ends = <<b>>
        BY <3>1 DEF Window
      <3>3. dates = {a, b}
        BY <3>2, ShortListsAsSets
      <3>4. window.starts[1] = a /\ window.ends[1] = b
        BY <3>2
      <3> HIDE DEF dates, window
      <3> QED BY <3>1, <3>3, <3>4, Zenon
    <2> QED BY <1>1, <2>1, <2>2 DEF Orderly, result
  <1>2. OneYear(text) => result.reason # "reversed_validity_window"
    BY DEF Orderly, result
  <1> QED BY <1>1, <1>2 DEF WindowsAreOrdered, OneYear, result

\* The value that no refusal stands in the way of, or a refusal.
LEMMA OfTwoRefusals ==
    ASSUME NEW a, NEW b, NEW value
    PROVE FirstRefusal(<<a, b>>, value) \in {a.result, b.result, value}
  <1> DEFINE applies == {i \in DOMAIN <<a, b>> : <<a, b>>[i].when}
  <1>1. CASE applies = {}
    BY <1>1 DEF FirstRefusal
  <1>2. CASE applies # {}
    <2>1. applies \in SUBSET {1, 2}
      OBVIOUS
    <2>2. \E i \in applies : \A j \in applies : i <= j
      <3> HIDE DEF applies
      <3>1. CASE 1 \in applies
        BY <2>1, <3>1
      <3>2. CASE 1 \notin applies
        <4>1. applies = {2}
          BY <1>2, <2>1, <3>2
        <4> QED BY <4>1
      <3> QED BY <3>1, <3>2
    <2>3. Min(applies) \in {1, 2}
      <3> HIDE DEF applies
      <3> QED BY <2>1, <2>2 DEF Min
    <2>4. FirstRefusal(<<a, b>>, value) = <<a, b>>[Min(applies)].result
      BY <1>2 DEF FirstRefusal
    <2> HIDE DEF applies
    <2> QED BY <2>3, <2>4
  <1> QED BY <1>1, <1>2

\* A window of one date is open on one side, or refused.
LEMMA OneDateIsOrderly ==
    ASSUME NEW text, NEW reference
    PROVE Orderly(text, OneDate(text, reference))
  <1> DEFINE part     == text.dates[1]
             boundary == DateFromParts(part, YearOr(part, reference))
             result   == OneDate(text, reference)
  <1>1. \/ result \in {Failure("ambiguous", "validity_year_missing"),
                      Failure("invalid", "invalid_validity_window"),
                      Failure("ambiguous", "validity_boundary_role_unknown")}
        \/ /\ IsRealDate(boundary)
           /\ result \in {Normalized("open_validity_normalized", Window(<<>>, <<boundary>>)),
                          Normalized("open_validity_normalized", Window(<<boundary>>, <<>>))}
    BY Zenon DEF OneDate
  <1> HIDE DEF result, boundary
  <1>2. CASE result \in {Failure("ambiguous", "validity_year_missing"),
                         Failure("invalid", "invalid_validity_window"),
                         Failure("ambiguous", "validity_boundary_role_unknown")}
    BY <1>2 DEF result, Orderly, Failure, IsNormalized
  <1>3. CASE /\ IsRealDate(boundary)
             /\ result \in {Normalized("open_validity_normalized", Window(<<>>, <<boundary>>)),
                            Normalized("open_validity_normalized", Window(<<boundary>>, <<>>))}
    <2>1. /\ result.reason = "open_validity_normalized"
          /\ result.value \in {Window(<<>>, <<boundary>>), Window(<<boundary>>, <<>>)}
      BY <1>3 DEF Normalized
    <2>2. OpenWindow(result.value)
      BY <1>3, <2>1 DEF OpenWindow
    <2> QED BY <2>1, <2>2 DEF result, Orderly
  <1> QED BY <1>1, <1>2, <1>3

\* A window of two dates.
LEMMA TwoDatesAreOrderly ==
    ASSUME NEW text, IsValidityText(text), Len(text.dates) = 2, NEW reference
    PROVE Orderly(text, TwoDates(text, reference))
  <1> DEFINE first  == text.dates[1]
             second == text.dates[2]
             pair   == ResolveDatePair(first, second, reference)
             Read   == IF pair = <<>> THEN Failure("ambiguous", "validity_year_missing")
                       ELSE IF Ordinal(pair[1]) > Ordinal(pair[2])
                       THEN Failure("invalid", "reversed_validity_window")
                       ELSE Normalized("validity_range_normalized",
                                       Window(<<pair[1]>>, <<pair[2]>>))
             roles  == Refusal(text.twoRoles, "ambiguous", "multiple_validity_roles")
             apart  == Refusal(~text.connected, "ambiguous", "multiple_validity_dates")
  <1>1. TwoDates(text, reference) = FirstRefusal(<<roles, apart>>, Read)
    BY DEF TwoDates
  <1>2. Orderly(text, roles.result) /\ Orderly(text, apart.result)
    BY Zenon DEF Refusal, Orderly, Failure, IsNormalized
  <1>3. first \in DatePart /\ second \in DatePart
    <2>1. text.dates \in Seq(DatePart)
      BY DEF IsValidityText
    <2> QED BY <2>1
  <1>4. OneYear(text) => (first.year = NotGiven) # (second.year = NotGiven)
    <2> SUFFICES ASSUME OneYear(text), (first.year = NotGiven) = (second.year = NotGiven)
                 PROVE FALSE
      OBVIOUS
    <2> DEFINE open == {i \in 1..2 : text.dates[i].year = NotGiven}
    <2>1. open = {} \/ open = 1..2
      OBVIOUS
    <2>2. IsFiniteSet(1..2)
      <3>1. 1 \in Int /\ 2 \in Int
        OBVIOUS
      <3> QED BY <3>1, FS_Interval, Zenon
    <2>3. IsFiniteSet(open) /\ Cardinality(open) = 1
      BY <2>1, <2>2, FS_EmptySet DEF OneYear
    <2> HIDE DEF open
    <2>4. PICK x : open = {x}
      BY <2>3, FS_Singleton
    <2>5. 1 \in 1..2 /\ 2 \in 1..2
      OBVIOUS
    <2> QED BY <2>1, <2>4, <2>5
  <1>5. Orderly(text, Read)
    <2>1. CASE pair = <<>>
      BY <2>1 DEF Orderly, Failure, IsNormalized
    <2>2. CASE pair # <<>>
      <3>1. PICK a, b : /\ pair = <<a, b>>
                        /\ IsRealDate(a) /\ IsRealDate(b)
                        /\ (first.year = NotGiven) # (second.year = NotGiven) =>
                             /\ Ordinal(a) <= Ordinal(b)
                             /\ Ordinal(b) - Ordinal(a) < OrdinalYear
        BY <1>3, <2>2, PairsAreResolved
      <3> HIDE DEF first, second, pair
      <3>2. Ordinal(a) \in Int /\ Ordinal(b) \in Int
        BY <3>1, OrdinalsAreNumbers
      <3>3. CASE Ordinal(a) > Ordinal(b)
        <4>1. ~OneYear(text)
          BY <1>4, <3>1, <3>2, <3>3
        <4>2. Read = Failure("invalid", "reversed_validity_window")
          BY <2>2, <3>1, <3>3
        <4> QED BY <4>1, <4>2 DEF Orderly, IsNormalized, Failure
      <3>4. CASE ~(Ordinal(a) > Ordinal(b))
        <4>1. ClosedWindow(text, Window(<<a>>, <<b>>))
          BY <1>4, <3>1, <3>2, <3>4 DEF ClosedWindow
        <4>2. Read = Normalized("validity_range_normalized", Window(<<a>>, <<b>>))
          BY <2>2, <3>1, <3>4
        <4> HIDE DEF Read
        <4> QED BY <4>1, <4>2 DEF Orderly, IsNormalized, Normalized
      <3> QED BY <3>3, <3>4
    <2> QED BY <2>1, <2>2
  <1> HIDE DEF roles, apart, Read
  <1> QED BY <1>1, <1>2, <1>5, OfTwoRefusals

\* What _resolve_date_pair and normalize_validity answer is in order, whatever a
\* page says: the dates are on the calendar, the first is not after the last,
\* and a year that had to be found neither reverses the window nor makes it a
\* year long.
THEOREM WindowsAreAlwaysOrdered ==
    ASSUME NEW text, IsValidityText(text), NEW reference, IsReference(reference)
    PROVE WindowsAreOrdered(text, reference)
  <1> DEFINE result == NormalizeValidity(text, reference)
             same   == text.sameMonth[1]
             full   == text.fullMonth[1]
  <1> SUFFICES Orderly(text, result)
    BY OrderlyIsOrdered
  <1>1. CASE text.missing
    <2>1. result = Failure("missing", "validity_missing")
      BY <1>1 DEF NormalizeValidity
    <2> HIDE DEF result
    <2> QED BY <2>1 DEF Orderly, Failure, IsNormalized
  <1>2. CASE ~text.missing /\ text.timeOfDay
    <2>1. result = Failure("unsupported", "time_of_day_not_representable")
      BY <1>2 DEF NormalizeValidity
    <2> HIDE DEF result
    <2> QED BY <2>1 DEF Orderly, Failure, IsNormalized
  <1>3. CASE ~text.missing /\ ~text.timeOfDay /\ text.thisMonth
    <2>1. CASE reference = <<>>
      <3>1. result = Failure("ambiguous", "relative_date_needs_reference")
        BY <1>3, <2>1 DEF NormalizeValidity
      <3> HIDE DEF result
      <3> QED BY <3>1 DEF Orderly, Failure, IsNormalized
    <2>2. CASE reference # <<>>
      <3>1. PICK d : IsRealDate(d) /\ reference = <<d>>
        BY <2>2 DEF IsReference
      <3> DEFINE end == Date(d.year, d.month, LastDayOf(d.year, d.month))
      <3>2. IsRealDate(end)
        BY <3>1, MonthsAreReal DEF IsRealDate
      <3>3. result = Normalized("relative_validity_normalized", Window(<<>>, <<end>>))
        BY <1>3, <2>2, <3>1 DEF NormalizeValidity
      <3> HIDE DEF result, end
      <3> QED BY <3>2, <3>3 DEF Orderly, OpenWindow, Normalized, IsNormalized
    <2> QED BY <2>1, <2>2
  <1>4. CASE ~text.missing /\ ~text.timeOfDay /\ ~text.thisMonth /\ text.sameMonth # <<>>
    <2> DEFINE a == Date(same.year, same.month, same.first)
               b == Date(same.year, same.month, same.second)
    <2>1. result = DatedWindow("validity_range_normalized", a, b)
      BY <1>4 DEF NormalizeValidity
    <2>2. ~OneYear(text)
      BY <1>4 DEF OneYear
    <2> HIDE DEF result, a, b
    <2>3. CASE ~IsRealDate(a) \/ ~IsRealDate(b)
      BY <2>1, <2>2, <2>3 DEF DatedWindow, Orderly, Failure, IsNormalized
    <2>4. CASE IsRealDate(a) /\ IsRealDate(b) /\ Ordinal(a) > Ordinal(b)
      BY <2>1, <2>2, <2>4 DEF DatedWindow, Orderly, Failure, IsNormalized
    <2>5. CASE IsRealDate(a) /\ IsRealDate(b) /\ ~(Ordinal(a) > Ordinal(b))
      <3>1. Ordinal(a) <= Ordinal(b)
        BY <2>5, OrdinalsAreNumbers
      <3>2. ClosedWindow(text, Window(<<a>>, <<b>>))
        BY <2>2, <2>5, <3>1 DEF ClosedWindow
      <3> QED BY <2>1, <2>2, <2>5, <3>2 DEF DatedWindow, Orderly, Normalized, IsNormalized
    <2> QED BY <2>3, <2>4, <2>5
  <1>5. CASE /\ ~text.missing /\ ~text.timeOfDay /\ ~text.thisMonth /\ text.sameMonth = <<>>
             /\ text.fullMonth # <<>>
    <2>1. CASE full.year = 0
      <3>1. result = Failure("raised", "ValueError")
        BY <1>5, <2>1 DEF NormalizeValidity
      <3> HIDE DEF result
      <3> QED BY <3>1 DEF Orderly, Failure, IsNormalized
    <2>2. CASE full.year # 0
      <3> DEFINE a == Date(full.year, full.month, 1)
                 b == Date(full.year, full.month, LastDayOf(full.year, full.month))
      <3>1. full.year \in TextYears /\ full.month \in 1..12
        BY <1>5, Zenon DEF IsValidityText
      <3>2. full.year \in Years /\ full.month \in 1..12
        BY <2>2, <3>1 DEF TextYears
      <3>3. /\ IsRealDate(a) /\ IsRealDate(b)
            /\ Ordinal(a) <= Ordinal(b) /\ Ordinal(b) - Ordinal(a) < OrdinalYear
        BY <3>2, MonthsAreReal
      <3>4. result = Normalized("full_month_validity_normalized", Window(<<a>>, <<b>>))
        BY <1>5, <2>2, Zenon DEF NormalizeValidity
      <3> HIDE DEF result, a, b
      <3> QED BY <3>3, <3>4 DEF Orderly, ClosedWindow, Normalized, IsNormalized
    <2> QED BY <2>1, <2>2
  <1>6. CASE /\ ~text.missing /\ ~text.timeOfDay /\ ~text.thisMonth /\ text.sameMonth = <<>>
             /\ text.fullMonth = <<>>
    <2>1. CASE SomePartUnreal(text.dates)
      <3>1. result = Failure("invalid", "invalid_validity_window")
        BY <1>6, <2>1 DEF NormalizeValidity
      <3> HIDE DEF result
      <3> QED BY <3>1 DEF Orderly, Failure, IsNormalized
    <2>2. CASE ~SomePartUnreal(text.dates) /\ Len(text.dates) = 2
      <3>1. result = TwoDates(text, reference)
        BY <1>6, <2>2 DEF NormalizeValidity
      <3> HIDE DEF result
      <3> QED BY <2>2, <3>1, TwoDatesAreOrderly
    <2>3. CASE /\ ~SomePartUnreal(text.dates) /\ Len(text.dates) # 2
               /\ text.dates = <<>> /\ text.monthYear
      <3>1. result = Failure("ambiguous", "validity_precision_ambiguous")
        BY <1>6, <2>3 DEF NormalizeValidity
      <3> HIDE DEF result
      <3> QED BY <3>1 DEF Orderly, Failure, IsNormalized
    <2>4. CASE /\ ~SomePartUnreal(text.dates) /\ Len(text.dates) # 2
               /\ ~(text.dates = <<>> /\ text.monthYear) /\ Len(text.dates) # 1
      <3>1. result = Failure("invalid", "validity_date_not_found")
        BY <1>6, <2>4 DEF NormalizeValidity
      <3> HIDE DEF result
      <3> QED BY <3>1 DEF Orderly, Failure, IsNormalized
    <2>5. CASE /\ ~SomePartUnreal(text.dates) /\ Len(text.dates) # 2
               /\ ~(text.dates = <<>> /\ text.monthYear) /\ Len(text.dates) = 1
      <3>1. result = OneDate(text, reference)
        BY <1>6, <2>5 DEF NormalizeValidity
      <3> HIDE DEF result
      <3> QED BY <3>1, OneDateIsOrderly
    <2> QED BY <2>1, <2>2, <2>3, <2>4, <2>5
  <1> QED BY <1>1, <1>2, <1>3, <1>4, <1>5, <1>6

-----------------------------------------------------------------------------
(* Least members of sets of numbers.                                        *)

\* The least of a set of numbers.
LEMMA Least ==
    ASSUME NEW T \in SUBSET Nat, T # {}
    PROVE Min(T) \in T /\ \A m \in T : Min(T) <= m
  <1> DEFINE R == {ss \in Nat \X Nat : ss[1] < ss[2]}
  <1>1. IsWellFoundedOn(R, Nat)
    BY NatLessThanWellFounded, Zenon DEF OpToRel
  <1> HIDE DEF R
  <1>2. PICK n \in T : \A m \in T : ~(<<m, n>> \in R)
    BY <1>1, WFMin
  <1>3. \A m \in T : ~(m < n)
    BY <1>2 DEF R
  <1>4. \E k \in T : \A m \in T : k <= m
    BY <1>3
  <1> QED BY <1>4, Zenon DEF Min

\* The largest of a bounded set of numbers.
LEMMA Longest ==
    ASSUME NEW bound \in Nat, NEW S \in SUBSET (0..bound), S # {}
    PROVE Max(S) \in S /\ \A x \in S : x <= Max(S)
  <1> DEFINE T == {bound - x : x \in S}
  <1>1. T \in SUBSET Nat /\ T # {}
    <2>1. \A x \in 0..bound : bound - x \in Nat
      OBVIOUS
    <2> QED BY <2>1
  <1>2. Min(T) \in T /\ \A m \in T : Min(T) <= m
    <2> HIDE DEF T
    <2> QED BY <1>1, Least
  <1>3. PICK x \in S : Min(T) = bound - x
    BY <1>2
  <1>4. \A y \in S : bound - x <= bound - y
    BY <1>2, <1>3
  <1>5. \A y \in S : x >= y
    BY <1>4
  <1>6. Max(S) \in S /\ \A y \in S : Max(S) >= y
    BY <1>5, Zenon DEF Max
  <1> QED BY <1>6

-----------------------------------------------------------------------------
(* Gates and issues.                                                        *)

IsList(list) == \E n \in Nat : DOMAIN list = 1..n

\* With no reason given, no gate with a reason was closed.
LEMMA NoGateClosed ==
    ASSUME NEW gates, IsList(gates), FirstClosed(gates) = None,
           \A i \in DOMAIN gates : gates[i].reason # None
    PROVE \A i \in DOMAIN gates : ~gates[i].closed
  <1> SUFFICES ASSUME NEW i \in DOMAIN gates, gates[i].closed
               PROVE FALSE
    OBVIOUS
  <1> DEFINE closed == {k \in DOMAIN gates : gates[k].closed}
  <1>1. closed \in SUBSET Nat /\ closed # {}
    BY DEF IsList
  <1>2. Min(closed) \in closed
    <2> HIDE DEF closed
    <2> QED BY <1>1, Least
  <1>3. gates[Min(closed)].reason = None
    BY <1>1 DEF FirstClosed
  <1> QED BY <1>2, <1>3

\* With no issue reported, nothing is wrong with any value.
LEMMA NothingWrong ==
    ASSUME NEW issues, IsList(issues), \A i \in DOMAIN issues : IsList(issues[i]),
           FirstIssue(issues) = None
    PROVE \A i \in DOMAIN issues : \A k \in DOMAIN issues[i] : issues[i][k] = None
  <1> DEFINE Wrong(i) == {k \in DOMAIN issues[i] : issues[i][k] # None}
             wrong    == {i \in DOMAIN issues : Wrong(i) # {}}
             first    == Min(wrong)
  <1> SUFFICES ASSUME wrong # {}
               PROVE FALSE
    OBVIOUS
  <1>1. wrong \in SUBSET Nat
    BY DEF IsList
  <1>2. first \in wrong
    <2> HIDE DEF wrong
    <2> QED BY <1>1, Least
  <1>3. issues[first][Min(Wrong(first))] = None
    BY Zenon DEF FirstIssue
  <1> HIDE DEF first
  <1>4. Wrong(first) \in SUBSET Nat /\ Wrong(first) # {}
    BY <1>2 DEF IsList
  <1>5. Min(Wrong(first)) \in Wrong(first)
    <2> HIDE DEF Wrong
    <2> QED BY <1>4, Least
  <1> QED BY <1>3, <1>5

-----------------------------------------------------------------------------
(* Ranks.                                                                   *)

\* Ranks tell two records apart exactly when their keys do, whoever else is
\* ranked with them.
LEMMA RanksFollowKeys ==
    ASSUME NEW choices, IsList(choices), \A i \in DOMAIN choices : RankKey(choices[i]) \in Int,
           NEW higher \in BOOLEAN, NEW i \in DOMAIN choices, NEW j \in DOMAIN choices
    PROVE LET ranked == Rank(choices, higher)
              Better(x, y) == IF higher THEN x > y ELSE x < y
          IN ranked[i].rank < ranked[j].rank
               <=> Better(RankKey(choices[i]), RankKey(choices[j]))
  <1> DEFINE keys == {RankKey(choices[k]) : k \in DOMAIN choices}
             Before(x, y) == IF higher THEN x > y ELSE x < y
             Ahead(x) == {y \in keys : Before(y, x)}
             a == RankKey(choices[i])
             b == RankKey(choices[j])
  <1>1. a \in keys /\ b \in keys /\ keys \subseteq Int
    OBVIOUS
  <1>2. IsFiniteSet(keys)
    <2>1. PICK n \in Nat : DOMAIN choices = 1..n
      BY DEF IsList
    <2>2. 1 \in Int /\ n \in Int
      OBVIOUS
    <2>3. IsFiniteSet(1..n)
      BY <2>2, FS_Interval, Zenon
    <2>4. IsFiniteSet(DOMAIN choices)
      BY <2>1, <2>3
    <2> DEFINE f == [k \in DOMAIN choices |-> RankKey(choices[k])]
    <2>5. f \in Surjection(DOMAIN choices, keys)
      BY DEF Surjection
    <2> HIDE DEF f, keys
    <2> QED BY <2>4, <2>5, FS_Surjection
  <1>3. \A x : IsFiniteSet(Ahead(x)) /\ Cardinality(Ahead(x)) \in Nat
    <2> TAKE x
    <2>1. Ahead(x) \in SUBSET keys
      OBVIOUS
    <2> HIDE DEF keys, Ahead
    <2>2. IsFiniteSet(Ahead(x))
      BY <1>2, <2>1, FS_Subset
    <2> QED BY <2>2, FS_CardinalityType
  <1>4. ASSUME NEW x \in keys, NEW y \in keys, ~Before(x, y)
        PROVE Cardinality(Ahead(y)) <= Cardinality(Ahead(x))
    <2>1. x \in Int /\ y \in Int
      BY <1>1
    <2>2. \A z \in Ahead(y) : z \in Ahead(x)
      <3> HIDE DEF keys
      <3> QED BY <1>1, <1>4, <2>1
    <2> HIDE DEF Ahead
    <2>3. Ahead(y) \in SUBSET Ahead(x)
      BY <2>2
    <2> QED BY <1>3, <2>3, FS_Subset
  <1>5. ASSUME NEW x \in keys, NEW y \in keys, Before(x, y)
        PROVE Cardinality(Ahead(x)) < Cardinality(Ahead(y))
    <2>1. x \in Int /\ y \in Int
      BY <1>1
    <2>2. \A z \in Ahead(x) : z \in Ahead(y)
      <3> HIDE DEF keys
      <3> QED BY <1>1, <1>5, <2>1
    <2>3. x \in Ahead(y) /\ x \notin Ahead(x)
      <3> HIDE DEF keys
      <3> QED BY <1>5, <2>1
    <2> HIDE DEF Ahead
    <2>4. Ahead(x) \in SUBSET Ahead(y)
      BY <2>2
    <2>5. /\ Cardinality(Ahead(x)) <= Cardinality(Ahead(y))
          /\ Cardinality(Ahead(y)) = Cardinality(Ahead(x)) => Ahead(y) = Ahead(x)
      BY <1>3, <2>4, FS_Subset
    <2> QED BY <1>3, <2>3, <2>5
  <1>6. LET ranked == Rank(choices, higher)
        IN ranked[i].rank = 1 + Cardinality(Ahead(a)) /\ ranked[j].rank = 1 + Cardinality(Ahead(b))
    BY DEF Rank
  <1> HIDE DEF keys, Before, Ahead, a, b
  <1>7. 1 + Cardinality(Ahead(a)) < 1 + Cardinality(Ahead(b)) <=> Before(a, b)
    <2>1. CASE Before(a, b)
      BY <1>1, <1>3, <1>5, <2>1
    <2>2. CASE ~Before(a, b)
      BY <1>1, <1>3, <1>4, <2>2
    <2> QED BY <2>1, <2>2
  <1> QED BY <1>6, <1>7, Zenon DEF Before, a, b

\* So two records that are ranked by the same keys in two comparisons are in
\* the same order in both.
LEMMA SameKeysSameOrder ==
    ASSUME NEW all, IsList(all), \A k \in DOMAIN all : RankKey(all[k]) \in Int,
           NEW pair, IsList(pair), \A k \in DOMAIN pair : RankKey(pair[k]) \in Int,
           NEW higher \in BOOLEAN, NEW i \in DOMAIN all, NEW j \in DOMAIN all,
           DOMAIN pair = 1..2,
           RankKey(pair[1]) = RankKey(all[i]), RankKey(pair[2]) = RankKey(all[j])
    PROVE Rank(all, higher)[i].rank < Rank(all, higher)[j].rank
            <=> Rank(pair, higher)[1].rank < Rank(pair, higher)[2].rank
  <1> DEFINE Before(x, y) == IF higher THEN x > y ELSE x < y
  <1>1. Rank(all, higher)[i].rank < Rank(all, higher)[j].rank
          <=> Before(RankKey(all[i]), RankKey(all[j]))
    BY RanksFollowKeys, Zenon
  <1>2. 1 \in DOMAIN pair /\ 2 \in DOMAIN pair
    OBVIOUS
  <1>3. Rank(pair, higher)[1].rank < Rank(pair, higher)[2].rank
          <=> Before(RankKey(pair[1]), RankKey(pair[2]))
    BY <1>2, RanksFollowKeys, Zenon
  <1> HIDE DEF Before
  <1> QED BY <1>1, <1>3, Zenon

-----------------------------------------------------------------------------
(* Values in common.                                                        *)

\* What is common to a list of sets.
LEMMA InEach ==
    ASSUME NEW sets, DOMAIN sets # {}
    PROVE \A x : x \in CommonTo(sets) <=> \A i \in DOMAIN sets : x \in sets[i]
  BY DEF CommonTo

\* One place of each list has the signature, and what it offers is chosen.
Found(records, matches) == \A i \in DOMAIN records : ExactlyOne(matches[i])

Chosen(records, matches, choices) ==
    [i \in DOMAIN records |-> choices[i][CHOOSE k \in matches[i] : TRUE]]

\* A comparison of values that ranks anybody found nothing wrong, one signature
\* and, in each list, one value that has it.
LEMMA ValuesCompared ==
    ASSUME NEW records, NEW list, NEW issue, NEW common, NEW mismatch, NEW matches, NEW choices,
           NEW higher, NEW reasons, NEW i \in DOMAIN records,
           CompareValues(records, list, issue, common, mismatch, matches, choices, higher,
                         reasons)[i].comparable
    PROVE /\ issue = None /\ SoleSignature(common) /\ Found(records, matches)
          /\ CompareValues(records, list, issue, common, mismatch, matches, choices, higher,
                           reasons) = Rank(Chosen(records, matches, choices), higher)
  <1> DEFINE result == CompareValues(records, list, issue, common, mismatch, matches, choices,
                                     higher, reasons)
  <1>1. \A reason : ~RejectAll(records, reason)[i].comparable
    BY DEF RejectAll, Rejected
  <1>2. \A set, own, peer : ~RejectOwnAndPeers(records, set, own, peer)[i].comparable
    BY DEF RejectOwnAndPeers, Rejected
  <1>3. issue = None
    BY <1>1, <1>2, Zenon DEF CompareValues
  <1>4. SoleSignature(common)
    BY <1>1, <1>2, Zenon DEF CompareValues
  <1>5. Found(records, matches)
    BY <1>1, <1>2, Zenon DEF CompareValues, Found
  <1>6. result = Rank(Chosen(records, matches, choices), higher)
    BY <1>1, <1>2, Zenon DEF CompareValues, Chosen
  <1> QED BY <1>3, <1>4, <1>5, <1>6

\* What exactly one place holds.
LEMMA OnePlace ==
    ASSUME NEW places, ExactlyOne(places)
    PROVE (CHOOSE k \in places : TRUE) \in places
  BY Zenon DEF ExactlyOne

-----------------------------------------------------------------------------
(* Rates.                                                                   *)

RateSignatures(r) == {RateSignature(x) : x \in ToSet(r.rates)}

RatesAt(r, s) == {k \in DOMAIN r.rates : RateSignature(r.rates[k]) = s}

ChosenRate(r, s) ==
    Choice(r.rates[CHOOSE k \in RatesAt(r, s) : TRUE].percent, "percent", FALSE)

\* Rates are ranked by one signature that all records share.
LEMMA RatesRanked ==
    ASSUME NEW records, NEW i \in DOMAIN records, CompareRates(records)[i].comparable
    PROVE \E s :
             /\ CommonTo([k \in DOMAIN records |-> RateSignatures(records[k])]) = {s}
             /\ \A k \in DOMAIN records : ExactlyOne(RatesAt(records[k], s))
             /\ CompareRates(records) = Rank([k \in DOMAIN records |-> ChosenRate(records[k], s)],
                                             HigherRateIsBetter(s[1]))
  <1> DEFINE Each(k) == DOMAIN records[k].rates
             common  == CommonTo([k \in DOMAIN records |->
                                    {RateSignature(x) : x \in ToSet(records[k].rates)}])
             s       == CHOOSE x \in common : TRUE
             issue   == FirstIssue([k \in DOMAIN records |->
                                      [p \in Each(k) |-> RateIssue(records[k].rates[p])]])
             matches == [k \in DOMAIN records |->
                           {p \in Each(k) : RateSignature(records[k].rates[p]) = s}]
             choices == [k \in DOMAIN records |->
                           [p \in Each(k) |-> Choice(records[k].rates[p].percent, "percent", FALSE)]]
             reasons == [missing |-> "rate_missing", peerMissing |-> "peer_rate_missing",
                         manySignatures |-> "multiple_rate_signatures",
                         manyValues |-> "multiple_rate_values_for_signature",
                         unproven |-> "rate_evidence_missing",
                         peerUnproven |-> "peer_rate_evidence_missing"]
  <1>1. CompareRates(records) =
          CompareValues(records, "rates", issue, common, RateMismatchReason(records), matches,
                        choices, HigherRateIsBetter(s[1]), reasons)
    BY Zenon DEF CompareRates
  <1> HIDE DEF issue, reasons
  <1>2. /\ SoleSignature(common) /\ Found(records, matches)
        /\ CompareRates(records) = Rank(Chosen(records, matches, choices),
                                        HigherRateIsBetter(s[1]))
    <2> DEFINE higher   == HigherRateIsBetter(s[1])
               mismatch == RateMismatchReason(records)
               result   == CompareValues(records, "rates", issue, common, mismatch, matches,
                                         choices, higher, reasons)
    <2>1. CompareRates(records) = result
      BY <1>1
    <2> HIDE DEF common, s, matches, choices, higher, mismatch
    <2>2. result[i].comparable
      BY <2>1, Zenon
    <2>3. /\ SoleSignature(common) /\ Found(records, matches)
          /\ result = Rank(Chosen(records, matches, choices), higher)
      BY <2>2, ValuesCompared
    <2> HIDE DEF result
    <2> QED BY <2>1, <2>3, Zenon DEF higher
  <1>3. common = {s}
    BY <1>2, Zenon DEF SoleSignature, ExactlyOne
  <1>4. \A k \in DOMAIN records : matches[k] = RatesAt(records[k], s)
    BY Zenon DEF RatesAt
  <1>5. \A k \in DOMAIN records : ExactlyOne(RatesAt(records[k], s))
    <2> HIDE DEF matches, s
    <2> QED BY <1>2, <1>4, Zenon DEF Found
  <1>6. Chosen(records, matches, choices) = [k \in DOMAIN records |-> ChosenRate(records[k], s)]
    <2>1. ASSUME NEW k \in DOMAIN records
          PROVE choices[k][CHOOSE p \in matches[k] : TRUE] = ChosenRate(records[k], s)
      <3> DEFINE place == CHOOSE p \in RatesAt(records[k], s) : TRUE
      <3>1. place \in Each(k)
        <4> HIDE DEF s
        <4>1. place \in RatesAt(records[k], s)
          BY <1>5, OnePlace, Zenon
        <4> QED BY <4>1, Zenon DEF RatesAt
      <3>2. choices[k][place] = ChosenRate(records[k], s)
        <4> HIDE DEF s
        <4> QED BY <3>1, Zenon DEF ChosenRate
      <3> HIDE DEF choices, matches, s
      <3> QED BY <1>4, <3>2, Zenon
    <2> HIDE DEF choices, matches, s
    <2> QED BY <2>1, Zenon DEF Chosen
  <1>7. CommonTo([k \in DOMAIN records |-> RateSignatures(records[k])]) = common
    BY Zenon DEF RateSignatures
  <1> HIDE DEF choices, matches, s, common
  <1> QED BY <1>2, <1>3, <1>5, <1>6, <1>7, Zenon

-----------------------------------------------------------------------------
(* Fees.                                                                    *)

FeesAt(r, s) == {k \in DOMAIN r.fees : FeeMatchesSignature(r.fees[k], s)}

ChosenFee(r, s) == FeeChoice(r.fees[CHOOSE k \in FeesAt(r, s) : TRUE])

\* Fees are ranked by one signature that every record serves, and none of them is
\* left in the dark.
LEMMA FeesRanked ==
    ASSUME NEW records, IsList(records), \A k \in DOMAIN records : IsList(records[k].fees),
           NEW i \in DOMAIN records, CompareFees(records)[i].comparable
    PROVE \E s :
             /\ \A k \in DOMAIN records : \A p \in DOMAIN records[k].fees :
                  FeeIssue(records[k].fees[p]) = None
             /\ CommonFeeSignatures(records) = {s}
             /\ \A k \in DOMAIN records : ExactlyOne(FeesAt(records[k], s))
             /\ CompareFees(records) = Rank([k \in DOMAIN records |-> ChosenFee(records[k], s)], FALSE)
  <1> DEFINE Each(k) == DOMAIN records[k].fees
             common  == CommonFeeSignatures(records)
             s       == CHOOSE x \in common : TRUE
             issue   == FirstIssue([k \in DOMAIN records |->
                                      [p \in Each(k) |-> FeeIssue(records[k].fees[p])]])
             matches == [k \in DOMAIN records |->
                           {p \in Each(k) : FeeMatchesSignature(records[k].fees[p], s)}]
             choices == [k \in DOMAIN records |->
                           [p \in Each(k) |-> FeeChoice(records[k].fees[p])]]
             reasons == [missing |-> "fee_missing", peerMissing |-> "peer_fee_missing",
                         manySignatures |-> "multiple_fee_signatures",
                         manyValues |-> "multiple_fee_signatures",
                         unproven |-> "fee_evidence_missing",
                         peerUnproven |-> "peer_fee_evidence_missing"]
  <1>1. CompareFees(records) =
          CompareValues(records, "fees", issue, common, FeeMismatchReason(records), matches,
                        choices, FALSE, reasons)
    BY Zenon DEF CompareFees
  <1> HIDE DEF issue, reasons
  <1>2. /\ issue = None /\ SoleSignature(common) /\ Found(records, matches)
        /\ CompareFees(records) = Rank(Chosen(records, matches, choices), FALSE)
    <2> DEFINE higher   == FALSE
               mismatch == FeeMismatchReason(records)
               result   == CompareValues(records, "fees", issue, common, mismatch, matches,
                                         choices, higher, reasons)
    <2>1. CompareFees(records) = result
      BY <1>1
    <2> HIDE DEF common, s, matches, choices, higher, mismatch
    <2>2. result[i].comparable
      BY <2>1, Zenon
    <2>3. /\ issue = None /\ SoleSignature(common) /\ Found(records, matches)
          /\ result = Rank(Chosen(records, matches, choices), higher)
      BY <2>2, ValuesCompared
    <2> HIDE DEF result
    <2> QED BY <2>1, <2>3, Zenon DEF higher
  <1>3. common = {s}
    BY <1>2, Zenon DEF SoleSignature, ExactlyOne
  <1>4. \A k \in DOMAIN records : matches[k] = FeesAt(records[k], s)
    BY Zenon DEF FeesAt
  <1>5. \A k \in DOMAIN records : ExactlyOne(FeesAt(records[k], s))
    <2> HIDE DEF matches, s
    <2> QED BY <1>2, <1>4, Zenon DEF Found
  <1>6. Chosen(records, matches, choices) = [k \in DOMAIN records |-> ChosenFee(records[k], s)]
    <2>1. ASSUME NEW k \in DOMAIN records
          PROVE choices[k][CHOOSE p \in matches[k] : TRUE] = ChosenFee(records[k], s)
      <3> DEFINE place == CHOOSE p \in FeesAt(records[k], s) : TRUE
      <3>1. place \in Each(k)
        <4> HIDE DEF s
        <4>1. place \in FeesAt(records[k], s)
          BY <1>5, OnePlace, Zenon
        <4> QED BY <4>1, Zenon DEF FeesAt
      <3>2. choices[k][place] = ChosenFee(records[k], s)
        <4> HIDE DEF s
        <4> QED BY <3>1, Zenon DEF ChosenFee
      <3> HIDE DEF choices, matches, s
      <3> QED BY <1>4, <3>2, Zenon
    <2> HIDE DEF choices, matches, s
    <2> QED BY <2>1, Zenon DEF Chosen
  <1>7. \A k \in DOMAIN records : \A p \in Each(k) : FeeIssue(records[k].fees[p]) = None
    <2> DEFINE issues == [k \in DOMAIN records |->
                            [p \in Each(k) |-> FeeIssue(records[k].fees[p])]]
    <2>1. FirstIssue(issues) = None
      BY <1>2 DEF issue
    <2>2. IsList(issues) /\ \A k \in DOMAIN issues : IsList(issues[k])
      BY DEF IsList
    <2>3. \A k \in DOMAIN issues : \A p \in DOMAIN issues[k] : issues[k][p] = None
      <3> HIDE DEF issues
      <3> QED BY <2>1, <2>2, NothingWrong
    <2> QED BY <2>3
  <1> HIDE DEF choices, matches, s, common
  <1> QED BY <1>2, <1>3, <1>5, <1>6, <1>7, Zenon DEF common

-----------------------------------------------------------------------------
(* Rewards.                                                                 *)

RewardSignatures(r) == {RewardSignature(x) : x \in ToSet(r.rewards)}

RewardsAt(r, s) == {k \in DOMAIN r.rewards : RewardSignature(r.rewards[k]) = s}

ChosenReward(r, s) == RewardChoice(r.rewards[CHOOSE k \in RewardsAt(r, s) : TRUE])

\* Rewards are ranked by one signature that all records share.
LEMMA RewardsRanked ==
    ASSUME NEW records, IsList(records), \A k \in DOMAIN records : IsList(records[k].rewards),
           NEW i \in DOMAIN records, CompareRewards(records)[i].comparable
    PROVE \E s :
             /\ \A k \in DOMAIN records : \A p \in DOMAIN records[k].rewards :
                  RewardIssue(records[k].rewards[p]) = None
             /\ CommonTo([k \in DOMAIN records |-> RewardSignatures(records[k])]) = {s}
             /\ \A k \in DOMAIN records : ExactlyOne(RewardsAt(records[k], s))
             /\ CompareRewards(records) = Rank([k \in DOMAIN records |-> ChosenReward(records[k], s)],
                                               TRUE)
  <1> DEFINE Each(k) == DOMAIN records[k].rewards
             common  == CommonTo([k \in DOMAIN records |->
                                    {RewardSignature(x) : x \in ToSet(records[k].rewards)}])
             s       == CHOOSE x \in common : TRUE
             issue   == FirstIssue([k \in DOMAIN records |->
                                      [p \in Each(k) |-> RewardIssue(records[k].rewards[p])]])
             matches == [k \in DOMAIN records |->
                           {p \in Each(k) : RewardSignature(records[k].rewards[p]) = s}]
             choices == [k \in DOMAIN records |->
                           [p \in Each(k) |-> RewardChoice(records[k].rewards[p])]]
             reasons == [missing |-> "reward_missing", peerMissing |-> "peer_reward_missing",
                         manySignatures |-> "multiple_reward_signatures",
                         manyValues |-> "multiple_reward_signatures",
                         unproven |-> "reward_evidence_missing",
                         peerUnproven |-> "peer_reward_evidence_missing"]
  <1>1. CompareRewards(records) =
          CompareValues(records, "rewards", issue, common, RewardMismatchReason(records), matches,
                        choices, TRUE, reasons)
    BY Zenon DEF CompareRewards
  <1> HIDE DEF issue, reasons
  <1>2. /\ issue = None /\ SoleSignature(common) /\ Found(records, matches)
        /\ CompareRewards(records) = Rank(Chosen(records, matches, choices), TRUE)
    <2> DEFINE higher   == TRUE
               mismatch == RewardMismatchReason(records)
               result   == CompareValues(records, "rewards", issue, common, mismatch, matches,
                                         choices, higher, reasons)
    <2>1. CompareRewards(records) = result
      BY <1>1
    <2> HIDE DEF common, s, matches, choices, higher, mismatch
    <2>2. result[i].comparable
      BY <2>1, Zenon
    <2>3. /\ issue = None /\ SoleSignature(common) /\ Found(records, matches)
          /\ result = Rank(Chosen(records, matches, choices), higher)
      BY <2>2, ValuesCompared
    <2> HIDE DEF result
    <2> QED BY <2>1, <2>3, Zenon DEF higher
  <1>3. common = {s}
    BY <1>2, Zenon DEF SoleSignature, ExactlyOne
  <1>4. \A k \in DOMAIN records : matches[k] = RewardsAt(records[k], s)
    BY Zenon DEF RewardsAt
  <1>5. \A k \in DOMAIN records : ExactlyOne(RewardsAt(records[k], s))
    <2> HIDE DEF matches, s
    <2> QED BY <1>2, <1>4, Zenon DEF Found
  <1>6. Chosen(records, matches, choices) = [k \in DOMAIN records |-> ChosenReward(records[k], s)]
    <2>1. ASSUME NEW k \in DOMAIN records
          PROVE choices[k][CHOOSE p \in matches[k] : TRUE] = ChosenReward(records[k], s)
      <3> DEFINE place == CHOOSE p \in RewardsAt(records[k], s) : TRUE
      <3>1. place \in Each(k)
        <4> HIDE DEF s
        <4>1. place \in RewardsAt(records[k], s)
          BY <1>5, OnePlace, Zenon
        <4> QED BY <4>1, Zenon DEF RewardsAt
      <3>2. choices[k][place] = ChosenReward(records[k], s)
        <4> HIDE DEF s
        <4> QED BY <3>1, Zenon DEF ChosenReward
      <3> HIDE DEF choices, matches, s
      <3> QED BY <1>4, <3>2, Zenon
    <2> HIDE DEF choices, matches, s
    <2> QED BY <2>1, Zenon DEF Chosen
  <1>7. CommonTo([k \in DOMAIN records |-> RewardSignatures(records[k])]) = common
    BY Zenon DEF RewardSignatures
  <1>8. \A k \in DOMAIN records : \A p \in Each(k) : RewardIssue(records[k].rewards[p]) = None
    <2> DEFINE issues == [k \in DOMAIN records |->
                            [p \in Each(k) |-> RewardIssue(records[k].rewards[p])]]
    <2>1. FirstIssue(issues) = None
      BY <1>2 DEF issue
    <2>2. IsList(issues) /\ \A k \in DOMAIN issues : IsList(issues[k])
      BY DEF IsList
    <2>3. \A k \in DOMAIN issues : \A p \in DOMAIN issues[k] : issues[k][p] = None
      <3> HIDE DEF issues
      <3> QED BY <2>1, <2>2, NothingWrong
    <2> QED BY <2>3
  <1> HIDE DEF choices, matches, s, common
  <1> QED BY <1>2, <1>3, <1>5, <1>6, <1>7, <1>8, Zenon

-----------------------------------------------------------------------------
(* Terms.                                                                   *)

LongestTerm(r) == Max({t.maximum : t \in ToSet(r.terms)})

\* Terms are ranked by the longest one of each record, and each has one.
LEMMA TermsRanked ==
    ASSUME NEW records, NEW i \in DOMAIN records, CompareTerms(records)[i].comparable
    PROVE /\ \A k \in DOMAIN records : records[k].terms # <<>>
          /\ CompareTerms(records) = Rank([k \in DOMAIN records |->
                                            Choice(LongestTerm(records[k]), "months", FALSE)], TRUE)
  <1>1. \A reason : ~RejectAll(records, reason)[i].comparable
    BY DEF RejectAll, Rejected
  <1>2. \A set, own, peer : ~RejectOwnAndPeers(records, set, own, peer)[i].comparable
    BY DEF RejectOwnAndPeers, Rejected
  <1>3. \A k \in DOMAIN records : records[k].terms # <<>>
    <2>1. {k \in DOMAIN records : records[k].terms = <<>>} = {}
      BY <1>1, <1>2, Zenon DEF CompareTerms
    <2> QED BY <2>1
  <1>4. CompareTerms(records) = Rank([k \in DOMAIN records |->
                                        Choice(LongestTerm(records[k]), "months", FALSE)], TRUE)
    BY <1>1, <1>2, Zenon DEF CompareTerms, LongestTerm
  <1> QED BY <1>3, <1>4

-----------------------------------------------------------------------------
(* Records, as the readers of pages make them.                              *)

IsMoney(money) == money = <<>> \/ money[1].amount \in Nat
IsRate(rate)   == rate = <<>> \/ rate[1].percent \in Nat

IsFee(fee) == IsMoney(fee.money) /\ IsRate(fee.rate)

\* A reward is worth points exactly when it is of that kind.
IsReward(reward) ==
    /\ reward.kind \in {"money", "points", "discount", "free_service", "other"}
    /\ IsMoney(reward.money) /\ IsRate(reward.rate)
    /\ reward.points \in Nat \cup {Absent}
    /\ reward.kind = "points" /\ reward.program # None => reward.money = <<>>
    /\ reward.kind # "points" /\ reward.money = <<>> => reward.points = Absent

IsRecord(r) ==
    /\ IsList(r.rates) /\ \A k \in DOMAIN r.rates : r.rates[k].percent \in Nat
    /\ r.terms = <<>> \/ DOMAIN r.terms # {}
    /\ \A k \in DOMAIN r.terms : r.terms[k].maximum \in 0..MaxMonths
    /\ IsList(r.fees) /\ \A k \in DOMAIN r.fees : IsFee(r.fees[k])
    /\ IsList(r.rewards) /\ \A k \in DOMAIN r.rewards : IsReward(r.rewards[k])

IsComparison(records, dimension) ==
    /\ dimension \in Dimensions
    /\ IsList(records) /\ \A k \in DOMAIN records : IsRecord(records[k])

\* A complete fee has a number to be ranked by.
LEMMA FeesHaveKeys ==
    ASSUME NEW fee, IsFee(fee), FeeIssue(fee) = None
    PROVE RankKey(FeeChoice(fee)) \in Int
  <1> DEFINE unclear == /\ fee.rate # <<>>
                        /\ \/ ~fee.rate[1].settled
                           \/ fee.rate[1].period = "unspecified"
                           \/ fee.rate[1].label = ""
             gates ==
               << Gate(~fee.settled, "fee_basis_unknown"),
                  Gate(fee.kind = "unknown", "fee_kind_unknown"),
                  Gate(fee.basis = "unspecified", "fee_basis_unknown"),
                  Gate(~fee.waived /\ (fee.money = <<>>) = (fee.rate = <<>>), "fee_not_numeric"),
                  Gate(~fee.waived /\ unclear, "fee_rate_context_unknown") >>
  <1>1. FirstClosed(gates) = None
    BY Zenon DEF FeeIssue
  <1>2. IsList(gates) /\ \A i \in DOMAIN gates : gates[i].reason # None
    <2> HIDE DEF unclear
    <2>1. DOMAIN gates = 1..5
      OBVIOUS
    <2> QED BY <2>1 DEF Gate, None, IsList
  <1>3. ~gates[4].closed
    <2>1. \A i \in DOMAIN gates : ~gates[i].closed
      <3> HIDE DEF gates
      <3> QED BY <1>1, <1>2, NoGateClosed
    <2>2. 4 \in DOMAIN gates
      OBVIOUS
    <2> QED BY <2>1, <2>2
  <1>4. fee.waived \/ (fee.money = <<>>) # (fee.rate = <<>>)
    BY <1>3 DEF Gate
  <1> QED BY <1>4 DEF RankKey, FeeChoice, Choice, IsFee, IsMoney, IsRate

\* The unit that the value part of a signature stands for.
UnitOf(value) ==
    IF value[1] = "money" THEN value[2]
    ELSE IF value[1] = "points" THEN "points" ELSE "percent"

\* A fee that is charged is shown in the unit of its signature.
LEMMA FeesHaveUnits ==
    ASSUME NEW fee, NEW s, FeeMatchesSignature(fee, s)
    PROVE FeeChoice(fee).unit \in {None, UnitOf(s[2])}
  <1>1. CASE fee.waived
    BY <1>1 DEF FeeChoice, Choice
  <1>2. CASE ~fee.waived /\ fee.money # <<>>
    <2>1. s[2] = <<"money", fee.money[1].currency>>
      BY <1>2 DEF FeeMatchesSignature, FeeSignature, PriceOf
    <2>2. FeeChoice(fee).unit = fee.money[1].currency
      BY <1>2 DEF FeeChoice, Choice
    <2> QED BY <2>1, <2>2 DEF UnitOf
  <1>3. CASE ~fee.waived /\ fee.money = <<>>
    <2>1. s[2] = <<"rate", fee.rate[1].period, fee.rate[1].grossNet, fee.rate[1].label>>
      BY <1>3 DEF FeeMatchesSignature, FeeSignature, PriceOf
    <2>2. FeeChoice(fee).unit = "percent"
      BY <1>3 DEF FeeChoice, Choice
    <2> QED BY <2>1, <2>2 DEF UnitOf
  <1> QED BY <1>1, <1>2, <1>3

\* A complete reward has a number to be ranked by, in the unit of its signature.
LEMMA RewardsHaveUnits ==
    ASSUME NEW reward, IsReward(reward), RewardIssue(reward) = None
    PROVE /\ RankKey(RewardChoice(reward)) \in Int
          /\ RewardChoice(reward).unit = UnitOf(RewardSignature(reward)[3])
  <1> DEFINE rateUnclear == reward.rate # <<>> /\ RateIssue(reward.rate[1]) # None
             gates ==
               << Gate(~reward.settled \/ reward.basis = "unspecified", "reward_basis_unknown"),
                  Gate(reward.kind = "points" /\ reward.program = None, "reward_program_unknown"),
                  Gate(\/ reward.kind = "money" /\ reward.money = <<>>
                       \/ reward.kind = "points" /\ reward.points = Absent
                       \/ reward.kind = "discount" /\ reward.money = <<>> /\ reward.rate = <<>>,
                       "reward_not_numeric"),
                  Gate(rateUnclear, "reward_rate_context_unknown"),
                  Gate(reward.kind \in {"free_service", "other"}, "reward_not_numeric") >>
  <1>1. FirstClosed(gates) = None
    BY Zenon DEF RewardIssue
  <1>2. IsList(gates) /\ \A i \in DOMAIN gates : gates[i].reason # None
    <2> HIDE DEF rateUnclear
    <2>1. DOMAIN gates = 1..5
      OBVIOUS
    <2> QED BY <2>1 DEF Gate, None, IsList
  <1>3. ~gates[2].closed /\ ~gates[3].closed /\ ~gates[5].closed
    <2>1. \A i \in DOMAIN gates : ~gates[i].closed
      <3> HIDE DEF gates
      <3> QED BY <1>1, <1>2, NoGateClosed
    <2>2. 2 \in DOMAIN gates /\ 3 \in DOMAIN gates /\ 5 \in DOMAIN gates
      OBVIOUS
    <2> QED BY <2>1, <2>2
  <1>4. /\ reward.kind \in {"money", "points", "discount"}
        /\ reward.kind = "money" => reward.money # <<>>
        /\ reward.kind = "points" => reward.points # Absent /\ reward.money = <<>>
        /\ reward.kind = "discount" /\ reward.money = <<>> => reward.rate # <<>>
    BY <1>3 DEF Gate, IsReward
  <1> HIDE DEF gates
  <1>5. CASE reward.kind = "points"
    <2>1. RewardChoice(reward) = Choice(reward.points, "points", FALSE)
      BY <1>4, <1>5, Zenon DEF RewardChoice
    <2>2. RewardSignature(reward)[3] = <<"points", reward.program>>
      BY <1>5 DEF RewardSignature
    <2>3. reward.points \in Int
      BY <1>4, <1>5 DEF IsReward, Absent
    <2> QED BY <2>1, <2>2, <2>3 DEF RankKey, Choice, UnitOf
  <1>6. CASE reward.kind # "points" /\ reward.money # <<>>
    <2>1. RewardChoice(reward) = Choice(reward.money[1].amount, reward.money[1].currency, FALSE)
      BY <1>6, Zenon DEF RewardChoice
    <2>2. RewardSignature(reward)[3] = <<"money", reward.money[1].currency>>
      BY <1>6 DEF RewardSignature
    <2>3. reward.money[1].amount \in Int
      BY <1>6 DEF IsReward, IsMoney
    <2> QED BY <2>1, <2>2, <2>3 DEF RankKey, Choice, UnitOf
  <1>7. CASE reward.kind # "points" /\ reward.money = <<>>
    <2>1. RewardChoice(reward) = Choice(reward.rate[1].percent, "percent", FALSE)
      BY <1>7, Zenon DEF RewardChoice, IsReward
    <2>2. RewardSignature(reward)[3] = <<"rate", RateSignature(reward.rate[1])>>
      BY <1>7 DEF RewardSignature
    <2>3. reward.rate[1].percent \in Int
      BY <1>4, <1>7 DEF IsReward, IsRate
    <2> QED BY <2>1, <2>2, <2>3 DEF RankKey, Choice, UnitOf
  <1> QED BY <1>5, <1>6, <1>7

-----------------------------------------------------------------------------
(* Two records, with their peers and by themselves.                         *)

\* Two records are compared by themselves with what they have.
IsPair(pair, records, i, j) ==
    DOMAIN pair = 1..2 /\ pair[1] = records[i] /\ pair[2] = records[j]

\* A rate that is chosen has a number to be ranked by.
LEMMA RatesHaveKeys ==
    ASSUME NEW r, IsRecord(r), NEW s, ExactlyOne(RatesAt(r, s))
    PROVE RankKey(ChosenRate(r, s)) \in Int
  <1> DEFINE place == CHOOSE k \in RatesAt(r, s) : TRUE
  <1>1. place \in RatesAt(r, s)
    BY OnePlace, Zenon
  <1>2. place \in DOMAIN r.rates
    BY <1>1, Zenon DEF RatesAt
  <1>3. r.rates[place].percent \in Nat
    BY <1>2, Zenon DEF IsRecord
  <1> HIDE DEF place
  <1>4. r.rates[place].percent \in Int
    BY <1>3
  <1> QED BY <1>4 DEF ChosenRate, place, RankKey, Choice

\* So has a fee that is chosen.
LEMMA ChosenFeesHaveKeys ==
    ASSUME NEW r, IsRecord(r), NEW s, ExactlyOne(FeesAt(r, s)),
           \A p \in DOMAIN r.fees : FeeIssue(r.fees[p]) = None
    PROVE RankKey(ChosenFee(r, s)) \in Int
  <1> DEFINE place == CHOOSE k \in FeesAt(r, s) : TRUE
  <1>1. place \in FeesAt(r, s)
    BY OnePlace, Zenon
  <1>2. place \in DOMAIN r.fees
    BY <1>1, Zenon DEF FeesAt
  <1>3. IsFee(r.fees[place]) /\ FeeIssue(r.fees[place]) = None
    BY <1>2, Zenon DEF IsRecord
  <1> QED BY <1>3, FeesHaveKeys, Zenon DEF ChosenFee

\* So has a reward that is chosen.
LEMMA ChosenRewardsHaveKeys ==
    ASSUME NEW r, IsRecord(r), NEW s, ExactlyOne(RewardsAt(r, s)),
           \A p \in DOMAIN r.rewards : RewardIssue(r.rewards[p]) = None
    PROVE RankKey(ChosenReward(r, s)) \in Int
  <1> DEFINE place == CHOOSE k \in RewardsAt(r, s) : TRUE
  <1>1. place \in RewardsAt(r, s)
    BY OnePlace, Zenon
  <1>2. place \in DOMAIN r.rewards
    BY <1>1, Zenon DEF RewardsAt
  <1>3. IsReward(r.rewards[place]) /\ RewardIssue(r.rewards[place]) = None
    BY <1>2, Zenon DEF IsRecord
  <1> QED BY <1>3, RewardsHaveUnits, Zenon DEF ChosenReward

\* So has the longest term of a record that has one.
LEMMA TermsHaveKeys ==
    ASSUME NEW r, IsRecord(r), r.terms # <<>>
    PROVE RankKey(Choice(LongestTerm(r), "months", FALSE)) \in Int
  <1> DEFINE lengths == {t.maximum : t \in ToSet(r.terms)}
  <1>1. lengths \in SUBSET (0..MaxMonths)
    BY Zenon DEF IsRecord, ToSet
  <1>2. lengths # {}
    <2>1. PICK k \in DOMAIN r.terms : TRUE
      BY Zenon DEF IsRecord
    <2>2. r.terms[k].maximum \in lengths
      BY <2>1, Zenon DEF ToSet
    <2> HIDE DEF lengths
    <2> QED BY <2>2
  <1>3. MaxMonths \in Nat
    BY DEF MaxMonths
  <1>4. Max(lengths) \in lengths
    <2> HIDE DEF lengths
    <2>1. \A bound \in Nat : lengths \in SUBSET (0..bound) => Max(lengths) \in lengths
      BY <1>2, Longest
    <2> QED BY <1>1, <1>3, <2>1, Zenon
  <1>5. Max(lengths) \in Int
    <2>1. \A n \in 0..MaxMonths : n \in Int
      BY <1>3
    <2> HIDE DEF lengths
    <2> QED BY <1>1, <1>4, <2>1, Zenon
  <1> QED BY <1>5 DEF LongestTerm, RankKey, Choice

\* Who prices and who waives.
Priced(r) == {FeeSignature(f) : f \in {x \in ToSet(r.fees) : ~x.waived}}
Waived(r) == {FeePair(f) : f \in {x \in ToSet(r.fees) : x.waived}}

\* What _common_fee_signatures collects.
LEMMA FeesInCommon ==
    ASSUME NEW records, DOMAIN records # {}, NEW s
    PROVE s \in CommonFeeSignatures(records) <=>
             \/ /\ \E k \in DOMAIN records : s \in Priced(records[k])
                /\ \A k \in DOMAIN records :
                      s \in Priced(records[k]) \/ PairOf(s) \in Waived(records[k])
             \/ \E p : /\ s = <<p, Waiver>>
                       /\ \A k \in DOMAIN records : p \in Waived(records[k])
                       /\ \A k \in DOMAIN records : \A q \in Priced(records[k]) : PairOf(q) # p
  <1> DEFINE priced == [k \in DOMAIN records |-> Priced(records[k])]
             waived == [k \in DOMAIN records |-> Waived(records[k])]
             any    == UNION {priced[k] : k \in DOMAIN records}
  <1>1. CommonFeeSignatures(records) =
          {x \in any : \A k \in DOMAIN records : x \in priced[k] \/ PairOf(x) \in waived[k]}
          \cup {<<p, Waiver>> : p \in {x \in CommonTo(waived) : \A q \in any : PairOf(q) # x}}
    BY Zenon DEF CommonFeeSignatures, Priced, Waived
  <1>2. \A x : x \in any <=> \E k \in DOMAIN records : x \in Priced(records[k])
    <2>1. any = UNION {Priced(records[k]) : k \in DOMAIN records}
      BY Zenon
    <2> QED BY <2>1
  <1>3. \A p : p \in CommonTo(waived) <=> \A k \in DOMAIN records : p \in Waived(records[k])
    <2>1. DOMAIN waived # {}
      OBVIOUS
    <2>2. \A p : p \in CommonTo(waived) <=> \A k \in DOMAIN waived : p \in waived[k]
      <3> HIDE DEF waived
      <3> QED BY <2>1, InEach
    <2> QED BY <2>2, Zenon
  <1> HIDE DEF any
  <1>4. s \in CommonFeeSignatures(records) <=>
          \/ s \in any /\ \A k \in DOMAIN records : s \in priced[k] \/ PairOf(s) \in waived[k]
          \/ \E p \in CommonTo(waived) : s = <<p, Waiver>> /\ \A q \in any : PairOf(q) # p
    BY <1>1, Zenon
  <1> QED BY <1>2, <1>3, <1>4, Zenon

\* Where the signature of many is not that of two of them alone, both waive.
LEMMA SameFeeOrWaived ==
    ASSUME NEW records, NEW pair, NEW i \in DOMAIN records, NEW j \in DOMAIN records,
           IsPair(pair, records, i, j),
           NEW s, CommonFeeSignatures(records) = {s}, NEW t, CommonFeeSignatures(pair) = {t},
           \A k \in {i, j} : /\ ExactlyOne(FeesAt(records[k], s))
                             /\ ExactlyOne(FeesAt(records[k], t))
    PROVE s = t \/ \A k \in {i, j} : \A f \in ToSet(records[k].fees) :
                      FeeMatchesSignature(f, s) \/ FeeMatchesSignature(f, t) => f.waived
  <1> DEFINE Common(x) ==
               \/ /\ \E k \in {i, j} : x \in Priced(records[k])
                  /\ \A k \in {i, j} : x \in Priced(records[k]) \/ PairOf(x) \in Waived(records[k])
               \/ \E p : /\ x = <<p, Waiver>>
                         /\ \A k \in {i, j} : p \in Waived(records[k])
                         /\ \A k \in {i, j} : \A q \in Priced(records[k]) : PairOf(q) # p
  <1>1. \A x : Common(x) => x = t
    <2> TAKE x
    <2>1. DOMAIN pair = {1, 2} /\ pair[1] = records[i] /\ pair[2] = records[j]
      BY DEF IsPair
    <2>2. DOMAIN pair # {}
      BY <2>1
    <2>3. Common(x) => x \in CommonFeeSignatures(pair)
      BY <2>1, <2>2, FeesInCommon, Zenon
    <2> QED BY <2>3
  <1>2. \/ /\ \E k \in DOMAIN records : s \in Priced(records[k])
           /\ \A k \in DOMAIN records : s \in Priced(records[k]) \/ PairOf(s) \in Waived(records[k])
        \/ \E p : /\ s = <<p, Waiver>>
                  /\ \A k \in DOMAIN records : p \in Waived(records[k])
                  /\ \A k \in DOMAIN records : \A q \in Priced(records[k]) : PairOf(q) # p
    BY FeesInCommon
  <1>3. CASE \E p : /\ s = <<p, Waiver>>
                    /\ \A k \in DOMAIN records : p \in Waived(records[k])
                    /\ \A k \in DOMAIN records : \A q \in Priced(records[k]) : PairOf(q) # p
    BY <1>1, <1>3, Zenon
  <1>4. CASE /\ \E k \in {i, j} : s \in Priced(records[k])
             /\ \A k \in DOMAIN records : s \in Priced(records[k]) \/ PairOf(s) \in Waived(records[k])
    BY <1>1, <1>4, Zenon
  <1>5. CASE /\ \A k \in {i, j} : s \notin Priced(records[k])
             /\ \A k \in DOMAIN records : s \in Priced(records[k]) \/ PairOf(s) \in Waived(records[k])
    <2>1. \A k \in {i, j} : PairOf(s) \in Waived(records[k])
      BY <1>5
    <2>2. \A k \in {i, j} : \A q \in Priced(records[k]) : PairOf(q) # PairOf(s)
      <3> SUFFICES ASSUME NEW k \in {i, j}, NEW q \in Priced(records[k]), PairOf(q) = PairOf(s)
                   PROVE FALSE
        BY Zenon
      <3>1. q = t
        BY <1>1, <2>1, Zenon
      <3>2. PICK a \in DOMAIN records[k].fees :
               ~records[k].fees[a].waived /\ FeeSignature(records[k].fees[a]) = q
        BY Zenon DEF Priced, ToSet
      <3>3. PICK b \in DOMAIN records[k].fees :
               records[k].fees[b].waived /\ FeePair(records[k].fees[b]) = PairOf(q)
        BY <2>1, Zenon DEF Waived, ToSet
      <3>4. a \in FeesAt(records[k], t) /\ b \in FeesAt(records[k], t)
        BY <3>1, <3>2, <3>3, Zenon DEF FeesAt, FeeMatchesSignature
      <3>5. PICK x : FeesAt(records[k], t) = {x}
        BY Zenon DEF ExactlyOne
      <3>6. a = b
        BY <3>4, <3>5
      <3> QED BY <3>2, <3>3, <3>6
    <2>3. t = <<PairOf(s), Waiver>>
      BY <1>1, <2>1, <2>2, Zenon
    <2>4. PairOf(t) = PairOf(s)
      BY <2>3 DEF PairOf
    <2>5. \A k \in {i, j} : t \notin Priced(records[k])
      BY <2>2, <2>4
    <2>6. ASSUME NEW k \in {i, j}, NEW f \in ToSet(records[k].fees), ~f.waived
          PROVE FeeSignature(f) \in Priced(records[k])
      BY <2>6, Zenon DEF Priced
    <2> QED BY <1>5, <2>5, <2>6, Zenon DEF FeeMatchesSignature
  <1> QED BY <1>2, <1>3, <1>4, <1>5, Zenon

-----------------------------------------------------------------------------
(* The report.                                                              *)

Items(records, dimension, asOf) ==
    CompareCampaigns(records, {dimension}, asOf).items[dimension]

\* Who is comparable went through all gates.
LEMMA PastTheGates ==
    ASSUME NEW records, NEW dimension, NEW asOf, NEW i \in DOMAIN records,
           Items(records, dimension, asOf)[i].comparable
    PROVE Items(records, dimension, asOf) = CompareDimension(records, dimension)
  <1> DEFINE reason == FirstGlobalIncompatibility(records, asOf)
  <1>1. Items(records, dimension, asOf) =
          IF reason # None THEN RejectAll(records, reason) ELSE CompareDimension(records, dimension)
    <2>1. dimension \in {dimension}
      OBVIOUS
    <2> HIDE DEF reason
    <2> QED BY <2>1, Zenon DEF Items, CompareCampaigns, reason
  <1>2. ~RejectAll(records, reason)[i].comparable
    BY DEF RejectAll, Rejected
  <1> HIDE DEF reason
  <1> QED BY <1>1, <1>2, Zenon

\* compare_campaigns ranks two values against each other only in one unit, or
\* when one is a fee that is not charged.
THEOREM RanksAreOnOneScale ==
    ASSUME NEW records, NEW dimension, IsComparison(records, dimension), NEW asOf
    PROVE RankedOnOneScale(records, dimension, asOf)
  <1> DEFINE items == Items(records, dimension, asOf)
  <1> SUFFICES ASSUME NEW i \in DOMAIN records, NEW j \in DOMAIN records,
                      items[i].comparable, items[j].comparable
               PROVE items[i].unit = items[j].unit \/ None \in {items[i].unit, items[j].unit}
    BY Zenon DEF RankedOnOneScale, Items
  <1>1. items = CompareDimension(records, dimension)
    BY PastTheGates
  <1> HIDE DEF items
  <1>2. IsList(records) /\ \A k \in DOMAIN records : IsRecord(records[k])
    BY DEF IsComparison
  <1>3. ASSUME NEW choices, DOMAIN choices = DOMAIN records, NEW higher, items = Rank(choices, higher)
        PROVE items[i].unit = choices[i].unit /\ items[j].unit = choices[j].unit
    BY <1>3, Zenon DEF Rank
  <1>4. CASE dimension = "rate"
    <2>1. items = CompareRates(records)
      BY <1>1, <1>4 DEF CompareDimension
    <2>2. PICK s : items = Rank([k \in DOMAIN records |-> ChosenRate(records[k], s)],
                                HigherRateIsBetter(s[1]))
      BY <2>1, RatesRanked, Zenon
    <2> QED BY <1>3, <2>2 DEF ChosenRate, Choice
  <1>5. CASE dimension = "term"
    <2>1. items = CompareTerms(records)
      BY <1>1, <1>5 DEF CompareDimension
    <2>2. items = Rank([k \in DOMAIN records |->
                          Choice(LongestTerm(records[k]), "months", FALSE)], TRUE)
      BY <2>1, TermsRanked, Zenon
    <2> DEFINE choices == [k \in DOMAIN records |-> Choice(LongestTerm(records[k]), "months", FALSE)]
    <2>3. \E higher : items = Rank(choices, higher)
      BY <2>2, Zenon
    <2>4. DOMAIN choices = DOMAIN records
      OBVIOUS
    <2>5. items[i].unit = choices[i].unit /\ items[j].unit = choices[j].unit
      <3> HIDE DEF choices
      <3> QED BY <1>3, <2>4, <2>3
    <2> QED BY <2>5 DEF Choice
  <1>6. CASE dimension = "fee"
    <2>1. items = CompareFees(records)
      BY <1>1, <1>6 DEF CompareDimension
    <2>2. \A k \in DOMAIN records : IsList(records[k].fees)
      BY <1>2 DEF IsRecord
    <2>3. PICK s : /\ \A k \in DOMAIN records : ExactlyOne(FeesAt(records[k], s))
                   /\ items = Rank([k \in DOMAIN records |-> ChosenFee(records[k], s)], FALSE)
      BY <1>2, <2>1, <2>2, FeesRanked, Zenon
    <2>4. \A k \in DOMAIN records : ChosenFee(records[k], s).unit \in {None, UnitOf(s[2])}
      <3> TAKE k \in DOMAIN records
      <3> DEFINE place == CHOOSE p \in FeesAt(records[k], s) : TRUE
      <3>1. place \in FeesAt(records[k], s)
        BY <2>3, OnePlace, Zenon
      <3>2. FeeMatchesSignature(records[k].fees[place], s)
        BY <3>1, Zenon DEF FeesAt
      <3> HIDE DEF place
      <3>3. FeeChoice(records[k].fees[place]).unit \in {None, UnitOf(s[2])}
        BY <3>2, FeesHaveUnits
      <3> QED BY <3>3 DEF ChosenFee, place
    <2> DEFINE choices == [k \in DOMAIN records |-> ChosenFee(records[k], s)]
    <2>5. \E higher : items = Rank(choices, higher)
      BY <2>3, Zenon
    <2>6. DOMAIN choices = DOMAIN records
      OBVIOUS
    <2>7. items[i].unit = choices[i].unit /\ items[j].unit = choices[j].unit
      <3> HIDE DEF choices
      <3> QED BY <1>3, <2>6, <2>5
    <2> QED BY <2>4, <2>7
  <1>7. CASE dimension = "reward"
    <2>1. items = CompareRewards(records)
      BY <1>1, <1>7 DEF CompareDimension
    <2>2. \A k \in DOMAIN records : /\ IsList(records[k].rewards)
                                    /\ \A p \in DOMAIN records[k].rewards :
                                          IsReward(records[k].rewards[p])
      BY <1>2 DEF IsRecord
    <2>3. PICK s : /\ \A k \in DOMAIN records : \A p \in DOMAIN records[k].rewards :
                         RewardIssue(records[k].rewards[p]) = None
                   /\ \A k \in DOMAIN records : ExactlyOne(RewardsAt(records[k], s))
                   /\ items = Rank([k \in DOMAIN records |-> ChosenReward(records[k], s)], TRUE)
      BY <1>2, <2>1, <2>2, RewardsRanked, Zenon
    <2>4. \A k \in DOMAIN records : ChosenReward(records[k], s).unit = UnitOf(s[3])
      <3> TAKE k \in DOMAIN records
      <3> DEFINE place == CHOOSE p \in RewardsAt(records[k], s) : TRUE
      <3>1. place \in RewardsAt(records[k], s)
        BY <2>3, OnePlace, Zenon
      <3>2. place \in DOMAIN records[k].rewards /\ RewardSignature(records[k].rewards[place]) = s
        BY <3>1, Zenon DEF RewardsAt
      <3> HIDE DEF place
      <3>3. RewardChoice(records[k].rewards[place]).unit = UnitOf(s[3])
        BY <2>2, <2>3, <3>2, RewardsHaveUnits
      <3> QED BY <3>3 DEF ChosenReward, place
    <2> DEFINE choices == [k \in DOMAIN records |-> ChosenReward(records[k], s)]
    <2>5. \E higher : items = Rank(choices, higher)
      BY <2>3, Zenon
    <2>6. DOMAIN choices = DOMAIN records
      OBVIOUS
    <2>7. items[i].unit = choices[i].unit /\ items[j].unit = choices[j].unit
      <3> HIDE DEF choices
      <3> QED BY <1>3, <2>6, <2>5
    <2> QED BY <2>4, <2>7
  <1>8. CASE dimension = "eligibility"
    <2>1. items = CompareEligibility(records)
      BY <1>1, <1>8 DEF CompareDimension
    <2>2. items[i].unit = None
      BY <2>1, Zenon DEF CompareEligibility, RejectOwnAndPeers, Rejected
    <2> QED BY <2>2
  <1> QED BY <1>4, <1>5, <1>6, <1>7, <1>8 DEF IsComparison, Dimensions

\* Two of several records, and what is compared of them.
Peers(records, i, j, pair) ==
    /\ IsList(records) /\ \A k \in DOMAIN records : IsRecord(records[k])
    /\ IsList(pair) /\ \A k \in DOMAIN pair : IsRecord(pair[k])
    /\ i \in DOMAIN records /\ j \in DOMAIN records /\ IsPair(pair, records, i, j)

SameOrder(all, i, j, two) == all[i].rank < all[j].rank <=> two[1].rank < two[2].rank

\* The signature of many rates is that of two of them, and so are the rates.
LEMMA RateOrder ==
    ASSUME NEW records, NEW i, NEW j, NEW pair, Peers(records, i, j, pair),
           CompareRates(records)[i].comparable, CompareRates(pair)[1].comparable
    PROVE SameOrder(CompareRates(records), i, j, CompareRates(pair))
  <1>1. DOMAIN pair = 1..2 /\ pair[1] = records[i] /\ pair[2] = records[j]
    BY DEF Peers, IsPair
  <1>2. 1 \in DOMAIN pair /\ 2 \in DOMAIN pair
    BY <1>1
  <1>3. i \in DOMAIN records /\ j \in DOMAIN records
    BY DEF Peers
  <1>4. PICK s : /\ CommonTo([k \in DOMAIN records |-> RateSignatures(records[k])]) = {s}
                 /\ \A k \in DOMAIN records : ExactlyOne(RatesAt(records[k], s))
                 /\ CompareRates(records) = Rank([k \in DOMAIN records |-> ChosenRate(records[k], s)],
                                                 HigherRateIsBetter(s[1]))
    BY <1>3, RatesRanked, Zenon
  <1>5. PICK t : /\ CommonTo([k \in DOMAIN pair |-> RateSignatures(pair[k])]) = {t}
                 /\ \A k \in DOMAIN pair : ExactlyOne(RatesAt(pair[k], t))
                 /\ CompareRates(pair) = Rank([k \in DOMAIN pair |-> ChosenRate(pair[k], t)],
                                              HigherRateIsBetter(t[1]))
    BY <1>2, RatesRanked, Zenon
  <1>6. s = t
    <2> DEFINE all == [k \in DOMAIN records |-> RateSignatures(records[k])]
               two == [k \in DOMAIN pair |-> RateSignatures(pair[k])]
    <2>1. \A k \in DOMAIN all : s \in all[k]
      BY <1>3, <1>4, InEach
    <2>2. s \in RateSignatures(records[i]) /\ s \in RateSignatures(records[j])
      BY <1>3, <2>1, Zenon
    <2>3. DOMAIN two # {} /\ \A k \in DOMAIN two : s \in two[k]
      BY <1>1, <2>2
    <2>4. s \in CommonTo(two)
      <3> HIDE DEF two
      <3> QED BY <2>3, InEach
    <2> QED BY <1>5, <2>4
  <1> DEFINE all    == [k \in DOMAIN records |-> ChosenRate(records[k], s)]
             two    == [k \in DOMAIN pair |-> ChosenRate(pair[k], s)]
             higher == HigherRateIsBetter(s[1])
  <1>7. /\ IsList(all) /\ \A k \in DOMAIN all : RankKey(all[k]) \in Int
        /\ IsList(two) /\ \A k \in DOMAIN two : RankKey(two[k]) \in Int
    <2>1. \A k \in DOMAIN records : RankKey(ChosenRate(records[k], s)) \in Int
      BY <1>4, RatesHaveKeys, Zenon DEF Peers
    <2>2. \A k \in DOMAIN pair : RankKey(ChosenRate(pair[k], s)) \in Int
      BY <1>5, <1>6, RatesHaveKeys, Zenon DEF Peers
    <2> QED BY <2>1, <2>2, Zenon DEF Peers, IsList
  <1>8. /\ DOMAIN two = 1..2 /\ i \in DOMAIN all /\ j \in DOMAIN all
        /\ RankKey(two[1]) = RankKey(all[i]) /\ RankKey(two[2]) = RankKey(all[j])
    BY <1>1, <1>2, <1>3, Zenon
  <1>9. higher \in BOOLEAN
    BY DEF HigherRateIsBetter
  <1> HIDE DEF all, two, higher
  <1>10. SameOrder(Rank(all, higher), i, j, Rank(two, higher))
    BY <1>7, <1>8, <1>9, SameKeysSameOrder DEF SameOrder
  <1> QED BY <1>4, <1>5, <1>6, <1>10, Zenon DEF all, two, higher

\* The same for rewards.
LEMMA RewardOrder ==
    ASSUME NEW records, NEW i, NEW j, NEW pair, Peers(records, i, j, pair),
           CompareRewards(records)[i].comparable, CompareRewards(pair)[1].comparable
    PROVE SameOrder(CompareRewards(records), i, j, CompareRewards(pair))
  <1>1. DOMAIN pair = 1..2 /\ pair[1] = records[i] /\ pair[2] = records[j]
    BY DEF Peers, IsPair
  <1>2. 1 \in DOMAIN pair /\ 2 \in DOMAIN pair
    BY <1>1
  <1>3. i \in DOMAIN records /\ j \in DOMAIN records
    BY DEF Peers
  <1> DEFINE Complete(r) == \A p \in DOMAIN r.rewards : RewardIssue(r.rewards[p]) = None
  <1>4. PICK s : /\ \A k \in DOMAIN records : Complete(records[k])
                 /\ CommonTo([k \in DOMAIN records |-> RewardSignatures(records[k])]) = {s}
                 /\ \A k \in DOMAIN records : ExactlyOne(RewardsAt(records[k], s))
                 /\ CompareRewards(records) =
                      Rank([k \in DOMAIN records |-> ChosenReward(records[k], s)], TRUE)
    BY <1>3, RewardsRanked, Zenon DEF Peers, IsRecord
  <1>5. PICK t : /\ \A k \in DOMAIN pair : Complete(pair[k])
                 /\ CommonTo([k \in DOMAIN pair |-> RewardSignatures(pair[k])]) = {t}
                 /\ \A k \in DOMAIN pair : ExactlyOne(RewardsAt(pair[k], t))
                 /\ CompareRewards(pair) =
                      Rank([k \in DOMAIN pair |-> ChosenReward(pair[k], t)], TRUE)
    BY <1>2, RewardsRanked, Zenon DEF Peers, IsRecord
  <1>6. s = t
    <2> DEFINE all == [k \in DOMAIN records |-> RewardSignatures(records[k])]
               two == [k \in DOMAIN pair |-> RewardSignatures(pair[k])]
    <2>1. \A k \in DOMAIN all : s \in all[k]
      BY <1>3, <1>4, InEach
    <2>2. s \in RewardSignatures(records[i]) /\ s \in RewardSignatures(records[j])
      BY <1>3, <2>1, Zenon
    <2>3. DOMAIN two # {} /\ \A k \in DOMAIN two : s \in two[k]
      BY <1>1, <2>2
    <2>4. s \in CommonTo(two)
      <3> HIDE DEF two
      <3> QED BY <2>3, InEach
    <2> QED BY <1>5, <2>4
  <1> DEFINE all    == [k \in DOMAIN records |-> ChosenReward(records[k], s)]
             two    == [k \in DOMAIN pair |-> ChosenReward(pair[k], s)]
             higher == TRUE
  <1>7. /\ IsList(all) /\ \A k \in DOMAIN all : RankKey(all[k]) \in Int
        /\ IsList(two) /\ \A k \in DOMAIN two : RankKey(two[k]) \in Int
    <2>1. \A k \in DOMAIN records : RankKey(ChosenReward(records[k], s)) \in Int
      BY <1>4, ChosenRewardsHaveKeys, Zenon DEF Peers
    <2>2. \A k \in DOMAIN pair : RankKey(ChosenReward(pair[k], s)) \in Int
      BY <1>5, <1>6, ChosenRewardsHaveKeys, Zenon DEF Peers
    <2> QED BY <2>1, <2>2, Zenon DEF Peers, IsList
  <1>8. /\ DOMAIN two = 1..2 /\ i \in DOMAIN all /\ j \in DOMAIN all
        /\ RankKey(two[1]) = RankKey(all[i]) /\ RankKey(two[2]) = RankKey(all[j])
    BY <1>1, <1>2, <1>3, Zenon
  <1>9. higher \in BOOLEAN
    OBVIOUS
  <1> HIDE DEF all, two, higher
  <1>10. SameOrder(Rank(all, higher), i, j, Rank(two, higher))
    BY <1>7, <1>8, <1>9, SameKeysSameOrder DEF SameOrder
  <1> QED BY <1>4, <1>5, <1>6, <1>10, Zenon DEF all, two, higher

\* The longest term of a record does not depend on its peers.
LEMMA TermOrder ==
    ASSUME NEW records, NEW i, NEW j, NEW pair, Peers(records, i, j, pair),
           CompareTerms(records)[i].comparable, CompareTerms(pair)[1].comparable
    PROVE SameOrder(CompareTerms(records), i, j, CompareTerms(pair))
  <1>1. DOMAIN pair = 1..2 /\ pair[1] = records[i] /\ pair[2] = records[j]
    BY DEF Peers, IsPair
  <1>2. 1 \in DOMAIN pair /\ 2 \in DOMAIN pair
    BY <1>1
  <1>3. i \in DOMAIN records /\ j \in DOMAIN records
    BY DEF Peers
  <1> DEFINE Offer(r) == Choice(LongestTerm(r), "months", FALSE)
  <1>4. /\ \A k \in DOMAIN records : records[k].terms # <<>>
        /\ CompareTerms(records) = Rank([k \in DOMAIN records |-> Offer(records[k])], TRUE)
    BY <1>3, TermsRanked, Zenon
  <1>5. /\ \A k \in DOMAIN pair : pair[k].terms # <<>>
        /\ CompareTerms(pair) = Rank([k \in DOMAIN pair |-> Offer(pair[k])], TRUE)
    BY <1>2, TermsRanked, Zenon
  <1> DEFINE all    == [k \in DOMAIN records |-> Offer(records[k])]
             two    == [k \in DOMAIN pair |-> Offer(pair[k])]
             higher == TRUE
  <1>6. /\ IsList(all) /\ \A k \in DOMAIN all : RankKey(all[k]) \in Int
        /\ IsList(two) /\ \A k \in DOMAIN two : RankKey(two[k]) \in Int
    <2>1. \A k \in DOMAIN records : RankKey(Offer(records[k])) \in Int
      BY <1>4, TermsHaveKeys, Zenon DEF Peers
    <2>2. \A k \in DOMAIN pair : RankKey(Offer(pair[k])) \in Int
      BY <1>5, TermsHaveKeys, Zenon DEF Peers
    <2> HIDE DEF Offer
    <2> QED BY <2>1, <2>2, Zenon DEF Peers, IsList
  <1>7. /\ DOMAIN two = 1..2 /\ i \in DOMAIN all /\ j \in DOMAIN all
        /\ RankKey(two[1]) = RankKey(all[i]) /\ RankKey(two[2]) = RankKey(all[j])
    BY <1>1, <1>2, <1>3, Zenon
  <1>8. higher \in BOOLEAN
    OBVIOUS
  <1> HIDE DEF all, two, higher
  <1>9. SameOrder(Rank(all, higher), i, j, Rank(two, higher))
    BY <1>6, <1>7, <1>8, SameKeysSameOrder DEF SameOrder
  <1> QED BY <1>4, <1>5, <1>9, Zenon DEF all, two, higher

\* The chosen fee of a record is the same, or it is not charged, under both
\* signatures.
LEMMA FeeOrder ==
    ASSUME NEW records, NEW i, NEW j, NEW pair, Peers(records, i, j, pair),
           CompareFees(records)[i].comparable, CompareFees(pair)[1].comparable
    PROVE SameOrder(CompareFees(records), i, j, CompareFees(pair))
  <1>1. DOMAIN pair = 1..2 /\ pair[1] = records[i] /\ pair[2] = records[j]
    BY DEF Peers, IsPair
  <1>2. 1 \in DOMAIN pair /\ 2 \in DOMAIN pair
    BY <1>1
  <1>3. i \in DOMAIN records /\ j \in DOMAIN records
    BY DEF Peers
  <1> DEFINE Complete(r) == \A p \in DOMAIN r.fees : FeeIssue(r.fees[p]) = None
  <1>4. PICK s : /\ \A k \in DOMAIN records : Complete(records[k])
                 /\ CommonFeeSignatures(records) = {s}
                 /\ \A k \in DOMAIN records : ExactlyOne(FeesAt(records[k], s))
                 /\ CompareFees(records) =
                      Rank([k \in DOMAIN records |-> ChosenFee(records[k], s)], FALSE)
    BY <1>3, FeesRanked, Zenon DEF Peers, IsRecord
  <1>5. PICK t : /\ \A k \in DOMAIN pair : Complete(pair[k])
                 /\ CommonFeeSignatures(pair) = {t}
                 /\ \A k \in DOMAIN pair : ExactlyOne(FeesAt(pair[k], t))
                 /\ CompareFees(pair) = Rank([k \in DOMAIN pair |-> ChosenFee(pair[k], t)], FALSE)
    BY <1>2, FeesRanked, Zenon DEF Peers, IsRecord
  <1>6. \A k \in {i, j} : ExactlyOne(FeesAt(records[k], s)) /\ ExactlyOne(FeesAt(records[k], t))
    BY <1>1, <1>2, <1>3, <1>4, <1>5, Zenon
  <1>7. \A k \in {i, j} : RankKey(ChosenFee(records[k], s)) = RankKey(ChosenFee(records[k], t))
    <2>1. CASE s = t
      BY <2>1
    <2>2. CASE \A k \in {i, j} : \A f \in ToSet(records[k].fees) :
                  FeeMatchesSignature(f, s) \/ FeeMatchesSignature(f, t) => f.waived
      <3> SUFFICES ASSUME NEW k \in {i, j}, NEW u \in {s, t}
                   PROVE RankKey(ChosenFee(records[k], u)) = -1
        BY Zenon
      <3> DEFINE place == CHOOSE p \in FeesAt(records[k], u) : TRUE
      <3>1. place \in FeesAt(records[k], u)
        BY <1>6, OnePlace, Zenon
      <3>2. records[k].fees[place].waived
        BY <2>2, <3>1, Zenon DEF FeesAt, ToSet
      <3> HIDE DEF place
      <3> QED BY <3>2 DEF ChosenFee, FeeChoice, Choice, RankKey, place
    <2>3. s = t \/ \A k \in {i, j} : \A f \in ToSet(records[k].fees) :
                      FeeMatchesSignature(f, s) \/ FeeMatchesSignature(f, t) => f.waived
      <3>1. IsPair(pair, records, i, j)
        BY DEF Peers
      <3> QED BY <1>3, <1>4, <1>5, <1>6, <3>1, SameFeeOrWaived
    <2> QED BY <2>1, <2>2, <2>3
  <1> DEFINE all    == [k \in DOMAIN records |-> ChosenFee(records[k], s)]
             two    == [k \in DOMAIN pair |-> ChosenFee(pair[k], t)]
             higher == FALSE
  <1>8. /\ IsList(all) /\ \A k \in DOMAIN all : RankKey(all[k]) \in Int
        /\ IsList(two) /\ \A k \in DOMAIN two : RankKey(two[k]) \in Int
    <2>1. \A k \in DOMAIN records : RankKey(ChosenFee(records[k], s)) \in Int
      BY <1>4, ChosenFeesHaveKeys, Zenon DEF Peers
    <2>2. \A k \in DOMAIN pair : RankKey(ChosenFee(pair[k], t)) \in Int
      BY <1>5, ChosenFeesHaveKeys, Zenon DEF Peers
    <2> QED BY <2>1, <2>2, Zenon DEF Peers, IsList
  <1>9. /\ DOMAIN two = 1..2 /\ i \in DOMAIN all /\ j \in DOMAIN all
        /\ RankKey(two[1]) = RankKey(all[i]) /\ RankKey(two[2]) = RankKey(all[j])
    BY <1>1, <1>2, <1>3, <1>7, Zenon
  <1>10. higher \in BOOLEAN
    OBVIOUS
  <1> HIDE DEF all, two, higher
  <1>11. SameOrder(Rank(all, higher), i, j, Rank(two, higher))
    BY <1>8, <1>9, <1>10, SameKeysSameOrder DEF SameOrder
  <1> QED BY <1>4, <1>5, <1>11, Zenon DEF all, two, higher

\* Where two records can be compared by themselves, compare_campaigns puts them
\* in the order they have among their peers.
THEOREM PeersNeverReverse ==
    ASSUME NEW records, NEW dimension, IsComparison(records, dimension), NEW asOf
    PROVE PeersDoNotReverse(records, dimension, asOf)
  <1> DEFINE Ranked(rs) == \A k \in DOMAIN rs : /\ Items(rs, dimension, asOf)[k].comparable
                                                /\ Items(rs, dimension, asOf)[k].rank # Absent
             Ahead(rs, x, y) == Items(rs, dimension, asOf)[x].rank < Items(rs, dimension, asOf)[y].rank
  <1> SUFFICES ASSUME NEW i \in DOMAIN records, NEW j \in DOMAIN records, NEW pair,
                      pair = <<records[i], records[j]>>, Ranked(records), Ranked(pair)
               PROVE Ahead(records, i, j) <=> Ahead(pair, 1, 2)
    BY Zenon DEF PeersDoNotReverse, Items
  <1>1. IsPair(pair, records, i, j)
    BY DEF IsPair
  <1>2. i \in DOMAIN records /\ 1 \in DOMAIN pair /\ 2 \in DOMAIN pair
    OBVIOUS
  <1> DEFINE all == CompareDimension(records, dimension)
             two == CompareDimension(pair, dimension)
  <1>3. Items(records, dimension, asOf) = all /\ Items(pair, dimension, asOf) = two
    BY <1>2, PastTheGates, Zenon
  <1>4. all[i].comparable /\ two[1].comparable /\ all[i].rank # Absent
    BY <1>2, <1>3, Zenon
  <1>5. IsList(records) /\ \A k \in DOMAIN records : IsRecord(records[k])
    BY DEF IsComparison
  <1>6. IsList(pair) /\ \A k \in DOMAIN pair : IsRecord(pair[k])
    <2>1. IsList(pair)
      BY <1>1 DEF IsPair, IsList
    <2>2. \A k \in DOMAIN pair : pair[k] = records[i] \/ pair[k] = records[j]
      BY <1>1 DEF IsPair
    <2> QED BY <1>5, <2>1, <2>2, Zenon
  <1>7. SUFFICES SameOrder(all, i, j, two)
    BY <1>3, Zenon DEF SameOrder
  <1> HIDE DEF all, two, Ranked, Ahead
  <1>8. Peers(records, i, j, pair)
    BY <1>1, <1>5, <1>6, Zenon DEF Peers
  <1>9. CASE dimension = "rate"
    <2>1. all = CompareRates(records) /\ two = CompareRates(pair)
      BY <1>9 DEF all, two, CompareDimension
    <2> QED BY <1>4, <1>8, <2>1, RateOrder, Zenon
  <1>10. CASE dimension = "term"
    <2>1. all = CompareTerms(records) /\ two = CompareTerms(pair)
      BY <1>10 DEF all, two, CompareDimension
    <2> QED BY <1>4, <1>8, <2>1, TermOrder, Zenon
  <1>11. CASE dimension = "fee"
    <2>1. all = CompareFees(records) /\ two = CompareFees(pair)
      BY <1>11 DEF all, two, CompareDimension
    <2> QED BY <1>4, <1>8, <2>1, FeeOrder, Zenon
  <1>12. CASE dimension = "reward"
    <2>1. all = CompareRewards(records) /\ two = CompareRewards(pair)
      BY <1>12 DEF all, two, CompareDimension
    <2> QED BY <1>4, <1>8, <2>1, RewardOrder, Zenon
  <1>13. CASE dimension = "eligibility"
    <2>1. all = CompareEligibility(records)
      BY <1>13 DEF all, CompareDimension
    <2>2. all[i].rank = Absent
      BY <2>1, Zenon DEF CompareEligibility, RejectOwnAndPeers, Rejected
    <2> QED BY <1>4, <2>2
  <1> QED BY <1>9, <1>10, <1>11, <1>12, <1>13 DEF IsComparison, Dimensions

-----------------------------------------------------------------------------
(* The banks and the pages of the registry files.                           *)

\* The first of some places is one of them, and is not 0.
LEMMA PlacesAreFound ==
    ASSUME NEW n \in Nat, NEW fitting \in SUBSET (1..n), fitting # {}
    PROVE Min(fitting) \in fitting /\ Min(fitting) # 0
  <1>1. fitting \in SUBSET Nat
    OBVIOUS
  <1>2. Min(fitting) \in fitting
    BY <1>1, Least
  <1> QED BY <1>2

\* BankRegistry.bank: the bank that is found has the name that was asked.
LEMMA FoundByName ==
    ASSUME NEW Bank, NEW banks, banks.banks \in Seq(Bank), NEW id,
           BankWithId(banks, id) # <<>>
    PROVE \E b \in DOMAIN banks.banks :
             banks.banks[b].id = id /\ BankWithId(banks, id)[1] = banks.banks[b]
  <1> DEFINE fitting == {i \in 1..Len(banks.banks) : banks.banks[i].id = id}
             place   == IF fitting # {} THEN Min(fitting) ELSE 0
  <1>1. BankWithId(banks, id) = BankAt(banks, place)
    BY DEF BankWithId, SelectInSeq
  <1>2. Len(banks.banks) \in Nat /\ DOMAIN banks.banks = 1..Len(banks.banks)
    OBVIOUS
  <1>3. fitting \in SUBSET (1..Len(banks.banks))
    OBVIOUS
  <1>4. place = 0 \/ place \in fitting
    <2> HIDE DEF fitting
    <2> QED BY <1>2, <1>3, PlacesAreFound
  <1> HIDE DEF place
  <1>5. place # 0
    BY <1>1 DEF BankAt
  <1>6. place \in DOMAIN banks.banks /\ banks.banks[place].id = id
    BY <1>2, <1>4, <1>5
  <1> QED BY <1>1, <1>5, <1>6 DEF BankAt

\* BankRegistry.bank_for_host: a host that some bank permits has a bank, and
\* that one permits it.
LEMMA FoundByHost ==
    ASSUME NEW Bank, NEW banks, banks.banks \in Seq(Bank), NEW host,
           NEW some \in DOMAIN banks.banks, PermitsHost(banks.banks[some], host)
    PROVE /\ BankForHost(banks, host) # <<>>
          /\ \E b \in DOMAIN banks.banks :
                PermitsHost(banks.banks[b], host) /\ BankForHost(banks, host)[1] = banks.banks[b]
  <1> DEFINE fitting == {i \in 1..Len(banks.banks) : PermitsHost(banks.banks[i], host)}
             place   == IF fitting # {} THEN Min(fitting) ELSE 0
  <1>1. BankForHost(banks, host) = BankAt(banks, place)
    BY DEF BankForHost, SelectInSeq
  <1>2. Len(banks.banks) \in Nat /\ DOMAIN banks.banks = 1..Len(banks.banks)
    OBVIOUS
  <1>3. fitting \in SUBSET (1..Len(banks.banks)) /\ some \in fitting
    BY <1>2
  <1>4. place \in fitting /\ place # 0
    <2> HIDE DEF fitting
    <2>1. fitting # {}
      BY <1>3
    <2> QED BY <2>1, <1>2, <1>3, PlacesAreFound
  <1> HIDE DEF place
  <1>5. place \in DOMAIN banks.banks /\ PermitsHost(banks.banks[place], host)
    BY <1>2, <1>4
  <1> QED BY <1>1, <1>4, <1>5 DEF BankAt

\* A host has one bank.
LEMMA OneBankOfAHost ==
    ASSUME NEW banks, HostsAreExclusive(banks), NEW a \in DOMAIN banks, NEW b \in DOMAIN banks,
           NEW host, PermitsHost(banks[a], host), PermitsHost(banks[b], host)
    PROVE a = b
  <1>1. PICK k \in DOMAIN banks[a].hosts : banks[a].hosts[k] = host
    BY DEF PermitsHost, ToSet
  <1>2. PICK l \in DOMAIN banks[b].hosts : banks[b].hosts[l] = host
    BY DEF PermitsHost, ToSet
  <1> QED BY <1>1, <1>2 DEF HostsAreExclusive

\* Some group is the n-th, for every n up to their number.
LEMMA EveryGroupBegins ==
    ASSUME NEW length \in Nat, NEW starts \in SUBSET (1..length),
           NEW n \in 1..Cardinality(starts)
    PROVE \E i \in starts : Cardinality(starts \cap 1..i) = n
  <1> DEFINE Upto(i) == starts \cap 1..i
             reached == {i \in 0..length : Cardinality(Upto(i)) >= n}
  <1>1. \A i \in 0..length : IsFiniteSet(Upto(i)) /\ Cardinality(Upto(i)) \in Nat
    <2> TAKE i \in 0..length
    <2>1. IsFiniteSet(1..i)
      BY FS_Interval
    <2>2. Upto(i) \in SUBSET (1..i)
      OBVIOUS
    <2>3. IsFiniteSet(Upto(i))
      <3> HIDE DEF Upto
      <3> QED BY <2>1, <2>2, FS_Subset
    <2> HIDE DEF Upto
    <2> QED BY <2>3, FS_CardinalityType
  <1>2. Upto(length) = starts /\ Upto(0) = {}
    <2>1. starts \cap (1..length) = starts
      OBVIOUS
    <2>2. 1..0 = {}
      OBVIOUS
    <2> QED BY <2>1, <2>2
  <1>3. \A i \in 1..length :
           Upto(i) = IF i \in starts THEN Upto(i - 1) \cup {i} ELSE Upto(i - 1)
    OBVIOUS
  <1>4. \A i \in 1..length : i \notin Upto(i - 1)
    OBVIOUS
  <1> HIDE DEF Upto
  <1>5. Cardinality(starts) \in Nat /\ n \in Nat /\ n >= 1 /\ n <= Cardinality(starts)
    BY <1>1, <1>2
  <1>6. reached \in SUBSET Nat /\ length \in reached
    BY <1>2, <1>5
  <1>7. Min(reached) \in reached /\ \A m \in reached : Min(reached) <= m
    <2> HIDE DEF reached
    <2> QED BY <1>6, Least
  <1>8. PICK i \in 0..length : Cardinality(Upto(i)) >= n /\ \A m \in reached : i <= m
    BY <1>7
  <1>9. i \in 1..length
    <2>1. i # 0
      BY <1>2, <1>5, <1>8, FS_EmptySet
    <2> QED BY <2>1
  <1>10. i - 1 \in 0..length /\ ~(Cardinality(Upto(i - 1)) >= n)
    BY <1>8, <1>9
  <1>11. i \in starts
    BY <1>3, <1>8, <1>9, <1>10
  <1>12. Cardinality(Upto(i)) = Cardinality(Upto(i - 1)) + 1
    <2>1. Upto(i) = Upto(i - 1) \cup {i} /\ i \notin Upto(i - 1)
      BY <1>3, <1>4, <1>9, <1>11
    <2> QED BY <2>1, <1>1, <1>10, FS_AddElement
  <1>13. Cardinality(Upto(i)) = n
    BY <1>1, <1>5, <1>8, <1>10, <1>12
  <1> QED BY <1>11, <1>13 DEF Upto

\* Every bank has rows.
LEMMA EveryBankIsListed ==
    ASSUME NEW Bank, NEW banks \in Seq(Bank), NEW Source, NEW sources \in Seq(Source),
           GroupedAs(sources, banks), NEW b \in DOMAIN banks
    PROVE RowsOf(sources, banks[b].id) # {}
  <1> DEFINE starts == GroupStarts(sources)
  <1>1. Len(sources) \in Nat /\ DOMAIN sources = 1..Len(sources)
    OBVIOUS
  <1>2. starts \in SUBSET (1..Len(sources))
    BY <1>1 DEF GroupStarts
  <1>3. Cardinality(starts) = Len(banks) /\ b \in 1..Cardinality(starts)
    BY DEF GroupedAs
  <1>4. \A i \in starts : sources[i].bank = banks[Cardinality(starts \cap 1..i)].id
    BY DEF GroupedAs
  <1> HIDE DEF starts
  <1>5. PICK i \in starts : Cardinality(starts \cap 1..i) = b
    BY <1>1, <1>2, <1>3, EveryGroupBegins
  <1>6. i \in DOMAIN sources /\ sources[i].bank = banks[b].id
    BY <1>1, <1>2, <1>4, <1>5
  <1> QED BY <1>6 DEF RowsOf

\* The rows of a bank that is accepted say one thing about it.
LEMMA OneStatusOfABank ==
    ASSUME NEW sources, NEW rows, IsFiniteSet(rows), rows # {},
           ValidBankSourceGroup(sources, rows)
    PROVE Cardinality({sources[i].status : i \in rows}) = 1
  <1>1. \E x : {sources[i].status : i \in rows} = {x}
    <2>1. CASE Cardinality(rows) = 1
      <3>1. PICK i : rows = {i}
        BY <2>1, FS_Singleton
      <3>2. {sources[j].status : j \in rows} = {sources[i].status}
        BY <3>1
      <3> QED BY <3>2
    <2>2. CASE \A i \in rows : sources[i].status = "verified"
      <3>1. {sources[j].status : j \in rows} = {"verified"}
        BY <2>2
      <3> QED BY <3>1
    <2> QED BY <2>1, <2>2 DEF ValidBankSourceGroup
  <1> QED BY <1>1, FS_Singleton

\* The bank a source is listed under permits the host of its every page.
LEMMA PagesArePermitted ==
    ASSUME NEW Bank, NEW banks, banks.banks \in Seq(Bank), NEW source, NEW observed,
           ValidSource(source, banks, observed), NEW page \in PagesOf(source)
    PROVE \E b \in DOMAIN banks.banks :
             banks.banks[b].id = source.bank /\ PermitsHost(banks.banks[b], page.host)
  <1> DEFINE found == BankWithId(banks, source.bank)
  <1>1. found # <<>>
    BY DEF ValidSource
  <1>2. PICK b \in DOMAIN banks.banks :
           banks.banks[b].id = source.bank /\ found[1] = banks.banks[b]
    BY <1>1, FoundByName
  <1>3. source.status = "verified"
    BY DEF PagesOf
  <1>4. OfficialUrl(page, found[1])
    <2>1. CASE source.mode = "static_pages"
      <3>1. ValidStaticPages(source.pages, found[1])
        BY <2>1, <1>3 DEF ValidSource
      <3>2. PICK i \in DOMAIN source.pages : page = source.pages[i].url
        BY <2>1, <1>3 DEF PagesOf
      <3> QED BY <3>1, <3>2 DEF ValidStaticPages
    <2>2. CASE source.mode # "static_pages"
      <3>1. ValidIndex(source, found[1])
        BY <2>2, <1>3 DEF ValidSource
      <3>2. page = source.index
        BY <2>2, <1>3 DEF PagesOf
      <3> QED BY <3>1, <3>2 DEF ValidIndex
    <2> QED BY <2>1, <2>2
  <1> QED BY <1>2, <1>4 DEF OfficialUrl

\* Whatever two registry files hold, when their loaders accept both, every
\* monitored page is read for one bank, the one of its host, and every bank is
\* either read or declared unavailable (_parse_registry, _parse_campaign_registry).
THEOREM PagesBelongToOneBank ==
    ASSUME NEW Bank, NEW banks, banks.banks \in Seq(Bank),
           NEW Source, NEW file, file.sources \in Seq(Source), NEW bankCount
    PROVE EveryPageHasItsBank(banks, file, bankCount)
  <1> SUFFICES ASSUME ValidBankRegistry(banks, bankCount), ValidCampaignRegistry(file, banks)
               PROVE /\ \A i \in DOMAIN file.sources : \A page \in PagesOf(file.sources[i]) :
                          /\ BankForHost(banks, page.host) # <<>>
                          /\ BankForHost(banks, page.host)[1].id = file.sources[i].bank
                     /\ \A i, j \in DOMAIN file.sources :
                          PagesOf(file.sources[i]) \cap PagesOf(file.sources[j]) # {} =>
                              file.sources[i].bank = file.sources[j].bank
                     /\ \A b \in DOMAIN banks.banks :
                          Cardinality({file.sources[i].status :
                                          i \in RowsOf(file.sources, banks.banks[b].id)}) = 1
    BY DEF EveryPageHasItsBank
  <1>1. HostsAreExclusive(banks.banks)
    BY DEF ValidBankRegistry
  <1>2. \A i \in DOMAIN file.sources : ValidSource(file.sources[i], banks, file.observed)
    BY DEF ValidCampaignRegistry
  <1>3. \A i \in DOMAIN file.sources : \A page \in PagesOf(file.sources[i]) :
           /\ BankForHost(banks, page.host) # <<>>
           /\ BankForHost(banks, page.host)[1].id = file.sources[i].bank
    <2> TAKE i \in DOMAIN file.sources
    <2> TAKE page \in PagesOf(file.sources[i])
    <2>1. PICK b \in DOMAIN banks.banks :
             /\ banks.banks[b].id = file.sources[i].bank
             /\ PermitsHost(banks.banks[b], page.host)
      BY <1>2, PagesArePermitted
    <2> DEFINE host == page.host
    <2>2. /\ BankForHost(banks, host) # <<>>
          /\ \E c \in DOMAIN banks.banks :
                PermitsHost(banks.banks[c], host) /\ BankForHost(banks, host)[1] = banks.banks[c]
      <3>1. PermitsHost(banks.banks[b], host)
        BY <2>1
      <3> HIDE DEF host
      <3> QED BY <3>1, FoundByHost, ZenonT(60)
    <2>3. PICK c \in DOMAIN banks.banks :
             /\ PermitsHost(banks.banks[c], page.host)
             /\ BankForHost(banks, page.host)[1] = banks.banks[c]
      BY <2>2
    <2>4. b = c
      BY <1>1, <2>1, <2>3, OneBankOfAHost
    <2> QED BY <2>1, <2>2, <2>3, <2>4
  <1>4. \A i, j \in DOMAIN file.sources :
           PagesOf(file.sources[i]) \cap PagesOf(file.sources[j]) # {} =>
               file.sources[i].bank = file.sources[j].bank
    BY <1>3
  <1>5. \A b \in DOMAIN banks.banks :
           Cardinality({file.sources[i].status :
                           i \in RowsOf(file.sources, banks.banks[b].id)}) = 1
    <2> TAKE b \in DOMAIN banks.banks
    <2> DEFINE rows == RowsOf(file.sources, banks.banks[b].id)
    <2>1. GroupedAs(file.sources, banks.banks)
      BY DEF ValidCampaignRegistry
    <2>2. rows # {}
      BY <2>1, EveryBankIsListed
    <2>3. IsFiniteSet(rows)
      <3>1. Len(file.sources) \in Nat /\ DOMAIN file.sources = 1..Len(file.sources)
        OBVIOUS
      <3>2. rows \in SUBSET (1..Len(file.sources))
        BY <3>1 DEF RowsOf
      <3>3. IsFiniteSet(1..Len(file.sources))
        BY <3>1, FS_Interval
      <3> HIDE DEF rows
      <3> QED BY <3>2, <3>3, FS_Subset
    <2>4. PICK i \in DOMAIN file.sources : file.sources[i].bank = banks.banks[b].id
      BY <2>2 DEF RowsOf
    <2>5. ValidBankSourceGroup(file.sources, rows)
      BY <2>4 DEF ValidCampaignRegistry
    <2> HIDE DEF rows
    <2>6. Cardinality({file.sources[k].status : k \in rows}) = 1
      BY <2>2, <2>3, <2>5, OneStatusOfABank
    <2> QED BY <2>6 DEF rows
  <1> QED BY <1>3, <1>4, <1>5

-----------------------------------------------------------------------------
(* The groups of a robots.txt.                                              *)

\* The lines of a file: an agent is named on a line of its own field only.
RobotsLine(Words) == [field : Words, agent : Seq(Words), pattern : Seq(Words), delay : Int]

IsFileOf(Words, lines) ==
    /\ lines \in Seq(RobotsLine(Words))
    /\ \A i \in 1..Len(lines) :
          lines[i].agent = <<>> \/ (IsAgentLine(lines[i]) /\ Len(lines[i].agent) = 1)

IsRobotsFile(lines) == \E Words : IsFileOf(Words, lines)

\* For the code a Crawl-delay ends a list of agents as a rule does.
IsDirective(line) == line.field \in {"allow", "disallow", "crawl-delay"}

DirectivesBefore(lines, rule) ==
    {i \in 1..(LastAgentLine(lines, rule) - 1) :
        IsDirective(lines[i]) /\ \E j \in 1..(i - 1) : lines[j].agent # <<>>}

LastDirectiveBefore(lines, rule) ==
    IF DirectivesBefore(lines, rule) = {} THEN 0 ELSE Max(DirectivesBefore(lines, rule))

ListedOver(lines, rule) ==
    UNION {ToSet(lines[i].agent) :
             i \in {j \in AgentLinesAbove(lines, rule) : j > LastDirectiveBefore(lines, rule)}}

RobotsRule(Words) == [allow : BOOLEAN, pattern : Seq(Words)]

RobotsGroup(Words) == [agents : Seq(Words), rules : Seq(RobotsRule(Words)), delay : Int, started : BOOLEAN]

IsParse(Words, p) == p \in [groups : Seq(RobotsGroup(Words)), group : RobotsGroup(Words)]

\* A rule r is kept for the agent m, and an agent m for any rule.
KeptFor(p, m, r) ==
    \/ \E g \in ToSet(p.groups) : m \in ToSet(g.agents) /\ r \in ToSet(g.rules)
    \/ m \in ToSet(p.group.agents) /\ r \in ToSet(p.group.rules)

Known(p, m) ==
    \/ \E g \in ToSet(p.groups) : m \in ToSet(g.agents)
    \/ m \in ToSet(p.group.agents)

\* The members of lists that are put together.
LEMMA MembersOfLists ==
    /\ \A S : \A s \in Seq(S) : /\ ToSet(s) = {} <=> s = <<>>
                                /\ ToSet(s) \subseteq S
    /\ \A S : \A s \in Seq(S), x \in S : ToSet(Append(s, x)) = ToSet(s) \cup {x}
    /\ \A S : \A s, t \in Seq(S) : ToSet(s \o t) = ToSet(s) \cup ToSet(t)
  <1>1. ASSUME NEW S, NEW s \in Seq(S)
        PROVE  (ToSet(s) = {} <=> s = <<>>) /\ ToSet(s) \subseteq S
    <2>1. DOMAIN s = 1..Len(s) /\ Len(s) \in Nat /\ \A i \in 1..Len(s) : s[i] \in S
      OBVIOUS
    <2>2. s = <<>> <=> Len(s) = 0
      OBVIOUS
    <2>3. ToSet(s) \subseteq S
      BY <2>1 DEF ToSet
    <2>4. ASSUME s # <<>> PROVE ToSet(s) # {}
      <3>1. 1 \in 1..Len(s)
        BY <2>1, <2>2, <2>4
      <3> QED BY <2>1, <3>1 DEF ToSet
    <2>5. ASSUME s = <<>> PROVE ToSet(s) = {}
      BY <2>5 DEF ToSet
    <2> QED BY <2>3, <2>4, <2>5
  <1>2. ASSUME NEW S, NEW s \in Seq(S), NEW x \in S
        PROVE  ToSet(Append(s, x)) = ToSet(s) \cup {x}
    <2>1. /\ DOMAIN s = 1..Len(s) /\ Len(s) \in Nat
          /\ DOMAIN Append(s, x) = 1..(Len(s) + 1)
          /\ \A i \in 1..Len(s) : Append(s, x)[i] = s[i]
          /\ Append(s, x)[Len(s) + 1] = x
      OBVIOUS
    <2>2. 1..(Len(s) + 1) = (1..Len(s)) \cup {Len(s) + 1}
      BY <2>1
    <2> QED BY <2>1, <2>2 DEF ToSet
  <1>3. ASSUME NEW S, NEW s \in Seq(S), NEW t \in Seq(S)
        PROVE  ToSet(s \o t) = ToSet(s) \cup ToSet(t)
    <2>1. /\ DOMAIN s = 1..Len(s) /\ Len(s) \in Nat
          /\ DOMAIN t = 1..Len(t) /\ Len(t) \in Nat
          /\ DOMAIN (s \o t) = 1..(Len(s) + Len(t))
          /\ \A i \in 1..Len(s) : (s \o t)[i] = s[i]
          /\ \A i \in 1..Len(t) : (s \o t)[i + Len(s)] = t[i]
      OBVIOUS
    <2>2. \A i \in 1..(Len(s) + Len(t)) : i \in 1..Len(s) \/ i - Len(s) \in 1..Len(t)
      BY <2>1
    <2>3. /\ \A i \in 1..Len(s) : i \in 1..(Len(s) + Len(t))
          /\ \A i \in 1..Len(t) : i + Len(s) \in 1..(Len(s) + Len(t))
      BY <2>1
    <2>4. ToSet(s \o t) \subseteq ToSet(s) \cup ToSet(t)
      <3> SUFFICES ASSUME NEW i \in 1..(Len(s) + Len(t))
                   PROVE  (s \o t)[i] \in ToSet(s) \cup ToSet(t)
        BY <2>1 DEF ToSet
      <3>1. CASE i \in 1..Len(s)
        BY <3>1, <2>1 DEF ToSet
      <3>2. CASE i - Len(s) \in 1..Len(t)
        <4>1. (i - Len(s)) + Len(s) = i
          BY <2>1
        <4>2. (s \o t)[i] = t[i - Len(s)]
          BY <2>1, <3>2, <4>1
        <4> QED BY <2>1, <3>2, <4>2 DEF ToSet
      <3> QED BY <2>2, <3>1, <3>2
    <2>5. ToSet(s) \cup ToSet(t) \subseteq ToSet(s \o t)
      BY <2>1, <2>3 DEF ToSet
    <2> QED BY <2>4, <2>5
  <1> QED BY <1>1, <1>2, <1>3

\* A line with an agent ends a group that has begun to list its rules, and adds
\* its agent to one that has not.
LEMMA AgentIsAdded ==
    ASSUME NEW Words, NEW p, IsParse(Words, p), NEW line \in RobotsLine(Words), IsAgentLine(line),
           p.group.started => p.group.agents # <<>>,
           ~p.group.started => p.group.rules = <<>>
    PROVE  LET q == ParseLine(p, line) IN
           /\ IsParse(Words, q)
           /\ ToSet(q.group.agents) = IF p.group.started THEN ToSet(line.agent)
                                      ELSE ToSet(p.group.agents) \cup ToSet(line.agent)
           /\ ~q.group.started
           /\ q.group.rules = <<>>
           /\ \A m, r : KeptFor(q, m, r) <=> KeptFor(p, m, r)
           /\ \A m : Known(q, m) <=> Known(p, m) \/ m \in ToSet(line.agent)
  <1> DEFINE q == ParseLine(p, line)
  <1>0. q = AddAgent(p, line)
    BY DEF ParseLine, IsAgentLine
  <1>q. q = [groups |-> q.groups, group |-> q.group]
    BY <1>0 DEF AddAgent
  <1>t. /\ p.group \in RobotsGroup(Words) /\ p.groups \in Seq(RobotsGroup(Words))
        /\ p.group.started \in BOOLEAN /\ p.group.agents \in Seq(Words)
        /\ line.agent \in Seq(Words) /\ <<>> \o line.agent = line.agent
    BY DEF IsParse, RobotsGroup, RobotsLine
  <1>n. /\ NoGroup.agents = <<>> /\ NoGroup.rules = <<>> /\ ~NoGroup.started
        /\ NoGroup \in RobotsGroup(Words)
    <2>1. <<>> \in Seq(Words) /\ <<>> \in Seq(RobotsRule(Words)) /\ NoDelay \in Int
      BY DEF NoDelay
    <2> QED BY <2>1 DEF NoGroup, RobotsGroup
  <1>e. ToSet(<<>>) = {}
    BY DEF ToSet
  <1>u. ASSUME NEW group \in RobotsGroup(Words), NEW agents \in Seq(Words)
        PROVE  LET new == [group EXCEPT !.agents = agents] IN
               /\ new \in RobotsGroup(Words) /\ new.agents = agents /\ new.rules = group.rules
               /\ new.started = group.started
    BY DEF RobotsGroup
  <1>1. CASE p.group.started
    <2>1. /\ q.groups = Append(p.groups, p.group)
          /\ q.group = IF line.agent = <<>> THEN NoGroup
                       ELSE [NoGroup EXCEPT !.agents = NoGroup.agents \o line.agent]
      BY <1>0, <1>1 DEF AddAgent, FinishGroup
    <2>2. /\ q.group \in RobotsGroup(Words) /\ q.group.agents = line.agent
          /\ q.group.rules = <<>> /\ ~q.group.started
      BY <2>1, <1>n, <1>t, <1>u
    <2>3. ToSet(q.groups) = ToSet(p.groups) \cup {p.group} /\ q.groups \in Seq(RobotsGroup(Words))
      BY <2>1, <1>t, MembersOfLists
    <2>4. \A m, r : KeptFor(q, m, r) <=> KeptFor(p, m, r)
      BY <2>2, <2>3, <1>e DEF KeptFor
    <2>5. \A m : Known(q, m) <=> Known(p, m) \/ m \in ToSet(line.agent)
      BY <2>2, <2>3 DEF Known
    <2>6. IsParse(Words, q)
      BY <1>q, <2>2, <2>3 DEF IsParse
    <2>7. ToSet(q.group.agents) = IF p.group.started THEN ToSet(line.agent)
                                  ELSE ToSet(p.group.agents) \cup ToSet(line.agent)
      BY <1>1, <2>2
    <2> QED BY <2>2, <2>4, <2>5, <2>6, <2>7
  <1>2. CASE ~p.group.started
    <2> DEFINE agents == p.group.agents \o line.agent
    <2>1. agents \in Seq(Words) /\ (line.agent = <<>> => agents = p.group.agents)
      <3>1. p.group.agents \o <<>> = p.group.agents
        BY <1>t, ConcatEmptySeq
      <3>2. agents \in Seq(Words)
        BY <1>t
      <3> QED BY <3>1, <3>2
    <2>m. ToSet(agents) = ToSet(p.group.agents) \cup ToSet(line.agent)
      BY <1>t, MembersOfLists
    <2>2. /\ q.groups = p.groups
          /\ q.group = IF line.agent = <<>> THEN p.group
                       ELSE [p.group EXCEPT !.agents = agents]
      BY <1>0, <1>2 DEF AddAgent
    <2> HIDE DEF agents
    <2>3. /\ q.group \in RobotsGroup(Words) /\ q.group.agents = agents
          /\ q.group.rules = <<>> /\ ~q.group.started
      BY <1>2, <2>1, <2>2, <1>t, <1>u
    <2>4. \A m, r : KeptFor(q, m, r) <=> KeptFor(p, m, r)
      BY <1>2, <2>2, <2>3, <1>e DEF KeptFor
    <2>5. \A m : Known(q, m) <=> Known(p, m) \/ m \in ToSet(line.agent)
      BY <2>m, <2>2, <2>3 DEF Known
    <2>6. IsParse(Words, q)
      BY <1>q, <1>t, <2>2, <2>3 DEF IsParse
    <2> QED BY <1>2, <2>m, <2>3, <2>4, <2>5, <2>6
  <1> QED BY <1>t, <1>1, <1>2

PermissionRule(line) == [allow |-> line.field = "allow", pattern |-> line.pattern]

IsPermission(line) == line.field \in {"allow", "disallow"} /\ line.pattern # <<>>

\* Any other line keeps the agents; a rule begins the list of the rules of a
\* group that has agents, and a permission is kept for each of them.
LEMMA RuleIsKept ==
    ASSUME NEW Words, NEW p, IsParse(Words, p), NEW line \in RobotsLine(Words), ~IsAgentLine(line),
           p.group.started => p.group.agents # <<>>,
           ~p.group.started => p.group.rules = <<>>
    PROVE  LET q == ParseLine(p, line) IN
           /\ IsParse(Words, q)
           /\ q.group.agents = p.group.agents
           /\ q.group.started <=> p.group.started \/ (IsDirective(line) /\ p.group.agents # <<>>)
           /\ ~q.group.started => q.group.rules = <<>>
           /\ \A m, r : KeptFor(q, m, r) <=>
                 \/ KeptFor(p, m, r)
                 \/ IsPermission(line) /\ m \in ToSet(p.group.agents) /\ r = PermissionRule(line)
           /\ \A m : Known(q, m) <=> Known(p, m)
  <1> DEFINE q == ParseLine(p, line)
  <1>t. /\ p.group \in RobotsGroup(Words) /\ p.groups \in Seq(RobotsGroup(Words))
        /\ p.group.started \in BOOLEAN /\ p.group.rules \in Seq(RobotsRule(Words))
        /\ p.group.agents \in Seq(Words)
        /\ PermissionRule(line) \in RobotsRule(Words)
    BY DEF IsParse, RobotsGroup, RobotsLine, RobotsRule, PermissionRule
  <1>p. p = [groups |-> p.groups, group |-> p.group]
    BY DEF IsParse
  <1>e. ToSet(<<>>) = {}
    BY DEF ToSet
  <1>q. \A group : LET s == [p EXCEPT !.group = group] IN
                   /\ s = [groups |-> p.groups, group |-> group]
                   /\ s.groups = p.groups /\ s.group = group
    BY <1>p
  <1>1. CASE ~(IsDirective(line) /\ p.group.agents # <<>>)
    <2>1. q = p
      BY <1>1 DEF ParseLine, IsDirective, IsAgentLine
    <2>2. IsPermission(line) => p.group.agents = <<>>
      BY <1>1 DEF IsPermission, IsDirective
    <2> QED BY <1>1, <1>e, <2>1, <2>2
  <1>2. CASE IsDirective(line) /\ p.group.agents # <<>>
    <2>1. q = AddDirective(p, line)
      BY <1>2 DEF ParseLine, IsDirective, IsAgentLine
    <2> DEFINE group == [p.group EXCEPT !.started = TRUE]
    <2>2. /\ group \in RobotsGroup(Words) /\ group.started
          /\ group.agents = p.group.agents /\ group.rules = p.group.rules
      BY <1>t DEF RobotsGroup
    <2>3. q = [p EXCEPT !.group =
                  IF line.field = "crawl-delay"
                  THEN IF line.delay \in 0..MaxCrawlDelay
                       THEN [group EXCEPT !.delay = line.delay] ELSE group
                  ELSE IF line.pattern = <<>> THEN group
                  ELSE [group EXCEPT !.rules = Append(@, PermissionRule(line))]]
      BY <2>1 DEF AddDirective, PermissionRule
    <2> HIDE DEF group
    <2>4. CASE ~IsPermission(line)
      <3>1. \/ q = [p EXCEPT !.group = group]
            \/ line.delay \in Int /\ q = [p EXCEPT !.group = [group EXCEPT !.delay = line.delay]]
        BY <1>2, <2>3, <2>4 DEF IsPermission, IsDirective, RobotsLine
      <3>2. /\ q = [groups |-> q.groups, group |-> q.group]
            /\ q.groups = p.groups /\ q.group \in RobotsGroup(Words) /\ q.group.started
            /\ q.group.agents = p.group.agents /\ q.group.rules = p.group.rules
        <4>1. CASE q = [p EXCEPT !.group = group]
          BY <4>1, <2>2, <1>q
        <4>2. CASE line.delay \in Int /\ q = [p EXCEPT !.group = [group EXCEPT !.delay = line.delay]]
          <5> DEFINE slow == [group EXCEPT !.delay = line.delay]
          <5>1. /\ slow \in RobotsGroup(Words) /\ slow.started
                /\ slow.agents = p.group.agents /\ slow.rules = p.group.rules
            BY <4>2, <2>2 DEF RobotsGroup
          <5> HIDE DEF slow
          <5>2. q = [p EXCEPT !.group = slow]
            BY <4>2 DEF slow
          <5> QED BY <5>1, <5>2, <1>q
        <4> QED BY <3>1, <4>1, <4>2
      <3>3. IsParse(Words, q)
        BY <1>t, <3>2 DEF IsParse
      <3>4. \A m, r : KeptFor(q, m, r) <=> KeptFor(p, m, r)
        BY <3>2 DEF KeptFor
      <3>5. \A m : Known(q, m) <=> Known(p, m)
        BY <3>2 DEF Known
      <3> QED BY <1>2, <2>4, <3>2, <3>3, <3>4, <3>5
    <2>5. CASE IsPermission(line)
      <3> DEFINE longer == [group EXCEPT !.rules = Append(@, PermissionRule(line))]
      <3>1. q = [p EXCEPT !.group = longer]
        BY <2>3, <2>5 DEF IsPermission
      <3>2. /\ longer \in RobotsGroup(Words) /\ longer.started /\ longer.agents = p.group.agents
            /\ longer.rules = Append(p.group.rules, PermissionRule(line))
        <4> DEFINE rules == Append(p.group.rules, PermissionRule(line))
        <4>1. rules \in Seq(RobotsRule(Words))
          BY <1>t
        <4>2. longer = [group EXCEPT !.rules = rules]
          BY <2>2
        <4> HIDE DEF rules, longer
        <4>3. /\ longer \in RobotsGroup(Words) /\ longer.started /\ longer.agents = group.agents
              /\ longer.rules = rules
          BY <2>2, <4>1, <4>2 DEF RobotsGroup
        <4> QED BY <2>2, <4>3 DEF rules
      <3> HIDE DEF longer
      <3>3. /\ q = [groups |-> q.groups, group |-> q.group]
            /\ q.groups = p.groups /\ q.group = longer
        BY <3>1, <1>q
      <3>4. ToSet(q.group.rules) = ToSet(p.group.rules) \cup {PermissionRule(line)}
        <4>1. ToSet(Append(p.group.rules, PermissionRule(line)))
                = ToSet(p.group.rules) \cup {PermissionRule(line)}
          BY <1>t, MembersOfLists
        <4> QED BY <3>2, <3>3, <4>1
      <3>5. IsParse(Words, q)
        BY <1>t, <3>2, <3>3 DEF IsParse
      <3>6. \A m, r : KeptFor(q, m, r) <=>
                 \/ KeptFor(p, m, r)
                 \/ m \in ToSet(p.group.agents) /\ r = PermissionRule(line)
        BY <3>2, <3>3, <3>4 DEF KeptFor
      <3>7. \A m : Known(q, m) <=> Known(p, m)
        BY <3>2, <3>3 DEF Known
      <3> QED BY <1>2, <2>5, <3>2, <3>3, <3>5, <3>6, <3>7
    <2> QED BY <2>4, <2>5
  <1> QED BY <1>1, <1>2

\* What is parsed is defined line by line, however many there are.
ParsedUpTo(lines, n, f) ==
    f = [k \in 0..n |-> IF k = 0 THEN [groups |-> <<>>, group |-> NoGroup]
                        ELSE ParseLine(f[k - 1], lines[k])]

\* The parse of a line follows from the one before it.
LEMMA EveryLineIsParsed ==
    ASSUME NEW lines, NEW n \in Nat
    PROVE  \E f : ParsedUpTo(lines, n, f)
  <1> DEFINE Lost == {k \in Nat : ~\E f : ParsedUpTo(lines, k, f)}
  <1>0. ASSUME NEW f
        PROVE  ParsedUpTo(lines, 0, [k \in 0..0 |-> [groups |-> <<>>, group |-> NoGroup]])
    BY DEF ParsedUpTo
  <1>1. 0 \notin Lost
    BY <1>0
  <1>2. ASSUME NEW k \in Nat, k # 0, k - 1 \notin Lost
        PROVE  k \notin Lost
    <2>1. k - 1 \in Nat
      BY <1>2
    <2>2. PICK f : ParsedUpTo(lines, k - 1, f)
      BY <1>2, <2>1
    <2> DEFINE g == [i \in 0..k |-> IF i = k THEN ParseLine(f[k - 1], lines[k]) ELSE f[i]]
    <2>3. \A i \in 0..k : i = k \/ i \in 0..(k - 1)
      BY <1>2
    <2>4. \A i \in 0..k : g[i] = IF i = 0 THEN [groups |-> <<>>, group |-> NoGroup]
                                 ELSE ParseLine(g[i - 1], lines[i])
      <3> SUFFICES ASSUME NEW i \in 0..k
                   PROVE  g[i] = IF i = 0 THEN [groups |-> <<>>, group |-> NoGroup]
                                 ELSE ParseLine(g[i - 1], lines[i])
        OBVIOUS
      <3>1. CASE i = k
        <4>1. i - 1 \in 0..k /\ i - 1 # k
          BY <1>2, <3>1
        <4>2. g[i - 1] = f[k - 1]
          BY <3>1, <4>1
        <4> QED BY <1>2, <3>1, <4>2
      <3>2. CASE i # k
        <4>1. i \in 0..(k - 1)
          BY <2>3, <3>2
        <4>2. f[i] = IF i = 0 THEN [groups |-> <<>>, group |-> NoGroup]
                     ELSE ParseLine(f[i - 1], lines[i])
          BY <2>2, <4>1 DEF ParsedUpTo
        <4>3. g[i] = f[i]
          BY <3>2
        <4>4. i # 0 => i - 1 \in 0..k /\ i - 1 # k
          BY <4>1
        <4>5. i # 0 => g[i - 1] = f[i - 1]
          BY <4>4
        <4> QED BY <4>2, <4>3, <4>5
      <3> QED BY <3>1, <3>2
    <2>5. g = [i \in 0..k |-> g[i]]
      OBVIOUS
    <2> HIDE DEF g
    <2>6. ParsedUpTo(lines, k, g)
      BY <2>4, <2>5 DEF ParsedUpTo
    <2> QED BY <2>6
  <1>3. Lost = {}
    <2> SUFFICES ASSUME Lost # {} PROVE FALSE
      OBVIOUS
    <2>1. Lost \in SUBSET Nat
      OBVIOUS
    <2> HIDE DEF Lost
    <2>2. Min(Lost) \in Lost /\ \A m \in Lost : Min(Lost) <= m
      BY <2>1, Least
    <2>3. Min(Lost) \in Nat /\ Min(Lost) # 0
      BY <1>1, <2>1, <2>2
    <2>4. Min(Lost) - 1 \notin Lost
      BY <2>1, <2>2, <2>3
    <2> QED BY <1>2, <2>2, <2>3, <2>4
  <1> QED BY <1>3

\* So does the parse of the model.
LEMMA ParsedLineByLine ==
    ASSUME NEW lines, Len(lines) \in Nat
    PROVE  /\ Parsed(lines)[0] = [groups |-> <<>>, group |-> NoGroup]
           /\ \A k \in 1..Len(lines) :
                 Parsed(lines)[k] = ParseLine(Parsed(lines)[k - 1], lines[k])
  <1> DEFINE after == CHOOSE f : ParsedUpTo(lines, Len(lines), f)
  <1>1. ParsedUpTo(lines, Len(lines), after)
    BY EveryLineIsParsed
  <1>2. after = Parsed(lines)
    BY DEF Parsed, ParsedUpTo
  <1>3. ParsedUpTo(lines, Len(lines), Parsed(lines))
    BY <1>1, <1>2
  <1>4. ASSUME NEW f, ParsedUpTo(lines, Len(lines), f)
        PROVE  /\ f[0] = [groups |-> <<>>, group |-> NoGroup]
               /\ \A k \in 1..Len(lines) : f[k] = ParseLine(f[k - 1], lines[k])
    <2>1. 0 \in 0..Len(lines) /\ \A k \in 1..Len(lines) : k \in 0..Len(lines) /\ k # 0
      OBVIOUS
    <2> QED BY <1>4, <2>1 DEF ParsedUpTo
  <1> QED BY <1>3, <1>4

-----------------------------------------------------------------------------
(* Under whom a line stands.                                                *)

\* The last agent line and the last rule before it are above the rule.
LEMMA LastLines ==
    ASSUME NEW lines, NEW rule \in Nat \ {0}
    PROVE  /\ LastAgentLine(lines, rule) \in 0..(rule - 1)
           /\ \A i \in 1..(rule - 1) : IsAgentLine(lines[i]) => i <= LastAgentLine(lines, rule)
           /\ LastAgentLine(lines, rule) # 0 => IsAgentLine(lines[LastAgentLine(lines, rule)])
           /\ LastDirectiveBefore(lines, rule) \in 0..(rule - 1)
           /\ \A i \in DirectivesBefore(lines, rule) : i <= LastDirectiveBefore(lines, rule)
           /\ LastDirectiveBefore(lines, rule) # 0 =>
                 LastDirectiveBefore(lines, rule) \in DirectivesBefore(lines, rule)
  <1>1. /\ LastAgentLine(lines, rule) \in 0..(rule - 1)
        /\ \A i \in AgentLinesAbove(lines, rule) : i <= LastAgentLine(lines, rule)
        /\ LastAgentLine(lines, rule) # 0 =>
              LastAgentLine(lines, rule) \in AgentLinesAbove(lines, rule)
    <2>1. AgentLinesAbove(lines, rule) \in SUBSET (0..(rule - 1)) /\ rule - 1 \in Nat
      BY DEF AgentLinesAbove
    <2>2. 0 \in 0..(rule - 1)
      OBVIOUS
    <2> QED BY <2>1, <2>2, Longest DEF LastAgentLine
  <1>2. /\ LastDirectiveBefore(lines, rule) \in 0..(rule - 1)
        /\ \A i \in DirectivesBefore(lines, rule) : i <= LastDirectiveBefore(lines, rule)
        /\ LastDirectiveBefore(lines, rule) # 0 =>
              LastDirectiveBefore(lines, rule) \in DirectivesBefore(lines, rule)
    <2>1. DirectivesBefore(lines, rule) \in SUBSET (0..(rule - 1)) /\ rule - 1 \in Nat
      BY <1>1 DEF DirectivesBefore
    <2>2. 0 \in 0..(rule - 1)
      OBVIOUS
    <2> QED BY <2>1, <2>2, Longest DEF LastDirectiveBefore
  <1> QED BY <1>1, <1>2 DEF AgentLinesAbove

\* Who a line stands under, by the lines that name him.
LEMMA NamesAbove ==
    ASSUME NEW lines, NEW rule \in Nat \ {0}, NEW m
    PROVE  m \in ListedOver(lines, rule) <=>
              \E i \in 1..(rule - 1) : /\ IsAgentLine(lines[i]) /\ i > LastDirectiveBefore(lines, rule)
                                       /\ m \in ToSet(lines[i].agent)
  BY DEF ListedOver, AgentLinesAbove

\* A rule has been read of the agents that stand above.
Begun(lines, rule) ==
    /\ ListedOver(lines, rule) # {}
    /\ \E i \in 1..(rule - 1) : i > LastAgentLine(lines, rule) /\ IsDirective(lines[i])

\* A line of another field leaves the agents as they are.
LEMMA OtherLineKeeps ==
    ASSUME NEW lines, NEW rule \in Nat \ {0}, ~IsAgentLine(lines[rule])
    PROVE  /\ ListedOver(lines, rule + 1) = ListedOver(lines, rule)
           /\ Begun(lines, rule + 1) <=>
                 \/ Begun(lines, rule)
                 \/ IsDirective(lines[rule]) /\ ListedOver(lines, rule) # {}
  <1>0. rule + 1 \in Nat \ {0} /\ (rule + 1) - 1 = rule /\ rule \in 1..rule
        /\ \A i \in 1..rule : i \in 1..(rule - 1) \/ i = rule
    OBVIOUS
  <1>i. \A i \in 1..(rule - 1) : i \in 1..rule
    OBVIOUS
  <1>1. AgentLinesAbove(lines, rule + 1) = AgentLinesAbove(lines, rule)
    BY <1>0, <1>i DEF AgentLinesAbove
  <1>2. LastAgentLine(lines, rule + 1) = LastAgentLine(lines, rule)
    BY <1>1 DEF LastAgentLine
  <1>3. LastDirectiveBefore(lines, rule + 1) = LastDirectiveBefore(lines, rule)
    BY <1>2 DEF LastDirectiveBefore, DirectivesBefore
  <1>4. ListedOver(lines, rule + 1) = ListedOver(lines, rule)
    BY <1>1, <1>3 DEF ListedOver
  <1>5. rule > LastAgentLine(lines, rule)
    BY LastLines
  <1> HIDE DEF LastAgentLine
  <1> QED BY <1>0, <1>i, <1>2, <1>4, <1>5 DEF Begun

\* A line with an agent adds it, or begins the next group if a rule was read.
LEMMA AgentLineAdds ==
    ASSUME NEW lines, NEW rule \in Nat \ {0}, IsAgentLine(lines[rule])
    PROVE  /\ ListedOver(lines, rule + 1) =
                 IF Begun(lines, rule) THEN ToSet(lines[rule].agent)
                 ELSE ListedOver(lines, rule) \cup ToSet(lines[rule].agent)
           /\ ~Begun(lines, rule + 1)
  <1>0. rule + 1 \in Nat \ {0} /\ (rule + 1) - 1 = rule /\ rule \in 1..rule
        /\ \A i \in 1..rule : i \in 1..(rule - 1) \/ i = rule
    OBVIOUS
  <1>i. \A i \in 1..(rule - 1) : i \in 1..rule /\ i < rule
    OBVIOUS
  <1>1. LastAgentLine(lines, rule + 1) = rule
    <2>1. rule <= LastAgentLine(lines, rule + 1) /\ LastAgentLine(lines, rule + 1) \in 0..rule
      BY <1>0, LastLines
    <2> QED BY <2>1
  <1>2. DirectivesBefore(lines, rule + 1) =
           {i \in 1..(rule - 1) : IsDirective(lines[i]) /\ \E j \in 1..(i - 1) : lines[j].agent # <<>>}
    BY <1>1 DEF DirectivesBefore
  <1>3. DirectivesBefore(lines, rule) \subseteq DirectivesBefore(lines, rule + 1)
    <2>1. LastAgentLine(lines, rule) \in 0..(rule - 1)
      BY LastLines
    <2>2. \A i \in 1..(LastAgentLine(lines, rule) - 1) : i \in 1..(rule - 1)
      BY <2>1
    <2> QED BY <1>2, <2>2 DEF DirectivesBefore
  <1>4. LastDirectiveBefore(lines, rule + 1) < rule /\ LastDirectiveBefore(lines, rule + 1) \in Nat
    <2>1. LastDirectiveBefore(lines, rule + 1) \in 0..rule
      BY <1>0, LastLines
    <2>2. LastDirectiveBefore(lines, rule + 1) # 0 =>
             LastDirectiveBefore(lines, rule + 1) \in DirectivesBefore(lines, rule + 1)
      BY <1>0, LastLines
    <2>3. LastDirectiveBefore(lines, rule + 1) # 0 => LastDirectiveBefore(lines, rule + 1) \in 1..(rule - 1)
      BY <1>2, <2>2
    <2> QED BY <2>1, <2>3
  <1>5. LastDirectiveBefore(lines, rule) <= LastDirectiveBefore(lines, rule + 1)
    <2>1. LastDirectiveBefore(lines, rule) \in 0..(rule - 1)
      BY LastLines
    <2>2. CASE LastDirectiveBefore(lines, rule) = 0
      BY <1>4, <2>2
    <2>3. CASE LastDirectiveBefore(lines, rule) # 0
      <3>1. LastDirectiveBefore(lines, rule) \in DirectivesBefore(lines, rule)
        BY <2>3, LastLines
      <3>2. LastDirectiveBefore(lines, rule) \in DirectivesBefore(lines, rule + 1)
        BY <1>3, <3>1
      <3> QED BY <1>0, <3>2, LastLines
    <2> QED BY <2>2, <2>3
  <1>6. \A m : m \in ListedOver(lines, rule + 1) <=>
               \/ m \in ToSet(lines[rule].agent)
               \/ \E i \in 1..(rule - 1) :
                     /\ IsAgentLine(lines[i]) /\ i > LastDirectiveBefore(lines, rule + 1)
                     /\ m \in ToSet(lines[i].agent)
    <2> TAKE m
    <2>1. m \in ListedOver(lines, rule + 1) <=>
             \E i \in 1..rule : /\ IsAgentLine(lines[i]) /\ i > LastDirectiveBefore(lines, rule + 1)
                                /\ m \in ToSet(lines[i].agent)
      BY <1>0, NamesAbove
    <2> QED BY <1>0, <1>i, <1>4, <2>1
  <1>7. ~Begun(lines, rule + 1)
    BY <1>0, <1>1 DEF Begun
  <1>8. CASE Begun(lines, rule)
    <2>1. PICK i \in 1..(rule - 1) : i > LastAgentLine(lines, rule) /\ IsDirective(lines[i])
      BY <1>8 DEF Begun
    <2>2. PICK m : m \in ListedOver(lines, rule)
      BY <1>8 DEF Begun
    <2>3. PICK j \in 1..(rule - 1) : IsAgentLine(lines[j]) /\ m \in ToSet(lines[j].agent)
      BY <2>2, NamesAbove
    <2>4. lines[j].agent # <<>>
      BY <2>3 DEF ToSet
    <2>5. \A k \in 1..(rule - 1) : IsAgentLine(lines[k]) => k < i
      <3>1. \A k \in 1..(rule - 1) : IsAgentLine(lines[k]) => k <= LastAgentLine(lines, rule)
        BY LastLines
      <3>2. LastAgentLine(lines, rule) \in 0..(rule - 1)
        BY LastLines
      <3> QED BY <2>1, <3>1, <3>2
    <2>6. j \in 1..(i - 1)
      BY <2>3, <2>5
    <2>7. i \in DirectivesBefore(lines, rule + 1)
      BY <1>2, <2>1, <2>4, <2>6
    <2>8. i <= LastDirectiveBefore(lines, rule + 1)
      BY <1>0, <2>7, LastLines
    <2>9. \A k \in 1..(rule - 1) : IsAgentLine(lines[k]) => ~(k > LastDirectiveBefore(lines, rule + 1))
      BY <1>4, <2>5, <2>8
    <2>10. \A n : n \in ListedOver(lines, rule + 1) <=> n \in ToSet(lines[rule].agent)
      BY <1>6, <2>9
    <2>11. ListedOver(lines, rule + 1) = ToSet(lines[rule].agent)
      BY <2>10
    <2> QED BY <1>7, <1>8, <2>11
  <1>9. CASE ~Begun(lines, rule)
    <2>1. \A n : n \in ListedOver(lines, rule + 1) <=>
                 n \in ListedOver(lines, rule) \/ n \in ToSet(lines[rule].agent)
      <3>1. CASE ListedOver(lines, rule) = {}
        <4>1. ASSUME NEW n, NEW i \in 1..(rule - 1), IsAgentLine(lines[i]),
                     i > LastDirectiveBefore(lines, rule + 1), n \in ToSet(lines[i].agent)
              PROVE  FALSE
          <5>1. i > LastDirectiveBefore(lines, rule)
            <6>1. LastDirectiveBefore(lines, rule) \in 0..(rule - 1)
              BY LastLines
            <6> QED BY <1>4, <1>5, <4>1, <6>1
          <5>2. n \in ListedOver(lines, rule)
            BY <4>1, <5>1, NamesAbove
          <5> QED BY <3>1, <5>2
        <4> QED BY <1>6, <3>1, <4>1
      <3>2. CASE ListedOver(lines, rule) # {}
        <4>1. \A i \in 1..(rule - 1) : ~(i > LastAgentLine(lines, rule) /\ IsDirective(lines[i]))
          BY <1>9, <3>2 DEF Begun
        <4>2. ASSUME NEW i \in 1..(rule - 1), IsDirective(lines[i])
              PROVE  i \in 1..(LastAgentLine(lines, rule) - 1)
          <5>1. LastAgentLine(lines, rule) \in 0..(rule - 1)
            BY LastLines
          <5>2. ~(i > LastAgentLine(lines, rule))
            BY <4>1, <4>2
          <5>3. i # LastAgentLine(lines, rule)
            <6>1. LastAgentLine(lines, rule) # 0 => IsAgentLine(lines[LastAgentLine(lines, rule)])
              BY LastLines
            <6>2. ~IsAgentLine(lines[i])
              BY <4>2 DEF IsDirective, IsAgentLine
            <6> QED BY <6>1, <6>2
          <5> QED BY <5>1, <5>2, <5>3
        <4>3. DirectivesBefore(lines, rule + 1) \subseteq DirectivesBefore(lines, rule)
          BY <1>2, <4>2 DEF DirectivesBefore
        <4>4. DirectivesBefore(lines, rule + 1) = DirectivesBefore(lines, rule)
          BY <1>3, <4>3
        <4>5. LastDirectiveBefore(lines, rule + 1) = LastDirectiveBefore(lines, rule)
          BY <4>4 DEF LastDirectiveBefore
        <4> QED BY <1>6, <4>5, NamesAbove
      <3> QED BY <3>1, <3>2
    <2>2. ListedOver(lines, rule + 1) = ListedOver(lines, rule) \cup ToSet(lines[rule].agent)
      BY <2>1
    <2> QED BY <1>7, <1>9, <2>2
  <1> QED BY <1>8, <1>9

-----------------------------------------------------------------------------
(* What the parser has kept after each line.                                *)

ParsedThere(Words, lines, k, p) ==
    /\ IsParse(Words, p)
    /\ ToSet(p.group.agents) = ListedOver(lines, k + 1)
    /\ p.group.started <=> Begun(lines, k + 1)
    /\ ~p.group.started => p.group.rules = <<>>
    /\ \A m, r : KeptFor(p, m, r) <=>
          \E i \in 1..k : /\ IsPermission(lines[i]) /\ m \in ListedOver(lines, i)
                          /\ r = PermissionRule(lines[i])
    /\ \A m : Known(p, m) <=> \E i \in 1..k : m \in ToSet(lines[i].agent)

\* Before the first line nothing is kept.
LEMMA NothingIsParsed ==
    ASSUME NEW Words, NEW lines
    PROVE  ParsedThere(Words, lines, 0, [groups |-> <<>>, group |-> NoGroup])
  <1> DEFINE p == [groups |-> <<>>, group |-> NoGroup]
  <1>1. /\ NoGroup.agents = <<>> /\ NoGroup.rules = <<>> /\ ~NoGroup.started
        /\ NoGroup \in RobotsGroup(Words)
    <2>1. <<>> \in Seq(Words) /\ <<>> \in Seq(RobotsRule(Words)) /\ NoDelay \in Int
      BY DEF NoDelay
    <2> QED BY <2>1 DEF NoGroup, RobotsGroup
  <1>2. ToSet(<<>>) = {}
    BY DEF ToSet
  <1>3. p.groups = <<>> /\ p.group = NoGroup
    OBVIOUS
  <1>4. IsParse(Words, p)
    BY <1>1 DEF IsParse
  <1>5. 1..0 = {} /\ 1..(1 - 1) = {} /\ 0 + 1 = 1
    OBVIOUS
  <1>6. ListedOver(lines, 1) = {}
    <2>1. AgentLinesAbove(lines, 1) = {}
      BY <1>5 DEF AgentLinesAbove
    <2> QED BY <2>1 DEF ListedOver
  <1>7. ~Begun(lines, 1)
    BY <1>6 DEF Begun
  <1> HIDE DEF p
  <1>8. \A m, r : ~KeptFor(p, m, r) /\ ~Known(p, m)
    BY <1>1, <1>2, <1>3 DEF KeptFor, Known
  <1>9. ParsedThere(Words, lines, 0, p)
    BY <1>1, <1>2, <1>3, <1>4, <1>5, <1>6, <1>7, <1>8 DEF ParsedThere
  <1> QED BY <1>9 DEF p

\* Each line keeps the parser and the file in step.
LEMMA NextLineIsParsed ==
    ASSUME NEW Words, NEW lines, IsFileOf(Words, lines), NEW k \in 1..Len(lines), NEW p,
           ParsedThere(Words, lines, k - 1, p)
    PROVE  ParsedThere(Words, lines, k, ParseLine(p, lines[k]))
  <1> DEFINE q == ParseLine(p, lines[k])
  <1>1. /\ lines[k] \in RobotsLine(Words) /\ k \in Nat \ {0} /\ (k - 1) + 1 = k
        /\ k \in 1..k /\ \A i \in 1..k : i \in 1..(k - 1) \/ i = k
        /\ \A i \in 1..(k - 1) : i \in 1..k
    BY DEF IsFileOf
  <1>2. /\ IsParse(Words, p)
        /\ ToSet(p.group.agents) = ListedOver(lines, k)
        /\ p.group.started <=> Begun(lines, k)
        /\ ~p.group.started => p.group.rules = <<>>
        /\ \A m, r : KeptFor(p, m, r) <=>
              \E i \in 1..(k - 1) : /\ IsPermission(lines[i]) /\ m \in ListedOver(lines, i)
                                    /\ r = PermissionRule(lines[i])
        /\ \A m : Known(p, m) <=> \E i \in 1..(k - 1) : m \in ToSet(lines[i].agent)
    BY <1>1 DEF ParsedThere
  <1>3. p.group.agents \in Seq(Words) /\ (p.group.agents = <<>> <=> ListedOver(lines, k) = {})
    <2>1. p.group.agents \in Seq(Words)
      BY <1>2 DEF IsParse, RobotsGroup
    <2> QED BY <1>2, <2>1, MembersOfLists
  <1>4. p.group.started => p.group.agents # <<>>
    BY <1>2, <1>3 DEF Begun
  <1>5. CASE IsAgentLine(lines[k])
    <2>1. /\ IsParse(Words, q)
          /\ ToSet(q.group.agents) = IF p.group.started THEN ToSet(lines[k].agent)
                                     ELSE ToSet(p.group.agents) \cup ToSet(lines[k].agent)
          /\ ~q.group.started
          /\ q.group.rules = <<>>
          /\ \A m, r : KeptFor(q, m, r) <=> KeptFor(p, m, r)
          /\ \A m : Known(q, m) <=> Known(p, m) \/ m \in ToSet(lines[k].agent)
      BY <1>1, <1>2, <1>4, <1>5, AgentIsAdded
    <2> HIDE DEF q
    <2>2. /\ ListedOver(lines, k + 1) =
                IF Begun(lines, k) THEN ToSet(lines[k].agent)
                ELSE ListedOver(lines, k) \cup ToSet(lines[k].agent)
          /\ ~Begun(lines, k + 1)
      BY <1>1, <1>5, AgentLineAdds
    <2>3. ToSet(q.group.agents) = ListedOver(lines, k + 1)
      BY <1>2, <2>1, <2>2
    <2>4. ~IsPermission(lines[k])
      BY <1>5 DEF IsPermission, IsAgentLine
    <2>5. \A m, r : KeptFor(q, m, r) <=>
             \E i \in 1..k : /\ IsPermission(lines[i]) /\ m \in ListedOver(lines, i)
                             /\ r = PermissionRule(lines[i])
      BY <1>1, <1>2, <2>1, <2>4
    <2>6. \A m : Known(q, m) <=> \E i \in 1..k : m \in ToSet(lines[i].agent)
      BY <1>1, <1>2, <2>1
    <2>7. ParsedThere(Words, lines, k, q)
      BY <2>1, <2>2, <2>3, <2>5, <2>6 DEF ParsedThere
    <2> QED BY <2>7 DEF q
  <1>6. CASE ~IsAgentLine(lines[k])
    <2>1. /\ IsParse(Words, q)
          /\ q.group.agents = p.group.agents
          /\ q.group.started <=> p.group.started \/ (IsDirective(lines[k]) /\ p.group.agents # <<>>)
          /\ ~q.group.started => q.group.rules = <<>>
          /\ \A m, r : KeptFor(q, m, r) <=>
                \/ KeptFor(p, m, r)
                \/ /\ IsPermission(lines[k]) /\ m \in ToSet(p.group.agents)
                   /\ r = PermissionRule(lines[k])
          /\ \A m : Known(q, m) <=> Known(p, m)
      BY <1>1, <1>2, <1>4, <1>6, RuleIsKept
    <2> HIDE DEF q
    <2>2. /\ ListedOver(lines, k + 1) = ListedOver(lines, k)
          /\ Begun(lines, k + 1) <=>
                \/ Begun(lines, k)
                \/ IsDirective(lines[k]) /\ ListedOver(lines, k) # {}
      BY <1>1, <1>6, OtherLineKeeps
    <2>3. ToSet(lines[k].agent) = {}
      BY <1>1, <1>6 DEF IsFileOf, ToSet
    <2>4. q.group.started <=> Begun(lines, k + 1)
      BY <1>2, <1>3, <2>1, <2>2
    <2>5. \A m, r : KeptFor(q, m, r) <=>
             \E i \in 1..k : /\ IsPermission(lines[i]) /\ m \in ListedOver(lines, i)
                             /\ r = PermissionRule(lines[i])
      BY <1>1, <1>2, <2>1
    <2>6. \A m : Known(q, m) <=> \E i \in 1..k : m \in ToSet(lines[i].agent)
      BY <1>1, <1>2, <2>1, <2>3
    <2>7. ToSet(q.group.agents) = ListedOver(lines, k + 1)
      BY <1>2, <2>1, <2>2
    <2>8. ParsedThere(Words, lines, k, q)
      BY <2>1, <2>4, <2>5, <2>6, <2>7 DEF ParsedThere
    <2> QED BY <2>8 DEF q
  <1> QED BY <1>5, <1>6

\* They are in step after every line.
LEMMA WhatIsParsed ==
    ASSUME NEW Words, NEW lines, IsFileOf(Words, lines), NEW k \in 0..Len(lines)
    PROVE  ParsedThere(Words, lines, k, Parsed(lines)[k])
  <1>0. Len(lines) \in Nat
    BY DEF IsFileOf
  <1> DEFINE Wrong == {i \in 0..Len(lines) : ~ParsedThere(Words, lines, i, Parsed(lines)[i])}
  <1>1. 0 \notin Wrong
    BY <1>0, ParsedLineByLine, NothingIsParsed
  <1>2. ASSUME NEW i \in 1..Len(lines), i - 1 \notin Wrong
        PROVE  i \notin Wrong
    <2>1. ParsedThere(Words, lines, i - 1, Parsed(lines)[i - 1])
      BY <1>0, <1>2
    <2>2. Parsed(lines)[i] = ParseLine(Parsed(lines)[i - 1], lines[i])
      BY <1>0, ParsedLineByLine
    <2> QED BY <2>1, <2>2, NextLineIsParsed
  <1>3. Wrong = {}
    <2> SUFFICES ASSUME Wrong # {} PROVE FALSE
      OBVIOUS
    <2>1. Wrong \in SUBSET Nat /\ Wrong \subseteq 0..Len(lines)
      BY <1>0
    <2> HIDE DEF Wrong
    <2>2. PICK i \in Wrong : \A m \in Wrong : i <= m
      BY <2>1, Least
    <2>3. i \in 0..Len(lines) /\ i # 0
      BY <1>1, <2>1
    <2>4. i \in 1..Len(lines)
      BY <1>0, <2>3
    <2>5. i - 1 \notin Wrong
      BY <2>1, <2>2, <2>4
    <2> QED BY <1>2, <2>4, <2>5
  <1> QED BY <1>3

-----------------------------------------------------------------------------
(* What is decided.                                                         *)

\* The name of the crawler if any line has it, or else everybody's.
Called(named) == IF named THEN ProductToken ELSE AnyAgent

\* The last group is dropped only when it has no agent.
LEMMA GroupsOfTheFile ==
    ASSUME NEW Words, NEW lines, IsFileOf(Words, lines)
    PROVE  LET G == ToSet(ParseGroups(lines)) IN
           /\ G \subseteq RobotsGroup(Words)
           /\ \A m, r : (\E g \in G : m \in ToSet(g.agents) /\ r \in ToSet(g.rules)) <=>
                 \E i \in 1..Len(lines) : /\ IsPermission(lines[i]) /\ m \in ListedOver(lines, i)
                                          /\ r = PermissionRule(lines[i])
           /\ \A m : (\E g \in G : m \in ToSet(g.agents)) <=>
                 \E i \in 1..Len(lines) : m \in ToSet(lines[i].agent)
  <1> DEFINE p == Parsed(lines)[Len(lines)]
             G == ToSet(ParseGroups(lines))
  <1>1. Len(lines) \in Nat
    BY DEF IsFileOf
  <1>2. ParsedThere(Words, lines, Len(lines), p)
    <2>1. Len(lines) \in 0..Len(lines)
      BY <1>1
    <2> QED BY <2>1, WhatIsParsed
  <1>3. p.groups \in Seq(RobotsGroup(Words)) /\ p.group \in RobotsGroup(Words) /\ IsParse(Words, p)
    <2>1. IsParse(Words, p)
      BY <1>2 DEF ParsedThere
    <2> HIDE DEF p
    <2> QED BY <2>1 DEF IsParse
  <1>4. ParseGroups(lines) = FinishGroup(p.groups, p.group)
    BY DEF ParseGroups
  <1> HIDE DEF p
  <1>5. p.group.agents \in Seq(Words)
    BY <1>3 DEF RobotsGroup
  <1>6. ToSet(p.group.agents) = {} <=> p.group.agents = <<>>
    BY <1>5, MembersOfLists
  <1>7. G = IF p.group.agents = <<>> THEN ToSet(p.groups) ELSE ToSet(p.groups) \cup {p.group}
    <2>1. G = ToSet(FinishGroup(p.groups, p.group))
      BY <1>4
    <2>2. CASE p.group.agents = <<>>
      BY <2>1, <2>2 DEF FinishGroup
    <2>3. CASE p.group.agents # <<>>
      <3>1. ToSet(Append(p.groups, p.group)) = ToSet(p.groups) \cup {p.group}
        BY <1>3, MembersOfLists
      <3> QED BY <2>1, <2>3, <3>1 DEF FinishGroup
    <2> QED BY <2>2, <2>3
  <1> HIDE DEF G
  <1>8. /\ \A m, r : (\E g \in G : m \in ToSet(g.agents) /\ r \in ToSet(g.rules)) <=> KeptFor(p, m, r)
        /\ \A m : (\E g \in G : m \in ToSet(g.agents)) <=> Known(p, m)
    BY <1>6, <1>7 DEF KeptFor, Known
  <1>9. G \subseteq RobotsGroup(Words)
    <2>1. ToSet(p.groups) \subseteq RobotsGroup(Words)
      BY <1>3, MembersOfLists
    <2> QED BY <1>3, <1>7, <2>1
  <1>10. /\ \A m, r : KeptFor(p, m, r) <=>
               \E i \in 1..Len(lines) : /\ IsPermission(lines[i]) /\ m \in ListedOver(lines, i)
                                        /\ r = PermissionRule(lines[i])
         /\ \A m : Known(p, m) <=> \E i \in 1..Len(lines) : m \in ToSet(lines[i].agent)
    BY <1>2 DEF ParsedThere
  <1>11. /\ G \subseteq RobotsGroup(Words)
         /\ \A m, r : (\E g \in G : m \in ToSet(g.agents) /\ r \in ToSet(g.rules)) <=>
               \E i \in 1..Len(lines) : /\ IsPermission(lines[i]) /\ m \in ListedOver(lines, i)
                                        /\ r = PermissionRule(lines[i])
         /\ \A m : (\E g \in G : m \in ToSet(g.agents)) <=>
               \E i \in 1..Len(lines) : m \in ToSet(lines[i].agent)
    BY <1>8, <1>9, <1>10
  <1> QED BY <1>11 DEF G

\* A group is as specific as its most specific agent that is ours.
LEMMA HowSpecific ==
    ASSUME NEW g
    PROVE  /\ GroupSpecificity(g) \subseteq {0, 1}
           /\ 1 \in GroupSpecificity(g) <=> ProductToken \in ToSet(g.agents)
           /\ 0 \in GroupSpecificity(g) <=> AnyAgent \in ToSet(g.agents)
  <1>1. /\ AgentSpecificity(AnyAgent) = {0}
        /\ AgentSpecificity(ProductToken) = {1}
        /\ \A a : a # AnyAgent /\ a # ProductToken => AgentSpecificity(a) = {}
    BY DEF AgentSpecificity, AnyAgent, ProductToken
  <1> QED BY <1>1 DEF GroupSpecificity

\* Our own name is the more specific of the two.
LEMMA MoreSpecific ==
    ASSUME NEW S, S \subseteq {0, 1}, S # {}
    PROVE  Max(S) = IF 1 \in S THEN 1 ELSE 0
  <1>1. S \in SUBSET (0..1) /\ 1 \in Nat
    OBVIOUS
  <1>2. PICK k : k = Max(S)
    OBVIOUS
  <1>3. k \in S /\ \A x \in S : x <= k
    BY <1>1, <1>2, Longest
  <1>4. k = IF 1 \in S THEN 1 ELSE 0
    BY <1>3
  <1> QED BY <1>2, <1>4

\* The groups that are read are all those of the name the crawler goes by.
LEMMA GroupsThatAreRead ==
    ASSUME NEW groups, NEW named,
           named <=> \E g \in ToSet(groups) : ProductToken \in ToSet(g.agents)
    PROVE  /\ ~(\A g \in ToSet(groups) : GroupSpecificity(g) = {}) =>
                 SelectedGroups(groups) =
                    {g \in ToSet(groups) : Called(named) \in ToSet(g.agents)}
           /\ (\A g \in ToSet(groups) : GroupSpecificity(g) = {}) =>
                 \A g \in ToSet(groups) : Called(named) \notin ToSet(g.agents)
  <1> DEFINE G == ToSet(groups)
             All == UNION {GroupSpecificity(g) : g \in G}
  <1>1. \A g : /\ GroupSpecificity(g) \subseteq {0, 1}
               /\ 1 \in GroupSpecificity(g) <=> ProductToken \in ToSet(g.agents)
               /\ 0 \in GroupSpecificity(g) <=> AnyAgent \in ToSet(g.agents)
    BY HowSpecific
  <1>2. ASSUME \A g \in G : GroupSpecificity(g) = {}
        PROVE  \A g \in G : Called(named) \notin ToSet(g.agents)
    BY <1>1, <1>2 DEF Called
  <1>3. ASSUME ~(\A g \in G : GroupSpecificity(g) = {})
        PROVE  SelectedGroups(groups) = {g \in G : Called(named) \in ToSet(g.agents)}
    <2>1. All # {} /\ All \subseteq {0, 1} /\ (1 \in All <=> named)
      BY <1>1, <1>3
    <2>2. BestSpecificity(groups) = IF named THEN 1 ELSE 0
      <3>1. BestSpecificity(groups) = Max(All)
        BY DEF BestSpecificity
      <3> HIDE DEF All
      <3> QED BY <2>1, <3>1, MoreSpecific
    <2>3. ASSUME NEW g \in G
          PROVE  (GroupSpecificity(g) # {} /\ Max(GroupSpecificity(g)) = BestSpecificity(groups))
                    <=> Called(named) \in ToSet(g.agents)
      <3>1. GroupSpecificity(g) # {} =>
               Max(GroupSpecificity(g)) = IF 1 \in GroupSpecificity(g) THEN 1 ELSE 0
        BY <1>1, MoreSpecific
      <3>2. 1 \in GroupSpecificity(g) => named
        BY <1>1, <2>3
      <3>3. GroupSpecificity(g) # {} <=> 0 \in GroupSpecificity(g) \/ 1 \in GroupSpecificity(g)
        BY <1>1
      <3>4. Called(named) \in ToSet(g.agents) <=>
               IF named THEN 1 \in GroupSpecificity(g) ELSE 0 \in GroupSpecificity(g)
        BY <1>1 DEF Called
      <3> QED BY <2>2, <3>1, <3>2, <3>3, <3>4
    <2> QED BY <2>3 DEF SelectedGroups
  <1> QED BY <1>2, <1>3

\* The name of the crawler is on a line when it is its only agent.
LEMMA NamedOnALine ==
    ASSUME NEW Words, NEW lines, IsFileOf(Words, lines), NEW i \in 1..Len(lines)
    PROVE  ProductToken \in ToSet(lines[i].agent) <=> lines[i].agent = <<ProductToken>>
  <1>1. lines[i].agent \in Seq(Words)
    <2>1. lines[i] \in RobotsLine(Words)
      BY DEF IsFileOf
    <2> QED BY <2>1 DEF RobotsLine
  <1>2. lines[i].agent = <<>> \/ Len(lines[i].agent) = 1
    BY DEF IsFileOf
  <1>3. ASSUME NEW s \in Seq(Words), s = <<>> \/ Len(s) = 1
        PROVE  ProductToken \in ToSet(s) <=> s = <<ProductToken>>
    <2>1. CASE s = <<>>
      BY <2>1 DEF ToSet
    <2>2. CASE Len(s) = 1
      <3>1. DOMAIN s = {1} /\ s = <<s[1]>>
        BY <2>2
      <3> QED BY <3>1 DEF ToSet
    <2> QED BY <1>3, <2>1, <2>2
  <1> QED BY <1>1, <1>2, <1>3

\* A file that can be read is evaluated.
LEMMA ReadableIsEvaluated ==
    ASSUME NEW response, NEW path,
           response.status \in 200..299, ~response.tooLarge, response.utf8
    PROVE  RobotsResponseDecision(response, path) = EvaluateRobots(response.lines, path)
  <1> DEFINE denied == response.status \in {401, 403}
             absent == response.status \in 400..499
             found  == response.status \in 200..299
  <1>1. ~denied /\ ~absent /\ found
    OBVIOUS
  <1>2. RobotsResponseDecision(response, path) =
           IF denied THEN RobotsDecision(FALSE, "robots_access_denied", NoDelay)
           ELSE IF absent THEN RobotsDecision(TRUE, "robots_unavailable", NoDelay)
           ELSE IF ~found THEN RobotsDecision(FALSE, "robots_unreachable", NoDelay)
           ELSE IF response.tooLarge THEN RobotsDecision(FALSE, "robots_too_large", NoDelay)
           ELSE IF ~response.utf8 THEN RobotsDecision(FALSE, "robots_invalid_utf8", NoDelay)
           ELSE EvaluateRobots(response.lines, path)
    BY Zenon DEF RobotsResponseDecision
  <1> HIDE DEF denied, absent, found
  <1> QED BY <1>1, <1>2, Zenon

\* The same for the RFC, where a rule ends it only.
LEMMA LastRules ==
    ASSUME NEW lines, NEW rule \in Nat \ {0}
    PROVE  /\ LastRuleBefore(lines, rule) \in 0..(rule - 1)
           /\ \A i \in RulesBefore(lines, rule) : i <= LastRuleBefore(lines, rule)
           /\ LastRuleBefore(lines, rule) # 0 =>
                 LastRuleBefore(lines, rule) \in RulesBefore(lines, rule)
  <1>1. RulesBefore(lines, rule) \in SUBSET (0..(rule - 1)) /\ rule - 1 \in Nat
    BY LastLines DEF RulesBefore
  <1>2. 0 \in 0..(rule - 1)
    OBVIOUS
  <1> QED BY <1>1, <1>2, Longest DEF LastRuleBefore

\* Where no delay stands alone between agents, both readings put a rule under
\* the same names: no agent line is between the last directive and the last rule.
LEMMA ReadingsAgree ==
    ASSUME NEW Words, NEW lines, IsFileOf(Words, lines), DelaysKeepAside(lines),
           NEW rule \in 1..Len(lines)
    PROVE  ListedOver(lines, rule) = StandsUnder(lines, rule)
  <1> DEFINE A == LastAgentLine(lines, rule)
             D == LastDirectiveBefore(lines, rule)
             R == LastRuleBefore(lines, rule)
  <1>1. /\ A \in 0..(rule - 1) /\ D \in 0..(rule - 1) /\ R \in 0..(rule - 1)
        /\ \A i \in DirectivesBefore(lines, rule) : i <= D
        /\ \A i \in RulesBefore(lines, rule) : i <= R
        /\ D # 0 => D \in DirectivesBefore(lines, rule)
        /\ R # 0 => R \in RulesBefore(lines, rule)
        /\ A # 0 => IsAgentLine(lines[A])
    BY LastLines, LastRules
  <1>0. /\ Len(lines) \in Nat
        /\ \A i \in 1..Len(lines) : lines[i].agent = <<>> \/ IsAgentLine(lines[i])
    BY DEF IsFileOf
  <1>2. RulesBefore(lines, rule) \subseteq DirectivesBefore(lines, rule)
    BY DEF RulesBefore, DirectivesBefore, IsRuleLine, IsDirective
  <1>3. R <= D
    BY <1>1, <1>2
  <1> HIDE DEF A, D, R
  <1>4. ASSUME NEW j \in AgentLinesAbove(lines, rule), j > R PROVE j > D
    <2>1. SUFFICES ASSUME ~(j > D) PROVE FALSE
      OBVIOUS
    <2>2. j \in 1..(rule - 1) /\ IsAgentLine(lines[j]) /\ j <= D /\ D # 0
      BY <1>1, <2>1 DEF AgentLinesAbove
    <2>3. /\ D \in 1..(A - 1) /\ IsDirective(lines[D])
          /\ \E i \in 1..(D - 1) : lines[i].agent # <<>>
      BY <1>1, <2>2 DEF DirectivesBefore, A
    <2>4. PICK n \in 1..(D - 1) : lines[n].agent # <<>>
      BY <2>3
    <2>5. n \in 1..Len(lines) /\ IsAgentLine(lines[n]) /\ A \in 1..Len(lines) /\ D \in 1..Len(lines)
      <3>1. A # 0 /\ A <= rule - 1 /\ rule - 1 < Len(lines)
        BY <1>0, <1>1, <2>3
      <3>2. n < D /\ D < A /\ n >= 1 /\ D >= 1
        BY <1>1, <2>3, <2>4
      <3>3. n \in 1..Len(lines) /\ A \in 1..Len(lines) /\ D \in 1..Len(lines)
        BY <1>0, <1>1, <2>4, <3>1, <3>2
      <3> QED BY <1>0, <2>4, <3>3
    <2>6. j # D /\ j < D
      BY <2>2, <2>3 DEF IsDirective, IsAgentLine
    <2>7. ASSUME NEW r \in 1..(A - 1), IsRuleLine(lines[r]), \E i \in 1..(r - 1) : lines[i].agent # <<>>
          PROVE  r <= R
      <3>1. r \in RulesBefore(lines, rule)
        BY <2>7 DEF RulesBefore, A
      <3> QED BY <1>1, <3>1
    <2>8. ~IsRuleLine(lines[D])
      <3>1. D > R
        BY <1>1, <1>4, <2>2
      <3> QED BY <1>1, <2>3, <2>7, <3>1
    <2>9. lines[D].field = "crawl-delay"
      BY <2>3, <2>8 DEF IsDirective, IsRuleLine
    \* Between the later of j and n, and A, there is a rule with n above it.
    <2>10. ASSUME NEW m \in 1..(D - 1), IsAgentLine(lines[m]), n <= m, j <= m
           PROVE  FALSE
      <3>1. m \in 1..Len(lines) /\ m < D /\ D < A /\ IsAgentLine(lines[A])
        <4>1. m < D /\ D < A /\ 1 <= m
          BY <1>1, <2>3, <2>10
        <4> QED BY <1>0, <1>1, <2>5, <2>10, <4>1
      <3>2. PICK r \in (m + 1)..(A - 1) : IsRuleLine(lines[r])
        BY <2>5, <2>9, <2>10, <3>1 DEF DelaysKeepAside
      <3>3. r \in 1..(A - 1) /\ n \in 1..(r - 1) /\ r > R
        <4>1. A \in Int /\ D \in Int /\ R \in Int
          BY <1>0, <1>1
        <4>2. r > m /\ r < A /\ m \in Int /\ r \in Int /\ n \in Int /\ n >= 1 /\ j \in Int
          BY <2>2, <2>4, <2>10, <3>2, <4>1
        <4>3. j > R /\ j <= m /\ n <= m
          BY <1>4, <2>10
        <4> QED BY <4>1, <4>2, <4>3
      <3>4. r <= R
        BY <2>4, <2>7, <3>2, <3>3
      <3> QED BY <1>1, <3>3, <3>4
    <2>11. CASE n <= j
      BY <1>1, <2>2, <2>6, <2>10, <2>11
    <2>12. CASE j < n
      BY <1>1, <2>2, <2>4, <2>5, <2>10, <2>12
    <2> QED BY <1>1, <2>2, <2>4, <2>11, <2>12
  <1>5. \A j \in AgentLinesAbove(lines, rule) : j > D <=> j > R
    BY <1>1, <1>3, <1>4 DEF AgentLinesAbove
  <1>6. {j \in AgentLinesAbove(lines, rule) : j > D} = {j \in AgentLinesAbove(lines, rule) : j > R}
    BY <1>5
  <1> QED BY <1>6 DEF ListedOver, StandsUnder, D, R

\* Of every robots.txt that can be read and in which no Crawl-delay stands
\* alone between agents, and of every path, the decision is the one of the
\* longest rule that stands under the name of the crawler by RFC 9309: whatever
\* the order of the groups, the number of them and the lines between them.
THEOREM LongestRuleAlwaysDecides ==
    ASSUME NEW response, IsRobotsFile(response.lines), DelaysKeepAside(response.lines), NEW path
    PROVE  LongestRuleDecides(response, path)
  <1> DEFINE lines == response.lines
             named == \E i \in 1..Len(lines) : lines[i].agent = <<ProductToken>>
             mine  == {i \in 1..Len(lines) :
                         /\ lines[i].field \in {"allow", "disallow"} /\ lines[i].pattern # <<>>
                         /\ Called(named) \in ListedOver(lines, i)
                         /\ RuleMatches(lines[i].pattern, path)}
             Weight(i) == PatternSpecificity(lines[i].pattern)
             G        == ToSet(ParseGroups(lines))
             selected == SelectedGroups(ParseGroups(lines))
             matching == {r \in UNION {ToSet(g.rules) : g \in selected} :
                             RuleMatches(r.pattern, path)}
             longest  == {r \in matching :
                             \A other \in matching :
                                PatternSpecificity(other.pattern) <= PatternSpecificity(r.pattern)}
             decided  == \/ mine = {}
                         \/ \E i \in mine : /\ lines[i].field = "allow"
                                            /\ \A j \in mine : Weight(j) <= Weight(i)
             silent   == \A g \in G : GroupSpecificity(g) = {}
  <1>0. PICK Words : IsFileOf(Words, lines)
    BY DEF IsRobotsFile
  <1>1. /\ \A m, r : (\E g \in G : m \in ToSet(g.agents) /\ r \in ToSet(g.rules)) <=>
              \E i \in 1..Len(lines) : /\ IsPermission(lines[i]) /\ m \in ListedOver(lines, i)
                                       /\ r = PermissionRule(lines[i])
        /\ \A m : (\E g \in G : m \in ToSet(g.agents)) <=>
              \E i \in 1..Len(lines) : m \in ToSet(lines[i].agent)
    BY <1>0, GroupsOfTheFile
  <1>2. named <=> \E g \in G : ProductToken \in ToSet(g.agents)
    BY <1>0, <1>1, NamedOnALine
  <1>3. /\ ~silent => selected = {g \in G : Called(named) \in ToSet(g.agents)}
        /\ silent => \A g \in G : Called(named) \notin ToSet(g.agents)
    <2> HIDE DEF named
    <2> QED BY <1>2, GroupsThatAreRead
  <1>4. EvaluateRobots(lines, path).allowed =
           (silent \/ matching = {} \/ \E r \in longest : r.allow)
    BY DEF EvaluateRobots, RobotsDecision
  <1>5. \A r : (\E g \in G : Called(named) \in ToSet(g.agents) /\ r \in ToSet(g.rules)) <=>
           \E i \in 1..Len(lines) : /\ IsPermission(lines[i]) /\ Called(named) \in ListedOver(lines, i)
                                    /\ r = PermissionRule(lines[i])
    BY <1>1
  <1>6. \A i : PermissionRule(lines[i]).allow <=> lines[i].field = "allow"
    BY DEF PermissionRule
  <1>7. \A i : PermissionRule(lines[i]).pattern = lines[i].pattern
    BY DEF PermissionRule
  <1>8. ASSUME silent PROVE EvaluateRobots(lines, path).allowed <=> decided
    <2>1. \A r : ~\E g \in G : Called(named) \in ToSet(g.agents) /\ r \in ToSet(g.rules)
      BY <1>3, <1>8
    <2>2. mine = {}
      <3> HIDE DEF named, G
      <3> QED BY <1>5, <2>1 DEF IsPermission
    <2> QED BY <1>4, <1>8, <2>2
  <1>9. ASSUME ~silent PROVE EvaluateRobots(lines, path).allowed <=> decided
    <2>1. \A r : r \in matching <=> \E i \in mine : r = PermissionRule(lines[i])
      <3>1. selected = {g \in G : Called(named) \in ToSet(g.agents)}
        BY <1>3, <1>9
      <3> HIDE DEF named, G, selected
      <3> QED BY <1>5, <1>7, <3>1 DEF IsPermission
    <2>2. matching = {} <=> mine = {}
      BY <2>1
    <2>3. (\E r \in longest : r.allow) <=>
             \E i \in mine : lines[i].field = "allow" /\ \A j \in mine : Weight(j) <= Weight(i)
      <3> HIDE DEF mine, matching
      <3> QED BY <1>6, <1>7, <2>1
    <2> QED BY <1>4, <1>9, <2>2, <2>3
  <1>10. EvaluateRobots(lines, path).allowed <=> decided
    BY <1>8, <1>9
  <1>11. ASSUME response.status \in 200..299, ~response.tooLarge, response.utf8
         PROVE  RobotsResponseDecision(response, path) = EvaluateRobots(lines, path)
    BY <1>11, ReadableIsEvaluated
  <1>12. mine = {i \in 1..Len(lines) :
                   /\ lines[i].field \in {"allow", "disallow"} /\ lines[i].pattern # <<>>
                   /\ Called(named) \in StandsUnder(lines, i)
                   /\ RuleMatches(lines[i].pattern, path)}
    <2>1. \A i \in 1..Len(lines) : ListedOver(lines, i) = StandsUnder(lines, i)
      BY <1>0, ReadingsAgree
    <2> HIDE DEF named
    <2> QED BY <2>1
  <1> QED BY <1>10, <1>11, <1>12 DEF LongestRuleDecides, Called

-----------------------------------------------------------------------------
(* Numbers of a text.                                                       *)

NumberGroup == [sep : {"none", "dot", "comma", "space"}, length : Nat, value : Nat]

\* Three digits more.
ThreeMore(before, group) == before * 1000 + group.value

\* The first m groups of a text are a whole number, in groups of three digits;
\* whole[i] is what the first i of them write.
IsWhole(token, m, sep, whole) ==
    /\ whole \in [1..m -> Nat]
    /\ token[1].sep = "none" /\ whole[1] = token[1].value
    /\ \A i \in 2..m : /\ token[i].sep = sep /\ token[i].length = 3
                       /\ whole[i] = ThreeMore(whole[i - 1], token[i])

\* What is written ends with the whole number, or with its decimals.
WithoutDecimals(token, m, whole, written) ==
    /\ Len(token) = m
    /\ written = [mantissa |-> whole[m], places |-> 0]

WithDecimals(token, m, whole, written) ==
    /\ Len(token) = m + 1 /\ token[m + 1].sep = "comma"
    /\ written = [mantissa |-> whole[m] * 10 ^ token[m + 1].length + token[m + 1].value,
                  places   |-> token[m + 1].length]

\* A number with as many groups and decimals as there may be.
IsNumberWith(token, sep, written) ==
    /\ token \in Seq(NumberGroup) /\ written.mantissa \in Nat /\ written.places \in Nat
    /\ \E m \in Nat \ {0} : \E whole :
          /\ IsWhole(token, m, sep, whole)
          /\ WithoutDecimals(token, m, whole, written) \/ WithDecimals(token, m, whole, written)

IsNumberText(token, written) == \E sep \in {"dot", "space"} : IsNumberWith(token, sep, written)

CompactedUpTo(token, n, f) ==
    f = [k \in 0..n |-> IF k = 0 THEN <<>>
                        ELSE IF token[k].sep = "space"
                        THEN [f[k - 1] EXCEPT ![Len(f[k - 1])] = Glue(@, token[k])]
                        ELSE Append(f[k - 1], token[k])]

GluedUpTo(groups, n, f) ==
    f = [k \in 1..n |-> IF k = 1 THEN groups[1].value
                        ELSE f[k - 1] * 10 ^ groups[k].length + groups[k].value]

\* What is kept of a group follows from what is kept of the one before it.
LEMMA EveryGroupIsCompacted ==
    ASSUME NEW token, NEW n \in Nat
    PROVE  \E f : CompactedUpTo(token, n, f)
  <1> DEFINE Lost == {k \in Nat : ~\E f : CompactedUpTo(token, k, f)}
             Step(before, k) == IF token[k].sep = "space"
                                THEN [before EXCEPT ![Len(before)] = Glue(@, token[k])]
                                ELSE Append(before, token[k])
  <1>0. CompactedUpTo(token, 0, [k \in 0..0 |-> <<>>])
    BY DEF CompactedUpTo
  <1>1. 0 \notin Lost
    BY <1>0
  <1>2. ASSUME NEW k \in Nat, k # 0, k - 1 \notin Lost
        PROVE  k \notin Lost
    <2>1. k - 1 \in Nat
      BY <1>2
    <2>2. PICK f : CompactedUpTo(token, k - 1, f)
      BY <1>2, <2>1
    <2> DEFINE g == [i \in 0..k |-> IF i = k THEN Step(f[k - 1], k) ELSE f[i]]
    <2>3. \A i \in 0..k : i = k \/ i \in 0..(k - 1)
      BY <1>2
    <2>a. \A i \in 0..(k - 1) : f[i] = IF i = 0 THEN <<>> ELSE Step(f[i - 1], i)
      BY <2>2 DEF CompactedUpTo
    <2> HIDE DEF Step
    <2>4. \A i \in 0..k : g[i] = IF i = 0 THEN <<>> ELSE Step(g[i - 1], i)
      <3> SUFFICES ASSUME NEW i \in 0..k
                   PROVE  g[i] = IF i = 0 THEN <<>> ELSE Step(g[i - 1], i)
        OBVIOUS
      <3>1. CASE i = k
        <4>1. i - 1 \in 0..k /\ i - 1 # k
          BY <1>2, <3>1
        <4>2. g[i - 1] = f[k - 1]
          BY <3>1, <4>1
        <4> QED BY <1>2, <3>1, <4>2
      <3>2. CASE i # k
        <4>1. i \in 0..(k - 1)
          BY <2>3, <3>2
        <4>2. f[i] = IF i = 0 THEN <<>> ELSE Step(f[i - 1], i)
          BY <2>a, <4>1
        <4>3. g[i] = f[i]
          BY <3>2
        <4>4. i # 0 => i - 1 \in 0..k /\ i - 1 # k
          BY <4>1
        <4>5. i # 0 => g[i - 1] = f[i - 1]
          BY <4>4
        <4> QED BY <4>2, <4>3, <4>5
      <3> QED BY <3>1, <3>2
    <2>5. g = [i \in 0..k |-> g[i]]
      OBVIOUS
    <2> HIDE DEF g
    <2>6. g = [i \in 0..k |-> IF i = 0 THEN <<>> ELSE Step(g[i - 1], i)]
      BY <2>4, <2>5
    <2>7. CompactedUpTo(token, k, g)
      BY <2>6 DEF CompactedUpTo, Step
    <2> QED BY <2>7
  <1>3. Lost = {}
    <2> SUFFICES ASSUME Lost # {} PROVE FALSE
      OBVIOUS
    <2>1. Lost \in SUBSET Nat
      OBVIOUS
    <2> HIDE DEF Lost
    <2>2. PICK k \in Lost : \A m \in Lost : k <= m
      BY <2>1, Least
    <2>3. k \in Nat /\ k # 0
      BY <1>1, <2>1, <2>2
    <2>4. k - 1 \notin Lost
      BY <2>1, <2>2, <2>3
    <2> QED BY <1>2, <2>2, <2>3, <2>4
  <1> QED BY <1>3

\* What is kept of a text, group by group.
LEMMA CompactedGroupByGroup ==
    ASSUME NEW token, Len(token) \in Nat
    PROVE  /\ Compacted(token)[0] = <<>>
           /\ \A k \in 1..Len(token) :
                 Compacted(token)[k] =
                    IF token[k].sep = "space"
                    THEN [Compacted(token)[k - 1] EXCEPT
                            ![Len(Compacted(token)[k - 1])] = Glue(@, token[k])]
                    ELSE Append(Compacted(token)[k - 1], token[k])
  <1> DEFINE done == CHOOSE f : CompactedUpTo(token, Len(token), f)
  <1>1. CompactedUpTo(token, Len(token), done)
    BY EveryGroupIsCompacted
  <1>2. done = Compacted(token)
    BY DEF Compacted, CompactedUpTo
  <1>3. CompactedUpTo(token, Len(token), Compacted(token))
    BY <1>1, <1>2
  <1>4. ASSUME NEW f, CompactedUpTo(token, Len(token), f)
        PROVE  /\ f[0] = <<>>
               /\ \A k \in 1..Len(token) :
                     f[k] = IF token[k].sep = "space"
                            THEN [f[k - 1] EXCEPT ![Len(f[k - 1])] = Glue(@, token[k])]
                            ELSE Append(f[k - 1], token[k])
    <2>1. 0 \in 0..Len(token) /\ \A k \in 1..Len(token) : k \in 0..Len(token) /\ k # 0
      OBVIOUS
    <2> QED BY <1>4, <2>1 DEF CompactedUpTo
  <1> QED BY <1>3, <1>4

\* The number of the first groups follows from the number of those before.
LEMMA EveryGroupIsGlued ==
    ASSUME NEW groups, NEW n \in Nat
    PROVE  \E f : GluedUpTo(groups, n, f)
  <1> DEFINE Lost == {k \in Nat : ~\E f : GluedUpTo(groups, k, f)}
             Step(before, k) == before * 10 ^ groups[k].length + groups[k].value
  <1>0. GluedUpTo(groups, 0, [k \in 1..0 |-> 0])
    <2>1. 1..0 = {}
      OBVIOUS
    <2> QED BY <2>1 DEF GluedUpTo
  <1>1. 0 \notin Lost
    BY <1>0
  <1>2. ASSUME NEW k \in Nat, k # 0, k - 1 \notin Lost
        PROVE  k \notin Lost
    <2>1. k - 1 \in Nat
      BY <1>2
    <2>2. PICK f : GluedUpTo(groups, k - 1, f)
      BY <1>2, <2>1
    <2> DEFINE g == [i \in 1..k |-> IF i = k /\ k # 1 THEN Step(f[k - 1], k)
                                    ELSE IF i = k THEN groups[1].value ELSE f[i]]
    <2>3. \A i \in 1..k : i = k \/ i \in 1..(k - 1)
      BY <1>2
    <2>a. \A i \in 1..(k - 1) : f[i] = IF i = 1 THEN groups[1].value ELSE Step(f[i - 1], i)
      BY <2>2 DEF GluedUpTo
    <2> HIDE DEF Step
    <2>4. \A i \in 1..k : g[i] = IF i = 1 THEN groups[1].value ELSE Step(g[i - 1], i)
      <3> SUFFICES ASSUME NEW i \in 1..k
                   PROVE  g[i] = IF i = 1 THEN groups[1].value ELSE Step(g[i - 1], i)
        OBVIOUS
      <3>1. CASE i = k /\ k # 1
        <4>1. i - 1 \in 1..k /\ i - 1 # k
          BY <1>2, <3>1
        <4>2. g[i - 1] = f[k - 1]
          BY <3>1, <4>1
        <4> QED BY <1>2, <3>1, <4>2
      <3>2. CASE i = k /\ k = 1
        BY <3>2
      <3>3. CASE i # k
        <4>1. i \in 1..(k - 1)
          BY <2>3, <3>3
        <4>2. f[i] = IF i = 1 THEN groups[1].value ELSE Step(f[i - 1], i)
          BY <2>a, <4>1
        <4>3. g[i] = f[i]
          BY <3>3
        <4>4. i # 1 => i - 1 \in 1..k /\ i - 1 # k
          BY <4>1
        <4>5. i # 1 => g[i - 1] = f[i - 1]
          BY <4>4
        <4> QED BY <4>2, <4>3, <4>5
      <3> QED BY <3>1, <3>2, <3>3
    <2>5. g = [i \in 1..k |-> g[i]]
      OBVIOUS
    <2> HIDE DEF g
    <2>6. g = [i \in 1..k |-> IF i = 1 THEN groups[1].value ELSE Step(g[i - 1], i)]
      BY <2>4, <2>5
    <2>7. GluedUpTo(groups, k, g)
      BY <2>6 DEF GluedUpTo, Step
    <2> QED BY <2>7
  <1>3. Lost = {}
    <2> SUFFICES ASSUME Lost # {} PROVE FALSE
      OBVIOUS
    <2>1. Lost \in SUBSET Nat
      OBVIOUS
    <2> HIDE DEF Lost
    <2>2. PICK k \in Lost : \A m \in Lost : k <= m
      BY <2>1, Least
    <2>3. k \in Nat /\ k # 0
      BY <1>1, <2>1, <2>2
    <2>4. k - 1 \notin Lost
      BY <2>1, <2>2, <2>3
    <2> QED BY <1>2, <2>2, <2>3, <2>4
  <1> QED BY <1>3

\* The number that is written, group by group.
LEMMA GluedGroupByGroup ==
    ASSUME NEW groups, Len(groups) \in Nat \ {0}, DOMAIN groups = 1..Len(groups)
    PROVE  /\ Glued(groups)[1] = groups[1].value
           /\ \A k \in 2..Len(groups) :
                 Glued(groups)[k] = Glued(groups)[k - 1] * 10 ^ groups[k].length + groups[k].value
  <1> DEFINE value == CHOOSE f : GluedUpTo(groups, Len(groups), f)
  <1>1. GluedUpTo(groups, Len(groups), value)
    BY EveryGroupIsGlued
  <1>2. value = Glued(groups)
    BY DEF Glued, GluedUpTo
  <1>3. GluedUpTo(groups, Len(groups), Glued(groups))
    BY <1>1, <1>2
  <1>4. ASSUME NEW f, GluedUpTo(groups, Len(groups), f)
        PROVE  /\ f[1] = groups[1].value
               /\ \A k \in 2..Len(groups) :
                     f[k] = f[k - 1] * 10 ^ groups[k].length + groups[k].value
    <2>1. 1 \in 1..Len(groups) /\ \A k \in 2..Len(groups) : k \in 1..Len(groups) /\ k # 1
      OBVIOUS
    <2> QED BY <1>4, <2>1 DEF GluedUpTo
  <1> QED BY <1>3, <1>4

\* One group without a separator writes the number.
OneGroup(groups, number) ==
    \E length \in Nat : groups = <<[sep |-> "none", length |-> length, value |-> number]>>

\* With spaces between its groups a whole number is one group of digits.
LEMMA SpacesAreGluedOver ==
    ASSUME NEW token \in Seq(NumberGroup), NEW m \in Nat \ {0}, m <= Len(token),
           NEW whole, IsWhole(token, m, "space", whole), NEW k \in 1..m
    PROVE  OneGroup(Compacted(token)[k], whole[k])
  <1> DEFINE One(i) == OneGroup(Compacted(token)[i], whole[i])
             Lost == {i \in 1..m : ~One(i)}
  <1>0. Len(token) \in Nat /\ \A i \in 1..m : i \in 1..Len(token) /\ token[i] \in NumberGroup
    OBVIOUS
  <1>1. One(1)
    <2>1. 1 \in 1..Len(token) /\ 1 - 1 = 0 /\ token[1] \in NumberGroup
      BY <1>0
    <2>2. token[1].sep = "none" /\ whole[1] = token[1].value
      BY DEF IsWhole
    <2>3. Compacted(token)[1] = Append(<<>>, token[1])
      BY <1>0, <2>1, <2>2, CompactedGroupByGroup
    <2>4. Compacted(token)[1] = <<token[1]>>
      BY <2>3
    <2>5. /\ token[1] = [sep |-> "none", length |-> token[1].length, value |-> whole[1]]
          /\ token[1].length \in Nat
      BY <2>1, <2>2 DEF NumberGroup
    <2> QED BY <2>4, <2>5 DEF OneGroup
  <1>2. ASSUME NEW i \in 2..m, One(i - 1)
        PROVE  One(i)
    <2>1. i \in 1..Len(token) /\ i - 1 \in 1..m
      BY <1>0
    <2>a. token[i].sep = "space" /\ token[i].length = 3 /\ whole[i] = ThreeMore(whole[i - 1], token[i])
      BY Zenon DEF IsWhole
    <2>2. token[i].sep = "space" /\ token[i].length = 3 /\ whole[i] = whole[i - 1] * 1000 + token[i].value
      BY <2>a DEF ThreeMore
    <2>3. PICK length \in Nat :
             Compacted(token)[i - 1] = <<[sep |-> "none", length |-> length, value |-> whole[i - 1]]>>
      BY <1>2 DEF OneGroup
    <2> DEFINE before == Compacted(token)[i - 1]
    <2>4. Compacted(token)[i] = [before EXCEPT ![Len(before)] = Glue(@, token[i])]
      BY <1>0, <2>1, <2>2, CompactedGroupByGroup
    <2>5. before = <<before[1]>> /\ Len(before) = 1
          /\ before[1] = [sep |-> "none", length |-> length, value |-> whole[i - 1]]
      BY <2>3
    <2> HIDE DEF before
    <2>6. Compacted(token)[i] = <<Glue(before[1], token[i])>>
      <3>1. [before EXCEPT ![1] = Glue(@, token[i])] = <<Glue(before[1], token[i])>>
        BY <2>5
      <3> QED BY <2>4, <2>5, <3>1
    <2>7. 10 ^ token[i].length = 1000
      <3>1. 10 ^ 3 = 1000
        OBVIOUS
      <3> QED BY <2>2, <3>1
    <2>8. Glue(before[1], token[i]) = [sep |-> "none", length |-> length + 3, value |-> whole[i]]
      <3> DEFINE first == before[1]
      <3>1. first = [sep |-> "none", length |-> length, value |-> whole[i - 1]]
        BY <2>5
      <3> HIDE DEF first
      <3>2. Glue(first, token[i]) = [sep |-> "none", length |-> length + 3, value |-> whole[i]]
        <4> DEFINE sum == first.length + token[i].length
                   all == first.value * 10 ^ token[i].length + token[i].value
        <4>1. sum = length + 3 /\ all = whole[i]
          BY <2>2, <2>7, <3>1
        <4>2. Glue(first, token[i]) = [sep |-> first.sep, length |-> sum, value |-> all]
          BY DEF Glue, Digits
        <4> HIDE DEF sum, all
        <4> QED BY <3>1, <4>1, <4>2
      <3> QED BY <3>2 DEF first
    <2>9. length + 3 \in Nat
      OBVIOUS
    <2> QED BY <2>6, <2>8, <2>9 DEF OneGroup
  <1>3. Lost = {}
    <2> SUFFICES ASSUME Lost # {} PROVE FALSE
      OBVIOUS
    <2>1. Lost \in SUBSET Nat /\ Lost \subseteq 1..m /\ \A i \in 1..m : i \in Lost <=> ~One(i)
      OBVIOUS
    <2> HIDE DEF Lost, One
    <2>2. PICK i \in Lost : \A j \in Lost : i <= j
      BY <2>1, Least
    <2>3. i \in 1..m /\ i # 1
      BY <1>1, <2>1, <2>2
    <2>4. i \in 2..m /\ i - 1 \in 1..m
      BY <2>3
    <2>5. i - 1 \notin Lost
      BY <2>1, <2>2, <2>4
    <2>6. One(i - 1)
      BY <2>1, <2>4, <2>5
    <2> QED BY <1>2, <2>1, <2>2, <2>4, <2>6
  <1> QED BY <1>3

\* Dots and commas stay where they are.
LEMMA NothingToGlueOver ==
    ASSUME NEW token \in Seq(NumberGroup), \A i \in 1..Len(token) : token[i].sep # "space"
    PROVE  Compact(token) = token
  <1> DEFINE Same(k) == /\ Compacted(token)[k] \in Seq(NumberGroup)
                        /\ Len(Compacted(token)[k]) = k
                        /\ \A i \in 1..k : Compacted(token)[k][i] = token[i]
             Lost == {k \in 0..Len(token) : ~Same(k)}
  <1>0. Len(token) \in Nat
    OBVIOUS
  <1>1. Same(0)
    <2>1. Compacted(token)[0] = <<>>
      BY <1>0, CompactedGroupByGroup
    <2> QED BY <2>1
  <1>2. ASSUME NEW k \in 1..Len(token), Same(k - 1)
        PROVE  Same(k)
    <2> DEFINE before == Compacted(token)[k - 1]
    <2>1. Compacted(token)[k] = Append(before, token[k])
      BY <1>0, CompactedGroupByGroup
    <2>2. token[k] \in NumberGroup
      OBVIOUS
    <2>3. before \in Seq(NumberGroup) /\ Len(before) = k - 1 /\ \A i \in 1..(k - 1) : before[i] = token[i]
      BY <1>2
    <2> HIDE DEF before
    <2>4. /\ Append(before, token[k]) \in Seq(NumberGroup)
          /\ Len(Append(before, token[k])) = k
          /\ \A i \in 1..k : Append(before, token[k])[i] = token[i]
      BY <2>2, <2>3
    <2> QED BY <2>1, <2>4
  <1>3. Lost = {}
    <2> SUFFICES ASSUME Lost # {} PROVE FALSE
      OBVIOUS
    <2>1. /\ Lost \in SUBSET Nat /\ Lost \subseteq 0..Len(token)
          /\ \A i \in 0..Len(token) : i \in Lost <=> ~Same(i)
      BY <1>0
    <2> HIDE DEF Lost, Same
    <2>2. PICK i \in Lost : \A j \in Lost : i <= j
      BY <2>1, Least
    <2>3. i \in 0..Len(token) /\ i # 0
      BY <1>1, <2>1, <2>2
    <2>4. i \in 1..Len(token) /\ i - 1 \in 0..Len(token)
      BY <1>0, <2>3
    <2>5. i - 1 \notin Lost
      BY <2>1, <2>2, <2>4
    <2>6. Same(i - 1)
      BY <2>1, <2>4, <2>5
    <2> QED BY <1>2, <2>1, <2>2, <2>4, <2>6
  <1>4. Len(token) \in 0..Len(token)
    BY <1>0
  <1>5. Same(Len(token))
    BY <1>3, <1>4
  <1>6. ASSUME NEW s \in Seq(NumberGroup), Len(s) = Len(token),
               \A i \in 1..Len(token) : s[i] = token[i]
        PROVE  s = token
    BY <1>6
  <1> QED BY <1>5, <1>6 DEF Compact

\* What the first groups write, with dots between them.
LEMMA WholeIsGlued ==
    ASSUME NEW groups, NEW m \in Nat \ {0}, Len(groups) \in Nat, m <= Len(groups),
           DOMAIN groups = 1..Len(groups),
           NEW sep, NEW whole, IsWhole(groups, m, sep, whole)
    PROVE  Glued(groups)[m] = whole[m]
  <1> DEFINE Lost == {i \in 1..m : Glued(groups)[i] # whole[i]}
  <1>0. Len(groups) \in Nat \ {0} /\ \A i \in 2..m : i \in 2..Len(groups)
    OBVIOUS
  <1>1. Glued(groups)[1] = whole[1]
    BY <1>0, GluedGroupByGroup DEF IsWhole
  <1>2. ASSUME NEW i \in 2..m, Glued(groups)[i - 1] = whole[i - 1]
        PROVE  Glued(groups)[i] = whole[i]
    <2>1. Glued(groups)[i] = Glued(groups)[i - 1] * 10 ^ groups[i].length + groups[i].value
      BY <1>0, GluedGroupByGroup
    <2>a. groups[i].length = 3 /\ whole[i] = ThreeMore(whole[i - 1], groups[i])
      BY Zenon DEF IsWhole
    <2>2. groups[i].length = 3 /\ whole[i] = whole[i - 1] * 1000 + groups[i].value
      BY <2>a DEF ThreeMore
    <2>3. 10 ^ groups[i].length = 1000
      <3>1. 10 ^ 3 = 1000
        OBVIOUS
      <3> QED BY <2>2, <3>1
    <2> QED BY <1>2, <2>1, <2>2, <2>3
  <1>3. Lost = {}
    <2> SUFFICES ASSUME Lost # {} PROVE FALSE
      OBVIOUS
    <2>1. /\ Lost \in SUBSET Nat /\ Lost \subseteq 1..m
          /\ \A i \in 1..m : i \in Lost <=> Glued(groups)[i] # whole[i]
      OBVIOUS
    <2> HIDE DEF Lost
    <2>2. PICK i \in Lost : \A j \in Lost : i <= j
      BY <2>1, Least
    <2>3. i \in 1..m /\ i # 1
      BY <1>1, <2>1, <2>2
    <2>4. i \in 2..m /\ i - 1 \in 1..m
      BY <2>3
    <2>5. i - 1 \notin Lost
      BY <2>1, <2>2, <2>4
    <2>6. Glued(groups)[i - 1] = whole[i - 1]
      BY <2>1, <2>4, <2>5
    <2> QED BY <1>2, <2>1, <2>2, <2>4, <2>6
  <1> QED BY <1>3

\* Without its spaces a number is written with dots.
LEMMA CompactWritesTheSame ==
    ASSUME NEW token, NEW sep \in {"dot", "space"}, NEW written, IsNumberWith(token, sep, written)
    PROVE  IsNumberWith(Compact(token), "dot", written)
  <1>0. token \in Seq(NumberGroup) /\ written.mantissa \in Nat /\ written.places \in Nat
    BY DEF IsNumberWith
  <1>a. PICK m \in Nat \ {0} : \E whole :
           /\ IsWhole(token, m, sep, whole)
           /\ WithoutDecimals(token, m, whole, written) \/ WithDecimals(token, m, whole, written)
    BY DEF IsNumberWith
  <1>1. PICK whole :
           /\ IsWhole(token, m, sep, whole)
           /\ WithoutDecimals(token, m, whole, written) \/ WithDecimals(token, m, whole, written)
    BY <1>a
  <1>2. Len(token) \in Nat /\ m <= Len(token)
    <2>1. Len(token) = m \/ Len(token) = m + 1
      BY <1>1 DEF WithoutDecimals, WithDecimals
    <2> QED BY <2>1
  <1>3. CASE sep = "dot"
    <2>1. \A i \in 1..Len(token) : token[i].sep # "space"
      <3>1. token[1].sep = "none" /\ \A i \in 2..m : token[i].sep = "dot"
        BY <1>1, <1>3 DEF IsWhole
      <3>2. Len(token) = m \/ (Len(token) = m + 1 /\ token[m + 1].sep = "comma")
        BY <1>1 DEF WithoutDecimals, WithDecimals
      <3>3. \A i \in 1..Len(token) : i = 1 \/ i \in 2..m \/ (Len(token) = m + 1 /\ i = m + 1)
        BY <3>2
      <3> QED BY <3>1, <3>2, <3>3
    <2>2. Compact(token) = token
      BY <1>0, <2>1, NothingToGlueOver
    <2> QED BY <1>3, <2>2
  <1>4. CASE sep = "space"
    <2>1. m \in 1..m
      OBVIOUS
    <2>2. PICK length \in Nat :
             Compacted(token)[m] = <<[sep |-> "none", length |-> length, value |-> whole[m]]>>
      <3>1. IsWhole(token, m, "space", whole)
        BY <1>1, <1>4
      <3>2. OneGroup(Compacted(token)[m], whole[m])
        BY <1>0, <1>2, <2>1, <3>1, SpacesAreGluedOver
      <3> QED BY <3>2 DEF OneGroup
    <2> DEFINE one == [sep |-> "none", length |-> length, value |-> whole[m]]
               sum == [i \in 1..1 |-> whole[m]]
    <2>3. whole[m] \in Nat
      BY <1>1, <2>1 DEF IsWhole
    <2>4. one \in NumberGroup /\ one.sep = "none" /\ one.value = whole[m]
      BY <2>3 DEF NumberGroup
    <2>5. sum \in [1..1 -> Nat] /\ sum[1] = whole[m] /\ 2..1 = {}
      BY <2>3
    <2>a. Compacted(token)[m] = <<one>>
      BY <2>2
    <2> HIDE DEF one, sum
    <2>6. ASSUME NEW s, s[1] = one
          PROVE  IsWhole(s, 1, "dot", sum)
      BY <2>4, <2>5, <2>6 DEF IsWhole
    <2>7. CASE WithoutDecimals(token, m, whole, written)
      <3>1. Compact(token) = <<one>>
        BY <2>a, <2>7, Zenon DEF Compact, WithoutDecimals
      <3>2. <<one>> \in Seq(NumberGroup) /\ Len(<<one>>) = 1 /\ <<one>>[1] = one
        BY <2>4
      <3>3. IsWhole(<<one>>, 1, "dot", sum)
        BY <2>6, <3>2
      <3>4. written = [mantissa |-> sum[1], places |-> 0]
        BY <2>5, <2>7 DEF WithoutDecimals
      <3>5. WithoutDecimals(<<one>>, 1, sum, written)
        BY <3>2, <3>4 DEF WithoutDecimals
      <3>6. IsNumberWith(<<one>>, "dot", written)
        BY <1>0, <3>2, <3>3, <3>5 DEF IsNumberWith
      <3> QED BY <3>1, <3>6
    <2>8. CASE WithDecimals(token, m, whole, written)
      <3> DEFINE last == token[m + 1]
      <3>0. Len(token) = m + 1
        BY <2>8 DEF WithDecimals
      <3>1. m + 1 \in 1..Len(token) /\ (m + 1) - 1 = m /\ last \in NumberGroup
        BY <1>0, <3>0
      <3>2. last.sep = "comma" /\ last.sep # "space"
        BY <2>8 DEF WithDecimals
      <3>3. Compacted(token)[m + 1] = Append(<<one>>, last)
        BY <1>2, <2>a, <3>1, <3>2, CompactedGroupByGroup
      <3> DEFINE groups == Append(<<one>>, last)
      <3>4. Compact(token) = groups
        BY <3>0, <3>3 DEF Compact
      <3>5. written = [mantissa |-> sum[1] * 10 ^ last.length + last.value, places |-> last.length]
        BY <2>5, <2>8 DEF last, WithDecimals
      <3> HIDE DEF last
      <3>6. /\ groups \in Seq(NumberGroup) /\ Len(groups) = 1 + 1
            /\ groups[1] = one /\ groups[1 + 1] = last
        <4>1. <<one>> \in Seq(NumberGroup) /\ Len(<<one>>) = 1 /\ <<one>>[1] = one
          BY <2>4
        <4>2. ASSUME NEW s \in Seq(NumberGroup), Len(s) = 1
              PROVE  /\ Append(s, last) \in Seq(NumberGroup) /\ Len(Append(s, last)) = 1 + 1
                     /\ Append(s, last)[1] = s[1] /\ Append(s, last)[1 + 1] = last
          <5>1. /\ Append(s, last) \in Seq(NumberGroup)
                /\ Len(Append(s, last)) = Len(s) + 1
                /\ \A i \in 1..Len(s) : Append(s, last)[i] = s[i]
                /\ Append(s, last)[Len(s) + 1] = last
            BY <3>1, AppendProperties
          <5>2. 1 \in 1..1
            OBVIOUS
          <5> QED BY <4>2, <5>1, <5>2, Zenon
        <4> QED BY <4>1, <4>2
      <3> HIDE DEF groups
      <3>8. IsWhole(groups, 1, "dot", sum)
        BY <2>6, <3>6
      <3>9. WithDecimals(groups, 1, sum, written)
        BY <3>2, <3>5, <3>6, Zenon DEF WithDecimals
      <3>10. IsNumberWith(groups, "dot", written)
        BY <1>0, <3>6, <3>8, <3>9 DEF IsNumberWith
      <3> QED BY <3>4, <3>10
    <2> QED BY <1>1, <2>7, <2>8
  <1> QED BY <1>3, <1>4

\* Only the decimals stand after a comma.
LEMMA CommaIsTheDecimalSeparator ==
    ASSUME NEW groups, groups \in Seq(NumberGroup), NEW m \in Nat \ {0}, NEW whole,
           IsWhole(groups, m, "dot", whole)
    PROVE  /\ Len(groups) = m =>
                 DecimalSeparator(groups) = "none" /\ ThreeEach(groups)
           /\ Len(groups) = m + 1 /\ groups[m + 1].sep = "comma" =>
                 /\ DecimalSeparator(groups) = "comma" /\ ThreeEach(Front(groups))
                 /\ CountOf(Front(groups), "comma") = 0
  <1>1. /\ groups[1].sep = "none"
        /\ \A i \in 2..m : groups[i].sep = "dot" /\ groups[i].length = 3
    BY DEF IsWhole
  <1>2. DOMAIN groups = 1..Len(groups) /\ Len(groups) \in Nat
    OBVIOUS
  <1>3. ASSUME NEW s, NEW sep, DOMAIN s = 1..Len(s), \A i \in 1..Len(s) : s[i].sep # sep
        PROVE  CountOf(s, sep) = 0
    <2>1. {i \in DOMAIN s : s[i].sep = sep} = {}
      BY <1>3
    <2> QED BY <2>1, FS_EmptySet DEF CountOf
  <1>4. CASE Len(groups) = m
    <2>1. \A i \in 1..m : i = 1 \/ i \in 2..m
      OBVIOUS
    <2>2. CountOf(groups, "comma") = 0
      <3>1. \A i \in 1..Len(groups) : groups[i].sep # "comma"
        BY <1>1, <1>4, <2>1
      <3> QED BY <1>2, <1>3, <3>1
    <2>3. m = 1 => CountOf(groups, "dot") = 0
      <3>1. m = 1 => \A i \in 1..Len(groups) : groups[i].sep # "dot"
        BY <1>1, <1>4
      <3> QED BY <1>2, <1>3, <3>1
    <2>4. m # 1 => Last(groups).length = 3
      <3>1. m # 1 => m \in 2..m
        OBVIOUS
      <3> QED BY <1>1, <1>4, <3>1 DEF Last
    <2>5. DecimalSeparator(groups) = "none"
      BY <2>2, <2>3, <2>4 DEF DecimalSeparator
    <2>6. ThreeEach(groups)
      BY <1>1, <1>4 DEF ThreeEach
    <2> QED BY <1>4, <2>5, <2>6
  <1>5. CASE Len(groups) = m + 1 /\ groups[m + 1].sep = "comma"
    <2>1. \A i \in 1..(m + 1) : i = 1 \/ i \in 2..m \/ i = m + 1
      OBVIOUS
    <2>2. {i \in DOMAIN groups : groups[i].sep = "comma"} = {m + 1}
      <3>1. \A i \in 1..(m + 1) : groups[i].sep = "comma" <=> i = m + 1
        BY <1>1, <1>5, <2>1
      <3>2. m + 1 \in 1..(m + 1)
        OBVIOUS
      <3> QED BY <1>2, <1>5, <3>1, <3>2
    <2>3. CountOf(groups, "comma") = 1
      BY <2>2, FS_Singleton DEF CountOf
    <2>4. DecimalSeparator(groups) = "comma"
      BY <1>5, <2>3 DEF DecimalSeparator, Last
    <2>5. /\ DOMAIN Front(groups) = 1..m /\ Len(Front(groups)) = m
          /\ \A i \in 1..m : Front(groups)[i] = groups[i]
      BY <1>2, <1>5 DEF Front
    <2>6. ThreeEach(Front(groups))
      <3>1. \A i \in 2..m : Front(groups)[i] = groups[i]
        BY <2>5
      <3> QED BY <1>1, <2>5, <3>1 DEF ThreeEach
    <2>7. CountOf(Front(groups), "comma") = 0
      <3>1. \A i \in 1..m : i = 1 \/ i \in 2..m
        OBVIOUS
      <3>2. \A i \in 1..m : Front(groups)[i].sep # "comma"
        BY <1>1, <2>5, <3>1
      <3> QED BY <1>3, <2>5, <3>2
    <2> QED BY <1>5, <2>4, <2>6, <2>7
  <1>6. ~(Len(groups) = m /\ Len(groups) = m + 1)
    OBVIOUS
  <1> QED BY <1>4, <1>5

\* The number in units of its scale.
Scaled(written, scale) ==
    [mantissa |-> written.mantissa * 10 ^ ScaleDigits(scale), places |-> written.places]

\* What is read of a number is the number that is written.
LEMMA ReadAsWritten ==
    ASSUME NEW token, NEW written, IsNumberText(token, written), NEW currency, NEW scale
    PROVE  ParseDecimalToken(token, FALSE, currency, scale) = <<Scaled(written, scale)>>
  <1> DEFINE groups == Compact(token)
  <1>1. IsNumberWith(groups, "dot", written)
    <2>1. PICK sep \in {"dot", "space"} : IsNumberWith(token, sep, written)
      BY DEF IsNumberText
    <2> QED BY <2>1, CompactWritesTheSame
  <1>2. ASSUME ThreeEach(IF DecimalSeparator(groups) = "none" THEN groups ELSE Front(groups)),
               DecimalSeparator(groups) # "none" =>
                   CountOf(Front(groups), DecimalSeparator(groups)) = 0,
               DecimalSeparator(groups) # "dot",
               GluedValue(groups) = written.mantissa,
               written.places = IF DecimalSeparator(groups) = "none" THEN 0
                                ELSE Last(groups).length
        PROVE  ParseDecimalToken(token, FALSE, currency, scale) = <<Scaled(written, scale)>>
    <2> DEFINE separator == DecimalSeparator(groups)
               integer   == IF separator = "none" THEN groups ELSE Front(groups)
    <2>1. ~(separator # "none" /\ CountOf(integer, separator) > 0)
      BY <1>2
    <2> QED BY <1>2, <2>1, Zenon DEF ParseDecimalToken, Scaled
  <1> HIDE DEF groups
  <1>3. groups \in Seq(NumberGroup)
    BY <1>1 DEF IsNumberWith
  <1>a. PICK m \in Nat \ {0} : \E whole :
           /\ IsWhole(groups, m, "dot", whole)
           /\ WithoutDecimals(groups, m, whole, written) \/ WithDecimals(groups, m, whole, written)
    BY <1>1 DEF IsNumberWith
  <1>4. PICK whole :
           /\ IsWhole(groups, m, "dot", whole)
           /\ WithoutDecimals(groups, m, whole, written) \/ WithDecimals(groups, m, whole, written)
    BY <1>a
  <1>5. Len(groups) \in Nat \ {0} /\ m <= Len(groups) /\ DOMAIN groups = 1..Len(groups)
    <2>1. Len(groups) = m \/ Len(groups) = m + 1
      BY <1>4 DEF WithoutDecimals, WithDecimals
    <2> QED BY <1>3, <2>1
  <1>6. Glued(groups)[m] = whole[m]
    BY <1>4, <1>5, WholeIsGlued
  <1>7. CASE WithoutDecimals(groups, m, whole, written)
    <2>1. DecimalSeparator(groups) = "none" /\ ThreeEach(groups)
      BY <1>3, <1>4, <1>7, CommaIsTheDecimalSeparator DEF WithoutDecimals
    <2>2. GluedValue(groups) = written.mantissa /\ written.places = 0
      BY <1>6, <1>7 DEF GluedValue, WithoutDecimals
    <2>3. "none" # "dot"
      OBVIOUS
    <2> QED BY <1>2, <2>1, <2>2, <2>3
  <1>8. CASE WithDecimals(groups, m, whole, written)
    <2>1. /\ DecimalSeparator(groups) = "comma" /\ ThreeEach(Front(groups))
          /\ CountOf(Front(groups), "comma") = 0
      BY <1>3, <1>4, <1>8, CommaIsTheDecimalSeparator DEF WithDecimals
    <2>2. m + 1 \in 2..Len(groups) /\ (m + 1) - 1 = m
      BY <1>8 DEF WithDecimals
    <2>3. Glued(groups)[m + 1] = whole[m] * 10 ^ groups[m + 1].length + groups[m + 1].value
      BY <1>5, <1>6, <2>2, GluedGroupByGroup
    <2>4. GluedValue(groups) = written.mantissa
      BY <1>8, <2>3 DEF GluedValue, WithDecimals
    <2>5. Last(groups).length = written.places
      BY <1>8 DEF Last, WithDecimals
    <2>6. "comma" # "dot" /\ "comma" # "none"
      OBVIOUS
    <2> QED BY <1>2, <2>1, <2>4, <2>5, <2>6
  <1> QED BY <1>4, <1>7, <1>8

\* Every number that is written the Turkish way, of any length, is read as that
\* number, whatever its currency and scale.
THEOREM NumbersAlwaysReadBack ==
    ASSUME NEW token, NEW written, IsNumberText(token, written), NEW currency, NEW scale
    PROVE  NumberReadsBack(token, written, currency, scale)
  <1> DEFINE read == Scaled(written, scale)
  <1>1. ParseDecimalToken(token, FALSE, currency, scale) = <<read>>
    BY ReadAsWritten
  <1>2. written.mantissa \in Nat /\ written.places \in Nat
    BY DEF IsNumberText, IsNumberWith
  <1>3. 10 ^ ScaleDigits(scale) \in Nat
    <2>1. ScaleDigits(scale) \in {0, 3, 6, 9}
      BY DEF ScaleDigits
    <2>a. 10 ^ 0 \in Nat
      BY SMT
    <2>b. 10 ^ 3 \in Nat
      BY SMT
    <2>c. 10 ^ 6 \in Nat
      BY SMT
    <2>d. 10 ^ 9 \in Nat
      BY SMT
    <2>2. 10 ^ 0 \in Nat /\ 10 ^ 3 \in Nat /\ 10 ^ 6 \in Nat /\ 10 ^ 9 \in Nat
      BY <2>a, <2>b, <2>c, <2>d, Zenon
    <2>3. ASSUME NEW n, n \in {0, 3, 6, 9}
          PROVE  10 ^ n \in Nat
      BY <2>2, <2>3, Zenon
    <2> QED BY <2>1, <2>3
  <1>4. written.mantissa * 10 ^ ScaleDigits(scale) \in Nat
    BY <1>2, <1>3
  <1>5. /\ read.mantissa = written.mantissa * 10 ^ ScaleDigits(scale)
        /\ read.places = written.places
    BY DEF Scaled
  <1> HIDE DEF read
  <1>7. SameNumber(read, read)
    <2>1. read.places >= read.places /\ read.places - read.places = 0
      BY <1>2, <1>5
    <2>2. 10 ^ 0 = 1
      OBVIOUS
    <2>3. read.mantissa * 1 = read.mantissa
      BY <1>4, <1>5
    <2> QED BY <2>1, <2>2, <2>3 DEF SameNumber
  <1>8. <<read>> # <<>> /\ <<read>>[1] = read
    OBVIOUS
  <1> QED BY <1>1, <1>7, <1>8 DEF NumberReadsBack, read, Scaled

-----------------------------------------------------------------------------
(* What is asked.                                                           *)

IsPairOfFiles(banks, file) ==
    banks.banks \in Seq(ToSet(banks.banks)) /\ file.sources \in Seq(ToSet(file.sources))

\* Every comparison, text, robots.txt, number and pair of files that is asked
\* is one of those above.
Meant ==
    /\ question.about = "compare" => IsComparison(question.records, question.dimension)
    /\ question.about = "window" =>
          IsValidityText(question.text) /\ IsReference(question.reference)
    /\ question.about = "robots" => IsRobotsFile(question.response.lines)
    /\ question.about = "number" => IsNumberText(question.token, question.written)
    /\ question.about = "registry" => IsPairOfFiles(question.banks, question.file)

\* Short lists.
LEMMA ShortLists ==
    /\ IsList(<<>>) /\ DOMAIN <<>> = {}
    /\ \A x : IsList(<<x>>) /\ \A k \in DOMAIN <<x>> : <<x>>[k] = x
    /\ \A x, y : IsList(<<x, y>>) /\ \A k \in DOMAIN <<x, y>> : <<x, y>>[k] \in {x, y}
    /\ \A x, y, z : IsList(<<x, y, z>>) /\ \A k \in DOMAIN <<x, y, z>> : <<x, y, z>>[k] \in {x, y, z}
  <1>1. DOMAIN <<>> = 1..0 /\ DOMAIN <<>> = {}
    OBVIOUS
  <1>2. \A x : DOMAIN <<x>> = 1..1 /\ \A k \in DOMAIN <<x>> : <<x>>[k] = x
    OBVIOUS
  <1>3. \A x, y : DOMAIN <<x, y>> = 1..2 /\ \A k \in DOMAIN <<x, y>> : <<x, y>>[k] \in {x, y}
    OBVIOUS
  <1>4. \A x, y, z : /\ DOMAIN <<x, y, z>> = 1..3
                     /\ \A k \in DOMAIN <<x, y, z>> : <<x, y, z>>[k] \in {x, y, z}
    OBVIOUS
  <1>5. 0 \in Nat /\ 1 \in Nat /\ 2 \in Nat /\ 3 \in Nat
    OBVIOUS
  <1>6. IsList(<<>>)
    BY <1>1, <1>5 DEF IsList
  <1>7. \A x : IsList(<<x>>)
    BY <1>2, <1>5, Zenon DEF IsList
  <1>8. \A x, y : IsList(<<x, y>>)
    BY <1>3, <1>5, Zenon DEF IsList
  <1>9. \A x, y, z : IsList(<<x, y, z>>)
    BY <1>4, <1>5 DEF IsList
  <1> QED BY <1>1, <1>2, <1>3, <1>4, <1>6, <1>7, <1>8, <1>9, Zenon

\* The record that the others are variants of.
LEMMA PlainRecord ==
    /\ IsRecord(MCRecord)
    /\ \A a : IsList(a) /\ (\A k \in DOMAIN a : a[k].percent \in Nat) =>
              IsRecord([MCRecord EXCEPT !.rates = a])
    /\ \A a : IsList(a) /\ (\A k \in DOMAIN a : IsFee(a[k])) =>
              IsRecord([MCRecord EXCEPT !.fees = a])
    /\ \A a : IsList(a) /\ (\A k \in DOMAIN a : IsReward(a[k])) =>
              IsRecord([MCRecord EXCEPT !.rewards = a])
  <1>1. /\ MCRecord.rates = <<>> /\ MCRecord.fees = <<>> /\ MCRecord.rewards = <<>>
        /\ MCRecord.terms = MCTerms(12)
    BY DEF MCRecord
  <1>2. DOMAIN MCRecord.terms # {} /\ \A k \in DOMAIN MCRecord.terms : MCRecord.terms[k].maximum = 12
    BY <1>1 DEF MCTerms
  <1>3. 12 \in 0..MaxMonths
    BY DEF MaxMonths
  <1>4. IsRecord(MCRecord)
    BY <1>1, <1>2, <1>3, ShortLists, Zenon DEF IsRecord
  <1>5. ASSUME NEW a
        PROVE /\ [MCRecord EXCEPT !.rates = a].rates = a
              /\ [MCRecord EXCEPT !.rates = a].terms = MCRecord.terms
              /\ [MCRecord EXCEPT !.rates = a].fees = MCRecord.fees
              /\ [MCRecord EXCEPT !.rates = a].rewards = MCRecord.rewards
              /\ [MCRecord EXCEPT !.fees = a].fees = a
              /\ [MCRecord EXCEPT !.fees = a].terms = MCRecord.terms
              /\ [MCRecord EXCEPT !.fees = a].rates = MCRecord.rates
              /\ [MCRecord EXCEPT !.fees = a].rewards = MCRecord.rewards
              /\ [MCRecord EXCEPT !.rewards = a].rewards = a
              /\ [MCRecord EXCEPT !.rewards = a].terms = MCRecord.terms
              /\ [MCRecord EXCEPT !.rewards = a].rates = MCRecord.rates
              /\ [MCRecord EXCEPT !.rewards = a].fees = MCRecord.fees
    BY DEF MCRecord
  <1> QED BY <1>4, <1>5, ZenonT(60) DEF IsRecord

\* The lists of rates, of fees and of rewards that are asked about.
LEMMA AskedLists ==
    /\ \A a \in MCRateLists : IsList(a) /\ \A k \in DOMAIN a : a[k].percent \in Nat
    /\ \A a \in MCFeeLists : IsList(a) /\ \A k \in DOMAIN a : IsFee(a[k])
    /\ \A a \in MCRewardLists : IsList(a) /\ \A k \in DOMAIN a : IsReward(a[k])
  <1>1. \A n \in 1..2 : n \in Nat /\ 3 - n \in Nat
    OBVIOUS
  <1>2. \A p, n : MCRate(p, n).percent = n
    BY DEF MCRate
  <1>3. \A a \in MCRateLists : IsList(a) /\ \A k \in DOMAIN a : a[k].percent \in Nat
    <2> TAKE a \in MCRateLists
    <2>1. CASE a = <<>>
      BY <2>1, ShortLists, Zenon
    <2>2. CASE \E p \in {"monthly", "annual"}, n \in 1..2 : a = << MCRate(p, n) >>
      <3>1. PICK p \in {"monthly", "annual"}, n \in 1..2 : a = << MCRate(p, n) >>
        BY <2>2
      <3>2. IsList(a) /\ \A k \in DOMAIN a : a[k] = MCRate(p, n)
        BY <3>1, ShortLists, Zenon
      <3> QED BY <1>1, <1>2, <3>2
    <2>3. CASE \E n \in 1..2 : a = << MCRate("monthly", n), MCRate("annual", 3 - n) >>
      <3>1. PICK n \in 1..2 : a = << MCRate("monthly", n), MCRate("annual", 3 - n) >>
        BY <2>3
      <3>2. \A k \in DOMAIN a : a[k] \in {MCRate("monthly", n), MCRate("annual", 3 - n)}
        BY <3>1, ShortLists, Zenon
      <3>3. IsList(a)
        BY <3>1, ShortLists, Zenon
      <3> QED BY <1>1, <1>2, <3>2, <3>3
    <2> QED BY <2>1, <2>2, <2>3 DEF MCRateLists
  <1>4. /\ IsMoney(<<>>) /\ IsRate(<<>>)
        /\ \A n \in Nat : /\ IsMoney(MCLira(n)) /\ IsMoney(MCDollars(n))
                          /\ MCLira(n) # <<>> /\ MCDollars(n) # <<>>
        /\ \A r : r.percent \in Nat => IsRate(<<r>>)
    BY DEF IsMoney, IsRate, MCLira, MCDollars
  <1>5. \A kind, waived, money, rate :
          IsMoney(money) /\ IsRate(rate) => IsFee(MCFee(kind, waived, money, rate))
    BY DEF MCFee, IsFee
  <1>6. 1 \in Nat /\ 2 \in Nat
    OBVIOUS
  <1>7. [MCRate("annual", 1) EXCEPT !.label = "price"].percent = 1
    BY DEF MCRate
  <1>8. \A f \in MCOneFee : IsFee(f)
    BY <1>4, <1>5, <1>6, <1>7, Zenon DEF MCOneFee
  <1>9. \A a \in MCFeeLists : IsList(a) /\ \A k \in DOMAIN a : IsFee(a[k])
    <2> TAKE a \in MCFeeLists
    <2>1. CASE \E f \in MCOneFee : a = <<f>>
      BY <1>8, <2>1, ShortLists, Zenon
    <2>2. CASE \E n \in 1..2 : a = << MCFee("card", FALSE, MCLira(n), <<>>),
                                      MCFee("wire", FALSE, MCLira(3 - n), <<>>) >>
      <3>1. PICK n \in 1..2 : a = << MCFee("card", FALSE, MCLira(n), <<>>),
                                     MCFee("wire", FALSE, MCLira(3 - n), <<>>) >>
        BY <2>2
      <3>2. \A k \in DOMAIN a : a[k] \in {MCFee("card", FALSE, MCLira(n), <<>>),
                                          MCFee("wire", FALSE, MCLira(3 - n), <<>>)}
        BY <3>1, ShortLists, Zenon
      <3>3. IsList(a)
        BY <3>1, ShortLists, Zenon
      <3> QED BY <1>1, <1>4, <1>5, <3>2, <3>3, Zenon
    <2> QED BY <2>1, <2>2, Zenon DEF MCFeeLists
  <1>10. \A money, rate, spend :
           IsMoney(money) /\ IsRate(rate) => IsReward(MCReward(money, rate, spend))
    BY DEF MCReward, IsReward, Absent
  <1>11. \A a \in MCRewardLists : IsList(a) /\ \A k \in DOMAIN a : IsReward(a[k])
    <2> TAKE a \in MCRewardLists
    <2>1. \E money, rate, spend :
             IsMoney(money) /\ IsRate(rate) /\ a = << MCReward(money, rate, spend) >>
      BY <1>2, <1>4, <1>6 DEF MCRewardLists
    <2>2. PICK money, rate, spend :
             IsMoney(money) /\ IsRate(rate) /\ a = << MCReward(money, rate, spend) >>
      BY <2>1
    <2>3. IsReward(MCReward(money, rate, spend))
      BY <1>10, <2>2, Zenon
    <2>4. IsList(a) /\ \A k \in DOMAIN a : a[k] = MCReward(money, rate, spend)
      BY <2>2, ShortLists, Zenon
    <2> QED BY <2>3, <2>4
  <1> QED BY <1>3, <1>9, <1>11

\* The day a page of a run was read.
LEMMA AskedReferences == \A reference \in MCReferences : IsReference(reference)
  <1>1. 2024 \in Years /\ 12 \in 1..12
    BY DEF Years
  <1>2. LastDayOf(2024, 12) = 31
    BY DEF LastDayOf
  <1>3. Date(2024, 12, 20) \in DatePart
    BY DEF Date, DatePart
  <1>4. IsRealDate(Date(2024, 12, 20))
    BY <1>1, <1>2 DEF IsRealDate, Date
  <1> QED BY <1>3, <1>4 DEF IsReference, MCReferences

\* What its text says.
LEMMA AskedTexts ==
    \A text \in MCTwoDates \cup MCOneDate \cup MCMonths : IsValidityText(text)
  <1>1. \A a \in MCDates : a \in DatePart
    BY DEF MCDates, Date, DatePart, NotGiven
  <1>2. /\ <<>> \in Seq(DatePart)
        /\ \A a \in DatePart : <<a>> \in Seq(DatePart)
        /\ \A a, b \in DatePart : <<a, b>> \in Seq(DatePart)
    OBVIOUS
  <1>3. ASSUME NEW dates \in Seq(DatePart), NEW roles
        PROVE IsValidityText(MCDated(dates, roles))
    <2>1. MCDated(dates, roles).dates = dates /\ MCDated(dates, roles).fullMonth = <<>>
      BY DEF MCDated, MCValidityText
    <2> QED BY <2>1, Zenon DEF IsValidityText
  <1>4. \A text \in MCTwoDates \cup MCOneDate : IsValidityText(text)
    <2>1. ASSUME NEW text \in MCTwoDates
          PROVE IsValidityText(text)
      <3>1. PICK a \in MCDates, b \in MCDates : text = MCDated(<<a, b>>, {})
        BY <2>1 DEF MCTwoDates
      <3>2. <<a, b>> \in Seq(DatePart)
        BY <1>1, <1>2
      <3> QED BY <1>3, <3>1, <3>2, Zenon
    <2>2. ASSUME NEW text \in MCOneDate
          PROVE IsValidityText(text)
      <3>1. PICK a \in MCDates, roles \in SUBSET {"until", "from"} : text = MCDated(<<a>>, roles)
        BY <2>2 DEF MCOneDate
      <3>2. <<a>> \in Seq(DatePart)
        BY <1>1, <1>2
      <3> QED BY <1>3, <3>1, <3>2, Zenon
    <2> QED BY <2>1, <2>2, Zenon
  <1>5. ASSUME NEW month, NEW first, NEW second
        PROVE IsValidityText(MCSameMonth(month, first, second))
    <2> DEFINE text == MCSameMonth(month, first, second)
    <2>1. text.dates = <<>> /\ text.fullMonth = <<>>
      BY DEF MCSameMonth, MCValidityText
    <2> QED BY <1>2, <2>1, Zenon DEF IsValidityText
  <1>6. ASSUME NEW year \in {0, 2024, 2025}, NEW month \in {2, 12}
        PROVE IsValidityText(MCFullMonth(year, month))
    <2> DEFINE text == MCFullMonth(year, month)
    <2>1. /\ text.dates = <<>> /\ text.fullMonth[1].year = year
          /\ text.fullMonth[1].month = month
      BY DEF MCFullMonth, MCValidityText
    <2>2. year \in TextYears /\ month \in 1..12
      BY DEF TextYears, Years
    <2> HIDE DEF text
    <2>3. IsValidityText(text)
      BY <1>2, <2>1, <2>2 DEF IsValidityText
    <2> QED BY <2>3 DEF text
  <1>7. IsValidityText(MCThisMonth)
    BY <1>2 DEF MCThisMonth, MCValidityText, IsValidityText
  <1>8. \A text \in MCMonths : IsValidityText(text)
    BY <1>5, <1>6, <1>7 DEF MCMonths
  <1> QED BY <1>4, <1>8, Zenon

\* Two or three records in a list.
LEMMA ListsOfRecords ==
    /\ \A x, y : IsRecord(x) /\ IsRecord(y) =>
          IsList(<<x, y>>) /\ \A k \in DOMAIN <<x, y>> : IsRecord(<<x, y>>[k])
    /\ \A x, y, z : IsRecord(x) /\ IsRecord(y) /\ IsRecord(z) =>
          IsList(<<x, y, z>>) /\ \A k \in DOMAIN <<x, y, z>> : IsRecord(<<x, y, z>>[k])
  <1>1. ASSUME NEW x, NEW y, IsRecord(x), IsRecord(y)
        PROVE IsList(<<x, y>>) /\ \A k \in DOMAIN <<x, y>> : IsRecord(<<x, y>>[k])
    BY <1>1, ShortLists
  <1>2. ASSUME NEW x, NEW y, NEW z, IsRecord(x), IsRecord(y), IsRecord(z)
        PROVE IsList(<<x, y, z>>) /\ \A k \in DOMAIN <<x, y, z>> : IsRecord(<<x, y, z>>[k])
    BY <1>2, ShortLists
  <1> QED BY <1>1, <1>2, Zenon

\* A list of records of which each is one, compared in a dimension.
LEMMA AskedComparison ==
    ASSUME NEW dimension \in Dimensions,
           NEW records, IsList(records), \A k \in DOMAIN records : IsRecord(records[k]),
           question' = Compare(records, dimension)
    PROVE Meant'
  BY DEF Meant, Compare, IsComparison

\* The files that are asked are lists of banks and of sources.
LEMMA AskedFiles ==
    \A banks \in Files!MCBankFiles, file \in Files!MCSourceFiles : IsPairOfFiles(banks, file)
  <1> TAKE banks \in Files!MCBankFiles, file \in Files!MCSourceFiles
  <1>1. banks.banks \in Seq(ToSet(banks.banks))
    <2>1. \E a, b : banks.banks = <<a, b>>
      BY DEF Files!MCBankFiles
    <2> QED BY <2>1, PairsAsSets
  <1>2. \E n \in Nat : file.sources \in [1..n -> Files!MCSources]
    <2> DEFINE twos   == [1..2 -> Files!MCSources]
               threes == {s \in [1..3 -> Files!MCSources] :
                            /\ s[1].mode = "detail_links" /\ s[3].bank = "b2"
                            /\ s[3].index.host = "h2"}
    <2>1. file.sources \in twos \/ file.sources \in threes
      <3> HIDE DEF twos, threes
      <3> QED BY DEF Files!MCSourceFiles, twos, threes
    <2>2. 2 \in Nat /\ 3 \in Nat
      OBVIOUS
    <2> QED BY <2>1, <2>2
  <1>3. file.sources \in Seq(ToSet(file.sources))
    <2>1. PICK n \in Nat : file.sources \in [1..n -> Files!MCSources]
      BY <1>2
    <2> DEFINE sources == file.sources
    <2>2. DOMAIN sources = 1..n /\ sources = [i \in 1..n |-> sources[i]]
      BY <2>1
    <2>3. \A i \in 1..n : sources[i] \in ToSet(sources)
      BY <2>2 DEF ToSet
    <2> HIDE DEF sources
    <2>4. sources \in [1..n -> ToSet(sources)]
      BY <2>2, <2>3
    <2>5. sources \in Seq(ToSet(sources))
      BY <2>4
    <2> QED BY <2>5 DEF sources
  <1> QED BY <1>1, <1>3 DEF IsPairOfFiles

\* The names, the fields and the signs of the robots.txt that are asked.
AskedWords == {"user-agent", "allow", "disallow", "crawl-delay", "sitemap",
               "katilim", "*", "other", "/", "a", "b", "$"}

\* The lines of those files.
LEMMA AskedLines ==
    /\ \A l \in Files!MCAgents \cup Files!MCRules :
          /\ l \in RobotsLine(AskedWords)
          /\ l.agent = <<>> \/ (IsAgentLine(l) /\ Len(l.agent) = 1)
  <1>0. \A W : /\ \A x \in W : <<x>> \in Seq(W) /\ Len(<<x>>) = 1
               /\ \A x, y \in W : <<x, y>> \in Seq(W)
               /\ \A x, y, z \in W : <<x, y, z>> \in Seq(W)
               /\ <<>> \in Seq(W)
    OBVIOUS
  <1>w. /\ "user-agent" \in AskedWords /\ "allow" \in AskedWords /\ "disallow" \in AskedWords
        /\ "crawl-delay" \in AskedWords /\ "sitemap" \in AskedWords /\ "katilim" \in AskedWords
        /\ "*" \in AskedWords /\ "other" \in AskedWords /\ "/" \in AskedWords
        /\ "a" \in AskedWords /\ "b" \in AskedWords /\ "$" \in AskedWords
    BY DEF AskedWords
  <1>v. PICK W : W = AskedWords
    OBVIOUS
  <1>n. -1 \in Int /\ 5 \in Int
    OBVIOUS
  <1>1. ASSUME NEW a \in Files!MCAgents
        PROVE  a \in RobotsLine(W) /\ (a.agent = <<>> \/ (IsAgentLine(a) /\ Len(a.agent) = 1))
    <2>1. PICK agent \in {<<"katilim">>, <<"*">>, <<"other">>, <<>>} :
             a = Line("user-agent", agent, <<>>, -1)
      BY DEF Files!MCAgents, Files!ProductToken, Files!AnyAgent, Files!NoDelay, Files!Line, Line
    <2>2. agent = <<>> \/ \E x \in W : agent = <<x>>
      BY <1>v, <1>w
    <2>3. agent \in Seq(W) /\ (agent = <<>> \/ Len(agent) = 1) /\ <<>> \in Seq(W)
      BY <1>0, <2>2
    <2>4. "user-agent" \in W
      BY <1>v, <1>w
    <2>5. a.agent = agent /\ a.field = "user-agent"
      BY <2>1 DEF Line
    <2>6. \A names \in Seq(W) : Line("user-agent", names, <<>>, -1) \in RobotsLine(W)
      BY <1>n, <2>3, <2>4 DEF Line, RobotsLine
    <2>7. a \in RobotsLine(W)
      BY <2>1, <2>3, <2>6
    <2> QED BY <2>3, <2>5, <2>7 DEF IsAgentLine
  <1>2. ASSUME NEW p \in Files!MCPatterns
        PROVE  p \in Seq(W)
    <2>1. \/ p = <<>> \/ p = <<"/", "a">> \/ p = <<"/", "a", "$">>
          \/ p = <<"/", "*", "b">> \/ p = <<"/">>
      BY DEF Files!MCPatterns
    <2>2. /\ <<"/", "a">> \in Seq(W) /\ <<"/", "a", "$">> \in Seq(W)
          /\ <<"/", "*", "b">> \in Seq(W) /\ <<"/">> \in Seq(W) /\ <<>> \in Seq(W)
      BY <1>0, <1>v, <1>w
    <2> QED BY <2>1, <2>2
  <1>3. \A field \in W, pattern \in Seq(W), delay \in Int :
           /\ Line(field, <<>>, pattern, delay) \in RobotsLine(W)
           /\ Line(field, <<>>, pattern, delay).agent = <<>>
    <2>1. <<>> \in Seq(W)
      BY <1>0
    <2> TAKE field \in W, pattern \in Seq(W), delay \in Int
    <2> QED BY <2>1 DEF Line, RobotsLine
  <1>4. ASSUME NEW r \in Files!MCRules
        PROVE  r \in RobotsLine(W) /\ r.agent = <<>>
    <2>1. \/ \E p \in Files!MCPatterns : r = Line("allow", <<>>, p, -1)
          \/ \E p \in Files!MCPatterns : r = Line("disallow", <<>>, p, -1)
          \/ r = Line("crawl-delay", <<>>, <<>>, 5)
          \/ r = Line("sitemap", <<>>, <<>>, -1)
      BY DEF Files!MCRules, Files!MCDelay, Files!Line, Files!NoDelay, Line
    <2>2. /\ "allow" \in W /\ "disallow" \in W /\ "crawl-delay" \in W /\ "sitemap" \in W
          /\ <<>> \in Seq(W)
      BY <1>0, <1>v, <1>w
    <2>3. \A p \in Files!MCPatterns : p \in Seq(W)
      BY <1>2
    <2>4. \E field \in W, pattern \in Seq(W), delay \in Int : r = Line(field, <<>>, pattern, delay)
      <3>1. CASE \E p \in Files!MCPatterns : r = Line("allow", <<>>, p, -1)
        BY <1>n, <2>2, <2>3, <3>1, Zenon
      <3>2. CASE \E p \in Files!MCPatterns : r = Line("disallow", <<>>, p, -1)
        BY <1>n, <2>2, <2>3, <3>2, Zenon
      <3>3. CASE r = Line("crawl-delay", <<>>, <<>>, 5)
        BY <1>n, <2>2, <3>3, Zenon
      <3>4. CASE r = Line("sitemap", <<>>, <<>>, -1)
        BY <1>n, <2>2, <3>4, Zenon
      <3> QED BY <2>1, <3>1, <3>2, <3>3, <3>4, Zenon
    <2> QED BY <1>3, <2>4
  <1>5. \A l \in Files!MCAgents \cup Files!MCRules :
           l \in RobotsLine(W) /\ (l.agent = <<>> \/ (IsAgentLine(l) /\ Len(l.agent) = 1))
    BY <1>1, <1>4
  <1> QED BY <1>5, <1>v

\* The robots.txt that are asked are lists of lines.
LEMMA AskedRobots == \A response \in Files!MCResponses : IsRobotsFile(response.lines)
  <1> DEFINE Lines == Files!MCAgents \cup Files!MCRules
  <1>1. ASSUME NEW s \in Seq(Lines)
        PROVE  IsRobotsFile(s)
    <2>1. s \in Seq(RobotsLine(AskedWords))
      BY <1>1, AskedLines
    <2>2. \A i \in 1..Len(s) : s[i] \in Lines
      BY <1>1
    <2>3. IsFileOf(AskedWords, s)
      BY <2>1, <2>2, AskedLines DEF IsFileOf
    <2> QED BY <2>3 DEF IsRobotsFile
  <1>2. ASSUME NEW response \in Files!MCResponses
        PROVE  \/ \E a, b \in Files!MCAgents, r, s \in Files!MCRules :
                     response.lines = <<a, r, b, s>>
               \/ \E a, b \in Files!MCAgents, r, s \in Files!MCRules :
                     response.lines = <<a, Files!MCDelay, r, b, s>>
               \/ \E a, b \in Files!MCAgents, r \in Files!MCRules :
                     response.lines = <<a, b, r>>
               \/ response.lines = <<>>
    <2>1. \A status, lines : Files!MCResponse(status, lines).lines = lines
      BY DEF Files!MCResponse
    <2>2. /\ [Files!MCResponse(200, <<>>) EXCEPT !.tooLarge = TRUE].lines = <<>>
          /\ [Files!MCResponse(200, <<>>) EXCEPT !.utf8 = FALSE].lines = <<>>
      BY DEF Files!MCResponse
    <2>3. CASE response \in Files!MCBlocks
      <3>1. PICK a \in Files!MCAgents, b \in Files!MCAgents,
                 r \in Files!MCRules, s \in Files!MCRules :
                    response = Files!MCTwoBlocks(a, r, b, s)
        BY <2>3 DEF Files!MCBlocks
      <3>2. response.lines = <<a, r, b, s>>
        BY <2>1, <3>1 DEF Files!MCTwoBlocks
      <3> QED BY <3>2, Zenon
    <2>4. CASE response \in Files!MCDelayed
      <3>1. PICK a \in Files!MCAgents, b \in Files!MCAgents,
                 r \in Files!MCRules, s \in Files!MCRules :
                    response = Files!MCResponse(200, <<a, Files!MCDelay, r, b, s>>)
        BY <2>4 DEF Files!MCDelayed
      <3>2. response.lines = <<a, Files!MCDelay, r, b, s>>
        BY <2>1, <3>1
      <3> QED BY <3>2, Zenon
    <2>5. CASE response \in Files!MCSharing
      <3>1. PICK a \in Files!MCAgents, b \in Files!MCAgents, r \in Files!MCRules :
                    response = Files!MCResponse(200, <<a, b, r>>)
        BY <2>5 DEF Files!MCSharing
      <3>2. response.lines = <<a, b, r>>
        BY <2>1, <3>1
      <3> QED BY <3>2, Zenon
    <2>6. CASE response \in Files!MCUnread
      <3>1. \/ \E status \in {301, 401, 404, 503} : response = Files!MCResponse(status, <<>>)
            \/ response = [Files!MCResponse(200, <<>>) EXCEPT !.tooLarge = TRUE]
            \/ response = [Files!MCResponse(200, <<>>) EXCEPT !.utf8 = FALSE]
        BY <2>6 DEF Files!MCUnread
      <3>2. (\E status \in {301, 401, 404, 503} : response = Files!MCResponse(status, <<>>))
            => response.lines = <<>>
        BY <2>1
      <3>3. (\/ response = [Files!MCResponse(200, <<>>) EXCEPT !.tooLarge = TRUE]
             \/ response = [Files!MCResponse(200, <<>>) EXCEPT !.utf8 = FALSE])
            => response.lines = <<>>
        BY <2>2
      <3> QED BY <3>1, <3>2, <3>3, Zenon
    <2> QED BY <2>3, <2>4, <2>5, <2>6 DEF Files!MCResponses
  <1> HIDE DEF Lines
  <1>3. ASSUME NEW x \in Lines, NEW y \in Lines, NEW z \in Lines
        PROVE  IsRobotsFile(<<x, y, z>>)
    <2>1. <<x, y, z>> \in Seq(Lines)
      OBVIOUS
    <2> QED BY <1>1, <2>1, Zenon
  <1>4. ASSUME NEW x \in Lines, NEW y \in Lines, NEW z \in Lines, NEW t \in Lines
        PROVE  IsRobotsFile(<<x, y, z, t>>)
    <2>1. <<x, y, z, t>> \in Seq(Lines)
      OBVIOUS
    <2> QED BY <1>1, <2>1, Zenon
  <1>7. ASSUME NEW x \in Lines, NEW y \in Lines, NEW z \in Lines, NEW t \in Lines, NEW w \in Lines
        PROVE  IsRobotsFile(<<x, y, z, t, w>>)
    <2>1. <<x, y, z, t, w>> \in Seq(Lines)
      OBVIOUS
    <2> QED BY <1>1, <2>1, Zenon
  <1>5. IsRobotsFile(<<>>)
    <2>1. <<>> \in Seq(Lines)
      OBVIOUS
    <2> QED BY <1>1, <2>1, Zenon
  <1>6. (\A a \in Files!MCAgents : a \in Lines) /\ (\A r \in Files!MCRules : r \in Lines)
    BY DEF Lines
  <1>8. Files!MCDelay \in Lines
    BY DEF Lines, Files!MCRules
  <1> QED BY <1>2, <1>3, <1>4, <1>5, <1>6, <1>7, <1>8, ZenonT(60)

\* The groups of a number that a run asks write it.
LEMMA AskedGroups ==
    ASSUME NEW n \in MCWholes, NEW sep \in MCSeparators
    PROVE  \E m \in Nat \ {0} : \E whole :
              /\ MCGroups(n, sep) \in Seq(NumberGroup) /\ Len(MCGroups(n, sep)) = m
              /\ IsWhole(MCGroups(n, sep), m, sep, whole) /\ whole[m] = n
  <1> DEFINE few   == MCLength(n)
             first == Digits("none", few, n)
  <1>1. CASE n < 1000
    <2>1. few \in Nat /\ n \in Nat
      BY DEF MCWholes, MCLength
    <2>2. MCGroups(n, sep) = <<first>>
      BY <1>1, SMT DEF MCGroups
    <2> HIDE DEF few
    <2>3. first \in NumberGroup /\ first.sep = "none" /\ first.value = n
      BY <2>1 DEF Digits, NumberGroup
    <2> DEFINE whole == [i \in 1..1 |-> n]
    <2>4. whole \in [1..1 -> Nat] /\ whole[1] = n /\ 2..1 = {}
      BY <2>1
    <2> HIDE DEF first, whole
    <2>5. <<first>> \in Seq(NumberGroup) /\ Len(<<first>>) = 1 /\ <<first>>[1] = first
      BY <2>3
    <2>6. IsWhole(<<first>>, 1, sep, whole)
      BY <2>3, <2>4, <2>5 DEF IsWhole
    <2>7. 1 \in Nat \ {0}
      OBVIOUS
    <2> QED BY <2>2, <2>4, <2>5, <2>6, <2>7
  <1>2. CASE ~(n < 1000)
    <2>1. n = 1250
      BY <1>2 DEF MCWholes
    <2> DEFINE one  == Digits("none", 1, 1)
               next == Digits(sep, 3, 250)
    <2>2. MCGroups(n, sep) = <<one, next>>
      <3>1. n < 10000 /\ n \div 1000 = 1 /\ n % 1000 = 250
        BY <2>1
      <3>2. MCLength(n \div 1000) = 1
        BY <3>1 DEF MCLength
      <3> QED BY <1>2, <3>1, <3>2, SMT DEF MCGroups
    <2>3. /\ one \in NumberGroup /\ one.sep = "none" /\ one.value = 1
          /\ next \in NumberGroup /\ next.sep = sep /\ next.value = 250 /\ next.length = 3
      BY DEF Digits, NumberGroup, MCSeparators
    <2> DEFINE whole == [i \in 1..2 |-> IF i = 1 THEN 1 ELSE 1250]
    <2>4. whole \in [1..2 -> Nat] /\ whole[1] = 1 /\ whole[2] = 1250
      OBVIOUS
    <2> HIDE DEF one, next, whole
    <2> DEFINE groups == <<one, next>>
    <2>5. /\ groups \in Seq(NumberGroup) /\ Len(groups) = 2
          /\ groups[1] = one /\ groups[2] = next
      BY <2>3
    <2> HIDE DEF groups
    <2>6. IsWhole(groups, 2, sep, whole)
      <3>1. \A i \in 2..2 : i = 2 /\ i - 1 = 1
        OBVIOUS
      <3>2. whole[2] = ThreeMore(whole[1], groups[2])
        BY <2>3, <2>4, <2>5 DEF ThreeMore
      <3> QED BY <2>3, <2>4, <2>5, <3>1, <3>2 DEF IsWhole
    <2>7. 2 \in Nat \ {0}
      OBVIOUS
    <2> QED BY <2>1, <2>2, <2>4, <2>5, <2>6, <2>7 DEF groups
  <1> QED BY <1>1, <1>2

\* More groups after it change nothing in a whole number.
LEMMA WholeStaysWhole ==
    ASSUME NEW groups, NEW token, NEW m \in Nat \ {0}, NEW sep, NEW whole,
           IsWhole(groups, m, sep, whole), \A i \in 1..m : token[i] = groups[i]
    PROVE  IsWhole(token, m, sep, whole)
  <1>1. 1 \in 1..m /\ \A i \in 2..m : i \in 1..m
    OBVIOUS
  <1>2. token[1] = groups[1] /\ \A i \in 2..m : token[i] = groups[i]
    BY <1>1
  <1> QED BY <1>2, Zenon DEF IsWhole

\* A run asks for numbers written the Turkish way.
LEMMA AskedNumbers ==
    ASSUME NEW n \in MCWholes, NEW sep \in MCSeparators, NEW places \in 0..3,
           NEW decimals \in MCDecimals, NEW currency, NEW scale,
           NEW q, q = MCNumber(n, sep, places, decimals, currency, scale)
    PROVE  q.about = "number" /\ IsNumberText(q.token, q.written)
  <1> DEFINE groups == MCGroups(n, sep)
             tail == IF places = 0 THEN <<>> ELSE << Digits("comma", places, decimals) >>
             mantissa == IF places = 0 THEN n ELSE n * 10 ^ places + decimals
             written == [mantissa |-> mantissa, places |-> places]
             token == groups \o tail
  <1>1. q.about = "number" /\ q.token = token /\ q.written = written
    BY DEF MCNumber
  <1>a. PICK m \in Nat \ {0} : \E whole :
           /\ groups \in Seq(NumberGroup) /\ Len(groups) = m
           /\ IsWhole(groups, m, sep, whole) /\ whole[m] = n
    BY AskedGroups
  <1>2. PICK whole :
           /\ groups \in Seq(NumberGroup) /\ Len(groups) = m
           /\ IsWhole(groups, m, sep, whole) /\ whole[m] = n
    BY <1>a
  <1>3. n \in Nat /\ decimals \in Nat /\ places \in Nat /\ 10 ^ places \in Nat
    <2>1. n \in Nat /\ decimals \in Nat /\ places \in {0, 1, 2, 3}
      BY DEF MCWholes, MCDecimals
    <2>2. 10 ^ 0 \in Nat /\ 10 ^ 1 \in Nat /\ 10 ^ 2 \in Nat /\ 10 ^ 3 \in Nat
      BY SMT
    <2>3. 10 ^ places \in Nat
      BY <2>1, <2>2, Zenon
    <2> QED BY <2>1, <2>3
  <1>4. mantissa \in Nat
    BY <1>3
  <1> DEFINE last == Digits("comma", places, decimals)
  <1>5. /\ last \in NumberGroup /\ last.sep = "comma"
        /\ last.length = places /\ last.value = decimals
    BY <1>3 DEF Digits, NumberGroup
  <1>6. written.mantissa = mantissa /\ written.places = places
    OBVIOUS
  <1>7. sep \in {"dot", "space"}
    BY DEF MCSeparators
  <1>8. IsNumberWith(token, sep, written)
    <2>1. CASE places = 0
      <3>1. tail = <<>> /\ mantissa = n
        BY <2>1
      <3>2. token \in Seq(NumberGroup) /\ Len(token) = m /\ \A i \in 1..m : token[i] = groups[i]
        <4> HIDE DEF groups
        <4>1. groups \o <<>> = groups
          BY <1>2
        <4> QED BY <1>2, <3>1, <4>1, Zenon
      <3> HIDE DEF token, groups, tail
      <3>3. IsWhole(token, m, sep, whole)
        BY <1>2, <3>2, WholeStaysWhole
      <3>4. written = [mantissa |-> whole[m], places |-> 0]
        BY <1>2, <2>1, <3>1
      <3> HIDE DEF written, mantissa
      <3>5. WithoutDecimals(token, m, whole, written)
        BY <3>2, <3>4 DEF WithoutDecimals
      <3> QED BY <1>2, <1>3, <1>4, <1>6, <3>2, <3>3, <3>5, Zenon DEF IsNumberWith
    <2>2. CASE places # 0
      <3>1. tail = <<last>> /\ mantissa = n * 10 ^ places + decimals
        BY <2>2
      <3> HIDE DEF last, groups
      <3>2. /\ token \in Seq(NumberGroup) /\ Len(token) = m + 1
            /\ \A i \in 1..m : token[i] = groups[i]
            /\ token[m + 1] = last
        <4>1. <<last>> \in Seq(NumberGroup) /\ Len(<<last>>) = 1 /\ <<last>>[1] = last
          BY <1>5
        <4>2. ASSUME NEW s \in Seq(NumberGroup), Len(s) = 1
              PROVE  /\ groups \o s \in Seq(NumberGroup) /\ Len(groups \o s) = m + 1
                     /\ \A i \in 1..m : (groups \o s)[i] = groups[i]
                     /\ (groups \o s)[m + 1] = s[1]
          <5>1. /\ groups \o s \in Seq(NumberGroup)
                /\ Len(groups \o s) = Len(groups) + Len(s)
                /\ \A i \in 1 .. Len(groups) + Len(s) : (groups \o s)[i] =
                      IF i <= Len(groups) THEN groups[i] ELSE s[i - Len(groups)]
            BY <1>2, ConcatProperties
          <5>2. /\ \A i \in 1..m : i \in 1..(m + 1) /\ i <= m
                /\ m + 1 \in 1..(m + 1) /\ ~(m + 1 <= m) /\ (m + 1) - m = 1
            OBVIOUS
          <5> QED BY <1>2, <4>2, <5>1, <5>2
        <4> QED BY <3>1, <4>1, <4>2, Zenon
      <3> HIDE DEF token, tail
      <3>3. IsWhole(token, m, sep, whole)
        BY <1>2, <3>2, WholeStaysWhole
      <3>4. written = [mantissa |-> whole[m] * 10 ^ last.length + last.value, places |-> last.length]
        BY <1>2, <1>5, <3>1, Zenon
      <3> HIDE DEF written, mantissa
      <3>5. WithDecimals(token, m, whole, written)
        BY <1>5, <3>2, <3>4, Zenon DEF WithDecimals
      <3> QED BY <1>2, <1>3, <1>4, <1>6, <3>2, <3>3, <3>5, Zenon DEF IsNumberWith
    <2> QED BY <2>1, <2>2
  <1>9. IsNumberText(token, written)
    BY <1>7, <1>8 DEF IsNumberText
  <1> HIDE DEF token, written
  <1> QED BY <1>1, <1>9, Zenon

\* What is asked is what is meant.
LEMMA AskedIsMeant == Spec => []Meant
  <1>1. Init => Meant
    BY DEF Init, Meant, Nothing
  <1>2. Meant /\ [Next]_question => Meant'
    <2> SUFFICES ASSUME Meant, [Next]_question
                 PROVE Meant'
      OBVIOUS
    <2>1. CASE AskRates
      <3>1. PICK a \in MCRateLists, b \in MCRateLists, c \in MCRateLists :
               question' = Compare(<< [MCRecord EXCEPT !.rates = a], [MCRecord EXCEPT !.rates = b],
                                      [MCRecord EXCEPT !.rates = c] >>, "rate")
        BY <2>1, Zenon DEF AskRates
      <3>2. /\ IsRecord([MCRecord EXCEPT !.rates = a]) /\ IsRecord([MCRecord EXCEPT !.rates = b])
            /\ IsRecord([MCRecord EXCEPT !.rates = c])
        BY AskedLists, PlainRecord, Zenon
      <3> DEFINE records == << [MCRecord EXCEPT !.rates = a], [MCRecord EXCEPT !.rates = b],
                               [MCRecord EXCEPT !.rates = c] >>
      <3>3. IsList(records) /\ \A k \in DOMAIN records : IsRecord(records[k])
        BY <3>2, ListsOfRecords, Zenon
      <3>4. "rate" \in Dimensions
        BY DEF Dimensions
      <3> HIDE DEF records
      <3> QED BY <3>1, <3>3, <3>4, AskedComparison, Zenon DEF records
    <2>2. CASE AskFees
      <3>1. PICK a \in MCFeeLists, b \in MCFeeLists, c \in MCFeeLists :
               question' = Compare(<< [MCRecord EXCEPT !.fees = a], [MCRecord EXCEPT !.fees = b],
                                      [MCRecord EXCEPT !.fees = c] >>, "fee")
        BY <2>2, Zenon DEF AskFees
      <3>2. /\ IsRecord([MCRecord EXCEPT !.fees = a]) /\ IsRecord([MCRecord EXCEPT !.fees = b])
            /\ IsRecord([MCRecord EXCEPT !.fees = c])
        BY AskedLists, PlainRecord, Zenon
      <3> DEFINE records == << [MCRecord EXCEPT !.fees = a], [MCRecord EXCEPT !.fees = b],
                               [MCRecord EXCEPT !.fees = c] >>
      <3>3. IsList(records) /\ \A k \in DOMAIN records : IsRecord(records[k])
        BY <3>2, ListsOfRecords, Zenon
      <3>4. "fee" \in Dimensions
        BY DEF Dimensions
      <3> HIDE DEF records
      <3> QED BY <3>1, <3>3, <3>4, AskedComparison, Zenon DEF records
    <2>3. CASE AskRewards
      <3>1. PICK a \in MCRewardLists, b \in MCRewardLists :
               question' = Compare(<< [MCRecord EXCEPT !.rewards = a],
                                      [MCRecord EXCEPT !.rewards = b] >>, "reward")
        BY <2>3, Zenon DEF AskRewards
      <3>2. /\ IsRecord([MCRecord EXCEPT !.rewards = a])
            /\ IsRecord([MCRecord EXCEPT !.rewards = b])
        BY AskedLists, PlainRecord, Zenon
      <3> DEFINE records == << [MCRecord EXCEPT !.rewards = a], [MCRecord EXCEPT !.rewards = b] >>
      <3>3. IsList(records) /\ \A k \in DOMAIN records : IsRecord(records[k])
        BY <3>2, ListsOfRecords, Zenon
      <3>4. "reward" \in Dimensions
        BY DEF Dimensions
      <3> HIDE DEF records
      <3> QED BY <3>1, <3>3, <3>4, AskedComparison, Zenon DEF records
    <2>4. CASE AskTerms
      <3>1. PICK months \in {6, 12}, other \in {6, 12}, channel \in {"unknown", "branch"},
                 observed \in {4, 8}, segments \in {{}, {"retail"}}, ends \in {1, 3},
                 stated \in BOOLEAN, dimension \in {"term", "eligibility"} :
               question' = Compare(<< [MCRecord EXCEPT !.terms = MCTerms(months)],
                                      [MCRecord EXCEPT !.terms = MCTerms(other),
                                         !.channel = channel, !.observed = observed,
                                         !.segments = segments,
                                         !.validity = MCValidity(stated, ends)] >>, dimension)
        BY <2>4 DEF AskTerms
      <3> DEFINE left    == [MCRecord EXCEPT !.terms = MCTerms(months)]
                 right   == [MCRecord EXCEPT !.terms = MCTerms(other),
                               !.channel = channel, !.observed = observed,
                               !.segments = segments, !.validity = MCValidity(stated, ends)]
                 records == <<left, right>>
      <3>2. /\ left.rates = MCRecord.rates /\ left.fees = MCRecord.fees
            /\ left.rewards = MCRecord.rewards
            /\ left.terms = MCTerms(months)
        BY DEF MCRecord
      <3>3. /\ right.rates = MCRecord.rates /\ right.fees = MCRecord.fees
            /\ right.rewards = MCRecord.rewards
            /\ right.terms = MCTerms(other)
        BY DEF MCRecord
      <3>4. ASSUME NEW n \in {6, 12}, NEW r,
                   r.rates = MCRecord.rates, r.fees = MCRecord.fees,
                   r.rewards = MCRecord.rewards,
                   r.terms = MCTerms(n)
            PROVE IsRecord(r)
        <4>1. DOMAIN r.terms # {} /\ \A k \in DOMAIN r.terms : r.terms[k].maximum = n
          BY <3>4 DEF MCTerms
        <4>2. n \in 0..MaxMonths
          BY DEF MaxMonths
        <4> QED BY <3>4, <4>1, <4>2, PlainRecord, Zenon DEF IsRecord
      <3> HIDE DEF left, right
      <3>5. IsRecord(left) /\ IsRecord(right)
        BY <3>2, <3>3, <3>4, Zenon
      <3>6. IsList(records) /\ \A k \in DOMAIN records : IsRecord(records[k])
        BY <3>5, ListsOfRecords, Zenon
      <3>7. dimension \in Dimensions
        BY DEF Dimensions
      <3> HIDE DEF records
      <3> QED BY <3>1, <3>6, <3>7, AskedComparison, Zenon DEF records, left, right
    <2>5. CASE AskWindow
      <3>1. PICK reference \in MCReferences, text \in MCTwoDates \cup MCOneDate \cup MCMonths :
               question' = [about |-> "window", reference |-> reference, text |-> text]
        BY <2>5, Zenon DEF AskWindow
      <3>2. IsReference(reference) /\ IsValidityText(text)
        BY AskedReferences, AskedTexts, Zenon
      <3>3. /\ question'.about = "window" /\ question'.reference = reference
            /\ question'.text = text
        BY <3>1
      <3> QED BY <3>2, <3>3 DEF Meant
    <2>6. CASE AskRegistry
      <3>1. PICK banks \in Files!MCBankFiles, file \in Files!MCSourceFiles :
               question' = [about |-> "registry", banks |-> banks, file |-> file]
        BY <2>6, Zenon DEF AskRegistry
      <3>2. IsPairOfFiles(banks, file)
        BY AskedFiles, Zenon
      <3>3. /\ question'.about = "registry" /\ question'.banks = banks
            /\ question'.file = file
        BY <3>1
      <3> QED BY <3>2, <3>3 DEF Meant
    <2>7. CASE AskTable \/ AskPage \/ AskChat \/ Answer
      <3>1. question'.about \notin {"compare", "window", "robots", "number", "registry"}
        <4>1. CASE AskTable \/ AskPage
          BY <4>1 DEF AskTable, AskPage
        <4>2. CASE AskChat
          BY <4>2 DEF AskChat
        <4>3. CASE Answer
          BY <4>3 DEF Answer, Nothing
        <4> QED BY <2>7, <4>1, <4>2, <4>3
      <3> QED BY <3>1 DEF Meant
    <2>8. CASE AskRobots
      <3>1. PICK response \in Files!MCResponses, path \in Files!MCPaths :
               question' = [about |-> "robots", response |-> response, path |-> path]
        BY <2>8, Zenon DEF AskRobots
      <3>2. IsRobotsFile(response.lines)
        BY AskedRobots, Zenon
      <3>3. question'.about = "robots" /\ question'.response = response
        BY <3>1
      <3> QED BY <3>2, <3>3 DEF Meant
    <2>9. CASE AskNumber
      <3>1. PICK n \in MCWholes, sep \in MCSeparators, places \in 0..3, decimals \in MCDecimals,
                 currency \in {"TRY", "USD"}, scale \in {"none", "bin"} :
               question' = MCNumber(n, sep, places, decimals, currency, scale)
        BY <2>9 DEF AskNumber
      <3>2. /\ question'.about = "number"
            /\ IsNumberText(question'.token, question'.written)
        BY <3>1, AskedNumbers
      <3> QED BY <3>2 DEF Meant
    <2>10. CASE UNCHANGED question
      BY <2>10 DEF Meant
    <2> QED BY <2>1, <2>2, <2>3, <2>4, <2>5, <2>6, <2>7, <2>8, <2>9, <2>10, Zenon DEF Next
  <1> QED BY <1>1, <1>2, PTL DEF Spec

\* Every window that is read from a text of a run is in order.
THEOREM WindowsStayInOrder == Spec => []WindowsInOrder
  <1>1. Meant => WindowsInOrder
    BY WindowsAreAlwaysOrdered, Zenon DEF Meant, WindowsInOrder
  <1> QED BY <1>1, AskedIsMeant, PTL

\* Every ranking of a run is on one scale.
THEOREM ScalesStayOne == Spec => []OneScale
  <1>1. Meant => OneScale
    BY RanksAreOnOneScale, Zenon DEF Meant, OneScale
  <1> QED BY <1>1, AskedIsMeant, PTL

\* No peers of a run turn an order around.
THEOREM OrderIsKept == Spec => []PeersKeepTheOrder
  <1>1. Meant => PeersKeepTheOrder
    BY PeersNeverReverse, Zenon DEF Meant, PeersKeepTheOrder
  <1> QED BY <1>1, AskedIsMeant, PTL

\* No two accepted files of a run leave a page without its bank.
THEOREM PagesKeepTheirBank == Spec => []PagesHaveTheirBank
  <1>1. Meant => PagesHaveTheirBank
    BY PagesBelongToOneBank, Zenon DEF Meant, IsPairOfFiles, PagesHaveTheirBank
  <1> QED BY <1>1, AskedIsMeant, PTL

\* Every decision of a run about a page is the one of the longest rule for it,
\* if no delay stands alone between agents.
THEOREM RobotsStayObeyed == Spec => []RobotsAreObeyed
  <1>1. Meant => RobotsAreObeyed
    BY LongestRuleAlwaysDecides, Zenon DEF Meant, RobotsAreObeyed
  <1> QED BY <1>1, AskedIsMeant, PTL

\* Every number of a run is read as it is written.
THEOREM NumbersStayReadBack == Spec => []NumbersReadBack
  <1>1. Meant => NumbersReadBack
    BY NumbersAlwaysReadBack, Zenon DEF Meant, NumbersReadBack
  <1> QED BY <1>1, AskedIsMeant, PTL
================================================================================
