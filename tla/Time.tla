-------------------------------- MODULE Time --------------------------------
(***************************************************************************)
(* The arithmetic of Time.cpp and Time.h, and of the identifiers that are  *)
(* made from times (UUID.cpp).  A time is its m_nsecs, with Digits digits  *)
(* to a second.  A broken down time is a record; the calendar and the time *)
(* zones of the C library are external.                                    *)
(***************************************************************************)
EXTENDS Integers, Sequences, SequencesExt, FiniteSetsExt, TLC

CONSTANTS
    Digits,                 \* of a fraction of a second; 9 in the code
    Half                    \* values of half a byte; 16 in the code

SEC_NSECS == 10^Digits
Broken == <<-1>>            \* a failed ASSERT
Overrun == <<-2>>           \* sprintf () writes past the end of its buffer

\* / and % of C++ round towards zero.
Div(a, b) == IF a >= 0 THEN a \div b ELSE -((-a) \div b)
Mod(a, b) == a - b * Div(a, b)

-----------------------------------------------------------------------------
\* Spans: the numbers of whole units, and what the greater unit leaves over.
FromUnits(days, hours, mins, secs, nsecs) ==
    (secs + 60 * (mins + 60 * (hours + 24 * days))) * SEC_NSECS + nsecs

days(t) == Div(Div(t, SEC_NSECS), 86400)
hours(t) == Div(Div(t, SEC_NSECS), 3600)
minutes(t) == Div(Div(t, SEC_NSECS), 60)
seconds(t) == Div(t, SEC_NSECS)
lastHours(t) == hours(t) - days(t) * 24

lastMinutes(t) == minutes(t) - hours(t) * 60
lastSeconds(t) == seconds(t) - minutes(t) * 60
lastNSeconds(t) == Mod(t, SEC_NSECS)

-----------------------------------------------------------------------------
\* The digits of a value below 10^n, n of them.
AsDigits(v, n) == [i \in 1..n |-> (v \div 10^(n - i)) % 10]

Rounded(value, modulus) ==
    LET rem == value % modulus
    IN  value - rem + (IF rem > modulus \div 2 THEN modulus ELSE 0)

nanoformat(t, minwidth, maxwidth) ==
    LET value == Mod(t, SEC_NSECS)
        r == Rounded(value, 10^(Digits - maxwidth))
        all == AsDigits(r, Digits)
        keep == Max({i \in DOMAIN all : all[i] # 0} \cup {minwidth})
    IN  IF ~(1 <= minwidth /\ minwidth <= maxwidth /\ maxwidth <= Digits /\ value >= 0) THEN Broken
        ELSE IF r >= SEC_NSECS THEN Overrun ELSE SubSeq(all, 1, keep)

-----------------------------------------------------------------------------
\* A DOS date is the set of the ones in its 32 bits.
Bits(v, at) == {i + at : i \in {i \in 0..9 : (v \div 2^i) % 2 = 1}} \cap 0..31
Field(d, at, len) == MapThenSumSet(LAMBDA i : 2^(i - at), d \cap at..at + len - 1)

toDosDate(tm) ==
    UNION {Bits(tm.mday, 16), Bits(tm.mon + 1, 21), Bits(IF tm.year > 80 THEN tm.year - 80 ELSE 0, 25),
           Bits(tm.sec \div 2, 0), Bits(tm.min, 5), Bits(tm.hour, 11)}

fromDosDate(d) ==
    [mday |-> Field(d, 16, 5), mon |-> Field(d, 21, 4) - 1, year |-> Field(d, 25, 7) + 80,
     hour |-> Field(d, 11, 5), min |-> Field(d, 5, 6), sec |-> Field(d, 0, 5) * 2]
-----------------------------------------------------------------------------
\* The C library.  A zone is its offset, what summer time adds, and from when
\* until when it does; TmOf () breaks down the seconds a clock shows.
MonthDays == <<31, 28, 31, 30, 31, 30, 31, 31, 30, 31, 30, 31>>
YearStart(y) == 365 * (y - 1970) + (y - 1969) \div 4 - (y - 1901) \div 100 + (y - 1601) \div 400
Long(y) == YearStart(y + 1) - YearStart(y) = 366
MonthStart(y, m) == MapThenSumSet(LAMBDA i : MonthDays[i], 1..m) + (IF m > 1 /\ Long(y) THEN 1 ELSE 0)
Shows(tm) ==
    86400 * (YearStart(tm.year + 1900) + MonthStart(tm.year + 1900, tm.mon) + tm.mday - 1)
        + 3600 * tm.hour + 60 * tm.min + tm.sec

TmOf(secs) ==
    LET day == secs \div 86400
        y == CHOOSE y \in (1969 + day \div 366)..(1971 + day \div 365) : YearStart(y) <= day /\ day < YearStart(y + 1)
        m == Max({m \in 0..11 : YearStart(y) + MonthStart(y, m) <= day})
    IN  [year |-> y - 1900, mon |-> m, mday |-> day - YearStart(y) - MonthStart(y, m) + 1, wday |-> (day + 4) % 7,
         hour |-> (secs \div 3600) % 24, min |-> (secs \div 60) % 60, sec |-> secs % 60]

Summer(z, secs) == z.from <= secs /\ secs < z.to
Offset(z, isdst) == z.std + (IF isdst > 0 THEN z.dst ELSE 0)
gmtime(secs) == TmOf(secs) @@ [isdst |-> 0, gmtoff |-> 0, zone |-> "UTC"]
localtime(z, secs) ==
    LET isdst == IF Summer(z, secs) THEN 1 ELSE 0
    IN  TmOf(secs + Offset(z, isdst)) @@ [isdst |-> isdst, gmtoff |-> Offset(z, isdst), zone |-> z.names[isdst + 1]]

\* Whoever does not say is in summer time wherever that is possible.
mktime(z, tm) ==
    LET isdst == IF tm.isdst >= 0 THEN tm.isdst ELSE IF Summer(z, Shows(tm) - Offset(z, 1)) THEN 1 ELSE 0
    IN  Shows(tm) - Offset(z, isdst)
timegm(tm) == Shows(tm)

-----------------------------------------------------------------------------
\* For a library without timegm (), without tm_gmtoff and without tm_zone.
call_timegm(z, tm) ==
    LET t1 == mktime(z, tm) IN t1 + (t1 - mktime(z, gmtime(t1)))

\* A mutant of gmtoff: the hour of the day as it is in winter.
gmtoffPlain(z, t) ==
    LET utctime == Div(t, SEC_NSECS) IN (utctime - mktime(z, gmtime(utctime))) * SEC_NSECS

gmtoff(z, t) ==
    LET utctime == Div(t, SEC_NSECS)
        gmt == [gmtime(utctime) EXCEPT !.isdst = localtime(z, utctime).isdst]
    IN  (utctime - mktime(z, gmt)) * SEC_NSECS

tzname(z, tm) == z.names[IF tm.isdst > 0 THEN 2 ELSE 1]

\* With them.
split(z, local, t) ==
    LET val == Div(t, SEC_NSECS) IN IF local THEN localtime(z, val) ELSE gmtime(val)
nsecond(t) == Mod(t, SEC_NSECS)
build(z, local, tm, diff) == (IF local THEN mktime(z, tm) ELSE timegm(tm)) * SEC_NSECS + diff
utcoffset(z, t) == split(z, TRUE, t).gmtoff * SEC_NSECS
timezone(z, t) == split(z, TRUE, t).zone

Fields(z, local, t) ==
    LET tm == split(z, local, t)
    IN  [year |-> tm.year + 1900, month |-> tm.mon, day |-> tm.mday, weekday |-> tm.wday,
         hour |-> tm.hour, minute |-> tm.min, second |-> tm.sec, isdst |-> tm.isdst > 0]

\* What the constructor makes of the fields: years after 1900 are taken as such.
TmFrom(f) ==
    [year |-> IF f.year > 1900 THEN f.year - 1900 ELSE f.year, mon |-> f.month, mday |-> f.day,
     hour |-> f.hour, min |-> f.minute, sec |-> f.second, isdst |-> -1]
FromFields(z, f, nsecs, local) == build(z, local, TmFrom(f), nsecs)

isLeap(year) == year % 4 = 0 /\ (year % 100 # 0 \/ year % 400 = 0)

\* operator+= and operator-=; the assertion of the second was meant for x < 0.
Plus(t, x) == IF x >= 0 \/ t >= -x THEN t + x ELSE Broken
Minus(t, x) == IF x < 0 \/ t >= -x THEN t - x ELSE Broken

-----------------------------------------------------------------------------
(* UUID.cpp: identifiers as bytes, as fields and as text.  A byte is two   *)
(* digits to the base Half; a character is a digit, a dash or else.        *)

Dash == -1
Strange == -2
UUIDError == <<>>                       \* what parse () throws
Byte == Half * Half
Number(digits, base) == FoldLeft(LAMBDA v, d : base * v + d, 0, digits)
InBase(v, base, n) == [i \in 1..n |-> (v \div base^(n - i)) % base]

unpack(id) ==
    [timeLow |-> Number(SubSeq(id, 1, 4), Byte), timeMid |-> Number(SubSeq(id, 5, 6), Byte),
     timeHiVer |-> Number(SubSeq(id, 7, 8), Byte), clockSeq |-> Number(SubSeq(id, 9, 10), Byte), node |-> SubSeq(id, 11, 16)]

pack(info) ==
    InBase(info.timeLow, Byte, 4) \o InBase(info.timeMid, Byte, 2) \o InBase(info.timeHiVer, Byte, 2)
    \o InBase(info.clockSeq, Byte, 2) \o info.node

format(id) ==
    LET info == unpack(id)
    IN  InBase(info.timeLow, Half, 8) \o <<Dash>> \o InBase(info.timeMid, Half, 4) \o <<Dash>>
        \o InBase(info.timeHiVer, Half, 4) \o <<Dash>> \o InBase(info.clockSeq, Half, 4) \o <<Dash>>
        \o FlattenSeq([i \in 1..6 |-> InBase(info.node[i], Half, 2)])

parse(text) ==
    IF Len(text) # 36 \/ \E i \in DOMAIN text : IF i \in {9, 14, 19, 24} THEN text[i] # Dash ELSE text[i] < 0
    THEN UUIDError
    ELSE pack([timeLow |-> Number(SubSeq(text, 1, 8), Half), timeMid |-> Number(SubSeq(text, 10, 13), Half),
               timeHiVer |-> Number(SubSeq(text, 15, 18), Half), clockSeq |-> Number(SubSeq(text, 20, 23), Half),
               node |-> [i \in 1..6 |-> Number(SubSeq(text, 23 + 2 * i, 24 + 2 * i), Half)]])

Order(a, b) == IF a < b THEN -1 ELSE 1

compare(a, b) ==
    LET differ == {i \in 1..6 : a.node[i] # b.node[i]}
    IN  CASE a.timeLow # b.timeLow -> Order(a.timeLow, b.timeLow)
          [] a.timeLow = b.timeLow /\ a.timeMid # b.timeMid -> Order(a.timeMid, b.timeMid)
          [] <<a.timeLow, a.timeMid>> = <<b.timeLow, b.timeMid>> /\ a.timeHiVer # b.timeHiVer -> Order(a.timeHiVer, b.timeHiVer)
          [] <<a.timeLow, a.timeMid, a.timeHiVer>> = <<b.timeLow, b.timeMid, b.timeHiVer>> /\ a.clockSeq # b.clockSeq -> Order(a.clockSeq, b.clockSeq)
          [] OTHER -> IF differ = {} THEN 0
                      ELSE LET i == CHOOSE i \in differ : \A j \in differ : i <= j IN Order(a.node[i], b.node[i])

\* The time is an integer of its high half and its low half here.
timeOf(id) == LET info == unpack(id) IN <<info.timeMid + (info.timeHiVer % Half^3) * Byte^2, info.timeLow>>
type(id) == id[7] \div Half
variant(id) ==
    CASE id[9] < Byte \div 2 -> "NCS"
      [] id[9] >= Byte \div 2 /\ (id[9] % (Byte \div 2)) < Byte \div 4 -> "DCE"
      [] OTHER -> "other"

\* generateRandom () of sixteen random bytes, and the fields of generateTime ().
RandomOf(id) ==
    LET info == unpack(id)
    IN  pack([info EXCEPT !.clockSeq = (@ % (Byte^2 \div 4)) + (Byte^2 \div 2), !.timeHiVer = (@ % Half^3) + 4 * Half^3])
=============================================================================
