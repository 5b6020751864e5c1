----------------------------- MODULE DeviceClock -----------------------------
(***************************************************************************)
(* The time a clock command carries, in the scanner's zone:                *)
(* encodeZKDateTime and its inverse, adms_clock.go.  ZKTeco packs a date   *)
(* as if every month had 31 days.  A later command must never set a        *)
(* scanner back.                                                           *)
(***************************************************************************)
EXTENDS Integers

CONSTANTS Years, Months, Days, Hours, Minutes, Seconds  \* the values a field takes

ASSUME FieldAssumption ==
  /\ \A y \in Years : y \in Nat /\ y >= 2000
  /\ \A m \in Months : m \in Nat /\ 1 <= m /\ m <= 12
  /\ \A d \in Days : d \in Nat /\ 1 <= d /\ d <= 31
  /\ \A h \in Hours : h \in Nat /\ h <= 23
  /\ \A m \in Minutes : m \in Nat /\ m <= 59
  /\ \A s \in Seconds : s \in Nat /\ s <= 59

Dates == [year : Years, month : Months, day : Days, hour : Hours, minute : Minutes,
          second : Seconds]

\* s is earlier than t.
Before(s, t) ==
  \/ s.year < t.year
  \/ s.year = t.year /\ s.month < t.month
  \/ s.year = t.year /\ s.month = t.month /\ s.day < t.day
  \/ /\ s.year = t.year /\ s.month = t.month /\ s.day = t.day
     /\ \/ s.hour < t.hour
        \/ s.hour = t.hour /\ s.minute < t.minute
        \/ s.hour = t.hour /\ s.minute = t.minute /\ s.second < t.second

-----------------------------------------------------------------------------
\* Mutation: a month has 30 days.
encodeZKDateTime_months30(t) ==
  LET days == (t.year - 2000) * 360 + (t.month - 1) * 30 + (t.day - 1)
  IN days * 86400 + t.hour * 3600 + t.minute * 60 + t.second

encodeZKDateTime(t) ==
  LET days == (t.year - 2000) * 372 + (t.month - 1) * 31 + (t.day - 1)
  IN days * 86400 + t.hour * 3600 + t.minute * 60 + t.second

\* The fields handed to time.Date, which leaves those of a real date alone.
decodeZKDateTime(value) ==
  LET days      == value \div 86400
      remainder == value % 86400
  IN [year |-> (days \div 372) + 2000, month |-> ((days % 372) \div 31) + 1, day |-> (days % 31) + 1,
      hour |-> remainder \div 3600, minute |-> (remainder % 3600) \div 60, second |-> remainder % 60]

-----------------------------------------------------------------------------
\* No date is lost in the packing: a scanner that unpacks the value sets the
\* time the agent meant (TestZKDateTimeRoundTrips and the comment of
\* decodeZKDateTime).
RoundTrip == \A t \in Dates : decodeZKDateTime(encodeZKDateTime(t)) = t

\* The command collected later carries the larger value: the packed values are
\* ordered as the dates are, across the ends of days, months and years although
\* months are packed as if they had 31 days.
LaterIsLarger == \A s, t \in Dates : Before(s, t) => encodeZKDateTime(s) < encodeZKDateTime(t)
=============================================================================
