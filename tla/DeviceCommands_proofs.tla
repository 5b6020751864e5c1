------------------------ MODULE DeviceCommands_proofs ------------------------
(***************************************************************************)
(* The ordinary commands of scanners, for any number of commands,          *)
(* scanners, requests at once and moments, and the packing of dates they   *)
(* rely on.                                                                *)
(*                                                                         *)
(* Packed dates are numbers in mixed radix, so the packing can be undone   *)
(* and keeps the order.  That a cloud command is in cloudCmdID exactly     *)
(* while it is in hand needs to know that it is in one place: no two       *)
(* places of a process hold entries with the same local id (UniqueIDs).    *)
(***************************************************************************)
EXTENDS DeviceCommands, TLAPS

\* The three digits of the time of day.
LEMMA SecondsUnpack ==
  ASSUME NEW h \in Nat, NEW m \in Nat, NEW s \in Nat, h <= 23, m <= 59, s <= 59
  PROVE  LET z == h * 3600 + m * 60 + s
         IN /\ z \in Nat /\ z <= 86399
            /\ z \div 3600 = h /\ (z % 3600) \div 60 = m /\ z % 60 = s
OBVIOUS

\* The three digits of the day.
LEMMA DaysUnpack ==
  ASSUME NEW y \in Nat, NEW m \in Nat, NEW d \in Nat, m <= 11, d <= 30
  PROVE  LET z == y * 372 + m * 31 + d
         IN /\ z \in Nat
            /\ z \div 372 = y /\ (z % 372) \div 31 = m /\ z % 31 = d
OBVIOUS

\* The day and the time of day.
LEMMA ValueUnpack ==
  ASSUME NEW q \in Nat, NEW r \in Nat, r <= 86399
  PROVE  (q * 86400 + r) \div 86400 = q /\ (q * 86400 + r) % 86400 = r
OBVIOUS

\* The fields of a date, counted from zero, are digits of that number.
LEMMA Fields ==
  ASSUME NEW t \in Dates
  PROVE  /\ t.year \in Nat /\ t.month \in Nat /\ t.day \in Nat
         /\ t.year - 2000 \in Nat
         /\ t.month - 1 \in Nat /\ t.month - 1 <= 11
         /\ t.day - 1 \in Nat /\ t.day - 1 <= 30
         /\ t.hour \in Nat /\ t.hour <= 23
         /\ t.minute \in Nat /\ t.minute <= 59
         /\ t.second \in Nat /\ t.second <= 59
<1>1. t.year \in Nat /\ t.year >= 2000
  <2>1. t.year \in Years
    BY DEF Dates
  <2> QED
    BY <2>1, FieldAssumption
<1>2. t.month \in Nat /\ 1 <= t.month /\ t.month <= 12
  <2>1. t.month \in Months
    BY DEF Dates
  <2> QED
    BY <2>1, FieldAssumption
<1>3. t.day \in Nat /\ 1 <= t.day /\ t.day <= 31
  <2>1. t.day \in Days
    BY DEF Dates
  <2> QED
    BY <2>1, FieldAssumption
<1>4. t.hour \in Nat /\ t.hour <= 23
  <2>1. t.hour \in Hours
    BY DEF Dates
  <2> QED
    BY <2>1, FieldAssumption
<1>5. t.minute \in Nat /\ t.minute <= 59
  <2>1. t.minute \in Minutes
    BY DEF Dates
  <2> QED
    BY <2>1, FieldAssumption
<1>6. t.second \in Nat /\ t.second <= 59
  <2>1. t.second \in Seconds
    BY DEF Dates
  <2> QED
    BY <2>1, FieldAssumption
<1>7. t.month \in Nat /\ t.month - 1 \in Nat /\ t.month - 1 <= 11
  BY <1>2
<1>8. t.day \in Nat /\ t.day - 1 \in Nat /\ t.day - 1 <= 30
  BY <1>3
<1> QED
  BY <1>1, <1>4, <1>5, <1>6, <1>7, <1>8

\* The days of a date and the seconds of its day, as encodeZKDateTime adds them.
DaysOf(t)    == (t.year - 2000) * 372 + (t.month - 1) * 31 + (t.day - 1)
SecondsOf(t) == t.hour * 3600 + t.minute * 60 + t.second

LEMMA Parts ==
  ASSUME NEW t \in Dates
  PROVE  /\ DaysOf(t) \in Nat /\ SecondsOf(t) \in Nat /\ SecondsOf(t) <= 86399
         /\ encodeZKDateTime(t) = DaysOf(t) * 86400 + SecondsOf(t)
<1>1. DaysOf(t) \in Nat
  BY Fields, DaysUnpack DEF DaysOf
<1>2. SecondsOf(t) \in Nat /\ SecondsOf(t) <= 86399
  BY Fields, SecondsUnpack DEF SecondsOf
<1>3. /\ t.hour * 3600 \in Nat /\ t.minute * 60 \in Nat /\ t.second \in Nat
      /\ DaysOf(t) * 86400 \in Nat
  BY Fields, <1>1
<1>4. encodeZKDateTime(t) = DaysOf(t) * 86400 + t.hour * 3600 + t.minute * 60 + t.second
  BY DEF encodeZKDateTime, DaysOf
<1> QED
  BY <1>1, <1>2, <1>3, <1>4 DEF SecondsOf

\* decodeZKDateTime undoes encodeZKDateTime.
LEMMA DecodeEncode ==
  ASSUME NEW t \in Dates
  PROVE  decodeZKDateTime(encodeZKDateTime(t)) = t
<1> DEFINE v == encodeZKDateTime(t)
<1>1. v \div 86400 = DaysOf(t) /\ v % 86400 = SecondsOf(t)
  BY Parts, ValueUnpack
<1>2. /\ DaysOf(t) \div 372 = t.year - 2000
      /\ (DaysOf(t) % 372) \div 31 = t.month - 1 /\ DaysOf(t) % 31 = t.day - 1
  <2> DEFINE y == t.year - 2000
             m == t.month - 1
             d == t.day - 1
  <2>1. y \in Nat /\ m \in Nat /\ d \in Nat /\ m <= 11 /\ d <= 30
    BY Fields
  <2>2. DaysOf(t) = y * 372 + m * 31 + d
    BY DEF DaysOf
  <2> HIDE DEF y, m, d
  <2>3. DaysOf(t) \div 372 = y /\ (DaysOf(t) % 372) \div 31 = m /\ DaysOf(t) % 31 = d
    BY <2>1, <2>2, DaysUnpack
  <2> QED
    BY <2>3 DEF y, m, d
<1>3. /\ SecondsOf(t) \div 3600 = t.hour
      /\ (SecondsOf(t) % 3600) \div 60 = t.minute /\ SecondsOf(t) % 60 = t.second
  <2> DEFINE h == t.hour
             m == t.minute
             s == t.second
  <2>1. h \in Nat /\ m \in Nat /\ s \in Nat /\ h <= 23 /\ m <= 59 /\ s <= 59
    BY Fields
  <2>2. SecondsOf(t) = h * 3600 + m * 60 + s
    BY DEF SecondsOf
  <2> HIDE DEF h, m, s
  <2>3. SecondsOf(t) \div 3600 = h /\ (SecondsOf(t) % 3600) \div 60 = m /\ SecondsOf(t) % 60 = s
    BY <2>1, <2>2, SecondsUnpack
  <2> QED
    BY <2>3 DEF h, m, s
<1>4. decodeZKDateTime(v) =
        [year |-> (t.year - 2000) + 2000, month |-> (t.month - 1) + 1, day |-> (t.day - 1) + 1,
         hour |-> t.hour, minute |-> t.minute, second |-> t.second]
  BY <1>1, <1>2, <1>3 DEF decodeZKDateTime
<1>5. (t.year - 2000) + 2000 = t.year /\ (t.month - 1) + 1 = t.month /\ (t.day - 1) + 1 = t.day
  BY Fields
<1>6. t = [year |-> t.year, month |-> t.month, day |-> t.day,
           hour |-> t.hour, minute |-> t.minute, second |-> t.second]
  BY DEF Dates
<1> QED
  BY <1>4, <1>5, <1>6

\* An earlier day has a smaller number ...
LEMMA DaysOrdered ==
  ASSUME NEW y \in Nat, NEW m \in Nat, NEW d \in Nat, m <= 11, d <= 30,
         NEW x \in Nat, NEW n \in Nat, NEW e \in Nat, n <= 11, e <= 30,
         y < x \/ (y = x /\ m < n) \/ (y = x /\ m = n /\ d < e)
  PROVE  y * 372 + m * 31 + d < x * 372 + n * 31 + e
OBVIOUS

\* ... and so has an earlier time of day.
LEMMA SecondsOrdered ==
  ASSUME NEW h \in Nat, NEW m \in Nat, NEW s \in Nat, m <= 59, s <= 59,
         NEW g \in Nat, NEW n \in Nat, NEW r \in Nat, n <= 59, r <= 59,
         h < g \/ (h = g /\ m < n) \/ (h = g /\ m = n /\ s < r)
  PROVE  h * 3600 + m * 60 + s < g * 3600 + n * 60 + r
OBVIOUS

\* encodeZKDateTime keeps the order of dates.
LEMMA EncodeKeepsOrder ==
  ASSUME NEW s \in Dates, NEW t \in Dates, Before(s, t)
  PROVE  encodeZKDateTime(s) < encodeZKDateTime(t)
<1> DEFINE DayBefore == \/ s.year < t.year
                        \/ s.year = t.year /\ s.month < t.month
                        \/ s.year = t.year /\ s.month = t.month /\ s.day < t.day
           SameDay   == s.year = t.year /\ s.month = t.month /\ s.day = t.day
           TimeBefore == \/ s.hour < t.hour
                         \/ s.hour = t.hour /\ s.minute < t.minute
                         \/ s.hour = t.hour /\ s.minute = t.minute /\ s.second < t.second
<1>1. /\ DaysOf(s) \in Nat /\ SecondsOf(s) \in Nat /\ SecondsOf(s) <= 86399
      /\ DaysOf(t) \in Nat /\ SecondsOf(t) \in Nat /\ SecondsOf(t) <= 86399
      /\ encodeZKDateTime(s) = DaysOf(s) * 86400 + SecondsOf(s)
      /\ encodeZKDateTime(t) = DaysOf(t) * 86400 + SecondsOf(t)
  BY Parts
<1>2. CASE DayBefore
  <2>1. \/ s.year - 2000 < t.year - 2000
        \/ s.year - 2000 = t.year - 2000 /\ s.month - 1 < t.month - 1
        \/ s.year - 2000 = t.year - 2000 /\ s.month - 1 = t.month - 1 /\ s.day - 1 < t.day - 1
    BY <1>2, Fields
  <2>2. DaysOf(s) < DaysOf(t)
    BY <2>1, Fields, DaysOrdered DEF DaysOf
  <2> QED
    BY <1>1, <2>2
<1>3. CASE SameDay /\ TimeBefore
  <2>1. DaysOf(s) = DaysOf(t)
    BY <1>3 DEF DaysOf
  <2>2. SecondsOf(s) < SecondsOf(t)
    BY <1>3, Fields, SecondsOrdered DEF SecondsOf
  <2> QED
    BY <1>1, <2>1, <2>2
<1> QED
  BY <1>2, <1>3 DEF Before

\* For every date, the scanner unpacks what the agent packed.
THEOREM EveryDateSurvives == RoundTrip
BY DecodeEncode DEF RoundTrip

\* For every two dates, a command collected later carries a larger value.
THEOREM ClocksNeverGoBack == LaterIsLarger
<1> SUFFICES ASSUME NEW s \in Dates, NEW t \in Dates, Before(s, t)
             PROVE  encodeZKDateTime(s) < encodeZKDateTime(t)
  BY Zenon DEF LaterIsLarger
<1> QED
  BY EncodeKeepsOrder, Zenon

-----------------------------------------------------------------------------
(* The commands.                                                           *)

\* A request at work is a scanner's, came in before now, and has taken an
\* entry once it is rendering it.
Busy ==
  \A h \in Handlers :
    /\ pc[h] # None => dev[h] \in Devices /\ since[h] \in 1..now
    /\ pc[h] = "render" => hand[h] \in Entry

\* No two places hold entries with the same local id.
UniqueIDs ==
  /\ \A d, e \in Devices : \A j \in DOMAIN queue[d], k \in DOMAIN queue[e] :
       queue[d][j].id = queue[e][k].id => d = e /\ j = k
  /\ \A g, h \in Handlers :
       pc[g] = "render" /\ pc[h] = "render" /\ hand[g].id = hand[h].id => g = h
  /\ \A e, f \in pending : e.id = f.id => e = f
  /\ \A e \in InQueue, f \in InHand : e.id # f.id
  /\ \A e \in InQueue, f \in pending : e.id # f.id
  /\ \A e \in InHand, f \in pending : e.id # f.id

IInv == TypeOK /\ Busy /\ UniqueIDs /\ TrackedExactlyWhileLive /\ NeverOlderThanTheRequest

\* Where an entry is.
LEMMA Places ==
  /\ \A e : e \in InQueue <=> \E d \in Devices : \E k \in DOMAIN queue[d] : e = queue[d][k]
  /\ \A e : e \in InHand <=> \E h \in Handlers : pc[h] = "render" /\ e = hand[h]
BY DEF InQueue, InHand

LEMMA PlacesNext ==
  /\ \A e : e \in InQueue' <=> \E d \in Devices : \E k \in DOMAIN queue'[d] : e = queue'[d][k]
  /\ \A e : e \in InHand' <=> \E h \in Handlers : pc'[h] = "render" /\ e = hand'[h]
BY DEF InQueue, InHand

\* What is in a place has an id and a kind.
LEMMA LiveTypes ==
  ASSUME TypeOK, Busy, NEW e \in Live PROVE e.id \in IDs /\ e.cmd \in Kinds
<1>1. CASE e \in InQueue
  <2>1. PICK d \in Devices : \E k \in DOMAIN queue[d] : e = queue[d][k]
    BY <1>1, Places
  <2>2. queue[d] \in Seq(Entry)
    BY DEF TypeOK
  <2>3. e \in Entry
    BY <2>1, <2>2
  <2> QED BY <2>3 DEF Entry
<1>2. CASE e \in InHand
  BY <1>2, Places DEF Busy, Entry
<1>3. CASE e \in pending
  BY <1>3 DEF TypeOK
<1> QED BY <1>1, <1>2, <1>3 DEF Live

\* An entry comes in: nothing has its id, and its command is in no other.
LEMMA Enters ==
  ASSUME TrackedExactlyWhileLive, NEW x, Live' = Live \cup {x},
         \A e \in Live : e.cmd \in Kinds, x.cmd \notin tracked, tracked' = tracked \cup ({x.cmd} \cap Commands)
  PROVE  TrackedExactlyWhileLive'
<1>1. \A e \in Live : e.cmd \in Commands => e.cmd \in tracked
  BY DEF TrackedExactlyWhileLive
<1>2. tracked' = {e.cmd : e \in Live'} \cap Commands
  BY DEF TrackedExactlyWhileLive
<1>3. \A e, f \in Live' : e.cmd = f.cmd /\ e.cmd \in Commands => e.id = f.id
  BY <1>1 DEF TrackedExactlyWhileLive
<1> QED BY <1>2, <1>3 DEF TrackedExactlyWhileLive

\* Entries change places: the same ids with the same commands are live.
LEMMA Moves ==
  ASSUME TrackedExactlyWhileLive, tracked' = tracked,
         \A x \in Live' : \E y \in Live : x.id = y.id /\ x.cmd = y.cmd,
         \A y \in Live : \E x \in Live' : x.id = y.id /\ x.cmd = y.cmd
  PROVE  TrackedExactlyWhileLive'
<1>1. {e.cmd : e \in Live'} = {e.cmd : e \in Live}
  OBVIOUS
<1>2. \A e, f \in Live' : e.cmd = f.cmd /\ e.cmd \in Commands => e.id = f.id
  <2> TAKE e \in Live', f \in Live'
  <2>1. PICK y \in Live : e.id = y.id /\ e.cmd = y.cmd
    OBVIOUS
  <2>2. PICK z \in Live : f.id = z.id /\ f.cmd = z.cmd
    OBVIOUS
  <2> QED BY <2>1, <2>2 DEF TrackedExactlyWhileLive
<1> QED BY <1>1, <1>2 DEF TrackedExactlyWhileLive

\* Entries leave, and nothing that stays has their ids.
LEMMA Leaves ==
  ASSUME TrackedExactlyWhileLive, NEW X \in SUBSET Live, Live' = Live \ X,
         \A x \in X, e \in Live' : x.id # e.id, tracked' = tracked \ {x.cmd : x \in X}
  PROVE  TrackedExactlyWhileLive'
<1>1. \A x \in X, e \in Live' : x.cmd = e.cmd => e.cmd \notin Commands
  BY DEF TrackedExactlyWhileLive
<1>2. ASSUME NEW c PROVE c \in tracked' <=> c \in {e.cmd : e \in Live'} \cap Commands
  <2>1. ASSUME c \in tracked' PROVE c \in {e.cmd : e \in Live'} /\ c \in Commands
    <3>1. PICK e \in Live : c = e.cmd /\ c \in Commands
      BY <2>1 DEF TrackedExactlyWhileLive
    <3>2. e \notin X
      BY <2>1, <3>1
    <3> QED BY <3>1, <3>2
  <2>2. ASSUME c \in {e.cmd : e \in Live'}, c \in Commands PROVE c \in tracked'
    <3>1. PICK e \in Live' : c = e.cmd
      BY <2>2
    <3>2. c \in tracked
      BY <2>2, <3>1 DEF TrackedExactlyWhileLive
    <3>3. \A x \in X : x.cmd # c
      BY <1>1, <2>2, <3>1
    <3> QED BY <3>2, <3>3
  <2> QED BY <2>1, <2>2
<1>3. tracked' = {e.cmd : e \in Live'} \cap Commands
  BY <1>2
<1>4. \A e, f \in Live' : e.cmd = f.cmd /\ e.cmd \in Commands => e.id = f.id
  BY DEF TrackedExactlyWhileLive
<1> QED BY <1>3, <1>4 DEF TrackedExactlyWhileLive

\* NewEntry: one entry more, at the end of a queue.
LEMMA Appended ==
  ASSUME IInv, NEW d \in Devices, NEW c \in Kinds, NewEntry(d, c), UNCHANGED <<pending, pc, hand>>
  PROVE  /\ queue' \in [Devices -> Seq(Entry)] /\ UniqueIDs'
         /\ \E x : x.cmd = c /\ Live' = Live \cup {x}
<1> USE DEF IInv
<1>1. PICK i \in Free : queue' = [queue EXCEPT ![d] = Append(queue[d], [id |-> i, cmd |-> c])]
  BY DEF NewEntry, TypeOK
<1> DEFINE x == [id |-> i, cmd |-> c]
<1>2. i \in IDs /\ \A e \in Live : e.id # i
  BY <1>1 DEF Free
<1>3. x \in Entry /\ x.id = i /\ x.cmd = c
  BY <1>2 DEF Entry
<1>4. queue' = [queue EXCEPT ![d] = Append(queue[d], x)]
  BY <1>1
<1> HIDE DEF x
<1>5. queue[d] \in Seq(Entry)
  BY DEF TypeOK
<1>6. queue' \in [Devices -> Seq(Entry)]
  BY <1>3, <1>4, <1>5 DEF TypeOK
<1>7. /\ DOMAIN queue'[d] = DOMAIN queue[d] \cup {Len(queue[d]) + 1} /\ Len(queue[d]) + 1 \notin DOMAIN queue[d]
      /\ queue'[d][Len(queue[d]) + 1] = x /\ \A k \in DOMAIN queue[d] : queue'[d][k] = queue[d][k]
      /\ \A e \in Devices \ {d} : queue'[e] = queue[e]
  <2>1. queue'[d] = Append(queue[d], x) /\ \A e \in Devices \ {d} : queue'[e] = queue[e]
    BY <1>4 DEF TypeOK
  <2>2. Len(queue[d]) \in Nat /\ DOMAIN queue[d] = 1..Len(queue[d])
    BY <1>5
  <2>3. DOMAIN queue'[d] = 1..(Len(queue[d]) + 1)
    BY <1>3, <1>5, <2>1
  <2>4. queue'[d][Len(queue[d]) + 1] = x /\ \A k \in DOMAIN queue[d] : queue'[d][k] = queue[d][k]
    BY <1>3, <1>5, <2>1
  <2> QED BY <2>1, <2>2, <2>3, <2>4
<1>8. InQueue' = InQueue \cup {x} /\ InHand' = InHand /\ pending' = pending
  <2>1. InHand' = InHand /\ pending' = pending
    BY DEF InHand
  <2>2. ASSUME NEW e PROVE e \in InQueue' <=> e \in InQueue \/ e = x
    BY <1>7, Places, PlacesNext
  <2> QED BY <2>1, <2>2
<1>9. Live' = Live \cup {x}
  BY <1>8 DEF Live
<1>10. \A e, f \in Devices : \A j \in DOMAIN queue'[e], k \in DOMAIN queue'[f] :
         queue'[e][j].id = queue'[f][k].id => e = f /\ j = k
  <2>1. \A e \in Devices : \A j \in DOMAIN queue[e] : queue[e][j].id # i
    BY <1>2, Places DEF Live
  <2>2. \A e \in Devices : \A j \in DOMAIN queue'[e] :
          \/ e = d /\ j = Len(queue[d]) + 1 /\ queue'[e][j].id = i
          \/ j \in DOMAIN queue[e] /\ queue'[e][j] = queue[e][j]
    BY <1>3, <1>7
  <2> QED BY <2>1, <2>2 DEF UniqueIDs
<1>11. \A g, h \in Handlers : pc'[g] = "render" /\ pc'[h] = "render" /\ hand'[g].id = hand'[h].id => g = h
  BY DEF UniqueIDs
<1>12. /\ \A e, f \in pending' : e.id = f.id => e = f
       /\ \A e \in InQueue', f \in InHand' : e.id # f.id
       /\ \A e \in InQueue', f \in pending' : e.id # f.id
       /\ \A e \in InHand', f \in pending' : e.id # f.id
  BY <1>2, <1>3, <1>8 DEF UniqueIDs, Live
<1>13. UniqueIDs'
  BY <1>10, <1>11, <1>12 DEF UniqueIDs
<1> QED BY <1>3, <1>6, <1>9, <1>13

\* Pop takes the head of a queue: its entry is in hand and nowhere else.
LEMMA Popped ==
  ASSUME IInv, NEW d \in Devices, queue[d] # <<>>, NEW h \in Handlers, pc[h] # "render",
         queue' = [queue EXCEPT ![d] = Tail(queue[d])], pc' = [pc EXCEPT ![h] = "render"],
         hand' = [hand EXCEPT ![h] = Head(queue[d])], pending' = pending
  PROVE  /\ Head(queue[d]) \in Entry /\ queue' \in [Devices -> Seq(Entry)]
         /\ UniqueIDs' /\ Live' = Live
<1> USE DEF IInv
<1> DEFINE x == Head(queue[d])
           n == Len(queue[d])
<1>1. /\ queue[d] \in Seq(Entry) /\ n \in Nat \ {0} /\ DOMAIN queue[d] = 1..n
      /\ x = queue[d][1] /\ x \in Entry /\ 1 \in DOMAIN queue[d]
  BY DEF TypeOK
<1>2. queue' \in [Devices -> Seq(Entry)]
  BY <1>1 DEF TypeOK
<1>3. /\ DOMAIN queue'[d] = 1..(n - 1) /\ \A k \in DOMAIN queue'[d] : queue'[d][k] = queue[d][k + 1]
      /\ \A e \in Devices \ {d} : queue'[e] = queue[e]
  BY <1>1 DEF TypeOK
<1>4. /\ pc'[h] = "render" /\ hand'[h] = x
      /\ \A g \in Handlers \ {h} : pc'[g] = pc[g] /\ hand'[g] = hand[g]
  BY DEF TypeOK
<1> HIDE DEF x
<1>5. \A e \in Devices : \A j \in DOMAIN queue'[e] : \E k \in DOMAIN queue[e] :
        /\ queue'[e][j] = queue[e][k] /\ (e = d => k = j + 1) /\ (e # d => k = j) /\ queue'[e][j].id # x.id
  <2> TAKE e \in Devices
  <2> TAKE j \in DOMAIN queue'[e]
  <2>1. CASE e = d
    <3>1. j + 1 \in DOMAIN queue[d] /\ j + 1 # 1 /\ queue'[d][j] = queue[d][j + 1]
      BY <1>1, <1>3, <2>1
    <3>2. queue[d][j + 1].id # queue[d][1].id
      BY <1>1, <3>1 DEF UniqueIDs
    <3> QED BY <1>1, <2>1, <3>1, <3>2
  <2>2. CASE e # d
    <3>1. queue'[e][j] = queue[e][j] /\ j \in DOMAIN queue[e]
      BY <1>3, <2>2
    <3>2. queue[e][j].id # queue[d][1].id
      BY <1>1, <2>2, <3>1 DEF UniqueIDs
    <3> QED BY <1>1, <2>2, <3>1, <3>2
  <2> QED BY <2>1, <2>2
<1>6. \A e \in InQueue' : e \in InQueue /\ e.id # x.id
  BY <1>5, Places, PlacesNext
<1>7. \A e \in InQueue : e = x \/ e \in InQueue'
  <2> TAKE e \in InQueue
  <2>1. PICK g \in Devices : \E k \in DOMAIN queue[g] : e = queue[g][k]
    BY Places
  <2>2. PICK k \in DOMAIN queue[g] : e = queue[g][k]
    BY <2>1
  <2>3. CASE g = d /\ k = 1
    BY <1>1, <2>2, <2>3
  <2>4. CASE g = d /\ k # 1
    <3>1. k - 1 \in DOMAIN queue'[d] /\ queue'[d][k - 1] = queue[d][k]
      BY <1>1, <1>3, <2>2, <2>4
    <3> QED BY <2>2, <2>4, <3>1, PlacesNext
  <2>5. CASE g # d
    BY <1>3, <2>2, <2>5, PlacesNext
  <2> QED BY <2>3, <2>4, <2>5
<1>8. x \in InQueue
  BY <1>1, Places
<1>9. InHand' = InHand \cup {x}
  <2>1. ASSUME NEW e PROVE e \in InHand' <=> e \in InHand \/ e = x
    BY <1>4, Places, PlacesNext
  <2> QED BY <2>1
<1>10. Live' = Live
  BY <1>6, <1>7, <1>8, <1>9 DEF Live
<1>11. \A e, f \in Devices : \A j \in DOMAIN queue'[e], k \in DOMAIN queue'[f] :
         queue'[e][j].id = queue'[f][k].id => e = f /\ j = k
  <2> TAKE e, f \in Devices
  <2> TAKE j \in DOMAIN queue'[e], k \in DOMAIN queue'[f]
  <2>1. PICK j1 \in DOMAIN queue[e] : queue'[e][j] = queue[e][j1] /\ (e = d => j1 = j + 1) /\ (e # d => j1 = j)
    BY <1>5
  <2>2. PICK k1 \in DOMAIN queue[f] : queue'[f][k] = queue[f][k1] /\ (f = d => k1 = k + 1) /\ (f # d => k1 = k)
    BY <1>5
  <2>3. queue[e][j1].id = queue[f][k1].id => e = f /\ j1 = k1
    BY DEF UniqueIDs
  <2>4. e = d /\ f = d /\ j1 = k1 => j = k
    BY <1>3, <2>1, <2>2
  <2> QED BY <2>1, <2>2, <2>3, <2>4
<1>12. \A f, g \in Handlers : pc'[f] = "render" /\ pc'[g] = "render" /\ hand'[f].id = hand'[g].id => f = g
  <2>1. \A g \in Handlers : pc[g] = "render" => hand[g].id # x.id
    BY <1>8, Places DEF UniqueIDs
  <2> QED BY <1>4, <2>1 DEF UniqueIDs
<1>13. /\ \A e, f \in pending' : e.id = f.id => e = f
       /\ \A e \in InQueue', f \in InHand' : e.id # f.id
       /\ \A e \in InQueue', f \in pending' : e.id # f.id
       /\ \A e \in InHand', f \in pending' : e.id # f.id
  BY <1>6, <1>8, <1>9 DEF UniqueIDs
<1>14. UniqueIDs'
  BY <1>11, <1>12, <1>13 DEF UniqueIDs
<1> QED BY <1>1, <1>2, <1>10, <1>14 DEF x

\* A handler that was rendering has done: what it had in hand is in no other
\* place of the process.
LEMMA PutDown ==
  ASSUME IInv, NEW h \in Handlers, pc[h] = "render", Done(h), queue' = queue
  PROVE  /\ hand[h] \in Entry /\ hand[h] \in InHand /\ dev[h] \in Devices
         /\ InQueue' = InQueue /\ InHand' = InHand \ {hand[h]}
         /\ \A e \in InQueue' \cup InHand' \cup pending : e.id # hand[h].id
         /\ \A f, g \in Handlers : pc'[f] = "render" /\ pc'[g] = "render" /\ hand'[f].id = hand'[g].id => f = g
<1> USE DEF IInv
<1>1. hand[h] \in Entry /\ dev[h] \in Devices /\ hand[h] \in InHand
  BY Places DEF Busy, None
<1>2. pc'[h] = None /\ \A g \in Handlers \ {h} : pc'[g] = pc[g] /\ hand'[g] = hand[g]
  BY DEF Done, TypeOK
<1>3. InQueue' = InQueue
  BY DEF InQueue
<1>4. \A e \in InHand' : e \in InHand /\ e.id # hand[h].id
  <2> TAKE e \in InHand'
  <2>1. PICK g \in Handlers : pc'[g] = "render" /\ e = hand'[g]
    BY PlacesNext
  <2>2. g # h /\ pc[g] = "render" /\ e = hand[g]
    BY <1>2, <2>1 DEF None
  <2> QED BY <2>2, Places DEF UniqueIDs
<1>5. \A e \in InHand : e = hand[h] \/ e \in InHand'
  BY <1>2, Places, PlacesNext
<1>6. InHand' = InHand \ {hand[h]}
  BY <1>4, <1>5
<1>7. \A e \in InQueue' \cup InHand' \cup pending : e.id # hand[h].id
  BY <1>1, <1>3, <1>4 DEF UniqueIDs
<1>8. \A f, g \in Handlers : pc'[f] = "render" /\ pc'[g] = "render" /\ hand'[f].id = hand'[g].id => f = g
  BY <1>2 DEF UniqueIDs, None
<1> QED BY <1>1, <1>3, <1>6, <1>7, <1>8

\* Nothing changes places.
LEMMA StillPlaces ==
  ASSUME IInv, queue' = queue, pending' = pending,
         \A g \in Handlers : /\ pc'[g] = "render" <=> pc[g] = "render"
                             /\ pc[g] = "render" => hand'[g] = hand[g]
  PROVE  UniqueIDs' /\ Live' = Live
<1> USE DEF IInv
<1>1. InQueue' = InQueue
  BY DEF InQueue
<1>2. InHand' = InHand
  <2>1. ASSUME NEW e PROVE e \in InHand' <=> e \in InHand
    BY Places, PlacesNext
  <2> QED BY <2>1
<1>3. Live' = Live
  BY <1>1, <1>2 DEF Live
<1>4. UniqueIDs'
  BY <1>1, <1>2 DEF UniqueIDs
<1> QED BY <1>3, <1>4

\* Later instants have larger packed times.
LEMMA InstantsOrdered ==
  ASSUME NEW i \in DOMAIN Instants, NEW j \in DOMAIN Instants, i <= j
  PROVE  /\ encodeZKDateTime(Instants[i]) \in Nat /\ encodeZKDateTime(Instants[j]) \in Nat
         /\ encodeZKDateTime(Instants[i]) <= encodeZKDateTime(Instants[j])
<1>1. Instants[i] \in Dates /\ Instants[j] \in Dates /\ i \in Nat /\ j \in Nat
  BY CommandAssumption
<1>2. \A t \in Dates : encodeZKDateTime(t) \in Nat
  BY Parts
<1>3. CASE i = j
  BY <1>1, <1>2, <1>3
<1>4. CASE i < j
  <2>1. Before(Instants[i], Instants[j])
    BY <1>4, CommandAssumption
  <2>2. encodeZKDateTime(Instants[i]) < encodeZKDateTime(Instants[j])
    BY <1>1, <2>1, EncodeKeepsOrder
  <2> QED BY <1>1, <1>2, <2>2
<1> QED BY <1>1, <1>3, <1>4

\* What is in hand keeps its time while others work and time passes.
LEMMA TimesKept ==
  ASSUME IInv, now' \in {now, now + 1}, now' \in DOMAIN Instants,
         \A g \in Handlers : pc'[g] = "render" =>
           /\ pc[g] = "render" /\ hand'[g] = hand[g] /\ filled'[g] = filled[g] /\ since'[g] = since[g]
  PROVE  NeverOlderThanTheRequest'
<1> USE DEF IInv
<1>1. now \in DOMAIN Instants /\ now <= now'
  BY CommandAssumption DEF TypeOK
<1>2. /\ encodeZKDateTime(Instants[now]) \in Nat /\ encodeZKDateTime(Instants[now']) \in Nat
      /\ encodeZKDateTime(Instants[now]) <= encodeZKDateTime(Instants[now'])
  BY <1>1, InstantsOrdered
<1>3. ASSUME NEW h \in Handlers, pc'[h] = "render", hand'[h].cmd = Clock
      PROVE  /\ encodeZKDateTime(Instants[since'[h]]) <= filled'[h]
             /\ filled'[h] <= encodeZKDateTime(Instants[now'])
  <2>1. pc[h] = "render" /\ hand[h].cmd = Clock /\ filled'[h] = filled[h] /\ since'[h] = since[h]
    BY <1>3
  <2>2. /\ encodeZKDateTime(Instants[since[h]]) <= filled[h]
        /\ filled[h] <= encodeZKDateTime(Instants[now]) /\ filled[h] \in Nat
    BY <2>1 DEF NeverOlderThanTheRequest, TypeOK
  <2> QED BY <1>2, <2>1, <2>2
<1> QED BY <1>3 DEF NeverOlderThanTheRequest

\* A handler goes on, with the same entries in the same places.
LEMMA HandlerMoves ==
  ASSUME IInv, NEW h \in Handlers, NEW p \in {"drain", "enqueue", "pop"}, pc' = [pc EXCEPT ![h] = p],
         pc[h] # "render", UNCHANGED <<queue, tracked, pending, hand, filled, now>>,
         since' = since \/ since' = [since EXCEPT ![h] = now], TypeOK', Busy'
  PROVE  IInv'
<1>1. \A g \in Handlers : pc'[g] = "render" <=> pc[g] = "render"
  BY DEF IInv, TypeOK
<1>2. \A g \in Handlers : pc'[g] = "render" => since'[g] = since[g]
  BY DEF IInv, TypeOK
<1>3. UniqueIDs' /\ Live' = Live
  BY <1>1, StillPlaces
<1>4. NeverOlderThanTheRequest'
  BY <1>1, <1>2, TimesKept DEF IInv, TypeOK
<1>5. TrackedExactlyWhileLive'
  BY <1>3, Moves DEF IInv
<1> QED BY <1>3, <1>4, <1>5 DEF IInv

\* The steps of a request up to the queue.
LEMMA DrainKeeps ==
  ASSUME IInv, NEW h \in Handlers,
         \/ \E d \in Devices : Poll(h, d)
         \/ drainCloudCommands(h) \/ Drained(h)
  PROVE  IInv'
<1> USE DEF IInv
<1>0. now \in Nat /\ now >= 1
  BY CommandAssumption DEF TypeOK
<1>1. ASSUME NEW d \in Devices, Poll(h, d) PROVE IInv'
  <2>1. /\ pc' = [pc EXCEPT ![h] = "drain"] /\ since' = [since EXCEPT ![h] = now] /\ pc[h] = None
        /\ UNCHANGED <<queue, tracked, pending, hand, filled, now>>
    BY <1>1 DEF Poll, bounds
  <2>2. TypeOK'
    BY <1>0, <1>1 DEF TypeOK, Poll, bounds, cloud
  <2>3. Busy'
    BY <1>0, <1>1, <2>1 DEF TypeOK, Busy, Poll
  <2> QED BY <2>1, <2>2, <2>3, HandlerMoves DEF None
<1>2. CASE drainCloudCommands(h)
  <2>1. PICK p \in {"enqueue", "pop"} : pc' = [pc EXCEPT ![h] = p]
    BY <1>2 DEF drainCloudCommands
  <2>2. pc[h] = "drain" /\ UNCHANGED <<queue, tracked, pending, dev, hand, filled, since, now>>
    BY <1>2 DEF drainCloudCommands
  <2>3. TypeOK'
    <3>1. list' \in [Handlers -> SUBSET Commands]
      <4>1. list' = list \/ \E L \in Lists(dev[h]) : list' = [list EXCEPT ![h] = L]
        BY <1>2 DEF drainCloudCommands
      <4>2. \A L \in Lists(dev[h]) : L \in SUBSET Commands
        BY DEF Lists, For, TypeOK
      <4>3. list \in [Handlers -> SUBSET Commands]
        BY DEF TypeOK
      <4> QED BY <4>1, <4>2, <4>3
    <3>2. pc' \in [Handlers -> {None, "drain", "enqueue", "pop", "render"}]
      BY <2>1 DEF TypeOK
    <3> QED BY <1>2, <2>2, <3>1, <3>2 DEF TypeOK, drainCloudCommands, cloud
  <2>4. Busy'
    BY <2>1, <2>2 DEF TypeOK, Busy, None
  <2> QED BY <2>1, <2>2, <2>3, <2>4, HandlerMoves
<1>3. CASE Drained(h)
  <2>1. pc[h] = "enqueue" /\ pc' = [pc EXCEPT ![h] = "pop"] /\ UNCHANGED <<queue, tracked, pending, dev, hand, filled, since, now>>
    BY <1>3 DEF Drained, bounds
  <2>2. TypeOK'
    BY <1>3 DEF TypeOK, Drained, bounds, cloud
  <2>3. Busy'
    BY <2>1 DEF TypeOK, Busy, None
  <2> QED BY <2>1, <2>2, <2>3, HandlerMoves
<1> QED BY <1>1, <1>2, <1>3

\* A new entry, of the cloud's or of the clock.
LEMMA NewEntryKeeps ==
  ASSUME IInv, NEW d \in Devices, NEW c \in Kinds, NewEntry(d, c), c \notin tracked,
         tracked' = tracked \cup ({c} \cap Commands), UNCHANGED <<pending, pc, dev, hand, filled, since, now>>,
         UNCHANGED <<issued, listed, results, scanner, mislaid, budget>>,
         list' \in [Handlers -> SUBSET Commands]
  PROVE  IInv'
<1> USE DEF IInv
<1>1. /\ queue' \in [Devices -> Seq(Entry)] /\ UniqueIDs'
      /\ \E x : x.cmd = c /\ Live' = Live \cup {x}
  BY Appended
<1>2. TypeOK'
  BY <1>1 DEF TypeOK
<1>3. Busy'
  BY DEF Busy
<1>4. TrackedExactlyWhileLive'
  BY <1>1, LiveTypes, Enters
<1>5. NeverOlderThanTheRequest'
  BY TimesKept DEF TypeOK
<1> QED BY <1>1, <1>2, <1>3, <1>4, <1>5

LEMMA EnqueueKeeps ==
  ASSUME IInv, NEW h \in Handlers, NEW c \in list[h], enqueueADMSCommand(h, c)
  PROVE  IInv'
<1> USE DEF IInv
<1>1. /\ pc[h] = "enqueue" /\ dev[h] \in Devices /\ c \in Commands /\ c \in Kinds
      /\ list' \in [Handlers -> SUBSET Commands]
      /\ UNCHANGED <<pending, pc, dev, hand, filled, since, now>>
      /\ UNCHANGED <<issued, listed, results, scanner, mislaid, budget>>
  BY DEF enqueueADMSCommand, Busy, TypeOK, None, bounds, cloud, Kinds
<1>2. CASE c \in tracked
  <2>1. UNCHANGED <<queue, tracked>>
    BY <1>2 DEF enqueueADMSCommand
  <2>2. UniqueIDs' /\ Live' = Live
    BY <1>1, <2>1, StillPlaces
  <2>3. TypeOK' /\ Busy'
    BY <1>1, <2>1 DEF TypeOK, Busy
  <2>4. TrackedExactlyWhileLive'
    BY <2>1, <2>2, Moves
  <2>5. NeverOlderThanTheRequest'
    BY <1>1, TimesKept DEF TypeOK
  <2> QED BY <2>2, <2>3, <2>4, <2>5
<1>3. CASE c \notin tracked
  <2>1. NewEntry(dev[h], c) /\ tracked' = tracked \cup ({c} \cap Commands)
    BY <1>1, <1>3 DEF enqueueADMSCommand
  <2> QED BY <1>1, <1>3, <2>1, NewEntryKeeps
<1> QED BY <1>2, <1>3

LEMMA ClockKeeps ==
  ASSUME IInv, NEW d \in Devices, syncDeviceClocks(d)
  PROVE  IInv'
<1>1. Clock \notin tracked /\ {Clock} \cap Commands = {} /\ Clock \in Kinds
  BY CommandAssumption DEF IInv, TypeOK, Clock, Kinds
<1>2. /\ NewEntry(d, Clock) /\ tracked' = tracked \cup ({Clock} \cap Commands)
      /\ UNCHANGED <<pending, pc, dev, hand, filled, since, now>>
      /\ UNCHANGED <<issued, listed, results, scanner, mislaid, budget>>
      /\ list' \in [Handlers -> SUBSET Commands]
  BY <1>1 DEF syncDeviceClocks, cloud, handlers, bounds, IInv, TypeOK
<1> QED BY <1>1, <1>2, NewEntryKeeps

\* The request is answered: what it knew is forgotten.
LEMMA DoneTypes ==
  ASSUME IInv, NEW h \in Handlers, Done(h), now' = now
  PROVE  /\ pc' \in [Handlers -> {None, "drain", "enqueue", "pop", "render"}]
         /\ dev' \in [Handlers -> Devices \cup {None}] /\ list' \in [Handlers -> SUBSET Commands]
         /\ hand' \in [Handlers -> Entry \cup {NoHand}]
         /\ filled' \in [Handlers -> Nat] /\ since' \in [Handlers -> Nat]
         /\ Busy' /\ NeverOlderThanTheRequest'
<1> USE DEF IInv
<1>1. /\ pc' \in [Handlers -> {None, "drain", "enqueue", "pop", "render"}]
      /\ dev' \in [Handlers -> Devices \cup {None}] /\ list' \in [Handlers -> SUBSET Commands]
      /\ hand' \in [Handlers -> Entry \cup {NoHand}]
      /\ filled' \in [Handlers -> Nat] /\ since' \in [Handlers -> Nat]
  BY DEF Done, TypeOK
<1>2. /\ pc'[h] = None
      /\ \A g \in Handlers \ {h} : /\ pc'[g] = pc[g] /\ dev'[g] = dev[g] /\ hand'[g] = hand[g]
                                   /\ filled'[g] = filled[g] /\ since'[g] = since[g]
  BY DEF Done, TypeOK
<1>3. Busy'
  BY <1>2 DEF Busy, None
<1>4. NeverOlderThanTheRequest'
  BY <1>2, TimesKept DEF TypeOK, None
<1> QED BY <1>1, <1>3, <1>4

LEMMA PopKeeps ==
  ASSUME IInv, NEW h \in Handlers, Pop(h)
  PROVE  IInv'
<1> USE DEF IInv
<1>1. /\ pc[h] = "pop" /\ dev[h] \in Devices /\ since[h] \in 1..now
      /\ UNCHANGED <<issued, listed, tracked, pending, results, scanner, mislaid, budget, now>>
  BY DEF Pop, Busy, None, cloud, bounds
<1>2. CASE queue[dev[h]] = <<>>
  <2>1. Done(h) /\ queue' = queue
    BY <1>2 DEF Pop
  <2>2. Busy' /\ NeverOlderThanTheRequest' /\ TypeOK'
    BY <1>1, <2>1, DoneTypes DEF TypeOK
  <2>3. \A g \in Handlers : /\ pc'[g] = "render" <=> pc[g] = "render"
                            /\ pc[g] = "render" => hand'[g] = hand[g]
    BY <1>1, <2>1 DEF Done, TypeOK, None
  <2>4. UniqueIDs' /\ Live' = Live
    BY <1>1, <2>1, <2>3, StillPlaces
  <2>5. TrackedExactlyWhileLive'
    BY <1>1, <2>4, Moves
  <2> QED BY <2>2, <2>4, <2>5
<1>3. CASE queue[dev[h]] # <<>>
  <2> DEFINE e == Head(queue[dev[h]])
  <2>1. /\ hand' = [hand EXCEPT ![h] = e] /\ filled' = [filled EXCEPT ![h] = fillClockCommand(e)]
        /\ queue' = [queue EXCEPT ![dev[h]] = Tail(queue[dev[h]])]
        /\ pc' = [pc EXCEPT ![h] = "render"] /\ dev' = dev /\ list' = list /\ since' = since
    BY <1>1, <1>3 DEF Pop, TypeOK
  <2>2. e \in Entry /\ queue' \in [Devices -> Seq(Entry)] /\ UniqueIDs' /\ Live' = Live
    BY <1>1, <1>3, <2>1, Popped
  <2> HIDE DEF e
  <2>3. TrackedExactlyWhileLive'
    BY <1>1, <2>2, Moves
  <2>4. /\ pc'[h] = "render" /\ hand'[h] = e /\ filled'[h] = fillClockCommand(e)
        /\ \A g \in Handlers \ {h} : pc'[g] = pc[g] /\ hand'[g] = hand[g] /\ filled'[g] = filled[g]
    BY <2>1 DEF TypeOK
  <2>5. now \in DOMAIN Instants /\ since[h] \in DOMAIN Instants /\ since[h] <= now /\ now <= now
    BY <1>1, CommandAssumption DEF TypeOK
  <2>6. /\ encodeZKDateTime(Instants[now]) \in Nat /\ encodeZKDateTime(Instants[since[h]]) \in Nat
        /\ encodeZKDateTime(Instants[since[h]]) <= encodeZKDateTime(Instants[now])
    BY <2>5, InstantsOrdered
  <2>7. fillClockCommand(e) \in Nat /\ (e.cmd = Clock => fillClockCommand(e) = encodeZKDateTime(Instants[now]))
    BY <2>6 DEF fillClockCommand
  <2>8. TypeOK'
    BY <1>1, <2>1, <2>2, <2>7 DEF TypeOK
  <2>9. Busy'
    BY <1>1, <2>1, <2>2, <2>4 DEF Busy
  <2>10. ASSUME NEW g \in Handlers, pc'[g] = "render", hand'[g].cmd = Clock
         PROVE  /\ encodeZKDateTime(Instants[since'[g]]) <= filled'[g]
                /\ filled'[g] <= encodeZKDateTime(Instants[now'])
    <3>1. CASE g = h
      BY <1>1, <2>1, <2>4, <2>6, <2>7, <2>10, <3>1
    <3>2. CASE g # h
      BY <1>1, <2>1, <2>4, <2>10, <3>2 DEF NeverOlderThanTheRequest
    <3> QED BY <3>1, <3>2
  <2>11. NeverOlderThanTheRequest'
    BY <2>10 DEF NeverOlderThanTheRequest
  <2> QED BY <2>2, <2>3, <2>8, <2>9, <2>11
<1> QED BY <1>2, <1>3

\* RenderDeviceCommand refuses: the entry leaves.
LEMMA RefuseKeeps ==
  ASSUME IInv, NEW h \in Handlers, Refuse(h)
  PROVE  IInv'
<1> USE DEF IInv
<1>1. /\ pc[h] = "render" /\ Done(h) /\ tracked' = tracked \ {hand[h].cmd}
      /\ results' = results \cup ({hand[h].cmd} \cap Commands)
      /\ UNCHANGED <<issued, listed, queue, pending, scanner, mislaid, budget, now>>
  BY DEF Refuse, cloud, bounds
<1>2. /\ hand[h] \in Entry /\ hand[h] \in InHand
      /\ InQueue' = InQueue /\ InHand' = InHand \ {hand[h]}
      /\ \A e \in InQueue' \cup InHand' \cup pending : e.id # hand[h].id
      /\ \A f, g \in Handlers : pc'[f] = "render" /\ pc'[g] = "render" /\ hand'[f].id = hand'[g].id => f = g
  BY <1>1, PutDown
<1>3. Busy' /\ NeverOlderThanTheRequest' /\ TypeOK'
  BY <1>1, DoneTypes DEF TypeOK
<1>4. UniqueIDs'
  BY <1>1, <1>2 DEF UniqueIDs
<1>5. Live' = Live \ {hand[h]} /\ \A e \in Live' : e.id # hand[h].id
  BY <1>1, <1>2 DEF Live
<1>6. tracked' = tracked \ {x.cmd : x \in {hand[h]}} /\ {hand[h]} \in SUBSET Live
  BY <1>1, <1>2 DEF Live
<1>7. TrackedExactlyWhileLive'
  BY <1>5, <1>6, Leaves
<1> QED BY <1>3, <1>4, <1>7

\* The entry moves to the pending commands.
LEMMA ServeKeeps ==
  ASSUME IInv, NEW h \in Handlers, Serve(h)
  PROVE  IInv'
<1> USE DEF IInv
<1> DEFINE x == [dev |-> dev[h], id |-> hand[h].id, cmd |-> hand[h].cmd]
<1>1. /\ pc[h] = "render" /\ Done(h) /\ tracked' = tracked /\ pending' = pending \cup {x}
      /\ UNCHANGED <<issued, listed, queue, results, now>>
  BY DEF Serve, cloud
<1>2. /\ hand[h] \in Entry /\ hand[h] \in InHand /\ dev[h] \in Devices
      /\ InQueue' = InQueue /\ InHand' = InHand \ {hand[h]}
      /\ \A e \in InQueue' \cup InHand' \cup pending : e.id # hand[h].id
      /\ \A f, g \in Handlers : pc'[f] = "render" /\ pc'[g] = "render" /\ hand'[f].id = hand'[g].id => f = g
  BY <1>1, PutDown
<1>3. hand[h].id \in IDs /\ hand[h].cmd \in Kinds
  BY <1>2 DEF Entry
<1>4. x \in [dev : Devices, id : IDs, cmd : Kinds] /\ x.id = hand[h].id /\ x.cmd = hand[h].cmd
  BY <1>2, <1>3
<1> HIDE DEF x
<1>5. scanner' \in [Devices -> SUBSET IDs] /\ mislaid' \subseteq Commands
  <2>1. scanner' \in [Devices -> SUBSET IDs]
    <3>1. scanner' = scanner \/ scanner' = [scanner EXCEPT ![dev[h]] = scanner[dev[h]] \cup {hand[h].id}]
      BY DEF Serve
    <3>2. scanner[dev[h]] \cup {hand[h].id} \in SUBSET IDs /\ scanner \in [Devices -> SUBSET IDs]
      BY <1>2, <1>3 DEF TypeOK
    <3> QED BY <1>2, <3>1, <3>2
  <2>2. mislaid' \subseteq Commands
    BY DEF Serve, TypeOK
  <2> QED BY <2>1, <2>2
<1>6. Busy' /\ NeverOlderThanTheRequest' /\ TypeOK'
  BY <1>1, <1>4, <1>5, DoneTypes DEF TypeOK
<1>7. UniqueIDs'
  BY <1>1, <1>2, <1>4 DEF UniqueIDs
<1>8. Live' = (Live \ {hand[h]}) \cup {x}
  BY <1>1, <1>2 DEF Live
<1>9. TrackedExactlyWhileLive'
  <2>1. \A e \in Live' : \E y \in Live : e.id = y.id /\ e.cmd = y.cmd
    BY <1>2, <1>4, <1>8 DEF Live
  <2>2. \A y \in Live : \E e \in Live' : e.id = y.id /\ e.cmd = y.cmd
    BY <1>4, <1>8
  <2> QED BY <1>1, <2>1, <2>2, Moves
<1> QED BY <1>6, <1>7, <1>9

\* What is pending under that id is finished.
LEMMA AnswerKeeps ==
  ASSUME IInv, NEW d \in Devices, NEW i \in scanner[d], handleDeviceCmd(d, i)
  PROVE  IInv'
<1> USE DEF IInv
<1> DEFINE X == pending \ pending'
<1>1. /\ pending' = {e \in pending : ~(e.dev = d /\ e.id = i)} /\ tracked' = tracked \ {e.cmd : e \in X}
      /\ results' = results \cup ({e.cmd : e \in X} \cap Commands)
      /\ scanner' = [scanner EXCEPT ![d] = scanner[d] \ {i}]
      /\ UNCHANGED <<issued, listed, queue, pc, dev, list, hand, filled, since, mislaid, budget, now>>
  BY DEF handleDeviceCmd, cloud, handlers, bounds, TypeOK
<1>2. pending' \subseteq pending /\ X = pending \ pending'
  BY <1>1
<1> HIDE DEF X
<1>3. InQueue' = InQueue /\ InHand' = InHand
  BY <1>1 DEF InQueue, InHand
<1>4. UniqueIDs'
  BY <1>1, <1>2, <1>3 DEF UniqueIDs
<1>5. \A x \in X, e \in InQueue \cup InHand \cup pending' : x.id # e.id
  BY <1>2 DEF UniqueIDs
<1>6. X \in SUBSET Live /\ Live' = Live \ X
  BY <1>2, <1>3, <1>5 DEF Live
<1>7. TrackedExactlyWhileLive'
  <2>1. \A x \in X, e \in Live' : x.id # e.id
    BY <1>3, <1>5 DEF Live
  <2> QED BY <1>1, <1>6, <2>1, Leaves
<1>8. TypeOK'
  <2>1. scanner' \in [Devices -> SUBSET IDs]
    BY <1>1 DEF TypeOK
  <2>2. tracked' \subseteq Commands /\ results' \subseteq Commands
    BY <1>1 DEF TypeOK
  <2> QED BY <1>1, <1>2, <2>1, <2>2 DEF TypeOK
<1>9. Busy'
  BY <1>1 DEF Busy
<1>10. NeverOlderThanTheRequest'
  BY <1>1, TimesKept DEF TypeOK
<1> QED BY <1>4, <1>7, <1>8, <1>9, <1>10

\* An answer that is lost leaves what is pending.
LEMMA UnheardKeeps ==
  ASSUME IInv, NEW d \in Devices, NEW i \in scanner[d], Unheard(d, i)
  PROVE  IInv'
<1> USE DEF IInv
<1>1. UNCHANGED <<issued, listed, queue, tracked, pending, pc, dev, list, hand, filled, since, results, now>>
  BY DEF Unheard, cloud, handlers
<1>2. scanner' \in [Devices -> SUBSET IDs] /\ mislaid' \subseteq Commands
  <2>1. scanner' = [scanner EXCEPT ![d] = scanner[d] \ {i}]
    BY DEF Unheard
  <2>2. scanner' \in [Devices -> SUBSET IDs]
    BY <2>1 DEF TypeOK
  <2>3. mislaid' \subseteq Commands
    BY DEF Unheard, TypeOK
  <2> QED BY <2>2, <2>3
<1>3. TypeOK'
  BY <1>1, <1>2 DEF TypeOK
<1>4. Busy'
  BY <1>1 DEF Busy
<1>5. UniqueIDs' /\ Live' = Live
  BY <1>1, StillPlaces
<1>6. TrackedExactlyWhileLive'
  BY <1>1, <1>5, Moves
<1>7. NeverOlderThanTheRequest'
  BY <1>1, TimesKept DEF TypeOK
<1> QED BY <1>3, <1>4, <1>5, <1>6, <1>7

\* The cloud, the results on their way, and time.
LEMMA OutsideKeeps ==
  ASSUME IInv,
         \/ \E c \in Commands : Issue(c) \/ reportCloudCommandResult(c)
         \/ Pass
         \/ UNCHANGED vars
  PROVE  IInv'
<1> USE DEF IInv
<1>1. /\ UNCHANGED <<queue, tracked, pending, pc, dev, list, hand, filled, since, scanner, mislaid>>
      /\ issued' \subseteq Commands /\ listed' \subseteq issued' /\ results' \subseteq Commands
  BY DEF Issue, reportCloudCommandResult, Pass, vars, cloud, handlers, bounds, TypeOK
<1>2. now' \in {now, now + 1} /\ now' \in DOMAIN Instants /\ now \in Nat
  <2>1. now' = now \/ (now < Len(Instants) /\ now' = now + 1)
    BY DEF Issue, reportCloudCommandResult, Pass, vars, bounds
  <2> QED BY <2>1, CommandAssumption DEF TypeOK
<1>3. TypeOK'
  BY <1>1, <1>2 DEF TypeOK
<1>4. Busy'
  BY <1>1, <1>2 DEF Busy
<1>5. UniqueIDs' /\ Live' = Live
  BY <1>1, StillPlaces
<1>6. TrackedExactlyWhileLive'
  BY <1>1, <1>5, Moves
<1>7. NeverOlderThanTheRequest'
  BY <1>1, <1>2, TimesKept
<1> QED BY <1>3, <1>4, <1>5, <1>6, <1>7

\* A process that has just started holds nothing.
LEMMA FreshHolds ==
  ASSUME queue = [d \in Devices |-> <<>>], pc = [h \in Handlers |-> None], pending = {}, tracked = {}
  PROVE  UniqueIDs /\ TrackedExactlyWhileLive /\ Busy /\ NeverOlderThanTheRequest
<1>1. InQueue = {} /\ InHand = {} /\ \A h \in Handlers : pc[h] # "render"
  BY Places DEF None
<1>2. Live = {}
  BY <1>1 DEF Live
<1>3. TrackedExactlyWhileLive
  BY <1>2 DEF TrackedExactlyWhileLive
<1>4. UniqueIDs /\ Busy /\ NeverOlderThanTheRequest
  BY <1>1 DEF UniqueIDs, Busy, NeverOlderThanTheRequest, None
<1> QED BY <1>3, <1>4

LEMMA RestartKeeps ==
  ASSUME IInv, NEW S \in SUBSET results, Restart(S)
  PROVE  IInv'
<1>1. Fresh /\ UNCHANGED <<issued, listed, scanner, now>> /\ results' = S /\ mislaid' = {}
  BY DEF Restart, cloud
<1>2. (queue = [d \in Devices |-> <<>>] /\ pc = [h \in Handlers |-> None] /\ pending = {} /\ tracked = {}
        => UniqueIDs /\ TrackedExactlyWhileLive /\ Busy /\ NeverOlderThanTheRequest)'
  BY FreshHolds, PTL
<1>3. UniqueIDs' /\ TrackedExactlyWhileLive' /\ Busy' /\ NeverOlderThanTheRequest'
  BY <1>1, <1>2 DEF Fresh
<1>4. TypeOK'
  <2>1. /\ queue' \in [Devices -> Seq(Entry)] /\ tracked' = {} /\ pending' = {}
        /\ pc' \in [Handlers -> {None, "drain", "enqueue", "pop", "render"}]
        /\ dev' \in [Handlers -> Devices \cup {None}] /\ list' \in [Handlers -> SUBSET Commands]
        /\ hand' \in [Handlers -> Entry \cup {NoHand}]
        /\ filled' \in [Handlers -> Nat] /\ since' \in [Handlers -> Nat]
    BY <1>1 DEF Fresh
  <2> QED BY <1>1, <2>1 DEF IInv, TypeOK
<1> QED BY <1>3, <1>4 DEF IInv

LEMMA InitIInv == Init => IInv
<1> SUFFICES ASSUME Init PROVE IInv
  OBVIOUS
<1>1. UniqueIDs /\ TrackedExactlyWhileLive /\ Busy /\ NeverOlderThanTheRequest
  BY FreshHolds DEF Init
<1>2. TypeOK
  <2>1. /\ queue \in [Devices -> Seq(Entry)]
        /\ pc \in [Handlers -> {None, "drain", "enqueue", "pop", "render"}]
        /\ dev \in [Handlers -> Devices \cup {None}] /\ list \in [Handlers -> SUBSET Commands]
        /\ hand \in [Handlers -> Entry \cup {NoHand}]
        /\ filled \in [Handlers -> Nat] /\ since \in [Handlers -> Nat]
    BY DEF Init
  <2>2. scanner \in [Devices -> SUBSET IDs] /\ now \in DOMAIN Instants
    BY CommandAssumption DEF Init
  <2> QED BY <2>1, <2>2 DEF Init, TypeOK
<1> QED BY <1>1, <1>2 DEF IInv

LEMMA Invariance == Spec => []IInv
<1>1. IInv /\ [Next]_vars => IInv'
  <2> SUFFICES ASSUME IInv, [Next]_vars PROVE IInv'
    OBVIOUS
  <2>1. ASSUME NEW h \in Handlers, Handle(h) \/ \E d \in Devices : Poll(h, d) PROVE IInv'
    BY <2>1, DrainKeeps, EnqueueKeeps, PopKeeps, RefuseKeeps, ServeKeeps DEF Handle
  <2>2. ASSUME NEW d \in Devices, syncDeviceClocks(d) \/ \E i \in scanner[d] : handleDeviceCmd(d, i) \/ Unheard(d, i)
        PROVE  IInv'
    BY <2>2, ClockKeeps, AnswerKeeps, UnheardKeeps
  <2>3. ASSUME NEW S \in SUBSET results, Restart(S) PROVE IInv'
    BY <2>3, RestartKeeps
  <2> QED BY <2>1, <2>2, <2>3, OutsideKeeps DEF Next
<1> QED BY <1>1, InitIInv, PTL DEF Spec

\* The state of the queues, of the requests and of the cloud keeps its types.
THEOREM TypeCorrect == Spec => []TypeOK
BY Invariance, PTL DEF IInv

\* cloudCmdID holds exactly the commands that are in a queue, in a hand or
\* pending, and each is in one place, however many requests of however many
\* scanners fetch, enqueue, pop and answer at once, and across restarts.
THEOREM MarkedExactlyWhileInHand == Spec => []TrackedExactlyWhileLive
BY Invariance, PTL DEF IInv

\* The time handleGetRequest fills into a clock command is never older than the
\* request and never ahead of now, for every sequence of moments.
THEOREM TimesAreNotOld == Spec => []NeverOlderThanTheRequest
BY Invariance, PTL DEF IInv
=============================================================================
