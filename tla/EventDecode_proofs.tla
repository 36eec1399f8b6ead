------------------------- MODULE EventDecode_proofs -------------------------
(* The accounts of read_buffer() are right for every width of the trigger  *)
(* counter, every calendar and every gap the assumption allows: proofs     *)
(* about EventDecode.                                                      *)
EXTENDS EventDecode, TLAPS

\* What is left of a record; its counter is the last trigger's, its time word the
\* last PPS's.
S0 == Word("sample", 0)
S1 == Word("sample", 1)
St == Word("status", 0)
Cn(n) == Word("counter", n)
Me == Word("meta", 0)
Ti(g) == Word("time", g)
En == Word("end", 0)

CounterAhead(n) == {<<S0, S1, St, Cn(n)>>, <<S1, St, Cn(n)>>, <<St, Cn(n)>>, <<Cn(n)>>}
TimeAhead(g)    == {<<Me, Ti(g), En>>, <<Ti(g), En>>}
OneRead(n)      == {<<S1, St, Cn(n)>>, <<S1, St>>}
TwoRead(n)      == {<<St, Cn(n)>>, <<St>>}
QueueShape      == queue \in CounterAhead(trigNo - 1) \cup TimeAhead(ppsNo)
                             \cup {<<S0, S1, St>>, <<S1, St>>, <<St>>, <<En>>, << >>}

TypeOK ==
    /\ falseGPS \in BOOLEAN /\ fToFile \in BOOLEAN
    /\ fileTime \in Int /\ startTime \in Int /\ strayed \in BOOLEAN
    /\ ppsNo \in Nat /\ missed \in Nat /\ time_i \in TimeBytes
    /\ mtd_cbl \in Nat /\ mtd_cdp \in Int /\ mtd_seconds \in Nat
    /\ trigNo \in Nat /\ pulses \in Nat /\ lost \in Int /\ overlooked \in Int

\* The number of samples read tells where in the record the decoder is.
BinInv ==
    mtd_iBin = IF queue \in OneRead(trigNo - 1) THEN 1
               ELSE IF queue \in TwoRead(trigNo - 1) THEN 2 ELSE 0

\* The last counter word read is that of the last trigger with a record.
CounterInv ==
    /\ lastNo \in Int /\ lastNo >= -1
    /\ mtd_pulse_cnt = IF lastNo = -1 THEN 0 ELSE lastNo % CNT
    /\ IF queue \in CounterAhead(trigNo - 1)
       THEN lastNo + 1 <= trigNo - 1 /\ trigNo - 1 <= lastNo + MaxGap + 1
       ELSE lastNo = trigNo - 1

\* A PPS with a record has had its time word read, or has it ahead; without GPS
\* every time word read is a second of the clock.
TimeInv ==
    /\ mtd_seconds = ppsNo - missed - IF queue \in TimeAhead(ppsNo) THEN 1 ELSE 0
    /\ falseGPS => fileTime = startTime + mtd_seconds

IInv == /\ TypeOK /\ QueueShape /\ BinInv /\ CounterInv /\ TimeInv
        /\ BaselineOncePerPulse /\ DeadTime /\ HourInFile

-----------------------------------------------------------------------------
(* Division                                                                *)

LEMMA DivMod ==
    ASSUME NEW a \in Int, NEW m \in Nat \ {0}
    PROVE  /\ a \div m \in Int /\ a % m \in 0 .. m - 1
           /\ a = m * (a \div m) + (a % m)
OBVIOUS

LEMMA DivUnique ==
    ASSUME NEW m \in Nat \ {0}, NEW a \in Int, NEW q \in Int, NEW r \in 0 .. m - 1,
           a = m * q + r
    PROVE  a \div m = q /\ a % m = r
<1> DEFINE p == a \div m
           s == a % m
<1>1. a \in Int /\ p \in Int /\ s \in 0 .. m - 1 /\ a = m * p + s
  BY DivMod
<1> HIDE DEF p, s
<1>2. m * (p - q) = r - s
  BY <1>1
<1>3. p = q
  <2>1. CASE p - q >= 1
    <3>1. m * (p - q) >= m
      BY <1>1, <2>1
    <3> QED BY <1>1, <1>2, <3>1
  <2>2. CASE p - q <= -1
    <3>1. m * (p - q) <= -m
      BY <1>1, <2>2
    <3> QED BY <1>1, <1>2, <3>1
  <2> QED BY <1>1, <2>1, <2>2
<1>4. s = r
  BY <1>1, <1>2, <1>3
<1> QED BY <1>3, <1>4 DEF p, s

LEMMA DivMono ==
    ASSUME NEW m \in Nat \ {0}, NEW a \in Int, NEW b \in Int, a <= b
    PROVE  a \div m <= b \div m
<1> DEFINE p == a \div m
           q == b \div m
<1>1. /\ p \in Int /\ a % m \in 0 .. m - 1 /\ a = m * p + (a % m)
      /\ q \in Int /\ b % m \in 0 .. m - 1 /\ b = m * q + (b % m)
  BY DivMod
<1> HIDE DEF p, q
<1>2. b - a < m * (q - p) + m
  BY <1>1
<1>3. p <= q
  <2>1. CASE q - p <= -1
    <3>1. m * (q - p) <= -m
      BY <1>1, <2>1
    <3> QED BY <1>1, <1>2, <3>1
  <2> QED BY <1>1, <2>1
<1> QED BY <1>3 DEF p, q

\* A remainder of a multiple of m, by m.
LEMMA Nested ==
    ASSUME NEW m \in Nat \ {0}, NEW k \in Nat \ {0}, NEW t \in Int
    PROVE  /\ (t % (m * k)) % m = t % m
           /\ (t % (m * k)) \div m \in 0 .. k - 1
<1> DEFINE M == m * k
           Q == t \div M
           R == t % M
           h == R \div m
           u == R % m
<1>0. M \in Nat \ {0}
  OBVIOUS
<1>1. Q \in Int /\ R \in 0 .. M - 1 /\ t = M * Q + R
  BY <1>0, DivMod
<1> HIDE DEF M, Q, R
<1>2. h \in Int /\ u \in 0 .. m - 1 /\ R = m * h + u
  <2>1. R \in Int
    BY <1>0, <1>1
  <2> QED BY <2>1, DivMod
<1> HIDE DEF h, u
<1>3. t = m * (k * Q + h) + u /\ k * Q + h \in Int
  BY <1>1, <1>2 DEF M
<1>4. t % m = u
  BY <1>2, <1>3, DivUnique
<1>5. h >= 0
  <2>1. CASE h <= -1
    <3>1. m * h <= -m
      BY <1>2, <2>1
    <3> QED BY <1>0, <1>1, <1>2, <3>1
  <2> QED BY <1>2, <2>1
<1>6. h < k
  <2>1. CASE h >= k
    <3>1. m * h >= M
      BY <1>2, <2>1 DEF M
    <3> QED BY <1>0, <1>1, <1>2, <3>1
  <2> QED BY <1>2, <2>1
<1> QED BY <1>2, <1>4, <1>5, <1>6 DEF M, R, h, u

-----------------------------------------------------------------------------
(* The calendar                                                            *)

LEMMA Units ==
    /\ SPM \in Nat \ {0} /\ MPH \in Nat \ {0} /\ HPD \in Nat \ {0}
    /\ HOUR \in Nat \ {0} /\ HOUR = SPM * MPH
    /\ DAY \in Nat \ {0} /\ DAY = HOUR * HPD
<1>1. SPM \in Nat \ {0} /\ MPH \in Nat \ {0} /\ HPD \in Nat \ {0}
  BY DecodeAssumption
<1>2. HOUR \in Nat \ {0} /\ HOUR = SPM * MPH
  BY <1>1 DEF HOUR
<1>3. DAY \in Nat \ {0} /\ DAY = HOUR * HPD
  BY <1>1, <1>2 DEF DAY
<1> QED BY <1>1, <1>2, <1>3

\* The minute of the hour, and the hour of the day.
LEMMA NestedUnits ==
    ASSUME NEW t \in Int
    PROVE  /\ (t % HOUR) % SPM = t % SPM
           /\ (t % DAY) % HOUR = t % HOUR
           /\ (t % DAY) \div HOUR \in 0 .. HPD - 1
<1>1. (t % (SPM * MPH)) % SPM = t % SPM
  <2>1. SPM \in Nat \ {0} /\ MPH \in Nat \ {0}
    BY DecodeAssumption
  <2> QED BY <2>1, Nested
<1>2. /\ (t % (HOUR * HPD)) % HOUR = t % HOUR
      /\ (t % (HOUR * HPD)) \div HOUR \in 0 .. HPD - 1
  <2>1. HOUR \in Nat \ {0} /\ HPD \in Nat \ {0}
    BY Units
  <2> QED BY <2>1, Nested
<1> QED BY <1>1, <1>2 DEF HOUR, DAY

\* Without GPS the file changes whenever the hour does.
LEMMA FalseSameHour ==
    ASSUME NEW t \in Int, ~FalseNewHour(t)
    PROVE  Name(t + 1) = Name(t)
<1> DEFINE u == t % HOUR
           R == t % DAY
           h == R \div HOUR
           D == t \div DAY
<1>1. u \in 0 .. HOUR - 1
  BY Units, DivMod
<1>s. u % SPM = t % SPM
  BY NestedUnits
<1>3. R % HOUR = u /\ h \in 0 .. HPD - 1
  BY NestedUnits
<1>4. R \in 0 .. DAY - 1 /\ D \in Int /\ t = DAY * D + R
  BY Units, DivMod
<1>2. u # HOUR - 1
  <2>1. SUFFICES ASSUME u = HOUR - 1 PROVE FALSE
    OBVIOUS
  <2>2. u = SPM * (MPH - 1) + (SPM - 1) /\ SPM - 1 \in 0 .. SPM - 1 /\ MPH - 1 \in Int
    BY <2>1, Units
  <2>3. u \div SPM = MPH - 1 /\ u % SPM = SPM - 1
    <3>1. u \in Int /\ SPM \in Nat \ {0}
      BY <1>1, Units
    <3> HIDE DEF u
    <3> QED BY <2>2, <3>1, DivUnique
  <2>4. (t % SPM) + 1 = SPM
    BY <2>3, <1>s, Units
  <2> QED BY <2>3, <2>4 DEF FalseNewHour
<1>5. R = HOUR * h + u
  <2>1. R \in Int /\ HOUR \in Nat \ {0}
    BY <1>4, Units
  <2>2. R = HOUR * (R \div HOUR) + (R % HOUR)
    BY <2>1, DivMod, Zenon
  <2> QED BY <2>2, <1>3
<1> HIDE DEF u, R, h, D
<1>6. u + 1 \in 0 .. HOUR - 1 /\ R + 1 = HOUR * h + (u + 1)
  BY <1>1, <1>2, <1>3, <1>4, <1>5, Units
<1>7. (R + 1) \div HOUR = h
  <2>1. R + 1 \in Int /\ h \in Int /\ HOUR \in Nat \ {0}
    BY <1>3, <1>4, Units
  <2> QED BY <1>6, <2>1, DivUnique
<1>8. R + 1 \in 0 .. DAY - 1
  <2>1. h + 1 <= HPD /\ h + 1 \in Nat
    BY <1>3, Units
  <2>2. HOUR * (h + 1) <= DAY
    BY <2>1, Units
  <2>3. R + 1 < HOUR * (h + 1)
    BY <1>3, <1>6, Units
  <2> QED BY <1>4, <2>1, <2>2, <2>3, Units
<1>9. t + 1 = DAY * D + (R + 1)
  BY <1>4, Units
<1>10. (t + 1) \div DAY = D /\ (t + 1) % DAY = R + 1
  <2>1. t + 1 \in Int /\ DAY \in Nat \ {0}
    BY Units
  <2> QED BY <1>4, <1>8, <1>9, <2>1, DivUnique
<1> QED BY <1>7, <1>10 DEF Name, Day, Hour, R, h, D

\* The hour and the day of a date put together from its parts ...
LEMMA NameOfParts ==
    ASSUME NEW q \in Int, NEW h \in 0 .. HPD - 1, NEW u \in 0 .. HOUR - 1
    PROVE  Name(q * DAY + h * HOUR + u) = [day |-> q, hour |-> h]
<1> DEFINE r == h * HOUR + u
           t == q * DAY + h * HOUR + u
<1>1. r \in 0 .. DAY - 1 /\ r = HOUR * h + u
  <2>1. h + 1 <= HPD /\ h \in Nat
    BY Units
  <2>2. HOUR * (h + 1) <= DAY /\ HOUR * h \in Nat
    BY <2>1, Units
  <2> QED BY <2>1, <2>2, Units
<1>2. t = DAY * q + r /\ t \in Int
  BY <1>1, Units
<1> HIDE DEF r, t
<1>3. t \div DAY = q /\ t % DAY = r
  BY <1>1, <1>2, Units, DivUnique
<1>4. r \div HOUR = h
  <2>1. r \in Int /\ h \in Int /\ HOUR \in Nat \ {0}
    BY <1>1, Units
  <2> QED BY <1>1, <2>1, DivUnique
<1>5. Name(t) = [day |-> q, hour |-> h]
  BY <1>3, <1>4 DEF Name, Day, Hour
<1> QED BY <1>5 DEF t

LEMMA GpsTypes ==
    ASSUME NEW t \in Int, NEW w \in TimeBytes
    PROVE  /\ w.h \in Nat /\ w.m \in Nat /\ w.s \in Nat
           /\ Day(t) \in Int /\ Hour(t) \in 0 .. HPD - 1 /\ t % HOUR \in 0 .. HOUR - 1
           /\ GpsDate(t, w) \in Int
<1>1. w.h \in Nat /\ w.m \in Nat /\ w.s \in Nat
  BY DecodeAssumption
<1>2. Day(t) \in Int /\ Hour(t) \in 0 .. HPD - 1 /\ t % HOUR \in 0 .. HOUR - 1
  BY Units, DivMod, NestedUnits DEF Day, Hour
<1>3. w.h \div HPD \in Int
  <2>1. w.h \in Int /\ HPD \in Nat \ {0}
    BY <1>1, Units
  <2> QED BY <2>1, DivMod
<1>4. GpsHour(t, w) \in Int
  BY <1>1, <1>2, Units DEF GpsHour
<1>5. GpsDate(t, w) \in Int
  <2> DEFINE a == IF fToFile /\ Hour(t) # w.h THEN w.h \div HPD ELSE 0
             g == GpsHour(t, w)
  <2>1. a \in Int /\ g \in Int
    BY <1>3, <1>4
  <2>2. GpsDate(t, w) = g + a * DAY + w.m * SPM + w.s
    BY DEF GpsDate
  <2> HIDE DEF a, g
  <2> QED BY <1>1, <2>1, <2>2, Units
<1> QED BY <1>1, <1>2, <1>5

\* ... so that the date taken from a time of day has its hour, on the same day or
\* the next, and so has the name that new_file() gives before it is complete.
LEMMA GpsNames ==
    ASSUME NEW t \in Int, NEW w \in TimeBytes, TimeOfDay(w)
    PROVE  LET day == Day(t) + IF Hour(t) > w.h THEN 1 ELSE 0
           IN  /\ Name(GpsDate(t, w)) = [day |-> day, hour |-> w.h]
               /\ Name(GpsHour(t, w) + (t % HOUR)) = [day |-> day, hour |-> w.h]
<1> DEFINE q == Day(t) + IF Hour(t) > w.h THEN 1 ELSE 0
           u == w.m * SPM + w.s
           v == t % HOUR
<1>1. w.h \in 0 .. HPD - 1 /\ w.m \in 0 .. MPH - 1 /\ w.s \in 0 .. SPM - 1
  BY GpsTypes, Units DEF TimeOfDay
<1>2. q \in Int /\ v \in 0 .. HOUR - 1
  <2>1. Day(t) \in Int /\ v \in 0 .. HOUR - 1
    BY GpsTypes
  <2> QED BY <2>1
<1>3. u \in 0 .. HOUR - 1
  <2>1. SPM * (w.m + 1) <= HOUR /\ w.m * SPM \in Nat
    BY <1>1, Units
  <2> QED BY <1>1, <2>1, Units
<1>4. w.h \div HPD = 0
  <2>1. w.h = HPD * 0 + w.h /\ w.h \in Int /\ HPD \in Nat \ {0} /\ 0 \in Int
    BY <1>1, Units
  <2> QED BY <1>1, <2>1, DivUnique
<1>5. GpsHour(t, w) = q * DAY + w.h * HOUR
  BY DEF GpsHour
<1>6. GpsDate(t, w) = GpsHour(t, w) + 0 * DAY + w.m * SPM + w.s
  BY <1>4 DEF GpsDate
<1> HIDE DEF q, v
<1>7. GpsDate(t, w) = q * DAY + w.h * HOUR + u
  BY <1>1, <1>2, <1>5, <1>6, Units
<1> HIDE DEF u
<1>8. Name(GpsDate(t, w)) = [day |-> q, hour |-> w.h]
  BY <1>1, <1>2, <1>3, <1>7, NameOfParts
<1>9. Name(GpsHour(t, w) + v) = [day |-> q, hour |-> w.h]
  BY <1>1, <1>2, <1>5, NameOfParts
<1> QED BY <1>8, <1>9 DEF q, v

\* The pulses taken for lost between two counter words.
LEMMA MissingIsGap ==
    ASSUME NEW p \in Nat, NEW n \in Nat, p + 1 <= n, n <= p + MaxGap + 1
    PROVE  Missing(p % CNT, n % CNT) =
             IF p % CNT = 0 \/ n \div CNT # p \div CNT THEN 0 ELSE n - p - 1
<1>c. CNT \in Nat \ {0} /\ MaxGap \in Nat /\ MaxGap <= CNT
  BY DecodeAssumption
<1> DEFINE P == p \div CNT
           N == n \div CNT
           x == p % CNT
           y == n % CNT
<1>1. /\ P \in Int /\ x \in 0 .. CNT - 1 /\ p = CNT * P + x
      /\ N \in Int /\ y \in 0 .. CNT - 1 /\ n = CNT * N + y
  BY <1>c, DivMod
<1>2. P <= N
  BY <1>c, DivMono
<1> HIDE DEF P, N, x, y
<1>3. CASE x = 0
  BY <1>1, <1>3 DEF Missing, x
<1>4. CASE x # 0 /\ N = P
  <2>1. y - x = n - p
    BY <1>1, <1>4, <1>c
  <2> QED BY <1>1, <1>4, <2>1 DEF Missing, x, y, P, N
<1>5. CASE x # 0 /\ N # P
  <2>1. N - P >= 1
    BY <1>1, <1>2, <1>5
  <2>2. CNT * (N - P) >= CNT
    BY <2>1, <1>1, <1>c
  <2>3. y - x = (n - p) - CNT * (N - P)
    BY <1>1, <1>c
  <2>4. y - x - 1 <= 0
    BY <2>2, <2>3, <1>1, <1>c
  <2> QED BY <1>1, <1>5, <2>4 DEF Missing, x, y, P, N
<1> QED BY <1>3, <1>4, <1>5

-----------------------------------------------------------------------------
(* The queue                                                               *)

\* The words of a record can be told apart.
LEMMA Words ==
    ASSUME NEW n, NEW g
    PROVE
    /\ S0.kind = "sample" /\ S0.val = 0 /\ S1.kind = "sample" /\ S1.val = 1
    /\ St.kind = "status" /\ Cn(n).kind = "counter" /\ Cn(n).val = n
    /\ Me.kind = "meta" /\ Ti(g).kind = "time" /\ Ti(g).val = g /\ En.kind = "end"
BY DEF S0, S1, St, Cn, Me, Ti, En, Word

LEMMA Tuples ==
    ASSUME NEW a, NEW b, NEW c, NEW d
    PROVE  /\ <<a>> # << >> /\ Head(<<a>>) = a /\ Tail(<<a>>) = << >>
           /\ <<a, b>> # << >> /\ Head(<<a, b>>) = a /\ Tail(<<a, b>>) = <<b>>
           /\ <<a, b, c>> # << >> /\ Head(<<a, b, c>>) = a /\ Tail(<<a, b, c>>) = <<b, c>>
           /\ <<a, b, c, d>> # << >> /\ Head(<<a, b, c, d>>) = a
           /\ Tail(<<a, b, c, d>>) = <<b, c, d>>
OBVIOUS

\* What is read, and what is left.
LEMMA Taken ==
    ASSUME QueueShape
    PROVE  /\ Take("sample") =>
                \/ queue = <<S0, S1, St, Cn(trigNo - 1)>> /\ queue' = <<S1, St, Cn(trigNo - 1)>>
                \/ queue = <<S1, St, Cn(trigNo - 1)>> /\ queue' = <<St, Cn(trigNo - 1)>>
                \/ queue = <<S0, S1, St>> /\ queue' = <<S1, St>>
                \/ queue = <<S1, St>> /\ queue' = <<St>>
           /\ Take("status") =>
                \/ queue = <<St, Cn(trigNo - 1)>> /\ queue' = <<Cn(trigNo - 1)>>
                \/ queue = <<St>> /\ queue' = << >>
           /\ Take("counter") => queue = <<Cn(trigNo - 1)>> /\ queue' = << >>
           /\ Take("meta") => queue = <<Me, Ti(ppsNo), En>> /\ queue' = <<Ti(ppsNo), En>>
           /\ Take("time") => queue = <<Ti(ppsNo), En>> /\ queue' = <<En>>
           /\ Take("end") => queue = <<En>> /\ queue' = << >>
<1>1. CASE queue = <<S0, S1, St, Cn(trigNo - 1)>>
  BY <1>1, Words, Tuples DEF Take
<1>2. CASE queue = <<S1, St, Cn(trigNo - 1)>>
  BY <1>2, Words, Tuples DEF Take
<1>3. CASE queue = <<St, Cn(trigNo - 1)>>
  BY <1>3, Words, Tuples DEF Take
<1>4. CASE queue = <<Cn(trigNo - 1)>>
  BY <1>4, Words, Tuples DEF Take
<1>5. CASE queue = <<S0, S1, St>>
  BY <1>5, Words, Tuples DEF Take
<1>6. CASE queue = <<S1, St>>
  BY <1>6, Words, Tuples DEF Take
<1>7. CASE queue = <<St>>
  BY <1>7, Words, Tuples DEF Take
<1>8. CASE queue = <<Me, Ti(ppsNo), En>>
  BY <1>8, Words, Tuples DEF Take
<1>9. CASE queue = <<Ti(ppsNo), En>>
  BY <1>9, Words, Tuples DEF Take
<1>10. CASE queue = <<En>>
  BY <1>10, Words, Tuples DEF Take
<1>11. CASE queue = << >>
  BY <1>11 DEF Take
<1> QED BY <1>1, <1>2, <1>3, <1>4, <1>5, <1>6, <1>7, <1>8, <1>9, <1>10, <1>11
        DEF QueueShape, CounterAhead, TimeAhead

\* Which of the sets the rest of a record is in.
LEMMA Places ==
    ASSUME NEW n, NEW g
    PROVE  /\ <<S0, S1, St, Cn(n)>> \in CounterAhead(n)
           /\ <<S0, S1, St, Cn(n)>> \notin TimeAhead(g) \cup OneRead(n) \cup TwoRead(n)
           /\ <<S1, St, Cn(n)>> \in CounterAhead(n) \cap OneRead(n)
           /\ <<S1, St, Cn(n)>> \notin TimeAhead(g) \cup TwoRead(n)
           /\ <<St, Cn(n)>> \in CounterAhead(n) \cap TwoRead(n)
           /\ <<St, Cn(n)>> \notin TimeAhead(g) \cup OneRead(n)
           /\ <<Cn(n)>> \in CounterAhead(n)
           /\ <<Cn(n)>> \notin TimeAhead(g) \cup OneRead(n) \cup TwoRead(n)
           /\ <<S0, S1, St>> \notin CounterAhead(n) \cup TimeAhead(g) \cup OneRead(n) \cup TwoRead(n)
           /\ <<S1, St>> \in OneRead(n)
           /\ <<S1, St>> \notin CounterAhead(n) \cup TimeAhead(g) \cup TwoRead(n)
           /\ <<St>> \in TwoRead(n)
           /\ <<St>> \notin CounterAhead(n) \cup TimeAhead(g) \cup OneRead(n)
           /\ <<Me, Ti(g), En>> \in TimeAhead(g)
           /\ <<Me, Ti(g), En>> \notin CounterAhead(n) \cup OneRead(n) \cup TwoRead(n)
           /\ <<Ti(g), En>> \in TimeAhead(g)
           /\ <<Ti(g), En>> \notin CounterAhead(n) \cup OneRead(n) \cup TwoRead(n)
           /\ <<En>> \notin CounterAhead(n) \cup TimeAhead(g) \cup OneRead(n) \cup TwoRead(n)
           /\ << >> \notin CounterAhead(n) \cup TimeAhead(g) \cup OneRead(n) \cup TwoRead(n)
BY Words DEF CounterAhead, TimeAhead, OneRead, TwoRead

-----------------------------------------------------------------------------
(* The invariant                                                           *)

LEMMA InitIInv == Init => IInv
<1> SUFFICES ASSUME Init PROVE IInv
  OBVIOUS
<1>1. TypeOK
  <2>1. DAY - 1 \in Nat /\ HOUR - 2 \in Int
    BY Units
  <2>2. fileTime \in Int /\ startTime \in Int
    BY <2>1 DEF Init
  <2>3. falseGPS \in BOOLEAN /\ fToFile \in BOOLEAN /\ strayed \in BOOLEAN /\ time_i \in TimeBytes
    BY Zenon DEF Init
  <2>4. /\ ppsNo = 0 /\ missed = 0 /\ mtd_cbl = 0 /\ mtd_cdp = 0 /\ mtd_seconds = 0
        /\ trigNo = 0 /\ pulses = 0 /\ lost = 0 /\ overlooked = 0
    BY DEF Init
  <2> QED BY <2>2, <2>3, <2>4 DEF TypeOK
<1>2. QueueShape
  BY DEF Init, QueueShape
<1>3. BinInv /\ CounterInv
  <2>1. queue = << >> /\ trigNo = 0 /\ lastNo = -1 /\ mtd_pulse_cnt = 0 /\ mtd_iBin = 0
    BY DEF Init
  <2>2. queue \notin CounterAhead(trigNo - 1) \cup OneRead(trigNo - 1) \cup TwoRead(trigNo - 1)
    BY <2>1, Places
  <2>3. BinInv
    BY <2>1, <2>2 DEF BinInv
  <2>4. lastNo \in Int /\ lastNo >= -1 /\ lastNo = trigNo - 1
    BY <2>1
  <2> QED BY <2>1, <2>2, <2>3, <2>4 DEF CounterInv
<1>4. TimeInv
  <2>1. queue = << >> /\ ppsNo = 0 /\ missed = 0 /\ mtd_seconds = 0 /\ fileTime = startTime
    BY DEF Init
  <2>2. queue \notin TimeAhead(ppsNo)
    BY <2>1, Places
  <2>3. fileTime = startTime + mtd_seconds /\ mtd_seconds = ppsNo - missed - 0
    BY <1>1, <2>1 DEF TypeOK
  <2> QED BY <2>2, <2>3 DEF TimeInv
<1>5. BaselineOncePerPulse /\ DeadTime /\ HourInFile
  BY DEF Init, BaselineOncePerPulse, DeadTime, HourInFile
<1> QED BY <1>1, <1>2, <1>3, <1>4, <1>5 DEF IInv

\* A new record: only the stream moves.
LEMMA TriggerIInv ==
    ASSUME IInv, NEW gap \in 0 .. MaxGap, TriggerRecord(gap)
    PROVE  IInv'
<1> DEFINE n == trigNo - 1
           m == trigNo' - 1
<1>1. /\ queue = << >> /\ queue' = <<S0, S1, St, Cn(m)>>
      /\ m = n + gap + 1 /\ trigNo' \in Nat /\ n \in Int /\ m \in Int
  BY DecodeAssumption DEF TriggerRecord, IInv, TypeOK, S0, S1, St, Cn
<1>2. UNCHANGED <<falseGPS, fToFile, ppsNo, time_i, missed>> /\ UNCHANGED decoder
  BY DEF TriggerRecord
<1>3. TypeOK'
  BY <1>1, <1>2 DEF IInv, TypeOK, decoder
<1>4. QueueShape'
  BY <1>1 DEF QueueShape, CounterAhead
<1>5. BinInv'
  BY <1>1, <1>2, Places DEF IInv, BinInv, decoder
<1>6. CounterInv'
  <2>1. lastNo = n /\ lastNo' = lastNo
    BY <1>1, <1>2, Places DEF IInv, CounterInv, decoder
  <2>2. queue' \in CounterAhead(m)
    BY <1>1, Places
  <2>3. lastNo' + 1 <= m /\ m <= lastNo' + MaxGap + 1
    BY SMTT(30), <1>1, <2>1, DecodeAssumption
  <2> QED BY <1>2, <2>2, <2>3 DEF IInv, CounterInv, decoder
<1>7. TimeInv'
  BY <1>1, <1>2, Places DEF IInv, TimeInv, decoder
<1>8. BaselineOncePerPulse' /\ DeadTime' /\ HourInFile'
  BY <1>2 DEF IInv, BaselineOncePerPulse, DeadTime, HourInFile, decoder
<1> QED BY <1>3, <1>4, <1>5, <1>6, <1>7, <1>8 DEF IInv

LEMMA SubTriggerIInv ==
    ASSUME IInv, SubTriggerRecord
    PROVE  IInv'
<1>1. queue = << >> /\ queue' = <<S0, S1, St>>
  BY DEF SubTriggerRecord, S0, S1, St
<1>2. UNCHANGED <<falseGPS, fToFile, trigNo, ppsNo, time_i, missed>> /\ UNCHANGED decoder
  BY DEF SubTriggerRecord
<1>3. TypeOK'
  BY <1>2 DEF IInv, TypeOK, decoder
<1>4. QueueShape'
  BY <1>1 DEF QueueShape
<1>5. BinInv' /\ CounterInv' /\ TimeInv'
  BY <1>1, <1>2, Places DEF IInv, BinInv, CounterInv, TimeInv, decoder
<1>6. BaselineOncePerPulse' /\ DeadTime' /\ HourInFile'
  BY <1>2 DEF IInv, BaselineOncePerPulse, DeadTime, HourInFile, decoder
<1> QED BY <1>3, <1>4, <1>5, <1>6 DEF IInv

LEMMA PpsIInv ==
    ASSUME IInv, NEW gap \in 0 .. MaxGap, NEW bytes \in TimeBytes, PpsRecord(gap, bytes)
    PROVE  IInv'
<1>1. /\ queue = << >> /\ queue' = <<Me, Ti(ppsNo'), En>>
      /\ ppsNo' = ppsNo + gap + 1 /\ missed' = missed + gap
      /\ ppsNo' \in Nat /\ missed' \in Nat /\ time_i' = bytes
  BY DecodeAssumption DEF PpsRecord, IInv, TypeOK, Me, Ti, En
<1>2. UNCHANGED <<falseGPS, fToFile, trigNo>> /\ UNCHANGED decoder
  BY DEF PpsRecord
<1>3. TypeOK'
  BY <1>1, <1>2 DEF IInv, TypeOK, decoder
<1>4. QueueShape'
  BY <1>1 DEF QueueShape, TimeAhead
<1>5. BinInv' /\ CounterInv'
  BY <1>1, <1>2, Places DEF IInv, BinInv, CounterInv, decoder
<1>6. TimeInv'
  <2>1. queue \notin TimeAhead(ppsNo) /\ queue' \in TimeAhead(ppsNo')
    BY <1>1, Places
  <2>2. mtd_seconds = ppsNo - missed
    BY <2>1 DEF IInv, TimeInv, TypeOK
  <2>3. mtd_seconds' = ppsNo' - missed' - 1
    BY <1>1, <1>2, <2>2, DecodeAssumption DEF IInv, TypeOK, decoder
  <2> QED BY <1>2, <2>1, <2>3 DEF IInv, TimeInv, decoder
<1>7. BaselineOncePerPulse' /\ DeadTime' /\ HourInFile'
  BY <1>2 DEF IInv, BaselineOncePerPulse, DeadTime, HourInFile, decoder
<1> QED BY <1>3, <1>4, <1>5, <1>6, <1>7 DEF IInv

\* The first sample of a record is the one that counts.
LEMMA SampleIInv ==
    ASSUME IInv, ReadSample
    PROVE  IInv'
<1> DEFINE n == trigNo - 1
<1>1. /\ UNCHANGED stream /\ Take("sample")
      /\ UNCHANGED <<mtd_pulse_cnt, mtd_cdp, fileTime, file, mtd_seconds>>
      /\ UNCHANGED <<lastNo, lost, overlooked, strayed, startTime>>
      /\ mtd_iBin' = mtd_iBin + 1
      /\ mtd_cbl' = IF mtd_iBin' = 1 THEN mtd_cbl + 1 ELSE mtd_cbl
      /\ pulses' = IF Head(queue).val = 0 THEN pulses + 1 ELSE pulses
  BY DEF ReadSample
<1>q. \/ queue = <<S0, S1, St, Cn(n)>> /\ queue' = <<S1, St, Cn(n)>>
      \/ queue = <<S1, St, Cn(n)>> /\ queue' = <<St, Cn(n)>>
      \/ queue = <<S0, S1, St>> /\ queue' = <<S1, St>>
      \/ queue = <<S1, St>> /\ queue' = <<St>>
  BY <1>1, Taken DEF IInv
<1>2. \/ queue \in {<<S0, S1, St, Cn(n)>>, <<S0, S1, St>>} /\ queue' \in OneRead(n)
      \/ queue \in OneRead(n) /\ queue' \in TwoRead(n)
  BY <1>q DEF OneRead, TwoRead
<1>3. queue' \in CounterAhead(n) <=> queue \in CounterAhead(n)
  BY <1>q, Places
<1>4. queue' \notin TimeAhead(ppsNo) /\ queue \notin TimeAhead(ppsNo)
  BY <1>q, Places
<1>5. mtd_cbl' \in Nat /\ pulses' \in Nat
  BY <1>1 DEF IInv, TypeOK
<1>6. TypeOK'
  BY <1>1, <1>5 DEF IInv, TypeOK, stream
<1>7. QueueShape'
  BY <1>1, Taken DEF IInv, QueueShape, CounterAhead, stream
<1>8. BinInv' /\ BaselineOncePerPulse'
  <2>1. CASE queue \in {<<S0, S1, St, Cn(n)>>, <<S0, S1, St>>} /\ queue' \in OneRead(n)
    <3>1. queue \notin OneRead(n) \cup TwoRead(n)
      BY <2>1, Places
    <3>2. mtd_iBin = 0
      BY <3>1 DEF IInv, BinInv
    <3>3. Head(queue).val = 0
      BY <2>1, Tuples, Words
    <3> QED BY <1>1, <2>1, <3>2, <3>3 DEF IInv, BinInv, BaselineOncePerPulse, stream
  <2>2. CASE queue \in OneRead(n) /\ queue' \in TwoRead(n)
    <3>1. mtd_iBin = 1 /\ Head(queue).val # 0
      BY <2>2, Tuples, Words DEF IInv, BinInv, OneRead
    <3>2. queue' \notin OneRead(n)
      BY <2>2, Places DEF TwoRead
    <3> QED BY <1>1, <2>2, <3>1, <3>2 DEF IInv, BinInv, BaselineOncePerPulse, stream
  <2> QED BY <1>2, <2>1, <2>2
<1>9. CounterInv' /\ TimeInv'
  BY <1>1, <1>3, <1>4 DEF IInv, CounterInv, TimeInv, stream
<1>10. DeadTime' /\ HourInFile'
  BY <1>1 DEF IInv, DeadTime, HourInFile, stream
<1> QED BY <1>6, <1>7, <1>8, <1>9, <1>10 DEF IInv

LEMMA StatusIInv ==
    ASSUME IInv, ReadStatus
    PROVE  IInv'
<1> DEFINE n == trigNo - 1
<1>1. /\ UNCHANGED stream /\ Take("status") /\ mtd_iBin' = 0
      /\ UNCHANGED <<mtd_cbl, mtd_pulse_cnt, mtd_cdp, fileTime, file, mtd_seconds>>
      /\ UNCHANGED <<pulses, lastNo, lost, overlooked, strayed, startTime>>
  BY DEF ReadStatus
<1>2. \/ queue = <<St, Cn(n)>> /\ queue' = <<Cn(n)>>
      \/ queue = <<St>> /\ queue' = << >>
  BY <1>1, Taken DEF IInv
<1>3. TypeOK'
  BY <1>1 DEF IInv, TypeOK, stream
<1>4. QueueShape'
  BY <1>1, <1>2 DEF QueueShape, CounterAhead, stream
<1>5. BinInv' /\ CounterInv' /\ TimeInv'
  <2>1. BinInv'
    BY <1>1, <1>2, Places DEF IInv, BinInv, stream
  <2>2. CounterInv'
    BY <1>1, <1>2, Places DEF IInv, CounterInv, stream
  <2>3. TimeInv'
    BY <1>1, <1>2, Places DEF IInv, TimeInv, stream
  <2> QED BY <2>1, <2>2, <2>3
<1>6. BaselineOncePerPulse' /\ DeadTime' /\ HourInFile'
  BY <1>1 DEF IInv, BaselineOncePerPulse, DeadTime, HourInFile, stream
<1> QED BY <1>3, <1>4, <1>5, <1>6 DEF IInv

\* What the program adds to the dead time is the gap, or the gap is overlooked.
LEMMA CounterIInv ==
    ASSUME IInv, ReadCounter
    PROVE  IInv'
<1> DEFINE no  == trigNo - 1
           gap == IF lastNo = -1 THEN 0 ELSE no - lastNo - 1
           over == (lastNo % CNT = 0) \/ (no \div CNT # lastNo \div CNT)
<1>1. Take("counter")
  BY DEF ReadCounter
<1>2. queue = <<Cn(no)>> /\ queue' = << >> /\ Head(queue).val = no
  BY <1>1, Taken, Tuples, Words DEF IInv
<1>3. /\ mtd_pulse_cnt' = no % CNT
      /\ mtd_cdp' = mtd_cdp + Missing(mtd_pulse_cnt, no % CNT)
      /\ lastNo' = no /\ lost' = lost + gap
      /\ overlooked' = IF over THEN overlooked + gap ELSE overlooked
  BY <1>2 DEF ReadCounter, CounterOf
<1>4. /\ UNCHANGED stream /\ UNCHANGED <<mtd_iBin, mtd_cbl, fileTime, file, mtd_seconds>>
      /\ UNCHANGED <<pulses, strayed, startTime>>
  BY DEF ReadCounter
<1>5. /\ lastNo \in Int /\ lastNo >= -1 /\ no \in Nat
      /\ lastNo + 1 <= no /\ no <= lastNo + MaxGap + 1
      /\ mtd_pulse_cnt = IF lastNo = -1 THEN 0 ELSE lastNo % CNT
  <2>1. queue \in CounterAhead(no)
    BY <1>2, Places
  <2>2. /\ lastNo \in Int /\ lastNo >= -1
        /\ lastNo + 1 <= no /\ no <= lastNo + MaxGap + 1
        /\ mtd_pulse_cnt = IF lastNo = -1 THEN 0 ELSE lastNo % CNT
    BY <2>1 DEF IInv, CounterInv
  <2>3. no \in Int
    BY DEF IInv, TypeOK
  <2> QED BY <2>2, <2>3
<1>6. /\ Missing(mtd_pulse_cnt, no % CNT) \in Int /\ gap \in Int
      /\ Missing(mtd_pulse_cnt, no % CNT) = gap - (IF over THEN gap ELSE 0)
  <2>1. CASE lastNo = -1
    BY <1>5, <2>1 DEF Missing
  <2>2. CASE lastNo # -1
    <3>1. lastNo \in Nat
      BY <1>5, <2>2
    <3>2. Missing(lastNo % CNT, no % CNT) = IF over THEN 0 ELSE no - lastNo - 1
      BY <1>5, <3>1, MissingIsGap
    <3> QED BY <1>5, <2>2, <3>1, <3>2
  <2> QED BY <2>1, <2>2
<1> HIDE DEF gap, over
<1>7. DeadTime' /\ mtd_cdp' \in Int /\ lost' \in Int /\ overlooked' \in Int
  BY <1>3, <1>6 DEF IInv, DeadTime, TypeOK
<1>8. TypeOK'
  BY <1>4, <1>7 DEF IInv, TypeOK, stream
<1>9. QueueShape'
  BY <1>2 DEF QueueShape
<1>10. BinInv' /\ TimeInv'
  BY <1>2, <1>4, Places DEF IInv, BinInv, TimeInv, stream
<1>11. CounterInv'
  <2>1. trigNo' - 1 = no /\ queue' \notin CounterAhead(no)
    BY <1>2, <1>4, Places DEF stream
  <2>2. lastNo' \in Int /\ lastNo' >= -1 /\ lastNo' # -1
    BY <1>3, <1>5
  <2> QED BY <1>3, <2>1, <2>2 DEF CounterInv
<1>12. BaselineOncePerPulse' /\ HourInFile'
  BY <1>4 DEF IInv, BaselineOncePerPulse, HourInFile, stream
<1> QED BY <1>7, <1>8, <1>9, <1>10, <1>11, <1>12 DEF IInv

\* The clock takes one second, or the time of day of the register, and the file
\* follows its hour.
LEMMA TimeIInv ==
    ASSUME IInv, ReadTime
    PROVE  IInv'
<1>1. Take("time")
  BY DEF ReadTime
<1>2. queue = <<Ti(ppsNo), En>> /\ queue' = <<En>>
  BY <1>1, Taken DEF IInv
<1>3. /\ fileTime' = IF falseGPS THEN FalseTime(fileTime) ELSE GpsDate(fileTime, time_i)
      /\ file' = IF fToFile /\ NewHour(fileTime) THEN FileName(fileTime) ELSE file
      /\ mtd_seconds' = mtd_seconds + 1
      /\ strayed' = (strayed \/ (~falseGPS /\ ~TimeOfDay(time_i)))
  BY DEF ReadTime
<1>4. /\ UNCHANGED stream /\ UNCHANGED <<mtd_iBin, mtd_cbl, mtd_pulse_cnt, mtd_cdp>>
      /\ UNCHANGED <<pulses, lastNo, lost, overlooked, startTime>>
  BY DEF ReadTime
<1>5. /\ fileTime \in Int /\ time_i \in TimeBytes /\ mtd_seconds \in Nat
      /\ falseGPS \in BOOLEAN /\ startTime \in Int
  BY DEF IInv, TypeOK
<1>6. fileTime' \in Int /\ mtd_seconds' \in Nat
  <2>1. GpsDate(fileTime, time_i) \in Int
    BY <1>5, GpsTypes
  <2> QED BY <1>3, <1>5, <2>1 DEF FalseTime
<1>7. TypeOK'
  <2>1. strayed' \in BOOLEAN
    BY <1>3, Zenon
  <2> QED BY <1>4, <1>6, <2>1 DEF IInv, TypeOK, stream
<1>8. QueueShape'
  BY <1>2 DEF QueueShape
<1>9. BinInv' /\ CounterInv'
  BY <1>2, <1>4, Places DEF IInv, BinInv, CounterInv, stream
<1>10. TimeInv'
  <2>1. queue \in TimeAhead(ppsNo) /\ queue' \notin TimeAhead(ppsNo')
    BY <1>2, Places
  <2>2. mtd_seconds' = ppsNo' - missed'
    BY <1>3, <1>4, <2>1 DEF IInv, TimeInv, TypeOK, stream
  <2>3. falseGPS' => fileTime' = startTime' + mtd_seconds'
    BY <1>3, <1>4, <1>5 DEF IInv, TimeInv, FalseTime, stream
  <2>4. ppsNo' - missed' - 0 = ppsNo' - missed'
    BY <1>7 DEF TypeOK
  <2> QED BY <2>1, <2>2, <2>3, <2>4 DEF TimeInv
<1>11. BaselineOncePerPulse' /\ DeadTime'
  BY <1>4 DEF IInv, BaselineOncePerPulse, DeadTime
<1>12. HourInFile'
  <2> SUFFICES ASSUME fToFile, ~strayed, falseGPS \/ TimeOfDay(time_i)
               PROVE  file' = Name(fileTime')
    BY <1>3, <1>4 DEF HourInFile, stream
  <2>1. file = Name(fileTime)
    BY DEF IInv, HourInFile
  <2>2. CASE falseGPS
    BY <1>3, <1>5, <2>1, <2>2, FalseSameHour DEF NewHour, FileName, FalseTime
  <2>3. CASE ~falseGPS
    <3> DEFINE day == Day(fileTime) + IF Hour(fileTime) > time_i.h THEN 1 ELSE 0
    <3>1. /\ Name(GpsDate(fileTime, time_i)) = [day |-> day, hour |-> time_i.h]
          /\ Name(GpsHour(fileTime, time_i) + (fileTime % HOUR)) =
               [day |-> day, hour |-> time_i.h]
      BY <1>5, <2>3, GpsNames
    <3>2. CASE Hour(fileTime) # time_i.h
      BY <1>3, <2>3, <3>1, <3>2 DEF NewHour, FileName
    <3>3. CASE Hour(fileTime) = time_i.h
      <4>1. day = Day(fileTime)
        <5>1. Day(fileTime) \in Int /\ Hour(fileTime) \in Int
          BY <1>5, GpsTypes
        <5> QED BY <3>3, <5>1
      <4> QED BY <1>3, <2>1, <2>3, <3>1, <3>3, <4>1 DEF NewHour, Name
    <3> QED BY <3>2, <3>3
  <2> QED BY <2>2, <2>3
<1> QED BY <1>7, <1>8, <1>9, <1>10, <1>11, <1>12 DEF IInv

LEMMA MetaIInv ==
    ASSUME IInv, ReadMeta
    PROVE  IInv'
<1>1. UNCHANGED stream /\ UNCHANGED decoder /\ Take("meta")
  BY DEF ReadMeta
<1>2. queue = <<Me, Ti(ppsNo), En>> /\ queue' = <<Ti(ppsNo), En>>
  BY <1>1, Taken DEF IInv
<1>3. TypeOK'
  BY <1>1 DEF IInv, TypeOK, stream, decoder
<1>4. QueueShape'
  BY <1>1, <1>2 DEF QueueShape, TimeAhead, stream
<1>5. BinInv' /\ CounterInv' /\ TimeInv'
  BY <1>1, <1>2, Places DEF IInv, BinInv, CounterInv, TimeInv, stream, decoder
<1>6. BaselineOncePerPulse' /\ DeadTime' /\ HourInFile'
  BY <1>1 DEF IInv, BaselineOncePerPulse, DeadTime, HourInFile, stream, decoder
<1> QED BY <1>3, <1>4, <1>5, <1>6 DEF IInv

LEMMA UnknownIInv ==
    ASSUME IInv, ReadUnknown
    PROVE  IInv'
<1>1. UNCHANGED stream /\ UNCHANGED decoder /\ Take("end")
  BY DEF ReadUnknown
<1>2. queue = <<En>> /\ queue' = << >>
  BY <1>1, Taken DEF IInv
<1>3. TypeOK'
  BY <1>1 DEF IInv, TypeOK, stream, decoder
<1>4. QueueShape'
  BY <1>2 DEF QueueShape
<1>5. BinInv' /\ CounterInv' /\ TimeInv'
  BY <1>1, <1>2, Places DEF IInv, BinInv, CounterInv, TimeInv, stream, decoder
<1>6. BaselineOncePerPulse' /\ DeadTime' /\ HourInFile'
  BY <1>1 DEF IInv, BaselineOncePerPulse, DeadTime, HourInFile, stream, decoder
<1> QED BY <1>3, <1>4, <1>5, <1>6 DEF IInv

LEMMA StutterIInv ==
    ASSUME IInv, UNCHANGED vars
    PROVE  IInv'
<1>1. TypeOK' /\ QueueShape' /\ BinInv' /\ CounterInv' /\ TimeInv'
  BY DEF IInv, TypeOK, QueueShape, BinInv, CounterInv, TimeInv, vars
<1>2. BaselineOncePerPulse' /\ DeadTime' /\ HourInFile'
  BY DEF IInv, BaselineOncePerPulse, DeadTime, HourInFile, vars
<1> QED BY <1>1, <1>2 DEF IInv

-----------------------------------------------------------------------------
(* The theorems                                                            *)

\* The position in the record, the last counter word and the last time word are
\* what the three accounts of read_buffer() rest on, in every state of a session.
THEOREM DecodeInvariant == Spec => []IInv
<1>1. Init => IInv
  BY InitIInv
<1>2. IInv /\ [Next]_vars => IInv'
  <2> SUFFICES ASSUME IInv, [Next]_vars PROVE IInv'
    OBVIOUS
  <2>1. CASE \E gap \in 0 .. MaxGap : TriggerRecord(gap)
    BY <2>1, TriggerIInv
  <2>2. CASE SubTriggerRecord
    BY <2>2, SubTriggerIInv
  <2>3. CASE \E gap \in 0 .. MaxGap, bytes \in TimeBytes : PpsRecord(gap, bytes)
    BY <2>3, PpsIInv
  <2>4. CASE ReadSample
    BY <2>4, SampleIInv
  <2>5. CASE ReadStatus
    BY <2>5, StatusIInv
  <2>6. CASE ReadCounter
    BY <2>6, CounterIInv
  <2>7. CASE ReadTime
    BY <2>7, TimeIInv
  <2>8. CASE ReadMeta
    BY <2>8, MetaIInv
  <2>9. CASE ReadUnknown
    BY <2>9, UnknownIInv
  <2>10. CASE UNCHANGED vars
    BY <2>10, StutterIInv
  <2> QED BY <2>1, <2>2, <2>3, <2>4, <2>5, <2>6, <2>7, <2>8, <2>9, <2>10 DEF Next
<1> QED BY <1>1, <1>2, PTL DEF Spec

\* However trigger, sub-trigger and PPS records follow each other, mtd_cbl counts
\* one sample of each pulse.
THEOREM BaselineIsRight == Spec => []BaselineOncePerPulse
<1>1. IInv => BaselineOncePerPulse
  BY DEF IInv
<1> QED BY <1>1, DecodeInvariant, PTL

\* mtd_cdp is the number of triggers without a record, less those after a word 0
\* or at a wrap of the counter, for a counter of any width.
THEOREM DeadTimeIsRight == Spec => []DeadTime
<1>1. IInv => DeadTime
  BY DEF IInv
<1> QED BY <1>1, DecodeInvariant, PTL

\* new_file() is called at every change of the hour that read_buffer() prints,
\* without GPS and with any time of day in the register, over midnight too.
THEOREM FileNamesTheHour == Spec => []HourInFile
<1>1. IInv => HourInFile
  BY DEF IInv
<1> QED BY <1>1, DecodeInvariant, PTL

\* The DAQ time and, without GPS, the dates printed are behind the PPS pulses by
\* those without a record, however long the session and whatever the calendar.
THEOREM ClockIsRight == Spec => []ClockTracks
<1>1. IInv => ClockTracks
  <2> SUFFICES ASSUME IInv, queue = << >>
               PROVE  /\ mtd_seconds = ppsNo - missed
                      /\ falseGPS => fileTime = startTime + ppsNo - missed
    BY DEF ClockTracks
  <2>1. queue \notin TimeAhead(ppsNo)
    BY Places
  <2>2. mtd_seconds = ppsNo - missed
    BY <2>1 DEF IInv, TimeInv, TypeOK
  <2> QED BY <2>2 DEF IInv, TimeInv, TypeOK
<1> QED BY <1>1, DecodeInvariant, PTL
=============================================================================
