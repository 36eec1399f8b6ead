---------------------------- MODULE EventDecode ----------------------------
(* read_buffer() word by word: what the program makes of the records that  *)
(* the trigger core put into the ring.  It keeps three accounts over the   *)
(* whole session:                                                          *)
(*   the baseline        the first sample of every pulse (mtd_iBin, mtd_cbl) *)
(*   the dead time       pulses the core counted but did not send,         *)
(*                       from the gaps between counter words (mtd_cdp)     *)
(*   the clock           the date of the "x h" lines (fileDate) and with   *)
(*                       it the hour that names the data file              *)
(*                                                                         *)
(* The stream consists of the whole records of LagoTrigger.  A word is its *)
(* kind and the value the program takes from it: a counter word the number *)
(* of the trigger, a time word the number of the PPS.  What the time word  *)
(* holds are the three bytes of a register that no part of the running     *)
(* program writes (the thread that would is never started, and writes the  *)
(* decimal number hhmmss where read_buffer() expects a byte each for hour, *)
(* minute and second): it holds anything.  struct tm is the number of      *)
(* seconds it stands for.                                                  *)
EXTENDS Integers, Sequences

CONSTANTS CNT,       \* values of the 30-bit trigger counter
          SPM, MPH, HPD,   \* seconds of a minute, minutes of an hour, hours of a day
          TimeBytes, \* what the register of the GPS time may hold
          MaxGap,    \* triggers or PPS pulses without a record, one after another
          MaxTrig,   \* triggers of a session, at most (bound of a model)
          MaxPulses, \* records with samples, at most (bound of a model)
          MaxPps     \* PPS pulses of a session, at most (bound of a model)

HOUR == SPM * MPH
DAY  == HOUR * HPD

\* A longer gap is one the words of two records cannot show: the trigger number
\* comes round.
ASSUME DecodeAssumption ==
    /\ CNT \in Nat \ {0} /\ SPM \in Nat \ {0} /\ MPH \in Nat \ {0} /\ HPD \in Nat \ {0}
    /\ MaxGap \in Nat /\ MaxGap <= CNT
    /\ TimeBytes \subseteq [h : Nat, m : Nat, s : Nat]
    /\ MaxTrig \in Nat /\ MaxPulses \in Nat /\ MaxPps \in Nat

VARIABLES
    falseGPS, fToFile,   \* the mode of the session
    queue,               \* words of the record being read
    mtd_iBin, mtd_cbl,
    mtd_pulse_cnt, mtd_cdp,
    fileTime,            \* fileDate and fileTime
    file,                \* hour and day in the name of the open file
    mtd_seconds,
    trigNo, ppsNo,       \* the core: triggers and PPS pulses so far
    time_i,              \* the register of the GPS time at the last PPS
    missed,              \* history: PPS pulses that got no record
    pulses,              \* history: records with samples, begun
    lastNo,              \* history: trigger of the last counter word, -1 for none
    lost,                \* history: triggers between the first and the last
                         \*   counter word that got no record
    overlooked,          \* history: those of them after a number 0, or where
                         \*   the number wraps
    strayed,             \* history: the program took bytes for the time that
                         \*   are not a time of day
    startTime            \* history: fileTime at the start

vars == <<falseGPS, fToFile, queue, mtd_iBin, mtd_cbl, mtd_pulse_cnt, mtd_cdp,
          fileTime, file, mtd_seconds, trigNo, ppsNo, time_i, missed, pulses,
          lastNo, lost, overlooked, strayed, startTime>>

Day(t)  == t \div DAY
Hour(t) == (t % DAY) \div HOUR
Name(t) == [day |-> Day(t), hour |-> Hour(t)]
NoFile  == [day |-> -1, hour |-> -1]
Word(kind, val) == [kind |-> kind, val |-> val]

\* The first call of read_buffer(): the program takes the date from the
\* computer, or a fixed one that the first time word will correct, and opens
\* the file.
Init ==
    /\ falseGPS \in BOOLEAN /\ fToFile \in BOOLEAN
    /\ fileTime \in {HOUR - 2, DAY - 1}
    /\ startTime = fileTime
    /\ file = IF fToFile THEN Name(fileTime) ELSE NoFile
    /\ queue = << >>
    /\ mtd_iBin = 0 /\ mtd_cbl = 0 /\ mtd_pulse_cnt = 0 /\ mtd_cdp = 0
    /\ mtd_seconds = 0 /\ trigNo = 0 /\ ppsNo = 0 /\ time_i \in TimeBytes /\ missed = 0
    /\ pulses = 0 /\ lastNo = -1 /\ lost = 0 /\ overlooked = 0 /\ strayed = FALSE

decoder == <<mtd_iBin, mtd_cbl, mtd_pulse_cnt, mtd_cdp, fileTime, file,
             mtd_seconds, pulses, lastNo, lost, overlooked, strayed, startTime>>

-----------------------------------------------------------------------------
(* The stream of the trigger core: samples, status and counter of a        *)
(* trigger; two values and a status for a sub-trigger; metadata, ended by  *)
(* the word 0xFFFFFFFF, for a PPS.  Triggers and PPS pulses that find the  *)
(* core busy get no record.                                                *)

TriggerRecord(gap) ==
    /\ queue = << >> /\ trigNo + gap < MaxTrig /\ pulses < MaxPulses
    /\ trigNo' = trigNo + gap + 1
    /\ queue' = <<Word("sample", 0), Word("sample", 1), Word("status", 0),
                  Word("counter", trigNo + gap)>>
    /\ UNCHANGED <<falseGPS, fToFile, ppsNo, time_i, missed, decoder>>

SubTriggerRecord ==
    /\ queue = << >> /\ pulses < MaxPulses
    /\ queue' = <<Word("sample", 0), Word("sample", 1), Word("status", 0)>>
    /\ UNCHANGED <<falseGPS, fToFile, trigNo, ppsNo, time_i, missed, decoder>>

PpsRecord(gap, bytes) ==
    /\ queue = << >> /\ ppsNo + gap < MaxPps
    /\ ppsNo' = ppsNo + gap + 1
    /\ missed' = missed + gap
    /\ time_i' = bytes
    /\ queue' = <<Word("meta", 0), Word("time", ppsNo'), Word("end", 0)>>
    /\ UNCHANGED <<falseGPS, fToFile, trigNo, decoder>>

-----------------------------------------------------------------------------
(* The decoder: one action for each kind of word.                          *)

stream == <<falseGPS, fToFile, trigNo, ppsNo, time_i, missed>>
Take(kind) == queue # << >> /\ Head(queue).kind = kind /\ queue' = Tail(queue)

\* wo>>30 == 0.  MTD_BLBIN is 1.
ReadSample ==
    /\ Take("sample")
    /\ mtd_iBin' = mtd_iBin + 1
    /\ mtd_cbl' = IF mtd_iBin' = 1 THEN mtd_cbl + 1 ELSE mtd_cbl
    /\ pulses' = IF Head(queue).val = 0 THEN pulses + 1 ELSE pulses
    /\ UNCHANGED <<stream, mtd_pulse_cnt, mtd_cdp, fileTime, file, mtd_seconds,
                   lastNo, lost, overlooked, strayed, startTime>>

\* wo>>30 == 1
MutReadStatus ==
    /\ Take("status")
    /\ UNCHANGED <<stream, decoder>>

ReadStatus ==
    /\ Take("status")
    /\ mtd_iBin' = 0
    /\ UNCHANGED <<stream, mtd_cbl, mtd_pulse_cnt, mtd_cdp, fileTime, file,
                   mtd_seconds, pulses, lastNo, lost, overlooked, strayed, startTime>>

\* The pulses the program takes for lost between numbers pnt and cnt.
MutMissing(pnt, cnt) == IF cnt - pnt > 0 /\ pnt # 0 THEN cnt - pnt ELSE 0

Missing(pnt, cnt) ==
    IF cnt - pnt - 1 > 0 /\ pnt # 0 THEN cnt - pnt - 1 ELSE 0

\* wo & 0x3FFFFFFF
CounterOf(no) == no % CNT

\* wo>>30 == 2
ReadCounter ==
    LET no  == Head(queue).val
        gap == IF lastNo = -1 THEN 0 ELSE no - lastNo - 1
    IN  /\ Take("counter")
        /\ mtd_pulse_cnt' = CounterOf(no)
        /\ mtd_cdp' = mtd_cdp + Missing(mtd_pulse_cnt, CounterOf(no))
        /\ lastNo' = no
        /\ lost' = lost + gap
        /\ overlooked' = IF (lastNo % CNT = 0) \/ (no \div CNT # lastNo \div CNT)
                         THEN overlooked + gap ELSE overlooked
        /\ UNCHANGED <<stream, mtd_iBin, mtd_cbl, fileTime, file, mtd_seconds,
                       pulses, strayed, startTime>>

\* The time word without GPS: one second more.  new_file() is called when the
\* second completes the hour, before the date is normalised.
FalseNewHour(t) == (t % SPM) + 1 = SPM /\ (t % HOUR) \div SPM = MPH - 1

MutFalseTime(t) == IF FalseNewHour(t) THEN t ELSE t + 1

FalseTime(t) == t + 1

\* The time word of a GPS: hour, minute and second are taken from its bytes, and
\* an hour that went back is one of the next day.
GpsHour(t, w) == (Day(t) + IF Hour(t) > w.h THEN 1 ELSE 0) * DAY + w.h * HOUR

\* new_file() has normalised the date by then, and the hour is set once more.
GpsDate(t, w) ==
    LET again == IF fToFile /\ Hour(t) # w.h THEN w.h \div HPD ELSE 0
    IN  GpsHour(t, w) + again * DAY + w.m * SPM + w.s

TimeOfDay(w) == w.h < HPD /\ w.m < MPH /\ w.s < SPM

MutNewHour(t) == FalseNewHour(t)

NewHour(t) == IF falseGPS THEN FalseNewHour(t) ELSE Hour(t) # time_i.h

\* The name new_file() gives, from the date as it is when it is called.
FileName(t) == IF falseGPS THEN Name(FalseTime(t)) ELSE Name(GpsHour(t, time_i) + (t % HOUR))

\* wo>>27 == 0x1B
ReadTime ==
    /\ Take("time")
    /\ fileTime' = IF falseGPS THEN FalseTime(fileTime) ELSE GpsDate(fileTime, time_i)
    /\ file' = IF fToFile /\ NewHour(fileTime) THEN FileName(fileTime) ELSE file
    /\ mtd_seconds' = mtd_seconds + 1
    /\ strayed' = (strayed \/ (~falseGPS /\ ~TimeOfDay(time_i)))
    /\ UNCHANGED <<stream, mtd_iBin, mtd_cbl, mtd_pulse_cnt, mtd_cdp,
                   pulses, lastNo, lost, overlooked, startTime>>

\* The other words of the metadata: printed, or kept for later printing.
ReadMeta ==
    /\ Take("meta")
    /\ UNCHANGED <<stream, decoder>>

\* default: "E 3 - unknown word from FPGA".  0xFFFFFFFF>>27 is 0x1F.
ReadUnknown ==
    /\ Take("end")
    /\ UNCHANGED <<stream, decoder>>

Next ==
    \/ \E gap \in 0 .. MaxGap : TriggerRecord(gap)
    \/ SubTriggerRecord
    \/ \E gap \in 0 .. MaxGap, bytes \in TimeBytes : PpsRecord(gap, bytes)
    \/ ReadSample \/ ReadStatus \/ ReadCounter
    \/ ReadTime \/ ReadMeta \/ ReadUnknown

Spec == Init /\ [][Next]_vars

-----------------------------------------------------------------------------
(* Properties                                                              *)

\* Every record with samples contributes exactly its first sample to the
\* baseline, whatever records come between.
BaselineOncePerPulse == mtd_cbl = pulses

\* The dead time counts every trigger that got no record, between the first
\* counter word and the last, except after a word with number 0 (which the
\* program takes for "no word yet") and where the 30-bit number wraps.
DeadTime == mtd_cdp = lost - overlooked

\* The time printed belongs to the hour and the day in the name of the open
\* file, unless the program has taken for a GPS time what is not a time of day.
HourInFile == fToFile /\ ~strayed => file = Name(fileTime)

\* Once every record is read, the DAQ time has fallen behind the PPS pulses by
\* those that found the core busy and got no record, and by nothing else; and
\* without GPS so has the clock the program took from the computer, over minutes,
\* hours and days.
ClockTracks ==
    queue = << >> =>
        /\ mtd_seconds = ppsNo - missed
        /\ falseGPS => fileTime = startTime + ppsNo - missed
=============================================================================
