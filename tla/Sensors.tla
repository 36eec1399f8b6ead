------------------------------ MODULE Sensors ------------------------------
(***************************************************************************)
(* lago_v1_5/src: the programs that use the pressure sensor on the i2c bus *)
(* and the GPS receiver on the serial port: lago -t (temperature, pressure *)
(* and altitude once), lago -f (temperature and pressure every second) and *)
(* lago -g (a position).  Two invocations may run at a time, and nothing   *)
(* keeps them apart: the sensor has one command register and one output    *)
(* register for all conversions, the port hands each character to one of   *)
(* its readers.                                                            *)
(***************************************************************************)
EXTENDS Integers, Sequences, FiniteSets, Bmp180, GpsLine

CONSTANTS
  Procs,           \* invocations that may overlap
  Eprom,           \* the sensor's coefficients
  RawT, RawP,      \* raw values it may measure (the pressure in oversampling mode 1)
  Seconds,         \* the receiver's seconds are counted modulo this
  MaxCalls,        \* bound: invocations
  MaxFaults,       \* bound: failing calls (i2c transfers included) and signals
  MaxNoise,        \* bound: chunks lost or damaged on the line
  MaxQueue,        \* bound: chunks the port holds (a reader is never so late as to lose one)
  BufferTexts      \* sentences that fit into buffer[256]

None == "none"

\* the coefficients have 16 bits, some with a sign, the raw values 16 and, in mode 1, 17;
\* a sentence, of at most 82 characters, fits into the buffer
ASSUME SensorsAssumption ==
  /\ MaxCalls \in Nat /\ MaxFaults \in Nat /\ MaxNoise \in Nat /\ MaxQueue \in Nat \ {0}
  /\ Seconds \in Nat \ {0} /\ BufferTexts \in Nat \ {0}
  /\ None \notin Procs
  /\ \A v \in RawT : v \in Nat /\ v < 65536
  /\ \A v \in RawP : v \in Nat /\ v < 131072
  /\ Eprom \in [bmp180_register_table -> Int]
  /\ \A r \in bmp180_register_table :
       IF r \in SignedRegisters THEN -32768 <= Eprom[r] /\ Eprom[r] < 32768
                                ELSE 0 <= Eprom[r] /\ Eprom[r] < 65536

VARIABLES
  device,          \* "i2c" or "uart": what the invocations use (the two share nothing, so
                   \* behaviours that use both are left out)
  pc, todo,        \* what a process does, and the functions of bmp180.c it still calls
  raw,             \* the raw values it has read
  coef,            \* its coefficients were read without an error
  report,          \* what it reported last
  line, status, coord,   \* its variables in gps_location()
  conv, out,       \* the sensor: the conversion that runs and its output register
  sky, rx, cut,    \* the receiver's next chunk, the port's queue, and the chunk was cut by a flush
  calls, faults, noise,
  truth, why       \* history: what the sensor measured for a process; what disturbed it

proc == <<device, pc, todo, raw, coef, report, line, status, coord>>
bmp == <<conv, out>>
gps == <<sky, rx, cut, noise>>
vars == <<proc, bmp, gps, calls, faults, truth, why>>

oss == 1
NoConv == [by |-> None, kind |-> None]
NoRaw == [ut |-> 0, msb |-> 0, lsb |-> 0, up |-> 0]
NotMeasured == -1
NoCoord == [time |-> Unset, date |-> Unset]
NoReport == [of |-> None, value |-> 0, eprom |-> Eprom, UT |-> 0, UP |-> 0]

-----------------------------------------------------------------------------
(* The sensor and the bus                                                  *)

\* the conversion ends: its value replaces whatever the output register held
Converted(v) ==
  /\ conv # NoConv
  /\ v \in (IF conv.kind = "t" THEN RawT ELSE RawP)
  /\ out' = IF conv.kind = "t" THEN <<v \div 256, v % 256, out[3]>>
            ELSE LET x == v * 2^(8 - oss) IN <<x \div 65536, (x \div 256) % 256, x % 256>>
  /\ truth' = [truth EXCEPT ![conv.by][conv.kind] = v]
  /\ conv' = NoConv
  /\ UNCHANGED <<proc, gps, calls, faults, why>>

\* a transfer succeeds, or fails and disturbs p
Transfer(p, ok, others) ==
  /\ faults' = faults + (IF ok THEN 0 ELSE 1) /\ faults' <= MaxFaults
  /\ why' = [q \in Procs |-> why[q] \cup (IF q \in others THEN {"shared"} ELSE {})
                                    \cup (IF q = p /\ ~ok THEN {"fault"} ELSE {})]

\* the command for a conversion: it takes the sensor from a process that waits for it,
\* or is not obeyed because a conversion runs
Command(p, kind, at) ==
  /\ \E ok, obeyed \in BOOLEAN :
       /\ obeyed \/ (ok /\ conv.by # None)
       /\ Transfer(p, ok, CASE ~ok -> {}
                            [] ok /\ obeyed -> {q \in Procs \ {p} : pc[q] \in {"readT", "readM", "readL", "readX"}}
                            [] OTHER -> {p})
       /\ conv' = IF ok /\ obeyed THEN [by |-> p, kind |-> kind] ELSE conv
       /\ truth' = IF ok /\ obeyed THEN [truth EXCEPT ![p][kind] = NotMeasured] ELSE truth
  /\ pc' = [pc EXCEPT ![p] = at]
  /\ UNCHANGED <<device, todo, raw, coef, report, line, status, coord, out, gps, calls>>

\* Ctrl-C: main() has installed a handler, so usleep() returns early, and nobody looks
\* at what it returned
signal_handler(p) ==
  /\ pc[p] \in {"readT", "readM"} /\ "signal" \notin why[p]
  /\ faults < MaxFaults /\ faults' = faults + 1
  /\ why' = [why EXCEPT ![p] = @ \cup {"signal"}]
  /\ UNCHANGED <<proc, bmp, gps, calls, truth>>

\* p is awake again: its own conversion is over if it slept and the wait was long enough
Slept(p, kind, wait, duration) ==
  \/ "signal" \in why[p]
  \/ conv # NoConv /\ conv.by = p /\ conv.kind = kind => wait < duration

\* a read; of a process that was disturbed no value is kept, it may be any
ReadRaw(p, field, value, at) ==
  /\ \E ok \in BOOLEAN : Transfer(p, ok, {})
  /\ raw' = [raw EXCEPT ![p] = IF why'[p] = {} THEN [@ EXCEPT ![field] = value] ELSE NoRaw]
  /\ pc' = [pc EXCEPT ![p] = at]
  /\ UNCHANGED <<device, todo, coef, report, line, status, coord, bmp, gps, calls, truth>>

\* bmp180_read_raw_temperature ...
CommandTemperature(p) == pc[p] = "cmdT" /\ Command(p, "t", "readT")

ReadTemperature(p) ==
  /\ pc[p] = "readT" /\ Slept(p, "t", WaitTemperature, DurationTemperature)
  /\ ReadRaw(p, "ut", bmp180_read_raw_temperature(ReadWord(out[1], out[2])),
             IF Head(todo[p]) = "temperature" THEN "report" ELSE "cmdP")

\* ... and bmp180_read_raw_pressure, byte by byte
CommandPressure(p) == pc[p] = "cmdP" /\ Command(p, "p", "readM")

ReadPressureMsb(p) ==
  /\ pc[p] = "readM" /\ Slept(p, "p", WaitPressure(oss), DurationPressure(oss))
  /\ ReadRaw(p, "msb", out[1], "readL")

ReadPressureLsb(p) == pc[p] = "readL" /\ ReadRaw(p, "lsb", out[2], "readX")

ReadPressureXlsb(p) ==
  /\ pc[p] = "readX"
  /\ ReadRaw(p, "up", bmp180_read_raw_pressure(raw[p].msb, raw[p].lsb, out[3], oss), "report")

\* what bmp180_temperature, bmp180_pressure and bmp180_altitude return; the altitude is
\* a function of the pressure and stands as that
Compensated(eprom, of, UT, UP) ==
  IF of = "temperature" THEN bmp180_temperature(eprom, UT) ELSE bmp180_pressure(eprom, UT, UP, oss)

Report(p) ==
  LET of == Head(todo[p])
      rest == Tail(todo[p])
  IN  /\ pc[p] = "report"
      /\ report' = [report EXCEPT ![p] =
           IF why[p] # {} \/ ~coef[p] THEN [NoReport EXCEPT !.of = of]
           ELSE LET eprom == bmp180_read_eprom(Eprom)
                IN  [of |-> of, value |-> Compensated(eprom, of, raw[p].ut, raw[p].up),
                     eprom |-> eprom, UT |-> raw[p].ut, UP |-> raw[p].up]]
      /\ todo' = [todo EXCEPT ![p] = rest]
      /\ pc' = [pc EXCEPT ![p] = "next"]
      /\ UNCHANGED <<device, raw, coef, line, status, coord, bmp, gps, calls, faults, truth, why>>

\* the next function, the next second of -f, or the end (-t closes the sensor, -f ends
\* when it was interrupted)
NextFunction(p) ==
  /\ pc[p] = "next"
  /\ \/ /\ todo[p] # << >> /\ UNCHANGED todo
        /\ pc' = [pc EXCEPT ![p] = "cmdT"]
     \/ /\ todo[p] = << >> /\ report[p].of = "pressure"
        /\ todo' = [todo EXCEPT ![p] = <<"temperature", "pressure">>]
        /\ pc' = [pc EXCEPT ![p] = "cmdT"]
     \/ /\ todo[p] = << >> /\ UNCHANGED todo
        /\ pc' = [pc EXCEPT ![p] = "done"]
  /\ report' = [report EXCEPT ![p] = NoReport]
  /\ raw' = [raw EXCEPT ![p] = NoRaw]
  /\ why' = [why EXCEPT ![p] = {}]
  /\ UNCHANGED <<device, coef, line, status, coord, bmp, gps, calls, faults, truth>>

-----------------------------------------------------------------------------
(* The receiver, the port and its readers                                  *)

Readers == {p \in Procs : pc[p] = "reading"}

Sentence == <<"GGA", "RMC", "GSV">>
Part == <<"text", "checksum", "newline">>

\* the receiver sends its next chunk to an open port: a flush may have cut it, and
\* noise lets the port ignore or misread characters
Send ==
  LET c == Chunk(Part[(sky.at % 3) + 1], Sentence[(sky.at \div 3) + 1], sky.sec)
  IN  /\ Readers # {} /\ Len(rx) < MaxQueue
      /\ sky' = [at |-> (sky.at + 1) % 9, sec |-> (sky.sec + ((sky.at + 1) \div 9)) % Seconds]
      /\ cut' = FALSE
      /\ \/ /\ rx' \in {Append(rx, d) : d \in IF ~cut \/ c.part = "newline" THEN {c}
                                              ELSE {d \in Damaged(c) : d.part = "text"}}
            /\ UNCHANGED <<noise, why>>
         \/ /\ noise < MaxNoise /\ noise' = noise + 1
            /\ rx' \in {rx} \cup {Append(rx, d) : d \in Damaged(c)}
            /\ why' = [q \in Procs |-> why[q] \cup
                 (IF q \notin Readers THEN {} ELSE IF c.part = "newline" THEN {"newline"} ELSE {"noise"})]
      /\ UNCHANGED <<proc, bmp, calls, faults, truth>>

\* gps_location: the position, the time and the number of satellites come from a GGA
\* sentence, the date, the speed and the course from an RMC sentence; it ends when it
\* has seen one of each
gps_location(p, type) ==
  /\ line' = [line EXCEPT ![p] = NoLine]
  /\ coord' = [coord EXCEPT ![p] =
       CASE type = "NMEA_GPGGA" -> [@ EXCEPT !.time = rp_NmeaParseGpgga(line[p])]
         [] type = "NMEA_GPRMC" -> [@ EXCEPT !.date = rp_NmeaParseGprmc(line[p])]
         [] OTHER -> @]
  /\ status' = [status EXCEPT ![p] = @ \cup ({type} \cap {"NMEA_GPGGA", "NMEA_GPRMC"})]
  /\ pc' = [pc EXCEPT ![p] = IF type = "crash" THEN "crash" ELSE IF Cardinality(status'[p]) = 2 THEN "done" ELSE @]

\* rp_UartReadln: one turn of its loop, as soon as there is something to read; at a
\* newline the line goes to gps_location(), and too long a line overruns the buffer
rp_UartReadln(p) ==
  /\ pc[p] = "reading" /\ rx # << >> /\ "shared" \notin why[p]
  /\ rx' = Tail(rx)
  /\ LET c == Head(rx)
     IN  IF c.part = "newline"
         THEN \E type \in rp_NmeaGetMessageType(line[p]) : gps_location(p, type)
         ELSE /\ line' = [line EXCEPT ![p] = Put(@, c)]
              /\ pc' = [pc EXCEPT ![p] = IF line'[p].texts > BufferTexts THEN "crash" ELSE @]
              /\ UNCHANGED <<status, coord>>
  /\ UNCHANGED <<device, todo, raw, coef, report, bmp, sky, cut, noise, calls, faults, truth, why>>

\* the same for a process that shared the port, whose lines are made of what the other
\* one left: it goes on, prints something or crashes
ReadShared(p) ==
  /\ pc[p] = "reading" /\ rx # << >> /\ "shared" \in why[p]
  /\ rx' = Tail(rx)
  /\ \E at \in {"reading", "done", "crash"} : pc' = [pc EXCEPT ![p] = at]
  /\ UNCHANGED <<device, todo, raw, coef, report, line, status, coord, bmp, sky, cut, noise, calls, faults,
                 truth, why>>

-----------------------------------------------------------------------------
(* main()                                                                  *)

\* bmp180_init returns a sensor, one whose coefficients were not all read, or, when an
\* allocation, the device or its address failed, NULL
bmp180_init == {"sensor", "misread", "NULL"}

\* bmp180_dump_eprom and bmp180_set_oss follow what it returned, before any option is
\* looked at
bmp180_dump_eprom(returned) == IF returned = "NULL" THEN "crash" ELSE "main"

\* an invocation; those that have ended are forgotten
Start(p) ==
  LET fresh == {p} \cup {q \in Procs : pc[q] \in {"done", "crash"}}
      Reset(f, v) == [q \in Procs |-> IF q \in fresh THEN v ELSE f[q]]
  IN  /\ pc[p] \in {"off", "done", "crash"} /\ calls < MaxCalls
      /\ calls' = calls + 1
      /\ \E returned \in bmp180_init :
           /\ faults' = faults + (IF returned = "sensor" THEN 0 ELSE 1) /\ faults' <= MaxFaults
           /\ coef' = [coef EXCEPT ![p] = returned = "sensor"]
           /\ pc' = [Reset(pc, "off") EXCEPT ![p] = bmp180_dump_eprom(returned)]
      /\ todo' = Reset(todo, << >>)
      /\ raw' = Reset(raw, NoRaw)
      /\ report' = Reset(report, NoReport)
      /\ line' = Reset(line, NoLine)
      /\ status' = Reset(status, {})
      /\ coord' = Reset(coord, NoCoord)
      /\ why' = [Reset(why, {}) EXCEPT ![p] = IF pc'[p] = "crash" THEN {"fault"} ELSE {}]
      /\ UNCHANGED <<device, bmp, gps, truth>>

\* -t and -f
StartSensor(p) ==
  /\ pc[p] = "main" /\ device = "i2c"
  /\ todo' \in {[todo EXCEPT ![p] = <<"temperature", "pressure", "altitude">>],
                [todo EXCEPT ![p] = <<"temperature", "pressure">>]}
  /\ pc' = [pc EXCEPT ![p] = "cmdT"]
  /\ UNCHANGED <<device, raw, coef, report, line, status, coord, bmp, gps, calls, faults, truth, why>>

\* -g, gps_init: the port is opened and flushed, which may cut the chunk that is being
\* received; without the port the program reads for ever from descriptor -1
gps_init(p) ==
  /\ pc[p] = "main" /\ device = "uart"
  /\ \/ /\ pc' = [pc EXCEPT ![p] = "reading"]
        /\ rx' = << >>
        /\ cut' \in BOOLEAN
        /\ sky' \in IF Readers = {} THEN [at : 0..8, sec : {0}] ELSE {sky}
        /\ why' = [q \in Procs |-> why[q]
             \cup (IF q \in Readers \cup {p} /\ Readers # {} THEN {"shared"} ELSE {})
             \cup (IF q = p /\ (cut' \/ sky'.at % 3 # 0) THEN {"noise"} ELSE {})]
        /\ line' = [q \in Procs |-> IF "shared" \in why'[q] THEN NoLine ELSE line[q]]
        /\ status' = [q \in Procs |-> IF "shared" \in why'[q] THEN {} ELSE status[q]]
        /\ coord' = [q \in Procs |-> IF "shared" \in why'[q] THEN NoCoord ELSE coord[q]]
        /\ UNCHANGED faults
     \/ /\ pc' = [pc EXCEPT ![p] = "blind"]
        /\ faults < MaxFaults /\ faults' = faults + 1
        /\ UNCHANGED <<sky, rx, cut, line, status, coord, why>>
  /\ UNCHANGED <<device, todo, raw, coef, report, bmp, noise, calls, truth>>

Init ==
  /\ device \in {"i2c", "uart"}
  /\ pc = [p \in Procs |-> "off"] /\ todo = [p \in Procs |-> << >>]
  /\ raw = [p \in Procs |-> NoRaw] /\ coef = [p \in Procs |-> FALSE]
  /\ report = [p \in Procs |-> NoReport]
  /\ line = [p \in Procs |-> NoLine] /\ status = [p \in Procs |-> {}]
  /\ coord = [p \in Procs |-> NoCoord]
  /\ conv = NoConv /\ out = <<0, 0, 0>>
  /\ sky = [at |-> 0, sec |-> 0] /\ rx = << >> /\ cut = FALSE
  /\ calls = 0 /\ faults = 0 /\ noise = 0
  /\ truth = [p \in Procs |-> [t |-> NotMeasured, p |-> NotMeasured]] /\ why = [p \in Procs |-> {}]

Next ==
  \/ \E v \in RawT \cup RawP : Converted(v)
  \/ Send
  \/ \E p \in Procs :
       \/ Start(p) \/ StartSensor(p) \/ gps_init(p)
       \/ signal_handler(p)
       \/ CommandTemperature(p) \/ ReadTemperature(p)
       \/ CommandPressure(p) \/ ReadPressureMsb(p) \/ ReadPressureLsb(p) \/ ReadPressureXlsb(p)
       \/ Report(p) \/ NextFunction(p)
       \/ rp_UartReadln(p) \/ ReadShared(p)

\* The receiver goes on sending, and a process that can read a character reads it.
Fairness == WF_vars(Send) /\ \A p \in Procs : WF_vars(rp_UartReadln(p))

Spec == Init /\ [][Next]_vars /\ Fairness

-----------------------------------------------------------------------------
\* What is reported as temperature, pressure or altitude is computed from the
\* coefficients of the eprom and the values that the sensor measured for this process in
\* this call: the waits are long enough, the bytes are put together in the right order,
\* nothing is left over from an earlier conversion.  Exceptions: a transfer failed (no
\* result of the bus is looked at), Ctrl-C cut a wait short, another process commanded a
\* conversion between this one's command and its last read, or the command came while a
\* conversion ran.
ReportsMeasured ==
  \A p \in Procs : LET r == report[p] IN
    r.of # None /\ why[p] = {} /\ coef[p] =>
      r.eprom = Eprom /\ r.UT = truth[p].t /\ (r.of # "temperature" => r.UP = truth[p].p)

\* A position that is printed is made of intact sentences, the time and the place of a
\* GGA and the date of an RMC sentence, at most a second apart, and a second more for
\* two damaged chunks; the time may be of the second after the date, which at midnight
\* is a day off.  Exceptions: the port was shared, or a newline was lost: two sentences
\* in one line pass the checksum of the first and are taken for the kind of either.
\* And lago -g crashes only if something was lost, the port was opened in the middle of
\* a sentence, or it was shared.
FixIntact ==
  \A p \in Procs :
    /\ pc[p] = "crash" => why[p] # {}
    /\ Cardinality(status[p]) = 2 /\ why[p] \cap {"shared", "newline"} = {} =>
         /\ Wrong \notin {coord[p].time, coord[p].date}
         /\ \E d \in -(noise \div 2)..1 + (noise \div 2) :
              coord[p].time = (coord[p].date + d) % Seconds

\* lago -g that has opened the port ends, with a position or in a crash (which FixIntact
\* limits), unless the port comes to be shared: damaged and unknown lines are passed
\* over, and each kind of sentence comes again.
FixArrives ==
  \A p \in Procs :
    pc[p] = "reading" /\ "shared" \notin why[p] ~> pc[p] # "reading" \/ "shared" \in why[p]
=============================================================================
