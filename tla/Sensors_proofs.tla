--------------------------- MODULE Sensors_proofs ---------------------------
(* What lago -t and lago -f report is what the sensor measured for them,   *)
(* for any number of overlapping invocations, any coefficients and any raw *)
(* values; and what lago -g prints is of intact sentences, whatever noise  *)
(* loses or damages: proofs about Sensors.                                 *)
EXTENDS Sensors, FiniteSetTheorems, TLAPS

-----------------------------------------------------------------------------
(* The bytes                                                               *)

\* A word is read low byte first and put right again.
LEMMA Swapped ==
    ASSUME NEW v \in Nat, v < 65536
    PROVE  SwapBytes(ReadWord(v \div 256, v % 256)) = v
<1>1. PICK h \in Nat : h = v \div 256
  BY SMT
<1>2. PICK l \in Nat : l = v % 256
  BY SMT
<1>3. h < 256 /\ l < 256 /\ h * 256 + l = v
  BY <1>1, <1>2, SMT
<1>4. PICK x \in Nat : x = h + 256 * l
  BY SMT
<1>5. x % 256 = h /\ x \div 256 = l
  BY <1>3, <1>4, SMT
<1> QED BY <1>1, <1>2, <1>3, <1>4, <1>5, SMT DEF SwapBytes, ReadWord

LEMMA LastByte ==
    ASSUME NEW a \in Nat
    PROVE  a \div 256 \in Nat /\ a % 256 \in Nat /\ a % 256 < 256 /\ a = 256 * (a \div 256) + (a % 256)
BY SMT

LEMMA ThirdByte ==
    ASSUME NEW q \in Nat, NEW r \in Nat, NEW l \in Nat, r < 256, l < 256
    PROVE  (65536 * q + (256 * r + l)) \div 65536 = q
BY SMT

\* A raw temperature comes out of the output register as it went in ...
LEMMA TemperatureBytes ==
    ASSUME NEW v \in RawT
    PROVE  bmp180_read_raw_temperature(ReadWord(v \div 256, v % 256)) = v
BY Swapped, SensorsAssumption, SMT DEF bmp180_read_raw_temperature

\* ... and so does a raw pressure, shifted left by the sensor and right by the program ...
LEMMA PressureBytes ==
    ASSUME NEW v \in RawP, NEW x, x = v * 128
    PROVE  bmp180_read_raw_pressure(x \div 65536, (x \div 256) % 256, x % 256, oss) = v
<1>1. v \in Nat
  BY SensorsAssumption, SMT
<1>2. x \in Nat /\ x \div 128 = v
  BY <1>1, SMT
<1>3. (x \div 65536) * 65536 + ((x \div 256) % 256) * 256 + (x % 256) = x
  <2>1. PICK h, l : h = x \div 256 /\ l = x % 256
    BY Zenon
  <2>2. h \in Nat /\ l \in Nat /\ l < 256 /\ x = 256 * h + l
    BY <1>2, <2>1, LastByte, SMT
  <2>3. PICK q, r : q = h \div 256 /\ r = h % 256
    BY Zenon
  <2>4. q \in Nat /\ r \in Nat /\ r < 256 /\ h = 256 * q + r
    BY <2>2, <2>3, LastByte, SMT
  <2>5. x = 65536 * q + (256 * r + l)
    BY <2>2, <2>4, SMT
  <2>6. x \div 65536 = q
    BY <2>2, <2>4, <2>5, ThirdByte, SMT
  <2>7. q * 65536 + r * 256 + l = x
    BY <2>2, <2>4, <2>5, SMT
  <2> QED BY <2>1, <2>3, <2>6, <2>7, SMT
<1>4. 2 ^ (8 - oss) = 128
  BY SMT DEF oss
<1> QED BY <1>2, <1>3, <1>4, SMT DEF bmp180_read_raw_pressure, Shr

\* ... and every coefficient.
LEMMA EpromIsRead == bmp180_read_eprom(Eprom) = Eprom
<1>1. ASSUME NEW r \in bmp180_register_table
      PROVE  bmp180_read_eprom_reg(ReadWord((Eprom[r] % 65536) \div 256, Eprom[r] % 256),
                                   r \in SignedRegisters) = Eprom[r]
  <2>1. PICK e \in Int :
          /\ e = Eprom[r]
          /\ IF r \in SignedRegisters THEN -32768 <= e /\ e < 32768 ELSE 0 <= e /\ e < 65536
    BY SensorsAssumption, SMT
  <2>2. PICK u \in Nat : u = e % 65536 /\ u < 65536
    BY SMT
  <2>3. e % 256 = u % 256
    BY <2>2, SMT
  <2>4. SwapBytes(ReadWord(u \div 256, e % 256)) = u
    BY <2>2, <2>3, Swapped, SMT
  <2>5. CASE r \in SignedRegisters
    <3>1. (IF u > 32767 THEN u - 65536 ELSE u) = e
      BY <2>1, <2>2, <2>5, SMT
    <3> QED BY <2>1, <2>2, <2>4, <2>5, <3>1, SMT DEF bmp180_read_eprom_reg
  <2>6. CASE r \notin SignedRegisters
    <3>1. u = e
      BY <2>1, <2>2, <2>6, SMT
    <3> QED BY <2>1, <2>2, <2>4, <2>6, <3>1, SMT DEF bmp180_read_eprom_reg
  <2> QED BY <2>5, <2>6, SMT
<1>2. Eprom = [r \in bmp180_register_table |-> Eprom[r]]
  BY SensorsAssumption, SMT
<1> QED BY <1>1, <1>2, SMT DEF bmp180_read_eprom

-----------------------------------------------------------------------------
(* The invariant                                                           *)

Functions == {"temperature", "pressure", "altitude"}
Awaiting  == {"readT", "readM", "readL", "readX"}
Active    == Awaiting \cup {"cmdT", "cmdP", "report"}
Places    == Active \cup {"off", "main", "next", "done", "crash", "reading", "blind"}
Reasons   == {"shared", "fault", "noise", "newline", "signal"}

SensorType ==
    /\ pc \in [Procs -> Places] /\ todo \in [Procs -> Seq(Functions)]
    /\ \A p \in Procs : pc[p] \in Active => todo[p] # << >>
    /\ why \in [Procs -> SUBSET Reasons]
    /\ coef \in [Procs -> BOOLEAN]
    /\ raw \in [Procs -> [ut : Int, msb : Int, lsb : Int, up : Int]]
    /\ report = [p \in Procs |-> report[p]]
    /\ truth \in [Procs -> [t : Int, p : Int]]
    /\ out[1] \in Int /\ out[2] \in Int /\ out[3] \in Int

\* A conversion belongs to a process that waits for it, or to one that did not wait long
\* enough, which was disturbed or has come to the next function since.
Running(p, kind) == conv = [by |-> p, kind |-> kind]

Loose(p) == why[p] # {} \/ pc[p] \notin (Active \ {"cmdT"}) \cup {"next"}

Owned ==
    \/ conv = NoConv
    \/ \E p \in Procs : Running(p, "t") /\ (pc[p] = "readT" \/ Loose(p))
    \/ \E p \in Procs : Running(p, "p") /\ (pc[p] = "readM" \/ Loose(p))

\* The output register holds the temperature or the pressure that was measured for p.
HoldsT(p) ==
    /\ truth[p].t \in RawT
    /\ out[1] = truth[p].t \div 256 /\ out[2] = truth[p].t % 256

HoldsP(p) ==
    /\ truth[p].p \in RawP
    /\ out[1] = (truth[p].p * 128) \div 65536
    /\ out[2] = ((truth[p].p * 128) \div 256) % 256
    /\ out[3] = (truth[p].p * 128) % 256

\* What the sensor does for a process that nothing has disturbed, and what that process
\* has read of it.
Reading(p) ==
    /\ pc[p] = "readT" => Running(p, "t") \/ (conv = NoConv /\ HoldsT(p))
    /\ pc[p] = "readM" => Running(p, "p") \/ (conv = NoConv /\ HoldsP(p))
    /\ pc[p] \in {"readL", "readX"} => conv = NoConv /\ HoldsP(p) /\ raw[p].msb = out[1]
    /\ pc[p] = "readX" => raw[p].lsb = out[2]
    /\ pc[p] \in {"cmdP", "readM", "readL", "readX", "report"} =>
         raw[p].ut = truth[p].t /\ truth[p].t \in RawT
    /\ pc[p] = "report" /\ Head(todo[p]) # "temperature" =>
         raw[p].up = truth[p].p /\ truth[p].p \in RawP

Reported(p) ==
    report[p].of # None =>
      /\ pc[p] = "next" /\ report[p].of \in Functions
      /\ why[p] = {} /\ coef[p] =>
           /\ report[p].eprom = Eprom /\ report[p].UT = truth[p].t
           /\ report[p].of # "temperature" => report[p].UP = truth[p].p

Right(p) == (why[p] = {} => Reading(p)) /\ Reported(p)

SensorInv == SensorType /\ Owned /\ \A p \in Procs : Right(p)

-----------------------------------------------------------------------------
(* The steps                                                               *)

\* A process that a step leaves alone: the step may have the sensor do something else
\* only if the process does not wait for it.
Spared(p) ==
    /\ pc'[p] = pc[p] /\ todo'[p] = todo[p] /\ raw'[p] = raw[p] /\ report'[p] = report[p]
    /\ coef'[p] = coef[p] /\ truth'[p] = truth[p]
    /\ why'[p] = {} => why[p] = {} /\ (UNCHANGED <<conv, out>> \/ pc[p] \notin Awaiting)

LEMMA SparedIsRight ==
    ASSUME NEW p \in Procs, Right(p), Spared(p)
    PROVE  Right(p)'
<1>1. why'[p] = {} => Reading(p)'
  BY DEF Spared, Right, Reading, Running, HoldsT, HoldsP, Awaiting
<1>2. Reported(p)'
  BY DEF Spared, Right, Reported
<1> QED BY <1>1, <1>2 DEF Right

\* A process at rest, or one that has not begun to use the sensor.
LEMMA RestIsRight ==
    ASSUME NEW p \in Procs, pc'[p] \notin Active \ {"cmdT"}, report'[p].of = None
    PROVE  Right(p)'
BY DEF Right, Reading, Reported, Active, Awaiting

LEMMA ConvertedInv ==
    ASSUME SensorInv, NEW v, Converted(v)
    PROVE  SensorInv'
<1>1. PICK c \in Procs, kind \in {"t", "p"} :
        Running(c, kind) /\ (pc[c] = (IF kind = "t" THEN "readT" ELSE "readM") \/ Loose(c))
  BY DEF SensorInv, Owned, Converted
<1>2. /\ UNCHANGED <<pc, todo, raw, coef, report, why>> /\ conv' = NoConv
      /\ truth' = [truth EXCEPT ![c][kind] = v] /\ v \in (IF kind = "t" THEN RawT ELSE RawP)
      /\ kind = "t" => out' = <<v \div 256, v % 256, out[3]>>
      /\ kind = "p" => out' = <<(v * 2^(8 - oss)) \div 65536, ((v * 2^(8 - oss)) \div 256) % 256,
                                (v * 2^(8 - oss)) % 256>>
  BY <1>1 DEF Converted, proc, Running
<1>3. v \in Nat /\ 2^(8 - oss) = 128
  BY <1>2, SensorsAssumption, SMT DEF oss
<1>4. PICK x \in Nat : x = v * 128
  BY <1>3
<1>5. /\ kind = "t" => out'[1] = v \div 256 /\ out'[2] = v % 256 /\ out'[3] = out[3]
      /\ kind = "p" => out'[1] = x \div 65536 /\ out'[2] = (x \div 256) % 256 /\ out'[3] = x % 256
  BY <1>2, <1>3, <1>4, SMT
<1>6. truth' = [truth EXCEPT ![c][kind] = v]
  BY <1>2, SMT
<1>7. UNCHANGED <<pc, todo, raw, coef, report, why>> /\ conv' = NoConv
  BY <1>2, SMT
<1>8. /\ truth'[c][kind] = v
      /\ kind = "p" => truth'[c].t = truth[c].t
      /\ \A p \in Procs \ {c} : truth'[p] = truth[p]
  <2>1. truth \in [Procs -> [t : Int, p : Int]]
    BY DEF SensorInv, SensorType
  <2> QED BY <1>6, <2>1
<1>9. v \in (IF kind = "t" THEN RawT ELSE RawP)
  BY <1>2, SMT
<1>10. SensorType'
  <2>1. truth' \in [Procs -> [t : Int, p : Int]]
    <3>1. truth \in [Procs -> [t : Int, p : Int]]
      BY DEF SensorInv, SensorType
    <3>2. CASE kind = "t"
      BY <1>3, <1>6, <3>1, <3>2
    <3>3. CASE kind = "p"
      BY <1>3, <1>6, <3>1, <3>3
    <3> QED BY <3>2, <3>3
  <2>2. out'[1] \in Int /\ out'[2] \in Int /\ out'[3] \in Int
    <3>1. CASE kind = "t"
      <4>1. v \div 256 \in Int /\ v % 256 \in Int
        BY <1>3, SMT
      <4>2. out[3] \in Int
        BY DEF SensorInv, SensorType
      <4> QED BY <1>5, <3>1, <4>1, <4>2
    <3>2. CASE kind = "p"
      BY <1>4, <1>5, <3>2, SMT
    <3> QED BY <3>1, <3>2
  <2> QED BY <1>7, <2>1, <2>2 DEF SensorInv, SensorType
<1>11. Owned'
  BY <1>7 DEF Owned
<1>12. ASSUME NEW p \in Procs PROVE Right(p)'
  <2>1. Right(p)
    BY DEF SensorInv
  <2>2. CASE p # c
    <3>1. why[p] = {} => pc[p] \notin Awaiting
      BY <1>1, <2>1, <2>2, SensorsAssumption, SMT DEF Right, Reading, Running, NoConv, Awaiting
    <3>2. Spared(p)
      BY <1>7, <1>8, <2>2, <3>1 DEF Spared
    <3> QED BY <2>1, <3>2, SparedIsRight
  <2>3. CASE p = c /\ Loose(c)
    <3>1. CASE why[p] # {}
      BY <1>7, <2>1, <3>1 DEF Right, Reported
    <3>2. CASE pc[p] \notin (Active \ {"cmdT"}) \cup {"next"}
      <4>1. report'[p].of = None
        BY <1>7, <2>1, <3>2 DEF Right, Reported
      <4> QED BY <1>7, <3>2, <4>1, RestIsRight
    <3> QED BY <2>3, <3>1, <3>2 DEF Loose
  <2>4. CASE p = c /\ ~Loose(c)
    <3>1. report'[p].of = None
      BY <1>1, <1>7, <2>1, <2>4 DEF Right, Reported
    <3>2. CASE kind = "t"
      <4>1. HoldsT(p)'
        BY <1>5, <1>8, <1>9, <2>4, <3>2, SMT DEF HoldsT
      <4>2. pc'[p] = "readT"
        BY <1>1, <1>7, <2>4, <3>2
      <4> QED BY <1>7, <3>1, <4>1, <4>2 DEF Right, Reading, Reported
    <3>3. CASE kind = "p"
      <4>1. HoldsP(p)'
        BY <1>4, <1>5, <1>8, <1>9, <2>4, <3>3, SMT DEF HoldsP
      <4>2. pc'[p] = "readM"
        BY <1>1, <1>7, <2>4, <3>3
      <4>3. why[p] = {} => raw'[p].ut = truth'[p].t /\ truth'[p].t \in RawT
        BY <1>1, <1>7, <1>8, <2>1, <2>4, <3>3 DEF Right, Reading
      <4> QED BY <1>7, <3>1, <4>1, <4>2, <4>3 DEF Right, Reading, Reported
    <3> QED BY <3>2, <3>3
  <2> QED BY <2>2, <2>3, <2>4
<1> QED BY <1>10, <1>11, <1>12 DEF SensorInv

\* A command takes the sensor from a process that waits for it, or is not obeyed, and
\* whoever loses by it is disturbed.
LEMMA CommandInv ==
    ASSUME SensorInv, NEW p \in Procs,
           \/ pc[p] = "cmdT" /\ Command(p, "t", "readT")
           \/ pc[p] = "cmdP" /\ Command(p, "p", "readM")
    PROVE  SensorInv'
<1>1. PICK kind \in {"t", "p"}, at \in {"readT", "readM"} :
        /\ Command(p, kind, at) /\ at = (IF kind = "t" THEN "readT" ELSE "readM")
        /\ pc[p] = (IF kind = "t" THEN "cmdT" ELSE "cmdP")
  OBVIOUS
<1>2. PICK ok \in BOOLEAN, obeyed \in BOOLEAN :
        /\ obeyed \/ (ok /\ conv.by # None)
        /\ Transfer(p, ok, CASE ~ok -> {}
                             [] ok /\ obeyed -> {q \in Procs \ {p} : pc[q] \in {"readT", "readM", "readL", "readX"}}
                             [] OTHER -> {p})
        /\ conv' = IF ok /\ obeyed THEN [by |-> p, kind |-> kind] ELSE conv
        /\ truth' = IF ok /\ obeyed THEN [truth EXCEPT ![p][kind] = NotMeasured] ELSE truth
  BY <1>1 DEF Command
<1>3. /\ pc' = [pc EXCEPT ![p] = at]
      /\ UNCHANGED <<todo, raw, coef, report, out>>
  BY <1>1 DEF Command
<1>9. /\ truth' \in [Procs -> [t : Int, p : Int]]
      /\ \A q \in Procs \ {p} : truth'[q] = truth[q]
      /\ kind = "p" => truth'[p].t = truth[p].t
  <2>1. truth \in [Procs -> [t : Int, p : Int]]
    BY DEF SensorInv, SensorType
  <2>2. NotMeasured \in Int
    BY DEF NotMeasured
  <2>3. CASE kind = "t"
    BY <1>2, <2>1, <2>2, <2>3
  <2>4. CASE kind = "p"
    BY <1>2, <2>1, <2>2, <2>4
  <2> QED BY <2>3, <2>4
<1>4. /\ \A q \in Procs : why[q] \subseteq why'[q]
      /\ why' \in [Procs -> SUBSET Reasons]
      /\ ~ok => "fault" \in why'[p]
      /\ ok /\ ~obeyed => "shared" \in why'[p]
      /\ ok /\ obeyed => \A q \in Procs \ {p} : pc[q] \in Awaiting => "shared" \in why'[q]
  <2>1. why \in [Procs -> SUBSET Reasons]
    BY DEF SensorInv, SensorType
  <2> QED BY <1>2, <2>1 DEF Transfer, Reasons, Awaiting
<1>5. SensorType'
  <2>1. pc' \in [Procs -> Places] /\ \A q \in Procs : pc'[q] \in Active => pc[q] \in Active
    BY <1>1, <1>3 DEF SensorInv, SensorType, Places, Active, Awaiting
  <2> QED BY <1>3, <1>4, <1>9, <2>1 DEF SensorInv, SensorType
<1>6. /\ pc'[p] = at /\ \A q \in Procs \ {p} : pc'[q] = pc[q]
      /\ pc[p] \notin Awaiting
  BY <1>1, <1>3 DEF SensorInv, SensorType, Awaiting
<1>7. Owned'
  <2>1. CASE ok /\ obeyed
    BY <1>1, <1>2, <1>6, <2>1 DEF Owned, Running
  <2>2. CASE ~(ok /\ obeyed)
    <3>1. why'[p] # {} /\ conv' = conv
      BY <1>2, <1>4, <2>2
    <3>2. ASSUME NEW q \in Procs, Loose(q) PROVE Loose(q)'
      BY <1>4, <1>6, <3>1, <3>2 DEF Loose
    <3> QED BY <1>6, <3>1, <3>2 DEF SensorInv, Owned, Running, Awaiting
  <2> QED BY <2>1, <2>2
<1>8. ASSUME NEW q \in Procs PROVE Right(q)'
  <2>1. Right(q)
    BY DEF SensorInv
  <2>2. CASE q # p
    <3>1. why'[q] = {} => why[q] = {} /\ (UNCHANGED <<conv, out>> \/ pc[q] \notin Awaiting)
      BY <1>2, <1>3, <1>4, <2>2
    <3>2. Spared(q)
      BY <1>3, <1>6, <1>9, <2>2, <3>1 DEF Spared
    <3> QED BY <2>1, <3>2, SparedIsRight
  <2>3. CASE q = p
    <3>1. report'[p].of = None
      BY <1>1, <1>3, <2>1, <2>3 DEF Right, Reported
    <3>2. why'[p] = {} => Running(p, kind)' /\ why[p] = {}
      BY <1>2, <1>4 DEF Running
    <3>3. why[p] = {} /\ kind = "p" => raw[p].ut = truth[p].t /\ truth[p].t \in RawT
      BY <1>1, <2>1, <2>3 DEF Right, Reading
    <3> QED BY <1>1, <1>3, <1>6, <1>9, <2>3, <3>1, <3>2, <3>3 DEF Right, Reading, Reported
  <2> QED BY <2>2, <2>3
<1> QED BY <1>5, <1>7, <1>8 DEF SensorInv

\* A read leaves the sensor and the other processes alone.
LEMMA ReadInv ==
    ASSUME SensorInv, NEW p \in Procs, pc[p] \in Awaiting,
           NEW field \in {"ut", "msb", "lsb", "up"}, NEW value \in Int,
           NEW at \in Active, at \in {"readL", "readX", "cmdP", "report"},
           ReadRaw(p, field, value, at),
           why[p] # {} \/ (~Running(p, "t") /\ ~Running(p, "p"))
    PROVE  /\ SensorType' /\ Owned' /\ \A q \in Procs \ {p} : Right(q)'
           /\ pc'[p] = at /\ report'[p].of = None
           /\ UNCHANGED <<todo, truth, conv, out>>
           /\ why'[p] = {} => why[p] = {} /\ raw'[p] = [raw[p] EXCEPT ![field] = value]
<1>1. /\ pc' = [pc EXCEPT ![p] = at]
      /\ raw' = [raw EXCEPT ![p] = IF why'[p] = {} THEN [@ EXCEPT ![field] = value] ELSE NoRaw]
      /\ UNCHANGED <<todo, coef, report, truth, conv, out>>
  BY DEF ReadRaw, bmp
<1>2. why' \in [Procs -> SUBSET Reasons] /\ \A q \in Procs : why[q] \subseteq why'[q]
  <2>1. why \in [Procs -> SUBSET Reasons]
    BY DEF SensorInv, SensorType
  <2> QED BY <2>1 DEF ReadRaw, Transfer, Reasons
<1>3. /\ pc'[p] = at /\ \A q \in Procs \ {p} : pc'[q] = pc[q]
      /\ pc' \in [Procs -> Places]
  BY <1>1 DEF SensorInv, SensorType, Places, Active, Awaiting
<1>4. /\ raw' \in [Procs -> [ut : Int, msb : Int, lsb : Int, up : Int]]
      /\ \A q \in Procs \ {p} : raw'[q] = raw[q]
      /\ why'[p] = {} => raw'[p] = [raw[p] EXCEPT ![field] = value]
  <2>1. raw \in [Procs -> [ut : Int, msb : Int, lsb : Int, up : Int]]
    BY DEF SensorInv, SensorType
  <2>2. NoRaw \in [ut : Int, msb : Int, lsb : Int, up : Int]
    BY DEF NoRaw
  <2>3. [raw[p] EXCEPT ![field] = value] \in [ut : Int, msb : Int, lsb : Int, up : Int]
    BY <2>1
  <2> QED BY <1>1, <2>1, <2>2, <2>3
<1>5. SensorType'
  <2>1. \A q \in Procs : pc'[q] \in Active => todo'[q] # << >>
    BY <1>1, <1>3 DEF SensorInv, SensorType, Active
  <2> QED BY <1>1, <1>2, <1>3, <1>4, <2>1 DEF SensorInv, SensorType
<1>6. Right(p) /\ \A q \in Procs : Right(q)
  BY DEF SensorInv
<1>7. ASSUME NEW q \in Procs \ {p} PROVE Right(q)'
  <2>1. Spared(q)
    BY <1>1, <1>2, <1>3, <1>4 DEF Spared
  <2> QED BY <1>6, <2>1, SparedIsRight
<1>8. report'[p].of = None
  BY <1>1, <1>6 DEF Right, Reported, Awaiting
<1>9. Owned'
  <2>1. ASSUME NEW q \in Procs, Loose(q) PROVE Loose(q)' \/ (q = p /\ why[p] = {})
    BY <1>2, <1>3, <2>1 DEF Loose
  <2>2. why[p] # {} => Loose(p)'
    BY <1>2 DEF Loose
  <2> QED BY <1>1, <1>3, <2>1, <2>2 DEF SensorInv, Owned, Running
<1> QED BY <1>1, <1>2, <1>3, <1>4, <1>5, <1>7, <1>8, <1>9

\* An undisturbed process that a conversion runs for waits for it.
LEMMA RunningAwaited ==
    ASSUME SensorInv, NEW p \in Procs, why[p] = {}, pc[p] \in Awaiting
    PROVE  (Running(p, "t") => pc[p] = "readT") /\ (Running(p, "p") => pc[p] = "readM")
BY SensorsAssumption, SMT DEF SensorInv, Owned, Loose, Active, Awaiting, Running, NoConv, None

LEMMA ReadTemperatureInv ==
    ASSUME SensorInv, NEW p \in Procs, ReadTemperature(p)
    PROVE  SensorInv'
<1> DEFINE value == bmp180_read_raw_temperature(ReadWord(out[1], out[2]))
           at == IF Head(todo[p]) = "temperature" THEN "report" ELSE "cmdP"
<1>1. pc[p] = "readT" /\ ReadRaw(p, "ut", value, at) /\ at \in {"report", "cmdP"}
  BY DEF ReadTemperature
<1>2. value \in Int
  <2>1. out[1] \in Int /\ out[2] \in Int
    BY DEF SensorInv, SensorType
  <2>2. PICK w \in Int : w = ReadWord(out[1], out[2])
    BY <2>1, SMT DEF ReadWord
  <2> QED BY <2>2, SMT DEF bmp180_read_raw_temperature, SwapBytes
<1>3. why[p] = {} => ~Running(p, "t")
  BY DEF ReadTemperature, Slept, Running, WaitTemperature, DurationTemperature, NoConv, None
<1>4. why[p] = {} => ~Running(p, "p")
  BY <1>1, RunningAwaited DEF Awaiting
<1>5. why[p] = {} => value = truth[p].t /\ truth[p].t \in RawT
  BY <1>1, <1>3, TemperatureBytes DEF SensorInv, Right, Reading, HoldsT
<1> HIDE DEF value, at
<1>6. /\ SensorType' /\ Owned' /\ \A q \in Procs \ {p} : Right(q)'
      /\ pc'[p] = at /\ report'[p].of = None
      /\ UNCHANGED <<todo, truth, conv, out>>
      /\ why'[p] = {} => why[p] = {} /\ raw'[p] = [raw[p] EXCEPT !["ut"] = value]
  BY <1>1, <1>2, <1>3, <1>4, ReadInv DEF Awaiting, Active
<1>7. Right(p)'
  <2>1. raw[p] \in [ut : Int, msb : Int, lsb : Int, up : Int]
    BY DEF SensorInv, SensorType
  <2>2. why'[p] = {} => raw'[p].ut = truth'[p].t /\ truth'[p].t \in RawT
    BY <1>5, <1>6, <2>1
  <2>3. at = "report" => Head(todo[p]) = "temperature"
    BY DEF at
  <2> QED BY <1>1, <1>6, <2>2, <2>3 DEF Right, Reading, Reported
<1> QED BY <1>6, <1>7 DEF SensorInv

LEMMA ReadPressureMsbInv ==
    ASSUME SensorInv, NEW p \in Procs, ReadPressureMsb(p)
    PROVE  SensorInv'
<1>1. pc[p] = "readM" /\ ReadRaw(p, "msb", out[1], "readL") /\ out[1] \in Int
  BY DEF ReadPressureMsb, SensorInv, SensorType
<1>2. why[p] = {} => ~Running(p, "p")
  BY DEF ReadPressureMsb, Slept, Running, WaitPressure, DurationPressure, oss, NoConv, None
<1>3. why[p] = {} => ~Running(p, "t")
  BY <1>1, RunningAwaited DEF Awaiting
<1>4. /\ SensorType' /\ Owned' /\ \A q \in Procs \ {p} : Right(q)'
      /\ pc'[p] = "readL" /\ report'[p].of = None
      /\ UNCHANGED <<todo, truth, conv, out>>
      /\ why'[p] = {} => why[p] = {} /\ raw'[p] = [raw[p] EXCEPT !["msb"] = out[1]]
  BY <1>1, <1>2, <1>3, ReadInv DEF Awaiting, Active
<1>5. Right(p)'
  <2>1. raw[p] \in [ut : Int, msb : Int, lsb : Int, up : Int]
    BY DEF SensorInv, SensorType
  <2>2. why'[p] = {} => raw'[p].ut = raw[p].ut /\ raw'[p].msb = out[1]
    BY <1>4, <2>1
  <2>3. why[p] = {} => conv = NoConv /\ HoldsP(p) /\ raw[p].ut = truth[p].t /\ truth[p].t \in RawT
    BY <1>1, <1>2 DEF SensorInv, Right, Reading
  <2>4. HoldsP(p) => HoldsP(p)'
    BY <1>4 DEF HoldsP
  <2> QED BY <1>4, <2>2, <2>3, <2>4 DEF Right, Reading, Reported
<1> QED BY <1>4, <1>5 DEF SensorInv

LEMMA ReadPressureLsbInv ==
    ASSUME SensorInv, NEW p \in Procs, ReadPressureLsb(p)
    PROVE  SensorInv'
<1>1. pc[p] = "readL" /\ ReadRaw(p, "lsb", out[2], "readX") /\ out[2] \in Int
  BY DEF ReadPressureLsb, SensorInv, SensorType
<1>2. why[p] = {} => ~Running(p, "p") /\ ~Running(p, "t")
  BY <1>1, RunningAwaited DEF Awaiting
<1>4. /\ SensorType' /\ Owned' /\ \A q \in Procs \ {p} : Right(q)'
      /\ pc'[p] = "readX" /\ report'[p].of = None
      /\ UNCHANGED <<todo, truth, conv, out>>
      /\ why'[p] = {} => why[p] = {} /\ raw'[p] = [raw[p] EXCEPT !["lsb"] = out[2]]
  BY <1>1, <1>2, ReadInv DEF Awaiting, Active
<1>5. Right(p)'
  <2>1. raw[p] \in [ut : Int, msb : Int, lsb : Int, up : Int]
    BY DEF SensorInv, SensorType
  <2>2. why'[p] = {} => /\ raw'[p].ut = raw[p].ut /\ raw'[p].msb = raw[p].msb
                        /\ raw'[p].lsb = out[2]
    BY <1>4, <2>1
  <2>3. why[p] = {} => /\ conv = NoConv /\ HoldsP(p) /\ raw[p].msb = out[1]
                       /\ raw[p].ut = truth[p].t /\ truth[p].t \in RawT
    BY <1>1 DEF SensorInv, Right, Reading
  <2>4. HoldsP(p) => HoldsP(p)'
    BY <1>4 DEF HoldsP
  <2> QED BY <1>4, <2>2, <2>3, <2>4 DEF Right, Reading, Reported
<1> QED BY <1>4, <1>5 DEF SensorInv

LEMMA ReadPressureXlsbInv ==
    ASSUME SensorInv, NEW p \in Procs, ReadPressureXlsb(p)
    PROVE  SensorInv'
<1> DEFINE value == bmp180_read_raw_pressure(raw[p].msb, raw[p].lsb, out[3], oss)
<1>1. pc[p] = "readX" /\ ReadRaw(p, "up", value, "report")
  BY DEF ReadPressureXlsb
<1>2. value \in Int
  <2>1. raw[p].msb \in Int /\ raw[p].lsb \in Int /\ out[3] \in Int
    BY DEF SensorInv, SensorType
  <2>2. 2 ^ (8 - oss) = 128
    BY SMT DEF oss
  <2> QED BY <2>1, <2>2, SMT DEF bmp180_read_raw_pressure, Shr
<1>3. why[p] = {} => ~Running(p, "p") /\ ~Running(p, "t")
  BY <1>1, RunningAwaited DEF Awaiting
<1>4. why[p] = {} => /\ value = truth[p].p /\ truth[p].p \in RawP
                     /\ raw[p].ut = truth[p].t /\ truth[p].t \in RawT
  <2>1. why[p] = {} => /\ HoldsP(p) /\ raw[p].msb = out[1] /\ raw[p].lsb = out[2]
                       /\ raw[p].ut = truth[p].t /\ truth[p].t \in RawT
    BY <1>1 DEF SensorInv, Right, Reading
  <2>2. PICK v, x : v = truth[p].p /\ x = v * 128
    OBVIOUS
  <2>3. v \in RawP => bmp180_read_raw_pressure(x \div 65536, (x \div 256) % 256, x % 256, oss) = v
    BY <2>2, PressureBytes, SMT
  <2> QED BY <2>1, <2>2, <2>3, SMT DEF HoldsP
<1> HIDE DEF value
<1>5. /\ SensorType' /\ Owned' /\ \A q \in Procs \ {p} : Right(q)'
      /\ pc'[p] = "report" /\ report'[p].of = None
      /\ UNCHANGED <<todo, truth, conv, out>>
      /\ why'[p] = {} => why[p] = {} /\ raw'[p] = [raw[p] EXCEPT !["up"] = value]
  BY <1>1, <1>2, <1>3, ReadInv DEF Awaiting, Active
<1>6. Right(p)'
  <2>1. raw[p] \in [ut : Int, msb : Int, lsb : Int, up : Int]
    BY DEF SensorInv, SensorType
  <2>2. why'[p] = {} => raw'[p].ut = raw[p].ut /\ raw'[p].up = value
    BY <1>5, <2>1
  <2> QED BY <1>4, <1>5, <2>2 DEF Right, Reading, Reported
<1> QED BY <1>5, <1>6 DEF SensorInv

\* A report is made of what was read, with the coefficients as they are.
LEMMA ReportInv ==
    ASSUME SensorInv, NEW p \in Procs, Report(p)
    PROVE  SensorInv'
<1> DEFINE of == Head(todo[p])
<1>1. pc[p] = "report" /\ pc' = [pc EXCEPT ![p] = "next"]
      /\ todo' = [todo EXCEPT ![p] = Tail(todo[p])]
      /\ UNCHANGED <<raw, coef, conv, out, truth, why>>
  BY DEF Report, bmp
<1>2. report' = [report EXCEPT ![p] =
        IF why[p] # {} \/ ~coef[p] THEN [NoReport EXCEPT !.of = of]
        ELSE [of |-> of, value |-> Compensated(Eprom, of, raw[p].ut, raw[p].up),
              eprom |-> Eprom, UT |-> raw[p].ut, UP |-> raw[p].up]]
  BY EpromIsRead, Zenon DEF Report
<1>3. todo[p] \in Seq(Functions) /\ todo[p] # << >>
  BY <1>1 DEF SensorInv, SensorType, Active
<1>4. of \in Functions /\ Tail(todo[p]) \in Seq(Functions)
  BY <1>3
<1> HIDE DEF of
<1>5. /\ pc'[p] = "next" /\ \A q \in Procs \ {p} : pc'[q] = pc[q] /\ todo'[q] = todo[q]
      /\ pc' \in [Procs -> Places] /\ todo' \in [Procs -> Seq(Functions)]
  BY <1>1, <1>4 DEF SensorInv, SensorType, Places
<1>6. /\ report' = [q \in Procs |-> report'[q]]
      /\ \A q \in Procs \ {p} : report'[q] = report[q]
      /\ report'[p].of = of
      /\ why[p] = {} /\ coef[p] =>
           /\ report'[p].eprom = Eprom
           /\ report'[p].UT = raw[p].ut /\ report'[p].UP = raw[p].up
  <2>1. PICK r : r = IF why[p] # {} \/ ~coef[p] THEN [NoReport EXCEPT !.of = of]
                     ELSE [of |-> of, value |-> Compensated(Eprom, of, raw[p].ut, raw[p].up),
                           eprom |-> Eprom, UT |-> raw[p].ut, UP |-> raw[p].up]
    BY Zenon
  <2>2. report' = [report EXCEPT ![p] = r]
    BY <1>2, <2>1, Zenon
  <2>3. /\ r.of = of
        /\ why[p] = {} /\ coef[p] => r.eprom = Eprom /\ r.UT = raw[p].ut /\ r.UP = raw[p].up
    BY <2>1 DEF NoReport
  <2> QED BY <2>2, <2>3 DEF SensorInv, SensorType
<1>7. SensorType'
  <2>1. \A q \in Procs : pc'[q] \in Active => todo'[q] # << >>
    BY <1>5 DEF SensorInv, SensorType, Active, Awaiting
  <2> QED BY <1>1, <1>5, <1>6, <2>1 DEF SensorInv, SensorType
<1>8. Owned'
  <2>1. ASSUME NEW q \in Procs, Loose(q) PROVE Loose(q)'
    BY <1>1, <1>5, <2>1 DEF Loose, Active, Awaiting
  <2> QED BY <1>1, <1>5, <2>1 DEF SensorInv, Owned, Running
<1>9. ASSUME NEW q \in Procs PROVE Right(q)'
  <2>1. Right(q)
    BY DEF SensorInv
  <2>2. CASE q # p
    <3>1. Spared(q)
      BY <1>1, <1>5, <1>6, <2>2 DEF Spared
    <3> QED BY <2>1, <3>1, SparedIsRight
  <2>3. CASE q = p
    <3>1. why[p] = {} => /\ raw[p].ut = truth[p].t /\ truth[p].t \in RawT
                         /\ of # "temperature" => raw[p].up = truth[p].p /\ truth[p].p \in RawP
      BY <1>1, <2>1, <2>3 DEF Right, Reading, of
    <3>3. Reported(p)'
      BY <1>1, <1>4, <1>5, <1>6, <3>1 DEF Reported
    <3>4. Reading(p)'
      BY <1>5 DEF Reading
    <3> QED BY <2>3, <3>3, <3>4 DEF Right
  <2> QED BY <2>2, <2>3
<1> QED BY <1>7, <1>8, <1>9 DEF SensorInv

\* The next function begins without a past.
LEMMA NextFunctionInv ==
    ASSUME SensorInv, NEW p \in Procs, NextFunction(p)
    PROVE  SensorInv'
<1>1. /\ pc[p] = "next" /\ UNCHANGED <<coef, conv, out, truth>>
      /\ report' = [report EXCEPT ![p] = NoReport] /\ raw' = [raw EXCEPT ![p] = NoRaw]
      /\ why' = [why EXCEPT ![p] = {}]
  BY DEF NextFunction, bmp
<1>2. PICK at \in {"cmdT", "done"}, rest \in Seq(Functions) :
        /\ pc' = [pc EXCEPT ![p] = at] /\ todo' = [todo EXCEPT ![p] = rest]
        /\ at = "cmdT" => rest # << >>
  <2>1. todo \in [Procs -> Seq(Functions)] /\ todo = [todo EXCEPT ![p] = todo[p]]
    BY DEF SensorInv, SensorType
  <2>2. <<"temperature", "pressure">> \in Seq(Functions) /\ <<"temperature", "pressure">> # << >>
    BY DEF Functions
  <2> QED BY <2>1, <2>2 DEF NextFunction
<1>3. /\ pc'[p] = at /\ todo'[p] = rest /\ report'[p] = NoReport
      /\ \A q \in Procs \ {p} : /\ pc'[q] = pc[q] /\ todo'[q] = todo[q] /\ report'[q] = report[q]
                                /\ raw'[q] = raw[q] /\ why'[q] = why[q]
      /\ pc' \in [Procs -> Places] /\ todo' \in [Procs -> Seq(Functions)]
  BY <1>1, <1>2 DEF SensorInv, SensorType, Places, Active
<1>4. SensorType'
  <2>1. \A q \in Procs : pc'[q] \in Active => todo'[q] # << >>
    BY <1>2, <1>3 DEF SensorInv, SensorType, Active, Awaiting
  <2>2. raw' \in [Procs -> [ut : Int, msb : Int, lsb : Int, up : Int]]
    BY <1>1 DEF SensorInv, SensorType, NoRaw
  <2>3. report' = [q \in Procs |-> report'[q]] /\ why' \in [Procs -> SUBSET Reasons]
    BY <1>1 DEF SensorInv, SensorType
  <2> QED BY <1>1, <1>3, <2>1, <2>2, <2>3 DEF SensorInv, SensorType
<1>5. Owned'
  <2>1. Loose(p)'
    BY <1>3 DEF Loose, Active, Awaiting
  <2>2. ASSUME NEW q \in Procs, Loose(q) PROVE Loose(q)'
    BY <1>1, <1>3, <2>1, <2>2 DEF Loose
  <2> QED BY <1>1, <1>3, <2>1, <2>2 DEF SensorInv, Owned, Running
<1>6. ASSUME NEW q \in Procs PROVE Right(q)'
  <2>1. Right(q)
    BY DEF SensorInv
  <2>2. CASE q # p
    <3>1. Spared(q)
      BY <1>1, <1>3, <2>2 DEF Spared
    <3> QED BY <2>1, <3>1, SparedIsRight
  <2>3. CASE q = p
    BY <1>3, <2>3, RestIsRight DEF NoReport, Active, Awaiting
  <2> QED BY <2>2, <2>3
<1> QED BY <1>4, <1>5, <1>6 DEF SensorInv

\* An invocation begins, and those that have ended are forgotten.
LEMMA StartInv ==
    ASSUME SensorInv, NEW p \in Procs, Start(p)
    PROVE  SensorInv'
<1> DEFINE fresh == {p} \cup {q \in Procs : pc[q] \in {"done", "crash"}}
<1>1. PICK at \in {"main", "crash"}, right \in BOOLEAN :
        /\ pc' = [[q \in Procs |-> IF q \in fresh THEN "off" ELSE pc[q]] EXCEPT ![p] = at]
        /\ coef' = [coef EXCEPT ![p] = right]
  BY DEF Start, bmp180_dump_eprom, bmp180_init
<1>2. /\ todo' = [q \in Procs |-> IF q \in fresh THEN << >> ELSE todo[q]]
      /\ raw' = [q \in Procs |-> IF q \in fresh THEN NoRaw ELSE raw[q]]
      /\ report' = [q \in Procs |-> IF q \in fresh THEN NoReport ELSE report[q]]
      /\ why' = [[q \in Procs |-> IF q \in fresh THEN {} ELSE why[q]]
                   EXCEPT ![p] = IF pc'[p] = "crash" THEN {"fault"} ELSE {}]
      /\ UNCHANGED <<conv, out, truth>> /\ pc[p] \in {"off", "done", "crash"}
  BY DEF Start, bmp
<1>3. ASSUME NEW q \in Procs, q \in fresh
      PROVE  /\ pc[q] \in {"off", "done", "crash"}
             /\ pc'[q] \in {"off", "main", "crash"} /\ report'[q].of = None
  BY <1>1, <1>2, <1>3 DEF NoReport
<1>4. ASSUME NEW q \in Procs, q \notin fresh
      PROVE  /\ pc'[q] = pc[q] /\ todo'[q] = todo[q] /\ raw'[q] = raw[q]
             /\ report'[q] = report[q] /\ why'[q] = why[q] /\ coef'[q] = coef[q]
  BY <1>1, <1>2, <1>4 DEF SensorInv, SensorType
<1>5. SensorType'
  <2>1. pc' \in [Procs -> Places]
    BY <1>1 DEF SensorInv, SensorType, Places
  <2>2. todo' \in [Procs -> Seq(Functions)]
    <3>1. << >> \in Seq(Functions)
      OBVIOUS
    <3> QED BY <1>2, <3>1 DEF SensorInv, SensorType
  <2>3. \A q \in Procs : pc'[q] \in Active => todo'[q] # << >>
    <3>1. \A q \in Procs : pc'[q] \in Active => q \notin fresh
      BY <1>3 DEF Active, Awaiting
    <3>2. \A q \in Procs : pc[q] \in Active => todo[q] # << >>
      BY DEF SensorInv, SensorType
    <3> HIDE DEF fresh
    <3> QED BY <1>4, <3>1, <3>2
  <2>4. raw' \in [Procs -> [ut : Int, msb : Int, lsb : Int, up : Int]]
    BY <1>2 DEF SensorInv, SensorType, NoRaw
  <2>5. why' \in [Procs -> SUBSET Reasons] /\ report' = [q \in Procs |-> report'[q]]
    BY <1>2 DEF SensorInv, SensorType, Reasons
  <2>6. coef' \in [Procs -> BOOLEAN]
    BY <1>1 DEF SensorInv, SensorType
  <2> QED BY <1>2, <2>1, <2>2, <2>3, <2>4, <2>5, <2>6 DEF SensorInv, SensorType
<1> HIDE DEF fresh
<1>6. Owned'
  <2>1. \A q \in Procs : pc[q] \in {"readT", "readM"} => pc'[q] = pc[q]
    BY <1>3, <1>4
  <2>2. ASSUME NEW q \in Procs, Loose(q) PROVE Loose(q)'
    <3>1. CASE q \in fresh
      BY <1>3, <3>1 DEF Loose, Active, Awaiting
    <3>2. CASE q \notin fresh
      BY <1>4, <2>2, <3>2 DEF Loose
    <3> QED BY <3>1, <3>2
  <2> QED BY <1>2, <2>1, <2>2 DEF SensorInv, Owned, Running
<1>7. ASSUME NEW q \in Procs PROVE Right(q)'
  <2>1. CASE q \in fresh
    BY <1>3, <2>1, RestIsRight DEF Active, Awaiting
  <2>2. CASE q \notin fresh
    <3>1. Spared(q)
      BY <1>2, <1>4, <2>2 DEF Spared
    <3> QED BY <3>1, SparedIsRight DEF SensorInv
  <2> QED BY <2>1, <2>2
<1> QED BY <1>5, <1>6, <1>7 DEF SensorInv

\* The steps of lago -g move only processes that do not use the sensor, and excuse more.
LEMMA GpsSteps ==
    ASSUME SensorInv, UNCHANGED <<todo, raw, coef, report, conv, out, truth>>,
           pc' \in [Procs -> Places], why' \in [Procs -> SUBSET Reasons],
           \A q \in Procs : why[q] \subseteq why'[q],
           \A q \in Procs : \/ pc'[q] = pc[q]
                            \/ pc[q] \in {"main", "reading"}
                               /\ pc'[q] \in {"reading", "blind", "done", "crash"}
    PROVE  SensorInv'
<1>1. SensorType'
  BY DEF SensorInv, SensorType, Active, Awaiting
<1>2. Owned'
  <2>1. ASSUME NEW q \in Procs, Loose(q) PROVE Loose(q)'
    BY <2>1 DEF Loose, Active, Awaiting
  <2> QED BY <2>1 DEF SensorInv, Owned, Running
<1>3. ASSUME NEW q \in Procs PROVE Right(q)'
  <2>1. Right(q)
    BY DEF SensorInv
  <2>2. CASE pc'[q] = pc[q]
    <3>1. Spared(q)
      BY <2>2 DEF Spared
    <3> QED BY <2>1, <3>1, SparedIsRight
  <2>3. CASE pc'[q] # pc[q]
    <3>1. report'[q].of = None
      BY <2>1, <2>3 DEF Right, Reported
    <3> QED BY <2>3, <3>1, RestIsRight DEF Active, Awaiting
  <2> QED BY <2>2, <2>3
<1> QED BY <1>1, <1>2, <1>3 DEF SensorInv

LEMMA SendInv ==
    ASSUME SensorInv, Send
    PROVE  SensorInv'
<1>1. UNCHANGED <<pc, todo, raw, coef, report, conv, out, truth>>
  BY DEF Send, proc, bmp
<1>2. \/ UNCHANGED why
      \/ \E r \in {"newline", "noise"} :
           why' = [q \in Procs |-> why[q] \cup (IF q \notin Readers THEN {} ELSE {r})]
  BY DEF Send
<1>3. why' \in [Procs -> SUBSET Reasons] /\ \A q \in Procs : why[q] \subseteq why'[q]
  BY <1>2 DEF SensorInv, SensorType, Reasons
<1>4. pc' \in [Procs -> Places]
  BY <1>1 DEF SensorInv, SensorType
<1> QED BY <1>1, <1>3, <1>4, GpsSteps

LEMMA ReaderInv ==
    ASSUME SensorInv, NEW p \in Procs, rp_UartReadln(p) \/ ReadShared(p)
    PROVE  SensorInv'
<1>1. UNCHANGED <<todo, raw, coef, report, conv, out, truth, why>> /\ pc[p] = "reading"
  BY DEF rp_UartReadln, ReadShared, bmp
<1>2. \E at \in {"reading", "done", "crash"} : pc' = [pc EXCEPT ![p] = at]
  <2>1. pc' = [pc EXCEPT ![p] = pc'[p]] /\ pc'[p] \in {"reading", "done", "crash"}
    BY <1>1 DEF SensorInv, SensorType, rp_UartReadln, ReadShared, gps_location
  <2> QED BY <2>1
<1>3. pc' \in [Procs -> Places] /\ \A q \in Procs : pc'[q] # pc[q] => q = p
  BY <1>2 DEF SensorInv, SensorType, Places
<1>4. pc'[p] \in {"reading", "done", "crash"}
  BY <1>2 DEF SensorInv, SensorType
<1>5. why' \in [Procs -> SUBSET Reasons] /\ \A q \in Procs : why[q] \subseteq why'[q]
  BY <1>1 DEF SensorInv, SensorType
<1> QED BY <1>1, <1>3, <1>4, <1>5, GpsSteps

LEMMA GpsInitInv ==
    ASSUME SensorInv, NEW p \in Procs, gps_init(p)
    PROVE  SensorInv'
<1>1. UNCHANGED <<todo, raw, coef, report, conv, out, truth>> /\ pc[p] = "main"
  BY DEF gps_init, bmp
<1>2. \E at \in {"reading", "blind"} : pc' = [pc EXCEPT ![p] = at]
  BY DEF gps_init
<1>3. /\ pc' \in [Procs -> Places] /\ \A q \in Procs : pc'[q] # pc[q] => q = p
      /\ pc'[p] \in {"reading", "blind"}
  BY <1>2 DEF SensorInv, SensorType, Places
<1>4. \/ UNCHANGED why
      \/ \E a, b \in BOOLEAN, some \in SUBSET Procs :
           why' = [q \in Procs |-> why[q] \cup (IF q \in some /\ a THEN {"shared"} ELSE {})
                                          \cup (IF q = p /\ b THEN {"noise"} ELSE {})]
  <2>1. ASSUME why' = [q \in Procs |-> why[q]
             \cup (IF q \in Readers \cup {p} /\ Readers # {} THEN {"shared"} ELSE {})
             \cup (IF q = p /\ (cut' \/ sky'.at % 3 # 0) THEN {"noise"} ELSE {})]
        PROVE  \E a, b \in BOOLEAN, some \in SUBSET Procs :
           why' = [q \in Procs |-> why[q] \cup (IF q \in some /\ a THEN {"shared"} ELSE {})
                                          \cup (IF q = p /\ b THEN {"noise"} ELSE {})]
    <3>1. Readers \cup {p} \in SUBSET Procs
      BY DEF Readers
    <3>2. PICK a \in BOOLEAN : a <=> Readers # {}
      OBVIOUS
    <3>3. PICK b \in BOOLEAN : b <=> (cut' \/ sky'.at % 3 # 0)
      OBVIOUS
    <3> QED BY <2>1, <3>1, <3>2, <3>3
  <2> QED BY <2>1, Zenon DEF gps_init
<1>5. why' \in [Procs -> SUBSET Reasons] /\ \A q \in Procs : why[q] \subseteq why'[q]
  <2>1. why \in [Procs -> SUBSET Reasons] /\ {"shared", "noise"} \subseteq Reasons
    BY DEF SensorInv, SensorType, Reasons
  <2> QED BY <1>4, <2>1
<1> QED BY <1>1, <1>3, <1>5, GpsSteps

\* A signal excuses more.
LEMMA SignalInv ==
    ASSUME SensorInv, NEW p \in Procs, signal_handler(p)
    PROVE  SensorInv'
<1>1. /\ UNCHANGED <<pc, todo, raw, coef, report, conv, out, truth>>
      /\ why' = [why EXCEPT ![p] = @ \cup {"signal"}]
  BY DEF signal_handler, proc, bmp
<1>2. why' \in [Procs -> SUBSET Reasons] /\ \A q \in Procs : why[q] \subseteq why'[q]
  BY <1>1 DEF SensorInv, SensorType, Reasons
<1>3. pc' \in [Procs -> Places]
  BY <1>1 DEF SensorInv, SensorType
<1> QED BY <1>1, <1>2, <1>3, GpsSteps

LEMMA StartSensorInv ==
    ASSUME SensorInv, NEW p \in Procs, StartSensor(p)
    PROVE  SensorInv'
<1>1. /\ pc[p] = "main" /\ pc' = [pc EXCEPT ![p] = "cmdT"]
      /\ UNCHANGED <<raw, coef, report, conv, out, truth, why>>
  BY DEF StartSensor, bmp
<1>2. PICK rest \in Seq(Functions) : rest # << >> /\ todo' = [todo EXCEPT ![p] = rest]
  <2>1. /\ <<"temperature", "pressure", "altitude">> \in Seq(Functions)
        /\ <<"temperature", "pressure">> \in Seq(Functions)
        /\ <<"temperature", "pressure", "altitude">> # << >> /\ <<"temperature", "pressure">> # << >>
    BY DEF Functions
  <2> QED BY <2>1 DEF StartSensor
<1>3. /\ pc'[p] = "cmdT" /\ todo'[p] = rest
      /\ \A q \in Procs \ {p} : pc'[q] = pc[q] /\ todo'[q] = todo[q]
      /\ pc' \in [Procs -> Places] /\ todo' \in [Procs -> Seq(Functions)]
  BY <1>1, <1>2 DEF SensorInv, SensorType, Places, Active
<1>4. SensorType'
  <2>1. \A q \in Procs : pc'[q] \in Active => todo'[q] # << >>
    BY <1>2, <1>3 DEF SensorInv, SensorType
  <2> QED BY <1>1, <1>3, <2>1 DEF SensorInv, SensorType
<1>5. Owned'
  <2>1. Loose(p)'
    BY <1>3 DEF Loose, Active, Awaiting
  <2>2. ASSUME NEW q \in Procs, Loose(q) PROVE Loose(q)'
    BY <1>1, <1>3, <2>1, <2>2 DEF Loose
  <2> QED BY <1>1, <1>3, <2>1, <2>2 DEF SensorInv, Owned, Running
<1>6. ASSUME NEW q \in Procs PROVE Right(q)'
  <2>1. Right(q)
    BY DEF SensorInv
  <2>2. CASE q # p
    <3>1. Spared(q)
      BY <1>1, <1>3, <2>2 DEF Spared
    <3> QED BY <2>1, <3>1, SparedIsRight
  <2>3. CASE q = p
    <3>1. report'[q].of = None
      BY <1>1, <2>1, <2>3 DEF Right, Reported
    <3> QED BY <1>3, <2>3, <3>1, RestIsRight DEF Active, Awaiting
  <2> QED BY <2>2, <2>3
<1> QED BY <1>4, <1>5, <1>6 DEF SensorInv

-----------------------------------------------------------------------------
(* The theorems                                                            *)

LEMMA SensorInit == Init => SensorInv
<1> SUFFICES ASSUME Init PROVE SensorInv
  OBVIOUS
<1>1. SensorType
  <2>1. << >> \in Seq(Functions)
    OBVIOUS
  <2>2. truth \in [Procs -> [t : Int, p : Int]]
    BY SMT DEF Init, NotMeasured
  <2>3. raw \in [Procs -> [ut : Int, msb : Int, lsb : Int, up : Int]]
    BY SMT DEF Init, NoRaw
  <2> QED BY <2>1, <2>2, <2>3, SMT DEF Init, SensorType, Places, Active, Awaiting, Reasons, NoReport
<1>2. Owned
  BY DEF Init, Owned
<1>3. ASSUME NEW p \in Procs PROVE Right(p)
  BY DEF Init, Right, Reading, Reported, NoReport
<1> QED BY <1>1, <1>2, <1>3 DEF SensorInv

LEMMA SensorNext ==
    ASSUME SensorInv, [Next]_vars
    PROVE  SensorInv'
<1>1. ASSUME NEW v \in RawT \cup RawP, Converted(v) PROVE SensorInv'
  BY <1>1, ConvertedInv
<1>2. CASE Send
  BY <1>2, SendInv
<1>3. ASSUME NEW p \in Procs,
             \/ Start(p) \/ StartSensor(p) \/ gps_init(p) \/ signal_handler(p)
             \/ CommandTemperature(p) \/ ReadTemperature(p)
             \/ CommandPressure(p) \/ ReadPressureMsb(p) \/ ReadPressureLsb(p)
             \/ ReadPressureXlsb(p)
             \/ Report(p) \/ NextFunction(p)
             \/ rp_UartReadln(p) \/ ReadShared(p)
      PROVE  SensorInv'
  <2>1. CASE Start(p) \/ StartSensor(p) \/ gps_init(p) \/ signal_handler(p)
    BY <2>1, StartInv, StartSensorInv, GpsInitInv, SignalInv
  <2>2. CASE CommandTemperature(p) \/ CommandPressure(p)
    BY <2>2, CommandInv DEF CommandTemperature, CommandPressure
  <2>3. CASE ReadTemperature(p) \/ ReadPressureMsb(p) \/ ReadPressureLsb(p) \/ ReadPressureXlsb(p)
    BY <2>3, ReadTemperatureInv, ReadPressureMsbInv, ReadPressureLsbInv, ReadPressureXlsbInv
  <2>4. CASE Report(p) \/ NextFunction(p)
    BY <2>4, ReportInv, NextFunctionInv
  <2>5. CASE rp_UartReadln(p) \/ ReadShared(p)
    BY <2>5, ReaderInv
  <2> QED BY <1>3, <2>1, <2>2, <2>3, <2>4, <2>5
<1>4. CASE UNCHANGED vars
  <2>1. UNCHANGED <<pc, todo, raw, coef, report, conv, out, truth, why>>
    BY <1>4 DEF vars, proc, bmp
  <2>2. SensorType' /\ Owned'
    BY <2>1 DEF SensorInv, SensorType, Owned, Loose, Running
  <2>3. ASSUME NEW p \in Procs PROVE Right(p)'
    <3>1. Spared(p) /\ Right(p)
      BY <2>1 DEF Spared, SensorInv
    <3> QED BY <3>1, SparedIsRight
  <2> QED BY <2>2, <2>3 DEF SensorInv
<1> QED BY <1>1, <1>2, <1>3, <1>4 DEF Next

\* Whatever other invocations do, and whichever waits a signal cuts short: a conversion
\* that runs for an undisturbed process is the one it waits for, and until it is disturbed
\* a process finds in the sensor, and keeps, what was measured for it.
THEOREM SensorInvariant == Spec => []SensorInv
BY SensorInit, SensorNext, PTL DEF Spec

\* For any number of overlapping invocations and all coefficients and raw values of their
\* width: what a process reports is computed from the coefficients of the eprom and what
\* the sensor measured for it in this call, unless a transfer failed, a signal cut a wait
\* short, or a command came between or was not obeyed.
THEOREM ReportsAreMeasured == Spec => []ReportsMeasured
<1>1. SensorInv => ReportsMeasured
  BY DEF SensorInv, Right, Reported, ReportsMeasured
<1> QED BY <1>1, SensorInvariant, PTL

-----------------------------------------------------------------------------
(* lago -g: the stream of sentences                                        *)

Both  == {"NMEA_GPGGA", "NMEA_GPRMC"}
Stars == {"none", "first", "wrong", "right"}
Kinds == {"GGA", "RMC", "GSV"}
Chunks == [part : {"text", "checksum", "newline"}, kind : Kinds, sec : Int, ok : BOOLEAN]
Lines  == [lead : Chunks, pure : BOOLEAN, star : Stars, names : SUBSET Kinds, texts : Nat]

\* Chunk i of sentence k of second n, as it is sent.
Sent(n, k, i) == Chunk(Part[i + 1], Sentence[k + 1], n % Seconds)

\* A point of the stream: s chunks of sentence k of second n have passed it as they were
\* sent, or the sentence is spoilt; and no more than u sentences have been.
Spoilt == 3
Points == [n : Nat, k : 0 .. 2, s : 0 .. 3, u : Nat]

Following(q, r) ==
    \/ q.k < 2 /\ r.n = q.n /\ r.k = q.k + 1
    \/ q.k = 2 /\ r.n = q.n + 1 /\ r.k = 0

\* From q to r with chunk c between them.  What was lost before or after c shows in r.
Moves(q, c, r) ==
    /\ c \in Chunks /\ r.u >= q.u
    /\ c.part = "newline" =>
         Following(q, r) /\ q.s \in {2, Spoilt} /\ r.s \in {0, Spoilt} /\ (r.s = Spoilt => r.u > q.u)
    /\ c.part # "newline" =>
         /\ r.n = q.n /\ r.k = q.k
         /\ c.kind \in {Sentence[q.k + 1], "GSV"}
         /\ c.ok => c \in {Sent(q.n, q.k, 0), Sent(q.n, q.k, 1)}
         /\ r.s = Spoilt \/ (q.s < 2 /\ r.s = q.s + 1 /\ c = Sent(q.n, q.k, q.s))
         /\ r.s = Spoilt /\ q.s # Spoilt => r.u > q.u

\* What the program has in its line at q.
Collected(l, q) ==
    /\ l \in Lines /\ l.names \subseteq {Sentence[q.k + 1]}
    /\ l.texts = 0 => l.names = {} /\ ~l.pure
    /\ l.pure => l.lead = Sent(q.n, q.k, 0) /\ l.names = {Sentence[q.k + 1]} \ {"GSV"}
    /\ l.star = "right" => l.pure
    /\ q.s = 0 => l = NoLine
    /\ q.s = 1 => l.pure /\ l.star = "none" /\ l.texts = 1
    /\ q.s = 2 => l.star = "right" /\ l.texts = 1

\* Each second has two sentences that count; those that are not the last of their kind to
\* have come whole, and came after it, were spoilt.
Passed(q) == 2 * q.n + q.k
Lost(q)   == IF q.s = Spoilt THEN q.u - 1 ELSE q.u

Known(st, co, q) ==
    /\ st \in SUBSET Both /\ st # Both
    /\ "NMEA_GPGGA" \in st =>
         \E a \in Nat : a <= q.n /\ co.time = a % Seconds /\ Lost(q) >= Passed(q) - 2 * a - 1
    /\ "NMEA_GPRMC" \in st =>
         \E b \in Nat : b <= q.n /\ co.date = b % Seconds /\ Lost(q) >= Passed(q) - 2 * b - 2

\* The points between the chunks in the port's queue: the first is where the program is,
\* the last where the receiver is.
Sends(q) ==
    \E i \in 0 .. 2 :
        /\ sky = [at |-> 3 * q.k + i, sec |-> q.n % Seconds]
        /\ q.s \in {i, Spoilt} /\ (cut => q.s = Spoilt)

Track(p, f) ==
    /\ f \in [1 .. Len(rx) + 1 -> Points]
    /\ Collected(line[p], f[1]) /\ Known(status[p], coord[p], f[1])
    /\ \A i \in 1 .. Len(rx) : Moves(f[i], rx[i], f[i + 1])
    /\ Sends(f[Len(rx) + 1])
    /\ \A i \in 1 .. Len(rx) + 1 : f[i].u <= noise /\ (why[p] = {} => f[i].s # Spoilt)

Followed(p) == pc[p] = "reading" /\ why[p] \cap {"shared", "newline"} = {}

\* The two fields of a position are of the same second, up to what was lost.
Close(co) ==
    /\ Wrong \notin {co.time, co.date}
    /\ \E d \in -(noise \div 2) .. 1 + (noise \div 2) : co.time = (co.date + d) % Seconds

GpsType ==
    /\ noise \in Nat /\ rx \in Seq(Chunks) /\ sky \in [at : 0 .. 8, sec : Int]
    /\ line = [p \in Procs |-> line[p]] /\ status \in [Procs -> SUBSET Both]
    /\ coord = [p \in Procs |-> [time |-> coord[p].time, date |-> coord[p].date]]

Fix(p) ==
    /\ pc[p] = "main" => line[p] = NoLine
    /\ pc[p] \notin {"reading", "done", "crash"} => status[p] = {}
    /\ pc[p] = "reading" => status[p] # Both
    /\ pc[p] = "crash" => why[p] # {}
    /\ pc[p] = "reading" /\ "shared" \notin why[p] => Readers = {p}
    /\ status[p] = Both /\ why[p] \cap {"shared", "newline"} = {} => Close(coord[p])
    /\ Followed(p) => \E f : Track(p, f)

GpsInv == GpsType /\ \A p \in Procs : Fix(p)

-----------------------------------------------------------------------------
(* Numbers and chunks                                                      *)

LEMMA GpsConstants == Seconds \in Nat \ {0} /\ BufferTexts \in Nat \ {0}
BY SensorsAssumption, SMT

LEMMA Remainder ==
    ASSUME NEW m \in Nat \ {0}, NEW a \in Int
    PROVE  /\ a \div m \in Int /\ a % m \in 0 .. m - 1
           /\ a = m * (a \div m) + (a % m)
OBVIOUS

\* Numbers that are a multiple of m apart have the same remainder.
LEMMA SameRemainder ==
    ASSUME NEW m \in Nat \ {0}, NEW a \in Int, NEW b \in Int, NEW z \in Int, a = b + m * z
    PROVE  a % m = b % m
<1>1. PICK p \in Int, s \in 0 .. m - 1 : s = a % m /\ a = m * p + s
  BY Remainder
<1>2. PICK q \in Int, r \in 0 .. m - 1 : r = b % m /\ b = m * q + r
  BY Remainder
<1>3. PICK w \in Int : w = p - q - z
  OBVIOUS
<1>4. m * w = r - s
  <2>1. m * (p - q - z) = m * p - m * q - m * z
    OBVIOUS
  <2>2. PICK x, y, v \in Int : x = m * p /\ y = m * q /\ v = m * z
    OBVIOUS
  <2>3. x + s = y + r + v
    BY <1>1, <1>2, <2>2
  <2>4. m * w = x - y - v
    BY <1>3, <2>1, <2>2
  <2> QED BY <2>2, <2>3, <2>4
<1>5. CASE w >= 1
  <2>1. m * w >= m
    BY <1>5
  <2> QED BY <1>4, <2>1
<1>6. CASE w <= -1
  <2>1. m * w <= -m
    BY <1>6
  <2> QED BY <1>4, <2>1
<1>7. CASE w = 0
  BY <1>1, <1>2, <1>4, <1>7
<1> QED BY <1>5, <1>6, <1>7

\* The seconds go round.
LEMMA SecondIs ==
    ASSUME NEW a \in Int
    PROVE  a % Seconds \in Nat /\ a % Seconds < Seconds
BY GpsConstants, Remainder

LEMMA Turn ==
    ASSUME NEW a \in Int, NEW d \in Int
    PROVE  ((a % Seconds) + d) % Seconds = (a + d) % Seconds
<1>1. Seconds \in Nat \ {0}
  BY GpsConstants
<1>2. PICK q \in Int, r \in 0 .. Seconds - 1 : r = a % Seconds /\ a = Seconds * q + r
  BY <1>1, Remainder
<1>3. a + d = (r + d) + Seconds * q
  BY <1>1, <1>2
<1>4. (a + d) % Seconds = (r + d) % Seconds
  <2>1. a + d \in Int /\ r + d \in Int
    BY <1>1, <1>2
  <2> QED BY <1>1, <1>3, <2>1, SameRemainder
<1> QED BY <1>2, <1>4

LEMMA Pair ==
    ASSUME NEW S \in SUBSET Both
    PROVE  Cardinality(S) = 2 <=> S = Both
<1>1. PICK a, b : a = "NMEA_GPGGA" /\ b = "NMEA_GPRMC"
  OBVIOUS
<1>2. S \in {{}, {a}, {b}, {a, b}} /\ a # b /\ Both = {a, b}
  BY <1>1 DEF Both
<1>3. Cardinality({}) = 0 /\ Cardinality({a}) = 1 /\ Cardinality({b}) = 1
  BY FS_EmptySet, FS_Singleton
<1>4. Cardinality({a, b}) = 2
  <2>1. IsFiniteSet({a}) /\ b \notin {a} /\ {a, b} = {a} \cup {b}
    BY <1>2, FS_Singleton
  <2>2. Cardinality({a} \cup {b}) = Cardinality({a}) + 1
    BY <2>1, FS_AddElement
  <2> QED BY <1>3, <2>1, <2>2
<1> QED BY <1>2, <1>3, <1>4

\* The chunks of a sentence.
LEMMA SentIs ==
    ASSUME NEW q \in Points
    PROVE  /\ Sentence[q.k + 1] \in Kinds
           /\ \A i \in 0 .. 2 : /\ Sent(q.n, q.k, i) \in Chunks /\ Sent(q.n, q.k, i).ok
                                /\ Sent(q.n, q.k, i).part = Part[i + 1]
                                /\ Sent(q.n, q.k, i).kind = Sentence[q.k + 1]
                                /\ Sent(q.n, q.k, i).sec = q.n % Seconds
           /\ Part[1] = "text" /\ Part[2] = "checksum" /\ Part[3] = "newline"
           /\ Sentence[1] = "GGA" /\ Sentence[2] = "RMC" /\ Sentence[3] = "GSV"
<1>1. q.n \in Int /\ q.k \in {0, 1, 2}
  BY DEF Points
<1>2. q.n % Seconds \in Int
  BY <1>1, SecondIs
<1>3. /\ Part[1] = "text" /\ Part[2] = "checksum" /\ Part[3] = "newline"
      /\ Sentence[1] = "GGA" /\ Sentence[2] = "RMC" /\ Sentence[3] = "GSV"
  BY DEF Part, Sentence
<1>4. Sentence[q.k + 1] \in Kinds
  BY <1>1, <1>3 DEF Kinds
<1>5. ASSUME NEW i \in 0 .. 2
      PROVE  /\ Sent(q.n, q.k, i) \in Chunks /\ Sent(q.n, q.k, i).ok
             /\ Sent(q.n, q.k, i).part = Part[i + 1]
             /\ Sent(q.n, q.k, i).kind = Sentence[q.k + 1]
             /\ Sent(q.n, q.k, i).sec = q.n % Seconds
  <2>1. Part[i + 1] \in {"text", "checksum", "newline"}
    <3>1. i \in {0, 1, 2}
      OBVIOUS
    <3> QED BY <1>3, <3>1
  <2> QED BY <1>2, <1>4, <2>1 DEF Sent, Chunk, Chunks
<1> QED BY <1>3, <1>4, <1>5

-----------------------------------------------------------------------------
(* The line                                                                *)

LEMMA NoLineIs ==
    /\ NoLine \in Lines /\ NoLine.names = {} /\ NoLine.texts = 0
    /\ ~NoLine.pure /\ NoLine.star = "none"
BY DEF NoLine, Lines, Chunks, Kinds, Stars, Chunk

LEMMA EmptyLine ==
    ASSUME NEW q \in Points, q.s \in {0, Spoilt}
    PROVE  Collected(NoLine, q)
BY NoLineIs DEF Collected, Spoilt

\* A sentence that is spoilt leaves less to say about the line.
LEMMA SpoiltLine ==
    ASSUME NEW l, NEW q, NEW r, Collected(l, q), r.n = q.n, r.k = q.k, r.s = Spoilt
    PROVE  Collected(l, r)
BY DEF Collected, Spoilt

LEMMA TextPut ==
    ASSUME NEW q \in Points, NEW r \in Points, NEW l, NEW c,
           Collected(l, q), Moves(q, c, r), c.part = "text"
    PROVE  Collected(Put(l, c), r)
<1> DEFINE m == Put(l, c)
           name == Sentence[q.k + 1]
<1>1. /\ l \in Lines /\ c \in Chunks /\ r.n = q.n /\ r.k = q.k
      /\ c.kind \in {name, "GSV"} /\ name \in Kinds
  BY SentIs DEF Collected, Moves
<1>2. /\ l.lead \in Chunks /\ l.pure \in BOOLEAN /\ l.star \in Stars /\ l.texts \in Nat
      /\ l.names \subseteq {name} /\ c.ok \in BOOLEAN
  BY <1>1 DEF Lines, Collected, Chunks
<1>3. c.ok => c = Sent(q.n, q.k, 0)
  BY SentIs DEF Moves
<1>4. /\ m.lead = (IF l.texts = 0 THEN c ELSE l.lead)
      /\ m.pure = (IF l.star = "none" THEN l.texts = 0 /\ l.star = "none" /\ c.ok ELSE l.pure)
      /\ m.star = l.star /\ m.names = l.names \cup ({c.kind} \ {"GSV"}) /\ m.texts = l.texts + 1
  BY DEF Put
<1>5. m = [lead |-> m.lead, pure |-> m.pure, star |-> m.star, names |-> m.names, texts |-> m.texts]
  BY DEF Put
<1> HIDE DEF m, name
<1>6. m.pure \in BOOLEAN
  BY <1>2, <1>4
<1>7. m.names \subseteq {name} /\ m.texts # 0 /\ m.texts \in Nat
  BY <1>1, <1>2, <1>4
<1>8. m \in Lines
  <2>1. m.lead \in Chunks /\ m.star \in Stars /\ m.names \in SUBSET Kinds
    BY <1>1, <1>2, <1>4, <1>7
  <2> QED BY <1>5, <1>6, <1>7, <2>1 DEF Lines
<1>9. m.pure => m.lead = Sent(q.n, q.k, 0) /\ m.names = {name} \ {"GSV"}
  <2>1. CASE l.star = "none"
    <3>1. m.pure => l.texts = 0 /\ c.ok /\ l.names = {}
      BY <1>4, <2>1 DEF Collected
    <3>2. c.ok => c.kind = name
      BY <1>3, SentIs DEF name
    <3> QED BY <1>3, <1>4, <3>1, <3>2
  <2>2. CASE l.star # "none"
    <3>1. m.pure => l.pure /\ l.texts # 0 /\ l.lead = Sent(q.n, q.k, 0) /\ l.names = {name} \ {"GSV"}
      BY <1>4, <2>2 DEF Collected, name
    <3> QED BY <1>1, <1>4, <3>1
  <2> QED BY <2>1, <2>2
<1>10. m.star = "right" => m.pure
  BY <1>4 DEF Collected
<1>11. r.s # 0 /\ r.s # 2 /\ (r.s = 1 => m.pure /\ m.star = "none" /\ m.texts = 1)
  <2>1. CASE r.s = Spoilt
    BY <2>1 DEF Spoilt
  <2>2. CASE r.s # Spoilt
    <3>1. q.s < 2 /\ r.s = q.s + 1 /\ c = Sent(q.n, q.k, q.s) /\ q.s \in {0, 1}
      BY <2>2 DEF Moves, Points
    <3>2. q.s = 0 /\ c.ok
      BY <3>1, SentIs
    <3>3. l.texts = 0 /\ l.star = "none"
      BY <3>2, NoLineIs DEF Collected
    <3>4. m.star = "none" /\ m.texts = 1 /\ r.s = 1
      BY <1>4, <3>1, <3>2, <3>3
    <3>5. m.pure
      BY <1>4, <3>2, <3>3, Zenon
    <3> QED BY <3>4, <3>5
  <2> QED BY <2>1, <2>2
<1> QED BY <1>1, <1>7, <1>8, <1>9, <1>10, <1>11 DEF Collected, m, name

LEMMA ChecksumPut ==
    ASSUME NEW q \in Points, NEW r \in Points, NEW l, NEW c,
           Collected(l, q), Moves(q, c, r), c.part = "checksum"
    PROVE  Collected(Put(l, c), r)
<1> DEFINE m == Put(l, c)
           empty == l.texts = 0 /\ l.star = "none"
           star == CASE l.star # "none" -> l.star
                     [] empty -> "first"
                     [] OTHER -> IF l.pure /\ c.ok /\ c.kind = l.lead.kind /\ c.sec = l.lead.sec
                                 THEN "right" ELSE "wrong"
<1>1. l \in Lines /\ c \in Chunks /\ r.n = q.n /\ r.k = q.k
  BY DEF Collected, Moves
<1>2. m = [l EXCEPT !.star = star]
  BY DEF Put
<1>3. star \in Stars /\ (star = "right" => l.pure)
  <2>1. l.star \in Stars
    BY <1>1 DEF Lines
  <2> QED BY <2>1 DEF Stars, Collected
<1>4. l.star = "none" /\ ~empty /\ l.pure /\ c.ok /\ c.kind = l.lead.kind /\ c.sec = l.lead.sec => star = "right"
  OBVIOUS
<1> HIDE DEF m, star, empty
<1>5. /\ m \in Lines /\ m.star = star /\ m.lead = l.lead /\ m.pure = l.pure
      /\ m.names = l.names /\ m.texts = l.texts
  BY <1>1, <1>2, <1>3 DEF Lines
<1>6. r.s # 0 /\ r.s # 1 /\ (r.s = 2 => m.star = "right" /\ m.texts = 1)
  <2>1. CASE r.s = Spoilt
    BY <2>1 DEF Spoilt
  <2>2. CASE r.s # Spoilt
    <3>1. q.s < 2 /\ r.s = q.s + 1 /\ c = Sent(q.n, q.k, q.s) /\ q.s \in {0, 1}
      BY <2>2 DEF Moves, Points
    <3>2. q.s = 1 /\ c = Sent(q.n, q.k, 1) /\ c.ok
      BY <3>1, SentIs
    <3>3. l.pure /\ l.star = "none" /\ l.texts = 1 /\ l.lead = Sent(q.n, q.k, 0)
      BY <3>2 DEF Collected
    <3>4. c.kind = l.lead.kind /\ c.sec = l.lead.sec
      BY <3>2, <3>3, SentIs
    <3> QED BY <1>4, <1>5, <3>1, <3>2, <3>3, <3>4 DEF empty
  <2> QED BY <2>1, <2>2
<1> QED BY <1>1, <1>3, <1>5, <1>6 DEF Collected, m

\* What rp_NmeaGetMessageType() takes a line for.
LEMMA MessageType ==
    ASSUME NEW q \in Points, NEW l, Collected(l, q), q.s \in {2, Spoilt},
           NEW type \in rp_NmeaGetMessageType(l)
    PROVE  /\ type = "NMEA_GPGGA" => q.k = 0 /\ rp_NmeaParseGpgga(l) = q.n % Seconds
           /\ type = "NMEA_GPRMC" => q.k = 1 /\ rp_NmeaParseGprmc(l) = q.n % Seconds
           /\ type # "NMEA_GPGGA" /\ q.k = 0 => q.s = Spoilt
           /\ type # "NMEA_GPRMC" /\ q.k = 1 => q.s = Spoilt
           /\ type = "crash" => q.s = Spoilt
<1>1. l.star \in Stars
  BY DEF Collected, Lines
<1>2. CASE l.star # "right"
  <2>1. type \in {"crash", "NMEA_CHECKSUM_ERR"}
    BY <1>1, <1>2 DEF rp_NmeaGetMessageType, rp_NmeaValidChecksum, Stars
  <2>2. q.s = Spoilt
    BY <1>2 DEF Collected
  <2> QED BY <2>1, <2>2
<1>3. CASE l.star = "right"
  <2>1. type = Named(l)
    BY <1>3 DEF rp_NmeaGetMessageType, rp_NmeaValidChecksum
  <2>2. /\ l.lead = Sent(q.n, q.k, 0) /\ l.names = {Sentence[q.k + 1]} \ {"GSV"}
    BY <1>3 DEF Collected
  <2>3. l.lead.ok /\ l.lead.kind = Sentence[q.k + 1] /\ l.lead.sec = q.n % Seconds
    BY <2>2, SentIs
  <2>4. Sentence[1] = "GGA" /\ Sentence[2] = "RMC" /\ Sentence[3] = "GSV" /\ q.k \in {0, 1, 2}
    BY SentIs DEF Points
  <2>5. CASE q.k = 0
    BY <2>1, <2>2, <2>3, <2>4, <2>5 DEF Named, rp_NmeaParseGpgga, Field
  <2>6. CASE q.k = 1
    BY <2>1, <2>2, <2>3, <2>4, <2>6 DEF Named, rp_NmeaParseGprmc, Field
  <2>7. CASE q.k = 2
    BY <2>1, <2>2, <2>4, <2>7 DEF Named
  <2> QED BY <2>4, <2>5, <2>6, <2>7
<1> QED BY <1>2, <1>3

-----------------------------------------------------------------------------
(* The second the fields are of                                            *)

LEMMA LostGrows ==
    ASSUME NEW q \in Points, NEW c, NEW r \in Points, Moves(q, c, r)
    PROVE  /\ Lost(r) \in Int /\ Lost(q) \in Int /\ Lost(r) >= Lost(q)
           /\ c.part = "newline" => Lost(r) >= 0
           /\ c.part = "newline" /\ q.s = Spoilt => Lost(r) >= Lost(q) + 1
           /\ c.part = "newline" => Following(q, r)
<1>1. q.u \in Nat /\ r.u \in Nat /\ q.s \in 0 .. 3 /\ r.s \in 0 .. 3 /\ r.u >= q.u
  BY DEF Points, Moves
<1>2. CASE c.part = "newline"
  <2>1. Following(q, r) /\ (r.s = Spoilt => r.u > q.u)
    BY <1>2 DEF Moves
  <2> QED BY <1>1, <1>2, <2>1 DEF Lost
<1>3. CASE c.part # "newline"
  <2>1. (r.s # Spoilt => q.s < 2) /\ (r.s = Spoilt /\ q.s # Spoilt => r.u > q.u)
    BY <1>3 DEF Moves
  <2> QED BY <1>1, <1>3, <2>1 DEF Lost, Spoilt
<1> QED BY <1>2, <1>3

\* Within a sentence nothing passes.
LEMMA KnownStays ==
    ASSUME NEW q \in Points, NEW r \in Points, NEW st, NEW co, Known(st, co, q),
           r.n = q.n, r.k = q.k, Lost(r) >= Lost(q), Lost(q) \in Int, Lost(r) \in Int
    PROVE  Known(st, co, r)
<1>1. q.n \in Nat /\ q.k \in 0 .. 2 /\ Passed(q) = Passed(r) /\ Passed(q) \in Int
  BY DEF Points, Passed
<1>2. ASSUME NEW a \in Nat, Lost(q) >= Passed(q) - 2 * a - 1 PROVE Lost(r) >= Passed(r) - 2 * a - 1
  BY <1>1, <1>2
<1>3. ASSUME NEW b \in Nat, Lost(q) >= Passed(q) - 2 * b - 2 PROVE Lost(r) >= Passed(r) - 2 * b - 2
  BY <1>1, <1>3
<1> QED BY <1>2, <1>3 DEF Known

\* A sentence that passes without counting was spoilt, or is the third of its second.
LEMMA KnownPasses ==
    ASSUME NEW q \in Points, NEW r \in Points, NEW st, NEW co, Known(st, co, q),
           Following(q, r), Lost(q) \in Int, Lost(r) \in Int, Lost(r) >= Lost(q),
           q.k = 2 \/ Lost(r) >= Lost(q) + 1
    PROVE  Known(st, co, r)
<1>1. q.n \in Nat /\ q.k \in 0 .. 2 /\ r.n \in Nat /\ r.n >= q.n
  BY DEF Points, Following
<1>2. /\ Passed(q) \in Int /\ Passed(r) \in Int
      /\ Lost(r) - Passed(r) >= Lost(q) - Passed(q)
  BY <1>1 DEF Passed, Following
<1>3. ASSUME NEW a \in Nat, a <= q.n, Lost(q) >= Passed(q) - 2 * a - 1
      PROVE  a <= r.n /\ Lost(r) >= Passed(r) - 2 * a - 1
  BY <1>1, <1>2, <1>3
<1>4. ASSUME NEW b \in Nat, b <= q.n, Lost(q) >= Passed(q) - 2 * b - 2
      PROVE  b <= r.n /\ Lost(r) >= Passed(r) - 2 * b - 2
  BY <1>1, <1>2, <1>4
<1> QED BY <1>3, <1>4 DEF Known

\* A sentence that counts, but not yet both.
LEMMA KnownAgain ==
    ASSUME NEW q \in Points, NEW r \in Points, NEW st \in SUBSET Both, NEW co,
           Following(q, r), Lost(r) \in Int, Lost(r) >= 0,
           \/ q.k = 0 /\ st = {"NMEA_GPGGA"} /\ co.time = q.n % Seconds
           \/ q.k = 1 /\ st = {"NMEA_GPRMC"} /\ co.date = q.n % Seconds
    PROVE  Known(st, co, r)
<1>1. q.n \in Nat /\ r.n = q.n /\ r.k = q.k + 1
  BY DEF Points, Following
<1>2. CASE q.k = 0 /\ st = {"NMEA_GPGGA"} /\ co.time = q.n % Seconds
  <2>1. q.n <= r.n /\ Lost(r) >= Passed(r) - 2 * q.n - 1
    BY <1>1, <1>2 DEF Passed
  <2>2. "NMEA_GPRMC" \notin st /\ st # Both
    BY <1>2 DEF Both
  <2> QED BY <1>1, <1>2, <2>1, <2>2 DEF Known
<1>3. CASE q.k = 1 /\ st = {"NMEA_GPRMC"} /\ co.date = q.n % Seconds
  <2>1. q.n <= r.n /\ Lost(r) >= Passed(r) - 2 * q.n - 2
    BY <1>1, <1>3 DEF Passed
  <2>2. "NMEA_GPGGA" \notin st /\ st # Both
    BY <1>3 DEF Both
  <2> QED BY <1>1, <1>3, <2>1, <2>2 DEF Known
<1> QED BY <1>2, <1>3

\* Two seconds that differ by d give fields that differ by d.
LEMMA CloseIf ==
    ASSUME noise \in Nat, NEW co, NEW a \in Nat, NEW b \in Nat,
           co.time = a % Seconds, co.date = b % Seconds,
           2 * (b - a) <= noise, 2 * (a - b) <= noise + 2
    PROVE  Close(co)
<1>1. PICK d \in Int : d = a - b
  OBVIOUS
<1>2. d \in -(noise \div 2) .. 1 + (noise \div 2)
  BY <1>1
<1>3. ((b % Seconds) + d) % Seconds = (b + d) % Seconds /\ b + d = a
  BY <1>1, Turn
<1>4. co.time = (co.date + d) % Seconds
  BY <1>3
<1>5. Wrong \notin {co.time, co.date}
  BY SecondIs DEF Wrong
<1> QED BY <1>2, <1>4, <1>5 DEF Close

\* The second of the two kinds of sentences arrives.
LEMMA KnownBoth ==
    ASSUME NEW q \in Points, NEW st, NEW co, NEW fix, Known(st, co, q), q.u <= noise, noise \in Nat,
           \/ /\ q.k = 0 /\ "NMEA_GPRMC" \in st
              /\ fix.time = q.n % Seconds /\ fix.date = co.date
           \/ /\ q.k = 1 /\ "NMEA_GPGGA" \in st
              /\ fix.date = q.n % Seconds /\ fix.time = co.time
    PROVE  Close(fix)
<1>1. q.n \in Nat /\ q.u \in Nat /\ Lost(q) \in Int /\ Lost(q) <= noise
  BY DEF Points, Lost
<1>2. CASE /\ q.k = 0 /\ "NMEA_GPRMC" \in st
           /\ fix.time = q.n % Seconds /\ fix.date = co.date
  <2>1. PICK b \in Nat : b <= q.n /\ co.date = b % Seconds /\ Lost(q) >= Passed(q) - 2 * b - 2
    BY <1>2 DEF Known
  <2>2. 2 * (b - q.n) <= noise /\ 2 * (q.n - b) <= noise + 2
    BY <1>1, <1>2, <2>1 DEF Passed
  <2> QED BY <1>1, <1>2, <2>1, <2>2, CloseIf
<1>3. CASE /\ q.k = 1 /\ "NMEA_GPGGA" \in st
           /\ fix.date = q.n % Seconds /\ fix.time = co.time
  <2>1. PICK a \in Nat : a <= q.n /\ co.time = a % Seconds /\ Lost(q) >= Passed(q) - 2 * a - 1
    BY <1>3 DEF Known
  <2>2. 2 * (q.n - a) <= noise /\ 2 * (a - q.n) <= noise + 2
    BY <1>1, <1>3, <2>1 DEF Passed
  <2> QED BY <1>1, <1>3, <2>1, <2>2, CloseIf
<1> QED BY <1>2, <1>3

LEMMA Halves ==
    ASSUME NEW x \in Nat, NEW y \in Nat, x <= y
    PROVE  x \div 2 \in Nat /\ y \div 2 \in Nat /\ x \div 2 <= y \div 2
<1>1. PICK v \in Nat : v = x \div 2 /\ 2 * v <= x /\ x <= 2 * v + 1
  OBVIOUS
<1>2. PICK w \in Nat : w = y \div 2 /\ 2 * w <= y /\ y <= 2 * w + 1
  OBVIOUS
<1>3. CASE v > w
  <2>1. v >= w + 1
    BY <1>3
  <2>2. 2 * v >= 2 * w + 2
    BY <2>1
  <2> QED BY <1>1, <1>2, <2>2
<1> QED BY <1>1, <1>2, <1>3

\* More noise excuses more.
LEMMA CloseStays ==
    ASSUME NEW co, noise \in Nat, noise' \in Nat, noise <= noise', Close(co)
    PROVE  /\ Wrong \notin {co.time, co.date}
           /\ \E d \in -(noise' \div 2) .. 1 + (noise' \div 2) : co.time = (co.date + d) % Seconds
<1>1. PICK d \in -(noise \div 2) .. 1 + (noise \div 2) : co.time = (co.date + d) % Seconds
  BY DEF Close
<1>2. PICK x \in Nat, y \in Nat : x = noise /\ y = noise' /\ x <= y
  OBVIOUS
<1>3. PICK v \in Nat, w \in Nat : v = x \div 2 /\ w = y \div 2 /\ v <= w
  BY <1>2, Halves
<1>4. d \in -v .. 1 + v
  BY <1>1, <1>2, <1>3
<1>5. d \in -w .. 1 + w
  BY <1>3, <1>4
<1>6. d \in -(noise' \div 2) .. 1 + (noise' \div 2)
  BY <1>2, <1>3, <1>5
<1> QED BY <1>1, <1>6 DEF Close

-----------------------------------------------------------------------------
(* The steps of the others                                                 *)

\* A process that does not read, or shares the port: nothing is promised for it but what
\* it has printed.
LEMMA FixQuiet ==
    ASSUME NEW q \in Procs, Fix(q), noise \in Nat, noise' \in Nat, noise <= noise',
           pc'[q] = pc[q], why[q] \subseteq why'[q],
           pc[q] # "reading" \/ "shared" \in why'[q],
           \/ line'[q] = line[q] /\ status'[q] = status[q] /\ coord'[q] = coord[q]
           \/ line'[q] = NoLine /\ status'[q] = {}
    PROVE  Fix(q)'
<1>1. {} # Both
  BY DEF Both
<1>2. status'[q] = Both /\ why'[q] \cap {"shared", "newline"} = {} => Close(coord[q])'
  <2> SUFFICES ASSUME status'[q] = Both, why'[q] \cap {"shared", "newline"} = {}
               PROVE  Close(coord[q])'
    OBVIOUS
  <2>1. status[q] = Both /\ coord'[q] = coord[q] /\ why[q] \cap {"shared", "newline"} = {}
    BY <1>1
  <2>2. Close(coord[q])
    BY <2>1 DEF Fix
  <2> QED BY <2>1, <2>2, CloseStays DEF Close
<1> QED BY <1>1, <1>2 DEF Fix, Followed

\* A process that reads alone while others do something else.
LEMMA FixSpared ==
    ASSUME NEW q \in Procs, Fix(q), UNCHANGED <<sky, rx, cut, noise>>,
           pc'[q] = pc[q], why[q] \subseteq why'[q], Readers' = Readers,
           line'[q] = line[q], status'[q] = status[q], coord'[q] = coord[q]
    PROVE  Fix(q)'
<1>1. Followed(q)' => Followed(q)
  BY DEF Followed
<1>2. ASSUME NEW f, Track(q, f), Followed(q)' PROVE Track(q, f)'
  <2>1. Collected(line'[q], f[1]) /\ Known(status'[q], coord'[q], f[1]) /\ Sends(f[Len(rx) + 1])'
    BY <1>2 DEF Track, Sends
  <2> QED BY <1>2, <2>1 DEF Track
<1>3. Close(coord[q]) => Close(coord[q])'
  BY DEF Close
<1> QED BY <1>1, <1>2, <1>3 DEF Fix

\* A process that has no position.
LEMMA FixNone ==
    ASSUME NEW q \in Procs, status'[q] = {}, pc'[q] # "reading",
           pc'[q] = "main" => line'[q] = NoLine, pc'[q] = "crash" => why'[q] # {}
    PROVE  Fix(q)'
BY DEF Fix, Followed, Both

\* The steps of lago -t and -f, and of lago -g without its port.
LEMMA BusStep ==
    ASSUME SensorInv, GpsInv, NEW p \in Procs, NEW at,
           UNCHANGED <<line, status, coord, sky, rx, cut, noise>>,
           pc[p] \notin {"reading", "done", "crash"}, at \notin {"main", "reading", "crash"},
           pc' = [pc EXCEPT ![p] = at],
           \A q \in Procs \ {p} : why[q] \subseteq why'[q]
    PROVE  GpsInv'
<1>1. pc'[p] = at /\ \A q \in Procs \ {p} : pc'[q] = pc[q]
  BY DEF SensorInv, SensorType
<1>2. Readers' = Readers
  BY <1>1 DEF Readers
<1>3. GpsType'
  BY DEF GpsInv, GpsType
<1>4. ASSUME NEW q \in Procs PROVE Fix(q)'
  <2>1. Fix(q)
    BY DEF GpsInv
  <2>2. CASE q = p
    <3>1. status'[p] = {}
      BY <2>1, <2>2 DEF Fix
    <3> QED BY <1>1, <2>2, <3>1, FixNone
  <2>3. CASE q # p
    BY <1>1, <1>2, <2>1, <2>3, FixSpared
  <2> QED BY <2>2, <2>3
<1> QED BY <1>3, <1>4 DEF GpsInv

LEMMA TransferExcuses ==
    ASSUME SensorInv, NEW p, NEW ok, NEW others, Transfer(p, ok, others)
    PROVE  \A q \in Procs : why[q] \subseteq why'[q]
BY DEF Transfer

LEMMA BusSteps ==
    ASSUME SensorInv, GpsInv, NEW p \in Procs,
           \/ CommandTemperature(p) \/ ReadTemperature(p)
           \/ CommandPressure(p) \/ ReadPressureMsb(p) \/ ReadPressureLsb(p)
           \/ ReadPressureXlsb(p)
           \/ Report(p) \/ NextFunction(p) \/ StartSensor(p) \/ signal_handler(p)
    PROVE  GpsInv'
<1>1. ASSUME NEW kind, NEW at, Command(p, kind, at)
      PROVE  /\ UNCHANGED <<line, status, coord, sky, rx, cut, noise>> /\ pc' = [pc EXCEPT ![p] = at]
             /\ \A q \in Procs : why[q] \subseteq why'[q]
  BY <1>1, TransferExcuses DEF Command, gps
<1>2. ASSUME NEW field, NEW value, NEW at, ReadRaw(p, field, value, at)
      PROVE  /\ UNCHANGED <<line, status, coord, sky, rx, cut, noise>> /\ pc' = [pc EXCEPT ![p] = at]
             /\ \A q \in Procs : why[q] \subseteq why'[q]
  BY <1>2, TransferExcuses DEF ReadRaw, gps
<1>3. CASE CommandTemperature(p)
  BY <1>1, <1>3, BusStep DEF CommandTemperature
<1>4. CASE CommandPressure(p)
  BY <1>1, <1>4, BusStep DEF CommandPressure
<1>5. CASE ReadTemperature(p)
  <2>1. PICK at, field, value : at \in {"report", "cmdP"} /\ ReadRaw(p, field, value, at)
    BY <1>5 DEF ReadTemperature
  <2>2. pc[p] = "readT"
    BY <1>5 DEF ReadTemperature
  <2> QED BY <1>2, <2>1, <2>2, BusStep
<1>6. CASE ReadPressureMsb(p)
  BY <1>2, <1>6, BusStep DEF ReadPressureMsb
<1>7. CASE ReadPressureLsb(p)
  BY <1>2, <1>7, BusStep DEF ReadPressureLsb
<1>8. CASE ReadPressureXlsb(p)
  BY <1>2, <1>8, BusStep DEF ReadPressureXlsb
<1>9. CASE Report(p)
  <2>1. /\ UNCHANGED <<line, status, coord, sky, rx, cut, noise, why>>
        /\ pc' = [pc EXCEPT ![p] = "next"] /\ pc[p] = "report"
    BY <1>9 DEF Report, gps
  <2> QED BY <2>1, BusStep
<1>10. CASE NextFunction(p)
  <2>1. /\ UNCHANGED <<line, status, coord, sky, rx, cut, noise>> /\ pc[p] = "next"
        /\ why' = [why EXCEPT ![p] = {}]
    BY <1>10 DEF NextFunction, gps
  <2>2. PICK at \in {"cmdT", "done"} : pc' = [pc EXCEPT ![p] = at]
    BY <1>10 DEF NextFunction
  <2>3. \A q \in Procs \ {p} : why[q] \subseteq why'[q]
    BY <2>1 DEF SensorInv, SensorType
  <2> QED BY <2>1, <2>2, <2>3, BusStep
<1>11. CASE StartSensor(p)
  <2>1. /\ UNCHANGED <<line, status, coord, sky, rx, cut, noise, why>>
        /\ pc' = [pc EXCEPT ![p] = "cmdT"] /\ pc[p] = "main"
    BY <1>11 DEF StartSensor, gps
  <2> QED BY <2>1, BusStep
<1>12. CASE signal_handler(p)
  <2>1. /\ UNCHANGED <<pc, line, status, coord, sky, rx, cut, noise>> /\ pc[p] \in {"readT", "readM"}
        /\ why' = [why EXCEPT ![p] = @ \cup {"signal"}]
    BY <1>12 DEF signal_handler, proc, gps
  <2>2. pc' = [pc EXCEPT ![p] = pc[p]] /\ \A q \in Procs \ {p} : why[q] \subseteq why'[q]
    BY <2>1 DEF SensorInv, SensorType
  <2>3. pc[p] \notin {"main", "reading", "done", "crash"}
    BY <2>1
  <2> QED BY <2>1, <2>2, <2>3, BusStep
<1> QED BY <1>3, <1>4, <1>5, <1>6, <1>7, <1>8, <1>9, <1>10, <1>11, <1>12

LEMMA StillFix ==
    ASSUME SensorInv, GpsInv,
           UNCHANGED <<pc, why, line, status, coord, sky, rx, cut, noise>>
    PROVE  GpsInv'
<1>1. GpsType' /\ Readers' = Readers
  BY DEF GpsInv, GpsType, Readers
<1>2. ASSUME NEW q \in Procs PROVE Fix(q)'
  <2>1. Fix(q)
    BY DEF GpsInv
  <2> QED BY <1>1, <2>1, FixSpared
<1> QED BY <1>1, <1>2 DEF GpsInv

LEMMA StartFix ==
    ASSUME SensorInv, GpsInv, NEW p \in Procs, Start(p)
    PROVE  GpsInv'
<1> DEFINE fresh == {p} \cup {q \in Procs : pc[q] \in {"done", "crash"}}
<1>1. PICK at \in {"main", "crash"} :
        pc' = [[q \in Procs |-> IF q \in fresh THEN "off" ELSE pc[q]] EXCEPT ![p] = at]
  BY DEF Start, bmp180_dump_eprom, bmp180_init
<1>2. /\ line' = [q \in Procs |-> IF q \in fresh THEN NoLine ELSE line[q]]
      /\ status' = [q \in Procs |-> IF q \in fresh THEN {} ELSE status[q]]
      /\ coord' = [q \in Procs |-> IF q \in fresh THEN NoCoord ELSE coord[q]]
      /\ why' = [[q \in Procs |-> IF q \in fresh THEN {} ELSE why[q]]
                   EXCEPT ![p] = IF pc'[p] = "crash" THEN {"fault"} ELSE {}]
      /\ UNCHANGED <<sky, rx, cut, noise>> /\ pc[p] \in {"off", "done", "crash"}
  BY DEF Start, gps
<1>3. ASSUME NEW q \in fresh
      PROVE  /\ q \in Procs /\ line'[q] = NoLine /\ status'[q] = {} /\ pc[q] # "reading"
             /\ pc'[q] \in {"off", "main", "crash"} /\ (pc'[q] = "crash" => why'[q] # {})
  BY <1>1, <1>2
<1>4. ASSUME NEW q \in Procs, q \notin fresh
      PROVE  /\ line'[q] = line[q] /\ status'[q] = status[q] /\ coord'[q] = coord[q]
             /\ pc'[q] = pc[q] /\ why'[q] = why[q]
  BY <1>1, <1>2, <1>4
<1> HIDE DEF fresh
<1>5. Readers' = Readers
  BY <1>3, <1>4 DEF Readers
<1>6. GpsType'
  <2>1. NoCoord = [time |-> NoCoord.time, date |-> NoCoord.date]
    BY DEF NoCoord
  <2>2. coord' = [q \in Procs |-> [time |-> coord'[q].time, date |-> coord'[q].date]]
    BY <1>2, <2>1 DEF GpsInv, GpsType
  <2> QED BY <1>2, <2>2 DEF GpsInv, GpsType
<1>7. ASSUME NEW q \in Procs PROVE Fix(q)'
  <2>1. CASE q \in fresh
    BY <1>3, <2>1, FixNone
  <2>2. CASE q \notin fresh
    <3>1. Fix(q)
      BY DEF GpsInv
    <3> QED BY <1>2, <1>4, <1>5, <2>2, <3>1, FixSpared
  <2> QED BY <2>1, <2>2
<1> QED BY <1>6, <1>7 DEF GpsInv

-----------------------------------------------------------------------------
(* The points between the chunks                                           *)

LEMMA TrackParts ==
    ASSUME GpsType, NEW p \in Procs, NEW f, Track(p, f)
    PROVE  /\ Len(rx) \in Nat /\ f[1] \in Points /\ f[Len(rx) + 1] \in Points
           /\ f[1].u <= noise /\ f[Len(rx) + 1].u <= noise
           /\ rx # << >> => /\ f[2] \in Points /\ Moves(f[1], Head(rx), f[2])
                            /\ Len(Tail(rx)) = Len(rx) - 1
                            /\ \A i \in 1 .. Len(rx) - 1 : Tail(rx)[i] = rx[i + 1]
<1>1. Len(rx) \in Nat /\ rx \in Seq(Chunks)
  BY DEF GpsType
<1>2. 1 \in 1 .. Len(rx) + 1 /\ Len(rx) + 1 \in 1 .. Len(rx) + 1
  BY <1>1
<1>3. ASSUME rx # << >>
      PROVE  /\ f[2] \in Points /\ Moves(f[1], Head(rx), f[2])
             /\ Len(Tail(rx)) = Len(rx) - 1
             /\ \A i \in 1 .. Len(rx) - 1 : Tail(rx)[i] = rx[i + 1]
  <2>1. /\ Len(rx) >= 1 /\ Head(rx) = rx[1] /\ Len(Tail(rx)) = Len(rx) - 1
        /\ \A i \in 1 .. Len(rx) - 1 : Tail(rx)[i] = rx[i + 1]
    BY <1>1, <1>3
  <2>2. 2 \in 1 .. Len(rx) + 1 /\ 1 \in 1 .. Len(rx) /\ 1 + 1 = 2
    BY <1>1, <2>1
  <2> QED BY <2>1, <2>2 DEF Track
<1> QED BY <1>1, <1>2, <1>3 DEF Track

\* The program takes a chunk out of the queue ...
LEMMA TrackTail ==
    ASSUME GpsType, NEW p \in Procs, NEW f, Track(p, f), rx # << >>, rx' = Tail(rx),
           UNCHANGED <<sky, cut, noise, why>>,
           Collected(line'[p], f[2]), Known(status'[p], coord'[p], f[2])
    PROVE  \E g : Track(p, g)'
<1>0. PICK g : g = [i \in 1 .. Len(rx) |-> f[i + 1]]
  OBVIOUS
<1>1. /\ Len(rx) \in Nat /\ Len(rx) >= 1 /\ Len(rx') = Len(rx) - 1 /\ Len(rx') + 1 = Len(rx)
      /\ \A i \in 1 .. Len(rx) - 1 : rx'[i] = rx[i + 1]
  BY TrackParts DEF GpsType
<1>2. \A i \in 1 .. Len(rx) : g[i] = f[i + 1] /\ i + 1 \in 1 .. Len(rx) + 1
  BY <1>0, <1>1
<1>3. g \in [1 .. Len(rx) -> Points]
  BY <1>0, <1>2 DEF Track
<1>4. 1 \in 1 .. Len(rx) /\ Len(rx) \in 1 .. Len(rx) /\ 1 + 1 = 2
  BY <1>1
<1>5. g[1] = f[2] /\ g[Len(rx)] = f[Len(rx) + 1]
  BY <1>2, <1>4
<1>6. ASSUME NEW i \in 1 .. Len(rx) - 1 PROVE Moves(g[i], rx'[i], g[i + 1])
  <2>1. i + 1 \in 1 .. Len(rx) /\ i \in 1 .. Len(rx)
    BY <1>1
  <2>2. Moves(f[i + 1], rx[i + 1], f[(i + 1) + 1])
    BY <2>1 DEF Track
  <2> QED BY <1>1, <1>2, <2>1, <2>2
<1>7. Sends(g[Len(rx) + 1])'
  <2>1. Sends(f[Len(rx) + 1])
    BY DEF Track
  <2>2. PICK q : q = f[Len(rx) + 1]
    OBVIOUS
  <2>3. Sends(q)'
    BY <2>1, <2>2 DEF Sends
  <2>4. g[Len(rx') + 1] = q
    BY <1>1, <1>5, <2>2
  <2> QED BY <2>3, <2>4
<1>8. \A i \in 1 .. Len(rx) : g[i].u <= noise' /\ (why'[p] = {} => g[i].s # Spoilt)
  BY <1>2 DEF Track
<1>9. /\ g \in [1 .. Len(rx') + 1 -> Points] /\ Collected(line'[p], g[1])
      /\ Known(status'[p], coord'[p], g[1])
      /\ \A i \in 1 .. Len(rx') : Moves(g[i], rx'[i], g[i + 1])
      /\ \A i \in 1 .. Len(rx') + 1 : g[i].u <= noise' /\ (why'[p] = {} => g[i].s # Spoilt)
  BY <1>1, <1>3, <1>5, <1>6, <1>8
<1>10. Track(p, g)'
  BY <1>7, <1>9 DEF Track
<1> QED BY <1>10

\* ... and the receiver puts one into it ...
LEMMA TrackAppend ==
    ASSUME GpsType, NEW p \in Procs, NEW f, Track(p, f), NEW c, rx' = Append(rx, c),
           NEW q, q = f[Len(rx) + 1], NEW r \in Points, Moves(q, c, r), Sends(r)',
           noise' \in Nat, noise <= noise', r.u <= noise',
           why'[p] = {} => why[p] = {} /\ r.s # Spoilt,
           line'[p] = line[p], status'[p] = status[p], coord'[p] = coord[p]
    PROVE  \E g : Track(p, g)'
<1>1. PICK g : g = [i \in 1 .. Len(rx) + 2 |-> IF i <= Len(rx) + 1 THEN f[i] ELSE r]
  OBVIOUS
<1>2. /\ Len(rx) \in Nat /\ Len(rx') = Len(rx) + 1 /\ rx'[Len(rx) + 1] = c
      /\ \A i \in 1 .. Len(rx) : rx'[i] = rx[i]
  BY DEF GpsType
<1>3. (\A i \in 1 .. Len(rx) + 1 : g[i] = f[i]) /\ g[Len(rx) + 2] = r
  BY <1>1, <1>2
<1>4. g \in [1 .. Len(rx) + 2 -> Points]
  BY <1>1, <1>2 DEF Track
<1>5. 1 \in 1 .. Len(rx) + 1 /\ Len(rx') + 1 = Len(rx) + 2
  BY <1>2
<1>6. Collected(line'[p], g[1]) /\ Known(status'[p], coord'[p], g[1])
  BY <1>3, <1>5 DEF Track
<1>7. ASSUME NEW i \in 1 .. Len(rx) + 1 PROVE Moves(g[i], rx'[i], g[i + 1])
  <2>1. CASE i = Len(rx) + 1
    <3>1. g[i] = q /\ g[i + 1] = r /\ rx'[i] = c
      BY <1>2, <1>3, <2>1
    <3> QED BY <3>1
  <2>2. CASE i # Len(rx) + 1
    <3>1. i \in 1 .. Len(rx) /\ i + 1 \in 1 .. Len(rx) + 1
      BY <1>2, <2>2
    <3> QED BY <1>2, <1>3, <3>1 DEF Track
  <2> QED BY <2>1, <2>2
<1>8. Sends(g[Len(rx) + 1])'
  BY <1>3, <1>5
<1>9. ASSUME NEW i \in 1 .. Len(rx) + 2 PROVE g[i].u <= noise' /\ (why'[p] = {} => g[i].s # Spoilt)
  <2>1. CASE i = Len(rx) + 2
    BY <1>3, <2>1
  <2>2. CASE i # Len(rx) + 2
    <3>1. i \in 1 .. Len(rx) + 1 /\ g[i] = f[i] /\ f[i] \in Points
      BY <1>2, <1>3, <2>2 DEF Track
    <3>2. f[i].u <= noise /\ f[i].u \in Nat /\ (why[p] = {} => f[i].s # Spoilt)
      BY <3>1 DEF Track, Points
    <3> QED BY <3>1, <3>2 DEF GpsType
  <2> QED BY <2>1, <2>2
<1>10. /\ g \in [1 .. Len(rx') + 1 -> Points]
       /\ \A i \in 1 .. Len(rx') : Moves(g[i], rx'[i], g[i + 1])
       /\ \A i \in 1 .. Len(rx') + 1 : g[i].u <= noise' /\ (why'[p] = {} => g[i].s # Spoilt)
  BY <1>2, <1>4, <1>5, <1>7, <1>9
<1>11. Track(p, g)'
  BY <1>6, <1>8, <1>10 DEF Track
<1> QED BY <1>11

\* ... or one is lost, and the sentence is spoilt.
Spoil(q) == [n |-> q.n, k |-> q.k, s |-> Spoilt, u |-> IF q.s = Spoilt THEN q.u ELSE q.u + 1]

LEMMA SpoilIs ==
    ASSUME NEW q \in Points
    PROVE  /\ Spoil(q) \in Points /\ Spoil(q).n = q.n /\ Spoil(q).k = q.k /\ Spoil(q).s = Spoilt
           /\ Spoil(q).u = IF q.s = Spoilt THEN q.u ELSE q.u + 1
           /\ Lost(Spoil(q)) = Lost(q) /\ Lost(q) \in Int
<1>1. /\ Spoil(q).n = q.n /\ Spoil(q).k = q.k /\ Spoil(q).s = Spoilt
      /\ Spoil(q).u = IF q.s = Spoilt THEN q.u ELSE q.u + 1
  BY DEF Spoil
<1>2. q.n \in Nat /\ q.k \in 0 .. 2 /\ q.u \in Nat
  BY DEF Points
<1>3. PICK u \in Nat : u = IF q.s = Spoilt THEN q.u ELSE q.u + 1
  BY <1>2
<1>4. Spoil(q) \in Points
  BY <1>2, <1>3 DEF Spoil, Points, Spoilt
<1> QED BY <1>1, <1>2, <1>4 DEF Lost

LEMMA SpoiltMoves ==
    ASSUME NEW o \in Points, NEW q \in Points, NEW c, Moves(o, c, q)
    PROVE  Moves(o, c, Spoil(q))
<1>1. q.u \in Nat /\ o.u \in Nat /\ q.s \in 0 .. 3 /\ o.s \in 0 .. 3
  BY DEF Points
<1>2. PICK r \in Points : /\ r = Spoil(q) /\ r.n = q.n /\ r.k = q.k /\ r.s = Spoilt
                          /\ r.u = IF q.s = Spoilt THEN q.u ELSE q.u + 1
  BY SpoilIs
<1>3. CASE c.part = "newline"
  <2>1. c \in Chunks /\ q.u >= o.u /\ Following(o, q) /\ o.s \in {2, Spoilt} /\ (q.s = Spoilt => q.u > o.u)
    BY <1>3 DEF Moves
  <2>2. Following(o, r) /\ r.u >= o.u /\ r.u > o.u
    BY <1>1, <1>2, <2>1 DEF Following
  <2> QED BY <1>2, <1>3, <2>1, <2>2 DEF Moves
<1>4. CASE c.part # "newline"
  <2>1. /\ c \in Chunks /\ q.u >= o.u /\ q.n = o.n /\ q.k = o.k
        /\ c.kind \in {Sentence[o.k + 1], "GSV"}
        /\ c.ok => c \in {Sent(o.n, o.k, 0), Sent(o.n, o.k, 1)}
        /\ q.s = Spoilt /\ o.s # Spoilt => q.u > o.u
    BY <1>4 DEF Moves
  <2>2. r.u >= o.u /\ (o.s # Spoilt => r.u > o.u)
    BY <1>1, <1>2, <2>1
  <2> QED BY <1>2, <1>4, <2>1, <2>2 DEF Moves
<1> QED BY <1>3, <1>4

LEMMA TrackLoss ==
    ASSUME GpsType, NEW p \in Procs, NEW f, Track(p, f), UNCHANGED rx,
           NEW q, q = f[Len(rx) + 1], Sends(Spoil(q))',
           noise' \in Nat, noise <= noise', Spoil(q).u <= noise', why'[p] # {},
           line'[p] = line[p], status'[p] = status[p], coord'[p] = coord[p]
    PROVE  \E g : Track(p, g)'
<1>1. PICK g : g = [f EXCEPT ![Len(rx) + 1] = Spoil(q)]
  OBVIOUS
<1>2. Len(rx) \in Nat /\ q \in Points /\ f[1] \in Points
  BY TrackParts
<1>3. /\ g \in [1 .. Len(rx) + 1 -> Points] /\ g[Len(rx) + 1] = Spoil(q)
      /\ \A i \in 1 .. Len(rx) : g[i] = f[i]
  BY <1>1, <1>2, SpoilIs DEF Track
<1>4. Collected(line'[p], g[1]) /\ Known(status'[p], coord'[p], g[1])
  <2>1. Collected(line[p], f[1]) /\ Known(status[p], coord[p], f[1])
    BY DEF Track
  <2>2. CASE Len(rx) = 0
    <3>1. g[1] = Spoil(q) /\ f[1] = q
      BY <1>3, <2>2
    <3>2. Collected(line[p], Spoil(q))
      BY <1>2, <2>1, <3>1, SpoilIs, SpoiltLine
    <3>3. Known(status[p], coord[p], Spoil(q))
      <4>1. PICK r \in Points : /\ r = Spoil(q) /\ r.n = q.n /\ r.k = q.k
                                /\ Lost(r) = Lost(q) /\ Lost(q) \in Int
        BY <1>2, SpoilIs
      <4> QED BY <1>2, <2>1, <3>1, <4>1, KnownStays
    <3> QED BY <3>1, <3>2, <3>3
  <2>3. CASE Len(rx) # 0
    <3>1. 1 \in 1 .. Len(rx)
      BY <1>2, <2>3
    <3> QED BY <1>3, <2>1, <3>1
  <2> QED BY <2>2, <2>3
<1>5. ASSUME NEW i \in 1 .. Len(rx) PROVE Moves(g[i], rx[i], g[i + 1])
  <2>1. Moves(f[i], rx[i], f[i + 1]) /\ g[i] = f[i]
    BY <1>3 DEF Track
  <2>2. CASE i = Len(rx)
    <3>1. i \in 1 .. Len(rx) + 1 /\ g[i + 1] = Spoil(q) /\ f[i + 1] = q
      BY <1>2, <1>3, <2>2
    <3>2. f[i] \in Points
      BY <3>1 DEF Track
    <3> QED BY <1>2, <2>1, <3>1, <3>2, SpoiltMoves
  <2>3. CASE i # Len(rx)
    <3>1. i + 1 \in 1 .. Len(rx)
      BY <1>2, <2>3
    <3> QED BY <1>3, <2>1, <3>1
  <2> QED BY <2>2, <2>3
<1>6. ASSUME NEW i \in 1 .. Len(rx) + 1 PROVE g[i].u <= noise'
  <2>1. CASE i = Len(rx) + 1
    BY <1>3, <2>1
  <2>2. CASE i # Len(rx) + 1
    <3>1. i \in 1 .. Len(rx) /\ g[i] = f[i]
      BY <1>2, <1>3, <2>2
    <3>2. f[i].u <= noise /\ f[i] \in Points
      BY DEF Track
    <3>3. f[i].u \in Nat
      BY <3>2 DEF Points
    <3> QED BY <3>1, <3>2, <3>3 DEF GpsType
  <2> QED BY <2>1, <2>2
<1>7. Sends(g[Len(rx) + 1])'
  <2>1. g[Len(rx') + 1] = Spoil(q)
    BY <1>3
  <2> QED BY <2>1
<1>8. Track(p, g)'
  BY <1>3, <1>4, <1>5, <1>6, <1>7 DEF Track
<1> QED BY <1>8

-----------------------------------------------------------------------------
(* The receiver                                                            *)

LEMMA DamagedIs ==
    ASSUME NEW q \in Points, NEW i \in 0 .. 1, NEW d \in Damaged(Sent(q.n, q.k, i))
    PROVE  d \in Chunks /\ d.part # "newline" /\ ~d.ok /\ d.kind \in {Sentence[q.k + 1], "GSV"}
<1>1. PICK c \in Chunks : /\ c = Sent(q.n, q.k, i) /\ c.part = Part[i + 1]
                          /\ c.kind = Sentence[q.k + 1] /\ c.sec = q.n % Seconds
  <2>1. i \in 0 .. 2
    OBVIOUS
  <2> QED BY <2>1, SentIs
<1>2. c.part \in {"text", "checksum"}
  <2>1. i \in {0, 1} /\ Part[1] = "text" /\ Part[2] = "checksum"
    BY SentIs
  <2> QED BY <1>1, <2>1
<1>3. d \in {[c EXCEPT !.part = "text", !.kind = c.kind, !.ok = FALSE],
             [c EXCEPT !.part = "text", !.kind = "GSV", !.ok = FALSE],
             [c EXCEPT !.ok = FALSE]}
  BY <1>1, <1>2 DEF Damaged
<1> QED BY <1>1, <1>2, <1>3 DEF Chunks, Kinds

\* The point at which the receiver is after a chunk.
Sending(q, i) ==
    IF i < 2 THEN [n |-> q.n, k |-> q.k, s |-> IF q.s = Spoilt THEN Spoilt ELSE i + 1, u |-> q.u]
    ELSE [n |-> IF q.k = 2 THEN q.n + 1 ELSE q.n, k |-> IF q.k = 2 THEN 0 ELSE q.k + 1, s |-> 0, u |-> q.u]

LEMMA SendingIs ==
    ASSUME NEW q \in Points, NEW i \in 0 .. 2, q.s \in {i, Spoilt}
    PROVE  /\ Sending(q, i) \in Points /\ Moves(q, Sent(q.n, q.k, i), Sending(q, i))
           /\ Sending(q, i).u = q.u /\ (Sending(q, i).s = Spoilt => q.s = Spoilt)
<1>1. q.n \in Nat /\ q.k \in 0 .. 2 /\ q.s \in 0 .. 3 /\ q.u \in Nat
  BY DEF Points
<1>2. PICK r : r = Sending(q, i)
  OBVIOUS
<1>3. PICK c : /\ c = Sent(q.n, q.k, i) /\ c \in Chunks /\ c.ok /\ c.part = Part[i + 1]
               /\ c.kind = Sentence[q.k + 1]
  BY SentIs
<1>4. CASE i < 2
  <2>1. PICK s \in 0 .. 3 : s = IF q.s = Spoilt THEN Spoilt ELSE i + 1
    BY <1>4 DEF Spoilt
  <2>2. r = [n |-> q.n, k |-> q.k, s |-> s, u |-> q.u]
    BY <1>2, <1>4, <2>1 DEF Sending
  <2>3. r \in Points /\ r.u = q.u /\ r.s = s /\ r.n = q.n /\ r.k = q.k
    BY <1>1, <2>1, <2>2 DEF Points
  <2>4. i \in {0, 1} /\ c.part # "newline"
    BY <1>3, <1>4, SentIs
  <2>5. c \in {Sent(q.n, q.k, 0), Sent(q.n, q.k, 1)}
    BY <1>3, <2>4
  <2>6. r.s = Spoilt => q.s = Spoilt
    BY <1>4, <2>1, <2>3 DEF Spoilt
  <2>7. r.s = Spoilt \/ (q.s < 2 /\ r.s = q.s + 1 /\ c = Sent(q.n, q.k, q.s))
    BY <1>3, <1>4, <2>1, <2>3
  <2>8. Moves(q, c, r)
    BY <1>1, <1>3, <2>3, <2>4, <2>5, <2>6, <2>7 DEF Moves
  <2> QED BY <1>2, <1>3, <2>3, <2>6, <2>8
<1>5. CASE i = 2
  <2>1. PICK n \in Nat, k \in 0 .. 2 : /\ n = IF q.k = 2 THEN q.n + 1 ELSE q.n
                                       /\ k = IF q.k = 2 THEN 0 ELSE q.k + 1
    BY <1>1
  <2>2. r = [n |-> n, k |-> k, s |-> 0, u |-> q.u]
    BY <1>2, <1>5, <2>1 DEF Sending
  <2>3. r \in Points /\ r.u = q.u /\ r.s = 0 /\ r.n = n /\ r.k = k
    BY <1>1, <2>1, <2>2 DEF Points
  <2>4. Following(q, r) /\ r.s # Spoilt
    BY <1>1, <2>1, <2>3 DEF Following, Spoilt
  <2>5. c.part = "newline"
    BY <1>3, <1>5, SentIs
  <2>6. Moves(q, c, r)
    BY <1>1, <1>3, <1>5, <2>3, <2>4, <2>5 DEF Moves
  <2> QED BY <1>2, <1>3, <2>3, <2>4, <2>6
<1> QED BY <1>4, <1>5

\* What the receiver does at q: its chunk, and where it is next.
LEMMA SkyIs ==
    ASSUME NEW q \in Points, NEW i \in 0 .. 2, sky = [at |-> 3 * q.k + i, sec |-> q.n % Seconds]
    PROVE  /\ sky.at % 3 = i /\ sky.at \div 3 = q.k
           /\ Chunk(Part[(sky.at % 3) + 1], Sentence[(sky.at \div 3) + 1], sky.sec) = Sent(q.n, q.k, i)
<1>1. q.k \in {0, 1, 2} /\ i \in {0, 1, 2} /\ sky.at = 3 * q.k + i /\ sky.sec = q.n % Seconds
  BY DEF Points
<1>2. sky.at % 3 = i /\ sky.at \div 3 = q.k
  <2>1. PICK k \in {0, 1, 2} : k = q.k
    BY <1>1
  <2>2. (3 * k + i) % 3 = i /\ (3 * k + i) \div 3 = k
    BY <1>1
  <2> QED BY <1>1, <2>1, <2>2
<1> QED BY <1>1, <1>2 DEF Sent

LEMMA SkyMoves ==
    ASSUME NEW q \in Points, NEW i \in 0 .. 2, sky = [at |-> 3 * q.k + i, sec |-> q.n % Seconds],
           sky' = [at |-> (sky.at + 1) % 9, sec |-> (sky.sec + ((sky.at + 1) \div 9)) % Seconds],
           cut' = FALSE, NEW r \in Points, (r.s = Spoilt /\ i < 2) \/ r.s = Sending(q, i).s,
           r.n = Sending(q, i).n, r.k = Sending(q, i).k, q.s \in {i, Spoilt}
    PROVE  Sends(r)'
<1>1. /\ q.n \in Nat /\ q.k \in {0, 1, 2} /\ i \in {0, 1, 2}
      /\ sky.at = 3 * q.k + i /\ sky.sec = q.n % Seconds
  BY DEF Points
<1>2. /\ ((q.n % Seconds) + 0) % Seconds = q.n % Seconds
      /\ ((q.n % Seconds) + 1) % Seconds = (q.n + 1) % Seconds
  <2>1. PICK m \in Int : m = q.n
    BY <1>1
  <2>2. ((m % Seconds) + 0) % Seconds = (m + 0) % Seconds
    BY Turn
  <2>3. ((m % Seconds) + 1) % Seconds = (m + 1) % Seconds
    BY Turn
  <2>4. m + 0 = m
    OBVIOUS
  <2> QED BY <2>1, <2>2, <2>3, <2>4
<1>3. CASE i < 2
  <2>1. r.n = q.n /\ r.k = q.k /\ r.s \in {i + 1, Spoilt} /\ i + 1 \in 0 .. 2
    BY <1>1, <1>3 DEF Sending
  <2>2. (sky.at + 1) % 9 = 3 * q.k + (i + 1) /\ (sky.at + 1) \div 9 = 0
    BY <1>1, <1>3
  <2>3. sky' = [at |-> 3 * r.k + (i + 1), sec |-> r.n % Seconds]
    BY <1>1, <1>2, <2>1, <2>2
  <2> QED BY <2>1, <2>3 DEF Sends
<1>4. CASE i = 2
  <2>1. r.s = 0
    BY <1>4 DEF Sending
  <2>2. CASE q.k = 2
    <3>1. r.n = q.n + 1 /\ r.k = 0
      BY <1>4, <2>2 DEF Sending
    <3>2. (sky.at + 1) % 9 = 3 * r.k + 0 /\ (sky.at + 1) \div 9 = 1
      BY <1>1, <1>4, <2>2, <3>1
    <3>3. sky' = [at |-> 3 * r.k + 0, sec |-> r.n % Seconds]
      BY <1>1, <1>2, <3>1, <3>2
    <3> QED BY <2>1, <3>3 DEF Sends
  <2>3. CASE q.k # 2
    <3>1. r.n = q.n /\ r.k = q.k + 1
      BY <1>4, <2>3 DEF Sending
    <3>2. (sky.at + 1) % 9 = 3 * r.k + 0 /\ (sky.at + 1) \div 9 = 0
      BY <1>1, <1>4, <2>3, <3>1
    <3>3. sky' = [at |-> 3 * r.k + 0, sec |-> r.n % Seconds]
      BY <1>1, <1>2, <3>1, <3>2
    <3> QED BY <2>1, <3>3 DEF Sends
  <2> QED BY <2>2, <2>3
<1> QED BY <1>1, <1>3, <1>4

LEMMA DamagedMoves ==
    ASSUME NEW q \in Points, NEW i \in 0 .. 1, NEW d \in Damaged(Sent(q.n, q.k, i)), NEW r \in Points,
           r.n = q.n, r.k = q.k, r.s = Spoilt, r.u >= q.u, q.s # Spoilt => r.u > q.u
    PROVE  Moves(q, d, r)
<1>1. d \in Chunks /\ d.part # "newline" /\ ~d.ok /\ d.kind \in {Sentence[q.k + 1], "GSV"}
  BY DamagedIs
<1> QED BY <1>1 DEF Moves

\* The receiver sends to a process that reads alone.
LEMMA SendTrack ==
    ASSUME GpsType, GpsType', NEW p \in Procs, NEW f, Track(p, f), Send, pc[p] = "reading",
           why'[p] \cap {"shared", "newline"} = {}, why[p] \subseteq why'[p]
    PROVE  \E g : Track(p, g)'
<1>1. /\ sky' = [at |-> (sky.at + 1) % 9, sec |-> (sky.sec + ((sky.at + 1) \div 9)) % Seconds]
      /\ cut' = FALSE /\ UNCHANGED <<pc, line, status, coord>>
      /\ noise \in Nat /\ noise' \in Nat /\ rx \in Seq(Chunks)
  BY DEF Send, proc, GpsType
<1>2. PICK q \in Points : q = f[Len(rx) + 1] /\ q.u <= noise /\ Len(rx) \in Nat
  BY TrackParts
<1>3. PICK i \in 0 .. 2 : /\ sky = [at |-> 3 * q.k + i, sec |-> q.n % Seconds]
                          /\ q.s \in {i, Spoilt} /\ (cut => q.s = Spoilt)
  BY <1>2 DEF Track, Sends
<1>4. why[p] = {} => q.s # Spoilt
  BY <1>2 DEF Track
<1>5. PICK c : /\ c = Chunk(Part[(sky.at % 3) + 1], Sentence[(sky.at \div 3) + 1], sky.sec)
               /\ c = Sent(q.n, q.k, i) /\ c.part = Part[i + 1]
  <2>1. Chunk(Part[(sky.at % 3) + 1], Sentence[(sky.at \div 3) + 1], sky.sec) = Sent(q.n, q.k, i)
    BY <1>3, SkyIs
  <2>2. Sent(q.n, q.k, i).part = Part[i + 1]
    BY SentIs
  <2> QED BY <2>1, <2>2
<1>6. (c.part = "newline" <=> i = 2) /\ (i # 2 => i \in 0 .. 1)
  <2>1. Part[1] = "text" /\ Part[2] = "checksum" /\ Part[3] = "newline"
    BY SentIs
  <2>2. i \in {0, 1, 2}
    OBVIOUS
  <2> QED BY <1>5, <2>1, <2>2
<1>7. \/ /\ rx' \in {Append(rx, d) : d \in IF ~cut \/ c.part = "newline" THEN {c}
                                           ELSE {d \in Damaged(c) : d.part = "text"}}
         /\ UNCHANGED <<noise, why>>
      \/ /\ noise' = noise + 1
         /\ rx' \in {rx} \cup {Append(rx, d) : d \in Damaged(c)}
         /\ why' = [z \in Procs |-> why[z] \cup
              (IF z \notin Readers THEN {} ELSE IF c.part = "newline" THEN {"newline"} ELSE {"noise"})]
  BY <1>5, Zenon DEF Send
<1>8. PICK r \in Points : /\ r = Sending(q, i) /\ Moves(q, Sent(q.n, q.k, i), r) /\ r.u = q.u
                          /\ r.s = Spoilt => q.s = Spoilt
  BY <1>3, SendingIs
<1>9. Sends(r)'
  BY <1>1, <1>3, <1>8, SkyMoves
<1>10. CASE rx' = Append(rx, c) /\ UNCHANGED <<noise, why>>
  <2>1. Moves(q, c, r) /\ r.u <= noise' /\ noise <= noise'
    BY <1>1, <1>2, <1>5, <1>8, <1>10
  <2>2. why'[p] = {} => why[p] = {} /\ r.s # Spoilt
    BY <1>4, <1>8, <1>10
  <2> QED BY <1>1, <1>2, <1>9, <1>10, <2>1, <2>2, TrackAppend
<1>11. ASSUME NEW d \in Damaged(c), rx' = Append(rx, d), UNCHANGED <<noise, why>>, cut, c.part # "newline"
       PROVE  \E g : Track(p, g)'
  <2>1. q.s = Spoilt /\ i \in 0 .. 1 /\ i < 2
    BY <1>3, <1>6, <1>11
  <2>2. r.s = Spoilt /\ r.n = q.n /\ r.k = q.k
    BY <1>8, <2>1 DEF Sending
  <2>3. q.u \in Nat
    BY DEF Points
  <2>4. Moves(q, d, r)
    BY <1>5, <1>8, <1>11, <2>1, <2>2, <2>3, DamagedMoves
  <2> QED BY <1>1, <1>2, <1>4, <1>8, <1>9, <1>11, <2>1, <2>4, TrackAppend
<1>12. ASSUME noise' = noise + 1,
              why' = [z \in Procs |-> why[z] \cup
                (IF z \notin Readers THEN {} ELSE IF c.part = "newline" THEN {"newline"} ELSE {"noise"})],
              \/ rx' = rx
              \/ \E d \in Damaged(c) : rx' = Append(rx, d)
       PROVE  \E g : Track(p, g)'
  <2>1. p \in Readers
    BY DEF Readers
  <2>2. why'[p] # {} /\ c.part # "newline"
    BY <1>12, <2>1
  <2>3. i \in 0 .. 1 /\ i < 2
    BY <1>6, <2>2
  <2>4. PICK z \in Points : /\ z = Spoil(q) /\ z.n = q.n /\ z.k = q.k /\ z.s = Spoilt
                            /\ z.u = IF q.s = Spoilt THEN q.u ELSE q.u + 1
    BY SpoilIs
  <2>5. q.u \in Nat
    BY DEF Points
  <2>6. z.u <= noise' /\ z.u >= q.u /\ (q.s # Spoilt => z.u > q.u)
    BY <1>1, <1>2, <1>12, <2>4, <2>5
  <2>7. Sending(q, i).n = q.n /\ Sending(q, i).k = q.k
    BY <2>3 DEF Sending
  <2>8. Sends(z)'
    BY <1>1, <1>3, <2>3, <2>4, <2>7, SkyMoves
  <2>9. noise <= noise'
    BY <1>1, <1>12
  <2>10. CASE rx' = rx
    BY <1>1, <1>2, <2>2, <2>4, <2>6, <2>8, <2>9, <2>10, TrackLoss
  <2>11. ASSUME NEW d \in Damaged(c), rx' = Append(rx, d) PROVE \E g : Track(p, g)'
    <3>1. Moves(q, d, z)
      BY <1>5, <2>3, <2>4, <2>6, <2>11, DamagedMoves
    <3> QED BY <1>1, <1>2, <2>2, <2>4, <2>6, <2>8, <2>9, <2>11, <3>1, TrackAppend
  <2> QED BY <1>12, <2>10, <2>11
<1> QED BY <1>7, <1>10, <1>11, <1>12

LEMMA ChunkIs ==
    ASSUME NEW at \in 0 .. 8, NEW sec \in Int, NEW c,
           c = Chunk(Part[(at % 3) + 1], Sentence[(at \div 3) + 1], sec)
    PROVE  c \in Chunks /\ Damaged(c) \subseteq Chunks
<1>1. at % 3 \in {0, 1, 2} /\ at \div 3 \in {0, 1, 2}
  OBVIOUS
<1>2. c.part \in {"text", "checksum", "newline"} /\ c.kind \in Kinds /\ c.sec = sec /\ c \in Chunks
  <2>1. Part[1] = "text" /\ Part[2] = "checksum" /\ Part[3] = "newline"
    BY DEF Part
  <2>2. Sentence[1] = "GGA" /\ Sentence[2] = "RMC" /\ Sentence[3] = "GSV"
    BY DEF Sentence
  <2>3. Part[(at % 3) + 1] \in {"text", "checksum", "newline"}
    BY <1>1, <2>1
  <2>4. Sentence[(at \div 3) + 1] \in Kinds
    BY <1>1, <2>2 DEF Kinds
  <2> QED BY <2>3, <2>4 DEF Chunk, Chunks
<1>3. ASSUME NEW d \in Damaged(c) PROVE d \in Chunks
  <2>1. d \in {[c EXCEPT !.part = "text", !.kind = c.kind, !.ok = FALSE],
               [c EXCEPT !.part = "text", !.kind = "GSV", !.ok = FALSE],
               [c EXCEPT !.ok = FALSE]}
    BY <1>2, <1>3 DEF Damaged
  <2> QED BY <1>2, <2>1 DEF Chunks, Kinds
<1> QED BY <1>2, <1>3

LEMMA SendType ==
    ASSUME SensorInv, GpsInv, Send
    PROVE  /\ GpsType' /\ UNCHANGED <<pc, line, status, coord>> /\ noise <= noise'
           /\ \A q \in Procs : why[q] \subseteq why'[q]
<1>1. UNCHANGED <<pc, line, status, coord>>
  BY DEF Send, proc
<1>2. noise \in Nat /\ rx \in Seq(Chunks)
  BY DEF GpsInv, GpsType
<1>3. noise' \in Nat /\ noise <= noise'
  BY <1>2 DEF Send
<1>4. \A q \in Procs : why[q] \subseteq why'[q]
  BY DEF Send
<1>5. sky' \in [at : 0 .. 8, sec : Int] /\ rx' \in Seq(Chunks)
  <2>1. PICK at \in 0 .. 8, sec \in Int : sky.at = at /\ sky.sec = sec
    BY DEF GpsInv, GpsType
  <2>2. (at + 1) % 9 \in 0 .. 8 /\ (sec + ((at + 1) \div 9)) % Seconds \in Int
    BY SecondIs
  <2>3. sky' \in [at : 0 .. 8, sec : Int]
    BY <2>1, <2>2 DEF Send
  <2>4. PICK c : /\ c = Chunk(Part[(at % 3) + 1], Sentence[(at \div 3) + 1], sec)
                 /\ c \in Chunks /\ Damaged(c) \subseteq Chunks
    BY ChunkIs
  <2>5. \/ rx' = rx
        \/ \E d \in {c} \cup Damaged(c) : rx' = Append(rx, d)
    BY <2>1, <2>4 DEF Send
  <2> QED BY <1>2, <2>3, <2>4, <2>5
<1> QED BY <1>1, <1>3, <1>4, <1>5 DEF GpsInv, GpsType

LEMMA SendFix ==
    ASSUME SensorInv, GpsInv, Send
    PROVE  GpsInv'
<1>1. /\ GpsType' /\ UNCHANGED <<pc, line, status, coord>> /\ noise <= noise'
      /\ \A q \in Procs : why[q] \subseteq why'[q]
  BY SendType
<1>2. noise \in Nat /\ noise' \in Nat
  BY <1>1 DEF GpsInv, GpsType
<1>3. ASSUME NEW q \in Procs PROVE Fix(q)'
  <2>1. Fix(q)
    BY DEF GpsInv
  <2>2. CASE pc[q] # "reading" \/ "shared" \in why'[q]
    BY <1>1, <1>2, <2>1, <2>2, FixQuiet
  <2>3. CASE pc[q] = "reading" /\ "shared" \notin why'[q]
    <3>1. status[q] # Both /\ Readers = {q} /\ Readers' = Readers
      BY <1>1, <2>1, <2>3 DEF Fix, Readers
    <3>2. ASSUME Followed(q)' PROVE \E g : Track(q, g)'
      <4>1. why'[q] \cap {"shared", "newline"} = {} /\ Followed(q)
        BY <1>1, <2>3, <3>2 DEF Followed
      <4>2. PICK f : Track(q, f)
        BY <2>1, <4>1 DEF Fix
      <4>3. GpsType
        BY DEF GpsInv
      <4> QED BY <1>1, <2>3, <4>1, <4>2, <4>3, SendTrack
    <3>3. pc'[q] = "reading" /\ status'[q] # Both
      BY <1>1, <2>3, <3>1
    <3> QED BY <3>1, <3>2, <3>3 DEF Fix
  <2> QED BY <2>2, <2>3
<1> QED BY <1>1, <1>3 DEF GpsInv

-----------------------------------------------------------------------------
(* The readers                                                             *)

\* A line that is complete: the fields of the two kinds of sentences are of seconds that
\* differ by no more than what was lost between them.
LEMMA LineEnds ==
    ASSUME noise \in Nat, NEW q \in Points, NEW r \in Points, NEW c, Moves(q, c, r), c.part = "newline",
           q.u <= noise, NEW l, Collected(l, q),
           NEW st, NEW co, co = [time |-> co.time, date |-> co.date], Known(st, co, q),
           NEW type \in rp_NmeaGetMessageType(l), NEW st2, NEW co2,
           st2 = st \cup ({type} \cap Both),
           type = "NMEA_GPGGA" => co2 = [co EXCEPT !.time = rp_NmeaParseGpgga(l)],
           type = "NMEA_GPRMC" => co2 = [co EXCEPT !.date = rp_NmeaParseGprmc(l)],
           type \notin {"NMEA_GPGGA", "NMEA_GPRMC"} => co2 = co
    PROVE  /\ type = "crash" => q.s = Spoilt
           /\ st2 \in SUBSET Both /\ co2 = [time |-> co2.time, date |-> co2.date]
           /\ st2 = Both => Close(co2)
           /\ st2 # Both => Known(st2, co2, r)
<1>1. q.s \in {2, Spoilt} /\ q.n \in Nat /\ q.n % Seconds \in Int
  BY SecondIs DEF Moves, Points
<1>2. /\ type = "NMEA_GPGGA" => q.k = 0 /\ rp_NmeaParseGpgga(l) = q.n % Seconds
      /\ type = "NMEA_GPRMC" => q.k = 1 /\ rp_NmeaParseGprmc(l) = q.n % Seconds
      /\ type # "NMEA_GPGGA" /\ q.k = 0 => q.s = Spoilt
      /\ type # "NMEA_GPRMC" /\ q.k = 1 => q.s = Spoilt
      /\ type = "crash" => q.s = Spoilt
  BY <1>1, MessageType
<1>3. /\ Following(q, r) /\ Lost(q) \in Int /\ Lost(r) \in Int /\ Lost(r) >= Lost(q) /\ Lost(r) >= 0
      /\ q.s = Spoilt => Lost(r) >= Lost(q) + 1
  BY LostGrows
<1>4. st \in SUBSET Both /\ st # Both
  BY DEF Known
<1>5. CASE type = "NMEA_GPGGA"
  <2>1. /\ q.k = 0 /\ co2.time = q.n % Seconds /\ co2.date = co.date
        /\ co2 = [time |-> co2.time, date |-> co2.date]
    BY <1>1, <1>2, <1>5
  <2>2. st2 = st \cup {"NMEA_GPGGA"} /\ st2 \in SUBSET Both
    BY <1>4, <1>5 DEF Both
  <2>3. ASSUME st2 = Both PROVE Close(co2)
    <3>1. "NMEA_GPRMC" \in st
      BY <2>2, <2>3 DEF Both
    <3> QED BY <2>1, <3>1, KnownBoth
  <2>4. ASSUME st2 # Both PROVE Known(st2, co2, r)
    <3>1. st2 = {"NMEA_GPGGA"}
      BY <1>4, <2>2, <2>4 DEF Both
    <3> QED BY <1>3, <2>1, <2>2, <3>1, KnownAgain
  <2> QED BY <1>2, <2>1, <2>2, <2>3, <2>4
<1>6. CASE type = "NMEA_GPRMC"
  <2>1. /\ q.k = 1 /\ co2.date = q.n % Seconds /\ co2.time = co.time
        /\ co2 = [time |-> co2.time, date |-> co2.date]
    BY <1>1, <1>2, <1>6
  <2>2. st2 = st \cup {"NMEA_GPRMC"} /\ st2 \in SUBSET Both
    BY <1>4, <1>6 DEF Both
  <2>3. ASSUME st2 = Both PROVE Close(co2)
    <3>1. "NMEA_GPGGA" \in st
      BY <2>2, <2>3 DEF Both
    <3> QED BY <2>1, <3>1, KnownBoth
  <2>4. ASSUME st2 # Both PROVE Known(st2, co2, r)
    <3>1. st2 = {"NMEA_GPRMC"}
      BY <1>4, <2>2, <2>4 DEF Both
    <3> QED BY <1>3, <2>1, <2>2, <3>1, KnownAgain
  <2> QED BY <1>2, <2>1, <2>2, <2>3, <2>4
<1>7. CASE type \notin {"NMEA_GPGGA", "NMEA_GPRMC"}
  <2>1. st2 = st /\ co2 = co
    BY <1>7 DEF Both
  <2>2. q.k = 2 \/ q.s = Spoilt
    BY <1>2, <1>7 DEF Points
  <2>3. Known(st2, co2, r)
    BY <1>3, <2>1, <2>2, KnownPasses
  <2> QED BY <1>2, <1>4, <2>1, <2>3
<1> QED BY <1>5, <1>6, <1>7

\* A character of a line.
LEMMA LineGrows ==
    ASSUME NEW q \in Points, NEW r \in Points, NEW c, Moves(q, c, r), c.part # "newline",
           NEW l, Collected(l, q), NEW st, NEW co, Known(st, co, q)
    PROVE  /\ Collected(Put(l, c), r) /\ Known(st, co, r)
           /\ Put(l, c).texts > BufferTexts => r.s = Spoilt
<1>1. c.part \in {"text", "checksum"} /\ r.n = q.n /\ r.k = q.k
  BY DEF Moves, Chunks
<1>2. Collected(Put(l, c), r)
  BY <1>1, TextPut, ChecksumPut
<1>3. Known(st, co, r)
  BY <1>1, LostGrows, KnownStays
<1>4. r.s # Spoilt => Put(l, c).texts \in {0, 1}
  <2>1. r.s # Spoilt => r.s \in {0, 1, 2}
    BY DEF Points, Spoilt
  <2> QED BY <1>2, <2>1, NoLineIs DEF Collected
<1>5. BufferTexts \in Nat /\ BufferTexts >= 1
  BY GpsConstants
<1> QED BY <1>2, <1>3, <1>4, <1>5

\* A step of a reader leaves the others alone.
LEMMA ReaderAlone ==
    ASSUME SensorInv, GpsInv, NEW p \in Procs, pc[p] = "reading", UNCHANGED <<noise, why>>,
           \A q \in Procs \ {p} : pc'[q] = pc[q] /\ line'[q] = line[q] /\ status'[q] = status[q]
                                  /\ coord'[q] = coord[q]
    PROVE  /\ \A q \in Procs \ {p} : Fix(q)'
           /\ "shared" \notin why[p] => Readers = {p} /\ (pc'[p] = "reading" => Readers' = {p})
<1>1. ASSUME NEW q \in Procs \ {p} PROVE Fix(q)'
  <2>1. Fix(q)
    BY DEF GpsInv
  <2>2. pc[q] # "reading" \/ "shared" \in why[q]
    <3>1. ASSUME pc[q] = "reading", "shared" \notin why[q] PROVE FALSE
      <4>1. Readers = {q} /\ p \in Readers
        BY <2>1, <3>1 DEF Fix, Readers
      <4> QED BY <4>1
    <3> QED BY <3>1
  <2>3. noise \in Nat /\ noise' \in Nat /\ noise <= noise'
    BY DEF GpsInv, GpsType
  <2> QED BY <2>1, <2>2, <2>3, FixQuiet
<1>2. ASSUME "shared" \notin why[p] PROVE Readers = {p} /\ (pc'[p] = "reading" => Readers' = {p})
  <2>1. Readers = {p}
    BY <1>2 DEF GpsInv, Fix
  <2> QED BY <2>1 DEF Readers
<1> QED BY <1>1, <1>2

LEMMA SharedFix ==
    ASSUME SensorInv, GpsInv, NEW p \in Procs, ReadShared(p)
    PROVE  GpsInv'
<1>1. /\ pc[p] = "reading" /\ "shared" \in why[p] /\ rx' = Tail(rx) /\ rx # << >>
      /\ UNCHANGED <<line, status, coord, sky, noise, why>>
  BY DEF ReadShared
<1>2. PICK at \in {"reading", "done", "crash"} : pc' = [pc EXCEPT ![p] = at]
  BY DEF ReadShared
<1>3. pc'[p] = at /\ \A q \in Procs \ {p} : pc'[q] = pc[q]
  BY <1>2 DEF SensorInv, SensorType
<1>4. GpsType'
  <2>1. rx' \in Seq(Chunks)
    BY <1>1 DEF GpsInv, GpsType
  <2> QED BY <1>1, <2>1 DEF GpsInv, GpsType
<1>5. \A q \in Procs \ {p} : Fix(q)'
  BY <1>1, <1>3, ReaderAlone
<1>6. Fix(p)'
  <2>1. status[p] # Both
    BY <1>1 DEF GpsInv, Fix
  <2> QED BY <1>1, <1>3, <2>1 DEF Fix, Followed
<1> QED BY <1>4, <1>5, <1>6 DEF GpsInv

LEMMA ReadFix ==
    ASSUME SensorInv, GpsInv, NEW p \in Procs, rp_UartReadln(p)
    PROVE  GpsInv'
<1>1. /\ pc[p] = "reading" /\ "shared" \notin why[p] /\ rx' = Tail(rx) /\ rx # << >>
      /\ UNCHANGED <<sky, cut, noise, why>>
  BY DEF rp_UartReadln
<1>2. /\ GpsType /\ noise \in Nat /\ rx \in Seq(Chunks) /\ line = [q \in Procs |-> line[q]]
      /\ coord = [q \in Procs |-> [time |-> coord[q].time, date |-> coord[q].date]]
      /\ status \in [Procs -> SUBSET Both] /\ pc \in [Procs -> Places]
  BY DEF GpsInv, GpsType, SensorInv, SensorType
<1>3. rx' \in Seq(Chunks) /\ Fix(p) /\ status[p] # Both
  BY <1>1, <1>2 DEF GpsInv, Fix
<1>4. ASSUME why[p] \cap {"newline"} = {}
      PROVE  \E f, q, r : /\ q \in Points /\ r \in Points /\ Track(p, f) /\ q = f[1] /\ r = f[2]
                          /\ Moves(q, Head(rx), r) /\ Collected(line[p], q) /\ Known(status[p], coord[p], q)
                          /\ q.u <= noise /\ (why[p] = {} => q.s # Spoilt /\ r.s # Spoilt)
  <2>1. PICK f : Track(p, f)
    BY <1>1, <1>3, <1>4 DEF Fix, Followed
  <2>2. /\ f[1] \in Points /\ f[1].u <= noise /\ f[2] \in Points /\ Moves(f[1], Head(rx), f[2])
        /\ Len(rx) \in Nat
    BY <1>1, <1>2, <2>1, TrackParts
  <2>3. 1 \in 1 .. Len(rx) + 1 /\ 2 \in 1 .. Len(rx) + 1
    BY <1>1, <1>2
  <2> QED BY <2>1, <2>2, <2>3 DEF Track
<1>5. CASE Head(rx).part # "newline"
  <2>1. /\ line' = [line EXCEPT ![p] = Put(line[p], Head(rx))]
        /\ pc' = [pc EXCEPT ![p] = IF line'[p].texts > BufferTexts THEN "crash" ELSE pc[p]]
        /\ UNCHANGED <<status, coord>>
    BY <1>5 DEF rp_UartReadln
  <2>2. /\ line'[p] = Put(line[p], Head(rx))
        /\ pc'[p] = (IF Put(line[p], Head(rx)).texts > BufferTexts THEN "crash" ELSE "reading")
        /\ \A q \in Procs \ {p} : pc'[q] = pc[q] /\ line'[q] = line[q]
    BY <1>1, <1>2, <2>1
  <2>3. GpsType'
    <3>1. line' = [q \in Procs |-> line'[q]]
      BY <1>2, <2>1
    <3> QED BY <1>1, <1>2, <1>3, <2>1, <3>1 DEF GpsType
  <2>4. /\ \A q \in Procs \ {p} : Fix(q)'
        /\ pc'[p] = "reading" => Readers' = {p}
    BY <1>1, <2>1, <2>2, ReaderAlone
  <2>5. pc'[p] = "crash" => why'[p] # {}
    <3>1. ASSUME why[p] = {} PROVE Put(line[p], Head(rx)).texts > BufferTexts => FALSE
      BY <1>4, <1>5, <3>1, LineGrows
    <3> QED BY <1>1, <2>2, <3>1
  <2>6. Followed(p)' => \E g : Track(p, g)'
    <3> SUFFICES ASSUME Followed(p)' PROVE \E g : Track(p, g)'
      OBVIOUS
    <3>1. PICK f, q, r : /\ q \in Points /\ r \in Points /\ Track(p, f) /\ q = f[1] /\ r = f[2]
                         /\ Moves(q, Head(rx), r) /\ Collected(line[p], q) /\ Known(status[p], coord[p], q)
      BY <1>1, <1>4 DEF Followed
    <3>2. Collected(line'[p], f[2]) /\ Known(status'[p], coord'[p], f[2])
      BY <1>5, <2>1, <2>2, <3>1, LineGrows
    <3> QED BY <1>1, <1>2, <3>1, <3>2, TrackTail
  <2>7. Fix(p)'
    BY <1>3, <2>1, <2>2, <2>4, <2>5, <2>6 DEF Fix
  <2> QED BY <2>3, <2>4, <2>7 DEF GpsInv
<1>6. CASE Head(rx).part = "newline"
  <2>1. PICK type \in rp_NmeaGetMessageType(line[p]) : gps_location(p, type)
    BY <1>6 DEF rp_UartReadln
  <2>2. PICK st, co : /\ st = status[p] \cup ({type} \cap Both)
                      /\ co = CASE type = "NMEA_GPGGA" -> [coord[p] EXCEPT !.time = rp_NmeaParseGpgga(line[p])]
                                [] type = "NMEA_GPRMC" -> [coord[p] EXCEPT !.date = rp_NmeaParseGprmc(line[p])]
                                [] OTHER -> coord[p]
    OBVIOUS
  <2>3. /\ line' = [line EXCEPT ![p] = NoLine]
        /\ coord' = [coord EXCEPT ![p] = co]
        /\ status' = [status EXCEPT ![p] = st]
        /\ pc' = [pc EXCEPT ![p] = IF type = "crash" THEN "crash"
                                   ELSE IF Cardinality(status'[p]) = 2 THEN "done" ELSE pc[p]]
    BY <2>1, <2>2, Zenon DEF gps_location, Both
  <2>4. /\ line'[p] = NoLine /\ coord'[p] = co /\ status'[p] = st
        /\ \A q \in Procs \ {p} : /\ pc'[q] = pc[q] /\ line'[q] = line[q]
                                  /\ coord'[q] = coord[q] /\ status'[q] = status[q]
        /\ line' = [q \in Procs |-> line'[q]]
    BY <1>2, <2>3
  <2>5. st \in SUBSET Both /\ (Cardinality(st) = 2 <=> st = Both)
    BY <1>2, <2>2, Pair
  <2>6. pc'[p] = (IF type = "crash" THEN "crash" ELSE IF st = Both THEN "done" ELSE "reading")
    BY <1>1, <1>2, <2>3, <2>4, <2>5
  <2>7. GpsType'
    <3>1. co = [time |-> co.time, date |-> co.date]
      BY <1>2, <2>2
    <3>2. coord' = [q \in Procs |-> [time |-> coord'[q].time, date |-> coord'[q].date]]
      BY <1>2, <2>3, <3>1
    <3>3. status' \in [Procs -> SUBSET Both]
      BY <1>2, <2>3, <2>5
    <3> QED BY <1>1, <1>2, <1>3, <2>4, <3>2, <3>3 DEF GpsType
  <2>8. /\ \A q \in Procs \ {p} : Fix(q)'
        /\ pc'[p] = "reading" => Readers' = {p}
    BY <1>1, <2>4, ReaderAlone
  <2>9. ASSUME why[p] \cap {"newline"} = {}
        PROVE  \E f, q, r : /\ q \in Points /\ r \in Points /\ Track(p, f) /\ r = f[2] /\ Moves(q, Head(rx), r)
                            /\ why[p] = {} => q.s # Spoilt
                            /\ type = "crash" => q.s = Spoilt
                            /\ st = Both => Close(co)
                            /\ st # Both => Known(st, co, r)
    <3>1. PICK f, q, r : /\ q \in Points /\ r \in Points /\ Track(p, f) /\ q = f[1] /\ r = f[2]
                         /\ Moves(q, Head(rx), r) /\ Collected(line[p], q) /\ Known(status[p], coord[p], q)
                         /\ q.u <= noise /\ (why[p] = {} => q.s # Spoilt)
      BY <1>4, <2>9
    <3>2. coord[p] = [time |-> coord[p].time, date |-> coord[p].date]
      BY <1>2
    <3>3. /\ type = "crash" => q.s = Spoilt
          /\ st = Both => Close(co)
          /\ st # Both => Known(st, co, r)
      <4>1. /\ type = "NMEA_GPGGA" => co = [coord[p] EXCEPT !.time = rp_NmeaParseGpgga(line[p])]
            /\ type = "NMEA_GPRMC" => co = [coord[p] EXCEPT !.date = rp_NmeaParseGprmc(line[p])]
            /\ type \notin {"NMEA_GPGGA", "NMEA_GPRMC"} => co = coord[p]
        BY <2>2
      <4>2. noise \in Nat /\ st = status[p] \cup ({type} \cap Both) /\ Head(rx).part = "newline"
        BY <1>2, <1>6, <2>2
      <4>3. PICK c, l, a, b : c = Head(rx) /\ l = line[p] /\ a = status[p] /\ b = coord[p]
        OBVIOUS
      <4>4. /\ Moves(q, c, r) /\ c.part = "newline" /\ Collected(l, q) /\ Known(a, b, q)
            /\ b = [time |-> b.time, date |-> b.date] /\ type \in rp_NmeaGetMessageType(l)
        BY <2>1, <3>1, <3>2, <4>2, <4>3
      <4>5. /\ st = a \cup ({type} \cap Both)
            /\ type = "NMEA_GPGGA" => co = [b EXCEPT !.time = rp_NmeaParseGpgga(l)]
            /\ type = "NMEA_GPRMC" => co = [b EXCEPT !.date = rp_NmeaParseGprmc(l)]
            /\ type \notin {"NMEA_GPGGA", "NMEA_GPRMC"} => co = b
        BY <4>1, <4>2, <4>3
      <4>6. q \in Points /\ r \in Points /\ q.u <= noise /\ noise \in Nat
        BY <3>1, <4>2
      <4> QED BY <4>4, <4>5, <4>6, LineEnds
    <3> QED BY <3>1, <3>3
  <2>10. pc'[p] = "crash" => why'[p] # {}
    <3>1. ASSUME type = "crash", why[p] = {} PROVE FALSE
      BY <2>9, <3>1
    <3> QED BY <1>1, <2>6, <3>1
  <2>11. status'[p] = Both /\ why'[p] \cap {"shared", "newline"} = {} => Close(coord[p])'
    <3> SUFFICES ASSUME status'[p] = Both, why'[p] \cap {"shared", "newline"} = {} PROVE Close(coord[p])'
      OBVIOUS
    <3>1. Close(co)
      BY <1>1, <2>4, <2>9
    <3> QED BY <1>1, <2>4, <3>1 DEF Close
  <2>12. Followed(p)' => \E g : Track(p, g)'
    <3> SUFFICES ASSUME Followed(p)' PROVE \E g : Track(p, g)'
      OBVIOUS
    <3>1. why[p] \cap {"newline"} = {} /\ st # Both
      BY <1>1, <2>6 DEF Followed
    <3>2. PICK f, q, r : /\ q \in Points /\ r \in Points /\ Track(p, f) /\ r = f[2] /\ Moves(q, Head(rx), r)
                         /\ Known(st, co, r)
      BY <2>9, <3>1
    <3>3. r.s \in {0, Spoilt}
      BY <1>6, <3>2 DEF Moves
    <3>4. Collected(line'[p], f[2]) /\ Known(status'[p], coord'[p], f[2])
      BY <2>4, <3>2, <3>3, EmptyLine
    <3> QED BY <1>1, <1>2, <3>2, <3>4, TrackTail
  <2>13. Fix(p)'
    BY <2>4, <2>6, <2>8, <2>10, <2>11, <2>12 DEF Fix
  <2> QED BY <2>7, <2>8, <2>13 DEF GpsInv
<1> QED BY <1>5, <1>6

\* The port is opened: nothing has passed yet, and in the middle of a sentence that one is
\* spoilt.
LEMMA OpenTrack ==
    ASSUME NEW p \in Procs, GpsType', sky' \in [at : 0 .. 8, sec : {0}], rx' = << >>, line'[p] = NoLine,
           status'[p] = {}, cut' \/ sky'.at % 3 # 0 => why'[p] # {}
    PROVE  \E g : Track(p, g)'
<1>1. PICK at \in 0 .. 8, i \in 0 .. 2, k \in 0 .. 2 :
        sky' = [at |-> at, sec |-> 0] /\ at = 3 * k + i /\ i = sky'.at % 3
  <2>1. PICK at \in 0 .. 8 : sky' = [at |-> at, sec |-> 0]
    OBVIOUS
  <2>2. at % 3 \in 0 .. 2 /\ at \div 3 \in 0 .. 2 /\ at = 3 * (at \div 3) + (at % 3)
    OBVIOUS
  <2> QED BY <2>1, <2>2
<1>2. PICK s \in 0 .. 3 : s = IF cut' \/ i # 0 THEN Spoilt ELSE 0
  BY DEF Spoilt
<1>3. PICK q : q = [n |-> 0, k |-> k, s |-> s, u |-> 0]
  OBVIOUS
<1>4. q \in Points /\ q.n = 0 /\ q.k = k /\ q.s = s /\ q.u = 0
  BY <1>3 DEF Points
<1>5. PICK g : g = [j \in {1} |-> q]
  OBVIOUS
<1>6. Len(rx') = 0 /\ 1 .. Len(rx') + 1 = {1} /\ 1 .. Len(rx') = {} /\ Len(rx') + 1 = 1
  OBVIOUS
<1>7. g \in [{1} -> Points] /\ g[1] = q
  BY <1>4, <1>5
<1>8. Collected(line'[p], q)
  BY <1>2, <1>4, EmptyLine
<1>9. Known(status'[p], coord'[p], q)
  BY DEF Known, Both
<1>10. Sends(q)'
  <2>1. 0 % Seconds = 0
    BY GpsConstants
  <2>2. sky' = [at |-> 3 * q.k + i, sec |-> q.n % Seconds]
    BY <1>1, <1>4, <2>1
  <2>3. q.s \in {i, Spoilt} /\ (cut' => q.s = Spoilt)
    BY <1>2, <1>4
  <2> QED BY <2>2, <2>3 DEF Sends
<1>11. q.u <= noise' /\ (why'[p] = {} => q.s # Spoilt)
  <2>1. noise' \in Nat
    BY DEF GpsType
  <2>2. why'[p] = {} => s = 0
    BY <1>1, <1>2
  <2> QED BY <1>4, <2>1, <2>2 DEF Spoilt
<1>12. /\ g \in [1 .. Len(rx') + 1 -> Points] /\ Collected(line'[p], g[1])
       /\ Known(status'[p], coord'[p], g[1])
       /\ \A j \in 1 .. Len(rx') : Moves(g[j], rx'[j], g[j + 1])
       /\ \A j \in 1 .. Len(rx') + 1 : g[j].u <= noise' /\ (why'[p] = {} => g[j].s # Spoilt)
  BY <1>6, <1>7, <1>8, <1>9, <1>11
<1>13. Sends(g[Len(rx) + 1])'
  <2>1. g[Len(rx') + 1] = q
    BY <1>6, <1>7
  <2> QED BY <1>10, <2>1
<1>14. Track(p, g)'
  BY <1>12, <1>13 DEF Track
<1> QED BY <1>14

LEMMA GpsInitFix ==
    ASSUME SensorInv, GpsInv, NEW p \in Procs, gps_init(p)
    PROVE  GpsInv'
<1>1. pc[p] = "main" /\ UNCHANGED noise /\ pc \in [Procs -> Places]
  BY DEF gps_init, SensorInv, SensorType
<1>2. CASE /\ pc' = [pc EXCEPT ![p] = "blind"]
           /\ UNCHANGED <<sky, rx, cut, line, status, coord, why>>
  BY <1>1, <1>2, BusStep
<1>3. CASE /\ pc' = [pc EXCEPT ![p] = "reading"]
           /\ rx' = << >>
           /\ cut' \in BOOLEAN
           /\ sky' \in IF Readers = {} THEN [at : 0..8, sec : {0}] ELSE {sky}
           /\ why' = [q \in Procs |-> why[q]
                \cup (IF q \in Readers \cup {p} /\ Readers # {} THEN {"shared"} ELSE {})
                \cup (IF q = p /\ (cut' \/ sky'.at % 3 # 0) THEN {"noise"} ELSE {})]
           /\ line' = [q \in Procs |-> IF "shared" \in why'[q] THEN NoLine ELSE line[q]]
           /\ status' = [q \in Procs |-> IF "shared" \in why'[q] THEN {} ELSE status[q]]
           /\ coord' = [q \in Procs |-> IF "shared" \in why'[q] THEN NoCoord ELSE coord[q]]
  <2>1. pc'[p] = "reading" /\ \A q \in Procs \ {p} : pc'[q] = pc[q]
    BY <1>1, <1>3
  <2>2. /\ \A q \in Procs : why[q] \subseteq why'[q]
        /\ Readers # {} => \A q \in Procs : q = p \/ pc[q] = "reading" => "shared" \in why'[q]
        /\ cut' \/ sky'.at % 3 # 0 => why'[p] # {}
    BY <1>3 DEF Readers
  <2>3. \A q \in Procs :
          /\ "shared" \in why'[q] => line'[q] = NoLine /\ status'[q] = {}
          /\ "shared" \notin why'[q] =>
               line'[q] = line[q] /\ status'[q] = status[q] /\ coord'[q] = coord[q]
    BY <1>3
  <2>4. Readers = {} => Readers' = {p}
    BY <2>1 DEF Readers
  <2>5. GpsType'
    <3>1. sky' \in [at : 0 .. 8, sec : Int] /\ rx' \in Seq(Chunks)
      <4>1. sky \in [at : 0 .. 8, sec : Int]
        BY DEF GpsInv, GpsType
      <4> QED BY <1>3, <4>1
    <3>2. line' = [q \in Procs |-> line'[q]] /\ status' \in [Procs -> SUBSET Both]
      <4>1. status \in [Procs -> SUBSET Both]
        BY DEF GpsInv, GpsType
      <4> QED BY <1>3, <4>1
    <3>3. coord' = [q \in Procs |-> [time |-> coord'[q].time, date |-> coord'[q].date]]
      <4>1. NoCoord = [time |-> NoCoord.time, date |-> NoCoord.date]
        BY DEF NoCoord
      <4>2. coord = [q \in Procs |-> [time |-> coord[q].time, date |-> coord[q].date]]
        BY DEF GpsInv, GpsType
      <4> QED BY <1>3, <4>1, <4>2
    <3> QED BY <1>1, <3>1, <3>2, <3>3 DEF GpsInv, GpsType
  <2>6. ASSUME NEW q \in Procs \ {p} PROVE Fix(q)'
    <3>1. Fix(q) /\ noise \in Nat /\ noise' \in Nat /\ noise <= noise'
      BY <1>1 DEF GpsInv, GpsType
    <3>2. pc[q] # "reading" \/ "shared" \in why'[q]
      BY <2>2 DEF Readers
    <3> QED BY <2>1, <2>2, <2>3, <3>1, <3>2, FixQuiet
  <2>7. Fix(p)'
    <3>1. line[p] = NoLine /\ status[p] = {}
      BY <1>1 DEF GpsInv, Fix
    <3>2. line'[p] = NoLine /\ status'[p] = {} /\ status'[p] # Both
      BY <2>3, <3>1 DEF Both
    <3>3. CASE "shared" \in why'[p]
      BY <2>1, <3>2, <3>3 DEF Fix, Followed
    <3>4. CASE "shared" \notin why'[p]
      <4>1. Readers = {} /\ Readers' = {p}
        BY <2>2, <2>4, <3>4
      <4>2. sky' \in [at : 0 .. 8, sec : {0}] /\ rx' = << >>
        BY <1>3, <4>1
      <4>3. \E g : Track(p, g)'
        BY <2>2, <2>5, <3>2, <4>2, OpenTrack
      <4> QED BY <2>1, <3>2, <4>1, <4>3 DEF Fix
    <3> QED BY <3>3, <3>4
  <2> QED BY <2>5, <2>6, <2>7 DEF GpsInv
<1> QED BY <1>2, <1>3, Zenon DEF gps_init

-----------------------------------------------------------------------------
(* The theorems about lago -g                                              *)

LEMMA GpsInitial == Init => GpsInv
<1> SUFFICES ASSUME Init PROVE GpsInv
  OBVIOUS
<1>1. GpsType
  <2>1. << >> \in Seq(Chunks) /\ NoCoord = [time |-> NoCoord.time, date |-> NoCoord.date]
    BY DEF NoCoord
  <2> QED BY <2>1 DEF Init, GpsType
<1>2. ASSUME NEW p \in Procs PROVE Fix(p)
  BY DEF Init, Fix, Followed, Both
<1> QED BY <1>1, <1>2 DEF GpsInv

LEMMA GpsNext ==
    ASSUME SensorInv, GpsInv, [Next]_vars
    PROVE  GpsInv'
<1>1. ASSUME NEW v \in RawT \cup RawP, Converted(v) PROVE GpsInv'
  <2>1. UNCHANGED <<pc, why, line, status, coord, sky, rx, cut, noise>>
    BY <1>1 DEF Converted, proc, gps
  <2> QED BY <2>1, StillFix
<1>2. CASE Send
  BY <1>2, SendFix
<1>3. ASSUME NEW p \in Procs,
             \/ Start(p) \/ StartSensor(p) \/ gps_init(p) \/ signal_handler(p)
             \/ CommandTemperature(p) \/ ReadTemperature(p)
             \/ CommandPressure(p) \/ ReadPressureMsb(p) \/ ReadPressureLsb(p)
             \/ ReadPressureXlsb(p)
             \/ Report(p) \/ NextFunction(p)
             \/ rp_UartReadln(p) \/ ReadShared(p)
      PROVE  GpsInv'
  <2>1. CASE Start(p) \/ gps_init(p)
    BY <2>1, StartFix, GpsInitFix
  <2>2. CASE rp_UartReadln(p) \/ ReadShared(p)
    BY <2>2, ReadFix, SharedFix
  <2> QED BY <1>3, <2>1, <2>2, BusSteps
<1>4. CASE UNCHANGED vars
  <2>1. UNCHANGED <<pc, why, line, status, coord, sky, rx, cut, noise>>
    BY <1>4 DEF vars, proc, gps
  <2> QED BY <2>1, StillFix
<1> QED BY <1>1, <1>2, <1>3, <1>4 DEF Next

\* Wherever noise loses or damages chunks, and however long the queue: between the chunks
\* that a process which reads alone has still to read there are points of the receiver's
\* stream, from the one its line and its fields are at to the one the receiver is at.
THEOREM GpsInvariant == Spec => []GpsInv
<1>1. SensorInv /\ GpsInv /\ [Next]_vars => (SensorInv /\ GpsInv)'
  BY GpsNext, SensorNext
<1> QED BY <1>1, SensorInit, GpsInitial, PTL DEF Spec

\* For any number of invocations, any noise and any length of the queue: a position that
\* is printed is made of intact sentences whose seconds differ by no more than what was
\* lost, unless the port was shared or a newline was lost; and lago -g crashes only if
\* something was lost, cut or shared.
THEOREM FixIsIntact == Spec => []FixIntact
<1>1. GpsInv => FixIntact
  <2> SUFFICES ASSUME GpsInv, NEW p \in Procs
               PROVE  /\ pc[p] = "crash" => why[p] # {}
                      /\ Cardinality(status[p]) = 2 /\ why[p] \cap {"shared", "newline"} = {} =>
                           Close(coord[p])
    BY Zenon DEF FixIntact, Close
  <2>1. Fix(p) /\ (Cardinality(status[p]) = 2 <=> status[p] = Both)
    BY Pair DEF GpsInv, GpsType
  <2> QED BY <2>1 DEF Fix
<1> QED BY <1>1, GpsInvariant, PTL
=============================================================================
