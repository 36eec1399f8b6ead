------------------------------ MODULE LagoCommon ------------------------------
(***************************************************************************)
(* What the releases of the acquisition program have in common: the steps  *)
(* a program is made of, and the parts of the command line that are        *)
(* scanned alike.  A program is a sequence of steps; a step names the      *)
(* devices it touches, without which the process dies, and its argument.   *)
(* A command line is the sequence of its words after the program's name,   *)
(* with numbers as numbers.                                                *)
(***************************************************************************)
EXTENDS Integers, Sequences

Step(op, needs, arg) == <<[op |-> op, needs |-> needs, arg |-> arg]>>

\* reg_val = dev_read(cfg_ptr, ...); dev_write(cfg_ptr, ..., reg_val | b)
SetBit(b)   == Step("get", {"cfg"}, {}) \o Step("set", {"cfg"}, b)
ClearBit(b) == Step("get", {"cfg"}, {}) \o Step("clear", {"cfg"}, b)

\* plain writes of registers, in a function from register to value, and such a function
\* for one register
Write(f) == Step("write", {"cfg"}, f)

Value(reg, val) == [r \in {reg} |-> val]

\* registers of a device are read and printed
Show(dev) == Step("show", {dev}, {})

\* the write of one register: of the configuration block or the interrupt
\* controller's enable register; the other blocks have none that can be written
WriteReg(dev, reg, val) ==
  CASE dev = "cfg"  -> Write(Value(reg, val))
    [] dev = "intc" -> Step("irq", {"intc"}, val = 1)
    [] OTHER        -> Show(dev)

\* y = a * x + b with the calibrations of the two gains, x a DAC count, y in
\* units of 0.1 uV: the voltage a count stands for
Gain145(dac) == 382 * dac + (61 * dac) \div 1000 + 41144
Gain32(dac)  == 882 * dac + 77352

Nothing == << >>

-----------------------------------------------------------------------------
(* Scanning the command line: what becomes of the invocation, and of what  *)
(* it was told.  A word that is not there is NULL, and copying it a crash. *)

Run(what, dev, reg, val) == [what |-> what, dev |-> dev, reg |-> reg, val |-> val]

Outcome(what) == Run(what, "none", "none", 0)

Usage == Outcome("usage")      \* show_usage(), return 1
Crash == Outcome("crash")
Error == Outcome("error")      \* exit(1)

\* -s: the registers by the names of the command line
SettableRegister ==
  [t1 |-> "TRLVL_1", t2 |-> "TRLVL_2", st1 |-> "STRLVL_1", st2 |-> "STRLVL_2",
   hv1 |-> "HV1", hv2 |-> "HV2", ov1 |-> "HV1", ov2 |-> "HV2", ov3 |-> "HV3", ov4 |-> "HV4",
   sc1 |-> "TR_SCAL_A", sc2 |-> "TR_SCAL_B"]

Voltages == {"hv1", "hv2", "ov1", "ov2", "ov3", "ov4"}

CfgRegisters == {SettableRegister[n] : n \in DOMAIN SettableRegister} \cup {"NSAMPLES"}

\* -r and -w: device, register, and for -w the value
ScanAccess(argv) ==
  IF Len(argv) < 2 THEN Crash
  ELSE IF argv[2] \notin {"intc", "cfg", "sts", "xadc"} THEN Usage
  ELSE IF Len(argv) < (IF argv[1] = "-w" THEN 4 ELSE 3) THEN Crash
  ELSE IF argv[1] = "-r" THEN Run("read", argv[2], argv[3], 0)
  ELSE Run("write", argv[2], argv[3], argv[4])

ScanSet(argv) ==
  IF Len(argv) < 2 THEN Crash
  ELSE IF argv[2] \notin DOMAIN SettableRegister THEN Usage
  ELSE IF Len(argv) < 3 THEN Crash
  ELSE IF argv[2] \in Voltages
       THEN IF argv[3] > 2500 THEN Error ELSE Run("voltage", "cfg", SettableRegister[argv[2]], argv[3])
  ELSE Run("set", "cfg", SettableRegister[argv[2]], argv[3])

\* actions that take no further word
Simple == [o \in {"-a", "-o", "-t", "-g", "-i", "-x"} |->
             CASE o = "-a" -> "status"   [] o = "-o" -> "acquire" [] o = "-t" -> "pressure"
               [] o = "-g" -> "gps"      [] o = "-i" -> "init"    [] o = "-x" -> "xadc"]
=============================================================================
