------------------------------ MODULE Lago_v1_0 ------------------------------
(***************************************************************************)
(* projects/lago_v1_0/src: main(), parse_param() and zynq_io.c as programs *)
(* of the steps of LagoCommon.  This release writes to a fixed address of  *)
(* the memory, which it maps through /dev/mem.                             *)
(***************************************************************************)
EXTENDS LagoCommon

intc_init == {"intc"}

cfg_init == {"cfg"}

sts_init == {"sts"}

xadc_init == {"xadc"}

\* /dev/mem at 0x1E000000
mem_init == {"buffer"}

rd_reg_value(dev) == Show(dev)

wr_reg_value(dev, reg, val) == WriteReg(dev, reg, val)

\* what -a reports of the configuration bits and of the register of a voltage
rd_cfg_status(cfg, hv) ==
  [gps |-> "fgps" \notin cfg, master |-> "b5" \in cfg, voltage |-> Gain32(hv)]

\* (uint32_t)(value - 4.11435)/0.0382061; the conversion of a negative number
\* saturates at 0
set_voltage(reg, value) ==
  Write(Value(reg, IF value < 5 THEN 0 ELSE ((value - 5) * 26174) \div 1000))

init_system ==
  Write([TRLVL_1 |-> 8190, TRLVL_2 |-> 8190, STRLVL_1 |-> 8190, STRLVL_2 |-> 8190, HV1 |-> 0, HV2 |-> 0])
  \o ClearBit("ramp") \o ClearBit("trg") \o ClearBit("wr") \o ClearBit("tlast")
  \o Write([NSAMPLES |-> 1048576, TR_SCAL_A |-> 1, TR_SCAL_B |-> 1])
  \o SetBit("fgps") \o SetBit("ramp")

\* the settings that the head of a data file states
new_file(r) ==
  [TRLVL_1 |-> r["TRLVL_1"], TRLVL_2 |-> r["TRLVL_2"], HV1 |-> Gain145(r["HV1"]), HV2 |-> Gain145(r["HV2"]),
   TR_SCAL_A |-> r["TR_SCAL_A"], TR_SCAL_B |-> r["TR_SCAL_B"]]

enable_interrupt == Step("irq", {"intc"}, TRUE)

parse_access(argv) == ScanAccess(argv)

parse_set(argv) == ScanSet(argv)

parse_file(argv) == IF Len(argv) < 2 THEN Usage ELSE Outcome("acquire")

parse_param(argv) ==
  IF Len(argv) < 1 THEN Usage
  ELSE IF argv[1] \in {"-r", "-w"} THEN parse_access(argv)
  ELSE IF argv[1] = "-s" THEN parse_set(argv)
  ELSE IF argv[1] = "-f" THEN parse_file(argv)
  ELSE IF argv[1] \in DOMAIN Simple THEN Outcome(Simple[argv[1]])
  ELSE Usage                                              \* -v among them

\* main() up to the first-access test
open_devices ==
  Step("map", {}, mem_init \cup intc_init \cup cfg_init \cup sts_init \cup xadc_init)

first_access == Step("first", {"cfg"}, init_system \o enable_interrupt)
  \o Step("handler", {}, {})

acquire ==
  SetBit("tlast") \o SetBit("trg") \o SetBit("wr")
  \o Step("loop", {"intc", "sts", "xadc", "buffer"}, {})
  \o ClearBit("trg") \o ClearBit("wr") \o ClearBit("tlast")

show_sensors(what) ==
  CASE what = "status"   -> Show("cfg")
    [] what = "pressure" -> Nothing                     \* the BMP180 is on I2C
    [] what = "gps"      -> Show("cfg")
    [] what = "xadc"     -> Show("xadc")

settings(c) ==
  CASE c.what = "read"    -> rd_reg_value(c.dev)
    [] c.what = "write"   -> wr_reg_value(c.dev, c.reg, c.val)
    [] c.what = "set"     -> wr_reg_value(c.dev, c.reg, c.val)
    [] c.what = "voltage" -> set_voltage(c.reg, c.val)

\* munmap and close; the process ends
close_devices == Step("end", {}, {})

main(c) ==
  open_devices \o first_access
  \o (IF c.what \in {"read", "write", "set", "voltage"} THEN settings(c)
      ELSE IF c.what = "init" THEN init_system
      ELSE IF c.what = "acquire" THEN acquire
      ELSE show_sensors(c.what))
  \o close_devices
=============================================================================
