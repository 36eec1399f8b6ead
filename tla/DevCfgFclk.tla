----------------------------- MODULE DevCfgFclk -----------------------------
(***************************************************************************)
(* patches/xilinx_devcfg.c: probe and remove of the driver, and the sysfs  *)
(* files fclk_export, fclk_unexport and (one per exported clock) enable,   *)
(* set_rate and round_rate, through which threads hand out the clocks of   *)
(* the programmable logic.  None of these calls takes a lock: a call is a  *)
(* sequence of steps and a thread is at place[t] with the clock clkof[t].  *)
(* A NULL or freed pointer that is followed is recorded in oops.           *)
(***************************************************************************)
EXTENDS Integers, Sequences, FiniteSets, SequencesExt

CONSTANTS
  Writers,     \* threads that write to the sysfs files
  Fclks,       \* the clocks
  MaxCalls,    \* bound: calls
  MaxFaults    \* bound: calls into the kernel that fail

ASSUME FclkAssumption == IsFiniteSet(Writers) /\ MaxCalls \in Nat /\ MaxFaults \in Nat

VARIABLES
  place, clkof,          \* the threads
  driver,                \* "unbound", "bound" or "removing"
  res,                   \* what probe holds
  fclk_exported,         \* drvdata->fclk_exported
  devs,                  \* the devices of fclk_class, in the order of their creation
  fdata,                 \* the drvdata of a clock's device: "null", "live" or "freed"
  enabled,               \* pdata->enabled
  prepared, running,     \* the counts of clk_prepare and clk_enable
  oops, ops, faults,
  excused                \* history: what the properties make an exception for

clocks == <<fclk_exported, devs, fdata, enabled, prepared, running>>
fclk_vars == <<place, clkof, driver, res, clocks, oops, ops, faults, excused>>

Everything == {"ref_clk", "region", "cdev", "class", "device", "attrs"}
FclkFiles  == {"fclks", "fclk_class", "fclk_attrs"}

-----------------------------------------------------------------------------
(* probe and remove                                                        *)

\* xdevcfg_fclk_init: what it leaves when the named step fails
xdevcfg_fclk_init(failing) ==
  CASE failing = "fclks"      -> {}
    [] failing = "fclk_class" -> {"fclks"}
    [] failing = "fclk_attrs" -> {"fclks", "fclk_class"}
    [] OTHER                  -> FclkFiles

\* what is held after probe, and whether it returned 0, when the named step fails:
\* the labels failed5 to failed8 undo the steps before it, but after class and device
\* retval is still the 0 of cdev_add, and cdev is not deleted
Probed(failing) ==
  CASE failing \in {"ref_clk", "region", "cdev", "attrs"} -> [held |-> {}, ok |-> FALSE]
    [] failing \in {"class", "device"} -> [held |-> {"cdev"}, ok |-> TRUE]
    [] OTHER -> [held |-> Everything \cup xdevcfg_fclk_init(failing), ok |-> TRUE]

Fail(n) == faults + n <= MaxFaults /\ faults' = faults + n

xdevcfg_drv_probe(failing) ==
  /\ driver = "unbound" /\ oops = FALSE /\ ops < MaxCalls
  /\ Fail(IF failing = "none" THEN 0 ELSE 1)
  /\ ops' = ops + 1
  /\ res' = res \cup Probed(failing).held
  /\ driver' = IF Probed(failing).ok THEN "bound" ELSE "unbound"
  /\ fclk_exported' = [i \in Fclks |-> FALSE]
  /\ excused' = excused \cup (IF failing \in {"class", "device"} THEN {"probe"} ELSE {})
  /\ UNCHANGED <<place, clkof, devs, fdata, enabled, prepared, running, oops>>

\* class_find_device with match_fclk: the walk ends at the clock's device; a device
\* without drvdata on the way, or no device at all, is a NULL pointer
Found(i) ==
  /\ i \in ToSet(devs)
  /\ \A k \in 1..Len(devs) :
       (\A l \in 1..k - 1 : devs[l] # i) => fdata[devs[k]] = "live"

\* an enabled clock is disabled, and the clock unprepared
Dropped(i) ==
  /\ running' = [running EXCEPT ![i] = @ - (IF enabled[i] THEN 1 ELSE 0)]
  /\ prepared' = [prepared EXCEPT ![i] = @ - 1]
  /\ enabled' = [enabled EXCEPT ![i] = FALSE]

\* xdevcfg_drv_remove up to the loop of xdevcfg_fclk_remove
xdevcfg_drv_remove ==
  /\ driver = "bound" /\ oops = FALSE /\ ops < MaxCalls
  /\ ops' = ops + 1
  /\ driver' = "removing"
  /\ oops' = ~(Everything \ {"ref_clk"} \subseteq res)
  /\ res' = res \ {"region", "attrs"}
  /\ excused' = excused \cup (IF \E t \in Writers : place[t] # "idle" THEN {"race"} ELSE {})
  /\ UNCHANGED <<place, clkof, clocks, faults>>

\* one turn of the loop of xdevcfg_fclk_remove
xdevcfg_fclk_remove(i) ==
  /\ driver = "removing" /\ oops = FALSE /\ fclk_exported[i]
  /\ fclk_exported' = [fclk_exported EXCEPT ![i] = FALSE]
  /\ IF Found(i)
     THEN /\ Dropped(i)
          /\ fdata' = [fdata EXCEPT ![i] = "null"]
          /\ devs' = RemoveFirst(devs, i)
          /\ UNCHANGED oops
     ELSE oops' = TRUE /\ UNCHANGED <<devs, fdata, enabled, prepared, running>>
  /\ UNCHANGED <<place, clkof, driver, res, ops, faults, excused>>

\* the rest of remove: fclk_class and its files (which waits for calls on them), the
\* device, the class, cdev and the reference clock; the clocks are not put
RemoveRest ==
  /\ driver = "removing" /\ oops = FALSE /\ \A i \in Fclks : ~fclk_exported[i]
  /\ \A t \in Writers : place[t] = "idle"
  /\ driver' = "unbound"
  /\ res' = res \cap {"fclks"}
  /\ UNCHANGED <<place, clkof, clocks, oops, ops, faults, excused>>

-----------------------------------------------------------------------------
(* The sysfs files.                                                        *)

Goto(t, at) == place' = [place EXCEPT ![t] = at]

FclkReturn(t) == place' = [place EXCEPT ![t] = "idle"] /\ UNCHANGED clkof

\* a call on a clock begins; excused notes that remove, a call on the same clock, or
\* another export or unexport, which walk the same class, is under way
Begin(t, i, at) ==
  /\ place[t] = "idle" /\ oops = FALSE /\ ops < MaxCalls
  /\ place' = [place EXCEPT ![t] = at]
  /\ clkof' = [clkof EXCEPT ![t] = i]
  /\ ops' = ops + 1
  /\ excused' = excused \cup
       (IF driver = "removing" \/ \E u \in Writers : place[u] # "idle" /\ (clkof[u] = i
             \/ {at, place[u]} \cap {"enable", "disable", "rate"} = {}) THEN {"race"} ELSE {})
  /\ UNCHANGED <<driver, res, clocks, oops, faults>>

BeginExport(t, i) == "fclk_attrs" \in res /\ ~fclk_exported[i] /\ Begin(t, i, "export")

BeginUnexport(t, i) == "fclk_attrs" \in res /\ fclk_exported[i] /\ Begin(t, i, "unexport")

\* xdevcfg_fclk_export_store: the flag is set, then the device created, and the flag
\* stays set if that fails (two devices of one name do not exist)
xdevcfg_fclk_export_flag(t) ==
  /\ place[t] = "export"
  /\ fclk_exported' = [fclk_exported EXCEPT ![clkof[t]] = TRUE]
  /\ Goto(t, "create")
  /\ UNCHANGED <<clkof, driver, res, devs, fdata, enabled, prepared, running, oops, ops,
                 faults, excused>>

xdevcfg_fclk_export_create(t) ==
  /\ place[t] = "create"
  /\ \/ /\ clkof[t] \notin ToSet(devs)
        /\ devs' = Append(devs, clkof[t])
        /\ fdata' = [fdata EXCEPT ![clkof[t]] = "null"]
        /\ Goto(t, "prepare")
        /\ UNCHANGED <<clkof, faults, excused>>
     \/ /\ Fail(IF clkof[t] \in ToSet(devs) THEN 0 ELSE 1)
        /\ FclkReturn(t)
        /\ excused' = excused \cup {"export"}
        /\ UNCHANGED <<devs, fdata>>
  /\ UNCHANGED <<driver, res, fclk_exported, enabled, prepared, running, oops, ops>>

\* ... clk_prepare, the allocation and the group of files; err_free and err_unprepare
\* leave the device, with a freed pointer or none
xdevcfg_fclk_export_finish(t) ==
  /\ place[t] = "prepare"
  /\ LET i == clkof[t]
     IN  \/ /\ prepared' = [prepared EXCEPT ![i] = @ + 1]
            /\ fdata' = [fdata EXCEPT ![i] = "live"]
            /\ enabled' = [enabled EXCEPT ![i] = FALSE]
            /\ UNCHANGED <<faults, excused>>
         \/ /\ Fail(1)
            /\ fdata' \in {fdata, [fdata EXCEPT ![i] = "freed"]}
            /\ excused' = excused \cup {"export"}
            /\ UNCHANGED <<prepared, enabled>>
  /\ FclkReturn(t)
  /\ UNCHANGED <<driver, res, fclk_exported, devs, running, oops, ops>>

\* mutant of xdevcfg_fclk_unexport_find: the flag stays set
MutUnexport(t) ==
  /\ place[t] = "unexport"
  /\ oops' = ~Found(clkof[t])
  /\ Goto(t, "drop")
  /\ UNCHANGED <<clkof, driver, res, clocks, ops, faults, excused>>

\* xdevcfg_fclk_unexport_store: the flag is cleared and the device looked up ...
xdevcfg_fclk_unexport_find(t) ==
  /\ place[t] = "unexport"
  /\ fclk_exported' = [fclk_exported EXCEPT ![clkof[t]] = FALSE]
  /\ oops' = ~Found(clkof[t])
  /\ Goto(t, "drop")
  /\ UNCHANGED <<clkof, driver, res, devs, fdata, enabled, prepared, running, ops,
                 faults, excused>>

\* ... its clock disabled and unprepared and its data freed ...
xdevcfg_fclk_unexport_drop(t) ==
  /\ place[t] = "drop"
  /\ Dropped(clkof[t])
  /\ fdata' = [fdata EXCEPT ![clkof[t]] = "freed"]
  /\ Goto(t, "unregister")
  /\ UNCHANGED <<clkof, driver, res, fclk_exported, devs, oops, ops, faults, excused>>

\* ... and the device unregistered, which waits for calls on its files
xdevcfg_fclk_unexport_unregister(t) ==
  /\ place[t] = "unregister"
  /\ \A u \in Writers : clkof[u] = clkof[t] => place[u] \notin {"enable", "disable", "rate"}
  /\ devs' = RemoveFirst(devs, clkof[t])
  /\ fdata' = [fdata EXCEPT ![clkof[t]] = "null"]
  /\ FclkReturn(t)
  /\ UNCHANGED <<driver, res, fclk_exported, enabled, prepared, running, oops, ops,
                 faults, excused>>

\* fclk_enable_store: nothing to do if the value is the present one
BeginEnable(t, i, v) ==
  /\ i \in ToSet(devs) /\ fdata[i] # "null" /\ enabled[i] # v
  /\ Begin(t, i, IF v THEN "enable" ELSE "disable")

fclk_enable_store(t) ==
  /\ place[t] \in {"enable", "disable"}
  /\ oops' = (fdata[clkof[t]] # "live")
  /\ LET on == place[t] = "enable"
     IN  \/ /\ running' = [running EXCEPT ![clkof[t]] = @ + (IF on THEN 1 ELSE -1)]
            /\ enabled' = [enabled EXCEPT ![clkof[t]] = on]
            /\ UNCHANGED faults
         \/ on /\ Fail(1) /\ UNCHANGED <<running, enabled>>
  /\ FclkReturn(t)
  /\ UNCHANGED <<driver, res, fclk_exported, devs, fdata, prepared, ops, excused>>

\* the files set_rate and round_rate, written or read, and enable, read: a clock's rate
\* is not distinguished, but each call follows the device's data
BeginRate(t, i) == i \in ToSet(devs) /\ fdata[i] # "null" /\ Begin(t, i, "rate")

fclk_rate(t) ==
  /\ place[t] = "rate"
  /\ oops' = (fdata[clkof[t]] # "live")
  /\ FclkReturn(t)
  /\ UNCHANGED <<driver, res, clocks, ops, faults, excused>>

-----------------------------------------------------------------------------
FclkInit ==
  /\ place = [t \in Writers |-> "idle"]
  /\ clkof \in [Writers -> {CHOOSE i \in Fclks : TRUE}]
  /\ driver = "unbound" /\ res = {}
  /\ fclk_exported = [i \in Fclks |-> FALSE]
  /\ devs = <<>> /\ fdata = [i \in Fclks |-> "null"]
  /\ enabled = [i \in Fclks |-> FALSE]
  /\ prepared = [i \in Fclks |-> 0] /\ running = [i \in Fclks |-> 0]
  /\ oops = FALSE /\ ops = 0 /\ faults = 0 /\ excused = {}

\* the next step of a call
FclkStep(t) ==
  /\ ~oops
  /\ \/ xdevcfg_fclk_export_flag(t) \/ xdevcfg_fclk_export_create(t)
     \/ xdevcfg_fclk_export_finish(t)
     \/ xdevcfg_fclk_unexport_find(t) \/ xdevcfg_fclk_unexport_drop(t)
     \/ xdevcfg_fclk_unexport_unregister(t)
     \/ fclk_enable_store(t) \/ fclk_rate(t)

FclkNext ==
  \/ \E failing \in {"none"} \cup Everything \cup FclkFiles : xdevcfg_drv_probe(failing)
  \/ xdevcfg_drv_remove
  \/ \E i \in Fclks : xdevcfg_fclk_remove(i)
  \/ RemoveRest
  \/ \E t \in Writers, i \in Fclks :
       BeginExport(t, i) \/ BeginUnexport(t, i) \/ BeginRate(t, i)
       \/ \E v \in BOOLEAN : BeginEnable(t, i, v)
  \/ \E t \in Writers : FclkStep(t)

FclkSpec == FclkInit /\ [][FclkNext]_fclk_vars

-----------------------------------------------------------------------------
\* A clock about which no call is under way.
Quiet(i) == \A t \in Writers : place[t] = "idle" \/ clkof[t] # i

\* Unless probe had returned 0 without its class or device, an export had failed half
\* way (the flag stays set), or calls on one clock, two exports or unexports, or a call
\* and remove overlapped: no call follows a NULL or freed pointer, and the clocks are
\* balanced: an exported clock is prepared once and runs as its enable file says, any
\* other clock is neither; and a driver that is not bound holds nothing but the
\* references to the clocks, which are never put.
Balanced ==
  \/ excused # {}
  \/ /\ ~oops
     /\ \A i \in Fclks : Quiet(i) =>
          /\ prepared[i] = (IF fclk_exported[i] THEN 1 ELSE 0)
          /\ running[i] = (IF fclk_exported[i] /\ enabled[i] THEN 1 ELSE 0)
     /\ driver = "unbound" => res \subseteq {"fclks"} /\ devs = <<>>
=============================================================================
