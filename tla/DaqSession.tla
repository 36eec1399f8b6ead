----------------------------- MODULE DaqSession -----------------------------
(***************************************************************************)
(* Invocations of the acquisition program, of the release the board was    *)
(* built for, and the state of the FPGA and of the /dev/cma driver that    *)
(* survives them: the bits of the general configuration register, the      *)
(* settings, the limits of the histograms, the address the memory writer   *)
(* writes to, the interrupt enable and the one buffer the driver owns.     *)
(*                                                                         *)
(* An invocation executes the steps its release's main() makes of its      *)
(* command line.  Two of them may overlap: a bit is changed by a read and  *)
(* a write of the register, with anything in between.  An invocation may   *)
(* be killed between any two steps; SIGINT kills it too until main()       *)
(* installs its handler.  A device that cannot be mapped kills it at the   *)
(* first access.                                                           *)
(***************************************************************************)
EXTENDS LagoCommon, FiniteSets

CONSTANTS
  Procs,      \* invocations that can be under way at once
  Releases,   \* releases that are checked
  Commands,   \* command lines
  Beside,     \* those of them that are tried while another invocation runs
  Addrs,      \* physical addresses the driver may allocate
  None,       \* no buffer
  Fixed,      \* the address lago_v1_0 is built for
  Stray,      \* the size of the buffer, taken for its address
  MaxStarts,  \* bound: invocations
  MaxFaults   \* bound: invocations killed, devices that cannot be mapped,
              \* allocations that fail, and invocations started beside another

ASSUME SessionAssumption ==
  /\ Releases \subseteq {"v1_0", "v1_2", "v1_3", "v1_5"}
  /\ {None, Fixed, Stray} \cap Addrs = {} /\ Cardinality({None, Fixed, Stray}) = 3
  /\ Beside \subseteq Commands
  \* numbers are numbers, and -w writes settings, not the registers the program
  \* itself uses
  /\ \A argv \in Commands :
       /\ Len(argv) >= 3 /\ argv[1] = "-s" => argv[3] \in Int
       /\ Len(argv) >= 2 /\ argv[1] = "-m" => argv[2] \in Int
       /\ Len(argv) >= 4 /\ argv[1] = "-w" /\ argv[2] = "cfg" => argv[3] \in CfgRegisters
  /\ MaxStarts \in Nat /\ MaxFaults \in Nat

V10 == INSTANCE Lago_v1_0
V12 == INSTANCE Lago_v1_2
V13 == INSTANCE Lago_v1_3
V15 == INSTANCE Lago_v1_5

VARIABLES
  release,
  cfg,        \* bits of CFG_RESET_GRAL that are set
  regs,       \* the settings
  hst,        \* bits of the limit registers of the histograms
  wraddr,     \* where the writer writes
  ier,        \* the interrupt controller passes the PPS interrupt
  buf,        \* the buffer of the driver
  cmd,        \* what the invocation was told
  todo,       \* its remaining steps, << >> when there is none
  dev,        \* what it has mapped: devices, and the driver's file
  map,        \* the buffer it has mapped
  got,        \* the register value it has read
  left,       \* history: bits that nobody may have been able to put back
  alone,      \* history: the invocation has met no other
  cut,        \* history: an initialisation was killed, or met another invocation, or -w
              \* has switched the interrupt off
  want,       \* history: the settings the operator has asked for last
  starts, faults

board   == <<cfg, regs, hst, wraddr, ier>>
process == <<cmd, todo, dev, map, got>>
history == <<left, alone, cut, want>>
vars == <<release, board, buf, process, history, starts, faults>>

RunBits == {"trg", "tlast", "wr"}                       \* 1, 2, 4

\* the bits of a limit register
Bin(n) == {b \in {1, 2} : (n \div b) % 2 = 1}

parse_param(argv) ==
  CASE release = "v1_0" -> V10!parse_param(argv)
    [] release = "v1_2" -> V12!parse_param(argv)
    [] release = "v1_3" -> V13!parse_param(argv)
    [] release = "v1_5" -> V15!parse_param(argv)

main(c) ==
  CASE release = "v1_0" -> V10!main(c)
    [] release = "v1_2" -> V12!main(c)
    [] release = "v1_3" -> V13!main(c)
    [] release = "v1_5" -> V15!main(c)

rd_cfg_status(hv) ==
  CASE release = "v1_0" -> V10!rd_cfg_status(cfg, hv)
    [] release = "v1_2" -> V12!rd_cfg_status(cfg, hv)
    [] release = "v1_3" -> V13!rd_cfg_status(cfg, hv)
    [] release = "v1_5" -> V15!rd_cfg_status(cfg, hv)

new_file ==
  CASE release = "v1_0" -> V10!new_file(regs)
    [] release = "v1_2" -> V12!new_file(regs)
    [] release = "v1_3" -> V13!new_file(regs)
    [] release = "v1_5" -> V15!new_file(regs)

\* the bits init_system() sets
InitBits == {"fgps", "ramp"} \cup (CASE release = "v1_0" -> {}
                                   [] release = "v1_5" -> {"b11"}
                                   [] OTHER -> {"b5"})

Running == {p \in Procs : todo[p] # << >>}

\* After the FPGA has been loaded.
Init ==
  /\ release \in Releases
  /\ cfg = {} /\ regs = [r \in CfgRegisters |-> 0] /\ hst = [h \in {"HST0", "HST1"} |-> {}]
  /\ wraddr = (IF release = "v1_0" THEN Fixed ELSE None)
  /\ ier = FALSE /\ buf = None
  /\ cmd = [p \in Procs |-> Outcome("none")] /\ todo = [p \in Procs |-> << >>]
  /\ dev = [p \in Procs |-> {}] /\ map = [p \in Procs |-> None] /\ got = [p \in Procs |-> {}]
  /\ left = {} /\ alone = [p \in Procs |-> FALSE] /\ cut = {}
  /\ want = [r \in {} |-> 0]
  /\ starts = 0 /\ faults = 0

-----------------------------------------------------------------------------
(* Invocations                                                             *)

Start(p, argv) ==
  /\ p \notin Running /\ starts < MaxStarts
  /\ \/ Running = {} /\ UNCHANGED faults
     \/ Running # {} /\ argv \in Beside /\ faults < MaxFaults /\ faults' = faults + 1
  /\ LET c == parse_param(argv)
     IN  IF c.what \in {"usage", "crash", "error"}
         THEN UNCHANGED <<cmd, todo, alone, cut>>
         ELSE /\ cmd' = [cmd EXCEPT ![p] = c]
              /\ todo' = [todo EXCEPT ![p] = main(c)]
              /\ alone' = [q \in Procs |-> q = p /\ Running = {}]
              /\ cut' = IF /\ Running # {}
                           /\ \/ c.what = "init" \/ \E q \in Running : cmd[q].what = "init"
                              \/ ~(InitBits \subseteq cfg /\ ier)
                        THEN cut \cup {"met"} ELSE cut
  /\ starts' = starts + 1
  /\ UNCHANGED <<release, board, buf, dev, map, got, left, want>>

\* the step that p takes, and what it needs for it
At(p, op) == todo[p] # << >> /\ Head(todo[p]).op = op /\ Head(todo[p]).needs \subseteq dev[p]

Arg(p) == Head(todo[p]).arg

Goes(p) == todo' = [todo EXCEPT ![p] = Tail(@)]

\* intc_init() and the others: open and mmap, or fail and go on without; the
\* buffer of lago_v1_0 is one of these devices
MapDevices(p) ==
  /\ At(p, "map")
  /\ Goes(p)
  /\ \/ dev' = [dev EXCEPT ![p] = Arg(p)] /\ UNCHANGED faults
     \/ /\ faults < MaxFaults /\ faults' = faults + 1
        /\ \E d \in Arg(p) : dev' = [dev EXCEPT ![p] = Arg(p) \ {d}]
  /\ map' = [map EXCEPT ![p] = IF "buffer" \in dev'[p] THEN Fixed ELSE None]
  /\ UNCHANGED <<release, board, buf, cmd, got, history, starts>>

\* CMA_ALLOC: the driver frees its buffer, whoever uses it, and allocates another
cma_ioctl(p, a) ==
  /\ At(p, "alloc")
  /\ Goes(p)
  /\ buf' = a
  /\ map' = [map EXCEPT ![p] = a]
  /\ dev' = [dev EXCEPT ![p] = @ \cup {"cma", "buffer"}]
  /\ UNCHANGED <<release, board, cmd, got, history, starts, faults>>

\* the same without memory for it; main() ignores the error
cma_ioctl_fails(p) ==
  /\ At(p, "alloc") /\ faults < MaxFaults
  /\ Goes(p)
  /\ buf' = None
  /\ dev' = [dev EXCEPT ![p] = @ \cup {"cma"}]
  /\ faults' = faults + 1
  /\ UNCHANGED <<release, board, cmd, map, got, history, starts>>

\* dev_size, which is still the size if there was no memory
MutAddress(p) == IF cfg # {} THEN wraddr ELSE IF map[p] = None THEN Stray ELSE map[p]

Address(p) == IF map[p] = None THEN Stray ELSE map[p]

WriteAddress(p) ==
  /\ At(p, "addr")
  /\ Goes(p)
  /\ wraddr' = Address(p)
  /\ UNCHANGED <<release, cfg, regs, hst, ier, buf, cmd, dev, map, got, history, starts, faults>>

\* dev_read(cfg_ptr, CFG_RESET_GRAL_OFFSET) == 0: the first access to the FPGA
MutFirst == cfg \cap RunBits = {}

First == cfg = {}

FirstAccess(p) ==
  /\ At(p, "first")
  /\ todo' = [todo EXCEPT ![p] = (IF First THEN Arg(p) ELSE << >>) \o Tail(@)]
  /\ UNCHANGED <<release, board, buf, cmd, dev, map, got, history, starts, faults>>

ReadGral(p) ==
  /\ At(p, "get")
  /\ Goes(p)
  /\ got' = [got EXCEPT ![p] = cfg]
  /\ UNCHANGED <<release, board, buf, cmd, dev, map, history, starts, faults>>

WriteGral(p) ==
  /\ \/ At(p, "set") /\ cfg' = got[p] \cup {Arg(p)} /\ UNCHANGED left
     \/ At(p, "clear") /\ cfg' = got[p] \ {Arg(p)} /\ left' = left \ {Arg(p)}
  /\ Goes(p)
  /\ got' = [got EXCEPT ![p] = {}]
  /\ UNCHANGED <<release, regs, hst, wraddr, ier, buf, cmd, dev, map, alone, cut, want,
                 starts, faults>>

Override(f, g) == [r \in DOMAIN f \cup DOMAIN g |-> IF r \in DOMAIN g THEN g[r] ELSE f[r]]

\* -s asks for a value; -w, -i and an overlapping write end the claim
WriteRegs(p) ==
  /\ At(p, "write")
  /\ Goes(p)
  /\ regs' = Override(regs, Arg(p))
  /\ want' = IF alone[p] /\ DOMAIN Arg(p) = {cmd[p].reg} /\ cmd[p].what # "write"
             THEN Override(want, Value(cmd[p].reg, cmd[p].val))
             ELSE IF alone[p] /\ cmd[p].what \notin {"init", "write"} THEN want
             ELSE [r \in DOMAIN want \ DOMAIN Arg(p) |-> want[r]]
  /\ UNCHANGED <<release, cfg, hst, wraddr, ier, buf, cmd, dev, map, got, left, alone, cut,
                 starts, faults>>

ReadLimit(p) ==
  /\ At(p, "hget")
  /\ Goes(p)
  /\ got' = [got EXCEPT ![p] = hst[Arg(p)]]
  /\ UNCHANGED <<release, board, buf, cmd, dev, map, history, starts, faults>>

Limit(p) == got[p] \cup Bin(Arg(p).n)

WriteLimit(p) ==
  /\ At(p, "hput")
  /\ Goes(p)
  /\ hst' = [hst EXCEPT ![Arg(p).reg] = Limit(p)]
  /\ got' = [got EXCEPT ![p] = {}]
  /\ UNCHANGED <<release, cfg, regs, wraddr, ier, buf, cmd, dev, map, history, starts, faults>>

\* the histogram's position reaches the number that is waited for while the core
\* is out of reset; a number below 1 is not waited for
Poll(p) ==
  /\ At(p, "poll")
  /\ Arg(p) <= 0 \/ "b5" \in cfg
  /\ Goes(p)
  /\ UNCHANGED <<release, board, buf, cmd, dev, map, got, history, starts, faults>>

EnableInterrupt(p) ==
  /\ At(p, "irq")
  /\ Goes(p)
  /\ ier' = Arg(p)
  /\ cut' = IF Arg(p) THEN cut ELSE cut \cup {"off"}
  /\ UNCHANGED <<release, cfg, regs, hst, wraddr, buf, cmd, dev, map, got, left, alone, want, starts, faults>>

\* registers are printed; SIGINT ends the read-out loop; the handler is installed
Silent(p) ==
  /\ At(p, "show") \/ At(p, "loop") \/ At(p, "handler")
  /\ Goes(p)
  /\ UNCHANGED <<release, board, buf, cmd, dev, map, got, history, starts, faults>>

-----------------------------------------------------------------------------
(* The end of a process: the driver frees its buffer when its file is      *)
(* closed, by whatever process.                                            *)

MutGone(p) == UNCHANGED buf

cma_release(p) == IF "cma" \in dev[p] THEN buf' = None ELSE UNCHANGED buf

Gone(p) ==
  /\ cma_release(p)
  /\ cmd' = [cmd EXCEPT ![p] = Outcome("none")]
  /\ todo' = [todo EXCEPT ![p] = << >>]
  /\ dev' = [dev EXCEPT ![p] = {}] /\ map' = [map EXCEPT ![p] = None]
  /\ got' = [got EXCEPT ![p] = {}]
  /\ alone' = [alone EXCEPT ![p] = FALSE]

\* main() returns after its last step
Exit(p) ==
  /\ At(p, "end")
  /\ Gone(p)
  /\ left' = IF alone[p] THEN left ELSE left \cup cfg
  /\ UNCHANGED <<release, board, cut, want, starts, faults>>

Dies(p) ==
  /\ Gone(p)
  /\ left' = left \cup cfg
  /\ cut' = IF InitBits \subseteq cfg /\ ier /\ cmd[p].what # "init" THEN cut
            ELSE cut \cup {"killed"}
  /\ UNCHANGED <<release, board, want, starts>>

\* a signal, at any time
Kill(p) ==
  /\ p \in Running /\ faults < MaxFaults
  /\ faults' = faults + 1
  /\ Dies(p)

\* the access to a device that is not mapped
Segv(p) ==
  /\ p \in Running /\ ~(Head(todo[p]).needs \subseteq dev[p])
  /\ UNCHANGED faults
  /\ Dies(p)

Execute(p) ==
  \/ MapDevices(p) \/ (\E a \in Addrs : cma_ioctl(p, a)) \/ cma_ioctl_fails(p)
  \/ WriteAddress(p) \/ FirstAccess(p) \/ ReadGral(p) \/ WriteGral(p) \/ WriteRegs(p)
  \/ ReadLimit(p) \/ WriteLimit(p) \/ Poll(p) \/ EnableInterrupt(p) \/ Silent(p) \/ Exit(p)

Next ==
  \E p \in Procs :
    \/ \E argv \in Commands : Start(p, argv)
    \/ Execute(p) \/ Kill(p) \/ Segv(p)

Spec == Init /\ [][Next]_vars
-----------------------------------------------------------------------------
(* Properties                                                              *)

Overlap == \E p \in Running : ~alone[p]

Acquiring(p) == todo[p] # << >> /\ Head(todo[p]).op = "loop"

\* no step of the start-up is ahead of p
StartedUp(p) == \A i \in 1..Len(todo[p]) : todo[p][i].op \notin {"first", "handler"}

\* The writer writes into the buffer that the driver owns, unless it was left
\* running by an invocation that was killed or met another, invocations overlap,
\* or the driver had no memory.
WriterInLiveBuffer ==
  "wr" \in cfg => "wr" \in left \/ Overlap \/ wraddr \in {buf, Fixed, Stray}

\* While a program acquires that has met no other, the buffer it reads is the one
\* the writer writes, also after the writer was left running with another address.
ReaderSeesWriter == \A p \in Procs : Acquiring(p) /\ alone[p] /\ map[p] # None => wraddr = map[p]

\* Between invocations everything that a finished invocation started is in reset
\* again: only what killed or overlapping ones left set may be on.
QuietBetween ==
  Running = {} =>
    cfg \cap (RunBits \cup IF release = "v1_5" THEN {"b5", "b6"} ELSE {}) \subseteq left

\* An acquisition or an initialisation that runs alone and ends by itself leaves the
\* data path in reset, whatever killed or overlapping invocations did before it.
Recovers ==
  [][\A p \in Procs :
       Exit(p) /\ alone[p] /\ cmd[p].what \in {"acquire", "init"} => cfg \cap RunBits = {}]_vars

\* "This is for initial configuration, default is MASTER mode, using false PPS".  The
\* choice between GPS and computer time is made on the bit that init_system() sets:
\* as long as no initialisation met another invocation, none that runs alone gets past
\* the first-access test without it, however its predecessors died.  If none was
\* killed either and -w has not switched the interrupt off, whoever acquires finds the
\* rest, as -a reports it: the mode, which lago_v1_0 does not have, and the interrupt.
ClockSourceChosen ==
  \A p \in Running :
    "met" \notin cut /\ alone[p] /\ StartedUp(p) =>
      /\ ~rd_cfg_status(0).gps
      /\ Acquiring(p) /\ cut = {} =>
           InitBits \subseteq cfg /\ ier /\ (release = "v1_0" \/ rd_cfg_status(0).master)

\* a voltage in units of 0.1 uV is within 1 mV of the one that was asked for
Near(voltage, mV) == 10000 * (mV - 1) <= voltage /\ voltage <= 10000 * (mV + 1)

\* What the operator sets stays set over later invocations, which all test for the
\* first access, until -s, -w or -i: the head of every data file that an acquisition
\* opens states it, voltages within 1 mV, and so does -a.  In lago_v1_0 -a has another
\* calibration than the files and -s.  The number of -m is not such a setting: it is
\* OR-ed into what earlier ones have left in the limit registers.
SettingsKept ==
  \/ "met" \in cut
  \/ \A r \in DOMAIN want :
       IF r \notin {"HV1", "HV2", "HV3", "HV4"}
       THEN regs[r] = want[r] /\ (r \in DOMAIN new_file => new_file[r] = want[r])
       ELSE \/ want[r] < 8
            \/ /\ r \in DOMAIN new_file => Near(new_file[r], want[r])
               /\ release = "v1_0" \/ Near(rd_cfg_status(regs[r]).voltage, want[r])
=============================================================================
