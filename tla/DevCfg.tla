-------------------------------- MODULE DevCfg --------------------------------
(***************************************************************************)
(* patches/xilinx_devcfg.c: the kernel driver through which the board's    *)
(* bitstream is loaded (cat lago.bit > /dev/xdevcfg).  Several threads use *)
(* the character device and the driver's sysfs attributes at once; the     *)
(* configuration engine moves a buffer and interrupts when it is done.     *)
(* A thread is at pc[t] inside call number id[t] and holds arg[t]; buffers *)
(* and engine commands carry the number of the call that made them.  A    *)
(* byte of the bitstream is its position in the file.  The reference clock *)
(* is left out: every call enables it first and every return disables it.  *)
(***************************************************************************)
EXTENDS Integers, Sequences, FiniteSets

CONSTANTS
  Threads,     \* threads that call the driver
  Attrs,       \* attributes that are stored to
  Chunks,      \* numbers of bytes one write() passes
  SyncAt,      \* where the sync word starts in the bitstream file
  Swapped,     \* the file holds the swapped sync word
  MaxOps       \* bound: calls of open(), write() and read(), and stores to attributes

Nobody == "nobody"
CtrlAttrs == {"enable_dap", "enable_dbg_in", "enable_dbg_nonin", "enable_sec_dbg_in",
              "enable_sec_dbg_nonin", "enable_seu", "enable_aes"}
LockAttrs == {"aes_en_lock", "seu_lock", "dbg_lock"}

ASSUME DevCfgAssumption ==
  /\ Chunks \subseteq Nat \ {0} /\ SyncAt \in Nat /\ Swapped \in BOOLEAN
  /\ MaxOps \in Nat
  /\ Nobody \notin Threads /\ Attrs \subseteq CtrlAttrs \cup LockAttrs

VARIABLES
  pc, id, arg,                              \* the threads
  sem,                                      \* drvdata->sem
  is_open, is_partial, dma_done, error_status, endian_swap, residue,  \* drvdata
  ctrl, lock, sts, msk,                     \* CTRL, LOCK, INT_STS, INT_MASK
  init,                                     \* PCFG_INIT in STATUS
  slcr,                                     \* the PL's level shifters and resets
  engine, live, finished,                   \* queued commands, allocated buffers
  ppos, sent,                               \* *ppos; bytes given to the engine
  calls, stores, succeeded, want,           \* history
  late, whole, flipped, raced               \* history

drvdata  == <<is_open, is_partial, dma_done, error_status, endian_swap, residue>>
regs     == <<ctrl, lock, sts, msk, init, slcr>>
hardware == <<engine, live, finished>>
stream   == <<ppos, sent, whole>>
counts   == <<calls, stores>>
history  == <<succeeded, want, late, flipped, raced>>
vars == <<pc, id, arg, sem, drvdata, regs, hardware, stream, counts, history>>

DP     == "D_P_DONE"
Errors == {"ERR_A", "ERR_B"}      \* XDCFG_IXR_ERROR_FLAGS_MASK has several bits
DapBits  == {"DAP0", "DAP1", "DAP2"}
CtrlBits == DapBits \cup {"PROG_B", "PR", "MODE", "DBGEN", "NIDEN", "SPIDEN",
                          "SPNIDEN", "SEU", "AES", "RATE"}
LockBits == {"AES_LOCK", "SEU_LOCK", "DBG_LOCK"}

-----------------------------------------------------------------------------
(* The attributes: the value a store writes back, given the register value  *)
(* it read before taking the lock, and the value a show reports.            *)

SetBits(r, bits, v) == IF v = 0 THEN r \ bits ELSE r \cup bits

Flag(r, bit, value) == IF bit \in r THEN value ELSE 0

xdevcfg_set_dap_en(r, v) == r \cup (IF v % 2 = 1 THEN {"DAP0"} ELSE {})
                              \cup (IF (v \div 2) % 2 = 1 THEN {"DAP1"} ELSE {})
                              \cup (IF (v \div 4) % 2 = 1 THEN {"DAP2"} ELSE {})

xdevcfg_show_dap_en_status(r) == Flag(r, "DAP0", 1) + Flag(r, "DAP1", 2) + Flag(r, "DAP2", 4)

xdevcfg_set_dbgen(r, v) == SetBits(r, {"DBGEN"}, v)

xdevcfg_show_dbgen_status(r) == Flag(r, "DBGEN", 1)

\* mutant of xdevcfg_set_niden: the bit of the function it was copied from
MutNiden(r, v) == SetBits(r, {"DBGEN"}, v)

xdevcfg_set_niden(r, v) == SetBits(r, {"NIDEN"}, v)

xdevcfg_show_niden_status(r) == Flag(r, "NIDEN", 1)

xdevcfg_set_spiden(r, v) == SetBits(r, {"SPIDEN"}, v)

xdevcfg_show_spiden_status(r) == Flag(r, "SPIDEN", 1)

xdevcfg_set_spniden(r, v) == SetBits(r, {"SPNIDEN"}, v)

xdevcfg_show_spniden_status(r) == Flag(r, "SPNIDEN", 1)

xdevcfg_set_seu(r, v) == SetBits(r, {"SEU"}, v)

\* seu_status > 8 where the others shift: 0x100 > 8 is 1
xdevcfg_show_seu_status(r) == IF Flag(r, "SEU", 256) > 8 THEN 1 ELSE 0

xdevcfg_set_aes(r, v) == SetBits(r, {"AES", "RATE"}, v)

\* three bits, all set by the store: 0xE00 >> 9
xdevcfg_show_aes_status(r) == Flag(r, "AES", 7)

xdevcfg_set_aes_en_lock(r, v) == SetBits(r, {"AES_LOCK"}, v)

xdevcfg_show_aes_en_lock_status(r) == Flag(r, "AES_LOCK", 1)

xdevcfg_set_seu_lock(r, v) == SetBits(r, {"SEU_LOCK"}, v)

xdevcfg_show_seu_lock_status(r) == Flag(r, "SEU_LOCK", 1)

xdevcfg_set_dbg_lock(r, v) == SetBits(r, {"DBG_LOCK"}, v)

xdevcfg_show_dbg_lock_status(r) == Flag(r, "DBG_LOCK", 1)

\* the table of DEVICE_ATTRs: which store and show serve an attribute
Stored(a, r, v) ==
  CASE a = "enable_dap"           -> xdevcfg_set_dap_en(r, v)
    [] a = "enable_dbg_in"        -> xdevcfg_set_dbgen(r, v)
    [] a = "enable_dbg_nonin"     -> xdevcfg_set_niden(r, v)
    [] a = "enable_sec_dbg_in"    -> xdevcfg_set_spiden(r, v)
    [] a = "enable_sec_dbg_nonin" -> xdevcfg_set_spniden(r, v)
    [] a = "enable_seu"           -> xdevcfg_set_seu(r, v)
    [] a = "enable_aes"           -> xdevcfg_set_aes(r, v)
    [] a = "aes_en_lock"          -> xdevcfg_set_aes_en_lock(r, v)
    [] a = "seu_lock"             -> xdevcfg_set_seu_lock(r, v)
    [] a = "dbg_lock"             -> xdevcfg_set_dbg_lock(r, v)

Shown(a) ==
  CASE a = "enable_dap"           -> xdevcfg_show_dap_en_status(ctrl)
    [] a = "enable_dbg_in"        -> xdevcfg_show_dbgen_status(ctrl)
    [] a = "enable_dbg_nonin"     -> xdevcfg_show_niden_status(ctrl)
    [] a = "enable_sec_dbg_in"    -> xdevcfg_show_spiden_status(ctrl)
    [] a = "enable_sec_dbg_nonin" -> xdevcfg_show_spniden_status(ctrl)
    [] a = "enable_seu"           -> xdevcfg_show_seu_status(ctrl)
    [] a = "enable_aes"           -> xdevcfg_show_aes_status(ctrl)
    [] a = "aes_en_lock"          -> xdevcfg_show_aes_en_lock_status(lock)
    [] a = "seu_lock"             -> xdevcfg_show_seu_lock_status(lock)
    [] a = "dbg_lock"             -> xdevcfg_show_dbg_lock_status(lock)

-----------------------------------------------------------------------------
(* The bitstream: what write() makes of the bytes it is given.              *)

\* swab32 of every word
Swab(s) == [i \in 1..Len(s) |-> s[4 * ((i - 1) \div 4) + 4 - ((i - 1) % 4)]]

\* the places the loop "for (i = 0; i < count - 4; i++)" finds the sync word at
SyncFound(kbuf) ==
  {i \in 0..Len(kbuf) - 5 : \A j \in 0..3 : kbuf[i + j + 1] = SyncAt + j}

\* mutant of Block: the first byte of the sync word goes with the header
MutBlock(kbuf) ==
  IF ppos = 0 /\ SyncFound(kbuf) # {}
  THEN LET i == CHOOSE i \in SyncFound(kbuf) : \A j \in SyncFound(kbuf) : i <= j
       IN  SubSeq(kbuf, i + 2, Len(kbuf))
  ELSE kbuf

\* what is left of the buffer when the header is removed from the first block
Block(kbuf) ==
  IF ppos = 0 /\ SyncFound(kbuf) # {}
  THEN LET i == CHOOSE i \in SyncFound(kbuf) : \A j \in SyncFound(kbuf) : i <= j
       IN  SubSeq(kbuf, i + 1, Len(kbuf))
  ELSE kbuf

-----------------------------------------------------------------------------
(* The calls.  An open that has the mutex is at one of Opening.             *)

Opening == {"enable_partial", "open_reset", "prog_low", "reset_low", "prog_high", "reset_high"}

Enter(t, at) ==
  /\ pc[t] = "idle"
  /\ pc' = [pc EXCEPT ![t] = at]

Return(t) ==
  /\ pc' = [pc EXCEPT ![t] = "idle"]
  /\ id' = [id EXCEPT ![t] = 0]
  /\ arg' = [arg EXCEPT ![t] = <<>>]

\* clk_enable, then mutex_lock_interruptible: the thread waits for the mutex
Call(t, at) ==
  /\ calls + stores < MaxOps
  /\ at # "open_lock" => is_open /\ \A u \in Threads : pc[u] \notin Opening \cup {"release"}
  /\ Enter(t, at)
  /\ calls' = calls + 1
  /\ id' = [id EXCEPT ![t] = calls + 1]
  /\ UNCHANGED <<arg, sem, drvdata, regs, hardware, stream, stores, history>>

\* a signal ends the wait for the mutex; or, with the mutex, there is no memory for the
\* buffer or no user data in it; or the text stored is no number, or too large a one
GiveUp(t) ==
  /\ pc[t] \in {"open_lock", "write_lock", "read_lock", "store"}
  /\ Return(t)
  /\ UNCHANGED <<sem, drvdata, regs, hardware, stream, counts, history>>

zynq_slcr_init_preload_fpga == slcr' = "isolated"

zynq_slcr_init_postload_fpga == slcr' = "connected"

\* open and release read CTRL and write it back changed, without the spin lock
ReadCtrl(t, at) ==
  /\ arg' = [arg EXCEPT ![t] = [seen |-> ctrl]]
  /\ pc' = [pc EXCEPT ![t] = at]

WriteCtrl(t, value) ==
  /\ ctrl' = value
  /\ raced' = (raced \/ arg[t].seen # ctrl)

\* mutant of Busy: the early return keeps the mutex
MutBusy(t) ==
  /\ pc[t] = "open_lock" /\ sem = Nobody /\ is_open
  /\ sem' = t
  /\ Return(t)
  /\ UNCHANGED <<drvdata, regs, hardware, stream, counts, history>>

\* -EBUSY: the device is open already
Busy(t) ==
  /\ pc[t] = "open_lock" /\ sem = Nobody /\ is_open
  /\ Return(t)
  /\ UNCHANGED <<sem, drvdata, regs, hardware, stream, counts, history>>

\* the first of two reads of is_partial_bitstream
xdevcfg_open(t) ==
  /\ pc[t] = "open_lock" /\ sem = Nobody /\ ~is_open
  /\ sem' = t
  /\ is_open' = TRUE /\ endian_swap' = FALSE /\ residue' = <<>>
  /\ ppos' = 0 /\ sent' = <<>> /\ whole' = TRUE
  /\ \/ is_partial /\ ReadCtrl(t, "enable_partial") /\ UNCHANGED slcr
     \/ /\ ~is_partial
        /\ zynq_slcr_init_preload_fpga
        /\ pc' = [pc EXCEPT ![t] = "open_reset"]
        /\ UNCHANGED arg
  /\ UNCHANGED <<id, is_partial, dma_done, error_status, ctrl, lock, sts, msk, init,
                 hardware, counts, history>>

xdevcfg_enable_partial(t) ==
  /\ pc[t] = "enable_partial"
  /\ WriteCtrl(t, arg[t].seen \cup {"PR"})
  /\ pc' = [pc EXCEPT ![t] = "open_reset"]
  /\ UNCHANGED <<id, arg, sem, drvdata, lock, sts, msk, init, slcr, hardware, stream,
                 counts, succeeded, want, late, flipped>>

\* the second one: no reset of the PL for a partial bitstream
xdevcfg_open_reset(t) ==
  /\ pc[t] = "open_reset"
  /\ \/ is_partial /\ sem' = Nobody /\ Return(t)
     \/ ~is_partial /\ ReadCtrl(t, "prog_low") /\ UNCHANGED <<id, sem>>
  /\ UNCHANGED <<drvdata, regs, hardware, stream, counts, history>>

\* xdevcfg_reset_pl: PCFG_INIT follows PROG_B, first down and then up
xdevcfg_reset_pl_clear(t) ==
  /\ pc[t] = "prog_low"
  /\ WriteCtrl(t, arg[t].seen \ {"PROG_B"})
  /\ pc' = [pc EXCEPT ![t] = "reset_low"]
  /\ UNCHANGED <<id, arg, sem, drvdata, lock, sts, msk, init, slcr, hardware, stream,
                 counts, succeeded, want, late, flipped>>

xdevcfg_reset_pl_low(t) ==
  /\ pc[t] = "reset_low" /\ ~init
  /\ ReadCtrl(t, "prog_high")
  /\ UNCHANGED <<id, sem, drvdata, regs, hardware, stream, counts, history>>

xdevcfg_reset_pl_set(t) ==
  /\ pc[t] = "prog_high"
  /\ WriteCtrl(t, arg[t].seen \cup {"PROG_B"})
  /\ pc' = [pc EXCEPT ![t] = "reset_high"]
  /\ UNCHANGED <<id, arg, sem, drvdata, lock, sts, msk, init, slcr, hardware, stream,
                 counts, succeeded, want, late, flipped>>

xdevcfg_reset_pl_high(t) ==
  /\ pc[t] = "reset_high" /\ init
  /\ sem' = Nobody
  /\ Return(t)
  /\ UNCHANGED <<drvdata, regs, hardware, stream, counts, history>>

\* the last close: no call on the file is under way
LastClose(t) ==
  /\ is_open /\ pc[t] = "idle"
  /\ \A u \in Threads : pc[u] \in {"idle", "open_lock", "store"}

\* release with is_partial_bitstream set reads CTRL ...
xdevcfg_release_partial(t) ==
  /\ LastClose(t) /\ is_partial
  /\ ReadCtrl(t, "release")
  /\ UNCHANGED <<id, sem, drvdata, regs, hardware, stream, counts, history>>

\* ... and writes it back
xdevcfg_disable_partial(t) ==
  /\ pc[t] = "release"
  /\ WriteCtrl(t, arg[t].seen \ {"PR"})
  /\ is_open' = FALSE
  /\ ppos' = 0 /\ sent' = <<>> /\ whole' = TRUE
  /\ Return(t)
  /\ UNCHANGED <<sem, is_partial, dma_done, error_status, endian_swap, residue, lock,
                 sts, msk, init, slcr, hardware, counts, succeeded, want, late, flipped>>

\* mutant of xdevcfg_release: the PL is not connected again
MutRelease(t) ==
  /\ LastClose(t) /\ ~is_partial
  /\ is_open' = FALSE
  /\ ppos' = 0 /\ sent' = <<>> /\ whole' = TRUE
  /\ UNCHANGED <<pc, id, arg, sem, is_partial, dma_done, error_status, endian_swap,
                 residue, regs, hardware, counts, history>>

xdevcfg_release(t) ==
  /\ LastClose(t) /\ ~is_partial
  /\ zynq_slcr_init_postload_fpga
  /\ is_open' = FALSE
  /\ ppos' = 0 /\ sent' = <<>> /\ whole' = TRUE
  /\ UNCHANGED <<pc, id, arg, sem, is_partial, dma_done, error_status, endian_swap,
                 residue, ctrl, lock, sts, msk, init, hardware, counts, history>>

\* xdevcfg_write up to the unmasking of the interrupts
xdevcfg_write_load(t) ==
  /\ pc[t] = "write_lock" /\ sem = Nobody
  /\ \E n \in Chunks :
       LET kbuf  == residue \o [i \in 1..n |-> ppos + i - 1]
           block == Block(kbuf)
           words == Len(block) - (Len(block) % 4)
           swap  == IF ppos = 0 /\ SyncFound(kbuf) # {} THEN Swapped ELSE endian_swap
           taken == SubSeq(block, 1, words)
       IN  /\ residue' = SubSeq(block, words + 1, Len(block))
           /\ endian_swap' = swap
           /\ arg' = [arg EXCEPT ![t] = [n |-> n, words |-> IF swap THEN Swab(taken) ELSE taken]]
           /\ whole' = (whole /\ (ppos = 0 => SyncFound(kbuf) # {}))
  /\ sem' = t
  /\ live' = live \cup {id[t]}
  /\ sts' = {} /\ msk' = {}
  /\ pc' = [pc EXCEPT ![t] = "write_start"]
  /\ UNCHANGED <<id, is_open, is_partial, dma_done, error_status, ctrl, lock, init,
                 slcr, engine, finished, ppos, sent, counts, history>>

\* mutant of xdevcfg_write_start: dma_done is not cleared
MutStart(t) ==
  /\ pc[t] = "write_start"
  /\ engine' = Append(engine, id[t])
  /\ sent' = sent \o arg[t].words
  /\ pc' = [pc EXCEPT ![t] = "write_wait"]
  /\ UNCHANGED <<id, arg, sem, drvdata, regs, live, finished, ppos, whole, counts,
                 history>>

\* ... and on to the length registers, which start the engine
xdevcfg_write_start(t) ==
  /\ pc[t] = "write_start"
  /\ dma_done' = FALSE /\ error_status' = FALSE
  /\ engine' = Append(engine, id[t])
  /\ sent' = sent \o arg[t].words
  /\ pc' = [pc EXCEPT ![t] = "write_wait"]
  /\ UNCHANGED <<id, arg, sem, is_open, is_partial, endian_swap, residue, regs, live,
                 finished, ppos, whole, counts, history>>

\* xdevcfg_read clears dma_done before it clears and unmasks the interrupts
xdevcfg_read_arm(t) ==
  /\ pc[t] = "read_lock" /\ sem = Nobody
  /\ sem' = t
  /\ live' = live \cup {id[t]}
  /\ dma_done' = FALSE /\ error_status' = FALSE
  /\ pc' = [pc EXCEPT ![t] = "read_start"]
  /\ UNCHANGED <<id, arg, is_open, is_partial, endian_swap, residue, regs, engine,
                 finished, stream, counts, history>>

xdevcfg_read_start(t) ==
  /\ pc[t] = "read_start"
  /\ sts' = {} /\ msk' = {}
  /\ engine' = Append(engine, id[t])
  /\ pc' = [pc EXCEPT ![t] = "read_wait"]
  /\ UNCHANGED <<id, arg, sem, drvdata, ctrl, lock, init, slcr, live, finished,
                 stream, counts, history>>

\* the end of a transfer: the buffer is freed, the mutex and the clock released
Leave(t) ==
  /\ live' = live \ {id[t]}
  /\ sem' = Nobody
  /\ Return(t)
  /\ UNCHANGED <<drvdata, ctrl, lock, sts, init, slcr, engine, finished, sent,
                 counts, want, flipped, raced>>

\* the transfer ended: the interrupts are masked again and an error is reported
xdevcfg_done(t) ==
  /\ pc[t] \in {"write_wait", "read_wait"} /\ dma_done
  /\ msk' = {DP} \cup Errors
  /\ IF error_status
     THEN whole' = (whole /\ pc[t] = "read_wait") /\ UNCHANGED <<ppos, succeeded>>
     ELSE /\ ppos' = IF pc[t] = "write_wait" THEN ppos + arg[t].n ELSE ppos
          /\ succeeded' = succeeded \cup {id[t]}
          /\ UNCHANGED whole
  /\ UNCHANGED late
  /\ Leave(t)

\* -ETIMEDOUT: the interrupts stay unmasked and the engine is not stopped
xdevcfg_timeout(t) ==
  /\ pc[t] \in {"write_wait", "read_wait"} /\ ~dma_done
  /\ late' = TRUE
  /\ whole' = (whole /\ pc[t] = "read_wait")
  /\ UNCHANGED <<msk, ppos, succeeded>>
  /\ Leave(t)

\* an attribute store reads the register before it takes the spin lock
StoreRead(t, a, v) ==
  /\ calls + stores < MaxOps
  /\ Enter(t, "store")
  /\ stores' = stores + 1
  /\ arg' = [arg EXCEPT ![t] = [attr |-> a, v |-> v,
                                seen |-> IF a \in CtrlAttrs THEN ctrl ELSE lock]]
  /\ UNCHANGED <<id, sem, drvdata, regs, hardware, stream, calls, history>>

StoreWrite(t) ==
  /\ pc[t] = "store"
  /\ LET a == arg[t].attr
         new == Stored(a, arg[t].seen, arg[t].v)
     IN  /\ IF a \in CtrlAttrs THEN ctrl' = new /\ UNCHANGED lock
                               ELSE lock' = new /\ UNCHANGED ctrl
         /\ raced' = (raced \/ arg[t].seen # IF a \in CtrlAttrs THEN ctrl ELSE lock)
         /\ want' = [want EXCEPT ![a] = arg[t].v]
  /\ Return(t)
  /\ UNCHANGED <<sem, drvdata, sts, msk, init, slcr, hardware, stream, counts,
                 succeeded, late, flipped>>

xdevcfg_set_is_partial_bitstream(v) ==
  /\ calls + stores < MaxOps
  /\ is_partial' = v
  /\ stores' = stores + 1
  /\ flipped' = (flipped \/ (is_open /\ v # is_partial))
  /\ UNCHANGED <<pc, id, arg, sem, is_open, dma_done, error_status, endian_swap,
                 residue, regs, hardware, stream, calls, succeeded, want, late, raced>>

\* the engine ends the oldest command, with or without errors
Engine ==
  /\ engine # <<>>
  /\ engine' = Tail(engine)
  /\ finished' = finished \cup {Head(engine)}
  /\ \E e \in {{}, {"ERR_A"}, Errors} : sts' = sts \cup {DP} \cup e
  /\ UNCHANGED <<pc, id, arg, sem, drvdata, ctrl, lock, msk, init, slcr, live,
                 stream, counts, history>>

\* the status bit PCFG_INIT follows PROG_B
InitFollows ==
  /\ init # ("PROG_B" \in ctrl)
  /\ init' = ("PROG_B" \in ctrl)
  /\ UNCHANGED <<pc, id, arg, sem, drvdata, ctrl, lock, sts, msk, slcr, hardware,
                 stream, counts, history>>

xdevcfg_irq ==
  /\ sts \ msk # {}
  /\ sts' = {}
  /\ dma_done' = (dma_done \/ DP \in sts)
  /\ error_status' = (error_status \/ Errors \subseteq sts)
  /\ UNCHANGED <<pc, id, arg, sem, is_open, is_partial, endian_swap, residue, ctrl,
                 lock, msk, init, slcr, hardware, stream, counts, history>>

-----------------------------------------------------------------------------
\* the values kstrtoul yields that the stores accept
Values(a) == IF a = "enable_dap" THEN 0..7 ELSE 0..1

\* the state xdevcfg_drv_probe leaves behind
Init ==
  /\ pc = [t \in Threads |-> "idle"] /\ id = [t \in Threads |-> 0]
  /\ arg = [t \in Threads |-> <<>>]
  /\ sem = Nobody 
  /\ is_open = FALSE /\ is_partial = FALSE /\ dma_done = FALSE /\ error_status = FALSE
  /\ endian_swap = FALSE /\ residue = <<>>
  /\ ctrl = {"PROG_B", "MODE"} /\ lock = {} /\ sts = {} /\ msk = {DP} \cup Errors
  /\ init = TRUE /\ slcr = "connected"
  /\ engine = <<>> /\ live = {} /\ finished = {}
  /\ ppos = 0 /\ sent = <<>> /\ whole = TRUE
  /\ calls = 0 /\ stores = 0 /\ succeeded = {}
  /\ want = [a \in CtrlAttrs \cup LockAttrs |-> 0]
  /\ late = FALSE /\ flipped = FALSE /\ raced = FALSE

\* the steps of a call that is under way
Step(t) ==
  \/ Busy(t) \/ xdevcfg_open(t) \/ xdevcfg_enable_partial(t) \/ xdevcfg_open_reset(t)
  \/ xdevcfg_reset_pl_clear(t) \/ xdevcfg_reset_pl_low(t)
  \/ xdevcfg_reset_pl_set(t) \/ xdevcfg_reset_pl_high(t) \/ xdevcfg_disable_partial(t)
  \/ xdevcfg_write_load(t) \/ xdevcfg_write_start(t)
  \/ xdevcfg_read_arm(t) \/ xdevcfg_read_start(t)
  \/ xdevcfg_done(t) \/ xdevcfg_timeout(t) \/ StoreWrite(t)

Next ==
  \/ \E t \in Threads : Step(t)
  \/ \E t \in Threads : GiveUp(t)
  \/ \E t \in Threads, at \in {"open_lock", "write_lock", "read_lock"} : Call(t, at)
  \/ \E t \in Threads, a \in Attrs, v \in 0..7 : v \in Values(a) /\ StoreRead(t, a, v)
  \/ \E v \in BOOLEAN : xdevcfg_set_is_partial_bitstream(v)
  \/ \E t \in Threads : xdevcfg_release_partial(t) \/ xdevcfg_release(t)
  \/ Engine
  \/ InitFollows
  \/ xdevcfg_irq

Fairness ==
  /\ \A t \in Threads : SF_vars(Step(t))
  /\ WF_vars(Engine) /\ WF_vars(xdevcfg_irq) /\ WF_vars(InitFollows)

Spec == Init /\ [][Next]_vars /\ Fairness

-----------------------------------------------------------------------------
\* Until a transfer times out the engine only works on buffers that are allocated
\* (dma_free_coherent at the end of write and read never frees one in use), and write
\* and read report success only when the engine has finished their own command:
\* dma_done is never left over from an earlier one.
TransfersOwned ==
  \/ late
  \/ /\ \A i \in 1..Len(engine) : engine[i] \in live
     /\ succeeded \subseteq finished

\* As long as the first block held the sync word and no write failed, the bytes given
\* to the engine are the bitstream from its sync word on, in the engine's byte order,
\* and the stragglers kept for the next write are exactly the bytes that follow.
StreamWhole ==
  \/ ~whole \/ ppos = 0
  \/ \E t \in Threads : pc[t] \in {"write_start", "write_wait"}
  \/ LET plain == [i \in 1..Len(sent) |-> SyncAt + i - 1]
     IN  /\ sent = IF Swapped THEN Swab(plain) ELSE plain
         /\ residue = [i \in 1..Len(residue) |-> SyncAt + Len(sent) + i - 1]
         /\ SyncAt + Len(sent) + Len(residue) = ppos

\* With the device closed the PL is connected again, unless is_partial_bitstream was
\* changed while it was open: open and release take their branches from that flag.
PlConnected == is_open \/ flipped \/ slcr = "connected"

\* While nothing wrote back a register that had changed since it was read, the value of
\* every one-bit attribute is the one stored last: no operation disturbs another's bits.
\* Stores are not the only ones that may: open and release read and write CTRL without
\* the lock too, for PROG_B and PR, and so can undo a store in between.
Readback == raced \/ \A a \in DOMAIN want \ {"enable_dap"} : (Shown(a) # 0) = (want[a] = 1)

\* Unless such a stale write happened, every call returns: open does not stay in the
\* loops of xdevcfg_reset_pl with the mutex held, and write and read end.
CallsReturn == (<>raced) \/ \A t \in Threads : (pc[t] # "idle") ~> (pc[t] = "idle")

=============================================================================
