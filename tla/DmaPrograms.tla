----------------------------- MODULE DmaPrograms -----------------------------
(***************************************************************************)
(* The programs and kernel modules with which the designs that move data   *)
(* by an AXI DMA engine are tried, each as the sequence of what it does to *)
(* the engine and to its buffers.  "rx" is the channel from the stream to  *)
(* memory (S2MM), "tx" the one from memory to the stream (MM2S).  A step   *)
(* names its channels; DmaTests.tla says what the steps do.                *)
(***************************************************************************)
EXTENDS Integers, Sequences, SequencesExt

CONSTANTS
  Rounds,   \* how often a program repeats its transfer
  Bds       \* descriptors of a ring

ASSUME DmaAssumption == Rounds \in Nat \ {0} /\ Bds \in Nat \ {0}

Do(op, chans) == <<[op |-> op, ch |-> chans]>>

Open    == Do("open", {})               \* open and mmap; may fail, and end the program
Reset   == Do("reset", {"rx", "tx"})    \* the reset bit of either channel resets the engine
ResetIsDone == Do("reset_done", {})     \* polls it until it is clear again
Halt(c) == Do("halt", {c})              \* 0 into the control register
Run(c)  == Do("run", {c})               \* the run bit, and the interrupt enables
Length(c) == Do("length", {c})          \* the length register: starts a channel that runs
Read    == Do("read", {"rx"})           \* the destination is printed or compared
Beyond  == Do("beyond", {})             \* memory is printed that no transfer has written
End     == Do("end", {})

Repeat(steps) == FlattenSeq([i \in 1..Rounds |-> steps])

-----------------------------------------------------------------------------
(* Programs that write the registers through /dev/mem                      *)

\* dma_mm2s_sync() and dma_s2mm_sync(): poll for completion and idle
Sync(c) == Do("sync", {c})

\* These programs do not wait for the end of the reset.
MutLago ==
  Open \o Reset \o Halt("rx") \o Length("rx") \o Run("rx") \o Sync("rx") \o Read \o Beyond \o End

\* the acquisition's stream into memory: 4096 bytes are transferred, 4096 words printed
dma_lago_main ==
  Open \o Reset \o Halt("rx") \o Run("rx") \o Length("rx") \o Sync("rx") \o Read \o Beyond \o End

\* the same for the counter; the memory printed is at 0x1E000000, the transfer goes to
\* 0x0f000000
counter_dma_main ==
  Open \o Reset \o Halt("rx") \o Run("rx") \o Length("rx") \o Sync("rx") \o Beyond \o End

\* the memory printed is at 0x0f00000, the transfer goes to 0x0f000000
dma_test_main ==
  Open \o Reset \o Halt("rx") \o Run("rx") \o Length("rx") \o Sync("rx") \o Beyond \o End

\* memory to memory through the looped stream
MutLoopback ==
  Open \o Reset \o Run("rx") \o Run("tx") \o Length("rx") \o Length("tx") \o Sync("tx") \o Read \o End

dma_loopback_main ==
  Open \o Reset \o Halt("rx") \o Halt("tx") \o Run("rx") \o Run("tx")
  \o Length("rx") \o Length("tx") \o Sync("tx") \o Sync("rx") \o Read \o End

\* apps/dma/dma_test: 32 bytes are transferred, 32 words printed
app_dma_test_main ==
  Open \o Reset \o Halt("rx") \o Halt("tx") \o Run("rx") \o Run("tx")
  \o Length("rx") \o Length("tx") \o Sync("tx") \o Sync("rx") \o Read \o Beyond \o End

\* the reset bit is written and read back until it is clear, or too often
reset_tries == Reset \o Do("reset_tries", {})

\* a CDMA engine has no run bit; it must be idle before it is programmed, ...
linux_cdma_setup ==
  Open \o Open \o reset_tries \o Do("cdma", {"rx"}) \o Do("idle", {"rx"}) \o Length("rx")

\* ... and the status is polled for completion or an error
linux_cdma_main == linux_cdma_setup \o Do("wait", {"rx"}) \o Open \o Read \o End

\* the same for the transmit channel of a DMA engine, whose run bit is never set
linux_dma_setup == Open \o reset_tries \o Do("idle", {"tx"}) \o Length("tx")

linux_dma_main == linux_dma_setup \o Do("wait", {"tx"}) \o Read \o End

\* wait_for_interrupt(): read() blocks until the UIO device has seen an interrupt, which
\* masks it; the data are looked at, the interrupt is acknowledged and enabled again,
\* and the transfer is started again
uio_wait_for_interrupt ==
  Do("irq", {"rx"}) \o Read \o Do("ack", {"rx"}) \o Do("reenable", {}) \o Length("rx")

uio_setup ==
  Do("uio_open", {}) \o Open \o Reset \o ResetIsDone \o Do("ack", {"rx"}) \o Run("rx") \o Length("rx")

MutUio == uio_setup \o Repeat(uio_wait_for_interrupt) \o End

\* the write that is to disable the interrupt passes no buffer, and fails
uio_main ==
  uio_setup \o Repeat(uio_wait_for_interrupt) \o Do("stop", {"rx"}) \o Reset \o ResetIsDone \o End

-----------------------------------------------------------------------------
(* Programs on the vendor's driver: initialisation resets the engine, a    *)
(* transfer is refused by a busy channel and sets the run bit              *)

init_dma == Open \o Reset \o ResetIsDone

Busy(chans) == Do("busy", chans)

SimplePollExample ==
  init_dma
  \o Repeat(Do("transfer", {"rx"}) \o Do("transfer", {"tx"}) \o Busy({"rx", "tx"}) \o Read) \o End

dma_passthrough_rcv == Do("transfer", {"rx"}) \o Busy({"rx"}) \o Do("errors", {"rx"})

dma_passthrough_snd == Do("transfer", {"tx"}) \o Busy({"tx"}) \o Do("errors", {"tx"})

\* the converters share the engine, which each resets, and a GPIO; without it the
\* program ends
adc_create == init_dma \o Open

dac_create == init_dma \o Open

\* dma_passthrough_reset() does not wait
adc_enable == Reset

adc_get_frame == dma_passthrough_rcv

dac_send_frame == dma_passthrough_snd

\* each frame is received, processed, sent and verified, and a key awaited; for ever
passthrough_frame ==
  adc_get_frame \o Read \o dac_send_frame \o Do("verify", {}) \o Do("key", {}) \o Do("again", {})

passthrough_main == adc_create \o dac_create \o adc_enable \o passthrough_frame

-----------------------------------------------------------------------------
(* Scatter and gather: descriptors are taken from the ring, given to the   *)
(* engine, taken back and freed                                            *)

TxSetup == Do("create", {"tx"}) \o Do("sg_run", {"tx"})

RxSetup == Do("create", {"rx"}) \o Do("alloc_all", {"rx"}) \o Do("to_hw", {"rx"}) \o Do("sg_run", {"rx"})

SendPacket == Do("alloc", {"tx"}) \o Do("to_hw", {"tx"})

CheckDmaResult ==
  Do("from_hw", {"tx"}) \o Do("free", {"tx"}) \o Do("from_hw", {"rx"}) \o Read
  \o Do("free", {"rx"}) \o Do("alloc_all", {"rx"}) \o Do("to_hw", {"rx"})

sg_poll_main == init_dma \o TxSetup \o RxSetup \o SendPacket \o CheckDmaResult \o End

-----------------------------------------------------------------------------
(* Kernel modules on the DMA engine framework; completions may time out    *)

axidma_prep_buffer(c) == Do("prep", {c})

axidma_start_transfer(c, wait) ==
  Do("issue", {c}) \o IF wait THEN Do("complete", {c}) ELSE << >>

axidma_test_transfer ==
  Do("kmalloc", {}) \o axidma_prep_buffer("rx") \o axidma_prep_buffer("tx")
  \o axidma_start_transfer("rx", FALSE) \o axidma_start_transfer("tx", TRUE)
  \o Do("unmap", {}) \o Read \o Do("kfree", {})

axidma_init == Open \o axidma_test_transfer \o End

zynq_dma_init ==
  Open \o Do("kmalloc", {}) \o Do("prep", {"rx"}) \o Do("prep", {"tx"})
  \o Do("issue", {"rx"}) \o Do("issue", {"tx"}) \o Do("complete", {"rx"}) \o Do("complete", {"tx"})
  \o Read \o Do("kfree", {}) \o End

Program(name) ==
  CASE name = "dma_lago"     -> dma_lago_main
    [] name = "counter_dma"  -> counter_dma_main
    [] name = "dma_test"     -> dma_test_main
    [] name = "dma_loopback" -> dma_loopback_main
    [] name = "app_dma_test" -> app_dma_test_main
    [] name = "linux_cdma"   -> linux_cdma_main
    [] name = "linux_dma"    -> linux_dma_main
    [] name = "uio"          -> uio_main
    [] name = "simple_poll"  -> SimplePollExample
    [] name = "passthrough"  -> passthrough_main
    [] name = "sg_poll"      -> sg_poll_main
    [] name = "axidma"       -> axidma_init
    [] name = "zynq_dma"     -> zynq_dma_init

\* the transmit channel feeds the receive channel
LoopedBack == {"dma_loopback", "app_dma_test", "simple_poll", "sg_poll", "axidma", "zynq_dma"}
=============================================================================
