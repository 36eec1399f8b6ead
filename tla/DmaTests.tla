------------------------------- MODULE DmaTests -------------------------------
(***************************************************************************)
(* The programs of DmaPrograms.tla, one after the other, against one DMA   *)
(* engine that works while they do.  A program may be killed between any   *)
(* two steps; the engine keeps what it was told, and goes on with it.  A   *)
(* transfer may end in an error, which halts the channel.                  *)
(***************************************************************************)
EXTENDS DmaPrograms, FiniteSets

CONSTANTS
  Programs,   \* those that are tried
  MaxStarts,  \* bound: programs that are run
  MaxFaults   \* bound: programs killed, steps and transfers that fail, timeouts

VARIABLES
  prog,       \* the program that runs, or ran last
  todo,       \* its remaining steps
  ch,         \* the channels of the engine
  ring,       \* of each channel: descriptors free, allocated and taken back
  fifo,       \* packets between the channels of a looped stream
  dst,        \* the packet in the destination, -1 while one is being written
  freed,      \* the buffers were freed
  asked,      \* packets the program has asked for
  resetting,  \* the reset bit is set
  masked,     \* the UIO device has masked its interrupt, ...
  event,      \* ... which read() has not returned for
  bad,        \* history: a fault since the program was started
  early,      \* history: it wrote a register of an engine in reset
  clean,      \* history: it found an engine at rest
  starts, faults

uio  == <<masked, event>>
vars == <<prog, todo, ch, ring, fifo, dst, freed, asked, resetting, uio, bad, early, clean,
          starts, faults>>

Channels == {"rx", "tx"}
Idle == [run |-> FALSE, queued |-> 0, pending |-> 0, done |-> 0, ioc |-> FALSE, err |-> FALSE,
         irq |-> FALSE]
NoRing == [free |-> 0, pre |-> 0, post |-> 0]

Init ==
  /\ prog \in Programs /\ todo = << >>
  /\ ch = [c \in Channels |-> Idle] /\ ring = [c \in Channels |-> NoRing]
  /\ fifo = 0 /\ dst = 0 /\ freed = FALSE /\ asked = 0
  /\ resetting = FALSE /\ masked = FALSE /\ event = FALSE
  /\ bad = FALSE /\ early = FALSE /\ clean = TRUE
  /\ starts = 0 /\ faults = 0

\* nothing is under way, and no interrupt enabled or masked
AtRest == ~resetting /\ ~masked /\ fifo = 0
          /\ \A c \in Channels : ch[c].queued = 0 /\ ch[c].pending = 0 /\ ~ch[c].irq

Start(name) ==
  /\ todo = << >> /\ starts < MaxStarts
  /\ prog' = name /\ todo' = Program(name)
  /\ dst' = 0 /\ asked' = 0 /\ freed' = FALSE
  /\ bad' = FALSE /\ early' = FALSE /\ clean' = AtRest
  /\ ring' = [c \in Channels |-> NoRing]
  /\ starts' = starts + 1
  /\ UNCHANGED <<ch, fifo, resetting, uio, faults>>

Fault == faults < MaxFaults /\ faults' = faults + 1 /\ bad' = TRUE

NoFault == UNCHANGED <<faults, bad>>

-----------------------------------------------------------------------------
(* Steps of a program                                                      *)

At(op) == todo # << >> /\ Head(todo).op = op

Of == CHOOSE c \in Head(todo).ch : TRUE

\* steps that write a register of the engine
Writes == {"halt", "run", "stop", "cdma", "sg_run", "ack", "length", "transfer", "to_hw", "issue"}

Goes ==
  /\ todo' = IF At("again") THEN passthrough_frame ELSE Tail(todo)
  /\ early' = (early \/ (resetting /\ Head(todo).op \in Writes))
  /\ UNCHANGED <<prog, clean, starts>>

Ends == todo' = << >> /\ UNCHANGED <<prog, early, clean, starts>>

\* the channel that decides how many packets are to arrive
Counted == IF prog \in LoopedBack THEN "tx" ELSE "rx"

Submits(c, n) ==
  /\ ch' = [ch EXCEPT ![c].queued = @ + n]
  /\ asked' = IF c = Counted THEN asked + n ELSE asked

\* the engine resets itself, and then clears the bit
Reset_ ==
  /\ At("reset")
  /\ Goes /\ NoFault
  /\ resetting' = TRUE
  /\ UNCHANGED <<ch, ring, fifo, dst, freed, asked, uio>>

\* the control and status registers; a CDMA channel always runs
Control ==
  /\ \/ At("halt") /\ ch' = [ch EXCEPT ![Of].run = FALSE, ![Of].irq = FALSE]
     \/ At("stop") /\ ch' = [ch EXCEPT ![Of].run = FALSE]
     \/ (At("run") \/ At("cdma")) /\ ch' = [ch EXCEPT ![Of].run = TRUE, ![Of].irq = TRUE]
     \/ At("sg_run") /\ ch' = [ch EXCEPT ![Of].run = TRUE]
     \/ At("ack")  /\ ch' = [ch EXCEPT ![Of].ioc = FALSE, ![Of].err = FALSE]
  /\ Goes /\ NoFault
  /\ UNCHANGED <<ring, fifo, dst, freed, asked, resetting, uio>>

\* a halted channel does not take a length
StartTransfer ==
  /\ \/ At("length") /\ IF ch[Of].run THEN Submits(Of, 1) ELSE UNCHANGED <<ch, asked>>
     \/ /\ At("transfer") /\ ch[Of].queued = 0
        /\ ch' = [ch EXCEPT ![Of].queued = 1, ![Of].run = TRUE, ![Of].err = FALSE]
        /\ asked' = IF Of = Counted THEN asked + 1 ELSE asked
  /\ Goes /\ NoFault
  /\ UNCHANGED <<ring, fifo, dst, freed, resetting, uio>>

\* polls, of the reset bit, of a completion, of one or an error, of the busy bits
Waited ==
  \/ (At("reset_done") \/ At("reset_tries")) /\ ~resetting
  \/ At("sync") /\ ch[Of].ioc /\ ch[Of].queued = 0
  \/ At("wait") /\ (ch[Of].ioc \/ ch[Of].err)
  \/ At("busy") /\ \A c \in Head(todo).ch : ch[c].queued = 0
  \/ At("complete") /\ ch[Of].ioc
  \/ At("errors") /\ ~ch[Of].err
  \/ At("idle") /\ ch[Of].queued = 0

Wait ==
  /\ Waited
  /\ Goes /\ NoFault
  /\ UNCHANGED <<ch, ring, fifo, dst, freed, asked, resetting, uio>>

\* wait_for_completion_timeout() gives up, or the tries to reset; the program goes on
Timeout ==
  /\ At("complete") \/ (At("reset_tries") /\ resetting)
  /\ Goes /\ Fault
  /\ UNCHANGED <<ch, ring, fifo, dst, freed, asked, resetting, uio>>

\* what a program gives up for: a device that cannot be mapped, a buffer or a
\* descriptor that is refused, data that are not the expected ones, a busy channel, a
\* channel with an error, and a halted channel that does not say it is idle
GivesUp ==
  /\ \/ (\E op \in {"open", "uio_open", "kmalloc", "prep", "create", "verify"} : At(op)) /\ Fault
     \/ At("transfer") /\ ch[Of].queued > 0 /\ NoFault
     \/ At("errors") /\ ch[Of].err /\ NoFault
     \/ At("idle") /\ (ch[Of].queued > 0 \/ ~ch[Of].run) /\ NoFault
     \/ At("alloc") /\ ring[Of].free = 0 /\ NoFault
  /\ Ends
  /\ UNCHANGED <<ch, ring, fifo, dst, freed, asked, resetting, uio>>

\* the scatter-gather rings
Ring ==
  /\ \/ At("create")    /\ ring' = [ring EXCEPT ![Of] = [NoRing EXCEPT !.free = Bds]] /\ UNCHANGED <<ch, asked>>
     \/ /\ At("alloc")  /\ ring[Of].free > 0
        /\ ring' = [ring EXCEPT ![Of].free = @ - 1, ![Of].pre = @ + 1] /\ UNCHANGED <<ch, asked>>
     \/ /\ At("alloc_all")
        /\ ring' = [ring EXCEPT ![Of].free = 0, ![Of].pre = @ + ring[Of].free] /\ UNCHANGED <<ch, asked>>
     \/ At("to_hw")     /\ ring' = [ring EXCEPT ![Of].pre = 0] /\ Submits(Of, ring[Of].pre)
     \/ /\ At("from_hw") /\ ch[Of].done > 0
        /\ ring' = [ring EXCEPT ![Of].post = @ + ch[Of].done]
        /\ ch' = [ch EXCEPT ![Of].done = 0] /\ UNCHANGED asked
     \/ At("free")      /\ ring' = [ring EXCEPT ![Of].free = @ + ring[Of].post, ![Of].post = 0]
                        /\ UNCHANGED <<ch, asked>>
  /\ Goes /\ NoFault
  /\ UNCHANGED <<fifo, dst, freed, resetting, uio>>

\* dmaengine: a descriptor is queued by its submission and given to the engine by
\* issue_pending; init_completion() precedes it
Engine ==
  /\ \/ At("prep")  /\ ch' = [ch EXCEPT ![Of].pending = 1] /\ UNCHANGED asked
     \/ /\ At("issue")
        /\ ch' = [ch EXCEPT ![Of] = [@ EXCEPT !.run = TRUE, !.ioc = FALSE, !.pending = 0,
                                              !.queued = @ + ch[Of].pending]]
        /\ asked' = IF Of = Counted THEN asked + ch[Of].pending ELSE asked
  /\ Goes /\ NoFault
  /\ UNCHANGED <<ring, fifo, dst, freed, resetting, uio>>

\* the UIO device: an open file sees the interrupts that follow, read() returns for one
\* and write() enables the interrupt again
Uio ==
  /\ \/ At("uio_open") /\ event' = FALSE /\ UNCHANGED masked
     \/ At("irq") /\ event /\ event' = FALSE /\ UNCHANGED masked
     \/ At("reenable") /\ masked' = FALSE /\ UNCHANGED event
  /\ Goes /\ NoFault
  /\ UNCHANGED <<ch, ring, fifo, dst, freed, asked, resetting>>

\* the buffers: allocated, read, given back
Buffer ==
  /\ \/ (\E op \in {"open", "kmalloc", "unmap", "read", "beyond", "verify", "end"} : At(op)) /\ UNCHANGED freed
     \/ At("kfree") /\ freed' = TRUE
  /\ Goes /\ NoFault
  /\ UNCHANGED <<ch, ring, fifo, dst, asked, resetting, uio>>

\* the next turn of an endless program, which counts its packets anew
Again ==
  /\ At("again")
  /\ Goes /\ NoFault
  /\ asked' = 0 /\ dst' = 0
  /\ UNCHANGED <<ch, ring, fifo, freed, resetting, uio>>

\* XUartPs_RecvByte() returns, if ever
Key ==
  /\ At("key")
  /\ Goes /\ NoFault
  /\ UNCHANGED <<ch, ring, fifo, dst, freed, asked, resetting, uio>>

Kill ==
  /\ todo # << >>
  /\ Ends /\ Fault
  /\ UNCHANGED <<ch, ring, fifo, dst, freed, asked, resetting, uio>>

Execute == Reset_ \/ Control \/ StartTransfer \/ Wait \/ Ring \/ Engine \/ Uio \/ Buffer \/ Again

-----------------------------------------------------------------------------
(* The engine                                                              *)

\* every register is as after power-on, whatever was written since the bit was set
ResetDone ==
  /\ resetting
  /\ resetting' = FALSE
  /\ ch' = [c \in Channels |-> [Idle EXCEPT !.pending = ch[c].pending]] /\ fifo' = 0
  /\ UNCHANGED <<prog, todo, ring, dst, freed, asked, uio, bad, early, clean, starts, faults>>

\* the handler of the UIO device counts an interrupt and masks it
Interrupt ==
  /\ ch["rx"].irq /\ (ch["rx"].ioc \/ ch["rx"].err) /\ ~masked
  /\ masked' = TRUE /\ event' = TRUE
  /\ UNCHANGED <<prog, todo, ch, ring, fifo, dst, freed, asked, resetting, bad, early, clean,
                 starts, faults>>

Working(c) == ch[c].run /\ ch[c].queued > 0

Finished(c) ==
  ch' = [ch EXCEPT ![c].queued = @ - 1, ![c].ioc = TRUE, ![c].done = IF prog = "sg_poll" THEN @ + 1 ELSE 0]

\* the last word of a packet has left for the stream
TxDone ==
  /\ Working("tx")
  /\ Finished("tx")
  /\ fifo' = IF prog \in LoopedBack THEN fifo + 1 ELSE fifo
  /\ UNCHANGED <<prog, todo, ring, dst, freed, asked, resetting, uio, bad, early, clean, starts,
                 faults>>

Arrives == prog \in LoopedBack => fifo > 0 \/ Working("tx")

\* a part of a packet is in memory; of a looped packet, while it is being sent
RxPart ==
  /\ Working("rx") /\ Arrives /\ dst # -1
  /\ dst' = -1
  /\ UNCHANGED <<prog, todo, ch, ring, fifo, freed, asked, resetting, uio, bad, early, clean, starts,
                 faults>>

\* of the packets asked for, the one whose arrival completes now
Arriving == asked - (IF Counted = "rx" THEN ch["rx"].queued ELSE ch["tx"].queued + fifo) + 1

RxDone ==
  /\ Working("rx") /\ (prog \in LoopedBack => fifo > 0)
  /\ Finished("rx")
  /\ fifo' = IF prog \in LoopedBack THEN fifo - 1 ELSE fifo
  /\ dst' = Arriving
  /\ UNCHANGED <<prog, todo, ring, freed, asked, resetting, uio, bad, early, clean, starts,
                 faults>>

Error ==
  /\ \E c \in Channels :
       Working(c) /\ ch' = [ch EXCEPT ![c].run = FALSE, ![c].queued = 0, ![c].err = TRUE]
  /\ Fault
  /\ UNCHANGED <<prog, todo, ring, fifo, dst, freed, asked, resetting, uio, early, clean, starts>>

Next ==
  \/ \E name \in Programs : Start(name)
  \/ Execute \/ Key \/ Timeout \/ GivesUp \/ Kill
  \/ ResetDone \/ Interrupt \/ TxDone \/ RxPart \/ RxDone \/ Error

\* a program goes on, and so does the engine: the stream neither stops nor stalls
Spec ==
  /\ Init /\ [][Next]_vars
  /\ WF_vars(Execute \/ GivesUp)
  /\ WF_vars(ResetDone) /\ WF_vars(Interrupt) /\ WF_vars(TxDone) /\ WF_vars(RxDone)
-----------------------------------------------------------------------------
(* Properties                                                              *)

\* What the properties are about: no program was killed, no transfer failed and no
\* wait timed out; no register was written before the engine had left the reset, for
\* which five programs and dma_passthrough_reset() do not wait; and the two that
\* depend on what they find, the module without a reset and the one whose interrupt
\* the UIO device may have masked for good, found an engine at rest.
Orderly == ~bad /\ ~early /\ (prog \in {"zynq_dma", "uio"} => clean)

\* A program that compares or prints its destination finds in it the packet it has
\* asked for, whole, whatever transfer a killed program left the engine with.  axidma
\* does not wait for the receiver, and linux_dma_app never starts it; what is printed
\* beyond the destination is not said to be anything.
ReadsFinished ==
  At("read") /\ Orderly /\ prog \notin {"axidma", "linux_dma"} => dst = asked /\ asked > 0

\* A program that ends in order leaves nothing for the engine to write into its memory,
\* and scatter-gather leaves all receive descriptors with the engine and all transmit
\* descriptors free.
QuietAfterExit ==
  (todo = << >> \/ freed) /\ Orderly /\ prog # "axidma" /\ starts > 0 =>
    IF prog # "sg_poll" THEN \A c \in Channels : ~Working(c)
    ELSE ch["rx"].queued = Bds /\ ring["tx"].free = Bds /\ ~Working("tx")

\* Every program ends or, in the endless main() of apps/dma/sw, comes to the frame after
\* which it waits for a key: no poll and no read() waits for what the engine was never
\* told to do.  linux_dma_app never sets the run bit of its channel.
Terminates ==
  (todo # << >> /\ prog # "linux_dma" /\ ~At("key")) ~> (todo = << >> \/ At("key") \/ ~Orderly)
=============================================================================
