---------------------------- MODULE ReadoutRing ----------------------------
(* The read-out ring of the LAGO acquisition: the FPGA's axis_ram_writer   *)
(* stores 64-bit words in a circular buffer in DDR, the PPS interrupt      *)
(* makes wait_for_interrupt() sample the writer's address into the global  *)
(* `position', and read_buffer(position) decodes the buffer 32 bits at a   *)
(* time up to that address, remembering where it stopped in `current'.     *)
(*                                                                         *)
(* Writer, interrupt service threads and the reading loop interleave: the  *)
(* writer advances while read_buffer runs, and the thread created at the   *)
(* first access to the FPGA shares the interrupt and `position' with the   *)
(* main loop.  No index is exchanged in the other direction, so nothing    *)
(* but the data rate keeps the writer from overtaking the reader.          *)
(*                                                                         *)
(* The k-th 32-bit word of a session is represented by the number k; 0 is  *)
(* a memory cell that holds nothing of this session.                       *)
EXTENDS Integers, Sequences

CONSTANTS WRAP,      \* 64-bit words after which the writer's address wraps
          LIMIT,     \* `limit' of the reader, in bytes
          D,         \* words written from one sample used to the next, at most
          MaxWords   \* words written in a session, at most (bound of a model)

(* LIMIT is a whole number of 64-bit words, at least one.                  *)
ASSUME GeometryAssumption ==
    /\ WRAP \in Nat \ {0}
    /\ D \in Nat \ {0}
    /\ MaxWords \in Nat
    /\ LIMIT \in Nat \ {0} /\ LIMIT % 8 = 0

VARIABLES
    addr,        \* int_addr_reg, which is also sts_data
    mem,         \* the ring, by byte offset
    value, isr,  \* what a thread has read of the register; the service thread is to store it
    position,    \* the global written by wait_for_interrupt()
    current,     \* byte offset of the last word decoded
    i, readend,  \* locals of the loop in read_buffer()
    pc,          \* where the main loop of the program is
    interrupted, \* the flag set by signal_handler()
    printed,     \* the words decoded in this session
    written,     \* history: words written in this session
    taken,       \* history: `written' when a thread last read the register
    sampled,     \* history: `written' when what position holds was read
    used         \* history: `sampled' when read_buffer() was last called

vars == <<addr, mem, value, isr, position, current, i, readend, pc, interrupted,
          printed, written, taken, sampled, used>>

Threads == {"main", "isr"}

Offsets == {4 * k : k \in 0 .. 2 * WRAP - 1}

NothingStored == [a \in Offsets |-> 0]

TypeOK ==
    /\ addr \in 0 .. WRAP - 1
    /\ mem \in [Offsets -> Nat]
    /\ value \in [Threads -> 0 .. WRAP - 1] /\ isr \in {"poll", "store"}
    /\ position \in 0 .. WRAP - 1
    /\ current \in Int
    /\ i \in Nat /\ readend \in Nat
    /\ pc \in {"off", "wait", "store", "call", "read", "stop", "astray"}
    /\ interrupted \in BOOLEAN
    /\ printed \in Seq(Nat)
    /\ written \in Nat /\ taken \in [Threads -> Nat]
    /\ sampled \in Nat /\ used \in Nat

Init ==
    /\ addr = 0
    /\ mem = NothingStored
    /\ value = [t \in Threads |-> 0] /\ isr = "poll"
    /\ position = 0
    /\ current = 0
    /\ i = 0 /\ readend = 0
    /\ pc = "off"
    /\ interrupted = FALSE
    /\ printed = <<>>
    /\ written = 0 /\ taken = [t \in Threads |-> 0]
    /\ sampled = 0 /\ used = 0

-----------------------------------------------------------------------------
(* The FPGA                                                                *)

\* The address register is as wide as the ring.
NextAddr(a) == IF a = WRAP - 1 THEN 0 ELSE a + 1

\* One beat of a burst: the word goes to cfg_data + 8 * addr and the address
\* register moves on.
WriteWord ==
    /\ pc # "off"
    /\ written < MaxWords
    /\ written < used + D
    /\ mem' = [mem EXCEPT ![8 * addr] = 2 * written + 1,
                          ![8 * addr + 4] = 2 * written + 2]
    /\ addr' = NextAddr(addr)
    /\ written' = written + 1
    /\ UNCHANGED <<value, isr, position, current, i, readend, pc, interrupted, printed,
                   taken, sampled, used>>

-----------------------------------------------------------------------------
(* The program                                                             *)

\* The acquisition branch of main(): set the cursor, release the resets.
Start ==
    /\ pc = "off"
    /\ current' = -4
    /\ pc' = "wait"
    /\ interrupted' = FALSE
    /\ UNCHANGED <<addr, mem, value, isr, position, i, readend, printed, written,
                   taken, sampled, used>>

\* wait_for_interrupt() found the interrupt pending, acknowledges it and reads
\* the address ...
ReadPosition(t) ==
    /\ value' = [value EXCEPT ![t] = addr]
    /\ taken' = [taken EXCEPT ![t] = written]
    /\ UNCHANGED <<addr, mem, position, current, i, readend, interrupted, printed,
                   written, sampled, used>>

\* ... and stores it, later, in the global that the threads share; its copy is
\* not used again, and 0 from there on.
StorePosition(t) ==
    /\ position' = value[t]
    /\ sampled' = taken[t]
    /\ value' = [value EXCEPT ![t] = 0]
    /\ taken' = [taken EXCEPT ![t] = 0]
    /\ UNCHANGED <<addr, mem, current, i, readend, interrupted, printed, written, used>>

MainIrq ==
    /\ pc = "wait" /\ pc' = "store"
    /\ ReadPosition("main")
    /\ UNCHANGED isr

MainStore ==
    /\ pc = "store" /\ pc' = "call"
    /\ StorePosition("main")
    /\ UNCHANGED isr

\* poll() timed out, was interrupted by a signal, or the other thread had
\* acknowledged the interrupt: the loop goes on with the old position.
MainTimeout ==
    /\ pc = "wait"
    /\ pc' = "call"
    /\ UNCHANGED <<addr, mem, value, isr, position, current, i, readend, interrupted,
                   printed, written, taken, sampled, used>>

\* thread_isr_not_gps() took the interrupt.
ThreadIrq ==
    /\ pc # "off"
    /\ isr = "poll" /\ isr' = "store"
    /\ ReadPosition("isr")
    /\ UNCHANGED pc

ThreadStore ==
    /\ isr = "store" /\ isr' = "poll"
    /\ StorePosition("isr")
    /\ UNCHANGED pc

\* read_buffer()'s cursor after the hack that wraps it, and the range it
\* then reads, for the cursor c and the byte position p.
MutWrapCursor(c) == c

WrapCursor(c) == IF c = LIMIT - 4 THEN -4 ELSE c

MutReadRangeOnePastPos(c, p) ==
    IF c < p + 4 THEN [init |-> c + 4, end |-> p + 8]
    ELSE [init |-> c + 4, end |-> LIMIT]

MutReadRangeOnePastLimit(c, p) ==
    IF c < p + 4 THEN [init |-> c + 4, end |-> p]
    ELSE [init |-> c + 4, end |-> LIMIT + 4]

MutReadRangeTwice(c, p) ==
    IF c < p + 4 THEN [init |-> IF c < 0 THEN 0 ELSE c, end |-> p]
    ELSE [init |-> c + 4, end |-> LIMIT]

ReadRange(c, p) ==
    IF c < p + 4 THEN [init |-> c + 4, end |-> p]
    ELSE IF c > p THEN [init |-> c + 4, end |-> LIMIT]
    ELSE [init |-> 0, end |-> LIMIT]

\* The call of read_buffer(position), up to its loop, with a position that was
\* read no earlier than the one of the last call.
ReadBuffer ==
    LET p == 8 * position
        c == WrapCursor(current)
    IN  /\ pc = "call" /\ sampled >= used
        /\ current' = c
        /\ i' = ReadRange(c, p).init
        /\ readend' = IF c # p THEN ReadRange(c, p).end ELSE 0
        /\ pc' = "read"
        /\ used' = sampled
        /\ UNCHANGED <<addr, mem, value, isr, position, interrupted, printed, written,
                       taken, sampled>>

\* The same with an older one, which the other thread has read before that call
\* and stored after it: the cursor is past it, read_buffer() decodes the old
\* words of the rest of the ring, and nothing more is followed of the session.
ReadBufferAstray ==
    /\ pc = "call" /\ sampled < used
    /\ pc' = "astray"
    /\ UNCHANGED <<addr, mem, value, isr, position, current, i, readend, interrupted,
                   printed, written, taken, sampled, used>>

\* One turn of the loop: decode the word at i.
ReadWord ==
    /\ pc = "read"
    /\ i < readend
    /\ printed' = Append(printed, mem[i])
    /\ current' = i
    /\ i' = i + 4
    /\ UNCHANGED <<addr, mem, value, isr, position, readend, pc, interrupted, written,
                   taken, sampled, used>>

\* The loop and the call end; main() looks at the flag.
ReadDone ==
    /\ pc = "read"
    /\ ~(i < readend)
    /\ pc' = IF interrupted THEN "stop" ELSE "wait"
    /\ UNCHANGED <<addr, mem, value, isr, position, current, i, readend, interrupted,
                   printed, written, taken, sampled, used>>

\* signal_handler()
Signal ==
    /\ pc \in {"wait", "store", "call", "read", "astray"}
    /\ interrupted' = TRUE
    /\ UNCHANGED <<addr, mem, value, isr, position, current, i, readend, pc, printed,
                   written, taken, sampled, used>>

\* main() puts the data converter and the writer in reset; the process ends
\* and the kernel takes the buffer back.
MutResetWriter == UNCHANGED addr /\ mem' = NothingStored

ResetWriter == addr' = 0 /\ mem' = NothingStored

\* The end of main(): the writer, the globals and the buffer start afresh in
\* the next session.
Stop ==
    /\ pc = "stop" \/ (pc = "astray" /\ interrupted)
    /\ pc' = "off"
    /\ ResetWriter
    /\ value' = [t \in Threads |-> 0] /\ isr' = "poll"
    /\ position' = 0
    /\ current' = 0
    /\ i' = 0 /\ readend' = 0
    /\ printed' = <<>>
    /\ written' = 0 /\ taken' = [t \in Threads |-> 0]
    /\ sampled' = 0 /\ used' = 0
    /\ UNCHANGED interrupted

Next ==
    \/ WriteWord
    \/ Start \/ MainIrq \/ MainStore \/ MainTimeout \/ ThreadIrq \/ ThreadStore
    \/ ReadBuffer \/ ReadBufferAstray \/ ReadWord \/ ReadDone
    \/ Signal \/ Stop

Spec == Init /\ [][Next]_vars

-----------------------------------------------------------------------------
(* Fairness: the program's own steps, those of the service thread that has *)
(* taken an interrupt included, are taken whenever they can be; the PPS,   *)
(* real or generated, interrupts every second for as long as somebody      *)
(* keeps coming back to wait for it.                                       *)
MainStep == MainIrq \/ MainStore \/ MainTimeout \/ ReadBuffer \/ ReadBufferAstray
            \/ ReadWord \/ ReadDone

FairSpec == /\ Spec
            /\ WF_vars(MainStep) /\ WF_vars(ThreadStore)
            /\ SF_vars(MainIrq \/ ThreadIrq)

-----------------------------------------------------------------------------
(* Properties                                                              *)

\* read_buffer() decodes the FPGA's words in order, none skipped, repeated
\* or overwritten, whatever the interleaving of writer, threads and loop, up
\* to a call with a position older than the last call's, if there is one.
Stream == INSTANCE EventStream WITH produced <- written

Implements == Stream!Spec

\* While read_buffer() loops, every word it has yet to reach is still the
\* one that was there when it was called: the writer, which never waits,
\* has not come round to it.
PendingIntact ==
    pc = "read" =>
        \A k \in 0 .. (readend - i - 1) \div 4 :
            mem[i + 4 * k] = Len(printed) + 1 + k

\* "note: don't read after limit".
NeverReadsAfterLimit == pc = "read" /\ i < readend => i < LIMIT

\* A word that was written is decoded after some later interrupt or
\* timeout, the ones left behind when a call stopped at the end of the ring
\* included, unless the program is told to stop first or a thread's late store
\* has led the loop astray.
Delivered ==
    \A n \in 1 .. MaxWords :
        written >= n ~> (Len(printed) >= 2 * n \/ interrupted \/ pc = "astray")

-----------------------------------------------------------------------------
(* The inductive invariant behind the safety properties.                   *)

\* Number of the first word of the writer's current turn of the ring.
lap == written - addr

\* Bytes decoded, and bytes decoded before the reader's turn of the ring.
decoded == 4 * Len(printed)
readlap == decoded - (current + 4)

\* The ring holds the last WRAP words written.
MemInv ==
    /\ lap = 0 \/ lap >= WRAP
    /\ \A s \in 0 .. WRAP - 1 :
          IF s < addr
          THEN /\ mem[8 * s] = 2 * (lap + s) + 1
               /\ mem[8 * s + 4] = 2 * (lap + s) + 2
          ELSE lap > 0 =>
               /\ mem[8 * s] = 2 * (lap - WRAP + s) + 1
               /\ mem[8 * s + 4] = 2 * (lap - WRAP + s) + 2

\* The samples are recent, at most one turn of the ring behind the writer,
\* unless they are older than the one that was used last.
Recent(p, n) == n <= written /\ (n >= used => n - p \in {lap, lap - WRAP})

SampleInv ==
    /\ used <= written /\ written <= used + D
    /\ Recent(position, sampled)
    /\ pc = "store" => Recent(value["main"], taken["main"])
    /\ isr = "store" => Recent(value["isr"], taken["isr"])

\* The cursor between two calls: all that was sampled is decoded, but for
\* what lies past the end of the ring when the last call stopped there.
CursorInv ==
    pc # "off" =>
        /\ current \in -4 .. LIMIT - 4
        /\ readlap \in {8 * lap, 8 * (lap - WRAP)}
        /\ decoded <= 8 * used
        /\ pc # "read" =>
              /\ (current + 4) % 8 = 0
              /\ \/ decoded = 8 * used
                 \/ /\ current = LIMIT - 4
                    /\ 8 * used - decoded <= 8 * (D - 1)

\* The loop of read_buffer().
LoopInv ==
    pc = "read" =>
        /\ i % 4 = 0
        /\ readend % 8 = 0
        /\ i = current + 4 /\ i <= readend /\ readend <= LIMIT
        /\ 8 * used - decoded <= 8 * (2 * D - 1)
        /\ \/ decoded + (readend - i) = 8 * used
           \/ /\ readend = LIMIT
              /\ decoded + (readend - i) <= 8 * used
              /\ 8 * used - (decoded + (readend - i)) <= 8 * (D - 1)

ExactStream == \A k \in 1 .. Len(printed) : printed[k] = k

OffInv == pc = "off" => written = 0 /\ printed = <<>> /\ used = 0

IInv == TypeOK /\ MemInv /\ SampleInv /\ CursorInv /\ LoopInv /\ ExactStream
        /\ OffInv
=============================================================================
