----------------------------- MODULE RamWriter -----------------------------
(* axis_ram_writer, clock by clock: words from the data stream go through  *)
(* a FIFO36E1 and leave in AXI bursts of 16 beats.  A burst is started on  *)
(* the FIFO's almost-empty flag alone, so that once started it must never  *)
(* find the FIFO empty; the address register serves as burst address, as   *)
(* beat counter and, through sts_data, as the position the program reads.  *)
(*                                                                         *)
(* External parts: the FIFO primitive (a counter of words and its flags)   *)
(* and the memory port, which takes the address of a burst no later than   *)
(* its first beat and otherwise accepts whenever it likes.                 *)
EXTENDS Integers

CONSTANTS WRAP,       \* 2^ADDR_WIDTH
          FifoDepth,  \* words the FIFO holds
          AELevel,    \* ALMOSTEMPTY while the FIFO holds at most that many
          MaxWords    \* words stored in a session, at most (bound of a model)

(* The almost-empty level is what makes a started burst safe: 16 words     *)
(* must remain after the pop that may coincide with the decision to start. *)
ASSUME WriterAssumption ==
    /\ WRAP \in Nat \ {0} /\ WRAP % 16 = 0
    /\ FifoDepth \in Nat /\ AELevel \in Nat
    /\ AELevel >= 16 /\ AELevel < FifoDepth
    /\ MaxWords \in Nat

VARIABLES
    count,      \* words in the FIFO
    awvalid,    \* int_awvalid_reg
    wvalid,     \* int_wvalid_reg
    addr,       \* int_addr_reg = sts_data
    busy,       \* port: a burst's address is accepted, its beats are not all
    base,       \* port: address of that burst
    beat,       \* port: beats of it received
    cells,      \* memory behind the port: slot -> number of the word stored
    stored,     \* history: beats accepted in this session
    torn        \* history: a reset cut a burst that the port had accepted

vars == <<count, awvalid, wvalid, addr, busy, base, beat, cells, stored, torn>>

Empty == [s \in 0 .. WRAP - 1 |-> 0]

TypeOK ==
    /\ count \in 0 .. FifoDepth
    /\ awvalid \in {0, 1} /\ wvalid \in {0, 1}
    /\ addr \in 0 .. WRAP - 1
    /\ busy \in {0, 1} /\ base \in 0 .. WRAP - 1 /\ beat \in 0 .. 15
    /\ cells \in [0 .. WRAP - 1 -> Nat]
    /\ stored \in Nat
    /\ torn \in {0, 1}

Init ==
    /\ count = 0 /\ awvalid = 0 /\ wvalid = 0 /\ addr = 0
    /\ busy = 0 /\ base = 0 /\ beat = 0
    /\ cells = Empty /\ stored = 0 /\ torn = 0

-----------------------------------------------------------------------------
(* Combinational signals                                                   *)

MutAlmostempty == count < AELevel

almostempty == count <= AELevel                       \* int_empty_wire

MutWlast == addr % 16 = 0

wlast == addr % 16 = 15                               \* int_wlast_wire

\* A burst is started from rest ...
startIdle == ~almostempty /\ awvalid = 0 /\ wvalid = 0

\* ... or on the heels of the last beat of another.
chain(wready) == wready /\ wlast /\ ~almostempty

MutAwvalidNext(awready, wready) ==
    IF startIdle THEN 1
    ELSE IF awready /\ awvalid = 1 THEN 0 ELSE awvalid

awvalidNext(awready, wready) ==
    IF startIdle \/ chain(wready) THEN 1
    ELSE IF awready /\ awvalid = 1 THEN 0 ELSE awvalid

wvalidNext(wready) ==
    IF startIdle THEN 1
    ELSE IF wready /\ wlast /\ almostempty THEN 0 ELSE wvalid

MutAddrNext(rden) == addr + (IF rden THEN 1 ELSE 0)

addrNext(rden) ==
    IF rden THEN IF addr = WRAP - 1 THEN 0 ELSE addr + 1 ELSE addr

\* The port takes one address at a time, and a beat only of a burst whose
\* address it has taken, in the same clock at the latest.
portRules(awready, wready) ==
    /\ awready /\ awvalid = 1 => busy = 0
    /\ wready /\ wvalid = 1 => busy = 1 \/ (awready /\ awvalid = 1)

\* The memory after the port has put a beat at slot a.
Put(a) == [cells EXCEPT ![a] = stored + 1]

-----------------------------------------------------------------------------
\* One rising edge out of reset, for the inputs sampled at it.
Clock(tvalid, awready, wready) ==
    LET take == awready /\ awvalid = 1           \* address handshake
        rden == wready /\ wvalid = 1             \* beat handshake, FIFO read
        push == tvalid /\ count < FifoDepth
        b    == IF take THEN addr ELSE base      \* the burst being received
        n    == IF take THEN 0 ELSE beat         \* and its beats so far
    IN  /\ portRules(awready, wready)
        /\ rden => stored < MaxWords
        /\ count' = count + (IF push THEN 1 ELSE 0) - (IF rden THEN 1 ELSE 0)
        /\ awvalid' = awvalidNext(awready, wready)
        /\ wvalid' = wvalidNext(wready)
        /\ addr' = addrNext(rden)
        /\ base' = b
        /\ beat' = IF rden THEN (n + 1) % 16 ELSE n
        /\ busy' = IF rden THEN IF n = 15 THEN 0 ELSE 1
                   ELSE IF take THEN 1 ELSE busy
        /\ cells' = IF rden THEN Put(b + n) ELSE cells
        /\ stored' = IF rden THEN stored + 1 ELSE stored
        /\ UNCHANGED torn

\* aresetn low: main() cleared bit 2.  The registers and the FIFO are
\* cleared; the memory port is not reset and still waits for its beats.
Reset ==
    /\ count' = 0 /\ awvalid' = 0 /\ wvalid' = 0 /\ addr' = 0
    /\ cells' = Empty /\ stored' = 0
    /\ torn' = IF busy = 1 THEN 1 ELSE torn
    /\ UNCHANGED <<busy, base, beat>>

Next ==
    \/ \E tvalid, awready, wready \in BOOLEAN : Clock(tvalid, awready, wready)
    \/ Reset

Spec == Init /\ [][Next]_vars

(* The memory port takes what it is offered, sooner or later.              *)
Accept == \E tvalid, awready \in BOOLEAN : Clock(tvalid, awready, TRUE)

FairSpec == Spec /\ WF_vars(Accept)

-----------------------------------------------------------------------------
(* Properties                                                              *)

\* A beat is never offered from an empty FIFO: a burst once started has all
\* its 16 words, whatever the stream does meanwhile.
NoUnderflow == wvalid = 1 => count >= 16 - (addr % 16)

\* At rest the address is on a burst boundary (makes NoUnderflow inductive).
RestAligned == wvalid = 0 => addr % 16 = 0

\* Bursts start on multiples of 16 slots, so that none runs past the end of
\* the ring, and the port's own idea of the next beat's slot agrees with the
\* register the program reads as the position.
BurstAligned ==
    torn = 0 =>
        /\ busy = 1 => /\ base % 16 = 0 /\ base + beat = addr
                       /\ wvalid = 1 /\ awvalid = 0
        /\ wvalid = 1 /\ busy = 0 => awvalid = 1 /\ addr % 16 = 0
        /\ wvalid = 0 => awvalid = 0 /\ addr % 16 = 0

\* Word n of the session lies in slot n modulo the ring, in the order of
\* the stream, until a reset cuts a burst that the port had accepted.
Ring == INSTANCE RingStore
            WITH addr   <- IF torn = 1 THEN 0 ELSE addr,
                 cells  <- IF torn = 1 THEN Empty ELSE cells,
                 stored <- IF torn = 1 THEN 0 ELSE stored

Implements == Ring!Spec

\* A full FIFO, which stops the stream and with it the trigger, gets room
\* again.
StreamResumes == count = FifoDepth ~> count < FifoDepth \/ stored = MaxWords
=============================================================================
