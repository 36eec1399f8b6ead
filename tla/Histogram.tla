----------------------------- MODULE Histogram -----------------------------
(* axis_histogram v1.1, clock by clock, with the block memory that holds   *)
(* the bins: after reset the core clears every bin, then adds one to the   *)
(* bin of each sample it accepts, reading the bin through the memory's two *)
(* registers and writing it back.  The counter that is to stop it after    *)
(* the configured number of samples, and that the program polls, counts    *)
(* the clocks at which the core waits for a sample too.                    *)
(*                                                                         *)
(* External: the block memory (port A with its output register, the        *)
(* default of blk_mem_gen) and the stream, which offers what it likes: in  *)
(* the one design with the core it is the stream of the trigger, which has *)
(* samples within a record and none between.                               *)
EXTENDS Integers

CONSTANTS NB,        \* bins, 2^BRAM_ADDR_WIDTH
          MAXV,      \* largest value of a bin, 2^BRAM_DATA_WIDTH - 1
          N,         \* cfg_data: the samples to take plus one
          MaxAcc,    \* samples and counts, at most (bound of a model)
          MaxResets  \* resets, at most (bound of a model)

ASSUME HistogramAssumption ==
    /\ NB \in Nat \ {0} /\ MAXV \in Nat \ {0} /\ N \in Nat \ {0}
    /\ MaxAcc \in Nat /\ MaxResets \in Nat

Bins == 0 .. NB - 1

VARIABLES
    state, addr, data, tready, wren,   \* state_reg, addr_reg, data_reg, ...
    cntr, comp,                        \* cntr_reg = sts_data, comp_reg
    mem,                               \* the block memory
    latch, rddata,                     \* its two registers
    seen, accepted,                    \* history: samples accepted, by bin and in all
    waited,                            \* history: clocks without one, while ready
    resets

vars == <<state, addr, data, tready, wren, cntr, comp, mem, latch, rddata,
          seen, accepted, waited, resets>>

Zero == [b \in Bins |-> 0]

Init ==
    /\ state = "IDLE" /\ addr = 0 /\ data = 0 /\ tready = FALSE /\ wren = FALSE
    /\ cntr = 0 /\ comp = FALSE
    /\ mem = Zero /\ latch = 0 /\ rddata = 0
    /\ seen = Zero /\ accepted = 0 /\ waited = 0 /\ resets = 0

-----------------------------------------------------------------------------
\* One more in the bin that was read; all ones means that it is full.
Increment == /\ data' = (rddata + 1) % (MAXV + 1)
             /\ wren' = (rddata # MAXV)

LastBin == NB - 1

\* The state machine, for the sample on the stream.
WriteZeros ==
    /\ addr' = (addr + 1) % NB
    /\ IF addr = LastBin THEN state' = "READ_ADDR" /\ tready' = TRUE /\ wren' = FALSE
       ELSE UNCHANGED <<state, tready, wren>>
    /\ UNCHANGED data

ReadAddr(tvalid, tdata) ==
    /\ IF tvalid /\ comp THEN state' = "DELAY1" /\ addr' = tdata /\ tready' = FALSE
       ELSE UNCHANGED <<state, addr, tready>>
    /\ UNCHANGED <<data, wren>>

StateMachine(tvalid, tdata) ==
    \/ /\ state = "IDLE" /\ state' = "WRITE_ZEROS"
       /\ addr' = 0 /\ data' = 0 /\ wren' = TRUE /\ UNCHANGED tready
    \/ state = "WRITE_ZEROS" /\ WriteZeros
    \/ state = "READ_ADDR" /\ ReadAddr(tvalid, tdata)
    \/ state = "DELAY1" /\ state' = "INC_DATA" /\ UNCHANGED <<addr, data, tready, wren>>
    \/ state = "INC_DATA" /\ state' = "DELAY2" /\ Increment /\ UNCHANGED <<addr, tready>>
    \/ /\ state = "DELAY2" /\ state' = "READ_ADDR"
       /\ tready' = TRUE /\ wren' = FALSE /\ UNCHANGED <<addr, data>>

\* The counter that ends the histogram, and the comparison one clock later.
MutCount == /\ cntr' = IF tready THEN cntr + 1 ELSE cntr
            /\ comp' = (cntr # N - 1)

MutCountInverted == /\ cntr' = IF comp /\ tready THEN cntr + 1 ELSE cntr
                    /\ comp' = (cntr = N - 1)

Count == /\ cntr' = IF comp /\ tready THEN cntr + 1 ELSE cntr
         /\ comp' = (cntr # N - 1)

\* Port A: a write goes to addr_reg, a read comes from the sample's bin and
\* is in rddata two clocks later.
MutMemory(tdata) ==
    /\ mem' = IF wren THEN [mem EXCEPT ![addr] = data] ELSE mem
    /\ latch' = latch
    /\ rddata' = IF wren THEN data ELSE mem[tdata]

Memory(tdata) ==
    /\ mem' = IF wren THEN [mem EXCEPT ![addr] = data] ELSE mem
    /\ latch' = IF wren THEN data ELSE mem[tdata]
    /\ rddata' = latch

Clock(tvalid, tdata) ==
    LET takes == state = "READ_ADDR" /\ tvalid /\ comp
        waits == state = "READ_ADDR" /\ ~tvalid /\ comp
    IN  /\ accepted < MaxAcc /\ cntr < MaxAcc
        /\ StateMachine(tvalid, tdata)
        /\ Count
        /\ Memory(tdata)
        /\ seen' = IF takes THEN [seen EXCEPT ![tdata] = @ + 1] ELSE seen
        /\ accepted' = IF takes THEN accepted + 1 ELSE accepted
        /\ waited' = IF waits THEN waited + 1 ELSE waited
        /\ UNCHANGED resets

\* aresetn low: the program has cleared bit 5 or 6.  The memory keeps its bins.
Reset ==
    /\ resets < MaxResets /\ resets' = resets + 1
    /\ state' = "IDLE" /\ addr' = 0 /\ data' = 0 /\ tready' = FALSE /\ wren' = FALSE
    /\ cntr' = 0 /\ comp' = FALSE
    /\ latch' = 0 /\ rddata' = 0
    /\ seen' = Zero /\ accepted' = 0 /\ waited' = 0
    /\ UNCHANGED mem

Tick == \E tvalid \in BOOLEAN, tdata \in Bins : Clock(tvalid, tdata)

Next == Tick \/ Reset

Spec == Init /\ [][Next]_vars

(* The clock runs, whatever the stream.                                    *)
FairSpec == Spec /\ WF_vars(Tick)

-----------------------------------------------------------------------------
(* Properties                                                              *)

\* Each bin holds the samples accepted since the last reset, or is full:
\* no sample is added to another bin, none is lost, nothing is left from
\* before the reset.
BinsExact ==
    state = "READ_ADDR" =>
        \A b \in Bins : mem[b] = IF seen[b] < MAXV THEN seen[b] ELSE MAXV

\* The status register counts every sample the core takes and every clock it
\* waits for one, and nothing else: it is never behind the samples.  As long as
\* it has not had to wait, the core takes no more than the number configured
\* (once it has, the counter may step over the number and the core goes on).
SamplesCounted == /\ cntr = accepted + waited
                  /\ waited = 0 => accepted < N

\* The program, which polls the status register until it has reached the number
\* of samples, stops polling at last on every stream, one without a sample too.
Completes == <>[](cntr >= N - 1)
=============================================================================
