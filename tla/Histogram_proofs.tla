-------------------------- MODULE Histogram_proofs --------------------------
(* The histogram is exact for every number of bins, every width of a bin   *)
(* and every number of samples: proofs about Histogram.                    *)
EXTENDS Histogram, TLAPS

\* What a bin holds after n samples.
Sat(n) == IF n < MAXV THEN n ELSE MAXV

Busy == {"DELAY1", "INC_DATA", "DELAY2"}

TypeOK ==
    /\ state \in {"IDLE", "WRITE_ZEROS", "READ_ADDR"} \cup Busy
    /\ addr \in Bins /\ data \in 0 .. MAXV
    /\ latch \in 0 .. MAXV /\ rddata \in 0 .. MAXV
    /\ cntr \in Nat /\ accepted \in Nat /\ waited \in Nat
    /\ mem \in [Bins -> 0 .. MAXV] /\ seen \in [Bins -> Nat]

\* The handshake registers follow the state.
Handshake ==
    /\ tready = (state = "READ_ADDR")
    /\ comp \in BOOLEAN
    /\ state = "WRITE_ZEROS" => wren = TRUE /\ data = 0
    /\ state \in {"IDLE", "READ_ADDR", "DELAY1", "INC_DATA"} => wren = FALSE

\* Before the first sample: the bins below addr are clear.
Clearing ==
    state \in {"IDLE", "WRITE_ZEROS"} =>
        /\ seen = Zero /\ accepted = 0 /\ waited = 0 /\ cntr = 0
        /\ state = "WRITE_ZEROS" => \A b \in Bins : b < addr => mem[b] = 0

\* While a sample is on its way its bin lacks it, all others are exact ...
OneBehind ==
    state \in Busy =>
        /\ seen[addr] > 0 /\ mem[addr] = Sat(seen[addr] - 1)
        /\ \A b \in Bins \ {addr} : mem[b] = Sat(seen[b])

\* ... and the value of its bin moves through the memory's registers.
Pipeline ==
    /\ state = "DELAY1" => latch = mem[addr]
    /\ state = "INC_DATA" => rddata = mem[addr]
    /\ state = "DELAY2" => /\ wren = (mem[addr] # MAXV)
                           /\ wren => data = mem[addr] + 1

\* The comparison is one clock late: in time for the next sample, and too late for
\* a clock without one.
Counting ==
    /\ cntr = accepted + waited
    /\ waited = 0 => cntr < N /\ (state = "READ_ADDR" /\ comp => cntr < N - 1)

IInv == TypeOK /\ Handshake /\ Clearing /\ OneBehind /\ Pipeline /\ BinsExact /\ Counting

-----------------------------------------------------------------------------
LEMMA ModBelow ==
    ASSUME NEW a \in Nat, NEW m \in Nat, a < m
    PROVE  a % m = a
OBVIOUS

LEMMA ZeroBins == Zero \in [Bins -> Nat] /\ \A b \in Bins : Zero[b] = 0
BY DEF Zero

LEMMA SatRange ==
    /\ \A n \in Nat : Sat(n) \in 0 .. MAXV
    /\ Sat(0) = 0
    /\ \A n \in Nat \ {0} : Sat(n - 1) = MAXV => Sat(n) = MAXV
    /\ \A n \in Nat \ {0} : Sat(n - 1) # MAXV => Sat(n) = Sat(n - 1) + 1
BY HistogramAssumption DEF Sat

LEMMA BinsExactSat ==
    BinsExact <=> (state = "READ_ADDR" => \A b \in Bins : mem[b] = Sat(seen[b]))
BY DEF BinsExact, Sat

LEMMA InitIInv == Init => IInv
<1> SUFFICES ASSUME Init PROVE IInv
  OBVIOUS
<1>1. 0 \in Bins /\ Zero \in [Bins -> 0 .. MAXV]
  BY HistogramAssumption DEF Bins, Zero
<1>2. TypeOK
  BY <1>1, ZeroBins, HistogramAssumption DEF Init, TypeOK
<1>3. Handshake /\ Clearing /\ OneBehind /\ Pipeline /\ BinsExact
  BY DEF Init, Handshake, Clearing, OneBehind, Pipeline, BinsExact, Busy
<1>4. Counting
  BY HistogramAssumption DEF Init, Counting
<1> QED BY <1>2, <1>3, <1>4 DEF IInv

LEMMA ResetIInv == IInv /\ Reset => IInv'
<1> SUFFICES ASSUME IInv, Reset PROVE IInv'
  OBVIOUS
<1>1. 0 \in Bins
  BY HistogramAssumption DEF Bins
<1>2. TypeOK'
  BY <1>1, ZeroBins, HistogramAssumption DEF Reset, IInv, TypeOK
<1>3. Handshake' /\ Clearing' /\ OneBehind' /\ Pipeline' /\ BinsExact'
  BY DEF Reset, Handshake, Clearing, OneBehind, Pipeline, BinsExact, Busy
<1>4. Counting'
  BY HistogramAssumption DEF Reset, Counting
<1> QED BY <1>2, <1>3, <1>4 DEF IInv

-----------------------------------------------------------------------------
(* One clock.  The memory's port in terms of the state.                    *)

LEMMA ClockType ==
    ASSUME IInv, NEW tvalid \in BOOLEAN, NEW tdata \in Bins, Clock(tvalid, tdata)
    PROVE  TypeOK'
<1> USE DEF IInv, TypeOK
<1>1. state' \in {"IDLE", "WRITE_ZEROS", "READ_ADDR"} \cup Busy
  BY DEF Clock, StateMachine, WriteZeros, ReadAddr, Busy
<1>2. addr' \in Bins
  <2>1. 0 \in Bins /\ (addr + 1) % NB \in Bins
    BY HistogramAssumption DEF Bins
  <2> QED BY <2>1 DEF Clock, StateMachine, WriteZeros, ReadAddr
<1>3. data' \in 0 .. MAXV
  <2>1. (rddata + 1) % (MAXV + 1) \in 0 .. MAXV
    BY HistogramAssumption
  <2> QED BY <2>1, HistogramAssumption DEF Clock, StateMachine, WriteZeros, ReadAddr, Increment
<1>4. mem' \in [Bins -> 0 .. MAXV] /\ latch' \in 0 .. MAXV /\ rddata' \in 0 .. MAXV
  BY DEF Clock, Memory
<1>5. cntr' \in Nat /\ accepted' \in Nat /\ waited' \in Nat /\ seen' \in [Bins -> Nat]
  BY DEF Clock, Count
<1> QED BY <1>1, <1>2, <1>3, <1>4, <1>5

LEMMA ClockHandshake ==
    ASSUME IInv, NEW tvalid \in BOOLEAN, NEW tdata \in Bins, Clock(tvalid, tdata)
    PROVE  Handshake'
<1>1. comp' \in BOOLEAN
  BY DEF Clock, Count
<1> QED BY <1>1 DEF IInv, Handshake, Busy, TypeOK, Clock, StateMachine, WriteZeros, ReadAddr, Increment

LEMMA ClockCounting ==
    ASSUME IInv, NEW tvalid \in BOOLEAN, NEW tdata \in Bins, Clock(tvalid, tdata)
    PROVE  Counting'
<1>1. /\ cntr = accepted + waited /\ cntr \in Nat /\ accepted \in Nat /\ waited \in Nat
      /\ waited = 0 => cntr < N /\ (state = "READ_ADDR" /\ comp => cntr < N - 1)
  BY DEF IInv, TypeOK, Counting
<1>s. /\ cntr' = IF comp /\ state = "READ_ADDR" THEN cntr + 1 ELSE cntr
      /\ accepted' = IF state = "READ_ADDR" /\ tvalid /\ comp THEN accepted + 1 ELSE accepted
      /\ waited' = IF state = "READ_ADDR" /\ ~tvalid /\ comp THEN waited + 1 ELSE waited
  BY DEF IInv, Handshake, Clock, Count
<1>2. cntr' = accepted' + waited'
  <2>1. CASE state = "READ_ADDR" /\ comp /\ tvalid
    BY <1>1, <1>s, <2>1
  <2>2. CASE state = "READ_ADDR" /\ comp /\ ~tvalid
    BY <1>1, <1>s, <2>2
  <2>3. CASE ~(state = "READ_ADDR" /\ comp)
    BY <1>1, <1>s, <2>3
  <2> QED BY <2>1, <2>2, <2>3
<1>3. ASSUME waited' = 0
      PROVE  cntr' < N /\ (state' = "READ_ADDR" /\ comp' => cntr' < N - 1)
  <2>1. waited = 0 /\ (state = "READ_ADDR" /\ comp => tvalid)
    <3>1. ~(state = "READ_ADDR" /\ ~tvalid /\ comp)
      BY <1>1, <1>3, <1>s
    <3>2. waited' = waited
      BY <1>s, <3>1
    <3> QED BY <1>3, <3>1, <3>2
  <2>2. cntr' < N
    BY <1>1, <1>s, <2>1, HistogramAssumption
  <2>3. ASSUME state' = "READ_ADDR", comp' PROVE cntr' < N - 1
    <3>1. state = "READ_ADDR" => ~comp
      BY <2>1, <2>3 DEF Clock, StateMachine, ReadAddr
    <3>2. cntr' = cntr /\ cntr # N - 1
      BY <2>3, <3>1 DEF Clock, Count, IInv, Handshake
    <3> QED BY <1>1, <2>1, <3>2, HistogramAssumption
  <2> QED BY <2>2, <2>3
<1> QED BY <1>2, <1>3 DEF Counting

\* The bins, state by state.
LEMMA ClockBins ==
    ASSUME IInv, NEW tvalid \in BOOLEAN, NEW tdata \in Bins, Clock(tvalid, tdata)
    PROVE  Clearing' /\ OneBehind' /\ Pipeline' /\ BinsExact'
<1> USE HistogramAssumption
<1> DEFINE Goal == Clearing' /\ OneBehind' /\ Pipeline' /\ BinsExact'
<1>t. /\ addr \in Bins /\ data \in 0 .. MAXV /\ rddata \in 0 .. MAXV
      /\ mem \in [Bins -> 0 .. MAXV] /\ seen \in [Bins -> Nat]
      /\ state \in {"IDLE", "WRITE_ZEROS", "READ_ADDR"} \cup Busy
  BY DEF IInv, TypeOK
<1>1. CASE state = "IDLE"
  <2>1. state' = "WRITE_ZEROS" /\ addr' = 0 /\ UNCHANGED <<seen, accepted, waited, cntr>>
    BY <1>1 DEF Clock, StateMachine, Count, IInv, Handshake
  <2>2. Clearing'
    BY <1>1, <2>1 DEF IInv, Clearing, Bins
  <2> QED BY <2>1, <2>2 DEF OneBehind, Pipeline, BinsExact, Busy
<1>2. CASE state = "WRITE_ZEROS"
  <2>1. /\ mem' = [mem EXCEPT ![addr] = 0]
        /\ UNCHANGED <<seen, accepted, waited, cntr>>
        /\ seen = Zero /\ \A b \in Bins : b < addr => mem[b] = 0
    BY <1>2 DEF Clock, Memory, Count, IInv, Handshake, Clearing
  <2>2. \A b \in Bins : b <= addr => mem'[b] = 0
    BY <2>1, <1>t DEF Bins
  <2>3. CASE addr = LastBin
    <3>1. state' = "READ_ADDR"
      BY <1>2, <2>3 DEF Clock, StateMachine, WriteZeros
    <3>2. \A b \in Bins : mem'[b] = 0 /\ seen'[b] = 0
      BY <2>1, <2>2, <2>3, ZeroBins DEF LastBin, Bins
    <3>3. BinsExact'
      BY <3>2 DEF BinsExact
    <3> QED BY <3>1, <3>3 DEF Clearing, OneBehind, Pipeline, Busy
  <2>4. CASE addr # LastBin
    <3>1. state' = "WRITE_ZEROS" /\ addr' = (addr + 1) % NB
      BY <1>2, <2>4 DEF Clock, StateMachine, WriteZeros
    <3>2. addr' = addr + 1
      <4>1. addr + 1 \in Nat /\ addr + 1 < NB
        BY <2>4, <1>t DEF LastBin, Bins
      <4> QED BY <3>1, <4>1, ModBelow
    <3>3. \A b \in Bins : b < addr' => mem'[b] = 0
      BY <3>2, <2>2, <1>t DEF Bins
    <3>4. Clearing'
      BY <1>2, <2>1, <3>1, <3>3 DEF Clearing, IInv
    <3> QED BY <3>1, <3>4 DEF OneBehind, Pipeline, BinsExact, Busy
  <2> QED BY <2>3, <2>4
<1>3. CASE state = "READ_ADDR"
  <2>1. mem' = mem /\ latch' = mem[tdata] /\ \A b \in Bins : mem[b] = Sat(seen[b])
    BY <1>3, BinsExactSat DEF Clock, Memory, IInv, Handshake
  <2>2. CASE tvalid /\ comp
    <3>1. state' = "DELAY1" /\ addr' = tdata /\ seen' = [seen EXCEPT ![tdata] = @ + 1]
      BY <1>3, <2>2 DEF Clock, StateMachine, ReadAddr
    <3>2. seen'[addr'] = seen[tdata] + 1 /\ \A b \in Bins \ {addr'} : seen'[b] = seen[b]
      BY <3>1, <1>t
    <3>3. seen[tdata] \in Nat /\ seen'[addr'] > 0 /\ seen'[addr'] - 1 = seen[tdata]
      BY <3>2, <1>t
    <3>4. OneBehind'
      BY <2>1, <3>1, <3>2, <3>3 DEF OneBehind
    <3>5. Pipeline'
      BY <2>1, <3>1 DEF Pipeline
    <3> QED BY <3>1, <3>4, <3>5 DEF Clearing, BinsExact
  <2>3. CASE ~(tvalid /\ comp)
    <3>1. state' = "READ_ADDR" /\ seen' = seen
      BY <1>3, <2>3 DEF Clock, StateMachine, ReadAddr
    <3>2. BinsExact'
      BY <1>3, <2>1, <3>1 DEF BinsExact, IInv
    <3> QED BY <3>1, <3>2 DEF Clearing, OneBehind, Pipeline, Busy
  <2> QED BY <2>2, <2>3
<1>4. CASE state = "DELAY1"
  <2>1. /\ state' = "INC_DATA" /\ rddata' = mem[addr]
        /\ UNCHANGED <<mem, seen, addr>>
    BY <1>4 DEF Clock, StateMachine, Memory, IInv, Handshake, Pipeline
  <2>2. OneBehind'
    BY <1>4, <2>1 DEF IInv, OneBehind, Busy
  <2> QED BY <2>1, <2>2 DEF Clearing, Pipeline, BinsExact
<1>5. CASE state = "INC_DATA"
  <2>1. /\ state' = "DELAY2" /\ UNCHANGED <<mem, seen, addr>>
        /\ data' = (rddata + 1) % (MAXV + 1) /\ wren' = (rddata # MAXV)
        /\ rddata = mem[addr]
    BY <1>5 DEF Clock, StateMachine, Increment, Memory, IInv, Handshake, Pipeline
  <2>2. OneBehind'
    BY <1>5, <2>1 DEF IInv, OneBehind, Busy
  <2>3. rddata # MAXV => data' = rddata + 1
    BY <2>1, <1>t
  <2>4. Pipeline'
    BY <2>1, <2>3 DEF Pipeline
  <2> QED BY <2>1, <2>2, <2>4 DEF Clearing, BinsExact
<1>6. CASE state = "DELAY2"
  <2>1. /\ state' = "READ_ADDR" /\ UNCHANGED <<seen, addr>>
        /\ mem' = IF wren THEN [mem EXCEPT ![addr] = data] ELSE mem
        /\ wren = (mem[addr] # MAXV) /\ (wren => data = mem[addr] + 1)
    BY <1>6 DEF Clock, StateMachine, Memory, IInv, Pipeline
  <2>2. /\ seen[addr] \in Nat \ {0} /\ mem[addr] = Sat(seen[addr] - 1)
        /\ \A b \in Bins \ {addr} : mem[b] = Sat(seen[b])
    BY <1>6, <1>t DEF IInv, OneBehind, Busy
  <2>3. mem'[addr] = Sat(seen[addr])
    BY <2>1, <2>2, <1>t, SatRange
  <2>4. \A b \in Bins : mem'[b] = Sat(seen'[b])
    BY <2>1, <2>2, <2>3, <1>t
  <2>5. BinsExact'
    BY <2>4 DEF BinsExact, Sat
  <2> QED BY <2>1, <2>5 DEF Clearing, OneBehind, Pipeline, Busy
<1> QED BY <1>t, <1>1, <1>2, <1>3, <1>4, <1>5, <1>6 DEF Busy

\* IInv is inductive: resets at any clock, and every stream.
THEOREM HistogramInvariant == Spec => []IInv
<1>1. Init => IInv
  BY InitIInv
<1>2. IInv /\ [Next]_vars => IInv'
  <2> SUFFICES ASSUME IInv, [Next]_vars PROVE IInv'
    OBVIOUS
  <2>1. ASSUME NEW tvalid \in BOOLEAN, NEW tdata \in Bins, Clock(tvalid, tdata)
        PROVE  IInv'
    BY <2>1, ClockType, ClockHandshake, ClockCounting, ClockBins DEF IInv
  <2>2. CASE Reset
    BY <2>2, ResetIInv
  <2>3. CASE UNCHANGED vars
    BY <2>3 DEF vars, IInv, TypeOK, Handshake, Clearing, OneBehind, Pipeline, BinsExact, Counting
  <2> QED BY <2>1, <2>2, <2>3 DEF Next, Tick
<1> QED BY <1>1, <1>2, PTL DEF Spec

\* Whenever the core waits for a sample each bin holds the samples accepted since
\* the last reset, or is full.
THEOREM BinsAreExact == Spec => []BinsExact
<1>1. IInv => BinsExact
  BY DEF IInv
<1> QED BY <1>1, HistogramInvariant, PTL

\* On every stream the status register counts the samples accepted and the clocks
\* waited for one, and the samples are fewer than the configured number until the
\* core has had to wait.
THEOREM SamplesAreCounted == Spec => []SamplesCounted
<1>1. IInv => SamplesCounted
  BY DEF IInv, TypeOK, Counting, SamplesCounted
<1> QED BY <1>1, HistogramInvariant, PTL
=============================================================================
