---------------------------- MODULE LagoTrigger ----------------------------
(* axis_lago_trigger v1.3, clock by clock: the state machine that turns    *)
(* triggers, sub-triggers and the PPS into records of 32-bit words on the  *)
(* stream to the memory writer:                                            *)
(*   a trigger      NSAMP samples, a status word, a counter word           *)
(*   a sub-trigger  NSUB words                                             *)
(*   a PPS          NMETA words of metadata                                *)
(* The registers the words are taken from are overwritten by the next      *)
(* trigger or PPS whether or not the record has been sent, and the burst   *)
(* counter restarts whenever the stream stalls.  A record is sent from the *)
(* shift register while it moves: the core stops taking samples, so that   *)
(* the register fills with repetitions of one sample.                      *)
(*                                                                         *)
(* One channel is modelled.  A word carries its kind, its place k in the   *)
(* record and the number id of the trigger or PPS whose registers it was   *)
(* taken from.  Whether a sample crosses the threshold is an input; that   *)
(* a sample repeated while the input is held cannot cross is not.  The     *)
(* scaler is a register that "lago -s sc1" rewrites at any time, with any  *)
(* value: lowered to the count already reached, or 0, it makes a trigger   *)
(* without a crossing, in the middle of a record too.                      *)
EXTENDS Integers, Sequences

CONSTANTS NSAMP,     \* DATA_ARRAY_LENGTH
          NMETA,     \* METADATA_ARRAY_LENGTH
          NSUB,      \* SUBTRIG_ARRAY_LENGTH
          BIN,       \* bin of the shift register compared with the level
          ScalerValues,   \* values the operator gives to scaler_a_i
          ScalerWrap,     \* values of the 32-bit scaler counter
          CntWrap,        \* values of the 30-bit trigger counter
          PpsGap,    \* clocks from one PPS to the next, at least
          MaxPps     \* PPS pulses, at most (bound of a model)

\* A crossing in bin 2 or below could still come while the status word is sent,
\* and a PPS before the metadata of the last one has been sent.  The core
\* compares bin 10 of 20, and sends 12 words of metadata in a second.
ASSUME TriggerAssumption ==
    /\ NSAMP \in Nat /\ NMETA \in Nat \ {0} /\ NSUB \in Nat \ {0}
    /\ BIN \in 3 .. NSAMP - 1
    /\ ScalerWrap \in Nat \ {0} /\ ScalerValues \subseteq 0 .. ScalerWrap - 1
    /\ CntWrap \in Nat \ {0}
    /\ PpsGap \in Nat /\ NMETA <= PpsGap + 1
    /\ MaxPps \in Nat

VARIABLES
    state, wr_count,      \* state_reg, wr_count_reg
    data, tvalid,         \* data_to_fifo_reg, axis_tvalid_reg
    tready,               \* axis_tready_reg: the core takes samples
    adc_live,             \* adc_reg holds a sample taken at the last clock
    live,                 \* the same for the bins the sample has before it, to BIN
    dly, scaler_cnt,      \* tr11_s_dly_reg, scaler_a_cnt_reg
    scaler_a_i,           \* the register of the operator
    trig_cnt,             \* trig_cnt_reg
    tr_status,            \* trigger whose status tr_status_reg holds
    cnt_status,           \* trigger whose number cnt_status_reg holds
    array_pps,            \* PPS whose data array_pps_reg holds
    m_tready,             \* m_axis_tready at the last clock
    last,                 \* history: last word the stream accepted
    lastCnt,              \* history: last counter word accepted
    stalled,              \* history: the stream stalled in this record
    prevStalled,          \* history: and in the one before
    rescaled,             \* history: the scaler was rewritten since it began
    wrapped,              \* history: the trigger counter wrapped since the reset
    ppsCount, gap         \* history: PPS pulses, clocks since the last one

vars == <<state, wr_count, data, tvalid, tready, adc_live, live, dly,
          scaler_cnt, scaler_a_i, trig_cnt, tr_status, cnt_status, array_pps,
          m_tready, last, lastCnt, stalled, prevStalled, rescaled, wrapped,
          ppsCount, gap>>

States == {"IDLE", "ATT_TR", "SEND_TR_STATUS", "SEND_CNT_STATUS",
           "ATT_SUBTR", "ATT_PPS"}
Word(kind, k, id) == [kind |-> kind, k |-> k, id |-> id]
NoWord == Word("none", 0, 0)

Init ==
    /\ state = "IDLE" /\ wr_count = 0
    /\ data = NoWord /\ tvalid = FALSE /\ tready = FALSE
    /\ adc_live = FALSE /\ live = [b \in BIN .. NSAMP - 1 |-> FALSE]
    /\ dly = FALSE /\ scaler_cnt = 0 /\ scaler_a_i \in ScalerValues /\ trig_cnt = 0
    /\ tr_status = 0 /\ cnt_status = 0 /\ array_pps = 0
    /\ m_tready = FALSE
    /\ last = NoWord /\ lastCnt = 0
    /\ stalled = FALSE /\ prevStalled = FALSE /\ rescaled = FALSE /\ wrapped = FALSE
    /\ ppsCount = 0 /\ gap = PpsGap

-----------------------------------------------------------------------------
\* tr_s: the scaler has counted its crossings.
tr_s == scaler_cnt = scaler_a_i

\* The input register and the shift register move at every clock, with a new
\* sample only if the core was ready for one.
ShiftSamples ==
    /\ adc_live' = tready
    /\ live' = [b \in BIN .. NSAMP - 1 |->
                   IF b = NSAMP - 1 THEN adc_live ELSE live[b + 1]]

\* A crossing (tr1) needs nine lower samples before it, so that two never
\* follow each other, and a sample that is not a repetition.
MutCrossing(tr1) == tr1 => ~dly

Crossing(tr1) == tr1 => live[BIN] /\ ~dly

CountCrossings(tr1) ==
    /\ dly' = tr1
    /\ scaler_cnt' = IF tr1 THEN (scaler_cnt + 1) % ScalerWrap
                     ELSE IF tr_s THEN 0 ELSE scaler_cnt

\* A trigger overwrites the status and the number to be sent.
MutLatchTrigger ==
    IF tr_s THEN /\ tr_status' = trig_cnt + 1
                 /\ cnt_status' = trig_cnt + 1
                 /\ UNCHANGED <<trig_cnt, wrapped>>
    ELSE UNCHANGED <<tr_status, cnt_status, trig_cnt, wrapped>>

LatchTrigger ==
    IF tr_s THEN /\ tr_status' = trig_cnt + 1
                 /\ cnt_status' = trig_cnt + 1
                 /\ trig_cnt' = (trig_cnt + 1) % CntWrap
                 /\ wrapped' = (wrapped \/ trig_cnt = CntWrap - 1)
    ELSE UNCHANGED <<tr_status, cnt_status, trig_cnt, wrapped>>

\* A PPS overwrites the metadata to be sent.
LatchPps(pps) ==
    /\ array_pps' = IF pps THEN ppsCount + 1 ELSE array_pps
    /\ ppsCount' = IF pps THEN ppsCount + 1 ELSE ppsCount
    /\ gap' = IF pps THEN 0 ELSE IF gap < PpsGap THEN gap + 1 ELSE gap

\* Which record ST_IDLE starts.
Serve(pps, sub) ==
    IF pps THEN "ATT_PPS" ELSE IF tr_s THEN "ATT_TR"
    ELSE IF sub THEN "ATT_SUBTR" ELSE "IDLE"

\* state_next when the stream is ready.
MutNextState(pps, sub) ==
    CASE state = "IDLE"            -> Serve(pps, sub)
      [] state = "ATT_TR"          -> IF wr_count = NSAMP - 1 THEN "SEND_TR_STATUS" ELSE state
      [] state = "SEND_TR_STATUS"  -> "SEND_CNT_STATUS"
      [] state = "SEND_CNT_STATUS" -> state
      [] state = "ATT_SUBTR"       -> IF wr_count = NSUB - 1 THEN "IDLE" ELSE state
      [] state = "ATT_PPS"         -> IF wr_count = NMETA - 1 THEN "IDLE" ELSE state

NextState(pps, sub) ==
    CASE state = "IDLE"            -> Serve(pps, sub)
      [] state = "ATT_TR"          -> IF wr_count = NSAMP - 1 THEN "SEND_TR_STATUS" ELSE state
      [] state = "SEND_TR_STATUS"  -> "SEND_CNT_STATUS"
      [] state = "SEND_CNT_STATUS" -> "IDLE"
      [] state = "ATT_SUBTR"       -> IF wr_count = NSUB - 1 THEN "IDLE" ELSE state
      [] state = "ATT_PPS"         -> IF wr_count = NMETA - 1 THEN "IDLE" ELSE state

\* data_to_fifo_next when the stream is ready.
NextWord ==
    CASE state = "IDLE"            -> data
      [] state = "ATT_TR"          -> Word("sample", wr_count, 0)
      [] state = "SEND_TR_STATUS"  -> Word("status", 0, tr_status)
      [] state = "SEND_CNT_STATUS" -> Word("cnt", 0, cnt_status)
      [] state = "ATT_SUBTR"       -> Word("sub", wr_count, 0)
      [] state = "ATT_PPS"         -> Word("meta", wr_count, array_pps)

\* The registers of the state machine.  wr_count_next is 0 unless a word of
\* an array is sent at this clock.
StateMachine(pps, sub, ready) ==
    /\ state' = IF ready THEN NextState(pps, sub) ELSE state
    /\ data' = IF ready THEN NextWord ELSE data
    /\ wr_count' = IF ready /\ state \in {"ATT_TR", "ATT_SUBTR", "ATT_PPS"}
                   THEN wr_count + 1 ELSE 0
    /\ tvalid' = (state # "IDLE")
    /\ tready' = (state = "IDLE")

\* What the stream accepts, and whether it stalled in this record.
Observe(ready) ==
    LET accepted == tvalid /\ ready
        starts   == state = "IDLE" /\ state' # "IDLE"
    IN  /\ m_tready' = ready
        /\ last' = IF accepted THEN data ELSE last
        /\ lastCnt' = IF accepted /\ data.kind = "cnt" THEN data.id ELSE lastCnt
        /\ stalled' = IF starts THEN FALSE
                      ELSE stalled \/ (~ready /\ (tvalid \/ state # "IDLE"))
        /\ prevStalled' = IF starts THEN stalled ELSE prevStalled
        /\ rescaled' = (rescaled /\ ~starts)

\* One rising edge, for a crossing, a sub-trigger, a PPS and the stream's
\* readiness at it.
Clock(tr1, sub, pps, ready) ==
    /\ Crossing(tr1)
    /\ pps => gap = PpsGap /\ ppsCount < MaxPps
    /\ ShiftSamples
    /\ CountCrossings(tr1)
    /\ LatchTrigger
    /\ LatchPps(pps)
    /\ StateMachine(pps, sub, ready)
    /\ Observe(ready)
    /\ UNCHANGED scaler_a_i

\* "lago -s sc1": between two clocks, whatever the core is doing.
WriteScaler(s) ==
    /\ scaler_a_i' = s
    /\ rescaled' = TRUE
    /\ UNCHANGED <<state, wr_count, data, tvalid, tready, adc_live, live, dly, scaler_cnt,
                   trig_cnt, tr_status, cnt_status, array_pps, m_tready, last, lastCnt,
                   stalled, prevStalled, wrapped, ppsCount, gap>>

\* aresetn, from bit 0 of the configuration register.
Reset ==
    /\ state' = "IDLE" /\ wr_count' = 0
    /\ data' = NoWord /\ tvalid' = FALSE /\ tready' = FALSE
    /\ adc_live' = FALSE /\ live' = [b \in BIN .. NSAMP - 1 |-> FALSE]
    /\ dly' = FALSE /\ scaler_cnt' = 0 /\ trig_cnt' = 0
    /\ tr_status' = 0 /\ cnt_status' = 0 /\ array_pps' = 0
    /\ m_tready' = FALSE
    /\ last' = NoWord /\ lastCnt' = 0
    /\ stalled' = FALSE /\ prevStalled' = FALSE /\ rescaled' = FALSE /\ wrapped' = FALSE
    /\ ppsCount' = 0 /\ gap' = PpsGap
    /\ UNCHANGED scaler_a_i

Next ==
    \/ \E tr1, sub, pps, ready \in BOOLEAN : Clock(tr1, sub, pps, ready)
    \/ \E s \in ScalerValues : WriteScaler(s)
    \/ Reset

Spec == Init /\ [][Next]_vars

(* The clock runs (it is the clock of the board), and now and then the     *)
(* stream is ready at its edge: the memory writer's FIFO gets room again.  *)
ReadyTick == \E tr1, sub, pps \in BOOLEAN : Clock(tr1, sub, pps, TRUE)

FairSpec == Spec /\ WF_vars(ReadyTick)

-----------------------------------------------------------------------------
(* Properties                                                              *)

RecordEnd(w) ==
    \/ w.kind \in {"none", "cnt"}
    \/ w.kind = "sub" /\ w.k = NSUB - 1
    \/ w.kind = "meta" /\ w.k = NMETA - 1

\* Word w may come after word p on the stream.
Follows(p, w) ==
    \/ w.kind \in {"sample", "sub", "meta"} /\ w.k = 0 /\ RecordEnd(p)
    \/ /\ w.kind \in {"sample", "sub", "meta"}
       /\ p.kind = w.kind /\ p.k + 1 = w.k /\ p.id = w.id
    \/ w.kind = "status" /\ p.kind = "sample" /\ p.k = NSAMP - 1
    \/ w.kind = "cnt" /\ p.kind = "status" /\ p.id = w.id

\* Triggers may come without a crossing.
Loose == rescaled \/ scaler_a_i = 0

\* The stream is a sequence of whole records: the words of a record are
\* neither lost, repeated nor mixed with those of another, the status and
\* the counter are those of one trigger and the metadata those of one PPS,
\* although all of them may be overwritten while the record is being sent.
\* Only a stall of the stream breaks a record.  The one thing a scaler that
\* is 0, or was rewritten since the record began, can do is to give the
\* counter word the number of a later trigger than the status word's.
Framed ==
    [][tvalid /\ m_tready' =>
          \/ stalled
          \/ Loose /\ data.kind = "cnt" /\ last.kind = "status"
          \/ prevStalled /\ data.k = 0 /\ data.kind \in {"sample", "sub", "meta"}
          \/ Follows(last, data)]_vars

\* The counter words, from which read_buffer() computes the lost pulses,
\* never go back, and stay the same only if a stall repeats a word, until the
\* 30 bits of the counter wrap.
CounterGrows ==
    [][tvalid /\ m_tready' /\ data.kind = "cnt" =>
          wrapped \/ data.id > lastCnt \/ (stalled /\ data.id = lastCnt)]_vars

\* A record ends once the stream stops stalling (a stall restarts the burst
\* counter, so that a stream that stalls for ever may never see one end).
ReturnsToIdle == <>[]m_tready => []<>(state = "IDLE")
=============================================================================
