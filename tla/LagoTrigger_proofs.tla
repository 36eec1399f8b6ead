------------------------- MODULE LagoTrigger_proofs -------------------------
(* The records of the trigger core are whole, and its counter words grow,  *)
(* for every length of the records, every order of scaler values, 0 too,   *)
(* and every bin: proofs                                                   *)
(* about LagoTrigger; and the rate word is right for every counter width,  *)
(* every set of scaler values and every order of crossings, PPS pulses and *)
(* scaler changes: proofs about PulseRate.                                 *)
EXTENDS LagoTrigger, PulseRate, TLAPS

TypeOK ==
    /\ state \in States /\ wr_count \in Nat /\ scaler_cnt \in Nat
    /\ tvalid \in BOOLEAN /\ tready \in BOOLEAN /\ adc_live \in BOOLEAN /\ dly \in BOOLEAN
    /\ live \in [BIN .. NSAMP - 1 -> BOOLEAN] /\ scaler_a_i \in ScalerValues
    /\ trig_cnt \in 0 .. CntWrap - 1 /\ cnt_status \in Nat /\ array_pps \in Nat /\ ppsCount \in Nat /\ gap \in 0 .. PpsGap
    /\ lastCnt \in Nat /\ stalled \in BOOLEAN /\ prevStalled \in BOOLEAN
    /\ rescaled \in BOOLEAN /\ wrapped \in BOOLEAN
    /\ data.kind = "cnt" => data.id \in Nat

\* The two registers of a trigger are overwritten together.
TriggerInv ==
    /\ tr_status = cnt_status
    /\ ~wrapped => cnt_status = trig_cnt

Arrays == {"ATT_TR", "ATT_SUBTR", "ATT_PPS"}
Length == CASE state = "ATT_TR"    -> NSAMP
            [] state = "ATT_SUBTR" -> NSUB
            [] state = "ATT_PPS"   -> NMETA

\* While a record is sent without a stall its registers are not overwritten, unless
\* the scaler is: the samples the core still holds have passed bin BIN before the status is sent, and
\* the next PPS is not due before the metadata is.  A scaler that is left alone,
\* and not 0, is reached by a crossing only.
QuietInv ==
    /\ state \in Arrays => wr_count < Length
    /\ ~stalled /\ state = "ATT_TR" =>
         /\ wr_count >= 1 => ~tready
         /\ wr_count >= 2 => ~adc_live
         /\ wr_count >= 3 => \A b \in BIN .. NSAMP - 1 : b >= NSAMP + 2 - wr_count => ~live[b]
    /\ ~stalled /\ ~Loose /\ state = "SEND_TR_STATUS" => scaler_cnt # scaler_a_i
    /\ ~stalled /\ state = "ATT_PPS" => gap = wr_count

\* The word before the one that is built at the next clock.
Built == CASE state = "ATT_TR"          -> Word("sample", wr_count - 1, 0)
           [] state = "SEND_TR_STATUS"  -> Word("sample", NSAMP - 1, 0)
           [] state = "SEND_CNT_STATUS" -> Word("status", 0, cnt_status)
           [] state = "ATT_SUBTR"       -> Word("sub", wr_count - 1, 0)
           [] state = "ATT_PPS"         -> Word("meta", wr_count - 1, array_pps)

Proper == \/ Loose /\ data.kind = "cnt" /\ last.kind = "status"
          \/ prevStalled /\ data.k = 0 /\ data.kind \in {"sample", "sub", "meta"}
          \/ Follows(last, data)

\* Where in a record, that no stall has broken, the stream is.
FrameInv ==
    ~stalled =>
        /\ state = "IDLE" => RecordEnd(IF tvalid THEN data ELSE last)
        /\ state \in Arrays /\ wr_count = 0 => ~tvalid /\ (prevStalled \/ RecordEnd(last))
        /\ state # "IDLE" /\ ~(state \in Arrays /\ wr_count = 0) =>
             /\ tvalid
             /\ \/ data = Built
                \/ Loose /\ state = "SEND_CNT_STATUS" /\ data.kind = "status"
        /\ tvalid => Proper

\* Counter words: the last one accepted, the one in the output register, and the
\* one to come.  One is offered twice only after a stall.
CounterInv ==
    ~wrapped =>
        /\ lastCnt <= trig_cnt
        /\ data.kind = "cnt" => lastCnt <= data.id /\ data.id <= trig_cnt
        /\ state \in {"ATT_TR", "SEND_TR_STATUS", "SEND_CNT_STATUS"} =>
             lastCnt < trig_cnt /\ (data.kind = "cnt" => data.id < trig_cnt)
        /\ tvalid /\ data.kind = "cnt" => lastCnt < data.id \/ (stalled /\ state # "IDLE")

IInv == TypeOK /\ TriggerInv /\ QuietInv /\ FrameInv /\ CounterInv

-----------------------------------------------------------------------------
(* One clock                                                               *)

\* The state machine, one state at a time, when the stream is ready.
LEMMA Steps ==
    ASSUME TypeOK, NEW pps \in BOOLEAN, NEW sub \in BOOLEAN
    PROVE  /\ state = "IDLE" => NextState(pps, sub) \in {"IDLE"} \cup Arrays /\ NextWord = data
           /\ state = "ATT_TR" =>
                /\ NextState(pps, sub) = IF wr_count = NSAMP - 1 THEN "SEND_TR_STATUS" ELSE state
                /\ NextWord = Word("sample", wr_count, 0)
           /\ state = "SEND_TR_STATUS" =>
                NextState(pps, sub) = "SEND_CNT_STATUS" /\ NextWord = Word("status", 0, tr_status)
           /\ state = "SEND_CNT_STATUS" =>
                NextState(pps, sub) = "IDLE" /\ NextWord = Word("cnt", 0, cnt_status)
           /\ state = "ATT_SUBTR" =>
                /\ NextState(pps, sub) = IF wr_count = NSUB - 1 THEN "IDLE" ELSE state
                /\ NextWord = Word("sub", wr_count, 0)
           /\ state = "ATT_PPS" =>
                /\ NextState(pps, sub) = IF wr_count = NMETA - 1 THEN "IDLE" ELSE state
                /\ NextWord = Word("meta", wr_count, array_pps)
<1> USE DEF Arrays
<1>1. state = "IDLE" => NextState(pps, sub) \in {"IDLE"} \cup Arrays /\ NextWord = data
  BY DEF NextState, NextWord, Serve
<1>2. state = "ATT_TR" =>
        /\ NextState(pps, sub) = IF wr_count = NSAMP - 1 THEN "SEND_TR_STATUS" ELSE state
        /\ NextWord = Word("sample", wr_count, 0)
  BY DEF NextState, NextWord
<1>3. /\ state = "SEND_TR_STATUS" =>
           NextState(pps, sub) = "SEND_CNT_STATUS" /\ NextWord = Word("status", 0, tr_status)
      /\ state = "SEND_CNT_STATUS" =>
           NextState(pps, sub) = "IDLE" /\ NextWord = Word("cnt", 0, cnt_status)
  BY DEF NextState, NextWord
<1>4. state = "ATT_SUBTR" =>
        /\ NextState(pps, sub) = IF wr_count = NSUB - 1 THEN "IDLE" ELSE state
        /\ NextWord = Word("sub", wr_count, 0)
  BY DEF NextState, NextWord
<1>5. state = "ATT_PPS" =>
        /\ NextState(pps, sub) = IF wr_count = NMETA - 1 THEN "IDLE" ELSE state
        /\ NextWord = Word("meta", wr_count, array_pps)
  BY DEF NextState, NextWord
<1> QED BY <1>1, <1>2, <1>3, <1>4, <1>5

LEMMA NextStateType ==
    ASSUME TypeOK, NEW pps \in BOOLEAN, NEW sub \in BOOLEAN
    PROVE  NextState(pps, sub) \in States
BY Steps DEF TypeOK, States, Arrays

LEMMA WordParts ==
    ASSUME NEW kind, NEW k, NEW id
    PROVE  Word(kind, k, id).kind = kind /\ Word(kind, k, id).k = k /\ Word(kind, k, id).id = id
BY DEF Word

LEMMA TypeClock ==
    ASSUME IInv, NEW tr1 \in BOOLEAN, NEW sub \in BOOLEAN, NEW pps \in BOOLEAN,
           NEW ready \in BOOLEAN, Clock(tr1, sub, pps, ready)
    PROVE  TypeOK'
<1> USE DEF IInv, TypeOK
<1>1. state' \in States
  BY NextStateType DEF Clock, StateMachine
<1>2. wr_count' \in Nat /\ tvalid' \in BOOLEAN /\ tready' \in BOOLEAN
  BY DEF Clock, StateMachine
<1>3. scaler_cnt' \in Nat /\ dly' \in BOOLEAN /\ scaler_a_i' \in ScalerValues
  <2>1. (scaler_cnt + 1) % ScalerWrap \in Nat
    BY TriggerAssumption
  <2> QED BY <2>1 DEF Clock, CountCrossings
<1>4. adc_live' \in BOOLEAN /\ live' \in [BIN .. NSAMP - 1 -> BOOLEAN]
  <2>1. \A b \in BIN .. NSAMP - 1 : b # NSAMP - 1 => b + 1 \in BIN .. NSAMP - 1
    BY TriggerAssumption
  <2> QED BY <2>1 DEF Clock, ShiftSamples
<1>5. trig_cnt' \in 0 .. CntWrap - 1 /\ cnt_status' \in Nat /\ wrapped' \in BOOLEAN
  <2>1. (trig_cnt + 1) % CntWrap \in 0 .. CntWrap - 1
    BY TriggerAssumption
  <2>2. trig_cnt' \in 0 .. CntWrap - 1 /\ cnt_status' \in Nat
    BY <2>1, TriggerAssumption DEF Clock, LatchTrigger
  <2>3. wrapped' \in BOOLEAN
    BY DEF Clock, LatchTrigger
  <2> QED BY <2>2, <2>3
<1>6. array_pps' \in Nat /\ ppsCount' \in Nat /\ gap' \in 0 .. PpsGap
  BY TriggerAssumption DEF Clock, LatchPps
<1>7. lastCnt' \in Nat
  BY DEF Clock, Observe
<1>8. stalled' \in BOOLEAN /\ prevStalled' \in BOOLEAN /\ rescaled' \in BOOLEAN
  BY DEF Clock, Observe
<1>9. data'.kind = "cnt" => data'.id \in Nat
  <2>1. data' = data \/ data' = NextWord
    BY DEF Clock, StateMachine
  <2>2. NextWord.kind = "cnt" => NextWord.id \in Nat
    BY Steps, WordParts DEF States
  <2> QED BY <2>1, <2>2
<1> QED BY <1>1, <1>2, <1>3, <1>4, <1>5, <1>6, <1>7, <1>8, <1>9

LEMMA TriggerClock ==
    ASSUME IInv, NEW tr1 \in BOOLEAN, NEW sub \in BOOLEAN, NEW pps \in BOOLEAN,
           NEW ready \in BOOLEAN, Clock(tr1, sub, pps, ready)
    PROVE  TriggerInv'
<1>1. tr_status' = cnt_status'
  BY DEF IInv, TriggerInv, Clock, LatchTrigger
<1>2. ASSUME ~wrapped' PROVE cnt_status' = trig_cnt'
  <2>1. ~wrapped /\ (tr_s => trig_cnt # CntWrap - 1)
    BY <1>2 DEF Clock, LatchTrigger
  <2>2. CASE tr_s
    <3>1. /\ cnt_status' = trig_cnt + 1 /\ trig_cnt' = (trig_cnt + 1) % CntWrap
          /\ trig_cnt \in 0 .. CntWrap - 1 /\ trig_cnt # CntWrap - 1 /\ CntWrap \in Nat
      BY <2>1, <2>2, TriggerAssumption DEF Clock, LatchTrigger, IInv, TypeOK
    <3> QED BY <3>1
  <2>3. CASE ~tr_s
    BY <2>1, <2>3 DEF IInv, TriggerInv, Clock, LatchTrigger
  <2> QED BY <2>2, <2>3
<1> QED BY <1>1, <1>2 DEF TriggerInv

\* A record goes on unstalled only if it was not stalled before and the stream is
\* ready now.
LEMMA Unstalled ==
    ASSUME IInv, NEW tr1 \in BOOLEAN, NEW sub \in BOOLEAN, NEW pps \in BOOLEAN,
           NEW ready \in BOOLEAN, Clock(tr1, sub, pps, ready), ~stalled'
    PROVE  /\ state # "IDLE" => ready /\ ~stalled /\ (prevStalled' <=> prevStalled)
           /\ state = "IDLE" /\ state' = "IDLE" => ~stalled /\ (tvalid => ready)
           /\ state = "IDLE" /\ state' # "IDLE" => ready /\ (prevStalled' <=> stalled)
BY DEF Clock, Observe, StateMachine

LEMMA QuietClock ==
    ASSUME IInv, NEW tr1 \in BOOLEAN, NEW sub \in BOOLEAN, NEW pps \in BOOLEAN,
           NEW ready \in BOOLEAN, Clock(tr1, sub, pps, ready)
    PROVE  QuietInv'
<1>0. /\ state \in States /\ wr_count \in Nat /\ wr_count' \in Nat
      /\ NSAMP \in Nat /\ NSUB \in Nat /\ NMETA \in Nat
      /\ NSAMP >= 4 /\ NSUB >= 1 /\ NMETA >= 1
  <2>1. state \in States /\ wr_count \in Nat /\ wr_count' \in Nat
    BY TypeClock DEF IInv, TypeOK
  <2>2. /\ NSAMP \in Nat /\ NSUB \in Nat /\ NMETA \in Nat
        /\ NSAMP >= 4 /\ NSUB >= 1 /\ NMETA >= 1
    BY TriggerAssumption
  <2> QED BY <2>1, <2>2
<1>1. /\ state' = IF ready THEN NextState(pps, sub) ELSE state
      /\ wr_count' = IF ready /\ state \in Arrays THEN wr_count + 1 ELSE 0
      /\ tready' = (state = "IDLE")
  BY DEF Clock, StateMachine, Arrays
<1>2. state' \in Arrays => wr_count' < Length'
  <2>1. CASE wr_count' = 0
    BY <1>0, <2>1 DEF Arrays, Length
  <2>2. CASE ready /\ state \in Arrays
    BY <1>0, <1>1, <2>2, Steps DEF IInv, QuietInv, Arrays, Length
  <2> QED BY <1>1, <2>1, <2>2
<1>3. ASSUME ~stalled', state' = "ATT_TR"
      PROVE  /\ wr_count' >= 1 => ~tready'
             /\ wr_count' >= 2 => ~adc_live'
             /\ wr_count' >= 3 =>
                  \A b \in BIN .. NSAMP - 1 : b >= NSAMP + 2 - wr_count' => ~live'[b]
  <2>1. CASE wr_count' = 0
    BY <2>1
  <2>2. CASE wr_count' # 0
    <3>1. /\ ready /\ state = "ATT_TR" /\ ~stalled /\ wr_count' = wr_count + 1
      BY <1>0, <1>1, <1>3, <2>2, Steps, Unstalled DEF Arrays, IInv
    <3>2. ~tready' /\ adc_live' = tready
      BY <1>1, <3>1 DEF Clock, ShiftSamples
    <3>3. ASSUME wr_count' >= 2 PROVE ~adc_live'
      BY <1>0, <3>1, <3>2, <3>3 DEF IInv, QuietInv
    <3>4. ASSUME wr_count' >= 3, NEW b \in BIN .. NSAMP - 1, b >= NSAMP + 2 - wr_count'
          PROVE  ~live'[b]
      <4>1. live'[b] = IF b = NSAMP - 1 THEN adc_live ELSE live[b + 1]
        BY DEF Clock, ShiftSamples
      <4>2. CASE b = NSAMP - 1
        <5>1. wr_count >= 2
          BY <1>0, <3>1, <3>4, TriggerAssumption
        <5> QED BY <3>1, <4>1, <4>2, <5>1 DEF IInv, QuietInv
      <4>3. CASE b # NSAMP - 1
        <5>1. wr_count >= 3 /\ b + 1 \in BIN .. NSAMP - 1 /\ b + 1 >= NSAMP + 2 - wr_count
          BY <1>0, <3>1, <3>4, <4>3, TriggerAssumption
        <5> QED BY <3>1, <4>1, <4>3, <5>1 DEF IInv, QuietInv
      <4> QED BY <4>2, <4>3
    <3> QED BY <3>2, <3>3, <3>4
  <2> QED BY <2>1, <2>2
<1>4. ASSUME ~stalled', ~Loose', state' = "SEND_TR_STATUS" PROVE scaler_cnt' # scaler_a_i'
  <2>1. ready /\ state = "ATT_TR" /\ wr_count = NSAMP - 1 /\ ~stalled
    <3>1. state # "IDLE"
      BY <1>1, <1>4, Steps DEF IInv, Arrays
    <3>2. ready /\ ~stalled
      BY <1>4, <3>1, Unstalled
    <3> QED BY <1>0, <1>1, <1>4, <3>2, Steps DEF IInv, Arrays, States
  <2>2. ~live[BIN]
    <3>1. wr_count >= 3 /\ BIN \in BIN .. NSAMP - 1 /\ BIN >= NSAMP + 2 - wr_count
      BY <1>0, <2>1, TriggerAssumption
    <3> QED BY <2>1, <3>1 DEF IInv, QuietInv
  <2>3. ~tr1
    BY <2>2 DEF Clock, Crossing
  <2>4. scaler_cnt' = IF scaler_cnt = scaler_a_i THEN 0 ELSE scaler_cnt
    BY <2>3 DEF Clock, CountCrossings, tr_s
  <2>5. scaler_a_i' = scaler_a_i /\ scaler_a_i # 0
    BY <1>4 DEF Clock, Loose
  <2> QED BY <2>4, <2>5
<1>5. ASSUME ~stalled', state' = "ATT_PPS" PROVE gap' = wr_count'
  <2>1. gap' = IF pps THEN 0 ELSE IF gap < PpsGap THEN gap + 1 ELSE gap
    BY DEF Clock, LatchPps
  <2>2. CASE state = "IDLE"
    <3>1. pps /\ wr_count' = 0
      BY <1>1, <1>5, <2>2, Unstalled DEF NextState, Serve, Arrays
    <3> QED BY <2>1, <3>1
  <2>3. CASE state # "IDLE"
    <3>1. ready /\ ~stalled
      BY <1>5, <2>3, Unstalled
    <3>2. state = "ATT_PPS" /\ wr_count # NMETA - 1 /\ wr_count' = wr_count + 1
      BY <1>0, <1>1, <1>5, <2>3, <3>1, Steps DEF IInv, Arrays, States
    <3>3. gap = wr_count /\ wr_count < NMETA
      BY <3>1, <3>2 DEF IInv, QuietInv, Arrays, Length
    <3>4. gap < PpsGap /\ gap # PpsGap
      BY <1>0, <3>2, <3>3, TriggerAssumption
    <3>5. ~pps
      BY <3>4 DEF Clock
    <3> QED BY <2>1, <3>2, <3>3, <3>4, <3>5
  <2> QED BY <2>2, <2>3
<1> QED BY <1>2, <1>3, <1>4, <1>5 DEF QuietInv

\* The words of an array follow each other.
LEMMA ArrayFollows ==
    ASSUME NEW kind \in {"sample", "sub", "meta"}, NEW k \in Nat, NEW id, k # 0
    PROVE  Follows(Word(kind, k - 1, id), Word(kind, k, id))
BY WordParts DEF Follows

LEMMA FrameClock ==
    ASSUME IInv, NEW tr1 \in BOOLEAN, NEW sub \in BOOLEAN, NEW pps \in BOOLEAN,
           NEW ready \in BOOLEAN, Clock(tr1, sub, pps, ready)
    PROVE  FrameInv'
<1> SUFFICES ASSUME ~stalled' PROVE FrameInv'
  BY DEF FrameInv
<1>0. /\ state \in States /\ wr_count \in Nat /\ wr_count' \in Nat
      /\ NSAMP \in Nat /\ NSUB \in Nat /\ NMETA \in Nat
      /\ NSAMP >= 4 /\ NSUB >= 1 /\ NMETA >= 1
  <2>1. state \in States /\ wr_count \in Nat /\ wr_count' \in Nat
    BY TypeClock DEF IInv, TypeOK
  <2>2. /\ NSAMP \in Nat /\ NSUB \in Nat /\ NMETA \in Nat
        /\ NSAMP >= 4 /\ NSUB >= 1 /\ NMETA >= 1
    BY TriggerAssumption
  <2> QED BY <2>1, <2>2
<1>1. /\ state' = IF ready THEN NextState(pps, sub) ELSE state
      /\ data' = IF ready THEN NextWord ELSE data
      /\ wr_count' = IF ready /\ state \in Arrays THEN wr_count + 1 ELSE 0
      /\ tvalid' = (state # "IDLE")
      /\ last' = IF tvalid /\ ready THEN data ELSE last
  BY DEF Clock, StateMachine, Observe, Arrays
<1>2. CASE state = "IDLE" /\ state' # "IDLE"
  <2>1. ready /\ (prevStalled' <=> stalled)
    BY <1>2, Unstalled
  <2>2. state' \in Arrays /\ wr_count' = 0 /\ ~tvalid'
    BY <1>1, <1>2, <2>1, Steps DEF IInv, Arrays
  <2>3. prevStalled' \/ RecordEnd(last)'
    <3>1. ~stalled => RecordEnd(IF tvalid THEN data ELSE last)
      BY <1>2 DEF IInv, FrameInv
    <3> QED BY <1>1, <2>1, <3>1 DEF RecordEnd
  <2> QED BY <1>2, <2>2, <2>3 DEF FrameInv
<1>3. CASE state = "IDLE" /\ state' = "IDLE"
  <2>1. ~stalled /\ (tvalid => ready)
    BY <1>3, Unstalled
  <2>2. last' = (IF tvalid THEN data ELSE last) /\ ~tvalid'
    BY <1>1, <1>3, <2>1
  <2>3. RecordEnd(last)'
    BY <1>3, <2>1, <2>2 DEF IInv, FrameInv, RecordEnd
  <2> QED BY <1>3, <2>2, <2>3 DEF FrameInv, Arrays
<1>4. CASE state # "IDLE"
  <2>1. ready /\ ~stalled /\ (prevStalled' <=> prevStalled) /\ tvalid'
    BY <1>1, <1>4, Unstalled
  <2>2. data' = NextWord /\ state' = NextState(pps, sub)
    BY <1>1, <2>1
  <2>3. /\ state \in Arrays /\ wr_count = 0 =>
             ~tvalid /\ last' = last /\ (prevStalled \/ RecordEnd(last))
        /\ ~(state \in Arrays /\ wr_count = 0) =>
             /\ tvalid
             /\ \/ last' = Built
                \/ Loose /\ state = "SEND_CNT_STATUS" /\ last'.kind = "status"
    BY <1>1, <1>4, <2>1 DEF IInv, FrameInv
  <2>0. Loose' <=> Loose
    BY <1>4 DEF Clock, Observe, Loose, IInv, TypeOK
  <2>4. state \in Arrays => wr_count' = wr_count + 1 /\ wr_count' # 0
    BY <1>0, <1>1, <2>1
  <2>5. ASSUME state \in Arrays, NEW kind \in {"sample", "sub", "meta"}, NEW id,
               data' = Word(kind, wr_count, id),
               wr_count # 0 => Built = Word(kind, wr_count - 1, id)
        PROVE  Proper'
    <3>1. CASE wr_count = 0
      BY <2>1, <2>3, <2>5, <3>1, WordParts DEF Proper, Follows, RecordEnd
    <3>2. CASE wr_count # 0
      <4>1. last' = Word(kind, wr_count - 1, id)
        BY <2>3, <2>5, <3>2 DEF Arrays
      <4>2. Follows(Word(kind, wr_count - 1, id), Word(kind, wr_count, id))
        BY <1>0, <3>2, ArrayFollows
      <4> QED BY <2>5, <4>1, <4>2 DEF Proper, Follows, RecordEnd
    <3> QED BY <3>1, <3>2
  <2>6. CASE state = "ATT_TR"
    <3>1. /\ data' = Word("sample", wr_count, 0)
          /\ state' = IF wr_count = NSAMP - 1 THEN "SEND_TR_STATUS" ELSE "ATT_TR"
      BY <2>2, <2>6, Steps DEF IInv
    <3>2. Proper'
      BY <2>5, <2>6, <3>1 DEF Arrays, Built
    <3>3. data' = Built'
      BY <1>0, <2>4, <2>6, <3>1 DEF Arrays, Built
    <3> QED BY <2>1, <2>4, <2>6, <3>1, <3>2, <3>3 DEF FrameInv, Arrays
  <2>7. CASE state = "ATT_SUBTR"
    <3>1. /\ data' = Word("sub", wr_count, 0)
          /\ state' = IF wr_count = NSUB - 1 THEN "IDLE" ELSE "ATT_SUBTR"
      BY <2>2, <2>7, Steps DEF IInv
    <3>2. Proper'
      BY <2>5, <2>7, <3>1 DEF Arrays, Built
    <3>3. state' = "ATT_SUBTR" => data' = Built'
      BY <1>0, <2>4, <2>7, <3>1 DEF Arrays, Built
    <3>4. state' = "IDLE" => RecordEnd(data)'
      BY <3>1, WordParts DEF RecordEnd
    <3> QED BY <2>1, <2>4, <2>7, <3>1, <3>2, <3>3, <3>4 DEF FrameInv, Arrays, RecordEnd
  <2>8. CASE state = "ATT_PPS"
    <3>1. /\ data' = Word("meta", wr_count, array_pps)
          /\ state' = IF wr_count = NMETA - 1 THEN "IDLE" ELSE "ATT_PPS"
      BY <2>2, <2>8, Steps DEF IInv
    <3>2. Proper'
      BY <2>5, <2>8, <3>1 DEF Arrays, Built
    <3>3. state' = "ATT_PPS" => data' = Built'
      <4> SUFFICES ASSUME state' = "ATT_PPS" PROVE data' = Built'
        OBVIOUS
      <4>1. gap = wr_count /\ wr_count < NMETA /\ wr_count # NMETA - 1
        BY <2>1, <2>8, <3>1 DEF IInv, QuietInv, Arrays, Length
      <4>2. gap # PpsGap
        BY <1>0, <4>1, TriggerAssumption
      <4>3. array_pps' = array_pps
        BY <4>2 DEF Clock, LatchPps
      <4>4. wr_count' - 1 = wr_count
        BY <1>0, <2>4, <2>8 DEF Arrays
      <4> QED BY <3>1, <4>3, <4>4 DEF Built
    <3>4. state' = "IDLE" => RecordEnd(data)'
      BY <3>1, WordParts DEF RecordEnd
    <3> QED BY <2>1, <2>4, <2>8, <3>1, <3>2, <3>3, <3>4 DEF FrameInv, Arrays, RecordEnd
  <2>9. CASE state = "SEND_TR_STATUS"
    <3>1. data' = Word("status", 0, tr_status) /\ state' = "SEND_CNT_STATUS"
      BY <2>2, <2>9, Steps DEF IInv
    <3>2. ~Loose => cnt_status' = tr_status
      BY <2>1, <2>9 DEF IInv, QuietInv, TriggerInv, Clock, LatchTrigger, tr_s
    <3>3. data' = Built' \/ (Loose' /\ data'.kind = "status")
      <4>1. CASE Loose
        BY <2>0, <3>1, <4>1, WordParts
      <4>2. CASE ~Loose
        BY <3>1, <3>2, <4>2 DEF Built
      <4> QED BY <4>1, <4>2
    <3>4. last' = Word("sample", NSAMP - 1, 0)
      BY <2>3, <2>9 DEF Built, Arrays
    <3>5. Proper'
      BY <3>1, <3>4, WordParts DEF Proper, Follows
    <3> QED BY <2>1, <3>1, <3>3, <3>5 DEF FrameInv, Arrays
  <2>10. CASE state = "SEND_CNT_STATUS"
    <3>1. data' = Word("cnt", 0, cnt_status) /\ state' = "IDLE"
      BY <2>2, <2>10, Steps DEF IInv
    <3>2. last' = Word("status", 0, cnt_status) \/ (Loose' /\ last'.kind = "status")
      BY <2>0, <2>3, <2>10 DEF Built, Arrays
    <3>3. Proper' /\ RecordEnd(data)'
      BY <3>1, <3>2, WordParts DEF Proper, Follows, RecordEnd
    <3> QED BY <2>1, <3>1, <3>3 DEF FrameInv, Arrays, RecordEnd
  <2> QED BY <1>0, <1>4, <2>6, <2>7, <2>8, <2>9, <2>10 DEF States
<1> QED BY <1>2, <1>3, <1>4

LEMMA CounterClock ==
    ASSUME IInv, NEW tr1 \in BOOLEAN, NEW sub \in BOOLEAN, NEW pps \in BOOLEAN,
           NEW ready \in BOOLEAN, Clock(tr1, sub, pps, ready)
    PROVE  CounterInv'
<1> SUFFICES ASSUME ~wrapped' PROVE CounterInv'
  BY DEF CounterInv
<1>0. ~wrapped /\ (tr_s => trig_cnt # CntWrap - 1)
  BY DEF Clock, LatchTrigger
<1>1. /\ state' = IF ready THEN NextState(pps, sub) ELSE state
      /\ data' = IF ready THEN NextWord ELSE data
      /\ tvalid' = (state # "IDLE")
      /\ lastCnt' = IF tvalid /\ ready /\ data.kind = "cnt" THEN data.id ELSE lastCnt
  BY DEF Clock, StateMachine, Observe
<1>2. /\ trig_cnt' = IF tr_s THEN trig_cnt + 1 ELSE trig_cnt
      /\ cnt_status = trig_cnt /\ trig_cnt \in Nat /\ lastCnt \in Nat /\ lastCnt' \in Nat
      /\ state \in States
      /\ data.kind = "cnt" => data.id \in Nat
  <2>1. tr_s => trig_cnt' = cnt_status' /\ cnt_status' = trig_cnt + 1
    BY TriggerClock DEF IInv, TriggerInv, Clock, LatchTrigger
  <2>2. ~tr_s => trig_cnt' = trig_cnt
    BY DEF Clock, LatchTrigger
  <2> QED BY <1>0, <2>1, <2>2, TypeClock, TriggerAssumption DEF IInv, TypeOK, TriggerInv
<1> DEFINE Tr == {"ATT_TR", "SEND_TR_STATUS", "SEND_CNT_STATUS"}
<1>3. /\ lastCnt <= trig_cnt
      /\ data.kind = "cnt" => data.id \in Nat /\ lastCnt <= data.id /\ data.id <= trig_cnt
      /\ state \in Tr => lastCnt < trig_cnt /\ (data.kind = "cnt" => data.id < trig_cnt)
  BY <1>0, <1>2 DEF IInv, CounterInv
<1>4. /\ lastCnt' <= trig_cnt /\ trig_cnt <= trig_cnt' /\ trig_cnt' \in Nat
      /\ data.kind = "cnt" => lastCnt' <= data.id
      /\ state \in Tr => lastCnt' < trig_cnt
  BY <1>1, <1>2, <1>3
<1>5. CASE state = "IDLE" \/ ~ready
  <2>1. data' = data
    BY <1>1, <1>5, Steps DEF IInv
  <2>2. ASSUME state' \in Tr
        PROVE  lastCnt' < trig_cnt' /\ (data'.kind = "cnt" => data'.id < trig_cnt')
    <3>1. CASE state \in Tr
      BY <1>2, <1>3, <1>4, <2>1, <3>1
    <3>2. CASE state \notin Tr
      <4>1. state = "IDLE" /\ ready
        BY <1>1, <1>5, <2>2, <3>2
      <4>2. tr_s
        BY <1>1, <2>2, <4>1 DEF NextState, Serve
      <4> QED BY <1>2, <1>3, <1>4, <2>1, <4>2
    <3> QED BY <3>1, <3>2
  <2>3. tvalid' => stalled' /\ state' # "IDLE"
    <3>1. CASE state = "IDLE"
      BY <1>1, <3>1
    <3>2. CASE state # "IDLE"
      BY <1>1, <1>5, <3>2 DEF Clock, Observe
    <3> QED BY <3>1, <3>2
  <2>4. data'.kind = "cnt" => data'.id \in Nat /\ lastCnt' <= data'.id /\ data'.id <= trig_cnt'
    BY <1>2, <1>3, <1>4, <2>1
  <2> QED BY <1>2, <1>4, <2>2, <2>3, <2>4 DEF CounterInv
<1>6. CASE ready /\ state \in Arrays \cup {"SEND_TR_STATUS"}
  <2>1. data'.kind # "cnt"
    BY <1>1, <1>6, Steps, WordParts DEF IInv, Arrays
  <2>2. state' \in Tr => state \in Tr
    BY <1>1, <1>6, Steps DEF IInv, Arrays
  <2> QED BY <1>2, <1>4, <2>1, <2>2 DEF CounterInv
<1>7. CASE ready /\ state = "SEND_CNT_STATUS"
  <2>1. data'.kind = "cnt" /\ data'.id = trig_cnt /\ state' = "IDLE"
    BY <1>1, <1>2, <1>7, Steps, WordParts DEF IInv
  <2>2. lastCnt' < trig_cnt
    BY <1>4, <1>7
  <2> QED BY <1>2, <1>4, <2>1, <2>2 DEF CounterInv
<1> QED BY <1>2, <1>5, <1>6, <1>7 DEF States, Arrays

LEMMA InitIInv ==
    ASSUME Init
    PROVE  IInv
<1>1. TypeOK
  <2>1. gap \in 0 .. PpsGap /\ gap \in Nat
    BY TriggerAssumption DEF Init
  <2>2. live \in [BIN .. NSAMP - 1 -> BOOLEAN]
    BY DEF Init
  <2>3. trig_cnt \in 0 .. CntWrap - 1 /\ (data.kind = "cnt" => data.id \in Nat)
    BY TriggerAssumption, WordParts DEF Init, NoWord
  <2> QED BY <2>1, <2>2, <2>3 DEF Init, TypeOK, States
<1>2. TriggerInv
  BY DEF Init, TriggerInv
<1>3. QuietInv
  BY DEF Init, QuietInv, Arrays
<1>4. FrameInv
  BY WordParts DEF Init, FrameInv, Arrays, RecordEnd, NoWord
<1>5. CounterInv
  BY WordParts DEF Init, CounterInv, NoWord
<1> QED BY <1>1, <1>2, <1>3, <1>4, <1>5 DEF IInv

LEMMA ResetIInv ==
    ASSUME IInv, Reset
    PROVE  IInv'
<1>1. TypeOK'
  <2>1. gap' \in 0 .. PpsGap /\ gap' \in Nat
    BY TriggerAssumption DEF Reset
  <2>2. live' \in [BIN .. NSAMP - 1 -> BOOLEAN]
    BY DEF Reset
  <2>3. trig_cnt' \in 0 .. CntWrap - 1 /\ (data'.kind = "cnt" => data'.id \in Nat)
    BY TriggerAssumption, WordParts DEF Reset, NoWord
  <2> QED BY <2>1, <2>2, <2>3 DEF Reset, TypeOK, States, IInv
<1>2. TriggerInv'
  BY DEF Reset, TriggerInv
<1>3. QuietInv'
  BY DEF Reset, QuietInv, Arrays
<1>4. FrameInv'
  BY WordParts DEF Reset, FrameInv, Arrays, RecordEnd, NoWord
<1>5. CounterInv'
  BY WordParts DEF Reset, CounterInv, NoWord
<1> QED BY <1>1, <1>2, <1>3, <1>4, <1>5 DEF IInv

\* Between two clocks the operator changes nothing but the scaler, and from then on
\* the record under way is loose.
LEMMA WriteIInv ==
    ASSUME IInv, NEW s \in ScalerValues, WriteScaler(s)
    PROVE  IInv'
<1>1. Loose' /\ rescaled' = TRUE
  BY DEF WriteScaler, Loose
<1>2. TypeOK'
  BY DEF WriteScaler, IInv, TypeOK
<1>3. TriggerInv'
  BY DEF WriteScaler, IInv, TriggerInv
<1>4. QuietInv'
  <2>1. Length' = Length
    BY DEF Length, WriteScaler
  <2> QED BY <1>1, <2>1 DEF WriteScaler, IInv, QuietInv
<1>5. FrameInv'
  <2>1. Built' = Built /\ (RecordEnd(data)' <=> RecordEnd(data)) /\ (RecordEnd(last)' <=> RecordEnd(last))
    BY DEF WriteScaler, Built, RecordEnd
  <2>2. Proper => Proper'
    BY <1>1 DEF WriteScaler, Proper, Follows, RecordEnd
  <2> QED BY <1>1, <2>1, <2>2 DEF WriteScaler, IInv, FrameInv
<1>6. CounterInv'
  BY DEF WriteScaler, IInv, CounterInv
<1> QED BY <1>2, <1>3, <1>4, <1>5, <1>6 DEF IInv

-----------------------------------------------------------------------------
(* The theorems                                                            *)

\* Where in a record the state machine is and which trigger or PPS its registers
\* hold, at every clock and through every stall and reset.
THEOREM TriggerInvariant == Spec => []IInv
<1>1. Init => IInv
  BY InitIInv
<1>2. IInv /\ [Next]_vars => IInv'
  <2> SUFFICES ASSUME IInv, [Next]_vars PROVE IInv'
    OBVIOUS
  <2>1. ASSUME NEW tr1 \in BOOLEAN, NEW sub \in BOOLEAN, NEW pps \in BOOLEAN,
               NEW ready \in BOOLEAN, Clock(tr1, sub, pps, ready)
        PROVE  IInv'
    BY <2>1, TypeClock, TriggerClock, QuietClock, FrameClock, CounterClock DEF IInv
  <2>2. CASE Reset
    BY <2>2, ResetIInv
  <2>3. CASE UNCHANGED vars
    <3>1. TypeOK'
      BY <2>3 DEF IInv, TypeOK, vars
    <3>2. TriggerInv'
      BY <2>3 DEF IInv, TriggerInv, vars
    <3>3. QuietInv'
      <4>1. Length' = Length
        BY <2>3 DEF Length, vars
      <4> QED BY <2>3, <4>1 DEF IInv, QuietInv, Loose, vars
    <3>4. FrameInv'
      BY <2>3 DEF IInv, FrameInv, Proper, Loose, Follows, RecordEnd, Built, vars
    <3>5. CounterInv'
      BY <2>3 DEF IInv, CounterInv, vars
    <3> QED BY <3>1, <3>2, <3>3, <3>4, <3>5 DEF IInv
  <2>4. ASSUME NEW s \in ScalerValues, WriteScaler(s) PROVE IInv'
    BY <2>4, WriteIInv
  <2> QED BY <2>1, <2>2, <2>3, <2>4 DEF Next
<1> QED BY <1>1, <1>2, PTL DEF Spec

\* The state machine sends whole records, of one trigger or PPS each, for every
\* length of the arrays and every sequence of scaler values: only a stall of the
\* stream breaks one, and a scaler rewritten meanwhile, or 0, sets at most the
\* counter word's trigger apart from the status word's.
THEOREM RecordsAreWhole == Spec => Framed
<1>1. IInv /\ [Next]_vars =>
        [tvalid /\ m_tready' =>
            \/ stalled
            \/ Loose /\ data.kind = "cnt" /\ last.kind = "status"
            \/ prevStalled /\ data.k = 0 /\ data.kind \in {"sample", "sub", "meta"}
            \/ Follows(last, data)]_vars
  BY DEF IInv, FrameInv, Proper
<1> QED BY <1>1, TriggerInvariant, PTL DEF Spec, Framed

\* A counter word is sent after its trigger was counted and before the next record
\* can bring another, so that the numbers grow.
THEOREM CountersGrow == Spec => CounterGrows
<1>1. IInv /\ [Next]_vars =>
        [tvalid /\ m_tready' /\ data.kind = "cnt" =>
            wrapped \/ data.id > lastCnt \/ (stalled /\ data.id = lastCnt)]_vars
  <2> SUFFICES ASSUME IInv, tvalid, data.kind = "cnt", ~wrapped
               PROVE  data.id > lastCnt \/ (stalled /\ data.id = lastCnt)
    OBVIOUS
  <2>1. /\ data.id \in Nat /\ lastCnt <= data.id /\ lastCnt \in Nat
        /\ lastCnt < data.id \/ stalled
    BY DEF IInv, TypeOK, CounterInv
  <2> QED BY <2>1
<1> QED BY <1>1, TriggerInvariant, PTL DEF Spec, CounterGrows
-----------------------------------------------------------------------------
(* The rates: the scaler and the rate counter of one channel, PulseRate    *)

\* The counter counts modulo R: what it has lost is a multiple of R.
Lost(n, c) == \E q \in Nat : n = R * q + c

\* The strengthening of RateUnlessClash that is inductive: the counter is right all
\* through a second that did not begin with a clash.
RateInv ==
    /\ RateTypeOK
    /\ ~clash => Lost(inSec, rate_cnt)
    /\ ~lastClash => Lost(lastSec, word)

LEMMA ModOf ==
    ASSUME NEW q \in Nat, NEW c \in Nat, NEW m \in Nat \ {0}, c < m
    PROVE  (m * q + c) % m = c
OBVIOUS

LEMMA ModRange ==
    ASSUME NEW a \in Nat, NEW m \in Nat \ {0}
    PROVE  a % m \in 0 .. m - 1
OBVIOUS

\* One more counts as one more, across the wrap too.
LEMMA LostNext ==
    ASSUME NEW n \in Nat, NEW c \in 0 .. R - 1, Lost(n, c)
    PROVE  Lost(n + 1, (c + 1) % R)
<1>0. R \in Nat \ {0}
  BY RateAssumption
<1>1. PICK q \in Nat : n = R * q + c
  BY DEF Lost
<1>2. CASE c + 1 < R
  <2>1. (R * 0 + (c + 1)) % R = c + 1
    BY <1>0, <1>2, ModOf
  <2>2. (c + 1) % R = c + 1
    BY <1>0, <2>1
  <2>3. n + 1 = R * q + (c + 1)
    BY <1>0, <1>1
  <2> QED BY <2>2, <2>3 DEF Lost
<1>3. CASE c + 1 = R
  <2>1. (R * 1 + 0) % R = 0
    BY <1>0, ModOf
  <2>2. (c + 1) % R = 0
    BY <1>0, <1>3, <2>1
  <2>3. n + 1 = R * (q + 1) + 0 /\ q + 1 \in Nat
    BY <1>0, <1>1, <1>3
  <2> QED BY <2>2, <2>3 DEF Lost
<1> QED BY <1>0, <1>2, <1>3

LEMMA LostZero ==
    ASSUME NEW n, n = 0
    PROVE  Lost(n, 0)
<1>1. n = R * 0 + 0
  BY RateAssumption
<1> QED BY <1>1 DEF Lost

\* Nothing has been counted: at the start, and in reset.
LEMMA RateZero ==
    ASSUME scaler \in Scalers, aresetn \in BOOLEAN,
           scaler_a_cnt = 0, tr11_dly = FALSE, rate_cnt = 0, word = 0,
           ticked = FALSE, inSec = 0, lastSec = 0, clash = FALSE, lastClash = FALSE
    PROVE  RateInv
<1>1. /\ scaler_a_cnt \in 0 .. W - 1
      /\ rate_cnt \in 0 .. R - 1 /\ word \in 0 .. R - 1
      /\ inSec \in 0 .. MaxSec /\ lastSec \in 0 .. MaxSec
  BY RateAssumption
<1>2. {aresetn, tr11_dly, ticked, clash, lastClash} \subseteq BOOLEAN
  BY Zenon
<1>3. Lost(inSec, rate_cnt) /\ Lost(lastSec, word)
  BY LostZero
<1> QED BY <1>1, <1>2, <1>3, Zenon DEF RateInv, RateTypeOK

LEMMA SetScalerRate ==
    ASSUME RateInv, NEW s \in Scalers, SetScaler(s)
    PROVE  RateInv'
BY DEF RateInv, RateTypeOK, SetScaler, registers, Lost

LEMMA ReleaseRate ==
    ASSUME RateInv, Release
    PROVE  RateInv'
BY DEF RateInv, RateTypeOK, Release, registers, Lost

LEMMA PutInResetRate ==
    ASSUME RateInv, PutInReset
    PROVE  RateInv'
<1>1. /\ scaler' \in Scalers /\ aresetn' \in BOOLEAN
      /\ scaler_a_cnt' = 0 /\ tr11_dly' = FALSE /\ rate_cnt' = 0 /\ word' = 0
      /\ ticked' = FALSE /\ inSec' = 0 /\ lastSec' = 0 /\ clash' = FALSE /\ lastClash' = FALSE
  BY DEF PutInReset, RateInv, RateTypeOK
<1>2. /\ scaler_a_cnt' \in 0 .. W - 1
      /\ rate_cnt' \in 0 .. R - 1 /\ word' \in 0 .. R - 1
      /\ inSec' \in 0 .. MaxSec /\ lastSec' \in 0 .. MaxSec
  BY <1>1, RateAssumption
<1>3. {aresetn', tr11_dly', ticked', clash', lastClash'} \subseteq BOOLEAN
  BY <1>1, Zenon
<1>4. Lost(inSec', rate_cnt') /\ Lost(lastSec', word')
  BY <1>1, LostZero
<1> QED BY <1>1, <1>2, <1>3, <1>4 DEF RateInv, RateTypeOK, Lost

\* A clock keeps the types ...
LEMMA ClockType ==
    ASSUME RateInv, NEW tr1 \in BOOLEAN, NEW pps \in BOOLEAN, RateClock(tr1, pps)
    PROVE  RateTypeOK'
<1>1. scaler' \in Scalers
  BY DEF RateInv, RateTypeOK, RateClock
<1>2. scaler_a_cnt' \in 0 .. W - 1
  <2>1. scaler_a_cnt + 1 \in Nat /\ W \in Nat \ {0}
    BY RateAssumption DEF RateInv, RateTypeOK
  <2>2. (scaler_a_cnt + 1) % W \in 0 .. W - 1
    BY <2>1, ModRange
  <2> QED BY <2>1, <2>2 DEF RateClock, ScalerNext, RateInv, RateTypeOK
<1>3. rate_cnt' \in 0 .. R - 1 /\ word' \in 0 .. R - 1
  <2>1. rate_cnt + 1 \in Nat /\ R \in Nat \ {0}
    BY RateAssumption DEF RateInv, RateTypeOK
  <2>2. (rate_cnt + 1) % R \in 0 .. R - 1
    BY <2>1, ModRange
  <2>3. rate_cnt \in 0 .. R - 1 /\ word \in 0 .. R - 1 /\ 0 \in 0 .. R - 1
    BY <2>1 DEF RateInv, RateTypeOK
  <2>4. /\ rate_cnt' \in {(rate_cnt + 1) % R, 0, rate_cnt}
        /\ word' \in {rate_cnt, word}
    BY DEF RateClock, RateNext
  <2> QED BY <2>2, <2>3, <2>4
<1>4. inSec' \in 0 .. MaxSec /\ lastSec' \in 0 .. MaxSec
  BY RateAssumption DEF RateClock, Bit, RateInv, RateTypeOK
<1>5. /\ aresetn' \in BOOLEAN /\ tr11_dly' \in BOOLEAN /\ ticked' \in BOOLEAN
      /\ clash' \in BOOLEAN /\ lastClash' \in BOOLEAN
  BY Zenon DEF RateClock, max_tick, RateInv, RateTypeOK
<1> QED BY <1>1, <1>2, <1>3, <1>4, <1>5 DEF RateTypeOK

\* ... and the agreement of the counter with the triggers of the second.
LEMMA ClockRate ==
    ASSUME RateInv, NEW tr1 \in BOOLEAN, NEW pps \in BOOLEAN, RateClock(tr1, pps)
    PROVE  /\ ~clash' => Lost(inSec', rate_cnt')
           /\ ~lastClash' => Lost(lastSec', word')
<1>1. CASE pps
  \* Without a trigger in this clock both restart from 0; with one it clashes.
  <2>1. ~max_tick => rate_cnt' = 0 /\ inSec' = 0
    BY <1>1 DEF RateClock, RateNext, Bit
  <2>2. clash' = max_tick /\ word' = rate_cnt /\ lastSec' = inSec /\ lastClash' = clash
    BY <1>1 DEF RateClock
  <2>3. ~max_tick => Lost(inSec', rate_cnt')
    BY <2>1, LostZero
  <2>4. ~clash => Lost(lastSec', word')
    BY <2>2 DEF RateInv
  <2> QED BY <2>2, <2>3, <2>4
<1>2. CASE ~pps
  <2>1. inSec \in Nat /\ rate_cnt \in 0 .. R - 1
    BY DEF RateInv, RateTypeOK
  <2>2. /\ max_tick => inSec' = inSec + 1 /\ rate_cnt' = (rate_cnt + 1) % R
        /\ ~max_tick => inSec' = inSec /\ rate_cnt' = rate_cnt
    BY <1>2, <2>1 DEF RateClock, RateNext, Bit
  <2>3. ~clash => Lost(inSec', rate_cnt')
    BY <2>1, <2>2, LostNext DEF RateInv
  <2>4. UNCHANGED <<clash, word, lastSec, lastClash>>
    BY <1>2 DEF RateClock
  <2> QED BY <2>3, <2>4 DEF RateInv
<1> QED BY <1>1, <1>2

\* The counter agrees with the triggers of every second that did not begin with a
\* trigger in the clock of its PPS, through every scaler change and reset.
THEOREM RateInvariant == RateSpec => []RateInv
<1>1. RateInit => RateInv
  <2> SUFFICES ASSUME RateInit PROVE RateInv
    OBVIOUS
  <2> QED BY RateZero DEF RateInit
<1>2. RateInv /\ [RateStep]_rate_vars => RateInv'
  <2> SUFFICES ASSUME RateInv, [RateStep]_rate_vars PROVE RateInv'
    OBVIOUS
  <2>1. CASE \E tr1, pps \in BOOLEAN : RateClock(tr1, pps)
    BY <2>1, ClockType, ClockRate DEF RateInv, Lost
  <2>2. CASE \E s \in Scalers : SetScaler(s)
    BY <2>2, SetScalerRate
  <2>3. CASE UNCHANGED rate_vars
    BY <2>3 DEF rate_vars, registers, RateInv, RateTypeOK, Lost
  <2>4. CASE Release \/ PutInReset
    BY <2>4, ReleaseRate, PutInResetRate
  <2> QED BY <2>1, <2>2, <2>3, <2>4 DEF RateStep
<1> QED BY <1>1, <1>2, PTL DEF RateSpec

\* The rate word of every such second is its number of triggers modulo the width of
\* the counter, whatever the operator does to the scaler and the reset meanwhile.
THEOREM RateReported == RateSpec => []RateUnlessClash
<1>1. RateInv => RateUnlessClash
  <2> SUFFICES ASSUME RateInv, ~lastClash PROVE word = lastSec % R
    BY DEF RateUnlessClash
  <2>1. PICK q \in Nat : lastSec = R * q + word
    BY DEF RateInv, Lost
  <2>2. word \in Nat /\ word < R /\ R \in Nat \ {0}
    BY RateAssumption DEF RateInv, RateTypeOK
  <2> QED BY <2>1, <2>2, ModOf
<1> QED BY <1>1, RateInvariant, PTL
=============================================================================
