------------------------- MODULE RamWriter_proofs --------------------------
(* Proofs about RamWriter for every size of ring and FIFO.                 *)
EXTENDS RamWriter, TLAPS

IInv == TypeOK /\ NoUnderflow /\ RestAligned /\ BurstAligned

(* One clock in terms of what happened at it: the port took an address,    *)
(* took a beat, was ready for one, the FIFO took a word.                   *)
Effect(take, rden, ready, pushed) ==
    /\ take = 1 => awvalid = 1 /\ busy = 0
    /\ rden = 1 <=> ready = 1 /\ wvalid = 1
    /\ rden = 1 => busy = 1 \/ take = 1
    /\ count' = count + pushed - rden /\ count' <= FifoDepth
    /\ awvalid' = IF (count > AELevel /\ awvalid = 0 /\ wvalid = 0)
                     \/ (ready = 1 /\ addr % 16 = 15 /\ count > AELevel)
                  THEN 1 ELSE IF take = 1 THEN 0 ELSE awvalid
    /\ wvalid' = IF count > AELevel /\ awvalid = 0 /\ wvalid = 0 THEN 1
                 ELSE IF ready = 1 /\ addr % 16 = 15 /\ count <= AELevel
                      THEN 0 ELSE wvalid
    /\ addr' = IF rden = 0 THEN addr
               ELSE IF addr = WRAP - 1 THEN 0 ELSE addr + 1
    /\ base' = IF take = 1 THEN addr ELSE base
    /\ beat' = IF rden = 0 THEN IF take = 1 THEN 0 ELSE beat
               ELSE IF take = 1 THEN 1
               ELSE IF beat = 15 THEN 0 ELSE beat + 1
    /\ busy' = IF rden = 1 THEN IF take = 0 /\ beat = 15 THEN 0 ELSE 1
               ELSE IF take = 1 THEN 1 ELSE busy
    /\ cells' = IF rden = 0 THEN cells
                ELSE IF take = 1 THEN Put(addr)
                ELSE Put(base + beat)
    /\ stored' = stored + rden
    /\ torn' = torn

LEMMA ClockEffect ==
    ASSUME TypeOK, NEW tvalid \in BOOLEAN, NEW awready \in BOOLEAN,
           NEW wready \in BOOLEAN, Clock(tvalid, awready, wready)
    PROVE  \E take, rden, ready, pushed \in {0, 1} :
              Effect(take, rden, ready, pushed)
<1> DEFINE t == IF awready /\ awvalid = 1 THEN 1 ELSE 0
           r == IF wready /\ wvalid = 1 THEN 1 ELSE 0
           y == IF wready THEN 1 ELSE 0
           q == IF tvalid /\ count < FifoDepth THEN 1 ELSE 0
<1>1. t \in {0, 1} /\ r \in {0, 1} /\ y \in {0, 1} /\ q \in {0, 1}
  OBVIOUS
<1>2. /\ t = 1 => awvalid = 1 /\ busy = 0
      /\ r = 1 <=> y = 1 /\ wvalid = 1
      /\ r = 1 => busy = 1 \/ t = 1
  BY DEF Clock, portRules
<1>3. count' = count + q - r /\ count' <= FifoDepth
  BY WriterAssumption DEF Clock, TypeOK
<1>4. /\ awvalid' = IF (count > AELevel /\ awvalid = 0 /\ wvalid = 0)
                       \/ (y = 1 /\ addr % 16 = 15 /\ count > AELevel)
                    THEN 1 ELSE IF t = 1 THEN 0 ELSE awvalid
      /\ wvalid' = IF count > AELevel /\ awvalid = 0 /\ wvalid = 0 THEN 1
                   ELSE IF y = 1 /\ addr % 16 = 15 /\ count <= AELevel
                        THEN 0 ELSE wvalid
  BY WriterAssumption DEF Clock, TypeOK, awvalidNext, wvalidNext, startIdle,
     chain, wlast, almostempty
<1>5. /\ addr' = IF r = 0 THEN addr
                 ELSE IF addr = WRAP - 1 THEN 0 ELSE addr + 1
      /\ base' = IF t = 1 THEN addr ELSE base
      /\ stored' = stored + r /\ torn' = torn
  BY DEF Clock, TypeOK, addrNext
<1>6. /\ beat' = IF r = 0 THEN IF t = 1 THEN 0 ELSE beat
                 ELSE IF t = 1 THEN 1
                 ELSE IF beat = 15 THEN 0 ELSE beat + 1
      /\ busy' = IF r = 1 THEN IF t = 0 /\ beat = 15 THEN 0 ELSE 1
                 ELSE IF t = 1 THEN 1 ELSE busy
  BY DEF Clock, TypeOK
<1>7. cells' = IF r = 0 THEN cells
               ELSE IF t = 1 THEN Put(addr)
               ELSE Put(base + beat)
  <2>1. addr + 0 = addr
    BY WriterAssumption DEF TypeOK
  <2>2. CASE awready /\ awvalid = 1
    BY <2>1, <2>2 DEF Clock
  <2>3. CASE ~(awready /\ awvalid = 1)
    BY <2>3 DEF Clock
  <2> QED BY <2>2, <2>3
<1> HIDE DEF t, r, y, q
<1>8. Effect(t, r, y, q)
  BY <1>2, <1>3, <1>4, <1>5, <1>6, <1>7 DEF Effect
<1> QED BY <1>1, <1>8

LEMMA InitIInv == Init => IInv
<1> SUFFICES ASSUME Init PROVE IInv
  OBVIOUS
<1>1. cells \in [0 .. WRAP - 1 -> Nat]
  BY DEF Init, Empty
<1>2. TypeOK
  BY <1>1, WriterAssumption DEF Init, TypeOK
<1>3. NoUnderflow /\ RestAligned /\ BurstAligned
  BY DEF Init, NoUnderflow, RestAligned, BurstAligned
<1> QED BY <1>2, <1>3 DEF IInv

LEMMA ClockIInv ==
    ASSUME IInv, NEW tvalid \in BOOLEAN, NEW awready \in BOOLEAN,
           NEW wready \in BOOLEAN, Clock(tvalid, awready, wready)
    PROVE  IInv'
<1> USE WriterAssumption
<1>0. TypeOK
  BY DEF IInv
<1>1. PICK take, rden, ready, pushed \in {0, 1} : Effect(take, rden, ready, pushed)
  BY <1>0, ClockEffect
<1>2. addr % 16 \in 0 .. 15
      /\ (addr % 16 # 15 => addr # WRAP - 1 /\ (addr + 1) % 16 = (addr % 16) + 1)
      /\ (addr % 16 = 15 => (addr + 1) % 16 = 0)
  BY <1>0 DEF TypeOK
<1>3. addr' % 16 = IF rden = 0 THEN addr % 16
                   ELSE IF addr % 16 = 15 THEN 0 ELSE (addr % 16) + 1
  <2>1. 0 % 16 = 0
    OBVIOUS
  <2> QED BY <1>0, <1>1, <1>2, <2>1 DEF Effect, TypeOK
<1>4. wvalid = 1 => count >= 16 - (addr % 16)
  BY DEF IInv, NoUnderflow
<1>5. TypeOK'
  <2>1. count' \in 0 .. FifoDepth
    BY <1>0, <1>1, <1>2, <1>4 DEF Effect, TypeOK
  <2>2. cells' \in [0 .. WRAP - 1 -> Nat]
    <3>1. ASSUME NEW a PROVE Put(a) \in [0 .. WRAP - 1 -> Nat]
      <4>1. stored + 1 \in Nat /\ cells \in [0 .. WRAP - 1 -> Nat]
        BY <1>0 DEF TypeOK
      <4> QED BY <4>1, Zenon DEF Put
    <3> QED BY <1>0, <1>1, <3>1 DEF Effect, TypeOK
  <2>3. awvalid' \in {0, 1} /\ wvalid' \in {0, 1} /\ addr' \in 0 .. WRAP - 1
    BY <1>0, <1>1 DEF Effect, TypeOK
  <2>4. busy' \in {0, 1} /\ base' \in 0 .. WRAP - 1 /\ beat' \in 0 .. 15
        /\ stored' \in Nat /\ torn' \in {0, 1}
    BY <1>0, <1>1 DEF Effect, TypeOK
  <2> QED BY <2>1, <2>2, <2>3, <2>4 DEF TypeOK
<1>6. RestAligned'
  BY <1>0, <1>1, <1>2, <1>3 DEF IInv, RestAligned, Effect, TypeOK
<1>7. NoUnderflow'
  BY <1>0, <1>1, <1>2, <1>3, <1>4 DEF IInv, RestAligned, NoUnderflow, Effect, TypeOK
<1>8. BurstAligned'
  <2> SUFFICES ASSUME torn = 0 PROVE BurstAligned'
    BY <1>1 DEF Effect, BurstAligned
  <2>1. /\ busy = 1 => /\ base % 16 = 0 /\ base + beat = addr
                       /\ wvalid = 1 /\ awvalid = 0
        /\ wvalid = 1 /\ busy = 0 => awvalid = 1 /\ addr % 16 = 0
        /\ wvalid = 0 => awvalid = 0 /\ addr % 16 = 0
    BY DEF IInv, BurstAligned
  <2>2. busy = 1 => beat = addr % 16
    BY <1>0, <2>1 DEF TypeOK
  <2>3. CASE rden = 0
    BY <1>0, <1>1, <1>2, <1>3, <2>1, <2>3 DEF Effect, TypeOK, BurstAligned
  <2>4. CASE rden = 1
    <3>0. wvalid = 1 /\ ready = 1 /\ (take = 1 => busy = 0 /\ addr % 16 = 0)
          /\ (take = 0 => busy = 1 /\ awvalid = 0)
      BY <1>0, <1>1, <2>1, <2>4 DEF Effect, TypeOK
    <3>1. CASE addr % 16 = 15
      <4>1. take = 0 /\ beat = 15
        BY <1>0, <1>1, <2>2, <3>0, <3>1 DEF TypeOK
      <4>2. busy' = 0 /\ addr' % 16 = 0
            /\ (count > AELevel => awvalid' = 1 /\ wvalid' = 1)
            /\ (count <= AELevel => awvalid' = 0 /\ wvalid' = 0)
        BY <1>0, <1>1, <1>3, <2>4, <3>0, <3>1, <4>1 DEF Effect, TypeOK
      <4> QED BY <1>0, <4>2 DEF BurstAligned, TypeOK
    <3>2. CASE addr % 16 # 15
      <4>1. addr' = addr + 1 /\ busy' = 1 /\ wvalid' = 1 /\ awvalid' = 0
        BY <1>0, <1>1, <1>2, <2>2, <2>4, <3>0, <3>2 DEF Effect, TypeOK
      <4>2. base' % 16 = 0 /\ base' + beat' = addr + 1
        BY <1>0, <1>1, <2>1, <2>2, <2>4, <3>0, <3>2 DEF Effect, TypeOK
      <4> QED BY <4>1, <4>2 DEF BurstAligned
    <3> QED BY <3>1, <3>2
  <2> QED BY <2>3, <2>4
<1> QED BY <1>5, <1>6, <1>7, <1>8 DEF IInv

LEMMA ResetIInv ==
    ASSUME IInv, Reset
    PROVE  IInv'
<1>1. cells' \in [0 .. WRAP - 1 -> Nat]
  BY DEF Reset, Empty
<1>2. TypeOK'
  BY <1>1, WriterAssumption DEF IInv, TypeOK, Reset
<1>3. NoUnderflow' /\ RestAligned' /\ BurstAligned'
  BY DEF IInv, TypeOK, Reset, NoUnderflow, RestAligned, BurstAligned
<1> QED BY <1>2, <1>3 DEF IInv

LEMMA StutterIInv ==
    ASSUME IInv, UNCHANGED vars
    PROVE  IInv'
BY DEF IInv, TypeOK, NoUnderflow, RestAligned, BurstAligned, vars

(* The writer's invariant holds for every ring and FIFO whose almost-empty *)
(* level leaves a whole burst.                                             *)
THEOREM WriterInvariant == Spec => []IInv
<1>1. IInv /\ [Next]_vars => IInv'
  BY ClockIInv, ResetIInv, StutterIInv DEF Next
<1> QED BY InitIInv, <1>1, PTL DEF Spec

(* A started burst never finds the FIFO empty, for every stream, port and  *)
(* pattern of resets.                                                      *)
THEOREM BurstsAreFed == Spec => []NoUnderflow
<1>1. IInv => NoUnderflow
  BY DEF IInv
<1> QED BY <1>1, WriterInvariant, PTL

(* The bursts tile the ring, and the status register is the port's own     *)
(* write position.                                                         *)
THEOREM BurstsTileTheRing == Spec => []BurstAligned
<1>1. IInv => BurstAligned
  BY DEF IInv
<1> QED BY <1>1, WriterInvariant, PTL

(* Until a reset cuts a burst, the writer stores word n in slot n modulo   *)
(* the ring: it implements RingStore, on which ReadoutRing builds.         *)
THEOREM WriterImplementsRing == Spec => Implements
<1> USE WriterAssumption
<1>1. Init => Ring!Init
  BY DEF Init, Ring!Init, Empty, Ring!Empty
<1>2. ASSUME IInv, NEW tvalid \in BOOLEAN, NEW awready \in BOOLEAN,
             NEW wready \in BOOLEAN, Clock(tvalid, awready, wready)
      PROVE  Ring!Next \/ UNCHANGED <<IF torn = 1 THEN 0 ELSE addr,
                                      IF torn = 1 THEN Empty ELSE cells,
                                      IF torn = 1 THEN 0 ELSE stored>>
  <2>0. TypeOK
    BY <1>2 DEF IInv
  <2>1. PICK take, rden, ready, pushed \in {0, 1} : Effect(take, rden, ready, pushed)
    BY <1>2, <2>0, ClockEffect
  <2>2. torn \in {0, 1} /\ torn' = torn /\ Empty' = Empty
    BY <2>0, <2>1 DEF TypeOK, Effect, Empty
  <2>3. CASE torn = 1
    BY <2>2, <2>3
  <2>4. CASE rden = 0
    BY <2>0, <2>1, <2>2, <2>4 DEF TypeOK, Effect
  <2>5. CASE torn = 0 /\ rden = 1
    <3>1. cells' = Put(addr)
      <4>1. take = 0 => base + beat = addr
        BY <1>2, <2>0, <2>1, <2>5 DEF IInv, BurstAligned, Effect, TypeOK
      <4> QED BY <2>1, <2>5, <4>1 DEF Effect
    <3> QED BY <2>0, <2>1, <2>2, <2>5, <3>1 DEF TypeOK, Effect, Put, Ring!Next, Ring!Store
  <2> QED BY <2>2, <2>3, <2>4, <2>5
<1>3. ASSUME IInv, Reset
      PROVE  Ring!Next
  <2>1. Empty' = Empty /\ torn \in {0, 1} /\ busy \in {0, 1}
    BY <1>3 DEF Empty, IInv, TypeOK
  <2> QED BY <1>3, <2>1 DEF Reset, Ring!Next, Ring!Reset, Ring!Empty, Empty
<1>4. ASSUME UNCHANGED vars
      PROVE  UNCHANGED <<IF torn = 1 THEN 0 ELSE addr,
                         IF torn = 1 THEN Empty ELSE cells,
                         IF torn = 1 THEN 0 ELSE stored>>
  <2>1. Empty' = Empty
    BY DEF Empty
  <2> QED BY <1>4, <2>1 DEF vars
<1>5. IInv /\ [Next]_vars =>
        [Ring!Next]_<<IF torn = 1 THEN 0 ELSE addr,
                      IF torn = 1 THEN Empty ELSE cells,
                      IF torn = 1 THEN 0 ELSE stored>>
  BY <1>2, <1>3, <1>4 DEF Next
<1> QED BY <1>1, <1>5, WriterInvariant, PTL DEF Spec, Implements, Ring!Spec
=============================================================================
