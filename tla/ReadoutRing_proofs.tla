------------------------ MODULE ReadoutRing_proofs -------------------------
(* Proofs about ReadoutRing for every size of the ring.                    *)
EXTENDS ReadoutRing, TLAPS

(* The geometry and rate under which the read-out is exact: the reader     *)
(* wraps where the writer does, and three intervals' worth of words, less  *)
(* one, fit in the ring.                                                   *)
ExactRegime == LIMIT = 8 * WRAP /\ 3 * D <= WRAP + 1

LEMMA InitIInv ==
    ASSUME ExactRegime, Init
    PROVE  IInv
<1>1. TypeOK
  <2>1. mem \in [Offsets -> Nat]
    BY DEF Init, NothingStored
  <2>2. printed \in Seq(Nat)
    BY DEF Init
  <2>3. interrupted \in BOOLEAN
    BY Zenon DEF Init
  <2>4. value \in [Threads -> 0 .. WRAP - 1] /\ taken \in [Threads -> Nat]
    BY GeometryAssumption DEF Init
  <2> QED BY <2>1, <2>2, <2>3, <2>4, GeometryAssumption DEF Init, TypeOK
<1>2. MemInv
  BY GeometryAssumption DEF Init, MemInv, lap
<1>3. SampleInv /\ CursorInv /\ LoopInv /\ OffInv
  BY GeometryAssumption DEF Init, SampleInv, Recent, CursorInv, LoopInv, OffInv, lap
<1>4. ExactStream
  BY DEF Init, ExactStream
<1> QED BY <1>1, <1>2, <1>3, <1>4 DEF IInv

LEMMA WriteWordIInv ==
    ASSUME ExactRegime, IInv, WriteWord
    PROVE  IInv'
<1> USE GeometryAssumption DEF ExactRegime
<1>1. /\ addr \in 0 .. WRAP - 1 /\ written \in Nat /\ mem \in [Offsets -> Nat]
      /\ 8 * addr \in Offsets /\ 8 * addr + 4 \in Offsets
  <2>1. addr \in 0 .. WRAP - 1 /\ written \in Nat /\ mem \in [Offsets -> Nat]
    BY DEF IInv, TypeOK
  <2>2. 2 * addr \in 0 .. 2 * WRAP - 1 /\ 2 * addr + 1 \in 0 .. 2 * WRAP - 1
        /\ 8 * addr = 4 * (2 * addr) /\ 8 * addr + 4 = 4 * (2 * addr + 1)
    BY <2>1
  <2>3. 8 * addr \in Offsets
    BY <2>2 DEF Offsets
  <2>4. 8 * addr + 4 \in Offsets
    BY <2>2 DEF Offsets
  <2> QED BY <2>1, <2>3, <2>4
<1>2. TypeOK'
  <2>1. addr' \in 0 .. WRAP - 1 /\ written' \in Nat
    BY <1>1 DEF WriteWord, NextAddr
  <2>2. mem' \in [Offsets -> Nat]
    <3>1. 2 * written + 1 \in Nat /\ 2 * written + 2 \in Nat
      BY <1>1
    <3> QED BY <1>1, <3>1, Zenon DEF WriteWord
  <2> QED BY <2>1, <2>2 DEF IInv, TypeOK, WriteWord
<1>3. lap' \in {lap, lap + WRAP} /\ (addr = WRAP - 1 <=> lap' = lap + WRAP)
      /\ lap \in Int /\ (addr # WRAP - 1 => addr' = addr + 1)
      /\ (addr = WRAP - 1 => addr' = 0)
  BY <1>1 DEF WriteWord, NextAddr, lap
<1>4. \A s \in 0 .. WRAP - 1 :
         mem'[8 * s] = (IF s = addr THEN 2 * written + 1 ELSE mem[8 * s])
         /\ mem'[8 * s + 4] = (IF s = addr THEN 2 * written + 2 ELSE mem[8 * s + 4])
  <2> TAKE s \in 0 .. WRAP - 1
  <2>1. 2 * s \in 0 .. 2 * WRAP - 1 /\ 2 * s + 1 \in 0 .. 2 * WRAP - 1
        /\ 8 * s = 4 * (2 * s) /\ 8 * s + 4 = 4 * (2 * s + 1)
    OBVIOUS
  <2>2. 8 * s \in Offsets
    BY <2>1 DEF Offsets
  <2>3. 8 * s + 4 \in Offsets
    BY <2>1 DEF Offsets
  <2>4. mem' = [mem EXCEPT ![8 * addr] = 2 * written + 1,
                           ![8 * addr + 4] = 2 * written + 2]
    BY DEF WriteWord
  <2> QED BY <1>1, <2>2, <2>3, <2>4
<1>5. MemInv'
  <2>1. lap' = 0 \/ lap' >= WRAP
    BY <1>1, <1>3 DEF IInv, MemInv, lap
  <2>2. ASSUME NEW s \in 0 .. WRAP - 1
        PROVE  IF s < addr'
               THEN /\ mem'[8 * s] = 2 * (lap' + s) + 1
                    /\ mem'[8 * s + 4] = 2 * (lap' + s) + 2
               ELSE lap' > 0 =>
                    /\ mem'[8 * s] = 2 * (lap' - WRAP + s) + 1
                    /\ mem'[8 * s + 4] = 2 * (lap' - WRAP + s) + 2
    <3>1. written = lap + addr
      BY <1>1 DEF lap
    <3>2. CASE addr = WRAP - 1
      BY <1>1, <1>3, <1>4, <3>1, <3>2 DEF IInv, MemInv
    <3>3. CASE addr # WRAP - 1
      BY <1>1, <1>3, <1>4, <3>1, <3>3 DEF IInv, MemInv
    <3> QED BY <3>2, <3>3
  <2> QED BY <2>1, <2>2 DEF MemInv
<1>6. SampleInv'
  <2>1. used \in Nat /\ used <= written /\ written + 1 <= used + D /\ used' = used /\ written' = written + 1
    BY <1>1 DEF IInv, TypeOK, SampleInv, WriteWord
  <2>2. ASSUME NEW p \in 0 .. WRAP - 1, NEW n \in Nat, Recent(p, n)
        PROVE  n <= written' /\ (n >= used' => n - p \in {lap', lap' - WRAP})
    BY <1>1, <1>3, <2>1, <2>2 DEF IInv, MemInv, Recent, lap
  <2>3. /\ position \in 0 .. WRAP - 1 /\ sampled \in Nat
        /\ value["main"] \in 0 .. WRAP - 1 /\ value["isr"] \in 0 .. WRAP - 1
        /\ taken["main"] \in Nat /\ taken["isr"] \in Nat
    BY DEF IInv, TypeOK, Threads
  <2>4. UNCHANGED <<position, sampled, value, taken, pc, isr>>
    BY DEF WriteWord
  <2>5. Recent(position, sampled)'
    BY <2>2, <2>3, <2>4 DEF IInv, SampleInv, Recent
  <2>6. pc' = "store" => Recent(value["main"], taken["main"])'
    BY <2>2, <2>3, <2>4 DEF IInv, SampleInv, Recent
  <2>7. isr' = "store" => Recent(value["isr"], taken["isr"])'
    BY <2>2, <2>3, <2>4 DEF IInv, SampleInv, Recent
  <2>8. used' <= written' /\ written' <= used' + D
    BY <1>1, <2>1
  <2> QED BY <2>5, <2>6, <2>7, <2>8 DEF SampleInv
<1>7. CursorInv'
  <2>1. pc # "off" /\ pc' = pc /\ current' = current /\ used' = used
        /\ printed' = printed /\ decoded' = decoded /\ readlap' = readlap
    BY DEF WriteWord, decoded, readlap
  <2>2. current \in Int /\ used \in Nat /\ Len(printed) \in Nat
        /\ decoded \in Int /\ decoded = readlap + current + 4
        /\ i \in Nat /\ readend \in Nat
    BY DEF IInv, TypeOK, decoded, readlap
  <2>3. written = lap + addr /\ written + 1 <= used + D
    BY <1>1, <2>2 DEF lap, WriteWord
  <2>4. readlap' \in {8 * lap', 8 * (lap' - WRAP)}
    <3>1. CASE addr # WRAP - 1
      BY <1>3, <2>1, <3>1 DEF IInv, CursorInv
    <3>2. CASE addr = WRAP - 1
      <4>1. readlap = 8 * lap \/ readlap = 8 * (lap - WRAP)
        BY <2>1 DEF IInv, CursorInv
      <4>2. 8 * used - decoded <= 8 * (D - 1) => readlap # 8 * (lap - WRAP)
        BY SMTT(30), <1>1, <1>3, <2>1, <2>2, <2>3, <3>2 DEF IInv, CursorInv
      <4>3. ASSUME pc = "read", readlap = 8 * (lap - WRAP)
            PROVE  FALSE
        <5>1. /\ i = current + 4 /\ i <= readend /\ readend <= LIMIT
              /\ 8 * used - decoded <= 8 * (2 * D - 1)
              /\ \/ decoded + (readend - i) = 8 * used
                 \/ 8 * used - (decoded + (readend - i)) <= 8 * (D - 1)
          BY <4>3 DEF IInv, LoopInv
        <5>2. decoded = 8 * lap - 8 * WRAP + i
          BY <1>3, <2>2, <4>3, <5>1
        <5>3. i = LIMIT /\ readend = LIMIT
          BY SMTT(30), <1>1, <1>3, <2>2, <2>3, <3>2, <5>1, <5>2
        <5>4. 8 * used - decoded <= 8 * (D - 1)
          BY <2>2, <5>1, <5>3
        <5> QED BY <4>2, <4>3, <5>4
      <4>4. pc # "read" => 8 * used - decoded <= 8 * (D - 1)
        BY <2>1, <2>2 DEF IInv, CursorInv
      <4> QED BY <1>3, <2>1, <3>2, <4>1, <4>2, <4>3, <4>4
    <3> QED BY <3>1, <3>2
  <2> QED BY <2>1, <2>4 DEF IInv, CursorInv
<1>8. LoopInv'
  BY DEF IInv, LoopInv, WriteWord, decoded
<1>9. ExactStream' /\ OffInv'
  BY DEF IInv, ExactStream, OffInv, WriteWord
<1> QED BY <1>2, <1>5, <1>6, <1>7, <1>8, <1>9 DEF IInv

(* The steps that touch neither the ring nor the cursor: what they change  *)
(* of the samples is to be recent.                                         *)
LEMMA QuietStepIInv ==
    ASSUME ExactRegime, IInv, TypeOK', SampleInv',
           UNCHANGED <<addr, mem, current, i, readend, printed, written, used>>,
           pc \notin {"off", "read"}, pc' \notin {"off", "read"}
    PROVE  IInv'
<1>1. lap' = lap /\ decoded' = decoded /\ readlap' = readlap
  BY DEF lap, decoded, readlap
<1>2. MemInv' /\ CursorInv'
  BY <1>1 DEF IInv, MemInv, CursorInv
<1>3. LoopInv' /\ ExactStream' /\ OffInv'
  BY DEF IInv, LoopInv, ExactStream, OffInv
<1> QED BY <1>2, <1>3 DEF IInv

LEMMA UnmovedIInv ==
    ASSUME ExactRegime, IInv, TypeOK', SampleInv',
           UNCHANGED <<addr, mem, current, i, readend, printed, written, used, pc>>
    PROVE  IInv'
<1>1. lap' = lap /\ decoded' = decoded /\ readlap' = readlap
  BY DEF lap, decoded, readlap
<1>2. MemInv' /\ CursorInv' /\ LoopInv' /\ ExactStream' /\ OffInv'
  BY <1>1 DEF IInv, MemInv, CursorInv, LoopInv, ExactStream, OffInv
<1> QED BY <1>2 DEF IInv

(* Reading the register and storing what was read.                         *)
LEMMA PositionIInv ==
    ASSUME ExactRegime, IInv, MainIrq \/ MainStore \/ ThreadIrq \/ ThreadStore
    PROVE  IInv'
<1> USE GeometryAssumption DEF ExactRegime
<1>1. /\ addr \in 0 .. WRAP - 1 /\ written \in Nat /\ lap \in Int /\ written - addr = lap
      /\ value \in [Threads -> 0 .. WRAP - 1] /\ taken \in [Threads -> Nat]
      /\ "main" \in Threads /\ "isr" \in Threads
  BY DEF IInv, TypeOK, Threads, lap
<1>2. interrupted' \in BOOLEAN
  BY Zenon DEF IInv, TypeOK, MainIrq, MainStore, ThreadIrq, ThreadStore, ReadPosition, StorePosition
<1>3. ASSUME NEW t \in Threads, ReadPosition(t)
      PROVE  /\ value' \in [Threads -> 0 .. WRAP - 1] /\ taken' \in [Threads -> Nat]
             /\ value'[t] = addr /\ taken'[t] = written
             /\ \A u \in Threads \ {t} : value'[u] = value[u] /\ taken'[u] = taken[u]
             /\ UNCHANGED <<addr, mem, position, current, i, readend, printed, written, sampled, used>>
  BY <1>1, <1>3 DEF ReadPosition
<1>4. ASSUME NEW t \in Threads, StorePosition(t)
      PROVE  /\ value' \in [Threads -> 0 .. WRAP - 1] /\ taken' \in [Threads -> Nat]
             /\ position' = value[t] /\ sampled' = taken[t]
             /\ position' \in 0 .. WRAP - 1 /\ sampled' \in Nat
             /\ \A u \in Threads \ {t} : value'[u] = value[u] /\ taken'[u] = taken[u]
             /\ UNCHANGED <<addr, mem, current, i, readend, printed, written, used>>
  BY <1>1, <1>4 DEF StorePosition
<1>5. CASE MainIrq
  <2>1. ReadPosition("main") /\ pc = "wait" /\ pc' = "store" /\ isr' = isr
    BY <1>5 DEF MainIrq
  <2>2. TypeOK'
    BY <1>1, <1>2, <1>3, <2>1 DEF IInv, TypeOK
  <2>3. SampleInv'
    BY <1>1, <1>3, <2>1 DEF IInv, SampleInv, Recent, lap
  <2> QED BY <1>1, <1>3, <2>1, <2>2, <2>3, QuietStepIInv
<1>6. CASE MainStore
  <2>1. StorePosition("main") /\ pc = "store" /\ pc' = "call" /\ isr' = isr
    BY <1>6 DEF MainStore
  <2>2. TypeOK'
    <3>1. position' \in 0 .. WRAP - 1 /\ sampled' \in Nat
      BY <1>1, <1>4, <2>1
    <3>2. value' \in [Threads -> 0 .. WRAP - 1] /\ taken' \in [Threads -> Nat]
      BY <1>1, <1>4, <2>1
    <3>3. UNCHANGED <<addr, mem, current, i, readend, printed, written, used>>
      BY <1>1, <1>4, <2>1
    <3> QED BY <1>2, <2>1, <3>1, <3>2, <3>3 DEF IInv, TypeOK
  <2>3. SampleInv'
    BY <1>1, <1>4, <2>1 DEF IInv, SampleInv, Recent, lap
  <2> QED BY <1>1, <1>4, <2>1, <2>2, <2>3, QuietStepIInv
<1>7. CASE ThreadIrq
  <2>1. ReadPosition("isr") /\ isr' = "store" /\ pc' = pc
    BY <1>7 DEF ThreadIrq
  <2>2. TypeOK'
    BY <1>1, <1>2, <1>3, <2>1 DEF IInv, TypeOK
  <2>3. SampleInv'
    BY <1>1, <1>3, <2>1 DEF IInv, SampleInv, Recent, lap
  <2> QED BY <1>1, <1>3, <2>1, <2>2, <2>3, UnmovedIInv
<1>8. CASE ThreadStore
  <2>1. StorePosition("isr") /\ isr = "store" /\ isr' = "poll" /\ pc' = pc
    BY <1>8 DEF ThreadStore
  <2>2. TypeOK'
    <3>1. position' \in 0 .. WRAP - 1 /\ sampled' \in Nat
      BY <1>1, <1>4, <2>1
    <3>2. value' \in [Threads -> 0 .. WRAP - 1] /\ taken' \in [Threads -> Nat]
      BY <1>1, <1>4, <2>1
    <3>3. UNCHANGED <<addr, mem, current, i, readend, printed, written, used>>
      BY <1>1, <1>4, <2>1
    <3> QED BY <1>2, <2>1, <3>1, <3>2, <3>3 DEF IInv, TypeOK
  <2>3. SampleInv'
    BY <1>1, <1>4, <2>1 DEF IInv, SampleInv, Recent, lap
  <2> QED BY <1>1, <1>4, <2>1, <2>2, <2>3, UnmovedIInv
<1> QED BY <1>5, <1>6, <1>7, <1>8

(* The steps of the main loop and the signal that change nothing of them.  *)
LEMMA LoopStepIInv ==
    ASSUME ExactRegime, IInv,
           Start \/ MainTimeout \/ ReadBufferAstray \/ Signal \/ UNCHANGED vars
    PROVE  IInv'
<1> USE GeometryAssumption DEF ExactRegime
<1>1. interrupted' \in BOOLEAN
  BY Zenon DEF IInv, TypeOK, Start, MainTimeout, ReadBufferAstray, Signal, vars
<1>2. CASE Start
  <2>1. TypeOK' /\ SampleInv'
    BY <1>1, <1>2 DEF IInv, TypeOK, SampleInv, Recent, lap, Start
  <2>2. MemInv' /\ CursorInv' /\ LoopInv' /\ ExactStream' /\ OffInv'
    BY <1>2 DEF IInv, TypeOK, MemInv, SampleInv, CursorInv, LoopInv, ExactStream, OffInv,
       lap, decoded, readlap, Start
  <2> QED BY <2>1, <2>2 DEF IInv
<1>3. CASE MainTimeout \/ ReadBufferAstray
  <2>1. TypeOK' /\ SampleInv'
    BY <1>1, <1>3 DEF IInv, TypeOK, SampleInv, Recent, lap, MainTimeout, ReadBufferAstray
  <2> QED BY <1>3, <2>1, QuietStepIInv DEF MainTimeout, ReadBufferAstray
<1>4. CASE Signal \/ UNCHANGED vars
  <2>1. TypeOK' /\ SampleInv'
    BY <1>1, <1>4 DEF IInv, TypeOK, SampleInv, Recent, lap, Signal, vars
  <2> QED BY <1>4, <2>1, UnmovedIInv DEF Signal, vars
<1> QED BY <1>2, <1>3, <1>4

(* The end of a call and the end of a session.                             *)
LEMMA EndIInv ==
    ASSUME ExactRegime, IInv, ReadDone \/ Stop
    PROVE  IInv'
<1> USE GeometryAssumption DEF ExactRegime
<1>1. interrupted' \in BOOLEAN
  BY Zenon DEF IInv, TypeOK, ReadDone, Stop, ResetWriter
<1>2. CASE ReadDone
  <2>1. pc = "read" /\ pc' \in {"wait", "stop"} /\ i = readend
    BY <1>2 DEF IInv, TypeOK, LoopInv, ReadDone
  <2>2. /\ current = readend - 4 /\ readend % 8 = 0
        /\ \/ decoded = 8 * used
           \/ readend = LIMIT /\ 8 * used - decoded <= 8 * (D - 1)
    BY <2>1 DEF IInv, TypeOK, LoopInv, decoded
  <2>3. (current + 4) % 8 = 0
    BY <2>2 DEF IInv, TypeOK
  <2>4. TypeOK' /\ MemInv' /\ SampleInv' /\ LoopInv' /\ ExactStream' /\ OffInv'
    BY <1>1, <1>2, <2>1 DEF IInv, TypeOK, MemInv, SampleInv, Recent, LoopInv,
       ExactStream, OffInv, lap, ReadDone
  <2>5. CursorInv'
    BY <1>2, <2>1, <2>2, <2>3 DEF IInv, CursorInv, lap, decoded, readlap, ReadDone
  <2> QED BY <2>4, <2>5 DEF IInv
<1>3. CASE Stop
  <2>1. mem' \in [Offsets -> Nat]
    BY <1>3 DEF Stop, ResetWriter, NothingStored
  <2>2. printed' = <<>> /\ printed' \in Seq(Nat)
    BY <1>3 DEF Stop, ResetWriter
  <2>3. TypeOK'
    <3>1. value' \in [Threads -> 0 .. WRAP - 1] /\ taken' \in [Threads -> Nat]
      BY <1>3 DEF Stop
    <3> QED BY <1>1, <1>3, <2>1, <2>2, <3>1 DEF TypeOK, Stop, ResetWriter
  <2>4. MemInv'
    BY <1>3 DEF MemInv, lap, Stop, ResetWriter
  <2>5. SampleInv' /\ CursorInv' /\ LoopInv' /\ OffInv' /\ ExactStream'
    BY <1>3 DEF SampleInv, Recent, CursorInv, LoopInv, OffInv, ExactStream, lap, Stop, ResetWriter
  <2> QED BY <2>3, <2>4, <2>5 DEF IInv
<1> QED BY <1>2, <1>3

(* The call of read_buffer(): the range it sets out to read is the unread  *)
(* part of what was sampled, up to the end of the ring.                    *)
LEMMA ReadBufferIInv ==
    ASSUME ExactRegime, IInv, ReadBuffer
    PROVE  IInv'
<1> USE GeometryAssumption DEF ExactRegime
<1> DEFINE p == 8 * position
           c == WrapCursor(current)
           base == decoded - (c + 4)
<1>1. /\ pc = "call" /\ pc' = "read" /\ current' = c /\ used' = sampled
      /\ UNCHANGED <<addr, mem, value, isr, position, interrupted, printed, written, taken, sampled>>
      /\ i' = ReadRange(c, p).init
      /\ readend' = (IF c # p THEN ReadRange(c, p).end ELSE 0)
  BY DEF ReadBuffer
<1>2. /\ addr \in 0 .. WRAP - 1 /\ position \in 0 .. WRAP - 1
      /\ current \in Int /\ written \in Nat /\ sampled \in Nat /\ used \in Nat
      /\ Len(printed) \in Nat /\ decoded \in Int /\ lap \in Int
      /\ written = lap + addr /\ p \in Int /\ decoded = 4 * Len(printed)
  BY DEF IInv, TypeOK, lap, decoded
<1>3. /\ current \in -4 .. LIMIT - 4 /\ (current + 4) % 8 = 0
      /\ decoded <= 8 * used
      /\ decoded = 8 * used \/ (current = LIMIT - 4 /\ 8 * used - decoded <= 8 * (D - 1))
      /\ readlap \in {8 * lap, 8 * (lap - WRAP)} /\ decoded = readlap + current + 4
  BY <1>1, <1>2 DEF IInv, CursorInv, readlap
<1>4. /\ used <= sampled /\ sampled <= written /\ written <= used + D
      /\ sampled = lap + position \/ sampled = lap - WRAP + position
  BY <1>2 DEF IInv, SampleInv, Recent, ReadBuffer
<1>5. /\ c \in -4 .. LIMIT - 8 /\ (c + 4) % 8 = 0
      /\ base = 8 * lap \/ base = 8 * (lap - WRAP)
      /\ decoded = 8 * used \/ (c = -4 /\ 8 * used - decoded <= 8 * (D - 1))
  <2>1. CASE current = LIMIT - 4
    <3>1. c = -4 /\ base = decoded
      BY <1>2, <2>1 DEF WrapCursor
    <3>2. decoded = 8 * lap
      BY <1>2, <1>3, <1>4, <2>1
    <3> QED BY <1>2, <1>3, <3>1, <3>2
  <2>2. CASE current # LIMIT - 4
    <3>1. c = current /\ base = readlap
      BY <2>2 DEF WrapCursor, readlap
    <3>2. current <= LIMIT - 8
      BY <1>2, <1>3, <2>2
    <3> QED BY <1>3, <3>1, <3>2
  <2> QED BY <2>1, <2>2
<1>5a. p = 8 * position /\ base = decoded - (c + 4)
       /\ decoded' = decoded /\ lap' = lap /\ readlap' = base
  BY <1>1, <1>2 DEF decoded, readlap, lap
<1> HIDE DEF p, c, base
<1>6. /\ i' = c + 4 /\ readend' \in {p, LIMIT} /\ i' <= readend'
      /\ (i' <= p => readend' = p) /\ (i' > p => readend' = LIMIT)
  <2>1. CASE c + 4 <= p
    BY <1>1, <1>2, <1>5, <2>1 DEF ReadRange
  <2>2. CASE c + 4 > p
    <3>1. c >= p + 4
      BY <1>2, <1>5, <1>5a, <2>2
    <3> QED BY <1>1, <1>2, <1>5, <2>2, <3>1 DEF ReadRange
  <2> QED BY <1>2, <1>5, <2>1, <2>2
<1>7. 8 * sampled - decoded <= 8 * (2 * D - 1) /\ decoded <= 8 * sampled
  BY <1>2, <1>3, <1>4
<1>8. decoded' = decoded /\ readlap' = base /\ lap' = lap /\ decoded = base + i'
      /\ base \in Int /\ i' \in Int /\ c \in Int
  BY <1>2, <1>5, <1>5a, <1>6
<1>9. \/ decoded + (readend' - i') = 8 * sampled
      \/ /\ readend' = LIMIT
         /\ decoded + (readend' - i') <= 8 * sampled
         /\ 8 * sampled - (decoded + (readend' - i')) <= 8 * (D - 1)
  <2>1. CASE i' <= p
    <3>1. readend' = p /\ c + 4 <= p
      BY <1>6, <2>1
    <3>2. base = 8 * (sampled - position)
      BY <1>2, <1>4, <1>5, <1>5a, <1>6, <1>7, <1>8, <3>1
    <3>3. readend' - i' = 8 * sampled - decoded
      BY SMTT(30), <1>2, <1>5a, <1>8, <3>1, <3>2
    <3> QED BY <1>2, <1>8, <3>1, <3>3
  <2>2. CASE i' > p
    <3>1. readend' = LIMIT /\ c + 4 > p /\ c # -4
      BY <1>2, <1>5, <1>5a, <1>6, <1>8, <2>2
    <3>2. decoded = 8 * used /\ c + 4 >= p + 8
      BY <1>2, <1>5, <1>5a, <1>8, <3>1
    <3>3. base = 8 * (sampled - position) - 8 * WRAP
      BY <1>2, <1>4, <1>5, <1>5a, <1>6, <1>7, <1>8, <3>1, <3>2
    <3>4. decoded + (readend' - i') = 8 * (sampled - position)
      <4>1. readend' = 8 * WRAP /\ WRAP \in Int
        BY <3>1
      <4>2. decoded - i' = base
        BY <1>5a, <1>6
      <4> QED BY SMTT(30), <1>2, <1>8, <3>3, <4>1, <4>2
    <3>5. sampled - position >= used + 1
      BY <1>2, <1>4, <1>5, <1>6, <1>8, <3>1, <3>2, <3>4
    <3> QED BY SMTT(30), <1>2, <1>4, <1>8, <3>1, <3>4, <3>5
  <2> QED BY <1>2, <1>5, <1>6, <2>1, <2>2
<1>10. i' % 4 = 0 /\ readend' % 8 = 0 /\ i' \in Nat /\ readend' \in Nat
       /\ readend' <= LIMIT
  <2>1. (c + 4) % 4 = 0 /\ p % 8 = 0
    BY <1>2, <1>5, <1>5a, <1>8
  <2>2. i' % 4 = 0 /\ readend' % 8 = 0
    BY <1>6, <2>1
  <2>3. p \in Nat /\ p <= LIMIT
    BY <1>2, <1>5a
  <2>4. readend' \in Nat /\ readend' <= LIMIT
    BY <1>6, <2>3
  <2>5. i' \in Nat
    BY <1>5, <1>6
  <2> QED BY <2>2, <2>4, <2>5
<1>11. TypeOK'
  <2>1. interrupted' \in BOOLEAN
    BY <1>1, Zenon DEF IInv, TypeOK
  <2> QED BY <1>1, <1>5, <1>10, <2>1 DEF IInv, TypeOK
<1>12. MemInv' /\ SampleInv' /\ ExactStream' /\ OffInv'
  <2>1. taken["isr"] \in Nat
    BY DEF IInv, TypeOK, Threads
  <2>2. SampleInv'
    BY <1>1, <1>2, <1>4, <1>8, <2>1 DEF IInv, SampleInv, Recent
  <2> QED BY <1>1, <1>2, <1>8, <2>2 DEF IInv, MemInv, ExactStream, OffInv
<1>13. CursorInv'
  BY <1>1, <1>2, <1>5, <1>7, <1>8 DEF CursorInv
<1>14. LoopInv'
  BY <1>1, <1>2, <1>5, <1>6, <1>7, <1>8, <1>9, <1>10 DEF LoopInv
<1> QED BY <1>11, <1>12, <1>13, <1>14 DEF IInv

(* While the loop runs, the words it has yet to reach are the next ones of *)
(* the stream.                                                             *)
LEMMA PendingWords ==
    ASSUME ExactRegime, IInv, pc = "read", NEW k \in Nat, i + 4 * k < readend
    PROVE  mem[i + 4 * k] = Len(printed) + 1 + k
<1> USE GeometryAssumption DEF ExactRegime
<1>1. /\ addr \in 0 .. WRAP - 1 /\ current \in Int /\ i \in Nat /\ readend \in Nat
      /\ written \in Nat /\ used \in Nat /\ Len(printed) \in Nat
      /\ decoded = 4 * Len(printed) /\ lap \in Int /\ written = lap + addr
  BY DEF IInv, TypeOK, decoded, lap
<1> DEFINE j == i + 4 * k
<1>2. /\ j % 4 = 0 /\ j < LIMIT /\ i <= j /\ j \in Nat
      /\ 8 * used - decoded <= 8 * (2 * D - 1)
      /\ decoded - i + j < 8 * used
      /\ written <= used + D /\ used <= written
      /\ decoded - i \in {8 * lap, 8 * (lap - WRAP)}
  <2>1. /\ i % 4 = 0 /\ i = current + 4 /\ readend <= LIMIT
        /\ 8 * used - decoded <= 8 * (2 * D - 1)
        /\ decoded + (readend - i) <= 8 * used
    BY <1>1 DEF IInv, LoopInv
  <2>2. readlap \in {8 * lap, 8 * (lap - WRAP)}
    BY DEF IInv, CursorInv
  <2>3. decoded - i \in {8 * lap, 8 * (lap - WRAP)}
    BY <2>1, <2>2 DEF readlap
  <2>4. written <= used + D /\ used <= written
    BY <1>1 DEF IInv, TypeOK, SampleInv
  <2>5. j < LIMIT /\ i <= j /\ j \in Nat /\ decoded - i + j < 8 * used
    BY <1>1, <2>1
  <2>6. j % 4 = 0
    BY <1>1, <2>1
  <2> QED BY <2>1, <2>3, <2>4, <2>5, <2>6
<1>3. PICK s \in Nat : j = 8 * s \/ j = 8 * s + 4
  <2>1. j \div 8 \in Nat /\ (j = 8 * (j \div 8) \/ j = 8 * (j \div 8) + 4)
    <3> HIDE DEF j
    <3> QED BY <1>2
  <2> QED BY <2>1
<1>4. s \in 0 .. WRAP - 1 /\ decoded - i + j = 4 * (Len(printed) + k)
  BY <1>1, <1>2, <1>3
<1> HIDE DEF j
<1>5. CASE decoded - i = 8 * lap
  <2>1. s < addr
    BY <1>1, <1>2, <1>3, <1>5
  <2>2. mem[8 * s] = 2 * (lap + s) + 1 /\ mem[8 * s + 4] = 2 * (lap + s) + 2
    BY <1>4, <2>1 DEF IInv, MemInv
  <2>3. mem[j] = Len(printed) + 1 + k
    BY <1>1, <1>3, <1>4, <1>5, <2>2
  <2> QED BY <2>3 DEF j
<1>6. CASE decoded - i = 8 * (lap - WRAP)
  <2>1. ~(s < addr)
    BY <1>1, <1>2, <1>3, <1>4, <1>6
  <2>2. lap > 0
    BY <1>1, <1>2, <1>6
  <2>3. /\ mem[8 * s] = 2 * (lap - WRAP + s) + 1
        /\ mem[8 * s + 4] = 2 * (lap - WRAP + s) + 2
    BY <1>4, <2>1, <2>2 DEF IInv, MemInv
  <2>4. mem[j] = Len(printed) + 1 + k
    BY <1>1, <1>3, <1>4, <1>6, <2>3
  <2> QED BY <2>4 DEF j
<1> QED BY <1>2, <1>5, <1>6

(* One turn of the loop: the word at i is the next of the stream.          *)
LEMMA NextWordIsThere ==
    ASSUME ExactRegime, IInv, pc = "read", i < readend
    PROVE  mem[i] = Len(printed) + 1
<1>1. i \in Nat /\ i + 4 * 0 = i /\ Len(printed) \in Nat
  BY DEF IInv, TypeOK
<1>2. mem[i + 4 * 0] = Len(printed) + 1 + 0
  BY <1>1, PendingWords
<1> QED BY <1>1, <1>2

LEMMA ReadWordIInv ==
    ASSUME ExactRegime, IInv, ReadWord
    PROVE  IInv'
<1> USE GeometryAssumption DEF ExactRegime
<1>1. /\ pc = "read" /\ i < readend /\ current' = i /\ i' = i + 4
      /\ printed' = Append(printed, mem[i])
      /\ UNCHANGED <<addr, mem, value, isr, position, readend, pc, interrupted, written, taken,
                     sampled, used>>
  BY DEF ReadWord
<1>2. mem[i] = Len(printed) + 1
  BY <1>1, NextWordIsThere
<1>3. /\ printed \in Seq(Nat) /\ Len(printed) \in Nat /\ printed' \in Seq(Nat)
      /\ Len(printed') = Len(printed) + 1
      /\ \A k \in 1 .. Len(printed) : printed'[k] = printed[k]
      /\ printed'[Len(printed) + 1] = Len(printed) + 1
  BY <1>1, <1>2 DEF IInv, TypeOK
<1>4. i \in Nat /\ readend \in Nat /\ current \in Int /\ used \in Nat /\ i = current + 4
      /\ i % 4 = 0 /\ readend % 8 = 0 /\ readend <= LIMIT
  BY <1>1 DEF IInv, TypeOK, LoopInv
<1>5. i + 4 <= readend /\ (i + 4) % 4 = 0
  BY <1>1, <1>4
<1>6. decoded' = decoded + 4 /\ readlap' = readlap /\ lap' = lap /\ decoded \in Int
  BY <1>1, <1>3, <1>4 DEF decoded, readlap, lap
<1>7. TypeOK'
  <2>1. interrupted' \in BOOLEAN
    BY <1>1, Zenon DEF IInv, TypeOK
  <2> QED BY <1>1, <1>3, <1>4, <2>1 DEF IInv, TypeOK
<1>8. MemInv' /\ SampleInv' /\ OffInv'
  BY <1>1, <1>6 DEF IInv, MemInv, SampleInv, Recent, OffInv, lap
<1>9. ExactStream'
  BY <1>3 DEF IInv, ExactStream
<1>10. LoopInv'
  BY <1>1, <1>4, <1>5, <1>6 DEF IInv, LoopInv
<1>11. CursorInv'
  <2>1. decoded + (readend - i) <= 8 * used
    BY <1>1, <1>4, <1>6 DEF IInv, LoopInv
  <2> QED BY <1>1, <1>4, <1>5, <1>6, <2>1 DEF IInv, CursorInv
<1> QED BY <1>7, <1>8, <1>9, <1>10, <1>11 DEF IInv

LEMMA NextIInv ==
    ASSUME ExactRegime, IInv, [Next]_vars
    PROVE  IInv'
BY WriteWordIInv, PositionIInv, LoopStepIInv, EndIInv, ReadBufferIInv, ReadWordIInv DEF Next

(* In the exact regime the invariant holds of every state of the program.  *)
THEOREM ReadoutInvariant == ASSUME ExactRegime PROVE Spec => []IInv
<1>1. Init => IInv
  BY InitIInv
<1>2. IInv /\ [Next]_vars => IInv'
  BY NextIInv
<1> QED BY <1>1, <1>2, PTL DEF Spec

(* In the exact regime read_buffer() never reads past the end of the ring. *)
THEOREM ReadsInsideRing == ASSUME ExactRegime PROVE Spec => []NeverReadsAfterLimit
<1>1. IInv => NeverReadsAfterLimit
  BY GeometryAssumption DEF IInv, TypeOK, LoopInv, NeverReadsAfterLimit
<1> QED BY <1>1, ReadoutInvariant, PTL

(* In the exact regime the writer never comes round to a word that the     *)
(* call in progress has yet to decode.                                     *)
THEOREM NoTornRead == ASSUME ExactRegime PROVE Spec => []PendingIntact
<1>1. IInv => PendingIntact
  <2> SUFFICES ASSUME IInv, pc = "read", NEW k \in 0 .. (readend - i - 1) \div 4
               PROVE  mem[i + 4 * k] = Len(printed) + 1 + k
    BY DEF PendingIntact
  <2>1. i \in Nat /\ readend \in Nat
    BY DEF IInv, TypeOK
  <2>2. k \in Nat /\ i + 4 * k < readend
    BY <2>1
  <2> QED BY <2>2, PendingWords
<1> QED BY <1>1, ReadoutInvariant, PTL

(* In the exact regime the program implements EventStream: whatever the    *)
(* interleaving, it prints the words that were written, in order, each one *)
(* once, as long as no thread's late store leads it astray.                *)
THEOREM Refinement == ASSUME ExactRegime PROVE Spec => Implements
<1>1. Init => Stream!Init
  BY DEF Init, Stream!Init
<1>2. ASSUME IInv, [Next]_vars
      PROVE  [Stream!Next]_<<written, printed>>
  <2>1. CASE WriteWord
    BY <2>1 DEF WriteWord, Stream!Next, Stream!Produce
  <2>2. CASE ReadWord
    <3>1. mem[i] = Len(printed) + 1
      BY <1>2, <2>2, NextWordIsThere DEF ReadWord
    <3>2. Len(printed) < 2 * written
      <4>1. /\ i \in Nat /\ readend \in Nat /\ written \in Nat /\ used \in Nat
            /\ sampled \in Nat /\ Len(printed) \in Nat /\ i < readend
        BY <1>2, <2>2 DEF IInv, TypeOK, ReadWord
      <4>2. 4 * Len(printed) + (readend - i) <= 8 * used
        BY <1>2, <2>2, <4>1 DEF IInv, LoopInv, ReadWord, decoded
      <4>3. used <= written
        BY <1>2, <4>1 DEF IInv, SampleInv
      <4> QED BY <4>1, <4>2, <4>3
    <3> QED BY <2>2, <3>1, <3>2 DEF ReadWord, Stream!Next, Stream!Consume
  <2>3. CASE Stop
    BY <2>3 DEF Stop, Stream!Next, Stream!NewSession
  <2>4. CASE UNCHANGED <<written, printed>>
    BY <2>4
  <2> QED BY <1>2, <2>1, <2>2, <2>3, <2>4 DEF Next, Start, MainIrq, MainStore, MainTimeout,
          ThreadIrq, ThreadStore, ReadPosition, StorePosition, ReadBuffer, ReadBufferAstray,
          ReadDone, Signal, vars
<1> QED BY <1>1, <1>2, ReadoutInvariant, PTL DEF Spec, Implements, Stream!Spec
=============================================================================
