---------------------------- MODULE DevCfg_proofs ----------------------------
(* The configuration driver is right for every number of threads, every    *)
(* bitstream and every way to cut it into writes: proofs about DevCfg, and,*)
(* at the end, about the clocks it hands out, DevCfgFclk.                  *)
EXTENDS DevCfg, DevCfgFclk, SequenceTheorems, TLAPS

-----------------------------------------------------------------------------
(* The mutex                                                               *)

Waiting == {"write_wait", "read_wait"}
Holding == Waiting \cup Opening \cup {"write_start", "read_start"}
Places  == Holding \cup {"idle", "open_lock", "write_lock", "read_lock", "store", "release"}

\* drvdata->sem is held exactly by the thread inside the critical section.
MutexInv ==
    /\ pc \in [Threads -> Places] /\ DOMAIN id = Threads /\ DOMAIN arg = Threads
    /\ sem \in Threads \cup {Nobody}
    /\ \A t \in Threads : pc[t] \in Holding <=> sem = t

LEMMA MutexStep ==
    ASSUME MutexInv, [Next]_vars
    PROVE  MutexInv'
<1> USE DEF MutexInv, Places, Holding, Waiting, Opening
<1>0. Nobody \notin Threads
  BY DevCfgAssumption
<1>1. ASSUME NEW t \in Threads, Step(t) PROVE MutexInv'
  <2>1. CASE xdevcfg_open(t)
    BY <1>0, <2>1 DEF xdevcfg_open, ReadCtrl
  <2>2. CASE Busy(t)
    BY <1>0, <2>2 DEF Busy, Return
  <2>3. CASE \/ xdevcfg_enable_partial(t) \/ xdevcfg_reset_pl_clear(t)
             \/ xdevcfg_reset_pl_low(t) \/ xdevcfg_reset_pl_set(t)
    BY <1>0, <2>3 DEF xdevcfg_enable_partial, xdevcfg_reset_pl_clear, xdevcfg_reset_pl_low,
                      xdevcfg_reset_pl_set, ReadCtrl
  <2>11. CASE xdevcfg_open_reset(t)
    BY <1>0, <2>11 DEF xdevcfg_open_reset, ReadCtrl, Return
  <2>12. CASE xdevcfg_disable_partial(t)
    BY <1>0, <2>12 DEF xdevcfg_disable_partial, Return
  <2>4. CASE xdevcfg_reset_pl_high(t)
    BY <1>0, <2>4 DEF xdevcfg_reset_pl_high, Return
  <2>5. CASE xdevcfg_write_load(t)
    <3>1. /\ pc[t] = "write_lock" /\ sem = Nobody /\ sem' = t /\ UNCHANGED id
          /\ pc' = [pc EXCEPT ![t] = "write_start"] /\ DOMAIN arg' = Threads
      BY <2>5 DEF xdevcfg_write_load
    <3> QED BY <1>0, <3>1
  <2>6. CASE xdevcfg_write_start(t)
    BY <1>0, <2>6 DEF xdevcfg_write_start
  <2>7. CASE xdevcfg_read_arm(t)
    BY <1>0, <2>7 DEF xdevcfg_read_arm
  <2>8. CASE xdevcfg_read_start(t)
    BY <1>0, <2>8 DEF xdevcfg_read_start
  <2>9. CASE xdevcfg_done(t) \/ xdevcfg_timeout(t)
    <3>1. pc[t] \in Waiting /\ sem' = Nobody /\ Return(t)
      BY <2>9 DEF xdevcfg_done, xdevcfg_timeout, Leave
    <3> QED BY <1>0, <3>1 DEF Return
  <2>10. CASE StoreWrite(t)
    <3>1. pc[t] = "store" /\ UNCHANGED sem /\ Return(t)
      BY <2>10 DEF StoreWrite
    <3> QED BY <1>0, <3>1 DEF Return
  <2> QED BY <1>1, <2>1, <2>2, <2>3, <2>4, <2>5, <2>6, <2>7, <2>8, <2>9, <2>10,
             <2>11, <2>12 DEF Step
<1>2. ASSUME NEW t \in Threads, GiveUp(t) PROVE MutexInv'
  BY <1>0, <1>2 DEF GiveUp, Return
<1>3. ASSUME NEW t \in Threads, NEW at \in {"open_lock", "write_lock", "read_lock"}, Call(t, at)
      PROVE  MutexInv'
  BY <1>0, <1>3 DEF Call, Enter
<1>4. ASSUME NEW t \in Threads, NEW a, NEW v, StoreRead(t, a, v) PROVE MutexInv'
  BY <1>0, <1>4 DEF StoreRead, Enter
<1>5. ASSUME NEW v \in BOOLEAN, xdevcfg_set_is_partial_bitstream(v) PROVE MutexInv'
  BY <1>5 DEF xdevcfg_set_is_partial_bitstream
<1>6. ASSUME NEW t \in Threads, xdevcfg_release_partial(t) \/ xdevcfg_release(t) PROVE MutexInv'
  BY <1>0, <1>6 DEF xdevcfg_release_partial, xdevcfg_release, LastClose, ReadCtrl
<1>7. CASE Engine \/ InitFollows \/ xdevcfg_irq
  BY <1>7 DEF Engine, InitFollows, xdevcfg_irq
<1>8. CASE UNCHANGED vars
  BY <1>8 DEF vars
<1> QED BY <1>1, <1>2, <1>3, <1>4, <1>5, <1>6, <1>7, <1>8 DEF Next

LEMMA MutexHeld == Spec => []MutexInv
<1>1. Init => MutexInv
  BY DevCfgAssumption DEF Init, MutexInv, Places, Holding, Waiting, Opening
<1>2. MutexInv /\ [Next]_vars => MutexInv'
  BY MutexStep
<1> QED BY <1>1, <1>2, PTL DEF Spec

-----------------------------------------------------------------------------
(* The PL is connected when the device is closed                           *)

\* Where the other threads can be while the last close is under way.
Aloof == {"idle", "open_lock", "store"}

\* The PL is cut off only between an open and a release that both find
\* is_partial_bitstream clear; a release that found it set is alone on the file.
PlInv ==
    /\ is_open \in BOOLEAN /\ is_partial \in BOOLEAN /\ flipped \in BOOLEAN
    /\ flipped \/ slcr = "connected" \/ (is_open /\ ~is_partial)
    /\ \A t \in Threads : pc[t] = "release" =>
          /\ is_open /\ (flipped \/ slcr = "connected")
          /\ \A u \in Threads \ {t} : pc[u] \in Aloof

\* Steps of other calls.
Remote == /\ UNCHANGED <<is_open, is_partial, flipped, slcr>>
          /\ \A t \in Threads :
                \/ pc'[t] = pc[t]
                \/ /\ pc'[t] # "release"
                   /\ \/ pc[t] \in Places \ (Aloof \cup {"release"}) \/ pc'[t] \in Aloof
                      \/ \A u \in Threads : pc[u] # "release"

LEMMA RemoteStep ==
    ASSUME PlInv, MutexInv, Remote
    PROVE  PlInv'
BY DEF PlInv, MutexInv, Remote

LEMMA PlStep ==
    ASSUME PlInv, MutexInv, [Next]_vars
    PROVE  PlInv'
<1> USE DEF MutexInv, Places, Holding, Waiting, Opening, Aloof
<1>1. ASSUME NEW t \in Threads, Step(t) PROVE PlInv'
  <2>1. CASE xdevcfg_open(t)
    <3>1. /\ ~is_open /\ is_open' = TRUE /\ UNCHANGED <<is_partial, flipped>>
          /\ is_partial => UNCHANGED slcr
          /\ \A u \in Threads : pc'[u] = "release" => pc[u] = "release"
      BY <2>1 DEF xdevcfg_open, ReadCtrl, history
    <3> QED BY <3>1 DEF PlInv
  <2>2. CASE Busy(t) \/ xdevcfg_open_reset(t) \/ xdevcfg_reset_pl_low(t) \/ xdevcfg_reset_pl_high(t)
    <3>1. Remote
      BY <2>2 DEF Busy, xdevcfg_open_reset, xdevcfg_reset_pl_low, xdevcfg_reset_pl_high, ReadCtrl,
                  Return, Remote, drvdata, regs, history
    <3> QED BY <3>1, RemoteStep
  <2>3. CASE xdevcfg_enable_partial(t) \/ xdevcfg_reset_pl_clear(t) \/ xdevcfg_reset_pl_set(t)
    <3>1. Remote
      BY <2>3 DEF xdevcfg_enable_partial, xdevcfg_reset_pl_clear, xdevcfg_reset_pl_set, Remote,
                  drvdata
    <3> QED BY <3>1, RemoteStep
  <2>4. CASE xdevcfg_write_load(t)
    <3>1. /\ pc[t] = "write_lock" /\ pc' = [pc EXCEPT ![t] = "write_start"]
          /\ UNCHANGED <<is_open, is_partial, flipped, slcr>>
      BY <2>4 DEF xdevcfg_write_load, history
    <3>2. Remote
      BY <3>1 DEF Remote
    <3> QED BY <3>2, RemoteStep
  <2>5. CASE xdevcfg_write_start(t) \/ xdevcfg_read_arm(t) \/ xdevcfg_read_start(t)
    <3>1. Remote
      BY <2>5 DEF xdevcfg_write_start, xdevcfg_read_arm, xdevcfg_read_start, Remote, drvdata,
                  regs, history
    <3> QED BY <3>1, RemoteStep
  <2>6. CASE xdevcfg_done(t) \/ xdevcfg_timeout(t)
    <3>1. Remote
      BY <2>6 DEF xdevcfg_done, xdevcfg_timeout, Leave, Return, Remote, drvdata
    <3> QED BY <3>1, RemoteStep
  <2>7. CASE StoreWrite(t)
    <3>1. Remote
      BY <2>7 DEF StoreWrite, Return, Remote, drvdata
    <3> QED BY <3>1, RemoteStep
  <2>8. CASE xdevcfg_disable_partial(t)
    <3>1. /\ pc[t] = "release" /\ is_open' = FALSE /\ UNCHANGED <<is_partial, flipped, slcr>>
          /\ pc' = [pc EXCEPT ![t] = "idle"]
      BY <2>8 DEF xdevcfg_disable_partial, Return
    <3>2. \A u \in Threads : pc'[u] # "release"
      BY <3>1 DEF PlInv
    <3> QED BY <3>1, <3>2 DEF PlInv
  <2> QED BY <1>1, <2>1, <2>2, <2>3, <2>4, <2>5, <2>6, <2>7, <2>8 DEF Step
<1>2. ASSUME NEW t \in Threads, GiveUp(t) PROVE Remote
  BY <1>2 DEF GiveUp, Return, Remote, drvdata, regs, history
<1>3. ASSUME NEW t \in Threads, NEW at \in {"open_lock", "write_lock", "read_lock"}, Call(t, at)
      PROVE  Remote
  BY <1>3 DEF Call, Enter, Remote, drvdata, regs, history
<1>4. ASSUME NEW t \in Threads, NEW a, NEW v, StoreRead(t, a, v) PROVE Remote
  BY <1>4 DEF StoreRead, Enter, Remote, drvdata, regs, history
<1>5. ASSUME NEW v \in BOOLEAN, xdevcfg_set_is_partial_bitstream(v) PROVE PlInv'
  BY <1>5 DEF xdevcfg_set_is_partial_bitstream, regs, PlInv
<1>6. ASSUME NEW t \in Threads, xdevcfg_release_partial(t) PROVE PlInv'
  <2>1. /\ is_open /\ is_partial /\ UNCHANGED <<is_open, is_partial, flipped, slcr>>
        /\ \A u \in Threads : pc[u] \in Aloof
        /\ pc' = [pc EXCEPT ![t] = "release"]
    BY <1>6 DEF xdevcfg_release_partial, LastClose, ReadCtrl, drvdata, regs, history
  <2> QED BY <2>1 DEF PlInv
<1>7. ASSUME NEW t \in Threads, xdevcfg_release(t) PROVE PlInv'
  <2>1. /\ slcr' = "connected" /\ is_open' = FALSE /\ UNCHANGED <<pc, is_partial, flipped>>
        /\ \A u \in Threads : pc[u] \in Aloof
    BY <1>7 DEF xdevcfg_release, LastClose, zynq_slcr_init_postload_fpga, history
  <2> QED BY <2>1 DEF PlInv
<1>8. Engine \/ InitFollows \/ xdevcfg_irq \/ UNCHANGED vars => Remote
  BY DEF Engine, InitFollows, xdevcfg_irq, vars, Remote, drvdata, regs, history
<1> QED BY <1>1, <1>2, <1>3, <1>4, <1>5, <1>6, <1>7, <1>8, RemoteStep DEF Next

LEMMA PlHolds == Spec => []PlInv
<1>1. Init => PlInv
  BY DEF Init, PlInv
<1>2. PlInv /\ MutexInv /\ [Next]_vars => PlInv'
  BY PlStep
<1> QED BY <1>1, <1>2, MutexHeld, PTL DEF Spec

\* open and release leave the level shifters and resets of the PL as they found
\* them, through every error return, unless the flag that chooses their branches
\* was changed between them.
THEOREM PlIsConnected == Spec => []PlConnected
<1>1. PlInv => PlConnected
  BY DEF PlInv, PlConnected
<1> QED BY <1>1, PlHolds, PTL

-----------------------------------------------------------------------------
(* Transfers                                                               *)

\* The command of a thread that waits: still with the engine, its buffer
\* allocated and nothing reported; or finished.
Commanded(t) ==
    \/ engine = <<id[t]>> /\ id[t] \in live /\ sts = {} /\ ~dma_done
    \/ engine = << >> /\ id[t] \in finished /\ (dma_done => sts = {})

\* Before a timeout the engine works only for the thread that waits for it, and
\* no completion of an earlier command is left in INT_STS or, where the wait is
\* about to begin, in dma_done.
OwnInv ==
    \/ late
    \/ /\ succeeded \subseteq finished
       /\ (\A t \in Threads : pc[t] \notin Waiting) => engine = << >> /\ sts = {}
       /\ \A t \in Threads : pc[t] = "read_start" => ~dma_done
       /\ \A t \in Threads : pc[t] \in {"write_start", "read_start"} => id[t] \in live
       /\ \A t \in Threads : pc[t] \in Waiting => Commanded(t)

\* Steps of a thread outside a transfer, and steps that are no thread's.
Aside == /\ UNCHANGED <<succeeded, finished, engine, sts, dma_done, live, late>>
         /\ \A t \in Threads : pc[t] \in Waiting \/ pc'[t] \in Waiting \cup {"write_start", "read_start"}
                                 => pc'[t] = pc[t] /\ id'[t] = id[t]

LEMMA AsideStep ==
    ASSUME OwnInv, MutexInv, Aside
    PROVE  OwnInv'
BY DEF OwnInv, Aside, Commanded, Waiting

LEMMA OwnStep ==
    ASSUME OwnInv, MutexInv, [Next]_vars
    PROVE  OwnInv'
<1> USE DEF MutexInv, Places, Holding, Waiting, Opening
<1>0. Nobody \notin Threads
  BY DevCfgAssumption
<1>1. ASSUME NEW t \in Threads, Step(t) PROVE OwnInv'
  <2>1. CASE xdevcfg_open(t)
    <3>1. Aside
      BY <2>1 DEF xdevcfg_open, ReadCtrl, Aside, hardware, history
    <3> QED BY <3>1, AsideStep
  <2>2. CASE Busy(t) \/ xdevcfg_open_reset(t) \/ xdevcfg_reset_pl_low(t) \/ xdevcfg_reset_pl_high(t)
    <3>1. Aside
      BY <2>2 DEF Busy, xdevcfg_open_reset, xdevcfg_reset_pl_low, xdevcfg_reset_pl_high, ReadCtrl,
                  Return, Aside, drvdata, regs, hardware, history
    <3> QED BY <3>1, AsideStep
  <2>10. CASE \/ xdevcfg_enable_partial(t) \/ xdevcfg_reset_pl_clear(t)
              \/ xdevcfg_reset_pl_set(t) \/ xdevcfg_disable_partial(t)
    <3>1. Aside
      BY <2>10 DEF xdevcfg_enable_partial, xdevcfg_reset_pl_clear, xdevcfg_reset_pl_set,
                   xdevcfg_disable_partial, Return, Aside, drvdata, hardware
    <3> QED BY <3>1, AsideStep
  <2>3. CASE xdevcfg_write_load(t)
    <3>1. /\ pc[t] = "write_lock" /\ sem = Nobody /\ pc' = [pc EXCEPT ![t] = "write_start"]
          /\ sts' = {} /\ live' = live \cup {id[t]}
          /\ UNCHANGED <<id, dma_done, engine, finished, succeeded, late>>
      BY <2>3 DEF xdevcfg_write_load, history
    <3> QED BY <1>0, <3>1 DEF OwnInv
  <2>4. CASE xdevcfg_write_start(t)
    <3>1. /\ pc[t] = "write_start" /\ sem = t /\ pc' = [pc EXCEPT ![t] = "write_wait"]
          /\ engine' = Append(engine, id[t]) /\ dma_done' = FALSE
          /\ UNCHANGED <<id, sts, live, finished, succeeded, late>>
      BY <2>4 DEF xdevcfg_write_start, regs, history
    <3>2. \A u \in Threads : u # t => pc[u] \notin Holding /\ pc'[u] = pc[u]
      BY <3>1
    <3>3. late \/ (engine = << >> /\ sts' = {} /\ ~dma_done' /\ id[t] \in live)
      BY <1>0, <3>1, <3>2 DEF OwnInv
    <3>4. late \/ Commanded(t)'
      <4>1. Append(<< >>, id[t]) = <<id[t]>>
        OBVIOUS
      <4> QED BY <3>1, <3>3, <4>1 DEF Commanded
    <3> QED BY <3>1, <3>2, <3>4 DEF OwnInv
  <2>5. CASE xdevcfg_read_arm(t)
    <3>1. /\ pc[t] = "read_lock" /\ sem = Nobody /\ pc' = [pc EXCEPT ![t] = "read_start"]
          /\ dma_done' = FALSE /\ live' = live \cup {id[t]}
          /\ UNCHANGED <<id, sts, engine, finished, succeeded, late>>
      BY <2>5 DEF xdevcfg_read_arm, regs, history
    <3> QED BY <1>0, <3>1 DEF OwnInv
  <2>6. CASE xdevcfg_read_start(t)
    <3>1. /\ pc[t] = "read_start" /\ sem = t /\ pc' = [pc EXCEPT ![t] = "read_wait"]
          /\ engine' = Append(engine, id[t]) /\ sts' = {}
          /\ UNCHANGED <<id, dma_done, live, finished, succeeded, late>>
      BY <2>6 DEF xdevcfg_read_start, drvdata, history
    <3>2. \A u \in Threads : u # t => pc[u] \notin Holding /\ pc'[u] = pc[u]
      BY <3>1
    <3>3. late \/ (engine = << >> /\ sts' = {} /\ ~dma_done' /\ id[t] \in live)
      BY <1>0, <3>1, <3>2 DEF OwnInv
    <3>4. late \/ Commanded(t)'
      <4>1. Append(<< >>, id[t]) = <<id[t]>>
        OBVIOUS
      <4> QED BY <3>1, <3>3, <4>1 DEF Commanded
    <3> QED BY <3>1, <3>2, <3>4 DEF OwnInv
  <2>7. CASE xdevcfg_done(t)
    <3>1. /\ pc[t] \in Waiting /\ dma_done /\ sem = t /\ pc' = [pc EXCEPT ![t] = "idle"]
          /\ succeeded' \subseteq succeeded \cup {id[t]}
          /\ UNCHANGED <<sts, dma_done, engine, finished, late>>
      BY <2>7 DEF xdevcfg_done, Leave, Return, drvdata
    <3>2. late \/ (engine = << >> /\ id[t] \in finished /\ sts = {} /\ succeeded \subseteq finished)
      BY <3>1 DEF OwnInv, Commanded
    <3>3. \A u \in Threads : pc'[u] \notin Holding
      BY <3>1
    <3> QED BY <3>1, <3>2, <3>3 DEF OwnInv
  <2>8. CASE xdevcfg_timeout(t)
    BY <2>8 DEF xdevcfg_timeout, OwnInv
  <2>9. CASE StoreWrite(t)
    <3>1. Aside
      BY <2>9 DEF StoreWrite, Return, Aside, drvdata, hardware
    <3> QED BY <3>1, AsideStep
  <2> QED BY <1>1, <2>1, <2>2, <2>3, <2>4, <2>5, <2>6, <2>7, <2>8, <2>9, <2>10 DEF Step
<1>2. ASSUME NEW t \in Threads, GiveUp(t) PROVE Aside
  BY <1>2 DEF GiveUp, Return, Aside, drvdata, regs, hardware, history
<1>3. ASSUME NEW t \in Threads, NEW at \in {"open_lock", "write_lock", "read_lock"}, Call(t, at)
      PROVE  Aside
  BY <1>3 DEF Call, Enter, Aside, drvdata, regs, hardware, history
<1>4. ASSUME NEW t \in Threads, NEW a, NEW v, StoreRead(t, a, v) PROVE Aside
  BY <1>4 DEF StoreRead, Enter, Aside, drvdata, regs, hardware, history
<1>5. ASSUME NEW v \in BOOLEAN, xdevcfg_set_is_partial_bitstream(v) PROVE Aside
  BY <1>5 DEF xdevcfg_set_is_partial_bitstream, Aside, regs, hardware
<1>6. InitFollows \/ UNCHANGED vars => Aside
  BY DEF InitFollows, vars, Aside, drvdata, regs, hardware, history
<1>9. ASSUME NEW t \in Threads, xdevcfg_release_partial(t) \/ xdevcfg_release(t) PROVE Aside
  BY <1>9 DEF xdevcfg_release_partial, xdevcfg_release, LastClose, ReadCtrl, Aside, drvdata,
              regs, hardware, history
<1>7. CASE Engine
  <2>1. /\ engine # << >> /\ engine' = Tail(engine) /\ finished' = finished \cup {Head(engine)}
        /\ UNCHANGED <<pc, id, dma_done, live, succeeded, late>>
    BY <1>7 DEF Engine, drvdata, history
  <2>2. CASE late
    BY <2>1, <2>2 DEF OwnInv
  <2>3. CASE ~late
    <3>1. PICK t \in Threads : pc[t] \in Waiting
      BY <2>1, <2>3 DEF OwnInv
    <3>2. engine = <<id[t]>>
      BY <2>1, <2>3, <3>1 DEF OwnInv, Commanded
    <3>3. engine' = << >> /\ id[t] \in finished'
      BY <2>1, <3>2
    <3>4. \A u \in Threads : pc[u] \in Holding => u = t
      BY <3>1
    <3> QED BY <2>1, <2>3, <3>1, <3>3, <3>4 DEF OwnInv, Commanded
  <2> QED BY <2>2, <2>3
<1>8. CASE xdevcfg_irq
  <2>1. /\ sts # {} /\ sts' = {} /\ UNCHANGED <<pc, id, engine, live, finished, succeeded, late>>
    BY <1>8 DEF xdevcfg_irq, hardware, history
  <2>2. CASE late
    BY <2>1, <2>2 DEF OwnInv
  <2>3. CASE ~late
    <3>1. PICK t \in Threads : pc[t] \in Waiting
      BY <2>1, <2>3 DEF OwnInv
    <3>2. engine = << >> /\ id[t] \in finished
      BY <2>1, <2>3, <3>1 DEF OwnInv, Commanded
    <3>3. \A u \in Threads : pc[u] \in Holding => u = t
      BY <3>1
    <3> QED BY <2>1, <2>3, <3>1, <3>2, <3>3 DEF OwnInv, Commanded
  <2> QED BY <2>2, <2>3
<1> QED BY <1>1, <1>2, <1>3, <1>4, <1>5, <1>6, <1>7, <1>8, <1>9, AsideStep DEF Next

\* Whatever calls, interrupts and completions interleave, until a first timeout no
\* buffer is freed under the engine and dma_done is never an earlier transfer's.
THEOREM TransfersAreOwned == Spec => []TransfersOwned
<1>1. Init => OwnInv
  BY DEF Init, OwnInv, Waiting
<1>2. OwnInv /\ MutexInv /\ [Next]_vars => OwnInv'
  BY OwnStep
<1>3. OwnInv => TransfersOwned
  <2> SUFFICES ASSUME OwnInv, ~late PROVE TransfersOwned
    BY DEF TransfersOwned
  <2>1. succeeded \subseteq finished
    BY DEF OwnInv
  <2>2. engine = << >> \/ \E t \in Threads : engine = <<id[t]>> /\ id[t] \in live
    BY DEF OwnInv, Commanded
  <2> QED BY <2>1, <2>2 DEF TransfersOwned
<1> QED BY <1>1, <1>2, <1>3, MutexHeld, PTL DEF Spec

-----------------------------------------------------------------------------
(* Attributes                                                              *)

OneBit == (CtrlAttrs \cup LockAttrs) \ {"enable_dap"}

\* The bit a show looks at.
BitOf(a) ==
  CASE a = "enable_dbg_in"        -> "DBGEN"
    [] a = "enable_dbg_nonin"     -> "NIDEN"
    [] a = "enable_sec_dbg_in"    -> "SPIDEN"
    [] a = "enable_sec_dbg_nonin" -> "SPNIDEN"
    [] a = "enable_seu"           -> "SEU"
    [] a = "enable_aes"           -> "AES"
    [] a = "aes_en_lock"          -> "AES_LOCK"
    [] a = "seu_lock"             -> "SEU_LOCK"
    [] a = "dbg_lock"             -> "DBG_LOCK"

RegOf(a) == IF a \in CtrlAttrs THEN ctrl ELSE lock

\* The bits of the attributes differ from each other and from those that open,
\* release and the reset of the PL work on.
LEMMA Bits ==
    ASSUME NEW a \in OneBit
    PROVE  /\ BitOf(a) \notin DapBits \cup {"PROG_B", "PR", "MODE", "RATE"}
           /\ \A b \in OneBit : BitOf(a) = BitOf(b) => a = b
BY DEF OneBit, CtrlAttrs, LockAttrs, BitOf, DapBits

\* Every show reports its bit ...
LEMMA ShownIsBit ==
    ASSUME NEW a \in OneBit
    PROVE  Shown(a) # 0 <=> BitOf(a) \in RegOf(a)
BY DEF OneBit, CtrlAttrs, LockAttrs, BitOf, RegOf, Shown, Flag, xdevcfg_show_dbgen_status,
       xdevcfg_show_niden_status, xdevcfg_show_spiden_status, xdevcfg_show_spniden_status,
       xdevcfg_show_seu_status, xdevcfg_show_aes_status, xdevcfg_show_aes_en_lock_status,
       xdevcfg_show_seu_lock_status, xdevcfg_show_dbg_lock_status

\* ... and every store sets or clears it, and no other attribute's.
LEMMA StoredBit ==
    ASSUME NEW a \in OneBit, NEW r, NEW v \in 0 .. 1
    PROVE  \A b \in OneBit :
             BitOf(b) \in Stored(a, r, v) <=> IF b = a THEN v = 1 ELSE BitOf(b) \in r
<1> DEFINE bits == {BitOf(a)} \cup IF a = "enable_aes" THEN {"RATE"} ELSE {}
<1>1. Stored(a, r, v) = SetBits(r, bits, v)
  BY DEF OneBit, CtrlAttrs, LockAttrs, BitOf, Stored, xdevcfg_set_dbgen, xdevcfg_set_niden,
         xdevcfg_set_spiden, xdevcfg_set_spniden, xdevcfg_set_seu, xdevcfg_set_aes,
         xdevcfg_set_aes_en_lock, xdevcfg_set_seu_lock, xdevcfg_set_dbg_lock
<1>2. \A b \in OneBit : BitOf(b) \in bits <=> b = a
  BY Bits
<1> HIDE DEF bits
<1> QED BY <1>1, <1>2 DEF SetBits

LEMMA StoredDap ==
    ASSUME NEW r, NEW v
    PROVE  \A b \in OneBit : BitOf(b) \in Stored("enable_dap", r, v) <=> BitOf(b) \in r
BY Bits DEF Stored, xdevcfg_set_dap_en, DapBits

\* While no stale value was written back, the registers hold what was stored.
ReadInv ==
    /\ want \in [CtrlAttrs \cup LockAttrs -> 0 .. 7]
    /\ \A t \in Threads : pc[t] = "store" =>
          arg[t].attr \in CtrlAttrs \cup LockAttrs /\ arg[t].v \in Values(arg[t].attr)
    /\ raced \/ \A a \in OneBit : BitOf(a) \in RegOf(a) <=> want[a] = 1

\* Steps that change no attribute, or go astray, and no store under way.
Apart == /\ UNCHANGED <<lock, want>> /\ (raced => raced')
         /\ raced' \/ ctrl' \cup {"PROG_B", "PR"} = ctrl \cup {"PROG_B", "PR"}
         /\ \A t \in Threads : pc'[t] = "store" => pc[t] = "store" /\ arg'[t] = arg[t]

LEMMA ApartStep ==
    ASSUME ReadInv, Apart
    PROVE  ReadInv'
<1>1. raced' \/ \A a \in OneBit : BitOf(a) \in RegOf(a)' <=> BitOf(a) \in RegOf(a)
  BY Bits DEF Apart, RegOf
<1> QED BY <1>1 DEF ReadInv, Apart

LEMMA StoreStep ==
    ASSUME ReadInv, MutexInv, NEW t \in Threads, StoreWrite(t)
    PROVE  ReadInv'
<1> DEFINE a == arg[t].attr
           v == arg[t].v
           r == arg[t].seen
<1>1. a \in CtrlAttrs \cup LockAttrs /\ v \in Values(a)
  BY DEF StoreWrite, ReadInv
<1>2. /\ IF a \in CtrlAttrs THEN ctrl' = Stored(a, r, v) /\ lock' = lock
                            ELSE lock' = Stored(a, r, v) /\ ctrl' = ctrl
      /\ raced' = (raced \/ r # RegOf(a))
      /\ want' = [want EXCEPT ![a] = v]
      /\ Return(t)
  BY DEF StoreWrite, RegOf
<1> HIDE DEF a, v, r
<1>3. want' \in [CtrlAttrs \cup LockAttrs -> 0 .. 7]
  BY <1>1, <1>2 DEF ReadInv, Values
<1>4. \A u \in Threads : pc'[u] = "store" => pc[u] = "store" /\ arg'[u] = arg[u]
  BY <1>2 DEF Return, MutexInv
<1>5. ASSUME ~raced', NEW b \in OneBit PROVE BitOf(b) \in RegOf(b)' <=> want'[b] = 1
  <2>1. r = RegOf(a) /\ ~raced
    BY <1>2, <1>5
  <2>2. BitOf(b) \in RegOf(b) <=> want[b] = 1
    BY <2>1 DEF ReadInv
  <2>3. BitOf(b) \in Stored(a, r, v) <=> IF b = a THEN v = 1 ELSE BitOf(b) \in r
    <3>1. CASE a = "enable_dap"
      BY <3>1, StoredDap DEF OneBit
    <3>2. CASE a # "enable_dap"
      <4>1. a \in OneBit /\ v \in 0 .. 1
        BY <1>1, <3>2 DEF OneBit, Values
      <4> QED BY <4>1, StoredBit
    <3> QED BY <3>1, <3>2
  <2>4. want'[b] = IF b = a THEN v ELSE want[b]
    BY <1>2 DEF ReadInv, OneBit
  <2>5. CASE RegOf(b)' = Stored(a, r, v) /\ RegOf(b) = RegOf(a)
    BY <2>1, <2>2, <2>3, <2>4, <2>5
  <2>6. CASE RegOf(b)' = RegOf(b) /\ b # a
    BY <2>2, <2>4, <2>6
  <2> QED BY <1>2, <2>5, <2>6 DEF RegOf
<1> QED BY <1>3, <1>4, <1>5 DEF ReadInv

LEMMA ReadStep ==
    ASSUME ReadInv, MutexInv, [Next]_vars
    PROVE  ReadInv'
<1> USE DEF Apart, MutexInv
<1>1. ASSUME NEW t \in Threads, Step(t) PROVE ReadInv'
  <2>1. CASE xdevcfg_open(t)
    <3>1. Apart
      BY <2>1 DEF xdevcfg_open, ReadCtrl, history
    <3> QED BY <3>1, ApartStep
  <2>2. CASE Busy(t) \/ xdevcfg_open_reset(t) \/ xdevcfg_reset_pl_low(t) \/ xdevcfg_reset_pl_high(t)
    <3>1. Apart
      BY <2>2 DEF Busy, xdevcfg_open_reset, xdevcfg_reset_pl_low, xdevcfg_reset_pl_high, ReadCtrl,
                  Return, regs, history
    <3> QED BY <3>1, ApartStep
  <2>7. CASE \/ xdevcfg_enable_partial(t) \/ xdevcfg_reset_pl_clear(t)
             \/ xdevcfg_reset_pl_set(t) \/ xdevcfg_disable_partial(t)
    <3>1. /\ UNCHANGED <<lock, want>> /\ raced' = (raced \/ arg[t].seen # ctrl)
          /\ \E b \in {"PROG_B", "PR"} : ctrl' = arg[t].seen \cup {b} \/ ctrl' = arg[t].seen \ {b}
          /\ \A u \in Threads : pc'[u] = "store" => pc[u] = "store" /\ arg'[u] = arg[u]
      BY <2>7 DEF xdevcfg_enable_partial, xdevcfg_reset_pl_clear, xdevcfg_reset_pl_set,
                  xdevcfg_disable_partial, WriteCtrl, Return
    <3>2. Apart
      BY <3>1
    <3> QED BY <3>2, ApartStep
  <2>3. CASE xdevcfg_write_load(t)
    <3>1. /\ pc' = [pc EXCEPT ![t] = "write_start"] /\ UNCHANGED <<ctrl, lock, want, raced>>
          /\ \A u \in Threads : u # t => arg'[u] = arg[u]
      BY <2>3 DEF xdevcfg_write_load, history
    <3>2. Apart
      BY <3>1
    <3> QED BY <3>2, ApartStep
  <2>4. CASE xdevcfg_write_start(t) \/ xdevcfg_read_arm(t) \/ xdevcfg_read_start(t)
    <3>1. Apart
      BY <2>4 DEF xdevcfg_write_start, xdevcfg_read_arm, xdevcfg_read_start, regs, history
    <3> QED BY <3>1, ApartStep
  <2>5. CASE xdevcfg_done(t) \/ xdevcfg_timeout(t)
    <3>1. Apart
      BY <2>5 DEF xdevcfg_done, xdevcfg_timeout, Leave, Return
    <3> QED BY <3>1, ApartStep
  <2>6. CASE StoreWrite(t)
    BY <2>6, StoreStep
  <2> QED BY <1>1, <2>1, <2>2, <2>3, <2>4, <2>5, <2>6, <2>7 DEF Step
<1>2. ASSUME NEW t \in Threads, GiveUp(t) PROVE Apart
  BY <1>2 DEF GiveUp, Return, regs, history
<1>3. ASSUME NEW t \in Threads, NEW at \in {"open_lock", "write_lock", "read_lock"}, Call(t, at)
      PROVE  Apart
  BY <1>3 DEF Call, Enter, regs, history
<1>4. ASSUME NEW t \in Threads, NEW a \in Attrs, NEW v \in 0 .. 7, v \in Values(a),
             StoreRead(t, a, v)
      PROVE  ReadInv'
  <2>1. a \in CtrlAttrs \cup LockAttrs
    BY DevCfgAssumption
  <2>2. /\ UNCHANGED <<ctrl, lock, want, raced>>
        /\ arg'[t].attr = a /\ arg'[t].v = v
        /\ \A u \in Threads : u # t => pc'[u] = pc[u] /\ arg'[u] = arg[u]
    BY <1>4 DEF StoreRead, Enter, regs, history
  <2>3. \A u \in Threads : pc'[u] = "store" =>
          arg'[u].attr \in CtrlAttrs \cup LockAttrs /\ arg'[u].v \in Values(arg'[u].attr)
    BY <1>4, <2>1, <2>2 DEF ReadInv
  <2> QED BY <2>2, <2>3 DEF ReadInv, RegOf
<1>5. ASSUME NEW v \in BOOLEAN, xdevcfg_set_is_partial_bitstream(v) PROVE Apart
  BY <1>5 DEF xdevcfg_set_is_partial_bitstream, regs
<1>6. ASSUME NEW t \in Threads, xdevcfg_release_partial(t) \/ xdevcfg_release(t) PROVE Apart
  BY <1>6 DEF xdevcfg_release_partial, xdevcfg_release, LastClose, ReadCtrl, regs, history
<1>7. Engine \/ InitFollows \/ xdevcfg_irq \/ UNCHANGED vars => Apart
  BY DEF Engine, InitFollows, xdevcfg_irq, vars, regs, history
<1> QED BY <1>1, <1>2, <1>3, <1>4, <1>5, <1>6, <1>7, ApartStep DEF Next

\* Whatever stores, loads and the steps of opens and releases interleave, the show of
\* a one-bit attribute reports its last store, until one of them writes back a
\* register that was changed after it had read it.
THEOREM AttributesReadBack == Spec => []Readback
<1>1. Init => ReadInv
  <2> SUFFICES ASSUME Init PROVE ReadInv
    OBVIOUS
  <2>1. \A a \in OneBit : BitOf(a) \notin RegOf(a)
    BY Bits DEF Init, RegOf
  <2> QED BY <2>1 DEF Init, ReadInv, OneBit
<1>2. ReadInv /\ MutexInv /\ [Next]_vars => ReadInv'
  BY ReadStep
<1>3. ReadInv => Readback
  BY ShownIsBit DEF ReadInv, Readback, OneBit
<1> QED BY <1>1, <1>2, <1>3, MutexHeld, PTL DEF Spec

-----------------------------------------------------------------------------
(* The bitstream                                                           *)

\* n bytes of the file from position p on, and what the engine is given of them.
Run(p, n) == [i \in 1 .. n |-> p + i - 1]
Order(s)  == IF Swapped THEN Swab(s) ELSE s

LEMMA RunIs ==
    ASSUME NEW p \in Int, NEW n \in Nat
    PROVE  /\ Run(p, n) \in Seq(Int) /\ Len(Run(p, n)) = n
           /\ \A i \in 1 .. n : Run(p, n)[i] = p + i - 1
BY DEF Run

LEMMA IsRun ==
    ASSUME NEW p \in Int, NEW n \in Nat, NEW s \in Seq(Int), Len(s) = n,
           \A i \in 1 .. n : s[i] = p + i - 1
    PROVE  s = Run(p, n)
BY RunIs, SeqEqual

LEMMA RunCat ==
    ASSUME NEW p \in Int, NEW m \in Nat, NEW n \in Nat
    PROVE  Run(p, m) \o Run(p + m, n) = Run(p, m + n)
<1> DEFINE a == Run(p, m)
           b == Run(p + m, n)
<1>1. /\ a \in Seq(Int) /\ Len(a) = m /\ \A i \in 1 .. m : a[i] = p + i - 1
      /\ b \in Seq(Int) /\ Len(b) = n /\ \A i \in 1 .. n : b[i] = p + m + i - 1
  BY RunIs
<1> HIDE DEF a, b
<1>2. /\ a \o b \in Seq(Int) /\ Len(a \o b) = m + n
      /\ \A i \in 1 .. m + n : (a \o b)[i] = IF i <= m THEN a[i] ELSE b[i - m]
  BY <1>1, ConcatProperties
<1>3. \A i \in 1 .. m + n : (a \o b)[i] = p + i - 1
  BY <1>1, <1>2
<1>4. m + n \in Nat
  OBVIOUS
<1>5. a \o b = Run(p, m + n)
  BY <1>2, <1>3, <1>4, IsRun
<1> QED BY <1>5 DEF a, b

LEMMA RunSub ==
    ASSUME NEW p \in Int, NEW k \in Nat, NEW m \in 0 .. k, NEW n \in m .. k
    PROVE  SubSeq(Run(p, k), m + 1, n) = Run(p + m, n - m)
<1> DEFINE a == Run(p, k)
           b == SubSeq(a, m + 1, n)
<1>1. a \in Seq(Int) /\ \A i \in 1 .. k : a[i] = p + i - 1
  BY RunIs
<1> HIDE DEF a
<1>2. \A i \in m + 1 .. n : a[i] \in Int
  BY <1>1
<1>3. /\ b \in Seq(Int) /\ Len(b) = n - m
      /\ \A i \in 1 .. n - m : b[i] = a[m + i]
  BY <1>2, SubSeqProperties
<1> HIDE DEF b
<1>4. \A i \in 1 .. n - m : b[i] = (p + m) + i - 1
  BY <1>1, <1>3
<1>5. b = Run(p + m, n - m)
  BY <1>3, <1>4, IsRun
<1> QED BY <1>5 DEF a, b

\* Where swab32 finds the byte for place i; numbers of bytes of whole words.
Place(i) == 4 * ((i - 1) \div 4) + 4 - ((i - 1) % 4)
Quad     == {n \in Nat : n % 4 = 0}

LEMMA PlaceIs ==
    ASSUME NEW n \in Quad, NEW i \in 1 .. n
    PROVE  /\ Place(i) \in 1 .. n
           /\ \A k \in Quad : Place(k + i) = k + Place(i)
BY DEF Place, Quad

LEMMA QuadAdd ==
    ASSUME NEW m \in Quad, NEW n \in Quad
    PROVE  m \in Nat /\ n \in Nat /\ m + n \in Nat /\ m + n \in Quad
BY DEF Quad

LEMMA SwabIs ==
    ASSUME NEW n \in Quad, NEW s \in Seq(Int), Len(s) = n
    PROVE  /\ Swab(s) \in Seq(Int) /\ Len(Swab(s)) = n
           /\ \A i \in 1 .. n : Swab(s)[i] = s[Place(i)]
<1>1. n \in Nat
  BY LenProperties
<1>2. \A i \in 1 .. n : s[Place(i)] \in Int
  BY <1>1, PlaceIs, ElementOfSeq
<1>3. Swab(s) = [i \in 1 .. n |-> s[Place(i)]]
  BY DEF Swab, Place
<1> QED BY <1>1, <1>2, <1>3

LEMMA Joined ==
    ASSUME NEW s \in Seq(Int), NEW t \in Seq(Int)
    PROVE  /\ s \o t \in Seq(Int) /\ Len(s \o t) = Len(s) + Len(t)
           /\ \A i \in 1 .. Len(s) : (s \o t)[i] = s[i]
           /\ \A i \in 1 .. Len(t) : (s \o t)[Len(s) + i] = t[i]
<1> DEFINE u == s \o t
           m == Len(s)
           n == Len(t)
<1>1. /\ u \in Seq(Int) /\ Len(u) = m + n /\ m \in Nat /\ n \in Nat
      /\ \A i \in 1 .. m + n : u[i] = IF i <= m THEN s[i] ELSE t[i - m]
  BY ConcatProperties, LenProperties
<1> HIDE DEF u, m, n
<1>2. ASSUME NEW i \in 1 .. m PROVE u[i] = s[i]
  <2>1. i \in 1 .. m + n /\ i <= m
    BY <1>1
  <2> QED BY <1>1, <2>1
<1>3. ASSUME NEW i \in 1 .. n PROVE u[m + i] = t[i]
  <2>1. m + i \in 1 .. m + n /\ ~(m + i <= m) /\ (m + i) - m = i
    BY <1>1
  <2> QED BY <1>1, <2>1
<1>4. /\ u \in Seq(Int) /\ Len(u) = m + n /\ \A i \in 1 .. m : u[i] = s[i]
      /\ \A i \in 1 .. n : u[m + i] = t[i]
  BY <1>1, <1>2, <1>3
<1> QED BY <1>4 DEF u, m, n

\* Whole words can be swapped block by block.
LEMMA SwabCat ==
    ASSUME NEW m \in Quad, NEW n \in Quad,
           NEW s \in Seq(Int), NEW t \in Seq(Int), Len(s) = m, Len(t) = n
    PROVE  Swab(s) \o Swab(t) = Swab(s \o t)
<1> DEFINE u == s \o t
           a == Swab(s)
           b == Swab(t)
           c == Swab(u)
           d == a \o b
<1>1. m \in Nat /\ n \in Nat /\ m + n \in Nat /\ m + n \in Quad
  BY QuadAdd
<1>2. /\ u \in Seq(Int) /\ Len(u) = m + n
      /\ \A i \in 1 .. m : u[i] = s[i]
      /\ \A i \in 1 .. n : u[m + i] = t[i]
  BY Joined
<1> HIDE DEF u
<1>3. /\ a \in Seq(Int) /\ Len(a) = m /\ b \in Seq(Int) /\ Len(b) = n
      /\ \A i \in 1 .. m : a[i] = s[Place(i)]
      /\ \A i \in 1 .. n : b[i] = t[Place(i)]
  BY SwabIs
<1>4. c \in Seq(Int) /\ Len(c) = m + n /\ \A i \in 1 .. m + n : c[i] = u[Place(i)]
  BY <1>1, <1>2, SwabIs
<1> HIDE DEF a, b, c
<1>5. /\ d \in Seq(Int) /\ Len(d) = m + n
      /\ \A i \in 1 .. m : d[i] = a[i]
      /\ \A i \in 1 .. n : d[m + i] = b[i]
  <2>1. a \in Seq(Int) /\ Len(a) = m /\ b \in Seq(Int) /\ Len(b) = n
    BY <1>3
  <2>2. /\ d \in Seq(Int) /\ Len(d) = Len(a) + Len(b)
        /\ \A i \in 1 .. Len(a) : d[i] = a[i]
        /\ \A i \in 1 .. Len(b) : d[Len(a) + i] = b[i]
    BY <2>1, Joined
  <2> HIDE DEF d
  <2> QED BY <2>1, <2>2
<1> HIDE DEF d
<1>6. ASSUME NEW i \in 1 .. m + n PROVE d[i] = c[i]
  <2>1. CASE i \in 1 .. m
    <3>1. Place(i) \in 1 .. m
      BY <2>1, PlaceIs
    <3> QED BY <1>2, <1>3, <1>4, <1>5, <2>1, <3>1
  <2>2. CASE i \notin 1 .. m
    <3>1. PICK j \in 1 .. n : i = m + j
      BY <1>1, <2>2
    <3>2. Place(j) \in 1 .. n /\ Place(m + j) = m + Place(j)
      BY <3>1, PlaceIs
    <3>3. d[i] = b[j] /\ b[j] = t[Place(j)]
      BY <1>3, <1>5, <3>1
    <3>4. c[i] = u[m + Place(j)]
      BY <1>4, <3>1, <3>2
    <3>5. u[m + Place(j)] = t[Place(j)]
      BY <1>2, <3>2
    <3> QED BY <3>3, <3>4, <3>5
  <2> QED BY <2>1, <2>2
<1>7. d = c
  BY <1>4, <1>5, <1>6, SeqEqual
<1> QED BY <1>7 DEF a, b, c, d, u

LEMMA OrderCat ==
    ASSUME NEW p \in Int, NEW m \in Quad, NEW n \in Quad
    PROVE  Order(Run(p, m)) \o Order(Run(p + m, n)) = Order(Run(p, m + n))
<1>1. m \in Nat /\ n \in Nat /\ p + m \in Int
  BY DEF Quad
<1>2. Run(p, m) \o Run(p + m, n) = Run(p, m + n)
  BY <1>1, RunCat
<1>3. /\ Run(p, m) \in Seq(Int) /\ Len(Run(p, m)) = m
      /\ Run(p + m, n) \in Seq(Int) /\ Len(Run(p + m, n)) = n
  BY <1>1, RunIs
<1>4. Swab(Run(p, m)) \o Swab(Run(p + m, n)) = Swab(Run(p, m) \o Run(p + m, n))
  BY <1>3, SwabCat
<1> QED BY <1>2, <1>4 DEF Order

LEMMA OrderLen ==
    ASSUME NEW p \in Int, NEW m \in Quad
    PROVE  Len(Order(Run(p, m))) = m
<1>1. m \in Nat
  BY QuadAdd
<1>2. Run(p, m) \in Seq(Int) /\ Len(Run(p, m)) = m
  BY <1>1, RunIs
<1> QED BY <1>2, SwabIs DEF Order

\* The only place of the sync word is SyncAt.
LEMMA SyncOnce ==
    ASSUME NEW n \in Nat, SyncFound(Run(0, n)) # {}
    PROVE  SyncFound(Run(0, n)) = {SyncAt} /\ SyncAt <= n
<1>1. SyncAt \in Nat
  BY DevCfgAssumption
<1>2. Len(Run(0, n)) = n /\ \A i \in 1 .. n : Run(0, n)[i] = i - 1
  BY RunIs
<1>3. ASSUME NEW i \in SyncFound(Run(0, n)) PROVE i = SyncAt /\ i <= n
  <2>1. i \in 0 .. n - 5 /\ Run(0, n)[i + 0 + 1] = SyncAt + 0
    BY <1>2, <1>3 DEF SyncFound
  <2>2. i + 0 + 1 \in 1 .. n /\ i + 0 + 1 - 1 = i
    BY <2>1
  <2> QED BY <1>1, <1>2, <2>1, <2>2
<1> QED BY <1>3

\* Everything before position q is with the engine (as whole words) or kept.
At(q) ==
    \E k \in Quad, r \in Nat :
        /\ sent = Order(Run(SyncAt, k)) /\ residue = Run(SyncAt + k, r)
        /\ SyncAt + k + r = q /\ endian_swap = Swapped

\* The same, with words a thread is about to pass to the engine.
Loaded(words, q) ==
    \E k \in Quad, w \in Quad, r \in Nat :
        /\ sent = Order(Run(SyncAt, k)) /\ words = Order(Run(SyncAt + k, w))
        /\ residue = Run(SyncAt + k + w, r)
        /\ SyncAt + k + w + r = q /\ endian_swap = Swapped

Fresh == ppos = 0 /\ sent = << >> /\ residue = << >>

Writing == {"write_start", "write_wait"}

StreamInv ==
    /\ ppos \in Nat /\ (~is_open => ppos = 0) /\ whole \in BOOLEAN
    /\ \A t \in Threads : pc[t] \in Writing \cup {"write_lock"} => is_open
    /\ \A t \in Threads : pc[t] \in Writing => arg[t].n \in Nat \ {0}
    /\ whole /\ is_open =>
         /\ (\A t \in Threads : pc[t] \notin Writing) => Fresh \/ (ppos # 0 /\ At(ppos))
         /\ \A t \in Threads : pc[t] = "write_start" => Loaded(arg[t].words, ppos + arg[t].n)
         /\ \A t \in Threads : pc[t] = "write_wait" => At(ppos + arg[t].n)

\* What xdevcfg_write makes of n more bytes.
LEMMA BlockIs ==
    ASSUME NEW n \in Nat \ {0}, NEW k \in Quad, ppos \in Nat,
           NEW kbuf, kbuf = residue \o Run(ppos, n),
           \/ Fresh /\ k = 0 /\ SyncFound(kbuf) # {}
           \/ /\ ppos # 0
              /\ \E r \in Nat : residue = Run(SyncAt + k, r) /\ SyncAt + k + r = ppos
    PROVE  \E m \in Nat : Block(kbuf) = Run(SyncAt + k, m) /\ SyncAt + k + m = ppos + n
<1>0. SyncAt \in Nat /\ k \in Nat
  BY DevCfgAssumption, QuadAdd
<1>1. CASE Fresh /\ k = 0 /\ SyncFound(kbuf) # {}
  <2>1. kbuf = Run(0, n) /\ ppos = 0
    <3>1. Run(0, n) \in Seq(Int)
      BY RunIs
    <3>2. << >> \o Run(0, n) = Run(0, n)
      BY <3>1, ConcatEmptySeq
    <3> QED BY <1>1, <3>2 DEF Fresh
  <2>2. SyncFound(kbuf) = {SyncAt} /\ SyncAt <= n
    BY <1>1, <2>1, SyncOnce
  <2>3. Len(kbuf) = n
    BY <2>1, RunIs
  <2>4. Block(kbuf) = SubSeq(kbuf, SyncAt + 1, n)
    <3>1. (CHOOSE i \in SyncFound(kbuf) : \A j \in SyncFound(kbuf) : i <= j) = SyncAt
      BY <1>0, <2>2
    <3> QED BY <2>1, <2>2, <2>3, <3>1 DEF Block
  <2>5. SyncAt \in 0 .. n /\ n \in SyncAt .. n /\ SyncAt = SyncAt + k /\ n - SyncAt \in Nat
    BY <1>0, <1>1, <2>2
  <2>6. SubSeq(Run(0, n), SyncAt + 1, n) = Run(SyncAt, n - SyncAt)
    <3>1. 0 \in Int /\ n \in Nat /\ 0 + SyncAt = SyncAt
      BY <1>0
    <3>2. SubSeq(Run(0, n), SyncAt + 1, n) = Run(0 + SyncAt, n - SyncAt)
      BY <2>5, <3>1, RunSub, Zenon
    <3> QED BY <3>1, <3>2
  <2>7. SyncAt + k + (n - SyncAt) = ppos + n
    BY <1>0, <1>1, <2>1
  <2> QED BY <2>1, <2>4, <2>5, <2>6, <2>7
<1>2. CASE ppos # 0 /\ \E r \in Nat : residue = Run(SyncAt + k, r) /\ SyncAt + k + r = ppos
  <2>1. PICK r \in Nat : residue = Run(SyncAt + k, r) /\ SyncAt + k + r = ppos
    BY <1>2
  <2>2. SyncAt + k \in Int /\ (SyncAt + k) + r = ppos /\ n \in Nat
    BY <1>0, <2>1
  <2>3. Run(SyncAt + k, r) \o Run((SyncAt + k) + r, n) = Run(SyncAt + k, r + n)
    BY <2>2, RunCat
  <2>4. Block(kbuf) = Run(SyncAt + k, r + n)
    BY <1>2, <2>1, <2>3 DEF Block
  <2>5. r + n \in Nat /\ SyncAt + k + (r + n) = ppos + n
    BY <1>0, <2>1
  <2> QED BY <2>4, <2>5
<1> QED BY <1>1, <1>2

\* The words of a block and the stragglers.
LEMMA Cut ==
    ASSUME NEW p \in Int, NEW m \in Nat, NEW w, w = m - (m % 4)
    PROVE  /\ w \in Quad /\ m - w \in Nat
           /\ SubSeq(Run(p, m), 1, w) = Run(p, w)
           /\ SubSeq(Run(p, m), w + 1, m) = Run(p + w, m - w)
<1>1. w \in Quad /\ m - w \in Nat /\ w \in 0 .. m /\ m \in w .. m /\ 0 \in 0 .. m
  BY DEF Quad
<1>2. SubSeq(Run(p, m), w + 1, m) = Run(p + w, m - w)
  BY <1>1, RunSub
<1>3. SubSeq(Run(p, m), 0 + 1, w) = Run(p + 0, w - 0)
  BY <1>1, RunSub
<1>4. 0 + 1 = 1 /\ p + 0 = p /\ w - 0 = w
  BY <1>1
<1> QED BY <1>1, <1>2, <1>3, <1>4

\* Steps that neither write nor move the stream.
Beside ==
    /\ UNCHANGED <<ppos, sent, residue, endian_swap, whole, is_open>>
    /\ \A t \in Threads : pc[t] \in Writing \/ pc'[t] \in Writing
                            => pc'[t] = pc[t] /\ arg'[t] = arg[t]
    /\ \A t \in Threads : pc'[t] = "write_lock" => is_open

LEMMA BesideStep ==
    ASSUME StreamInv, Beside
    PROVE  StreamInv'
<1>1. \A q : (At(q) <=> At(q)') /\ \A w : Loaded(w, q) <=> Loaded(w, q)'
  BY DEF Beside, At, Loaded
<1>2. Fresh' <=> Fresh
  BY DEF Beside, Fresh
<1>3. \A t \in Threads : pc[t] \in Writing <=> pc'[t] \in Writing
  BY DEF Beside
<1>4. ppos' = ppos /\ (is_open' <=> is_open) /\ (whole' <=> whole) /\ whole' \in BOOLEAN
  BY DEF Beside, StreamInv
<1>5. /\ ppos' \in Nat /\ (~is_open' => ppos' = 0)
      /\ \A t \in Threads : pc'[t] \in Writing \cup {"write_lock"} => is_open'
      /\ \A t \in Threads : pc'[t] \in Writing => arg'[t].n \in Nat \ {0}
  BY <1>4 DEF StreamInv, Beside
<1>6. ASSUME whole', is_open'
      PROVE  /\ (\A t \in Threads : pc'[t] \notin Writing) => Fresh' \/ (ppos' # 0 /\ At(ppos)')
             /\ \A t \in Threads : pc'[t] = "write_start" => Loaded(arg[t].words, ppos + arg[t].n)'
             /\ \A t \in Threads : pc'[t] = "write_wait" => At(ppos + arg[t].n)'
  BY <1>1, <1>2, <1>3, <1>4, <1>6 DEF StreamInv, Beside, Writing
<1> QED BY <1>4, <1>5, <1>6 DEF StreamInv

LEMMA LoadStep ==
    ASSUME StreamInv, MutexInv, NEW t \in Threads, xdevcfg_write_load(t)
    PROVE  StreamInv'
<1>1. /\ pc[t] = "write_lock" /\ pc' = [pc EXCEPT ![t] = "write_start"]
      /\ sem = Nobody /\ UNCHANGED <<is_open, ppos, sent>>
  BY DEF xdevcfg_write_load
<1>2. \A u \in Threads : pc[u] \notin Writing
  BY <1>1, DevCfgAssumption DEF MutexInv, Writing, Holding, Waiting, Opening
<1>3. \A u \in Threads : pc'[u] = IF u = t THEN "write_start" ELSE pc[u]
  BY <1>1 DEF MutexInv
<1>4. is_open /\ ppos \in Nat
  BY <1>1 DEF StreamInv
<1>5. PICK n \in Chunks :
        LET kbuf  == residue \o [i \in 1..n |-> ppos + i - 1]
            block == Block(kbuf)
            words == Len(block) - (Len(block) % 4)
            swap  == IF ppos = 0 /\ SyncFound(kbuf) # {} THEN Swapped ELSE endian_swap
            taken == SubSeq(block, 1, words)
        IN  /\ residue' = SubSeq(block, words + 1, Len(block))
            /\ endian_swap' = swap
            /\ arg' = [arg EXCEPT ![t] = [n |-> n, words |-> IF swap THEN Swab(taken) ELSE taken]]
            /\ whole' = (whole /\ (ppos = 0 => SyncFound(kbuf) # {}))
  BY DEF xdevcfg_write_load
<1> DEFINE kbuf  == residue \o Run(ppos, n)
           block == Block(kbuf)
           words == Len(block) - (Len(block) % 4)
           swap  == IF ppos = 0 /\ SyncFound(kbuf) # {} THEN Swapped ELSE endian_swap
           taken == SubSeq(block, 1, words)
<1>6. /\ residue' = SubSeq(block, words + 1, Len(block))
      /\ endian_swap' = swap
      /\ arg' = [arg EXCEPT ![t] = [n |-> n, words |-> IF swap THEN Swab(taken) ELSE taken]]
      /\ whole' = (whole /\ (ppos = 0 => SyncFound(kbuf) # {}))
  BY <1>5 DEF Run
<1>7. arg'[t].n = n /\ arg'[t].words = IF swap THEN Swab(taken) ELSE taken
  BY <1>6 DEF MutexInv
<1>8. n \in Nat \ {0} /\ SyncAt \in Nat /\ Swapped \in BOOLEAN
  BY DevCfgAssumption
<1> HIDE DEF kbuf, block, words, swap, taken
<1>9. ASSUME whole' PROVE Loaded(arg[t].words, ppos + arg[t].n)'
  <2>1. whole /\ (Fresh \/ (ppos # 0 /\ At(ppos))) /\ (ppos = 0 => SyncFound(kbuf) # {})
    BY <1>2, <1>4, <1>6, <1>9 DEF StreamInv
  <2>2. PICK k \in Quad : /\ sent = Order(Run(SyncAt, k)) /\ swap = Swapped
                          /\ \/ Fresh /\ k = 0 /\ SyncFound(kbuf) # {}
                             \/ /\ ppos # 0
                                /\ \E r \in Nat : residue = Run(SyncAt + k, r) /\ SyncAt + k + r = ppos
    <3>1. CASE Fresh
      <4>1. 0 \in Quad /\ 1 .. 0 = {}
        BY DEF Quad
      <4>2. Run(SyncAt, 0) = << >> /\ Swab(<< >>) = << >>
        BY <4>1 DEF Run, Swab
      <4> QED BY <2>1, <3>1, <4>1, <4>2 DEF Fresh, Order, swap
    <3>2. CASE ppos # 0 /\ At(ppos)
      BY <3>2 DEF At, swap
    <3> QED BY <2>1, <3>1, <3>2
  <2>3. PICK m \in Nat : block = Run(SyncAt + k, m) /\ SyncAt + k + m = ppos + n
    BY <1>4, <1>8, <2>2, BlockIs DEF block, kbuf
  <2>4. k \in Nat /\ SyncAt + k \in Int
    BY <1>8 DEF Quad
  <2>5. Len(block) = m
    BY <2>3, <2>4, RunIs
  <2>6. words = m - (m % 4)
    BY <2>5 DEF words
  <2>7. /\ words \in Quad /\ m - words \in Nat
        /\ taken = Run(SyncAt + k, words)
        /\ residue' = Run(SyncAt + k + words, m - words)
    <3> DEFINE p == SyncAt + k
    <3>1. p \in Int /\ block = Run(p, m) /\ residue' = SubSeq(block, words + 1, m)
      BY <1>6, <2>3, <2>4, <2>5
    <3> HIDE DEF p
    <3>2. /\ words \in Quad /\ m - words \in Nat
          /\ SubSeq(Run(p, m), 1, words) = Run(p, words)
          /\ SubSeq(Run(p, m), words + 1, m) = Run(p + words, m - words)
      BY <2>6, <3>1, Cut, Zenon
    <3>3. taken = Run(p, words) /\ residue' = Run(p + words, m - words)
      BY <3>1, <3>2 DEF taken
    <3> QED BY <3>2, <3>3 DEF p
  <2>8. arg'[t].words = Order(Run(SyncAt + k, words)) /\ endian_swap' = Swapped
    BY <1>6, <1>7, <1>8, <2>2, <2>7 DEF Order
  <2>9. SyncAt + k + words + (m - words) = ppos' + arg'[t].n
    <3>1. words \in Nat
      BY <2>7 DEF Quad
    <3> QED BY <1>1, <1>4, <1>7, <1>8, <2>3, <2>4, <3>1
  <2>10. sent' = Order(Run(SyncAt, k))
    BY <1>1, <2>2
  <2> QED BY <2>7, <2>8, <2>9, <2>10 DEF Loaded
<1>10. \A u \in Threads : pc'[u] \in Writing => u = t
  BY <1>2, <1>3
<1>11. /\ ppos' \in Nat /\ is_open' /\ whole' \in BOOLEAN
       /\ \A u \in Threads : pc'[u] \in Writing => arg'[u].n \in Nat \ {0}
  BY <1>1, <1>4, <1>6, <1>7, <1>8, <1>10
<1>12. pc'[t] = "write_start" /\ \A u \in Threads : pc'[u] \in Writing => pc'[u] = "write_start"
  BY <1>3, <1>10
<1> QED BY <1>9, <1>10, <1>11, <1>12 DEF StreamInv, Writing

LEMMA StartStep ==
    ASSUME StreamInv, MutexInv, NEW t \in Threads, xdevcfg_write_start(t)
    PROVE  StreamInv'
<1>1. /\ pc[t] = "write_start" /\ pc' = [pc EXCEPT ![t] = "write_wait"]
      /\ sent' = sent \o arg[t].words
      /\ UNCHANGED <<arg, is_open, endian_swap, residue, ppos, whole>>
  BY DEF xdevcfg_write_start
<1>2. \A u \in Threads : u # t => pc'[u] = pc[u] /\ pc[u] \notin Writing
  BY <1>1 DEF MutexInv, Writing, Holding, Waiting, Opening
<1>3. pc'[t] = "write_wait"
  BY <1>1 DEF MutexInv
<1>4. ASSUME whole', is_open' PROVE At(ppos + arg[t].n)'
  <2>1. Loaded(arg[t].words, ppos + arg[t].n)
    BY <1>1, <1>4 DEF StreamInv
  <2>2. PICK k \in Quad, w \in Quad, r \in Nat :
          /\ sent = Order(Run(SyncAt, k)) /\ arg[t].words = Order(Run(SyncAt + k, w))
          /\ residue = Run(SyncAt + k + w, r)
          /\ SyncAt + k + w + r = ppos + arg[t].n /\ endian_swap = Swapped
    BY <2>1 DEF Loaded
  <2>3. SyncAt \in Int /\ k \in Nat /\ w \in Nat /\ k + w \in Quad
    BY DevCfgAssumption, QuadAdd
  <2>4. sent' = Order(Run(SyncAt, k + w))
    <3>1. Order(Run(SyncAt, k)) \o Order(Run(SyncAt + k, w)) = Order(Run(SyncAt, k + w))
      BY <2>3, OrderCat
    <3> QED BY <1>1, <2>2, <3>1, Zenon
  <2>5. SyncAt + k + w = SyncAt + (k + w)
    BY <2>3
  <2> QED BY <1>1, <2>2, <2>3, <2>4, <2>5 DEF At
<1>5. /\ ppos' \in Nat /\ is_open' /\ whole' \in BOOLEAN
      /\ arg'[t].n \in Nat \ {0}
  BY <1>1 DEF StreamInv, Writing
<1> QED BY <1>2, <1>3, <1>4, <1>5 DEF StreamInv, Writing

LEMMA DoneStep ==
    ASSUME StreamInv, MutexInv, NEW t \in Threads, xdevcfg_done(t) \/ xdevcfg_timeout(t)
    PROVE  StreamInv'
<1>1. /\ pc[t] \in Waiting /\ Return(t)
      /\ UNCHANGED <<is_open, endian_swap, residue, sent>>
  BY DEF xdevcfg_done, xdevcfg_timeout, Leave, drvdata, Waiting
<1>2. \A u \in Threads : /\ u # t => pc'[u] = pc[u] /\ arg'[u] = arg[u]
                         /\ pc'[u] \notin Writing
  BY <1>1 DEF MutexInv, Writing, Holding, Waiting, Opening, Return
<1>3. pc'[t] = "idle"
  BY <1>1 DEF MutexInv, Return
<1>4. CASE pc[t] = "read_wait"
  <2>1. Beside
    <3>1. UNCHANGED <<ppos, whole>>
      BY <1>4 DEF xdevcfg_done, xdevcfg_timeout, StreamInv
    <3>2. \A u \in Threads : pc[u] \notin Writing
      BY <1>4 DEF MutexInv, Writing, Holding, Waiting, Opening
    <3>3. \A u \in Threads : pc'[u] = "write_lock" => is_open
      BY <1>2, <1>3 DEF StreamInv
    <3> QED BY <1>1, <1>2, <3>1, <3>2, <3>3 DEF Beside
  <2> QED BY <2>1, BesideStep
<1>5. CASE pc[t] = "write_wait"
  <2>1. is_open /\ arg[t].n \in Nat \ {0} /\ ppos \in Nat
    BY <1>5 DEF StreamInv, Writing
  <2>2. \/ whole' = FALSE /\ ppos' = ppos
        \/ whole' = whole /\ ppos' = ppos + arg[t].n
    BY <1>5 DEF xdevcfg_done, xdevcfg_timeout
  <2>3. ppos' \in Nat /\ is_open'
    BY <1>1, <2>1, <2>2
  <2>7. whole' \in BOOLEAN
    BY <2>2, Zenon DEF StreamInv
  <2>4. ASSUME whole' PROVE ppos' # 0 /\ At(ppos)'
    <3>1. whole /\ ppos' = ppos + arg[t].n /\ At(ppos + arg[t].n)
      BY <1>5, <2>1, <2>2, <2>4 DEF StreamInv
    <3> QED BY <1>1, <2>1, <3>1 DEF At
  <2>5. \A u \in Threads : pc'[u] # "write_start" /\ pc'[u] # "write_wait"
    BY <1>2 DEF Writing
  <2> QED BY <1>2, <2>3, <2>4, <2>5, <2>7 DEF StreamInv
<1> QED BY <1>1, <1>4, <1>5 DEF Waiting

LEMMA StreamStep ==
    ASSUME StreamInv, MutexInv, PlInv, [Next]_vars
    PROVE  StreamInv'
<1> USE DEF MutexInv, Writing
<1>1. ASSUME NEW t \in Threads, Step(t) PROVE StreamInv'
  <2>1. CASE xdevcfg_open(t)
    <3>1. /\ is_open' = TRUE /\ whole' = TRUE /\ ppos' = 0 /\ sent' = << >> /\ residue' = << >>
          /\ sem = Nobody
          /\ \E at \in Opening : pc' = [pc EXCEPT ![t] = at]
      BY <2>1 DEF xdevcfg_open, ReadCtrl, Opening
    <3>2. \A u \in Threads : pc'[u] \notin Writing
      BY <3>1, DevCfgAssumption DEF Holding, Waiting, Opening
    <3> QED BY <3>1, <3>2 DEF StreamInv, Fresh
  <2>2. CASE Busy(t)
    <3>1. Beside
      BY <2>2 DEF Busy, Return, Beside, drvdata, stream, StreamInv
    <3> QED BY <3>1, BesideStep
  <2>3. CASE xdevcfg_open_reset(t) \/ xdevcfg_reset_pl_low(t) \/ xdevcfg_reset_pl_high(t)
    <3>1. Beside
      BY <2>3 DEF xdevcfg_open_reset, xdevcfg_reset_pl_low, xdevcfg_reset_pl_high, ReadCtrl,
                  Return, Beside, drvdata, stream, StreamInv
    <3> QED BY <3>1, BesideStep
  <2>9. CASE xdevcfg_enable_partial(t) \/ xdevcfg_reset_pl_clear(t) \/ xdevcfg_reset_pl_set(t)
    <3>1. Beside
      BY <2>9 DEF xdevcfg_enable_partial, xdevcfg_reset_pl_clear, xdevcfg_reset_pl_set, Beside,
                  drvdata, stream, StreamInv
    <3> QED BY <3>1, BesideStep
  <2>10. CASE xdevcfg_disable_partial(t)
    <3>1. /\ is_open' = FALSE /\ whole' = TRUE /\ ppos' = 0
          /\ pc[t] = "release" /\ pc' = [pc EXCEPT ![t] = "idle"]
      BY <2>10 DEF xdevcfg_disable_partial, Return
    <3>2. \A u \in Threads : pc'[u] \in Aloof
      BY <3>1 DEF PlInv, Aloof
    <3> QED BY <3>1, <3>2 DEF StreamInv, Aloof
  <2>4. CASE xdevcfg_write_load(t)
    BY <2>4, LoadStep
  <2>5. CASE xdevcfg_write_start(t)
    BY <2>5, StartStep
  <2>6. CASE xdevcfg_read_arm(t) \/ xdevcfg_read_start(t)
    <3>1. Beside
      BY <2>6 DEF xdevcfg_read_arm, xdevcfg_read_start, Beside, drvdata, stream, StreamInv
    <3> QED BY <3>1, BesideStep
  <2>7. CASE xdevcfg_done(t) \/ xdevcfg_timeout(t)
    BY <2>7, DoneStep
  <2>8. CASE StoreWrite(t)
    <3>1. pc[t] = "store" /\ Return(t) /\ UNCHANGED <<drvdata, stream>>
      BY <2>8 DEF StoreWrite
    <3>2. Beside
      BY <3>1 DEF Return, Beside, drvdata, stream, StreamInv
    <3> QED BY <3>2, BesideStep
  <2> QED BY <1>1, <2>1, <2>2, <2>3, <2>4, <2>5, <2>6, <2>7, <2>8, <2>9, <2>10 DEF Step
<1>2. ASSUME NEW t \in Threads, GiveUp(t) PROVE Beside
  BY <1>2 DEF GiveUp, Return, Beside, drvdata, stream, StreamInv
<1>3. ASSUME NEW t \in Threads, NEW at \in {"open_lock", "write_lock", "read_lock"}, Call(t, at)
      PROVE  Beside
  BY <1>3 DEF Call, Enter, Beside, drvdata, stream, StreamInv
<1>4. ASSUME NEW t \in Threads, NEW a, NEW v, StoreRead(t, a, v) PROVE Beside
  BY <1>4 DEF StoreRead, Enter, Beside, drvdata, stream, StreamInv
<1>5. ASSUME NEW v \in BOOLEAN, xdevcfg_set_is_partial_bitstream(v) PROVE Beside
  BY <1>5 DEF xdevcfg_set_is_partial_bitstream, Beside, stream, StreamInv
<1>6. ASSUME NEW t \in Threads, xdevcfg_release(t) PROVE StreamInv'
  <2>1. /\ is_open' = FALSE /\ whole' = TRUE /\ ppos' = 0 /\ UNCHANGED pc
        /\ \A u \in Threads : pc[u] \in Aloof
    BY <1>6 DEF xdevcfg_release, LastClose, Aloof
  <2> QED BY <2>1 DEF StreamInv, Aloof
<1>8. ASSUME NEW t \in Threads, xdevcfg_release_partial(t) PROVE Beside
  BY <1>8 DEF xdevcfg_release_partial, LastClose, ReadCtrl, Beside, drvdata, stream, StreamInv
<1>7. Engine \/ InitFollows \/ xdevcfg_irq \/ UNCHANGED vars => Beside
  BY DEF Engine, InitFollows, xdevcfg_irq, vars, Beside, drvdata, stream, StreamInv
<1> QED BY <1>1, <1>2, <1>3, <1>4, <1>5, <1>6, <1>7, <1>8, BesideStep DEF Next

\* However the bitstream is cut into writes, wherever its sync word is and in
\* whichever byte order, what reaches the engine is the file from the sync word on.
THEOREM StreamIsWhole == Spec => []StreamWhole
<1>1. Init => StreamInv
  BY DEF Init, StreamInv, Writing
<1>2. StreamInv /\ MutexInv /\ PlInv /\ [Next]_vars => StreamInv'
  BY StreamStep
<1>3. StreamInv => StreamWhole
  <2> SUFFICES ASSUME StreamInv, whole, ppos # 0, \A t \in Threads : pc[t] \notin Writing
               PROVE  /\ sent = Order(Run(SyncAt, Len(sent)))
                      /\ residue = Run(SyncAt + Len(sent), Len(residue))
                      /\ SyncAt + Len(sent) + Len(residue) = ppos
    BY DEF StreamWhole, Writing, Order, Run
  <2>1. PICK k \in Quad, r \in Nat :
          /\ sent = Order(Run(SyncAt, k)) /\ residue = Run(SyncAt + k, r)
          /\ SyncAt + k + r = ppos
    BY DEF StreamInv, Fresh, At
  <2>2. SyncAt \in Int /\ SyncAt + k \in Int
    BY DevCfgAssumption DEF Quad
  <2>3. Len(sent) = k
    BY <2>1, <2>2, OrderLen
  <2>4. Len(residue) = r
    BY <2>1, <2>2, RunIs
  <2> QED BY <2>1, <2>3, <2>4
<1> QED BY <1>1, <1>2, <1>3, MutexHeld, PlHolds, PTL DEF Spec
-----------------------------------------------------------------------------
(* The clocks: the other half of the driver, DevCfgFclk                    *)

OnFile   == {"enable", "disable", "rate"}
OnExport == {"export", "create", "prepare", "unexport", "drop", "unregister"}

\* A clock has one device at most.
Once(s) == \A k, l \in 1 .. Len(s) : s[k] = s[l] => k = l

FclkType ==
    /\ place \in [Writers -> {"idle"} \cup OnExport \cup OnFile]
    /\ clkof \in [Writers -> Fclks \cup {CHOOSE i \in Fclks : TRUE}]
    /\ \A t \in Writers : place[t] # "idle" => clkof[t] \in Fclks
    /\ fclk_exported \in [Fclks -> BOOLEAN] /\ enabled \in [Fclks -> BOOLEAN]
    /\ fdata \in [Fclks -> {"null", "live", "freed"}]
    /\ prepared \in [Fclks -> Int] /\ running \in [Fclks -> Int]
    /\ devs \in Seq(Fclks) /\ Once(devs)

\* Calls under way are about different clocks, and one of them at most exports or
\* unexports.
Alone ==
    \A t, u \in Writers : t # u /\ place[t] # "idle" /\ place[u] # "idle" =>
        clkof[t] # clkof[u] /\ (place[t] \in OnFile \/ place[u] \in OnFile)

\* Calls are under way only while the driver is bound and holds everything.
Held ==
    /\ driver \in {"unbound", "bound", "removing"}
    /\ driver = "bound" => Everything \subseteq res
    /\ driver # "bound" => \A t \in Writers : place[t] = "idle"
    /\ driver = "unbound" => res \subseteq {"fclks"} /\ \A i \in Fclks : ~fclk_exported[i]

\* How a clock stands: the flag, the device and its data, the number of clk_prepare.
Stands(i, exported, there, data, n) ==
    /\ fclk_exported[i] = exported /\ (i \in ToSet(devs)) = there /\ fdata[i] = data
    /\ prepared[i] = n /\ running[i] = (IF n = 1 /\ enabled[i] THEN 1 ELSE 0)

Unused(i)   == Stands(i, FALSE, FALSE, "null", 0)
Exported(i) == Stands(i, TRUE, TRUE, "live", 1)

\* How it stands when the call about it has come to "at", and when there is none.
Phase(at, i) ==
    /\ at = "idle"       => Unused(i) \/ Exported(i)
    /\ at = "export"     => Unused(i)
    /\ at = "create"     => Stands(i, TRUE, FALSE, "null", 0)
    /\ at = "prepare"    => Stands(i, TRUE, TRUE, "null", 0)
    /\ at = "unexport"   => Exported(i)
    /\ at = "drop"       => Stands(i, FALSE, TRUE, "live", 1)
    /\ at = "unregister" => Stands(i, FALSE, TRUE, "freed", 0)
    /\ at = "enable"     => Exported(i) /\ ~enabled[i]
    /\ at = "disable"    => Exported(i) /\ enabled[i]
    /\ at = "rate"       => Exported(i)

Accounts ==
    \A i \in Fclks :
        /\ (\A t \in Writers : place[t] = "idle" \/ clkof[t] # i) => Phase("idle", i)
        /\ \A t \in Writers : place[t] # "idle" /\ clkof[t] = i => Phase(place[t], i)

FclkInv == FclkType /\ (excused = {} => ~oops /\ Alone /\ Held /\ Accounts)

\* The class gains a device at its end ...
LEMMA DeviceAdded ==
    ASSUME NEW s \in Seq(Fclks), Once(s), NEW i \in Fclks, i \notin ToSet(s)
    PROVE  /\ Append(s, i) \in Seq(Fclks) /\ Once(Append(s, i))
           /\ \A j : j \in ToSet(Append(s, i)) <=> j \in ToSet(s) \/ j = i
<1>1. /\ Append(s, i) \in Seq(Fclks) /\ Len(Append(s, i)) = Len(s) + 1 /\ Len(s) \in Nat
      /\ \A k \in 1 .. Len(s) : Append(s, i)[k] = s[k]
      /\ Append(s, i)[Len(s) + 1] = i
  OBVIOUS
<1>2. \A k \in 1 .. Len(s) : s[k] # i
  BY DEF ToSet
<1>3. DOMAIN s = 1 .. Len(s) /\ DOMAIN Append(s, i) = 1 .. Len(s) + 1
  BY <1>1
<1>4. Once(Append(s, i))
  BY <1>1, <1>2 DEF Once
<1>5. ASSUME NEW j
      PROVE  j \in ToSet(Append(s, i)) <=> j \in ToSet(s) \/ j = i
  BY <1>1, <1>3 DEF ToSet
<1> QED BY <1>1, <1>4, <1>5

\* A sequence without its k-th element.
LEMMA CutOut ==
    ASSUME NEW S, NEW s \in Seq(S), NEW k \in 1 .. Len(s)
    PROVE  /\ RemoveAt(s, k) \in Seq(S) /\ Len(RemoveAt(s, k)) = Len(s) - 1
           /\ \A n \in 1 .. k - 1 : RemoveAt(s, k)[n] = s[n]
           /\ \A n \in k .. Len(s) - 1 : RemoveAt(s, k)[n] = s[n + 1]
<1> DEFINE m == Len(s)
           a == SubSeq(s, 1, k - 1)
           b == SubSeq(s, k + 1, m)
           u == a \o b
<1>1. m \in Nat /\ k \in 1 .. m
  BY LenProperties
<1>2. \A n \in 1 .. m : s[n] \in S
  BY ElementOfSeq
<1> HIDE DEF m
<1>3. /\ a \in Seq(S) /\ Len(a) = k - 1
      /\ \A n \in 1 .. k - 1 : a[n] = s[n]
  <2>1. \A n \in 1 .. k - 1 : s[n] \in S
    BY <1>1, <1>2
  <2> QED BY <1>1, <2>1, SubSeqProperties
<1>4. /\ b \in Seq(S) /\ Len(b) = m - k
      /\ \A n \in 1 .. m - k : b[n] = s[k + n]
  <2>1. \A n \in k + 1 .. m : s[n] \in S
    BY <1>1, <1>2
  <2> QED BY <1>1, <2>1, SubSeqProperties
<1> HIDE DEF a, b
<1>5. /\ u \in Seq(S) /\ Len(u) = m - 1
      /\ \A n \in 1 .. m - 1 : u[n] = IF n <= k - 1 THEN a[n] ELSE b[n - (k - 1)]
  <2>1. /\ u \in Seq(S) /\ Len(u) = Len(a) + Len(b)
        /\ \A n \in 1 .. Len(a) + Len(b) : u[n] = IF n <= Len(a) THEN a[n] ELSE b[n - Len(a)]
    BY <1>3, <1>4, ConcatProperties, Zenon
  <2>2. Len(a) + Len(b) = m - 1
    BY <1>1, <1>3, <1>4
  <2> QED BY <2>1, <2>2, <1>3, Zenon
<1>6. RemoveAt(s, k) = u
  BY DEF RemoveAt, a, b, m
<1> HIDE DEF u
<1>7. ASSUME NEW n \in 1 .. k - 1 PROVE u[n] = s[n]
  BY <1>1, <1>3, <1>5
<1>8. ASSUME NEW n \in k .. m - 1 PROVE u[n] = s[n + 1]
  <2>1. n - (k - 1) \in 1 .. m - k /\ k + (n - (k - 1)) = n + 1
    BY <1>1
  <2>2. u[n] = b[n - (k - 1)]
    BY <1>1, <1>5
  <2> QED BY <2>1, <2>2, <1>4
<1> QED BY <1>5, <1>6, <1>7, <1>8 DEF m

\* ... and loses one from where it is.
LEMMA DeviceRemoved ==
    ASSUME NEW s \in Seq(Fclks), Once(s), NEW i \in Fclks
    PROVE  /\ RemoveFirst(s, i) \in Seq(Fclks) /\ Once(RemoveFirst(s, i))
           /\ \A j : j \in ToSet(RemoveFirst(s, i)) <=> j \in ToSet(s) /\ j # i
<1>0. DOMAIN s = 1 .. Len(s) /\ Len(s) \in Nat
  OBVIOUS
<1>1. CASE ~\E k \in 1 .. Len(s) : s[k] = i
  BY <1>0, <1>1 DEF RemoveFirst, ToSet
<1>2. CASE \E k \in 1 .. Len(s) : s[k] = i
  <2>1. PICK k \in 1 .. Len(s) : s[k] = i
    BY <1>2
  <2>2. {n \in 1 .. Len(s) : s[n] = i} = {k}
    BY <2>1 DEF Once
  <2>3. Min({k}) = k
    BY <2>1 DEF Min
  <2>4. RemoveFirst(s, i) = RemoveAt(s, k)
    BY <2>1, <2>2, <2>3 DEF RemoveFirst, SelectInSeq
  <2>5. PICK r : r = RemoveAt(s, k)
    OBVIOUS
  <2>6. /\ r \in Seq(Fclks) /\ Len(r) = Len(s) - 1
        /\ \A n \in 1 .. k - 1 : r[n] = s[n]
        /\ \A n \in k .. Len(s) - 1 : r[n] = s[n + 1]
    BY <2>1, <2>5, CutOut
  <2>7. \A n \in 1 .. Len(r) : r[n] = s[IF n < k THEN n ELSE n + 1]
    BY <2>6, <2>1
  <2>8. Once(r)
    <3> SUFFICES ASSUME NEW m \in 1 .. Len(r), NEW n \in 1 .. Len(r), r[m] = r[n]
                 PROVE  m = n
      BY DEF Once
    <3>1. PICK x, y : /\ x = (IF m < k THEN m ELSE m + 1) /\ y = (IF n < k THEN n ELSE n + 1)
                      /\ r[m] = s[x] /\ r[n] = s[y]
      BY <2>7
    <3>2. x \in 1 .. Len(s) /\ y \in 1 .. Len(s)
      BY <3>1, <2>6, <2>1, <1>0
    <3>3. x = y
      BY <3>1, <3>2 DEF Once
    <3> QED BY <3>1, <3>3, <2>1, <2>6, <1>0
  <2>9. ASSUME NEW j PROVE j \in ToSet(r) <=> j \in ToSet(s) /\ j # i
    <3>1. DOMAIN r = 1 .. Len(s) - 1
      BY <2>6
    <3>2. ASSUME j \in ToSet(r) PROVE j \in ToSet(s) /\ j # i
      <4>1. PICK n \in 1 .. Len(s) - 1 : r[n] = j
        BY <3>1, <3>2 DEF ToSet
      <4>2. PICK x : x = (IF n < k THEN n ELSE n + 1) /\ r[n] = s[x]
        BY <2>6, <2>7
      <4>3. x \in 1 .. Len(s) /\ x # k
        BY <4>2, <2>1, <1>0
      <4> QED BY <4>1, <4>2, <4>3, <2>1, <1>0 DEF Once, ToSet
    <3>3. ASSUME j \in ToSet(s), j # i PROVE j \in ToSet(r)
      <4>1. PICK n \in 1 .. Len(s) : s[n] = j
        BY <3>3, <1>0 DEF ToSet
      <4>2. n # k
        BY <4>1, <2>1, <3>3
      <4>3. CASE n < k
        <5>1. n \in 1 .. Len(s) - 1 /\ r[n] = j
          BY <4>1, <4>3, <2>1, <2>6, <1>0
        <5> QED BY <5>1, <3>1 DEF ToSet
      <4>4. CASE n > k
        <5>1. n - 1 \in 1 .. Len(s) - 1 /\ n - 1 \in k .. Len(s) - 1 /\ (n - 1) + 1 = n
          BY <4>1, <4>4, <2>1, <1>0
        <5>2. r[n - 1] = j
          BY <5>1, <4>1, <2>6
        <5> QED BY <5>1, <5>2, <3>1 DEF ToSet
      <4> QED BY <4>1, <4>2, <4>3, <4>4, <2>1, <1>0
    <3> QED BY <3>2, <3>3
  <2> QED BY <2>4, <2>5, <2>6, <2>8, <2>9
<1> QED BY <1>1, <1>2

\* The clocks other than i stand as they did.
Elsewhere(i) ==
    \A j \in Fclks \ {i} :
        /\ fclk_exported'[j] = fclk_exported[j] /\ fdata'[j] = fdata[j]
        /\ enabled'[j] = enabled[j] /\ prepared'[j] = prepared[j] /\ running'[j] = running[j]
        /\ j \in ToSet(devs') <=> j \in ToSet(devs)

LEMMA StandsStill ==
    ASSUME NEW i, Elsewhere(i), NEW j \in Fclks \ {i}, NEW at, Phase(at, j)
    PROVE  Phase(at, j)'
BY DEF Elsewhere, Phase, Unused, Exported, Stands

\* A step of a call that disturbs its own clock only, and leaves it as its next place
\* says.
LEMMA CallGoesOn ==
    ASSUME FclkType, Alone, Held, Accounts,
           NEW t \in Writers, place[t] # "idle", NEW at,
           place' = [place EXCEPT ![t] = at], at \in {"idle"} \cup OnFile \/ place[t] \in OnExport,
           UNCHANGED <<clkof, driver, res>>,
           Elsewhere(clkof[t]), Phase(at, clkof[t])'
    PROVE  Alone' /\ Held' /\ Accounts'
<1>1. /\ \A u \in Writers \ {t} : place'[u] = place[u]
      /\ place'[t] = at
  BY DEF FclkType
<1>2. driver = "bound"
  BY DEF Held
<1>3. Held'
  BY <1>2 DEF Held, Everything
<1>4. Alone'
  BY <1>1 DEF Alone, OnFile, OnExport
<1>5. Accounts'
  <2>1. ASSUME NEW j \in Fclks, \A u \in Writers : place'[u] = "idle" \/ clkof'[u] # j
        PROVE  Phase("idle", j)'
    <3>1. CASE j = clkof[t]
      <4>1. at = "idle"
        BY <1>1, <2>1, <3>1
      <4> QED BY <3>1, <4>1
    <3>2. CASE j # clkof[t]
      <4>1. Phase("idle", j)
        BY <1>1, <2>1, <3>2 DEF Accounts
      <4> QED BY <3>2, <4>1, StandsStill
    <3> QED BY <3>1, <3>2
  <2>2. ASSUME NEW u \in Writers, place'[u] # "idle", clkof'[u] \in Fclks
        PROVE  Phase(place[u], clkof[u])'
    <3>1. CASE u = t
      BY <1>1, <3>1
    <3>2. CASE u # t
      <4>1. place'[u] = place[u] /\ clkof[u] # clkof[t] /\ clkof[u] \in Fclks
        BY <1>1, <2>2, <3>2 DEF Alone
      <4>2. PICK p, j : p = place[u] /\ j = clkof[u]
        OBVIOUS
      <4>3. Phase(p, j)
        BY <4>1, <4>2, <2>2 DEF Accounts
      <4>4. Phase(p, j)'
        BY <4>1, <4>2, <4>3, StandsStill
      <4> QED BY <4>1, <4>2, <4>4
    <3> QED BY <3>1, <3>2
  <2> QED BY <2>1, <2>2 DEF Accounts
<1> QED BY <1>3, <1>4, <1>5

\* A call that begins without being excused meets neither remove nor a call on its
\* clock, and finds the clock as its first place says.
LEMMA CallBegins ==
    ASSUME FclkType, Alone, Held, Accounts,
           NEW t \in Writers, NEW i \in Fclks, NEW at \in OnExport \cup OnFile,
           Begin(t, i, at), excused' = {},
           driver # "unbound",
           Phase("idle", i) => Phase(at, i)
    PROVE  Alone' /\ Held' /\ Accounts'
<1>0. /\ place[t] = "idle" /\ place' = [place EXCEPT ![t] = at] /\ clkof' = [clkof EXCEPT ![t] = i]
      /\ UNCHANGED <<driver, res, fclk_exported, devs, fdata, enabled, prepared, running>>
  BY DEF Begin, clocks
<1>1. /\ place'[t] = at /\ clkof'[t] = i /\ at # "idle"
      /\ \A u \in Writers \ {t} : place'[u] = place[u] /\ clkof'[u] = clkof[u]
  BY <1>0 DEF FclkType, OnExport, OnFile
<1>2. ~(driver = "removing" \/ \E u \in Writers : place[u] # "idle" /\ (clkof[u] = i
             \/ {at, place[u]} \cap {"enable", "disable", "rate"} = {}))
  BY DEF Begin
<1>3. \A u \in Writers : place[u] # "idle" => clkof[u] # i /\ (at \in OnFile \/ place[u] \in OnFile)
  BY <1>2 DEF OnFile
<1>4. driver = "bound"
  BY <1>2 DEF Held
<1>5. Held'
  BY <1>0, <1>4 DEF Held, Everything
<1>6. Alone'
  BY <1>1, <1>3 DEF Alone
<1>7. Phase("idle", i)
  BY <1>3 DEF Accounts
<1>8. ASSUME NEW j \in Fclks, NEW p, Phase(p, j) PROVE Phase(p, j)'
  BY <1>0, <1>8 DEF Phase, Unused, Exported, Stands
<1>9. Accounts'
  <2>1. ASSUME NEW j \in Fclks, \A u \in Writers : place'[u] = "idle" \/ clkof'[u] # j
        PROVE  Phase("idle", j)'
    <3>1. \A u \in Writers : place[u] = "idle" \/ clkof[u] # j
      BY <1>0, <1>1, <2>1
    <3> QED BY <3>1, <1>8 DEF Accounts
  <2>2. ASSUME NEW u \in Writers, place'[u] # "idle", clkof'[u] \in Fclks
        PROVE  Phase(place[u], clkof[u])'
    <3>1. PICK p, j : p = place'[u] /\ j = clkof'[u]
      OBVIOUS
    <3>2. Phase(p, j) /\ j \in Fclks
      BY <1>1, <1>7, <2>2, <3>1 DEF Accounts
    <3>3. Phase(p, j)'
      BY <3>2, <1>8
    <3> QED BY <3>1, <3>3
  <2> QED BY <2>1, <2>2 DEF Accounts
<1> QED BY <1>5, <1>6, <1>9

\* The walk through the class ends at the clock's device if every device has its data.
LEMMA WalkEnds ==
    ASSUME FclkType, NEW i \in Fclks, i \in ToSet(devs),
           \A j \in Fclks : j \in ToSet(devs) => fdata[j] = "live"
    PROVE  Found(i)
<1>1. \A k \in 1 .. Len(devs) : devs[k] \in Fclks /\ devs[k] \in ToSet(devs)
  BY DEF FclkType, ToSet
<1> QED BY <1>1 DEF Found

\* The types, action by action.
LEMMA FclkTypeBegin ==
    ASSUME FclkType, NEW t \in Writers, NEW i \in Fclks, NEW at \in OnExport \cup OnFile,
           Begin(t, i, at)
    PROVE  FclkType'
<1>1. place' = [place EXCEPT ![t] = at] /\ clkof' = [clkof EXCEPT ![t] = i]
  BY DEF Begin
<1>2. UNCHANGED <<fclk_exported, devs, fdata, enabled, prepared, running>>
  BY DEF Begin, clocks
<1>3. place' \in [Writers -> {"idle"} \cup OnExport \cup OnFile]
  BY <1>1 DEF FclkType
<1>4. clkof' \in [Writers -> Fclks \cup {CHOOSE j \in Fclks : TRUE}]
  BY <1>1 DEF FclkType
<1>5. \A u \in Writers : place'[u] # "idle" => clkof'[u] \in Fclks
  BY <1>1 DEF FclkType
<1> QED BY <1>2, <1>3, <1>4, <1>5 DEF FclkType

\* What a step of a call writes to the variables of its clock has their types.
LEMMA FclkTypeStep ==
    ASSUME FclkType, NEW t \in Writers, FclkStep(t)
    PROVE  FclkType'
<1> DEFINE i == clkof[t]
<1>1. ASSUME NEW at \in {"idle"} \cup OnExport \cup OnFile, place' = [place EXCEPT ![t] = at],
             clkof' = clkof, at = "idle" \/ place[t] # "idle"
      PROVE  /\ place' \in [Writers -> {"idle"} \cup OnExport \cup OnFile]
             /\ clkof' \in [Writers -> Fclks \cup {CHOOSE j \in Fclks : TRUE}]
             /\ \A u \in Writers : place'[u] # "idle" => clkof'[u] \in Fclks
  BY <1>1 DEF FclkType
<1>2. place[t] # "idle" /\ i \in Fclks
  BY DEF FclkType, FclkStep, xdevcfg_fclk_export_flag, xdevcfg_fclk_export_create,
         xdevcfg_fclk_export_finish, xdevcfg_fclk_unexport_find,
         xdevcfg_fclk_unexport_drop, xdevcfg_fclk_unexport_unregister,
         fclk_enable_store, fclk_rate
<1>3. CASE xdevcfg_fclk_export_flag(t)
  <2>1. fclk_exported' \in [Fclks -> BOOLEAN]
    BY <1>3, <1>2 DEF FclkType, xdevcfg_fclk_export_flag
  <2> QED BY <1>1, <1>2, <1>3, <2>1 DEF xdevcfg_fclk_export_flag, Goto, FclkType, OnExport
<1>4. CASE xdevcfg_fclk_export_create(t)
  <2>1. devs' \in Seq(Fclks) /\ Once(devs')
    <3>1. devs \in Seq(Fclks) /\ Once(devs)
      BY DEF FclkType
    <3>2. devs' = devs \/ (devs' = Append(devs, i) /\ i \notin ToSet(devs))
      BY <1>4 DEF xdevcfg_fclk_export_create
    <3>3. CASE devs' = devs
      BY <3>1, <3>3
    <3>4. CASE devs' = Append(devs, i) /\ i \notin ToSet(devs)
      BY <1>2, <3>1, <3>4, DeviceAdded
    <3> QED BY <3>2, <3>3, <3>4
  <2>2. fdata' \in [Fclks -> {"null", "live", "freed"}]
    BY <1>2, <1>4 DEF FclkType, xdevcfg_fclk_export_create
  <2> QED BY <1>1, <1>2, <1>4, <2>1, <2>2
          DEF xdevcfg_fclk_export_create, Goto, FclkReturn, FclkType, OnExport
<1>5. CASE xdevcfg_fclk_export_finish(t)
  <2>1. prepared' \in [Fclks -> Int]
    BY <1>2, <1>5 DEF FclkType, xdevcfg_fclk_export_finish
  <2>2. fdata' \in [Fclks -> {"null", "live", "freed"}]
    BY <1>2, <1>5 DEF FclkType, xdevcfg_fclk_export_finish
  <2>3. enabled' \in [Fclks -> BOOLEAN]
    BY <1>2, <1>5 DEF FclkType, xdevcfg_fclk_export_finish
  <2> QED BY <1>1, <1>2, <1>5, <2>1, <2>2, <2>3
          DEF xdevcfg_fclk_export_finish, FclkReturn, FclkType
<1>6. CASE xdevcfg_fclk_unexport_find(t)
  <2>1. fclk_exported' \in [Fclks -> BOOLEAN]
    BY <1>6, <1>2 DEF FclkType, xdevcfg_fclk_unexport_find
  <2> QED BY <1>1, <1>2, <1>6, <2>1 DEF xdevcfg_fclk_unexport_find, Goto, FclkType, OnExport
<1>7. CASE xdevcfg_fclk_unexport_drop(t)
  <2>1. prepared' \in [Fclks -> Int] /\ running' \in [Fclks -> Int]
    BY <1>2, <1>7 DEF FclkType, xdevcfg_fclk_unexport_drop, Dropped
  <2>2. fdata' \in [Fclks -> {"null", "live", "freed"}] /\ enabled' \in [Fclks -> BOOLEAN]
    BY <1>2, <1>7 DEF FclkType, xdevcfg_fclk_unexport_drop, Dropped
  <2> QED BY <1>1, <1>2, <1>7, <2>1, <2>2
          DEF xdevcfg_fclk_unexport_drop, Goto, FclkType, OnExport
<1>8. CASE xdevcfg_fclk_unexport_unregister(t)
  <2>1. devs' \in Seq(Fclks) /\ Once(devs')
    BY <1>2, <1>8, DeviceRemoved DEF FclkType, xdevcfg_fclk_unexport_unregister
  <2>2. fdata' \in [Fclks -> {"null", "live", "freed"}]
    BY <1>2, <1>8 DEF FclkType, xdevcfg_fclk_unexport_unregister
  <2> QED BY <1>1, <1>2, <1>8, <2>1, <2>2
          DEF xdevcfg_fclk_unexport_unregister, FclkReturn, FclkType
<1>9. CASE fclk_enable_store(t)
  <2>1. running' \in [Fclks -> Int]
    BY <1>2, <1>9 DEF FclkType, fclk_enable_store
  <2>2. enabled' \in [Fclks -> BOOLEAN]
    BY <1>2, <1>9 DEF FclkType, fclk_enable_store
  <2> QED BY <1>1, <1>2, <1>9, <2>1, <2>2 DEF fclk_enable_store, FclkReturn, FclkType
<1>10. CASE fclk_rate(t)
  BY <1>1, <1>2, <1>10 DEF fclk_rate, FclkReturn, clocks, FclkType
<1> QED BY <1>3, <1>4, <1>5, <1>6, <1>7, <1>8, <1>9, <1>10 DEF FclkStep

\* A step of a call that is not excused follows no bad pointer and leaves its clock as
\* the next place of the call says.
LEMMA FclkInvStep ==
    ASSUME FclkType, Alone, Held, Accounts, ~oops, excused' = {},
           NEW t \in Writers, FclkStep(t)
    PROVE  ~oops' /\ Alone' /\ Held' /\ Accounts'
<1> DEFINE i == clkof[t]
<1>1. place[t] # "idle" /\ i \in Fclks
  BY DEF FclkType, FclkStep, xdevcfg_fclk_export_flag, xdevcfg_fclk_export_create,
         xdevcfg_fclk_export_finish, xdevcfg_fclk_unexport_find,
         xdevcfg_fclk_unexport_drop, xdevcfg_fclk_unexport_unregister,
         fclk_enable_store, fclk_rate
<1>2. Phase(place[t], i)
  BY <1>1 DEF Accounts
<1>3. CASE xdevcfg_fclk_export_flag(t)
  <2>1. Unused(i) /\ ~oops' /\ place[t] \in OnExport
    BY <1>2, <1>3 DEF Phase, xdevcfg_fclk_export_flag, OnExport
  <2>2. Elsewhere(i) /\ Phase("create", i)'
    BY <1>1, <1>3, <2>1 DEF xdevcfg_fclk_export_flag, Elsewhere, Phase, Unused, Exported,
                            Stands, FclkType
  <2> QED BY <1>1, <1>3, <2>1, <2>2, CallGoesOn DEF xdevcfg_fclk_export_flag, Goto
<1>4. CASE xdevcfg_fclk_export_create(t)
  <2>1. /\ Stands(i, TRUE, FALSE, "null", 0) /\ ~oops' /\ place[t] \in OnExport
        /\ i \notin ToSet(devs) /\ devs' = Append(devs, i)
        /\ fdata' = [fdata EXCEPT ![i] = "null"] /\ place' = [place EXCEPT ![t] = "prepare"]
        /\ UNCHANGED <<clkof, driver, res, fclk_exported, enabled, prepared, running>>
    BY <1>2, <1>4 DEF Phase, Stands, xdevcfg_fclk_export_create, Goto, OnExport
  <2>2. \A j : j \in ToSet(devs') <=> j \in ToSet(devs) \/ j = i
    BY <1>1, <2>1, DeviceAdded DEF FclkType
  <2>3. Elsewhere(i) /\ Phase("prepare", i)'
    BY <1>1, <2>1, <2>2 DEF Elsewhere, Phase, Unused, Exported, Stands, FclkType
  <2> QED BY <1>1, <2>1, <2>3, CallGoesOn
<1>5. CASE xdevcfg_fclk_export_finish(t)
  <2>1. /\ Stands(i, TRUE, TRUE, "null", 0) /\ ~oops'
        /\ prepared' = [prepared EXCEPT ![i] = @ + 1] /\ fdata' = [fdata EXCEPT ![i] = "live"]
        /\ enabled' = [enabled EXCEPT ![i] = FALSE] /\ place' = [place EXCEPT ![t] = "idle"]
        /\ UNCHANGED <<clkof, driver, res, fclk_exported, devs, running>>
    BY <1>2, <1>5 DEF Phase, xdevcfg_fclk_export_finish, FclkReturn
  <2>2. Elsewhere(i) /\ Phase("idle", i)'
    BY <1>1, <2>1 DEF Elsewhere, Phase, Unused, Exported, Stands, FclkType
  <2> QED BY <1>1, <2>1, <2>2, CallGoesOn
<1>6. CASE xdevcfg_fclk_unexport_find(t)
  <2>1. Exported(i) /\ place[t] = "unexport" /\ place[t] \in OnExport
    BY <1>2, <1>6 DEF Phase, xdevcfg_fclk_unexport_find, OnExport
  <2>2. ASSUME NEW j \in Fclks, j \in ToSet(devs) PROVE fdata[j] = "live"
    <3>1. CASE \A u \in Writers : place[u] = "idle" \/ clkof[u] # j
      BY <2>2, <3>1 DEF Accounts, Phase, Unused, Exported, Stands
    <3>2. CASE \E u \in Writers : place[u] # "idle" /\ clkof[u] = j
      <4>1. PICK u \in Writers : place[u] # "idle" /\ clkof[u] = j
        BY <3>2
      <4>2. u = t \/ place[u] \in OnFile
        BY <4>1, <1>1, <2>1 DEF Alone, OnFile
      <4>3. Phase(place[u], j)
        BY <4>1 DEF Accounts
      <4>4. Exported(j)
        BY <4>1, <4>2, <4>3, <2>1 DEF Phase, OnFile
      <4> QED BY <4>4 DEF Exported, Stands
    <3> QED BY <3>1, <3>2
  <2>3. Found(i)
    BY <1>1, <2>1, <2>2, WalkEnds DEF Exported, Stands
  <2>4. Elsewhere(i) /\ Phase("drop", i)' /\ ~oops'
    BY <1>1, <1>6, <2>1, <2>3 DEF xdevcfg_fclk_unexport_find, Elsewhere, Phase, Unused,
                                  Exported, Stands, FclkType
  <2> QED BY <1>1, <1>6, <2>1, <2>4, CallGoesOn DEF xdevcfg_fclk_unexport_find, Goto
<1>7. CASE xdevcfg_fclk_unexport_drop(t)
  <2>1. Stands(i, FALSE, TRUE, "live", 1) /\ ~oops' /\ place[t] \in OnExport
    BY <1>2, <1>7 DEF Phase, xdevcfg_fclk_unexport_drop, OnExport
  <2>2. Elsewhere(i) /\ Phase("unregister", i)'
    BY <1>1, <1>7, <2>1 DEF xdevcfg_fclk_unexport_drop, Dropped, Elsewhere, Phase,
                            Unused, Exported, Stands, FclkType
  <2> QED BY <1>1, <1>7, <2>1, <2>2, CallGoesOn DEF xdevcfg_fclk_unexport_drop, Goto
<1>8. CASE xdevcfg_fclk_unexport_unregister(t)
  <2>1. /\ Stands(i, FALSE, TRUE, "freed", 0) /\ ~oops'
        /\ devs' = RemoveFirst(devs, i)
        /\ fdata' = [fdata EXCEPT ![i] = "null"] /\ place' = [place EXCEPT ![t] = "idle"]
        /\ UNCHANGED <<clkof, driver, res, fclk_exported, enabled, prepared, running>>
    BY <1>2, <1>8 DEF Phase, xdevcfg_fclk_unexport_unregister, FclkReturn
  <2>2. \A j : j \in ToSet(devs') <=> j \in ToSet(devs) /\ j # i
    BY <1>1, <2>1, DeviceRemoved DEF FclkType
  <2>3. Elsewhere(i) /\ Phase("idle", i)'
    BY <1>1, <2>1, <2>2 DEF Elsewhere, Phase, Unused, Exported, Stands, FclkType
  <2> QED BY <1>1, <2>1, <2>3, CallGoesOn
<1>9. CASE fclk_enable_store(t)
  <2>1. Exported(i) /\ enabled[i] = (place[t] # "enable") /\ ~oops'
    BY <1>1, <1>2, <1>9 DEF Phase, Exported, Stands, fclk_enable_store, FclkType
  <2>2. /\ place' = [place EXCEPT ![t] = "idle"]
        /\ UNCHANGED <<clkof, driver, res, fclk_exported, devs, fdata, prepared>>
    BY <1>9 DEF fclk_enable_store, FclkReturn
  <2>3. Elsewhere(i) /\ Phase("idle", i)'
    BY <1>1, <1>9, <2>1, <2>2 DEF fclk_enable_store, Elsewhere, Phase, Unused, Exported,
                                  Stands, FclkType
  <2> QED BY <1>1, <2>1, <2>2, <2>3, CallGoesOn
<1>10. CASE fclk_rate(t)
  <2>1. Exported(i) /\ ~oops'
    BY <1>2, <1>10 DEF Phase, Exported, Stands, fclk_rate
  <2>2. UNCHANGED <<clkof, fclk_exported, devs, fdata, enabled, prepared, running>>
    BY <1>10 DEF fclk_rate, FclkReturn, clocks
  <2>3. Elsewhere(i) /\ Phase("idle", i)'
    BY <2>1, <2>2 DEF Elsewhere, Phase, Unused, Exported, Stands
  <2> QED BY <1>1, <1>10, <2>1, <2>3, CallGoesOn DEF fclk_rate, FclkReturn
<1> QED BY <1>3, <1>4, <1>5, <1>6, <1>7, <1>8, <1>9, <1>10 DEF FclkStep

\* The calls begin: on a clock without a device to export it, on one with a device
\* otherwise.
LEMMA FclkBegin ==
    ASSUME FclkType, Alone, Held, Accounts, ~oops, excused' = {},
           NEW t \in Writers, NEW i \in Fclks,
           BeginExport(t, i) \/ BeginUnexport(t, i) \/ BeginRate(t, i)
             \/ \E v \in BOOLEAN : BeginEnable(t, i, v)
    PROVE  ~oops' /\ Alone' /\ Held' /\ Accounts'
<1>1. i \in ToSet(devs) => driver # "unbound" \/ ~Phase("idle", i)
  BY DEF Held, Phase, Unused, Exported, Stands
<1>2. driver = "unbound" => Phase("idle", i)
  BY DEF Held, Accounts
<1>3. "fclk_attrs" \in res => driver # "unbound"
  BY DEF Held
<1>4. CASE BeginExport(t, i)
  <2>1. driver # "unbound" /\ ~fclk_exported[i] /\ Begin(t, i, "export")
    BY <1>3, <1>4 DEF BeginExport
  <2>2. ~oops' /\ (Phase("idle", i) => Phase("export", i))
    BY <2>1 DEF Begin, Phase, Unused, Exported, Stands
  <2> QED BY <2>1, <2>2, CallBegins DEF OnExport
<1>5. CASE BeginUnexport(t, i)
  <2>1. driver # "unbound" /\ fclk_exported[i] /\ Begin(t, i, "unexport")
    BY <1>3, <1>5 DEF BeginUnexport
  <2>2. ~oops' /\ (Phase("idle", i) => Phase("unexport", i))
    BY <2>1 DEF Begin, Phase, Unused, Exported, Stands
  <2> QED BY <2>1, <2>2, CallBegins DEF OnExport
<1>6. CASE BeginRate(t, i)
  <2>1. driver # "unbound" /\ i \in ToSet(devs) /\ Begin(t, i, "rate")
    BY <1>1, <1>2, <1>6 DEF BeginRate
  <2>2. ~oops' /\ (Phase("idle", i) => Phase("rate", i))
    BY <2>1 DEF Begin, Phase, Unused, Exported, Stands
  <2> QED BY <2>1, <2>2, CallBegins DEF OnFile
<1>7. CASE \E v \in BOOLEAN : BeginEnable(t, i, v)
  <2>1. PICK v \in BOOLEAN : BeginEnable(t, i, v)
    BY <1>7
  <2>2. PICK at \in {"enable", "disable"} : at = IF v THEN "enable" ELSE "disable"
    OBVIOUS
  <2>3. /\ driver # "unbound" /\ i \in ToSet(devs) /\ Begin(t, i, at)
        /\ enabled[i] = (at = "disable")
    BY <1>1, <1>2, <2>1, <2>2 DEF BeginEnable, FclkType
  <2>4. ~oops' /\ (Phase("idle", i) => Phase(at, i))
    BY <2>3 DEF Begin, Phase, Unused, Exported, Stands
  <2> QED BY <2>3, <2>4, CallBegins DEF OnFile
<1> QED BY <1>4, <1>5, <1>6, <1>7

\* probe and remove.
LEMMA FclkDriver ==
    ASSUME FclkInv,
           \/ \E failing \in {"none"} \cup Everything \cup FclkFiles :
                xdevcfg_drv_probe(failing)
           \/ xdevcfg_drv_remove
           \/ \E i \in Fclks : xdevcfg_fclk_remove(i)
           \/ RemoveRest
    PROVE  FclkInv'
<1>1. ASSUME NEW failing, xdevcfg_drv_probe(failing) PROVE FclkInv'
  <2>1. UNCHANGED <<place, clkof, devs, fdata, enabled, prepared, running, oops>>
    BY <1>1 DEF xdevcfg_drv_probe
  <2>2. fclk_exported' = [i \in Fclks |-> FALSE] /\ driver = "unbound"
    BY <1>1 DEF xdevcfg_drv_probe
  <2>3. FclkType'
    BY <2>1, <2>2 DEF FclkInv, FclkType
  <2>4. ASSUME excused' = {} PROVE ~oops' /\ Alone' /\ Held' /\ Accounts'
    <3>1. excused = {} /\ failing \notin {"class", "device"}
      BY <1>1, <2>4 DEF xdevcfg_drv_probe
    <3>2. ~oops /\ Alone /\ Held /\ Accounts
      BY <3>1 DEF FclkInv
    <3>3. fclk_exported' = fclk_exported
      BY <2>2, <3>2 DEF Held, FclkInv, FclkType
    <3>4. Alone' /\ Accounts'
      BY <2>1, <3>2, <3>3 DEF Alone, Accounts, Phase, Unused, Exported, Stands
    <3>5. Probed(failing).ok => Everything \subseteq Probed(failing).held
      BY <3>1 DEF Probed
    <3>6. ~Probed(failing).ok => Probed(failing).held = {}
      BY <3>1 DEF Probed
    <3>7. Held'
      BY <1>1, <2>1, <2>2, <3>2, <3>3, <3>5, <3>6 DEF xdevcfg_drv_probe, Held
    <3> QED BY <2>1, <3>2, <3>4, <3>7
  <2> QED BY <2>3, <2>4 DEF FclkInv
<1>2. CASE xdevcfg_drv_remove
  <2>1. UNCHANGED <<place, clkof, fclk_exported, devs, fdata, enabled, prepared, running>>
    BY <1>2 DEF xdevcfg_drv_remove, clocks
  <2>2. FclkType'
    BY <2>1 DEF FclkInv, FclkType
  <2>3. ASSUME excused' = {} PROVE ~oops' /\ Alone' /\ Held' /\ Accounts'
    <3>1. excused = {} /\ \A t \in Writers : place[t] = "idle"
      BY <1>2, <2>3 DEF xdevcfg_drv_remove
    <3>2. ~oops /\ Alone /\ Held /\ Accounts
      BY <3>1 DEF FclkInv
    <3>3. Alone' /\ Accounts'
      BY <2>1, <3>2 DEF Alone, Accounts, Phase, Unused, Exported, Stands
    <3>4. ~oops' /\ Held'
      BY <1>2, <2>1, <3>1, <3>2 DEF xdevcfg_drv_remove, Held
    <3> QED BY <3>3, <3>4
  <2> QED BY <2>2, <2>3 DEF FclkInv
<1>3. ASSUME NEW i \in Fclks, xdevcfg_fclk_remove(i) PROVE FclkInv'
  <2>1. UNCHANGED <<place, clkof, driver, res, excused>> /\ driver = "removing" /\ fclk_exported[i]
    BY <1>3 DEF xdevcfg_fclk_remove
  <2>2. FclkType'
    <3>1. devs' \in Seq(Fclks) /\ Once(devs')
      <4>1. devs \in Seq(Fclks) /\ Once(devs)
        BY DEF FclkInv, FclkType
      <4>2. devs' = devs \/ devs' = RemoveFirst(devs, i)
        BY <1>3 DEF xdevcfg_fclk_remove
      <4> QED BY <4>1, <4>2, DeviceRemoved
    <3>2. fclk_exported' \in [Fclks -> BOOLEAN]
      BY <1>3 DEF xdevcfg_fclk_remove, FclkInv, FclkType
    <3>3. prepared' \in [Fclks -> Int] /\ running' \in [Fclks -> Int]
      BY <1>3 DEF xdevcfg_fclk_remove, Dropped, FclkInv, FclkType
    <3>4. fdata' \in [Fclks -> {"null", "live", "freed"}] /\ enabled' \in [Fclks -> BOOLEAN]
      BY <1>3 DEF xdevcfg_fclk_remove, Dropped, FclkInv, FclkType
    <3> QED BY <2>1, <3>1, <3>2, <3>3, <3>4 DEF FclkInv, FclkType
  <2>3. ASSUME excused = {} PROVE ~oops' /\ Alone' /\ Held' /\ Accounts'
    <3>1. FclkType /\ ~oops /\ Alone /\ Held /\ Accounts
      BY <2>3 DEF FclkInv
    <3>2. \A t \in Writers : place[t] = "idle"
      BY <2>1, <3>1 DEF Held
    <3>3. \A j \in Fclks : Phase("idle", j)
      BY <3>1, <3>2 DEF Accounts
    <3>4. Exported(i)
      BY <2>1, <3>3 DEF Phase, Unused, Exported, Stands
    <3>5. \A j \in Fclks : j \in ToSet(devs) => fdata[j] = "live"
      BY <3>3 DEF Phase, Unused, Exported, Stands
    <3>6. Found(i)
      BY <3>1, <3>4, <3>5, WalkEnds DEF Exported, Stands
    <3>7. /\ fclk_exported' = [fclk_exported EXCEPT ![i] = FALSE]
          /\ Dropped(i) /\ fdata' = [fdata EXCEPT ![i] = "null"]
          /\ devs' = RemoveFirst(devs, i) /\ oops' = oops
      BY <1>3, <3>6 DEF xdevcfg_fclk_remove
    <3>8. \A j : j \in ToSet(devs') <=> j \in ToSet(devs) /\ j # i
      BY <3>1, <3>7, DeviceRemoved DEF FclkType
    <3>9. Elsewhere(i) /\ Phase("idle", i)'
      BY <3>1, <3>4, <3>7, <3>8 DEF Dropped, Elsewhere, Phase, Unused, Exported, Stands,
                                    FclkType
    <3>10. \A j \in Fclks : Phase("idle", j)'
      BY <3>3, <3>9, StandsStill
    <3>11. Accounts' /\ Alone'
      BY <2>1, <3>2, <3>10 DEF Accounts, Alone
    <3>12. Held'
      BY <2>1, <3>1 DEF Held
    <3> QED BY <3>1, <3>7, <3>11, <3>12
  <2> QED BY <2>1, <2>2, <2>3 DEF FclkInv
<1>4. CASE RemoveRest
  <2>1. UNCHANGED <<place, clkof, fclk_exported, devs, fdata, enabled, prepared, running, oops,
                    excused>>
    BY <1>4 DEF RemoveRest, clocks
  <2>2. FclkType'
    BY <2>1 DEF FclkInv, FclkType
  <2>3. ASSUME excused = {} PROVE ~oops' /\ Alone' /\ Held' /\ Accounts'
    <3>1. ~oops /\ Alone /\ Held /\ Accounts
      BY <2>3 DEF FclkInv
    <3>2. Alone' /\ Accounts'
      BY <2>1, <3>1 DEF Alone, Accounts, Phase, Unused, Exported, Stands
    <3>3. Held'
      BY <1>4, <2>1, <3>1 DEF RemoveRest, Held
    <3> QED BY <2>1, <3>1, <3>2, <3>3
  <2> QED BY <2>1, <2>2, <2>3 DEF FclkInv
<1> QED BY <1>1, <1>2, <1>3, <1>4

LEMMA FclkInvInit == FclkInit => FclkInv
<1> SUFFICES ASSUME FclkInit PROVE FclkInv
  OBVIOUS
<1>1. FclkType
  BY DEF FclkInit, FclkType, Once
<1>2. ToSet(devs) = {}
  BY DEF FclkInit, ToSet
<1>3. Accounts
  BY <1>2 DEF FclkInit, Accounts, Phase, Unused, Exported, Stands
<1>4. ~oops /\ Alone /\ Held
  BY DEF FclkInit, Alone, Held
<1> QED BY <1>1, <1>3, <1>4 DEF FclkInv

LEMMA FclkInvNext ==
    ASSUME FclkInv, [FclkNext]_fclk_vars
    PROVE  FclkInv'
<1>1. ASSUME NEW t \in Writers, FclkStep(t) PROVE FclkInv'
  <2>1. excused' = {} => excused = {}
    BY <1>1 DEF FclkStep, xdevcfg_fclk_export_flag, xdevcfg_fclk_export_create,
         xdevcfg_fclk_export_finish, xdevcfg_fclk_unexport_find,
         xdevcfg_fclk_unexport_drop, xdevcfg_fclk_unexport_unregister,
         fclk_enable_store, fclk_rate
  <2> QED BY <1>1, <2>1, FclkTypeStep, FclkInvStep DEF FclkInv
<1>2. ASSUME NEW t \in Writers, NEW i \in Fclks,
             BeginExport(t, i) \/ BeginUnexport(t, i) \/ BeginRate(t, i)
               \/ \E v \in BOOLEAN : BeginEnable(t, i, v)
      PROVE  FclkInv'
  <2>1. PICK at \in OnExport \cup OnFile : Begin(t, i, at)
    BY <1>2 DEF BeginExport, BeginUnexport, BeginRate, BeginEnable, OnExport,
                OnFile
  <2>2. excused' = {} => excused = {}
    BY <2>1 DEF Begin
  <2>3. FclkType'
    BY <2>1, FclkTypeBegin DEF FclkInv
  <2> QED BY <1>2, <2>2, <2>3, FclkBegin DEF FclkInv
<1>3. CASE UNCHANGED fclk_vars
  <2>1. UNCHANGED <<place, clkof, driver, res, fclk_exported, devs, fdata, enabled, prepared,
                    running, oops, excused>>
    BY <1>3 DEF fclk_vars, clocks
  <2> QED BY <2>1 DEF FclkInv, FclkType, Alone, Held, Accounts, Phase, Unused, Exported, Stands
<1> QED BY <1>1, <1>2, <1>3, FclkDriver DEF FclkNext

\* However many threads export, unexport, enable and remove the clocks: unless calls on
\* one clock or a call and remove overlapped, or a step failed half way, no call follows
\* a NULL or freed pointer, every clock about which no call is under way is prepared and
\* running as its files say, and an unbound driver holds only the references to the
\* clocks.
THEOREM ClocksAreBalanced == FclkSpec => []Balanced
<1>1. FclkInv => Balanced
  <2> SUFFICES ASSUME FclkInv, excused = {} PROVE Balanced
    BY DEF Balanced
  <2>1. FclkType /\ ~oops /\ Held /\ Accounts
    BY DEF FclkInv
  <2>2. ASSUME NEW i \in Fclks, Quiet(i)
        PROVE  /\ prepared[i] = (IF fclk_exported[i] THEN 1 ELSE 0)
               /\ running[i] = (IF fclk_exported[i] /\ enabled[i] THEN 1 ELSE 0)
    <3>1. Unused(i) \/ Exported(i)
      BY <2>1, <2>2 DEF Accounts, Phase, Quiet
    <3> QED BY <3>1 DEF Unused, Exported, Stands
  <2>3. ASSUME driver = "unbound" PROVE res \subseteq {"fclks"} /\ devs = << >>
    <3>1. \A i \in Fclks : ~fclk_exported[i] /\ Phase("idle", i)
      BY <2>1, <2>3 DEF Held, Accounts
    <3>2. \A i \in Fclks : i \notin ToSet(devs)
      BY <3>1 DEF Phase, Unused, Exported, Stands
    <3>3. devs = << >>
      <4>1. devs \in Seq(Fclks) /\ Len(devs) \in Nat /\ DOMAIN devs = 1 .. Len(devs)
        BY <2>1 DEF FclkType
      <4>2. \A k \in 1 .. Len(devs) : FALSE
        BY <3>2, <4>1 DEF ToSet
      <4> QED BY <4>1, <4>2
    <3> QED BY <2>1, <2>3, <3>3 DEF Held
  <2> QED BY <2>1, <2>2, <2>3 DEF Balanced
<1> QED BY <1>1, FclkInvInit, FclkInvNext, PTL DEF FclkSpec
=============================================================================
