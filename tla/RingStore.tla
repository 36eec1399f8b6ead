----------------------------- MODULE RingStore -----------------------------
(* What the read-out program relies on from the memory writer: the n-th    *)
(* 64-bit word of a session is stored in slot n modulo the size of the     *)
(* ring, and the status register counts the words stored.  ReadoutRing's   *)
(* WriteWord is this module's Store; RamWriter implements it clock by      *)
(* clock.                                                                  *)
EXTENDS Naturals

CONSTANT WRAP        \* slots of the ring

VARIABLES addr,      \* the status register
          cells,     \* slot -> number of the word it holds, 0 for none
          stored     \* words stored in this session

Empty == [s \in 0 .. WRAP - 1 |-> 0]

Init == addr = 0 /\ cells = Empty /\ stored = 0

Store ==
    /\ cells' = [cells EXCEPT ![addr] = stored + 1]
    /\ addr' = IF addr = WRAP - 1 THEN 0 ELSE addr + 1
    /\ stored' = stored + 1

\* The writer is put in reset; the next session starts from slot 0.
Reset == addr' = 0 /\ cells' = Empty /\ stored' = 0

Next == Store \/ Reset

Spec == Init /\ [][Next]_<<addr, cells, stored>>
=============================================================================
