---------------------------- MODULE EventStream ----------------------------
(* What the read-out promises: within a session the program prints the     *)
(* 32-bit words the FPGA produced, in the order they were produced, with   *)
(* none skipped, repeated or replaced.  The k-th word of a session is      *)
(* represented by the number k.  How the words travel (an AXI burst        *)
(* writer, a ring in DDR, a status register sampled on an interrupt) is    *)
(* the business of ReadoutRing, which is shown to implement this module.   *)
EXTENDS Naturals, Sequences

VARIABLES produced,  \* 64-bit words the FPGA stored in this session
          printed    \* 32-bit words the program decoded, in order

Init == produced = 0 /\ printed = <<>>

\* The FPGA stores one more 64-bit word, i.e. two 32-bit ones.
Produce == produced' = produced + 1 /\ UNCHANGED printed

\* The program decodes the next 32-bit word.
Consume ==
    /\ Len(printed) < 2 * produced
    /\ printed' = Append(printed, Len(printed) + 1)
    /\ UNCHANGED produced

\* The program ends and a new session starts from nothing.
NewSession == produced' = 0 /\ printed' = <<>>

Next == Produce \/ Consume \/ NewSession

Spec == Init /\ [][Next]_<<produced, printed>>
=============================================================================
