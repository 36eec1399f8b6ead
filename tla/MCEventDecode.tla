--------------------------- MODULE MCEventDecode ---------------------------
(* EventDecode with the constants of a configuration file.                 *)
EXTENDS EventDecode

\* The register of the GPS time: never written since the bitstream was loaded,
\* two times of day, and bytes that are none.
MCTimeBytes == {[h |-> 0, m |-> 0, s |-> 0], [h |-> 1, m |-> 1, s |-> 1],
                [h |-> 2, m |-> 1, s |-> 0], [h |-> 4, m |-> 3, s |-> 0]}
=============================================================================
