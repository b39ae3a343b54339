----------------------------- MODULE MCBatchSink ------------------------------
(* Two good keys in partitions of their own and one rejected key.             *)
EXTENDS BatchSink

MCKeys == {"k1", "k2", "bad"}
MCBad == {"bad"}
MCPartOf == [k \in MCKeys |-> IF k = "k1" THEN 1 ELSE 2]
==============================================================================
