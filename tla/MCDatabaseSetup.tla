---------------------------- MODULE MCDatabaseSetup ----------------------------
(* Two settings and files that overlap, repeat a symbol, are missing or lack   *)
(* a column.                                                                   *)
EXTENDS DatabaseSetup

Of(s, v) == [symbol |-> s, value |-> v]
MCCsvs == {<<Of("a", 1), Of("b", 1)>>, <<Of("b", 2), Of("b", 1)>>, <<>>, Broken}
MCDemoData == <<Of("a", 2), Of("b", 2)>>
MCSettings == {[chunk |-> 1, retention |-> 2, compression |-> 1],
               [chunk |-> 1, retention |-> 3, compression |-> 2]}
==============================================================================
