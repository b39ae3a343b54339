---------------------------- MODULE MCGuiSessions -----------------------------
(* A file of two tickers that is not sorted by size, the larger one as        *)
(* "Top 10"; a text in small letters that selects the same with an unknown    *)
(* word behind it, and one with nothing but an unknown word.                  *)
EXTENDS GuiSessions, TLC

MCCsv == <<[symbol |-> "A", cap |-> 1], [symbol |-> "B", cap |-> 2]>>
MCUpper == [w \in {"b", "B", "Q"} |-> IF w = "b" THEN "B" ELSE w]
MCTexts == {<<"Q">>, <<"b", "Q">>}
==============================================================================
