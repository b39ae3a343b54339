--------------------------- MODULE MCTickerManager ----------------------------
(* TickerManager with three listed symbols, two spellings of one of them, an  *)
(* unknown name and a blank.                                                  *)
EXTENDS TickerManager

MCRaw == {"aapl", " AAPL ", "MSFT", "BRK.B", "XYZ", " "}
MCKnown == <<"AAPL", "MSFT", "BRK.B">>
MCTop10 == <<"MSFT", "AAPL">>
MCCleaned == [r \in MCRaw |-> CASE r \in {"aapl", " AAPL "} -> "AAPL"
                                 [] r = " " -> ""
                                 [] OTHER -> r]
==============================================================================
