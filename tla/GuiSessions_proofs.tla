--------------------------- MODULE GuiSessions_proofs --------------------------
(***************************************************************************)
(* Type correctness and the four safety properties of the browser sessions *)
(* for any number of sessions, any ticker file and any typed texts.        *)
(*                                                                         *)
(* Good is what holds of the components of one session, open or not; an    *)
(* action changes one session, so Good of that session is all there is to  *)
(* show.  The lists of tickers come out of InOrder, whose CHOOSE has a     *)
(* witness because ranks in a strict total order are a bijection.          *)
(***************************************************************************)
EXTENDS GuiSessions, FiniteSetTheorems, SequenceTheorems, TLAPS

LEMMA BlankIsPlotted == NoPlot # Blank
<1>1. NoPlot.stream = "" /\ Blank.stream = "unpriced"
  BY DEF NoPlot, Blank, NoStream
<1>2. "" # "unpriced"
  OBVIOUS
<1> QED
  BY <1>1, <1>2

\* A figure with title and prices of a ticker, or with no price at all.
Shows(fig, ticker) ==
    /\ fig.title = ticker \/ fig.data = Blank
    /\ fig.data \notin {NoPlot, Blank} => fig.data.symbol = ticker

\* The visible figure belongs to the chart's symbol, and that is the dropdown's.
FigureGood(d, c) == c.symbol = d.ticker /\ Shows(c.figure, c.symbol)

\* The timers run in pairs, while the controls of a live session say so.
TimersGood(o, t, k, c) ==
    c.timer \/ t.timer => o /\ k.streaming /\ c.timer /\ t.timer

\* The views hold the selection, and so does what the table is refreshed from.
ViewsGood(sel, d, t) ==
    d.available # <<>> =>
        /\ d.available = sel.selected
        /\ t.symbols = sel.selected
        /\ t.rows = Range(sel.selected)
        /\ d.ticker \in Range(sel.selected)

Good(o, sel, d, t, k, c) ==
    FigureGood(d, c) /\ TimersGood(o, t, k, c) /\ ViewsGood(sel, d, t)

SessionInv(s) ==
    Good(open[s], selector[s], dropdown[s], table[s], controls[s], chart[s])

IInv == TypeOK /\ (\A s \in Sessions : SessionInv(s)) /\ ReportedStreamIsShown
------------------------------------------------------------------------------
StrictOrder(P, before) ==
    /\ \A p \in P : <<p, p>> \notin before
    /\ \A p, q, r \in P :
         <<p, q>> \in before /\ <<q, r>> \in before => <<p, r>> \in before
    /\ \A p, q \in P : p # q => <<p, q>> \in before \/ <<q, p>> \in before

\* Ranks in a strict order number its members, so that InOrder lists members.
LEMMA InOrderLists ==
    ASSUME NEW P, IsFiniteSet(P), NEW before, StrictOrder(P, before)
    PROVE  /\ Cardinality(P) \in Nat
           /\ InOrder(P, before) \in [1 .. Cardinality(P) -> P]
<1> DEFINE n == Cardinality(P)
           Below(p) == {q \in P : <<q, p>> \in before}
           rank == [p \in P |-> Cardinality(Below(p)) + 1]
<1>1. n \in Nat
  BY FS_CardinalityType
<1>2. \A p \in P : IsFiniteSet(Below(p)) /\ Cardinality(Below(p)) \in Nat
  <2> SUFFICES ASSUME NEW p \in P
               PROVE  IsFiniteSet(Below(p)) /\ Cardinality(Below(p)) \in Nat
    OBVIOUS
  <2>1. Below(p) \in SUBSET P
    OBVIOUS
  <2>2. IsFiniteSet(Below(p))
    <3> HIDE DEF Below
    <3> QED
      BY <2>1, FS_Subset
  <2> HIDE DEF Below
  <2> QED
    BY <2>2, FS_CardinalityType
<1>3. \A p \in P : Cardinality(Below(p)) < n
  <2> SUFFICES ASSUME NEW p \in P
               PROVE  Cardinality(Below(p)) < n
    OBVIOUS
  <2>1. Below(p) \in SUBSET P /\ p \notin Below(p)
    BY DEF StrictOrder
  <2>2. Cardinality(Below(p)) <= n /\ (Cardinality(Below(p)) = n => P = Below(p))
    <3> HIDE DEF Below
    <3> QED
      BY <2>1, FS_Subset
  <2>3. Cardinality(Below(p)) # n
    BY <2>1, <2>2
  <2>4. Cardinality(Below(p)) \in Nat
    BY <1>2
  <2> HIDE DEF Below
  <2> QED
    BY <1>1, <2>2, <2>3, <2>4
<1>4. ASSUME NEW p \in P, NEW q \in P, <<p, q>> \in before
      PROVE  Cardinality(Below(p)) < Cardinality(Below(q))
  <2>1. Below(p) \in SUBSET Below(q) /\ p \in Below(q) /\ p \notin Below(p)
    BY <1>4 DEF StrictOrder
  <2>2. IsFiniteSet(Below(q)) /\ Cardinality(Below(q)) \in Nat
        /\ Cardinality(Below(p)) \in Nat
    BY <1>2
  <2> HIDE DEF Below
  <2>3. Cardinality(Below(p)) <= Cardinality(Below(q))
        /\ (Cardinality(Below(q)) = Cardinality(Below(p)) => Below(q) = Below(p))
    BY <2>1, <2>2, FS_Subset
  <2> QED
    BY <2>1, <2>2, <2>3
<1>5. rank \in [P -> 1 .. n]
  <2> HIDE DEF Below, n
  <2> QED
    BY <1>1, <1>2, <1>3
<1>6. rank \in Injection(P, 1 .. n)
  <2>1. ASSUME NEW p \in P, NEW q \in P, rank[p] = rank[q], p # q
        PROVE  FALSE
    <3>1. <<p, q>> \in before \/ <<q, p>> \in before
      BY <2>1 DEF StrictOrder
    <3>2. Cardinality(Below(p)) = Cardinality(Below(q))
          /\ Cardinality(Below(p)) \in Nat /\ Cardinality(Below(q)) \in Nat
      <4>1. Cardinality(Below(p)) + 1 = Cardinality(Below(q)) + 1
        BY <2>1
      <4> HIDE DEF Below
      <4> QED
        BY <1>2, <4>1
    <3> HIDE DEF Below
    <3> QED
      BY <1>4, <3>1, <3>2
  <2> HIDE DEF rank
  <2> QED
    BY <1>5, <2>1 DEF Injection, IsInjective
<1>7. rank \in Surjection(P, 1 .. n)
  <2>1. IsFiniteSet(1 .. n) /\ Cardinality(1 .. n) = n
    BY <1>1, FS_Interval
  <2> HIDE DEF rank
  <2> QED
    BY <1>6, <2>1, FS_Injection
<1>8. ASSUME NEW k \in 1 .. n
      PROVE  \E p \in P : Cardinality(Below(p)) = k - 1
  <2>1. PICK p \in P : rank[p] = k
    <3> HIDE DEF rank
    <3> QED
      BY <1>7 DEF Surjection
  <2>2. Cardinality(Below(p)) + 1 = k /\ Cardinality(Below(p)) \in Nat
    BY <1>2, <2>1
  <2> HIDE DEF Below
  <2> QED
    BY <2>2
<1>9. ASSUME NEW k \in 1 .. n
      PROVE  (CHOOSE p \in P : Cardinality(Below(p)) = k - 1) \in P
  <2> DEFINE Ranked(p) == Cardinality(Below(p)) = k - 1
  <2>1. \E p \in P : Ranked(p)
    BY <1>8
  <2>2. (CHOOSE p \in P : Ranked(p)) \in P
    <3> HIDE DEF Ranked
    <3> QED
      BY <2>1
  <2> QED
    BY <2>2
<1> QED
  BY <1>1, <1>9 DEF InOrder
------------------------------------------------------------------------------
\* A function over an initial segment of the numbers is a sequence.
LEMMA SegmentIsSeq ==
    ASSUME NEW S, NEW n \in Nat, NEW f \in [1 .. n -> S]
    PROVE  f \in Seq(S)
BY SeqDef

LEMMA SegmentSize ==
    ASSUME NEW n \in Nat
    PROVE  IsFiniteSet(1 .. n) /\ Cardinality(1 .. n) = n
BY FS_Interval

\* What the ticker file says of its rows.
LEMMA CsvRows ==
    /\ Len(Csv) \in Nat /\ DOMAIN Csv = 1 .. Len(Csv)
    /\ \A i \in DOMAIN Csv : /\ Csv[i].symbol \in Symbols
                             /\ Csv[i].symbol # NoTicker
                             /\ Csv[i].cap \in Int
<1> DEFINE Row == [symbol : STRING \ {NoTicker}, cap : Int]
<1>1. Csv \in Seq(Row)
  BY GuiAssumption
<1>2. \A i \in 1 .. Len(Csv) : Csv[i] \in Row
  <2> HIDE DEF Row
  <2> QED
    BY <1>1
<1>3. Len(Csv) \in Nat /\ DOMAIN Csv = 1 .. Len(Csv)
  <2> HIDE DEF Row
  <2> QED
    BY <1>1
<1>4. ASSUME NEW i \in DOMAIN Csv
      PROVE  Csv[i].symbol # NoTicker /\ Csv[i].cap \in Int
  <2>1. Csv[i] \in Row
    BY <1>2, <1>3
  <2> QED
    BY <2>1
<1>5. \A i \in DOMAIN Csv : Csv[i].symbol \in Symbols
  BY DEF Symbols
<1> QED
  BY <1>3, <1>4, <1>5

LEMMA SymbolsAreNoTicker == NoTicker \notin Symbols
BY CsvRows DEF Symbols

LEMMA AllSymbolsType == AllSymbols \in Seq(Symbols)
<1>1. AllSymbols \in [1 .. Len(Csv) -> Symbols] /\ Len(Csv) \in Nat
  BY CsvRows DEF AllSymbols
<1> QED
  BY <1>1, SegmentIsSeq

\* Ties in the capitalisation are broken by the place in the file, so the rows
\* are strictly ordered.
LEMMA LargerIsStrict == StrictOrder(DOMAIN Csv, Larger)
<1> DEFINE D == DOMAIN Csv
           cap(i) == Csv[i].cap
<1>1. \A i \in D : cap(i) \in Int /\ i \in Int
  BY CsvRows
<1>2. \A i, j \in D : <<i, j>> \in Larger
                        <=> cap(i) > cap(j) \/ (cap(i) = cap(j) /\ i < j)
  BY DEF Larger
<1> HIDE DEF D, cap
<1> SUFFICES StrictOrder(D, Larger)
  BY DEF D
<1> QED
  BY <1>1, <1>2 DEF StrictOrder

LEMMA Top10SymbolsType == Top10Symbols \in Seq(Symbols)
<1> DEFINE D == DOMAIN Csv
           places == InOrder(D, Larger)
           m == IF TopN <= Len(Csv) THEN TopN ELSE Len(Csv)
<1>1. Len(Csv) \in Nat /\ D = 1 .. Len(Csv) /\ TopN \in Nat
  BY CsvRows, GuiAssumption
<1>2. IsFiniteSet(D) /\ Cardinality(D) = Len(Csv)
  <2>1. IsFiniteSet(1 .. Len(Csv)) /\ Cardinality(1 .. Len(Csv)) = Len(Csv)
    BY <1>1, SegmentSize
  <2> HIDE DEF D
  <2> QED
    BY <1>1, <2>1
<1>3. places \in [1 .. Len(Csv) -> D]
  <2> HIDE DEF D
  <2> QED
    BY <1>2, LargerIsStrict, InOrderLists DEF D
<1>4. m \in Nat /\ {n \in D : n <= TopN} = 1 .. m /\ 1 .. m \subseteq D
  BY <1>1
<1>5. Top10Symbols = [k \in 1 .. m |-> Csv[places[k]].symbol]
  BY <1>4 DEF Top10Symbols
<1>6. \A k \in 1 .. m : Csv[places[k]].symbol \in Symbols
  <2> HIDE DEF places, m
  <2> QED
    BY <1>1, <1>3, <1>4, CsvRows
<1> HIDE DEF places, m
<1>7. Top10Symbols \in [1 .. m -> Symbols]
  BY <1>5, <1>6
<1> QED
  BY <1>4, <1>7, SegmentIsSeq

\* Only known words are selected.
LEMMA ValidSymbolsType ==
    ASSUME NEW text \in ManualTexts
    PROVE  ValidSymbols(text) \in Seq(Symbols)
<1> DEFINE P == Known(text)
           n == Cardinality(P)
           places == InOrder(P, LeftToRight(P))
<1>1. P \in SUBSET (1 .. Len(text)) /\ Len(text) \in Nat
  BY GuiAssumption DEF Known
<1>2. IsFiniteSet(P)
  <2>1. IsFiniteSet(1 .. Len(text))
    BY <1>1, FS_Interval
  <2> HIDE DEF P
  <2> QED
    BY <1>1, <2>1, FS_Subset
<1>3. StrictOrder(P, LeftToRight(P))
  <2> HIDE DEF P
  <2>1. \A i \in P : i \in Int
    BY <1>1
  <2> QED
    BY <2>1 DEF StrictOrder, LeftToRight
<1>4. n \in Nat /\ places \in [1 .. n -> P]
  <2> HIDE DEF P
  <2> QED
    BY <1>2, <1>3, InOrderLists
<1>5. \A i \in P : Upper[text[i]] \in Symbols
  BY DEF Known
<1>6. ValidSymbols(text) = [k \in 1 .. n |-> Upper[text[places[k]]]]
  BY DEF ValidSymbols
<1> HIDE DEF P, n, places
<1>7. ValidSymbols(text) \in [1 .. n -> Symbols]
  BY <1>4, <1>5, <1>6
<1> QED
  BY <1>4, <1>7, SegmentIsSeq
------------------------------------------------------------------------------
\* The chart's methods.

\* A fetch shows the chart's symbol, whatever the data base answers, and changes
\* nothing but the figure.
LEMMA FetchedShows ==
    ASSUME NEW c \in Charts, NEW e \in Fetched(c)
    PROVE  /\ e \in Charts
           /\ e.symbol = c.symbol /\ e.stream = c.stream
           /\ e.timer = c.timer /\ e.kind = c.kind
           /\ c.symbol # NoTicker => Shows(e.figure, c.symbol)
           /\ c.symbol = NoTicker => e = c
<1>1. CASE c.symbol = NoTicker
  BY <1>1 DEF Fetched
<1>2. CASE c.symbol # NoTicker
  <2> DEFINE q == Query(c)
  <2>1. q \in Plots /\ q.symbol = c.symbol /\ NoPlot \in Plots /\ Blank \in Plots
    BY <1>2 DEF Query, Plots, Charts
  <2>2. PICK fig : /\ e = [c EXCEPT !.figure = fig]
                   /\ fig \in {[title |-> q.symbol, data |-> q],
                               [title |-> q.symbol, data |-> NoPlot],
                               [c.figure EXCEPT !.data = Blank]}
    <3> HIDE DEF q
    <3>1. PICK a \in Answers :
            e = [c EXCEPT !.figure = IF c.kind = "Candlestick"
                                     THEN CandlesUpdated(@, q, a)
                                     ELSE LineUpdated(@, q, a)]
      BY <1>2 DEF Fetched, q
    <3>2. \A fig : /\ CandlesUpdated(fig, q, a) \in
                         {[title |-> q.symbol, data |-> q],
                          [title |-> q.symbol, data |-> NoPlot]}
                   /\ LineUpdated(fig, q, a) \in
                         {[title |-> q.symbol, data |-> q],
                          [title |-> q.symbol, data |-> NoPlot],
                          [fig EXCEPT !.data = Blank]}
      BY DEF CandlesUpdated, LineUpdated
    <3> QED
      BY <3>1, <3>2 DEF Charts
  <2>3. fig \in Figures /\ Shows(fig, c.symbol)
    <3>1. c.symbol \in Symbols /\ c.figure \in Figures
      BY <1>2 DEF Charts
    <3>2. CASE fig = [title |-> q.symbol, data |-> q]
      <4> HIDE DEF q
      <4> QED
        BY <2>1, <3>1, <3>2 DEF Figures, Titles, Shows
    <3>3. CASE fig = [title |-> q.symbol, data |-> NoPlot]
      <4> HIDE DEF q
      <4> QED
        BY <2>1, <3>1, <3>3 DEF Figures, Titles, Shows
    <3>4. CASE fig = [c.figure EXCEPT !.data = Blank]
      <4> HIDE DEF q
      <4> QED
        BY <2>1, <3>1, <3>4 DEF Figures, Shows
    <3> HIDE DEF q
    <3> QED
      BY <2>2, <3>2, <3>3, <3>4
  <2>4. e \in Charts /\ e.figure = fig /\ e.symbol = c.symbol
        /\ e.stream = c.stream /\ e.timer = c.timer /\ e.kind = c.kind
    <3> HIDE DEF q
    <3> QED
      BY <2>2, <2>3 DEF Charts
  <2> QED
    BY <1>2, <2>3, <2>4
<1> QED
  BY <1>1, <1>2

\* set_symbol, for a ticker of the file.
LEMMA WithSymbolShows ==
    ASSUME NEW c \in Charts, NEW ticker \in Symbols,
           NEW e \in WithSymbol(c, ticker)
    PROVE  /\ e \in Charts /\ e.timer = c.timer /\ e.stream = c.stream
           /\ e.symbol = ticker /\ Shows(e.figure, ticker)
<1> DEFINE b == [c EXCEPT !.symbol = ticker]
<1>1. b \in Charts /\ b.symbol = ticker /\ b.timer = c.timer
      /\ b.stream = c.stream
  BY DEF Charts
<1>2. e \in Fetched(b)
  BY DEF WithSymbol
<1>3. ticker # NoTicker
  BY SymbolsAreNoTicker
<1> HIDE DEF b
<1> QED
  BY <1>1, <1>2, <1>3, FetchedShows

\* set_chart_type, whatever title the other figure had.
LEMMA ExchangedShows ==
    ASSUME NEW c \in Charts, Shows(c.figure, c.symbol),
           NEW kind \in Kinds, NEW e \in Exchanged(c, kind)
    PROVE  /\ e \in Charts /\ e.timer = c.timer /\ e.stream = c.stream
           /\ e.symbol = c.symbol /\ Shows(e.figure, c.symbol)
<1> DEFINE fig(old) == [NewFigure EXCEPT !.title = old]
           b(old) == [c EXCEPT !.kind = kind, !.figure = fig(old)]
<1>1. PICK old \in Titles : /\ e \in Fetched(b(old))
                            /\ c.symbol = NoTicker => old = NoTicker
  BY DEF Exchanged, Titles
<1>2. /\ fig(old) \in Figures /\ fig(old).title = old
      /\ fig(old).data = NoPlot
  BY DEF NewFigure, Figures, Plots
<1>3. NoPlot # Blank
  BY BlankIsPlotted
<1> HIDE DEF fig
<1>4. b(old) \in Charts /\ b(old).symbol = c.symbol /\ b(old).timer = c.timer
      /\ b(old).stream = c.stream /\ b(old).figure = fig(old)
  BY <1>2 DEF Charts
<1> HIDE DEF b
<1>5. CASE c.symbol = NoTicker
  <2>1. e = b(old) /\ old = NoTicker
    BY <1>1, <1>4, <1>5, FetchedShows
  <2>2. Shows(e.figure, c.symbol)
    BY <1>2, <1>4, <1>5, <2>1 DEF Shows
  <2> QED
    BY <1>4, <2>1, <2>2
<1>6. CASE c.symbol # NoTicker
  BY <1>1, <1>4, <1>6, FetchedShows
<1> QED
  BY <1>5, <1>6

\* set_stream_type and the periodic callback leave the figure alone.
LEMMA StreamAndTimerFields ==
    ASSUME NEW c \in Charts
    PROVE  /\ \A type \in Types :
                /\ WithStream(c, type) \in Charts
                /\ WithStream(c, type).stream = StreamOf(type)
                /\ WithStream(c, type).timer = c.timer
                /\ WithStream(c, type).symbol = c.symbol
                /\ WithStream(c, type).figure = c.figure
           /\ \A running \in BOOLEAN :
                /\ WithTimer(c, running) \in Charts
                /\ WithTimer(c, running).stream = c.stream
                /\ WithTimer(c, running).timer = running
                /\ WithTimer(c, running).symbol = c.symbol
                /\ WithTimer(c, running).figure = c.figure
<1>1. \A type \in Types : StreamOf(type) \in {"second", "minute"}
  BY DEF StreamOf, Types
<1> QED
  BY <1>1 DEF WithStream, WithTimer, Charts

\* The table's timer.
LEMMA TableTimerFields ==
    ASSUME NEW t \in Tables, NEW running \in BOOLEAN
    PROVE  /\ WithTimer(t, running) \in Tables
           /\ WithTimer(t, running).timer = running
           /\ WithTimer(t, running).symbols = t.symbols
           /\ WithTimer(t, running).rows = t.rows
BY DEF WithTimer, Tables

\* The rows of a selection of tickers of the file are just these.
LEMMA RowsOfSelection ==
    ASSUME NEW symbols \in Seq(Symbols), NEW priced
    PROVE  TableRows(symbols, priced) = Range(symbols)
<1>1. Range(symbols) \subseteq Symbols
  <2>1. \A i \in DOMAIN symbols : symbols[i] \in Symbols
    OBVIOUS
  <2> QED
    BY <2>1 DEF Range
<1>2. CASE symbols = <<>>
  <2>1. DOMAIN symbols = {}
    BY <1>2
  <2>2. Range(symbols) = {}
    BY <2>1 DEF Range
  <2> QED
    BY <1>2, <2>2 DEF TableRows
<1>3. CASE symbols # <<>>
  BY <1>1, <1>3 DEF TableRows, TickersBySymbols
<1> QED
  BY <1>2, <1>3

\* The ticker that _update_options chooses is the first of the new list.
LEMMA OptionsTicker ==
    ASSUME NEW d \in Dropdowns, NEW symbols \in Seq(Symbols)
    PROVE  /\ WithOptions(d, symbols) \in Dropdowns
           /\ WithOptions(d, symbols).available = symbols
           /\ \/ WithOptions(d, symbols).ticker = d.ticker
              \/ WithOptions(d, symbols).ticker \in Symbols
           /\ symbols # <<>> /\ symbols # d.available =>
                  WithOptions(d, symbols).ticker \in Range(symbols)
<1>1. symbols # <<>> => Head(symbols) \in Range(symbols) \cap Symbols
  <2> SUFFICES ASSUME symbols # <<>>
               PROVE  Head(symbols) \in Range(symbols) \cap Symbols
    OBVIOUS
  <2>1. Head(symbols) = symbols[1] /\ 1 \in DOMAIN symbols
        /\ symbols[1] \in Symbols
    OBVIOUS
  <2> QED
    BY <2>1 DEF Range
<1>2. CASE symbols = d.available
  BY <1>2 DEF WithOptions
<1>3. CASE symbols # d.available /\ symbols = <<>>
  BY <1>3 DEF WithOptions, Dropdowns
<1>4. CASE symbols # d.available /\ symbols # <<>>
  BY <1>1, <1>4 DEF WithOptions, Dropdowns
<1> QED
  BY <1>2, <1>3, <1>4
------------------------------------------------------------------------------
\* One step of one session.

Becomes(s, o, sel, d, t, k, c) ==
    /\ open' = [open EXCEPT ![s] = o]
    /\ selector' = [selector EXCEPT ![s] = sel]
    /\ dropdown' = [dropdown EXCEPT ![s] = d]
    /\ table' = [table EXCEPT ![s] = t]
    /\ controls' = [controls EXCEPT ![s] = k]
    /\ chart' = [chart EXCEPT ![s] = c]

\* Why the report stays true: it is withdrawn, it is about s, or it is as before
\* and s does not stop showing it.
ReportKept(s, o, k, c, report) ==
    \/ report.type = NoStream
    \/ /\ o /\ c.timer
       /\ StreamOf(k.type) = report.type /\ c.stream = report.type
    \/ /\ report = shared
       /\ open[s] /\ chart[s].timer =>
              /\ o /\ c.timer /\ c.stream = chart[s].stream
              /\ k.type = controls[s].type

LEMMA SessionStep ==
    ASSUME IInv, NEW s \in Sessions,
           NEW o \in BOOLEAN, NEW sel \in Selectors, NEW d \in Dropdowns,
           NEW t \in Tables, NEW k \in Controls, NEW c \in Charts,
           NEW report \in Reports,
           Becomes(s, o, sel, d, t, k, c), shared' = report,
           Good(o, sel, d, t, k, c), ReportKept(s, o, k, c, report)
    PROVE  IInv'
<1>1. TypeOK /\ ReportedStreamIsShown /\ \A r \in Sessions : SessionInv(r)
  BY DEF IInv
<1>2. TypeOK'
  BY <1>1 DEF TypeOK, Becomes
<1>3. /\ open'[s] = o /\ selector'[s] = sel /\ dropdown'[s] = d
      /\ table'[s] = t /\ controls'[s] = k /\ chart'[s] = c
  BY <1>1 DEF TypeOK, Becomes
<1>4. ASSUME NEW r \in Sessions, r # s
      PROVE  /\ open'[r] = open[r] /\ selector'[r] = selector[r]
             /\ dropdown'[r] = dropdown[r] /\ table'[r] = table[r]
             /\ controls'[r] = controls[r] /\ chart'[r] = chart[r]
  BY <1>1, <1>4 DEF TypeOK, Becomes
<1>5. ASSUME NEW r \in Sessions
      PROVE  SessionInv(r)'
  <2>1. CASE r = s
    BY <1>3, <2>1 DEF SessionInv
  <2>2. CASE r # s
    <3>1. SessionInv(r)
      BY <1>1
    <3> QED
      BY <1>4, <2>2, <3>1 DEF SessionInv
  <2> QED
    BY <2>1, <2>2
<1>6. ReportedStreamIsShown'
  <2>1. CASE report.type = NoStream
    BY <2>1 DEF ReportedStreamIsShown
  <2>2. CASE /\ o /\ c.timer
             /\ StreamOf(k.type) = report.type /\ c.stream = report.type
    BY <1>3, <2>2 DEF ReportedStreamIsShown
  <2>3. CASE /\ report = shared
             /\ open[s] /\ chart[s].timer =>
                    /\ o /\ c.timer /\ c.stream = chart[s].stream
                    /\ k.type = controls[s].type
    <3> SUFFICES ASSUME shared.type # NoStream
                 PROVE  \E r \in Sessions :
                            /\ open'[r] /\ chart'[r].timer
                            /\ StreamOf(controls'[r].type) = shared.type
                            /\ chart'[r].stream = shared.type
      BY <2>3 DEF ReportedStreamIsShown
    <3>1. PICK r \in Sessions : /\ open[r] /\ chart[r].timer
                                /\ StreamOf(controls[r].type) = shared.type
                                /\ chart[r].stream = shared.type
      BY <1>1 DEF ReportedStreamIsShown
    <3>2. CASE r = s
      <4>1. /\ o /\ c.timer /\ c.stream = chart[s].stream
            /\ k.type = controls[s].type
        BY <2>3, <3>1, <3>2
      <4> QED
        BY <1>3, <3>1, <3>2, <4>1
    <3>3. CASE r # s
      BY <1>4, <3>1, <3>3
    <3> QED
      BY <3>2, <3>3
  <2> QED
    BY <2>1, <2>2, <2>3 DEF ReportKept
<1> QED
  BY <1>2, <1>5, <1>6 DEF IInv

\* What the invariant says of one session.
LEMMA AtSession ==
    ASSUME IInv, NEW s \in Sessions
    PROVE  /\ open[s] \in BOOLEAN /\ selector[s] \in Selectors
           /\ dropdown[s] \in Dropdowns /\ table[s] \in Tables
           /\ controls[s] \in Controls /\ chart[s] \in Charts
           /\ shared \in Reports
           /\ FigureGood(dropdown[s], chart[s])
           /\ TimersGood(open[s], table[s], controls[s], chart[s])
           /\ ViewsGood(selector[s], dropdown[s], table[s])
<1>1. TypeOK /\ SessionInv(s)
  BY DEF IInv
<1> QED
  BY <1>1 DEF TypeOK, SessionInv, Good

\* A component that stays as it is.
LEMMA Stays ==
    ASSUME IInv, NEW s \in Sessions
    PROVE  /\ open = [open EXCEPT ![s] = open[s]]
           /\ selector = [selector EXCEPT ![s] = selector[s]]
           /\ dropdown = [dropdown EXCEPT ![s] = dropdown[s]]
           /\ table = [table EXCEPT ![s] = table[s]]
           /\ controls = [controls EXCEPT ![s] = controls[s]]
           /\ chart = [chart EXCEPT ![s] = chart[s]]
<1>1. TypeOK
  BY DEF IInv
<1> QED
  BY <1>1 DEF TypeOK

\* The components of a new session, and of one that has ended.
LEMMA NewTypes ==
    /\ NewSelector \in Selectors /\ NewDropdown \in Dropdowns
    /\ NewTable \in Tables /\ NewControls \in Controls /\ NewChart \in Charts
    /\ SharedIdle \in Reports /\ SharedIdle.type = NoStream
<1>1. NewSelector \in Selectors
  BY Top10SymbolsType DEF NewSelector, Selectors, Modes
<1>2. NewDropdown \in Dropdowns /\ NewTable \in Tables /\ NewControls \in Controls
  BY DEF NewDropdown, Dropdowns, NewTable, Tables, NewControls, Controls, Types
<1>3. NewChart \in Charts
  BY DEF NewChart, Charts, Kinds, NewFigure, Figures, Titles, Plots
<1>4. SharedIdle \in Reports /\ SharedIdle.type = NoStream
  BY DEF SharedIdle, Reports
<1> QED
  BY <1>1, <1>2, <1>3, <1>4

LEMMA NewIsGood ==
    Good(FALSE, NewSelector, NewDropdown, NewTable, NewControls, NewChart)
BY DEF Good, FigureGood, Shows, TimersGood, ViewsGood, NewDropdown, NewTable,
       NewChart, NewFigure

LEMMA InitIInv == Init => IInv
<1> SUFFICES ASSUME Init PROVE IInv
  OBVIOUS
<1>1. TypeOK
  BY NewTypes DEF Init, TypeOK
<1>2. \A s \in Sessions : SessionInv(s)
  BY NewIsGood DEF Init, SessionInv
<1>3. ReportedStreamIsShown
  BY NewTypes DEF Init, ReportedStreamIsShown
<1> QED
  BY <1>1, <1>2, <1>3 DEF IInv

------------------------------------------------------------------------------
\* The actions.

LEMMA OpenKeeps ==
    ASSUME IInv, NEW s \in Sessions, Open(s)
    PROVE  IInv'
<1>1. Becomes(s, TRUE, selector[s], dropdown[s], table[s], controls[s], chart[s])
      /\ shared' = shared
  BY Stays DEF Open, Becomes
<1>2. Good(TRUE, selector[s], dropdown[s], table[s], controls[s], chart[s])
  BY AtSession DEF Open, Good, TimersGood
<1>3. ReportKept(s, TRUE, controls[s], chart[s], shared)
  BY DEF ReportKept
<1> QED
  BY <1>1, <1>2, <1>3, AtSession, SessionStep

\* The dropdown's ticker and the chart behind it.
LEMMA PlotTickerShows ==
    ASSUME IInv, NEW s \in Sessions, NEW d \in Dropdowns, PlotTickerChanged(s, d),
           d.ticker = dropdown[s].ticker \/ d.ticker \in Symbols
    PROVE  \E c \in Charts : /\ chart' = [chart EXCEPT ![s] = c]
                             /\ FigureGood(d, c)
                             /\ c.timer = chart[s].timer
                             /\ c.stream = chart[s].stream
<1>1. chart[s] \in Charts /\ FigureGood(dropdown[s], chart[s])
  BY AtSession
<1>2. CASE d.ticker = dropdown[s].ticker
  <2>1. chart' = [chart EXCEPT ![s] = chart[s]]
    BY <1>2, Stays DEF PlotTickerChanged
  <2>2. FigureGood(d, chart[s])
    BY <1>1, <1>2 DEF FigureGood
  <2> QED
    BY <1>1, <2>1, <2>2
<1>3. CASE d.ticker # dropdown[s].ticker
  <2>1. PICK c \in WithSymbol(chart[s], d.ticker) : chart' = [chart EXCEPT ![s] = c]
    BY <1>3 DEF PlotTickerChanged
  <2>2. /\ c \in Charts /\ c.timer = chart[s].timer /\ c.stream = chart[s].stream
        /\ c.symbol = d.ticker /\ Shows(c.figure, d.ticker)
    BY <1>1, <1>3, WithSymbolShows
  <2>3. FigureGood(d, c)
    BY <2>2 DEF FigureGood
  <2> QED
    BY <2>1, <2>2, <2>3
<1> QED
  BY <1>2, <1>3

\* A new selection, in dropdown, chart and table.
LEMMA SelectionReachesViews ==
    ASSUME IInv, NEW s \in Sessions, NEW mode \in Modes,
           NEW symbols \in Seq(Symbols), symbols # selector[s].selected,
           SelectionChanged(s, symbols),
           selector' = [selector EXCEPT ![s] = [mode |-> mode, selected |-> symbols]],
           UNCHANGED <<open, controls, shared>>
    PROVE  IInv'
<1> DEFINE sel == [mode |-> mode, selected |-> symbols]
           d == WithOptions(dropdown[s], symbols)
<1>1. sel \in Selectors /\ sel.selected = symbols
  BY DEF Selectors
<1>2. /\ d \in Dropdowns /\ d.available = symbols
      /\ d.ticker = dropdown[s].ticker \/ d.ticker \in Symbols
      /\ symbols # <<>> /\ symbols # dropdown[s].available =>
             d.ticker \in Range(symbols)
  BY AtSession, OptionsTicker
<1>3. dropdown' = [dropdown EXCEPT ![s] = d] /\ PlotTickerChanged(s, d)
  BY DEF SelectionChanged
<1> HIDE DEF d
<1>4. PICK c \in Charts : /\ chart' = [chart EXCEPT ![s] = c]
                          /\ FigureGood(d, c)
                          /\ c.timer = chart[s].timer
                          /\ c.stream = chart[s].stream
  BY <1>2, <1>3, PlotTickerShows
<1>5. PICK rows \in RowsShown(symbols) :
        table' = [table EXCEPT ![s] = [@ EXCEPT !.symbols = symbols, !.rows = rows]]
  BY DEF SelectionChanged
<1> DEFINE t == [table[s] EXCEPT !.symbols = symbols, !.rows = rows]
<1>6. table' = [table EXCEPT ![s] = t]
  BY <1>5
<1>7. /\ t \in Tables /\ t.symbols = symbols /\ t.rows = Range(symbols)
      /\ t.timer = table[s].timer
  <2>1. rows = Range(symbols)
    BY RowsOfSelection DEF RowsShown
  <2>2. Range(symbols) \in SUBSET Symbols
    <3>1. \A i \in DOMAIN symbols : symbols[i] \in Symbols
      OBVIOUS
    <3> QED
      BY <3>1 DEF Range
  <2>3. table[s] \in Tables
    BY AtSession
  <2> QED
    BY <2>1, <2>2, <2>3 DEF Tables
<1> HIDE DEF sel, t
<1>8. symbols # <<>> => symbols # dropdown[s].available
  BY AtSession DEF ViewsGood
<1>9. Good(open[s], sel, d, t, controls[s], c)
  <2>1. ViewsGood(sel, d, t)
    BY <1>1, <1>2, <1>7, <1>8 DEF ViewsGood
  <2>2. TimersGood(open[s], t, controls[s], c)
    BY <1>4, <1>7, AtSession DEF TimersGood
  <2> QED
    BY <1>4, <2>1, <2>2 DEF Good
<1>10. ReportKept(s, open[s], controls[s], c, shared)
  BY <1>4 DEF ReportKept
<1>11. Becomes(s, open[s], sel, d, t, controls[s], c)
  BY <1>3, <1>4, <1>6, Stays DEF Becomes, sel
<1> QED
  BY <1>1, <1>2, <1>4, <1>7, <1>9, <1>10, <1>11, AtSession, SessionStep

LEMMA SelectKeeps ==
    ASSUME IInv, NEW s \in Sessions, NEW mode \in Modes,
           NEW symbols \in Seq(Symbols), Select(s, mode, symbols)
    PROVE  IInv'
<1>1. CASE symbols = selector[s].selected
  <2> DEFINE sel == [mode |-> mode, selected |-> symbols]
  <2>1. sel \in Selectors /\ sel.selected = selector[s].selected
    BY <1>1 DEF Selectors
  <2>2. Becomes(s, open[s], sel, dropdown[s], table[s], controls[s], chart[s])
        /\ shared' = shared
    BY <1>1, Stays DEF Select, Becomes
  <2> HIDE DEF sel
  <2>3. Good(open[s], sel, dropdown[s], table[s], controls[s], chart[s])
    BY <2>1, AtSession DEF Good, ViewsGood
  <2>4. ReportKept(s, open[s], controls[s], chart[s], shared)
    BY DEF ReportKept
  <2> QED
    BY <2>1, <2>2, <2>3, <2>4, AtSession, SessionStep
<1>2. CASE symbols # selector[s].selected
  BY <1>2, SelectionReachesViews DEF Select
<1> QED
  BY <1>1, <1>2

LEMMA ChooseModeKeeps ==
    ASSUME IInv, NEW s \in Sessions, NEW mode \in Modes, ChooseMode(s, mode)
    PROVE  IInv'
<1> DEFINE symbols == CASE mode = "Alle S&P 500" -> AllSymbols
                        [] mode = "Top 10" -> Top10Symbols
                        [] OTHER -> selector[s].selected
<1>1. selector[s].selected \in Seq(Symbols)
  BY AtSession DEF Selectors
<1>2. symbols \in Seq(Symbols)
  <2>1. CASE mode = "Alle S&P 500"
    BY <2>1, AllSymbolsType
  <2>2. CASE mode = "Top 10"
    BY <2>2, Top10SymbolsType
  <2>3. CASE mode \notin {"Alle S&P 500", "Top 10"}
    BY <1>1, <2>3
  <2> QED
    BY <2>1, <2>2, <2>3
<1>3. Select(s, mode, symbols)
  BY DEF ChooseMode
<1> HIDE DEF symbols
<1> QED
  BY <1>2, <1>3, SelectKeeps

LEMMA ApplyManualKeeps ==
    ASSUME IInv, NEW s \in Sessions, NEW text \in ManualTexts, ApplyManual(s, text)
    PROVE  IInv'
BY ValidSymbolsType, SelectKeeps DEF ApplyManual, Modes

LEMMA ChooseTickerKeeps ==
    ASSUME IInv, NEW s \in Sessions, NEW ticker \in Symbols, ChooseTicker(s, ticker)
    PROVE  IInv'
<1> DEFINE d == [dropdown[s] EXCEPT !.ticker = ticker]
<1>1. dropdown[s] \in Dropdowns
  BY AtSession
<1>2. d \in Dropdowns /\ d.ticker = ticker /\ d.available = dropdown[s].available
  BY <1>1 DEF Dropdowns
<1>3. dropdown' = [dropdown EXCEPT ![s] = d] /\ dropdown'[s] = d
  <2>1. dropdown \in [Sessions -> Dropdowns]
    BY DEF IInv, TypeOK
  <2> QED
    BY <2>1 DEF ChooseTicker
<1> HIDE DEF d
<1>4. PlotTickerChanged(s, d)
  BY <1>3 DEF ChooseTicker
<1>5. PICK c \in Charts : /\ chart' = [chart EXCEPT ![s] = c]
                          /\ FigureGood(d, c)
                          /\ c.timer = chart[s].timer
                          /\ c.stream = chart[s].stream
  BY <1>2, <1>4, PlotTickerShows
<1>6. Good(open[s], selector[s], d, table[s], controls[s], c)
  <2>1. ViewsGood(selector[s], d, table[s])
    BY <1>2, AtSession DEF ViewsGood, ChooseTicker
  <2>2. TimersGood(open[s], table[s], controls[s], c)
    BY <1>5, AtSession DEF TimersGood
  <2> QED
    BY <1>5, <2>1, <2>2 DEF Good
<1>7. ReportKept(s, open[s], controls[s], c, shared)
  BY <1>5 DEF ReportKept
<1>8. Becomes(s, open[s], selector[s], d, table[s], controls[s], c)
      /\ shared' = shared
  BY <1>3, <1>5, Stays DEF Becomes, ChooseTicker
<1> QED
  BY <1>2, <1>5, <1>6, <1>7, <1>8, AtSession, SessionStep

\* A step that changes the chart's figure only.
LEMMA FigureKeeps ==
    ASSUME IInv, NEW s \in Sessions, NEW c \in Charts,
           chart' = [chart EXCEPT ![s] = c], FigureGood(dropdown[s], c),
           c.timer = chart[s].timer, c.stream = chart[s].stream,
           UNCHANGED <<open, selector, dropdown, table, controls, shared>>
    PROVE  IInv'
<1>1. Good(open[s], selector[s], dropdown[s], table[s], controls[s], c)
  BY AtSession DEF Good, TimersGood
<1>2. ReportKept(s, open[s], controls[s], c, shared)
  BY DEF ReportKept
<1>3. Becomes(s, open[s], selector[s], dropdown[s], table[s], controls[s], c)
  BY Stays DEF Becomes
<1> QED
  BY <1>1, <1>2, <1>3, AtSession, SessionStep

LEMMA ChangeKindKeeps ==
    ASSUME IInv, NEW s \in Sessions, ChangeKind(s)
    PROVE  IInv'
<1>1. PICK kind \in Kinds \ {chart[s].kind} :
        \E c \in Exchanged(chart[s], kind) : chart' = [chart EXCEPT ![s] = c]
  BY DEF ChangeKind
<1>2. PICK c \in Exchanged(chart[s], kind) : chart' = [chart EXCEPT ![s] = c]
  BY <1>1
<1>3. /\ c \in Charts /\ c.timer = chart[s].timer /\ c.stream = chart[s].stream
      /\ c.symbol = chart[s].symbol /\ Shows(c.figure, chart[s].symbol)
  <2>1. chart[s] \in Charts /\ Shows(chart[s].figure, chart[s].symbol)
    BY AtSession DEF FigureGood
  <2> QED
    BY <2>1, ExchangedShows
<1>4. FigureGood(dropdown[s], c)
  BY <1>3, AtSession DEF FigureGood
<1> QED
  BY <1>2, <1>3, <1>4, FigureKeeps DEF ChangeKind

LEMMA ChartTickKeeps ==
    ASSUME IInv, NEW s \in Sessions, ChartTick(s)
    PROVE  IInv'
<1>1. PICK c \in Fetched(chart[s]) : chart' = [chart EXCEPT ![s] = c]
  BY DEF ChartTick
<1>2. /\ chart[s] \in Charts /\ FigureGood(dropdown[s], chart[s])
  BY AtSession
<1>3. /\ c \in Charts /\ c.timer = chart[s].timer /\ c.stream = chart[s].stream
      /\ c.symbol = chart[s].symbol
      /\ chart[s].symbol # NoTicker => Shows(c.figure, chart[s].symbol)
      /\ chart[s].symbol = NoTicker => c = chart[s]
  BY <1>2, FetchedShows
<1>4. FigureGood(dropdown[s], c)
  BY <1>2, <1>3 DEF FigureGood
<1> QED
  BY <1>1, <1>3, <1>4, FigureKeeps DEF ChartTick

LEMMA StartKeeps ==
    ASSUME IInv, NEW s \in Sessions, Start(s)
    PROVE  IInv'
<1> DEFINE k == [controls[s] EXCEPT !.streaming = TRUE]
           type == controls[s].type
           b == WithStream(chart[s], type)
           c == WithTimer(b, TRUE)
           t == WithTimer(table[s], TRUE)
           report == SharedStart(type, selector[s].selected)
<1>1. type \in Types /\ k \in Controls /\ k.type = type /\ k.streaming = TRUE
  BY AtSession DEF Controls
<1>2. controls' = [controls EXCEPT ![s] = k]
  BY DEF Start
<1>3. /\ c \in Charts /\ c.stream = StreamOf(type) /\ c.timer = TRUE
      /\ c.symbol = chart[s].symbol /\ c.figure = chart[s].figure
  <2>1. chart[s] \in Charts
    BY AtSession
  <2>2. /\ b \in Charts /\ b.stream = StreamOf(type)
        /\ b.symbol = chart[s].symbol /\ b.figure = chart[s].figure
    BY <1>1, <2>1, StreamAndTimerFields
  <2> HIDE DEF b, type
  <2> QED
    BY <2>2, StreamAndTimerFields
<1>4. t \in Tables /\ t.timer = TRUE /\ t.symbols = table[s].symbols
      /\ t.rows = table[s].rows
  BY AtSession, TableTimerFields
<1>5. report \in Reports /\ report.type = StreamOf(type)
  <2>1. selector[s].selected \in Seq(Symbols)
    BY AtSession DEF Selectors
  <2>2. StreamOf(type) \in {"second", "minute", NoStream}
    BY DEF StreamOf
  <2> HIDE DEF type
  <2> QED
    BY <2>1, <2>2 DEF SharedStart, Reports
<1>6. open[s]
  BY DEF Start
<1>7. CASE selector[s].selected = <<>>
  <2>1. Becomes(s, open[s], selector[s], dropdown[s], table[s], k, chart[s])
        /\ shared' = shared
    BY <1>2, <1>7, Stays DEF Start, StartUpdates, Becomes
  <2> HIDE DEF k
  <2>2. Good(open[s], selector[s], dropdown[s], table[s], k, chart[s])
    BY <1>1, AtSession DEF Good, TimersGood
  <2>3. ReportKept(s, open[s], k, chart[s], shared)
    BY <1>1 DEF ReportKept
  <2> QED
    BY <1>1, <2>1, <2>2, <2>3, AtSession, SessionStep
<1>8. CASE selector[s].selected # <<>>
  <2>1. Becomes(s, open[s], selector[s], dropdown[s], t, k, c)
        /\ shared' = report
    BY <1>2, <1>8, Stays DEF Start, StartUpdates, Becomes
  <2> HIDE DEF k, c, t, report, type
  <2>2. Good(open[s], selector[s], dropdown[s], t, k, c)
    <3>1. FigureGood(dropdown[s], c)
      BY <1>3, AtSession DEF FigureGood
    <3>2. TimersGood(open[s], t, k, c)
      BY <1>1, <1>3, <1>4, <1>6 DEF TimersGood
    <3>3. ViewsGood(selector[s], dropdown[s], t)
      BY <1>4, AtSession DEF ViewsGood
    <3> QED
      BY <3>1, <3>2, <3>3 DEF Good
  <2>3. ReportKept(s, open[s], k, c, report)
    BY <1>1, <1>3, <1>5, <1>6 DEF ReportKept
  <2> QED
    BY <1>1, <1>3, <1>4, <1>5, <2>1, <2>2, <2>3, AtSession, SessionStep
<1> QED
  BY <1>7, <1>8

\* on_stream_stop ends both timers and withdraws the report.
LEMMA StopUpdatesKeeps ==
    ASSUME IInv, NEW s \in Sessions, NEW k \in Controls, NEW c \in Charts,
           StopUpdates(s, c), controls' = [controls EXCEPT ![s] = k],
           c.symbol = chart[s].symbol, c.figure = chart[s].figure,
           UNCHANGED <<open, selector, dropdown>>
    PROVE  IInv'
<1> DEFINE e == WithTimer(c, FALSE)
           t == WithTimer(table[s], FALSE)
<1>1. /\ e \in Charts /\ e.timer = FALSE
      /\ e.symbol = chart[s].symbol /\ e.figure = chart[s].figure
  BY StreamAndTimerFields
<1>2. t \in Tables /\ t.timer = FALSE /\ t.symbols = table[s].symbols
      /\ t.rows = table[s].rows
  BY AtSession, TableTimerFields
<1>3. SharedIdle \in Reports /\ SharedIdle.type = NoStream
  BY DEF SharedIdle, Reports
<1>4. Becomes(s, open[s], selector[s], dropdown[s], t, k, e)
      /\ shared' = SharedIdle
  BY Stays DEF StopUpdates, Becomes
<1> HIDE DEF e, t
<1>5. Good(open[s], selector[s], dropdown[s], t, k, e)
  <2>1. FigureGood(dropdown[s], e)
    BY <1>1, AtSession DEF FigureGood
  <2>2. TimersGood(open[s], t, k, e)
    BY <1>1, <1>2 DEF TimersGood
  <2>3. ViewsGood(selector[s], dropdown[s], t)
    BY <1>2, AtSession DEF ViewsGood
  <2> QED
    BY <2>1, <2>2, <2>3 DEF Good
<1>6. ReportKept(s, open[s], k, e, SharedIdle)
  BY <1>3 DEF ReportKept
<1> QED
  BY <1>1, <1>2, <1>3, <1>4, <1>5, <1>6, AtSession, SessionStep

LEMMA StopKeeps ==
    ASSUME IInv, NEW s \in Sessions, Stop(s)
    PROVE  IInv'
<1> DEFINE k == [controls[s] EXCEPT !.streaming = FALSE]
<1>1. k \in Controls
  BY AtSession DEF Controls
<1>2. controls' = [controls EXCEPT ![s] = k]
  BY DEF Stop
<1> HIDE DEF k
<1> QED
  BY <1>1, <1>2, AtSession, StopUpdatesKeeps DEF Stop

LEMMA ToggleTypeKeeps ==
    ASSUME IInv, NEW s \in Sessions, NEW type \in Types, ToggleType(s, type)
    PROVE  IInv'
<1> DEFINE k == [type |-> type, streaming |-> FALSE]
           c == WithStream(chart[s], type)
<1>1. k \in Controls
  BY DEF Controls
<1>2. /\ c \in Charts /\ c.symbol = chart[s].symbol
      /\ c.figure = chart[s].figure /\ c.timer = chart[s].timer
  BY AtSession, StreamAndTimerFields
<1>3. controls' = [controls EXCEPT ![s] = k]
  BY DEF ToggleType
<1>4. CASE controls[s].streaming
  <2>1. StopUpdates(s, c) /\ UNCHANGED <<open, selector, dropdown>>
    BY <1>4 DEF ToggleType
  <2> HIDE DEF k, c
  <2> QED
    BY <1>1, <1>2, <1>3, <2>1, StopUpdatesKeeps
<1>5. CASE ~controls[s].streaming
  <2>1. Becomes(s, open[s], selector[s], dropdown[s], table[s], k, c)
        /\ shared' = shared
    BY <1>5, Stays DEF ToggleType, Becomes
  <2>2. ~chart[s].timer /\ ~table[s].timer
    BY <1>5, AtSession DEF TimersGood
  <2> HIDE DEF k, c
  <2>3. Good(open[s], selector[s], dropdown[s], table[s], k, c)
    BY <1>2, <2>2, AtSession DEF Good, FigureGood, TimersGood
  <2>4. ReportKept(s, open[s], k, c, shared)
    BY <2>2 DEF ReportKept
  <2> QED
    BY <1>1, <1>2, <2>1, <2>3, <2>4, AtSession, SessionStep
<1> QED
  BY <1>4, <1>5

LEMMA RefreshTableKeeps ==
    ASSUME IInv, NEW s \in Sessions, RefreshTable(s)
    PROVE  IInv'
<1>1. table[s] \in Tables /\ table[s].symbols \in Seq(Symbols)
  BY AtSession DEF Tables
<1>2. PICK rows \in RowsShown(table[s].symbols) :
        table' = [table EXCEPT ![s].rows = rows]
  BY DEF RefreshTable
<1> DEFINE t == [table[s] EXCEPT !.rows = rows]
<1>3. rows = Range(table[s].symbols)
  BY <1>1, RowsOfSelection DEF RowsShown
<1>4. rows \in SUBSET Symbols
  <2>1. \A i \in DOMAIN table[s].symbols : table[s].symbols[i] \in Symbols
    BY <1>1
  <2>2. Range(table[s].symbols) \in SUBSET Symbols
    BY <2>1 DEF Range
  <2> QED
    BY <1>3, <2>2
<1>5. table' = [table EXCEPT ![s] = t]
  BY <1>2
<1>6. t \in Tables /\ t.symbols = table[s].symbols /\ t.timer = table[s].timer
      /\ t.rows = Range(table[s].symbols)
  BY <1>1, <1>3, <1>4 DEF Tables
<1>7. Becomes(s, open[s], selector[s], dropdown[s], t, controls[s], chart[s])
      /\ shared' = shared
  BY <1>5, Stays DEF RefreshTable, Becomes
<1> HIDE DEF t
<1>8. Good(open[s], selector[s], dropdown[s], t, controls[s], chart[s])
  <2>1. ViewsGood(selector[s], dropdown[s], t)
    BY <1>6, AtSession DEF ViewsGood
  <2>2. TimersGood(open[s], t, controls[s], chart[s])
    BY <1>6, AtSession DEF TimersGood
  <2> QED
    BY <2>1, <2>2, AtSession DEF Good
<1>9. ReportKept(s, open[s], controls[s], chart[s], shared)
  BY DEF ReportKept
<1> QED
  BY <1>6, <1>7, <1>8, <1>9, AtSession, SessionStep

LEMMA CloseKeeps ==
    ASSUME IInv, NEW s \in Sessions, Close(s)
    PROVE  IInv'
<1>1. /\ NewSelector \in Selectors /\ NewDropdown \in Dropdowns
      /\ NewTable \in Tables /\ NewControls \in Controls /\ NewChart \in Charts
      /\ SharedIdle \in Reports /\ SharedIdle.type = NoStream
  BY NewTypes
<1>2. Becomes(s, FALSE, NewSelector, NewDropdown, NewTable, NewControls, NewChart)
      /\ shared' = SharedIdle
  BY DEF Close, Becomes
<1>3. ReportKept(s, FALSE, NewControls, NewChart, SharedIdle)
  BY <1>1 DEF ReportKept
<1> QED
  BY <1>1, <1>2, <1>3, NewIsGood, SessionStep

LEMMA IInvInductive == IInv /\ [Next]_vars => IInv'
<1> SUFFICES ASSUME IInv, [Next]_vars PROVE IInv'
  OBVIOUS
<1>1. CASE UNCHANGED vars
  BY <1>1 DEF vars, IInv, TypeOK, SessionInv, ReportedStreamIsShown
<1>2. ASSUME NEW s \in Sessions, Click(s)
      PROVE  IInv'
  BY <1>2, ChooseModeKeeps, ApplyManualKeeps, ChooseTickerKeeps, ChangeKindKeeps,
     StartKeeps, StopKeeps, ToggleTypeKeeps DEF Click
<1>3. CASE Next
  BY <1>2, <1>3, OpenKeeps, ChartTickKeeps, RefreshTableKeeps, CloseKeeps DEF Next
<1> QED
  BY <1>1, <1>3

LEMMA SpecIInv == Spec => []IInv
BY InitIInv, IInvInductive, PTL DEF Spec

------------------------------------------------------------------------------
\* Types, for any number of sessions and any ticker file: only tickers of the
\* file are ever selected, offered, listed or plotted.
THEOREM GuiTypeCorrect == Spec => []TypeOK
<1>1. IInv => TypeOK
  BY DEF IInv
<1> QED
  BY <1>1, SpecIInv, PTL

\* Dropdown and table follow the selection of their session, whichever way it
\* was made and whatever the price query returned.
THEOREM ViewsFollowSelectionHolds == Spec => []ViewsFollowSelection
<1>1. IInv => ViewsFollowSelection
  BY DEF IInv, SessionInv, Good, ViewsGood, ViewsFollowSelection
<1> QED
  BY <1>1, SpecIInv, PTL

\* Title and prices of the visible figure are those of the chosen ticker, for
\* every answer of the data base; an old title stays only over a line without any
\* price.
THEOREM VisibleFigureHolds == Spec => []VisibleFigureIsPlotTicker
<1>1. IInv => VisibleFigureIsPlotTicker
  BY DEF IInv, SessionInv, Good, FigureGood, Shows,
     VisibleFigureIsPlotTicker
<1> QED
  BY <1>1, SpecIInv, PTL

\* No timer outlives its stream or its session.
THEOREM TimersOnlyWhileStreamingHolds == Spec => []TimersOnlyWhileStreaming
<1>1. IInv => TimersOnlyWhileStreaming
  BY DEF IInv, SessionInv, Good, TimersGood, TimersOnlyWhileStreaming
<1> QED
  BY <1>1, SpecIInv, PTL

\* What the shared handler reports is shown by a live session, for any number of
\* sessions that overwrite each other's report.
THEOREM ReportedStreamIsShownHolds == Spec => []ReportedStreamIsShown
<1>1. IInv => ReportedStreamIsShown
  BY DEF IInv
<1> QED
  BY <1>1, SpecIInv, PTL
==============================================================================
