----------------------------- MODULE GuiSessions ------------------------------
(***************************************************************************)
(* The Panel GUI (frontend/): one set of components per browser session,   *)
(* wired by create_main_layout, and one StreamCallbackHandler shared by    *)
(* all sessions.  The server runs every click, every periodic callback and *)
(* every end of a session to its end before the next, and a watcher runs   *)
(* inside the assignment that triggers it, but only if the value changed:  *)
(* an action is one event with the whole cascade of watchers behind it.    *)
(***************************************************************************)
EXTENDS Integers, Sequences, FiniteSets, Functions

CONSTANTS Sessions,     \* browser sessions
          Csv,          \* rows of the ticker file: [symbol, cap], in order
          TopN,         \* ten in the code
          Upper,        \* what upper() makes of each word a user may type
          ManualTexts   \* texts in the manual field, as sequences of words

VARIABLES open,         \* per session: its document exists
          selector,     \* TickerSelector
          dropdown,     \* TickerDropdown
          table,        \* TickerInfoTable and its periodic callback
          controls,     \* StreamControls
          chart,        \* ChartCallbackHandler
          shared        \* the singleton stream_callback_handler

vars == <<open, selector, dropdown, table, controls, chart, shared>>

Words == DOMAIN Upper
Symbols == {Csv[i].symbol : i \in DOMAIN Csv}
Modes == {"Alle S&P 500", "Top 10", "Manuell"}
Types == {"Sekunden", "Minuten"}
NoTicker == ""
NoStream == ""

ASSUME GuiAssumption ==
    /\ Csv \in Seq([symbol : STRING \ {NoTicker}, cap : Int])
    /\ TopN \in Nat
    /\ ManualTexts \subseteq Seq(Words)

\* What a figure without rows holds, and one whose rows have no price at all.
NoPlot == [symbol |-> NoTicker, stream |-> NoStream]
Blank == [symbol |-> NoTicker, stream |-> "unpriced"]

\* "second" if ... == "Sekunden" else "minute"
StreamOf(type) == IF type = "Sekunden" THEN "second" ELSE "minute"

------------------------------------------------------------------------------
\* The positions in P from the first to the last of the order "before".
InOrder(P, before) ==
    [k \in 1 .. Cardinality(P) |->
        CHOOSE p \in P : Cardinality({q \in P : <<q, p>> \in before}) = k - 1]

\* TickerLoader: the file, and the file by market capitalisation.
AllSymbols == [i \in DOMAIN Csv |-> Csv[i].symbol]
Larger == {p \in (DOMAIN Csv) \X (DOMAIN Csv) :
              \/ Csv[p[1]].cap > Csv[p[2]].cap
              \/ Csv[p[1]].cap = Csv[p[2]].cap /\ p[1] < p[2]}
Top10Symbols ==
    [k \in {n \in DOMAIN Csv : n <= TopN} |->
        Csv[InOrder(DOMAIN Csv, Larger)[k]].symbol]
TickersBySymbols(symbols) == Symbols \cap Range(symbols)

LeftToRight(P) == {p \in P \X P : p[1] < p[2]}

\* Mutant: unknown words are reported but kept.
EveryWord(text) == [i \in DOMAIN text |-> Upper[text[i]]]

\* _apply_manual: unknown words are left out; order and repetitions stay.
Known(text) == {i \in DOMAIN text : Upper[text[i]] \in Symbols}
ValidSymbols(text) ==
    [k \in 1 .. Cardinality(Known(text)) |->
        Upper[text[InOrder(Known(text), LeftToRight(Known(text)))[k]]]]

\* get_latest_price_info: the symbols that have a row in stock_agg_second, none
\* when the query fails.
PriceInfo(symbols) == SUBSET Range(symbols)

\* Mutant: an inner join with the priced symbols.
InnerJoinRows(symbols, priced) == TickersBySymbols(symbols) \cap priced

\* _update_table: the rows of the file for the selection, as a set; the prices
\* the query found are joined from the left, so that no row depends on them.
TableRows(symbols, priced) ==
    IF symbols = <<>> THEN {} ELSE TickersBySymbols(symbols)
RowsShown(symbols) == {TableRows(symbols, priced) : priced \in PriceInfo(symbols)}

------------------------------------------------------------------------------
\* What get_latest_data is asked for by _fetch_and_update.
Query(c) == [symbol |-> c.symbol, stream |-> c.stream]

\* Its answers, an empty frame also after a failed query: in "gaps" every row
\* lacks some price, in "nulls" all prices are NULL.
Answers == {"none", "gaps", "nulls", "rows"}

\* Mutant: a frame without rows only changes the title.
CandlesKept(figure, query, answer) ==
    [title |-> query.symbol,
     data |-> IF answer = "rows" THEN query ELSE figure.data]

\* CandlestickChart.update: rising and falling candles, or neither of them when
\* no complete row is left.
CandlesUpdated(figure, query, answer) ==
    [title |-> query.symbol, data |-> IF answer = "rows" THEN query ELSE NoPlot]

\* LineChart.update plots the rows as they come, then subtracts the first opening
\* from the last closing price for the title: None - None raises, and
\* _fetch_and_update swallows it.
LineUpdated(figure, query, answer) ==
    IF answer = "nulls" THEN [figure EXCEPT !.data = Blank]
    ELSE [title |-> query.symbol,
          data |-> IF answer = "none" THEN NoPlot ELSE query]

\* Mutant: a ticker that is shown already is not fetched again.
FetchedOnce(c) ==
    IF c.symbol \in {NoTicker, c.figure.title} THEN {c}
    ELSE {[c EXCEPT !.figure = CandlesUpdated(@, Query(c), a)] : a \in Answers}

\* _fetch_and_update: the active chart shows the answer, or half of it.
Fetched(c) ==
    IF c.symbol = NoTicker THEN {c}
    ELSE {[c EXCEPT !.figure = IF c.kind = "Candlestick"
                               THEN CandlesUpdated(@, Query(c), a)
                               ELSE LineUpdated(@, Query(c), a)] : a \in Answers}

WithSymbol(c, symbol) == Fetched([c EXCEPT !.symbol = symbol])

Kinds == {"Candlestick", "Linie"}
NewFigure == [title |-> NoTicker, data |-> NoPlot]

\* set_chart_type puts the other figure into the pane and fetches for it.  What
\* that figure held is overwritten at once, or nothing was ever plotted; its old
\* title, which may stay over a line without prices, can be any ticker's.
Titles == Symbols \cup {NoTicker}
Exchanged(c, kind) ==
    UNION {Fetched([c EXCEPT !.kind = kind, !.figure = [NewFigure EXCEPT !.title = old]])
             : old \in IF c.symbol = NoTicker THEN {NoTicker} ELSE Titles}

WithStream(c, type) == [c EXCEPT !.stream = StreamOf(type)]
\* start_periodic_update and stop_periodic_update, of chart and table
WithTimer(c, running) == [c EXCEPT !.timer = running]

NewChart == [symbol |-> NoTicker, stream |-> "second", timer |-> FALSE,
             kind |-> "Candlestick", figure |-> NewFigure]

\* _update_options: an empty selection leaves the plotted ticker alone.
WithOptions(d, symbols) ==
    IF symbols = d.available THEN d
    ELSE [available |-> symbols,
          ticker |-> IF symbols = <<>> THEN d.ticker ELSE Head(symbols)]

\* StreamCallbackHandler.on_stream_start, on_stream_stop and on_shutdown
SharedStart(type, tickers) == [type |-> StreamOf(type), tickers |-> tickers]
SharedIdle == [type |-> NoStream, tickers |-> <<>>]

------------------------------------------------------------------------------
NewSelector == [mode |-> "Top 10", selected |-> Top10Symbols]
NewDropdown == [available |-> <<>>, ticker |-> NoTicker]
NewTable == [symbols |-> <<>>, rows |-> {}, timer |-> FALSE]
NewControls == [type |-> "Sekunden", streaming |-> FALSE]

Init == /\ open = [s \in Sessions |-> FALSE]
        /\ selector = [s \in Sessions |-> NewSelector]
        /\ dropdown = [s \in Sessions |-> NewDropdown]
        /\ table = [s \in Sessions |-> NewTable]
        /\ controls = [s \in Sessions |-> NewControls]
        /\ chart = [s \in Sessions |-> NewChart]
        /\ shared = SharedIdle

\* create_main_layout, with the components a closed session has left behind
\* replaced by new ones.  The selector fills its list in __init__, before
\* anybody watches it; the "Top 10" assigned at the end is the default again.
Open(s) ==
    /\ ~open[s]
    /\ open' = [open EXCEPT ![s] = TRUE]
    /\ UNCHANGED <<selector, dropdown, table, controls, chart, shared>>

\* _on_plot_ticker_changed, watching the dropdown's ticker
PlotTickerChanged(s, d) ==
    IF d.ticker = dropdown[s].ticker THEN chart' = chart
    ELSE \E c \in WithSymbol(chart[s], d.ticker) : chart' = [chart EXCEPT ![s] = c]

\* _on_selection_changed: dropdown, with the watcher behind it, then table
SelectionChanged(s, symbols) ==
    LET d == WithOptions(dropdown[s], symbols) IN
    /\ dropdown' = [dropdown EXCEPT ![s] = d]
    /\ PlotTickerChanged(s, d)
    /\ \E rows \in RowsShown(symbols) :
         table' = [table EXCEPT ![s] = [@ EXCEPT !.symbols = symbols, !.rows = rows]]

\* The assignment of selected_symbols, watched for a change of its value.
Select(s, mode, symbols) ==
    /\ selector' = [selector EXCEPT ![s] = [mode |-> mode, selected |-> symbols]]
    /\ IF symbols = selector[s].selected THEN UNCHANGED <<dropdown, table, chart>>
       ELSE SelectionChanged(s, symbols)
    /\ UNCHANGED <<open, controls, shared>>

\* _on_mode_change: a click on the mode that is set already changes nothing.
ChooseMode(s, mode) ==
    /\ open[s] /\ mode # selector[s].mode
    /\ Select(s, mode, CASE mode = "Alle S&P 500" -> AllSymbols
                         [] mode = "Top 10" -> Top10Symbols
                         [] OTHER -> selector[s].selected)

\* on_apply; its button is visible in manual mode only, an empty field does
\* nothing.
ApplyManual(s, text) ==
    /\ open[s] /\ selector[s].mode = "Manuell" /\ text # <<>>
    /\ Select(s, "Manuell", ValidSymbols(text))

\* _on_select
ChooseTicker(s, ticker) ==
    /\ open[s]
    /\ ticker \in Range(dropdown[s].available) /\ ticker # dropdown[s].ticker
    /\ dropdown' = [dropdown EXCEPT ![s].ticker = ticker]
    /\ PlotTickerChanged(s, dropdown'[s])
    /\ UNCHANGED <<open, selector, table, controls, shared>>

\* on_chart_type_change: candlesticks or a line
ChangeKind(s) ==
    /\ open[s]
    /\ \E kind \in Kinds \ {chart[s].kind} :
         \E c \in Exchanged(chart[s], kind) : chart' = [chart EXCEPT ![s] = c]
    /\ UNCHANGED <<open, selector, dropdown, table, controls, shared>>

------------------------------------------------------------------------------
\* on_stream_start: without tickers the updates are refused.
StartUpdates(s) ==
    IF selector[s].selected = <<>> THEN UNCHANGED <<shared, chart, table>>
    ELSE /\ shared' = SharedStart(controls[s].type, selector[s].selected)
         /\ chart' = [chart EXCEPT ![s] =
                        WithTimer(WithStream(@, controls[s].type), TRUE)]
         /\ table' = [table EXCEPT ![s] = WithTimer(@, TRUE)]

\* _start_stream calls the stream active before its watcher looks for tickers.
Start(s) ==
    /\ open[s] /\ ~controls[s].streaming
    /\ controls' = [controls EXCEPT ![s].streaming = TRUE]
    /\ StartUpdates(s)
    /\ UNCHANGED <<open, selector, dropdown>>

\* on_stream_stop, for the chart as it is by then
StopUpdates(s, c) ==
    /\ chart' = [chart EXCEPT ![s] = WithTimer(c, FALSE)]
    /\ table' = [table EXCEPT ![s] = WithTimer(@, FALSE)]
    /\ shared' = SharedIdle

\* _stop_stream
Stop(s) ==
    /\ open[s] /\ controls[s].streaming
    /\ controls' = [controls EXCEPT ![s].streaming = FALSE]
    /\ StopUpdates(s, chart[s])
    /\ UNCHANGED <<open, selector, dropdown>>

\* The toggle's two watchers: on_stream_type_change first, then
\* _on_type_change, which stops an active stream.
ToggleType(s, type) ==
    LET c == WithStream(chart[s], type) IN
    /\ open[s] /\ type # controls[s].type
    /\ controls' = [controls EXCEPT ![s] = [type |-> type, streaming |-> FALSE]]
    /\ IF controls[s].streaming THEN StopUpdates(s, c)
       ELSE chart' = [chart EXCEPT ![s] = c] /\ UNCHANGED <<table, shared>>
    /\ UNCHANGED <<open, selector, dropdown>>

------------------------------------------------------------------------------
\* The chart's periodic callback, every two seconds.
ChartTick(s) ==
    /\ chart[s].timer
    /\ UNCHANGED <<open, selector, dropdown, table, controls, shared>>
    /\ \E c \in Fetched(chart[s]) : chart' = [chart EXCEPT ![s] = c]

\* The table's, every ten seconds, and its refresh button.
RefreshTable(s) ==
    /\ open[s]
    /\ \E rows \in RowsShown(table[s].symbols) : table' = [table EXCEPT ![s].rows = rows]
    /\ UNCHANGED <<open, selector, dropdown, controls, chart, shared>>

\* Mutant: the timers of a session outlive it.
CloseKeepsTimers(s) ==
    /\ open[s]
    /\ open' = [open EXCEPT ![s] = FALSE]
    /\ shared' = SharedIdle
    /\ UNCHANGED <<selector, dropdown, table, controls, chart>>

\* Mutant: the shared handler is not told of the end of a session.
CloseKeepsReport(s) ==
    /\ open[s]
    /\ open' = [open EXCEPT ![s] = FALSE]
    /\ selector' = [selector EXCEPT ![s] = NewSelector]
    /\ dropdown' = [dropdown EXCEPT ![s] = NewDropdown]
    /\ table' = [table EXCEPT ![s] = NewTable]
    /\ controls' = [controls EXCEPT ![s] = NewControls]
    /\ chart' = [chart EXCEPT ![s] = NewChart]
    /\ UNCHANGED shared

\* on_session_destroyed: both timers stop, the shared handler is told, and the
\* components of the session are gone.
Close(s) ==
    /\ open[s]
    /\ open' = [open EXCEPT ![s] = FALSE]
    /\ selector' = [selector EXCEPT ![s] = NewSelector]
    /\ dropdown' = [dropdown EXCEPT ![s] = NewDropdown]
    /\ table' = [table EXCEPT ![s] = NewTable]
    /\ controls' = [controls EXCEPT ![s] = NewControls]
    /\ chart' = [chart EXCEPT ![s] = NewChart]
    /\ shared' = SharedIdle

Click(s) == \/ \E mode \in Modes : ChooseMode(s, mode)
            \/ \E text \in ManualTexts : ApplyManual(s, text)
            \/ \E ticker \in Symbols : ChooseTicker(s, ticker)
            \/ ChangeKind(s) \/ Start(s) \/ Stop(s)
            \/ \E type \in Types : ToggleType(s, type)

Next == \E s \in Sessions :
            Open(s) \/ Click(s) \/ ChartTick(s) \/ RefreshTable(s) \/ Close(s)

\* The server's event loop runs a periodic callback until it is stopped.
Spec == Init /\ [][Next]_vars /\ \A s \in Sessions : WF_vars(ChartTick(s))

------------------------------------------------------------------------------
Plots == [symbol : Symbols, stream : {"second", "minute"}] \cup {NoPlot, Blank}
Figures == [title : Titles, data : Plots]
Selectors == [mode : Modes, selected : Seq(Symbols)]
Dropdowns == [available : Seq(Symbols), ticker : Symbols \cup {NoTicker}]
Tables == [symbols : Seq(Symbols), rows : SUBSET Symbols, timer : BOOLEAN]
Controls == [type : Types, streaming : BOOLEAN]
Charts == [symbol : Symbols \cup {NoTicker}, stream : {"second", "minute"},
           timer : BOOLEAN, kind : Kinds, figure : Figures]
Reports == [type : {"second", "minute", NoStream}, tickers : Seq(Symbols)]

TypeOK ==
    /\ open \in [Sessions -> BOOLEAN]
    /\ selector \in [Sessions -> Selectors]
    /\ dropdown \in [Sessions -> Dropdowns]
    /\ table \in [Sessions -> Tables]
    /\ controls \in [Sessions -> Controls]
    /\ chart \in [Sessions -> Charts]
    /\ shared \in Reports

\* Once a change of the selection has reached the views, dropdown and table
\* hold exactly the selection, every selected ticker has its row, with or
\* without a price, and the plotted ticker is one of the selected ones unless
\* nothing is selected (_on_selection_changed, _update_options, _update_table).
ViewsFollowSelection ==
    \A s \in Sessions : open[s] /\ dropdown[s].available # <<>> =>
        /\ dropdown[s].available = selector[s].selected
        /\ table[s].rows = Range(selector[s].selected)
        /\ dropdown[s].ticker \in Range(selector[s].selected)

\* The visible figure never shows the prices of another ticker than the one in
\* the dropdown and is titled with it, whichever of the two figures is in the
\* pane and whatever the data base answers; only over a line without any price
\* the title may be an old one (set_symbol, set_chart_type and the periodic
\* callback all end in _fetch_and_update; LineChart.update stops between its
\* source and its title when all prices are NULL).
VisibleFigureIsPlotTicker ==
    \A s \in Sessions : open[s] =>
        /\ \/ chart[s].figure.title = dropdown[s].ticker
           \/ chart[s].figure.data = Blank
        /\ chart[s].figure.data \notin {NoPlot, Blank} =>
               chart[s].figure.data.symbol = dropdown[s].ticker

\* Periodic callbacks run in pairs, and only in a live session whose controls
\* say that it streams: none is left behind by a toggle, a refused start or the
\* end of the session.
TimersOnlyWhileStreaming ==
    \A s \in Sessions : chart[s].timer \/ table[s].timer =>
        /\ open[s] /\ controls[s].streaming
        /\ chart[s].timer /\ table[s].timer

\* The stream that get_health of the shared handler reports is one that some
\* live session really shows, although every session overwrites the report.
ReportedStreamIsShown ==
    shared.type # NoStream =>
        \E s \in Sessions : /\ open[s] /\ chart[s].timer
                            /\ StreamOf(controls[s].type) = shared.type
                            /\ chart[s].stream = shared.type

\* While updates run, what the visible figure shows comes to be the ticker and
\* the table that are chosen, also when the type was changed while nothing was
\* fetched; a line without any price need not get its title.
FigureCatchesUp ==
    \A s \in Sessions :
        chart[s].timer /\ chart[s].symbol # NoTicker
            ~> \/ ~chart[s].timer
               \/ chart[s].figure.data = Blank
               \/ /\ chart[s].figure.title = chart[s].symbol
                  /\ chart[s].figure.data \in {NoPlot, Query(chart[s])}

------------------------------------------------------------------------------
\* Not kept by the code: TLC refutes each of these (README, "Disagreements").

\* "Aktualisiert den Line Chart mit neuen Daten.": the title names the ticker in
\* the dropdown.
TitleNamesTicker ==
    \A s \in Sessions : open[s] => chart[s].figure.title = dropdown[s].ticker

\* "TickerDropdown wird mit verfuegbaren Tickern befuellt": a session that
\* streams has a ticker to plot.
StreamingShowsTicker ==
    \A s \in Sessions : open[s] /\ chart[s].timer => chart[s].symbol # NoTicker

\* "Ist ein Stream aktiv?": the controls call a stream active only when the
\* updates run.
ActiveMeansUpdating ==
    \A s \in Sessions : open[s] /\ controls[s].streaming => chart[s].timer

\* get_health reports a stream as long as some session shows one.
ShownStreamIsReported ==
    (\E s \in Sessions : open[s] /\ chart[s].timer) => shared.type # NoStream
==============================================================================
