---------------------------- MODULE TickerManager -----------------------------
(***************************************************************************)
(* TickerManager (backend/websocket_producer/ticker_manager.py) as one     *)
(* client uses it: set_tickers cleans the list, _subscribe sends it to the *)
(* peer in batches, a lost connection takes the peer's subscriptions with  *)
(* it, _unsubscribe ends them.  The list is set only while no subscription *)
(* is under way (entrypoint.run sets it before any stream starts).         *)
(***************************************************************************)
EXTENDS Integers, Sequences, SequencesExt, FiniteSets

CONSTANTS Raw,        \* spellings a caller may hand in
          Known,      \* ticker_loader.all_symbols, a sequence
          Top10,      \* ticker_loader.top10_symbols, by market capitalisation
          Cleaned,    \* strip().upper(): [Raw -> symbols]
          NoSymbol,   \* the empty string
          Limit,      \* MAX_TICKERS_PER_SUBSCRIBE, 510
          DocumentedLimit, \* what docstrings and test say it is, 100
          MaxList     \* bound of the model: longest list handed in

ASSUME TickerManagerAssumption ==
    /\ DOMAIN Cleaned = Raw
    /\ Known \in Seq(Range(Known))
    /\ Top10 \in Seq(Range(Known))
    /\ NoSymbol \notin Range(Known)
    /\ \A i, j \in DOMAIN Known : i # j => Known[i] # Known[j]
    /\ Limit \in Nat \ {0}
    /\ MaxList \in Nat

VARIABLES active,      \* _active_tickers
          subscribed,  \* _subscribed_tickers
          todo,        \* batches _subscribe has still to send
          peer,        \* what the peer streams on this connection
          received,    \* history: this connection's subscribe messages
          asked        \* history: the list set_tickers has just been handed

vars == <<active, subscribed, todo, peer, received, asked>>

Symbols == Range(Known)

TypeOK == /\ active \in Seq(Symbols)
          /\ subscribed \subseteq Symbols
          /\ todo \in Seq(Seq(Symbols))
          /\ peer \subseteq Symbols
          /\ received \in Seq(Seq(Symbols))
          /\ asked \in Seq(Raw)

\* Mutant: unknown symbols are kept.
ValidUnchecked(list) == [i \in DOMAIN list |-> Cleaned[list[i]]]

\* The first loop of set_tickers: after n of the names, the known ones, cleaned.
Valid(list) ==
    LET valid[n \in 0 .. Len(list)] ==
            IF n = 0 THEN <<>>
            ELSE IF Cleaned[list[n]] \in Symbols
                 THEN Append(valid[n - 1], Cleaned[list[n]])
                 ELSE valid[n - 1]
    IN  valid[Len(list)]

\* Mutant: the last mention counts.
WithoutDuplicatesLast(list) ==
    FoldLeft(LAMBDA seen, t : Append(SelectSeq(seen, LAMBDA u : u # t), t),
             <<>>, list)

\* Its second loop: a symbol is appended unless it is already there.
WithoutDuplicates(list) ==
    LET unique[n \in 0 .. Len(list)] ==
            IF n = 0 THEN <<>>
            ELSE IF list[n] \in Range(unique[n - 1]) THEN unique[n - 1]
                 ELSE Append(unique[n - 1], list[n])
    IN  unique[Len(list)]

\* Mutant: rounded down.
NumBatchesFloor(n) == n \div Limit

\* math.ceil(n / Limit)
NumBatches(n) == (n + Limit - 1) \div Limit

\* get_subscription_batches; get_unsubscribe_params cuts the same way.
Batches(list) ==
    [i \in 1 .. NumBatches(Len(list)) |->
        SubSeq(list, (i - 1) * Limit + 1,
               IF i * Limit < Len(list) THEN i * Limit ELSE Len(list))]

Init == /\ active = <<>> /\ subscribed = {} /\ todo = <<>>
        /\ peer = {} /\ received = <<>> /\ asked = <<>>

SetTickers(list) ==
    /\ todo = <<>>
    /\ asked' = list
    /\ active' = WithoutDuplicates(Valid(list))
    /\ UNCHANGED <<subscribed, todo, peer, received>>

\* set_all_sp500 and set_top10 take a list of the loader unchecked.
SetLoaderList(list) ==
    /\ todo = <<>>
    /\ active' = list
    /\ asked' = <<>>
    /\ UNCHANGED <<subscribed, todo, peer, received>>

SetAllSp500 == SetLoaderList(Known)
SetTop10 == SetLoaderList(Top10)

\* _subscribe on a new connection; without batches it returns at once.
BeginSubscribe ==
    /\ todo = <<>> /\ peer = {} /\ active # <<>>
    /\ todo' = Batches(active)
    /\ received' = <<>>
    /\ asked' = <<>>
    /\ UNCHANGED <<active, subscribed, peer>>

\* Mutant: only the last batch is marked.
SendBatchMarksLast ==
    /\ todo # <<>>
    /\ peer' = peer \cup Range(Head(todo))
    /\ received' = Append(received, Head(todo))
    /\ todo' = Tail(todo)
    /\ \/ todo' # <<>> /\ UNCHANGED subscribed
       \/ todo' = <<>> /\ subscribed' = subscribed \cup Range(Head(todo))
    /\ asked' = <<>>
    /\ UNCHANGED active

\* After the last batch, with no suspension in between, the active tickers are
\* marked as subscribed.
SendBatch ==
    /\ todo # <<>>
    /\ peer' = peer \cup Range(Head(todo))
    /\ received' = Append(received, Head(todo))
    /\ todo' = Tail(todo)
    /\ \/ todo' # <<>> /\ UNCHANGED subscribed
       \/ todo' = <<>> /\ subscribed' = subscribed \cup Range(active)
    /\ asked' = <<>>
    /\ UNCHANGED active

\* The connection is lost, during _subscribe or later.
ConnectionLost ==
    /\ peer' = {} /\ todo' = <<>> /\ received' = <<>>
    /\ asked' = <<>>
    /\ UNCHANGED <<active, subscribed>>

\* _unsubscribe, called by stop() at any moment: one message per batch of the
\* set, which is then cleared.  The order in which Python lists the set does
\* not matter.  stop() closes the connection next.
Unsubscribe ==
    /\ peer' = peer \ UNION {Range(b) : b \in Range(Batches(SetToSeq(subscribed)))}
    /\ subscribed' = {}
    /\ asked' = <<>>
    /\ UNCHANGED <<active, todo, received>>

Next == \/ \E list \in SeqOf(Raw, MaxList) : SetTickers(list)
        \/ SetAllSp500 \/ SetTop10
        \/ BeginSubscribe \/ SendBatch
        \/ ConnectionLost \/ Unsubscribe

Spec == Init /\ [][Next]_vars

------------------------------------------------------------------------------
\* "Duplikate entfernen, Reihenfolge beibehalten": a list set by set_tickers
\* holds every known symbol asked for, once, at the rank of its first mention.
FirstMention(list, t) == CHOOSE i \in DOMAIN list :
                            /\ Cleaned[list[i]] = t
                            /\ \A j \in 1 .. i - 1 : Cleaned[list[j]] # t

SetTickersKeepsFirstMentions ==
    [][ asked' # <<>> =>
          /\ Range(active') = {Cleaned[asked'[i]] : i \in DOMAIN asked'} \cap Symbols
          /\ \A i, j \in DOMAIN active' :
                i < j => FirstMention(asked', active'[i])
                            < FirstMention(asked', active'[j]) ]_vars

\* When the last batch is out, the peer has been sent every active ticker
\* exactly once and in order, in messages within the limit of the code, none of
\* them empty: the cut into batches loses and repeats nothing at its edges.
EveryTickerSentOnce ==
    [][ todo # <<>> /\ todo' = <<>> /\ received' # <<>> =>
          /\ FlattenSeq(received') = active
          /\ \A i \in DOMAIN received' : Len(received'[i]) \in 1 .. Limit ]_vars

\* Between two subscriptions, what stop() would unsubscribe covers everything
\* the peer streams, whatever lists were set and connections lost since: the
\* parameters come from the set of marked tickers and not from the list that is
\* active now.
UnsubscribeCovers == todo = <<>> => peer \subseteq subscribed

------------------------------------------------------------------------------
\* What the repository says of the program and the code does not keep: TLC
\* refutes this (README, "Disagreements").

\* "Batching notwendig bei >100 Tickern", and the test that wants three batches
\* of 250 tickers ("100 + 100 + 50"): no message holds more than a hundred.
BatchesOfHundred == \A i \in DOMAIN received : Len(received[i]) <= DocumentedLimit
==============================================================================
