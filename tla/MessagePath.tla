------------------------------ MODULE MessagePath ------------------------------
(***************************************************************************)
(* The way of an aggregate from the frame in which it arrives to the table *)
(* of its stream: MessageParser.parse and _process_message of the client,  *)
(* the topic of its event type, and the micro-batches of the second and    *)
(* the minute job (parse, validate, deduplicate, filter OTC, quality       *)
(* check), which filter again by rules of their own.  Transport to Kafka   *)
(* and the writes of a batch are modelled in KafkaProducer and BatchSink.  *)
(*                                                                         *)
(* Numbers are integers: prices, volumes and times stand for their order,  *)
(* NaN and infinity are integers above all others.  An item that is not a  *)
(* dict has the event "none", one without a known event but with a status  *)
(* the event "status".  "readable" says that all required fields are there *)
(* and convert to numbers, "typed" that they are JSON numbers of the types *)
(* in AGGREGATE_SECOND_SCHEMA rather than texts that convert; n stands for *)
(* the optional whole numbers av, z and n.                                 *)
(***************************************************************************)
EXTENDS Integers, Sequences, FiniteSets

CONSTANTS Items,      \* items the server may send
          Frames,     \* frames it may send; <<>> is also text that is no JSON
          Tradeable,  \* symbols that match ^[A-Z\.]{1,10}$
          MaxPrice, MaxVolume,    \* limits, the same for parser and checker
          NaN, Infinite,
          Delay,      \* watermark_delay_second, watermark_delay_minute
          Tolerance,  \* one minute
          MaxAge,     \* two days
          MaxOffsets, \* maxOffsetsPerTrigger
          MaxFrames, MaxNow   \* bounds of the model: frames and clock

Kinds == {"second", "minute"}
Null == -1

ItemRecords == [ev : {"A", "AM", "status", "heartbeat", "none", "unhashable"},
                sym : STRING, o : Int, h : Int, l : Int, c : Int, v : Int,
                vw : Int, n : Int, s : Int, e : Int, otc : BOOLEAN,
                readable : BOOLEAN, typed : BOOLEAN]

ASSUME PathAssumption ==
    /\ Items \subseteq ItemRecords /\ Frames \subseteq Seq(Items)
    /\ Delay \in [Kinds -> Nat] /\ Tolerance \in Nat /\ MaxAge \in Nat
    /\ MaxOffsets \in Nat \ {0} /\ MaxFrames \in Nat /\ MaxNow \in Nat
    /\ MaxPrice \in Nat /\ MaxVolume \in Nat
    /\ NaN \in Nat /\ NaN > 2 * MaxPrice /\ Infinite > MaxVolume

VARIABLES parser,    \* _total_parsed, _total_valid, _total_invalid, _total_status
          raised,    \* frames given up by an exception that _listen catches
          failed,    \* _total_errors of the producer, without late reports
          frames,    \* frames received
          sending,   \* produce_batch: the frame, and where it goes on
          topic,     \* per kind: the messages in Kafka
          started,   \* the kinds whose query was ever started
          offset,    \* per kind: up to where the query has come
          skipped,   \* history, per kind: messages before it that it never read
          watermark, \* per kind: event time below which rows are late
          seen,      \* per kind: the keys in Spark's state of dropDuplicates
          passed,    \* per kind: positions of the rows dropDuplicates let through
          stored,    \* per kind: positions given to write_batch
          rejected,  \* per kind: positions given to write_rejected
          now        \* the clock

client == <<parser, raised, failed, frames, sending>>
read == <<started, offset, skipped>>
query == <<watermark, seen, passed, stored, rejected>>

vars == <<client, topic, read, query, now>>

------------------------------------------------------------------------------
\* Python's comparison: none holds of NaN.
Less(x, y) == x # NaN /\ y # NaN /\ x < y

Prices(i) == {i.o, i.h, i.l, i.c}

\* The first two rules of _validate_prices and the last one.
InLimits(i) == /\ \A p \in Prices(i) : ~(Less(p, 0) \/ p = 0) /\ ~Less(MaxPrice, p)
               /\ 0 <= i.v /\ i.v <= MaxVolume

\* Mutant: the closing price may be above the highest.
ValidHighest(i) == /\ InLimits(i)
                   /\ ~Less(i.h, i.l) /\ ~Less(i.h, i.o)
                   /\ \A p \in Prices(i) : ~Less(p, i.l)

\* _validate_prices: every rule names what it refuses.
ValidPrices(i) == /\ InLimits(i)
                  /\ \A p \in Prices(i) : ~Less(i.h, p) /\ ~Less(p, i.l)

\* The item has what _parse_aggregate converts, and meets its rules.
Converts(i) == i.ev \in {"A", "AM"} /\ i.sym # "" /\ i.readable
MeetsRules(i) == ValidPrices(i) /\ i.s > 0 /\ i.e > 0 /\ i.e >= i.s

\* "ev" as a list cannot be looked up in a set; int() of an infinite float
\* raises OverflowError, which _parse_aggregate does not catch, nor _safe_int for
\* the optional fields of an item that has met the rules.
Raises(i) == \/ i.ev = "unhashable"
             \/ Converts(i) /\ Infinite \in {i.v, i.s, i.e}
             \/ Converts(i) /\ MeetsRules(i) /\ i.n = Infinite

\* _parse_aggregate
Accepted(i) == Converts(i) /\ MeetsRules(i) /\ ~Raises(i)

\* What parse does with an item that raises nothing; a message without a known
\* event is ignored.
Outcome(i) == CASE i.ev = "none"         -> "no dict"
                [] i.ev \in {"A", "AM"}  -> IF Accepted(i) THEN "valid" ELSE "invalid"
                [] i.ev = "status"       -> "status"
                [] OTHER                 -> "ignored"

\* The items parse gets to: all of them, or those before one that raises.
Reached(frame) == {p \in DOMAIN frame : \A q \in 1 .. p : ~Raises(frame[q])}
Complete(frame) == Reached(frame) = DOMAIN frame
Count(frame, outcome) ==
    Cardinality({p \in Reached(frame) : Outcome(frame[p]) = outcome})

\* Mutant: an item that is not a dict is counted as a valid one.
ParsedAnything(t, frame) ==
    [parsed |-> t.parsed + (IF Complete(frame) THEN Len(frame) ELSE 0),
     valid |-> t.valid + Count(frame, "valid") + Count(frame, "no dict"),
     invalid |-> t.invalid + Count(frame, "invalid"),
     status |-> t.status + Count(frame, "status")]

\* The totals after parse; what is no dict is counted for the frame alone.
Parsed(t, frame) ==
    [parsed |-> t.parsed + (IF Complete(frame) THEN Len(frame) ELSE 0),
     valid |-> t.valid + Count(frame, "valid"),
     invalid |-> t.invalid + Count(frame, "invalid"),
     status |-> t.status + Count(frame, "status")]

\* produce: the topic follows the event type.
TopicOf(i) == IF i.ev = "A" THEN "second" ELSE "minute"

------------------------------------------------------------------------------
\* Mutant: the end of the interval is part of the key.
KeyWithEnd(i) == <<i.sym, i.s, i.e>>

\* dropDuplicates; "time" is the start of the interval.
Key(i) == <<i.sym, i.s>>

\* from_json turns a value of another type into null, and a null satisfies no
\* comparison.  In Spark's order NaN is above every number.
Validates(i) == /\ i.typed
                /\ \A p \in Prices(i) : p > 0 /\ p <= i.h /\ i.l <= p
                /\ i.v >= 0

\* Neither in the future, with a minute's tolerance, nor older than the retention.
InTime(i, t) == i.s <= t + Tolerance /\ i.s >= t - MaxAge
InRange(i) == /\ \A p \in Prices(i) : p < MaxPrice
              /\ i.v < MaxVolume
VwapPlausible(i) ==
    \/ i.vw = Null
    \/ 100 * i.vw >= 99 * i.l /\ 100 * i.vw <= 101 * i.h

\* Mutant: no look at the symbol.
GoodWhatever(i, t) == InTime(i, t) /\ InRange(i) /\ VwapPlausible(i)

\* quality_filter of check_and_split, at time t.
Good(i, t) ==
    InTime(i, t) /\ InRange(i) /\ i.sym \in Tradeable /\ VwapPlausible(i)

------------------------------------------------------------------------------
Init == /\ parser = [parsed |-> 0, valid |-> 0, invalid |-> 0, status |-> 0]
        /\ raised = 0 /\ failed = 0 /\ frames = 0
        /\ sending = [frame |-> <<>>, from |-> 1]
        /\ topic = [k \in Kinds |-> <<>>]
        /\ started = {}
        /\ offset = [k \in Kinds |-> 0]
        /\ skipped = [k \in Kinds |-> {}]
        /\ watermark = [k \in Kinds |-> 0]
        /\ seen = [k \in Kinds |-> {}]
        /\ passed = [k \in Kinds |-> {}]
        /\ stored = [k \in Kinds |-> {}]
        /\ rejected = [k \in Kinds |-> {}]
        /\ now = 0

\* The positions of the frame that are still to be produced.
Unsent == {p \in sending.from .. Len(sending.frame) : Accepted(sending.frame[p])}

\* _process_message up to produce_batch.  An exception gives up the whole frame,
\* its aggregates, its status messages and its share of _total_parsed.
Receive(frame) ==
    /\ frames < MaxFrames /\ Unsent = {}
    /\ frames' = frames + 1
    /\ parser' = Parsed(parser, frame)
    /\ IF Complete(frame)
       THEN sending' = [frame |-> frame, from |-> 1] /\ UNCHANGED raised
       ELSE raised' = raised + 1 /\ UNCHANGED sending
    /\ UNCHANGED <<failed, topic, read, query, now>>

\* produce_batch, one aggregate after the other: it goes to its topic, or an
\* error that produce() handles is counted (KafkaProducer has the details) ...
Produce ==
    \E p \in Unsent :
        LET i == sending.frame[p] IN
        /\ \A q \in Unsent : p <= q
        /\ sending' = [sending EXCEPT !.from = p + 1]
        /\ \/ /\ topic' = [topic EXCEPT ![TopicOf(i)] = Append(@, i)]
              /\ UNCHANGED failed
           \/ failed' = failed + 1 /\ UNCHANGED topic
        /\ UNCHANGED <<parser, raised, frames, read, query, now>>

\* ... or an exception gives up the rest of the frame.
BreakOff ==
    /\ Unsent # {}
    /\ sending' = [frame |-> <<>>, from |-> 1]
    /\ raised' = raised + 1
    /\ UNCHANGED <<parser, failed, frames, topic, read, query, now>>

Tick == /\ now < MaxNow
        /\ now' = now + 1
        /\ UNCHANGED <<client, topic, read, query>>

------------------------------------------------------------------------------
\* A job starts for the first time, at the end of its topic (startingOffsets
\* "latest"); a later start goes on from the checkpoint.
StartQuery(k) ==
    /\ k \notin started
    /\ started' = started \cup {k}
    /\ offset' = [offset EXCEPT ![k] = Len(topic[k])]
    /\ skipped' = [skipped EXCEPT ![k] = DOMAIN topic[k]]
    /\ UNCHANGED <<client, topic, query, now>>

\* Kafka deletes messages that the query has not read yet; with failOnDataLoss
\* "false" it goes on behind them.
Expire(k) ==
    /\ k \in started
    /\ \E n \in offset[k] + 1 .. Len(topic[k]) :
         /\ offset' = [offset EXCEPT ![k] = n]
         /\ skipped' = [skipped EXCEPT ![k] = @ \cup (offset[k] + 1 .. n)]
    /\ UNCHANGED <<client, topic, started, query, now>>

\* Mutant: the last offset of a batch is taken for exclusive.
BatchAllButLast(k) ==
    {p \in DOMAIN topic[k] : offset[k] < p /\ p < offset[k] + MaxOffsets
                                /\ p < Len(topic[k])}

\* The next micro-batch of a job: what is new in its topic, up to the limit.
Batch(k) == {p \in DOMAIN topic[k] : offset[k] < p /\ p <= offset[k] + MaxOffsets}
Valid(k) == {p \in Batch(k) : Validates(topic[k][p])}

\* deduplicate: rows at or below the watermark and keys in the state are dropped.
Fresh(k) == {p \in Valid(k) : /\ topic[k][p].s > watermark[k]
                              /\ Key(topic[k][p]) \notin seen[k]}

\* Spark may let any of a batch's rows with one key through.
Deduplicated(k) ==
    {rows \in SUBSET Fresh(k) :
        /\ \A p \in Fresh(k) :
             \E q \in rows : Key(topic[k][q]) = Key(topic[k][p])
        /\ \A p, q \in rows : Key(topic[k][p]) = Key(topic[k][q]) => p = q}

\* The checkpoint holds the offsets a batch has reached.
NextOffset(k) == IF Len(topic[k]) < offset[k] + MaxOffsets
                 THEN Len(topic[k]) ELSE offset[k] + MaxOffsets

\* filter_otc, after the duplicates are gone
WithoutOtc(k, rows) == {p \in rows : ~topic[k][p].otc}

\* The watermark follows the newest row that validate_data lets through, until
\* the next batch; it never goes back.
Reaches(k) == {topic[k][p].s - Delay[k] : p \in Valid(k)} \cup {watermark[k]}
NextWatermark(k) == {w \in Reaches(k) : \A x \in Reaches(k) : x <= w}

\* Keys at or below the watermark leave the state.
NextSeen(k, rows) ==
    {key \in seen[k] \cup {Key(topic[k][p]) : p \in rows} : key[2] > watermark[k]}

\* Mutant: the bad rows are looked up by a rule of their own.
BadRows(k, rows, t) ==
    {p \in rows : topic[k][p].s > t + Tolerance \/ topic[k][p].sym \notin Tradeable}

\* The two filters of check_and_split are lazy: each is evaluated when its rows
\* are written, with the clock of that moment.
GoodRows(k, rows, t) == {p \in rows : Good(topic[k][p], t)}
NotGoodRows(k, rows, t) == {p \in rows : ~Good(topic[k][p], t)}

\* _process_batch with the streaming query before it: the good rows are written
\* first, then those that are not.
RunBatch(k) ==
    /\ k \in started /\ Batch(k) # {}
    /\ \E rows \in Deduplicated(k), t \in now .. MaxNow :
         /\ passed' = [passed EXCEPT ![k] = @ \cup rows]
         /\ seen' = [seen EXCEPT ![k] = NextSeen(k, rows)]
         /\ stored' = [stored EXCEPT ![k] = @ \cup GoodRows(k, WithoutOtc(k, rows), t)]
         /\ now' \in t .. MaxNow
         /\ rejected' = [rejected EXCEPT ![k] =
                            @ \cup NotGoodRows(k, WithoutOtc(k, rows), now')]
    /\ offset' = [offset EXCEPT ![k] = NextOffset(k)]
    /\ \E w \in NextWatermark(k) : watermark' = [watermark EXCEPT ![k] = w]
    /\ UNCHANGED <<client, topic, started, skipped>>

Next == \/ \E frame \in Frames : Receive(frame)
        \/ Produce \/ BreakOff \/ Tick
        \/ \E k \in Kinds : StartQuery(k) \/ Expire(k) \/ RunBatch(k)

Spec == Init /\ [][Next]_vars

------------------------------------------------------------------------------
Totals == [{"parsed", "valid", "invalid", "status"} -> Nat]
Positions(k) == 1 .. offset[k]

TypeOK ==
    /\ parser \in Totals /\ raised \in Nat /\ failed \in Nat
    /\ frames \in 0 .. MaxFrames
    /\ sending \in [frame : Frames \cup {<<>>}, from : Nat \ {0}]
    /\ topic \in [Kinds -> Seq(Items)]
    /\ started \subseteq Kinds /\ skipped \in [Kinds -> SUBSET Nat]
    /\ offset \in [Kinds -> Nat] /\ watermark \in [Kinds -> Nat]
    /\ seen \in [Kinds -> SUBSET {Key(i) : i \in Items}]
    /\ passed \in [Kinds -> SUBSET Nat]
    /\ stored \in [Kinds -> SUBSET Nat] /\ rejected \in [Kinds -> SUBSET Nat]
    /\ \A k \in Kinds : /\ offset[k] <= Len(topic[k])
                        /\ passed[k] \subseteq Positions(k)
                        /\ stored[k] \cup rejected[k] \subseteq passed[k]
    /\ now \in 0 .. MaxNow

Same(i, j) == i.sym = j.sym /\ i.s = j.s

\* Aggregates handed to produce_batch, in Kafka or still to be produced.
Sent == Len(topic["second"]) + Len(topic["minute"]) + Cardinality(Unsent)

\* The statistics of parser and producer: what the one counts as valid is in
\* Kafka, frame by frame and across both topics, or an error of the other, unless
\* an exception has given up a frame; then the parser has counted aggregates that
\* were never produced, and no others.
CountersAgree ==
    /\ Sent + failed <= parser.valid
    /\ raised = 0 => /\ Sent + failed = parser.valid
                     /\ parser.valid + parser.invalid + parser.status
                            <= parser.parsed

\* validate_data never drops a message whose values are numbers of the schema's
\* types: its rules, written a second time for Spark, refuse nothing that
\* _parse_aggregate has let through and counted as valid.  NaN is left out: each
\* side orders it in its own way.
ParserCoversFilter ==
    \A k \in Kinds : \A p \in DOMAIN topic[k] :
        LET i == topic[k][p] IN i.typed /\ NaN \notin Prices(i) => Validates(i)

\* Whatever the batches are and whenever its state is cleaned, dropDuplicates
\* lets one row of a symbol and a time through, so that the unique key of the
\* table is never met twice and a stored row is never replaced, as long as the
\* checkpoint is not lost.
OncePerKey ==
    \A k \in Kinds : \A p, q \in passed[k] : Same(topic[k][p], topic[k][q]) => p = q

\* What is stored went through every filter there is: it is in the table of its
\* own event type, with consistent prices below the limit, a tradeable symbol,
\* not OTC, and not ahead of the clock.
StoredIsPlausible ==
    \A k \in Kinds : \A p \in stored[k] :
        LET i == topic[k][p] IN
        /\ TopicOf(i) = k /\ i.typed /\ ~i.otc /\ i.sym \in Tradeable
        /\ 0 < i.l /\ i.l <= i.o /\ i.o <= i.h /\ i.l <= i.c /\ i.c <= i.h
        /\ i.h < MaxPrice /\ i.s <= now + Tolerance

\* The two halves of a batch differ from a true split only at the edges of the
\* time window that the clock passes meanwhile: a row in neither half was too
\* early when the batch began, one in both became too old during it.
SplitExactButAtTheEdges ==
    [][ \A k \in Kinds : \A p \in WithoutOtc(k, passed'[k] \ passed[k]) :
            LET i == topic[k][p] IN
            /\ p \in stored'[k] \/ p \in rejected'[k] \/ i.s > now + Tolerance
            /\ p \in stored'[k] /\ p \in rejected'[k] => i.s < now' - MaxAge ]_vars

\* No message that passes validate_data gets lost between two batches, or by a
\* key that was forgotten too late or too early: once the query has come past it,
\* a row of its symbol and time was let through, or it is behind the watermark,
\* or it is one of those the query never reads (older than its first start, or
\* deleted by Kafka before their turn).
EveryMessageDecided ==
    \A k \in Kinds : \A p \in Positions(k) \ skipped[k] :
        LET i == topic[k][p] IN
        Validates(i) => \/ i.s <= watermark[k]
                        \/ \E q \in passed[k] : Same(topic[k][q], i)

------------------------------------------------------------------------------
\* Not kept by the code: TLC refutes each of these (README, "Disagreements").

\* check_and_split refuses rows from the future, but by then they have moved the
\* watermark of their stream, and the rows of the present are late.
WatermarkBehindClock ==
    \A k \in Kinds : watermark[k] <= now + Tolerance

\* A row that passes every rule is stored, or another one with its key is: not
\* after a version that was rejected, and not behind the watermark.
GoodRowsAreStored ==
    \A k \in Kinds : \A p \in Positions(k) :
        LET i == topic[k][p] IN
        Validates(i) /\ Good(i, now) /\ ~i.otc
            => \E q \in stored[k] : Same(topic[k][q], i)

\* check_and_split "teilt ihn in gute und schlechte Daten".
SplitIsExact ==
    \A k \in Kinds : /\ WithoutOtc(k, passed[k]) \subseteq stored[k] \cup rejected[k]
                     /\ stored[k] \cap rejected[k] = {}
==============================================================================
