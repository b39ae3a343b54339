------------------------------- MODULE BatchSink ------------------------------
(***************************************************************************)
(* A streaming job from one micro-batch to the next: _process_batch of     *)
(* SecondStreamJob / MinuteStreamJob and the sinks it writes to            *)
(* (backend/spark_streaming/db_sink.py), under Spark's replay of a batch   *)
(* that was planned and not committed.                                     *)
(*                                                                         *)
(* A row is a key, i.e. (time, symbol), and a version of its columns.  A   *)
(* call of the database may fail before or after it took effect.  Spark    *)
(* appends a DataFrame partition by partition, each one a transaction; the *)
(* table's UNIQUE (time, symbol) refuses a partition as a whole.           *)
(***************************************************************************)
EXTENDS Integers, FiniteSets

CONSTANTS Keys,        \* (time, symbol) pairs
          Bad,         \* those whose rows fail the quality check
          Partitions,  \* the partitions of a micro-batch
          PartOf,      \* [Keys -> Partitions]
          Versions,    \* of a row's columns
          MaxRetries,  \* _retry_write's max_retries
          MaxBatch,    \* bound of the model: batches of a checkpoint
          MaxCrashes   \* bound of the model: restarts of the job

NoRow == "none"

ASSUME BatchSinkAssumption ==
    /\ Bad \subseteq Keys
    /\ PartOf \in [Keys -> Partitions]
    /\ NoRow \notin Versions
    /\ MaxRetries \in Nat /\ MaxBatch \in Nat /\ MaxCrashes \in Nat

VARIABLES base,      \* the table: open .. close, volume, vwap, num_trades
          derived,   \* the table: price_range, is_bullish, ... of the row
          staging,   \* batch ids whose staging table exists
          deadKeys,  \* keys in the dead letter table
          batch,     \* Spark: the rows of the planned batch
          id,        \* Spark: its number
          seen,      \* Spark: keys in the state of dropDuplicates
          pc,        \* where the job is in the batch
          attempt,   \* appends tried after the fallback
          counted,   \* the batch is in _total_rows_written
          reported,  \* "All retries failed! Data may be lost." of the batch
          crashes

vars == <<base, derived, staging, deadKeys, batch, id, seen, pc, attempt,
          counted, reported, crashes>>

table == <<base, derived>>
spark == <<batch, id, seen>>
outcome == <<counted, reported>>

TypeOK == /\ base \in [Keys -> Versions \cup {NoRow}]
          /\ derived \in [Keys -> Versions \cup {NoRow}]
          /\ staging \subseteq 0 .. MaxBatch
          /\ deadKeys \subseteq Bad
          /\ batch \in [Keys -> Versions \cup {NoRow}]
          /\ id \in 0 .. MaxBatch
          /\ seen \subseteq Keys
          /\ pc \in {"idle", "stage", "merge", "drop", "append", "reject",
                     "commit"}
          /\ attempt \in 0 .. MaxRetries
          /\ counted \in BOOLEAN
          /\ reported \in BOOLEAN
          /\ crashes \in 0 .. MaxCrashes

Nothing == [k \in Keys |-> NoRow]

Init == /\ base = Nothing /\ derived = Nothing
        /\ staging = {} /\ deadKeys = {}
        /\ batch = Nothing /\ id = 0 /\ seen = {}
        /\ pc = "idle" /\ attempt = 0 /\ counted = FALSE /\ reported = FALSE
        /\ crashes = 0

In(k) == batch[k] # NoRow
Planned == \E k \in Keys : In(k)

\* check_and_split
GoodRows == {k \in Keys \ Bad : In(k)}
BadRows == {k \in Bad : In(k)}

------------------------------------------------------------------------------
\* Spark writes the plan of the next batch to the checkpoint; dropDuplicates
\* lets no key of this checkpoint pass twice.
Plan ==
    /\ pc = "idle" /\ ~Planned /\ id < MaxBatch
    /\ batch' \in [Keys -> Versions \cup {NoRow}]
    /\ batch' # Nothing
    /\ \A k \in seen : batch'[k] = NoRow
    /\ UNCHANGED <<table, staging, deadKeys, id, seen, pc, attempt, outcome,
                   crashes>>

\* _process_batch, for a new batch or one found in the checkpoint; write_batch
\* skips an empty DataFrame.
Begin ==
    /\ pc = "idle" /\ Planned
    /\ pc' = IF GoodRows = {} THEN "reject" ELSE "stage"
    /\ attempt' = 0
    /\ counted' = FALSE /\ reported' = FALSE
    /\ UNCHANGED <<table, staging, deadKeys, spark, crashes>>

\* _write_with_upsert.  An exception at any of its steps leads to the append.
Stage ==
    /\ pc = "stage"
    /\ \/ pc' = "merge" /\ staging' = staging \cup {id}
       \/ pc' = "append" /\ staging' \in {staging, staging \cup {id}}
    /\ UNCHANGED <<table, deadKeys, spark, attempt, outcome, crashes>>

\* INSERT ... ON CONFLICT DO UPDATE, which leaves the derived columns of a row
\* that was there.
Merged == /\ base' = [k \in Keys |-> IF k \in GoodRows THEN batch[k] ELSE base[k]]
          /\ derived' = [k \in Keys |-> IF k \in GoodRows /\ base[k] = NoRow
                                        THEN batch[k] ELSE derived[k]]

Merge ==
    /\ pc = "merge"
    /\ \/ pc' = "drop" /\ Merged
       \/ pc' = "append" /\ (Merged \/ UNCHANGED table)
    /\ UNCHANGED <<staging, deadKeys, spark, attempt, outcome, crashes>>

DropStaging ==
    /\ pc = "drop"
    /\ \/ pc' = "reject" /\ staging' = staging \ {id} /\ counted' = TRUE
       \/ /\ pc' = "append" /\ staging' \in {staging, staging \ {id}}
          /\ UNCHANGED counted
    /\ UNCHANGED <<table, deadKeys, spark, attempt, reported, crashes>>

\* _write_simple_append: the rows of the partitions P are committed.
RowsOf(P) == {k \in GoodRows : PartOf[k] \in P}

\* Mutant: ON CONFLICT DO NOTHING.
AppendNewRows(P) ==
    /\ base' = [k \in Keys |-> IF k \in RowsOf(P) /\ base[k] = NoRow
                               THEN batch[k] ELSE base[k]]
    /\ derived' = [k \in Keys |-> IF k \in RowsOf(P) /\ base[k] = NoRow
                                  THEN batch[k] ELSE derived[k]]

Append(P) ==
    /\ \A k \in RowsOf(P) : base[k] = NoRow
    /\ base' = [k \in Keys |-> IF k \in RowsOf(P) THEN batch[k] ELSE base[k]]
    /\ derived' = [k \in Keys |-> IF k \in RowsOf(P) THEN batch[k] ELSE derived[k]]

\* The fallback, and after its exception the attempts of _retry_write.
AppendSucceeds ==
    /\ pc = "append"
    /\ Append(Partitions)
    /\ pc' = "reject"
    /\ counted' = TRUE
    /\ UNCHANGED <<staging, deadKeys, spark, attempt, reported, crashes>>

AppendFails ==
    /\ pc = "append" /\ attempt < MaxRetries
    /\ \E P \in SUBSET Partitions : Append(P)
    /\ attempt' = attempt + 1
    /\ UNCHANGED <<staging, deadKeys, spark, pc, outcome, crashes>>

\* Mutants: no message, no end.
RetriesEndSilently ==
    /\ pc = "append" /\ attempt = MaxRetries
    /\ \E P \in SUBSET Partitions : Append(P)
    /\ pc' = "reject"
    /\ UNCHANGED <<staging, deadKeys, spark, attempt, outcome, crashes>>

RetriesStartOver ==
    /\ pc = "append" /\ attempt = MaxRetries /\ attempt' = 1
    /\ UNCHANGED <<table, staging, deadKeys, spark, pc, outcome, crashes>>

\* The last attempt fails: a critical message, and no exception.
RetriesExhausted ==
    /\ pc = "append" /\ attempt = MaxRetries
    /\ \E P \in SUBSET Partitions : Append(P)
    /\ pc' = "reject"
    /\ reported' = TRUE
    /\ UNCHANGED <<staging, deadKeys, spark, attempt, counted, crashes>>

\* The columns of a rejected row, and of the table it goes to.
BatchColumns ==
    {"time", "symbol", "open", "high", "low", "close", "volume", "vwap",
     "accumulated_volume", "official_open", "avg_trade_size", "num_trades",
     "tick_start", "tick_end", "is_otc", "price_range", "price_change",
     "price_change_pct", "is_bullish", "body_size", "upper_shadow",
     "lower_shadow"}
RejectedColumns == BatchColumns \cup {"rejection_reason", "rejected_at", "batch_id"}
DeadLetterColumns ==
    {"id", "time", "symbol", "open", "high", "low", "close", "volume", "vwap",
     "rejection_reason", "rejected_at", "batch_id"}

\* write_rejected; Spark appends no column the table lacks.
Kept == IF RejectedColumns \subseteq DeadLetterColumns THEN BadRows ELSE {}

WriteRejected ==
    /\ pc = "reject" /\ pc' = "commit"
    /\ deadKeys' = deadKeys \cup Kept
    /\ UNCHANGED <<table, staging, spark, attempt, outcome, crashes>>

\* The database fails: logged and forgotten, as every error of this write.
RejectedLost ==
    /\ pc = "reject" /\ pc' = "commit"
    /\ BadRows # {}
    /\ UNCHANGED <<table, staging, deadKeys, spark, attempt, outcome, crashes>>

\* _process_batch has returned and Spark commits the batch.
Commit ==
    /\ pc = "commit" /\ pc' = "idle"
    /\ id' = id + 1
    /\ seen' = seen \cup GoodRows \cup BadRows
    /\ batch' = Nothing
    /\ UNCHANGED <<table, staging, deadKeys, attempt, outcome, crashes>>

------------------------------------------------------------------------------
\* The process ends anywhere in a batch, or an exception of Spark's ends the
\* query; the job starts again from its checkpoint.
Crash ==
    /\ pc # "idle" /\ crashes < MaxCrashes
    /\ pc' = "idle"
    /\ crashes' = crashes + 1
    /\ UNCHANGED <<table, staging, deadKeys, spark, attempt, outcome>>

\* The pod is replaced, and with it goes the emptyDir of the checkpoint.  The
\* query starts anew at the end of its topic (startingOffsets "latest"): what was
\* planned or came meanwhile is never read, batch numbers start at 0, and a later
\* message may repeat a key that the lost state had let through.
PodReplaced ==
    /\ crashes < MaxCrashes
    /\ pc' = "idle"
    /\ crashes' = crashes + 1
    /\ batch' = Nothing /\ id' = 0 /\ seen' = {}
    /\ UNCHANGED <<table, staging, deadKeys, attempt, outcome>>

JobStep == \/ Begin \/ Stage \/ Merge \/ DropStaging
           \/ AppendSucceeds \/ AppendFails \/ RetriesExhausted
           \/ WriteRejected \/ RejectedLost \/ Commit

Next == Plan \/ JobStep \/ Crash \/ PodReplaced

Spec == Init /\ [][Next]_vars

\* The job goes on with its batch: every call of the database returns.
FairSpec == Spec /\ WF_vars(JobStep)

------------------------------------------------------------------------------
\* A batch that Spark is about to commit, and will not replay, is in the table
\* or was reported as lost in this very run, whatever failed before or after it
\* took effect and however often the batch was replayed.
LossIsReported ==
    pc = "commit" => \/ reported
                     \/ \A k \in GoodRows : base[k] = batch[k]

\* A batch that get_stats counts as written is in the table with every row, in
\* the version of this batch: no attempt passes for a success after the part
\* of the rows that an earlier one has stored.
CountedIsStored ==
    pc \in {"reject", "commit"} /\ counted =>
        \A k \in GoodRows : base[k] = batch[k]

\* A planned batch is committed or lost with its checkpoint: a database that
\* fails for good does not hold up the stream.
BatchEnds == Planned ~> ~Planned

------------------------------------------------------------------------------
\* What the repository says of the program and the code does not keep: TLC
\* refutes each of these (README, "Disagreements").

\* "Staging-Tabelle droppen": a committed batch leaves none behind.
StagingDropped == staging \subseteq {id}

\* "price_range: High - Low" and the other derived columns belong to the prices
\* they stand next to.
DerivedMatch == derived = base

\* "Schreibt abgelehnte Daten mit Grund": when the database is at hand, the
\* rejected rows of a batch get into the dead letter table.
RejectedKept == [][ WriteRejected => BadRows \subseteq deadKeys' ]_vars
==============================================================================
