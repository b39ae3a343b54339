----------------------------- MODULE DatabaseSetup -----------------------------
(***************************************************************************)
(* The programs that set the database up: init_db.py, seed_tickers.py and  *)
(* hypertable_setup.py, run one after the other and again, with other      *)
(* options and settings, over whatever an earlier run has left.  A program *)
(* is the plan of its statements; each may fail (no lock in time, lost     *)
(* connection, wrong order for TimescaleDB), and the process may be killed *)
(* between two of them.  init_db and hypertable_setup are in autocommit;   *)
(* seed_tickers works through get_raw_cursor, a transaction per block.     *)
(*                                                                         *)
(* A failed statement ends its try block if it is in one and is otherwise  *)
(* raised.  Intervals are positive numbers, 0 says that there is none.     *)
(***************************************************************************)
EXTENDS Integers, Sequences, FiniteSets

CONSTANTS Symbols, Values,  \* a ticker and the rest of its row
          Csvs,             \* contents of the CSV file: sequences of rows
          Broken,           \* the CSV that lacks a required column
          DemoData,         \* rows used when the file is missing or empty
          Settings,         \* db_config: chunk, retention and compression
          DefaultChunk, SetupRetention, SetupCompression, \* hypertable_setup
          MaxRuns           \* bound of the model

AggTables == {"stock_agg_second", "stock_agg_minute"}
Tables == AggTables \cup {"dead_letter_queue", "sp500_tickers"}
Row == [symbol : Symbols, value : Values]
Setting == [chunk : Nat \ {0}, retention : Nat \ {0}, compression : Nat \ {0}]

ASSUME SetupAssumption ==
    /\ Broken \in Csvs /\ Csvs \ {Broken} \subseteq Seq(Row) /\ DemoData \in Seq(Row)
    /\ Settings \subseteq Setting /\ MaxRuns \in Nat /\ 0 \notin Values
    /\ {DefaultChunk, SetupRetention, SetupCompression} \subseteq Nat \ {0}

VARIABLES schema,   \* extension, tables, hypertables and policies
          tickers,  \* sp500_tickers as others see it: per symbol, 0 for no row
          pending,  \* the same inside the open transaction
          plan,     \* what the running program has still to execute
          run       \* the program that runs or ran last, and how it went

vars == <<schema, tickers, pending, plan, run>>

------------------------------------------------------------------------------
Statement(op, table, value, try) ==
    [op |-> op, table |-> table, value |-> value, try |-> try]

\* try = <<>> for a statement outside of any try block
Plain(op, table, value) == <<Statement(op, table, value, <<>>)>>

\* The loop over the two tables.
ForBoth(F(_)) == F("stock_agg_second") \o F("stock_agg_minute")

DropPlan == ForBoth(LAMBDA t : Plain("drop", t, 0))
                \o Plain("drop", "dead_letter_queue", 0)
                \o Plain("drop", "sp500_tickers", 0)

HypertablePlan(chunk) ==
    ForBoth(LAMBDA t : <<Statement("hypertable", t, chunk, <<"hypertable", t>>)>>)
RetentionPlan(days) ==
    ForBoth(LAMBDA t : <<Statement("retention", t, days, <<"retention", t>>)>>)
CompressionPlan(days) ==
    ForBoth(LAMBDA t : <<Statement("compress", t, 0, <<"compression", t>>),
                         Statement("compression", t, days, <<"compression", t>>)>>)
AggregatePlan == <<Statement("view", "stock_agg_second", 0, <<"view">>),
                   Statement("refresh", "stock_agg_second", 0, <<"view">>)>>

\* Both programs connect and create the extension first; init_db may drop next.
Opening(drop) == Plain("connect", "", 0) \o Plain("extension", "", 0)
                     \o (IF drop THEN DropPlan ELSE <<>>)

\* main of init_db
InitSchema(o, s) ==
    Plain("tables", "", 0)
        \o (IF o.skipHypertables THEN <<>>
            ELSE HypertablePlan(s.chunk) \o RetentionPlan(s.retention)
                     \o CompressionPlan(s.compression))
        \o (IF o.skipHypertables \/ o.skipAggregate THEN <<>> ELSE AggregatePlan)
        \o Plain("verify", "", 0)
InitPlan(o, s) == Opening(o.drop) \o InitSchema(o, s)

\* setup_timescaledb: only the compression is in a try block.
SetupSchema ==
    ForBoth(LAMBDA t : Plain("table", t, 0)) \o Plain("table", "dead_letter_queue", 0)
        \o ForBoth(LAMBDA t : Plain("hypertable", t, DefaultChunk)
                                  \o Plain("retention", t, SetupRetention))
        \o Plain("view", "stock_agg_second", 0) \o Plain("refresh", "stock_agg_second", 0)
        \o CompressionPlan(SetupCompression)
SetupPlan == Opening(FALSE) \o SetupSchema

\* What the loader makes of the file.
RowsOf(csv) == IF csv = <<>> THEN DemoData ELSE csv

Transaction(statements) ==
    Plain("connect", "", 0) \o statements \o Plain("commit", "", 0)

\* seed_from_csv, one transaction, and verify_seed
ImportPlan(rows) ==
    Transaction([p \in DOMAIN rows |-> Statement("upsert", "", rows[p], <<>>)])
        \o Transaction(Plain("count", "", 0))

\* main of seed_tickers
SeedPlan(clear, csv) ==
    (IF clear THEN Transaction(Plain("delete", "", 0)) ELSE <<>>)
        \o Plain("load", "", csv)
        \o (IF csv = Broken THEN <<>> ELSE ImportPlan(RowsOf(csv)))

------------------------------------------------------------------------------
Bare == [extension |-> FALSE, tables |-> {},
         chunk |-> [t \in AggTables |-> 0], retention |-> [t \in AggTables |-> 0],
         compressed |-> {}, compression |-> [t \in AggTables |-> 0],
         view |-> FALSE, refresh |-> FALSE]
NoTickers == [s \in Symbols |-> 0]
Options == [drop : BOOLEAN, skipHypertables : BOOLEAN, skipAggregate : BOOLEAN]
NoOptions == [drop |-> FALSE, skipHypertables |-> FALSE, skipAggregate |-> FALSE]
SomeSetting == CHOOSE s \in Settings : TRUE

\* "failed": some statement of the run failed; known to the log alone.
Init == /\ schema = Bare
        /\ tickers = NoTickers /\ pending = NoTickers
        /\ plan = <<>>
        /\ run = [program |-> "none", options |-> NoOptions, settings |-> SomeSetting,
                  clear |-> FALSE, csv |-> <<>>, failed |-> FALSE, ended |-> "no run",
                  count |-> 0]

Start(program, statements, options, settings, clear, csv) ==
    /\ plan = <<>> /\ run.count < MaxRuns
    /\ plan' = statements
    /\ run' = [program |-> program, options |-> options, settings |-> settings,
               clear |-> clear, csv |-> csv, failed |-> FALSE, ended |-> "runs",
               count |-> run.count + 1]
    /\ UNCHANGED <<schema, tickers, pending>>

RunInitDb(o, s) == Start("init_db", InitPlan(o, s), o, s, FALSE, <<>>)
RunSetup == Start("hypertable_setup", SetupPlan, NoOptions, SomeSetting, FALSE, <<>>)
RunSeed(clear, csv) ==
    Start("seed_tickers", SeedPlan(clear, csv), NoOptions, SomeSetting, clear, csv)

------------------------------------------------------------------------------
Current(op) == plan # <<>> /\ Head(plan).op = op
Table == Head(plan).table

\* The program goes on, and ends after its last statement.
GoOn == /\ plan' = Tail(plan)
        /\ run' = IF Tail(plan) = <<>> THEN [run EXCEPT !.ended = "complete"] ELSE run

\* A statement of that kind, if the database can execute it.
SchemaStep(op, possible, next) ==
    /\ Current(op) /\ possible /\ GoOn
    /\ schema' = next
    /\ UNCHANGED <<tickers, pending>>

CreateExtension == SchemaStep("extension", TRUE, [schema EXCEPT !.extension = TRUE])

\* Mutant: without CASCADE the policies of the old table are found again.
DropKeepsPolicies ==
    /\ Current("drop") /\ GoOn
    /\ schema' = [schema EXCEPT !.tables = @ \ {Table}]
    /\ tickers' = IF Table = "sp500_tickers" THEN NoTickers ELSE tickers
    /\ UNCHANGED pending

\* Mutant: the rows of the tickers outlive their table.
DropKeepsRows == SchemaStep("drop", TRUE, [schema EXCEPT !.tables = @ \ {Table}])

\* DROP TABLE ... CASCADE takes policies and the view over the table along.
DropTable ==
    /\ Current("drop") /\ GoOn
    /\ schema' =
         [schema EXCEPT !.tables = @ \ {Table},
                        !.chunk = [t \in AggTables |-> IF t = Table THEN 0 ELSE @[t]],
                        !.retention = [t \in AggTables |-> IF t = Table THEN 0 ELSE @[t]],
                        !.compressed = @ \ {Table},
                        !.compression = [t \in AggTables |-> IF t = Table THEN 0 ELSE @[t]],
                        !.view = @ /\ Table # "stock_agg_second",
                        !.refresh = @ /\ Table # "stock_agg_second"]
    /\ tickers' = IF Table = "sp500_tickers" THEN NoTickers ELSE tickers
    /\ UNCHANGED pending

\* Mutant: a database with some of the tables is taken for created.
CreateTablesOnce ==
    SchemaStep("tables", TRUE, [schema EXCEPT !.tables = IF @ = {} THEN Tables ELSE @])

\* create_all: the missing tables in one transaction.
CreateTables == SchemaStep("tables", TRUE, [schema EXCEPT !.tables = Tables])

CreateTable == SchemaStep("table", TRUE, [schema EXCEPT !.tables = @ \cup {Table}])

\* if_not_exists: what exists keeps its interval.
Added(old) == IF old = 0 THEN Head(plan).value ELSE old

CreateHypertable ==
    SchemaStep("hypertable", schema.extension /\ Table \in schema.tables,
               [schema EXCEPT !.chunk[Table] = Added(@)])

AddRetention ==
    SchemaStep("retention", schema.chunk[Table] # 0,
               [schema EXCEPT !.retention[Table] = Added(@)])

EnableCompression ==
    SchemaStep("compress", schema.chunk[Table] # 0,
               [schema EXCEPT !.compressed = @ \cup {Table}])

AddCompression ==
    SchemaStep("compression", Table \in schema.compressed,
               [schema EXCEPT !.compression[Table] = Added(@)])

CreateView ==
    SchemaStep("view", schema.chunk[Table] # 0, [schema EXCEPT !.view = TRUE])

AddRefresh == SchemaStep("refresh", schema.view, [schema EXCEPT !.refresh = TRUE])

\* verify_setup writes what it finds to the log and compares it with nothing.
Verify == SchemaStep("verify", TRUE, schema)

------------------------------------------------------------------------------
TickerStep(op, next) ==
    /\ Current(op) /\ "sp500_tickers" \in schema.tables /\ GoOn
    /\ pending' = next
    /\ UNCHANGED <<schema, tickers>>

\* A connection from the pool or, without one, of its own.
Connect == /\ Current("connect") /\ GoOn
           /\ pending' = tickers
           /\ UNCHANGED <<schema, tickers>>

\* The loader raises ValueError without the required columns.
Load == /\ Current("load") /\ run.csv # Broken /\ GoOn
        /\ UNCHANGED <<schema, tickers, pending>>

Delete == TickerStep("delete", NoTickers)

\* Mutant: the cursor is in autocommit.
UpsertAtOnce ==
    LET row == Head(plan).value IN
    /\ Current("upsert") /\ "sp500_tickers" \in schema.tables /\ GoOn
    /\ pending' = [pending EXCEPT ![row.symbol] = row.value]
    /\ tickers' = pending'
    /\ UNCHANGED schema

\* ON CONFLICT (symbol) DO UPDATE
Upsert == LET row == Head(plan).value IN
          TickerStep("upsert", [pending EXCEPT ![row.symbol] = row.value])

CountTickers == TickerStep("count", pending)

\* The end of get_raw_cursor.
Commit == /\ Current("commit") /\ GoOn
          /\ tickers' = pending
          /\ UNCHANGED <<schema, pending>>

------------------------------------------------------------------------------
\* The try block of the current statement ends with the n-th.
BlockEndsAt(n) == /\ \A i \in 1 .. n : plan[i].try = Head(plan).try
                  /\ n < Len(plan) => plan[n + 1].try # Head(plan).try

\* A statement fails.  In a try block, the log has it and the program goes on
\* after the block; elsewhere the transaction is rolled back and the program
\* ends.  Only the plan of hypertable_setup may end with such a block.
Fail ==
    /\ plan # <<>>
    /\ pending' = tickers
    /\ \/ /\ Head(plan).try = <<>>
          /\ plan' = <<>>
          /\ run' = [run EXCEPT !.failed = TRUE, !.ended = "raised"]
       \/ /\ Head(plan).try # <<>>
          /\ \E n \in 1 .. Len(plan) : /\ BlockEndsAt(n)
                                       /\ plan' = SubSeq(plan, n + 1, Len(plan))
          /\ run' = [run EXCEPT !.failed = TRUE,
                                !.ended = IF plan' = <<>> THEN "complete" ELSE @]
    /\ UNCHANGED <<schema, tickers>>

Kill == /\ plan # <<>>
        /\ plan' = <<>> /\ pending' = tickers
        /\ run' = [run EXCEPT !.ended = "killed"]
        /\ UNCHANGED <<schema, tickers>>

Next == \/ \E o \in Options, s \in Settings : RunInitDb(o, s)
        \/ RunSetup
        \/ \E clear \in BOOLEAN, csv \in Csvs : RunSeed(clear, csv)
        \/ CreateExtension \/ DropTable \/ CreateTables \/ CreateTable
        \/ CreateHypertable \/ AddRetention \/ EnableCompression \/ AddCompression
        \/ CreateView \/ AddRefresh \/ Verify
        \/ Connect \/ Load \/ Delete \/ Upsert \/ CountTickers \/ Commit
        \/ Fail \/ Kill

Spec == Init /\ [][Next]_vars

------------------------------------------------------------------------------
Intervals == [AggTables -> Nat]
Schemas == [extension : BOOLEAN, tables : SUBSET Tables, chunk : Intervals,
            retention : Intervals, compressed : SUBSET AggTables,
            compression : Intervals, view : BOOLEAN, refresh : BOOLEAN]

TypeOK ==
    /\ schema \in Schemas
    /\ tickers \in [Symbols -> Values \cup {0}] /\ pending \in [Symbols -> Values \cup {0}]
    /\ run.ended \in {"no run", "runs", "complete", "raised", "killed"}
    /\ run.count \in 0 .. MaxRuns /\ (plan # <<>> <=> run.ended = "runs")
    /\ "sp500_tickers" \notin schema.tables => tickers = NoTickers

Complete(program) ==
    run.program = program /\ run.ended = "complete" /\ ~run.failed

HasAll(t) == /\ schema.chunk[t] # 0 /\ schema.retention[t] # 0
             /\ t \in schema.compressed /\ schema.compression[t] # 0

\* The last row of a symbol in the file counts.
LastValue(rows, s) ==
    LET ps == {p \in DOMAIN rows : rows[p].symbol = s}
    IN  rows[CHOOSE p \in ps : \A q \in ps : q <= p].value
SymbolsOf(rows) == {rows[p].symbol : p \in DOMAIN rows}
Imported(old, rows) ==
    [s \in Symbols |-> IF s \in SymbolsOf(rows) THEN LastValue(rows, s) ELSE old[s]]

\* Running the scripts again repairs the database: whatever runs of any program
\* were broken off before, one without a failed statement leaves every table,
\* hypertable, policy and view there is to be, and the values of the file for
\* each of its symbols; after --clear no others.
RerunRepairs ==
    /\ Complete("init_db") =>
           /\ schema.tables = Tables
           /\ ~run.options.skipHypertables =>
                  /\ \A t \in AggTables : HasAll(t)
                  /\ ~run.options.skipAggregate => schema.view /\ schema.refresh
    /\ Complete("hypertable_setup") =>
           /\ Tables \ {"sp500_tickers"} \subseteq schema.tables
           /\ \A t \in AggTables : HasAll(t)
           /\ schema.view /\ schema.refresh
    /\ Complete("seed_tickers") =>
           tickers = Imported(IF run.clear THEN NoTickers ELSE tickers, RowsOf(run.csv))

\* With --drop-existing the intervals are those of the settings, whichever
\* program had made the tables before and with which intervals.
FreshRunAppliesSettings ==
    Complete("init_db") /\ run.options.drop /\ ~run.options.skipHypertables =>
        \A t \in AggTables : /\ schema.chunk[t] = run.settings.chunk
                             /\ schema.retention[t] = run.settings.retention
                             /\ schema.compression[t] = run.settings.compression

\* The readers of sp500_tickers never see a part of an import: the table changes
\* by a whole file or by being emptied, whenever the script fails or is killed.
ImportAllOrNothing ==
    [][ \/ tickers' \in {tickers, NoTickers}
        \/ /\ run.program = "seed_tickers" /\ run.csv # Broken
           /\ tickers' = Imported(tickers, RowsOf(run.csv)) ]_vars

------------------------------------------------------------------------------
\* Not kept by the code: TLC refutes each of these (README, "Disagreements").

\* "Database initialization complete!" although a hypertable or a policy failed.
CompleteMeansComplete ==
    run.program = "init_db" /\ run.ended = "complete" /\ run.options = NoOptions
        => \A t \in AggTables : HasAll(t)

\* A changed DB_RETENTION_DAYS does not reach a database that has its policies.
RerunAppliesSettings ==
    Complete("init_db") /\ ~run.options.skipHypertables
        => \A t \in AggTables : schema.retention[t] = run.settings.retention

\* --clear is a transaction of its own: a file that cannot be imported leaves
\* the table empty.
FailedSeedKeepsTickers ==
    [][ run.program = "seed_tickers" /\ plan # <<>> /\ tickers # NoTickers
            => tickers' # NoTickers ]_vars
==============================================================================
