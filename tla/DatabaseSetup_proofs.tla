------------------------- MODULE DatabaseSetup_proofs ------------------------
(***************************************************************************)
(* The set-up programs keep the types and do what they are for, whatever   *)
(* settings, options and files they are given, whatever fails and whenever *)
(* they are killed.                                                        *)
(*                                                                         *)
(* Part 1 says what the plans hold, as statements that are somewhere in a  *)
(* plan (Has), fit the program (Fits) and stand after every DROP.  Part 2  *)
(* is the invariant of the two programs that create the schema, part 3     *)
(* that of the import, which counts the statements executed; part 4 has    *)
(* the theorems.                                                           *)
(***************************************************************************)
EXTENDS DatabaseSetup, SequenceTheorems, TLAPS

SchemaOps == {"connect", "extension", "drop", "tables", "table", "hypertable",
              "retention", "compress", "compression", "view", "refresh", "verify"}
EarlyOps == {"connect", "extension", "drop"}
TableOps == {"hypertable", "retention", "compress", "compression", "view", "refresh"}

SeedOps == {"connect", "load", "delete", "upsert", "count", "commit"}
Blocks == {<<>>, <<"view">>}
              \cup ({"hypertable", "retention", "compression"} \X AggTables)
AnyStatement == [op : SchemaOps \cup SeedOps, table : Tables \cup {""},
                 value : Nat \cup Row \cup Csvs, try : Blocks]

\* The interval a program writes into a statement.
Interval(op, r) ==
    IF r.program = "init_db"
    THEN CASE op = "hypertable" -> r.settings.chunk
           [] op = "retention" -> r.settings.retention
           [] OTHER -> r.settings.compression
    ELSE CASE op = "hypertable" -> DefaultChunk
           [] op = "retention" -> SetupRetention
           [] OTHER -> SetupCompression

\* A statement a program for the schema may have in its plan.
Fits(st, r) ==
    /\ st.op \in SchemaOps
    /\ st.op \in TableOps => st.table \in AggTables
    /\ st.op \in {"drop", "table"} => st.table \in Tables
    /\ st.op \in {"hypertable", "retention", "compression"} =>
           st.value = Interval(st.op, r)

\* A plan has a statement of that kind for that table.
Has(p, op, t) == \E i \in 1 .. Len(p) : p[i].op = op /\ p[i].table = t

\* Part of a plan, before and after the last DROP.
EarlyPart(p, r) == /\ p \in Seq(AnyStatement)
                   /\ \A i \in 1 .. Len(p) : Fits(p[i], r) /\ p[i].op \in EarlyOps
LatePart(p, r) == /\ p \in Seq(AnyStatement)
                  /\ \A i \in 1 .. Len(p) : Fits(p[i], r) /\ p[i].op \notin EarlyOps

------------------------------------------------------------------------------
\* 1. The plans.

LEMMA NoStatement == /\ <<>> \in Seq(AnyStatement) /\ Len(<<>>) = 0
                     /\ \A r : EarlyPart(<<>>, r) /\ LatePart(<<>>, r)
BY DEF EarlyPart, LatePart

\* A plan of one statement.
LEMMA OneStatement ==
    ASSUME NEW st \in AnyStatement
    PROVE  /\ <<st>> \in Seq(AnyStatement) /\ Len(<<st>>) = 1 /\ <<st>>[1] = st
           /\ Has(<<st>>, st.op, st.table)
           /\ \A r : Fits(st, r) /\ st.op \in EarlyOps => EarlyPart(<<st>>, r)
           /\ \A r : Fits(st, r) /\ st.op \notin EarlyOps => LatePart(<<st>>, r)
<1>1. /\ <<st>> \in Seq(AnyStatement) /\ Len(<<st>>) = 1 /\ <<st>>[1] = st
      /\ \A i \in 1 .. Len(<<st>>) : i = 1
  OBVIOUS
<1> QED
  BY <1>1 DEF Has, EarlyPart, LatePart

\* One part after the other.
LEMMA TwoParts ==
    ASSUME NEW a \in Seq(AnyStatement), NEW b \in Seq(AnyStatement)
    PROVE  /\ a \o b \in Seq(AnyStatement)
           /\ \A op, t : Has(a, op, t) \/ Has(b, op, t) => Has(a \o b, op, t)
           /\ \A r : EarlyPart(a, r) /\ EarlyPart(b, r) => EarlyPart(a \o b, r)
           /\ \A r : LatePart(a, r) /\ LatePart(b, r) => LatePart(a \o b, r)
<1> DEFINE c == a \o b
<1>1. /\ c \in Seq(AnyStatement) /\ Len(c) = Len(a) + Len(b)
      /\ \A i \in 1 .. Len(a) + Len(b) :
             c[i] = IF i <= Len(a) THEN a[i] ELSE b[i - Len(a)]
  BY ConcatProperties
<1>2. Len(a) \in Nat /\ Len(b) \in Nat
  OBVIOUS
<1> HIDE DEF c
<1>3. /\ \A i \in 1 .. Len(a) : i \in 1 .. Len(c) /\ c[i] = a[i]
      /\ \A i \in 1 .. Len(b) : i + Len(a) \in 1 .. Len(c) /\ c[i + Len(a)] = b[i]
      /\ \A i \in 1 .. Len(c) : \/ i \in 1 .. Len(a) /\ c[i] = a[i]
                                \/ i - Len(a) \in 1 .. Len(b) /\ c[i] = b[i - Len(a)]
  <2>1. \A i \in 1 .. Len(a) : i \in 1 .. Len(c) /\ c[i] = a[i]
    BY <1>1, <1>2
  <2>2. ASSUME NEW i \in 1 .. Len(b)
        PROVE  i + Len(a) \in 1 .. Len(c) /\ c[i + Len(a)] = b[i]
    <3>1. i + Len(a) \in 1 .. Len(a) + Len(b) /\ ~(i + Len(a) <= Len(a))
          /\ (i + Len(a)) - Len(a) = i
      BY <1>2
    <3>2. c[i + Len(a)] = b[(i + Len(a)) - Len(a)]
      BY <1>1, <3>1
    <3> QED
      BY <1>1, <3>1, <3>2
  <2>3. ASSUME NEW i \in 1 .. Len(c)
        PROVE  \/ i \in 1 .. Len(a) /\ c[i] = a[i]
               \/ i - Len(a) \in 1 .. Len(b) /\ c[i] = b[i - Len(a)]
    BY <1>1, <1>2
  <2> QED
    BY <2>1, <2>2, <2>3
<1>4. \A op, t : Has(a, op, t) \/ Has(b, op, t) => Has(c, op, t)
  BY <1>3 DEF Has
<1>5. \A r : EarlyPart(a, r) /\ EarlyPart(b, r) => EarlyPart(c, r)
  BY <1>1, <1>3 DEF EarlyPart
<1>6. \A r : LatePart(a, r) /\ LatePart(b, r) => LatePart(c, r)
  BY <1>1, <1>3 DEF LatePart
<1> QED
  BY <1>1, <1>4, <1>5, <1>6 DEF c

\* What part 2 has to know of a plan: what it needs is in it, in that order.
Ordered(p) == \A i, j \in 1 .. Len(p) :
                  i <= j /\ p[j].op = "drop" => p[i].op \in EarlyOps

LEMMA EarlyThenLate ==
    ASSUME NEW a, NEW b, NEW r, EarlyPart(a, r), LatePart(b, r)
    PROVE  /\ a \o b \in Seq(AnyStatement)
           /\ \A i \in 1 .. Len(a \o b) : Fits((a \o b)[i], r)
           /\ Ordered(a \o b)
           /\ \A op, t : Has(a, op, t) \/ Has(b, op, t) => Has(a \o b, op, t)
<1> DEFINE c == a \o b
<1>0. a \in Seq(AnyStatement) /\ b \in Seq(AnyStatement)
  BY DEF EarlyPart, LatePart
<1>1. /\ c \in Seq(AnyStatement) /\ Len(c) = Len(a) + Len(b)
      /\ \A i \in 1 .. Len(a) + Len(b) :
             c[i] = IF i <= Len(a) THEN a[i] ELSE b[i - Len(a)]
  BY <1>0, ConcatProperties
<1>2. Len(a) \in Nat /\ Len(b) \in Nat
  BY <1>0
<1>3. \A op, t : Has(a, op, t) \/ Has(b, op, t) => Has(c, op, t)
  BY <1>0, TwoParts
<1> HIDE DEF c
<1>4. \A i \in 1 .. Len(c) :
          \/ i <= Len(a) /\ Fits(c[i], r) /\ c[i].op \in EarlyOps
          \/ i > Len(a) /\ Fits(c[i], r) /\ c[i].op \notin EarlyOps
  <2> SUFFICES ASSUME NEW i \in 1 .. Len(c)
               PROVE  \/ i <= Len(a) /\ Fits(c[i], r) /\ c[i].op \in EarlyOps
                      \/ i > Len(a) /\ Fits(c[i], r) /\ c[i].op \notin EarlyOps
    OBVIOUS
  <2>1. CASE i <= Len(a)
    <3>1. i \in 1 .. Len(a) /\ c[i] = a[i]
      BY <1>1, <1>2, <2>1
    <3> QED
      BY <2>1, <3>1 DEF EarlyPart
  <2>2. CASE i > Len(a)
    <3>1. i - Len(a) \in 1 .. Len(b) /\ c[i] = b[i - Len(a)]
      BY <1>1, <1>2, <2>2
    <3> QED
      BY <2>2, <3>1 DEF LatePart
  <2> QED
    BY <1>1, <1>2, <2>1, <2>2
<1>5. Ordered(c)
  <2> SUFFICES ASSUME NEW i \in 1 .. Len(c), NEW j \in 1 .. Len(c), i <= j,
                      c[j].op = "drop"
               PROVE  c[i].op \in EarlyOps
    BY DEF Ordered
  <2>1. j <= Len(a)
    BY <1>4 DEF EarlyOps
  <2>2. i <= Len(a)
    BY <1>1, <1>2, <2>1
  <2> QED
    BY <1>4, <1>2, <2>2
<1> QED
  BY <1>1, <1>3, <1>4, <1>5 DEF c

\* A statement that fits a program and stands after the DROPs, alone or with
\* the next one of its try block.
LateStatement(st, r) == st \in AnyStatement /\ Fits(st, r) /\ st.op \notin EarlyOps

LEMMA LateOne ==
    ASSUME NEW r, NEW st, LateStatement(st, r)
    PROVE  LatePart(<<st>>, r) /\ Has(<<st>>, st.op, st.table)
BY OneStatement DEF LateStatement

LEMMA LateTwo ==
    ASSUME NEW r, NEW x, NEW y, LateStatement(x, r), LateStatement(y, r)
    PROVE  /\ LatePart(<<x, y>>, r)
           /\ Has(<<x, y>>, x.op, x.table) /\ Has(<<x, y>>, y.op, y.table)
<1>1. /\ <<x, y>> \in Seq(AnyStatement) /\ Len(<<x, y>>) = 2
      /\ <<x, y>>[1] = x /\ <<x, y>>[2] = y
      /\ \A i \in 1 .. Len(<<x, y>>) : i = 1 \/ i = 2
  BY DEF LateStatement
<1> QED
  BY <1>1 DEF Has, LatePart, LateStatement

LEMMA LateJoin ==
    ASSUME NEW r, NEW a, NEW b, LatePart(a, r), LatePart(b, r)
    PROVE  /\ LatePart(a \o b, r)
           /\ \A op, t : Has(a, op, t) \/ Has(b, op, t) => Has(a \o b, op, t)
<1>1. a \in Seq(AnyStatement) /\ b \in Seq(AnyStatement)
  BY DEF LatePart
<1> QED
  BY <1>1, TwoParts

\* Statements outside of try blocks.
LEMMA LatePlain ==
    ASSUME NEW r, NEW op \in SchemaOps \ EarlyOps, NEW t \in Tables \cup {""},
           NEW v \in Nat,
           op \in TableOps => t \in AggTables,
           op = "table" => t \in Tables,
           op \in {"hypertable", "retention", "compression"} => v = Interval(op, r)
    PROVE  LatePart(Plain(op, t, v), r) /\ Has(Plain(op, t, v), op, t)
<1> DEFINE st == Statement(op, t, v, <<>>)
<1>1. /\ st \in AnyStatement /\ st.op = op /\ st.table = t /\ st.value = v
  <2>1. <<>> \in Blocks /\ v \in Nat \cup Row \cup Csvs
    BY DEF Blocks
  <2> QED
    BY <2>1 DEF Statement, AnyStatement
<1> HIDE DEF st
<1>2. LateStatement(st, r)
  BY <1>1 DEF LateStatement, Fits, EarlyOps
<1> QED
  BY <1>1, <1>2, LateOne DEF Plain, st

\* A statement for a hypertable in the try block of its table.
InBlock(op, t, v, block) == Statement(op, t, v, <<block, t>>)

LEMMA InBlockFits ==
    ASSUME NEW r, NEW op \in {"hypertable", "retention", "compress", "compression"},
           NEW t \in AggTables, NEW v \in Nat,
           NEW block \in {"hypertable", "retention", "compression"},
           op # "compress" => v = Interval(op, r)
    PROVE  /\ LateStatement(InBlock(op, t, v, block), r)
           /\ InBlock(op, t, v, block).op = op
           /\ InBlock(op, t, v, block).table = t
<1> DEFINE st == InBlock(op, t, v, block)
<1>1. st \in AnyStatement /\ st.op = op /\ st.table = t /\ st.value = v
  <2>1. op \in SchemaOps /\ t \in Tables /\ <<block, t>> \in Blocks
        /\ v \in Nat \cup Row \cup Csvs
    BY DEF SchemaOps, Tables, Blocks
  <2> QED
    BY <2>1 DEF InBlock, Statement, AnyStatement
<1> HIDE DEF st
<1>2. LateStatement(st, r)
  BY <1>1 DEF LateStatement, Fits, EarlyOps, SchemaOps
<1> QED
  BY <1>1, <1>2 DEF st

LEMMA HypertablePlanIs ==
    ASSUME NEW r, NEW v \in Nat, v = Interval("hypertable", r)
    PROVE  /\ LatePart(HypertablePlan(v), r)
           /\ \A t \in AggTables : Has(HypertablePlan(v), "hypertable", t)
<1> DEFINE P(t) == <<InBlock("hypertable", t, v, "hypertable")>>
           a == P("stock_agg_second")
           b == P("stock_agg_minute")
<1>1. ASSUME NEW t \in AggTables
      PROVE  LatePart(P(t), r) /\ Has(P(t), "hypertable", t)
  <2> DEFINE x == InBlock("hypertable", t, v, "hypertable")
  <2>1. LateStatement(x, r) /\ x.op = "hypertable" /\ x.table = t
    BY InBlockFits
  <2> HIDE DEF x
  <2>2. LatePart(<<x>>, r) /\ Has(<<x>>, "hypertable", t)
    BY <2>1, LateOne
  <2> QED
    BY <2>2 DEF x
<1>2. LatePart(a, r) /\ LatePart(b, r) /\ Has(a, "hypertable", "stock_agg_second")
      /\ Has(b, "hypertable", "stock_agg_minute")
  BY <1>1 DEF AggTables
<1>3. HypertablePlan(v) = a \o b
  BY DEF HypertablePlan, ForBoth, InBlock
<1> HIDE DEF P, a, b
<1> QED
  BY <1>2, <1>3, LateJoin DEF AggTables

LEMMA RetentionPlanIs ==
    ASSUME NEW r, NEW v \in Nat, v = Interval("retention", r)
    PROVE  /\ LatePart(RetentionPlan(v), r)
           /\ \A t \in AggTables : Has(RetentionPlan(v), "retention", t)
<1> DEFINE P(t) == <<InBlock("retention", t, v, "retention")>>
           a == P("stock_agg_second")
           b == P("stock_agg_minute")
<1>1. ASSUME NEW t \in AggTables
      PROVE  LatePart(P(t), r) /\ Has(P(t), "retention", t)
  <2> DEFINE x == InBlock("retention", t, v, "retention")
  <2>1. LateStatement(x, r) /\ x.op = "retention" /\ x.table = t
    BY InBlockFits
  <2> HIDE DEF x
  <2>2. LatePart(<<x>>, r) /\ Has(<<x>>, "retention", t)
    BY <2>1, LateOne
  <2> QED
    BY <2>2 DEF x
<1>2. LatePart(a, r) /\ LatePart(b, r) /\ Has(a, "retention", "stock_agg_second")
      /\ Has(b, "retention", "stock_agg_minute")
  BY <1>1 DEF AggTables
<1>3. RetentionPlan(v) = a \o b
  BY DEF RetentionPlan, ForBoth, InBlock
<1> HIDE DEF P, a, b
<1> QED
  BY <1>2, <1>3, LateJoin DEF AggTables

LEMMA CompressionPlanIs ==
    ASSUME NEW r, NEW v \in Nat, v = Interval("compression", r)
    PROVE  /\ LatePart(CompressionPlan(v), r)
           /\ \A t \in AggTables, op \in {"compress", "compression"} :
                  Has(CompressionPlan(v), op, t)
<1> DEFINE P(t) == <<InBlock("compress", t, 0, "compression"),
                     InBlock("compression", t, v, "compression")>>
           a == P("stock_agg_second")
           b == P("stock_agg_minute")
<1>1. ASSUME NEW t \in AggTables
      PROVE  LatePart(P(t), r) /\ Has(P(t), "compress", t) /\ Has(P(t), "compression", t)
  <2> DEFINE x == InBlock("compress", t, 0, "compression")
             y == InBlock("compression", t, v, "compression")
  <2>1. /\ LateStatement(x, r) /\ x.op = "compress" /\ x.table = t
        /\ LateStatement(y, r) /\ y.op = "compression" /\ y.table = t
    BY InBlockFits
  <2> HIDE DEF x, y
  <2>2. LatePart(<<x, y>>, r) /\ Has(<<x, y>>, "compress", t)
        /\ Has(<<x, y>>, "compression", t)
    BY <2>1, LateTwo
  <2> QED
    BY <2>2 DEF x, y
<1>2. /\ LatePart(a, r) /\ LatePart(b, r)
      /\ \A op \in {"compress", "compression"} :
             Has(a, op, "stock_agg_second") /\ Has(b, op, "stock_agg_minute")
  BY <1>1 DEF AggTables
<1>3. CompressionPlan(v) = a \o b
  BY DEF CompressionPlan, ForBoth, InBlock
<1> HIDE DEF P, a, b
<1>4. /\ LatePart(a \o b, r)
      /\ \A op, t : Has(a, op, t) \/ Has(b, op, t) => Has(a \o b, op, t)
  BY <1>2, LateJoin
<1>5. ASSUME NEW t \in AggTables, NEW op \in {"compress", "compression"}
      PROVE  Has(a \o b, op, t)
  BY <1>2, <1>4 DEF AggTables
<1> QED
  BY <1>3, <1>4, <1>5

LEMMA AggregatePlanIs ==
    ASSUME NEW r
    PROVE  /\ LatePart(AggregatePlan, r)
           /\ \A op \in {"view", "refresh"} : Has(AggregatePlan, op, "stock_agg_second")
<1> DEFINE x == Statement("view", "stock_agg_second", 0, <<"view">>)
           y == Statement("refresh", "stock_agg_second", 0, <<"view">>)
<1>1. /\ x \in AnyStatement /\ x.op = "view" /\ x.table = "stock_agg_second"
      /\ y \in AnyStatement /\ y.op = "refresh" /\ y.table = "stock_agg_second"
  <2>1. /\ <<"view">> \in Blocks /\ 0 \in Nat \cup Row \cup Csvs
        /\ "view" \in SchemaOps /\ "refresh" \in SchemaOps
        /\ "stock_agg_second" \in Tables
    BY DEF SchemaOps, Tables, AggTables, Blocks
  <2> QED
    BY <2>1 DEF Statement, AnyStatement
<1> HIDE DEF x, y
<1>2. LateStatement(x, r) /\ LateStatement(y, r)
  BY <1>1 DEF LateStatement, Fits, EarlyOps, SchemaOps, AggTables
<1>3. LatePart(<<x, y>>, r) /\ Has(<<x, y>>, "view", "stock_agg_second")
      /\ Has(<<x, y>>, "refresh", "stock_agg_second")
  BY <1>1, <1>2, LateTwo
<1> QED
  BY <1>3 DEF AggregatePlan, x, y

\* The same before the last DROP.
LEMMA EarlyJoin ==
    ASSUME NEW r, NEW a, NEW b, EarlyPart(a, r), EarlyPart(b, r)
    PROVE  /\ EarlyPart(a \o b, r)
           /\ \A op, t : Has(a, op, t) \/ Has(b, op, t) => Has(a \o b, op, t)
<1>1. a \in Seq(AnyStatement) /\ b \in Seq(AnyStatement)
  BY DEF EarlyPart
<1> QED
  BY <1>1, TwoParts

LEMMA EarlyPlain ==
    ASSUME NEW r, NEW op \in EarlyOps, NEW t \in Tables \cup {""},
           op = "drop" => t \in Tables
    PROVE  EarlyPart(Plain(op, t, 0), r) /\ Has(Plain(op, t, 0), op, t)
<1> DEFINE st == Statement(op, t, 0, <<>>)
<1>1. /\ st \in AnyStatement /\ st.op = op /\ st.table = t
  <2>1. <<>> \in Blocks /\ 0 \in Nat \cup Row \cup Csvs
        /\ op \in SchemaOps \cup SeedOps
    BY DEF Blocks, EarlyOps, SchemaOps
  <2> QED
    BY <2>1 DEF Statement, AnyStatement
<1> HIDE DEF st
<1>2. Fits(st, r)
  BY <1>1 DEF Fits, EarlyOps, SchemaOps, TableOps
<1> QED
  BY <1>1, <1>2, OneStatement DEF Plain, st

LEMMA OpeningIs ==
    ASSUME NEW r, NEW drop \in BOOLEAN
    PROVE  /\ EarlyPart(Opening(drop), r)
           /\ drop => \A t \in AggTables : Has(Opening(drop), "drop", t)
<1> DEFINE P(t) == Plain("drop", t, 0)
           c == Plain("connect", "", 0)
           e == Plain("extension", "", 0)
           d == P("stock_agg_second") \o P("stock_agg_minute")
                    \o P("dead_letter_queue") \o P("sp500_tickers")
<1>1. ASSUME NEW t \in Tables
      PROVE  EarlyPart(P(t), r) /\ Has(P(t), "drop", t)
  BY EarlyPlain DEF EarlyOps
<1>2. EarlyPart(c, r) /\ EarlyPart(e, r)
  BY EarlyPlain DEF EarlyOps
<1>3. /\ "stock_agg_second" \in Tables /\ "stock_agg_minute" \in Tables
      /\ "dead_letter_queue" \in Tables /\ "sp500_tickers" \in Tables
  BY DEF Tables, AggTables
<1>4. EarlyPart(c \o e, r)
  <2> HIDE DEF c, e
  <2> QED
    BY <1>2, EarlyJoin
<1>5. DropPlan = (P("stock_agg_second") \o P("stock_agg_minute"))
                     \o P("dead_letter_queue") \o P("sp500_tickers")
  BY DEF DropPlan, ForBoth
<1>6. EarlyPart(d, r) /\ \A t \in AggTables : Has(d, "drop", t)
  <2> DEFINE p == P("stock_agg_second")
             q == P("stock_agg_minute")
             u == P("dead_letter_queue")
             v == P("sp500_tickers")
  <2>1. /\ EarlyPart(p, r) /\ EarlyPart(q, r) /\ EarlyPart(u, r) /\ EarlyPart(v, r)
        /\ Has(p, "drop", "stock_agg_second") /\ Has(q, "drop", "stock_agg_minute")
    BY <1>1, <1>3
  <2> HIDE DEF p, q, u, v
  <2>2. /\ EarlyPart(p \o q, r)
        /\ Has(p \o q, "drop", "stock_agg_second")
        /\ Has(p \o q, "drop", "stock_agg_minute")
    BY <2>1, EarlyJoin
  <2> DEFINE w == p \o q
  <2> HIDE DEF w
  <2>3. /\ EarlyPart(w \o u, r)
        /\ Has(w \o u, "drop", "stock_agg_second")
        /\ Has(w \o u, "drop", "stock_agg_minute")
    BY <2>1, <2>2, EarlyJoin DEF w
  <2> DEFINE x == w \o u
  <2> HIDE DEF x
  <2>4. /\ EarlyPart(x \o v, r)
        /\ Has(x \o v, "drop", "stock_agg_second")
        /\ Has(x \o v, "drop", "stock_agg_minute")
    BY <2>1, <2>3, EarlyJoin DEF x
  <2> QED
    BY <2>4 DEF AggTables, p, q, u, v, w, x
<1> HIDE DEF P
<1>7. EarlyPart(DropPlan, r) /\ \A t \in AggTables : Has(DropPlan, "drop", t)
  BY <1>5, <1>6
<1> DEFINE b == c \o e
<1>8. Opening(drop) = b \o (IF drop THEN DropPlan ELSE <<>>)
  BY DEF Opening
<1> HIDE DEF b, d, c, e
<1>9. EarlyPart(b, r)
  BY <1>4 DEF b
<1>10. CASE drop
  <2>1. /\ EarlyPart(b \o DropPlan, r)
        /\ \A op, t : Has(b, op, t) \/ Has(DropPlan, op, t) => Has(b \o DropPlan, op, t)
    BY <1>7, <1>9, EarlyJoin
  <2> QED
    BY <1>7, <1>8, <1>10, <2>1
<1>11. CASE ~drop
  <2>1. EarlyPart(b \o <<>>, r)
    BY <1>9, NoStatement, EarlyJoin
  <2> QED
    BY <1>8, <1>11, <2>1
<1> QED
  BY <1>10, <1>11

\* What a run of a program has to do to the schema: the kind of the statement
\* and its table.
HyperOps == {"hypertable", "retention", "compress", "compression"}
Needed(r, op, t) ==
    \/ /\ r.program = "init_db"
       /\ \/ op = "tables" /\ t = ""
          \/ ~r.options.skipHypertables /\ op \in HyperOps /\ t \in AggTables
          \/ /\ ~r.options.skipHypertables /\ ~r.options.skipAggregate
             /\ op \in {"view", "refresh"} /\ t = "stock_agg_second"
    \/ /\ r.program = "hypertable_setup"
       /\ \/ op = "table" /\ t \in Tables \ {"sp500_tickers"}
          \/ op \in HyperOps /\ t \in AggTables
          \/ op \in {"view", "refresh"} /\ t = "stock_agg_second"

\* All of it is in the plan, and the DROPs that were asked for, in good order.
PlanFor(p, r) == /\ p \in Seq(AnyStatement) /\ p # <<>>
                 /\ \A i \in 1 .. Len(p) : Fits(p[i], r)
                 /\ Ordered(p)
                 /\ \A op, t : Needed(r, op, t) => Has(p, op, t)
                 /\ r.options.drop => \A t \in AggTables : Has(p, "drop", t)

LEMMA PlanIs ==
    ASSUME NEW r, NEW b, NEW drop \in BOOLEAN, LatePart(b, r),
           r.options.drop = drop,
           \A op, t : Needed(r, op, t) => Has(b, op, t),
           \E op, t : Needed(r, op, t)
    PROVE  PlanFor(Opening(drop) \o b, r)
<1> DEFINE a == Opening(drop)
           p == a \o b
<1>1. EarlyPart(a, r) /\ (drop => \A t \in AggTables : Has(a, "drop", t))
  BY OpeningIs
<1> HIDE DEF a
<1>2. /\ p \in Seq(AnyStatement) /\ \A i \in 1 .. Len(p) : Fits(p[i], r)
      /\ Ordered(p)
      /\ \A op, t : Has(a, op, t) \/ Has(b, op, t) => Has(p, op, t)
  BY <1>1, EarlyThenLate
<1> HIDE DEF p
<1>3. p # <<>>
  <2>1. PICK op, t : Has(p, op, t)
    BY <1>2
  <2>2. PICK i \in 1 .. Len(p) : TRUE
    BY <2>1 DEF Has
  <2> QED
    BY <2>2
<1> QED
  BY <1>1, <1>2, <1>3 DEF PlanFor, p, a

\* The plan of init_db, for any options and settings.
LEMMA InitPlanIs ==
    ASSUME NEW r, NEW o \in Options, NEW s \in Setting,
           r.program = "init_db", r.options = o, r.settings = s
    PROVE  PlanFor(InitPlan(o, s), r)
<1> DEFINE T == Plain("tables", "", 0)
           HP == HypertablePlan(s.chunk)
           RP == RetentionPlan(s.retention)
           CP == CompressionPlan(s.compression)
           H == IF o.skipHypertables THEN <<>> ELSE HP \o RP \o CP
           A == IF o.skipHypertables \/ o.skipAggregate THEN <<>> ELSE AggregatePlan
           V == Plain("verify", "", 0)
<1>1. LatePart(T, r) /\ Has(T, "tables", "") /\ LatePart(V, r)
  <2>1. "tables" \in SchemaOps \ EarlyOps /\ "verify" \in SchemaOps \ EarlyOps
    BY DEF SchemaOps, EarlyOps
  <2> QED
    BY <2>1, LatePlain DEF TableOps
<1>2. s.chunk \in Nat /\ s.retention \in Nat /\ s.compression \in Nat
  BY DEF Setting
<1>3. /\ s.chunk = Interval("hypertable", r) /\ s.retention = Interval("retention", r)
      /\ s.compression = Interval("compression", r)
  BY DEF Interval
<1>4. /\ LatePart(HP, r) /\ \A t \in AggTables : Has(HP, "hypertable", t)
      /\ LatePart(RP, r) /\ \A t \in AggTables : Has(RP, "retention", t)
      /\ LatePart(CP, r) /\ \A t \in AggTables, op \in {"compress", "compression"} :
                                Has(CP, op, t)
  BY <1>2, <1>3, HypertablePlanIs, RetentionPlanIs, CompressionPlanIs
<1>5. /\ LatePart(AggregatePlan, r)
      /\ \A op \in {"view", "refresh"} : Has(AggregatePlan, op, "stock_agg_second")
  BY AggregatePlanIs
<1>6. InitSchema(o, s) = T \o H \o A \o V
  BY DEF InitSchema
<1> HIDE DEF T, V, HP, RP, CP
<1>7. /\ LatePart(H, r)
      /\ ~o.skipHypertables => \A op \in HyperOps, t \in AggTables : Has(H, op, t)
  <2>1. LatePart(HP \o RP, r)
        /\ \A op, t : Has(HP, op, t) \/ Has(RP, op, t) => Has(HP \o RP, op, t)
    BY <1>4, LateJoin
  <2> DEFINE W == HP \o RP
  <2> HIDE DEF W
  <2>2. LatePart(W \o CP, r)
        /\ \A op, t : Has(W, op, t) \/ Has(CP, op, t) => Has(W \o CP, op, t)
    BY <1>4, <2>1, LateJoin DEF W
  <2>3. \A op \in HyperOps, t \in AggTables : Has(W \o CP, op, t)
    BY <1>4, <2>1, <2>2 DEF HyperOps, W
  <2> QED
    BY <2>2, <2>3, NoStatement DEF W
<1>8. /\ LatePart(A, r)
      /\ ~o.skipHypertables /\ ~o.skipAggregate
            => \A op \in {"view", "refresh"} : Has(A, op, "stock_agg_second")
  BY <1>5, NoStatement
<1> HIDE DEF H, A
<1>9. LatePart(T \o H, r)
      /\ \A op, t : Has(T, op, t) \/ Has(H, op, t) => Has(T \o H, op, t)
  BY <1>1, <1>7, LateJoin
<1> DEFINE X == T \o H
<1> HIDE DEF X
<1>10. LatePart(X \o A, r)
       /\ \A op, t : Has(X, op, t) \/ Has(A, op, t) => Has(X \o A, op, t)
  BY <1>8, <1>9, LateJoin DEF X
<1> DEFINE Y == X \o A
<1> HIDE DEF Y
<1>11. LatePart(Y \o V, r)
       /\ \A op, t : Has(Y, op, t) \/ Has(V, op, t) => Has(Y \o V, op, t)
  BY <1>1, <1>10, LateJoin DEF Y
<1>12. \A op, t : Needed(r, op, t) => Has(Y \o V, op, t)
  BY <1>1, <1>7, <1>8, <1>9, <1>10, <1>11 DEF Needed, X, Y
<1>13. Needed(r, "tables", "") /\ r.options.drop = o.drop /\ o.drop \in BOOLEAN
  BY DEF Needed, Options
<1>14. PlanFor(Opening(o.drop) \o (Y \o V), r)
  BY <1>11, <1>12, <1>13, PlanIs
<1> QED
  BY <1>6, <1>14 DEF InitPlan, X, Y

\* The plan of hypertable_setup.
LEMMA SetupPlanIs ==
    ASSUME NEW r, r.program = "hypertable_setup", r.options = NoOptions
    PROVE  PlanFor(SetupPlan, r)
<1> DEFINE P(t) == Plain("table", t, 0)
           HP(t) == Plain("hypertable", t, DefaultChunk)
           RP(t) == Plain("retention", t, SetupRetention)
           s == "stock_agg_second"
           m == "stock_agg_minute"
           T == (P(s) \o P(m)) \o P("dead_letter_queue")
           H == (HP(s) \o RP(s)) \o (HP(m) \o RP(m))
           V == Plain("view", s, 0)
           R == Plain("refresh", s, 0)
           CP == CompressionPlan(SetupCompression)
<1>1. /\ DefaultChunk \in Nat /\ SetupRetention \in Nat /\ SetupCompression \in Nat
      /\ DefaultChunk = Interval("hypertable", r)
      /\ SetupRetention = Interval("retention", r)
      /\ SetupCompression = Interval("compression", r)
  BY SetupAssumption DEF Interval
<1>2. /\ {"table", "hypertable", "retention", "view", "refresh"}
             \subseteq SchemaOps \ EarlyOps
      /\ s \in AggTables /\ m \in AggTables /\ AggTables \subseteq Tables
      /\ "dead_letter_queue" \in Tables
  BY DEF SchemaOps, EarlyOps, AggTables, Tables
<1>3. \A t \in Tables : LatePart(P(t), r) /\ Has(P(t), "table", t)
  BY <1>2, LatePlain DEF TableOps
<1>4. \A t \in AggTables : /\ LatePart(HP(t), r) /\ Has(HP(t), "hypertable", t)
                           /\ LatePart(RP(t), r) /\ Has(RP(t), "retention", t)
  BY <1>1, <1>2, LatePlain
<1>5. /\ LatePart(V, r) /\ Has(V, "view", s)
      /\ LatePart(R, r) /\ Has(R, "refresh", s)
  BY <1>2, LatePlain
<1>6. /\ LatePart(CP, r)
      /\ \A t \in AggTables, op \in {"compress", "compression"} : Has(CP, op, t)
  BY <1>1, CompressionPlanIs
<1>7. SetupSchema = T \o H \o V \o R \o CP
  <2>1. ForBoth(LAMBDA t : Plain("table", t, 0)) = P(s) \o P(m)
    BY DEF ForBoth
  <2>2. ForBoth(LAMBDA t : Plain("hypertable", t, DefaultChunk)
                             \o Plain("retention", t, SetupRetention))
          = (HP(s) \o RP(s)) \o (HP(m) \o RP(m))
    BY DEF ForBoth
  <2> QED
    BY <2>1, <2>2 DEF SetupSchema
<1> HIDE DEF P, HP, RP, V, R, CP
<1>8. LatePart(T, r) /\ \A t \in Tables \ {"sp500_tickers"} : Has(T, "table", t)
  <2> DEFINE D == P("dead_letter_queue")
             W == P(s) \o P(m)
  <2>1. /\ LatePart(P(s), r) /\ LatePart(P(m), r) /\ LatePart(D, r)
        /\ Has(P(s), "table", s) /\ Has(P(m), "table", m)
        /\ Has(D, "table", "dead_letter_queue")
    BY <1>2, <1>3
  <2>2. LatePart(W, r) /\ Has(W, "table", s) /\ Has(W, "table", m)
    BY <2>1, LateJoin
  <2> HIDE DEF D, W
  <2>3. /\ LatePart(W \o D, r) /\ Has(W \o D, "table", s) /\ Has(W \o D, "table", m)
        /\ Has(W \o D, "table", "dead_letter_queue")
    BY <2>1, <2>2, LateJoin
  <2> QED
    BY <2>3 DEF D, W, Tables, AggTables
<1>9. /\ LatePart(H, r)
      /\ \A op \in {"hypertable", "retention"}, t \in AggTables : Has(H, op, t)
  <2> DEFINE A == HP(s) \o RP(s)
             B == HP(m) \o RP(m)
  <2>1. /\ LatePart(HP(s), r) /\ LatePart(RP(s), r) /\ LatePart(HP(m), r)
        /\ LatePart(RP(m), r)
        /\ Has(HP(s), "hypertable", s) /\ Has(RP(s), "retention", s)
        /\ Has(HP(m), "hypertable", m) /\ Has(RP(m), "retention", m)
    BY <1>2, <1>4
  <2>2. /\ LatePart(A, r) /\ Has(A, "hypertable", s) /\ Has(A, "retention", s)
        /\ LatePart(B, r) /\ Has(B, "hypertable", m) /\ Has(B, "retention", m)
    BY <2>1, LateJoin
  <2> HIDE DEF A, B
  <2>3. /\ LatePart(A \o B, r)
        /\ \A op, t : Has(A, op, t) \/ Has(B, op, t) => Has(A \o B, op, t)
    BY <2>2, LateJoin
  <2> QED
    BY <2>2, <2>3 DEF A, B, AggTables
<1> HIDE DEF T, H
<1> DEFINE X == T \o H
           Y == X \o V
           Z == Y \o R
<1>10. LatePart(X, r)
       /\ \A op, t : Has(T, op, t) \/ Has(H, op, t) => Has(X, op, t)
  BY <1>8, <1>9, LateJoin
<1> HIDE DEF X
<1>11. LatePart(Y, r)
       /\ \A op, t : Has(X, op, t) \/ Has(V, op, t) => Has(Y, op, t)
  BY <1>5, <1>10, LateJoin
<1> HIDE DEF Y
<1>12. LatePart(Z, r)
       /\ \A op, t : Has(Y, op, t) \/ Has(R, op, t) => Has(Z, op, t)
  BY <1>5, <1>11, LateJoin
<1> HIDE DEF Z
<1>13. LatePart(Z \o CP, r)
       /\ \A op, t : Has(Z, op, t) \/ Has(CP, op, t) => Has(Z \o CP, op, t)
  BY <1>6, <1>12, LateJoin
<1>14. ASSUME NEW op, NEW t, Needed(r, op, t)
       PROVE  Has(Z \o CP, op, t)
  <2>1. CASE op = "table" /\ t \in Tables \ {"sp500_tickers"}
    BY <1>8, <1>10, <1>11, <1>12, <1>13, <2>1
  <2>2. CASE op \in {"hypertable", "retention"} /\ t \in AggTables
    BY <1>9, <1>10, <1>11, <1>12, <1>13, <2>2
  <2>3. CASE op \in {"compress", "compression"} /\ t \in AggTables
    BY <1>6, <1>13, <2>3
  <2>4. CASE op \in {"view", "refresh"} /\ t = "stock_agg_second"
    BY <1>5, <1>11, <1>12, <1>13, <2>4
  <2> QED
    BY <1>14, <2>1, <2>2, <2>3, <2>4 DEF Needed, HyperOps
<1>15. Needed(r, "view", "stock_agg_second") /\ r.options.drop = FALSE
  BY DEF Needed, NoOptions
<1>16. PlanFor(Opening(FALSE) \o (Z \o CP), r)
  BY <1>13, <1>14, <1>15, PlanIs
<1> QED
  BY <1>7, <1>16 DEF SetupPlan, X, Y, Z

------------------------------------------------------------------------------
\* 2. The programs that create the schema.

\* What a statement is there for.
Done(sch, op, t) == /\ op = "tables" => sch.tables = Tables
                    /\ op = "table" => t \in sch.tables
                    /\ op = "hypertable" => sch.chunk[t] # 0
                    /\ op = "retention" => sch.retention[t] # 0
                    /\ op = "compress" => t \in sch.compressed
                    /\ op = "compression" => sch.compression[t] # 0
                    /\ op = "view" => sch.view
                    /\ op = "refresh" => sch.refresh

\* The intervals of a table, if it has any, are those of the settings.
Fresh(sch, t, r) == /\ sch.chunk[t] \in {0, r.settings.chunk}
                    /\ sch.retention[t] \in {0, r.settings.retention}
                    /\ sch.compression[t] \in {0, r.settings.compression}

\* What has to be done is done or in the plan; all of it is in the plan as long
\* as a DROP is.
Progress(p, r, sch) ==
    /\ \A op, t : Needed(r, op, t) => Has(p, op, t) \/ Done(sch, op, t)
    /\ \A d : Has(p, "drop", d) => \A op, t : Needed(r, op, t) => Has(p, op, t)
    /\ r.program = "init_db" /\ r.options.drop =>
           \A t \in AggTables : Has(p, "drop", t) \/ Fresh(sch, t, r)

Programs == {"none", "init_db", "hypertable_setup", "seed_tickers"}
RunOK == /\ run \in [program : Programs, options : Options,
                     settings : Settings \cup {SomeSetting}, clear : BOOLEAN,
                     csv : Csvs \cup {<<>>}, failed : BOOLEAN,
                     ended : {"no run", "runs", "complete", "raised", "killed"},
                     count : 0 .. MaxRuns]
         /\ run.program = "none" => run.ended = "no run"
         /\ run.program = "init_db" => run.settings \in Settings
         /\ run.program = "seed_tickers" => run.csv \in Csvs

SchemaInv ==
    run.program \in {"init_db", "hypertable_setup"} =>
        /\ \A i \in 1 .. Len(plan) : Fits(plan[i], run)
        /\ Ordered(plan)
        /\ ~run.failed /\ run.ended \in {"runs", "complete"} =>
               Progress(plan, run, schema)

\* The rest of a plan after d statements.
Rest(p, q, d) == /\ q \in Seq(AnyStatement) /\ Len(q) = Len(p) - d
                 /\ \A i \in 1 .. Len(q) : q[i] = p[i + d] /\ i + d \in 1 .. Len(p)
                 /\ \A r : (\A i \in 1 .. Len(p) : Fits(p[i], r))
                              => \A i \in 1 .. Len(q) : Fits(q[i], r)
                 /\ Ordered(p) => Ordered(q)

LEMMA RestOfPlan ==
    ASSUME NEW p \in Seq(AnyStatement), p # <<>>, NEW d \in 1 .. Len(p)
    PROVE  Rest(p, SubSeq(p, d + 1, Len(p)), d)
<1> DEFINE q == SubSeq(p, d + 1, Len(p))
<1>1. Len(p) \in Nat /\ d + 1 \in Int /\ Len(p) \in Int
  OBVIOUS
<1>2. \A i \in d + 1 .. Len(p) : p[i] \in AnyStatement
  BY <1>1
<1>3. /\ q \in Seq(AnyStatement)
      /\ Len(q) = IF d + 1 <= Len(p) THEN Len(p) - (d + 1) + 1 ELSE 0
      /\ \A i \in 1 .. Len(p) - (d + 1) + 1 : q[i] = p[d + 1 + i - 1]
  BY <1>1, <1>2, SubSeqProperties
<1> HIDE DEF q
<1>4. /\ Len(q) = Len(p) - d
      /\ \A i \in 1 .. Len(q) : q[i] = p[i + d] /\ i + d \in 1 .. Len(p)
  <2>1. Len(q) = Len(p) - d
    BY <1>1, <1>3
  <2>2. ASSUME NEW i \in 1 .. Len(q)
        PROVE  q[i] = p[i + d] /\ i + d \in 1 .. Len(p)
    <3>1. i \in 1 .. Len(p) - (d + 1) + 1 /\ d + 1 + i - 1 = i + d
          /\ i + d \in 1 .. Len(p)
      BY <1>1, <2>1
    <3>2. q[i] = p[d + 1 + i - 1]
      BY <1>3, <3>1
    <3> QED
      BY <3>1, <3>2
  <2> QED
    BY <2>1, <2>2
<1>5. ASSUME Ordered(p)
      PROVE  Ordered(q)
  <2> SUFFICES ASSUME NEW i \in 1 .. Len(q), NEW j \in 1 .. Len(q), i <= j,
                      q[j].op = "drop"
               PROVE  q[i].op \in EarlyOps
    BY DEF Ordered
  <2>1. /\ i + d \in 1 .. Len(p) /\ j + d \in 1 .. Len(p) /\ i + d <= j + d
        /\ q[i] = p[i + d] /\ q[j] = p[j + d]
    BY <1>1, <1>4
  <2> QED
    BY <1>5, <2>1 DEF Ordered
<1>6. ASSUME NEW r, \A i \in 1 .. Len(p) : Fits(p[i], r)
      PROVE  \A i \in 1 .. Len(q) : Fits(q[i], r)
  BY <1>4, <1>6
<1> QED
  BY <1>3, <1>4, <1>5, <1>6 DEF Rest, q

\* The statement that is executed, and the rest.
LEMMA NextStatement ==
    ASSUME NEW p \in Seq(AnyStatement), p # <<>>
    PROVE  /\ Head(p) \in AnyStatement /\ Head(p) = p[1] /\ 1 \in 1 .. Len(p)
           /\ Tail(p) \in Seq(AnyStatement) /\ Rest(p, Tail(p), 1)
           /\ Len(Tail(p)) = Len(p) - 1
           /\ \A i \in 1 .. Len(Tail(p)) : Tail(p)[i] = p[i + 1]
           /\ \A op, t : Has(p, op, t) =>
                  Has(Tail(p), op, t) \/ (Head(p).op = op /\ Head(p).table = t)
           /\ \A op, t : Has(Tail(p), op, t) => Has(p, op, t)
           /\ Ordered(p) => \A d : Has(Tail(p), "drop", d) => Head(p).op \in EarlyOps
<1> DEFINE e == Head(p)
           q == Tail(p)
<1>1. e \in AnyStatement /\ e = p[1] /\ q \in Seq(AnyStatement) /\ Len(q) = Len(p) - 1
      /\ \A i \in 1 .. Len(q) : q[i] = p[i + 1]
  BY HeadTailProperties
<1>3. Len(p) \in Nat /\ Len(p) >= 1
  OBVIOUS
<1>2. Rest(p, q, 1)
  <2> DEFINE d == 1
  <2>1. q = SubSeq(p, d + 1, Len(p)) /\ d \in 1 .. Len(p)
    BY <1>3, TailIsSubSeq
  <2> HIDE DEF d, q
  <2>2. Rest(p, q, d)
    BY <2>1, RestOfPlan
  <2> QED
    BY <2>2 DEF d
<1> HIDE DEF e, q
<1>4. \A i \in 1 .. Len(p) : i = 1 \/ (i - 1 \in 1 .. Len(q) /\ p[i] = q[i - 1])
  <2> SUFFICES ASSUME NEW i \in 1 .. Len(p), i # 1
               PROVE  i - 1 \in 1 .. Len(q) /\ p[i] = q[i - 1]
    OBVIOUS
  <2>1. i - 1 \in 1 .. Len(q) /\ (i - 1) + 1 = i
    BY <1>1, <1>3
  <2>2. q[i - 1] = p[(i - 1) + 1]
    BY <1>1, <2>1
  <2> QED
    BY <2>1, <2>2
<1>5. \A i \in 1 .. Len(q) : i + 1 \in 1 .. Len(p)
  BY <1>1, <1>3
<1>6. \A op, t : Has(p, op, t) => Has(q, op, t) \/ (e.op = op /\ e.table = t)
  BY <1>1, <1>4 DEF Has
<1>7. \A op, t : Has(q, op, t) => Has(p, op, t)
  BY <1>1, <1>5 DEF Has
<1>8. ASSUME Ordered(p), NEW d, Has(q, "drop", d)
      PROVE  e.op \in EarlyOps
  <2>1. PICK i \in 1 .. Len(q) : q[i].op = "drop"
    BY <1>8 DEF Has
  <2>2. i + 1 \in 1 .. Len(p) /\ 1 \in 1 .. Len(p) /\ 1 <= i + 1 /\ p[i + 1].op = "drop"
    BY <1>1, <1>3, <1>5, <2>1
  <2> QED
    BY <1>1, <1>8, <2>2 DEF Ordered
<1> QED
  BY <1>1, <1>2, <1>3, <1>6, <1>7, <1>8 DEF e, q

\* A statement that does what it is there for, and undoes nothing unless it is
\* a DROP, keeps up the progress.
LEMMA ProgressStep ==
    ASSUME NEW p \in Seq(AnyStatement), p # <<>>, NEW r, NEW s1, NEW s2,
           Ordered(p), Progress(p, r, s1),
           Head(p).op # "drop" =>
               \A op, t : Needed(r, op, t) /\ Done(s1, op, t) => Done(s2, op, t),
           Done(s2, Head(p).op, Head(p).table),
           r.program = "init_db" /\ r.options.drop =>
               \A t \in AggTables :
                   Fresh(s1, t, r) \/ (Head(p).op = "drop" /\ Head(p).table = t)
                       => Fresh(s2, t, r)
    PROVE  Progress(Tail(p), r, s2)
<1> DEFINE e == Head(p)
           q == Tail(p)
<1>1. /\ \A op, t : Has(p, op, t) => Has(q, op, t) \/ (e.op = op /\ e.table = t)
      /\ \A op, t : Has(q, op, t) => Has(p, op, t)
      /\ \A d : Has(q, "drop", d) => e.op \in EarlyOps
      /\ e.op = "drop" => Has(p, "drop", e.table)
  <2>1. Head(p) = p[1] /\ 1 \in 1 .. Len(p)
    BY NextStatement
  <2>2. e.op = "drop" => Has(p, "drop", e.table)
    BY <2>1 DEF Has
  <2> HIDE DEF e, q
  <2> QED
    BY <2>2, NextStatement DEF e, q
<1>2. \A op, t : Needed(r, op, t) => op \notin EarlyOps
  BY DEF Needed, EarlyOps, HyperOps
<1> HIDE DEF e, q
<1>3. ASSUME NEW op, NEW t, Needed(r, op, t)
      PROVE  Has(q, op, t) \/ Done(s2, op, t)
  <2>1. CASE e.op = "drop"
    <3>1. Has(p, op, t)
      BY <1>1, <1>3, <2>1 DEF Progress
    <3>2. op # "drop"
      BY <1>2, <1>3 DEF EarlyOps
    <3> QED
      BY <1>1, <2>1, <3>1, <3>2
  <2>2. CASE e.op # "drop"
    <3>1. CASE Has(p, op, t)
      BY <1>1, <3>1 DEF e
    <3>2. CASE Done(s1, op, t)
      BY <1>3, <2>2, <3>2 DEF e
    <3> QED
      BY <1>3, <3>1, <3>2 DEF Progress
  <2> QED
    BY <2>1, <2>2
<1>4. ASSUME NEW d, Has(q, "drop", d), NEW op, NEW t, Needed(r, op, t)
      PROVE  Has(q, op, t)
  <2>1. Has(p, op, t)
    BY <1>1, <1>4 DEF Progress
  <2>2. op # e.op
    BY <1>1, <1>2, <1>4
  <2> QED
    BY <1>1, <2>1, <2>2
<1>5. ASSUME r.program = "init_db", r.options.drop, NEW t \in AggTables
      PROVE  Has(q, "drop", t) \/ Fresh(s2, t, r)
  <2>1. Has(p, "drop", t) \/ Fresh(s1, t, r)
    BY <1>5 DEF Progress
  <2> QED
    BY <1>1, <1>5, <2>1 DEF e
<1> QED
  BY <1>3, <1>4, <1>5 DEF Progress, q

\* What the next step of a program leaves alone.
LEMMA GoesOn ==
    ASSUME RunOK, plan \in Seq(AnyStatement), plan # <<>>, run.ended = "runs", GoOn
    PROVE  /\ RunOK' /\ plan' = Tail(plan) /\ plan' \in Seq(AnyStatement)
           /\ run'.program = run.program /\ run'.options = run.options
           /\ run'.settings = run.settings /\ run'.clear = run.clear
           /\ run'.csv = run.csv /\ run'.failed = run.failed
           /\ run'.count = run.count
           /\ run'.ended = IF plan' = <<>> THEN "complete" ELSE "runs"
<1>1. plan' = Tail(plan) /\ plan' \in Seq(AnyStatement)
  BY NextStatement DEF GoOn
<1>2. run' = IF plan' = <<>> THEN [run EXCEPT !.ended = "complete"] ELSE run
  BY <1>1 DEF GoOn
<1> QED
  BY <1>1, <1>2 DEF RunOK

\* The invariant reads the program, its options and its settings only.
LEMMA SameProgram ==
    ASSUME NEW r1, NEW r2, r1.program = r2.program, r1.options = r2.options,
           r1.settings = r2.settings
    PROVE  /\ \A st : Fits(st, r1) => Fits(st, r2)
           /\ \A p, s : Progress(p, r1, s) => Progress(p, r2, s)
<1>1. \A st : Fits(st, r1) => Fits(st, r2)
  BY DEF Fits, Interval
<1>2. \A op, t : Needed(r1, op, t) <=> Needed(r2, op, t)
  BY DEF Needed
<1>3. \A s, t : Fresh(s, t, r1) <=> Fresh(s, t, r2)
  BY DEF Fresh
<1> QED
  BY <1>1, <1>2, <1>3 DEF Progress

\* A statement does what ProgressStep asks of it.
Works == /\ schema' \in Schemas
         /\ Head(plan).op # "drop" =>
                \A op, t : Needed(run, op, t) /\ Done(schema, op, t)
                               => Done(schema', op, t)
         /\ Done(schema', Head(plan).op, Head(plan).table)
         /\ run.program = "init_db" /\ run.options.drop =>
                \A t \in AggTables :
                    Fresh(schema, t, run) \/ (Head(plan).op = "drop" /\ Head(plan).table = t)
                        => Fresh(schema', t, run)

LEMMA WorksKeeps ==
    ASSUME RunOK, plan \in Seq(AnyStatement), plan # <<>>, run.ended = "runs", GoOn,
           SchemaInv, run.program \in {"init_db", "hypertable_setup"}, Works
    PROVE  SchemaInv'
<1>1. /\ plan' = Tail(plan) /\ run'.program = run.program
      /\ run'.options = run.options /\ run'.settings = run.settings
      /\ run'.failed = run.failed
  BY GoesOn
<1>2. /\ \A i \in 1 .. Len(plan) : Fits(plan[i], run)
      /\ Ordered(plan)
      /\ ~run.failed => Progress(plan, run, schema)
  BY DEF SchemaInv
<1>3. /\ \A i \in 1 .. Len(plan') : Fits(plan'[i], run)
      /\ Ordered(plan')
  <2>1. Rest(plan, plan', 1)
    BY <1>1, NextStatement
  <2> QED
    BY <1>2, <2>1 DEF Rest
<1>4. ~run.failed => Progress(plan', run, schema')
  <2> SUFFICES ASSUME ~run.failed PROVE Progress(Tail(plan), run, schema')
    BY <1>1
  <2>1. Ordered(plan) /\ Progress(plan, run, schema)
    BY <1>2
  <2> QED
    BY <2>1, ProgressStep DEF Works
<1>5. /\ \A st : Fits(st, run) => Fits(st, run')
      /\ \A p, s : Progress(p, run, s) => Progress(p, run', s)
  BY <1>1, SameProgram
<1> QED
  BY <1>1, <1>3, <1>4, <1>5 DEF SchemaInv

\* What is needed of a hypertable is needed of one of the two tables.
LEMMA NeededTables ==
    ASSUME NEW r, NEW op, NEW t, Needed(r, op, t)
    PROVE  /\ op \in {"tables", "table", "view", "refresh"} \cup HyperOps
           /\ op \in HyperOps => t \in AggTables
BY DEF Needed, HyperOps

\* The current statement of a program for the schema.
LEMMA CurrentFits ==
    ASSUME RunOK, plan \in Seq(AnyStatement), plan # <<>>, SchemaInv,
           run.program \in {"init_db", "hypertable_setup"}
    PROVE  /\ Fits(Head(plan), run)
           /\ Interval(Head(plan).op, run) \in Nat \ {0}
<1>1. Fits(Head(plan), run)
  BY NextStatement DEF SchemaInv
<1>2. run.program = "init_db" => run.settings \in Setting
  BY SetupAssumption DEF RunOK
<1>3. run.program # "init_db" => Interval(Head(plan).op, run) \in Nat \ {0}
  BY SetupAssumption DEF Interval
<1>4. run.program = "init_db" => Interval(Head(plan).op, run) \in Nat \ {0}
  BY <1>2 DEF Interval, Setting
<1> QED
  BY <1>1, <1>3, <1>4

\* What a statement that writes an interval does to the intervals.
LEMMA AddedIs ==
    ASSUME NEW f \in Intervals, NEW t \in AggTables, NEW v \in Nat \ {0}
    PROVE  LET g == [f EXCEPT ![t] = IF @ = 0 THEN v ELSE @]
           IN  /\ g \in Intervals /\ g[t] # 0
               /\ \A u \in AggTables : f[u] # 0 => g[u] = f[u]
               /\ \A u \in AggTables : g[u] \in {f[u], v}
BY DEF Intervals

\* A program for the schema at work.
AtWork == /\ TypeOK /\ RunOK /\ plan \in Seq(AnyStatement) /\ plan # <<>> /\ SchemaInv
          /\ run.program \in {"init_db", "hypertable_setup"}

\* Statements that change no interval.
LEMMA PlainWorks ==
    ASSUME AtWork, schema' \in Schemas,
           Head(plan).op \notin {"drop", "hypertable", "retention", "compression"},
           /\ schema'.chunk = schema.chunk /\ schema'.retention = schema.retention
           /\ schema'.compression = schema.compression,
           /\ schema.tables \subseteq schema'.tables
           /\ schema.compressed \subseteq schema'.compressed
           /\ schema.view => schema'.view
           /\ schema.refresh => schema'.refresh,
           Done(schema', Head(plan).op, Head(plan).table)
    PROVE  Works
<1>1. \A op, t : Needed(run, op, t) /\ Done(schema, op, t) => Done(schema', op, t)
  <2> SUFFICES ASSUME NEW op, NEW t, Done(schema, op, t)
               PROVE  Done(schema', op, t)
    OBVIOUS
  <2>1. schema.tables = Tables => schema'.tables = Tables
    BY DEF Schemas
  <2>2. /\ op = "tables" => schema'.tables = Tables
        /\ op = "table" => t \in schema'.tables
        /\ op = "hypertable" => schema'.chunk[t] # 0
        /\ op = "retention" => schema'.retention[t] # 0
        /\ op = "compress" => t \in schema'.compressed
        /\ op = "compression" => schema'.compression[t] # 0
    BY <2>1 DEF Done
  <2>3. op = "view" => schema'.view
    BY DEF Done
  <2>4. op = "refresh" => schema'.refresh
    BY DEF Done
  <2> QED
    BY <2>2, <2>3, <2>4 DEF Done
<1>2. \A t \in AggTables : Fresh(schema, t, run) => Fresh(schema', t, run)
  BY DEF Fresh
<1> QED
  BY <1>1, <1>2 DEF Works

LEMMA PlainStatementsWork ==
    ASSUME AtWork,
           \/ CreateExtension \/ CreateTables \/ CreateTable \/ EnableCompression
           \/ CreateView \/ AddRefresh \/ Verify
    PROVE  Works
<1>1. schema \in Schemas
  BY DEF AtWork, TypeOK
<1>2. Fits(Head(plan), run)
  BY CurrentFits DEF AtWork
<1>3. CASE CreateExtension
  <2>1. schema' = [schema EXCEPT !.extension = TRUE] /\ Head(plan).op = "extension"
    BY <1>3 DEF CreateExtension, SchemaStep, Current
  <2> QED
    BY <1>1, <2>1, PlainWorks DEF Schemas, Done
<1>4. CASE CreateTables
  <2>1. schema' = [schema EXCEPT !.tables = Tables] /\ Head(plan).op = "tables"
    BY <1>4 DEF CreateTables, SchemaStep, Current
  <2> QED
    BY <1>1, <2>1, PlainWorks DEF Schemas, Done
<1>5. CASE CreateTable
  <2>1. schema' = [schema EXCEPT !.tables = @ \cup {Head(plan).table}]
        /\ Head(plan).op = "table"
    BY <1>5 DEF CreateTable, SchemaStep, Current, Table
  <2>2. Head(plan).table \in Tables
    BY <1>2, <2>1 DEF Fits
  <2> QED
    BY <1>1, <2>1, <2>2, PlainWorks DEF Schemas, Done
<1>6. CASE EnableCompression
  <2>1. schema' = [schema EXCEPT !.compressed = @ \cup {Head(plan).table}]
        /\ Head(plan).op = "compress"
    BY <1>6 DEF EnableCompression, SchemaStep, Current, Table
  <2>2. Head(plan).table \in AggTables
    BY <1>2, <2>1 DEF Fits, TableOps
  <2> QED
    BY <1>1, <2>1, <2>2, PlainWorks DEF Schemas, Done
<1>7. CASE CreateView
  <2>1. schema' = [schema EXCEPT !.view = TRUE] /\ Head(plan).op = "view"
    BY <1>7 DEF CreateView, SchemaStep, Current
  <2> QED
    BY <1>1, <2>1, PlainWorks DEF Schemas, Done
<1>8. CASE AddRefresh
  <2>1. schema' = [schema EXCEPT !.refresh = TRUE] /\ Head(plan).op = "refresh"
    BY <1>8 DEF AddRefresh, SchemaStep, Current
  <2> QED
    BY <1>1, <2>1, PlainWorks DEF Schemas, Done
<1>9. CASE Verify
  <2>1. schema' = schema /\ Head(plan).op = "verify"
    BY <1>9 DEF Verify, SchemaStep, Current
  <2> QED
    BY <1>1, <2>1, PlainWorks DEF Schemas, Done
<1> QED
  BY <1>3, <1>4, <1>5, <1>6, <1>7, <1>8, <1>9

\* Statements that add an interval: one that exists is kept, and a new one is
\* that of the program.
IntervalAdded(old, new) ==
    /\ new \in Intervals /\ new[Head(plan).table] # 0
    /\ \A t \in AggTables : old[t] # 0 => new[t] = old[t]
    /\ \A t \in AggTables : new[t] \in {old[t], Interval(Head(plan).op, run)}

LEMMA IntervalIsAdded ==
    ASSUME AtWork, NEW old \in Intervals,
           Head(plan).op \in {"hypertable", "retention", "compression"}
    PROVE  /\ Head(plan).table \in AggTables
           /\ IntervalAdded(old, [old EXCEPT ![Table] = Added(@)])
<1>1. Fits(Head(plan), run) /\ Interval(Head(plan).op, run) \in Nat \ {0}
  BY CurrentFits DEF AtWork
<1>2. /\ Head(plan).table \in AggTables
      /\ Head(plan).value = Interval(Head(plan).op, run)
  BY <1>1 DEF Fits, TableOps
<1> DEFINE v == Interval(Head(plan).op, run)
           t == Head(plan).table
<1>3. [old EXCEPT ![Table] = Added(@)] = [old EXCEPT ![t] = IF @ = 0 THEN v ELSE @]
  BY <1>2 DEF Table, Added
<1>4. v \in Nat \ {0} /\ t \in AggTables
  BY <1>1, <1>2
<1> HIDE DEF v, t
<1> DEFINE g == [old EXCEPT ![t] = IF @ = 0 THEN v ELSE @]
<1>5. /\ g \in Intervals /\ g[t] # 0
      /\ \A u \in AggTables : old[u] # 0 => g[u] = old[u]
      /\ \A u \in AggTables : g[u] \in {old[u], v}
  BY <1>4, AddedIs
<1> HIDE DEF g
<1>6. IntervalAdded(old, g)
  BY <1>5 DEF IntervalAdded, v, t
<1> QED
  BY <1>2, <1>3, <1>6 DEF g

LEMMA IntervalsWork ==
    ASSUME AtWork, CreateHypertable \/ AddRetention \/ AddCompression
    PROVE  Works
<1>1. schema \in Schemas /\ schema.chunk \in Intervals
      /\ schema.retention \in Intervals /\ schema.compression \in Intervals
  BY DEF AtWork, TypeOK, Schemas
<1> DEFINE op == Head(plan).op
           c == [schema.chunk EXCEPT ![Table] = Added(@)]
           r == [schema.retention EXCEPT ![Table] = Added(@)]
           k == [schema.compression EXCEPT ![Table] = Added(@)]
<1>2. \/ /\ op = "hypertable" /\ IntervalAdded(schema.chunk, c)
         /\ schema' = [schema EXCEPT !.chunk = c]
      \/ /\ op = "retention" /\ IntervalAdded(schema.retention, r)
         /\ schema' = [schema EXCEPT !.retention = r]
      \/ /\ op = "compression" /\ IntervalAdded(schema.compression, k)
         /\ schema' = [schema EXCEPT !.compression = k]
  <2>1. CASE CreateHypertable
    <3>1. op = "hypertable" /\ schema' = [schema EXCEPT !.chunk[Table] = Added(@)]
      BY <2>1 DEF CreateHypertable, SchemaStep, Current
    <3>2. [schema EXCEPT !.chunk[Table] = Added(@)] = [schema EXCEPT !.chunk = c]
      OBVIOUS
    <3> QED
      BY <1>1, <3>1, <3>2, IntervalIsAdded
  <2>2. CASE AddRetention
    <3>1. op = "retention" /\ schema' = [schema EXCEPT !.retention[Table] = Added(@)]
      BY <2>2 DEF AddRetention, SchemaStep, Current
    <3>2. [schema EXCEPT !.retention[Table] = Added(@)] = [schema EXCEPT !.retention = r]
      OBVIOUS
    <3> QED
      BY <1>1, <3>1, <3>2, IntervalIsAdded
  <2>3. CASE AddCompression
    <3>1. op = "compression" /\ schema' = [schema EXCEPT !.compression[Table] = Added(@)]
      BY <2>3 DEF AddCompression, SchemaStep, Current
    <3>2. [schema EXCEPT !.compression[Table] = Added(@)]
            = [schema EXCEPT !.compression = k]
      OBVIOUS
    <3> QED
      BY <1>1, <3>1, <3>2, IntervalIsAdded
  <2> QED
    BY <2>1, <2>2, <2>3
<1>3. Head(plan).table \in AggTables
  BY <1>1, <1>2, IntervalIsAdded
<1> HIDE DEF c, r, k
<1>4. /\ schema' \in Schemas /\ Done(schema', op, Head(plan).table)
      /\ schema'.tables = schema.tables /\ schema'.compressed = schema.compressed
      /\ schema'.view = schema.view /\ schema'.refresh = schema.refresh
      /\ \A t \in AggTables :
            /\ schema.chunk[t] # 0 => schema'.chunk[t] # 0
            /\ schema.retention[t] # 0 => schema'.retention[t] # 0
            /\ schema.compression[t] # 0 => schema'.compression[t] # 0
  BY <1>1, <1>2 DEF Schemas, IntervalAdded, Done
<1>5. ASSUME NEW o, NEW t, Needed(run, o, t), Done(schema, o, t)
      PROVE  Done(schema', o, t)
  <2>1. o \in HyperOps => t \in AggTables
    BY <1>5, NeededTables
  <2> QED
    BY <1>4, <1>5, <2>1 DEF Done, HyperOps
<1>6. ASSUME run.program = "init_db", NEW t \in AggTables, Fresh(schema, t, run)
      PROVE  Fresh(schema', t, run)
  <2>1. /\ op = "hypertable" => Interval(op, run) = run.settings.chunk
        /\ op = "retention" => Interval(op, run) = run.settings.retention
        /\ op = "compression" => Interval(op, run) = run.settings.compression
    BY <1>6 DEF Interval
  <2>2. /\ \/ schema'.chunk[t] = schema.chunk[t]
           \/ op = "hypertable" /\ schema'.chunk[t] = Interval(op, run)
        /\ \/ schema'.retention[t] = schema.retention[t]
           \/ op = "retention" /\ schema'.retention[t] = Interval(op, run)
        /\ \/ schema'.compression[t] = schema.compression[t]
           \/ op = "compression" /\ schema'.compression[t] = Interval(op, run)
    <3>1. CASE op = "hypertable"
      <4>1. /\ schema'.chunk = c /\ c[t] \in {schema.chunk[t], Interval(op, run)}
            /\ schema'.retention = schema.retention
            /\ schema'.compression = schema.compression
        BY <1>1, <1>2, <3>1 DEF Schemas, IntervalAdded
      <4> QED
        BY <3>1, <4>1
    <3>2. CASE op = "retention"
      <4>1. /\ schema'.retention = r /\ r[t] \in {schema.retention[t], Interval(op, run)}
            /\ schema'.chunk = schema.chunk
            /\ schema'.compression = schema.compression
        BY <1>1, <1>2, <3>2 DEF Schemas, IntervalAdded
      <4> QED
        BY <3>2, <4>1
    <3>3. CASE op = "compression"
      <4>1. /\ schema'.compression = k
            /\ k[t] \in {schema.compression[t], Interval(op, run)}
            /\ schema'.chunk = schema.chunk
            /\ schema'.retention = schema.retention
        BY <1>1, <1>2, <3>3 DEF Schemas, IntervalAdded
      <4> QED
        BY <3>3, <4>1
    <3> QED
      BY <1>2, <3>1, <3>2, <3>3
  <2> QED
    BY <1>6, <2>1, <2>2 DEF Fresh
<1> QED
  BY <1>2, <1>4, <1>5, <1>6 DEF Works

LEMMA DropWorks ==
    ASSUME AtWork, DropTable
    PROVE  Works
<1>1. schema \in Schemas /\ schema.chunk \in Intervals
      /\ schema.retention \in Intervals /\ schema.compression \in Intervals
  BY DEF AtWork, TypeOK, Schemas
<1>2. Head(plan).op = "drop"
  BY DEF DropTable, Current
<1> DEFINE Cut(f) == [t \in AggTables |-> IF t = Head(plan).table THEN 0 ELSE f[t]]
<1>3. schema' = [schema EXCEPT !.tables = @ \ {Head(plan).table},
                               !.chunk = Cut(@),
                               !.retention = Cut(@),
                               !.compressed = @ \ {Head(plan).table},
                               !.compression = Cut(@),
                               !.view = @ /\ Head(plan).table # "stock_agg_second",
                               !.refresh = @ /\ Head(plan).table # "stock_agg_second"]
  BY DEF DropTable, Table
<1>4. \A f \in Intervals : /\ Cut(f) \in Intervals
                           /\ \A t \in AggTables : Cut(f)[t] \in {0, f[t]}
                           /\ Head(plan).table \in AggTables => Cut(f)[Head(plan).table] = 0
  BY DEF Intervals
<1> HIDE DEF Cut
<1>5. /\ schema'.chunk = Cut(schema.chunk) /\ schema'.retention = Cut(schema.retention)
      /\ schema'.compression = Cut(schema.compression) /\ schema' \in Schemas
  BY <1>1, <1>3, <1>4 DEF Schemas
<1>6. \A t \in AggTables : Fresh(schema, t, run) \/ Head(plan).table = t
                               => Fresh(schema', t, run)
  BY <1>1, <1>4, <1>5 DEF Fresh
<1> QED
  BY <1>2, <1>5, <1>6 DEF Works, Done

\* The plan and the run on one side, the database on the other.
PlanOK == /\ RunOK /\ plan \in Seq(AnyStatement)
          /\ plan # <<>> <=> run.ended = "runs"
DataOK == /\ schema \in Schemas
          /\ tickers \in [Symbols -> Values \cup {0}]
          /\ pending \in [Symbols -> Values \cup {0}]
          /\ "sp500_tickers" \notin schema.tables => tickers = NoTickers

LEMMA TypesAre == PlanOK /\ DataOK => TypeOK
BY DEF PlanOK, DataOK, TypeOK, RunOK

LEMMA NoTickersType == NoTickers \in [Symbols -> Values \cup {0}]
BY DEF NoTickers

ForSchema == run.program \in {"init_db", "hypertable_setup"}

\* The statements for the schema, and what a program for it can execute.
SchemaStatement == \/ CreateExtension \/ CreateTables \/ CreateTable \/ EnableCompression
                   \/ CreateView \/ AddRefresh \/ Verify
                   \/ CreateHypertable \/ AddRetention \/ AddCompression
TickerStatement == Load \/ Delete \/ Upsert \/ CountTickers \/ Commit

LEMMA SchemaStatementIs ==
    ASSUME SchemaStatement
    PROVE  /\ GoOn /\ plan # <<>> /\ tickers' = tickers /\ pending' = pending
           /\ Head(plan).op \in SchemaOps \ {"connect", "drop"}
<1>1. CASE CreateExtension \/ CreateTables \/ CreateTable \/ EnableCompression
  BY <1>1 DEF CreateExtension, CreateTables, CreateTable, EnableCompression, SchemaStep,
              Current, SchemaOps
<1>2. CASE CreateView \/ AddRefresh \/ Verify
  BY <1>2 DEF CreateView, AddRefresh, Verify, SchemaStep, Current, SchemaOps
<1>3. CASE CreateHypertable \/ AddRetention \/ AddCompression
  BY <1>3 DEF CreateHypertable, AddRetention, AddCompression, SchemaStep, Current, SchemaOps
<1> QED
  BY <1>1, <1>2, <1>3 DEF SchemaStatement

LEMMA TickerStatementIs ==
    ASSUME TickerStatement
    PROVE  /\ GoOn /\ plan # <<>> /\ schema' = schema
           /\ Head(plan).op \in SeedOps \ {"connect"}
<1>1. CASE Load \/ Commit
  BY <1>1 DEF Load, Commit, Current, SeedOps
<1>2. CASE Delete \/ Upsert \/ CountTickers
  BY <1>2 DEF Delete, Upsert, CountTickers, TickerStep, Current, SeedOps
<1> QED
  BY <1>1, <1>2 DEF TickerStatement

\* A step of the program to its next statement keeps the plan in order.
LEMMA GoOnKeepsPlan ==
    ASSUME PlanOK, plan # <<>>, GoOn
    PROVE  /\ PlanOK' /\ plan' = Tail(plan) /\ run'.program = run.program
           /\ run'.clear = run.clear /\ run'.csv = run.csv
           /\ run'.ended \in {"runs", "complete"}
<1>1. RunOK /\ plan \in Seq(AnyStatement) /\ run.ended = "runs"
  BY DEF PlanOK
<1>2. /\ RunOK' /\ plan' = Tail(plan) /\ plan' \in Seq(AnyStatement)
      /\ run'.program = run.program /\ run'.clear = run.clear /\ run'.csv = run.csv
      /\ run'.ended = IF plan' = <<>> THEN "complete" ELSE "runs"
  BY <1>1, GoesOn
<1> QED
  BY <1>2 DEF PlanOK

\* A program for the schema executes its next statement.
LEMMA SchemaRunSteps ==
    ASSUME PlanOK, DataOK, SchemaInv, ForSchema,
           SchemaStatement \/ DropTable \/ Connect
    PROVE  PlanOK' /\ DataOK' /\ SchemaInv' /\ ForSchema'
<1>1. GoOn /\ plan # <<>>
  BY SchemaStatementIs DEF DropTable, Connect, Current
<1>2. PlanOK' /\ run'.program = run.program
  BY <1>1, GoOnKeepsPlan
<1>3. AtWork /\ RunOK /\ plan \in Seq(AnyStatement) /\ run.ended = "runs"
      /\ run.program \in {"init_db", "hypertable_setup"}
  BY <1>1, TypesAre DEF AtWork, PlanOK, ForSchema
<1>4. Works
  <2>1. CASE SchemaStatement
    BY <1>3, <2>1, PlainStatementsWork, IntervalsWork DEF SchemaStatement
  <2>2. CASE DropTable
    BY <1>3, <2>2, DropWorks
  <2>3. CASE Connect
    <3>1. schema' = schema /\ Head(plan).op = "connect"
      BY <2>3 DEF Connect, Current
    <3> QED
      BY <3>1 DEF Works, Done, DataOK
  <2> QED
    BY <2>1, <2>2, <2>3
<1>5. SchemaInv'
  BY <1>1, <1>3, <1>4, WorksKeeps
<1>6. schema' \in Schemas
  BY <1>4 DEF Works
<1>7. /\ tickers' \in [Symbols -> Values \cup {0}]
      /\ pending' \in [Symbols -> Values \cup {0}]
  <2>1. CASE SchemaStatement
    BY <2>1, SchemaStatementIs DEF DataOK
  <2>2. CASE DropTable
    BY <2>2, NoTickersType DEF DropTable, DataOK
  <2>3. CASE Connect
    BY <2>3 DEF Connect, DataOK
  <2> QED
    BY <2>1, <2>2, <2>3
<1>8. "sp500_tickers" \notin schema'.tables => tickers' = NoTickers
  <2>1. CASE SchemaStatement
    <3>1. schema.tables \subseteq schema'.tables
      <4>1. CASE CreateExtension \/ CreateTables \/ CreateTable \/ EnableCompression
        BY <4>1 DEF CreateExtension, CreateTables, CreateTable, EnableCompression,
                    SchemaStep, DataOK, Schemas
      <4>2. CASE CreateView \/ AddRefresh \/ Verify
        BY <4>2 DEF CreateView, AddRefresh, Verify, SchemaStep, DataOK, Schemas
      <4>3. CASE CreateHypertable \/ AddRetention \/ AddCompression
        BY <4>3 DEF CreateHypertable, AddRetention, AddCompression, SchemaStep, DataOK,
                    Schemas
      <4> QED
        BY <2>1, <4>1, <4>2, <4>3 DEF SchemaStatement
    <3> QED
      BY <2>1, <3>1, SchemaStatementIs DEF DataOK
  <2>2. CASE DropTable
    <3>1. /\ schema'.tables = schema.tables \ {Table}
          /\ tickers' = IF Table = "sp500_tickers" THEN NoTickers ELSE tickers
      BY <2>2 DEF DropTable, DataOK, Schemas
    <3> QED
      BY <3>1 DEF DataOK
  <2>3. CASE Connect
    BY <2>3 DEF Connect, DataOK
  <2> QED
    BY <2>1, <2>2, <2>3
<1> QED
  BY <1>2, <1>5, <1>6, <1>7, <1>8 DEF DataOK, ForSchema

\* It has no statement of the import, so no other step but a failure.
LEMMA NoTickerStatement ==
    ASSUME PlanOK, SchemaInv, ForSchema
    PROVE  ~TickerStatement
<1> SUFFICES ASSUME TickerStatement PROVE FALSE
  OBVIOUS
<1>1. plan # <<>> /\ Head(plan).op \in SeedOps \ {"connect"}
  BY TickerStatementIs
<1>2. Fits(Head(plan), run)
  BY <1>1, CurrentFits DEF PlanOK, ForSchema
<1> QED
  BY <1>1, <1>2 DEF Fits, SchemaOps, SeedOps

\* A statement of it fails, in a try block or outside of one.
LEMMA SchemaRunFails ==
    ASSUME PlanOK, DataOK, SchemaInv, ForSchema, Fail
    PROVE  PlanOK' /\ DataOK' /\ SchemaInv'
<1>1. RunOK /\ plan \in Seq(AnyStatement) /\ run.ended = "runs" /\ plan # <<>>
  BY DEF PlanOK, Fail
<1>2. /\ \A i \in 1 .. Len(plan) : Fits(plan[i], run)
      /\ Ordered(plan)
  BY DEF SchemaInv, ForSchema
<1>3. DataOK'
  BY DEF DataOK, Fail
<1>4. /\ plan' \in Seq(AnyStatement)
      /\ \A i \in 1 .. Len(plan') : Fits(plan'[i], run)
      /\ Ordered(plan')
  <2>1. CASE plan' = <<>>
    BY <2>1 DEF Ordered
  <2>2. CASE plan' # <<>>
    <3>1. PICK n \in 1 .. Len(plan) : plan' = SubSeq(plan, n + 1, Len(plan))
      BY <2>2 DEF Fail
    <3>2. Rest(plan, plan', n)
      BY <1>1, <3>1, RestOfPlan
    <3> QED
      BY <1>2, <3>2 DEF Rest
  <2> QED
    BY <2>1, <2>2
<1>5. /\ run' \in {[run EXCEPT !.failed = TRUE, !.ended = e] :
                       e \in {"raised", "complete", "runs"}}
      /\ plan' # <<>> <=> run'.ended = "runs"
  <2>1. CASE /\ plan' = <<>>
             /\ run' = [run EXCEPT !.failed = TRUE, !.ended = "raised"]
    BY <1>1, <2>1 DEF RunOK
  <2>2. CASE run' = [run EXCEPT !.failed = TRUE,
                                !.ended = IF plan' = <<>> THEN "complete" ELSE @]
    BY <1>1, <2>2 DEF RunOK
  <2> QED
    BY <2>1, <2>2 DEF Fail
<1>6. /\ RunOK' /\ run'.program = run.program /\ run'.options = run.options
      /\ run'.settings = run.settings /\ run'.failed = TRUE
  BY <1>1, <1>5 DEF RunOK, ForSchema
<1>7. \A st : Fits(st, run) => Fits(st, run')
  BY <1>6, SameProgram
<1> QED
  BY <1>3, <1>4, <1>5, <1>6, <1>7 DEF PlanOK, SchemaInv

LEMMA KillEnds ==
    ASSUME PlanOK, DataOK, Kill
    PROVE  /\ PlanOK' /\ DataOK' /\ SchemaInv'
           /\ run'.ended = "killed"
<1>1. DataOK'
  BY DEF DataOK, Kill
<1>2. RunOK' /\ run'.ended = "killed" /\ plan' = <<>>
  BY DEF Kill, PlanOK, RunOK
<1> QED
  BY <1>1, <1>2 DEF PlanOK, SchemaInv, Ordered

\* A program is started.
LEMMA StartedPlan ==
    ASSUME PlanFor(plan', run')
    PROVE  SchemaInv'
<1>1. Progress(plan', run', schema')
  BY DEF PlanFor, Progress
<1> QED
  BY <1>1 DEF PlanFor, SchemaInv

\* The count of runs does not pass its bound.
LEMMA CountStarted ==
    ASSUME RunOK, run.count < MaxRuns
    PROVE  run.count + 1 \in 0 .. MaxRuns
<1>1. run.count \in 0 .. MaxRuns /\ MaxRuns \in Nat
  BY SetupAssumption DEF RunOK
<1> QED
  BY <1>1

LEMMA StartsInitDb ==
    ASSUME PlanOK, DataOK, NEW o \in Options, NEW s \in Settings, RunInitDb(o, s)
    PROVE  PlanOK' /\ DataOK' /\ SchemaInv' /\ run'.program = "init_db"
<1>1. DataOK'
  BY DEF DataOK, RunInitDb, Start
<1>2. /\ plan' = InitPlan(o, s)
      /\ run' = [program |-> "init_db", options |-> o, settings |-> s, clear |-> FALSE,
                 csv |-> <<>>, failed |-> FALSE, ended |-> "runs", count |-> run.count + 1]
      /\ run.count < MaxRuns
  BY DEF RunInitDb, Start
<1>3. /\ RunOK' /\ run'.program = "init_db" /\ run'.options = o /\ run'.settings = s
      /\ run'.ended = "runs"
  <2>1. run.count + 1 \in 0 .. MaxRuns
    BY <1>2, CountStarted DEF PlanOK
  <2> DEFINE n == run.count + 1
  <2> HIDE DEF n
  <2> QED
    BY <1>2, <2>1 DEF RunOK, Programs, n
<1>4. PlanFor(plan', run')
  <2>1. s \in Setting
    BY SetupAssumption
  <2> QED
    BY <1>2, <1>3, <2>1, InitPlanIs
<1> QED
  BY <1>1, <1>3, <1>4, StartedPlan DEF PlanOK, PlanFor

LEMMA StartsSetup ==
    ASSUME PlanOK, DataOK, RunSetup
    PROVE  PlanOK' /\ DataOK' /\ SchemaInv' /\ run'.program = "hypertable_setup"
<1>1. DataOK'
  BY DEF DataOK, RunSetup, Start
<1>2. /\ plan' = SetupPlan
      /\ run' = [program |-> "hypertable_setup", options |-> NoOptions,
                 settings |-> SomeSetting, clear |-> FALSE,
                 csv |-> <<>>, failed |-> FALSE, ended |-> "runs", count |-> run.count + 1]
      /\ run.count < MaxRuns
  BY DEF RunSetup, Start
<1>3. /\ RunOK' /\ run'.program = "hypertable_setup" /\ run'.options = NoOptions
      /\ run'.ended = "runs"
  <2>1. run.count + 1 \in 0 .. MaxRuns /\ NoOptions \in Options
    BY <1>2, CountStarted DEF PlanOK, NoOptions, Options
  <2> DEFINE n == run.count + 1
  <2> HIDE DEF n
  <2> QED
    BY <1>2, <2>1 DEF RunOK, Programs, n
<1>4. PlanFor(plan', run')
  BY <1>2, <1>3, SetupPlanIs
<1> QED
  BY <1>1, <1>3, <1>4, StartedPlan DEF PlanOK, PlanFor

------------------------------------------------------------------------------
\* 3. The import.

\* c statements come before the loader's, R rows are imported.
Cleared(clear) == IF clear THEN 3 ELSE 0
RowCount(csv) == Len(RowsOf(csv))

\* What the k-th statement of the plan can be.
Place(q, k, clear, csv) ==
    LET c == Cleared(clear)
        R == RowCount(csv)
    IN  /\ q[k].try = <<>> /\ q[k].op \in SeedOps
        /\ q[k].op = "delete" => clear /\ k = 2
        /\ q[k].op = "load" => k = c + 1
        /\ q[k].op = "connect" => \/ clear /\ k = 1
                                  \/ csv # Broken /\ k \in {c + 2, c + 4 + R}
        /\ q[k].op = "upsert" => /\ csv # Broken /\ k \in c + 3 .. c + 2 + R
                                 /\ q[k].value = RowsOf(csv)[k - (c + 2)]
        /\ q[k].op = "commit" => \/ clear /\ k = 3
                                 \/ csv # Broken /\ k \in {c + 3 + R, c + 6 + R}
        /\ q[k].op = "count" => csv # Broken /\ k = c + 5 + R

Is(st, op) == st.op = op /\ st.try = <<>>

LEMMA SeedStatement ==
    ASSUME NEW op \in SeedOps, NEW v \in Nat \cup Row \cup Csvs
    PROVE  /\ Plain(op, "", v) \in Seq(AnyStatement) /\ Len(Plain(op, "", v)) = 1
           /\ Is(Plain(op, "", v)[1], op) /\ Plain(op, "", v)[1].value = v
<1> DEFINE st == Statement(op, "", v, <<>>)
<1>1. st \in AnyStatement /\ st.op = op /\ st.try = <<>> /\ st.value = v
  <2>1. <<>> \in Blocks
    BY DEF Blocks
  <2> QED
    BY <2>1 DEF Statement, AnyStatement
<1> HIDE DEF st
<1> QED
  BY <1>1, OneStatement DEF Plain, Is, st

LEMMA Joined ==
    ASSUME NEW a \in Seq(AnyStatement), NEW b \in Seq(AnyStatement)
    PROVE  /\ a \o b \in Seq(AnyStatement) /\ Len(a \o b) = Len(a) + Len(b)
           /\ \A i \in 1 .. Len(a) : (a \o b)[i] = a[i]
           /\ \A i \in 1 .. Len(b) : (a \o b)[Len(a) + i] = b[i]
<1> DEFINE c == a \o b
<1>1. /\ c \in Seq(AnyStatement) /\ Len(c) = Len(a) + Len(b)
      /\ \A i \in 1 .. Len(a) + Len(b) :
             c[i] = IF i <= Len(a) THEN a[i] ELSE b[i - Len(a)]
  BY ConcatProperties
<1>2. Len(a) \in Nat /\ Len(b) \in Nat
  OBVIOUS
<1> HIDE DEF c
<1>3. \A i \in 1 .. Len(a) : c[i] = a[i]
  BY <1>1, <1>2
<1>4. ASSUME NEW i \in 1 .. Len(b)
      PROVE  c[Len(a) + i] = b[i]
  <2>1. Len(a) + i \in 1 .. Len(a) + Len(b) /\ ~(Len(a) + i <= Len(a))
        /\ (Len(a) + i) - Len(a) = i
    BY <1>2
  <2>2. c[Len(a) + i] = b[(Len(a) + i) - Len(a)]
    BY <1>1, <2>1
  <2> QED
    BY <2>1, <2>2
<1> QED
  BY <1>1, <1>3, <1>4 DEF c

\* A transaction begins with the connection and ends with the commit.
LEMMA TransactionIs ==
    ASSUME NEW x \in Seq(AnyStatement)
    PROVE  /\ Transaction(x) \in Seq(AnyStatement) /\ Len(Transaction(x)) = Len(x) + 2
           /\ Is(Transaction(x)[1], "connect")
           /\ \A i \in 1 .. Len(x) : Transaction(x)[i + 1] = x[i]
           /\ Is(Transaction(x)[Len(x) + 2], "commit")
<1> DEFINE a == Plain("connect", "", 0)
           b == Plain("commit", "", 0)
           ax == a \o x
           T == ax \o b
<1>1. /\ a \in Seq(AnyStatement) /\ Len(a) = 1 /\ Is(a[1], "connect")
      /\ b \in Seq(AnyStatement) /\ Len(b) = 1 /\ Is(b[1], "commit")
  BY SeedStatement DEF SeedOps
<1>2. Transaction(x) = T
  BY DEF Transaction
<1> HIDE DEF a, b
<1>9. /\ ax \in Seq(AnyStatement) /\ Len(ax) = Len(a) + Len(x)
      /\ \A i \in 1 .. Len(a) : ax[i] = a[i]
      /\ \A i \in 1 .. Len(x) : ax[Len(a) + i] = x[i]
  BY <1>1, Joined
<1> HIDE DEF ax
<1>3. /\ ax \in Seq(AnyStatement) /\ Len(ax) = 1 + Len(x)
      /\ ax[1] = a[1]
      /\ \A i \in 1 .. Len(x) : ax[1 + i] = x[i]
  BY <1>1, <1>9
<1>10. /\ T \in Seq(AnyStatement) /\ Len(T) = Len(ax) + Len(b)
       /\ \A i \in 1 .. Len(ax) : T[i] = ax[i]
       /\ \A i \in 1 .. Len(b) : T[Len(ax) + i] = b[i]
  BY <1>1, <1>3, Joined
<1> HIDE DEF T
<1>4. /\ T \in Seq(AnyStatement) /\ Len(T) = Len(ax) + 1
      /\ \A i \in 1 .. Len(ax) : T[i] = ax[i]
      /\ T[Len(ax) + 1] = b[1]
  BY <1>1, <1>10
<1>5. Len(x) \in Nat
  OBVIOUS
<1>6. Len(T) = Len(x) + 2 /\ T[Len(x) + 2] = b[1]
  BY <1>3, <1>4, <1>5
<1>7. T[1] = a[1]
  BY <1>3, <1>4, <1>5
<1>8. ASSUME NEW i \in 1 .. Len(x)
      PROVE  T[i + 1] = x[i]
  <2>1. i + 1 \in 1 .. Len(ax) /\ i + 1 = 1 + i
    BY <1>3, <1>5
  <2> QED
    BY <1>3, <1>4, <2>1
<1> QED
  BY <1>1, <1>2, <1>4, <1>6, <1>7, <1>8

\* The rows of a file that can be imported.
LEMMA RowsAre ==
    ASSUME NEW csv \in Csvs, csv # Broken
    PROVE  /\ RowsOf(csv) \in Seq(Row) /\ RowCount(csv) \in Nat
           /\ DOMAIN RowsOf(csv) = 1 .. RowCount(csv)
           /\ \A p \in 1 .. RowCount(csv) : RowsOf(csv)[p] \in Row
<1>1. RowsOf(csv) \in Seq(Row)
  BY SetupAssumption DEF RowsOf
<1> DEFINE rows == RowsOf(csv)
<1> HIDE DEF rows
<1>2. Len(rows) \in Nat /\ DOMAIN rows = 1 .. Len(rows)
      /\ \A p \in 1 .. Len(rows) : rows[p] \in Row
  BY <1>1 DEF rows
<1> QED
  BY <1>1, <1>2 DEF RowCount, rows

\* The import's own transaction and the one that counts.
LEMMA ImportPlanIs ==
    ASSUME NEW csv \in Csvs, csv # Broken
    PROVE  LET I == ImportPlan(RowsOf(csv))
               R == RowCount(csv)
           IN  /\ I \in Seq(AnyStatement) /\ Len(I) = R + 5
               /\ Is(I[1], "connect")
               /\ \A i \in 1 .. R : /\ Is(I[i + 1], "upsert")
                                    /\ I[i + 1].value = RowsOf(csv)[i]
               /\ Is(I[R + 2], "commit") /\ Is(I[R + 3], "connect")
               /\ Is(I[R + 4], "count") /\ Is(I[R + 5], "commit")
<1> DEFINE rows == RowsOf(csv)
           R == RowCount(csv)
           ups == [p \in DOMAIN rows |-> Statement("upsert", "", rows[p], <<>>)]
           U == Transaction(ups)
           n == Plain("count", "", 0)
           V == Transaction(n)
           I == U \o V
<1>1. /\ R \in Nat /\ DOMAIN rows = 1 .. R
      /\ \A p \in 1 .. R : rows[p] \in Row
  BY RowsAre
<1>2. I = ImportPlan(RowsOf(csv))
  BY DEF ImportPlan
<1> HIDE DEF rows, R
<1>3. /\ ups \in Seq(AnyStatement) /\ Len(ups) = R
      /\ \A p \in 1 .. R : Is(ups[p], "upsert") /\ ups[p].value = rows[p]
  <2>1. \A p \in 1 .. R : Statement("upsert", "", rows[p], <<>>) \in AnyStatement
    <3>1. <<>> \in Blocks /\ "upsert" \in SeedOps
      BY DEF Blocks, SeedOps
    <3> QED
      BY <1>1, <3>1 DEF Statement, AnyStatement
  <2>2. ups = [p \in 1 .. R |-> Statement("upsert", "", rows[p], <<>>)]
    BY <1>1
  <2>3. ups \in Seq(AnyStatement) /\ Len(ups) = R
    <3>1. ups \in [1 .. R -> AnyStatement]
      BY <2>1, <2>2
    <3> HIDE DEF ups
    <3> QED
      BY <1>1, <3>1, LenProperties
  <2> QED
    BY <2>2, <2>3 DEF Statement, Is
<1>4. n \in Seq(AnyStatement) /\ Len(n) = 1 /\ Is(n[1], "count")
  BY SeedStatement DEF SeedOps
<1> HIDE DEF ups, n
<1>5. /\ U \in Seq(AnyStatement) /\ Len(U) = R + 2 /\ Is(U[1], "connect")
      /\ \A i \in 1 .. R : U[i + 1] = ups[i]
      /\ Is(U[R + 2], "commit")
  BY <1>3, TransactionIs
<1>6. /\ V \in Seq(AnyStatement) /\ Len(V) = 3 /\ Is(V[1], "connect")
      /\ V[2] = n[1] /\ Is(V[3], "commit")
  <2>1. /\ V \in Seq(AnyStatement) /\ Len(V) = Len(n) + 2 /\ Is(V[1], "connect")
        /\ \A i \in 1 .. Len(n) : V[i + 1] = n[i]
        /\ Is(V[Len(n) + 2], "commit")
    BY <1>4, TransactionIs
  <2> HIDE DEF V
  <2> QED
    BY <1>4, <2>1
<1> HIDE DEF U, V
<1>7. /\ I \in Seq(AnyStatement) /\ Len(I) = Len(U) + Len(V)
      /\ \A i \in 1 .. Len(U) : I[i] = U[i]
      /\ \A i \in 1 .. Len(V) : I[Len(U) + i] = V[i]
  BY <1>5, <1>6, Joined
<1> HIDE DEF I
<1>8. Len(I) = R + 5 /\ I[1] = U[1] /\ I[R + 2] = U[R + 2]
  BY <1>1, <1>5, <1>6, <1>7
<1>9. I[R + 3] = V[1] /\ I[R + 4] = V[2] /\ I[R + 5] = V[3]
  <2>1. /\ 1 \in 1 .. Len(V) /\ 2 \in 1 .. Len(V) /\ 3 \in 1 .. Len(V)
        /\ Len(U) + 1 = R + 3 /\ Len(U) + 2 = R + 4 /\ Len(U) + 3 = R + 5
    BY <1>1, <1>5, <1>6
  <2>2. I[Len(U) + 1] = V[1] /\ I[Len(U) + 2] = V[2] /\ I[Len(U) + 3] = V[3]
    BY <1>7, <2>1
  <2> QED
    BY <2>1, <2>2
<1>10. \A i \in 1 .. R : I[i + 1] = ups[i]
  <2> SUFFICES ASSUME NEW i \in 1 .. R PROVE I[i + 1] = ups[i]
    OBVIOUS
  <2>1. i + 1 \in 1 .. Len(U)
    BY <1>1, <1>5
  <2> QED
    BY <1>5, <1>7, <2>1
<1>11. /\ Is(I[1], "connect") /\ Is(I[R + 2], "commit") /\ Is(I[R + 3], "connect")
       /\ Is(I[R + 4], "count") /\ Is(I[R + 5], "commit")
  BY <1>4, <1>5, <1>6, <1>8, <1>9
<1>12. \A i \in 1 .. R : Is(I[i + 1], "upsert") /\ I[i + 1].value = rows[i]
  BY <1>3, <1>10
<1> QED
  BY <1>2, <1>7, <1>8, <1>11, <1>12 DEF rows, R

\* What comes before: the transaction of --clear, and the loader.
LEMMA LoadPlanIs ==
    ASSUME NEW clear \in BOOLEAN, NEW csv \in Csvs
    PROVE  LET L == (IF clear THEN Transaction(Plain("delete", "", 0)) ELSE <<>>)
                        \o Plain("load", "", csv)
               c == Cleared(clear)
           IN  /\ L \in Seq(AnyStatement) /\ Len(L) = c + 1
               /\ clear => /\ Is(L[1], "connect") /\ Is(L[2], "delete")
                           /\ Is(L[3], "commit")
               /\ Is(L[c + 1], "load")
<1> DEFINE d == Plain("delete", "", 0)
           D == Transaction(d)
           l == Plain("load", "", csv)
<1>1. /\ d \in Seq(AnyStatement) /\ Len(d) = 1 /\ Is(d[1], "delete")
      /\ l \in Seq(AnyStatement) /\ Len(l) = 1 /\ Is(l[1], "load")
  BY SeedStatement DEF SeedOps
<1> HIDE DEF d, l
<1>2. /\ D \in Seq(AnyStatement) /\ Len(D) = 3 /\ Is(D[1], "connect")
      /\ Is(D[2], "delete") /\ Is(D[3], "commit")
  <2>1. /\ D \in Seq(AnyStatement) /\ Len(D) = Len(d) + 2 /\ Is(D[1], "connect")
        /\ \A i \in 1 .. Len(d) : D[i + 1] = d[i]
        /\ Is(D[Len(d) + 2], "commit")
    BY <1>1, TransactionIs
  <2> HIDE DEF D
  <2> QED
    BY <1>1, <2>1
<1> HIDE DEF D
<1>3. CASE clear
  <2>2. /\ D \o l \in Seq(AnyStatement) /\ Len(D \o l) = Len(D) + Len(l)
        /\ \A i \in 1 .. Len(D) : (D \o l)[i] = D[i]
        /\ \A i \in 1 .. Len(l) : (D \o l)[Len(D) + i] = l[i]
    BY <1>1, <1>2, Joined
  <2>1. /\ D \o l \in Seq(AnyStatement) /\ Len(D \o l) = 3 + 1
        /\ (D \o l)[1] = D[1] /\ (D \o l)[2] = D[2] /\ (D \o l)[3] = D[3]
        /\ (D \o l)[3 + 1] = l[1]
    BY <1>1, <1>2, <2>2
  <2> QED
    BY <1>1, <1>2, <1>3, <2>1 DEF Cleared, d, D, l
<1>4. CASE ~clear
  <2> DEFINE L == (IF clear THEN D ELSE <<>>) \o l
  <2>1. L = l
    BY <1>1, <1>4, ConcatEmptySeq
  <2>2. Cleared(clear) + 1 = 1
    BY <1>4 DEF Cleared
  <2> HIDE DEF L
  <2>3. /\ L \in Seq(AnyStatement) /\ Len(L) = Cleared(clear) + 1
        /\ Is(L[Cleared(clear) + 1], "load")
    BY <1>1, <2>1, <2>2
  <2> QED
    BY <1>4, <2>3 DEF d, D, l, L
<1> QED
  BY <1>3, <1>4

\* The whole plan, statement by statement.
LEMMA SeedPlanIs ==
    ASSUME NEW clear \in BOOLEAN, NEW csv \in Csvs
    PROVE  LET q == SeedPlan(clear, csv)
               c == Cleared(clear)
           IN  /\ q \in Seq(AnyStatement) /\ q # <<>>
               /\ csv = Broken => Len(q) = c + 1
               /\ csv # Broken => Len(q) = c + 6 + RowCount(csv)
               /\ \A k \in 1 .. Len(q) : Place(q, k, clear, csv)
<1> DEFINE L == (IF clear THEN Transaction(Plain("delete", "", 0)) ELSE <<>>)
                    \o Plain("load", "", csv)
           I == ImportPlan(RowsOf(csv))
           J == IF csv = Broken THEN <<>> ELSE I
           c == Cleared(clear)
           R == RowCount(csv)
           q == L \o J
<1>1. SeedPlan(clear, csv) = q
  BY DEF SeedPlan
<1>2. /\ L \in Seq(AnyStatement) /\ Len(L) = c + 1
      /\ clear => Is(L[1], "connect") /\ Is(L[2], "delete") /\ Is(L[3], "commit")
      /\ Is(L[c + 1], "load")
  BY LoadPlanIs
<1>3. csv # Broken =>
          /\ I \in Seq(AnyStatement) /\ Len(I) = R + 5 /\ R \in Nat
          /\ Is(I[1], "connect")
          /\ \A i \in 1 .. R : Is(I[i + 1], "upsert") /\ I[i + 1].value = RowsOf(csv)[i]
          /\ Is(I[R + 2], "commit") /\ Is(I[R + 3], "connect")
          /\ Is(I[R + 4], "count") /\ Is(I[R + 5], "commit")
  BY ImportPlanIs, RowsAre
<1>4. /\ csv = Broken => J = <<>>
      /\ csv # Broken => J = I
  OBVIOUS
<1>5. (clear => c = 3) /\ (~clear => c = 0) /\ c \in Nat
  BY DEF Cleared
<1> HIDE DEF L, I, J, c
<1>6. J \in Seq(AnyStatement)
  BY <1>3, <1>4, NoStatement
<1>7. /\ q \in Seq(AnyStatement) /\ Len(q) = Len(L) + Len(J)
      /\ \A i \in 1 .. Len(L) : q[i] = L[i]
      /\ \A i \in 1 .. Len(J) : q[Len(L) + i] = J[i]
  BY <1>2, <1>6, Joined
<1> HIDE DEF q
<1>8. /\ csv = Broken => Len(q) = c + 1
      /\ csv # Broken => Len(q) = c + 6 + R
  BY <1>2, <1>3, <1>4, <1>5, <1>7, NoStatement
<1>9. q # <<>>
  BY <1>3, <1>5, <1>8
<1>10. ASSUME NEW k \in 1 .. Len(q), k <= c + 1
       PROVE  \/ clear /\ k = 1 /\ Is(q[k], "connect")
              \/ clear /\ k = 2 /\ Is(q[k], "delete")
              \/ clear /\ k = 3 /\ Is(q[k], "commit")
              \/ k = c + 1 /\ Is(q[k], "load")
  <2>1. q[k] = L[k]
    BY <1>2, <1>5, <1>7, <1>10
  <2>2. k = c + 1 \/ (clear /\ (k = 1 \/ k = 2 \/ k = 3))
    BY <1>5, <1>10
  <2> QED
    BY <1>2, <2>1, <2>2
<1>11. ASSUME NEW k \in 1 .. Len(q), ~(k <= c + 1)
       PROVE  /\ csv # Broken
              /\ \/ k = c + 2 /\ Is(q[k], "connect")
                 \/ /\ k \in c + 3 .. c + 2 + R /\ Is(q[k], "upsert")
                    /\ q[k].value = RowsOf(csv)[k - (c + 2)]
                 \/ k = c + 3 + R /\ Is(q[k], "commit")
                 \/ k = c + 4 + R /\ Is(q[k], "connect")
                 \/ k = c + 5 + R /\ Is(q[k], "count")
                 \/ k = c + 6 + R /\ Is(q[k], "commit")
  <2>1. csv # Broken
    BY <1>5, <1>8, <1>11
  <2>2. R \in Nat /\ J = I /\ Len(I) = R + 5
    BY <1>3, <1>4, <2>1
  <2> DEFINE i == k - (c + 1)
  <2>3. i \in 1 .. Len(J) /\ k = Len(L) + i
    BY <1>2, <1>5, <1>8, <1>11, <2>1, <2>2
  <2>4. q[k] = I[i]
    BY <1>7, <2>2, <2>3
  <2>5. CASE i \in 2 .. R + 1
    <3>1. i - 1 \in 1 .. R /\ i = (i - 1) + 1 /\ i - 1 = k - (c + 2)
          /\ k \in c + 3 .. c + 2 + R
      BY <1>5, <2>2, <2>3, <2>5
    <3> DEFINE p == i - 1
    <3>2. p \in 1 .. R /\ i = p + 1 /\ p = k - (c + 2)
      BY <3>1
    <3> HIDE DEF i, p
    <3>3. Is(I[i], "upsert") /\ I[i].value = RowsOf(csv)[p]
      BY <1>3, <2>1, <3>2
    <3> QED
      BY <2>1, <2>4, <3>1, <3>2, <3>3
  <2>6. CASE i \notin 2 .. R + 1
    <3>1. \/ i = 1 /\ k = c + 2
          \/ i = R + 2 /\ k = c + 3 + R
          \/ i = R + 3 /\ k = c + 4 + R
          \/ i = R + 4 /\ k = c + 5 + R
          \/ i = R + 5 /\ k = c + 6 + R
      <4>1. /\ i \in 1 .. R + 5 /\ R \in Nat /\ c \in Nat /\ k = c + 1 + i
            /\ ~(2 <= i /\ i <= R + 1)
        BY <1>2, <1>5, <2>2, <2>3, <2>6
      <4> HIDE DEF i
      <4>2. i = 1 \/ i = R + 2 \/ i = R + 3 \/ i = R + 4 \/ i = R + 5
        BY <4>1
      <4>3. c + 1 + (R + 2) = c + 3 + R /\ c + 1 + (R + 3) = c + 4 + R
            /\ c + 1 + (R + 4) = c + 5 + R /\ c + 1 + (R + 5) = c + 6 + R
            /\ c + 1 + 1 = c + 2
        BY <4>1
      <4> QED
        BY <4>1, <4>2, <4>3
    <3> HIDE DEF i
    <3> QED
      BY <1>3, <2>1, <2>4, <3>1
  <2> QED
    BY <2>5, <2>6
<1>12. ASSUME NEW k \in 1 .. Len(q)
       PROVE  Place(q, k, clear, csv)
  <2>1. CASE k <= c + 1
    BY <1>10, <2>1 DEF Place, Is, SeedOps, c
  <2>2. CASE ~(k <= c + 1)
    BY <1>11, <2>2 DEF Place, Is, SeedOps, c
  <2> QED
    BY <2>1, <2>2
<1> QED
  BY <1>1, <1>7, <1>8, <1>9, <1>12 DEF c

\* The first k rows of a file, imported: the last of them for a symbol counts.
Mentions(rows, k, s) == {p \in 1 .. k : rows[p].symbol = s}
Greatest(ps) == CHOOSE p \in ps : \A q \in ps : q <= p
ImportedUpTo(old, rows, k) ==
    [s \in Symbols |-> IF Mentions(rows, k, s) = {} THEN old[s]
                       ELSE rows[Greatest(Mentions(rows, k, s))].value]

LEMMA ImportedNone ==
    ASSUME NEW old \in [Symbols -> Values \cup {0}], NEW rows
    PROVE  ImportedUpTo(old, rows, 0) = old
<1>1. \A s : Mentions(rows, 0, s) = {}
  BY DEF Mentions
<1> QED
  BY <1>1 DEF ImportedUpTo

LEMMA ImportedMore ==
    ASSUME NEW old, NEW rows, NEW k \in Nat, rows[k + 1] \in Row
    PROVE  ImportedUpTo(old, rows, k + 1)
             = [ImportedUpTo(old, rows, k) EXCEPT ![rows[k + 1].symbol] = rows[k + 1].value]
<1> DEFINE x == rows[k + 1].symbol
<1>1. x \in Symbols
  BY DEF Row
<1>2. Mentions(rows, k + 1, x) = Mentions(rows, k, x) \cup {k + 1}
  BY DEF Mentions
<1>3. Greatest(Mentions(rows, k + 1, x)) = k + 1
  <2> DEFINE ps == Mentions(rows, k + 1, x)
  <2>1. /\ k + 1 \in ps
        /\ \A q \in ps : q \in Int /\ q <= k + 1
    BY <1>2 DEF Mentions
  <2> HIDE DEF ps
  <2>2. \A p \in ps : (\A q \in ps : q <= p) => p = k + 1
    BY <2>1
  <2>3. \E p \in ps : \A q \in ps : q <= p
    BY <2>1
  <2>4. Greatest(ps) \in ps /\ \A q \in ps : q <= Greatest(ps)
    BY <2>3 DEF Greatest
  <2> QED
    BY <2>2, <2>4 DEF ps
<1>4. \A s : s # x => Mentions(rows, k + 1, s) = Mentions(rows, k, s)
  <2> SUFFICES ASSUME NEW s, s # x
               PROVE  Mentions(rows, k + 1, s) = Mentions(rows, k, s)
    OBVIOUS
  <2>1. \A p \in 1 .. k + 1 : rows[p].symbol = s => p \in 1 .. k
    <3> SUFFICES ASSUME NEW p \in 1 .. k + 1, rows[p].symbol = s
                 PROVE  p \in 1 .. k
      OBVIOUS
    <3>1. p # k + 1
      OBVIOUS
    <3> QED
      BY <3>1
  <2>2. \A p \in 1 .. k : p \in 1 .. k + 1
    OBVIOUS
  <2> QED
    BY <2>1, <2>2 DEF Mentions
<1>5. Mentions(rows, k + 1, x) # {}
  BY <1>2
<1> DEFINE f == ImportedUpTo(old, rows, k)
           g == ImportedUpTo(old, rows, k + 1)
<1>6. /\ f = [s \in Symbols |-> f[s]] /\ g = [s \in Symbols |-> g[s]]
      /\ g[x] = rows[k + 1].value
      /\ \A s \in Symbols : s # x => g[s] = f[s]
  <2>1. f = [s \in Symbols |-> f[s]] /\ g = [s \in Symbols |-> g[s]]
    BY DEF ImportedUpTo
  <2>2. g[x] = rows[k + 1].value
    BY <1>1, <1>3, <1>5 DEF ImportedUpTo
  <2>3. \A s \in Symbols : s # x => g[s] = f[s]
    BY <1>4 DEF ImportedUpTo
  <2> QED
    BY <2>1, <2>2, <2>3
<1> HIDE DEF f, g
<1>7. g = [f EXCEPT ![x] = rows[k + 1].value]
  BY <1>1, <1>6
<1> QED
  BY <1>7 DEF f, g, x

LEMMA ImportedAll ==
    ASSUME NEW old, NEW rows \in Seq(Row)
    PROVE  ImportedUpTo(old, rows, Len(rows)) = Imported(old, rows)
<1>1. DOMAIN rows = 1 .. Len(rows)
  BY LenProperties
<1>2. ASSUME NEW s
      PROVE  /\ s \in SymbolsOf(rows) <=> Mentions(rows, Len(rows), s) # {}
             /\ LastValue(rows, s) = rows[Greatest(Mentions(rows, Len(rows), s))].value
  BY <1>1 DEF SymbolsOf, LastValue, Mentions, Greatest
<1> QED
  BY <1>2 DEF Imported, ImportedUpTo

\* A second import of a file changes nothing.
LEMMA ImportedTwice ==
    ASSUME NEW old, NEW rows
    PROVE  Imported(Imported(old, rows), rows) = Imported(old, rows)
BY DEF Imported

------------------------------------------------------------------------------
\* What the tables hold when n statements of the import are done.
SeedData(n, clear, csv, sch, tks, pds) ==
    LET a == Cleared(clear) + 2
        R == RowCount(csv)
        rows == RowsOf(csv)
    IN  /\ clear /\ n = 2 => pds = NoTickers
        /\ (IF clear THEN 1 ELSE 2) <= n /\ "sp500_tickers" \notin sch.tables
               => pds = NoTickers
        /\ csv = Broken => n <= Cleared(clear)
        /\ csv # Broken =>
               /\ clear /\ 3 <= n /\ n <= a + R => tks = NoTickers
               /\ a <= n /\ n <= a + R => pds = ImportedUpTo(tks, rows, n - a)
               /\ a + R + 1 <= n
                      => tks = Imported(IF clear THEN NoTickers ELSE tks, rows)
               /\ a + R + 2 <= n => pds = tks

Executed == Len(SeedPlan(run.clear, run.csv)) - Len(plan)

ForImport == run.program = "seed_tickers"

SeedInv ==
    ForImport /\ run.ended \in {"runs", "complete"} =>
        /\ Executed \in 0 .. Len(SeedPlan(run.clear, run.csv))
        /\ \A i \in 1 .. Len(plan) : plan[i] = SeedPlan(run.clear, run.csv)[Executed + i]
        /\ SeedData(Executed, run.clear, run.csv, schema, tickers, pending)

\* The statement the import executes next.
LEMMA SeedStatementAt ==
    ASSUME PlanOK, SeedInv, ForImport, plan # <<>>
    PROVE  /\ run.clear \in BOOLEAN /\ run.csv \in Csvs /\ Executed \in Nat
           /\ Head(plan) = SeedPlan(run.clear, run.csv)[Executed + 1]
           /\ Place(SeedPlan(run.clear, run.csv), Executed + 1, run.clear, run.csv)
           /\ SeedData(Executed, run.clear, run.csv, schema, tickers, pending)
<1> DEFINE q == SeedPlan(run.clear, run.csv)
           n == Executed
<1>1. /\ run.clear \in BOOLEAN /\ run.csv \in Csvs /\ plan \in Seq(AnyStatement)
      /\ run.ended = "runs"
  BY DEF PlanOK, RunOK, ForImport
<1>2. /\ q \in Seq(AnyStatement)
      /\ \A k \in 1 .. Len(q) : Place(q, k, run.clear, run.csv)
  BY <1>1, SeedPlanIs
<1>3. /\ n \in 0 .. Len(q) /\ n = Len(q) - Len(plan)
      /\ \A i \in 1 .. Len(plan) : plan[i] = q[n + i]
      /\ SeedData(n, run.clear, run.csv, schema, tickers, pending)
  BY <1>1 DEF SeedInv, Executed
<1>4. Head(plan) = plan[1] /\ 1 \in 1 .. Len(plan)
  BY <1>1, NextStatement
<1> HIDE DEF q, n
<1>5. Len(q) \in Nat /\ Len(plan) \in Nat /\ n \in Nat /\ n + 1 \in 1 .. Len(q)
  BY <1>1, <1>2, <1>3, <1>4
<1> QED
  BY <1>1, <1>2, <1>3, <1>4, <1>5 DEF q, n

LEMMA SeedGoesOn ==
    ASSUME PlanOK, SeedInv, ForImport, plan # <<>>, GoOn,
           SeedData(Executed + 1, run.clear, run.csv, schema', tickers', pending')
    PROVE  SeedInv'
<1> DEFINE q == SeedPlan(run.clear, run.csv)
           n == Executed
<1>1. /\ run.clear \in BOOLEAN /\ run.csv \in Csvs /\ plan \in Seq(AnyStatement)
      /\ run.ended = "runs"
  BY DEF PlanOK, RunOK, ForImport
<1>2. plan' = Tail(plan) /\ run'.clear = run.clear /\ run'.csv = run.csv
  BY GoOnKeepsPlan
<1>3. /\ Len(plan') = Len(plan) - 1
      /\ \A i \in 1 .. Len(plan') : plan'[i] = plan[i + 1]
  BY <1>1, <1>2, NextStatement
<1>4. /\ n \in 0 .. Len(q) /\ n = Len(q) - Len(plan)
      /\ \A i \in 1 .. Len(plan) : plan[i] = q[n + i]
  BY <1>1 DEF SeedInv, Executed
<1>5. q \in Seq(AnyStatement)
  BY <1>1, SeedPlanIs
<1>6. q = SeedPlan(run'.clear, run'.csv)
  BY <1>2
<1>7. Executed' = Len(q) - Len(plan')
  BY <1>6 DEF Executed
<1> HIDE DEF q, n
<1>8. Len(q) \in Nat /\ Len(plan) \in Nat /\ Len(plan) >= 1
  BY <1>1, <1>5
<1>9. Executed' = n + 1 /\ n + 1 \in 0 .. Len(q)
  BY <1>3, <1>4, <1>7, <1>8
<1>10. ASSUME NEW i \in 1 .. Len(plan')
       PROVE  plan'[i] = q[(n + 1) + i]
  <2>1. i + 1 \in 1 .. Len(plan) /\ n + (i + 1) = (n + 1) + i
    BY <1>3, <1>4, <1>8
  <2> QED
    BY <1>3, <1>4, <2>1
<1>11. SeedData(n + 1, run'.clear, run'.csv, schema', tickers', pending')
  BY <1>2 DEF n
<1> QED
  BY <1>6, <1>9, <1>10, <1>11 DEF SeedInv

\* The import executes a statement.
Importing == /\ PlanOK /\ DataOK /\ SeedInv /\ ForImport /\ plan # <<>>
SeedDataNext ==
    SeedData(Executed + 1, run.clear, run.csv, schema', tickers', pending')

\* The places as numbers: c statements before the loader's, R rows.
LEMMA PlacesAre ==
    ASSUME NEW csv \in Csvs, NEW clear \in BOOLEAN
    PROVE  /\ clear => Cleared(clear) = 3
           /\ ~clear => Cleared(clear) = 0
           /\ csv # Broken => RowCount(csv) \in Nat
BY RowsAre DEF Cleared

LEMMA ConnectImports ==
    ASSUME Importing, Connect
    PROVE  DataOK' /\ SeedDataNext
<1> DEFINE n == Executed
           clear == run.clear
           csv == run.csv
           c == Cleared(clear)
           R == RowCount(csv)
<1>1. /\ clear \in BOOLEAN /\ csv \in Csvs /\ n \in Nat
      /\ Place(SeedPlan(clear, csv), n + 1, clear, csv)
      /\ SeedPlan(clear, csv)[n + 1].op = "connect"
      /\ SeedData(n, clear, csv, schema, tickers, pending)
  BY SeedStatementAt DEF Importing, Connect, Current
<1>2. schema' = schema /\ tickers' = tickers /\ pending' = tickers
  BY DEF Connect
<1>3. \/ clear /\ n + 1 = 1
      \/ csv # Broken /\ (n + 1 = c + 2 \/ n + 1 = c + 4 + R)
  BY <1>1 DEF Place
<1>4. /\ clear => c = 3
      /\ ~clear => c = 0
      /\ csv # Broken => R \in Nat
  BY <1>1, PlacesAre
<1>5. DataOK'
  BY <1>2 DEF Importing, DataOK
<1>6. /\ "sp500_tickers" \notin schema.tables => tickers = NoTickers
      /\ tickers \in [Symbols -> Values \cup {0}]
  BY DEF Importing, DataOK
<1>7. /\ csv # Broken /\ clear /\ 3 <= n /\ n <= c + 2 + R => tickers = NoTickers
      /\ csv # Broken /\ c + 2 + R + 1 <= n
            => tickers = Imported(IF clear THEN NoTickers ELSE tickers, RowsOf(csv))
  BY <1>1 DEF SeedData
<1>8. csv # Broken /\ c + 2 <= n + 1 /\ n + 1 <= c + 2 + R
          => tickers = ImportedUpTo(tickers, RowsOf(csv), (n + 1) - (c + 2))
  <2> SUFFICES ASSUME csv # Broken, c + 2 <= n + 1, n + 1 <= c + 2 + R
               PROVE  tickers = ImportedUpTo(tickers, RowsOf(csv), (n + 1) - (c + 2))
    OBVIOUS
  <2>1. (n + 1) - (c + 2) = 0
    BY <1>1, <1>3, <1>4
  <2> QED
    BY <1>6, <2>1, ImportedNone
<1> HIDE DEF n, c, R
<1>9. /\ clear /\ n + 1 = 2 => FALSE
      /\ csv = Broken => n + 1 <= c
      /\ csv # Broken /\ clear /\ 3 <= n + 1 /\ n + 1 <= c + 2 + R => tickers = NoTickers
      /\ csv # Broken /\ c + 2 + R + 1 <= n + 1
            => tickers = Imported(IF clear THEN NoTickers ELSE tickers, RowsOf(csv))
  BY <1>1, <1>3, <1>4, <1>7
<1>10. SeedData(n + 1, clear, csv, schema, tickers, tickers)
  BY <1>6, <1>8, <1>9 DEF SeedData, c, R
<1> QED
  BY <1>2, <1>5, <1>10 DEF SeedDataNext, n

LEMMA LoadImports ==
    ASSUME Importing, Load
    PROVE  DataOK' /\ SeedDataNext
<1> DEFINE n == Executed
           clear == run.clear
           csv == run.csv
           c == Cleared(clear)
           R == RowCount(csv)
<1>1. /\ clear \in BOOLEAN /\ csv \in Csvs /\ n \in Nat
      /\ Place(SeedPlan(clear, csv), n + 1, clear, csv)
      /\ SeedPlan(clear, csv)[n + 1].op = "load"
      /\ SeedData(n, clear, csv, schema, tickers, pending)
  BY SeedStatementAt DEF Importing, Load, Current
<1>2. schema' = schema /\ tickers' = tickers /\ pending' = pending /\ csv # Broken
  BY DEF Load
<1>3. n + 1 = c + 1
  BY <1>1 DEF Place
<1>4. /\ clear => c = 3
      /\ ~clear => c = 0
      /\ R \in Nat
  BY <1>1, <1>2, PlacesAre
<1>5. DataOK'
  BY <1>2 DEF Importing, DataOK
<1>6. /\ clear /\ 3 <= n /\ n <= c + 2 + R => tickers = NoTickers
      /\ (IF clear THEN 1 ELSE 2) <= n /\ "sp500_tickers" \notin schema.tables
            => pending = NoTickers
  BY <1>1, <1>2 DEF SeedData
<1> HIDE DEF n, c, R
<1>7. /\ ~(clear /\ n + 1 = 2)
      /\ (IF clear THEN 1 ELSE 2) <= n + 1 /\ "sp500_tickers" \notin schema.tables
            => pending = NoTickers
      /\ clear /\ 3 <= n + 1 /\ n + 1 <= c + 2 + R => tickers = NoTickers
      /\ ~(c + 2 <= n + 1) /\ ~(c + 2 + R + 1 <= n + 1) /\ ~(c + 2 + R + 2 <= n + 1)
  BY <1>1, <1>3, <1>4, <1>6
<1>8. SeedData(n + 1, clear, csv, schema, tickers, pending)
  BY <1>2, <1>7 DEF SeedData, c, R
<1> QED
  BY <1>2, <1>5, <1>8 DEF SeedDataNext, n

LEMMA DeleteImports ==
    ASSUME Importing, Delete
    PROVE  DataOK' /\ SeedDataNext
<1> DEFINE n == Executed
           clear == run.clear
           csv == run.csv
           c == Cleared(clear)
           R == RowCount(csv)
<1>1. /\ clear \in BOOLEAN /\ csv \in Csvs /\ n \in Nat
      /\ Place(SeedPlan(clear, csv), n + 1, clear, csv)
      /\ SeedPlan(clear, csv)[n + 1].op = "delete"
  BY SeedStatementAt DEF Importing, Delete, TickerStep, Current
<1>2. schema' = schema /\ tickers' = tickers /\ pending' = NoTickers
  BY DEF Delete, TickerStep
<1>3. clear /\ n + 1 = 2
  BY <1>1 DEF Place
<1>4. c = 3 /\ (csv # Broken => R \in Nat)
  BY <1>1, <1>3, PlacesAre
<1>5. DataOK'
  BY <1>2, NoTickersType DEF Importing, DataOK
<1> HIDE DEF n, c, R
<1>6. /\ n + 1 <= c /\ ~(3 <= n + 1) /\ ~(c + 2 <= n + 1)
      /\ csv # Broken => ~(c + 2 + R + 1 <= n + 1) /\ ~(c + 2 + R + 2 <= n + 1)
  BY <1>1, <1>3, <1>4
<1>7. SeedData(n + 1, clear, csv, schema, tickers, NoTickers)
  BY <1>6 DEF SeedData, c, R
<1> QED
  BY <1>2, <1>5, <1>7 DEF SeedDataNext, n

LEMMA UpsertImports ==
    ASSUME Importing, Upsert
    PROVE  DataOK' /\ SeedDataNext
<1> DEFINE n == Executed
           clear == run.clear
           csv == run.csv
           c == Cleared(clear)
           R == RowCount(csv)
           rows == RowsOf(csv)
           k == n - (c + 2)
<1>1. /\ clear \in BOOLEAN /\ csv \in Csvs /\ n \in Nat
      /\ Place(SeedPlan(clear, csv), n + 1, clear, csv)
      /\ SeedPlan(clear, csv)[n + 1].op = "upsert"
      /\ Head(plan) = SeedPlan(clear, csv)[n + 1]
      /\ SeedData(n, clear, csv, schema, tickers, pending)
  BY SeedStatementAt DEF Importing, Upsert, TickerStep, Current
<1>2. /\ schema' = schema /\ tickers' = tickers /\ "sp500_tickers" \in schema.tables
      /\ pending' = [pending EXCEPT ![Head(plan).value.symbol] = Head(plan).value.value]
  BY DEF Upsert, TickerStep
<1>3. /\ csv # Broken /\ n + 1 \in c + 3 .. c + 2 + R
      /\ Head(plan).value = rows[(n + 1) - (c + 2)]
  BY <1>1 DEF Place
<1>4. /\ clear => c = 3
      /\ ~clear => c = 0
      /\ R \in Nat /\ \A p \in 1 .. R : rows[p] \in Row
      /\ c \in Nat
  BY <1>1, <1>3, RowsAre DEF Cleared
<1>5. /\ pending = ImportedUpTo(tickers, rows, k)
      /\ clear => tickers = NoTickers
  BY <1>1, <1>3, <1>4 DEF SeedData
<1> HIDE DEF n, c, R, rows
<1>6. /\ k \in Nat /\ (n + 1) - (c + 2) = k + 1 /\ k + 1 \in 1 .. R
      /\ ~(c + 2 + R + 1 <= n + 1) /\ ~(c + 2 + R + 2 <= n + 1) /\ ~(clear /\ n + 1 = 2)
  BY <1>1, <1>3, <1>4
<1> HIDE DEF k
<1>7. rows[k + 1] \in Row /\ Head(plan).value = rows[k + 1]
  BY <1>3, <1>4, <1>6
<1>8. pending' = ImportedUpTo(tickers, rows, k + 1)
  <2>1. ImportedUpTo(tickers, rows, k + 1)
          = [ImportedUpTo(tickers, rows, k) EXCEPT
                ![rows[k + 1].symbol] = rows[k + 1].value]
    <3>1. k \in Nat /\ rows[k + 1] \in Row
      BY <1>6, <1>7
    <3> DEFINE old == tickers
    <3> HIDE DEF old
    <3>2. ImportedUpTo(old, rows, k + 1)
            = [ImportedUpTo(old, rows, k) EXCEPT
                  ![rows[k + 1].symbol] = rows[k + 1].value]
      BY <3>1, ImportedMore
    <3> QED
      BY <3>2 DEF old
  <2> QED
    BY <1>2, <1>5, <1>7, <2>1
<1>9. DataOK'
  BY <1>2, <1>7 DEF Importing, DataOK, Row
<1>10. SeedData(n + 1, clear, csv, schema, tickers, pending')
  BY <1>2, <1>3, <1>5, <1>6, <1>8 DEF SeedData, c, R, rows
<1> QED
  BY <1>2, <1>9, <1>10 DEF SeedDataNext, n

LEMMA CountImports ==
    ASSUME Importing, CountTickers
    PROVE  DataOK' /\ SeedDataNext
<1> DEFINE n == Executed
           clear == run.clear
           csv == run.csv
           c == Cleared(clear)
           R == RowCount(csv)
<1>1. /\ clear \in BOOLEAN /\ csv \in Csvs /\ n \in Nat
      /\ Place(SeedPlan(clear, csv), n + 1, clear, csv)
      /\ SeedPlan(clear, csv)[n + 1].op = "count"
      /\ SeedData(n, clear, csv, schema, tickers, pending)
  BY SeedStatementAt DEF Importing, CountTickers, TickerStep, Current
<1>2. schema' = schema /\ tickers' = tickers /\ pending' = pending
      /\ "sp500_tickers" \in schema.tables
  BY DEF CountTickers, TickerStep
<1>3. csv # Broken /\ n + 1 = c + 5 + R
  BY <1>1 DEF Place
<1>4. /\ clear => c = 3
      /\ ~clear => c = 0
      /\ R \in Nat /\ c \in Nat
  BY <1>1, <1>3, PlacesAre DEF Cleared
<1>5. DataOK'
  BY <1>2 DEF Importing, DataOK
<1>6. /\ c + 2 + R + 1 <= n
            => tickers = Imported(IF clear THEN NoTickers ELSE tickers, RowsOf(csv))
      /\ c + 2 + R + 2 <= n => pending = tickers
  BY <1>1, <1>3 DEF SeedData
<1> HIDE DEF n, c, R
<1>7. /\ c + 2 + R + 1 <= n /\ c + 2 + R + 2 <= n /\ ~(n + 1 <= c + 2 + R)
      /\ ~(n + 1 = 2)
  BY <1>1, <1>3, <1>4
<1>8. SeedData(n + 1, clear, csv, schema, tickers, pending)
  BY <1>2, <1>3, <1>6, <1>7 DEF SeedData, c, R
<1> QED
  BY <1>2, <1>5, <1>8 DEF SeedDataNext, n

\* What a commit makes of the table: nothing new, nothing at all or a whole file.
LEMMA CommitImports ==
    ASSUME Importing, Commit
    PROVE  /\ DataOK' /\ SeedDataNext
           /\ \/ tickers' \in {tickers, NoTickers}
              \/ run.csv # Broken /\ tickers' = Imported(tickers, RowsOf(run.csv))
<1> DEFINE n == Executed
           clear == run.clear
           csv == run.csv
           c == Cleared(clear)
           R == RowCount(csv)
           rows == RowsOf(csv)
<1>1. /\ clear \in BOOLEAN /\ csv \in Csvs /\ n \in Nat
      /\ Place(SeedPlan(clear, csv), n + 1, clear, csv)
      /\ SeedPlan(clear, csv)[n + 1].op = "commit"
      /\ SeedData(n, clear, csv, schema, tickers, pending)
  BY SeedStatementAt DEF Importing, Commit, Current
<1>2. schema' = schema /\ tickers' = pending /\ pending' = pending
  BY DEF Commit
<1>3. \/ clear /\ n + 1 = 3
      \/ csv # Broken /\ (n + 1 = c + 3 + R \/ n + 1 = c + 6 + R)
  BY <1>1 DEF Place
<1>4. /\ clear => c = 3
      /\ ~clear => c = 0
      /\ csv # Broken => R \in Nat /\ rows \in Seq(Row)
      /\ c \in Nat
  BY <1>1, RowsAre DEF Cleared
<1>5. "sp500_tickers" \notin schema.tables => pending = NoTickers
  <2>1. (IF clear THEN 1 ELSE 2) <= n
    BY <1>1, <1>3, <1>4
  <2> QED
    BY <1>1, <2>1 DEF SeedData
<1>6. DataOK'
  BY <1>2, <1>5 DEF Importing, DataOK
<1>7. CASE clear /\ n + 1 = 3
  <2>1. n = 2 /\ pending = NoTickers
    BY <1>1, <1>7 DEF SeedData
  <2> HIDE DEF n, c, R
  <2>2. /\ ~(n + 1 = 2) /\ n + 1 <= c /\ ~(c + 2 <= n + 1)
        /\ csv # Broken => ~(c + 2 + R + 1 <= n + 1) /\ ~(c + 2 + R + 2 <= n + 1)
    BY <1>4, <1>7
  <2>3. SeedData(n + 1, clear, csv, schema, pending, pending)
    BY <2>1, <2>2 DEF SeedData, c, R
  <2> QED
    BY <1>2, <1>6, <2>1, <2>3 DEF SeedDataNext, n
<1>8. CASE csv # Broken /\ n + 1 = c + 3 + R
  <2>1. n = c + 2 + R /\ n - (c + 2) = R
    BY <1>1, <1>4, <1>8
  <2>2. /\ pending = ImportedUpTo(tickers, rows, n - (c + 2))
        /\ clear => tickers = NoTickers
    BY <1>1, <1>4, <1>8, <2>1 DEF SeedData
  <2>3. R = Len(rows) /\ rows \in Seq(Row)
    BY <1>4, <1>8 DEF RowCount
  <2> HIDE DEF n, c, R, rows
  <2>4. pending = Imported(tickers, rows)
    BY <2>1, <2>2, <2>3, ImportedAll
  <2>5. pending = Imported(IF clear THEN NoTickers ELSE pending, rows)
    BY <2>2, <2>4, ImportedTwice
  <2>6. /\ ~(clear /\ n + 1 = 2) /\ ~(n + 1 <= c + 2 + R) /\ ~(c + 2 + R + 2 <= n + 1)
    BY <1>1, <1>4, <1>8
  <2>7. SeedData(n + 1, clear, csv, schema, pending, pending)
    BY <1>5, <1>8, <2>5, <2>6 DEF SeedData, c, R, rows
  <2> QED
    BY <1>2, <1>6, <1>8, <2>4, <2>7 DEF SeedDataNext, n, rows
<1>9. CASE csv # Broken /\ n + 1 = c + 6 + R
  <2>1. n = c + 5 + R
    BY <1>1, <1>4, <1>9
  <2>2. /\ pending = tickers
        /\ tickers = Imported(IF clear THEN NoTickers ELSE tickers, rows)
    BY <1>1, <1>4, <1>9, <2>1 DEF SeedData
  <2> HIDE DEF n, c, R, rows
  <2>3. /\ ~(clear /\ n + 1 = 2) /\ ~(n + 1 <= c + 2 + R)
    BY <1>1, <1>4, <1>9
  <2>4. SeedData(n + 1, clear, csv, schema, pending, pending)
    BY <1>5, <1>9, <2>2, <2>3 DEF SeedData, c, R, rows
  <2> QED
    BY <1>2, <1>6, <2>2, <2>4 DEF SeedDataNext, n
<1> QED
  BY <1>3, <1>7, <1>8, <1>9

\* A statement of the import that works, and one that does not.
LEMMA ImportSteps ==
    ASSUME Importing, TickerStatement \/ Connect
    PROVE  /\ PlanOK' /\ DataOK' /\ SeedInv' /\ ForImport'
           /\ \/ tickers' \in {tickers, NoTickers}
              \/ run.csv # Broken /\ tickers' = Imported(tickers, RowsOf(run.csv))
<1>1. GoOn /\ plan # <<>>
  BY TickerStatementIs DEF Connect, Current
<1>2. PlanOK' /\ run'.program = run.program
  BY <1>1, GoOnKeepsPlan DEF Importing
<1>3. /\ DataOK' /\ SeedDataNext
      /\ \/ tickers' \in {tickers, NoTickers}
         \/ run.csv # Broken /\ tickers' = Imported(tickers, RowsOf(run.csv))
  <2>1. CASE Connect
    BY <2>1, ConnectImports DEF Connect
  <2>2. CASE Load
    BY <2>2, LoadImports DEF Load
  <2>3. CASE Delete
    BY <2>3, DeleteImports DEF Delete, TickerStep
  <2>4. CASE Upsert
    BY <2>4, UpsertImports DEF Upsert, TickerStep
  <2>5. CASE CountTickers
    BY <2>5, CountImports DEF CountTickers, TickerStep
  <2>6. CASE Commit
    BY <2>6, CommitImports
  <2> QED
    BY <2>1, <2>2, <2>3, <2>4, <2>5, <2>6 DEF TickerStatement
<1>4. SeedInv'
  BY <1>1, <1>3, SeedGoesOn DEF Importing, SeedDataNext
<1> QED
  BY <1>2, <1>3, <1>4 DEF Importing, ForImport

LEMMA ImportFails ==
    ASSUME Importing, Fail
    PROVE  PlanOK' /\ DataOK' /\ SeedInv' /\ ForImport'
<1>1. Head(plan).try = <<>>
  BY SeedStatementAt DEF Importing, Place
<1>2. /\ plan' = <<>>
      /\ run' = [run EXCEPT !.failed = TRUE, !.ended = "raised"]
      /\ pending' = tickers /\ UNCHANGED <<schema, tickers>>
  BY <1>1 DEF Fail
<1>3. RunOK' /\ run'.ended = "raised" /\ run'.program = run.program
  BY <1>2 DEF Importing, PlanOK, RunOK, ForImport
<1>4. DataOK'
  BY <1>2 DEF Importing, DataOK
<1> QED
  BY <1>2, <1>3, <1>4 DEF Importing, PlanOK, SeedInv, ForImport

\* It has no statement for the schema.
LEMMA NoSchemaStatement ==
    ASSUME Importing
    PROVE  ~SchemaStatement /\ ~DropTable
<1>1. Head(plan).op \in SeedOps
  BY SeedStatementAt DEF Importing, Place
<1>2. SchemaStatement => Head(plan).op \in SchemaOps \ {"connect", "drop"}
  BY SchemaStatementIs
<1>3. DropTable => Head(plan).op = "drop"
  BY DEF DropTable, Current
<1> QED
  BY <1>1, <1>2, <1>3 DEF SeedOps, SchemaOps

LEMMA StartsImport ==
    ASSUME PlanOK, DataOK, NEW clear \in BOOLEAN, NEW csv \in Csvs, RunSeed(clear, csv)
    PROVE  PlanOK' /\ DataOK' /\ SeedInv' /\ ForImport'
<1> DEFINE q == SeedPlan(clear, csv)
<1>1. DataOK'
  BY DEF DataOK, RunSeed, Start
<1>2. /\ plan' = q
      /\ run' = [program |-> "seed_tickers", options |-> NoOptions,
                 settings |-> SomeSetting, clear |-> clear,
                 csv |-> csv, failed |-> FALSE, ended |-> "runs", count |-> run.count + 1]
      /\ run.count < MaxRuns
  BY DEF RunSeed, Start
<1>3. /\ RunOK' /\ run'.program = "seed_tickers" /\ run'.clear = clear /\ run'.csv = csv
      /\ run'.ended = "runs"
  <2>1. run.count + 1 \in 0 .. MaxRuns /\ NoOptions \in Options
    BY <1>2, CountStarted DEF PlanOK, NoOptions, Options
  <2> DEFINE n == run.count + 1
  <2> HIDE DEF n, q
  <2> QED
    BY <1>2, <2>1 DEF RunOK, Programs, n
<1>4. q \in Seq(AnyStatement) /\ q # <<>>
  BY SeedPlanIs
<1>5. Executed' = Len(q) - Len(q)
  BY <1>2, <1>3 DEF Executed
<1>6. SeedPlan(run'.clear, run'.csv) = q
  BY <1>3
<1> HIDE DEF q
<1>7. Len(q) \in Nat /\ Executed' = 0
  BY <1>4, <1>5
<1>8. SeedData(0, clear, csv, schema', tickers', pending')
  <2> DEFINE c == Cleared(clear)
             R == RowCount(csv)
  <2>1. /\ clear => c = 3
        /\ ~clear => c = 0
        /\ csv # Broken => R \in Nat
    BY PlacesAre
  <2> HIDE DEF c, R
  <2>2. /\ ~(clear /\ 0 = 2) /\ ~((IF clear THEN 1 ELSE 2) <= 0) /\ 0 <= c
        /\ ~(3 <= 0) /\ ~(c + 2 <= 0)
        /\ csv # Broken => ~(c + 2 + R + 1 <= 0) /\ ~(c + 2 + R + 2 <= 0)
    BY <2>1
  <2> QED
    BY <2>2 DEF SeedData, c, R
<1>9. \A i \in 1 .. Len(plan') : plan'[i] = q[0 + i]
  <2> SUFFICES ASSUME NEW i \in 1 .. Len(q) PROVE q[i] = q[0 + i]
    BY <1>2
  <2>1. 0 + i = i
    OBVIOUS
  <2> QED
    BY <2>1
<1>10. SeedInv'
  BY <1>3, <1>6, <1>7, <1>8, <1>9 DEF SeedInv
<1> QED
  BY <1>1, <1>2, <1>3, <1>4, <1>10 DEF PlanOK, ForImport

------------------------------------------------------------------------------
\* 4. The programs together.

SetupInv == PlanOK /\ DataOK /\ SchemaInv /\ SeedInv

LEMMA SetupInvInit ==
    ASSUME Init
    PROVE  SetupInv
<1>1. RunOK
  <2>1. NoOptions \in Options
    BY DEF NoOptions, Options
  <2>2. 0 \in 0 .. MaxRuns
    BY SetupAssumption
  <2>3. run = [program |-> "none", options |-> NoOptions, settings |-> SomeSetting,
               clear |-> FALSE, csv |-> <<>>, failed |-> FALSE, ended |-> "no run",
               count |-> 0]
    BY DEF Init
  <2> QED
    BY <2>1, <2>2, <2>3 DEF RunOK, Programs
<1>2. /\ plan = <<>> /\ plan \in Seq(AnyStatement)
      /\ run.ended = "no run" /\ run.program = "none"
  BY NoStatement DEF Init
<1>3. Bare \in Schemas
  BY DEF Bare, Schemas, Intervals
<1>4. DataOK
  BY <1>3, NoTickersType DEF Init, DataOK
<1> QED
  BY <1>1, <1>2, <1>4 DEF SetupInv, PlanOK, SchemaInv, SeedInv, ForImport

\* Which of the two invariants says nothing.
LEMMA OneProgram ==
    /\ run.program \in {"init_db", "hypertable_setup"} => SeedInv
    /\ run.program = "seed_tickers" => SchemaInv
BY DEF SeedInv, SchemaInv, ForImport

\* Every step keeps the invariant, and readers of sp500_tickers see no part of
\* an import.
WholeFiles == \/ tickers' \in {tickers, NoTickers}
              \/ /\ run.program = "seed_tickers" /\ run.csv # Broken
                 /\ tickers' = Imported(tickers, RowsOf(run.csv))

LEMMA SetupInvStep ==
    ASSUME SetupInv, [Next]_vars
    PROVE  SetupInv' /\ WholeFiles
<1>1. PlanOK /\ DataOK /\ SchemaInv /\ SeedInv
  BY DEF SetupInv
<1>2. CASE UNCHANGED vars
  <2>1. plan' = plan /\ run' = run /\ schema' = schema /\ tickers' = tickers
        /\ pending' = pending
    BY <1>2 DEF vars
  <2>2. PlanOK'
    BY <1>1, <2>1 DEF PlanOK, RunOK
  <2>3. DataOK'
    BY <1>1, <2>1 DEF DataOK
  <2>4. SchemaInv'
    BY <1>1, <2>1 DEF SchemaInv
  <2>5. SeedInv'
    BY <1>1, <2>1 DEF SeedInv, ForImport, Executed
  <2> QED
    BY <2>1, <2>2, <2>3, <2>4, <2>5 DEF SetupInv, WholeFiles
<1>3. ASSUME NEW o \in Options, NEW s \in Settings, RunInitDb(o, s)
      PROVE  SetupInv' /\ WholeFiles
  <2>1. tickers' = tickers
    BY <1>3 DEF RunInitDb, Start
  <2>2. PlanOK' /\ DataOK' /\ SchemaInv' /\ run'.program = "init_db"
    BY <1>1, <1>3, StartsInitDb
  <2> QED
    BY <2>1, <2>2 DEF SetupInv, WholeFiles, SeedInv, ForImport
<1>4. CASE RunSetup
  <2>1. tickers' = tickers
    BY <1>4 DEF RunSetup, Start
  <2>2. PlanOK' /\ DataOK' /\ SchemaInv' /\ run'.program = "hypertable_setup"
    BY <1>1, <1>4, StartsSetup
  <2> QED
    BY <2>1, <2>2 DEF SetupInv, WholeFiles, SeedInv, ForImport
<1>5. ASSUME NEW clear \in BOOLEAN, NEW csv \in Csvs, RunSeed(clear, csv)
      PROVE  SetupInv' /\ WholeFiles
  <2>1. tickers' = tickers
    BY <1>5 DEF RunSeed, Start
  <2>2. PlanOK' /\ DataOK' /\ SeedInv' /\ ForImport'
    BY <1>1, <1>5, StartsImport
  <2> QED
    BY <2>1, <2>2 DEF SetupInv, WholeFiles, SchemaInv, ForImport
<1>6. CASE Kill
  <2>1. tickers' = tickers
    BY <1>6 DEF Kill
  <2>2. PlanOK' /\ DataOK' /\ SchemaInv' /\ run'.ended = "killed"
    BY <1>1, <1>6, KillEnds
  <2> QED
    BY <2>1, <2>2 DEF SetupInv, WholeFiles, SeedInv
<1>7. ASSUME SchemaStatement \/ DropTable \/ Connect \/ TickerStatement \/ Fail
      PROVE  SetupInv' /\ WholeFiles
  <2>1. plan # <<>>
    BY <1>7, SchemaStatementIs, TickerStatementIs DEF DropTable, Connect, Current, Fail
  <2>2. ForSchema \/ ForImport
    BY <1>1, <2>1 DEF PlanOK, RunOK, Programs, ForSchema, ForImport
  <2>3. CASE ForSchema
    <3>1. ~TickerStatement
      BY <1>1, <2>3, NoTickerStatement
    <3>2. CASE SchemaStatement \/ DropTable \/ Connect
      <4>1. PlanOK' /\ DataOK' /\ SchemaInv' /\ ForSchema'
        BY <1>1, <2>3, <3>2, SchemaRunSteps
      <4>2. tickers' \in {tickers, NoTickers}
        BY <3>2, SchemaStatementIs DEF DropTable, Connect
      <4> QED
        BY <4>1, <4>2 DEF SetupInv, WholeFiles, SeedInv, ForSchema, ForImport
    <3>3. CASE Fail
      <4>1. PlanOK' /\ DataOK' /\ SchemaInv'
        BY <1>1, <2>3, <3>3, SchemaRunFails
      <4>2. tickers' = tickers /\ run'.program = run.program
        BY <1>1, <3>3 DEF Fail, PlanOK, RunOK
      <4> QED
        BY <2>3, <4>1, <4>2 DEF SetupInv, WholeFiles, SeedInv, ForSchema, ForImport
    <3> QED
      BY <1>7, <3>1, <3>2, <3>3
  <2>4. CASE ForImport
    <3>1. Importing
      BY <1>1, <2>1, <2>4 DEF Importing
    <3>2. ~SchemaStatement /\ ~DropTable
      BY <3>1, NoSchemaStatement
    <3>3. CASE TickerStatement \/ Connect
      <4>1. /\ PlanOK' /\ DataOK' /\ SeedInv' /\ ForImport'
            /\ \/ tickers' \in {tickers, NoTickers}
               \/ run.csv # Broken /\ tickers' = Imported(tickers, RowsOf(run.csv))
        BY <3>1, <3>3, ImportSteps
      <4> QED
        BY <2>4, <4>1 DEF SetupInv, WholeFiles, SchemaInv, ForImport
    <3>4. CASE Fail
      <4>1. PlanOK' /\ DataOK' /\ SeedInv' /\ ForImport'
        BY <3>1, <3>4, ImportFails
      <4>2. tickers' = tickers
        BY <3>4 DEF Fail
      <4> QED
        BY <4>1, <4>2 DEF SetupInv, WholeFiles, SchemaInv, ForImport
    <3> QED
      BY <1>7, <3>2, <3>3, <3>4
  <2> QED
    BY <2>2, <2>3, <2>4
<1> QED
  BY <1>2, <1>3, <1>4, <1>5, <1>6, <1>7 DEF Next, SchemaStatement, TickerStatement

THEOREM SetupInvHolds == Spec => []SetupInv
<1>1. Init => SetupInv
  BY SetupInvInit
<1>2. SetupInv /\ [Next]_vars => SetupInv'
  BY SetupInvStep
<1> QED
  BY <1>1, <1>2, PTL DEF Spec

\* The programs keep their plan, the database and the count of runs in order,
\* and a table that is not there has no rows.
THEOREM DatabaseTypeCorrect == Spec => []TypeOK
<1>1. SetupInv => TypeOK
  BY TypesAre DEF SetupInv
<1> QED
  BY <1>1, SetupInvHolds, PTL

\* A run without a failed statement has done all there is to do, whatever was
\* there before.
LEMMA CompleteIsDone ==
    ASSUME PlanOK, SchemaInv, NEW p \in {"init_db", "hypertable_setup"}, Complete(p)
    PROVE  /\ \A op, t : Needed(run, op, t) => Done(schema, op, t)
           /\ run.program = "init_db" /\ run.options.drop =>
                  \A t \in AggTables : Fresh(schema, t, run)
<1>1. plan = <<>>
  BY DEF PlanOK, Complete
<1>2. Progress(plan, run, schema)
  BY DEF SchemaInv, Complete
<1>3. \A op, t : ~Has(plan, op, t)
  BY <1>1 DEF Has
<1> QED
  BY <1>2, <1>3 DEF Progress

LEMMA CompleteImportIsDone ==
    ASSUME PlanOK, SeedInv, Complete("seed_tickers")
    PROVE  tickers = Imported(IF run.clear THEN NoTickers ELSE tickers, RowsOf(run.csv))
<1> DEFINE q == SeedPlan(run.clear, run.csv)
           c == Cleared(run.clear)
           R == RowCount(run.csv)
           n == Executed
<1>1. plan = <<>> /\ run.clear \in BOOLEAN /\ run.csv \in Csvs
  BY DEF PlanOK, RunOK, Complete
<1>2. /\ q \in Seq(AnyStatement)
      /\ run.csv = Broken => Len(q) = c + 1
      /\ run.csv # Broken => Len(q) = c + 6 + R
  BY <1>1, SeedPlanIs
<1>3. SeedData(n, run.clear, run.csv, schema, tickers, pending) /\ n = Len(q) - Len(plan)
  BY DEF SeedInv, Complete, ForImport, Executed
<1>4. n = Len(q)
  <2> HIDE DEF q, n
  <2> QED
    BY <1>1, <1>2, <1>3
<1>5. c \in Nat /\ (run.csv # Broken => R \in Nat)
  BY <1>1, PlacesAre DEF Cleared
<1>6. /\ run.csv = Broken => n <= c
      /\ run.csv # Broken /\ c + 2 + R + 1 <= n
            => tickers = Imported(IF run.clear THEN NoTickers ELSE tickers, RowsOf(run.csv))
  BY <1>3 DEF SeedData
<1> HIDE DEF q, c, R, n
<1> QED
  BY <1>2, <1>4, <1>5, <1>6

\* Whatever runs of any program were broken off before, a run without a failed
\* statement leaves the whole schema, and the values of the file.
THEOREM RerunRepairsHolds == Spec => []RerunRepairs
<1>1. ASSUME SetupInv
      PROVE  RerunRepairs
  <2>1. PlanOK /\ SchemaInv /\ SeedInv /\ schema \in Schemas
    BY <1>1 DEF SetupInv, DataOK
  <2>2. ASSUME Complete("init_db")
        PROVE  /\ schema.tables = Tables
               /\ ~run.options.skipHypertables =>
                      /\ \A t \in AggTables : HasAll(t)
                      /\ ~run.options.skipAggregate => schema.view /\ schema.refresh
    <3>1. \A op, t : Needed(run, op, t) => Done(schema, op, t)
      BY <2>1, <2>2, CompleteIsDone
    <3>2. run.program = "init_db"
      BY <2>2 DEF Complete
    <3>3. schema.tables = Tables
      <4>1. Needed(run, "tables", "")
        BY <3>2 DEF Needed
      <4> QED
        BY <3>1, <4>1 DEF Done
    <3>4. ASSUME ~run.options.skipHypertables, NEW t \in AggTables
          PROVE  HasAll(t)
      <4>1. \A op \in HyperOps : Needed(run, op, t)
        BY <3>2, <3>4 DEF Needed
      <4> QED
        BY <3>1, <4>1 DEF Done, HyperOps, HasAll
    <3>5. ASSUME ~run.options.skipHypertables, ~run.options.skipAggregate
          PROVE  schema.view /\ schema.refresh
      <4>1. /\ Needed(run, "view", "stock_agg_second")
            /\ Needed(run, "refresh", "stock_agg_second")
        BY <3>2, <3>5 DEF Needed
      <4> QED
        BY <3>1, <4>1 DEF Done
    <3> QED
      BY <3>3, <3>4, <3>5
  <2>3. ASSUME Complete("hypertable_setup")
        PROVE  /\ Tables \ {"sp500_tickers"} \subseteq schema.tables
               /\ \A t \in AggTables : HasAll(t)
               /\ schema.view /\ schema.refresh
    <3>1. \A op, t : Needed(run, op, t) => Done(schema, op, t)
      BY <2>1, <2>3, CompleteIsDone
    <3>2. run.program = "hypertable_setup"
      BY <2>3 DEF Complete
    <3>3. ASSUME NEW t \in Tables \ {"sp500_tickers"}
          PROVE  t \in schema.tables
      <4>1. Needed(run, "table", t)
        BY <3>2 DEF Needed
      <4> QED
        BY <3>1, <4>1 DEF Done
    <3>4. ASSUME NEW t \in AggTables
          PROVE  HasAll(t)
      <4>1. \A op \in HyperOps : Needed(run, op, t)
        BY <3>2 DEF Needed
      <4> QED
        BY <3>1, <4>1 DEF Done, HyperOps, HasAll
    <3>5. schema.view /\ schema.refresh
      <4>1. /\ Needed(run, "view", "stock_agg_second")
            /\ Needed(run, "refresh", "stock_agg_second")
        BY <3>2 DEF Needed
      <4> QED
        BY <3>1, <4>1 DEF Done
    <3> QED
      BY <3>3, <3>4, <3>5
  <2>4. Complete("seed_tickers") =>
            tickers = Imported(IF run.clear THEN NoTickers ELSE tickers, RowsOf(run.csv))
    BY <2>1, CompleteImportIsDone
  <2> QED
    BY <2>2, <2>3, <2>4 DEF RerunRepairs
<1> QED
  BY <1>1, SetupInvHolds, PTL

\* After init_db --drop-existing the intervals are those of the settings.
THEOREM FreshRunAppliesSettingsHolds == Spec => []FreshRunAppliesSettings
<1>1. ASSUME SetupInv
      PROVE  FreshRunAppliesSettings
  <2> SUFFICES ASSUME Complete("init_db"), run.options.drop,
                      ~run.options.skipHypertables, NEW t \in AggTables
               PROVE  /\ schema.chunk[t] = run.settings.chunk
                      /\ schema.retention[t] = run.settings.retention
                      /\ schema.compression[t] = run.settings.compression
    BY DEF FreshRunAppliesSettings
  <2>1. PlanOK /\ SchemaInv /\ run.program = "init_db"
    BY <1>1 DEF SetupInv, Complete
  <2>2. /\ \A op : Needed(run, op, t) => Done(schema, op, t)
        /\ Fresh(schema, t, run)
    BY <2>1, CompleteIsDone
  <2>3. \A op \in HyperOps : Needed(run, op, t)
    BY <2>1 DEF Needed
  <2> QED
    BY <2>2, <2>3 DEF Done, HyperOps, Fresh
<1> QED
  BY <1>1, SetupInvHolds, PTL

\* The readers of sp500_tickers see whole imports, whatever fails or is killed.
THEOREM ImportAllOrNothingHolds == Spec => ImportAllOrNothing
<1>1. SetupInv /\ [Next]_vars => WholeFiles
  BY SetupInvStep
<1>2. SetupInv /\ [Next]_vars =>
          [ \/ tickers' \in {tickers, NoTickers}
            \/ /\ run.program = "seed_tickers" /\ run.csv # Broken
               /\ tickers' = Imported(tickers, RowsOf(run.csv)) ]_vars
  BY <1>1 DEF WholeFiles
<1> QED
  BY <1>2, SetupInvHolds, PTL DEF Spec, ImportAllOrNothing
==============================================================================
